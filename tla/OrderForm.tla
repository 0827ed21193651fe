------------------------------ MODULE OrderForm ------------------------------
(* The page a seller creates an order on (CreateOrder.jsx): its draft in     *)
(* localStorage, the proof of a prepayment, which is uploaded before the     *)
(* order is sent and remembered for a second try, and the three requests of  *)
(* one submission: the customer, the upload, the order.                      *)
(*                                                                           *)
(* What is typed is a number, its fill: the first thing typed is 1, the next *)
(* is 2.  OrderCart has the cart.  A page that is left while its submission  *)
(* is under way finishes it out of sight: `left' is that page, `here' the    *)
(* one on the screen.                                                        *)
EXTENDS Integers, Sequences

CONSTANTS
    File,         \* files to choose from
    MaxFills,     \* times the seller types another order
    MaxUploads,   \* uploads the server may take
    MaxOrders,    \* orders the server may take
    NoFile, NoAsset, NoJob, NoForm

VARIABLES
    form,         \* the fields of the page on the screen
    draft,        \* localStorage: seller_create_order_draft_v2
    screen,       \* "form", "success" or "away"
    proof,        \* proofFile
    cached,       \* uploadedProofResult, of the page here and of the page left
    jobs,         \* the submission of either page, or NoJob
    assets,       \* the server's uploads: the file, and what became of it
    orders,       \* the server's orders, as they came
    fills,        \* history: fills typed so far
    doubt         \* history: fills that may have been ordered unnoticed

history == <<fills, doubt>>
vars == <<form, draft, screen, proof, cached, jobs, assets, orders, history>>

Place == {"here", "left"}
Asset == 1..MaxUploads
Fill == 0..MaxFills
Form == [fill: Fill, known: BOOLEAN, prepaid: BOOLEAN, bare: BOOLEAN]
Job == [stage: {"customer", "upload", "order"}, form: Form,
        file: File \cup {NoFile}, asset: Asset \cup {NoAsset}]
Upload == [file: File, state: {"free", "attached", "gone"}]
Order == [fill: Fill, file: File \cup {NoFile}, asset: Asset \cup {NoAsset}]

EMPTY_FORM == [fill |-> 0, known |-> FALSE, prepaid |-> FALSE, bare |-> FALSE]

TypeOK ==
    /\ form \in Form
    /\ draft \in Form \cup {NoForm}
    /\ screen \in {"form", "success", "away"}
    /\ proof \in File \cup {NoFile}
    /\ cached \in [Place -> Asset \cup {NoAsset}]
    /\ jobs \in [Place -> Job \cup {NoJob}]
    /\ assets \in Seq(Upload)
    /\ orders \in Seq(Order)
    /\ fills \in Fill
    /\ doubt \subseteq Fill

Init ==
    /\ form = EMPTY_FORM
    /\ draft = EMPTY_FORM
    /\ screen = "form"
    /\ proof = NoFile
    /\ cached = [m \in Place |-> NoAsset]
    /\ jobs = [m \in Place |-> NoJob]
    /\ assets = <<>>
    /\ orders = <<>>
    /\ fills = 0
    /\ doubt = {}

------------------------------------------------------------------------------
(* Typing.  Every change of the form is saved as the draft, and nothing      *)
(* stops the seller from typing while a submission is under way.             *)

SetForm(f) ==
    /\ form' = f
    /\ draft' = f

\* Another order: another cart, address, ...; `bare' when a line of the cart
\* has no picture yet.
Type(bare) ==
    /\ screen = "form"
    /\ fills < MaxFills
    /\ fills' = fills + 1
    /\ SetForm([form EXCEPT !.fill = fills', !.bare = bare])
    /\ UNCHANGED <<screen, proof, cached, jobs, assets, orders, doubt>>

\* A number of the list fills the customer in; another digit drops him.
SelectCustomer ==
    /\ screen = "form"
    /\ SetForm([form EXCEPT !.known = TRUE])
    /\ UNCHANGED <<screen, proof, cached, jobs, assets, orders, history>>
ClearSelection ==
    /\ screen = "form"
    /\ form.known
    /\ SetForm([form EXCEPT !.known = FALSE])
    /\ UNCHANGED <<screen, proof, cached, jobs, assets, orders, history>>

SetPayMode ==
    /\ screen = "form"
    /\ SetForm([form EXCEPT !.prepaid = ~@])
    /\ UNCHANGED <<screen, proof, cached, jobs, assets, orders, history>>

\* The file is asked for with a prepayment only, and stays chosen without it.
HandleProofFileChange(f) ==
    /\ screen = "form"
    /\ form.prepaid
    /\ proof' = f
    /\ cached' = [cached EXCEPT !["here"] = NoAsset]
    /\ UNCHANGED <<form, draft, screen, jobs, assets, orders, history>>

\* The product list came again, with the picture: the form is set, and saved,
\* on the success screen too.
BackfillImages ==
    /\ screen # "away"
    /\ form.bare
    /\ SetForm([form EXCEPT !.bare = FALSE])
    /\ doubt' = IF screen = "success" THEN doubt \cup {form.fill} ELSE doubt
    /\ UNCHANGED <<screen, proof, cached, jobs, assets, orders, fills>>

------------------------------------------------------------------------------
(* A submission.  It works with the form and the file of the moment it was   *)
(* started, and with what is remembered at the moment it looks.              *)

CanSubmit == form.fill # 0

\* The upload, or the order at once.
AfterCustomer(job, remembered) ==
    IF job.file = NoFile \/ ~job.form.prepaid
    THEN [job EXCEPT !.stage = "order"]
    ELSE IF remembered = NoAsset
         THEN [job EXCEPT !.stage = "upload"]
         ELSE [job EXCEPT !.stage = "order", !.asset = remembered]

Submit ==
    /\ screen = "form"
    /\ CanSubmit
    /\ jobs["here"] = NoJob
    /\ LET job == [stage |-> "customer", form |-> form, file |-> proof,
                   asset |-> NoAsset]
       IN jobs' = [jobs EXCEPT !["here"] =
                       IF form.known THEN AfterCustomer(job, cached["here"])
                       ELSE job]
    /\ UNCHANGED <<form, draft, screen, proof, cached, assets, orders, history>>

Sent(m, stage) == jobs[m] # NoJob /\ jobs[m].stage = stage

CreateCustomer(m) ==
    /\ Sent(m, "customer")
    /\ jobs' = [jobs EXCEPT ![m] = AfterCustomer(@, cached[m])]
    /\ UNCHANGED <<form, draft, screen, proof, cached, assets, orders, history>>

\* The result is remembered, whichever file is chosen by now.
UploadToMedia(m) ==
    /\ Sent(m, "upload")
    /\ Len(assets) < MaxUploads
    /\ assets' = Append(assets, [file |-> jobs[m].file, state |-> "free"])
    /\ cached' = [cached EXCEPT ![m] = Len(assets')]
    /\ jobs' = [jobs EXCEPT ![m].stage = "order", ![m].asset = Len(assets')]
    /\ UNCHANGED <<form, draft, screen, proof, orders, history>>

\* onError: the page keeps everything; a file that was sent stays remembered.
OnError(m) == jobs' = [jobs EXCEPT ![m] = NoJob]

FailsBeforeOrder(m) ==
    /\ Sent(m, "customer") \/ Sent(m, "upload")
    /\ OnError(m)
    /\ UNCHANGED <<form, draft, screen, proof, cached, assets, orders, history>>

\* The server's half of POST /orders: it claims the upload first.
Attachable(a) == a # NoAsset => assets[a].state = "free"
Marked(a, mark) ==
    IF a = NoAsset THEN assets ELSE [assets EXCEPT ![a].state = mark]
Create(m) ==
    /\ Sent(m, "order")
    /\ Attachable(jobs[m].asset)
    /\ Len(orders) < MaxOrders
    /\ orders' = Append(orders,
          [fill |-> jobs[m].form.fill, asset |-> jobs[m].asset,
           file |-> IF jobs[m].form.prepaid THEN jobs[m].file ELSE NoFile])
    /\ assets' = Marked(jobs[m].asset, "attached")

\* onSuccess.  Of a page that was left only the draft's removal is felt.
\* mutant: clearDraft forgotten.
OnSuccessKeepsDraft(m) ==
    /\ draft' = draft
    /\ cached' = [cached EXCEPT ![m] = NoAsset]
    /\ jobs' = [jobs EXCEPT ![m] = NoJob]
    /\ proof' = IF m = "here" THEN NoFile ELSE proof
    /\ screen' = IF m = "here" THEN "success" ELSE screen
OnSuccess(m) ==
    /\ draft' = NoForm
    /\ cached' = [cached EXCEPT ![m] = NoAsset]
    /\ jobs' = [jobs EXCEPT ![m] = NoJob]
    /\ proof' = IF m = "here" THEN NoFile ELSE proof
    /\ screen' = IF m = "here" THEN "success" ELSE screen

OrderTaken(m) ==
    /\ Create(m)
    /\ OnSuccess(m)
    /\ UNCHANGED <<form, history>>

\* The order is taken and the answer lost (or the browser reloaded: its draft
\* is still there).
AnswerLost(m) ==
    /\ Create(m)
    /\ OnError(m)
    /\ doubt' = doubt \cup {jobs[m].form.fill}
    /\ UNCHANGED <<form, draft, screen, proof, cached, fills>>

\* No stock: the transaction is rolled back, and what it had claimed is put
\* into quarantine.
OrderRefused(m) ==
    /\ Sent(m, "order")
    /\ Attachable(jobs[m].asset)
    /\ assets' = Marked(jobs[m].asset, "gone")
    /\ OnError(m)
    /\ UNCHANGED <<form, draft, screen, proof, cached, orders, history>>

\* Refused before that (no such city, no team), or the upload is not to be had.
OrderRejected(m) ==
    /\ Sent(m, "order")
    /\ OnError(m)
    /\ UNCHANGED <<form, draft, screen, proof, cached, assets, orders, history>>

------------------------------------------------------------------------------
(* Coming and going.                                                         *)

\* "Create another", or the tab's "+" on the success screen.
HandleCreateAnother ==
    /\ screen = "success"
    /\ SetForm(EMPTY_FORM)
    /\ screen' = "form"
    /\ proof' = NoFile
    /\ cached' = [cached EXCEPT !["here"] = NoAsset]
    /\ UNCHANGED <<jobs, assets, orders, history>>

\* The page goes, its submission stays.  One page left at a time.
Unmount(remembered) ==
    /\ jobs["left"] = NoJob
    /\ screen' = "away"
    /\ jobs' = [m \in Place |-> IF m = "left" THEN jobs["here"] ELSE NoJob]
    /\ cached' = [m \in Place |-> IF m = "left" THEN remembered ELSE NoAsset]
    /\ proof' = NoFile
    /\ doubt' = IF jobs["here"] = NoJob THEN doubt
                ELSE doubt \cup {jobs["here"].form.fill}

Leave ==
    /\ screen # "away"
    /\ Unmount(cached["here"])
    /\ UNCHANGED <<form, draft, assets, orders, fills>>

HandleClear ==
    /\ screen = "form"
    /\ Unmount(NoAsset)
    /\ SetForm(EMPTY_FORM)
    /\ UNCHANGED <<assets, orders, fills>>

Return ==
    /\ screen = "away"
    /\ screen' = "form"
    /\ SetForm(IF draft = NoForm THEN EMPTY_FORM ELSE draft)
    /\ UNCHANGED <<proof, cached, jobs, assets, orders, history>>

Next ==
    \/ \E bare \in BOOLEAN : Type(bare)
    \/ SelectCustomer \/ ClearSelection \/ SetPayMode
    \/ \E f \in File \cup {NoFile} : HandleProofFileChange(f)
    \/ BackfillImages
    \/ Submit
    \/ \E m \in Place :
        \/ CreateCustomer(m) \/ UploadToMedia(m) \/ FailsBeforeOrder(m)
        \/ OrderTaken(m) \/ AnswerLost(m)
        \/ OrderRefused(m) \/ OrderRejected(m)
    \/ HandleCreateAnother \/ Leave \/ HandleClear \/ Return

Spec == Init /\ [][Next]_vars

------------------------------------------------------------------------------
(* Properties.                                                               *)

\* What was typed once is ordered twice only if the first order may have gone
\* unnoticed: its answer was lost, its page was left before the answer, or a
\* picture that came late saved the draft again.  An order that was answered
\* leaves no draft behind to be sent once more.
NoSilentDuplicate == \A i, j \in DOMAIN orders :
    i # j /\ orders[i].fill = orders[j].fill => orders[i].fill \in doubt
==============================================================================
