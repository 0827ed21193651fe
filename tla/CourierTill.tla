----------------------------- MODULE CourierTill -----------------------------
(***************************************************************************)
(* The courier's till and warehouse screens (src/mobile/courier-app): a    *)
(* cash handover is typed, its photos are uploaded each by a call of its   *)
(* own and only then is the handover submitted; transfers from the main    *)
(* warehouse are accepted or rejected.  The amounts shown may be older     *)
(* than the server's.                                                      *)
(*                                                                         *)
(* Amounts are whole units.  The server's side is the payment limit of     *)
(* SubmitHandover and the status check of a transfer decision.             *)
(***************************************************************************)
EXTENDS Naturals, FiniteSets, FiniteSetsExt

CONSTANTS
    Transfer,       \* transfers waiting for this courier
    Idle,           \* null: no submission, no busyId
    MaxCash,        \* bound: amounts
    MaxFiles,       \* MAX_ATTACHMENTS
    MaxTries,       \* bound: handovers submitted, decisions pressed
    MaxTrouble      \* bound: uploads, requests and answers that fail

Amount == 0..MaxCash

\* The handover sheet, and a submission of it.  `sheet' tells one emptying of it
\* from the next, by the submissions there were until then.
Sheet == [open: BOOLEAN, amount: Amount, files: 0..MaxFiles, sheet: Nat]
Submission == [step: {"upload", "send", "taken", "refused"}, amount: Amount,
               left: 0..MaxFiles, sheet: Nat]

ASSUME FilesPositive == MaxFiles \in Nat \ {0}
ASSUME CashIsNat == MaxCash \in Nat
ASSUME IdleIsNull == Idle \notin Transfer \cup Submission

VARIABLES
    debt,       \* server: cash_to_handover
    handovers,  \* server: the pending handovers
    summary,    \* the summary on the screen
    answers,    \* summaries on their way
    form,       \* the handover sheet
    job,        \* the submission under way; Idle is ~submitting
    transfers,  \* server: status of each transfer
    goods,      \* server: transfers put on the courier's stock, counted
    listed,     \* the transfers the warehouse screen lists
    busy,       \* busyId
    presses,    \* transfer decisions under way
    spent       \* handovers, presses and troubles used up, for the bounds

till == <<debt, handovers, summary, answers, form, job>>
depot == <<transfers, goods, listed, busy, presses>>
vars == <<till, depot, spent>>

\* The sheet when nothing is typed.
Blank(n) == [open |-> FALSE, amount |-> 0, files |-> 0, sheet |-> n]
Empty == Blank(spent.tries)
Pending == MapThenSumSet(LAMBDA h : h.amount, handovers)
Truth == [debt |-> debt, pending |-> Pending]
Spend(what) == spent' = [spent EXCEPT ![what] = @ + 1]

\* availableToSubmit
Available(s) == IF s.debt > s.pending THEN s.debt - s.pending ELSE 0

Init ==
    /\ debt \in Amount
    /\ handovers = {}
    /\ summary = [debt |-> 0, pending |-> 0]
    /\ answers = {Truth}
    /\ form = Blank(0)
    /\ job = Idle
    /\ transfers = [t \in Transfer |-> "pending"]
    /\ goods = 0
    /\ listed = Transfer
    /\ busy = Idle
    /\ presses = {}
    /\ spent = [tries |-> 0, trouble |-> 0]

------------------------------------------------------------------------------
(* The summary                                                             *)

FetchData ==
    /\ answers' = answers \cup {Truth}
    /\ answers' # answers
    /\ UNCHANGED <<debt, handovers, summary, form, job, depot, spent>>

ShowSummary(s) ==
    /\ answers' = answers \ {s}
    /\ summary' = s
    /\ UNCHANGED <<debt, handovers, form, job, depot, spent>>

\* One of the two required queries fails: nothing on the screen changes.
FetchDataFails(s) ==
    /\ spent.trouble < MaxTrouble
    /\ Spend("trouble")
    /\ answers' = answers \ {s}
    /\ UNCHANGED <<debt, handovers, summary, form, job, depot>>

------------------------------------------------------------------------------
(* The handover sheet                                                      *)

Edit(f) ==
    /\ form' = f
    /\ UNCHANGED <<debt, handovers, summary, answers, job, depot, spent>>

\* Nothing to return, or all of it under review: the sheet stays shut.
OpenSheet ==
    /\ ~form.open
    /\ summary.debt > 0
    /\ Available(summary) > 0
    /\ Edit([form EXCEPT !.open = TRUE])

TypeAmount(a) ==
    /\ form.open
    /\ a # form.amount
    /\ Edit([form EXCEPT !.amount = a])

\* pickGallery and takePhoto up to the limit; addAssets cuts what is over it.
AddAssets(n) ==
    /\ form.open
    /\ form.files < MaxFiles
    /\ Edit([form EXCEPT !.files = IF @ + n > MaxFiles THEN MaxFiles
                                                       ELSE @ + n])

RemoveAttachment ==
    /\ form.open
    /\ form.files > 0
    /\ Edit([form EXCEPT !.files = @ - 1])

\* Not while submitting; what was typed is thrown away after a confirmation.
CloseHandoverSheet ==
    /\ form.open
    /\ job = Idle
    /\ Edit(Empty)

\* The inline checks of handleHandover, on the summary of the screen.
Checks(s, f) == f.amount > 0 /\ f.amount <= Available(s) /\ f.files > 0

\* mutant: the button is not disabled while a submission is under way.
PressAgain ==
    /\ form.open
    /\ Checks(summary, form)
    /\ spent.tries < MaxTries
    /\ Spend("tries")
    /\ job' = [step |-> "upload", amount |-> form.amount, left |-> form.files,
               sheet |-> form.sheet]
    /\ UNCHANGED <<debt, handovers, summary, answers, form, depot>>

HandleHandover ==
    /\ form.open
    /\ job = Idle
    /\ Checks(summary, form)
    /\ spent.tries < MaxTries
    /\ Spend("tries")
    /\ job' = [step |-> "upload", amount |-> form.amount, left |-> form.files,
               sheet |-> form.sheet]
    /\ UNCHANGED <<debt, handovers, summary, answers, form, depot>>

\* One photo through the private media pipeline; there is no other way up.
SecurePrivateUpload ==
    /\ job # Idle
    /\ job.step = "upload"
    /\ job' = IF job.left = 1 THEN [job EXCEPT !.step = "send", !.left = 0]
                              ELSE [job EXCEPT !.left = @ - 1]
    /\ UNCHANGED <<debt, handovers, summary, answers, form, depot, spent>>

\* SubmitHandover: one transaction with the courier's row locked.
SubmitHandover ==
    /\ job # Idle
    /\ job.step = "send"
    /\ IF job.amount <= Available(Truth)
       THEN /\ handovers' = handovers \cup
                    {[id |-> spent.tries, amount |-> job.amount,
                      sheet |-> job.sheet]}
            /\ job' = [job EXCEPT !.step = "taken"]
       ELSE job' = [job EXCEPT !.step = "refused"] /\ UNCHANGED handovers
    /\ UNCHANGED <<debt, summary, answers, form, depot, spent>>

HandoverTaken ==
    /\ job # Idle
    /\ job.step = "taken"
    /\ job' = Idle
    /\ form' = Empty
    /\ answers' = answers \cup {Truth}
    /\ UNCHANGED <<debt, handovers, summary, depot, spent>>

\* A photo is rejected, the limit is exceeded or the answer is lost, after the
\* handover was taken or before: the sheet stays as it is, with an error.
HandoverFails ==
    /\ job # Idle
    /\ \/ job.step = "refused" /\ UNCHANGED spent
       \/ spent.trouble < MaxTrouble /\ Spend("trouble")
    /\ job' = Idle
    /\ UNCHANGED <<debt, handovers, summary, answers, form, depot>>

\* Deliveries, and the dispatcher's decisions.
Deliver ==
    /\ debt < MaxCash
    /\ debt' = debt + 1
    /\ UNCHANGED <<handovers, summary, answers, form, job, depot, spent>>

Decide(h) ==
    /\ handovers' = handovers \ {h}
    /\ debt' \in {debt, debt - h.amount}
    /\ UNCHANGED <<summary, answers, form, job, depot, spent>>

------------------------------------------------------------------------------
(* The warehouse screen                                                    *)

\* Only the transfer of the last press has its buttons disabled, so several
\* decisions, also of one transfer, can be under way.
HandleDecision(t, verdict) ==
    /\ t \in listed
    /\ busy # t
    /\ spent.tries < MaxTries
    /\ Spend("tries")
    /\ busy' = t
    /\ presses' = presses \cup {[transfer |-> t, verdict |-> verdict,
                                 number |-> spent.tries, done |-> FALSE]}
    /\ UNCHANGED <<till, transfers, goods, listed>>

\* mutant: a decision does not look at the transfer's status.
DecideTwice(p) ==
    /\ p.done = FALSE
    /\ presses' = (presses \ {p}) \cup {[p EXCEPT !.done = TRUE]}
    /\ transfers' = [transfers EXCEPT ![p.transfer] = p.verdict]
    /\ goods' = IF p.verdict = "accepted" THEN goods + 1 ELSE goods
    /\ UNCHANGED <<till, listed, busy, spent>>

\* AcceptTransfer and RejectTransfer take a pending transfer only.
DecideTransfer(p) ==
    /\ p.done = FALSE
    /\ presses' = (presses \ {p}) \cup {[p EXCEPT !.done = TRUE]}
    /\ IF transfers[p.transfer] = "pending"
       THEN /\ transfers' = [transfers EXCEPT ![p.transfer] = p.verdict]
            /\ goods' = IF p.verdict = "accepted" THEN goods + 1 ELSE goods
       ELSE UNCHANGED <<transfers, goods>>
    /\ UNCHANGED <<till, listed, busy, spent>>

\* load(), then busyId is cleared, whoever set it.  A lost answer skips the
\* load.
DecisionAnswered(p) ==
    /\ \/ p.done /\ UNCHANGED spent
       \/ spent.trouble < MaxTrouble /\ Spend("trouble")
    /\ presses' = presses \ {p}
    /\ busy' = Idle
    /\ listed' \in {listed, {t \in Transfer : transfers[t] = "pending"}}
    /\ UNCHANGED <<till, transfers, goods>>

Load ==
    /\ listed' = {t \in Transfer : transfers[t] = "pending"}
    /\ UNCHANGED <<till, transfers, goods, busy, presses, spent>>

------------------------------------------------------------------------------
Handover ==
    \/ OpenSheet
    \/ RemoveAttachment
    \/ CloseHandoverSheet
    \/ HandleHandover
    \/ SecurePrivateUpload
    \/ SubmitHandover
    \/ HandoverTaken
    \/ HandoverFails
    \/ \E a \in Amount : TypeAmount(a)
    \/ \E n \in 1..MaxFiles : AddAssets(n)

TillStep ==
    \/ FetchData
    \/ Handover
    \/ Deliver
    \/ \E s \in answers : ShowSummary(s) \/ FetchDataFails(s)
    \/ \E h \in handovers : Decide(h)

DepotStep ==
    \/ Load
    \/ \E t \in Transfer, v \in {"accepted", "rejected"} : HandleDecision(t, v)
    \/ \E p \in presses : DecideTransfer(p) \/ DecisionAnswered(p)

Next == TillStep \/ DepotStep

Spec == Init /\ [][Next]_vars

------------------------------------------------------------------------------
(* Properties                                                              *)

Summary == [debt: Amount, pending: Amount]

TypeOK ==
    /\ debt \in Amount
    /\ handovers \subseteq [id: Nat, amount: Amount, sheet: Nat]
    /\ summary \in Summary
    /\ answers \subseteq Summary
    /\ form \in Sheet
    /\ job \in Submission \cup {Idle}
    /\ transfers \in [Transfer -> {"pending", "accepted", "rejected"}]
    /\ goods \in Nat
    /\ listed \subseteq Transfer
    /\ busy \in Transfer \cup {Idle}

\* What the courier fills in once is under review once, however often he
\* presses the button, whatever fails before the server has it and however old
\* the summary is he fills it in against: only an answer that gets lost after
\* the handover was taken lets the same sheet be handed in again.
SheetHandedIn ==
    \A n \in 0..MaxTries :
        Cardinality({h \in handovers : h.sheet = n}) <= 1 + spent.trouble

\* However often and from however old a list its buttons were pressed, a
\* transfer is decided once and its goods are put on the courier's stock once:
\* the screens and the server together implement DecidedOnce.
Documents == INSTANCE DecidedOnce
    WITH Document <- Transfer, verdict <- transfers, effect <- goods
DecidesOnce == Documents!Spec
==============================================================================
