----------------------------- MODULE Onboarding -----------------------------
(***************************************************************************)
(* An application from the public form and its review (internal/onboarding *)
(* with the account it becomes in internal/users and the document it       *)
(* carries in internal/media).  All applications are of one person: one    *)
(* phone number, which an account and a pending application each have only *)
(* once (partial unique indexes).                                          *)
(*                                                                         *)
(* No step shares a transaction with another: a submission checks, uploads,*)
(* inserts the application and then its document; a review looks, lists    *)
(* the documents and then either creates the account, marks the            *)
(* application and attaches, or deletes the application and releases.      *)
(***************************************************************************)
EXTENDS FiniteSets

CONSTANTS
    Application,
    Review,       \* bound: reviews at once
    Owner,        \* accounts that may review
    OldestOwner,  \* the one whom uploads of applicants are booked to
    None          \* no account, nothing under way

VARIABLES
    applications,  \* worker_applications
    documented,    \* applications that have a row for their document
    asset,         \* the media asset of each application's document
    account,       \* the application that the phone's account was made from
    submission,    \* where POST /public/worker-applications is
    review         \* reviews under way

vars == <<applications, documented, asset, account, submission, review>>

TypeOK ==
    /\ applications \in
        [Application -> {"none", "pending", "approved", "deleted"}]
    /\ documented \subseteq Application
    /\ asset \in
        [Application -> {"none", "loose", "attached", "filed", "quarantined"}]
    /\ account \in Application \cup {None}
    /\ submission \in
        [Application -> {"new", "checked", "stored", "inserted", "over"}]
    /\ \A v \in Review : review[v] # None =>
        /\ review[v].app \in Application
        /\ review[v].verb \in {"approve", "reject"}
        /\ review[v].step \in {"list", "account", "mark", "attach", "file",
                               "delete", "release"}

Init ==
    /\ applications = [a \in Application |-> "none"]
    /\ documented = {}
    /\ asset = [a \in Application |-> "none"]
    /\ account = None
    /\ submission = [a \in Application |-> "new"]
    /\ review = [v \in Review |-> None]

------------------------------------------------------------------------------
(* Media                                                                    *)

\* ReleaseByID: quarantined whoever has it attached; again is no error.
Released(a) ==
    [asset EXCEPT ![a] = IF @ = "none" THEN @ ELSE "quarantined"]

------------------------------------------------------------------------------
(* Submission                                                               *)

CheckPhone(a) ==
    /\ submission[a] = "new"
    /\ submission' = [submission EXCEPT
                        ![a] = IF account = None THEN "checked" ELSE "over"]
    /\ UNCHANGED <<applications, documented, asset, account, review>>

\* With a document, without one, or a failed upload, which leaves nothing.
UploadDocuments(a) ==
    /\ submission[a] = "checked"
    /\ \/ /\ submission' = [submission EXCEPT ![a] = "stored"]
          /\ \E state \in {"none", "loose"} :
                asset' = [asset EXCEPT ![a] = state]
       \/ /\ submission' = [submission EXCEPT ![a] = "over"]
          /\ UNCHANGED asset
    /\ UNCHANGED <<applications, documented, account, review>>

\* uq_worker_applications_phone_pending
PhoneIsPending == \E b \in Application : applications[b] = "pending"

InsertApplication(a) ==
    /\ submission[a] = "stored"
    /\ IF PhoneIsPending
       THEN /\ submission' = [submission EXCEPT ![a] = "over"]
            /\ asset' = Released(a)
            /\ UNCHANGED applications
       ELSE /\ submission' = [submission EXCEPT ![a] = "inserted"]
            /\ applications' = [applications EXCEPT ![a] = "pending"]
            /\ UNCHANGED asset
    /\ UNCHANGED <<documented, account, review>>

\* The row of the document refers to the application, which a review may have
\* deleted; a failed insert releases the upload and leaves the application.
InsertDocument(a) ==
    /\ submission[a] = "inserted"
    /\ submission' = [submission EXCEPT ![a] = "over"]
    /\ \/ asset[a] = "none" /\ UNCHANGED <<documented, asset>>
       \/ /\ asset[a] # "none" /\ applications[a] # "deleted"
          /\ documented' = documented \cup {a}
          /\ UNCHANGED asset
       \/ /\ asset[a] # "none"
          /\ asset' = Released(a)
          /\ UNCHANGED documented
    /\ UNCHANGED <<applications, account, review>>

------------------------------------------------------------------------------
(* Review                                                                   *)

Goes(v, step) == [review EXCEPT ![v].step = step]
Ends(v) == [review EXCEPT ![v] = None]
At(v, step) == review[v] # None /\ review[v].step = step

LookAt(v, a, verb, owner) ==
    /\ review[v] = None
    /\ applications[a] = "pending"
    /\ review' = [review EXCEPT ![v] =
            [app |-> a, verb |-> verb, by |-> owner, step |-> "list",
             listed |-> FALSE]]
    /\ UNCHANGED <<applications, documented, asset, account, submission>>

ListDocuments(v) ==
    /\ At(v, "list")
    /\ review' = [review EXCEPT
            ![v].listed = review[v].app \in documented,
            ![v].step = IF review[v].verb = "approve" THEN "account"
                        ELSE "delete"]
    /\ UNCHANGED <<applications, documented, asset, account, submission>>

\* uq_users_phone: one account that is not deleted.
CreateWithPasswordHash(v) ==
    /\ At(v, "account")
    /\ IF account = None
       THEN account' = review[v].app /\ review' = Goes(v, "mark")
       ELSE UNCHANGED account /\ review' = Ends(v)
    /\ UNCHANGED <<applications, documented, asset, submission>>

\* mutant: the conditional update and delete lose their condition.
Exists(a) == applications[a] \in {"pending", "approved"}

StillPending(a) == applications[a] = "pending"

MarkApproved(v) ==
    /\ At(v, "mark")
    /\ IF StillPending(review[v].app)
       THEN /\ applications' = [applications EXCEPT
                                    ![review[v].app] = "approved"]
            /\ review' = IF review[v].listed THEN Goes(v, "attach")
                         ELSE Ends(v)
       ELSE UNCHANGED applications /\ review' = Ends(v)
    /\ UNCHANGED <<documented, asset, account, submission>>

\* AttachToOwner: only its uploader may attach an asset, and only one that is
\* loose; a document that cannot be attached is logged.
AttachUserDocument(v) ==
    LET a == review[v].app IN
    /\ At(v, "attach")
    /\ IF asset[a] = "loose" /\ review[v].by = OldestOwner
       THEN /\ asset' = [asset EXCEPT ![a] = "attached"]
            /\ review' = Goes(v, "file")
       ELSE UNCHANGED asset /\ review' = Ends(v)
    /\ UNCHANGED <<applications, documented, account, submission>>

\* The row of user_documents, or the release of the asset when it fails.
CreateDocument(v) ==
    LET a == review[v].app IN
    /\ At(v, "file")
    /\ \/ asset' = [asset EXCEPT ![a] = IF @ = "attached" THEN "filed" ELSE @]
       \/ asset' = Released(a)
    /\ review' = Ends(v)
    /\ UNCHANGED <<applications, documented, account, submission>>

\* The rows of its documents go with the application (ON DELETE CASCADE).
Delete(v) ==
    LET a == review[v].app IN
    /\ At(v, "delete")
    /\ IF StillPending(a)
       THEN /\ applications' = [applications EXCEPT ![a] = "deleted"]
            /\ documented' = documented \ {a}
            /\ review' = IF review[v].listed THEN Goes(v, "release")
                         ELSE Ends(v)
       ELSE UNCHANGED <<applications, documented>> /\ review' = Ends(v)
    /\ UNCHANGED <<asset, account, submission>>

ReleaseMedia(v) ==
    /\ At(v, "release")
    /\ asset' = Released(review[v].app)
    /\ review' = Ends(v)
    /\ UNCHANGED <<applications, documented, account, submission>>

------------------------------------------------------------------------------

\* users.Service.Delete: the phone is free again.
Dismiss ==
    /\ account # None
    /\ account' = None
    /\ UNCHANGED <<applications, documented, asset, submission, review>>

Next ==
    \/ \E a \in Application :
        \/ CheckPhone(a) \/ UploadDocuments(a) \/ InsertApplication(a)
        \/ InsertDocument(a)
        \/ \E v \in Review, verb \in {"approve", "reject"}, owner \in Owner :
                LookAt(v, a, verb, owner)
    \/ \E v \in Review :
        \/ ListDocuments(v) \/ CreateWithPasswordHash(v) \/ MarkApproved(v)
        \/ AttachUserDocument(v) \/ CreateDocument(v)
        \/ Delete(v) \/ ReleaseMedia(v)
    \/ Dismiss

Spec == Init /\ [][Next]_vars

------------------------------------------------------------------------------
(* Properties                                                               *)

\* A document that reached an employee's profile is never quarantined by a
\* review or a submission that was under way, and until it is there or given
\* up no review that lost has touched it.
FiledDocumentStays ==
    [][\A a \in Application :
        /\ asset[a] = "filed" => asset'[a] = "filed"
        /\ applications[a] = "approved" /\ asset[a] = "loose"
           /\ asset'[a] = "quarantined" => submission[a] = "inserted"]_vars

------------------------------------------------------------------------------
(* Sentences of the code that TLC refutes; README.md gives the instances.   *)

\* "a rejected application is deleted outright": nobody works on one.
NoAccountOfTheRejected ==
    \A a \in Application :
        applications[a] = "deleted"
            => account # a \/ \E v \in Review : review[v] # None

\* "Attached documents are handed over to the new user ... so they immediately
\* show up on the employee's profile".
DocumentsShowUp ==
    \A a \in Application :
        /\ applications[a] = "approved" /\ a \in documented
        /\ \A v \in Review : review[v] = None
        => asset[a] = "filed"
==============================================================================
