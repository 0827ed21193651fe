----------------------------- MODULE Withdrawal -----------------------------
(***************************************************************************)
(* An owner's withdrawal from the company's budget that waits for a button *)
(* in Telegram (internal/budget, internal/telegram): the request is        *)
(* stored, its message sent and then recorded; button presses come through *)
(* a webhook, are decided under a row lock and answered by an edit of the  *)
(* message; a sweep in cmd/server/main.go finds requests whose time is     *)
(* over, expires those still pending and edits the messages of all it had  *)
(* found.                                                                  *)
(*                                                                         *)
(* The message and the presses are Telegram's, modelled from the client's  *)
(* calls: a call may fail, with or without its effect, a press may be      *)
(* delivered again, and the server may stop between any two steps.         *)
(***************************************************************************)
EXTENDS Naturals, FiniteSets

CONSTANTS
    Request,
    None,          \* no sweep under way
    MaxTrouble     \* bound: failed calls, repeated deliveries and crashes

ASSUME MaxTroubleIsNat == MaxTrouble \in Nat

VARIABLES
    requests,    \* budget_withdrawal_requests: status, message id recorded
    withdrawn,   \* owner_withdrawal rows written for each request
    due,         \* requests whose expires_at has passed
    form,        \* where the handler that creates a request is
    message,     \* what the approval message of a request shows
    presses,     \* presses that Telegram has still to deliver
    answers,     \* edits that follow a decided press
    sweep,       \* the rows a sweep found: which, and whether with a message
    trouble

vars == <<requests, withdrawn, due, form, message, presses, answers, sweep,
          trouble>>

Status == {"none", "pending", "approved", "rejected", "expired"}
Action == {"approve", "reject"}
Outcome == [approve |-> "approved", reject |-> "rejected"]
Pending(r) == requests[r].status = "pending"
Decided(r) == requests[r].status \in {"approved", "rejected", "expired"}

TypeOK ==
    /\ requests \in [Request -> [status : Status, recorded : BOOLEAN]]
    /\ withdrawn \in [Request -> Nat]
    /\ due \subseteq Request
    /\ form \in [Request -> {"new", "send", "record", "done"}]
    /\ message \in [Request -> {"none", "buttons"} \cup (Status \ {"pending"})]
    /\ presses \subseteq [request : Request, action : Action]
    /\ answers \subseteq [request : Request, text : {"approved", "rejected"}]
    /\ sweep \in [step : {"update", "edit"}, found : SUBSET Request,
                  messages : SUBSET Request] \cup {None}
    /\ trouble \in 0 .. MaxTrouble

Init ==
    /\ requests = [r \in Request |-> [status |-> "none", recorded |-> FALSE]]
    /\ withdrawn = [r \in Request |-> 0]
    /\ due = {}
    /\ form = [r \in Request |-> "new"]
    /\ message = [r \in Request |-> "none"]
    /\ presses = {}
    /\ answers = {}
    /\ sweep = None
    /\ trouble = 0

Fails == trouble < MaxTrouble /\ trouble' = trouble + 1
Smooth == UNCHANGED trouble

------------------------------------------------------------------------------
(* POST /owner/budget/withdrawal                                            *)

CreateWithdrawalRequest(r) ==
    /\ form[r] = "new"
    /\ form' = [form EXCEPT ![r] = "send"]
    /\ requests' = [requests EXCEPT ![r].status = "pending"]
    /\ UNCHANGED <<withdrawn, due, message, presses, answers, sweep, trouble>>

\* A call that fails may have shown the message all the same; the handler ends
\* with an error and the request stays.
SendApproval(r) ==
    /\ form[r] = "send"
    /\ \/ /\ form' = [form EXCEPT ![r] = "record"]
          /\ message' = [message EXCEPT ![r] = "buttons"]
          /\ Smooth
       \/ /\ form' = [form EXCEPT ![r] = "done"]
          /\ \E shown \in {"none", "buttons"} :
                message' = [message EXCEPT ![r] = shown]
          /\ Fails
    /\ UNCHANGED <<requests, withdrawn, due, presses, answers, sweep>>

SetTelegramMessage(r) ==
    /\ form[r] = "record"
    /\ form' = [form EXCEPT ![r] = "done"]
    /\ \/ requests' = [requests EXCEPT ![r].recorded = TRUE] /\ Smooth
       \/ UNCHANGED requests /\ Fails
    /\ UNCHANGED <<withdrawn, due, message, presses, answers, sweep>>

------------------------------------------------------------------------------
(* Buttons                                                                  *)

Press(r, a) ==
    /\ message[r] = "buttons"
    /\ presses' = presses \cup {[request |-> r, action |-> a]}
    /\ UNCHANGED <<requests, withdrawn, due, form, message, answers, sweep,
                   trouble>>

\* The webhook has answered 200, or its answer was lost and the press will be
\* delivered again.
Acknowledge(p) ==
    \/ presses' = presses \ {p} /\ Smooth
    \/ UNCHANGED presses /\ Fails

\* mutant: the row is read before its lock, so a stale pending still decides.
MayDecideAnyway(r) == requests[r].status # "none"

MayDecide(r) == Pending(r)

\* ApproveWithdrawalRequest and RejectWithdrawalRequest: one transaction under
\* the lock of the row, which does not ask whether the time is over.
HandleTelegramDecision(p) ==
    LET r == p.request
        verdict == Outcome[p.action]
    IN  /\ p \in presses
        /\ MayDecide(r)
        /\ requests' = [requests EXCEPT ![r].status = verdict]
        /\ withdrawn' = [withdrawn EXCEPT
                            ![r] = IF verdict = "approved" THEN @ + 1 ELSE @]
        /\ answers' = answers \cup {[request |-> r, text |-> verdict]}
        /\ Acknowledge(p)
        /\ UNCHANGED <<due, form, message, sweep>>

\* ErrWithdrawalRequestDecided: a toast, and the message stays as it is.
AlreadyDecided(p) ==
    /\ p \in presses
    /\ ~MayDecide(p.request)
    /\ Acknowledge(p)
    /\ UNCHANGED <<requests, withdrawn, due, form, message, answers, sweep>>

\* The transaction is rolled back; the webhook answers 200 all the same.
DecisionFails(p) ==
    /\ p \in presses
    /\ presses' = presses \ {p}
    /\ Fails
    /\ UNCHANGED <<requests, withdrawn, due, form, message, answers, sweep>>

EditMessageText(a) ==
    /\ a \in answers
    /\ answers' = answers \ {a}
    /\ \/ message' = [message EXCEPT ![a.request] = a.text] /\ Smooth
       \/ UNCHANGED message /\ Fails
    /\ UNCHANGED <<requests, withdrawn, due, form, presses, sweep>>

------------------------------------------------------------------------------
(* Expiry                                                                   *)

TimeOut(r) ==
    /\ Pending(r)
    /\ r \notin due
    /\ due' = due \cup {r}
    /\ UNCHANGED <<requests, withdrawn, form, message, presses, answers, sweep,
                   trouble>>

\* mutant: the sweep looks for the messages it can edit.
ExpiredWithMessage ==
    {r \in Request : Pending(r) /\ r \in due /\ requests[r].recorded}

Expired == {r \in Request : Pending(r) /\ r \in due}

SweepFinds ==
    /\ sweep = None
    /\ Expired # {}
    /\ sweep' = [step |-> "update", found |-> Expired,
                 messages |-> {r \in Expired : requests[r].recorded}]
    /\ UNCHANGED <<requests, withdrawn, due, form, message, presses, answers,
                   trouble>>

StillPending(r) == r \in sweep.found /\ Pending(r)

SweepExpires ==
    /\ sweep # None
    /\ sweep.step = "update"
    /\ \/ /\ requests' = [r \in Request |->
                            IF StillPending(r)
                            THEN [requests[r] EXCEPT !.status = "expired"]
                            ELSE requests[r]]
          /\ sweep' = IF sweep.messages = {} THEN None
                      ELSE [sweep EXCEPT !.step = "edit"]
          /\ Smooth
       \/ UNCHANGED requests /\ sweep' = None /\ Fails
    /\ UNCHANGED <<withdrawn, due, form, message, presses, answers>>

SweepEdits ==
    /\ sweep # None
    /\ sweep.step = "edit"
    /\ \E r \in sweep.messages :
        /\ sweep' = IF sweep.messages = {r} THEN None
                    ELSE [sweep EXCEPT !.messages = @ \ {r}]
        /\ \/ message' = [message EXCEPT ![r] = "expired"] /\ Smooth
           \/ UNCHANGED message /\ Fails
    /\ UNCHANGED <<requests, withdrawn, due, form, presses, answers>>

SweepStep == SweepFinds \/ SweepExpires \/ SweepEdits

------------------------------------------------------------------------------

\* The server stops: what it had in hand is gone, what was not acknowledged
\* will be delivered again.
Crash ==
    /\ \/ sweep # None \/ answers # {}
       \/ \E r \in Request : form[r] \in {"send", "record"}
    /\ Fails
    /\ sweep' = None
    /\ answers' = {}
    /\ form' = [r \in Request |-> IF form[r] = "new" THEN "new" ELSE "done"]
    /\ UNCHANGED <<requests, withdrawn, due, message, presses>>

Next ==
    \/ \E r \in Request :
        \/ CreateWithdrawalRequest(r) \/ SendApproval(r)
        \/ SetTelegramMessage(r) \/ TimeOut(r)
        \/ \E a \in Action : Press(r, a)
    \/ \E p \in presses :
        HandleTelegramDecision(p) \/ AlreadyDecided(p) \/ DecisionFails(p)
    \/ \E a \in answers : EditMessageText(a)
    \/ SweepStep
    \/ Crash

\* Time passes, and the ticker starts the sweep every five minutes.
Fairness == WF_vars(SweepStep) /\ \A r \in Request : WF_vars(TimeOut(r))

Spec == Init /\ [][Next]_vars /\ Fairness

------------------------------------------------------------------------------
(* Properties                                                               *)

\* A withdrawal is decided once, by a button or by the clock, and its row of
\* the ledger is written once if it was approved and never otherwise, however
\* presses, deliveries, the sweep and crashes meet: every request implements
\* DecidedOnce (its Spec, written out because a sweep moves several at once).
Verdict(r) ==
    CASE Pending(r) \/ requests[r].status = "none" -> "pending"
      [] requests[r].status = "approved" -> "accepted"
      [] OTHER -> "rejected"
Ledger(r) == INSTANCE DecidedOnce
    WITH Document <- {r}, verdict <- [d \in {r} |-> Verdict(d)],
         effect <- withdrawn[r]
LedgerStep(r) ==
    Ledger(r)!Next \/ (Verdict(r)' = Verdict(r) /\ UNCHANGED withdrawn[r])
WithdrawnOnce ==
    /\ \A r \in Request : Ledger(r)!Init
    /\ [][\A r \in Request : LedgerStep(r)]_vars

\* A request does not wait for ever, whether or not its message was sent,
\* recorded or answered.
RequestsEnd == \A r \in Request : Pending(r) ~> Decided(r)

------------------------------------------------------------------------------
(* Sentences of the code that TLC refutes; README.md gives the instances.   *)

\* "one request the sweep goroutine just auto-expired": the message that says
\* expired belongs to an expired request.
ExpiredIsExpired ==
    \A r \in Request : message[r] = "expired" => requests[r].status = "expired"

\* The message is edited "once a request has been approved/rejected/expired, so
\* the buttons can't be pressed again".
ButtonsGoAway ==
    \A r \in Request :
        Decided(r) /\ form[r] = "done" /\ answers = {} /\ sweep = None
            => message[r] # "buttons"
==============================================================================
