--------------------------- MODULE MCCourierPhone ----------------------------
(* The courier's phone for TLC: its session (CourierSession), and the till   *)
(* and the transfers of CourierTill.  None of the three reads what another   *)
(* writes, so a behaviour moves one of them.                                 *)
EXTENDS CourierTill

CONSTANTS Req, Me, MaxToken, q1, q2, t1, t2

VARIABLES
    part,       \* what this behaviour moves
    token, account, role, kept, store, screen, refreshing, queue, refreshJob,
    req, chore, trouble

sessionVars == <<token, account, role, kept, store, screen, refreshing, queue,
                 refreshJob, req, chore, trouble>>
phoneVars == <<part, sessionVars, vars>>

Session == INSTANCE CourierSession WITH job <- refreshJob

PhoneInit ==
    /\ part \in {"session", "till", "depot"}
    /\ Session!Init
    /\ Init
    /\ part # "till" => debt = 0

SessionNext ==
    /\ part = "session"
    /\ Session!Next
    /\ UNCHANGED <<part, till, depot, spent>>
TillNext ==
    /\ part = "till"
    /\ TillStep
    /\ UNCHANGED <<part, sessionVars>>
DepotNext ==
    /\ part = "depot"
    /\ DepotStep
    /\ UNCHANGED <<part, sessionVars>>
PhoneNext == SessionNext \/ TillNext \/ DepotNext

\* CourierSession's fairness.
Mine(A) ==
    /\ part = "session"
    /\ A
    /\ UNCHANGED <<part, till, depot, spent>>

Fairness ==
    /\ WF_phoneVars(Mine(Session!JobStep))
    /\ WF_phoneVars(Mine(Session!ChoreStep))
    /\ \A q \in Session!Call :
        /\ WF_phoneVars(Mine(Session!AttachToken(q)))
        /\ WF_phoneVars(Mine(Session!Answer(q)))

PhoneSpec == PhoneInit /\ [][PhoneNext]_phoneVars /\ Fairness

------------------------------------------------------------------------------
\* CourierSession's properties.
SessionKept == Session!SessionKept
QueuedIsServed == Session!QueuedIsServed

------------------------------------------------------------------------------
(* Sentences that TLC refutes; README.md gives the instances.                *)

\* Every request that queues is resumed or rejected.  Refuted: a 401 that
\* comes while the tokens are being deleted queues behind a refresh that is
\* over.
AllQueuedServed == \A q \in Req : (q \in queue) ~> (q \notin queue)

\* What the courier submits once is under review once.  Refuted: the answer of
\* a handover that was taken gets lost, and the sheet offers to try again.
SubmittedOnce == \A h \in handovers, k \in handovers :
    h # k => ~(form.open /\ form.amount = h.amount /\ h.amount = k.amount)
==============================================================================
