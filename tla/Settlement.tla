----------------------------- MODULE Settlement -----------------------------
(***************************************************************************)
(* What a dispatcher collected from couriers and remits to the company     *)
(* (internal/dispatcher_settlements): he submits his whole balance, an     *)
(* owner confirms it at the amount counted or rejects it, and corrects     *)
(* decided settlements later.  Every change writes a row of the history in *)
(* its own transaction.                                                    *)
(*                                                                         *)
(* Nothing is locked: a submission sums first and inserts later, a         *)
(* decision looks, reads the row again and then updates it where it is     *)
(* still pending, a correction reads and then updates it as it is.         *)
(***************************************************************************)
EXTENDS Integers, Sequences, SequencesExt

CONSTANTS
    Filing,          \* bound: submissions at once
    Review,          \* bound: decisions and corrections at once
    Amount,          \* bound: the amounts that are counted, numbers
    None,            \* NULL, nothing under way
    MaxReceived,     \* bound: cash collected
    MaxSettlements,  \* bound: settlements ever submitted
    MaxChanges       \* bound: changes of a settlement that a review adds to

VARIABLES
    received,      \* the dispatcher's confirmed handovers, in cash
    settlements,   \* dispatcher_settlements, oldest first
    history,       \* dispatcher_settlement_edits of each settlement
    filing,        \* balances read by the submissions under way
    review         \* decisions under way: the row as it was read

vars == <<received, settlements, history, filing, review>>

Final == {"confirmed", "rejected"}
Ids == DOMAIN settlements
Row == [amount : Nat, status : Final \cup {"pending"},
        actual : Amount \cup {None}]
Change == [action : {"confirm", "reject", "edit"}, old : Row, new : Row]

TypeOK ==
    /\ received \in 0 .. MaxReceived
    /\ settlements \in Seq(Row)
    /\ history \in Seq(Seq(Change)) /\ DOMAIN history = Ids
    /\ filing \in [Filing -> Nat \cup {None}]
    /\ \A v \in Review : review[v] # None => review[v].id \in Ids

Init ==
    /\ received = 0
    /\ settlements = <<>>
    /\ history = <<>>
    /\ filing = [f \in Filing |-> None]
    /\ review = [v \in Review |-> None]

------------------------------------------------------------------------------
(* Sums                                                                     *)

\* COALESCE(actual_received, amount)
Counted(s) == IF s.actual = None THEN s.amount ELSE s.actual
Paid == FoldSeq(LAMBDA s, n : n + IF s.status = "confirmed" THEN Counted(s)
                                  ELSE 0,
                0, settlements)
DispatcherDebt == IF received < Paid THEN 0 ELSE received - Paid

\* logistics confirms a handover, or corrects one.
Collect ==
    /\ received' \in {received - 1, received + 1} \cap (0 .. MaxReceived)
    /\ UNCHANGED <<settlements, history, filing, review>>

------------------------------------------------------------------------------
(* Submission                                                               *)

OutstandingBalance(f) ==
    /\ filing[f] = None
    /\ DispatcherDebt > 0
    /\ filing' = [filing EXCEPT ![f] = DispatcherDebt]
    /\ UNCHANGED <<received, settlements, history, review>>

\* The insert may fail; then the proof is released and nothing is left.
Submit(f) ==
    /\ filing[f] # None
    /\ filing' = [filing EXCEPT ![f] = None]
    /\ \/ /\ Len(settlements) < MaxSettlements
          /\ settlements' = Append(settlements,
                [amount |-> filing[f], status |-> "pending", actual |-> None])
          /\ history' = Append(history, <<>>)
       \/ UNCHANGED <<settlements, history>>
    /\ UNCHANGED <<received, review>>

------------------------------------------------------------------------------
(* Decisions                                                                *)

\* Service.Confirm and Service.Reject: only a pending settlement goes on.
Look(v, i, action, actual) ==
    /\ review[v] = None
    /\ Len(history[i]) < MaxChanges
    /\ settlements[i].status = "pending"
    /\ action = "reject" => actual = None
    /\ action = "confirm" => actual # None
    /\ review' = [review EXCEPT ![v] =
                    [id |-> i, action |-> action, actual |-> actual,
                     row |-> None]]
    /\ UNCHANGED <<received, settlements, history, filing>>

Reread(v) ==
    /\ review[v] # None
    /\ review[v].row = None
    /\ review' = [review EXCEPT ![v].row = settlements[review[v].id]]
    /\ UNCHANGED <<received, settlements, history, filing>>

Outcome == [confirm |-> "confirmed", reject |-> "rejected"]

Decided(row, job) ==
    [row EXCEPT !.status = Outcome[job.action],
                !.actual = IF job.action = "confirm" THEN job.actual ELSE @]

\* mutant: the update does not ask for a pending row.
Anyway(i) == i \in Ids

StillPending(i) == settlements[i].status = "pending"

\* The update may match nothing; the row of the history is written all the
\* same, from the row that was read.
Decide(v) ==
    LET job == review[v] IN
    /\ job # None
    /\ job.row # None
    /\ job.action # "edit"
    /\ settlements' =
        IF StillPending(job.id)
        THEN [settlements EXCEPT ![job.id] = Decided(@, job)]
        ELSE settlements
    /\ history' = [history EXCEPT ![job.id] = Append(@,
            [action |-> job.action, old |-> job.row,
             new |-> Decided(job.row, job)])]
    /\ review' = [review EXCEPT ![v] = None]
    /\ UNCHANGED <<received, filing>>

------------------------------------------------------------------------------
(* Corrections                                                              *)

\* Repository.Edit: status and counted amount, each given or left.  None is a
\* field that was not sent or does not change.
ReadForEdit(v, i, status, actual) ==
    LET row == settlements[i]
        newStatus == IF status = row.status THEN None ELSE status
        newActual == IF actual = row.actual THEN None ELSE actual
    IN  /\ review[v] = None
        /\ Len(history[i]) < MaxChanges
        /\ row.status \in Final
        /\ newStatus # None \/ newActual # None
        /\ review' = [review EXCEPT ![v] =
                        [id |-> i, action |-> "edit", row |-> row,
                         status |-> newStatus, actual |-> newActual]]
        /\ UNCHANGED <<received, settlements, history, filing>>

Corrected(row, job) ==
    [row EXCEPT !.status = IF job.status = None THEN @ ELSE job.status,
                !.actual = IF job.actual = None THEN @ ELSE job.actual]

\* The fields that differ from the row that was read are written over
\* whatever the row is by now.
Edit(v) ==
    LET job == review[v] IN
    /\ job # None
    /\ job.action = "edit"
    /\ settlements' = [settlements EXCEPT ![job.id] = Corrected(@, job)]
    /\ history' = [history EXCEPT ![job.id] = Append(@,
            [action |-> "edit", old |-> job.row,
             new |-> Corrected(job.row, job)])]
    /\ review' = [review EXCEPT ![v] = None]
    /\ UNCHANGED <<received, filing>>

------------------------------------------------------------------------------
Next ==
    \/ Collect
    \/ \E f \in Filing : OutstandingBalance(f) \/ Submit(f)
    \/ \E v \in Review :
        \/ Reread(v) \/ Decide(v) \/ Edit(v)
        \/ \E i \in Ids, n \in Amount \cup {None} :
            \/ \E action \in {"confirm", "reject"} : Look(v, i, action, n)
            \/ \E status \in Final \cup {None} : ReadForEdit(v, i, status, n)

Spec == Init /\ [][Next]_vars

------------------------------------------------------------------------------
(* Properties                                                               *)

\* A settlement waits exactly while its history is empty, and until it is
\* corrected it is what the first row of its history says it became, whichever
\* of the decisions that were under way came second.
Uncorrected(i) ==
    \A n \in DOMAIN history[i] : history[i][n].action # "edit"
HistoryOpensWithVerdict ==
    \A i \in Ids :
        /\ settlements[i].status = "pending" <=> history[i] = <<>>
        /\ history[i] # <<>> /\ Uncorrected(i)
            => settlements[i] = Head(history[i]).new

------------------------------------------------------------------------------
(* Sentences of the code that TLC refutes; README.md gives the instances.   *)

\* "so it can't drift from what the owner sees when reviewing it": what waits
\* for the owner is what the dispatcher still owes.
SubmittedWithinDebt ==
    [][\A i \in Ids' :
        i \notin Ids =>
            FoldSeq(LAMBDA s, n : n + IF s.status = "pending" THEN s.amount
                                      ELSE 0,
                    0, settlements') <= DispatcherDebt']_vars

\* "appends one audit row describing a settlement change": the row tells what
\* became of the settlement.
EveryRowIsAChange ==
    [][\A i \in Ids :
        history'[i] # history[i]
            => settlements'[i] = history'[i][Len(history'[i])].new]_vars

\* actual_received "wasn't recorded (shouldn't happen for rows confirmed after
\* the verification flow shipped)".
ConfirmedIsCounted ==
    \A i \in Ids : settlements[i].status = "confirmed"
                        => settlements[i].actual # None
==============================================================================
