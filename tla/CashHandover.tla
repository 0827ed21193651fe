---------------------------- MODULE CashHandover ----------------------------
(***************************************************************************)
(* The cash couriers bring back (internal/courier, internal/logistics): a  *)
(* courier submits the delivered orders that no live handover has, the     *)
(* dispatcher confirms or rejects, the owner enters, corrects or deletes   *)
(* handovers by hand, and the courier's debt is what is still missing.     *)
(*                                                                         *)
(* A submission looks and inserts in one transaction under an advisory     *)
(* lock of its courier, but reads what others commit meanwhile (READ       *)
(* COMMITTED): two steps.  Decisions read the handover first and write it  *)
(* back later, without a lock: two steps.                                  *)
(***************************************************************************)
EXTENDS Integers, Functions, SequencesExt

CONSTANTS
    Order, Courier,
    Nobody,        \* NULL, no request
    Due,           \* what the client pays less the courier's payout, per order
    Phone,         \* bound: submissions at once
    Desk,          \* bound: decisions at once
    Office,        \* the operations the owner's office uses
    Amount,        \* bound: the amounts people declare
    MaxHandovers   \* bound: handovers ever created

OfficeOperation == {"manual", "update", "edit", "delete", "reopen"}

ASSUME NobodyIsNull == Nobody \notin Courier \cup Amount
ASSUME DueIsNat == Due \in [Order -> Nat] /\ Amount \subseteq Nat
ASSUME OrdersAreFinite == IsFiniteSet(Order)
ASSUME OfficeIsKnown == Office \subseteq OfficeOperation

VARIABLES
    deliveredBy,   \* the courier of an order in status delivered, or Nobody
    handovers,     \* cash_handovers with their linked orders, oldest first
    phone,         \* submissions under way
    desk,          \* decisions under way: the row as it was read
    reopened,      \* history: the orders that were ever taken back
    revived        \* history: the handovers that were live again after they
                   \* had been rejected or deleted

past == <<reopened, revived>>
vars == <<deliveredBy, handovers, phone, desk, past>>

HandoverStatus == {"pending", "confirmed", "rejected", "disputed"}
Live == {"pending", "disputed", "confirmed"}
Ids == 1 .. Len(handovers)

SumOf(S, Op(_)) == FoldFunction(+, 0, [x \in S |-> Op(x)])
SumDue(S) == SumOf(S, LAMBDA o : Due[o])

Init ==
    /\ deliveredBy = [o \in Order |-> Nobody]
    /\ handovers = <<>>
    /\ phone = [p \in Phone |-> Nobody]
    /\ desk = [d \in Desk |-> Nobody]
    /\ reopened = {}
    /\ revived = {}

------------------------------------------------------------------------------
(* What a courier owes                                                     *)

LinkedIn(S) == UNION {handovers[i].orders :
                        i \in {j \in Ids : handovers[j].status \in S}}
DeliveredOf(c) == {o \in Order : deliveredBy[o] = c}
Of(c, S) == {i \in Ids : handovers[i].courier = c /\ handovers[i].status \in S}

\* COALESCE(actual_returned, total_to_return)
Accepted(h) == IF h.actual = Nobody THEN h.toReturn ELSE h.actual

\* mutant: the manual entries credit nothing.
ResidueOfLinked(h) == h.toReturn - Accepted(h)

Residue(h) == h.toReturn - Accepted(h)
                - (IF h.source = "manual" THEN Accepted(h) ELSE 0)

OrderDebt(c) == SumDue(DeliveredOf(c) \ LinkedIn({"confirmed"}))
SignedDebt(c) == OrderDebt(c) + SumOf(Of(c, {"confirmed"}),
                                      LAMBDA i : Residue(handovers[i]))
PendingAmount(c) == SumOf(Of(c, {"pending", "disputed"}),
                          LAMBDA i : Accepted(handovers[i]))
AtLeastZero(n) == IF n < 0 THEN 0 ELSE n

\* GetHandoverPaymentLimit
Available(c) == AtLeastZero(AtLeastZero(SignedDebt(c)) - PendingAmount(c))

------------------------------------------------------------------------------
(* Orders                                                                  *)

Deliver(o, c) ==
    /\ deliveredBy[o] = Nobody
    /\ deliveredBy' = [deliveredBy EXCEPT ![o] = c]
    /\ UNCHANGED <<handovers, phone, desk, past>>

Reopen(o) ==
    /\ "reopen" \in Office
    /\ deliveredBy[o] # Nobody
    /\ deliveredBy' = [deliveredBy EXCEPT ![o] = Nobody]
    /\ reopened' = reopened \cup {o}
    /\ UNCHANGED <<handovers, phone, desk, revived>>

------------------------------------------------------------------------------
(* Submission                                                              *)

FindEligibleHandoverOrders(c) ==
    DeliveredOf(c) \ LinkedIn({"pending", "confirmed", "disputed"})

\* mutant: no advisory lock.
LockIsFree(c) == c \in Courier

LockCourierForHandover(c) ==
    \A p \in Phone : phone[p] # Nobody => phone[p].courier # c

SubmitHandover(p, c, amount) ==
    /\ phone[p] = Nobody
    /\ LockCourierForHandover(c)
    /\ amount # Nobody => amount <= Available(c)
    /\ LET eligible == FindEligibleHandoverOrders(c)
       IN  /\ eligible = {} => amount # Nobody /\ amount > 0
           /\ phone' = [phone EXCEPT ![p] =
                [courier |-> c, orders |-> eligible, actual |-> amount]]
    /\ UNCHANGED <<deliveredBy, handovers, desk, past>>

Hang(p) == phone' = [phone EXCEPT ![p] = Nobody]

Insert(h) ==
    /\ Len(handovers) < MaxHandovers
    /\ handovers' = Append(handovers, h)

SubmitCommit(p) ==
    /\ phone[p] # Nobody
    /\ Insert([courier |-> phone[p].courier, orders |-> phone[p].orders,
               toReturn |-> SumDue(phone[p].orders), actual |-> phone[p].actual,
               status |-> "pending", source |-> "courier_app"])
    /\ Hang(p)
    /\ UNCHANGED <<deliveredBy, desk, past>>

SubmitAbort(p) ==
    /\ phone[p] # Nobody
    /\ Hang(p)
    /\ UNCHANGED <<deliveredBy, handovers, desk, past>>

\* The owner's entry: a courier and an amount, no orders.
CreateManual(c, amount) ==
    /\ "manual" \in Office
    /\ Insert([courier |-> c, orders |-> {}, toReturn |-> amount,
               actual |-> Nobody, status |-> "pending", source |-> "manual"])
    /\ UNCHANGED <<deliveredBy, phone, desk, past>>

------------------------------------------------------------------------------
(* Decisions                                                               *)

Read(d, i) ==
    /\ desk[d] = Nobody
    /\ handovers[i].status # "deleted"
    /\ desk' = [desk EXCEPT ![d] = [id |-> i, row |-> handovers[i]]]
    /\ UNCHANGED <<deliveredBy, handovers, phone, past>>

Done(d) ==
    /\ desk' = [desk EXCEPT ![d] = Nobody]
    /\ UNCHANGED <<deliveredBy, phone, reopened>>

Forget(d) ==
    /\ desk[d] # Nobody
    /\ Done(d)
    /\ UNCHANGED <<handovers, revived>>

\* Every decision is written here: what it makes live again is remembered.
Write(d, row) ==
    LET i == desk[d].id
    IN  /\ handovers' = [handovers EXCEPT ![i] = row]
        /\ revived' = revived \cup
                {j \in {i} : handovers[i].status \notin Live
                            /\ row.status \in Live}
        /\ Done(d)

\* GORM's Save writes back the whole row as it was read, whatever others made
\* of it since, and inserts it again when it is gone; its order links then have
\* nothing to refer to.
Save(d, row) ==
    /\ handovers[desk[d].id].status = "deleted" => row.orders = {}
    /\ Write(d, row)

Saw(d, S) == desk[d] # Nobody /\ desk[d].row.status \in S

ConfirmHandover(d, amount) ==
    /\ Saw(d, {"pending", "disputed"})
    /\ Save(d, [desk[d].row EXCEPT
            !.actual = amount,
            !.status = IF amount = desk[d].row.toReturn THEN "confirmed"
                                                        ELSE "disputed"])

ConfirmTransaction(d) ==
    /\ Saw(d, {"pending"})
    /\ Save(d, [desk[d].row EXCEPT
            !.actual = Accepted(desk[d].row), !.status = "confirmed"])

RejectHandover(d) ==
    /\ Saw(d, {"pending", "disputed"})
    /\ Save(d, [desk[d].row EXCEPT !.status = "rejected"])

\* The owner's updates write the columns that were sent (Nobody: not sent) into
\* the row as it is now, and their audit row needs the handover to be there.
Change(d, to, amount) ==
    LET row == handovers[desk[d].id]
        Sent(new, old) == IF new = Nobody THEN old ELSE new
    IN  /\ row.status # "deleted"
        /\ Write(d, [row EXCEPT !.status = Sent(to, row.status),
                                !.actual = Sent(amount, row.actual)])

UpdateHandover(d, to, amount) ==
    /\ "update" \in Office
    /\ Saw(d, {"pending", "disputed"})
    /\ Change(d, to, amount)

\* A correction writes what differs from the row as it was read: a new verdict,
\* another amount, or neither, where only a remark is corrected.
EditHandover(d, to, amount) ==
    LET New(value, read) == IF value = read THEN Nobody ELSE value
    IN  /\ "edit" \in Office
        /\ Saw(d, {"confirmed", "rejected", "disputed"})
        /\ Change(d, New(to, desk[d].row.status),
                     New(amount, desk[d].row.actual))

DeleteHandover(d) ==
    /\ "delete" \in Office
    /\ Saw(d, {"pending"})
    /\ Write(d, [handovers[desk[d].id] EXCEPT !.status = "deleted"])

------------------------------------------------------------------------------
Decide(d) ==
    \/ \E i \in Ids : Read(d, i)
    \/ \E amount \in Amount : ConfirmHandover(d, amount)
    \/ ConfirmTransaction(d)
    \/ RejectHandover(d)
    \/ \E to \in HandoverStatus \cup {Nobody}, amount \in Amount \cup {Nobody} :
            UpdateHandover(d, to, amount)
    \/ \E to \in {"confirmed", "rejected", Nobody},
          amount \in Amount \cup {Nobody} :
            EditHandover(d, to, amount)
    \/ DeleteHandover(d)
    \/ Forget(d)

Next ==
    \/ \E o \in Order : Reopen(o) \/ \E c \in Courier : Deliver(o, c)
    \/ \E p \in Phone, c \in Courier, amount \in Amount \cup {Nobody} :
            SubmitHandover(p, c, amount)
    \/ \E p \in Phone : SubmitCommit(p) \/ SubmitAbort(p)
    \/ \E c \in Courier, amount \in Amount : CreateManual(c, amount)
    \/ \E d \in Desk : Decide(d)

Spec == Init /\ [][Next]_vars

------------------------------------------------------------------------------
(* Properties                                                              *)

TypeOK ==
    /\ deliveredBy \in [Order -> Courier \cup {Nobody}]
    /\ handovers \in Seq([courier : Courier, orders : SUBSET Order,
                          toReturn : Nat, actual : Nat \cup {Nobody},
                          status : HandoverStatus \cup {"deleted"},
                          source : {"courier_app", "manual"}])
    /\ revived \subseteq Ids /\ reopened \subseteq Order

\* The other handovers, where they and i are in a status of S.
Others(i, S) ==
    {j \in Ids \ {i} : {handovers[i].status, handovers[j].status} \subseteq S}

\* The cash of an order is never claimed by two live handovers, whoever submits,
\* decides, corrects or deletes at the same time, but in two ways: one of them
\* was brought back after it had been rejected or deleted, or the order was
\* reopened and delivered again by another courier.
OneLiveHandover ==
    \A i \in Ids : \A j \in Others(i, Live) :
        \A o \in handovers[i].orders \cap handovers[j].orders :
            \/ {i, j} \cap revived # {}
            \/ o \in reopened /\ handovers[i].courier # handovers[j].courier

\* A courier whose accounts nobody went back on: no confirmed handover of his
\* was brought back, no order he has or handed over was reopened, and what was
\* accepted of a manual entry is what was entered.
Plain(c) ==
    /\ DeliveredOf(c) \cap reopened = {}
    /\ \A i \in Of(c, {"confirmed"}) :
        /\ i \notin revived /\ handovers[i].orders \cap reopened = {}
        /\ handovers[i].source = "manual"
            => Accepted(handovers[i]) = handovers[i].toReturn

\* The debt such a courier is shown is what he was due to bring for everything
\* he delivered, less what was accepted from him: partial payments, disputes
\* and their corrections, settlements without orders and manual entries
\* included, whatever decisions crossed each other.
DebtIsBalance ==
    \A c \in Courier : Plain(c) =>
        SignedDebt(c) = SumDue(DeliveredOf(c))
                        - SumOf(Of(c, {"confirmed"}),
                                LAMBDA i : Accepted(handovers[i]))
==============================================================================
