--------------------------- MODULE MCCashHandover ---------------------------
(* Small instances of CashHandover for TLC.                                 *)
EXTENDS CashHandover, TLC

CONSTANTS o1, o2, c1, c2, p1, p2, d1, d2

DueOne == [o \in Order |-> 1]
DueTwo == [o \in Order |-> 2]
PhoneSymmetry == Permutations(Phone) \cup Permutations(Desk)
HandoverSymmetry ==
    PhoneSymmetry \cup Permutations(Order) \cup Permutations(Courier)

------------------------------------------------------------------------------
(* Sentences of the code that TLC refutes: the first one in the run        *)
(* CashHandover_crossed, the other on an instance that README.md gives.    *)

\* An order is never linked to two handovers that are both still open, because
\* what is pending or disputed keeps its orders and only a rejection gives them
\* back (FindEligibleHandoverOrders).
NoDoubleClaim ==
    \A i \in Ids : \A j \in Others(i, {"pending", "disputed"}) :
        handovers[i].orders \cap handovers[j].orders = {}

\* A decision is final: a confirmed or rejected handover stays as it is unless
\* the owner edits it.
FinalStaysFinal ==
    [][\A i \in Ids :
            handovers[i].status \in {"confirmed", "rejected"}
                => handovers'[i] = handovers[i]]_vars
==============================================================================
