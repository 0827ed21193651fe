----------------------------- MODULE MCOrderFlow -----------------------------
(* Small instances of OrderFlow for TLC.                                    *)
EXTENDS OrderFlow, TLC

CONSTANTS o1, o2, c1, c2

CapMany == [c \in Courier |-> 9]

OrderSymmetry == Permutations(Order)
CourierSymmetry == Permutations(Courier)
BothSymmetry == OrderSymmetry \cup CourierSymmetry

\* Bound: one order with two couriers and three requests, or two orders with
\* one courier and two requests.
OneOrder == status[o2] = "absent"
OneCourier ==
    /\ Cardinality(inflight) < 3
    /\ intake[c2]
    /\ \A o \in Order : c2 \notin {cache[o], holder[o]}
    /\ \A r \in inflight : r.courier # c2
Scenes == OneOrder \/ OneCourier

------------------------------------------------------------------------------
(* Sentences of the code that TLC refutes; README.md gives the instances.  *)

\* A courier's unclaim takes back an order that is not yet on its way.
UnclaimOnlyAssigned ==
    [][\A r \in inflight :
            r.kind = "unclaim" /\ GiveBackCommit(r)
                => status[r.order] = "assigned"]_vars

\* An address change or deferral is done by the courier of the active
\* assignment.
ResetByHolder ==
    [][\A r \in inflight : ResetCommit(r) => holder[r.order] = r.courier]_vars

\* A dispatcher's assignment leaves the courier within the configured maximum
\* of active orders.
AssignWithinCap ==
    [][\A r \in inflight :
            AssignCommit(r) => Load(r.courier)' <= MaxActive[r.courier]]_vars

\* A dispatcher's unassignment acts on an order a courier is holding.
UnassignOnlyHeld ==
    [][\A r \in inflight : UnassignCommit(r) => status[r.order] \in Held]_vars
==============================================================================
