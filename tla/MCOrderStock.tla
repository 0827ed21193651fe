---------------------------- MODULE MCOrderStock ----------------------------
(* Small instances of OrderStock for TLC.                                   *)
EXTENDS OrderStock, TLC

CONSTANTS c1, c2, s1, s2, k1, k2

CourierSymmetry == Permutations(Courier)
SlotSymmetry == Permutations(Slots)
StockSymmetry ==
    CourierSymmetry \cup SlotSymmetry \cup Permutations(Worker)

\* Bound: a behaviour has two couriers, stocktakes, returns, losses and requests
\* that look before they lock, and one order; or it has two orders and none of
\* those, and one courier at a time.
VARIABLE scene

SceneInit == scene \in {"one order", "one courier"} /\ Init

OneOrderNext ==
    /\ scene = "one order"
    /\ Next
    /\ \A o \in Order \ {1} : status'[o] = "absent"

\* The couriers who have an order, goods or a transfer.
Busy == {c \in Courier : \/ qty[c] > 0
                         \/ \E o \in Order : c \in {courier[o], home[o], read[o]}
                         \/ \E s \in Slots : /\ transfers[s] # Nobody
                                            /\ transfers[s].courier = c}

OneCourierNext ==
    /\ scene = "one courier"
    /\ \/ \E o \in Order : OrderStep(o)
       \/ \E s \in Slots : WarehouseStep(s)
    /\ UNCHANGED <<pending, claims>>
    /\ Cardinality(Busy') <= 1

SceneNext ==
    /\ OneOrderNext \/ OneCourierNext
    /\ UNCHANGED scene
SceneSpec == SceneInit /\ [][SceneNext]_<<scene, vars>>

------------------------------------------------------------------------------
(* Sentences of the code that TLC refutes; README.md gives the instances.  *)

\* When a courier gives an order back, the goods it had reserved are released.
GiveBackReleases ==
    [][\A o \in Order :
            /\ status[o] = "held" /\ status'[o] = "open"
            /\ courier[o] # Nobody /\ line[o] > 0
            => res' # res]_vars

\* Editing the quantity of a product that is reserved on a courier's warehouse
\* leaves it reserved there.
EditKeepsWarehouse ==
    [][\A o \in Order :
            /\ line[o] > 0 /\ line'[o] > 0 /\ line'[o] # line[o]
            /\ home[o] # Main
            => home'[o] = home[o]]_vars

\* A courier has one return waiting for a decision at most.
OneOpenReturn == \A c \in Courier : Cardinality(OpenReturns(c)) <= 1

\* A reservation is released once: an order that was closed before takes
\* nothing from the reserved stock when it is closed again.
ReleasedOnce ==
    [][\A o \in Order :
            /\ status'[o] # status[o]
            /\ status'[o] \in {"returned", "cancelled"}
            /\ res' # res
            => reached[o] = {}]_vars

\* When a courier gets an order, his warehouse has at least its line reserved.
ClaimedIsReserved ==
    [][\A o \in Order, c \in Courier :
            courier[o] # c /\ courier'[o] = c => line[o] <= res'[c]]_vars
==============================================================================
