------------------------------ MODULE OrderFlow ------------------------------
(***************************************************************************)
(* The life of an order: its status, the courier who holds it, the         *)
(* timeline that gates one-shot side effects, and the requests that read   *)
(* without a lock and write later (internal/orders, internal/dispatch,     *)
(* internal/courier).                                                      *)
(*                                                                         *)
(* A database transaction that locks the order row first is one action.    *)
(* Handlers that read before their transaction starts, and the dispatcher  *)
(* assignment, which counts the orders of a courier while it has only one  *)
(* of them locked, take two steps: the read puts a request in `inflight',  *)
(* the commit takes it out.                                                *)
(***************************************************************************)
EXTENDS Naturals, FiniteSets

CONSTANTS
    Order,          \* order ids
    Courier,        \* active users of role courier
    NoCourier,      \* SQL NULL in orders.courier_id
    PrepayOrders,   \* the orders a customer prepays
    MaxActive,      \* users.courier_max_active_orders (large when NULL)
    MaxInFlight     \* bound: requests between their read and their commit

ASSUME NoCourierIsNull == NoCourier \notin Courier
ASSUME PrepayIsOrders == PrepayOrders \subseteq Order
ASSUME CapIsNat == MaxActive \in [Courier -> Nat]

VARIABLES
    status,         \* orders.status, "absent" until Create commits
    cache,          \* orders.courier_id
    holder,         \* courier of the is_active order_assignments row
    everDelivered,  \* order_timeline has an entry with to_status delivered
    postings,       \* commits of deductInventory + emitFinancialEvents
    prepay,         \* orders.prepayment_status
    intake,         \* users.courier_order_intake_enabled
    inflight        \* requests that have read and not yet committed

vars == <<status, cache, holder, everDelivered, postings,
          prepay, intake, inflight>>

Status == {"new", "confirmed", "assigned", "in_delivery",
           "delivered", "returned", "cancelled"}
Outcome == {"delivered", "returned", "cancelled"}
Held == {"assigned", "in_delivery"}

\* Requests that hold the order row lock between their two steps, and
\* requests that have only looked.
LockingKind == {"assign", "reassign"}
LookingKind == {"unassign", "unclaim", "release", "reset"}
Request == [kind: LockingKind \cup LookingKind,
            order: Order, courier: Courier \cup {NoCourier}]

Locked(o) == \E r \in inflight : r.order = o /\ r.kind \in LockingKind
Load(c) == Cardinality({o \in Order : cache[o] = c /\ status[o] \in Held})

Init ==
    /\ status = [o \in Order |-> "absent"]
    /\ cache = [o \in Order |-> NoCourier]
    /\ holder = [o \in Order |-> NoCourier]
    /\ everDelivered = [o \in Order |-> FALSE]
    /\ postings = [o \in Order |-> 0]
    /\ prepay = [o \in Order |-> "none"]
    /\ intake = [c \in Courier |-> TRUE]
    /\ inflight = {}

------------------------------------------------------------------------------
(* Creation and prepayments                                                *)

\* An order with a prepayment waits for the dispatcher in `new'; a dispatcher
\* may force `new' or `confirmed' on an office order.
Create(o, forced) ==
    /\ status[o] = "absent"
    /\ LET pays == o \in PrepayOrders
           initial == IF forced \in {"new", "confirmed"} THEN forced
                      ELSE IF pays THEN "new" ELSE "confirmed"
       IN  /\ status' = [status EXCEPT ![o] = initial]
           /\ prepay' = [prepay EXCEPT
                            ![o] = IF pays THEN "pending" ELSE "none"]
    /\ UNCHANGED <<cache, holder, everDelivered, postings, intake, inflight>>

AddPrepayment(o) ==
    /\ o \in PrepayOrders
    /\ status[o] \in Status \ Outcome
    /\ ~Locked(o)
    /\ prepay' = [prepay EXCEPT ![o] = "pending"]
    /\ UNCHANGED <<status, cache, holder, everDelivered, postings,
                   intake, inflight>>

\* Confirms from whatever status the order is in and leaves the assignment.
VerifyPrepayment(o) ==
    /\ prepay[o] = "pending"
    /\ ~Locked(o)
    /\ prepay' = [prepay EXCEPT ![o] = "verified"]
    /\ status' = [status EXCEPT ![o] = "confirmed"]
    /\ UNCHANGED <<cache, holder, everDelivered, postings, intake, inflight>>

RejectPrepayment(o) ==
    /\ prepay[o] = "pending"
    /\ ~Locked(o)
    /\ prepay' = [prepay EXCEPT ![o] = "rejected"]
    /\ UNCHANGED <<status, cache, holder, everDelivered, postings,
                   intake, inflight>>

------------------------------------------------------------------------------
(* The status engine                                                       *)

\* Every status reaches every other one; the role is the gate.
CanTransition(from, to) == from \in Status /\ to \in Status /\ from # to

CourierMoves ==
    {<<"assigned", "in_delivery">>, <<"in_delivery", "delivered">>,
     <<"in_delivery", "returned">>, <<"in_delivery", "cancelled">>,
     <<"assigned", "confirmed">>, <<"in_delivery", "confirmed">>}

CourierMay(c, o, to) == cache[o] = c /\ <<status[o], to>> \in CourierMoves

\* `own': the actor is the order's seller, manager or team lead.
StaffMay(role, own, o, to) ==
    \/ role \in {"owner", "dispatcher"}
    \/ role = "seller" /\ own /\ status[o] = "new" /\ to = "cancelled"
    \/ role \in {"manager", "sales_team_lead"}
         /\ status[o] = "new" /\ to = "cancelled"
    \/ own /\ status[o] = "cancelled" /\ to = "confirmed"

\* mutant: the assignment row goes, the cached courier_id stays.
ReleaseRowOnly(o) ==
    /\ holder' = [holder EXCEPT ![o] = NoCourier]
    /\ UNCHANGED cache

ReleaseAssignment(o) ==
    /\ holder' = [holder EXCEPT ![o] = NoCourier]
    /\ cache' = [cache EXCEPT ![o] = NoCourier]

\* mutant: the timeline is not asked whether the order was delivered before.
ChangeStatusPostsAgain(o, to) ==
    /\ CanTransition(status[o], to)
    /\ ~Locked(o)
    /\ postings' = [postings EXCEPT ![o] =
            IF to = "delivered" THEN @ + 1 ELSE @]
    /\ status' = [status EXCEPT ![o] = to]
    /\ IF to \in {"new", "confirmed"} THEN ReleaseAssignment(o)
                                      ELSE UNCHANGED <<holder, cache>>
    /\ everDelivered' = [everDelivered EXCEPT ![o] = @ \/ to = "delivered"]
    /\ UNCHANGED <<prepay, intake>>

\* mutant: the order is read without FOR UPDATE.
ChangeStatusNoLock(o, to) ==
    /\ CanTransition(status[o], to)
    /\ status' = [status EXCEPT ![o] = to]
    /\ IF to \in {"new", "confirmed"} THEN ReleaseAssignment(o)
                                      ELSE UNCHANGED <<holder, cache>>
    /\ UNCHANGED <<everDelivered, postings, prepay, intake>>

\* The body ChangeStatus and ForceChangeStatus share.  Stock and money move
\* only the first time the timeline shows the order delivered; going back to
\* new or confirmed takes the order from its courier.
changeStatusInternal(o, to) ==
    /\ CanTransition(status[o], to)
    /\ ~Locked(o)
    /\ postings' = [postings EXCEPT ![o] =
            IF to = "delivered" /\ ~everDelivered[o] THEN @ + 1 ELSE @]
    /\ status' = [status EXCEPT ![o] = to]
    /\ IF to \in {"new", "confirmed"} THEN ReleaseAssignment(o)
                                      ELSE UNCHANGED <<holder, cache>>
    /\ everDelivered' = [everDelivered EXCEPT ![o] = @ \/ to = "delivered"]
    /\ UNCHANGED <<prepay, intake>>

ChangeStatusByStaff(role, own, o, to) ==
    /\ StaffMay(role, own, o, to)
    /\ changeStatusInternal(o, to)
    /\ UNCHANGED inflight

ChangeStatusByCourier(c, o, to) ==
    /\ CourierMay(c, o, to)
    /\ changeStatusInternal(o, to)
    /\ UNCHANGED inflight

------------------------------------------------------------------------------
(* Dispatch and claims                                                     *)

Begin(r) == /\ Cardinality(inflight) < MaxInFlight
            /\ inflight' = inflight \cup {r}
            /\ UNCHANGED <<status, cache, holder, everDelivered, postings,
                           prepay, intake>>

End(r) == inflight' = inflight \ {r}

UpdateCourierOrderIntake(c, enabled) ==
    /\ intake[c] # enabled
    /\ intake' = [intake EXCEPT ![c] = enabled]
    /\ UNCHANGED <<status, cache, holder, everDelivered, postings,
                   prepay, inflight>>

CourierAccepts(c) == intake[c] /\ Load(c) < MaxActive[c]

AssignBegin(o, c) ==
    /\ ~Locked(o)
    /\ CourierAccepts(c)
    /\ status[o] = "confirmed"
    /\ holder[o] = NoCourier
    /\ Begin([kind |-> "assign", order |-> o, courier |-> c])

AssignCommit(r) ==
    /\ r.kind = "assign"
    /\ End(r)
    /\ holder' = [holder EXCEPT ![r.order] = r.courier]
    /\ cache' = [cache EXCEPT ![r.order] = r.courier]
    /\ status' = [status EXCEPT ![r.order] = "assigned"]
    /\ UNCHANGED <<everDelivered, postings, prepay, intake>>

ReassignBegin(o, c) ==
    /\ ~Locked(o)
    /\ CourierAccepts(c)
    /\ status[o] \in Held
    /\ holder[o] # NoCourier
    /\ Begin([kind |-> "reassign", order |-> o, courier |-> c])

ReassignCommit(r) ==
    /\ r.kind = "reassign"
    /\ End(r)
    /\ holder' = [holder EXCEPT ![r.order] = r.courier]
    /\ cache' = [cache EXCEPT ![r.order] = r.courier]
    /\ UNCHANGED <<status, everDelivered, postings, prepay, intake>>

ClaimOrder(c, o) ==
    /\ intake[c]
    /\ ~Locked(o)
    /\ status[o] = "confirmed"
    /\ holder[o] = NoCourier
    /\ holder' = [holder EXCEPT ![o] = c]
    /\ cache' = [cache EXCEPT ![o] = c]
    /\ status' = [status EXCEPT ![o] = "assigned"]
    /\ UNCHANGED <<everDelivered, postings, prepay, intake, inflight>>

------------------------------------------------------------------------------
(* Requests that look first and lock later                                 *)

UnassignBegin(o) ==
    /\ status[o] \in Held
    /\ cache[o] # NoCourier
    /\ Begin([kind |-> "unassign", order |-> o, courier |-> NoCourier])

\* ChangeStatus(-> confirmed) as dispatcher: the status read before the lock
\* is not looked at again.
UnassignCommit(r) ==
    /\ r.kind = "unassign"
    /\ StaffMay("dispatcher", FALSE, r.order, "confirmed")
    /\ changeStatusInternal(r.order, "confirmed")
    /\ End(r)

UnclaimBegin(c, o) ==
    /\ holder[o] = c
    /\ status[o] = "assigned"
    /\ Begin([kind |-> "unclaim", order |-> o, courier |-> c])

ReleaseBegin(c, o) ==
    /\ status[o] \in Held
    /\ Begin([kind |-> "release", order |-> o, courier |-> c])

\* Unclaim and release end in ChangeStatus(-> confirmed) as the courier, which
\* checks the ownership and the status again under the lock.
GiveBackCommit(r) ==
    /\ r.kind \in {"unclaim", "release"}
    /\ CourierMay(r.courier, r.order, "confirmed")
    /\ changeStatusInternal(r.order, "confirmed")
    /\ End(r)

\* Address change and deferral verify the assignment on a connection of their
\* own, outside the transaction that follows.
ResetBegin(c, o) ==
    /\ holder[o] = c
    /\ Begin([kind |-> "reset", order |-> o, courier |-> c])

\* mutant: the order is reset and the assignment row forgotten.
ResetKeepsCourier(r) ==
    /\ r.kind = "reset"
    /\ ~Locked(r.order)
    /\ status' = [status EXCEPT ![r.order] = "confirmed"]
    /\ End(r)
    /\ UNCHANGED <<holder, cache, everDelivered, postings, prepay, intake>>

ResetCommit(r) ==
    /\ r.kind = "reset"
    /\ ~Locked(r.order)
    /\ ReleaseAssignment(r.order)
    /\ status' = [status EXCEPT ![r.order] = "confirmed"]
    /\ End(r)
    /\ UNCHANGED <<everDelivered, postings, prepay, intake>>

\* A request may fail at any point: a check under the lock, stock that does
\* not cover it, a lost connection, a restart.  The transaction rolls back.
Abort(r) ==
    /\ End(r)
    /\ UNCHANGED <<status, cache, holder, everDelivered, postings,
                   prepay, intake>>

------------------------------------------------------------------------------
Commit(r) ==
    \/ AssignCommit(r)
    \/ ReassignCommit(r)
    \/ UnassignCommit(r)
    \/ GiveBackCommit(r)
    \/ ResetCommit(r)
    \/ Abort(r)

StaffRole == {"owner", "dispatcher", "manager", "sales_team_lead", "seller"}

Prepayment(o) ==
    \/ AddPrepayment(o)
    \/ VerifyPrepayment(o)
    \/ RejectPrepayment(o)

Staff(o) ==
    \/ \E forced \in {"", "new", "confirmed"} : Create(o, forced)
    \/ \E role \in StaffRole, own \in BOOLEAN, to \in Status :
            ChangeStatusByStaff(role, own, o, to)
    \/ UnassignBegin(o)

ByCourier(c, o) ==
    \/ \E to \in Status : ChangeStatusByCourier(c, o, to)
    \/ AssignBegin(o, c)
    \/ ReassignBegin(o, c)
    \/ ClaimOrder(c, o)
    \/ UnclaimBegin(c, o)
    \/ ReleaseBegin(c, o)
    \/ ResetBegin(c, o)

Next ==
    \/ \E o \in Order : Prepayment(o) \/ Staff(o)
    \/ \E c \in Courier, o \in Order : ByCourier(c, o)
    \/ \E c \in Courier, b \in BOOLEAN : UpdateCourierOrderIntake(c, b)
    \/ \E r \in inflight : Commit(r)

Spec == Init /\ [][Next]_vars

------------------------------------------------------------------------------
(* Properties                                                              *)

TypeOK ==
    /\ status \in [Order -> Status \cup {"absent"}]
    /\ cache \in [Order -> Courier \cup {NoCourier}]
    /\ holder \in [Order -> Courier \cup {NoCourier}]
    /\ everDelivered \in [Order -> BOOLEAN]
    /\ postings \in [Order -> Nat]
    /\ prepay \in [Order -> {"none", "pending", "verified", "rejected"}]
    /\ intake \in [Courier -> BOOLEAN]
    /\ inflight \in SUBSET Request

\* orders.courier_id, which every courier screen, the transition gate and the
\* cash debt read, always names the courier of the active assignment row.
CacheMatchesAssignment == \A o \in Order : cache[o] = holder[o]

\* No zombie orders: an order that has gone back to new or confirmed is held
\* by nobody, so that it can be claimed or assigned again.  Prepaid orders are
\* left to NoZombiePrepaidOrder.
NoZombieOrder ==
    \A o \in Order \ PrepayOrders :
        status[o] \in {"new", "confirmed"} => holder[o] = NoCourier

\* The same for every order, as ReleaseAssignment's comment promises it.
NoZombiePrepaidOrder ==
    \A o \in Order : status[o] \in {"new", "confirmed"} => holder[o] = NoCourier

\* Stock is deducted and commissions are emitted exactly once for an order
\* that was ever delivered, however often it is reopened and delivered again,
\* and never for one that was not.
PostedOnce ==
    \A o \in Order :
        postings[o] = IF everDelivered[o] THEN 1 ELSE 0

\* While a dispatcher's transaction has the order row, nothing else changes
\* the order: a second assignment, a claim, a status change or a courier's
\* give-back waits for it.
LockedOrderUntouched ==
    [][\A r \in inflight \cap inflight' :
            r.kind \in LockingKind =>
                /\ status'[r.order] = status[r.order]
                /\ holder'[r.order] = holder[r.order]
                /\ cache'[r.order] = cache[r.order]]_vars

\* What a dispatcher's transaction read of the order stays true until it
\* commits, and no two of them have the same order: AssignCourier and
\* ReassignCourier act at commit on the status and the assignment row their
\* SELECT FOR UPDATE returned.
ReadsStandUntilCommit ==
    /\ \A r, s \in inflight :
            {r.kind, s.kind} \subseteq LockingKind /\ r.order = s.order => r = s
    /\ \A r \in inflight :
            /\ r.kind = "assign" => /\ status[r.order] = "confirmed"
                                   /\ holder[r.order] = NoCourier
            /\ r.kind = "reassign" => /\ status[r.order] \in Held
                                     /\ holder[r.order] # NoCourier
==============================================================================
