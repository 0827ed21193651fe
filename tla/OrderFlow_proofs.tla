--------------------------- MODULE OrderFlow_proofs ---------------------------
(***************************************************************************)
(* TLAPS proofs about OrderFlow, for every set of orders and couriers and  *)
(* every number of requests in flight.                                     *)
(***************************************************************************)
EXTENDS OrderFlow, TLAPS

\* What NoZombieOrder needs: an order not created, or open and never prepaid,
\* is free; a prepayment status belongs to a prepaid order.
OpenOrdersFree ==
    /\ \A o \in Order : status[o] = "absent" => holder[o] = NoCourier
    /\ \A o \in Order \ PrepayOrders :
            /\ prepay[o] = "none"
            /\ status[o] \in {"new", "confirmed"} => holder[o] = NoCourier

\* The inductive invariant.
IInv ==
    /\ TypeOK
    /\ CacheMatchesAssignment
    /\ OpenOrdersFree
    /\ ReadsStandUntilCommit
    /\ PostedOnce

------------------------------------------------------------------------------
\* The status engine keeps the types of what it writes.
LEMMA StatusEngineTypes ==
    ASSUME TypeOK, NEW o \in Order, NEW to \in Status,
           changeStatusInternal(o, to), inflight' \subseteq inflight
    PROVE  TypeOK'
<1>1. status' \in [Order -> Status \cup {"absent"}]
  BY DEF TypeOK, changeStatusInternal
<1>2. /\ cache' \in [Order -> Courier \cup {NoCourier}]
      /\ holder' \in [Order -> Courier \cup {NoCourier}]
  BY DEF TypeOK, changeStatusInternal, ReleaseAssignment
<1>3. everDelivered' \in [Order -> BOOLEAN]
  BY DEF TypeOK, changeStatusInternal
<1>4. postings' \in [Order -> Nat]
  BY DEF TypeOK, changeStatusInternal
<1>5. QED
  BY <1>1, <1>2, <1>3, <1>4 DEF TypeOK, changeStatusInternal

\* Every step keeps every variable within its type.
LEMMA TypeStep == TypeOK /\ [Next]_vars => TypeOK'
<1> SUFFICES ASSUME TypeOK, [Next]_vars PROVE TypeOK'
  OBVIOUS
<1>1. ASSUME NEW o \in Order, Prepayment(o) PROVE TypeOK'
  BY <1>1 DEF TypeOK, Prepayment, AddPrepayment, VerifyPrepayment,
              RejectPrepayment, Status
<1>2. ASSUME NEW o \in Order, NEW forced, Create(o, forced) PROVE TypeOK'
  BY <1>2 DEF TypeOK, Create, Status
<1>3. ASSUME NEW o \in Order, NEW to \in Status, NEW role, NEW own,
             ChangeStatusByStaff(role, own, o, to)
      PROVE  TypeOK'
  BY <1>3, StatusEngineTypes DEF ChangeStatusByStaff
<1>4. ASSUME NEW o \in Order, NEW to \in Status, NEW c \in Courier,
             ChangeStatusByCourier(c, o, to)
      PROVE  TypeOK'
  BY <1>4, StatusEngineTypes DEF ChangeStatusByCourier
<1>5. ASSUME NEW o \in Order, NEW c \in Courier,
             \/ AssignBegin(o, c) \/ ReassignBegin(o, c) \/ UnclaimBegin(c, o)
             \/ ReleaseBegin(c, o) \/ ResetBegin(c, o)
      PROVE  TypeOK'
  BY <1>5 DEF TypeOK, AssignBegin, ReassignBegin, UnclaimBegin, ReleaseBegin,
              ResetBegin, Begin, Request, LockingKind, LookingKind
<1>6. ASSUME NEW o \in Order, UnassignBegin(o) PROVE TypeOK'
  BY <1>6 DEF TypeOK, UnassignBegin, Begin, Request, LockingKind, LookingKind
<1>7. ASSUME NEW o \in Order, NEW c \in Courier, ClaimOrder(c, o) PROVE TypeOK'
  BY <1>7 DEF TypeOK, ClaimOrder, Status
<1>8. ASSUME NEW c \in Courier, NEW b \in BOOLEAN,
             UpdateCourierOrderIntake(c, b)
      PROVE  TypeOK'
  BY <1>8 DEF TypeOK, UpdateCourierOrderIntake
<1>9. ASSUME NEW r \in inflight, Commit(r) PROVE TypeOK'
  <2>1. r.order \in Order /\ r.courier \in Courier \cup {NoCourier}
    BY DEF TypeOK, Request
  <2>2. CASE AssignCommit(r) \/ ReassignCommit(r) \/ Abort(r)
    BY <2>1, <2>2 DEF TypeOK, AssignCommit, ReassignCommit, Abort, End, Status
  <2>3. CASE UnassignCommit(r) \/ GiveBackCommit(r)
    <3>1. changeStatusInternal(r.order, "confirmed") /\ End(r)
      BY <2>3 DEF UnassignCommit, GiveBackCommit
    <3>2. QED
      BY <2>1, <3>1, StatusEngineTypes DEF End, Status
  <2>4. CASE ResetCommit(r)
    BY <2>1, <2>4 DEF TypeOK, ResetCommit, ReleaseAssignment, End, Status
  <2>5. QED
    BY <1>9, <2>2, <2>3, <2>4 DEF Commit
<1>10. CASE UNCHANGED vars
  BY <1>10 DEF TypeOK, vars
<1>11. QED
  BY <1>1, <1>2, <1>3, <1>4, <1>5, <1>6, <1>7, <1>8, <1>9, <1>10
     DEF Next, Staff, ByCourier

\* Type correctness: every reachable state has the types TypeOK gives.
THEOREM TypeCorrect == Spec => []TypeOK
<1>1. Init => TypeOK
  BY DEF Init, TypeOK
<1>2. QED
  BY <1>1, TypeStep, PTL DEF Spec

------------------------------------------------------------------------------
(* The safety invariants                                                   *)

\* The status engine never touches an order a dispatcher's transaction has
\* locked, and leaves every other part of the invariant standing.
LEMMA StatusEngineSafe ==
    ASSUME IInv, NEW o \in Order, NEW to \in Status,
           changeStatusInternal(o, to), inflight' \subseteq inflight
    PROVE  /\ CacheMatchesAssignment' /\ OpenOrdersFree'
           /\ ReadsStandUntilCommit' /\ PostedOnce'
<1> USE DEF IInv, TypeOK
<1>1. /\ CanTransition(status[o], to) /\ ~Locked(o)
      /\ status' = [status EXCEPT ![o] = to]
      /\ prepay' = prepay
  BY DEF changeStatusInternal
<1>2. \/ /\ to \in {"new", "confirmed"}
         /\ holder' = [holder EXCEPT ![o] = NoCourier]
         /\ cache' = [cache EXCEPT ![o] = NoCourier]
      \/ /\ to \notin {"new", "confirmed"}
         /\ holder' = holder /\ cache' = cache
  BY DEF changeStatusInternal, ReleaseAssignment
<1>3. CacheMatchesAssignment'
  BY <1>2 DEF CacheMatchesAssignment
<1>4. OpenOrdersFree'
  BY <1>1, <1>2 DEF OpenOrdersFree, CanTransition, Status
<1>5. ReadsStandUntilCommit'
  <2>1. \A r \in inflight' : r.kind \in LockingKind => r.order # o
    BY <1>1 DEF Locked
  <2>2. QED
    BY <1>1, <1>2, <2>1 DEF ReadsStandUntilCommit, LockingKind, Request
<1>6. PostedOnce'
  <2> SUFFICES ASSUME NEW p \in Order
               PROVE  postings'[p] = IF everDelivered'[p] THEN 1 ELSE 0
    BY DEF PostedOnce
  <2>1. everDelivered'[p] <=> (everDelivered[p] \/ (p = o /\ to = "delivered"))
    BY Zenon DEF changeStatusInternal
  <2>2. postings'[p] = IF p = o /\ to = "delivered" /\ ~everDelivered[p]
                       THEN postings[p] + 1 ELSE postings[p]
    BY DEF changeStatusInternal
  <2>3. postings[p] = IF everDelivered[p] THEN 1 ELSE 0
    BY DEF PostedOnce
  <2>4. QED
    BY <2>1, <2>2, <2>3
<1>7. QED
  BY <1>3, <1>4, <1>5, <1>6

\* A request that has only looked takes part in no invariant.
LEMMA LookingIsHarmless ==
    ASSUME IInv, NEW r, r.kind \in LookingKind, Begin(r)
    PROVE  /\ CacheMatchesAssignment' /\ OpenOrdersFree'
           /\ ReadsStandUntilCommit' /\ PostedOnce'
<1>1. r.kind \notin LockingKind
  BY DEF LookingKind, LockingKind
<1>2. ReadsStandUntilCommit'
  BY <1>1 DEF IInv, Begin, ReadsStandUntilCommit, LockingKind
<1>3. QED
  BY <1>2 DEF IInv, Begin, CacheMatchesAssignment, OpenOrdersFree, PostedOnce

\* A request that locks a free order row adds what it read to what stands.
LEMMA LockingIsExclusive ==
    ASSUME IInv, NEW r, Begin(r), ~Locked(r.order),
           \/ /\ r.kind = "assign" /\ status[r.order] = "confirmed"
              /\ holder[r.order] = NoCourier
           \/ /\ r.kind = "reassign" /\ status[r.order] \in Held
              /\ holder[r.order] # NoCourier
    PROVE  /\ CacheMatchesAssignment' /\ OpenOrdersFree'
           /\ ReadsStandUntilCommit' /\ PostedOnce'
<1>1. \A s \in inflight : s.kind \in LockingKind => s.order # r.order
  BY DEF Locked
<1>2. ReadsStandUntilCommit'
  BY <1>1 DEF IInv, Begin, ReadsStandUntilCommit, LockingKind
<1>3. QED
  BY <1>2 DEF IInv, Begin, CacheMatchesAssignment, OpenOrdersFree, PostedOnce

\* Every step keeps the inductive invariant.
LEMMA SafetyStep == IInv /\ [Next]_vars => IInv'
<1> SUFFICES ASSUME IInv, [Next]_vars PROVE IInv'
  OBVIOUS
<1>t. TypeOK'
  BY TypeStep DEF IInv
<1> DEFINE Rest == /\ CacheMatchesAssignment /\ OpenOrdersFree
                   /\ ReadsStandUntilCommit /\ PostedOnce
<1>1. ASSUME NEW o \in Order, Prepayment(o) PROVE Rest'
  <2>1. /\ UNCHANGED <<cache, holder, everDelivered, postings, inflight>>
        /\ ~Locked(o)
        /\ o \in PrepayOrders
        /\ prepay' = [prepay EXCEPT ![o] = prepay'[o]]
        /\ \/ status' = status
           \/ /\ prepay[o] = "pending"
              /\ status' = [status EXCEPT ![o] = "confirmed"]
    BY <1>1 DEF Prepayment, AddPrepayment, VerifyPrepayment, RejectPrepayment,
                IInv, TypeOK, OpenOrdersFree
  <2>2. \A r \in inflight : r.kind \in LockingKind => r.order # o
    BY <2>1 DEF Locked
  <2>3. QED
    BY <2>1, <2>2 DEF IInv, TypeOK, CacheMatchesAssignment, OpenOrdersFree,
          ReadsStandUntilCommit, PostedOnce, LockingKind, Request
<1>2. ASSUME NEW o \in Order, NEW forced, Create(o, forced) PROVE Rest'
  <2>1. /\ UNCHANGED <<cache, holder, everDelivered, postings, inflight>>
        /\ status[o] = "absent"
        /\ \E s \in {"new", "confirmed"} : status' = [status EXCEPT ![o] = s]
        /\ prepay' = [prepay EXCEPT
                         ![o] =
                           IF o \in PrepayOrders THEN "pending" ELSE "none"]
    BY <1>2 DEF Create
  <2>2. CacheMatchesAssignment' /\ PostedOnce'
    BY <2>1 DEF IInv, CacheMatchesAssignment, PostedOnce
  <2>3. OpenOrdersFree'
    BY <2>1 DEF IInv, TypeOK, OpenOrdersFree
  <2>4. \A r \in inflight : r.kind \in LockingKind => r.order # o
    BY <2>1 DEF IInv, ReadsStandUntilCommit, LockingKind, Held
  <2>5. ReadsStandUntilCommit'
    BY <2>1, <2>4 DEF IInv, TypeOK, ReadsStandUntilCommit, LockingKind, Request
  <2>6. QED
    BY <2>2, <2>3, <2>5
<1>3. ASSUME NEW o \in Order, NEW to \in Status, NEW role, NEW own,
             ChangeStatusByStaff(role, own, o, to)
      PROVE  Rest'
  BY <1>3, StatusEngineSafe DEF ChangeStatusByStaff
<1>4. ASSUME NEW o \in Order, NEW to \in Status, NEW c \in Courier,
             ChangeStatusByCourier(c, o, to)
      PROVE  Rest'
  BY <1>4, StatusEngineSafe DEF ChangeStatusByCourier
<1>5. ASSUME NEW o \in Order, NEW c \in Courier,
             UnclaimBegin(c, o) \/ ReleaseBegin(c, o) \/ ResetBegin(c, o)
      PROVE  Rest'
  BY <1>5, LookingIsHarmless
     DEF UnclaimBegin, ReleaseBegin, ResetBegin, LookingKind
<1>5u. ASSUME NEW o \in Order, UnassignBegin(o) PROVE Rest'
  BY <1>5u, LookingIsHarmless DEF UnassignBegin, LookingKind
<1>6. ASSUME NEW o \in Order, NEW c \in Courier,
             AssignBegin(o, c) \/ ReassignBegin(o, c)
      PROVE  Rest'
  <2>1. CASE AssignBegin(o, c)
    <3> DEFINE r == [kind |-> "assign", order |-> o, courier |-> c]
    <3>1. Begin(r) /\ ~Locked(r.order) /\ r.kind = "assign"
          /\ status[r.order] = "confirmed" /\ holder[r.order] = NoCourier
      BY <2>1 DEF AssignBegin
    <3>2. QED
      BY <3>1, LockingIsExclusive
  <2>2. CASE ReassignBegin(o, c)
    <3> DEFINE r == [kind |-> "reassign", order |-> o, courier |-> c]
    <3>1. Begin(r) /\ ~Locked(r.order) /\ r.kind = "reassign"
          /\ status[r.order] \in Held /\ holder[r.order] # NoCourier
      BY <2>2 DEF ReassignBegin
    <3>2. QED
      BY <3>1, LockingIsExclusive
  <2>3. QED
    BY <1>6, <2>1, <2>2
<1>7. ASSUME NEW o \in Order, NEW c \in Courier, ClaimOrder(c, o) PROVE Rest'
  <2>1. \A r \in inflight : r.kind \in LockingKind => r.order # o
    BY <1>7 DEF ClaimOrder, Locked
  <2>2. QED
    BY <1>7, <2>1 DEF IInv, TypeOK, ClaimOrder, CacheMatchesAssignment,
        OpenOrdersFree, ReadsStandUntilCommit, PostedOnce, LockingKind, Request
<1>8. ASSUME NEW c \in Courier, NEW b \in BOOLEAN,
             UpdateCourierOrderIntake(c, b)
      PROVE  Rest'
  BY <1>8 DEF IInv, UpdateCourierOrderIntake, CacheMatchesAssignment,
              OpenOrdersFree, ReadsStandUntilCommit, PostedOnce
<1>9. ASSUME NEW r \in inflight, Commit(r) PROVE Rest'
  <2>1. r.order \in Order /\ r.courier \in Courier \cup {NoCourier}
    BY DEF IInv, TypeOK, Request
  <2>2. ASSUME AssignCommit(r) \/ ReassignCommit(r) PROVE Rest'
    <3>1. \A s \in inflight' : s.kind \in LockingKind => s.order # r.order
      BY <2>2 DEF IInv, ReadsStandUntilCommit, AssignCommit, ReassignCommit,
                  End, LockingKind
    <3>2. /\ inflight' \subseteq inflight
          /\ holder' = [holder EXCEPT ![r.order] = r.courier]
          /\ cache' = [cache EXCEPT ![r.order] = r.courier]
          /\ UNCHANGED <<everDelivered, postings, prepay>>
          /\ status' = [status EXCEPT ![r.order] = status'[r.order]]
          /\ status'[r.order] \in Held
      BY <2>1, <2>2 DEF IInv, TypeOK, ReadsStandUntilCommit, AssignCommit,
                        ReassignCommit, End, Held
    <3>3. CacheMatchesAssignment' /\ PostedOnce'
      BY <3>2 DEF IInv, TypeOK, CacheMatchesAssignment, PostedOnce
    <3>4. OpenOrdersFree'
      BY <3>2 DEF IInv, TypeOK, OpenOrdersFree, Held
    <3>5. ReadsStandUntilCommit'
      BY <3>1, <3>2 DEF IInv, TypeOK, ReadsStandUntilCommit,
                        LockingKind, Request
    <3>6. QED
      BY <3>3, <3>4, <3>5
  <2>3. ASSUME UnassignCommit(r) \/ GiveBackCommit(r) PROVE Rest'
    <3>1. changeStatusInternal(r.order, "confirmed") /\ End(r)
      BY <2>3 DEF UnassignCommit, GiveBackCommit
    <3>2. QED
      BY <2>1, <3>1, StatusEngineSafe DEF End, Status
  <2>4. ASSUME ResetCommit(r) PROVE Rest'
    <3>1. \A s \in inflight' : s.kind \in LockingKind => s.order # r.order
      BY <2>4 DEF ResetCommit, End, Locked
    <3>2. QED
      BY <2>1, <2>4, <3>1 DEF IInv, TypeOK, ResetCommit, ReleaseAssignment, End,
         CacheMatchesAssignment, OpenOrdersFree, ReadsStandUntilCommit,
         PostedOnce, LockingKind, Request
  <2>5. ASSUME Abort(r) PROVE Rest'
    BY <2>5 DEF IInv, Abort, End, CacheMatchesAssignment, OpenOrdersFree,
                ReadsStandUntilCommit, PostedOnce
  <2>6. QED
    BY <1>9, <2>2, <2>3, <2>4, <2>5 DEF Commit
<1>10. ASSUME UNCHANGED vars PROVE Rest'
  BY <1>10 DEF vars, IInv, CacheMatchesAssignment, OpenOrdersFree,
               ReadsStandUntilCommit, PostedOnce
<1>11. Rest'
  BY <1>1, <1>2, <1>3, <1>4, <1>5, <1>5u, <1>6, <1>7, <1>8, <1>9,
     <1>10 DEF Next, Staff, ByCourier
<1>12. QED
  BY <1>t, <1>11 DEF IInv

\* The inductive invariant holds in every reachable state.
THEOREM Invariant == Spec => []IInv
<1>1. Init => IInv
  BY DEF Init, IInv, TypeOK, CacheMatchesAssignment, OpenOrdersFree,
         ReadsStandUntilCommit, PostedOnce
<1>2. QED
  BY <1>1, SafetyStep, PTL DEF Spec

\* orders.courier_id never disagrees with the active assignment row.
THEOREM CacheIsTheAssignment == Spec => []CacheMatchesAssignment
  BY Invariant, PTL DEF IInv

\* An order that was never prepaid and waits in new or confirmed is free to be
\* claimed or assigned.
THEOREM NoZombies == Spec => []NoZombieOrder
<1>1. IInv => NoZombieOrder
  BY DEF IInv, OpenOrdersFree, NoZombieOrder
<1>2. QED
  BY <1>1, Invariant, PTL

\* Stock and money of an order move once, on its first delivery.
THEOREM PostsOnce == Spec => []PostedOnce
  BY Invariant, PTL DEF IInv

\* What a dispatcher's transaction read of the order it locked is still true
\* when it commits.
THEOREM LockedReadsStand == Spec => []ReadsStandUntilCommit
  BY Invariant, PTL DEF IInv

------------------------------------------------------------------------------
(* What a step never does                                                  *)

\* Nothing changes the status, the assignment row or the cached courier of an
\* order whose row a dispatcher's transaction has locked.
THEOREM LockedOrdersRest == Spec => LockedOrderUntouched
<1> DEFINE Kept(r) == /\ status'[r.order] = status[r.order]
                      /\ holder'[r.order] = holder[r.order]
                      /\ cache'[r.order] = cache[r.order]
           Rests == \A r \in inflight \cap inflight' :
                        r.kind \in LockingKind => Kept(r)
<1>1. ASSUME IInv, Next PROVE Rests
  <2> SUFFICES ASSUME NEW r \in inflight, r \in inflight',
                      r.kind \in LockingKind
               PROVE  Kept(r)
    OBVIOUS
  <2>t. r.order \in Order
    BY <1>1 DEF IInv, TypeOK, Request
  <2>a. Locked(r.order)
    BY DEF Locked
  <2>b. status[r.order] # "absent"
    BY <1>1 DEF IInv, ReadsStandUntilCommit, LockingKind, Held
  <2>1. ASSUME NEW o \in Order, NEW to, changeStatusInternal(o, to)
        PROVE  Kept(r)
    BY <1>1, <2>1, <2>a, <2>t DEF IInv, TypeOK, changeStatusInternal,
                                  ReleaseAssignment
  <2>2. ASSUME NEW o \in Order, Prepayment(o) PROVE Kept(r)
    BY <1>1, <2>2, <2>a, <2>t DEF IInv, TypeOK, Prepayment, AddPrepayment,
                                  VerifyPrepayment, RejectPrepayment
  <2>3. ASSUME NEW o \in Order, Staff(o) PROVE Kept(r)
    BY <1>1, <2>1, <2>3, <2>b, <2>t DEF IInv, TypeOK, Staff, Create,
          ChangeStatusByStaff, UnassignBegin, Begin
  <2>4. ASSUME NEW c \in Courier, NEW o \in Order, ByCourier(c, o)
        PROVE  Kept(r)
    BY <1>1, <2>1, <2>4, <2>a, <2>t DEF IInv, TypeOK, ByCourier, AssignBegin,
          ChangeStatusByCourier, ReassignBegin, ClaimOrder, UnclaimBegin,
          ReleaseBegin, ResetBegin, Begin
  <2>5. ASSUME NEW c \in Courier, NEW b, UpdateCourierOrderIntake(c, b)
        PROVE  Kept(r)
    BY <2>5 DEF UpdateCourierOrderIntake
  <2>6. ASSUME NEW s \in inflight, Commit(s) PROVE Kept(r)
    <3>1. s.order \in Order
      BY <1>1 DEF IInv, TypeOK, Request
    <3>2. CASE AssignCommit(s) \/ ReassignCommit(s)
      <4>1. s # r /\ s.kind \in LockingKind
        BY <3>2 DEF AssignCommit, ReassignCommit, End, LockingKind
      <4>2. s.order # r.order
        BY <1>1, <4>1 DEF IInv, ReadsStandUntilCommit
      <4>3. QED
        BY <1>1, <2>t, <3>1, <3>2, <4>2
           DEF IInv, TypeOK, AssignCommit, ReassignCommit
    <3>3. CASE UnassignCommit(s) \/ GiveBackCommit(s)
      BY <2>1, <3>1, <3>3 DEF UnassignCommit, GiveBackCommit
    <3>4. CASE ResetCommit(s)
      BY <1>1, <2>a, <2>t, <3>1, <3>4 DEF IInv, TypeOK, ResetCommit,
                                          ReleaseAssignment
    <3>5. CASE Abort(s)
      BY <3>5 DEF Abort
    <3>6. QED
      BY <2>6, <3>2, <3>3, <3>4, <3>5 DEF Commit
  <2>7. QED
    BY <1>1, <2>2, <2>3, <2>4, <2>5, <2>6 DEF Next
<1>2. IInv /\ [Next]_vars => [Rests]_vars
  BY <1>1
<1>3. QED
  BY <1>2, Invariant, PTL DEF Spec, LockedOrderUntouched
==============================================================================
