-------------------------- MODULE OrderStock_proofs --------------------------
(***************************************************************************)
(* TLAPS proofs about OrderStock, for any orders, couriers and quantities, *)
(* any number of transfers and claims at once, with stocktakes and crashes.*)
(* What is promised, blocked and moved is a sum over orders, transfers and *)
(* claims: Sums has the facts about sums.                                  *)
(***************************************************************************)
EXTENDS OrderStock, Sums

PlacesOK ==
    /\ courier \in [Order -> Courier \cup {Nobody}]
    /\ home \in [Order -> Warehouse]
    /\ read \in [Order -> Warehouse \cup {Nobody}]
    /\ line \in [Order -> Nat]
    /\ status \in [Order -> Status \cup {"absent"}]

\* An order without the product is served, if at all, from the main pool.
NoLineIsMain == \A o \in Order : line[o] = 0 => home[o] = Main

\* A transaction's read is the order's place or the main pool: while the order
\* is locked, only an accepted transfer moves its goods, and from there.
ReadIsNear == \A o \in Order : read[o] \in {Nobody, Main, home[o]}

\* An order that is not there yet has no courier, no goods and no reader.
AbsentIsEmpty ==
    \A o \in Order :
        status[o] = "absent"
            => courier[o] = Nobody /\ line[o] = 0 /\ read[o] = Nobody

\* Transfers go to couriers.
TransfersOK ==
    /\ transfers = [s \in Slots |-> transfers[s]]
    /\ \A s \in Slots :
            transfers[s] # Nobody => transfers[s].courier \in Courier

IInv == PlacesOK /\ NoLineIsMain /\ ReadIsNear /\ AbsentIsEmpty /\ OwnStock

------------------------------------------------------------------------------
\* A step of one order, which sets its courier, its line, its place and what is
\* read of it, leaves the others alone.
LEMMA OneOrder ==
    ASSUME IInv, NEW o \in Order,
           NEW c \in Courier \cup {Nobody}, NEW n \in Nat, NEW w \in Warehouse,
           NEW r \in Warehouse \cup {Nobody},
           NEW s \in Status \cup {"absent"},
           courier' = [courier EXCEPT ![o] = c],
           line' = [line EXCEPT ![o] = n],
           home' = [home EXCEPT ![o] = w],
           read' = [read EXCEPT ![o] = r],
           status' = [status EXCEPT ![o] = s],
           n = 0 => w = Main, r \in {Nobody, Main, w},
           s = "absent" => c = Nobody /\ n = 0 /\ r = Nobody,
           c # Nobody => w \in {Main, c}
    PROVE  IInv'
<1>1. PlacesOK'
  BY DEF IInv, PlacesOK
<1>2. /\ courier'[o] = c /\ line'[o] = n /\ home'[o] = w /\ read'[o] = r
      /\ status'[o] = s
  BY DEF IInv, PlacesOK
<1>3. \A p \in Order : p # o =>
        /\ courier'[p] = courier[p] /\ line'[p] = line[p]
        /\ home'[p] = home[p] /\ read'[p] = read[p] /\ status'[p] = status[p]
  BY DEF IInv, PlacesOK
<1>4. NoLineIsMain' /\ ReadIsNear'
  BY <1>2, <1>3 DEF IInv, NoLineIsMain, ReadIsNear
<1>5. AbsentIsEmpty' /\ OwnStock'
  BY <1>2, <1>3 DEF IInv, AbsentIsEmpty, OwnStock
<1>6. QED
  BY <1>1, <1>4, <1>5 DEF IInv

\* What one order has is of its type.
LEMMA OrderTyped ==
    ASSUME IInv, NEW o \in Order
    PROVE  /\ courier[o] \in Courier \cup {Nobody} /\ line[o] \in Nat
           /\ home[o] \in Warehouse /\ read[o] \in Warehouse \cup {Nobody}
           /\ status[o] \in Status \cup {"absent"}
           /\ line[o] = 0 => home[o] = Main
           /\ read[o] \in {Nobody, Main, home[o]}
           /\ courier[o] # Nobody => home[o] \in {Main, courier[o]}
           /\ Main \in Warehouse /\ Nobody \notin Warehouse
BY MainIsNoCourier
DEF IInv, PlacesOK, NoLineIsMain, ReadIsNear, OwnStock, Warehouse

\* The transactions that change neither the line nor the place of an order: a
\* new status, or the order given back.
LEMMA StatusStep ==
    ASSUME IInv, NEW o \in Order, NEW c \in {Nobody, courier[o]},
           NEW s \in Status, Close(o), UNCHANGED <<line, home>>,
           courier' = [courier EXCEPT ![o] = c],
           status' = [status EXCEPT ![o] = s]
    PROVE  IInv'
<1>1. /\ line' = [line EXCEPT ![o] = line[o]]
      /\ home' = [home EXCEPT ![o] = home[o]]
      /\ read' = [read EXCEPT ![o] = Nobody]
  BY DEF Close, IInv, PlacesOK
<1>2. s # "absent"
  BY DEF Status, Outcome
<1>3. QED
  BY <1>1, <1>2, OrderTyped, OneOrder

\* An order comes with its goods in the main pool.
LEMMA CreateStep ==
    ASSUME IInv, NEW o \in Order, NEW n \in Nat, Create(o, n) PROVE IInv'
<1>1. /\ read[o] \in {Nobody, Main, home[o]}
      /\ courier' = [courier EXCEPT ![o] = Nobody]
      /\ home' = [home EXCEPT ![o] = home[o]]
      /\ read' = [read EXCEPT ![o] = read[o]]
      /\ line' = [line EXCEPT ![o] = n]
      /\ status' = [status EXCEPT ![o] = "open"]
  BY DEF Create, IInv, PlacesOK, AbsentIsEmpty, ReadIsNear
<1>2. "open" \in Status
  BY DEF Status
<1>3. home[o] = Main
  BY OrderTyped DEF Create, IInv, AbsentIsEmpty
<1>4. QED
  BY <1>1, <1>2, <1>3, OrderTyped, OneOrder

\* The items are read as they are.
LEMMA OpenStep == ASSUME IInv, NEW o \in Order, Open(o) PROVE IInv'
<1>1. /\ courier' = [courier EXCEPT ![o] = courier[o]]
      /\ home' = [home EXCEPT ![o] = home[o]]
      /\ read' = [read EXCEPT ![o] = home[o]]
      /\ line' = [line EXCEPT ![o] = line[o]]
      /\ status' = [status EXCEPT ![o] = status[o]]
      /\ status[o] # "absent"
  BY DEF Open, orderVars, IInv, PlacesOK
<1>2. QED
  BY <1>1, OrderTyped, OneOrder

\* New items are reserved where the old ones were read to be.
LEMMA UpdateStep ==
    ASSUME IInv, NEW o \in Order, NEW n \in Nat, Update(o, n) PROVE IInv'
<1> DEFINE w == IF line[o] > 0 THEN read[o] ELSE Main
           h == IF n > 0 THEN w ELSE Main
<1>1. /\ read[o] # Nobody
      /\ courier' = [courier EXCEPT ![o] = courier[o]]
      /\ home' = [home EXCEPT ![o] = h]
      /\ read' = [read EXCEPT ![o] = Nobody]
      /\ line' = [line EXCEPT ![o] = n]
      /\ status' = [status EXCEPT ![o] = status[o]]
  BY DEF Update, Close, IInv, PlacesOK
<1>2. w \in {Main, home[o]} /\ h \in {Main, home[o]} /\ h \in Warehouse
  BY <1>1, OrderTyped
<1>3. n = 0 => h = Main
  OBVIOUS
<1>4. status[o] # "absent"
  BY <1>1 DEF IInv, AbsentIsEmpty
<1>5. QED
  BY <1>1, <1>2, <1>3, <1>4, OrderTyped, OneOrder

\* Whoever takes an order gets its goods in his warehouse, or leaves them in
\* the main pool.
LEMMA TakeStep ==
    ASSUME IInv, NEW o \in Order, NEW c \in Courier, Take(o, c) PROVE IInv'
<1> DEFINE h == IF line[o] = 0 \/ read[o] = c THEN home[o] ELSE c
<1>1. /\ read[o] # Nobody
      /\ courier' = [courier EXCEPT ![o] = c]
      /\ home' = [home EXCEPT ![o] = h]
      /\ read' = [read EXCEPT ![o] = Nobody]
      /\ line' = [line EXCEPT ![o] = line[o]]
      /\ status' = [status EXCEPT ![o] = "held"]
  <2>1. home' = [home EXCEPT ![o] = h]
    BY DEF Take, ReserveForClaim, IInv, PlacesOK
  <2>2. QED
    BY <2>1 DEF Take, Close, IInv, PlacesOK
<1>2. h \in {Main, c} /\ h \in Warehouse /\ (line[o] = 0 => h = Main)
  BY <1>1, OrderTyped, MainIsNoCourier DEF Warehouse
<1>3. "held" \in Status
  BY DEF Status
<1>4. QED
  BY <1>1, <1>2, <1>3, OrderTyped, OneOrder

------------------------------------------------------------------------------
\* What leaves the orders alone.
LEMMA OrdersRest ==
    ASSUME IInv, UNCHANGED <<orderVars, read>> PROVE IInv'
BY DEF orderVars, IInv, PlacesOK, NoLineIsMain, ReadIsNear, AbsentIsEmpty,
       OwnStock

\* An accepted transfer moves goods of its courier's own orders.
LEMMA AcceptStep ==
    ASSUME IInv, TransfersOK, NEW s \in Slots, AcceptTransfer(s) PROVE IInv'
<1> DEFINE c == transfers[s].courier
           moved == Fitting(c, transfers[s].n)
<1>1. /\ home' = [o \in Order |-> IF o \in moved THEN c ELSE home[o]]
      /\ UNCHANGED <<courier, line, read, status>>
  BY DEF AcceptTransfer
<1>2. \A o \in moved : /\ line[o] > 0 /\ home[o] = Main /\ courier[o] = c
                        /\ status[o] = "held"
  BY DEF Fitting, ReservedFor
<1>3. c \in Courier
  BY DEF AcceptTransfer, TransfersOK
<1>4. PlacesOK'
  BY <1>1, <1>3 DEF IInv, PlacesOK, Warehouse
<1>5. \A o \in Order :
        home'[o] = home[o]
            \/ /\ home'[o] = c /\ line[o] > 0 /\ home[o] = Main
               /\ courier[o] = c
  BY <1>1, <1>2
<1>6. NoLineIsMain' /\ ReadIsNear'
  BY <1>1, <1>5 DEF IInv, PlacesOK, NoLineIsMain, ReadIsNear
<1>7. AbsentIsEmpty' /\ OwnStock'
  BY <1>1, <1>5 DEF IInv, AbsentIsEmpty, OwnStock
<1>8. QED
  BY <1>4, <1>6, <1>7 DEF IInv

\* One transaction of an order after the other.
LEMMA OrderStepOK == ASSUME IInv, NEW o \in Order, OrderStep(o) PROVE IInv'
<1>1. ASSUME NEW n \in 0 .. MaxQty, Create(o, n) \/ Update(o, n) PROVE IInv'
  <2>1. n \in Nat
    BY BoundsAreNat
  <2>2. QED
    BY <1>1, <2>1, CreateStep, UpdateStep
<1>2. CASE Rollback(o)
  <2>1. /\ courier' = [courier EXCEPT ![o] = courier[o]]
        /\ home' = [home EXCEPT ![o] = home[o]]
        /\ read' = [read EXCEPT ![o] = Nobody]
        /\ line' = [line EXCEPT ![o] = line[o]]
        /\ status' = [status EXCEPT ![o] = status[o]]
    BY <1>2 DEF Rollback, Close, orderVars, IInv, PlacesOK
  <2>2. status[o] # "absent"
    BY <1>2 DEF Rollback, Close, IInv, AbsentIsEmpty
  <2>3. QED
    BY <2>1, <2>2, OrderTyped, OneOrder
<1>3. ASSUME NEW to \in Status, ChangeStatus(o, to) PROVE IInv'
  <2> DEFINE c == IF to = "open" THEN Nobody ELSE courier[o]
  <2>1. /\ Close(o) /\ UNCHANGED <<line, home>>
        /\ courier' = [courier EXCEPT ![o] = c]
        /\ status' = [status EXCEPT ![o] = to]
    BY <1>3 DEF ChangeStatus
  <2>2. c \in {Nobody, courier[o]}
    OBVIOUS
  <2>3. QED
    BY <2>1, <2>2, StatusStep
<1>4. ASSUME NEW k \in Worker, ResetLook(k, o) \/ Reset(k, o) PROVE IInv'
  <2>1. CASE ResetLook(k, o)
    BY <2>1, OrdersRest DEF ResetLook, Look
  <2>2. CASE Reset(k, o)
    <3>1. /\ Close(o) /\ UNCHANGED <<line, home>>
          /\ courier' = [courier EXCEPT ![o] = Nobody]
          /\ status' = [status EXCEPT ![o] = "open"]
      BY <2>2 DEF Reset
    <3>2. "open" \in Status
      BY DEF Status
    <3>3. QED
      BY <3>1, <3>2, StatusStep
  <2>3. QED
    BY <1>4, <2>1, <2>2
<1>5. ASSUME NEW c \in Courier, Take(o, c) PROVE IInv'
  BY <1>5, TakeStep
<1>6. CASE Open(o)
  BY <1>6, OpenStep
<1>7. QED
  BY <1>1, <1>2, <1>3, <1>4, <1>5, <1>6 DEF OrderStep

\* The other operations of the warehouses touch no order.
LEMMA WarehouseStepOK ==
    ASSUME IInv, TransfersOK, NEW s \in Slots, WarehouseStep(s) PROVE IInv'
<1>1. CASE AcceptTransfer(s)
  BY <1>1, AcceptStep
<1>2. CASE ~AcceptTransfer(s)
  BY <1>2, OrdersRest
  DEF WarehouseStep, CreateTransfer, RejectTransfer, CreateFullReturn,
      CreateLostReport, Decide
<1>3. QED
  BY <1>1, <1>2

\* Transfers are issued to couriers.
LEMMA TransfersStep ==
    ASSUME TransfersOK, [Next]_vars PROVE TransfersOK'
<1>1. \/ UNCHANGED transfers
      \/ \E s \in Slots : transfers' = [transfers EXCEPT ![s] = Nobody]
      \/ \E s \in Slots, c \in Courier, n \in 1 .. MaxQty :
            transfers' = [transfers EXCEPT ![s] = [courier |-> c, n |-> n]]
  <2>1. ASSUME NEW o \in Order, OrderStep(o) PROVE UNCHANGED transfers
    BY <2>1
    DEF OrderStep, Create, Update, Open, Rollback, ChangeStatus, Take,
        ResetLook, Look, Reset, slotVars
  <2>2. ASSUME NEW s \in Slots, AcceptTransfer(s) \/ RejectTransfer(s)
        PROVE  transfers' = [transfers EXCEPT ![s] = Nobody]
    BY <2>2 DEF AcceptTransfer, RejectTransfer
  <2>3. ASSUME NEW s \in Slots, NEW c \in Courier, NEW n \in 1 .. MaxQty,
               CreateTransfer(s, c, n)
        PROVE  transfers' = [transfers EXCEPT ![s] = [courier |-> c, n |-> n]]
    BY <2>3 DEF CreateTransfer
  <2>4. ASSUME NEW s \in Slots,
               \/ \E k \in Worker, c \in Courier : CreateFullReturn(k, s, c)
               \/ \E c \in Courier, n \in 1 .. MaxQty, dies \in BOOLEAN :
                        CreateLostReport(s, c, n, dies)
               \/ \E accept \in BOOLEAN : Decide(s, accept)
        PROVE  UNCHANGED transfers
    BY <2>4 DEF CreateFullReturn, CreateLostReport, Decide
  <2>5. CASE \/ \E k \in Worker, c \in Courier : ReturnLook(k, c)
             \/ \E k \in Worker : Drop(k)
             \/ \E n \in Counts : Adjust(n)
             \/ UNCHANGED vars
    BY <2>5 DEF ReturnLook, Look, Drop, Adjust, slotVars, vars
  <2>6. QED
    BY <2>1, <2>2, <2>3, <2>4, <2>5 DEF Next, WarehouseStep
<1>2. QED
  BY <1>1 DEF TransfersOK

------------------------------------------------------------------------------
\* Whatever requests interleave, an order that a courier has is served from the
\* main pool or from his own goods, never from another courier's.
THEOREM ServedFromOwnStock == Spec => []OwnStock
<1>1. Init => IInv /\ TransfersOK
  <2> SUFFICES ASSUME Init PROVE IInv /\ TransfersOK
    OBVIOUS
  <2>1. PlacesOK
    BY DEF Init, PlacesOK, Warehouse
  <2>2. QED
    BY <2>1
    DEF Init, IInv, NoLineIsMain, ReadIsNear, AbsentIsEmpty, OwnStock,
        TransfersOK
<1>2. IInv /\ TransfersOK /\ [Next]_vars => (IInv /\ TransfersOK)'
  <2> SUFFICES ASSUME IInv, TransfersOK, [Next]_vars PROVE IInv'
    BY TransfersStep
  <2>1. CASE \/ \E k \in Worker, c \in Courier : ReturnLook(k, c)
             \/ \E k \in Worker : Drop(k)
             \/ \E n \in Counts : Adjust(n)
             \/ UNCHANGED vars
    BY <2>1, OrdersRest DEF ReturnLook, Look, Drop, Adjust, vars
  <2>2. QED
    BY <2>1, OrderStepOK, WarehouseStepOK DEF Next
<1>3. QED
  BY <1>1, <1>2, PTL DEF IInv, Spec

------------------------------------------------------------------------------
(* Stock.                                                                  *)

TransferRow == [courier : Courier, n : Nat]
ClaimRow == [kind : {"return", "lost"}, courier : Courier, n : Nat]

\* The stock rows and the documents that tie up goods have their types.
StockTyped ==
    /\ qty \in [Warehouse -> Nat] /\ res \in [Warehouse -> Nat]
    /\ blk \in [Warehouse -> Nat]
    /\ reached \in [Order -> SUBSET Outcome]
    /\ transfers \in [Slots -> TransferRow \cup {Nobody}]
    /\ claims \in [Slots -> ClaimRow \cup {Nobody}]

\* The first m orders have had their turn at what a transfer of n brings.
IsLeft(f, c, n, m) ==
    f = [o \in 0 .. m |->
            IF o = 0 THEN n
            ELSE IF o \in ReservedFor(c) /\ Fits(o, f[o - 1])
                 THEN f[o - 1] - line[o]
                 ELSE f[o - 1]]

\* Order by order, what is left of a transfer is no more than it brought.
LEMMA LeftWithin ==
    ASSUME NEW c, NEW n \in Nat, \A o \in Order : line[o] \in Nat
    PROVE  \A o \in 0 .. NumOrders : Left(c, n)[o] \in 0 .. n
<1> DEFINE P == {m \in Nat : m <= NumOrders => \E f : IsLeft(f, c, n, m)}
<1>1. NumOrders \in Nat
  BY BoundsAreNat
<1>2. 0 \in P
  <2>1. IsLeft([o \in 0 .. 0 |-> n], c, n, 0)
    BY DEF IsLeft
  <2>2. QED
    BY <2>1
<1>3. ASSUME NEW m \in Nat, m \in P PROVE m + 1 \in P
  <2> SUFFICES ASSUME m + 1 <= NumOrders
               PROVE  \E f : IsLeft(f, c, n, m + 1)
    OBVIOUS
  <2>1. PICK f : IsLeft(f, c, n, m)
    BY <1>1, <1>3
  <2>2. \A o \in 0 .. m + 1 : o # 0 => o - 1 \in 0 .. m
    OBVIOUS
  <2> DEFINE g == [o \in 0 .. m + 1 |->
                    IF o = 0 THEN n
                    ELSE IF o \in ReservedFor(c) /\ Fits(o, f[o - 1])
                         THEN f[o - 1] - line[o]
                         ELSE f[o - 1]]
  <2> HIDE DEF P
  <2>3. \A o \in 0 .. m : g[o] = f[o]
    BY <2>1 DEF IsLeft
  <2>4. \A o \in 0 .. m + 1 : o # 0 => g[o - 1] = f[o - 1]
    <3> HIDE DEF g
    <3>1. QED
      BY <2>2, <2>3
  <2>5. IsLeft(g, c, n, m + 1)
    BY <2>4 DEF IsLeft
  <2> HIDE DEF g
  <2>6. QED
    BY <2>5
<1>4. \E f : IsLeft(f, c, n, NumOrders)
  <2>1. NumOrders \in P
    <3> HIDE DEF P
    <3>1. QED
      BY <1>1, <1>2, <1>3, NatSetInduction
  <2>2. QED
    BY <1>1, <2>1
<1>5. Left(c, n) = CHOOSE f : IsLeft(f, c, n, NumOrders)
  BY DEF Left, IsLeft
<1>6. IsLeft(Left(c, n), c, n, NumOrders)
  BY <1>4, <1>5
<1> DEFINE Q == {m \in Nat : m <= NumOrders => Left(c, n)[m] \in 0 .. n}
<1>7. 0 \in Q
  BY <1>1, <1>6 DEF IsLeft
<1>8. ASSUME NEW m \in Nat, m \in Q PROVE m + 1 \in Q
  <2> SUFFICES ASSUME m + 1 <= NumOrders PROVE Left(c, n)[m + 1] \in 0 .. n
    OBVIOUS
  <2>1. Left(c, n)[m] \in 0 .. n /\ line[m + 1] \in Nat
    BY <1>1, <1>8 DEF Order
  <2>2. Left(c, n)[m + 1] \in {Left(c, n)[m], Left(c, n)[m] - line[m + 1]}
        /\ \/ Left(c, n)[m + 1] = Left(c, n)[m]
           \/ line[m + 1] <= Left(c, n)[m]
    BY <1>1, <1>6 DEF IsLeft, Fits
  <2>3. QED
    BY <2>1, <2>2
<1>9. Nat \subseteq Q
  <2> HIDE DEF Q
  <2>1. QED
    BY <1>7, <1>8, NatSetInduction
<1>10. QED
  BY <1>1, <1>9

\* What a transfer promises to orders is part of it.
LEMMA PromisedWithin ==
    ASSUME IInv, NEW c, NEW n \in Nat
    PROVE  n - Left(c, n)[NumOrders] \in 0 .. n
<1>1. \A o \in Order : line[o] \in Nat
  BY DEF IInv, PlacesOK
<1>2. \A o \in 0 .. NumOrders : Left(c, n)[o] \in 0 .. n
  BY <1>1, LeftWithin
<1>3. NumOrders \in 0 .. NumOrders
  BY BoundsAreNat
<1>4. Left(c, n)[NumOrders] \in 0 .. n
  BY <1>2, <1>3
<1>5. QED
  BY <1>4

\* A document's row, if it is there, says what a document says.
LEMMA RowsTyped ==
    ASSUME StockTyped, NEW s \in Slots
    PROVE  /\ transfers[s] # Nobody => /\ transfers[s].courier \in Courier
                                      /\ transfers[s].n \in Nat
           /\ claims[s] # Nobody => /\ claims[s].courier \in Courier
                                   /\ claims[s].n \in Nat
BY DEF StockTyped, TransferRow, ClaimRow

\* A warehouse row is typed.
LEMMA StockRow ==
    ASSUME StockTyped, NEW w \in Warehouse
    PROVE  qty[w] \in Nat /\ res[w] \in Nat /\ blk[w] \in Nat
BY DEF StockTyped

\* Giving a reservation back leaves less reserved, here and nowhere else.
LEMMA Released ==
    ASSUME IInv, StockTyped, NEW o \in Order, read[o] # Nobody
    PROVE  /\ releaseInventory(o) \in [Warehouse -> Nat]
           /\ \A w \in Warehouse : releaseInventory(o)[w] <= res[w]
BY OrderTyped DEF releaseInventory, Minus, StockTyped

\* The transactions of an order reserve no more than there is.
LEMMA OrderKeepsStock ==
    ASSUME IInv, StockTyped, NEW o \in Order, OrderStep(o)
    PROVE  StockTyped' /\ (NeverOverpromised => NeverOverpromised')
<1>1. ASSUME NEW n \in 0 .. MaxQty, Create(o, n)
      PROVE  StockTyped' /\ (NeverOverpromised => NeverOverpromised')
  <2>1. /\ n \in Nat /\ Main \in Warehouse
        /\ res' = [res EXCEPT ![Main] = @ + n]
        /\ n = 0 \/ n <= Available(Main)
        /\ UNCHANGED <<qty, blk, reached, transfers, claims>>
    BY <1>1, BoundsAreNat DEF Create, slotVars, Warehouse
  <2>2. StockTyped'
    BY <2>1 DEF StockTyped
  <2>3. QED
    BY <2>1, <2>2, StockRow DEF StockTyped, NeverOverpromised, Available, Minus
<1>2. ASSUME NEW n \in 0 .. MaxQty, Update(o, n)
      PROVE  StockTyped' /\ (NeverOverpromised => NeverOverpromised')
  <2> DEFINE w == IF line[o] > 0 THEN read[o] ELSE Main
             left == releaseInventory(o)
  <2>1. /\ n \in Nat /\ read[o] # Nobody /\ w \in Warehouse
        /\ res' = [left EXCEPT ![w] = @ + n]
        /\ \/ n = 0
           \/ left[w] + blk[w] + n <= qty[w]
           \/ left[w] + n + blk[w] <= qty[w]
        /\ UNCHANGED <<qty, blk, reached, transfers, claims>>
    BY <1>2, BoundsAreNat, OrderTyped
    DEF Update, Close, slotVars, RowAllowed
  <2>2. /\ left \in [Warehouse -> Nat]
        /\ \A v \in Warehouse : left[v] <= res[v]
    BY <2>1, Released
  <2> HIDE DEF w, left
  <2>3. StockTyped'
    BY <2>1, <2>2 DEF StockTyped
  <2>4. ASSUME NeverOverpromised, NEW v \in Warehouse
        PROVE  res'[v] + blk'[v] <= qty'[v]
    BY <2>1, <2>2, <2>4, StockRow DEF NeverOverpromised
  <2>5. QED
    BY <2>3, <2>4 DEF NeverOverpromised
<1>3. ASSUME NEW to \in Status, ChangeStatus(o, to)
      PROVE  StockTyped' /\ (NeverOverpromised => NeverOverpromised')
  <2>1. /\ read[o] \in Warehouse /\ line[o] \in Nat
        /\ UNCHANGED <<blk, transfers, claims>>
        /\ reached' = [reached EXCEPT ![o] = @ \cup ({to} \cap Outcome)]
    BY <1>3, OrderTyped DEF ChangeStatus, Close, slotVars
  <2>2. CASE deductInventory(o)
    <3> DEFINE w == read[o]
    <3>1. /\ line[o] <= res[w] /\ line[o] <= qty[w]
          /\ qty' = [qty EXCEPT ![w] = @ - line[o]]
          /\ res' = [res EXCEPT ![w] = @ - line[o]]
      BY <2>2 DEF deductInventory
    <3>2. StockTyped'
      <4>1. qty[w] - line[o] \in Nat /\ res[w] - line[o] \in Nat
        BY <2>1, <3>1, StockRow
      <4>2. QED
        BY <2>1, <3>1, <4>1 DEF StockTyped
    <3>3. QED
      BY <2>1, <3>1, <3>2, StockRow DEF StockTyped, NeverOverpromised
  <2>3. CASE qty' = qty /\ res' \in {res, releaseInventory(o)}
    <3>1. /\ res' \in [Warehouse -> Nat]
          /\ \A w \in Warehouse : res'[w] <= res[w]
      BY <2>1, <2>3, Released, StockRow, MainIsNoCourier
      DEF StockTyped, Warehouse
    <3>2. StockTyped'
      BY <2>1, <2>3, <3>1 DEF StockTyped
    <3>3. ASSUME NeverOverpromised, NEW w \in Warehouse
          PROVE  res'[w] + blk'[w] <= qty'[w]
      <4>1. res'[w] \in Nat /\ res'[w] <= res[w] /\ res[w] + blk[w] <= qty[w]
        BY <3>1, <3>3 DEF NeverOverpromised
      <4>2. QED
        BY <2>1, <2>3, <4>1, StockRow
    <3>4. QED
      BY <3>2, <3>3 DEF NeverOverpromised
  <2>4. QED
    BY <1>3, <2>2, <2>3 DEF ChangeStatus
<1>4. ASSUME NEW c \in Courier, Take(o, c)
      PROVE  StockTyped' /\ (NeverOverpromised => NeverOverpromised')
  <2>1. /\ read[o] \in Warehouse /\ line[o] \in Nat /\ c \in Warehouse
        /\ UNCHANGED <<qty, blk, reached, transfers, claims>>
        /\ ReserveForClaim(o, c)
    BY <1>4, OrderTyped DEF Take, Close, slotVars, Warehouse
  <2>2. CASE UNCHANGED res
    BY <2>1, <2>2 DEF StockTyped, NeverOverpromised
  <2>3. CASE res' # res
    <3> DEFINE n == line[o]
               w == read[o]
    <3>1. /\ w # c /\ n <= Available(c)
          /\ res' = [res EXCEPT ![c] = @ + n, ![w] = Minus(@, n)]
      BY <2>1, <2>3 DEF ReserveForClaim
    <3>2. Minus(res[w], n) \in Nat /\ Minus(res[w], n) <= res[w]
      BY <2>1, StockRow DEF Minus
    <3>3. /\ res'[c] = res[c] + n /\ res'[w] = Minus(res[w], n)
          /\ \A v \in Warehouse \ {c, w} : res'[v] = res[v]
          /\ res' \in [Warehouse -> Nat]
      BY <2>1, <3>1, <3>2 DEF StockTyped
    <3>4. StockTyped'
      BY <2>1, <3>3 DEF StockTyped
    <3>5. ASSUME NeverOverpromised, NEW v \in Warehouse
          PROVE  res'[v] + blk'[v] <= qty'[v]
      <4>1. /\ res[v] + blk[v] <= qty[v] /\ res[v] \in Nat
            /\ qty[v] \in Nat /\ blk[v] \in Nat
        BY <3>5, StockRow DEF NeverOverpromised
      <4>2. CASE v = c
        BY <2>1, <3>1, <3>3, <4>1, <4>2 DEF Available, Minus
      <4>3. CASE v # c
        BY <2>1, <3>2, <3>3, <4>1, <4>3
      <4>4. QED
        BY <4>2, <4>3
    <3>6. QED
      BY <3>4, <3>5 DEF NeverOverpromised
  <2>4. QED
    BY <2>2, <2>3
<1>5. ASSUME NEW k \in Worker, Reset(k, o)
      PROVE  StockTyped' /\ (NeverOverpromised => NeverOverpromised')
  <2>1. /\ read[o] # Nobody /\ res' = releaseInventory(o)
        /\ UNCHANGED <<qty, blk, reached, transfers, claims>>
    BY <1>5 DEF Reset, Close, slotVars
  <2>2. /\ res' \in [Warehouse -> Nat]
        /\ \A w \in Warehouse : res'[w] <= res[w]
    BY <2>1, Released
  <2>3. StockTyped'
    BY <2>1, <2>2 DEF StockTyped
  <2>4. ASSUME NeverOverpromised, NEW w \in Warehouse
        PROVE  res'[w] + blk'[w] <= qty'[w]
    <3>1. res'[w] \in Nat /\ res'[w] <= res[w] /\ res[w] + blk[w] <= qty[w]
      BY <2>2, <2>4 DEF NeverOverpromised
    <3>2. QED
      BY <2>1, <3>1, StockRow
  <2>5. QED
    BY <2>3, <2>4 DEF NeverOverpromised
<1>6. CASE Open(o) \/ Rollback(o) \/ \E k \in Worker : ResetLook(k, o)
  BY <1>6
  DEF Open, Rollback, ResetLook, Look, slotVars, orderVars, StockTyped,
      NeverOverpromised
<1>7. QED
  BY <1>1, <1>2, <1>3, <1>4, <1>5, <1>6 DEF OrderStep

\* An accepted transfer brings a courier what it promises to his orders, and
\* leaves the main warehouse what is promised there.
LEMMA AcceptKeepsStock ==
    ASSUME IInv, StockTyped, NEW s \in Slots, AcceptTransfer(s)
    PROVE  /\ StockTyped' /\ (NeverOverpromised => NeverOverpromised')
           /\ \A c \in Courier :
                qty'[c] > qty[c] => qty'[c] - res'[c] >= qty[c] - res[c]
<1> DEFINE c == transfers[s].courier
           n == transfers[s].n
           promised == n - Left(c, n)[NumOrders]
<1>1. /\ transfers[s] # Nobody
      /\ n <= qty[Main]
      /\ RowAllowed(Main, qty[Main] - n, res[Main], blk[Main])
      /\ blk' = [blk EXCEPT ![Main] = Minus(@, n)]
      /\ qty' = [qty EXCEPT ![Main] = @ - n, ![c] = @ + n]
      /\ res' = [res EXCEPT ![Main] = Minus(@, promised), ![c] = @ + promised]
      /\ transfers' = [transfers EXCEPT ![s] = Nobody]
      /\ UNCHANGED <<reached, claims>>
  BY DEF AcceptTransfer
<1>2. /\ c \in Courier /\ n \in Nat /\ c \in Warehouse /\ Main \in Warehouse
      /\ c # Main
  BY <1>1, RowsTyped, MainIsNoCourier DEF Warehouse
<1>3. promised \in 0 .. n
  BY <1>2, PromisedWithin
<1> HIDE DEF promised, c, n
<1>4. /\ Minus(blk[Main], n) \in Nat /\ Minus(res[Main], promised) \in Nat
      /\ Minus(res[Main], promised) <= res[Main] /\ qty[Main] - n \in Nat
      /\ res[Main] <= qty[Main] - n /\ promised \in Nat
  BY <1>1, <1>2, <1>3, StockRow DEF Minus, RowAllowed
<1>5. /\ blk'[Main] = Minus(blk[Main], n)
      /\ \A w \in Warehouse \ {Main} : blk'[w] = blk[w]
      /\ blk' \in [Warehouse -> Nat]
  BY <1>1, <1>2, <1>4 DEF StockTyped
<1>6. /\ qty'[Main] = qty[Main] - n /\ qty'[c] = qty[c] + n
      /\ \A w \in Warehouse \ {Main, c} : qty'[w] = qty[w]
      /\ qty' \in [Warehouse -> Nat]
  BY <1>1, <1>2, <1>4 DEF StockTyped
<1>7. /\ res'[Main] = Minus(res[Main], promised)
      /\ res'[c] = res[c] + promised
      /\ \A w \in Warehouse \ {Main, c} : res'[w] = res[w]
      /\ res' \in [Warehouse -> Nat]
  BY <1>1, <1>2, <1>4 DEF StockTyped
<1>8. StockTyped'
  BY <1>1, <1>5, <1>6, <1>7 DEF StockTyped
<1>9. ASSUME NeverOverpromised, NEW w \in Warehouse
      PROVE  res'[w] + blk'[w] <= qty'[w]
  <2>1. /\ res[w] + blk[w] <= qty[w] /\ res[w] \in Nat
        /\ qty[w] \in Nat /\ blk[w] \in Nat
    BY <1>9, StockRow DEF NeverOverpromised
  <2>2. CASE w = Main
    BY <1>2, <1>3, <1>4, <1>5, <1>6, <1>7, <2>1, <2>2 DEF Minus
  <2>3. CASE w = c
    BY <1>2, <1>3, <1>5, <1>6, <1>7, <2>1, <2>3
  <2>4. CASE w \notin {Main, c}
    BY <1>5, <1>6, <1>7, <2>1, <2>4
  <2>5. QED
    BY <2>2, <2>3, <2>4
<1>10. ASSUME NEW d \in Courier, qty'[d] > qty[d]
       PROVE  qty'[d] - res'[d] >= qty[d] - res[d]
  <2>1. d \in Warehouse /\ d # Main
    BY MainIsNoCourier DEF Warehouse
  <2>2. qty[d] \in Nat /\ res[d] \in Nat
    BY <2>1, StockRow
  <2>3. d = c
    BY <1>6, <1>10, <2>1, <2>2
  <2>4. QED
    BY <1>2, <1>3, <1>6, <1>7, <2>2, <2>3
<1>11. QED
  BY <1>8, <1>9, <1>10 DEF NeverOverpromised

\* Transfers, returns and losses tie up no more than is free.
LEMMA WarehouseKeepsStock ==
    ASSUME IInv, StockTyped, NEW s \in Slots, WarehouseStep(s)
    PROVE  StockTyped' /\ (NeverOverpromised => NeverOverpromised')
<1>1. CASE AcceptTransfer(s)
  BY <1>1, AcceptKeepsStock
<1>2. ASSUME NEW c \in Courier, NEW n \in 1 .. MaxQty, CreateTransfer(s, c, n)
      PROVE  StockTyped' /\ (NeverOverpromised => NeverOverpromised')
  <2>1. /\ n \in Nat /\ Main \in Warehouse /\ n <= Available(Main) /\ n > 0
        /\ transfers' = [transfers EXCEPT ![s] = [courier |-> c, n |-> n]]
        /\ blk' = [blk EXCEPT ![Main] = @ + n]
        /\ UNCHANGED <<qty, res, reached, claims>>
    BY <1>2, BoundsAreNat DEF CreateTransfer, orderVars, Warehouse
  <2>2. [courier |-> c, n |-> n] \in TransferRow
    BY <2>1 DEF TransferRow
  <2>3. StockTyped'
    BY <2>1, <2>2 DEF StockTyped
  <2>4. QED
    BY <2>1, <2>3, StockRow DEF StockTyped, NeverOverpromised, Available, Minus
<1>3. CASE RejectTransfer(s)
  <2> DEFINE n == transfers[s].n
  <2>1. /\ transfers[s] # Nobody /\ Main \in Warehouse
        /\ transfers' = [transfers EXCEPT ![s] = Nobody]
        /\ blk' = [blk EXCEPT ![Main] = Minus(@, n)]
        /\ UNCHANGED <<qty, res, reached, claims>>
    BY <1>3 DEF RejectTransfer, orderVars, Warehouse
  <2>2. n \in Nat
    BY <2>1, RowsTyped
  <2> HIDE DEF n
  <2>3. Minus(blk[Main], n) \in Nat /\ Minus(blk[Main], n) <= blk[Main]
    BY <2>1, <2>2, StockRow DEF Minus
  <2>4. StockTyped'
    BY <2>1, <2>3 DEF StockTyped
  <2>5. QED
    BY <2>1, <2>3, <2>4, StockRow DEF StockTyped, NeverOverpromised
<1>4. ASSUME NEW kind \in {"return", "lost"}, NEW c \in Courier, NEW n \in Nat,
             n > 0, n <= Available(c),
             claims' = [claims EXCEPT
                    ![s] = [kind |-> kind, courier |-> c, n |-> n]],
             blk' \in {blk, [blk EXCEPT ![c] = @ + n]},
             UNCHANGED <<orderVars, read, qty, res, transfers>>
      PROVE  StockTyped' /\ (NeverOverpromised => NeverOverpromised')
  <2>1. /\ c \in Warehouse
        /\ [kind |-> kind, courier |-> c, n |-> n] \in ClaimRow
    BY DEF Warehouse, ClaimRow
  <2>2. StockTyped'
    BY <1>4, <2>1 DEF StockTyped, orderVars
  <2>3. QED
    BY <1>4, <2>1, <2>2, StockRow
    DEF StockTyped, NeverOverpromised, Available, Minus
<1>5. ASSUME NEW k \in Worker, NEW c \in Courier, CreateFullReturn(k, s, c)
      PROVE  StockTyped' /\ (NeverOverpromised => NeverOverpromised')
  <2>1. c \in Warehouse
    BY DEF Warehouse
  <2> DEFINE n == Available(c)
  <2>2. n \in Nat /\ n > 0
    BY <1>5, <2>1, StockRow DEF CreateFullReturn, Available, Minus
  <2>3. /\ claims' = [claims EXCEPT
                        ![s] = [kind |-> "return", courier |-> c, n |-> n]]
        /\ blk' = [blk EXCEPT ![c] = @ + n]
        /\ UNCHANGED <<orderVars, read, qty, res, transfers>>
    BY <1>5 DEF CreateFullReturn
  <2>4. n <= Available(c)
    BY <2>2
  <2> HIDE DEF n
  <2>5. QED
    BY <2>2, <2>3, <2>4, <1>4
<1>6. ASSUME NEW c \in Courier, NEW n \in 1 .. MaxQty, NEW dies \in BOOLEAN,
             CreateLostReport(s, c, n, dies)
      PROVE  StockTyped' /\ (NeverOverpromised => NeverOverpromised')
  <2>1. n \in Nat /\ n > 0
    BY BoundsAreNat
  <2>2. QED
    BY <1>6, <2>1, <1>4 DEF CreateLostReport
<1>7. ASSUME NEW accept \in BOOLEAN, Decide(s, accept)
      PROVE  StockTyped' /\ (NeverOverpromised => NeverOverpromised')
  <2> DEFINE c == claims[s].courier
             n == claims[s].n
             back == IF claims[s].kind = "return" THEN n ELSE 0
  <2>1. /\ claims[s] # Nobody
        /\ blk' = [blk EXCEPT ![c] = Minus(@, n)]
        /\ \/ /\ n <= qty[c]
              /\ RowAllowed(c, qty[c] - n, res[c], Minus(blk[c], n))
              /\ qty' = [qty EXCEPT ![c] = @ - n, ![Main] = @ + back]
           \/ UNCHANGED qty
        /\ claims' = [claims EXCEPT ![s] = Nobody]
        /\ UNCHANGED <<res, reached, transfers>>
    BY <1>7 DEF Decide, orderVars
  <2>2. /\ c \in Courier /\ n \in Nat /\ back \in Nat /\ c # Main
        /\ c \in Warehouse /\ Main \in Warehouse
    BY <2>1, RowsTyped, MainIsNoCourier DEF Warehouse
  <2> HIDE DEF c, n, back
  <2>3. Minus(blk[c], n) \in Nat /\ Minus(blk[c], n) <= blk[c]
    BY <2>2, StockRow DEF Minus
  <2>4. /\ blk'[c] = Minus(blk[c], n)
        /\ \A w \in Warehouse \ {c} : blk'[w] = blk[w]
        /\ blk' \in [Warehouse -> Nat]
    BY <2>1, <2>2, <2>3 DEF StockTyped
  <2>5. CASE UNCHANGED qty
    <3>1. StockTyped'
      BY <2>1, <2>4, <2>5 DEF StockTyped
    <3>2. QED
      BY <2>1, <2>2, <2>3, <2>4, <2>5, <3>1, StockRow DEF NeverOverpromised
  <2>6. CASE ~UNCHANGED qty
    <3>1. /\ n <= qty[c] /\ res[c] + Minus(blk[c], n) <= qty[c] - n
          /\ qty[c] - n \in Nat
      BY <2>1, <2>2, <2>6, StockRow DEF RowAllowed
    <3>2. /\ qty'[c] = qty[c] - n /\ qty'[Main] = qty[Main] + back
          /\ \A w \in Warehouse \ {c, Main} : qty'[w] = qty[w]
          /\ qty' \in [Warehouse -> Nat]
      BY <2>1, <2>2, <2>6, <3>1 DEF StockTyped
    <3>3. StockTyped'
      BY <2>1, <2>4, <3>2 DEF StockTyped
    <3>4. ASSUME NeverOverpromised, NEW w \in Warehouse
          PROVE  res'[w] + blk'[w] <= qty'[w]
      <4>1. /\ res[w] + blk[w] <= qty[w] /\ res[w] \in Nat
            /\ qty[w] \in Nat /\ blk[w] \in Nat
        BY <3>4, StockRow DEF NeverOverpromised
      <4>2. QED
        BY <2>1, <2>2, <2>4, <3>1, <3>2, <4>1
    <3>5. QED
      BY <3>3, <3>4 DEF NeverOverpromised
  <2>7. QED
    BY <2>5, <2>6
<1>8. QED
  BY <1>1, <1>2, <1>3, <1>5, <1>6, <1>7 DEF WarehouseStep

\* A stocktake sets what there is in the main warehouse.
LEMMA AdjustKeepsTypes ==
    ASSUME StockTyped, NEW n \in Counts, Adjust(n) PROVE StockTyped'
<1>1. n \in Nat /\ UNCHANGED <<res, blk, reached, transfers, claims>>
      /\ qty' = [qty EXCEPT ![Main] = n]
  BY BoundsAreNat DEF Adjust, orderVars, slotVars
<1>2. QED
  BY <1>1 DEF StockTyped

\* What the goods are counted with.
SInv == IInv /\ StockTyped

\* The books open with every row consistent and nothing in transfer.
LEMMA StockInit == Init => SInv /\ TransfersOK /\ NeverOverpromised
<1> SUFFICES ASSUME Init PROVE SInv /\ TransfersOK /\ NeverOverpromised
  OBVIOUS
<1>1. PlacesOK
  BY DEF Init, PlacesOK, Warehouse
<1>2. IInv
  BY <1>1
  DEF Init, IInv, NoLineIsMain, ReadIsNear, AbsentIsEmpty, OwnStock
<1>3. StockTyped /\ NeverOverpromised /\ TransfersOK
  BY BoundsAreNat
  DEF Init, StockTyped, NeverOverpromised, Warehouse, TransfersOK
<1>4. QED
  BY <1>2, <1>3 DEF SInv

\* One step: nothing more is promised than there is, unless a stocktake counts
\* less than is promised.
LEMMA StockStep ==
    ASSUME SInv, TransfersOK, [Next]_vars
    PROVE  /\ SInv' /\ TransfersOK'
           /\ NeverOverpromised
              /\ (\A n \in Counts : Adjust(n) => res[Main] + blk[Main] <= n)
                => NeverOverpromised'
<1>1. IInv /\ StockTyped
  BY DEF SInv
<1>2. TransfersOK'
  BY TransfersStep
<1>3. ASSUME NEW o \in Order, OrderStep(o)
      PROVE  SInv' /\ (NeverOverpromised => NeverOverpromised')
  BY <1>1, <1>3, OrderStepOK, OrderKeepsStock DEF SInv
<1>4. ASSUME NEW s \in Slots, WarehouseStep(s)
      PROVE  SInv' /\ (NeverOverpromised => NeverOverpromised')
  BY <1>1, <1>4, WarehouseStepOK, WarehouseKeepsStock DEF SInv
<1>5. CASE \/ \E k \in Worker, c \in Courier : ReturnLook(k, c)
           \/ \E k \in Worker : Drop(k)
           \/ UNCHANGED vars
  <2>1. /\ UNCHANGED <<orderVars, read>>
        /\ UNCHANGED <<qty, res, blk, reached, transfers, claims>>
    BY <1>5 DEF ReturnLook, Look, Drop, vars, orderVars, slotVars
  <2>2. IInv'
    BY <1>1, <2>1, OrdersRest
  <2>3. StockTyped' /\ (NeverOverpromised => NeverOverpromised')
    BY <1>1, <2>1 DEF StockTyped, NeverOverpromised
  <2>4. QED
    BY <1>2, <2>2, <2>3 DEF SInv
<1>6. ASSUME NEW n \in Counts, Adjust(n)
      PROVE  /\ SInv'
             /\ NeverOverpromised /\ res[Main] + blk[Main] <= n
                    => NeverOverpromised'
  <2>1. IInv' /\ StockTyped'
    BY <1>1, <1>6, AdjustKeepsTypes, OrdersRest DEF Adjust
  <2>2. /\ \A w \in Warehouse : qty'[w] = IF w = Main THEN n ELSE qty[w]
        /\ UNCHANGED <<res, blk>>
    BY <1>1, <1>6 DEF Adjust, StockTyped
  <2>3. QED
    BY <2>1, <2>2 DEF SInv, NeverOverpromised
<1>7. QED
  BY <1>2, <1>3, <1>4, <1>5, <1>6 DEF Next

\* No stocktake finds less in the main warehouse than is promised from it: the
\* CHECK of 00018 holds it to what is reserved, not to what is blocked.
CountsCover ==
    [][\A n \in Counts : Adjust(n) => res[Main] + blk[Main] <= n]_vars

\* The stock rows, the orders and the documents have their types throughout.
THEOREM StockTypesHold == Spec => []TypeOK
<1>1. SInv => TypeOK
  <2> SUFFICES ASSUME SInv PROVE TypeOK
    OBVIOUS
  <2>1. IInv /\ PlacesOK /\ StockTyped
    BY DEF SInv, IInv
  <2>2. QED
    BY <2>1 DEF PlacesOK, StockTyped, TypeOK, TransferRow, ClaimRow
<1>2. Init => SInv /\ TransfersOK
  BY StockInit
<1>3. SInv /\ TransfersOK /\ [Next]_vars => (SInv /\ TransfersOK)'
  BY StockStep
<1>4. QED
  BY <1>1, <1>2, <1>3, PTL DEF Spec

\* Goods are not promised twice: while stocktakes find what is promised, what
\* is reserved and blocked in a warehouse is there.
THEOREM NothingPromisedTwice == Spec /\ CountsCover => []NeverOverpromised
<1> DEFINE A == \A n \in Counts : Adjust(n) => res[Main] + blk[Main] <= n
<1>1. Init => SInv /\ TransfersOK /\ NeverOverpromised
  BY StockInit
<1>2. SInv /\ TransfersOK /\ NeverOverpromised /\ [Next]_vars /\ [A]_vars
        => (SInv /\ TransfersOK /\ NeverOverpromised)'
  <2> SUFFICES ASSUME SInv, TransfersOK, NeverOverpromised,
                      [Next]_vars, [A]_vars
               PROVE  (SInv /\ TransfersOK /\ NeverOverpromised)'
    OBVIOUS
  <2>1. CASE A
    BY <2>1, StockStep
  <2>2. CASE UNCHANGED vars
    <3>1. SInv' /\ TransfersOK'
      BY StockStep
    <3>2. QED
      BY <2>2, <3>1 DEF vars, NeverOverpromised
  <2>3. QED
    BY <2>1, <2>2
<1>3. QED
  BY <1>1, <1>2, PTL DEF Spec, CountsCover

\* The goods on the books, in all the warehouses.
LEMMA StockSum ==
    ASSUME NEW q, q \in [Warehouse -> Nat]
    PROVE  FoldFunction(+, 0, [w \in Warehouse |-> q[w]])
                = SumFunctionOnSet(q, Warehouse)
<1>1. q = [w \in Warehouse |-> q[w]]
  OBVIOUS
<1>2. FoldFunction(+, 0, [w \in Warehouse |-> q[w]])
        = SumFunctionOnSet([w \in Warehouse |-> q[w]], Warehouse)
  BY FoldIsSum
<1>3. QED
  BY <1>1, <1>2

\* The pieces on the books, summed by the model in the order of the places,
\* are the sum over the set of places: before a step and after it.
LEMMA TotalIsSum ==
    /\ StockTyped => Total = SumFunctionOnSet(qty, Warehouse)
    /\ StockTyped' => Total' = SumFunctionOnSet(qty', Warehouse)
<1>1. ASSUME StockTyped PROVE Total = SumFunctionOnSet(qty, Warehouse)
  <2>1. qty \in [Warehouse -> Nat]
    BY <1>1 DEF StockTyped
  <2>2. FoldFunction(+, 0, [w \in Warehouse |-> qty[w]])
            = SumFunctionOnSet(qty, Warehouse)
    BY <2>1, StockSum
  <2>3. QED
    BY <2>2 DEF Total, SumOver
<1>2. ASSUME StockTyped' PROVE Total' = SumFunctionOnSet(qty', Warehouse)
  <2>1. qty' \in [Warehouse -> Nat]
    BY <1>2 DEF StockTyped
  <2>2. FoldFunction(+, 0, [w \in Warehouse |-> qty'[w]])
            = SumFunctionOnSet(qty', Warehouse)
    BY <2>1, StockSum
  <2>3. QED
    BY <2>2 DEF Total, SumOver, FoldFunction, FoldFunctionOnSet, MapThenFoldSet
<1>3. QED
  BY <1>1, <1>2

\* There are finitely many warehouses.
LEMMA WarehousesFinite == IsFiniteSet(Warehouse)
BY RowsAreFinite, FS_AddElement DEF Warehouse

\* That sum is an integer, before a step and after it.
LEMMA TotalTyped ==
    ASSUME StockTyped, StockTyped' PROVE Total \in Int /\ Total' \in Int
<1>1. /\ \A w \in Warehouse : qty[w] \in Int
      /\ \A w \in Warehouse : qty'[w] \in Int
  BY DEF StockTyped
<1>2. /\ SumFunctionOnSet(qty, Warehouse) \in Int
      /\ SumFunctionOnSet(qty', Warehouse) \in Int
  BY <1>1, WarehousesFinite, SumTakeOut
<1>3. QED
  BY <1>2, TotalIsSum

\* Goods that leave one warehouse leave the books.
LEMMA TotalFalls ==
    ASSUME StockTyped, StockTyped', NEW w \in Warehouse, NEW n \in Nat,
           qty' = [qty EXCEPT ![w] = @ - n]
    PROVE  Total' + n = Total
<1> DEFINE m == 0 - n
           q == [qty EXCEPT ![w] = @ + m]
<1>1. qty \in [Warehouse -> Int] /\ m \in Int
  BY DEF StockTyped
<1>2. qty[w] - n = qty[w] + m
  BY <1>1
<1>3. qty' = q
  BY <1>2
<1> HIDE DEF m
<1>4. /\ SumFunctionOnSet(qty, Warehouse) \in Int
      /\ SumFunctionOnSet(q, Warehouse) = SumFunctionOnSet(qty, Warehouse) + m
  BY <1>1, WarehousesFinite, SumMoves
<1> HIDE DEF q
<1>5. Total = SumFunctionOnSet(qty, Warehouse)
      /\ Total' = SumFunctionOnSet(q, Warehouse)
  BY <1>3, TotalIsSum
<1>6. QED
  BY <1>4, <1>5 DEF m

\* Goods that go from one warehouse to another stay on the books.
LEMMA TotalStays ==
    ASSUME StockTyped, StockTyped', NEW w \in Warehouse, NEW v \in Warehouse,
           w # v, NEW n \in Nat,
           qty' = [qty EXCEPT ![w] = @ - n, ![v] = @ + n]
    PROVE  Total' = Total
<1> DEFINE m == 0 - n
           q == [qty EXCEPT ![w] = @ + m]
           r == [q EXCEPT ![v] = @ + n]
<1>1. qty \in [Warehouse -> Int] /\ m \in Int /\ n \in Int
  BY DEF StockTyped
<1>2. qty[w] - n = qty[w] + m
  BY <1>1
<1> HIDE DEF m
<1>3. q \in [Warehouse -> Int]
  BY <1>1
<1>4. qty' = r
  BY <1>1, <1>2
<1>5. /\ SumFunctionOnSet(qty, Warehouse) \in Int
      /\ SumFunctionOnSet(q, Warehouse) = SumFunctionOnSet(qty, Warehouse) + m
  BY <1>1, WarehousesFinite, SumMoves
<1> HIDE DEF q
<1>6. /\ SumFunctionOnSet(q, Warehouse) \in Int
      /\ SumFunctionOnSet(r, Warehouse) = SumFunctionOnSet(q, Warehouse) + n
  BY <1>1, <1>3, WarehousesFinite, SumMoves
<1> HIDE DEF r
<1>7. Total = SumFunctionOnSet(qty, Warehouse)
      /\ Total' = SumFunctionOnSet(r, Warehouse)
  BY <1>4, TotalIsSum
<1>8. QED
  BY <1>5, <1>6, <1>7 DEF m

\* The steps that touch the goods there are.
LEMMA QtyStep ==
    ASSUME Next
    PROVE  \/ qty' = qty
              /\ \/ reached' = reached
                 \/ \E o \in Order, to \in Status \ {"delivered"} :
                        ChangeStatus(o, to)
           \/ \E o \in Order : ChangeStatus(o, "delivered")
           \/ \E s \in Slots : AcceptTransfer(s) \/ Decide(s, TRUE)
           \/ \E n \in Counts : Adjust(n)
<1>1. ASSUME NEW o \in Order, OrderStep(o),
            ~ \E to \in Status : ChangeStatus(o, to)
      PROVE  qty' = qty /\ reached' = reached
  BY <1>1
  DEF OrderStep, Create, Update, Open, Rollback, Take, ResetLook, Look, Reset,
      orderVars
<1>2. ASSUME NEW o \in Order, NEW to \in Status \ {"delivered"},
             ChangeStatus(o, to)
      PROVE  qty' = qty
  BY <1>2 DEF ChangeStatus
<1>3. ASSUME NEW s \in Slots, WarehouseStep(s), ~AcceptTransfer(s),
             ~Decide(s, TRUE)
      PROVE  qty' = qty /\ reached' = reached
  BY <1>3
  DEF WarehouseStep, CreateTransfer, RejectTransfer, CreateFullReturn,
      CreateLostReport, Decide, orderVars
<1>4. CASE \/ \E k \in Worker, c \in Courier : ReturnLook(k, c)
           \/ \E k \in Worker : Drop(k)
  BY <1>4 DEF ReturnLook, Look, Drop, orderVars
<1>5. QED
  BY <1>1, <1>2, <1>3, <1>4 DEF Next

\* A delivery takes the order's line from where it was read to be, the first
\* time; later it takes nothing.
LEMMA DeliveryStep ==
    ASSUME SInv, SInv', NEW o \in Order, ChangeStatus(o, "delivered")
    PROVE  /\ status' # status
           /\ \A p \in Order : FirstDelivered(p)
                                <=> p = o /\ "delivered" \notin reached[o]
           /\ \A c \in Courier : qty'[c] <= qty[c]
           /\ IF "delivered" \in reached[o] THEN qty' = qty
                                            ELSE Total' + line[o] = Total
<1>1. IInv /\ PlacesOK /\ StockTyped /\ StockTyped'
  BY DEF SInv, IInv
<1>2. /\ read[o] \in Warehouse /\ line[o] \in Nat /\ status[o] # "delivered"
      /\ status'[o] = "delivered"
      /\ reached' = [reached EXCEPT ![o] = @ \cup {"delivered"}]
  <2>1. /\ read[o] # Nobody /\ status[o] # "delivered"
        /\ status' = [status EXCEPT ![o] = "delivered"]
        /\ reached' = [reached EXCEPT
                     ![o] = @ \cup ({"delivered"} \cap Outcome)]
    BY DEF ChangeStatus, Close
  <2>2. {"delivered"} \cap Outcome = {"delivered"}
    BY DEF Outcome
  <2>3. QED
    BY <1>1, <2>1, <2>2, OrderTyped DEF PlacesOK
<1>3. \A p \in Order : FirstDelivered(p)
                        <=> p = o /\ "delivered" \notin reached[o]
  BY <1>1, <1>2 DEF StockTyped, FirstDelivered
<1>4. CASE "delivered" \in reached[o]
  <2>1. qty' = qty
    BY <1>4 DEF ChangeStatus
  <2>2. \A c \in Courier : qty'[c] <= qty[c]
    BY <1>1, <2>1, StockRow DEF Warehouse
  <2>3. QED
    BY <1>2, <1>3, <1>4, <2>1, <2>2
<1>5. CASE "delivered" \notin reached[o]
  <2>1. /\ line[o] <= qty[read[o]]
        /\ qty' = [qty EXCEPT ![read[o]] = @ - line[o]]
    BY <1>5 DEF ChangeStatus, deductInventory
  <2>2. Total' + line[o] = Total
    BY <1>1, <1>2, <2>1, TotalFalls
  <2>3. \A c \in Courier : qty'[c] <= qty[c]
    BY <1>1, <1>2, <2>1 DEF StockTyped, Warehouse
  <2>4. QED
    BY <1>2, <1>3, <1>5, <2>2, <2>3
<1>6. QED
  BY <1>4, <1>5

\* A return that is accepted goes to the main warehouse, a loss that is
\* approved nowhere.
LEMMA DecideStep ==
    ASSUME SInv, SInv', NEW s \in Slots, Decide(s, TRUE)
    PROVE  /\ status' = status /\ claims[s] # Nobody /\ claims'[s] = Nobody
           /\ \A c \in Courier : qty'[c] <= qty[c]
           /\ IF claims[s].kind = "lost" THEN Total' + claims[s].n = Total
                                        ELSE Total' = Total
<1> DEFINE c == claims[s].courier
           n == claims[s].n
           back == IF claims[s].kind = "return" THEN n ELSE 0
<1>1. StockTyped /\ StockTyped'
  BY DEF SInv
<1>2. /\ claims[s] # Nobody /\ status' = status
      /\ n <= qty[c]
      /\ qty' = [qty EXCEPT ![c] = @ - n, ![Main] = @ + back]
      /\ claims' = [claims EXCEPT ![s] = Nobody]
  BY DEF Decide, orderVars
<1>3. /\ c \in Courier /\ n \in Nat /\ c \in Warehouse /\ Main \in Warehouse
      /\ c # Main /\ claims[s].kind \in {"return", "lost"}
  BY <1>1, <1>2, MainIsNoCourier DEF StockTyped, ClaimRow, Warehouse
<1>4. claims[s].kind = "return" => Total' = Total
  <2> HAVE claims[s].kind = "return"
  <2>1. qty' = [qty EXCEPT ![c] = @ - n, ![Main] = @ + n]
    BY <1>2
  <2> HIDE DEF c, n
  <2>2. QED
    BY <1>1, <1>2, <1>3, <2>1, TotalStays
<1>5. claims[s].kind = "lost" => Total' + n = Total
  <2> HAVE claims[s].kind = "lost"
  <2>1. back = 0
    OBVIOUS
  <2>2. qty' = [qty EXCEPT ![c] = @ - n]
    <3>1. /\ qty \in [Warehouse -> Nat]
          /\ qty' = [qty EXCEPT ![c] = @ - n, ![Main] = @ + 0]
      BY <1>1, <1>2, <2>1 DEF StockTyped
    <3>2. qty[c] - n \in Nat
      BY <1>2, <1>3, <3>1
    <3> HIDE DEF c, n
    <3>3. \A v \in Warehouse :
            qty'[v] = IF v = c THEN qty[c] - n ELSE qty[v]
      BY <1>3, <3>1
    <3>4. qty' = [v \in Warehouse |-> IF v = c THEN qty[c] - n ELSE qty[v]]
      BY <3>1, <3>3
    <3>5. QED
      BY <1>3, <3>1, <3>4
  <2> HIDE DEF c, n
  <2>3. QED
    BY <1>1, <1>2, <1>3, <2>2, TotalFalls
<1>6. claims'[s] = Nobody
  BY <1>1, <1>2 DEF StockTyped
<1>7. \A d \in Courier : qty'[d] <= qty[d]
  <2>1. ASSUME NEW d \in Courier PROVE qty'[d] <= qty[d]
    <3>1. d \in Warehouse /\ d # Main /\ qty[d] \in Nat
      BY <1>1, MainIsNoCourier, StockRow DEF Warehouse
    <3> HIDE DEF c, n, back
    <3>2. qty'[d] = qty[d] \/ qty'[d] = qty[d] - n
      BY <1>1, <1>2, <3>1 DEF StockTyped
    <3>3. QED
      BY <1>3, <3>1, <3>2
  <2>2. QED
    BY <2>1
<1>8. QED
  BY <1>2, <1>3, <1>4, <1>5, <1>6, <1>7

\* The rows stay consistent and the transfers well formed, in every state.
LEMMA StockInvariant == Spec => [](SInv /\ TransfersOK)
<1>1. Init => SInv /\ TransfersOK
  BY StockInit
<1>2. SInv /\ TransfersOK /\ [Next]_vars => (SInv /\ TransfersOK)'
  BY StockStep
<1>3. QED
  BY <1>1, <1>2, PTL DEF Spec

\* Accepting a transfer never ties up goods the courier had free: whenever his
\* quantity rises, what he has beyond his reservations does not fall.
THEOREM AcceptedGoodsAreFree == Spec => AcceptKeepsFreeStock
<1> DEFINE Free == \A c \in Courier :
                qty'[c] > qty[c] => qty'[c] - res'[c] >= qty[c] - res[c]
<1>1. SInv /\ SInv' /\ [Next]_vars => [Free]_vars
  <2> SUFFICES ASSUME SInv, SInv', Next PROVE Free
    OBVIOUS
  <2>1. IInv /\ StockTyped /\ StockTyped'
    BY DEF SInv
  <2>2. \A c \in Courier : qty[c] \in Nat /\ qty'[c] \in Nat
    BY <2>1 DEF StockTyped, Warehouse
  <2>3. ASSUME \A c \in Courier : qty'[c] <= qty[c] PROVE Free
    BY <2>2, <2>3
  <2>4. ASSUME NEW s \in Slots, AcceptTransfer(s) PROVE Free
    BY <2>1, <2>4, AcceptKeepsStock
  <2>5. ASSUME NEW s \in Slots, Decide(s, TRUE) PROVE Free
    <3>1. \A c \in Courier : qty'[c] <= qty[c]
      BY <2>5, DecideStep
    <3>2. QED
      BY <2>3, <3>1
  <2>6. ASSUME NEW o \in Order, ChangeStatus(o, "delivered") PROVE Free
    <3>1. \A c \in Courier : qty'[c] <= qty[c]
      BY <2>6, DeliveryStep
    <3>2. QED
      BY <2>3, <3>1
  <2>7. ASSUME NEW n \in Counts, Adjust(n) PROVE Free
    <3>1. \A c \in Courier : qty'[c] = qty[c]
      BY <2>1, <2>7, MainIsNoCourier DEF Adjust, StockTyped, Warehouse
    <3>2. QED
      BY <2>2, <2>3, <3>1
  <2>8. CASE qty' = qty
    BY <2>2, <2>3, <2>8
  <2> HIDE DEF Free
  <2>9. QED
    BY <2>4, <2>5, <2>6, <2>7, <2>8, QtyStep
<1>2. QED
  BY <1>1, StockInvariant, PTL DEF Spec, AcceptKeepsFreeStock

\* What the orders that are delivered for the first time take along.
LEMMA NothingDelivered ==
    ASSUME \A o \in Order : ~FirstDelivered(o)
    PROVE  SumOver({o \in Order : FirstDelivered(o)}, LAMBDA o : line[o]) = 0
<1>1. {o \in Order : FirstDelivered(o)} = {}
  OBVIOUS
<1>2. FoldFunction(+, 0, [o \in {} |-> line[o]]) = 0
  BY FoldIsSum, SumEmpty
<1>3. QED
  BY <1>1, <1>2 DEF SumOver

\* Where one order is delivered for the first time, what leaves the books is
\* its line.
LEMMA OneDelivered ==
    ASSUME NEW o \in Order, line[o] \in Nat,
           \A p \in Order : FirstDelivered(p) <=> p = o
    PROVE  SumOver({p \in Order : FirstDelivered(p)}, LAMBDA p : line[p])
                = line[o]
<1>1. {p \in Order : FirstDelivered(p)} = {o}
  OBVIOUS
<1> DEFINE f == [p \in {o} |-> line[p]]
<1>2. f[o] = line[o] /\ f[o] \in Int
  OBVIOUS
<1>3. FoldFunction(+, 0, f) = SumFunctionOnSet(f, {o})
  BY FoldIsSum
<1>4. SumFunctionOnSet(f, {o}) = f[o]
  <2> HIDE DEF f
  <2>1. QED
    BY <1>2, SumOne
<1>5. FoldFunction(+, 0, [p \in {o} |-> line[p]]) = line[o]
  BY <1>2, <1>3, <1>4
<1>6. QED
  BY <1>1, <1>5 DEF SumOver

\* Goods leave the books with the first delivery of an order, by its line, or
\* with an approved loss, by what was reported; nothing else but a stocktake
\* changes what there is in all.
THEOREM GoodsLeaveTheBooksOnce == Spec => GoodsLeaveOnce
<1>1. SInv /\ SInv' /\ [Next]_vars => [GoodsMove]_vars
  <2> SUFFICES ASSUME SInv, SInv', Next PROVE GoodsMove
    OBVIOUS
  <2>1. IInv /\ PlacesOK /\ StockTyped /\ StockTyped'
    BY DEF SInv, IInv
  <2>2. Total \in Int /\ Total' \in Int
    BY <2>1, TotalTyped
  <2>3. ASSUME qty' = qty, \A o \in Order : ~FirstDelivered(o) PROVE GoodsMove
    <3>1. Total' = Total
      BY <2>1, <2>3, TotalIsSum
    <3>2. SumOver({o \in Order : FirstDelivered(o)}, LAMBDA o : line[o]) = 0
      BY <2>3, NothingDelivered
    <3>3. Total' + SumOver({o \in Order : FirstDelivered(o)},
                           LAMBDA o : line[o]) = Total
      BY <2>2, <3>1, <3>2
    <3>4. QED
      BY <2>3, <3>3 DEF GoodsMove
  <2>4. ASSUME qty' = qty, reached' = reached PROVE GoodsMove
    <3>1. \A o \in Order : ~FirstDelivered(o)
      BY <2>4 DEF FirstDelivered
    <3>2. QED
      BY <2>3, <2>4, <3>1
  <2>5. ASSUME NEW o \in Order, NEW to \in Status \ {"delivered"},
               ChangeStatus(o, to), qty' = qty
        PROVE  GoodsMove
    <3>1. /\ reached' = [reached EXCEPT ![o] = @ \cup ({to} \cap Outcome)]
          /\ "delivered" \notin {to} \cap Outcome
      BY <2>5 DEF ChangeStatus
    <3>2. \A p \in Order : ~FirstDelivered(p)
      BY <2>1, <3>1 DEF StockTyped, FirstDelivered
    <3>3. QED
      BY <2>3, <2>5, <3>2
  <2>6. ASSUME NEW o \in Order, ChangeStatus(o, "delivered") PROVE GoodsMove
    <3>1. /\ status' # status
          /\ \A p \in Order : FirstDelivered(p)
                                <=> p = o /\ "delivered" \notin reached[o]
          /\ IF "delivered" \in reached[o] THEN qty' = qty
                                           ELSE Total' + line[o] = Total
      BY <2>6, DeliveryStep
    <3>2. CASE "delivered" \in reached[o]
      <4>1. qty' = qty /\ \A p \in Order : ~FirstDelivered(p)
        BY <3>1, <3>2
      <4>2. QED
        BY <2>3, <4>1
    <3>3. CASE "delivered" \notin reached[o]
      <4>1. \A p \in Order : FirstDelivered(p) <=> p = o
        BY <3>1, <3>3
      <4>2. line[o] \in Nat
        BY <2>1, OrderTyped
      <4>3. SumOver({p \in Order : FirstDelivered(p)}, LAMBDA p : line[p])
                = line[o]
        BY <4>1, <4>2, OneDelivered
      <4>4. Total' + line[o] = Total
        BY <3>1, <3>3
      <4>5. QED
        BY <3>1, <4>3, <4>4 DEF GoodsMove
    <3>4. QED
      BY <3>2, <3>3
  <2>7. ASSUME NEW s \in Slots, Decide(s, TRUE) PROVE GoodsMove
    BY <2>7, DecideStep DEF GoodsMove
  <2>8. ASSUME NEW s \in Slots, AcceptTransfer(s) PROVE GoodsMove
    <3> DEFINE c == transfers[s].courier
               n == transfers[s].n
    <3>1. /\ transfers[s] # Nobody /\ status' = status
          /\ qty' = [qty EXCEPT ![Main] = @ - n, ![c] = @ + n]
      BY <2>8 DEF AcceptTransfer
    <3>2. /\ c \in Warehouse /\ n \in Nat /\ Main \in Warehouse /\ c # Main
      BY <2>1, <3>1, RowsTyped, MainIsNoCourier DEF Warehouse
    <3> HIDE DEF c, n
    <3>3. Total' = Total
      BY <2>1, <3>1, <3>2, TotalStays
    <3>4. QED
      BY <3>1, <3>3 DEF GoodsMove
  <2>9. ASSUME NEW n \in Counts, Adjust(n) PROVE GoodsMove
    BY <2>9 DEF GoodsMove
  <2>10. QED
    BY <2>4, <2>5, <2>6, <2>7, <2>8, <2>9, QtyStep
<1>2. QED
  BY <1>1, StockInvariant, PTL DEF Spec, GoodsLeaveOnce

------------------------------------------------------------------------------
(* What is blocked.                                                        *)

\* What each slot holds back: of the main warehouse, and of a courier's.
Transferring ==
    [s \in Slots |-> IF transfers[s] # Nobody THEN transfers[s].n ELSE 0]
Claiming(c) ==
    [s \in Slots |-> IF claims[s] # Nobody /\ claims[s].courier = c
                     THEN claims[s].n ELSE 0]

Held ==
    /\ blk[Main] = SumFunctionOnSet(Transferring, Slots)
    /\ \A c \in Courier : blk[c] = SumFunctionOnSet(Claiming(c), Slots)

\* The sum over the open documents is the sum over all the slots.
LEMMA HeldIsBlocked == ASSUME StockTyped, Held PROVE BlockedIsHeld
<1>1. IsFiniteSet(Slots)
  BY RowsAreFinite
<1>2. blk[Main] = SumOver({s \in Slots : transfers[s] # Nobody},
                          LAMBDA s : transfers[s].n)
  <2> DEFINE Q == {s \in Slots : transfers[s] # Nobody}
             f == [s \in Q |-> transfers[s].n]
  <2>1. \A s \in Q : f[s] \in Int /\ Transferring[s] = f[s]
    BY RowsTyped DEF Transferring
  <2>2. \A s \in Slots \ Q : Transferring[s] = 0
    BY DEF Transferring
  <2>3. Q \in SUBSET Slots
    OBVIOUS
  <2>4. SumFunctionOnSet(f, Q) = SumFunctionOnSet(Transferring, Slots)
    <3> HIDE DEF f, Q
    <3>1. QED
      BY <1>1, <2>1, <2>2, <2>3, SumWhere
  <2>5. FoldFunction(+, 0, f) = SumFunctionOnSet(f, Q)
    BY FoldIsSum
  <2>6. QED
    BY <2>4, <2>5 DEF SumOver, Held
<1>3. ASSUME NEW c \in Courier
      PROVE  blk[c] = SumOver({s \in Slots : claims[s] # Nobody
                                             /\ claims[s].courier = c},
                              LAMBDA s : claims[s].n)
  <2> DEFINE Q == {s \in Slots : claims[s] # Nobody /\ claims[s].courier = c}
             f == [s \in Q |-> claims[s].n]
             g == Claiming(c)
  <2>1. \A s \in Q : f[s] \in Int /\ g[s] = f[s]
    BY RowsTyped DEF Claiming
  <2>2. \A s \in Slots \ Q : g[s] = 0
    BY DEF Claiming
  <2>3. Q \in SUBSET Slots
    OBVIOUS
  <2>4. SumFunctionOnSet(f, Q) = SumFunctionOnSet(g, Slots)
    <3> HIDE DEF f, g, Q
    <3>1. QED
      BY <1>1, <2>1, <2>2, <2>3, SumWhere
  <2>5. FoldFunction(+, 0, f) = SumFunctionOnSet(f, Q)
    BY FoldIsSum
  <2>6. QED
    BY <2>4, <2>5 DEF SumOver, Held
<1>4. QED
  BY <1>2, <1>3 DEF BlockedIsHeld

Amounts == [Slots -> Nat]

\* What the transfers and the claims hold are amounts.
LEMMA HoldingTyped ==
    ASSUME StockTyped
    PROVE  /\ Transferring \in Amounts
           /\ \A c \in Courier : Claiming(c) \in Amounts
BY RowsTyped DEF Transferring, Claiming, Amounts

\* One slot holds another amount back.
LEMMA SlotSum ==
    ASSUME NEW f \in Amounts, NEW s \in Slots, NEW n \in Nat
    PROVE  /\ SumFunctionOnSet(f, Slots) \in Nat
           /\ f[s] <= SumFunctionOnSet(f, Slots)
           /\ SumFunctionOnSet([f EXCEPT ![s] = n], Slots)
                = SumFunctionOnSet(f, Slots) + n - f[s]
<1> DEFINE g == [f EXCEPT ![s] = n]
<1>1. IsFiniteSet(Slots)
  BY RowsAreFinite
<1>2. g[s] = n /\ f[s] \in Nat
  BY DEF Amounts
<1>3. \A t \in Slots : f[t] \in Int /\ g[t] \in Int
  BY DEF Amounts
<1>4. \A t \in Slots \ {s} : g[t] = f[t]
  BY DEF Amounts
<1>5. \A t \in Slots : f[t] \in Nat
  BY DEF Amounts
<1> HIDE DEF g
<1>6. SumFunctionOnSet(f, Slots) \in Nat /\ f[s] <= SumFunctionOnSet(f, Slots)
  BY <1>1, <1>5, SumNat
<1>7. SumFunctionOnSet(g, Slots) = SumFunctionOnSet(f, Slots) + g[s] - f[s]
  BY <1>1, <1>3, <1>4, SumChange
<1>8. SumFunctionOnSet(g, Slots) = SumFunctionOnSet(f, Slots) + n - f[s]
  BY <1>2, <1>7
<1>9. QED
  BY <1>6, <1>8 DEF g

\* A transfer is issued, accepted or rejected, and the main warehouse blocks or
\* frees what it is about.
LEMMA TransferHeld ==
    ASSUME StockTyped, Held, NEW s \in Slots, NEW n \in Nat, NEW b \in Nat,
           Transferring' = [Transferring EXCEPT ![s] = n],
           b = blk[Main] + n - Transferring[s],
           blk' = [blk EXCEPT ![Main] = b], UNCHANGED claims
    PROVE  Held'
<1> DEFINE f == Transferring
           g == [f EXCEPT ![s] = n]
<1>1. f \in Amounts
  BY HoldingTyped
<1>3. blk'[Main] = b /\ \A c \in Courier : blk'[c] = blk[c]
  BY MainIsNoCourier DEF StockTyped, Warehouse
<1>4. Transferring' = g
  OBVIOUS
<1>5. blk[Main] = SumFunctionOnSet(f, Slots)
  BY DEF Held
<1>6. b = blk[Main] + n - f[s]
  OBVIOUS
<1>7. ASSUME NEW c \in Courier
      PROVE  blk'[c] = SumFunctionOnSet(Claiming(c), Slots)'
  BY <1>3 DEF Held, Claiming
<1> HIDE DEF f
<1>8. SumFunctionOnSet(g, Slots) = SumFunctionOnSet(f, Slots) + n - f[s]
  BY <1>1, SlotSum
<1> HIDE DEF g
<1>9. blk'[Main] = SumFunctionOnSet(Transferring', Slots)
  BY <1>3, <1>4, <1>5, <1>6, <1>8
<1>10. QED
  BY <1>7, <1>9 DEF Held

\* A claim is filed or decided, and its courier's warehouse blocks or frees
\* what it is about.
LEMMA ClaimHeld ==
    ASSUME StockTyped, Held, NEW s \in Slots, NEW c \in Courier,
           NEW n \in Nat, NEW b \in Nat,
           Claiming(c)' = [Claiming(c) EXCEPT ![s] = n],
           \A d \in Courier \ {c} : Claiming(d)' = Claiming(d),
           b = blk[c] + n - Claiming(c)[s],
           blk' = [blk EXCEPT ![c] = b], UNCHANGED transfers
    PROVE  Held'
<1> DEFINE f == Claiming(c)
           g == [f EXCEPT ![s] = n]
<1>1. f \in Amounts
  BY HoldingTyped
<1>2. /\ blk'[c] = b /\ blk'[Main] = blk[Main]
      /\ \A d \in Courier \ {c} : blk'[d] = blk[d]
  BY MainIsNoCourier DEF StockTyped, Warehouse
<1>3. Claiming(c)' = g
  OBVIOUS
<1>4. blk[c] = SumFunctionOnSet(f, Slots)
  BY DEF Held
<1>5. b = blk[c] + n - f[s]
  OBVIOUS
<1>6. blk'[Main] = SumFunctionOnSet(Transferring', Slots)
  BY <1>2 DEF Held, Transferring
<1>7. ASSUME NEW d \in Courier \ {c}
      PROVE  blk'[d] = SumFunctionOnSet(Claiming(d)', Slots)
  BY <1>2, <1>7 DEF Held
<1> HIDE DEF f
<1>8. SumFunctionOnSet(g, Slots) = SumFunctionOnSet(f, Slots) + n - f[s]
  BY <1>1, SlotSum
<1> HIDE DEF g
<1>9. blk'[c] = SumFunctionOnSet(Claiming(c)', Slots)
  BY <1>2, <1>3, <1>4, <1>5, <1>8
<1>10. \A d \in Courier : blk'[d] = SumFunctionOnSet(Claiming(d)', Slots)
  BY <1>7, <1>9
<1>11. QED
  BY <1>6, <1>10 DEF Held

\* The clamp at zero never bites: what a document blocks is blocked.
LEMMA BlockedCovers ==
    ASSUME StockTyped, Held, NEW s \in Slots
    PROVE  /\ transfers[s] # Nobody => transfers[s].n <= blk[Main]
           /\ claims[s] # Nobody => claims[s].n <= blk[claims[s].courier]
<1>1. ASSUME transfers[s] # Nobody PROVE transfers[s].n <= blk[Main]
  <2>1. Transferring[s] = transfers[s].n
    BY <1>1 DEF Transferring
  <2>2. Transferring[s] <= SumFunctionOnSet(Transferring, Slots)
    BY HoldingTyped, SlotSum
  <2>3. QED
    BY <2>1, <2>2 DEF Held
<1>2. ASSUME claims[s] # Nobody
      PROVE  claims[s].n <= blk[claims[s].courier]
  <2> DEFINE c == claims[s].courier
             f == Claiming(c)
  <2>1. c \in Courier /\ f[s] = claims[s].n
    BY <1>2, RowsTyped DEF Claiming
  <2>2. f \in Amounts /\ blk[c] = SumFunctionOnSet(f, Slots)
    BY <2>1, HoldingTyped DEF Held
  <2> HIDE DEF f
  <2>3. f[s] <= SumFunctionOnSet(f, Slots)
    BY <2>2, SlotSum
  <2>4. QED
    BY <2>1, <2>2, <2>3
<1>3. QED
  BY <1>1, <1>2

\* A transfer's slot is filled or emptied.
LEMMA TransferSlot ==
    ASSUME StockTyped, NEW s \in Slots, NEW row,
           transfers' = [transfers EXCEPT ![s] = row]
    PROVE  Transferring' = [Transferring EXCEPT ![s] =
                                IF row # Nobody THEN row.n ELSE 0]
BY DEF StockTyped, Transferring

\* So is a claim's.
LEMMA ClaimSlot ==
    ASSUME StockTyped, NEW s \in Slots, NEW row,
           claims' = [claims EXCEPT ![s] = row],
           NEW c
    PROVE  Claiming(c)' = [Claiming(c) EXCEPT ![s] =
                            IF row # Nobody /\ row.courier = c
                            THEN row.n ELSE 0]
BY DEF StockTyped, Claiming

\* Accepting or rejecting a transfer frees what it blocks; so does a decision
\* on a claim.
LEMMA FreedExactly ==
    ASSUME NEW m \in Nat, NEW n \in Nat, n <= m
    PROVE  Minus(m, n) \in Nat /\ Minus(m, n) = m + 0 - n
BY DEF Minus

\* One step of a warehouse, without crashes.
LEMMA WarehouseHeld ==
    ASSUME StockTyped, Held, MayCrash = FALSE,
           NEW s \in Slots, WarehouseStep(s)
    PROVE  Held'
<1>1. ASSUME NEW c \in Courier, NEW n \in 1 .. MaxQty, CreateTransfer(s, c, n)
      PROVE  Held'
  <2> DEFINE row == [courier |-> c, n |-> n]
             b == blk[Main] + n
  <2>1. /\ n \in Nat /\ blk[Main] \in Nat /\ b \in Nat /\ row.n = n
        /\ row \in TransferRow
    BY BoundsAreNat, StockRow DEF Warehouse, TransferRow
  <2>2. row # Nobody
    BY <2>1, NobodyIsNoRow DEF TransferRow
  <2>3. /\ transfers[s] = Nobody /\ transfers' = [transfers EXCEPT ![s] = row]
        /\ blk' = [blk EXCEPT ![Main] = b] /\ UNCHANGED claims
    BY <1>1 DEF CreateTransfer
  <2> HIDE DEF row
  <2>4. Transferring' = [Transferring EXCEPT ![s] = n]
    BY <2>1, <2>2, <2>3, TransferSlot
  <2>5. Transferring[s] = 0
    BY <2>3 DEF Transferring
  <2>6. b = blk[Main] + n - Transferring[s]
    BY <2>1, <2>5
  <2> HIDE DEF b
  <2>7. QED
    BY <2>1, <2>3, <2>4, <2>6, TransferHeld
<1>2. ASSUME AcceptTransfer(s) \/ RejectTransfer(s) PROVE Held'
  <2> DEFINE n == transfers[s].n
             b == Minus(blk[Main], n)
  <2>1. /\ transfers[s] # Nobody
        /\ transfers' = [transfers EXCEPT ![s] = Nobody]
        /\ blk' = [blk EXCEPT ![Main] = b] /\ UNCHANGED claims
    BY <1>2 DEF AcceptTransfer, RejectTransfer
  <2>2. n \in Nat /\ blk[Main] \in Nat /\ n <= blk[Main]
    BY <2>1, RowsTyped, StockRow, BlockedCovers DEF Warehouse
  <2>3. b \in Nat /\ b = blk[Main] + 0 - n
    BY <2>2, FreedExactly
  <2>4. Transferring' = [Transferring EXCEPT ![s] = 0]
    BY <2>1, TransferSlot
  <2>5. Transferring[s] = n
    BY <2>1 DEF Transferring
  <2>6. b = blk[Main] + 0 - Transferring[s]
    BY <2>3, <2>5
  <2> HIDE DEF b, n
  <2>7. QED
    BY <2>1, <2>3, <2>4, <2>6, TransferHeld
<1>3. ASSUME NEW kind \in {"return", "lost"}, NEW c \in Courier, NEW n \in Nat,
             claims[s] = Nobody,
             claims' = [claims EXCEPT
                    ![s] = [kind |-> kind, courier |-> c, n |-> n]],
             blk' = [blk EXCEPT ![c] = @ + n], UNCHANGED transfers
      PROVE  Held'
  <2> DEFINE row == [kind |-> kind, courier |-> c, n |-> n]
             b == blk[c] + n
  <2>1. /\ blk[c] \in Nat /\ b \in Nat /\ row.n = n /\ row.courier = c
        /\ row \in ClaimRow
    BY StockRow DEF Warehouse, ClaimRow
  <2>2. row # Nobody
    BY <2>1, NobodyIsNoRow DEF ClaimRow
  <2>3. /\ claims' = [claims EXCEPT ![s] = row] /\ blk' = [blk EXCEPT ![c] = b]
        /\ UNCHANGED transfers
    BY <1>3
  <2> HIDE DEF row
  <2>4. Claiming(c)' = [Claiming(c) EXCEPT ![s] = n]
    BY <2>1, <2>2, <2>3, ClaimSlot
  <2>5. ASSUME NEW d \in Courier \ {c} PROVE Claiming(d)' = Claiming(d)
    <3>1. Claiming(d)' = [Claiming(d) EXCEPT ![s] = 0]
      BY <2>1, <2>3, ClaimSlot
    <3>2. Claiming(d)[s] = 0
      BY <1>3 DEF Claiming
    <3>3. QED
      BY <3>1, <3>2 DEF Claiming
  <2>6. Claiming(c)[s] = 0
    BY <1>3 DEF Claiming
  <2>7. b = blk[c] + n - Claiming(c)[s]
    BY <2>1, <2>6
  <2> HIDE DEF b
  <2>8. QED
    BY <2>1, <2>3, <2>4, <2>5, <2>7, ClaimHeld
<1>4. ASSUME NEW k \in Worker, NEW c \in Courier, CreateFullReturn(k, s, c)
      PROVE  Held'
  <2> DEFINE n == Available(c)
  <2>1. n \in Nat
    BY StockRow DEF Available, Minus, Warehouse
  <2>2. /\ claims[s] = Nobody
        /\ claims' = [claims EXCEPT
                        ![s] = [kind |-> "return", courier |-> c, n |-> n]]
        /\ blk' = [blk EXCEPT ![c] = @ + n] /\ UNCHANGED transfers
    BY <1>4 DEF CreateFullReturn
  <2> HIDE DEF n
  <2>3. QED
    BY <1>3, <2>1, <2>2
<1>5. ASSUME NEW c \in Courier, NEW n \in 1 .. MaxQty, NEW dies \in BOOLEAN,
             CreateLostReport(s, c, n, dies)
      PROVE  Held'
  <2>1. n \in Nat
    BY BoundsAreNat
  <2>2. /\ claims[s] = Nobody
        /\ claims' = [claims EXCEPT
                        ![s] = [kind |-> "lost", courier |-> c, n |-> n]]
        /\ blk' = [blk EXCEPT ![c] = @ + n] /\ UNCHANGED transfers
    BY <1>5 DEF CreateLostReport
  <2>3. QED
    BY <1>3, <2>1, <2>2
<1>6. ASSUME NEW accept \in BOOLEAN, Decide(s, accept) PROVE Held'
  <2>0. PICK c \in Courier, n \in Nat :
            claims[s] # Nobody /\ c = claims[s].courier /\ n = claims[s].n
    BY <1>6, RowsTyped DEF Decide
  <2> DEFINE b == Minus(blk[c], n)
  <2>1. /\ claims[s] # Nobody /\ claims' = [claims EXCEPT ![s] = Nobody]
        /\ blk' = [blk EXCEPT ![c] = b] /\ UNCHANGED transfers
    BY <1>6, <2>0 DEF Decide
  <2>2. /\ c \in Courier /\ n \in Nat /\ blk[c] \in Nat /\ n <= blk[c]
    BY <2>0, StockRow, BlockedCovers DEF Warehouse
  <2>3. b \in Nat /\ b = blk[c] + 0 - n
    BY <2>2, FreedExactly
  <2>4. Claiming(c)' = [Claiming(c) EXCEPT ![s] = 0]
    BY <2>1, ClaimSlot
  <2>5. ASSUME NEW d \in Courier \ {c} PROVE Claiming(d)' = Claiming(d)
    <3>1. Claiming(d)' = [Claiming(d) EXCEPT ![s] = 0]
      BY <2>1, ClaimSlot
    <3>2. Claiming(d)[s] = 0
      BY <2>0 DEF Claiming
    <3>3. QED
      BY <3>1, <3>2 DEF Claiming
  <2>6. Claiming(c)[s] = n
    BY <2>0 DEF Claiming
  <2>7. b = blk[c] + 0 - Claiming(c)[s]
    BY <2>3, <2>6
  <2> HIDE DEF b
  <2>8. QED
    BY <2>1, <2>3, <2>4, <2>5, <2>7, ClaimHeld
<1>7. QED
  BY <1>1, <1>2, <1>4, <1>5, <1>6 DEF WarehouseStep

\* The other steps block nothing and free nothing.
LEMMA HeldStep ==
    ASSUME SInv, Held, MayCrash = FALSE, [Next]_vars PROVE Held'
<1>1. UNCHANGED <<blk, transfers, claims>> => Held'
  BY DEF Held, Transferring, Claiming
<1>2. ASSUME NEW o \in Order, OrderStep(o)
      PROVE UNCHANGED <<blk, transfers, claims>>
  BY <1>2
  DEF OrderStep, Create, Update, Open, Rollback, ChangeStatus, Take, ResetLook,
      Look, Reset, slotVars
<1>3. CASE \/ \E k \in Worker, c \in Courier : ReturnLook(k, c)
           \/ \E k \in Worker : Drop(k)
           \/ \E n \in Counts : Adjust(n)
           \/ UNCHANGED vars
  BY <1>1, <1>3 DEF ReturnLook, Look, Drop, Adjust, slotVars, vars
<1>4. ASSUME NEW s \in Slots, WarehouseStep(s) PROVE Held'
  BY <1>4, WarehouseHeld DEF SInv
<1>5. QED
  BY <1>1, <1>2, <1>3, <1>4 DEF Next

\* At the start nothing is held back.
LEMMA HeldInit == Init => Held
<1> SUFFICES ASSUME Init PROVE Held
  OBVIOUS
<1>1. ASSUME NEW f, \A s \in Slots : f[s] = 0
      PROVE  SumFunctionOnSet(f, Slots) = 0
  <2>1. IsFiniteSet(Slots) /\ {} \in SUBSET Slots
    BY RowsAreFinite
  <2>2. SumFunctionOnSet(f, {}) = SumFunctionOnSet(f, Slots)
    BY <1>1, <2>1, SumWhere
  <2>3. QED
    BY <2>2, SumEmpty
<1>2. \A s \in Slots : Transferring[s] = 0
  BY DEF Init, Transferring
<1>3. ASSUME NEW c \in Courier PROVE \A s \in Slots : Claiming(c)[s] = 0
  BY DEF Init, Claiming
<1>4. blk[Main] = 0 /\ \A c \in Courier : blk[c] = 0
  BY DEF Init, Warehouse
<1>5. QED
  BY <1>1, <1>2, <1>3, <1>4 DEF Held

\* As long as no process dies between the two connections of a loss report,
\* what a warehouse blocks is what waits there for a decision, to the piece:
\* the clamps at zero never hide a difference.
THEOREM BlockedIsWaitedFor ==
    ASSUME MayCrash = FALSE PROVE Spec => []BlockedIsHeld
<1>1. Init => SInv /\ TransfersOK /\ Held
  BY StockInit, HeldInit
<1>2. SInv /\ TransfersOK /\ Held /\ [Next]_vars
        => (SInv /\ TransfersOK /\ Held)'
  BY StockStep, HeldStep
<1>3. SInv /\ Held => BlockedIsHeld
  BY HeldIsBlocked DEF SInv
<1>4. QED
  BY <1>1, <1>2, <1>3, PTL DEF Spec
=============================================================================
