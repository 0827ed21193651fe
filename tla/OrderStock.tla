----------------------------- MODULE OrderStock -----------------------------
(***************************************************************************)
(* Where the goods are and who they are promised to: the main warehouse    *)
(* (internal/inventory), the couriers' warehouses (internal/warehouses)    *)
(* and the orders that reserve from them (internal/orders).                *)
(*                                                                         *)
(* One product is followed; `line' is the quantity an order has of it, 0   *)
(* for an order of other goods.  Handlers that work on an order lock its   *)
(* row and read its items, then take the stock rows one by one: Open is    *)
(* that read, the action that uses it is the commit.  Accepting a transfer *)
(* moves items without locking their orders, so it can come in between.    *)
(* Statuses are grouped: `open' is new or confirmed, `held' is assigned or *)
(* in_delivery; moves inside a group touch no stock.  Who may do what, and *)
(* prepayments, are OrderFlow's subject.                                   *)
(***************************************************************************)
EXTENDS Naturals, FiniteSets, Functions

CONSTANTS
    NumOrders,   \* orders are 1 .. NumOrders, in the order of created_at
    Courier,     \* couriers, each with a warehouse of his own
    Main,        \* MainWarehouseID
    Nobody,      \* NULL: no courier, no transaction, an empty slot
    Stock,       \* bound: quantity of the product at the start
    Counts,      \* bound: what a stocktake may count; empty: no stocktakes
    MaxQty,      \* bound: quantity of an order line, transfer or loss
    Slots,       \* bound: transfers issued at once, claims on courier stock
    Worker,      \* bound: requests that look before they lock, at once
    MayCrash     \* whether a process may die between two connections

ASSUME MainIsNoCourier == {Main, Nobody} \cap Courier = {} /\ Main # Nobody
ASSUME CrashIsBoolean == MayCrash \in BOOLEAN
ASSUME NobodyIsNoRow ==
    Nobody \notin [courier : Courier, n : Nat]
                \cup [kind : {"return", "lost"}, courier : Courier, n : Nat]
ASSUME RowsAreFinite == IsFiniteSet(Courier) /\ IsFiniteSet(Slots)
ASSUME BoundsAreNat == {NumOrders, Stock, MaxQty} \cup Counts \subseteq Nat

Order == 1 .. NumOrders
Warehouse == Courier \cup {Main}
Outcome == {"delivered", "returned", "cancelled"}
Status == {"open", "held"} \cup Outcome

VARIABLES
    status,     \* orders.status, grouped; "absent" before Create
    courier,    \* orders.courier_id
    reached,    \* the outcomes that order_timeline shows
    line,       \* order_items.quantity
    home,       \* order_items.reserved_warehouse_id
    read,       \* home as read by the transaction that has the order locked
    qty, res, blk,  \* quantity, reserved_quantity, blocked_quantity
    transfers,  \* issued inventory_transfers
    claims,     \* open courier_returns and pending lost_product_reports
    pending     \* what a worker has seen without a lock

orderVars == <<status, courier, reached, line, home>>
slotVars == <<transfers, claims>>
vars == <<orderVars, read, qty, res, blk, slotVars, pending>>

Minus(n, m) == IF n > m THEN n - m ELSE 0     \* the code's clamp at zero

\* mutant: available_quantity as 00018 generated it, without what is blocked.
AvailableOf00018(w) == Minus(qty[w], res[w])

Available(w) == Minus(qty[w], res[w] + blk[w])

SumOver(S, Op(_)) == FoldFunction(+, 0, [x \in S |-> Op(x)])
Total == SumOver(Warehouse, LAMBDA w : qty[w])

\* CHECK constraints: 00018 for the main pool, 00091 for the couriers.
RowAllowed(w, q, r, b) == IF w = Main THEN r <= q ELSE r + b <= q

Init ==
    /\ status = [o \in Order |-> "absent"]
    /\ courier = [o \in Order |-> Nobody]
    /\ reached = [o \in Order |-> {}]
    /\ line = [o \in Order |-> 0]
    /\ home = [o \in Order |-> Main]
    /\ read = [o \in Order |-> Nobody]
    /\ qty = [w \in Warehouse |-> IF w = Main THEN Stock ELSE 0]
    /\ res = [w \in Warehouse |-> 0]
    /\ blk = [w \in Warehouse |-> 0]
    /\ transfers = [s \in Slots |-> Nobody]
    /\ claims = [s \in Slots |-> Nobody]
    /\ pending = [k \in Worker |-> Nobody]

------------------------------------------------------------------------------
(* Orders                                                                  *)

Create(o, n) ==
    /\ status[o] = "absent"
    /\ \A p \in Order : p < o => status[p] # "absent"
    /\ n = 0 \/ n <= Available(Main)
    /\ status' = [status EXCEPT ![o] = "open"]
    /\ line' = [line EXCEPT ![o] = n]
    /\ res' = [res EXCEPT ![Main] = @ + n]
    /\ UNCHANGED <<courier, reached, home, read, qty, blk, slotVars, pending>>

\* SELECT ... FOR UPDATE on the order, then its items.
Open(o) ==
    /\ read[o] = Nobody
    /\ status[o] # "absent"
    /\ read' = [read EXCEPT ![o] = home[o]]
    /\ UNCHANGED <<orderVars, qty, res, blk, slotVars, pending>>

Close(o) ==
    /\ read[o] # Nobody
    /\ read' = [read EXCEPT ![o] = Nobody]

Rollback(o) ==
    /\ Close(o)
    /\ UNCHANGED <<orderVars, qty, res, blk, slotVars, pending>>

\* releaseInventory: where the items were read to be, never below zero.
releaseInventory(o) == [res EXCEPT ![read[o]] = Minus(@, line[o])]

\* deductInventory and its courier half DeliverCourierItem.
deductInventory(o) ==
    LET w == read[o]
    IN  /\ line[o] <= res[w] /\ line[o] <= qty[w]
        /\ qty' = [qty EXCEPT ![w] = @ - line[o]]
        /\ res' = [res EXCEPT ![w] = @ - line[o]]

\* mutant: a second delivery deducts again.
ChangeStatusDeductsAgain(o, to) ==
    /\ Close(o)
    /\ to # status[o] \/ to \in {"open", "held"}
    /\ IF to = "delivered" THEN deductInventory(o) ELSE UNCHANGED <<qty, res>>
    /\ status' = [status EXCEPT ![o] = to]
    /\ reached' = [reached EXCEPT ![o] = @ \cup ({to} \cap Outcome)]
    /\ courier' = [courier EXCEPT ![o] = IF to = "open" THEN Nobody ELSE @]
    /\ UNCHANGED <<line, home, blk, slotVars, pending>>

ChangeStatus(o, to) ==
    /\ Close(o)
    /\ to # status[o] \/ to \in {"open", "held"}
    /\ IF to = "delivered" /\ to \notin reached[o]
       THEN deductInventory(o)
       ELSE /\ res' = IF /\ to \in {"returned", "cancelled"}
                         /\ {to, "delivered"} \cap reached[o] = {}
                      THEN releaseInventory(o) ELSE res
            /\ UNCHANGED qty
    /\ status' = [status EXCEPT ![o] = to]
    /\ reached' = [reached EXCEPT ![o] = @ \cup ({to} \cap Outcome)]
    /\ courier' = [courier EXCEPT ![o] = IF to = "open" THEN Nobody ELSE @]
    /\ UNCHANGED <<line, home, blk, slotVars, pending>>

\* Replacing the items: release the old ones, reserve the new ones, on the
\* courier's warehouse if that is where the product was.
Update(o, n) ==
    /\ Close(o)
    /\ LET w == IF line[o] > 0 THEN read[o] ELSE Main
           left == releaseInventory(o)
       IN  /\ IF w = Main THEN n = 0 \/ left[w] + blk[w] + n <= qty[w]
                          ELSE RowAllowed(w, qty[w], left[w] + n, blk[w])
           /\ res' = [left EXCEPT ![w] = @ + n]
           /\ home' = [home EXCEPT ![o] = IF n > 0 THEN w ELSE Main]
    /\ line' = [line EXCEPT ![o] = n]
    /\ UNCHANGED <<status, courier, reached, qty, blk, slotVars, pending>>

\* Moving the reservation to the warehouse of the courier who takes the order.
ReserveForClaim(o, c) ==
    LET n == line[o]
        w == read[o]
    IN  IF n = 0 \/ w = c
        THEN UNCHANGED <<res, home>>
        ELSE /\ n <= Available(c)
             /\ res' = [res EXCEPT ![c] = @ + n, ![w] = Minus(@, n)]
             /\ home' = [home EXCEPT ![o] = c]

\* ClaimOrder and AssignCourier; ReassignCourier.
Take(o, c) ==
    /\ Close(o)
    /\ \/ status[o] = "open" /\ courier[o] = Nobody
       \/ status[o] = "held" /\ courier[o] # Nobody
    /\ ReserveForClaim(o, c)
    /\ courier' = [courier EXCEPT ![o] = c]
    /\ status' = [status EXCEPT ![o] = "held"]
    /\ UNCHANGED <<reached, line, qty, blk, slotVars, pending>>

\* A request looks on a connection of its own, and later acts on what it saw.
Look(k, what) ==
    /\ pending[k] = Nobody
    /\ pending' = [pending EXCEPT ![k] = what]
    /\ UNCHANGED <<orderVars, read, qty, res, blk, slotVars>>

Seen(k, what) ==
    /\ pending[k] = what
    /\ pending' = [pending EXCEPT ![k] = Nobody]

\* AddressChanged and DeferOrder: the courier is checked outside the
\* transaction, which then gives the order and its reservation back.
ResetLook(k, o) ==
    /\ courier[o] # Nobody
    /\ Look(k, [kind |-> "reset", of |-> o])

Reset(k, o) ==
    /\ Seen(k, [kind |-> "reset", of |-> o])
    /\ Close(o)
    /\ res' = releaseInventory(o)
    /\ courier' = [courier EXCEPT ![o] = Nobody]
    /\ status' = [status EXCEPT ![o] = "open"]
    /\ UNCHANGED <<reached, line, home, qty, blk, slotVars>>

------------------------------------------------------------------------------
(* Transfers from the main warehouse to a courier                          *)

CreateTransfer(s, c, n) ==
    /\ transfers[s] = Nobody
    /\ n <= Available(Main)
    /\ transfers' = [transfers EXCEPT ![s] = [courier |-> c, n |-> n]]
    /\ blk' = [blk EXCEPT ![Main] = @ + n]
    /\ UNCHANGED <<orderVars, read, qty, res, claims, pending>>

\* mutant: the goods of a rejected transfer stay blocked.
RejectKeepsBlock(s) ==
    /\ transfers[s] # Nobody
    /\ transfers' = [transfers EXCEPT ![s] = Nobody]
    /\ UNCHANGED <<orderVars, read, qty, res, blk, claims, pending>>

RejectTransfer(s) ==
    /\ transfers[s] # Nobody
    /\ transfers' = [transfers EXCEPT ![s] = Nobody]
    /\ blk' = [blk EXCEPT ![Main] = Minus(@, transfers[s].n)]
    /\ UNCHANGED <<orderVars, read, qty, res, claims, pending>>

\* mutant: the reservations of all couriers.
ReservedForAnyone(c) ==
    {o \in Order : /\ line[o] > 0 /\ home[o] = Main
                  /\ courier[o] # Nobody /\ status[o] = "held"}

\* FindActiveReservationsForCourier; the rows are read as committed and the
\* orders are not locked.
ReservedFor(c) ==
    {o \in Order : /\ line[o] > 0 /\ home[o] = Main
                  /\ courier[o] = c /\ status[o] = "held"}

\* mutant: items move whether or not they fit.
FitsAlways(o, left) == TRUE

Fits(o, left) == line[o] <= left

\* Items move whole, oldest order first, while they fit in what is left of the
\* transfer: what is left of n after each order.
Left(c, n) ==
    LET left[o \in 0 .. NumOrders] ==
            IF o = 0 THEN n
            ELSE IF o \in ReservedFor(c) /\ Fits(o, left[o - 1])
                 THEN left[o - 1] - line[o]
                 ELSE left[o - 1]
    IN  left

Fitting(c, n) == {o \in ReservedFor(c) : Fits(o, Left(c, n)[o - 1])}

AcceptTransfer(s) ==
    /\ transfers[s] # Nobody
    /\ LET c == transfers[s].courier
           n == transfers[s].n
           promised == n - Left(c, n)[NumOrders]
       IN  /\ n <= qty[Main]
           /\ RowAllowed(Main, qty[Main] - n, res[Main], blk[Main])
           /\ blk' = [blk EXCEPT ![Main] = Minus(@, n)]
           /\ qty' = [qty EXCEPT ![Main] = @ - n, ![c] = @ + n]
           /\ res' = [res EXCEPT ![Main] = Minus(@, promised),
                                 ![c] = @ + promised]
           /\ home' = [o \in Order |->
                       IF o \in Fitting(c, n) THEN c ELSE home[o]]
    /\ transfers' = [transfers EXCEPT ![s] = Nobody]
    /\ UNCHANGED <<status, courier, reached, line, read, claims, pending>>

------------------------------------------------------------------------------
(* Returns and losses                                                      *)

OpenReturns(c) ==
    {s \in Slots : claims[s] # Nobody
                   /\ claims[s].kind = "return" /\ claims[s].courier = c}

\* HasOpenReturn is asked before the transaction.
ReturnLook(k, c) ==
    /\ OpenReturns(c) = {}
    /\ Look(k, [kind |-> "return", of |-> c])

CreateFullReturn(k, s, c) ==
    /\ Seen(k, [kind |-> "return", of |-> c])
    /\ claims[s] = Nobody
    /\ Available(c) > 0
    /\ claims' = [claims EXCEPT
            ![s] = [kind |-> "return", courier |-> c, n |-> Available(c)]]
    /\ blk' = [blk EXCEPT ![c] = @ + Available(c)]
    /\ UNCHANGED <<orderVars, read, qty, res, transfers>>

\* The report row is inserted on a connection of its own, inside the block's
\* transaction: when the process dies in between, only the report is there.
CreateLostReport(s, c, n, dies) ==
    /\ claims[s] = Nobody
    /\ n <= Available(c)
    /\ dies => MayCrash
    /\ claims' = [claims EXCEPT
            ![s] = [kind |-> "lost", courier |-> c, n |-> n]]
    /\ blk' = IF dies THEN blk ELSE [blk EXCEPT ![c] = @ + n]
    /\ UNCHANGED <<orderVars, read, qty, res, transfers, pending>>

\* decideReturn and DecideLostReport.
Decide(s, accept) ==
    /\ claims[s] # Nobody
    /\ LET c == claims[s].courier
           n == claims[s].n
           back == IF claims[s].kind = "return" THEN n ELSE 0
       IN  /\ blk' = [blk EXCEPT ![c] = Minus(@, n)]
           /\ IF accept
              THEN /\ n <= qty[c]
                   /\ RowAllowed(c, qty[c] - n, res[c], Minus(blk[c], n))
                   /\ qty' = [qty EXCEPT ![c] = @ - n, ![Main] = @ + back]
              ELSE UNCHANGED qty
    /\ claims' = [claims EXCEPT ![s] = Nobody]
    /\ UNCHANGED <<orderVars, read, res, transfers, pending>>

\* The stocktake sets the quantity of the main warehouse (bound: goods it finds
\* do not raise the total above Stock).
Adjust(n) ==
    /\ Total - qty[Main] + n <= Stock
    /\ RowAllowed(Main, n, res[Main], blk[Main])
    /\ qty' = [qty EXCEPT ![Main] = n]
    /\ UNCHANGED <<orderVars, read, res, blk, slotVars, pending>>

\* A request that looked and then failed.
Drop(k) ==
    /\ pending[k] # Nobody
    /\ pending' = [pending EXCEPT ![k] = Nobody]
    /\ UNCHANGED <<orderVars, read, qty, res, blk, slotVars>>

------------------------------------------------------------------------------
OrderStep(o) ==
    \/ \E n \in 0 .. MaxQty : Create(o, n) \/ Update(o, n)
    \/ Open(o) \/ Rollback(o)
    \/ \E to \in Status : ChangeStatus(o, to)
    \/ \E c \in Courier : Take(o, c)
    \/ \E k \in Worker : ResetLook(k, o) \/ Reset(k, o)

WarehouseStep(s) ==
    \/ \E c \in Courier, n \in 1 .. MaxQty : CreateTransfer(s, c, n)
    \/ AcceptTransfer(s)
    \/ RejectTransfer(s)
    \/ \E k \in Worker, c \in Courier : CreateFullReturn(k, s, c)
    \/ \E c \in Courier, n \in 1 .. MaxQty, dies \in BOOLEAN :
            CreateLostReport(s, c, n, dies)
    \/ \E accept \in BOOLEAN : Decide(s, accept)

Next ==
    \/ \E o \in Order : OrderStep(o)
    \/ \E s \in Slots : WarehouseStep(s)
    \/ \E k \in Worker, c \in Courier : ReturnLook(k, c)
    \/ \E k \in Worker : Drop(k)
    \/ \E n \in Counts : Adjust(n)

Spec == Init /\ [][Next]_vars

------------------------------------------------------------------------------
(* Properties                                                              *)

TypeOK ==
    /\ status \in [Order -> Status \cup {"absent"}]
    /\ courier \in [Order -> Courier \cup {Nobody}]
    /\ reached \in [Order -> SUBSET Outcome]
    /\ line \in [Order -> Nat]
    /\ home \in [Order -> Warehouse]
    /\ read \in [Order -> Warehouse \cup {Nobody}]
    /\ {qty, res, blk} \subseteq [Warehouse -> Nat]
    /\ \A s \in Slots : transfers[s] # Nobody =>
            transfers[s] \in [courier : Courier, n : Nat]
    /\ \A s \in Slots : claims[s] # Nobody =>
            claims[s] \in [kind : {"return", "lost"},
                           courier : Courier, n : Nat]

\* What is reserved and what is blocked never exceed what is there, in any
\* warehouse: goods are not promised twice.
NeverOverpromised == \A w \in Warehouse : res[w] + blk[w] <= qty[w]

\* What is blocked is exactly what waits for a decision: in the main warehouse
\* the issued transfers, in a courier's the open returns and loss reports.
BlockedIsHeld ==
    /\ blk[Main] = SumOver({s \in Slots : transfers[s] # Nobody},
                           LAMBDA s : transfers[s].n)
    /\ \A c \in Courier :
        blk[c] = SumOver({s \in Slots : claims[s] # Nobody
                                        /\ claims[s].courier = c},
                         LAMBDA s : claims[s].n)

\* An order with a courier is served from the main warehouse or from that
\* courier's own goods, never from another courier's.
OwnStock ==
    \A o \in Order :
        courier[o] # Nobody => home[o] \in {Main, courier[o]}

FirstDelivered(o) == "delivered" \in reached'[o] \ reached[o]

GoodsMove ==
    \/ /\ status # status'
       /\ Total' + SumOver({o \in Order : FirstDelivered(o)},
                           LAMBDA o : line[o]) = Total
    \/ status = status' /\ (qty' = qty \/ Total' = Total)
    \/ \E s \in Slots : /\ claims[s] # Nobody /\ claims'[s] = Nobody
                        /\ claims[s].kind = "lost"
                        /\ Total' + claims[s].n = Total
    \/ \E n \in Counts : Adjust(n)

\* Goods leave the books when an order is delivered for the first time, by
\* exactly its line, or when a loss is approved, by what was reported; reopened
\* and redelivered orders, transfers and returns only move them around.
GoodsLeaveOnce == [][GoodsMove]_vars

\* Accepting a transfer brings the courier at least as many goods as it ties to
\* his orders: what he had free stays free for returns and other orders.
AcceptKeepsFreeStock ==
    [][\A c \in Courier :
            qty'[c] > qty[c] => qty'[c] - res'[c] >= qty[c] - res[c]]_vars
==============================================================================
