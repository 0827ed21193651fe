---------------------------- MODULE DispatchBoard ----------------------------
(***************************************************************************)
(* The dispatcher's board (src/megamall-crm/web-admin, features/dispatcher,*)
(* pages/DispatcherBoardV3.jsx with its modals and OrderDrawer): four lists*)
(* are polled and merged into one board; orders are confirmed, given to    *)
(* couriers, dragged between columns and cancelled, one by one or several  *)
(* at a time.  A cancel is held back six seconds, its orders hidden, so    *)
(* that it can be undone; leaving the page sends what is held back.        *)
(*                                                                         *)
(* The server's side is what ChangeStatus and the assignment handlers      *)
(* accept (OrderFlow has them in full).  A list is the server's at the     *)
(* moment its answer was put together; an answer on its way when its list  *)
(* is invalidated is dropped by the query cache, so a refetch is one step. *)
(***************************************************************************)
EXTENDS Naturals, FiniteSets

CONSTANTS
    Order, Courier, Nobody,
    Reach,          \* bound: what others, and a forced change, set
    MaxEvents,      \* bound: moves of others, requests, losses together
    MaxBatches      \* bound: cancels scheduled

ASSUME NobodyIsNone == Nobody \notin Order \cup Courier
ASSUME OrdersAreFinite == IsFiniteSet(Order)

VARIABLES
    server,     \* server: status and courier of each order
    cache,      \* what the four queries hold: orders listed, as listed
    due,        \* the queries invalidated and not fetched since
    selected,   \* selectedOrder, a row as it was last shown
    pending,    \* pendingCourierId
    modal,      \* modal and activeOrder; its row where the modal reads it
    bulk,       \* bulkIds
    hidden,     \* hiddenOrderIds
    batches,    \* the cancels scheduled so far, pendingCancelsRef among them
    jobs,       \* the other requests under way
    page,       \* "board", "left" or "signed out"
    spent       \* events so far, and whether any was not the dispatcher's own

vars == <<server, cache, due, selected, pending, modal, bulk, hidden,
          batches, jobs, page, spent>>
office == <<server, spent>>
lists == <<cache, due>>
hands == <<selected, pending, modal, bulk>>
cancels == <<hidden, batches>>

Status == {"new", "confirmed", "assigned", "in_delivery", "delivered",
           "cancelled", "returned"}
ASSUME ReachIsStatus == Reach \subseteq Status
Held == {"assigned", "in_delivery"}
Row == [status : Status, courier : Courier \cup {Nobody}]
Query == {"newOrders", "board", "cancelled", "delivered"}
NoRow == [status |-> "new", courier |-> Nobody]
NoOrder == [order |-> Nobody, row |-> NoRow]
Closed == [kind |-> "none", order |-> Nobody, row |-> NoRow]
NoBatch == [phase |-> "none", ids |-> {}, left |-> {}]
Spend(n, alien) ==
    spent' = [all |-> spent.all + n, alien |-> spent.alien \/ alien]

Column == {{"new"}, {"confirmed"}, Held, {"delivered"}, {"cancelled"}}
Listed == [newOrders |-> {"new"}, board |-> {"confirmed"} \cup Held,
           cancelled |-> {"cancelled"}, delivered |-> {"delivered"}]

ListOf(q) == [o \in {p \in Order : server[p].status \in Listed[q]}
                |-> server[o]]

\* allOrders: an order that several lists hold counts where it is seen first.
Merged(ls) == UNION {DOMAIN ls[q] : q \in Query}
RowIn(ls, o) ==
    IF o \in DOMAIN ls.newOrders THEN ls.newOrders[o]
    ELSE IF o \in DOMAIN ls.board THEN ls.board[o]
    ELSE IF o \in DOMAIN ls.cancelled THEN ls.cancelled[o]
    ELSE ls.delivered[o]
OnBoard == Merged(cache)
Shown(o) == RowIn(cache, o)
Visible == OnBoard \ hidden

Init ==
    /\ server \in [Order -> {[status |-> s, courier |-> Nobody] :
                                s \in {"new", "confirmed"}}]
    /\ cache = [q \in Query |-> ListOf(q)]
    /\ due = {}
    /\ selected = NoOrder
    /\ pending = Nobody
    /\ modal = Closed
    /\ bulk = {}
    /\ hidden = {}
    /\ batches = [b \in 1..MaxBatches |-> NoBatch]
    /\ jobs = {}
    /\ page = "board"
    /\ spent = [all |-> 0, alien |-> FALSE]

------------------------------------------------------------------------------
(* The server                                                              *)

\* Going back to new or confirmed takes the order from its courier.
Moved(o, s) ==
    [status |-> s,
     courier |-> IF s \in {"new", "confirmed"} THEN Nobody
                                               ELSE server[o].courier]

Accepts(j) ==
    LET r == server[j.order]
    IN  CASE j.kind = "assign" -> r.status = "confirmed" /\ r.courier = Nobody
          [] j.kind = "reassign" -> r.status \in Held /\ r.courier # Nobody
          [] j.kind = "unassign" -> r.status \in Held /\ r.courier # Nobody
          [] OTHER -> r.status # j.to

Outcome(j) ==
    CASE j.kind = "assign" -> [status |-> "assigned", courier |-> j.courier]
      [] j.kind = "reassign" -> [status |-> "assigned", courier |-> j.courier]
      [] OTHER -> Moved(j.order, j.to)

\* Couriers, sellers and other dispatchers move orders.
OthersMove(o, s) ==
    /\ spent.all < MaxEvents
    /\ s # server[o].status
    /\ \/ server' = [server EXCEPT ![o] = Moved(o, s)]
       \/ /\ s = "assigned" /\ server[o].status = "confirmed"
          /\ \E c \in Courier : server' = [server EXCEPT ![o] =
                                  [status |-> s, courier |-> c]]
    /\ Spend(1, TRUE)
    /\ UNCHANGED <<lists, hands, cancels, jobs, page>>

------------------------------------------------------------------------------
(* The lists                                                               *)

\* A poll or an invalidated query.  The effect that keeps selectedOrder in
\* step leaves an order that is on the board no longer as it was.
Refetch(q) ==
    /\ page = "board"
    /\ cache' = [cache EXCEPT ![q] = ListOf(q)]
    /\ due' = due \ {q}
    /\ <<cache', due'>> # <<cache, due>>
    /\ selected' = IF selected.order \in Merged(cache')
                   THEN [selected EXCEPT !.row = RowIn(cache', selected.order)]
                   ELSE selected
    /\ UNCHANGED <<office, pending, modal, bulk, cancels, jobs, page>>

Invalidated == {"newOrders", "board", "cancelled"}

\* mutant: a drop invalidates the board and forgets the list it came from.
InvalidatesBoard(j) == {"board"}

\* What each request invalidates once it is answered.
Invalidates(j) ==
    CASE j.by = "force" -> Query
      [] j.kind = "unassign" -> {"board"}
      [] j.by \in {"modal", "bulk_assign"} /\ j.kind # "unassign" ->
            {"newOrders", "board"}
      [] OTHER -> Invalidated

------------------------------------------------------------------------------
(* Selecting                                                               *)

Free == page = "board" /\ modal = Closed

\* A click on a card, or the arrow keys; the pending courier stays. 
Select(o) ==
    /\ Free /\ o \in Visible /\ o # selected.order
    /\ selected' = [order |-> o, row |-> Shown(o)]
    /\ UNCHANGED <<office, lists, pending, modal, bulk, cancels, jobs, page>>

Deselect ==
    /\ page = "board"
    /\ selected # NoOrder
    /\ selected' = NoOrder /\ pending' = Nobody
    /\ UNCHANGED <<office, lists, modal, bulk, cancels, jobs, page>>

\* A card of the courier rail while an order is open.
PickCourier(c) ==
    /\ Free /\ selected # NoOrder
    /\ pending' = IF pending = c THEN Nobody ELSE c
    /\ UNCHANGED <<office, lists, selected, modal, bulk, cancels, jobs,
                   page>>

ToggleBulk(o) ==
    /\ Free /\ o \in Visible
    /\ bulk' = (bulk \ {o}) \cup ({o} \ bulk)
    /\ UNCHANGED <<office, lists, selected, pending, modal, cancels,
                   jobs, page>>

ClearBulk ==
    /\ Free /\ bulk # {}
    /\ bulk' = {}
    /\ UNCHANGED <<office, lists, selected, pending, modal, cancels,
                   jobs, page>>

------------------------------------------------------------------------------
(* What is offered, and where                                              *)

\* The buttons of a card and of the bar below the board.
CardOffers(s) ==
    (IF s = "new" THEN {"confirm"} ELSE {})
        \cup (IF s = "confirmed" THEN {"assign"} ELSE {})
        \cup (IF s \notin {"delivered", "cancelled"} THEN {"cancel"} ELSE {})
primaryActions(s) ==
    CASE s = "new" -> {"confirm"}
      [] s = "confirmed" -> {"assign"}
      [] s = "assigned" -> {"reassign"}
      [] s \in {"delivered", "cancelled"} -> {}
      [] OTHER -> {"cancel"}

\* OrderDrawer's ACTIONS; force_status is always there.  The drawer reads the
\* order with a query of its own, which the polls of the board do not refresh:
\* its status may be any the order ever had.
DrawerOffers(s) ==
    {"force_status"} \cup
    CASE s = "new" -> {"confirm", "cancel"}
      [] s = "confirmed" -> {"assign", "cancel"}
      [] s = "assigned" -> {"reassign", "unassign", "cancel"}
      [] s = "in_delivery" -> {"unassign", "cancel"}
      [] OTHER -> {}

\* Where an action is offered: the order and the row it is drawn from.
FromCard(action) ==
    {[order |-> o, row |-> Shown(o)] :
        o \in {v \in Visible : action \in CardOffers(Shown(v).status)}}
FromBar(action) ==
    IF selected # NoOrder /\ pending = Nobody
       /\ action \in primaryActions(selected.row.status)
    THEN {selected} ELSE {}
FromDrawer(action) ==
    IF selected # NoOrder /\ \E s \in Status : action \in DrawerOffers(s)
    THEN {selected} ELSE {}
Offers(action) == FromCard(action) \cup FromBar(action) \cup FromDrawer(action)

\* A request, of the press it came from: each press is a mutation of its own,
\* numbered apart from those of the same button that are under way.
NewPress(by) == IF \E j \in jobs : j.by = by THEN spent.all ELSE 0
Job(kind, by, at, to, c) ==
    [kind |-> kind, by |-> by, order |-> at.order, to |-> to, courier |-> c,
     pends |-> TRUE, won |-> FALSE, press |-> NewPress(by)]
OnCard(o) == [order |-> o, row |-> Shown(o)]

Ask(js) ==
    /\ spent.all + Cardinality(js) <= MaxEvents
    /\ jobs' = jobs \cup js
    /\ Spend(Cardinality(js), FALSE)

FromModal == {"modal", "force", "bulk_assign"}
Bulky == {"bulk", "bulk_assign"}
UnderWay(by) == \E j \in jobs : j.by = by /\ j.pends

\* handleAction for the action that needs no modal; disabled while confirming.
DoConfirm(at) ==
    /\ Free /\ at \in Offers("confirm") /\ ~UnderWay("confirm")
    /\ Ask({Job("status", "confirm", at, "confirmed", Nobody)})
    /\ UNCHANGED <<server, lists, hands, cancels, page>>

\* handleAction for the others: the drawer too hands on selectedOrder.
OpenModal(action, at) ==
    /\ Free /\ at \in Offers(action)
    /\ modal' = [kind |-> action, order |-> at.order,
                 row |-> IF action = "force_status" THEN selected.row
                                                    ELSE NoRow]
    /\ UNCHANGED <<office, lists, selected, pending, bulk, cancels,
                   jobs, page>>

OpenBulkModal(kind) ==
    /\ Free /\ bulk # {} /\ ~UnderWay("bulk")
    /\ modal' = [Closed EXCEPT !.kind = kind]
    /\ UNCHANGED <<office, lists, selected, pending, bulk, cancels,
                   jobs, page>>

\* handleClose resets the mutation: its request goes on, isPending does not.
CloseModal ==
    /\ page = "board" /\ modal # Closed
    /\ modal' = Closed
    /\ jobs' = {[j EXCEPT !.pends = @ /\ j.by \notin FromModal] : j \in jobs}
    /\ UNCHANGED <<office, lists, selected, pending, bulk, cancels,
                   page>>

------------------------------------------------------------------------------
(* Requests                                                                *)

\* The bar's button, disabled while it is under way; the Enter key is not.
quickAssign(c) ==
    /\ Free /\ selected # NoOrder /\ pending = c
    /\ Ask({Job(IF selected.row.status \in Held THEN "reassign" ELSE "assign",
                "quick", selected, "assigned", c)})
    /\ UNCHANGED <<server, lists, hands, cancels, page>>

Active == [order |-> modal.order, row |-> modal.row]

AssignModal(c) ==
    /\ page = "board" /\ modal.kind \in {"assign", "reassign"}
    /\ ~UnderWay("modal")
    /\ Ask({Job(modal.kind, "modal", Active, "assigned", c)})
    /\ UNCHANGED <<server, lists, hands, cancels, page>>

UnassignModal ==
    /\ page = "board" /\ modal.kind = "unassign" /\ ~UnderWay("modal")
    /\ Ask({Job("unassign", "modal", Active, "confirmed", Nobody)})
    /\ UNCHANGED <<server, lists, hands, cancels, page>>

\* canSubmit compares with the order the modal was opened for.
ForceStatusModal(s) ==
    /\ page = "board" /\ modal.kind = "force_status" /\ ~UnderWay("modal")
    /\ s # modal.row.status
    /\ Ask({Job("status", "force", Active, s, Nobody)})
    /\ UNCHANGED <<server, lists, hands, cancels, page>>

targetStatusForColumn(col, r) ==
    IF r.status \in col THEN r.status
    ELSE IF col = Held
         THEN IF r.courier # Nobody THEN "in_delivery" ELSE "assigned"
         ELSE CHOOSE s \in col : TRUE

handleDropOrder(o, col) ==
    /\ Free /\ o \in Visible /\ bulk = {}
    /\ LET s == targetStatusForColumn(col, Shown(o))
       IN  /\ s # Shown(o).status
           /\ Ask({Job("status", "drop", OnCard(o), s, Nobody)})
    /\ UNCHANGED <<server, lists, hands, cancels, page>>

bulkConfirm ==
    /\ Free /\ ~UnderWay("bulk")
    /\ LET targets == {o \in bulk \cap OnBoard : Shown(o).status = "new"}
       IN  /\ targets # {}
           /\ Ask({Job("status", "bulk", OnCard(o), "confirmed", Nobody) :
                    o \in targets})
    /\ UNCHANGED <<server, lists, hands, cancels, page>>

bulkAssign(c) ==
    /\ page = "board" /\ modal.kind = "bulk_assign"
    /\ ~UnderWay("bulk_assign")
    /\ bulk \cap OnBoard # {}
    /\ Ask({Job(IF Shown(o).status \in Held THEN "reassign" ELSE "assign",
                "bulk_assign", OnCard(o), "assigned", c) :
                o \in bulk \cap OnBoard})
    /\ UNCHANGED <<server, lists, hands, cancels, page>>

\* A success closes the modal, whichever is open by now, and clears the
\* courier or the bulk.
Succeeds(j) ==
    /\ due' = IF page = "board" THEN due \cup Invalidates(j) ELSE due
    /\ pending' = IF j.by = "quick" THEN Nobody ELSE pending
    /\ bulk' = IF j.by \in Bulky THEN {} ELSE bulk
    /\ modal' = IF j.by \in FromModal THEN Closed ELSE modal

\* The requests of one press on a bulk are settled together: a confirmation
\* ends the same way however many failed, an assignment unless all did.
Settled(j, ok) ==
    LET mates == {k \in jobs \ {j} : /\ j.by \in Bulky /\ k.by = j.by
                                     /\ k.press = j.press}
    IN  /\ jobs' = (jobs \ ({j} \cup mates))
                    \cup {[k EXCEPT !.won = @ \/ ok] : k \in mates}
        /\ IF mates = {} /\ (ok \/ j.won \/ j.by = "bulk")
           THEN Succeeds(j)
           ELSE UNCHANGED <<due, pending, bulk, modal>>

Act(j) ==
    server' = IF Accepts(j) THEN [server EXCEPT ![j.order] = Outcome(j)]
                            ELSE server

Answer(j) ==
    /\ j \in jobs
    /\ Act(j)
    /\ Settled(j, Accepts(j))
    /\ UNCHANGED <<cache, selected, cancels, page, spent>>

\* The request or its answer is lost: a toast, like a refusal.
AnswerLost(j) ==
    /\ j \in jobs /\ spent.all < MaxEvents
    /\ Act(j) \/ UNCHANGED server
    /\ Settled(j, FALSE)
    /\ Spend(1, TRUE)
    /\ UNCHANGED <<cache, selected, cancels, page>>

------------------------------------------------------------------------------
(* Cancels, held back six seconds                                          *)

Waiting(b) == batches[b].phase = "waiting"
Sending(b) == batches[b].phase \in {"sending", "flushed"}
Put(b, phase, ids, left) ==
    batches' = [batches EXCEPT ![b] =
                    [phase |-> phase, ids |-> ids, left |-> left]]

scheduleCancel(b, ids) ==
    /\ page = "board" /\ ids # {}
    /\ \/ modal.kind = "cancel" /\ ids = {modal.order}
       \/ modal.kind = "bulk_cancel" /\ ids = bulk \cap OnBoard
    /\ batches[b] = NoBatch /\ \A a \in 1..(b - 1) : batches[a] # NoBatch
    /\ Put(b, "waiting", ids, ids)
    /\ hidden' = hidden \cup ids
    /\ bulk' = {} /\ selected' = NoOrder /\ pending' = Nobody
    /\ modal' = Closed
    /\ UNCHANGED <<office, lists, jobs, page>>

\* The toast's button; once the timer has fired it does nothing.
Undo(b) ==
    /\ page = "board" /\ Waiting(b)
    /\ Put(b, "undone", batches[b].ids, {})
    /\ hidden' = hidden \ batches[b].ids
    /\ UNCHANGED <<office, lists, hands, jobs, page>>

TimerFires(b) ==
    /\ page = "board" /\ Waiting(b)
    /\ Put(b, "sending", batches[b].ids, batches[b].ids)
    /\ UNCHANGED <<office, lists, hands, hidden, jobs, page>>

\* mutant: what is settled is never shown again.
SettlesHidden(b, o) ==
    LET left == batches[b].left \ {o}
        done == left = {}
    IN  /\ Put(b, IF done THEN "done" ELSE batches[b].phase, batches[b].ids,
               left)
        /\ due' = IF page = "board" THEN due \cup Invalidated ELSE due
        /\ hidden' = hidden

\* When the last is settled the lists are invalidated and the orders shown.
Settles(b, o) ==
    LET left == batches[b].left \ {o}
        done == left = {}
    IN  /\ Put(b, IF done THEN "done" ELSE batches[b].phase, batches[b].ids,
               left)
        /\ IF done /\ batches[b].phase = "sending"
           THEN /\ due' = IF page = "board" THEN due \cup Invalidated ELSE due
                /\ hidden' = hidden \ batches[b].ids
           ELSE UNCHANGED <<due, hidden>>

CancelAnswered(b, o) ==
    /\ Sending(b) /\ o \in batches[b].left
    /\ server' = [server EXCEPT ![o] =
            IF @.status = "cancelled" THEN @ ELSE Moved(o, "cancelled")]
    /\ Settles(b, o)
    /\ UNCHANGED <<cache, hands, jobs, page, spent>>

CancelLost(b, o) ==
    /\ Sending(b) /\ o \in batches[b].left
    /\ spent.all < MaxEvents
    /\ Spend(1, TRUE)
    /\ Settles(b, o)
    /\ UNCHANGED <<server, cache, hands, jobs, page>>

\* mutant: the timers are cleared and nothing is sent.
FlushDrops(phase) ==
    batches' = [b \in DOMAIN batches |->
        IF Waiting(b) THEN [batches[b] EXCEPT !.phase = "dropped", !.left = {}]
        ELSE batches[b]]

\* The effect that runs when the board unmounts: what waits is sent at once,
\* answers ignored.
Flush(phase) ==
    batches' = [b \in DOMAIN batches |->
        IF Waiting(b) THEN [batches[b] EXCEPT !.phase = phase] ELSE batches[b]]

Unmount ==
    /\ cache' = [q \in Query |-> <<>>] /\ due' = {}
    /\ selected' = NoOrder /\ pending' = Nobody /\ modal' = Closed
    /\ bulk' = {} /\ hidden' = {}

LeavePage ==
    /\ page = "board"
    /\ page' = "left"
    /\ Flush("flushed")
    /\ Unmount
    /\ UNCHANGED <<office, jobs>>

\* clearAuth runs before the board unmounts: what is flushed has no token.
SignOut ==
    /\ page = "board"
    /\ page' = "signed out"
    /\ Flush("dropped")
    /\ Unmount
    /\ UNCHANGED <<office, jobs>>

------------------------------------------------------------------------------
ModalAction == {"assign", "reassign", "unassign", "cancel", "force_status"}

Loads == \E q \in Query : Refetch(q)
Picks ==
    \/ \E o \in Order : Select(o) \/ ToggleBulk(o) 
    \/ \E c \in Courier : PickCourier(c)
    \/ Deselect \/ ClearBulk
Opens ==
    \/ \E a \in ModalAction : \E at \in Offers(a) : OpenModal(a, at)
    \/ \E k \in {"bulk_cancel", "bulk_assign"} : OpenBulkModal(k)
    \/ CloseModal
Requests ==
    \/ \E at \in Offers("confirm") : DoConfirm(at)
    \/ \E o \in Order, col \in Column : handleDropOrder(o, col)
    \/ \E c \in Courier : quickAssign(c) \/ AssignModal(c) \/ bulkAssign(c)
    \/ \E s \in Reach : ForceStatusModal(s)
    \/ UnassignModal \/ bulkConfirm
Cancels ==
    \E b \in 1..MaxBatches :
        \/ \E ids \in SUBSET Order : scheduleCancel(b, ids)
        \/ Undo(b) \/ TimerFires(b)
        \/ \E o \in Order : CancelAnswered(b, o) \/ CancelLost(b, o)

Next ==
    \/ \E o \in Order, s \in Reach : OthersMove(o, s)
    \/ \E j \in jobs : Answer(j) \/ AnswerLost(j)
    \/ Loads \/ Picks \/ Opens \/ Requests \/ Cancels
    \/ LeavePage \/ SignOut

Spec == Init /\ [][Next]_vars

\* The lists are polled, requests are answered or given up, timers run.  What
\* the dispatcher does, and what others do, is owed nothing.
Fairness ==
    /\ \A q \in Query : WF_vars(Refetch(q))
    /\ WF_vars(\E j \in jobs : Answer(j))
    /\ \A b \in 1..MaxBatches :
        /\ WF_vars(TimerFires(b))
        /\ WF_vars(\E o \in Order : CancelAnswered(b, o))
FairSpec == Spec /\ Fairness

------------------------------------------------------------------------------
TypeOK ==
    /\ server \in [Order -> Row]
    /\ \A q \in Query : DOMAIN cache[q] \subseteq Order
    /\ due \subseteq Query
    /\ selected.order \in Order \cup {Nobody} /\ selected.row \in Row
    /\ pending \in Courier \cup {Nobody}
    /\ modal.order \in Order \cup {Nobody}
    /\ bulk \subseteq Order
    /\ hidden \subseteq Order
    /\ \A b \in DOMAIN batches : batches[b].left \subseteq batches[b].ids
    /\ page \in {"board", "left", "signed out"}

\* No cancel holds an order back that another one holds back already, and the
\* board hides exactly the orders whose cancel is waiting or on its way: a
\* card that is gone is being cancelled, one that is there is not.
HiddenWhileCancelling ==
    page = "board" =>
        LET live == {b \in DOMAIN batches :
                        batches[b].phase \in {"waiting", "sending"}}
        IN  /\ hidden = UNION {batches[b].ids : b \in live}
            /\ \A a \in live, b \in live :
                    a # b => batches[a].ids \cap batches[b].ids = {}

\* What the dispatcher's own requests change is asked for again: once nothing
\* is due and nobody else moved an order, the board shows the server's rows.
\* The list of deliveries is refetched by its poll alone: an order that was
\* moved to delivered may be missing, or stand there as it was when it was
\* delivered the time before, never in another column.
OwnMovesShow ==
    (page = "board" /\ due = {} /\ ~spent.alien
        /\ jobs = {} /\ ~\E b \in DOMAIN batches : Sending(b)) =>
        \A o \in Order :
            \/ o \in OnBoard /\ Shown(o) = server[o]
            \/ o \notin OnBoard /\ server[o].status = "returned"
            \/ /\ server[o].status = "delivered"
               /\ o \in OnBoard => Shown(o).status = "delivered"

\* A cancel the dispatcher confirmed is sent unless he undoes it, also when he
\* goes to another page first; who signs out meanwhile loses it.
CancelHonoured ==
    \A b \in 1..MaxBatches :
        batches[b].phase = "waiting" ~>
            batches[b].phase \in {"undone", "done"} \/ page = "signed out"
==============================================================================
