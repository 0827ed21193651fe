------------------------ MODULE DispatchBoard_proofs ------------------------
(***************************************************************************)
(* TLAPS proofs about DispatchBoard, for any orders and couriers, any      *)
(* number of cancels held back at once, and whatever others do meanwhile:  *)
(* the board hides what is being cancelled, and shows what the dispatcher  *)
(* did once it has settled.                                                *)
(***************************************************************************)
EXTENDS DispatchBoard, FiniteSetTheorems, TLAPS

Batch == 1..MaxBatches
Live(b) == batches[b].phase \in {"waiting", "sending"}

\* The sixth second, the answers and the undo find each batch as it was made.
BatchesOK == DOMAIN batches = Batch

\* An order is hidden by the one cancel that holds it back or sends it.
Hides ==
    \A o : o \in hidden <=> \E b \in Batch : Live(b) /\ o \in batches[b].ids
OneEach ==
    \A a, b \in Batch :
        Live(a) /\ Live(b) /\ a # b => batches[a].ids \cap batches[b].ids = {}

\* What can be cancelled next is not hidden: the open order, the order of the
\* modal and the ticked ones.
HandsFree ==
    selected.order \notin hidden /\ modal.order \notin hidden
        /\ bulk \cap hidden = {}
NobodyHidden == Nobody \notin hidden

IInv ==
    BatchesOK
        /\ (page = "board" => Hides /\ OneEach /\ HandsFree /\ NobodyHidden)

\* The invariant is stronger than HiddenWhileCancelling.
LEMMA InvHides == IInv => HiddenWhileCancelling
BY DEF IInv, BatchesOK, Hides, OneEach, Live, HiddenWhileCancelling, Batch

\* Nothing that is offered to be cancelled is hidden.
LEMMA OffersAreFree ==
    ASSUME HandsFree, NEW a, NEW at \in Offers(a)
    PROVE  at.order \notin hidden
BY DEF Offers, FromCard, FromBar, FromDrawer, Visible, HandsFree

------------------------------------------------------------------------------
\* What the dispatcher picks and opens, and what changes neither the cancels
\* nor what is hidden, keeps the invariant if his hands stay free.
LEMMA CancelsRest ==
    ASSUME IInv, UNCHANGED <<hidden, batches, page>>,
           page = "board" => HandsFree'
    PROVE  IInv'
BY DEF IInv, BatchesOK, Hides, OneEach, NobodyHidden, Live

\* The lists keep the open order, only its row is refreshed.
LEMMA LoadsStep == ASSUME IInv, Loads PROVE IInv'
<1>1. PICK q \in Query : Refetch(q)
  BY DEF Loads
<1>2. selected'.order = selected.order
  BY <1>1 DEF Refetch
<1>3. UNCHANGED <<hidden, batches, page, modal, bulk>>
  BY <1>1 DEF Refetch, cancels
<1>4. QED
  BY <1>2, <1>3, CancelsRest DEF IInv, HandsFree

\* Only a visible order is picked.
LEMMA PicksStep == ASSUME IInv, Picks PROVE IInv'
<1>1. UNCHANGED <<hidden, batches, page, modal>>
  BY DEF Picks, Select, ToggleBulk, PickCourier, Deselect, ClearBulk, cancels
<1>2. ASSUME page = "board", HandsFree, NobodyHidden PROVE HandsFree'
  <2>1. ASSUME NEW o \in Order, Select(o) PROVE HandsFree'
    BY <1>1, <1>2, <2>1 DEF Select, Visible, HandsFree
  <2>2. ASSUME NEW o \in Order, ToggleBulk(o) PROVE HandsFree'
    BY <1>1, <1>2, <2>2 DEF ToggleBulk, Visible, HandsFree
  <2>3. ASSUME NEW c \in Courier, PickCourier(c) PROVE HandsFree'
    BY <1>1, <1>2, <2>3 DEF PickCourier, HandsFree
  <2>4. CASE Deselect \/ ClearBulk
    BY <1>1, <1>2, <2>4 DEF Deselect, ClearBulk, NoOrder, HandsFree,
       NobodyHidden
  <2>5. QED
    BY <2>1, <2>2, <2>3, <2>4 DEF Picks
<1>3. QED
  BY <1>1, <1>2, CancelsRest DEF IInv

\* A modal opens for what is offered.
LEMMA OpensStep == ASSUME IInv, Opens PROVE IInv'
<1>1. UNCHANGED <<hidden, batches, page, selected, bulk>>
  BY DEF Opens, OpenModal, OpenBulkModal, CloseModal, cancels
<1>2. ASSUME page = "board", HandsFree, NobodyHidden PROVE HandsFree'
  <2>1. ASSUME NEW a \in ModalAction, NEW at \in Offers(a), OpenModal(a, at)
        PROVE  HandsFree'
    BY <1>1, <1>2, <2>1, OffersAreFree DEF OpenModal, HandsFree
  <2>2. ASSUME NEW k, OpenBulkModal(k) PROVE HandsFree'
    BY <1>1, <1>2, <2>2 DEF OpenBulkModal, Closed, HandsFree, NobodyHidden
  <2>3. CASE CloseModal
    BY <1>1, <1>2, <2>3 DEF CloseModal, Closed, HandsFree, NobodyHidden
  <2>4. QED
    BY <2>1, <2>2, <2>3 DEF Opens
<1>3. QED
  BY <1>1, <1>2, CancelsRest DEF IInv

\* The other requests touch neither the cancels nor what is picked.
LEMMA RequestsStep == ASSUME IInv, Requests PROVE IInv'
<1>1. UNCHANGED <<hidden, batches, page, selected, modal, bulk>>
  BY DEF Requests, DoConfirm, handleDropOrder, quickAssign, AssignModal,
         bulkAssign, ForceStatusModal, UnassignModal, bulkConfirm, cancels,
         hands
<1>2. QED
  BY <1>1, CancelsRest DEF IInv, HandsFree

\* Their answers may close the modal and clear what is ticked.
LEMMA AnswerStep ==
    ASSUME IInv, NEW j \in jobs, Answer(j) \/ AnswerLost(j) PROVE IInv'
<1>1. UNCHANGED <<hidden, batches, page, selected>>
  BY DEF Answer, AnswerLost, cancels
<1>2. /\ modal' = modal \/ modal' = Closed
      /\ bulk' = bulk \/ bulk' = {}
  <2>1. \E ok \in BOOLEAN : Settled(j, ok)
    BY DEF Answer, AnswerLost, Accepts
  <2>2. PICK ok \in BOOLEAN : Settled(j, ok)
    BY <2>1
  <2>3. QED
    BY <2>2 DEF Settled, Succeeds
<1>3. ASSUME page = "board", HandsFree, NobodyHidden PROVE HandsFree'
  BY <1>1, <1>2, <1>3 DEF HandsFree, NobodyHidden, Closed
<1>4. QED
  BY <1>1, <1>3, CancelsRest DEF IInv

------------------------------------------------------------------------------
\* A batch is rewritten with the orders it had.
LEMMA BatchPut ==
    ASSUME IInv, NEW b \in Batch, NEW phase, NEW ids, NEW left,
           Put(b, phase, ids, left)
    PROVE  /\ BatchesOK'
           /\ batches'[b] = [phase |-> phase, ids |-> ids, left |-> left]
           /\ \A a \in Batch : a # b => batches'[a] = batches[a]
BY DEF IInv, BatchesOK, Put

\* Cancels are scheduled for what is not hidden, and hide it.
LEMMA ScheduleStep ==
    ASSUME IInv, NEW b \in Batch, NEW ids \in SUBSET Order,
           scheduleCancel(b, ids)
    PROVE  IInv'
<1>1. /\ page = "board" /\ page' = page
      /\ batches[b] = NoBatch
      /\ Put(b, "waiting", ids, ids)
      /\ hidden' = hidden \cup ids
      /\ selected' = NoOrder /\ modal' = Closed /\ bulk' = {}
  BY DEF scheduleCancel
<1>2. ids \cap hidden = {}
  BY <1>1 DEF scheduleCancel, IInv, HandsFree
<1>3. /\ BatchesOK'
      /\ batches'[b] = [phase |-> "waiting", ids |-> ids, left |-> ids]
      /\ \A a \in Batch : a # b => batches'[a] = batches[a]
  BY <1>1, BatchPut
<1>4. ~Live(b) /\ Live(b)' /\ \A a \in Batch : a # b => (Live(a)' <=> Live(a))
  BY <1>1, <1>3 DEF Live, NoBatch
<1>5. Hides'
  <2> SUFFICES ASSUME NEW o
               PROVE  o \in hidden'
                  <=> \E a \in Batch : Live(a)' /\ o \in batches'[a].ids
    BY <1>1 DEF Hides, Live
  <2>1. o \in hidden <=> \E a \in Batch : Live(a) /\ o \in batches[a].ids
    BY <1>1 DEF IInv, Hides
  <2>2. o \in ids => o \in batches'[b].ids /\ Live(b)'
    BY <1>3, <1>4
  <2>3. QED
    BY <1>1, <1>3, <1>4, <2>1, <2>2
<1>6. \A a \in Batch : Live(a) => batches[a].ids \subseteq hidden
  BY <1>1 DEF IInv, Hides
<1>7. OneEach'
  BY <1>1, <1>2, <1>3, <1>4, <1>6 DEF IInv, OneEach, Live
<1>8. Nobody \notin hidden'
  BY <1>1, NobodyIsNone DEF IInv, NobodyHidden
<1>9. QED
  BY <1>1, <1>3, <1>5, <1>7, <1>8
  DEF IInv, HandsFree, NobodyHidden, NoOrder, Closed

\* A cancel that is over shows its orders again: no other one hides them.
LEMMA OverStep ==
    ASSUME IInv, page = "board", UNCHANGED page, NEW b \in Batch, Live(b),
           NEW phase, phase \notin {"waiting", "sending"}, NEW left,
           Put(b, phase, batches[b].ids, left),
           hidden' = hidden \ batches[b].ids,
           UNCHANGED <<selected, modal, bulk>>
    PROVE  IInv'
<1>1. /\ BatchesOK'
      /\ batches'[b] =
            [phase |-> phase, ids |-> batches[b].ids, left |-> left]
      /\ \A a \in Batch : a # b => batches'[a] = batches[a]
  BY BatchPut
<1>2. ~Live(b)' /\ \A a \in Batch : a # b => (Live(a)' <=> Live(a))
  BY <1>1 DEF Live
<1>3. Hides'
  <2> SUFFICES ASSUME NEW o
               PROVE  o \in hidden'
                  <=> \E a \in Batch : Live(a)' /\ o \in batches'[a].ids
    BY DEF Hides, Live
  <2>1. o \in hidden <=> \E a \in Batch : Live(a) /\ o \in batches[a].ids
    BY DEF IInv, Hides
  <2>2. \A a \in Batch : a # b /\ Live(a) => o \notin batches[a].ids
                                             \/ o \notin batches[b].ids
    BY DEF IInv, OneEach
  <2>3. QED
    BY <1>1, <1>2, <2>1, <2>2
<1>4. OneEach'
  BY <1>1, <1>2 DEF IInv, OneEach, Live
<1>5. QED
  BY <1>1, <1>3, <1>4 DEF IInv, HandsFree, NobodyHidden

\* It goes on: it stays a live one, or one whose board is gone.
LEMMA OnStep ==
    ASSUME IInv, UNCHANGED <<page, hidden, selected, modal, bulk>>,
           NEW b \in Batch, NEW phase, NEW left,
           Put(b, phase, batches[b].ids, left),
           phase \in {"waiting", "sending"} <=> Live(b)
    PROVE  IInv'
<1>1. /\ BatchesOK'
      /\ batches'[b] =
            [phase |-> phase, ids |-> batches[b].ids, left |-> left]
      /\ \A a \in Batch : a # b => batches'[a] = batches[a]
  BY BatchPut
<1>2. \A a \in Batch :
        (Live(a)' <=> Live(a)) /\ batches'[a].ids = batches[a].ids
  BY <1>1 DEF Live
<1>3. Hides => Hides'
  BY <1>2 DEF Hides, Live
<1>4. OneEach => OneEach'
  BY <1>2 DEF OneEach, Live
<1>5. QED
  BY <1>1, <1>3, <1>4 DEF IInv, HandsFree, NobodyHidden

\* An answer to a cancel, or the loss of one.
LEMMA SettlesStep ==
    ASSUME IInv, NEW b \in Batch, NEW o, Sending(b), Settles(b, o),
           UNCHANGED <<page, selected, modal, bulk>>
    PROVE  IInv'
<1> DEFINE left == batches[b].left \ {o}
           phase == IF left = {} THEN "done" ELSE batches[b].phase
<1>1. Put(b, phase, batches[b].ids, left)
  BY DEF Settles
<1>2. CASE left = {} /\ batches[b].phase = "sending"
  <2>1. hidden' = hidden \ batches[b].ids /\ Live(b)
    BY <1>2 DEF Settles, Live
  <2>2. CASE page = "board"
    BY <1>1, <1>2, <2>1, <2>2, OverStep
  <2>3. CASE page # "board"
    BY <1>1, <2>3, BatchPut DEF IInv
  <2>4. QED
    BY <2>2, <2>3
<1>3. CASE ~(left = {} /\ batches[b].phase = "sending")
  <2>1. hidden' = hidden
    BY <1>3 DEF Settles
  <2>2. phase \in {"waiting", "sending"} <=> Live(b)
    BY <1>3 DEF Sending, Live
  <2>3. QED
    BY <1>1, <2>1, <2>2, OnStep
<1>4. QED
  BY <1>2, <1>3

\* The dispatcher's cancels, from the modal to the last answer.
LEMMA CancelsStep == ASSUME IInv, Cancels PROVE IInv'
<1>1. PICK b \in Batch :
        \/ \E ids \in SUBSET Order : scheduleCancel(b, ids)
        \/ Undo(b) \/ TimerFires(b)
        \/ \E o \in Order : CancelAnswered(b, o) \/ CancelLost(b, o)
  BY DEF Cancels, Batch
<1>2. ASSUME NEW ids \in SUBSET Order, scheduleCancel(b, ids) PROVE IInv'
  BY <1>2, ScheduleStep
<1>3. CASE Undo(b)
  <2>1. /\ page = "board" /\ Live(b)
        /\ Put(b, "undone", batches[b].ids, {})
        /\ hidden' = hidden \ batches[b].ids
        /\ UNCHANGED <<page, selected, modal, bulk>>
    BY <1>3 DEF Undo, Waiting, Live, hands
  <2>2. QED
    BY <2>1, OverStep
<1>4. CASE TimerFires(b)
  <2>1. /\ Live(b)
        /\ Put(b, "sending", batches[b].ids, batches[b].ids)
        /\ UNCHANGED <<page, hidden, selected, modal, bulk>>
    BY <1>4 DEF TimerFires, Waiting, Live, hands
  <2>2. QED
    BY <2>1, OnStep
<1>5. ASSUME NEW o \in Order, CancelAnswered(b, o) \/ CancelLost(b, o)
      PROVE  IInv'
  <2>1. /\ Sending(b) /\ Settles(b, o)
        /\ UNCHANGED <<page, selected, modal, bulk>>
    BY <1>5 DEF CancelAnswered, CancelLost, hands
  <2>2. QED
    BY <2>1, SettlesStep
<1>6. QED
  BY <1>1, <1>2, <1>3, <1>4, <1>5

------------------------------------------------------------------------------
\* However many cancels are held back, undone, sent, answered and lost, in any
\* order, the board hides exactly the orders that one of them is cancelling,
\* and no two hold the same order.
THEOREM HiddenIsCancelling == Spec => []HiddenWhileCancelling
<1>1. Init => IInv
  BY NobodyIsNone
  DEF Init, IInv, BatchesOK, Batch, Hides, OneEach, Live, NoBatch, HandsFree,
      NobodyHidden
<1>2. IInv /\ [Next]_vars => IInv'
  <2> SUFFICES ASSUME IInv, [Next]_vars PROVE IInv'
    OBVIOUS
  <2>1. ASSUME UNCHANGED <<hidden, batches, page, selected, modal, bulk>>
        PROVE  IInv'
    BY <2>1, CancelsRest DEF IInv, HandsFree
  <2>2. ASSUME NEW o \in Order, NEW s \in Reach, OthersMove(o, s) PROVE IInv'
    BY <2>1, <2>2 DEF OthersMove, hands, cancels
  <2>3. ASSUME NEW j \in jobs, Answer(j) \/ AnswerLost(j) PROVE IInv'
    BY <2>3, AnswerStep
  <2>4. CASE LeavePage \/ SignOut
    <3>1. page' # "board"
      BY <2>4 DEF LeavePage, SignOut
    <3>2. DOMAIN batches' = DOMAIN batches
      BY <2>4 DEF LeavePage, SignOut, Flush
    <3>3. QED
      BY <3>1, <3>2 DEF IInv, BatchesOK
  <2>5. CASE UNCHANGED vars
    BY <2>1, <2>5 DEF vars, hands, cancels
  <2>6. QED
    BY <2>2, <2>3, <2>4, <2>5, LoadsStep, PicksStep, OpensStep, RequestsStep,
       CancelsStep DEF Next
<1>3. QED
  BY <1>1, <1>2, InvHides, PTL DEF Spec

------------------------------------------------------------------------------
(* What the board shows                                                    *)

\* What each button asks for.
JobOf(A) ==
    [kind : {"assign", "reassign", "unassign", "status"},
     by : {"quick", "modal", "bulk_assign", "confirm", "drop", "bulk",
           "force"},
     order : A, to : Status, courier : Courier \cup {Nobody},
     pends : BOOLEAN, won : BOOLEAN, press : Nat]
Asked(j) ==
    \/ j.kind \in {"assign", "reassign"}
        /\ j.by \in {"quick", "modal", "bulk_assign"}
    \/ j.kind = "unassign" /\ j.by = "modal" /\ j.to = "confirmed"
    \/ j.kind = "status" /\ j.by \in {"confirm", "drop", "bulk"}
        /\ j.to # "returned"
    \/ j.kind = "status" /\ j.by = "force"

\* The requests one press of a bulk button makes know of each other's success.
Mates(j, k) ==
    j.by \in Bulky /\ k.by = j.by /\ k.press = j.press => k.won = j.won
JobsOK ==
    /\ \E A : jobs \subseteq JobOf(A)
    /\ spent.all \in Nat
    /\ \A j \in jobs : Asked(j) /\ j.press < spent.all
    /\ \A j, k \in jobs : Mates(j, k)

RowsOK ==
    /\ server \in [Order -> Row]
    /\ \E C : cache \in [Query -> C]
    /\ \A q \in Query : DOMAIN cache[q] \subseteq Order
    /\ DOMAIN batches = Batch
    /\ page = "board" => \A b \in Batch : batches[b].phase # "flushed"

\* A list of what the board shows is the server's, or will be asked for again:
\* it is due, or a request that makes it due is not the last of its press.
Accurate(q, o) ==
    /\ o \in DOMAIN cache[q] <=> server[o].status \in Listed[q]
    /\ o \in DOMAIN cache[q] => cache[q][o] = server[o]
WillBeDue(q) ==
    \/ q \in due
    \/ \E j \in jobs : j.by \in Bulky /\ (j.won \/ j.by = "bulk")
                       /\ q \in Invalidates(j)
    \/ \E b \in Batch : Sending(b) /\ q \in Invalidated
BoardLists == {"newOrders", "board", "cancelled"}
ListsTrue ==
    \A q \in BoardLists, o \in Order : WillBeDue(q) \/ Accurate(q, o)

\* The list of deliveries holds deliveries, of before perhaps; an order comes
\* to be returned by force, after which all lists are asked for.
DeliveriesOnly ==
    \A o \in Order :
        /\ o \in DOMAIN cache["delivered"]
             => cache["delivered"][o].status = "delivered"
        /\ server[o].status = "returned"
             => "delivered" \in due \/ o \notin DOMAIN cache["delivered"]

Ours == page = "board" /\ ~spent.alien
BoardInv ==
    JobsOK /\ RowsOK /\ (Ours => ListsTrue /\ DeliveriesOnly)

\* With nothing under way the property follows.
LEMMA TrueListsShow == BoardInv => OwnMovesShow
<1> SUFFICES ASSUME BoardInv, Ours, due = {}, jobs = {},
                    ~\E b \in DOMAIN batches : Sending(b), NEW o \in Order
             PROVE  \/ o \in OnBoard /\ Shown(o) = server[o]
                    \/ o \notin OnBoard /\ server[o].status = "returned"
                    \/ /\ server[o].status = "delivered"
                       /\ o \in OnBoard => Shown(o).status = "delivered"
  BY DEF OwnMovesShow, Ours
<1> USE DEF BoardInv
<1>1. \A q \in BoardLists : Accurate(q, o)
  BY DEF ListsTrue, WillBeDue, RowsOK
<1> DEFINE n == cache.newOrders
           b == cache.board
           c == cache.cancelled
           d == cache.delivered
<1>2. /\ OnBoard = DOMAIN n \cup DOMAIN b \cup DOMAIN c \cup DOMAIN d
      /\ o \in OnBoard =>
           Shown(o) = IF o \in DOMAIN n THEN n[o]
                      ELSE IF o \in DOMAIN b THEN b[o]
                      ELSE IF o \in DOMAIN c THEN c[o] ELSE d[o]
  BY DEF OnBoard, Shown, Merged, RowIn, Query
<1>3. /\ o \in DOMAIN n <=> server[o].status = "new"
      /\ o \in DOMAIN b <=> server[o].status \in {"confirmed"} \cup Held
      /\ o \in DOMAIN c <=> server[o].status = "cancelled"
      /\ o \in DOMAIN n => n[o] = server[o]
      /\ o \in DOMAIN b => b[o] = server[o]
      /\ o \in DOMAIN c => c[o] = server[o]
  BY <1>1 DEF BoardLists, Accurate, Listed
<1>4. /\ o \in DOMAIN d => d[o].status = "delivered"
      /\ server[o].status = "returned" => o \notin DOMAIN d
  BY DEF DeliveriesOnly
<1>5. server[o].status \in Status
  BY DEF RowsOK, Row
<1>6. QED
  BY <1>2, <1>3, <1>4, <1>5 DEF Status, Held

\* What touches neither the server, the lists, the requests nor the cancels.
LEMMA BoardRests ==
    ASSUME BoardInv,
           UNCHANGED <<server, cache, due, jobs, batches, page, spent>>
    PROVE  BoardInv'
BY DEF BoardInv, JobsOK, RowsOK, Ours, ListsTrue, DeliveriesOnly, WillBeDue,
   Accurate, Mates, Asked, Sending, Invalidates

\* A refetch brings what the server has.
LEMMA RefetchKeeps ==
    ASSUME BoardInv, NEW q \in Query, Refetch(q) PROVE BoardInv'
<1> USE DEF BoardInv
<1>1. /\ cache' = [cache EXCEPT ![q] = ListOf(q)] /\ due' = due \ {q}
      /\ UNCHANGED <<server, jobs, batches, page, spent>>
  BY DEF Refetch, office, cancels
<1>2. /\ cache'[q] = ListOf(q)
      /\ \A r \in Query \ {q} : cache'[r] = cache[r]
      /\ \E C : cache' \in [Query -> C]
  <2>1. PICK C : cache \in [Query -> C]
    BY DEF RowsOK
  <2>2. cache' \in [Query -> C \cup {ListOf(q)}]
    BY <1>1, <2>1
  <2>3. QED
    BY <1>1, <2>1, <2>2
<1>3. JobsOK' /\ RowsOK'
  <2>1. DOMAIN ListOf(q) \subseteq Order
    BY DEF ListOf
  <2>2. QED
    BY <1>1, <1>2, <2>1 DEF JobsOK, RowsOK, Mates, Asked
<1>4. \A o \in Order : /\ o \in DOMAIN ListOf(q)
                              <=> server[o].status \in Listed[q]
                       /\ o \in DOMAIN ListOf(q) => ListOf(q)[o] = server[o]
  BY DEF ListOf
<1>5. ASSUME Ours PROVE ListsTrue'
  <2> SUFFICES ASSUME NEW r \in BoardLists, NEW o \in Order, ~WillBeDue(r)'
               PROVE  Accurate(r, o)'
    BY DEF ListsTrue
  <2>1. CASE r = q
    BY <1>1, <1>2, <1>4, <2>1 DEF Accurate
  <2>2. CASE r # q
    <3>1. ~WillBeDue(r)
      BY <1>1, <2>2 DEF WillBeDue, Sending, Invalidates
    <3>2. Accurate(r, o)
      BY <1>5, <3>1 DEF ListsTrue
    <3>3. QED
      BY <1>1, <1>2, <2>2, <3>2 DEF Accurate, BoardLists, Query
  <2>3. QED
    BY <2>1, <2>2
<1>6. ASSUME Ours PROVE DeliveriesOnly'
  <2>1. CASE q = "delivered"
    BY <1>1, <1>2, <1>4, <2>1 DEF DeliveriesOnly, Listed
  <2>2. CASE q # "delivered"
    BY <1>1, <1>2, <1>6, <2>2 DEF DeliveriesOnly, Query
  <2>3. QED
    BY <2>1, <2>2
<1>7. QED
  BY <1>1, <1>3, <1>5, <1>6 DEF Ours

\* What a request is answered with is asked for by what it came from.
LEMMA InvalidatesBy ==
    ASSUME NEW j, Asked(j)
    PROVE  /\ j.by = "force" => Invalidates(j) = Query
           /\ j.kind = "unassign" => Invalidates(j) = {"board"}
           /\ j.by \in {"modal", "bulk_assign"} /\ j.kind # "unassign"
                => Invalidates(j) = {"newOrders", "board"}
           /\ j.by \in {"quick", "confirm", "drop", "bulk"}
                => Invalidates(j) = Invalidated
BY DEF Invalidates, Asked

\* What an accepted request does to its order.
LEMMA AcceptedBy ==
    ASSUME NEW j, Asked(j), Accepts(j)
    PROVE  /\ j.kind = "assign" => server[j.order].status = "confirmed"
           /\ j.kind \in {"reassign", "unassign"}
                => server[j.order].status \in Held
           /\ j.kind \in {"assign", "reassign"}
                => Outcome(j) = [status |-> "assigned", courier |-> j.courier]
           /\ j.kind \in {"unassign", "status"}
                => Outcome(j) = Moved(j.order, j.to)
BY DEF Accepts, Outcome, Asked

\* Every list that could show the change is asked for.
LEMMA ChangeIsAskedFor ==
    ASSUME RowsOK, NEW A, NEW j \in JobOf(A), Asked(j), Accepts(j),
           NEW q \in BoardLists, q \notin Invalidates(j)
    PROVE  /\ server[j.order].status \notin Listed[q]
           /\ Outcome(j).status \notin Listed[q]
<1>1. CASE j.kind = "unassign"
  <2>1. j.to = "confirmed" /\ Outcome(j).status = j.to
    BY <1>1, AcceptedBy DEF Asked, Moved
  <2>2. server[j.order].status \in Held
    BY <1>1, AcceptedBy
  <2>3. q \in {"newOrders", "cancelled"}
    BY <1>1, InvalidatesBy DEF BoardLists
  <2>4. QED
    BY <2>1, <2>2, <2>3 DEF Listed, Held
<1>2. CASE j.kind # "unassign"
  <2>1. j.by \in {"modal", "bulk_assign"} /\ q = "cancelled"
    BY <1>2, InvalidatesBy DEF JobOf, BoardLists, Query, Invalidated
  <2>2. j.kind \in {"assign", "reassign"}
    BY <1>2, <2>1 DEF Asked
  <2>3. QED
    BY <2>1, <2>2, AcceptedBy DEF Listed, Held
<1>3. QED
  BY <1>1, <1>2

\* A step that changes neither the server nor the lists, and forgets nothing
\* that will be asked for.
LEMMA StillExcused ==
    ASSUME BoardInv, UNCHANGED <<server, cache>>, JobsOK', RowsOK',
           Ours' => Ours, due \subseteq due',
           \A q \in BoardLists : WillBeDue(q) => WillBeDue(q)'
    PROVE  BoardInv'
<1>1. ASSUME Ours' PROVE ListsTrue'
  BY <1>1 DEF BoardInv, ListsTrue, Accurate
<1>2. ASSUME Ours' PROVE DeliveriesOnly'
  BY <1>2 DEF BoardInv, DeliveriesOnly
<1>3. QED
  BY <1>1, <1>2 DEF BoardInv

\* New requests of one press.
LEMMA AskStep ==
    ASSUME BoardInv, NEW js, js # {}, IsFiniteSet(js), NEW B,
           js \subseteq JobOf(B), NEW by,
           \A j \in js :
                Asked(j) /\ ~j.won /\ j.press = NewPress(by) /\ j.by = by,
           Ask(js), UNCHANGED <<server, cache, due, batches, page>>
    PROVE  BoardInv'
<1> USE DEF BoardInv
<1>1. Cardinality(js) \in Nat /\ Cardinality(js) # 0
  BY FS_EmptySet, FS_CardinalityType
<1>2. /\ spent.all \in Nat
      /\ spent'.all = spent.all + Cardinality(js)
      /\ spent'.alien <=> spent.alien
      /\ jobs' = jobs \cup js
  BY DEF Ask, Spend, JobsOK
<1>3. JobsOK'
  <2>1. PICK A : jobs \subseteq JobOf(A)
    BY DEF JobsOK
  <2>2. jobs' \subseteq JobOf(A \cup B)
    BY <1>2, <2>1 DEF JobOf
  <2>3. \A j \in jobs' : Asked(j) /\ j.press < spent'.all
    <3>1. ASSUME NEW j \in jobs PROVE j.press < spent'.all
      <4>1. j.press < spent.all /\ j.press \in Nat
        BY <2>1 DEF JobsOK, JobOf
      <4>2. QED
        BY <4>1, <1>1, <1>2
    <3>2. \A j \in js : j.press < spent'.all
      BY <1>1, <1>2 DEF NewPress
    <3>3. QED
      BY <1>2, <3>1, <3>2 DEF JobsOK
  <2>4. \A j, k \in jobs' : Mates(j, k)
    <3>1. \A j \in jobs : j.press < spent.all /\ j.press \in Nat
      BY <2>1 DEF JobsOK, JobOf
    <3>2. \A j \in jobs, k \in js : j.by = k.by => j.press # k.press
      BY <1>2, <3>1 DEF NewPress
    <3>3. \A j, k \in js : j.won = k.won
      BY DEF JobOf
    <3>4. QED
      BY <1>2, <3>2, <3>3 DEF JobsOK, Mates
  <2>5. QED
    BY <1>1, <1>2, <2>2, <2>3, <2>4 DEF JobsOK, Asked
<1>4. RowsOK' /\ (Ours' => Ours)
  BY <1>2 DEF RowsOK, Ours
<1>5. \A q \in BoardLists : WillBeDue(q) => WillBeDue(q)'
  BY <1>2 DEF WillBeDue, Sending, Invalidates
<1>6. QED
  BY <1>3, <1>4, <1>5, StillExcused

\* A column an order is dropped on asks for one of its own statuses.
LEMMA DropTarget ==
    ASSUME NEW col \in Column, NEW r
    PROVE  targetStatusForColumn(col, r) \in Status \ {"returned"}
<1>1. col \subseteq Status \ {"returned"} /\ \E s : s \in col
  BY DEF Column, Status, Held
<1>2. (CHOOSE s \in col : TRUE) \in col
  BY <1>1
<1>3. QED
  BY <1>1, <1>2 DEF targetStatusForColumn, Status

\* One request of a press.
LEMMA AskOne ==
    ASSUME BoardInv, NEW kind, NEW by, NEW at, NEW to, NEW c,
           kind \in {"assign", "reassign", "unassign", "status"},
           by \in {"quick", "modal", "bulk_assign", "confirm", "drop", "bulk",
                   "force"},
           to \in Status, c \in Courier \cup {Nobody},
           Asked(Job(kind, by, at, to, c)), Ask({Job(kind, by, at, to, c)}),
           UNCHANGED <<server, cache, due, batches, page>>
    PROVE  BoardInv'
<1>1. spent.all \in Nat
  BY DEF BoardInv, JobsOK
<1>a. NewPress(by) \in Nat
  BY <1>1 DEF NewPress
<1> DEFINE j == Job(kind, by, at, to, c)
<1>2. j \in JobOf({at.order})
  BY <1>a DEF Job, JobOf
<1>3. ~j.won /\ j.press = NewPress(by) /\ j.by = by
  BY DEF Job
<1> HIDE DEF j
<1>4. IsFiniteSet({j})
  BY FS_Singleton
<1>5. Asked(j) /\ Ask({j})
  BY DEF j
<1>6. \A k \in {j} : Asked(k) /\ ~k.won /\ k.press = NewPress(by)
           /\ k.by = by
  BY <1>3, <1>5
<1>7. QED
  BY <1>2, <1>4, <1>5, <1>6, AskStep

\* A set with one request for each of some orders is finite.
LEMMA FiniteBulk ==
    ASSUME NEW S, S \subseteq Order, NEW f, f \in [S -> {f[o] : o \in S}]
    PROVE  IsFiniteSet({f[o] : o \in S})
<1>1. IsFiniteSet(S)
  BY OrdersAreFinite, FS_Subset
<1>2. f \in Surjection(S, {f[o] : o \in S})
  BY DEF Surjection
<1>3. QED
  BY <1>1, <1>2, FS_Surjection

\* Requests for several orders.
LEMMA AskMany ==
    ASSUME BoardInv, NEW S, S \subseteq Order, S # {}, NEW kinds, NEW by,
           NEW to, NEW c,
           kinds \in [S -> {"assign", "reassign", "unassign", "status"}],
           by \in {"bulk_assign", "bulk"}, to \in Status,
           c \in Courier \cup {Nobody},
           \A o \in S : Asked(Job(kinds[o], by, OnCard(o), to, c)),
           Ask({Job(kinds[o], by, OnCard(o), to, c) : o \in S}),
           UNCHANGED <<server, cache, due, batches, page>>
    PROVE  BoardInv'
<1>1. spent.all \in Nat
  BY DEF BoardInv, JobsOK
<1> DEFINE g == [o \in S |-> Job(kinds[o], by, OnCard(o), to, c)]
           js == {g[o] : o \in S}
<1>2. js = {Job(kinds[o], by, OnCard(o), to, c) : o \in S}
  OBVIOUS
<1>3. Ask(js)
  BY <1>2
<1>4. \A o \in S : /\ g[o] \in JobOf(S)
                   /\ Asked(g[o]) /\ ~g[o].won
                   /\ g[o].press = NewPress(by)
                   /\ g[o].by = by
  <2> SUFFICES ASSUME NEW o \in S
               PROVE  /\ g[o] \in JobOf(S)
                      /\ Asked(g[o]) /\ ~g[o].won
                      /\ g[o].press = NewPress(by)
                      /\ g[o].by = by
    OBVIOUS
  <2>1. kinds[o] \in {"assign", "reassign", "unassign", "status"}
    OBVIOUS
  <2>2. NewPress(by) \in Nat
    BY <1>1 DEF NewPress
  <2>3. QED
    BY <2>1, <2>2 DEF Job, JobOf, OnCard
<1>5. g \in [S -> js]
  OBVIOUS
<1> HIDE DEF g
<1>6. IsFiniteSet(js)
  BY <1>5, FiniteBulk
<1>7. js # {} /\ js \subseteq JobOf(S)
  BY <1>4
<1>8. \A j \in js : Asked(j) /\ ~j.won /\ j.press = NewPress(by) /\ j.by = by
  BY <1>4
<1> HIDE DEF js
<1>9. QED
  BY <1>3, <1>6, <1>7, <1>8, AskStep

\* Each button asks for what Asked says.
LEMMA AsksStep == ASSUME BoardInv, Requests PROVE BoardInv'
<1>1. UNCHANGED <<server, cache, due, batches, page>>
  BY DEF Requests, DoConfirm, handleDropOrder, quickAssign, AssignModal,
         bulkAssign, ForceStatusModal, UnassignModal, bulkConfirm, cancels,
         lists
<1>2. ASSUME NEW at, DoConfirm(at) PROVE BoardInv'
  <2>1. Asked(Job("status", "confirm", at, "confirmed", Nobody))
    BY DEF Asked, Job
  <2>2. Ask({Job("status", "confirm", at, "confirmed", Nobody)})
    BY <1>2 DEF DoConfirm
  <2>3. "confirmed" \in Status
    BY DEF Status
  <2>4. QED
    BY <1>1, <2>1, <2>2, <2>3, AskOne
<1>3. ASSUME NEW o \in Order, NEW col \in Column, handleDropOrder(o, col)
      PROVE  BoardInv'
  <2> DEFINE s == targetStatusForColumn(col, Shown(o))
  <2>1. s \in Status \ {"returned"}
    BY DropTarget
  <2>2. Ask({Job("status", "drop", OnCard(o), s, Nobody)})
    BY <1>3 DEF handleDropOrder
  <2> HIDE DEF s
  <2>3. Asked(Job("status", "drop", OnCard(o), s, Nobody))
    BY <2>1 DEF Asked, Job
  <2>4. QED
    BY <1>1, <2>1, <2>2, <2>3, AskOne
<1>4. ASSUME NEW c \in Courier, quickAssign(c) PROVE BoardInv'
  <2> DEFINE k == IF selected.row.status \in Held THEN "reassign" ELSE "assign"
  <2>1. k \in {"assign", "reassign"}
    OBVIOUS
  <2>2. Ask({Job(k, "quick", selected, "assigned", c)})
    BY <1>4 DEF quickAssign
  <2> HIDE DEF k
  <2>3. Asked(Job(k, "quick", selected, "assigned", c))
    BY <2>1 DEF Asked, Job
  <2>4. "assigned" \in Status
    BY DEF Status
  <2>5. QED
    BY <1>1, <2>1, <2>2, <2>3, <2>4, AskOne
<1>5. ASSUME NEW c \in Courier, AssignModal(c) PROVE BoardInv'
  <2>1. modal.kind \in {"assign", "reassign"}
    BY <1>5 DEF AssignModal
  <2>2. Ask({Job(modal.kind, "modal", Active, "assigned", c)})
    BY <1>5 DEF AssignModal
  <2>3. Asked(Job(modal.kind, "modal", Active, "assigned", c))
    BY <2>1 DEF Asked, Job
  <2>4. "assigned" \in Status
    BY DEF Status
  <2>5. QED
    BY <1>1, <2>1, <2>2, <2>3, <2>4, AskOne
<1>6. ASSUME NEW s \in Reach, ForceStatusModal(s) PROVE BoardInv'
  <2>1. Ask({Job("status", "force", Active, s, Nobody)})
    BY <1>6 DEF ForceStatusModal
  <2>2. Asked(Job("status", "force", Active, s, Nobody))
    BY DEF Asked, Job
  <2>3. s \in Status
    BY ReachIsStatus
  <2>4. QED
    BY <1>1, <2>1, <2>2, <2>3, AskOne
<1>7. CASE UnassignModal
  <2>1. Ask({Job("unassign", "modal", Active, "confirmed", Nobody)})
    BY <1>7 DEF UnassignModal
  <2>2. Asked(Job("unassign", "modal", Active, "confirmed", Nobody))
    BY DEF Asked, Job
  <2>3. "confirmed" \in Status
    BY DEF Status
  <2>4. QED
    BY <1>1, <2>1, <2>2, <2>3, AskOne
<1>8. OnBoard \subseteq Order
  BY DEF BoardInv, RowsOK, OnBoard, Merged
<1>9. CASE bulkConfirm
  <2> DEFINE S == {o \in bulk \cap OnBoard : Shown(o).status = "new"}
             kinds == [o \in S |-> "status"]
  <2>1. S # {} /\ Ask({Job("status", "bulk", OnCard(o), "confirmed", Nobody) :
                          o \in S})
    BY <1>9 DEF bulkConfirm
  <2>2. S \subseteq Order
    BY <1>8
  <2> HIDE DEF S
  <2>3. {Job(kinds[o], "bulk", OnCard(o), "confirmed", Nobody) : o \in S}
          = {Job("status", "bulk", OnCard(o), "confirmed", Nobody) : o \in S}
    OBVIOUS
  <2>4. \A o \in S :
            Asked(Job(kinds[o], "bulk", OnCard(o), "confirmed", Nobody))
    BY DEF Asked, Job
  <2>5. kinds \in [S -> {"assign", "reassign", "unassign", "status"}]
    OBVIOUS
  <2> HIDE DEF kinds
  <2>6. "confirmed" \in Status
    BY DEF Status
  <2>7. Ask({Job(kinds[o], "bulk", OnCard(o), "confirmed", Nobody) : o \in S})
    BY <2>1, <2>3
  <2>8. QED
    BY <1>1, <2>1, <2>2, <2>4, <2>5, <2>6, <2>7, AskMany
<1>10. ASSUME NEW c \in Courier, bulkAssign(c) PROVE BoardInv'
  <2> DEFINE S == bulk \cap OnBoard
             K(o) == IF Shown(o).status \in Held THEN "reassign" ELSE "assign"
             kinds == [o \in S |-> K(o)]
  <2>1. S # {} /\ Ask({Job(K(o), "bulk_assign", OnCard(o), "assigned", c) :
                          o \in S})
    BY <1>10 DEF bulkAssign
  <2>2. S \subseteq Order
    BY <1>8
  <2>3. \A o \in S : kinds[o] \in {"assign", "reassign"} /\ kinds[o] = K(o)
    OBVIOUS
  <2>4. kinds \in [S -> {"assign", "reassign", "unassign", "status"}]
    OBVIOUS
  <2> HIDE DEF S, K, kinds
  <2>5. {Job(kinds[o], "bulk_assign", OnCard(o), "assigned", c) : o \in S}
          = {Job(K(o), "bulk_assign", OnCard(o), "assigned", c) : o \in S}
    BY <2>3
  <2>6. \A o \in S :
            Asked(Job(kinds[o], "bulk_assign", OnCard(o), "assigned", c))
    BY <2>3 DEF Asked, Job
  <2>7. "assigned" \in Status
    BY DEF Status
  <2>8. Ask({Job(kinds[o], "bulk_assign", OnCard(o), "assigned", c) : o \in S})
    BY <2>1, <2>5
  <2>9. QED
    BY <1>1, <2>1, <2>2, <2>4, <2>6, <2>7, <2>8, AskMany
<1>11. QED
  BY <1>2, <1>3, <1>4, <1>5, <1>6, <1>7, <1>9, <1>10 DEF Requests

\* What is picked is not asked for yet.
LEMMA PickedStep == ASSUME BoardInv, Picks PROVE BoardInv'
<1>1. UNCHANGED <<server, cache, due, jobs, batches, page, spent>>
  BY DEF Picks, Select, ToggleBulk, PickCourier, Deselect, ClearBulk, cancels,
         lists, office
<1>2. QED
  BY <1>1, BoardRests

\* A modal that is closed leaves its request under way.
LEMMA OpenedStep == ASSUME BoardInv, Opens PROVE BoardInv'
<1>1. UNCHANGED <<server, cache, due, batches, page, spent>>
  BY DEF Opens, OpenModal, OpenBulkModal, CloseModal, cancels, lists, office
<1>2. CASE UNCHANGED jobs
  BY <1>1, <1>2, BoardRests
<1>3. CASE CloseModal
  <2> DEFINE Kept(j) == [j EXCEPT !.pends = @ /\ j.by \notin FromModal]
  <2>1. jobs' = {Kept(j) : j \in jobs}
    BY <1>3 DEF CloseModal
  <2>2. PICK A : jobs \subseteq JobOf(A)
    BY DEF BoardInv, JobsOK
  <2>3. \A j \in jobs :
          /\ Kept(j) \in JobOf(A)
          /\ Kept(j).kind = j.kind /\ Kept(j).by = j.by /\ Kept(j).to = j.to
          /\ Kept(j).won = j.won /\ Kept(j).press = j.press
    BY <2>2 DEF JobOf
  <2> HIDE DEF Kept
  <2>4. JobsOK'
    <3>1. jobs' \subseteq JobOf(A)
      BY <2>1, <2>3
    <3>2. \A j \in jobs' : Asked(j) /\ j.press < spent.all
      BY <2>1, <2>3 DEF BoardInv, JobsOK, Asked
    <3>3. \A j, k \in jobs' : Mates(j, k)
      BY <2>1, <2>3 DEF BoardInv, JobsOK, Mates
    <3>4. QED
      BY <1>1, <3>1, <3>2, <3>3 DEF BoardInv, JobsOK, Asked
  <2>5. RowsOK' /\ (Ours' => Ours)
    BY <1>1 DEF BoardInv, RowsOK, Ours
  <2>6. \A j \in jobs : Invalidates(Kept(j)) = Invalidates(j)
    BY <2>3 DEF Invalidates
  <2>7. ASSUME NEW q \in BoardLists, WillBeDue(q) PROVE WillBeDue(q)'
    <3>1. \A j \in jobs : Kept(j) \in jobs'
      BY <2>1
    <3>2. QED
      BY <1>1, <2>3, <2>6, <2>7, <3>1 DEF WillBeDue, Sending, Invalidates
  <2>8. QED
    BY <1>1, <2>4, <2>5, <2>7, StillExcused
<1>4. QED
  BY <1>2, <1>3 DEF Opens, OpenModal, OpenBulkModal

\* The other requests of its press, and what the answer leaves of them.
MatesOf(j) == {k \in jobs \ {j} : /\ j.by \in Bulky /\ k.by = j.by
                                  /\ k.press = j.press}
Told(k, ok) == [k EXCEPT !.won = @ \/ ok]

\* What a request that is told of a success is still.
LEMMA ToldJob ==
    ASSUME NEW A, NEW k \in JobOf(A), NEW ok \in BOOLEAN
    PROVE  /\ Told(k, ok) \in JobOf(A)
           /\ Told(k, ok).won = (k.won \/ ok)
           /\ Told(k, ok).kind = k.kind /\ Told(k, ok).by = k.by
           /\ Told(k, ok).to = k.to /\ Told(k, ok).press = k.press
           /\ Asked(k) => Asked(Told(k, ok))
           /\ Invalidates(Told(k, ok)) = Invalidates(k)
<1>1. /\ Told(k, ok) \in JobOf(A)
      /\ Told(k, ok).won = (k.won \/ ok)
      /\ Told(k, ok).kind = k.kind /\ Told(k, ok).by = k.by
      /\ Told(k, ok).to = k.to /\ Told(k, ok).press = k.press
  BY DEF JobOf, Told
<1> HIDE DEF Told
<1>2. QED
  BY <1>1 DEF Asked, Invalidates

\* What is left of the requests after an answer.
LEMMA SettledJobs ==
    ASSUME NEW j \in jobs, NEW ok, Settled(j, ok)
    PROVE  /\ jobs' = (jobs \ ({j} \cup MatesOf(j)))
                        \cup {Told(k, ok) : k \in MatesOf(j)}
           /\ MatesOf(j) = {} /\ (ok \/ j.won \/ j.by = "bulk")
                => due' = IF page = "board" THEN due \cup Invalidates(j)
                                            ELSE due
           /\ ~(MatesOf(j) = {} /\ (ok \/ j.won \/ j.by = "bulk"))
                => due' = due
BY DEF Settled, Succeeds, MatesOf, Told

\* They know of each other as before.
LEMMA SettledKeepsJobs ==
    ASSUME BoardInv, NEW j \in jobs, NEW ok \in BOOLEAN, Settled(j, ok),
           spent'.all \in Nat, spent'.all >= spent.all
    PROVE  JobsOK'
<1> USE DEF BoardInv
<1>1. PICK A : jobs \subseteq JobOf(A)
  BY DEF JobsOK
<1> DEFINE T(k) == Told(k, ok)
<1>2. jobs' = (jobs \ ({j} \cup MatesOf(j))) \cup {T(k) : k \in MatesOf(j)}
  BY SettledJobs
<1>3. \A k \in jobs :
        /\ T(k) \in JobOf(A)
        /\ T(k).won = (k.won \/ ok)
        /\ T(k).by = k.by /\ T(k).press = k.press
        /\ Asked(T(k))
  BY <1>1, ToldJob DEF JobsOK
<1> HIDE DEF T
<1>4. MatesOf(j) \subseteq jobs
  BY DEF MatesOf
<1>5. jobs' \subseteq JobOf(A)
  BY <1>1, <1>2, <1>3, <1>4
<1>6. \A k \in jobs' : Asked(k)
  BY <1>2, <1>3, <1>4 DEF JobsOK
<1>7. ASSUME NEW k \in jobs' PROVE k.press < spent'.all
  <2>1. PICK l \in jobs : k.press = l.press
    BY <1>2, <1>3, <1>4
  <2>2. l.press \in Nat /\ l.press < spent.all /\ spent.all \in Nat
    BY <1>1 DEF JobsOK, JobOf
  <2>3. QED
    BY <2>1, <2>2
<1>8. ASSUME NEW k \in jobs', NEW l \in jobs' PROVE Mates(k, l)
  <2> SUFFICES ASSUME k.by \in Bulky, l.by = k.by, l.press = k.press
               PROVE  l.won = k.won
    BY DEF Mates
  <2>1. ASSUME NEW a \in jobs \ ({j} \cup MatesOf(j)), NEW b \in MatesOf(j),
               a.by = b.by, a.press = b.press
        PROVE  FALSE
    BY <2>1 DEF MatesOf
  <2>2. \A a, b \in jobs :
            a.by \in Bulky /\ b.by = a.by /\ b.press = a.press => b.won = a.won
    BY DEF JobsOK, Mates
  <2>3. CASE /\ k \in jobs \ ({j} \cup MatesOf(j))
             /\ l \in jobs \ ({j} \cup MatesOf(j))
    BY <2>2, <2>3
  <2>4. CASE \E a, b \in MatesOf(j) : k = T(a) /\ l = T(b)
    BY <1>3, <1>4, <2>2, <2>4
  <2>5. CASE /\ k \in jobs \ ({j} \cup MatesOf(j))
             /\ \E b \in MatesOf(j) : l = T(b)
    BY <1>3, <1>4, <2>1, <2>5
  <2>6. CASE /\ l \in jobs \ ({j} \cup MatesOf(j))
             /\ \E b \in MatesOf(j) : k = T(b)
    BY <1>3, <1>4, <2>1, <2>6
  <2>7. QED
    BY <1>2, <2>3, <2>4, <2>5, <2>6
<1>9. QED
  BY <1>5, <1>6, <1>7, <1>8 DEF JobsOK, Asked, Mates

\* What will be asked for still will: the excuse passes to the others of the
\* press, or the lists are due.  After a success so are the lists it changed.
LEMMA SettledExcuses ==
    ASSUME BoardInv, page = "board", UNCHANGED batches,
           NEW j \in jobs, NEW ok \in BOOLEAN, Settled(j, ok)
    PROVE  /\ due \subseteq due'
           /\ \A q \in BoardLists : WillBeDue(q) => WillBeDue(q)'
           /\ ok => \A q \in BoardLists : q \in Invalidates(j) => WillBeDue(q)'
           /\ ok /\ j.by = "force" => "delivered" \in due'
<1> USE DEF BoardInv
<1>1. PICK A : jobs \subseteq JobOf(A)
  BY DEF JobsOK
<1> DEFINE T(k) == Told(k, ok)
<1>2. /\ jobs' = (jobs \ ({j} \cup MatesOf(j))) \cup {T(k) : k \in MatesOf(j)}
      /\ MatesOf(j) = {} /\ (ok \/ j.won \/ j.by = "bulk")
            => due' = due \cup Invalidates(j)
      /\ due \subseteq due'
  BY SettledJobs
<1>3. \A k \in jobs :
        /\ T(k).won = (k.won \/ ok) /\ T(k).by = k.by
        /\ Invalidates(T(k)) = Invalidates(k)
  BY <1>1, ToldJob
<1> HIDE DEF T
<1>4. \A q : WillBeDue(q)' <=>
        \/ q \in due'
        \/ \E k \in jobs' : k.by \in Bulky /\ (k.won \/ k.by = "bulk")
                            /\ q \in Invalidates(k)
        \/ \E b \in Batch : Sending(b) /\ q \in Invalidated
  BY DEF WillBeDue, Sending, Invalidates
<1>5. ASSUME MatesOf(j) # {}
      PROVE  \E m \in MatesOf(j) :
                /\ m \in jobs /\ m.by = j.by /\ m.won = j.won
                /\ m.by \in Bulky /\ Invalidates(m) = Invalidates(j)
  <2>1. PICK m \in MatesOf(j) : TRUE
    BY <1>5
  <2>2. m \in jobs /\ m.press = j.press /\ j.by \in Bulky /\ m.by = j.by
    BY DEF MatesOf
  <2>3. Mates(j, m) /\ Mates(m, j) /\ Asked(j) /\ Asked(m)
    BY <2>2 DEF JobsOK
  <2>4. m.by = j.by /\ m.won = j.won
    BY <2>2, <2>3 DEF Mates
  <2>5. Invalidates(m) = Invalidates(j)
    BY <2>2, <2>3, <2>4, InvalidatesBy DEF Bulky, Asked
  <2>6. QED
    BY <2>2, <2>4, <2>5
<1>6. ASSUME NEW q \in BoardLists, WillBeDue(q) PROVE WillBeDue(q)'
  <2>1. CASE q \in due \/ \E b \in Batch : Sending(b) /\ q \in Invalidated
    BY <1>2, <1>4, <2>1
  <2>2. ASSUME NEW k \in jobs, k.by \in Bulky, k.won \/ k.by = "bulk",
               q \in Invalidates(k)
        PROVE  WillBeDue(q)'
    <3>1. CASE k \notin {j} \cup MatesOf(j)
      BY <1>2, <1>4, <2>2, <3>1
    <3>2. ASSUME NEW m \in MatesOf(j), m \in jobs, m.by \in Bulky,
                 m.won \/ m.by = "bulk", q \in Invalidates(m)
          PROVE  WillBeDue(q)'
      BY <1>2, <1>3, <1>4, <3>2
    <3>3. CASE k = j
      <4>1. CASE MatesOf(j) = {}
        BY <1>2, <1>4, <2>2, <3>3, <4>1
      <4>2. CASE MatesOf(j) # {}
        BY <1>5, <2>2, <3>2, <3>3, <4>2
      <4>3. QED
        BY <4>1, <4>2
    <3>4. QED
      BY <2>2, <3>1, <3>2, <3>3
  <2>3. QED
    BY <1>6, <2>1, <2>2 DEF WillBeDue
<1>7. ASSUME ok, NEW q \in BoardLists, q \in Invalidates(j) PROVE WillBeDue(q)'
  <2>1. CASE MatesOf(j) = {}
    BY <1>2, <1>4, <1>7, <2>1
  <2>2. CASE MatesOf(j) # {}
    BY <1>2, <1>3, <1>4, <1>5, <1>7, <2>2
  <2>3. QED
    BY <2>1, <2>2
<1>8. ASSUME ok, j.by = "force" PROVE "delivered" \in due'
  <2>1. MatesOf(j) = {}
    BY <1>8 DEF MatesOf, Bulky
  <2>2. Invalidates(j) = Query
    BY <1>8, InvalidatesBy DEF JobsOK
  <2>3. QED
    BY <1>2, <1>8, <2>1, <2>2 DEF Query
<1>9. QED
  BY <1>2, <1>6, <1>7, <1>8

\* An accepted request gives its order another row.
LEMMA ActKeepsRows ==
    ASSUME BoardInv, NEW j \in jobs, Act(j)
    PROVE  server' \in [Order -> Row]
<1>1. PICK A : j \in JobOf(A)
  BY DEF BoardInv, JobsOK
<1>2. Asked(j) /\ server \in [Order -> Row]
  BY DEF BoardInv, JobsOK, RowsOK
<1>3. ASSUME Accepts(j), j.order \in Order PROVE Outcome(j) \in Row
  <2>1. CASE j.kind \in {"assign", "reassign"}
    BY <1>1, <1>3, <2>1, <1>2, AcceptedBy DEF JobOf, Row, Status
  <2>2. CASE j.kind \in {"unassign", "status"}
    <3>1. Outcome(j) = Moved(j.order, j.to)
      BY <1>2, <1>3, <2>2, AcceptedBy
    <3>2. server[j.order] \in Row /\ j.to \in Status
      BY <1>1, <1>2, <1>3 DEF JobOf
    <3>3. QED
      BY <3>1, <3>2 DEF Moved, Row
  <2>3. QED
    BY <1>1, <2>1, <2>2 DEF JobOf
<1>4. QED
  BY <1>2, <1>3 DEF Act

\* What was accepted is shown by no list that will not be asked for.
LEMMA AnsweredStep ==
    ASSUME BoardInv, NEW j \in jobs, Answer(j) PROVE BoardInv'
<1> DEFINE ok == Accepts(j)
<1>1. /\ Act(j) /\ Settled(j, ok)
      /\ UNCHANGED <<cache, batches, page, spent>>
  BY DEF Answer, cancels
<1>2. PICK A : j \in JobOf(A)
  BY DEF BoardInv, JobsOK
<1>3. Asked(j) /\ RowsOK /\ spent.all \in Nat
  BY DEF BoardInv, JobsOK
<1>4. ok \in BOOLEAN
  <2>1. (server[j.order].status # j.to) \in BOOLEAN
    OBVIOUS
  <2>2. QED
    BY <1>2, <1>3 DEF Accepts, Asked
<1>5. server' = IF ok THEN [server EXCEPT ![j.order] = Outcome(j)] ELSE server
  BY <1>1 DEF Act
<1>6. server' \in [Order -> Row]
  BY <1>1, ActKeepsRows
<1>7. ok => \A q \in BoardLists : q \notin Invalidates(j) =>
                /\ server[j.order].status \notin Listed[q]
                /\ Outcome(j).status \notin Listed[q]
  BY <1>2, <1>3, ChangeIsAskedFor
<1>8. ok /\ j.by # "force" => Outcome(j).status # "returned"
  <2> SUFFICES ASSUME ok, j.by # "force" PROVE Outcome(j).status # "returned"
    OBVIOUS
  <2>1. CASE j.kind \in {"assign", "reassign"}
    BY <1>3, <2>1, AcceptedBy
  <2>2. CASE j.kind \in {"unassign", "status"}
    BY <1>3, <2>2, AcceptedBy DEF Moved, Asked
  <2>3. QED
    BY <1>2, <2>1, <2>2 DEF JobOf
<1> HIDE DEF ok
<1>9. JobsOK'
  BY <1>1, <1>3, <1>4, SettledKeepsJobs
<1>10. RowsOK'
  BY <1>1, <1>3, <1>6 DEF RowsOK
<1>11. ASSUME Ours' PROVE ListsTrue' /\ DeliveriesOnly'
  <2>1. Ours
    BY <1>1, <1>11 DEF Ours
  <2>2. /\ due \subseteq due'
        /\ \A q \in BoardLists : WillBeDue(q) => WillBeDue(q)'
        /\ ok => \A q \in BoardLists : q \in Invalidates(j) => WillBeDue(q)'
        /\ ok /\ j.by = "force" => "delivered" \in due'
    BY <1>1, <1>4, <2>1, SettledExcuses DEF Ours
  <2>3. ASSUME NEW q \in BoardLists, NEW o \in Order, ~WillBeDue(q)'
        PROVE  Accurate(q, o)'
    <3>1. Accurate(q, o)
      BY <2>1, <2>2, <2>3 DEF BoardInv, ListsTrue
    <3>2. CASE server'[o] = server[o]
      BY <1>1, <3>1, <3>2 DEF Accurate
    <3>3. CASE server'[o] # server[o]
      <4>1. ok /\ o = j.order /\ server'[o] = Outcome(j)
        BY <1>3, <1>5, <3>3 DEF RowsOK
      <4>2. q \notin Invalidates(j)
        BY <2>2, <2>3, <4>1
      <4>3. /\ server[o].status \notin Listed[q]
            /\ server'[o].status \notin Listed[q]
        BY <1>7, <4>1, <4>2
      <4>4. QED
        BY <1>1, <3>1, <4>3 DEF Accurate
    <3>4. QED
      BY <3>2, <3>3
  <2>4. ASSUME NEW o \in Order, server'[o].status = "returned"
        PROVE  "delivered" \in due' \/ o \notin DOMAIN cache["delivered"]
    <3>1. CASE server'[o] = server[o]
      BY <2>1, <2>2, <2>4, <3>1 DEF BoardInv, DeliveriesOnly
    <3>2. CASE server'[o] # server[o]
      <4>1. ok /\ o = j.order /\ server'[o] = Outcome(j)
        BY <1>3, <1>5, <3>2 DEF RowsOK
      <4>2. j.by = "force"
        BY <1>8, <2>4, <4>1
      <4>3. QED
        BY <2>2, <4>1, <4>2
    <3>3. QED
      BY <3>1, <3>2
  <2>5. QED
    BY <1>1, <2>1, <2>3, <2>4 DEF ListsTrue, DeliveriesOnly, BoardInv
<1>12. QED
  BY <1>9, <1>10, <1>11 DEF BoardInv

\* Whoever else moves an order, and what is lost, is not the dispatcher's.
LEMMA LostStep ==
    ASSUME BoardInv, NEW j \in jobs, AnswerLost(j) PROVE BoardInv'
<1>1. /\ Act(j) \/ UNCHANGED server
      /\ Settled(j, FALSE) /\ Spend(1, TRUE)
      /\ UNCHANGED <<cache, batches, page>>
  BY DEF AnswerLost, cancels
<1>2. spent.all \in Nat /\ spent'.all = spent.all + 1 /\ spent'.alien
  BY <1>1 DEF Spend, BoardInv, JobsOK
<1>3. JobsOK'
  <2>1. spent'.all \in Nat /\ spent'.all >= spent.all /\ FALSE \in BOOLEAN
    BY <1>2
  <2>2. Settled(j, FALSE)
    BY <1>1
  <2>3. QED
    BY <2>1, <2>2, SettledKeepsJobs
<1>4. server' \in [Order -> Row]
  BY <1>1, ActKeepsRows DEF BoardInv, RowsOK
<1>5. QED
  BY <1>1, <1>2, <1>3, <1>4 DEF BoardInv, RowsOK, Ours

\* An event more leaves the requests as they are.
LEMMA JobsRest ==
    ASSUME JobsOK, UNCHANGED jobs, Spend(1, TRUE)
    PROVE  JobsOK' /\ ~Ours'
<1>1. PICK A : jobs \subseteq JobOf(A)
  BY DEF JobsOK
<1>2. spent.all \in Nat /\ spent'.all = spent.all + 1 /\ spent'.alien
  BY DEF Spend, JobsOK
<1>3. ASSUME NEW j \in jobs PROVE j.press < spent'.all
  <2>1. j.press \in Nat /\ j.press < spent.all
    BY <1>1 DEF JobsOK, JobOf
  <2>2. QED
    BY <1>2, <2>1
<1>4. QED
  BY <1>1, <1>2, <1>3 DEF JobsOK, Mates, Asked, Ours

\* The orders of the server stay typed.
LEMMA MovedRow ==
    ASSUME server \in [Order -> Row], NEW o \in Order, NEW s \in Status
    PROVE  Moved(o, s) \in Row
<1>1. server[o] \in Row
  OBVIOUS
<1>2. QED
  BY <1>1 DEF Moved, Row

\* What others do.
LEMMA OthersStep ==
    ASSUME BoardInv, NEW o \in Order, NEW s \in Reach, OthersMove(o, s)
    PROVE  BoardInv'
<1>1. UNCHANGED <<cache, due, jobs, batches, page>> /\ Spend(1, TRUE)
  BY DEF OthersMove, lists, cancels
<1>2. s \in Status /\ server \in [Order -> Row]
  BY ReachIsStatus DEF BoardInv, RowsOK
<1>3. Moved(o, s) \in Row
  BY <1>2, MovedRow
<1>4. \A c \in Courier : [status |-> s, courier |-> c] \in Row
  BY <1>2 DEF Row
<1>5. server' \in [Order -> Row]
  BY <1>2, <1>3, <1>4 DEF OthersMove
<1>6. QED
  BY <1>1, <1>5, JobsRest DEF BoardInv, RowsOK

\* A batch is put down as one that is not flushed, or as it was.
LEMMA PutKeepsRows ==
    ASSUME RowsOK, NEW b \in Batch, NEW phase, NEW ids, NEW left,
           Put(b, phase, ids, left),
           phase # "flushed" \/ phase = batches[b].phase
    PROVE  /\ DOMAIN batches' = Batch
           /\ batches'[b].phase = phase
           /\ \A a \in Batch : a # b => batches'[a] = batches[a]
           /\ page = "board" => \A a \in Batch : batches'[a].phase # "flushed"
<1>1. /\ DOMAIN batches' = Batch
      /\ batches'[b].phase = phase
      /\ \A a \in Batch : a # b => batches'[a] = batches[a]
  BY DEF RowsOK, Put
<1>2. QED
  BY <1>1 DEF RowsOK

\* Cancels that are scheduled, undone or begun ask for no less.
LEMMA HeldStep ==
    ASSUME BoardInv, NEW b \in Batch, NEW phase, NEW ids, NEW left,
           Put(b, phase, ids, left),
           phase \in {"waiting", "undone", "sending"},
           ~Sending(b), UNCHANGED <<server, cache, due, jobs, page, spent>>
    PROVE  BoardInv'
<1>1. /\ DOMAIN batches' = Batch
      /\ \A a \in Batch : a # b => batches'[a] = batches[a]
      /\ page = "board" => \A a \in Batch : batches'[a].phase # "flushed"
  BY PutKeepsRows DEF BoardInv
<1>2. JobsOK' /\ RowsOK' /\ (Ours' => Ours)
  BY <1>1 DEF BoardInv, JobsOK, RowsOK, Ours, Mates, Asked
<1>3. \A a \in Batch : Sending(a) => Sending(a)'
  BY <1>1 DEF Sending
<1>4. \A q \in BoardLists : WillBeDue(q) => WillBeDue(q)'
  BY <1>3 DEF WillBeDue, Invalidates
<1>5. QED
  BY <1>2, <1>4, StillExcused

\* A cancel that was answered goes on, or all it could change is due.
LEMMA CancelledStep ==
    ASSUME BoardInv, NEW b \in Batch, NEW o \in Order, CancelAnswered(b, o)
    PROVE  BoardInv'
<1> DEFINE left == batches[b].left \ {o}
           phase == IF left = {} THEN "done" ELSE batches[b].phase
<1>1. /\ Sending(b)
      /\ Put(b, phase, batches[b].ids, left)
      /\ left = {} /\ batches[b].phase = "sending"
            => due' = IF page = "board" THEN due \cup Invalidated ELSE due
      /\ ~(left = {} /\ batches[b].phase = "sending") => due' = due
      /\ UNCHANGED <<cache, jobs, page, spent>>
  BY DEF CancelAnswered, Settles
<1>2. server' = [server EXCEPT ![o] =
            IF server[o].status = "cancelled" THEN server[o]
                                              ELSE Moved(o, "cancelled")]
  BY DEF CancelAnswered
<1>3. RowsOK
  BY DEF BoardInv
<1> HIDE DEF left
<1>4. /\ DOMAIN batches' = Batch
      /\ batches'[b].phase = phase
      /\ \A a \in Batch : a # b => batches'[a] = batches[a]
      /\ page = "board" => \A a \in Batch : batches'[a].phase # "flushed"
  BY <1>1, <1>3, PutKeepsRows
<1>5. /\ server' \in [Order -> Row]
      /\ server'[o].status = "cancelled"
      /\ \A p \in Order : p # o => server'[p] = server[p]
  <2>1. /\ Moved(o, "cancelled") \in Row
        /\ Moved(o, "cancelled").status = "cancelled"
    BY <1>3, MovedRow DEF RowsOK, Status, Moved
  <2>2. QED
    BY <1>2, <1>3, <2>1 DEF RowsOK
<1>6. JobsOK' /\ RowsOK'
  BY <1>1, <1>4, <1>5 DEF BoardInv, JobsOK, RowsOK, Mates, Asked
<1>7. ASSUME Ours' PROVE ListsTrue' /\ DeliveriesOnly'
  <2>1. Ours /\ page = "board" /\ batches[b].phase = "sending"
    BY <1>1, <1>3, <1>7 DEF Ours, RowsOK, Sending
  <2>2. due \subseteq due'
    BY <1>1, <2>1
  <2>3. \A q \in BoardLists : WillBeDue(q)'
    <3>1. CASE left = {}
      BY <1>1, <2>1, <3>1 DEF WillBeDue, Invalidated, BoardLists
    <3>2. CASE left # {}
      <4>1. Sending(b)'
        BY <1>4, <2>1, <3>2 DEF Sending
      <4>2. QED
        BY <4>1 DEF WillBeDue, Invalidated, BoardLists
    <3>3. QED
      BY <3>1, <3>2
  <2>4. QED
    BY <1>1, <1>5, <2>1, <2>2, <2>3
    DEF ListsTrue, DeliveriesOnly, BoardInv
<1>8. QED
  BY <1>6, <1>7 DEF BoardInv

\* One that was lost is not the dispatcher's.
LEMMA CancelLostStep ==
    ASSUME BoardInv, NEW b \in Batch, NEW o \in Order, CancelLost(b, o)
    PROVE  BoardInv'
<1> DEFINE left == batches[b].left \ {o}
           phase == IF left = {} THEN "done" ELSE batches[b].phase
<1>1. /\ UNCHANGED <<server, cache, jobs, page>> /\ Spend(1, TRUE)
      /\ Put(b, phase, batches[b].ids, left)
  BY DEF CancelLost, Settles
<1> HIDE DEF left
<1>2. /\ DOMAIN batches' = Batch
      /\ page = "board" => \A a \in Batch : batches'[a].phase # "flushed"
  BY <1>1, PutKeepsRows DEF BoardInv
<1>3. QED
  BY <1>1, <1>2, JobsRest DEF BoardInv, RowsOK

\* All the cancels do.
LEMMA CancelStep == ASSUME BoardInv, Cancels PROVE BoardInv'
<1>1. PICK b \in Batch :
        \/ \E ids \in SUBSET Order : scheduleCancel(b, ids)
        \/ Undo(b) \/ TimerFires(b)
        \/ \E o \in Order : CancelAnswered(b, o) \/ CancelLost(b, o)
  BY DEF Cancels, Batch
<1>2. ASSUME NEW ids, scheduleCancel(b, ids) PROVE BoardInv'
  <2>1. /\ Put(b, "waiting", ids, ids) /\ ~Sending(b)
        /\ UNCHANGED <<server, cache, due, jobs, page, spent>>
    BY <1>2 DEF scheduleCancel, NoBatch, Sending, office, lists
  <2>2. QED
    BY <2>1, HeldStep
<1>3. CASE Undo(b)
  <2>1. /\ Put(b, "undone", batches[b].ids, {}) /\ ~Sending(b)
        /\ UNCHANGED <<server, cache, due, jobs, page, spent>>
    BY <1>3 DEF Undo, Waiting, Sending, office, lists
  <2>2. QED
    BY <2>1, HeldStep
<1>4. CASE TimerFires(b)
  <2>1. /\ Put(b, "sending", batches[b].ids, batches[b].ids) /\ ~Sending(b)
        /\ UNCHANGED <<server, cache, due, jobs, page, spent>>
    BY <1>4 DEF TimerFires, Waiting, Sending, office, lists
  <2>2. QED
    BY <2>1, HeldStep
<1>5. QED
  BY <1>1, <1>2, <1>3, <1>4, CancelledStep, CancelLostStep

\* A board that is left promises nothing more.
LEMMA LeftStep == ASSUME BoardInv, LeavePage \/ SignOut PROVE BoardInv'
<1>1. /\ UNCHANGED <<server, jobs, spent>>
      /\ page' # "board"
      /\ DOMAIN batches' = DOMAIN batches
      /\ cache' = [q \in Query |-> <<>>]
  BY DEF LeavePage, SignOut, Flush, Unmount, office
<1>2. RowsOK'
  <2>1. cache' \in [Query -> {<<>>}]
    BY <1>1
  <2>2. \A q \in Query : DOMAIN cache'[q] \subseteq Order
    BY <1>1
  <2>3. QED
    BY <1>1, <2>1, <2>2 DEF BoardInv, RowsOK
<1>3. QED
  BY <1>1, <1>2 DEF BoardInv, JobsOK, Mates, Asked, Ours

\* The board is mounted with the lists of the server.
LEMMA BoardInit == Init => BoardInv
<1> SUFFICES ASSUME Init PROVE BoardInv
  OBVIOUS
<1>1. /\ jobs = {} /\ spent = [all |-> 0, alien |-> FALSE]
      /\ cache = [q \in Query |-> ListOf(q)]
      /\ batches = [b \in Batch |-> NoBatch]
      /\ server \in [Order -> Row]
      /\ \A o \in Order : server[o].status \in {"new", "confirmed"}
  BY DEF Init, Batch, Row, Status
<1>2. JobsOK
  BY <1>1 DEF JobsOK
<1>3. RowsOK
  <2>1. cache \in [Query -> {ListOf(q) : q \in Query}]
    BY <1>1
  <2>2. \A q \in Query : DOMAIN cache[q] \subseteq Order
    BY <1>1 DEF ListOf
  <2>3. QED
    BY <1>1, <2>1, <2>2 DEF RowsOK, NoBatch
<1>4. \A q \in Query, o \in Order :
        /\ o \in DOMAIN cache[q] <=> server[o].status \in Listed[q]
        /\ o \in DOMAIN cache[q] => cache[q][o] = server[o]
  BY <1>1 DEF ListOf
<1>5. ListsTrue
  BY <1>4 DEF ListsTrue, Accurate, BoardLists, Query
<1>6. DeliveriesOnly
  BY <1>1, <1>4 DEF DeliveriesOnly, Query, Listed
<1>7. QED
  BY <1>2, <1>3, <1>5, <1>6 DEF BoardInv

\* However many requests, bulks and cancels are under way together and in
\* whatever order they are answered, once all are settled and the lists they
\* made due are fetched the board shows what the server has; only the polled
\* list of deliveries may lag.
THEOREM OwnMovesAreShown == Spec => []OwnMovesShow
<1>1. BoardInv /\ [Next]_vars => BoardInv'
  <2> SUFFICES ASSUME BoardInv, [Next]_vars PROVE BoardInv'
    OBVIOUS
  <2>1. CASE UNCHANGED vars
    BY <2>1, BoardRests DEF vars
  <2>2. CASE Loads
    BY <2>2, RefetchKeeps DEF Loads
  <2>3. QED
    BY <2>1, <2>2, OthersStep, AnsweredStep, LostStep, PickedStep, OpenedStep,
       AsksStep, CancelStep, LeftStep DEF Next
<1>2. QED
  BY BoardInit, TrueListsShow, <1>1, PTL DEF Spec
==============================================================================
