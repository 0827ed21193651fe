----------------------------- MODULE CourierApp -----------------------------
(***************************************************************************)
(* The order screens of the courier app: the deliveries list, the list of  *)
(* free orders with its five-second undo, and the order sheet that opens   *)
(* over them (src/mobile/courier-app).                                     *)
(*                                                                         *)
(* What a screen shows is an answer the server gave some time ago.  The    *)
(* answers of two requests may arrive in either order, a request may be    *)
(* lost on its way there or back, and the order itself may be moved by a   *)
(* dispatcher or another courier meanwhile.                                *)
(***************************************************************************)
EXTENDS Naturals, FiniteSets

CONSTANTS
    Order,          \* order ids
    Nobody,         \* null: no order, no sheet
    MaxFetch,       \* bound: list requests under way
    MaxCalls,       \* bound: requests the courier makes
    MaxMoves,       \* bound: moves other people make
    MaxTrouble      \* bound: requests or answers that get lost

ASSUME NobodyIsNull == Nobody \notin Order

VARIABLES
    server,     \* orders.status and who holds each order
    undo,       \* orders assigned to this courier less than five seconds ago
    tab,        \* the tab in focus
    shown,      \* the list each tab shows
    fetches,    \* list answers on their way to a tab
    sheet,      \* the order sheet: the copy it was opened with, its step
    acting,     \* actionLoading of the deliveries tab
    stepping,   \* stepLoading of the sheet
    claiming,   \* the order whose claim button spins
    toast,      \* the order the undo toast names
    unclaiming, \* the undo button spins
    calls,      \* requests on their way, with what became of them
    spent       \* calls, moves and troubles used up, for the bounds

ui == <<tab, shown, sheet, acting, stepping, claiming, toast, unclaiming>>
vars == <<server, undo, ui, fetches, calls, spent>>

Screens == {"deliveries", "claimable"}
Status == {"confirmed", "deferred", "assigned", "in_delivery",
           "delivered", "returned"}
Holder == {"me", "other", "nobody"}
SheetStep == {"detail", "menu", "later", "address", "release", "cancel"}
Held == {"assigned", "in_delivery"}
Kind == {"start", "delivered", "returned", "address", "defer", "release",
         "claim", "unclaim"}
Lists == [Order -> Status \cup {"absent"}]

\* `deferred' is confirmed with a scheduled_at in the future.
\* GET /courier/my-orders and GET /courier/available.
Now(s) ==
    [o \in Order |->
        IF s = "deliveries" /\ server[o].holder = "me" THEN server[o].status
        ELSE IF s = "claimable" /\ server[o].status = "confirmed"
                                /\ server[o].holder = "nobody"
             THEN "confirmed"
             ELSE "absent"]

Init ==
    /\ server = [o \in Order |-> [status |-> "confirmed", holder |-> "nobody"]]
    /\ undo = {}
    /\ tab = "claimable"
    /\ shown = [s \in Screens |-> [o \in Order |-> "absent"]]
    /\ fetches = {}
    /\ sheet = Nobody
    /\ acting = FALSE
    /\ stepping = FALSE
    /\ claiming = Nobody
    /\ toast = Nobody
    /\ unclaiming = FALSE
    /\ calls = {}
    /\ spent = [calls |-> 0, moves |-> 0, trouble |-> 0]

------------------------------------------------------------------------------
(* The server                                                              *)

\* What POST /courier/... takes: the courier's moves of the status engine, the
\* five-second window of unclaim, the assignment row of defer and
\* address-changed.
Accepts(kind, o) ==
    LET mine == server[o].holder = "me"
        at == server[o].status
    IN  CASE kind = "claim" -> at = "confirmed" /\ server[o].holder = "nobody"
          [] kind = "unclaim" -> mine /\ at = "assigned" /\ o \in undo
          [] kind = "start" -> mine /\ at = "assigned"
          [] kind \in {"delivered", "returned"} -> mine /\ at = "in_delivery"
          [] kind = "release" -> mine /\ at \in Held
          [] kind \in {"address", "defer"} -> mine

Outcome(kind, o) ==
    CASE kind = "claim" -> [status |-> "assigned", holder |-> "me"]
      [] kind = "start" -> [server[o] EXCEPT !.status = "in_delivery"]
      [] kind \in {"delivered", "returned"} ->
            [server[o] EXCEPT !.status = kind]
      [] kind = "defer" -> [status |-> "deferred", holder |-> "nobody"]
      [] kind \in {"release", "unclaim", "address"} ->
            [status |-> "confirmed", holder |-> "nobody"]

Became(c, what) == calls' = (calls \ {c}) \cup {[c EXCEPT !.state = what]}

Serve(c) ==
    /\ c.state = "sent"
    /\ IF Accepts(c.kind, c.order)
       THEN /\ server' = [server EXCEPT
                             ![c.order] = Outcome(c.kind, c.order)]
            /\ undo' = IF c.kind = "claim" THEN undo \cup {c.order}
                                           ELSE undo \ {c.order}
            /\ Became(c, "done")
       ELSE Became(c, "refused") /\ UNCHANGED <<server, undo>>
    /\ UNCHANGED <<ui, fetches, spent>>

\* The request does not arrive, or its answer does not.
Lose(c) ==
    /\ c.state \in {"sent", "done"}
    /\ spent.trouble < MaxTrouble
    /\ spent' = [spent EXCEPT !.trouble = @ + 1]
    /\ Became(c, "refused")
    /\ UNCHANGED <<server, undo, ui, fetches>>

UndoWindowCloses(o) ==
    /\ o \in undo
    /\ undo' = undo \ {o}
    /\ UNCHANGED <<server, ui, fetches, calls, spent>>

\* A dispatcher assigns, reassigns or takes the order back; another courier
\* claims it.
Others(o) ==
    /\ spent.moves < MaxMoves
    /\ spent' = [spent EXCEPT !.moves = @ + 1]
    /\ \/ /\ server[o].holder = "nobody"
          /\ \E h \in {"me", "other"} :
                /\ server' = [server EXCEPT ![o] =
                                [status |-> "assigned", holder |-> h]]
                /\ undo' = IF h = "me" THEN undo \cup {o} ELSE undo
       \/ /\ server[o].holder = "me" /\ server[o].status \in Held
          /\ undo' = undo \ {o}
          /\ \/ server' = [server EXCEPT ![o].holder = "other"]
             \/ server' = [server EXCEPT ![o] =
                    [status |-> "confirmed", holder |-> "nobody"]]
    /\ UNCHANGED <<ui, fetches, calls>>

------------------------------------------------------------------------------
(* Lists: focus, the thirty-second poll, pull to refresh, and the refetch   *)
(* after an action                                                          *)

\* A request takes its picture of the server; it arrives later.
Fetching(s, pic) ==
    fetches' = IF Cardinality(fetches) < MaxFetch
               THEN fetches \cup {[to |-> s, got |-> pic]}
               ELSE fetches

\* A focus fetches; a tab out of focus does not poll.  The sheet is a modal
\* over its tab.
Focus(s) ==
    /\ tab # s
    /\ sheet = Nobody
    /\ tab' = s
    /\ Fetching(s, Now(s))
    /\ UNCHANGED <<server, undo, shown, sheet, acting, stepping, claiming,
                   toast, unclaiming, calls, spent>>

Poll ==
    /\ shown[tab] # Now(tab) \/ fetches # {}
    /\ [to |-> tab, got |-> Now(tab)] \notin fetches
    /\ Cardinality(fetches) < MaxFetch
    /\ Fetching(tab, Now(tab))
    /\ UNCHANGED <<server, undo, ui, calls, spent>>

\* mutant: the answer is dropped unless the list is still empty.
FetchOrdersOnce(f) ==
    /\ f \in fetches
    /\ fetches' = fetches \ {f}
    /\ shown' = IF \A o \in Order : shown[f.to][o] = "absent"
                THEN [shown EXCEPT ![f.to] = f.got] ELSE shown
    /\ UNCHANGED <<server, undo, tab, sheet, acting, stepping, claiming,
                   toast, unclaiming, calls, spent>>

\* setOrders(data): whatever arrives replaces the list, the older of two
\* answers too.  An error leaves it as it is.
FetchOrders(f) ==
    /\ f \in fetches
    /\ fetches' = fetches \ {f}
    /\ shown' = [shown EXCEPT ![f.to] = f.got]
    /\ UNCHANGED <<server, undo, tab, sheet, acting, stepping, claiming,
                   toast, unclaiming, calls, spent>>

FetchFails(f) ==
    /\ f \in fetches
    /\ spent.trouble < MaxTrouble
    /\ spent' = [spent EXCEPT !.trouble = @ + 1]
    /\ fetches' = fetches \ {f}
    /\ UNCHANGED <<server, undo, ui, calls>>

------------------------------------------------------------------------------
(* The order sheet                                                         *)

\* Opening a card, even the one whose action is still under way, shows its
\* buttons enabled again.
OpenDetail(o) ==
    /\ tab = "deliveries"
    /\ sheet = Nobody
    /\ shown["deliveries"][o] # "absent"
    /\ sheet' = [order |-> o, status |-> shown["deliveries"][o],
                 step |-> "detail"]
    /\ acting' = FALSE
    /\ UNCHANGED <<server, undo, tab, shown, stepping, claiming, toast,
                   unclaiming, fetches, calls, spent>>

\* handleClose: resetStep, then the screen forgets the order.
CloseDetail ==
    /\ sheet # Nobody
    /\ sheet' = Nobody
    /\ UNCHANGED <<server, undo, tab, shown, acting, stepping, claiming,
                   toast, unclaiming, fetches, calls, spent>>

\* "Проблема / Изменить" and its four ways out; an order with the retired
\* status `issue' cannot occur.
Turn(step) ==
    /\ sheet # Nobody
    /\ \/ sheet.step = "detail" /\ sheet.status \in Held /\ step = "menu"
       \/ sheet.step = "menu"
            /\ step \in {"later", "address", "release", "cancel"}
       \/ sheet.step # "detail" /\ step = "detail"
    /\ sheet' = [sheet EXCEPT !.step = step]
    /\ UNCHANGED <<server, undo, tab, shown, acting, stepping, claiming,
                   toast, unclaiming, fetches, calls, spent>>

ActionBar(s) ==
    IF s.step # "detail" THEN {}
    ELSE IF s.status = "assigned" THEN {"start"}
    ELSE IF s.status = "in_delivery" THEN {"delivered"} ELSE {}

\* The request each step of the problem flow ends in, once its date, address
\* or reason is put in.
StepCall(s) ==
    CASE s.step = "later" -> {"defer"}
      [] s.step = "address" -> {"address"}
      [] s.step = "release" -> {"release"}
      [] s.step = "cancel" -> {"returned"}
      [] OTHER -> {}

Send(kind, o) ==
    /\ spent.calls < MaxCalls
    /\ spent' = [spent EXCEPT !.calls = @ + 1]
    /\ calls' = calls \cup
            {[kind |-> kind, order |-> o, state |-> "sent",
              number |-> spent.calls]}
    /\ UNCHANGED <<server, undo, tab, shown, fetches>>

\* handleStart and handleDelivered of the tab, from the sheet.
PressAction(kind) ==
    /\ sheet # Nobody
    /\ kind \in ActionBar(sheet)
    /\ ~acting
    /\ acting' = TRUE
    /\ Send(kind, sheet.order)
    /\ UNCHANGED <<sheet, stepping, claiming, toast, unclaiming>>

\* The same handleStart from the card, without a sheet.
CardStart(o) ==
    /\ tab = "deliveries"
    /\ sheet = Nobody
    /\ shown["deliveries"][o] = "assigned"
    /\ ~acting
    /\ acting' = TRUE
    /\ Send("start", o)
    /\ UNCHANGED <<sheet, stepping, claiming, toast, unclaiming>>

\* doStatus(returned), doAddressChanged, doDefer, submitRelease.
SubmitStep(kind) ==
    /\ sheet # Nobody
    /\ kind \in StepCall(sheet)
    /\ ~stepping
    /\ stepping' = TRUE
    /\ Send(kind, sheet.order)
    /\ UNCHANGED <<sheet, acting, claiming, toast, unclaiming>>

\* mutant: the spinner is stopped on success only.
SheetAnswerNoFinally(c) ==
    /\ c.kind \in {"start", "delivered"}
    /\ c.state \in {"done", "refused"}
    /\ calls' = calls \ {c}
    /\ acting' = IF c.state = "done" THEN FALSE ELSE acting
    /\ UNCHANGED <<server, undo, spent, tab, shown, stepping, claiming,
                   toast, unclaiming, sheet, fetches>>

\* A start patches the open sheet if it still shows that order; a delivery
\* closes whatever sheet is open.
AnswerAction(c) ==
    /\ c.kind \in {"start", "delivered"}
    /\ c.state \in {"done", "refused"}
    /\ calls' = calls \ {c}
    /\ acting' = FALSE
    /\ IF c.state = "refused" THEN UNCHANGED <<sheet, fetches>>
       ELSE /\ Fetching("deliveries", Now("deliveries"))
            /\ sheet' = IF c.kind = "delivered" THEN Nobody
                        ELSE IF sheet # Nobody /\ sheet.order = c.order
                             THEN [sheet EXCEPT !.status = "in_delivery"]
                             ELSE sheet
    /\ UNCHANGED <<server, undo, spent, tab, shown, stepping, claiming,
                   toast, unclaiming>>

AnswerStep(c) ==
    /\ c.kind \in {"returned", "address", "defer", "release"}
    /\ c.state \in {"done", "refused"}
    /\ calls' = calls \ {c}
    /\ stepping' = FALSE
    /\ IF c.state = "refused" THEN UNCHANGED <<sheet, fetches>>
       ELSE /\ sheet' = Nobody
            /\ Fetching("deliveries", Now("deliveries"))
    /\ UNCHANGED <<server, undo, spent, tab, shown, acting, claiming,
                   toast, unclaiming>>

------------------------------------------------------------------------------
(* Free orders: claim and undo                                             *)

HandleClaim(o) ==
    /\ tab = "claimable"
    /\ shown["claimable"][o] # "absent"
    /\ claiming = Nobody
    /\ claiming' = o
    /\ Send("claim", o)
    /\ UNCHANGED <<sheet, acting, stepping, toast, unclaiming>>

AnswerClaim(c) ==
    /\ c.kind = "claim"
    /\ c.state \in {"done", "refused"}
    /\ calls' = calls \ {c}
    /\ claiming' = Nobody
    /\ IF c.state = "refused" THEN UNCHANGED <<shown, toast, fetches>>
       ELSE /\ shown' = [shown EXCEPT !["claimable"][c.order] = "absent"]
            /\ Fetching("claimable", Now("claimable"))
            /\ toast' = c.order
    /\ UNCHANGED <<server, undo, spent, tab, sheet, acting, stepping,
                   unclaiming>>

\* The toast's five seconds start at the answer, the server's at the claim, so
\* the toast never goes first.  The undo stops its timer.
ToastExpires ==
    /\ toast # Nobody
    /\ toast \notin undo
    /\ ~unclaiming
    /\ toast' = Nobody
    /\ UNCHANGED <<server, undo, tab, shown, sheet, acting, stepping,
                   claiming, unclaiming, fetches, calls, spent>>

HandleUndoClaim ==
    /\ toast # Nobody
    /\ ~unclaiming
    /\ unclaiming' = TRUE
    /\ Send("unclaim", toast)
    /\ UNCHANGED <<sheet, acting, stepping, claiming, toast>>

\* Success and failure both put the toast away, the one of a later claim too.
AnswerUndo(c) ==
    /\ c.kind = "unclaim"
    /\ c.state \in {"done", "refused"}
    /\ calls' = calls \ {c}
    /\ unclaiming' = FALSE
    /\ toast' = Nobody
    /\ IF c.state = "refused" THEN UNCHANGED fetches
       ELSE Fetching("claimable", Now("claimable"))
    /\ UNCHANGED <<server, undo, spent, tab, shown, sheet, acting, stepping,
                   claiming>>

------------------------------------------------------------------------------
Answer(c) ==
    \/ AnswerAction(c)
    \/ AnswerStep(c)
    \/ AnswerClaim(c)
    \/ AnswerUndo(c)

Sheet ==
    \/ CloseDetail
    \/ \E step \in SheetStep : Turn(step)
    \/ \E kind \in Kind : PressAction(kind) \/ SubmitStep(kind)

OnOrder(o) ==
    \/ OpenDetail(o)
    \/ CardStart(o)
    \/ HandleClaim(o)
    \/ UndoWindowCloses(o)
    \/ Others(o)

Next ==
    \/ Poll
    \/ Sheet
    \/ ToastExpires
    \/ HandleUndoClaim
    \/ \E s \in Screens : Focus(s)
    \/ \E o \in Order : OnOrder(o)
    \/ \E f \in fetches : FetchOrders(f) \/ FetchFails(f)
    \/ \E c \in calls : Serve(c) \/ Lose(c) \/ Answer(c)

Spec == Init /\ [][Next]_vars

\* The poll timer fires while its tab has the focus, requests end (the HTTP
\* client gives up after its timeout), timers expire.
Fairness ==
    /\ WF_vars(Poll)
    /\ WF_vars(\E f \in fetches : FetchOrders(f))
    /\ WF_vars(\E c \in calls : Serve(c))
    /\ WF_vars(\E c \in calls : Answer(c))
    /\ WF_vars(\E o \in Order : UndoWindowCloses(o))
    /\ WF_vars(ToastExpires)

FairSpec == Spec /\ Fairness

------------------------------------------------------------------------------
(* Properties                                                              *)

Sheets == [order: Order, status: Status, step: SheetStep]
Calls == [kind: Kind, order: Order, state: {"sent", "done", "refused"},
          number: Nat]

TypeOK ==
    /\ server \in [Order -> [status: Status, holder: Holder]]
    /\ undo \subseteq Order
    /\ tab \in Screens
    /\ shown \in [Screens -> Lists]
    /\ fetches \subseteq [to: Screens, got: Lists]
    /\ sheet \in Sheets \cup {Nobody}
    /\ {acting, stepping, unclaiming} \subseteq BOOLEAN
    /\ {claiming, toast} \subseteq Order \cup {Nobody}
    /\ calls \subseteq Calls
    /\ spent \in [calls: Nat, moves: Nat, trouble: Nat]

\* A tab that keeps the focus ends up showing what the server has, whatever
\* order the answers of polls and refetches arrived in.
ScreenSettles ==
    \A s \in Screens : <>[](tab = s) => <>[](shown[s] = Now(s))

\* No button spins forever and no undo toast stays, whichever way and in
\* whatever order the requests end.
ScreenComesToRest ==
    []<>(/\ ~acting /\ ~stepping /\ ~unclaiming
         /\ claiming = Nobody /\ toast = Nobody)
==============================================================================
