------------------------------ MODULE OrderEdit ------------------------------
(* The page an order is edited on (EditOrder.jsx) and the order at the       *)
(* server, which others edit, deliver and take prepayments for meanwhile.    *)
(* The page opens with the order as the list behind it showed it, asks the   *)
(* server for the order, and fills its form in once.                         *)
EXTENDS OrderCart

CONSTANTS
    MaxQty,       \* pieces a line is raised to
    Totals,       \* totals a line is given by hand
    Starts,       \* carts the order is created with
    MaxChanges,   \* changes on one visit of the page
    MaxEdits,     \* edits of other people, prepayments, visits of the page
    NoOrder, NoCart

VARIABLES
    order,        \* the row at the server
    listed,       \* the order as the list showed it: location.state.order
    fetched,      \* fetchedOrder, or NoOrder; kept in the cache between visits
    editor,       \* [cart, mode] of the form, or NoCart
    base,         \* history: the order the form was filled in from
    changes,      \* history: changes the seller made to the form
    saving,       \* the PATCH under way: [wire, mode], or NoOrder
    away,         \* the list is on the screen
    edits         \* history: counts towards MaxEdits

vars == <<order, listed, fetched, editor, base, changes, saving, away, edits>>

\* `prepaid' is prepayment_amount; `rows' the sum of order_prepayments.
NewOrder(cart, mode, prepaid) ==
    [items |-> StoredItems(Wire(cart)), mode |-> mode,
     fee |-> ServerFee(Wire(cart), mode), delivered |-> FALSE,
     prepaid |-> prepaid, rows |-> 0]
Total(o) == ProductTotal(o.items) + o.fee

TypeOK ==
    /\ order.mode \in Mode
    /\ order.fee \in Nat
    /\ order.rows \in Nat
    /\ order.rows <= order.prepaid
    /\ editor # NoCart => editor.mode \in Mode
    /\ changes \in 0..MaxChanges
    /\ away \in BOOLEAN
    /\ edits \in 0..MaxEdits

\* The form lets a prepayment through up to what it shows as the total.
Init ==
    /\ \E cart \in Starts, mode \in Mode :
        \E prepaid \in {0, ShownTotal(cart, mode)} :
            order = NewOrder(cart, mode, prepaid)
    /\ listed = order
    /\ fetched = NoOrder
    /\ editor = NoCart
    /\ base = NoOrder
    /\ changes = 0
    /\ saving = NoOrder
    /\ away = TRUE
    /\ edits = 0

Counted ==
    /\ edits < MaxEdits
    /\ edits' = edits + 1

------------------------------------------------------------------------------
(* The page.                                                                 *)

Known == IF fetched = NoOrder THEN listed ELSE fetched

\* The stored total is taken, not the unit price times the quantity.
\* mutant: the total is computed, not taken.
OrderToFormByUnit(o) ==
    [cart |-> [i \in DOMAIN o.items |-> Repriced(o.items[i], o.items[i].qty)],
     mode |-> o.mode]
orderToForm(o) == [cart |-> o.items, mode |-> o.mode]

\* Opening fills the form in with what is there, the list's copy at least.
Open ==
    /\ away
    /\ Counted
    /\ away' = FALSE
    /\ editor' = orderToForm(Known)
    /\ base' = Known
    /\ changes' = 0
    /\ UNCHANGED <<order, listed, fetched, saving>>

\* The answer of the server comes after that and does not fill it in again.
FetchOrder ==
    /\ ~away
    /\ fetched # order
    /\ fetched' = order
    /\ UNCHANGED <<order, listed, editor, base, changes, saving, away, edits>>

\* The page of an order that was delivered, as far as it knows, is closed;
\* only the delivery mode can still be tapped, to no end.
isTerminal == Known.delivered

Editing(e) ==
    /\ ~away
    /\ editor' = e
    /\ editor' # editor
    /\ changes < MaxChanges
    /\ changes' = changes + 1
    /\ UNCHANGED <<order, listed, fetched, base, saving, away, edits>>

EditCart ==
    \/ \E p \in Listed :
        /\ \A i \in DOMAIN editor.cart :
            editor.cart[i].product = p => editor.cart[i].qty < MaxQty
        /\ Editing([editor EXCEPT !.cart = AddToCart(@, p)])
    \/ \E i \in DOMAIN editor.cart :
        \/ \E q \in 1..MaxQty : Editing([editor EXCEPT !.cart = SetQty(@, i, q)])
        \/ \E t \in Totals :
            Editing([editor EXCEPT !.cart = SetTotalPrice(@, i, t)])
        \/ Editing([editor EXCEPT !.cart = RemoveCartItem(@, i)])
SetDeliveryMode == \E m \in Mode : Editing([editor EXCEPT !.mode = m])

CanSubmit ==
    /\ editor # NoCart
    /\ ~isTerminal
    /\ editor.cart # <<>>
    /\ ProductTotal(editor.cart) >= MinTotal

SubmitEdit ==
    /\ ~away
    /\ saving = NoOrder
    /\ CanSubmit
    /\ saving' = [wire |-> Wire(editor.cart), mode |-> editor.mode]
    /\ UNCHANGED <<order, listed, fetched, editor, base, changes, away, edits>>

Leave ==
    /\ ~away
    /\ away' = TRUE
    /\ editor' = NoCart
    /\ base' = NoOrder
    /\ changes' = 0
    /\ UNCHANGED <<order, listed, fetched, saving, edits>>

------------------------------------------------------------------------------
(* The server.                                                               *)

\* Items are replaced, the fee is found anew for them.
Updated(wire, mode) == [order EXCEPT
    !.items = StoredItems(wire), !.mode = mode, !.fee = ServerFee(wire, mode)]

\* onSuccess asks for the lists and the order again and goes back, from
\* whichever page is there by now.
UpdateOrder ==
    /\ saving # NoOrder
    /\ ~order.delivered
    /\ ServerTakes(saving.wire)
    /\ order' = Updated(saving.wire, saving.mode)
    /\ saving' = NoOrder
    /\ away' = TRUE
    /\ editor' = NoCart
    /\ base' = NoOrder
    /\ changes' = 0
    /\ UNCHANGED <<listed, fetched, edits>>

\* Delivered by now, no stock, no connection: the page stays as it is.
UpdateFails ==
    /\ saving # NoOrder
    /\ saving' = NoOrder
    /\ UNCHANGED <<order, listed, fetched, editor, base, changes, away, edits>>

\* Another person edits the order on a page of his own.
OthersEdit ==
    /\ Counted
    /\ ~order.delivered
    /\ \E cart \in Starts, m \in Mode : order' = Updated(Wire(cart), m)
    /\ UNCHANGED <<listed, fetched, editor, base, changes, saving, away>>

Deliver ==
    /\ Counted
    /\ order' = [order EXCEPT !.delivered = TRUE]
    /\ UNCHANGED <<listed, fetched, editor, base, changes, saving, away>>

\* AddPrepaymentCard: the server compares the rows with the total; what the
\* order was created with is not a row.  The page asks for the order again.
AddPrepayment(amount) ==
    /\ ~away
    /\ ~isTerminal
    /\ Counted
    /\ ~order.delivered
    /\ order.rows + amount <= Total(order)
    /\ order' = [order EXCEPT !.rows = @ + amount, !.prepaid = @ + amount]
    /\ UNCHANGED <<listed, fetched, editor, base, changes, saving, away>>

RefreshList ==
    /\ away
    /\ listed # order
    /\ listed' = order
    /\ UNCHANGED <<order, fetched, editor, base, changes, saving, away, edits>>

Next ==
    \/ Open \/ FetchOrder \/ SubmitEdit \/ Leave
    \/ editor # NoCart /\ ~isTerminal /\ EditCart
    \/ editor # NoCart /\ SetDeliveryMode
    \/ UpdateOrder \/ UpdateFails \/ OthersEdit \/ Deliver
    \/ \E amount \in Totals \ {0} : AddPrepayment(amount)
    \/ RefreshList

Spec == Init /\ [][Next]_vars

------------------------------------------------------------------------------
(* Properties.                                                               *)

\* Saving the form without having changed it gives the order back as it was:
\* the same lines with the same unit prices and totals, the same fee.  Prices
\* that were set by hand and do not divide by the quantity survive it.  The
\* server looks the fee up anew at every edit (orders/service.go:1126): this
\* is said of delivery settings and product fees that stay as they were.
UntouchedEditKeepsOrder ==
    editor # NoCart /\ changes = 0 /\ base = order =>
        Updated(Wire(editor.cart), editor.mode) = order

\* The total the page shows is the total the server stores, if the product of
\* the first line is in the product list and the fees that the page has read are
\* the server's still.
ShownIsStored ==
    editor # NoCart =>
        LET cart == editor.cart
        IN cart # <<>> /\ cart[1].product \in Listed =>
            ShownTotal(cart, editor.mode)
              = Total(Updated(Wire(cart), editor.mode))
==============================================================================
