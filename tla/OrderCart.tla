------------------------------ MODULE OrderCart ------------------------------
(* The cart of the order forms (CreateOrder, EditOrder and the dispatcher's  *)
(* two office forms) and what the server makes of the items they send.       *)
(*                                                                           *)
(* Amounts are whole hundredths.  The unit price on the wire is the line's   *)
(* total over its quantity, a fraction: a wire item keeps the two numbers    *)
(* apart.  Names, codes and pictures of a line are left out.                 *)
EXTENDS Integers, Sequences, SequencesExt

CONSTANTS
    Product,      \* products of the shop
    Listed,       \* the active ones, which is what the forms can see
    Price,        \* [Product -> Nat]: sale_price
    OwnFee,       \* [Product -> [Mode -> Nat \cup {NoFee}]]
    GlobalFee,    \* [Mode -> Nat]: delivery_settings.  No fee is changed while
                  \* a form is open or between two edits of an order.
    NoFee         \* a product without a fee of its own

Mode == {"normal", "fast"}

ASSUME CartAssumption ==
    /\ Listed \subseteq Product
    /\ Price \in [Product -> Nat]
    /\ OwnFee \in [Product -> [Mode -> Nat \cup {NoFee}]]
    /\ GlobalFee \in [Mode -> Nat]
    /\ NoFee \notin Nat

------------------------------------------------------------------------------
(* The cart.                                                                 *)

Line(p, qty, unit, total) ==
    [product |-> p, qty |-> qty, unit |-> unit, total |-> total]

\* setQty of a row and the second tap on a product price the line anew.
Repriced(line, qty) == Line(line.product, qty, line.unit, line.unit * qty)

AddToCart(cart, p) ==
    LET at == {i \in DOMAIN cart : cart[i].product = p}
    IN IF at = {}
       THEN Append(cart, Line(p, 1, Price[p], Price[p]))
       ELSE [i \in DOMAIN cart |-> IF i \in at
                                   THEN Repriced(cart[i], cart[i].qty + 1)
                                   ELSE cart[i]]

SetQty(cart, i, qty) == [cart EXCEPT ![i] = Repriced(@, qty)]
SetTotalPrice(cart, i, total) == [cart EXCEPT ![i].total = total]
RemoveCartItem(cart, i) == RemoveAt(cart, i)

\* The office form's minus takes the last piece and the line with it.
ChangeQty(cart, i, delta) ==
    IF cart[i].qty + delta <= 0
    THEN RemoveAt(cart, i)
    ELSE SetQty(cart, i, cart[i].qty + delta)

ProductTotal(cart) == SumFunction([i \in DOMAIN cart |-> cart[i].total])

\* The fee the forms show: that of the first line's product, if the product
\* list has it and it has one, or else the shop's.
Fee(cart, mode, known) ==
    IF cart = <<>> \/ cart[1].product \notin known
       \/ OwnFee[cart[1].product][mode] = NoFee
    THEN GlobalFee[mode]
    ELSE OwnFee[cart[1].product][mode]
ShownFee(cart, mode) == Fee(cart, mode, Listed)
ShownTotal(cart, mode) == ProductTotal(cart) + ShownFee(cart, mode)

------------------------------------------------------------------------------
(* What is sent and what is stored.                                          *)

Wire(cart) == [i \in DOMAIN cart |->
    [product |-> cart[i].product, qty |-> cart[i].qty,
     total |-> cart[i].total]]

\* The office forms send the unit price of the row instead.
OfficeWire(cart) == [i \in DOMAIN cart |->
    [product |-> cart[i].product, qty |-> cart[i].qty,
     total |-> cart[i].unit * cart[i].qty]]

\* NUMERIC(12,2) rounds the unit price; the total of the line is its product
\* with the quantity before that.
StoredUnit(item) == (2 * item.total + item.qty) \div (2 * item.qty)
StoredItem(item) ==
    Line(item.product, item.qty, StoredUnit(item), item.total)
StoredItems(wire) == [i \in DOMAIN wire |-> StoredItem(wire[i])]

\* The least an order may cost (one somoni) is 100 hundredths at the server;
\* MinTotal stands for it.
CONSTANT MinTotal
ASSUME MinTotalAssumption == MinTotal \in Nat \ {0}

ServerTakes(wire) ==
    /\ wire # <<>>
    /\ \A i \in DOMAIN wire : wire[i].qty > 0
    /\ ProductTotal(wire) >= MinTotal

\* The server looks the first item's product up in the whole table.
\* mutant: no own fees.
ServerFeeGlobal(items, mode) == GlobalFee[mode]
ServerFee(items, mode) == Fee(items, mode, Product)
==============================================================================
