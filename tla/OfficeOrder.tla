----------------------------- MODULE OfficeOrder -----------------------------
(* A dispatcher's order on behalf of a seller: CreateOfficeOrderModal of the *)
(* board and CreateOrderSheet of the phone.  The dialog stays mounted while  *)
(* it is closed, and with it the form and the submission.                    *)
(*                                                                           *)
(* What is entered is a number, its fill, as in OrderForm; the cart is       *)
(* OrderCart's (AddToCart, ChangeQty, OfficeWire).                           *)
EXTENDS Integers, Sequences, FiniteSets

CONSTANTS
    MaxFills,     \* orders entered
    MaxOrders,    \* orders the server may take, customers for each
    NoJob

VARIABLES
    opened,       \* the dialog is on the screen
    entered,      \* the form: [fill, known]
    asked,        \* the submission under way: [fill, created], or NoJob
    placed,       \* fills of the orders at the server, as they came
    customers,    \* customers it created for each fill
    typed,        \* history: fills so far
    unheard       \* history: per fill, answers that were lost

officeVars == <<opened, entered, asked, placed, customers, typed, unheard>>

Fill == 0..MaxFills
EMPTY == [fill |-> 0, known |-> FALSE]

OfficeTypeOK ==
    /\ opened \in BOOLEAN
    /\ entered \in [fill: Fill, known: BOOLEAN]
    /\ asked \in [fill: Fill, created: BOOLEAN] \cup {NoJob}
    /\ placed \in Seq(Fill)
    /\ customers \in [Fill -> Nat]
    /\ typed \in Fill
    /\ unheard \in [Fill -> Nat]

OfficeInit ==
    /\ opened = FALSE
    /\ entered = EMPTY
    /\ asked = NoJob
    /\ placed = <<>>
    /\ customers = [f \in Fill |-> 0]
    /\ typed = 0
    /\ unheard = [f \in Fill |-> 0]

\* Cancel, the cross and the veil only close.
Toggle ==
    /\ opened' = ~opened
    /\ UNCHANGED <<entered, asked, placed, customers, typed, unheard>>

\* Another order, while one is under way too.
Enter ==
    /\ opened
    /\ typed < MaxFills
    /\ typed' = typed + 1
    /\ entered' = [entered EXCEPT !.fill = typed']
    /\ UNCHANGED <<opened, asked, placed, customers, unheard>>

SelectCustomer ==
    /\ opened
    /\ entered' = [entered EXCEPT !.known = ~@]
    /\ UNCHANGED <<opened, asked, placed, customers, typed, unheard>>

\* The button: canSubmit, and disabled while a submission is under way.
SubmitOrder ==
    /\ opened
    /\ entered.fill # 0
    /\ asked = NoJob
    /\ asked' = [fill |-> entered.fill, created |-> entered.known]
    /\ UNCHANGED <<opened, entered, placed, customers, typed, unheard>>

CreateCustomer ==
    /\ asked # NoJob
    /\ ~asked.created
    /\ customers[asked.fill] < MaxOrders
    /\ customers' = [customers EXCEPT ![asked.fill] = @ + 1]
    /\ asked' = [asked EXCEPT !.created = TRUE]
    /\ UNCHANGED <<opened, entered, placed, typed, unheard>>

Place ==
    /\ asked # NoJob
    /\ asked.created
    /\ Len(placed) < MaxOrders
    /\ placed' = Append(placed, asked.fill)

\* onSuccess empties the form and closes the dialog, whatever is in it.
\* mutant: the form is not emptied.
TakenKeepsForm ==
    /\ Place
    /\ asked' = NoJob
    /\ opened' = FALSE
    /\ UNCHANGED <<entered, customers, typed, unheard>>
OrderTaken ==
    /\ Place
    /\ asked' = NoJob
    /\ entered' = EMPTY
    /\ opened' = FALSE
    /\ UNCHANGED <<customers, typed, unheard>>

AnswerLost ==
    /\ Place
    /\ asked' = NoJob
    /\ unheard' = [unheard EXCEPT ![asked.fill] = @ + 1]
    /\ UNCHANGED <<opened, entered, customers, typed>>

\* Refused by the server at either step; the form stays.
Refused ==
    /\ asked # NoJob
    /\ asked' = NoJob
    /\ UNCHANGED <<opened, entered, placed, customers, typed, unheard>>

OfficeNext ==
    \/ Toggle \/ Enter \/ SelectCustomer \/ SubmitOrder
    \/ CreateCustomer \/ OrderTaken \/ AnswerLost \/ Refused

OfficeSpec == OfficeInit /\ [][OfficeNext]_officeVars

------------------------------------------------------------------------------
(* Properties.                                                               *)

Ordered(f) == Cardinality({i \in DOMAIN placed : placed[i] = f})

\* What was entered once is ordered once, and once more for every answer that
\* was lost, however the dialog is closed and opened meanwhile.
OrderedPerAnswer == \A f \in Fill : Ordered(f) <= 1 + unheard[f]
==============================================================================
