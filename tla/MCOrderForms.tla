---------------------------- MODULE MCOrderForms -----------------------------
(* The order forms for TLC.  They share no state: a behaviour moves one of   *)
(* them.  The office dialog's names are its own, the other forms' have a     *)
(* prefix.                                                                   *)
EXTENDS TLC, OrderCart, OfficeOrder

CONSTANTS fA, File, MaxUploads, NoFile, NoAsset, NoForm,
          pA, pB, MaxQty, Totals, Starts,
          MaxChanges, MaxEdits, NoOrder, NoCart

VARIABLES
    part,
    form, formDraft, formScreen, proof, cached, jobs, assets, orders, fills,
    doubt,
    order, listed, fetched, editor, base, changes, saving, away, edits

createVars ==
    <<form, formDraft, formScreen, proof, cached, jobs, assets, orders, fills,
      doubt>>
editVars ==
    <<order, listed, fetched, editor, base, changes, saving, away, edits>>
formVars == <<part, createVars, editVars, officeVars>>

\* pA has a fee of its own for the one mode, pB, which is not listed any more,
\* for the other.
ShopPrice == pA :> 3 @@ pB :> 2
ShopFee == pA :> [normal |-> 1, fast |-> NoFee]
           @@ pB :> [normal |-> NoFee, fast |-> 4]
UsualFee == [normal |-> 2, fast |-> 3]

\* Totals that the quantity does not divide, and a cart of two lines.
Row(product, qty, unit, total) ==
    [product |-> product, qty |-> qty, unit |-> unit, total |-> total]
TwoStarts == {<<Row(pA, 2, 3, 5)>>, <<Row(pB, 3, 2, 4)>>,
              <<Row(pB, 1, 2, 2), Row(pA, 1, 3, 3)>>}

Create == INSTANCE OrderForm WITH draft <- formDraft, screen <- formScreen
Edit == INSTANCE OrderEdit

FormsInit ==
    /\ part \in {"create", "edit", "office"}
    /\ Create!Init
    /\ OfficeInit
    /\ Edit!Init
    /\ part # "edit" => order.mode = "fast" /\ order.prepaid = 0
                          /\ order.items[1].product = pA

\* Bound: pictures are missing of the first order only.
FirstIsBare == form'.bare => form'.fill = 1

FormsNext ==
    \/ /\ part = "create"
       /\ Create!Next /\ FirstIsBare
       /\ UNCHANGED <<part, editVars, officeVars>>
    \/ /\ part = "edit"
       /\ Edit!Next
       /\ UNCHANGED <<part, createVars, officeVars>>
    \/ /\ part = "office"
       /\ OfficeNext
       /\ UNCHANGED <<part, createVars, editVars>>

FormsSpec == FormsInit /\ [][FormsNext]_formVars

------------------------------------------------------------------------------
FormsTypeOK == Create!TypeOK /\ Edit!TypeOK /\ OfficeTypeOK

NoSilentDuplicate == Create!NoSilentDuplicate
UntouchedEditKeepsOrder == Edit!UntouchedEditKeepsOrder
ShownIsStored == Edit!ShownIsStored

------------------------------------------------------------------------------
(* Sentences that TLC refutes; README.md gives the instances.                *)

\* The proof of an order is the file that was chosen when it was submitted.
\* Refuted with two files: the result of an upload is remembered although
\* another file was chosen while it ran.
ProofMatchesFile == \A i \in DOMAIN orders :
    LET o == orders[i] IN o.asset # NoAsset => assets[o.asset].file = o.file

\* CreateOrder.jsx:183-184, "cached so a retried submit doesn't re-upload the
\* same file": what is remembered while nothing is under way can be attached to
\* an order.  Refuted: a refused order quarantines the upload, and a lost
\* answer leaves it attached; every retry is refused until the file is changed.
RetryMayUseProof ==
    jobs["here"] = NoJob /\ formScreen = "form"
        => Create!Attachable(cached["here"])

\* orders/service.go:1704, "Total prepayments cannot exceed
\* total_order_amount".  Refuted: what the order was created with is no row of
\* order_prepayments and is not in the sum.
PrepaymentWithinTotal ==
    [][order'.rows > order.rows
           => order'.prepaid <= Edit!Total(order')]_formVars

\* The form is filled in with the order as it stands.  Refuted: with the
\* list's copy, which is then saved over what others have changed.
EditStartsFromServer ==
    [][saving # NoOrder /\ ~away /\ order' # order /\ saving' = NoOrder
           => base.items = order.items]_formVars

\* One customer for what was entered once.  Refuted: his order is refused and
\* submitted again.
OneCustomer == \A f \in DOMAIN customers : customers[f] <= 1
==============================================================================
