----------------------------- MODULE MCWebPages ------------------------------
(* The pages of the web admin and the dispatcher's phone for TLC: one order  *)
(* form, or what MCWebDesk moves.  The forms' questions and the dialogs' are *)
(* apart, so a behaviour moves one of them.                                  *)
EXTENDS MCOrderForms, MCWebDesk

pagesVars == <<deskVars, listVars, periodVars>>

\* No form is touched.
Untouched == FormsInit /\ part = "office"

PagesInit ==
    \/ FormsInit /\ NoDesk /\ NoPages /\ NoPeriod
    \/ Untouched /\ MCInit
PagesNext ==
    \/ /\ <<deskForm, listing, screen>> = <<NoDialog, NoListing, NoScreen>>
       /\ FormsNext
       /\ UNCHANGED pagesVars
    \/ MCNext /\ UNCHANGED formVars

PagesSpec == PagesInit /\ [][PagesNext]_<<formVars, pagesVars>>
==============================================================================
