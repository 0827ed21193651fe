--------------------------- MODULE MCCourierApp ---------------------------
(* The courier's order screens for TLC, and the sentences they refute.     *)
EXTENDS CourierApp

\* claimable.jsx:62-64: the undo never looks tappable after the server would
\* refuse it.  Refuted: the toast's five seconds start when the answer arrives.
ToastWithinWindow == toast # Nobody => toast \in undo

\* Everything the sheet offers of a fresh copy is accepted.  Refuted: "Клиент
\* отказался" of an order still assigned.
AllOffersAccepted ==
    sheet # Nobody
        /\ server[sheet.order] = [status |-> sheet.status, holder |-> "me"]
    => \A kind \in ActionBar(sheet) \cup StepCall(sheet) :
            Accepts(kind, sheet.order)
=============================================================================
