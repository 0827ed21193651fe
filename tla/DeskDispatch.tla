----------------------------- MODULE DeskDispatch ----------------------------
(* The dialogs and lists of dispatching and of cash: the dispatcher's phone, *)
(* the modals of his desktop, his cash pages and the owner's.  Lists that    *)
(* are polled (the boards, the couriers' overview) heal themselves and are   *)
(* not listed.                                                               *)
EXTENDS DeskForms

------------------------------------------------------------------------------
(* Lists (shared/queryKeys.js) and what they read at the server.             *)

DHandovers == Query("handovers", <<"dispatcher", "handovers">>, {"handover"})
CashTransactions ==
    Query("transactions", <<"dispatcher", "cashTransactions">>, {"handover"})
CashSettlement ==
    Query("settlement of couriers", <<"dispatcher", "cashSettlement">>,
          {"handover"})
MySettlementsSummary ==
    Query("my balance", <<"dispatcher", "settlements", "summary">>,
          {"handover", "settlement"})
MySettlements ==
    Query("my settlements", <<"dispatcher", "settlements", "list">>,
          {"settlement"})
LHandovers == Query("owner's handovers", <<"logistics", "handovers">>,
                    {"handover"})
HandoverHistory ==
    QueryById("history of a handover", <<"logistics", "handovers", "history">>,
              {"handover"})
LogisticsCouriers ==
    Query("couriers", <<"logistics", "couriers">>, {"handover", "courier"})
SettlementsSummary ==
    Query("balances", <<"logistics", "settlements", "summary">>,
          {"handover", "settlement"})
Settlements ==
    Query("settlements", <<"logistics", "settlements", "list">>, {"settlement"})

OrderDetail == QueryById("order", <<"dispatcher", "order">>,
                         {"order", "prepayment", "attachment"})
Timeline == QueryById("timeline", <<"dispatcher", "timeline">>, {"order"})
Prepayments ==
    QueryById("prepayments", <<"dispatcher", "prepayments">>, {"prepayment"})
Comments == QueryById("comments", <<"dispatcher", "comments">>, {"comment"})
CourierTariffs ==
    QueryById("tariffs", <<"dispatcher", "courierTariffs">>, {"tariff"})
OrderHistory ==
    Query("order history", <<"dispatcher", "orderHistory">>, {"order"})

Board == <<"dispatcher", "board">>
NewOrders == <<"dispatcher", "newOrders">>
Couriers == <<"dispatcher", "couriers">>
invalidateBoard == {Board, NewOrders, <<"dispatcher", "cancelled">>, Couriers}
All == {<<"dispatcher">>}

------------------------------------------------------------------------------
(* The dispatcher's phone (features/dispatcher/mobile).  Its sheets are      *)
(* always mounted, blank when they open, and close from the hook.            *)

Sheet(name, renews) ==
    Form(name, <<Send("set", {"order"}, renews)>>, {"guarded", "closes"})
AssignSheet == Sheet("AssignSheet", invalidateBoard)
UnassignSheet == Sheet("UnassignSheet", invalidateBoard)
CancelSheet == Sheet("CancelSheet", invalidateBoard)
ForceStatusSheet == Sheet("ForceStatusSheet", All)
ScheduleSheet == Sheet("ScheduleSheet", invalidateBoard)

\* Verify or reject the prepayment of the order that is open.
PrepaymentButtons ==
    Form("PrepaymentButtons",
         <<Send("set", {"order", "prepayment"}, {OrderDetail.key, Board})>>,
         {"plain", "guarded", "shared"})

\* Enter submits whether or not a comment is on its way.
CommentsSection ==
    Form("CommentsSection", <<Send("add", {"comment"}, {Comments.key})>>,
         {"clears", "bound", "forgets"})

CourierSwitches ==
    Form("CourierSwitches", <<Send("set", {"courier"}, {Couriers})>>, {"plain"})
AddTariff ==
    Form("AddTariff", <<Send("add", {"tariff"}, {CourierTariffs.key})>>,
         {"guarded", "clears", "shared"})
RemoveTariff ==
    Form("RemoveTariff", <<Send("set", {"tariff"}, {CourierTariffs.key})>>,
         {"plain", "shared"})
IntakeButton ==
    Form("IntakeButton", <<Send("set", {"courier"}, {Couriers})>>,
         {"plain", "guarded"})
ProfilePassword ==
    Form("ProfilePassword", <<Send("set", {}, {})>>, {"guarded", "clears"})
QuickConfirm ==
    Form("QuickConfirm", <<Send("set", {"order"}, invalidateBoard)>>,
         {"plain", "guarded"})
QuickReturn ==
    Form("QuickReturn", <<Send("set", {"order"}, invalidateBoard)>>, {"plain"})

\* Cash on the phone: a handover is taken for the sum it declares.
PhoneHandover ==
    Form("PhoneHandover", <<Send("set", {"handover"}, {DHandovers.key, Couriers})>>,
         {"plain"})
PhoneTransaction ==
    Form("PhoneTransaction", <<Send("set", {"handover"}, All)>>,
         {"plain", "guarded"})
\* The box closes when it submits, whatever the answer will be.
RejectBox ==
    Form("RejectBox", <<Send("set", {"handover"}, All)>>, {"guarded", "hasty"})

------------------------------------------------------------------------------
(* The dispatcher's desktop: modals that reset their mutation when they      *)
(* close, and close from the hook.                                           *)

Modal(name, on, renews) ==
    Form(name, <<Send("set", on, renews)>>, {"guarded", "closes", "forgets"})
ScheduleModal ==
    Modal("ScheduleModal", {"order"},
          {Board, NewOrders, OrderDetail.key, Timeline.key})
RejectPrepaymentModal ==
    Modal("RejectPrepaymentModal", {"prepayment"},
          {Board, NewOrders, OrderDetail.key, Prepayments.key})
ForceStatusModal == Modal("ForceStatusModal", {"order"}, All)
UnassignModal ==
    Modal("UnassignModal", {"order"},
          {Board, Couriers, OrderDetail.key, Timeline.key})

\* The drawer keeps what was typed, for the next order too; Ctrl+Enter asks
\* for no permission.
CommentsDrawer ==
    Form("CommentsDrawer", <<Send("add", {"comment"}, {Comments.key})>>,
         {"keeps", "clears", "shared"})

\* In the drawer of an order: the next order takes the same field.
DrawerComments ==
    Form("DrawerComments", <<Send("add", {"comment"}, {Comments.key})>>,
         {"clears", "keeps", "shared"})
AddAttachment ==
    Form("AddAttachment", <<Send("add", {"attachment"}, {OrderDetail.key})>>,
         {"plain", "guarded", "hasty", "shared"})

\* Plain state and an awaited request; the parent's onClose runs all the same.
EditCourierModal ==
    Form("EditCourierModal", <<Send("set", {"courier"}, {Couriers})>>,
         {"guarded", "closes", "forgets"})
TariffsModal ==
    Form("TariffsModal", <<Send("add", {"tariff"}, {})>>,
         {"guarded", "clears", "bound", "forgets"})
\* Putting a courier back to work: the account first, then the intake.
ToggleOrderIntakeModal ==
    Form("ToggleOrderIntakeModal",
         <<Send("set", {"courier"}, {}), Send("set", {"courier"}, {Couriers})>>,
         {"guarded", "closes", "forgets"})

------------------------------------------------------------------------------
(* Cash on the desktop.                                                      *)

ConfirmHandoverModal ==
    Modal("ConfirmHandoverModal", {"handover"}, {DHandovers.key, Couriers})
RejectHandoverModal ==
    Modal("RejectHandoverModal", {"handover"}, {DHandovers.key})
\* The same on the tab of the company's settlement.
SettleConfirmHandover ==
    Modal("SettleConfirmHandover", {"handover"}, {LHandovers.key, DHandovers.key})
SettleRejectHandover ==
    Modal("SettleRejectHandover", {"handover"}, {LHandovers.key, DHandovers.key})
\* A photo, if there is one, then the settlement of all that is owed.
SubmitSettlement ==
    Form("SubmitSettlement",
         <<Send("set", {}, {}),
           Send("set", {"settlement"}, {<<"dispatcher", "settlements">>})>>,
         {"plain", "guarded", "closes", "on call"})
TransactionConfirm ==
    Form("TransactionConfirm", <<Send("set", {"handover"}, {CashTransactions.key})>>,
         {"plain", "guarded"})
TransactionReject ==
    Form("TransactionReject", <<Send("set", {"handover"}, {CashTransactions.key})>>,
         {"guarded", "closes"})

\* The owner's page of handovers: one mutation for all rows, and handlers of
\* the call.
OwnerHandoverKeys == {LHandovers.key, <<"logistics", "dashboard">>}
VerifyHandover ==
    Form("VerifyHandover", <<Send("set", {"handover"}, OwnerHandoverKeys)>>,
         {"guarded", "closes", "on call"})
EditHandover ==
    Form("EditHandover",
         <<Send("set", {"handover"},
                OwnerHandoverKeys \cup {LogisticsCouriers.key})>>,
         {"guarded"})
QuickDecision ==
    Form("QuickDecision", <<Send("set", {"handover"}, OwnerHandoverKeys)>>,
         {"plain"})
DeleteHandover ==
    Form("DeleteHandover", <<Send("set", {"handover"}, {LHandovers.key})>>,
         {"plain", "guarded", "closes", "on call"})

\* The ledger of handovers and settlements.
LedgerHandover ==
    Form("LedgerHandover", <<Send("set", {"handover"}, OwnerHandoverKeys)>>,
         {"guarded", "closes", "on call"})
LedgerSettlement ==
    Form("LedgerSettlement",
         <<Send("set", {"settlement"}, {<<"logistics", "settlements">>})>>,
         {"guarded", "closes", "on call"})
LedgerEdit ==
    Form("LedgerEdit",
         <<Send("set", {"settlement"}, {<<"logistics", "settlements">>})>>,
         {"guarded"})

------------------------------------------------------------------------------
(* Pages.  The phone's tabs and sheets are mounted one at a time, but share  *)
(* one cache; so do the tabs of the desktop.                                 *)

DispatcherMobileApp ==
    Page({AssignSheet, UnassignSheet, CancelSheet, ForceStatusSheet,
          ScheduleSheet, QuickConfirm, QuickReturn}, {})
OrderDetailSheet ==
    Page({PrepaymentButtons, CommentsSection}, {OrderDetail, Timeline, Comments})
HistoryTab == Page({ForceStatusSheet}, {OrderHistory})
CouriersTab == Page({IntakeButton}, {})
CourierDetailSheet ==
    Page({CourierSwitches, AddTariff, RemoveTariff},
         {CashSettlement, CourierTariffs})
CashTab ==
    Page({PhoneHandover, PhoneTransaction, RejectBox},
         {DHandovers, CashTransactions})
ProfileSheet == Page({ProfilePassword}, {})
\* The phone mounts the desktop's tab of the settlement with the company.
CompanySettlementTab ==
    Page({SettleConfirmHandover, SettleRejectHandover, SubmitSettlement},
         {LHandovers, MySettlementsSummary, MySettlements})
PhonePages ==
    {DispatcherMobileApp, OrderDetailSheet, HistoryTab, CouriersTab,
     CourierDetailSheet, CashTab, ProfileSheet, CompanySettlementTab}

DispatcherDesktop ==
    Page({ScheduleModal, RejectPrepaymentModal, ForceStatusModal, UnassignModal,
          CommentsDrawer, EditCourierModal, TariffsModal,
          ToggleOrderIntakeModal}, {Comments})
OrderDrawer ==
    Page({DrawerComments, AddAttachment},
         {OrderDetail, Timeline, Prepayments, Comments})
CashSettlementTab == Page({}, {CashSettlement})
CashHandovers == Page({ConfirmHandoverModal, RejectHandoverModal}, {DHandovers})
CashTransactionsTab ==
    Page({TransactionConfirm, TransactionReject}, {CashTransactions})
DesktopPages ==
    {DispatcherDesktop, OrderDrawer, CashSettlementTab, CashHandovers,
     CashTransactionsTab, CompanySettlementTab}

\* The owner's ledger and a courier's own page.
CashHandoversPage ==
    Page({VerifyHandover, EditHandover, QuickDecision, DeleteHandover},
         {LHandovers, HandoverHistory, LogisticsCouriers})
CashLedgerPanel ==
    Page({LedgerHandover, LedgerSettlement, LedgerEdit},
         {LHandovers, SettlementsSummary, Settlements})
OwnerCashPages == {CashHandoversPage, CashLedgerPanel}
==============================================================================
