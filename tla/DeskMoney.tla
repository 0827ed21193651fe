------------------------------ MODULE DeskMoney ------------------------------
(* The dialogs, lists and pages of the budget, the finance ledger, payouts,  *)
(* pharmacies, settings, orders and accounts (features/budget, finance,      *)
(* team-lead, pharmacies, logistics, orders, seller, onboarding).            *)
EXTENDS DeskForms

------------------------------------------------------------------------------
(* Lists.  The budget's balance and the finance summary are computed from    *)
(* expenses and confirmed pharmacy payments too.                             *)

BudgetSummary ==
    Query("budget", <<"budget", "summary">>,
          {"budget", "expense", "pharmacy payment"})
BudgetTransactions ==
    Query("budget transactions", <<"budget", "transactions">>, {"budget"})
WithdrawalRequests ==
    Query("withdrawal requests", <<"budget", "withdrawal-requests">>,
          {"withdrawal request"})
TransactionHistory ==
    QueryById("transaction history", <<"budget-transaction-history">>,
              {"budget edit"})
FinanceSummary ==
    Query("finance summary", <<"finance", "summary">>,
          {"expense", "pharmacy payment"})
FinanceEvents ==
    Query("finance events", <<"finance", "events">>,
          {"expense", "payout", "pharmacy payment"})
ExpenseHistory ==
    QueryById("expense history", <<"finance-expense-history">>,
              {"expense edit"})
Payables == Query("payables", <<"payouts", "payables">>, {"payout"})
PayeePayouts == QueryById("payouts of one", <<"payouts", "payee">>, {"payout"})
Pharmacies == Query("pharmacies", <<"pharmacies", "list">>,
                    {"pharmacy", "invoice", "pharmacy payment", "pharmacy return"})
PharmacyCard == QueryById("pharmacy", <<"pharmacies", "detail">>,
                    {"pharmacy", "invoice", "pharmacy payment", "pharmacy return"})
DeliverySettings == Query("delivery fees", <<"settings", "delivery">>, {"fee"})
OwnerOrders == Query("owner's orders", <<"orders", "list">>, {"order"})
OwnerOrder == QueryById("owner's order", <<"orders", "detail">>, {"order"})
OrderComments ==
    QueryById("order comments", <<"orders", "comments">>, {"comment"})
Me == Query("me", <<"seller", "me">>, {"me"})

------------------------------------------------------------------------------
(* The budget and the ledger.                                                *)

\* The modal stays mounted: the person's own Close empties it, the page's
\* closing of it after an answer does not.
BudgetIncome ==
    Form("BudgetIncome", <<Send("add", {"budget"}, {<<"budget">>})>>,
         {"guarded", "closes", "leaves"})
BudgetWithdrawal ==
    Form("BudgetWithdrawal",
         <<Send("add", {"budget", "withdrawal request"}, {<<"budget">>})>>,
         {"guarded", "closes", "leaves"})
EditBudgetTransaction ==
    Form("EditBudgetTransaction",
         <<Send("set", {"budget", "budget edit"},
                {<<"budget">>, TransactionHistory.key})>>,
         {"guarded", "closes", "forgets"})
\* mutant: the modal closes when its button is pressed, whatever the answer.
AddExpenseModalHasty ==
    Form("AddExpenseModal",
         <<Send("add", {"expense"}, {<<"finance">>, <<"budget">>})>>,
         {"guarded", "hasty"})
AddExpenseModal ==
    Form("AddExpenseModal",
         <<Send("add", {"expense"}, {<<"finance">>, <<"budget">>})>>,
         {"guarded", "closes", "leaves"})
\* mutant: the budget's balance, which the expenses feed, is forgotten.
EditFinanceExpenseForgets ==
    Form("EditFinanceExpense",
         <<Send("set", {"expense", "expense edit"},
                {<<"finance">>, ExpenseHistory.key})>>,
         {"guarded", "closes", "forgets"})
EditFinanceExpense ==
    Form("EditFinanceExpense",
         <<Send("set", {"expense", "expense edit"},
                {<<"finance">>, <<"budget">>, ExpenseHistory.key})>>,
         {"guarded", "closes", "forgets"})
\* mut.reset() on closing; handleClose is the call's own handler.
VoidPayoutModal ==
    Form("VoidPayoutModal",
         <<Send("set", {"payout"}, {FinanceEvents.key, <<"payouts">>})>>,
         {"guarded", "closes", "on call", "forgets"})

------------------------------------------------------------------------------
(* Payouts of a team lead.                                                   *)

\* The server answers a key it has seen with the payouts it made for it: one
\* key until an answer comes.
TeamPayout ==
    Form("TeamPayout", <<Send("set", {"payout"}, {Payables.key})>>,
         {"guarded", "closes", "clears", "keeps"})
\* A key for every press; what is left to pay is the amount.
SellerPayout ==
    Form("SellerPayout", <<Send("add", {"payout"}, {Payables.key})>>,
         {"plain", "guarded", "closes"})

------------------------------------------------------------------------------
(* Pharmacies: one hook renews what starts with "pharmacies", the main       *)
(* pool's quantities and a key "income" that no list has.                    *)

OfPharmacies == {<<"pharmacies">>, <<"warehouse", "inventory">>, <<"income">>}

\* mutant: the button stays on while the request is out, as PaymentForm's.
PharmacyFormUnguarded ==
    Form("PharmacyForm", <<Send("add", {"pharmacy"}, OfPharmacies)>>,
         {"closes", "clears", "keeps"})
PharmacyForm ==
    Form("PharmacyForm", <<Send("add", {"pharmacy"}, OfPharmacies)>>,
         {"guarded", "closes", "clears", "keeps"})
InvoiceForm ==
    Form("InvoiceForm",
         <<Send("add", {"invoice", "stock", "movement", "batch"}, OfPharmacies)>>,
         {"guarded", "closes", "clears", "keeps"})
\* Their buttons stay on while the request is out.
PaymentForm ==
    Form("PaymentForm", <<Send("add", {"pharmacy payment"}, OfPharmacies)>>,
         {"closes", "clears", "keeps"})
ReturnForm ==
    Form("ReturnForm", <<Send("add", {"pharmacy return"}, OfPharmacies)>>,
         {"closes", "clears", "keeps"})
TransferForm ==
    Form("TransferForm", <<Send("set", {"pharmacy"}, OfPharmacies)>>,
         {"closes", "clears", "keeps"})
\* Buttons of a pharmacy's card, with window.prompt for what they ask.
InvoiceVerdict ==
    Form("InvoiceVerdict",
         <<Send("set", {"invoice", "stock", "movement", "batch"}, OfPharmacies)>>,
         {"plain"})
PaymentVerdict ==
    Form("PaymentVerdict", <<Send("set", {"pharmacy payment"}, OfPharmacies)>>,
         {"plain"})
ReturnVerdict ==
    Form("ReturnVerdict",
         <<Send("set", {"pharmacy return", "stock", "movement", "batch"},
                OfPharmacies)>>,
         {"plain"})
ArchivePharmacy ==
    Form("ArchivePharmacy", <<Send("set", {"pharmacy"}, OfPharmacies)>>, {"plain"})

------------------------------------------------------------------------------
(* Settings, orders, accounts.                                               *)

DeliverySettingsTab ==
    Form("DeliverySettingsTab", <<Send("set", {"fee"}, {DeliverySettings.key})>>,
         {"guarded", "keeps"})
OrderStatusModal ==
    Form("OrderStatusModal", <<Send("set", {"order"}, {<<"orders">>})>>,
         {"guarded", "closes", "forgets"})
\* Mounted while the drawer shows the comments of its order.
OrderCommentsPanel ==
    Form("OrderCommentsPanel", <<Send("add", {"comment"}, {OrderComments.key})>>,
         {"guarded", "clears", "on call", "forgets"})
\* In the panel and the sheet of a seller's order: the next order takes the
\* same field.
SellerComment ==
    Form("SellerComment", <<Send("add", {"comment"}, {OrderComments.key})>>,
         {"guarded", "clears", "on call", "keeps", "shared"})

ProfileName ==
    Form("ProfileName", <<Send("set", {"me"}, {Me.key})>>, {"guarded"})
MyAvatar == Form("MyAvatar", <<Send("set", {"me"}, {Me.key})>>, {"plain"})
ProfileView ==
    Form("ProfileView", <<Send("set", {"password"}, {})>>,
         {"closes", "bound", "forgets"})
PasswordView ==
    Form("PasswordView", <<Send("set", {"password"}, {})>>,
         {"clears", "bound", "forgets"})
\* Its answer is a handler of the call; the warehouse's page has the same one
\* at the hook, and goes to the profile from wherever the person is by then.
ChangePasswordPage ==
    Form("ChangePasswordPage", <<Send("set", {"password"}, {})>>,
         {"guarded", "closes", "on call", "forgets"})
WarehouseChangePasswordPage ==
    Form("WarehouseChangePasswordPage", <<Send("set", {"password"}, {})>>,
         {"guarded", "closes", "forgets"})
WorkerApplicationPage ==
    Form("WorkerApplicationPage", <<Send("add", {"application"}, {})>>,
         {"guarded", "closes", "bound", "forgets"})

------------------------------------------------------------------------------
(* Pages.                                                                    *)

BudgetCompanyPage ==
    Page({BudgetIncome, BudgetWithdrawal, EditBudgetTransaction},
         {BudgetSummary, BudgetTransactions, WithdrawalRequests,
          TransactionHistory})
OwnerFinancePage == Page({AddExpenseModal}, {FinanceSummary})
FinanceEventsTable ==
    Page({EditFinanceExpense, VoidPayoutModal}, {FinanceEvents, ExpenseHistory})
PharmaciesPage ==
    Page({PharmacyForm, InvoiceForm, PaymentForm, ReturnForm, TransferForm,
          InvoiceVerdict, PaymentVerdict, ReturnVerdict, ArchivePharmacy},
         {Pharmacies, PharmacyCard})
OwnerOrdersPage ==
    Page({OrderStatusModal, OrderCommentsPanel},
         {OwnerOrders, OwnerOrder, OrderComments})
LogisticsPage == Page({DeliverySettingsTab}, {DeliverySettings})
SellerProfileInfoPage == Page({ProfileName, MyAvatar}, {Me})
AccountMenu == Page({ProfileView, PasswordView}, {})
TeamLeadFinancePage == Page({TeamPayout}, {Payables})
TeamLeadSellerFinanceDetailPage ==
    Page({SellerPayout}, {Payables, PayeePayouts})
SellerOrders == Page({SellerComment}, {OrderComments})
PasswordPages == Page({ChangePasswordPage}, {})
WarehousePassword == Page({WarehouseChangePasswordPage}, {})
Application == Page({WorkerApplicationPage}, {})

OwnerMoneyPages ==
    {BudgetCompanyPage, OwnerFinancePage, FinanceEventsTable, PharmaciesPage,
     OwnerOrdersPage, LogisticsPage, SellerProfileInfoPage, AccountMenu}
TeamLeadPages ==
    {TeamLeadFinancePage, TeamLeadSellerFinanceDetailPage, SellerOrders,
     SellerProfileInfoPage, PharmaciesPage}
SellerPages ==
    {SellerOrders, SellerProfileInfoPage, PasswordPages, PharmaciesPage}
NewcomerPages == {Application}

\* The dialogs that are filled from a list, anew whenever the list changes.
MoneyFills ==
    {<<DeliverySettingsTab, DeliverySettings>>, <<ProfileName, Me>>}
==============================================================================
