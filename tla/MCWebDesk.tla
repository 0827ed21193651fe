------------------------------ MODULE MCWebDesk ------------------------------
(* The dialogs and lists of the web admin for TLC: a dialog with a list it   *)
(* concerns, a dialog alone, a list and its pages, or a page's period and    *)
(* filter controls.                                                          *)
EXTENDS Desk, DeskDispatch, DeskStock, DeskPeople, DeskMoney, ListPage, Period

NoDialog == Form("none", <<>>, {})
NoList == Query("none", <<"none">>, {})
NoListing == Listing("none", {})
NoScreen == Screen("none", {}, "none", [desktop |-> {}, mobile |-> {}])

\* What shares one cache: the pages of a role, of the dispatcher one per device.
Apps ==
    {PhonePages, DesktopPages, OwnerCashPages, PeoplePages, OwnerMoneyPages,
     StockPages \cup {PharmaciesPage, WarehousePassword},
     TeamLeadPages, SellerPages, NewcomerPages}
AllCases ==
    UNION {(FormsOf(a) \X {NoList}) \cup Together(a) : a \in Apps}
Filled == StockFills \cup PeopleFills \cup MoneyFills

NoDesk ==
    /\ deskForm = NoDialog /\ query = NoList
    /\ dialog = Blank /\ calls = <<>> /\ list = Fresh
    /\ made = [d \in 1..MaxDrafts |-> 0] /\ lost = made
    /\ server = 0 /\ own = 0
NoPages ==
    /\ listing = NoListing
    /\ filter = 0 /\ page = 0 /\ total = <<>> /\ previous = 0
    /\ wanted = {} /\ pages = <<>> /\ removed = 0 /\ hurried = FALSE
NoPeriod ==
    /\ screen = NoScreen /\ device = "desktop"
    /\ from = 0 /\ to = 0 /\ since = 0 /\ mounted = 0 /\ today = 0
    /\ draft = Closed
    /\ direction = "" /\ eventType = "" /\ expenseCategory = ""
MCInit ==
    \/ DeskInit /\ NoPages /\ NoPeriod
    \/ NoDesk /\ listing \in Listings /\ ListInit /\ NoPeriod
    \/ NoDesk /\ NoPages /\ PeriodInit
MCNext ==
    \/ deskForm # NoDialog /\ DeskNext /\ UNCHANGED <<listVars, periodVars>>
    \/ listing # NoListing /\ ListNext /\ UNCHANGED <<deskVars, periodVars>>
    \/ screen # NoScreen /\ PeriodNext /\ UNCHANGED <<deskVars, listVars>>
MCSpec == MCInit /\ [][MCNext]_<<deskVars, listVars, periodVars>>

------------------------------------------------------------------------------
(* The dialogs that do not keep what the properties ask, by name, and why.   *)

\* Sent twice: no look at what is on its way, text that is still there after
\* it was posted, or a second request that fails after the first was done.
Repeats ==
    {"CommentsSection", "CommentsDrawer", "DrawerComments",
     "PaymentForm", "ReturnForm",
     "BudgetIncome", "BudgetWithdrawal", "AddExpenseModal",
     "CreateProductModal"}

\* Closed by its own button before there is an answer.
Hasty == {"RejectBox", "SaveStatus"}
\* Filled anew by the list it is about while something is typed in it.
Refilled ==
    {"ReceivingEditModal", "EditEmployeeModal", "EditTeamModal",
     "PersonalRateModal", "DeliverySettingsTab", "ProfileName"}

\* A dialog and the lists that its answer leaves as they are.
CashLists == {"my balance", "settlement of couriers", "transactions"}
StockTotals == {"stock by warehouse", "stock summary"}
Forgotten ==
    UNION {
        \* One row at a time is invalidated: the one that is open by then, or
        \* none.
        {"AssignSheet", "CancelSheet", "UnassignSheet", "ScheduleSheet",
         "QuickConfirm", "QuickReturn", "PrepaymentButtons"}
            \X {"order", "order history", "timeline"},
        {"AddTariff", "RemoveTariff"} \X {"tariffs"},
        {"CommentsDrawer", "DrawerComments"} \X {"comments"},
        {"SellerComment"} \X {"order comments"},
        {"AddAttachment"} \X {"order"},
        \* Cash: each screen invalidates its own lists.
        {"ConfirmHandoverModal", "RejectHandoverModal", "PhoneHandover"}
            \X (CashLists \cup {"owner's handovers"}),
        {"SettleConfirmHandover", "SettleRejectHandover"} \X CashLists,
        {"TransactionConfirm", "TransactionReject"}
            \X {"handovers", "my balance", "owner's handovers",
                "settlement of couriers"},
        {"PhoneTransaction", "RejectBox"} \X {"owner's handovers"},
        {"VerifyHandover", "QuickDecision", "DeleteHandover", "LedgerHandover"}
            \X {"balances", "couriers"},
        {"EditHandover"} \X {"balances"},
        \* The warehouse: the quantities per warehouse, and what two requests
        \* did when the second failed.
        {"ReceivingModal", "WriteoffModal", "RejectReturn"} \X StockTotals,
        {"NewWarehouseModal", "RenameWarehouseModal"} \X {"stock by warehouse"},
        {"AcceptReturn"} \X {"batches"},
        {"ReceivingEditModal"}
            \X (StockTotals \cup {"batches", "inventory", "movements",
                                  "receiving history"}),
        {"CreateProductModal", "EditProductModal"} \X {"products"},
        {"InvoiceForm", "InvoiceVerdict", "ReturnVerdict"}
            \X (StockTotals \cup {"batches", "movements"}),
        \* People: two requests again, and the keys of other pages.
        {"AssignTeamModal"} \X {"members", "teams", "who is in which team"},
        {"EditTeamModal"} \X {"teams", "who is in which team"},
        {"DeactivateTeamModal"} \X {"teams"},
        {"PersonalRateModal"} \X {"rates", "rate history"},
        {"UploadDocuments"} \X {"documents", "history", "journal"},
        \* Money.
        {"PaymentForm", "PaymentVerdict"}
            \X {"budget", "finance events", "finance summary"},
        {"SellerPayout", "TeamPayout"} \X {"payouts of one"}}

------------------------------------------------------------------------------
(* Properties.                                                               *)

\* What a person typed once is made once, whatever they press and whatever
\* becomes of the answers: only a lost answer may make it once more.  This is
\* what the isPending guards, the closing after an answer and the forgetting
\* of the text are for; Repeats do without one of them.
OncePerDraft == deskForm.name \in Repeats \/ DoneOnce

\* What is typed in a dialog disappears by the person's own closing or
\* leaving, or because a submission of that dialog was done: never by a
\* refusal, a lost answer or the arrival of a list.  Behind it are the
\* onSuccess handlers of the mutations and the effects that fill a dialog.
TypingSurvives ==
    [][deskForm.name \in Hasty \cup Refilled \/ StaysTyped]_deskVars

\* A list that is at rest on the screen shows every change whose answer this
\* client has seen: the invalidateQueries of each dialog's answer name the
\* lists that its requests change, with every way of leaving the page, coming
\* back, closing and reopening in between.  Forgotten lists are not named.
OwnChangesShow == <<deskForm.name, query.name>> \in Forgotten \/ ShowsOwn
==============================================================================
