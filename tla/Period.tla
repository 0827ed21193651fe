------------------------------- MODULE Period --------------------------------
(* The period controls of the web admin: what a person picks in one, which   *)
(* range the page takes from it, what the control then says the page is      *)
(* about, and which days the server reads for that range; on the finance     *)
(* page also the type and direction chips of the ledger's filter bar.        *)
(*                                                                           *)
(* A day is a number, 0 stands for a date that is not there, and Oldest for  *)
(* the date the controls use as "since ever".  Bounds: the days 1..LastDay,  *)
(* a month that starts at MonthStart, today's first value the day after it.  *)
EXTENDS Integers

CONSTANTS LastDay, MonthStart

ASSUME PeriodAssumption ==
    MonthStart \in Nat \ {0, 1} /\ LastDay \in Nat /\ LastDay > MonthStart + 1

Oldest == 1
Days == 1..LastDay
NoRange == <<0, 0>>

\* The presets, as of a day; those of a week or a month back are like these.
Preset(name, day) ==
    CASE name = "today" -> <<day, day>>
      [] name = "yesterday" -> <<day - 1, day - 1>>
      [] name = "month" -> <<MonthStart, day>>
      [] name = "maximum" -> <<Oldest, day>>
      [] name = "all" -> NoRange

\* A control.  Its traits:
\*   "at once"    every day that is tapped is applied, there is no draft
\*   "typed"      its two dates can be typed too
\*   "resets"     a button empties the draft
\*   "one day"    a first day without a second is applied as one day
\*   "kept"       an empty draft applies nothing
\*   "cleared"    a cross brings back the range that the page started with
Control(name, presets, traits) ==
    [name |-> name, presets |-> presets, traits |-> traits]

Usual == {"today", "yesterday", "month", "maximum"}
DesktopDateRangePicker == Control("DesktopDateRangePicker", Usual, {"resets"})
DateRangeBottomSheet ==
    Control("DateRangeBottomSheet", Usual, {"typed", "one day"})
\* mutant: a first day alone is handed on as it is.
FinanceFilterBarHalf ==
    Control("FinanceFilterBar", Usual \ {"maximum"},
            {"typed", "resets", "kept", "cleared"})
FinanceFilterBar ==
    Control("FinanceFilterBar", Usual \ {"maximum"},
            {"typed", "resets", "one day", "kept", "cleared"})
MobileDateRangeCalendar == Control("MobileDateRangeCalendar", {}, {"at once"})
CashRangePicker ==
    Control("CashRangePicker", {"today", "yesterday", "month", "all"},
            {"at once"})
MobileFilterChip ==
    Control("MobileFilterChip", Usual, {"typed", "one day", "cleared"})
JournalChip ==
    Control("JournalChip", Usual, {"typed", "one day", "cleared"})

PeriodRangeFilter ==
    [desktop |-> {DesktopDateRangePicker}, mobile |-> {DateRangeBottomSheet}]
IncomePeriodFilter ==
    [desktop |-> {DesktopDateRangePicker}, mobile |-> {MobileDateRangeCalendar}]

\* A page: how its server reads a missing date ("month": from the start of the
\* month until today, "open": no bound), its first range, and the controls
\* of its wide and its narrow form.
Screen(name, readings, first, controls) ==
    [name |-> name, readings |-> readings, first |-> first,
     controls |-> controls]

FinanceScreen ==
    Screen("OwnerFinancePage", {"month"}, "maximum",
           [desktop |-> {DesktopDateRangePicker, FinanceFilterBar},
            mobile |-> {DateRangeBottomSheet, FinanceFilterBar}])
DashboardScreen ==
    Screen("OwnerDashboard", {"month", "open"}, "month", PeriodRangeFilter)
TeamProfileScreen ==
    Screen("TeamProfilePage", {"month", "open"}, "month", PeriodRangeFilter)
BudgetScreen ==
    Screen("BudgetCompanyPage", {"open"}, "all", PeriodRangeFilter)
CashLedgerScreen ==
    Screen("CashLedgerPanel", {"open"}, "all", PeriodRangeFilter)
OrdersScreen ==
    Screen("OwnerOrdersPage", {"open"}, "today", PeriodRangeFilter)
TeamOrdersScreen ==
    Screen("TeamOrdersFilters", {"open"}, "month", PeriodRangeFilter)
TeamLeadScreen ==
    Screen("TeamLeadOrdersPage", {"open"}, "month",
           [desktop |-> {DesktopDateRangePicker},
            mobile |-> {MobileFilterChip}])
IncomeScreens == Screen("IncomePages", {"month"}, "month", IncomePeriodFilter)
ReportsScreen ==
    Screen("TeamLeadReportsPage", {"open"}, "month", IncomePeriodFilter)
DispatcherScreen ==
    Screen("DispatcherBoardV3", {"open"}, "all",
           [desktop |-> {DesktopDateRangePicker}, mobile |-> {CashRangePicker}])
JournalScreen ==
    Screen("TeamDirectoryPage", {"open"}, "all",
           [desktop |-> {DesktopDateRangePicker}, mobile |-> {JournalChip}])
Screens ==
    {FinanceScreen, DashboardScreen, TeamProfileScreen, BudgetScreen,
     CashLedgerScreen, OrdersScreen, TeamOrdersScreen, TeamLeadScreen,
     IncomeScreens, ReportsScreen, DispatcherScreen, JournalScreen}

\* The ledger's types of event, one per kind: income, expense of a category,
\* another expense.
Types == {"earned", "business_expense", "payout"}
Group(d) ==
    CASE d = "income" -> {"earned"}
      [] d = "expense" -> {"business_expense", "payout"}
      [] d = "" -> Types
Categories == {"", "rent"}
Closed == [sheet |-> "", from |-> 0, to |-> 0, value |-> "", category |-> ""]

VARIABLES
    screen, device,     \* the page, "desktop" or "mobile"
    from, to,           \* the range that the page asks for
    since, mounted,     \* the day when the range was set, the page opened
    today,
    draft,              \* what is picked in the open sheet and not applied
    direction, eventType, expenseCategory

periodVars == <<screen, device, from, to, since, mounted, today, draft,
                direction, eventType, expenseCategory>>
chips == <<direction, eventType, expenseCategory>>

Controls == screen.controls[device]
With(c, trait) == trait \in c.traits

PeriodInit ==
    /\ screen \in Screens /\ device \in {"desktop", "mobile"}
    /\ today = MonthStart + 1 /\ since = today /\ mounted = today
    /\ from = Preset(screen.first, today)[1]
    /\ to = Preset(screen.first, today)[2]
    /\ draft = Closed
    /\ direction = "" /\ eventType = "" /\ expenseCategory = ""

\* The page takes a range; its words are made anew only when it differs.
Take(range) ==
    /\ from' = range[1] /\ to' = range[2]
    /\ since' = IF range = <<from, to>> THEN since ELSE today

OpenSheet(c) ==
    /\ ~With(c, "at once")
    /\ draft' = [Closed EXCEPT !.sheet = c.name, !.from = from, !.to = to]
    /\ UNCHANGED <<screen, device, from, to, since, mounted, today, chips>>
CloseSheet ==
    /\ draft # Closed /\ draft' = Closed
    /\ UNCHANGED <<screen, device, from, to, since, mounted, today, chips>>

\* A tap on a day: it starts a range, or ends the one that was started; an
\* earlier day changes places with the first.
Picked(a, b, day) ==
    IF a = 0 \/ b # 0 THEN <<day, 0>>
    ELSE IF day < a THEN <<day, a>> ELSE <<a, day>>

Draft(range) ==
    /\ draft' = [draft EXCEPT !.from = range[1], !.to = range[2]]
    /\ UNCHANGED <<screen, device, from, to, since, mounted, today, chips>>
PickDay(c) ==
    /\ draft.sheet = c.name
    /\ \E day \in Days : Draft(Picked(draft.from, draft.to, day))
ApplyPreset(c) ==
    /\ draft.sheet = c.name
    /\ \E p \in c.presets : Draft(Preset(p, today))
TypeDate(c) ==
    /\ draft.sheet = c.name /\ With(c, "typed")
    /\ \E day \in Days : \/ Draft(<<day, draft.to>>)
                         \/ Draft(<<draft.from, day>>)
ResetDraft(c) ==
    /\ draft.sheet = c.name /\ With(c, "resets") /\ device = "desktop"
    /\ Draft(NoRange)

\* What a control hands on of a draft.
Applied(c) ==
    IF With(c, "one day")
    THEN <<draft.from, IF draft.from = 0 THEN 0
                       ELSE IF draft.to = 0 THEN draft.from ELSE draft.to>>
    ELSE <<draft.from, draft.to>>
Apply(c) ==
    /\ draft.sheet = c.name
    /\ draft' = Closed
    /\ \/ With(c, "kept") /\ draft.from = 0 /\ UNCHANGED <<from, to, since>>
       \/ ~(With(c, "kept") /\ draft.from = 0) /\ Take(Applied(c))
    /\ UNCHANGED <<screen, device, mounted, today, chips>>

AtOnce(c) ==
    /\ With(c, "at once")
    /\ \/ \E day \in Days : Take(Picked(from, to, day))
       \/ \E p \in c.presets : Take(Preset(p, today))
    /\ UNCHANGED <<screen, device, mounted, today, draft, chips>>

\* The cross: the month as it was when the page was opened; the journal's
\* takes the range away.
FirstRange == Preset(IF screen = JournalScreen THEN "all" ELSE "month", mounted)
ClearPeriod(c) ==
    /\ With(c, "cleared") /\ <<from, to>> # FirstRange /\ from # 0
    /\ device = "desktop" \/ draft = Closed
    /\ Take(FirstRange)
    /\ UNCHANGED <<screen, device, mounted, today, draft, chips>>

------------------------------------------------------------------------------
(* The chips of the ledger.                                                  *)

\* mutant: the type stays whatever direction is chosen.
UpdateDirectionKeepsType(d) ==
    /\ direction' = d
    /\ UNCHANGED <<eventType, expenseCategory>>
updateDirection(d) ==
    /\ direction' = d
    /\ \/ eventType \in Group(d) \cup {""}
          /\ UNCHANGED <<eventType, expenseCategory>>
       \/ eventType \notin Group(d) \cup {""}
          /\ eventType' = "" /\ expenseCategory' = ""

\* The direction chips are under the sheet while one is open on a phone.
ChooseDirection ==
    /\ device = "desktop" \/ draft = Closed
    /\ \E d \in {"", "income", "expense"} \ {direction} : updateDirection(d)
    /\ UNCHANGED <<screen, device, from, to, since, mounted, today, draft>>

OpenTypes ==
    /\ draft' = [Closed EXCEPT !.sheet = "type", !.value = eventType,
                               !.category = expenseCategory]
    /\ UNCHANGED <<screen, device, from, to, since, mounted, today, chips>>
\* What the sheet of types lets one pick: a type of the direction, with a
\* category for a business expense, or all types.
Pickable ==
    {<<"", "">>} \cup
    {p \in Group(direction) \X Categories :
        p[2] = "" \/ p[1] = "business_expense"}
\* Wide: a pick is applied at once.  Narrow: a draft, applied by its button.
PickType ==
    /\ draft.sheet = "type"
    /\ \E p \in Pickable :
        \/ /\ device = "desktop"
           /\ eventType' = p[1] /\ expenseCategory' = p[2] /\ draft' = Closed
        \/ /\ device = "mobile"
           /\ draft' = [draft EXCEPT !.value = p[1], !.category = p[2]]
           /\ UNCHANGED <<eventType, expenseCategory>>
    /\ UNCHANGED <<screen, device, from, to, since, mounted, today, direction>>
ApplyType ==
    /\ draft.sheet = "type" /\ device = "mobile"
    /\ eventType' = draft.value
    /\ expenseCategory' =
        IF draft.value = "business_expense" THEN draft.category ELSE ""
    /\ draft' = Closed
    /\ UNCHANGED <<screen, device, from, to, since, mounted, today, direction>>
ClearType ==
    /\ eventType # "" /\ (device = "desktop" \/ draft = Closed)
    /\ eventType' = "" /\ expenseCategory' = ""
    /\ UNCHANGED <<screen, device, from, to, since, mounted, today, draft,
                   direction>>
ResetAll ==
    /\ device = "desktop"
    /\ \/ direction # "" \/ eventType # ""
       \/ from # 0 /\ <<from, to>> # Preset("month", mounted)
    /\ Take(Preset("month", mounted))
    /\ direction' = "" /\ eventType' = "" /\ expenseCategory' = ""
    /\ UNCHANGED <<screen, device, mounted, today, draft>>

Ledger ==
    /\ screen = FinanceScreen
    /\ \/ ChooseDirection \/ OpenTypes \/ PickType \/ ApplyType \/ ClearType
       \/ ResetAll

------------------------------------------------------------------------------
Midnight ==
    /\ today = MonthStart + 1 /\ today' = today + 1
    /\ UNCHANGED <<screen, device, from, to, since, mounted, draft, chips>>
\* The page is left and opened again.
Reopen ==
    /\ from' = Preset(screen.first, today)[1]
    /\ to' = Preset(screen.first, today)[2]
    /\ since' = today /\ mounted' = today /\ draft' = Closed
    /\ direction' = "" /\ eventType' = "" /\ expenseCategory' = ""
    /\ UNCHANGED <<screen, device, today>>

PeriodNext ==
    \/ \E c \in Controls :
        \/ OpenSheet(c) \/ PickDay(c) \/ ApplyPreset(c) \/ TypeDate(c)
        \/ ResetDraft(c) \/ Apply(c) \/ AtOnce(c) \/ ClearPeriod(c)
    \/ CloseSheet \/ Ledger \/ Midnight \/ Reopen

------------------------------------------------------------------------------
(* What a control says, and what the server reads, as sets of days until     *)
(* today; the words of a preset mean the day on which they are read.         *)
Until(a, b) == {d \in Days : a <= d /\ d <= b /\ d <= today}
Means(name) == Until(Preset(name, today)[1], Preset(name, today)[2])
Anything == {}

\* The first preset whose range it was when the words were made, or the dates.
Words(presets, a, b) ==
    LET same == {p \in presets : Preset(p, since) = <<a, b>>}
    IN  IF same # {} THEN Means(CHOOSE p \in same : TRUE) ELSE Until(a, b)

\* Two controls know the month as it was when the page was opened.
OfThatMonth == <<from, to>> = Preset("month", mounted)
\* A day that is missing at the end stands for the first.
End == IF to = 0 THEN from ELSE to

\* The days a control names; {} where it names none ("Period").
Named(c) ==
    CASE c = DesktopDateRangePicker ->
            IF from = 0 \/ to = 0 THEN Means("maximum")
            ELSE Words(c.presets, from, to)
      [] c = DateRangeBottomSheet ->
            IF from = 0 THEN Means("maximum") ELSE Words(c.presets, from, End)
      [] c = FinanceFilterBar ->
            IF from = 0 THEN Anything
            ELSE IF OfThatMonth THEN Means("month")
            ELSE Words(c.presets, from, End)
      [] c = MobileFilterChip ->
            IF OfThatMonth THEN Means("month")
            ELSE Words({"today", "yesterday"}, from, to)
      [] c = CashRangePicker ->
            IF from = 0 THEN Means("maximum")
            ELSE IF to = 0 THEN Anything ELSE Words(c.presets, from, to)
      [] c \in {MobileDateRangeCalendar, JournalChip} ->
            IF from = 0 \/ to = 0 THEN Anything ELSE Until(from, to)
NamesNone(c) ==
    \/ c = FinanceFilterBar /\ from = 0
    \/ c = CashRangePicker /\ from # 0 /\ to = 0
    \/ c \in {MobileDateRangeCalendar, JournalChip} /\ (from = 0 \/ to = 0)

ServerReads(reading) ==
    LET first == IF reading = "month" THEN MonthStart ELSE Oldest
    IN  Until(IF from = 0 THEN first ELSE from, IF to = 0 THEN today ELSE to)

\* Words that were made before midnight.
Stale(c) ==
    \/ since # today
    \/ c \in {FinanceFilterBar, MobileFilterChip} /\ mounted # today

------------------------------------------------------------------------------
PeriodSpec == PeriodInit /\ [][PeriodNext]_periodVars

\* The filters of the ledger can all hold of one event: a type belongs to the
\* chosen direction, and only a business expense has a category; by
\* updateDirection and the sheets, whatever is chosen in which order, with a
\* draft picked before the direction changed.
FiltersAgree ==
    /\ eventType \in Group(direction) \cup {""}
    /\ expenseCategory # "" => eventType = "business_expense"

\* A period control names the days that the server reads for the page's range:
\* through drafts, presets, single taps, typed dates, the cross, midnight and
\* leaving the page.  The wide picker alone can hand on a range without an
\* end, or after a reset none at all, and calls it "Maximum"; words made
\* before midnight mean other days after it.
HalfByDesktop ==
    /\ DesktopDateRangePicker \in Controls
    /\ to = 0 /\ (from # 0 \/ "month" \in screen.readings)
NamesWhatIsRead ==
    HalfByDesktop \/
    \A c \in Controls :
        Stale(c) \/ NamesNone(c) \/
        \A reading \in screen.readings : Named(c) = ServerReads(reading)
==============================================================================
