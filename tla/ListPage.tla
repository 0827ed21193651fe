------------------------------ MODULE ListPage -------------------------------
(* A list of the web admin that is shown page by page under a filter: the    *)
(* person filters and steps, the server counts the pages of each filter anew *)
(* with every answer.  One definition per list that does so.                 *)
(*                                                                           *)
(* Bounds: Filters filters of at most MaxPages pages, MaxRemoved times that  *)
(* a filter loses a page because rows leave it.                              *)
EXTENDS Integers

CONSTANTS Filters, MaxPages, MaxRemoved

ASSUME ListAssumption == MaxPages \in Nat \ {0} /\ MaxRemoved \in Nat

\* A list.  Its traits:
\*   "previous"   while a page is fetched the one before it stays, and with it
\*                the number of pages to step through (placeholderData)
\*   "waits"      its steps are off while a page is fetched
\*   "no return"  it has no button back
\*   "ranged"     the page around it sets the range, and leaves the number of
\*                the page as it is
\*   "unreset"    so does the filter (no list has it)
Listing(name, traits) == [name |-> name, traits |-> traits]

\* mutant: a search that looks for the second page of what it finds.
HistoryListUnreset == Listing("HistoryList", {"no return", "unreset"})
HistoryList == Listing("HistoryList", {"no return"})
HandoversList == Listing("HandoversList", {})
CourierOrdersTable == Listing("CourierOrdersTable", {})
ManagerOrdersPage == Listing("ManagerOrdersPage", {"previous"})
ManagerMyOrdersPage == Listing("ManagerMyOrdersPage", {"previous"})
TeamLeadOrdersPage == Listing("TeamLeadOrdersPage", {"previous"})
OrdersTable == Listing("OrdersTable", {"previous"})
BudgetList == Listing("BudgetList", {"previous"})
EventsTable == Listing("EventsTable", {"previous", "waits", "ranged"})
Listings ==
    {HistoryList, HandoversList, CourierOrdersTable, ManagerOrdersPage,
     ManagerMyOrdersPage, TeamLeadOrdersPage, OrdersTable, BudgetList,
     EventsTable}

VARIABLES
    listing,            \* which one
    filter, page,       \* what is asked for
    total,              \* per filter and page: the number of pages that its
                        \* answer told, 0 before there is one
    previous,           \* the number that was shown last
    wanted,             \* the filters and pages that are being fetched
    pages, removed,     \* the server's number of pages per filter, how often
                        \* one was lost
    hurried             \* a step before the page's own answer was there

listVars == <<listing, filter, page, total, previous, wanted, pages,
              removed, hurried>>

Is(trait) == trait \in listing.traits

ListInit ==
    /\ filter \in Filters /\ page = 1
    /\ total = [f \in Filters |-> [p \in 1..MaxPages |-> 0]]
    /\ previous = 0
    /\ wanted = {<<filter, 1>>}
    /\ pages \in [Filters -> 1..MaxPages]
    /\ removed = 0 /\ hurried = FALSE

Fetching == <<filter, page>> \in wanted
\* The number of pages that is on the screen; 0 when there is no answer.
Shown ==
    IF total[filter][page] # 0 THEN total[filter][page]
    ELSE IF Is("previous") THEN previous ELSE 0

\* Another filter or page: what is cached is shown and fetched again once it
\* is old, the rest is fetched.
Show(f, p) ==
    /\ filter' = f /\ page' = p
    /\ previous' = Shown
    /\ \/ total[f][p] # 0 /\ wanted' = wanted
       \/ wanted' = wanted \cup {<<f, p>>}

\* The page is set to 1 by the handler, or by an effect of the same change.
Choose ==
    \E f \in Filters \ {filter} :
        /\ Show(f, IF Is("unreset") THEN page ELSE 1)
        /\ UNCHANGED <<listing, total, pages, removed, hurried>>

ChooseRange ==
    /\ Is("ranged")
    /\ \E f \in Filters \ {filter} :
        /\ Show(f, page)
        /\ UNCHANGED <<listing, total, pages, removed, hurried>>

CanStep == Is("waits") => ~Fetching

StepOn ==
    /\ CanStep /\ page < Shown
    /\ Show(filter, page + 1)
    /\ hurried' = (hurried \/ Shown # total[filter][page])
    /\ UNCHANGED <<listing, total, pages, removed>>

StepBack ==
    /\ CanStep /\ ~Is("no return") /\ Shown > 1 /\ page > 1
    /\ Show(filter, page - 1)
    /\ UNCHANGED <<listing, total, pages, removed, hurried>>

Answered ==
    \E k \in wanted :
        /\ wanted' = wanted \ {k}
        /\ total' = [total EXCEPT ![k[1]][k[2]] = pages[k[1]]]
        /\ UNCHANGED <<listing, filter, page, previous, pages, removed,
                       hurried>>

\* Rows leave a filter: their state moved on, or they were deleted.
LoseRows ==
    \E f \in Filters :
        /\ pages[f] > 1 /\ removed < MaxRemoved
        /\ pages' = [pages EXCEPT ![f] = @ - 1]
        /\ removed' = removed + 1
        /\ UNCHANGED <<listing, filter, page, total, previous, wanted,
                       hurried>>

ListNext ==
    Choose \/ ChooseRange \/ StepOn \/ StepBack \/ Answered \/ LoseRows

ListSpec == listing \in Listings /\ ListInit /\ [][ListNext]_listVars

\* A list whose answer is there is not past its last page.
InRange == wanted = {} /\ removed = 0 => page <= pages[filter]

\* A list whose answers are there, and that lost no rows meanwhile, is not
\* past its last page, where it shows nothing and no button leads back: by
\* the resets of the page in the filters' handlers.  A step while the
\* previous filter's number is shown (keepPreviousData) can pass it, and so
\* does the finance ledger, whose range the page around it sets.
PageInRange ==
    hurried \/ listing \notin Listings \ {EventsTable} \/ InRange
==============================================================================
