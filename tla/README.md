# A verification of the MegaMall CRM

The repository holds a delivery business: a Go backend (`src/megamall-crm`, Gin,
GORM, PostgreSQL), a React office client (`web-admin`) and an Expo app for
couriers (`src/mobile/courier-app`). All state of record is in PostgreSQL. Every
request runs in a goroutine of its own, transactions are READ COMMITTED, and
mutual exclusion is `SELECT ... FOR UPDATE` on a row, a conditional `UPDATE`, or
one advisory lock. The clients keep copies: tokens in `localStorage` and
SecureStore, lists in a query cache, rows in open dialogs, drafts. What can go
wrong is therefore what two requests do to one row, what a request read before
it locked, what a screen shows after the row moved, what is sent again because
an answer was lost, and what long sequences of legal calls add up to.

## Inventory of the system

| Component | State | Operations | Meets | What makes it correct |
|---|---|---|---|---|
| orders | `orders.status`, `courier_id`, `order_timeline`, prepayment status | create, edit, change status, prepayment add / verify / reject | everything below | holder and status agree; side effects fire once |
| dispatch | `order_assignments` | assign, reassign, unassign, intake switch | orders, couriers' warehouses | one holder per order, the capacity, no action on what was only looked at |
| courier | assignments, `cash_handovers` | claim, unclaim, release, deliver, address change, deferral, submit cash | orders, logistics | a courier acts on his own orders only; cash is declared once |
| logistics | `cash_handovers` | the owner's entry, update, correction, deletion | courier | the debt is the balance; a decision is final |
| inventory | `inventory`, batches, movements | receive, adjust, write off, FEFO consumption | orders, warehouses | promised and blocked goods never exceed stock |
| warehouses | `courier_inventory`, transfers, returns, loss reports | issue, accept, reject, return, report, decide | inventory, orders | blocked goods are exactly those in open documents |
| compensation, finance | rate configs, snapshots, `financial_events` | resolve rates, record events | orders, pharmacies | one set of events per delivery |
| payouts | batches, payouts | create, void | compensation | one payment per key, nothing paid beyond what is owed |
| dispatcher_settlements | settlements, audit rows | submit, confirm, reject, edit | cash handovers | nothing is settled twice, the history tells what happened |
| budget, telegram | ledger, withdrawal requests, a message with buttons | income, withdrawal, approve / reject / expire | finance | one decision and one ledger row per request, whatever is redelivered |
| pharmacies | invoices, payments, credit, returns | decide, confirm, correct, process | inventory, compensation | allocations add up to the payment |
| media | assets, owners, quarantine | attach, release, purge | orders, handovers, applications | an asset in use is not purged, none is orphaned |
| onboarding, users, teams, hierarchy | applications, users | submit, approve, reject | media, each other | one account per application, with its document |
| auth | refresh tokens in families | login, refresh, logout | both clients | one live token per family; reuse revokes the family |
| products, customers, notifications, uploads, activity, settings, reports | records | CRUD, SQL reads | all | no protocol of their own |
| server, pool | 25 connections by default | | all | a transaction never waits for a second connection for ever |
| web admin: session | the pair and the lock in `localStorage`; per tab a store, a promise, requests | refresh, retry, login, logout | auth, other tabs | rotation never looks like reuse; requests end |
| web admin: board | four cached lists, selection, modals, held-back cancels | assign, confirm, drag, bulk, cancel, undo | orders, dispatch | a hidden order is being cancelled; a confirmed cancel is sent |
| web admin: order forms | draft, form, cart, proof, cached upload | create, retry, edit, office order | orders, customers, media | no order twice, none changed by a form nobody touched |
| web admin: dialogs | what is typed, a submission, the lists behind | open, type, submit, close, leave | every handler | one submission per draft; the own change shows; typing survives |
| web admin: lists and periods | page, filter, range | step, filter, pick | list handlers | the page exists; the label names what is read |
| courier app: session | two SecureStore items, a refresh flag, a queue | refresh, rehydrate, login, logout | auth | no request waits for ever; a session is not lost by chance |
| courier app: screens | lists, an open sheet, spinners, the undo toast | poll, claim, undo, step | courier | the screen comes to show what the server has |
| courier app: till, warehouse | sheet, photos, transfer buttons | submit cash, decide transfers | courier, warehouses | what is filled in once is handed in once; a transfer is decided once |

Hard behaviours, with their lines, are listed as hazards in `PROJECT.json`:
handlers that look before they lock (unassign, unclaim, address change, returns,
handover, settlement and application decisions), sums that lock nothing in
common (capacity, settlements, payouts), writes on a connection outside the open
transaction, items moved without their order's lock, deliveries that Telegram
repeats, calls that fail with or without their effect, a sweep that works on
what it found a while ago, refreshes that outlive their lock, answers that
arrive late, twice or never, and dialogs that outlive the page they were opened
on.

## Modules

| Module | Models | Code |
|---|---|---|
| `OrderFlow` | the status engine, prepayments, assignment, claim, give-backs, resets | `orders/service.go`, `dispatch/service.go`, `courier/{service,repository}.go` |
| `OrderStock` | one product: the main pool, the couriers' warehouses, reservations, transfers, returns, losses, stocktakes | `orders/service.go`, `warehouses/service.go`, `inventory/service.go` |
| `CashHandover` | submission, debt, decisions that cross, corrections | `courier/{service,repository}.go`, `logistics/repository.go` |
| `Withdrawal` | a withdrawal that waits for a button: creation, message, presses, sweep | `budget/*`, `telegram/*`, `cmd/server/main.go` |
| `Settlement` | what a dispatcher remits, and the history of its decisions | `dispatcher_settlements/*` |
| `Payouts` | what a team lead pays while rates change | `payouts/*`, `compensation/*` |
| `Onboarding` | applications, reviews, accounts, documents | `onboarding/*`, `users/*`, `media/*` |
| `DecidedOnce` | abstract: a document is decided once and takes effect once | |
| `RefreshTokens` | the server's refresh tokens | `auth/*` |
| `WebSession` | a browser's tabs over `RefreshTokens` | `shared/api/client.js`, `shared/store/authStore.js` |
| `CourierSession` | the phone over `RefreshTokens` | `src/api/client.js`, `src/store/authStore.js` of the app |
| `CourierApp` | deliveries, free orders, the order sheet | the app's tabs and `OrderDetailSheet.jsx` |
| `CourierTill` | handover sheet, transfer decisions | the app's `cash.jsx`, `warehouse.jsx` |
| `DispatchBoard` | the dispatcher's board | `DispatcherBoardV3.jsx` with its modals and drawer |
| `OrderCart`, `OrderForm`, `OrderEdit`, `OfficeOrder` | the cart and the three ways to enter an order | `CreateOrder.jsx`, `EditOrder.jsx`, the dispatcher's two dialogs |
| `DeskForms`, `Desk` | what a dialog, a list and a page are; how one dialog and one list behave | TanStack Query as `shared/queryClient.js` sets it |
| `DeskDispatch`, `DeskStock`, `DeskPeople`, `DeskMoney` | every dialog of the web admin as a record: which lists it renews, which guards it has | `features/*` |
| `ListPage` | a paged list under a filter | the pages with a pager |
| `Period` | the period and filter controls | the pickers and the pages that use them |
| `Sums` | lemmas about sums over finite sets | |
| `OrderFlow_proofs`, `OrderStock_proofs`, `CashHandover_proofs`, `DispatchBoard_proofs` | theorems about the module they are named after | |
| `BackOffice_proofs` | theorems about `Withdrawal`, `Payouts`, `Onboarding`, `Settlement` | |
| `CourierPhone_proofs` | theorems about `CourierTill`, `CourierSession` | |
| `WebAdmin_proofs` | theorems about `WebSession`, `OrderForm`, `OrderEdit`, `OfficeOrder`, `ListPage`, `Period`, and about `Desk` with its tables | |
| `MC*` | instances for TLC, and sentences that TLC refutes | |

`PROJECT.json` maps every definition to its lines. Components that share no
state are run together, one of them per behaviour (`part`, `scene`; `MCWebPages`
does so with `MCOrderForms` and `MCWebDesk`): that is a disjoint union of
instances and no composition. Composed for real are the
session modules (client and `RefreshTokens`), `OrderEdit` (form and server), the
board, the courier's screens and the till (client and the part of the server
they meet), and each dialog with each list of its page.

### How time is cut

A transaction that starts by locking the order is one action, because every
other transaction on the order waits at the same lock; nobody can tell its
inside. It becomes two actions where somebody can:

* **Looking first** (`UnassignBegin`, `UnclaimBegin`, `ReleaseBegin`,
  `ResetBegin`, `ReturnLook`, `ResetLook`, `Read`): the handler reads on a
  connection of its own and acts later. The request waits in `inflight`,
  `pending` or `desk`; anything may happen before it goes on, or it never does
  (`Abort`, `Drop`, `Forget`).
* **Counting** (`AssignBegin`/`AssignCommit`, and the same for reassignment):
  the transaction holds one order, but counts all the orders of a courier. While
  it is in `inflight` the order is `Locked` and every other writer waits.
* **Items without a lock** (`Open`, then one of `ChangeStatus`, `Update`,
  `Take`, `Reset`): an order's transaction reads where its items are reserved,
  and `AcceptTransfer` may move them before it uses what it read.
* **Reading what others commit** (`SubmitHandover`/`SubmitCommit`): the
  advisory lock keeps out the courier's other submissions, not the office.
* **No transaction at all** (`Settlement`, `Payouts`, `Onboarding`, `Withdrawal`):
  every statement on a connection of its own is a step.

In the clients JavaScript between two awaits is one step. A request is sent,
served and answered in three steps; the answer may be late or lost, and the
screen may be gone when it comes. A fetch of a list is a snapshot taken when it
is served.

### OrderFlow

`cache` is `orders.courier_id`, `holder` the courier of the active
`order_assignments` row; they are two variables because the code writes them in
two statements and reads now the one, now the other. `postings` counts how often
an order's delivery moved stock and money; `everDelivered` is what the timeline
says of it. `CanTransition` is as permissive as the code's: every status reaches
every other, and only `StaffMay` and `CourierMay` (validateTransitionRole) say
no. The give-backs re-enter `changeStatusInternal`, which asks again under the
lock; the resets do not.

### OrderStock

One product is followed, since the stock rows of different products are never
compared; an order has `line` pieces of it. A warehouse has `qty`, `res`
(reserved) and `blk` (blocked) as the tables have. `home` is
`order_items.reserved_warehouse_id`. Statuses that differ in nothing the stock
sees are grouped (`open`, `held`). `Minus` is the clamp at zero the code
applies, and `RowAllowed` the CHECK constraints, which differ between the main
pool and the couriers' warehouses: a commit that breaks one rolls back, so it is
a guard.

### CashHandover

A handover is a record in a sequence, in the order of creation; `deleted` marks
a row that is gone. A decision is two steps (`Read`, then one of
`ConfirmHandover`, `ConfirmTransaction`, `RejectHandover`, `UpdateHandover`,
`EditHandover`, `DeleteHandover`), since the code reads without a lock, and any
number of desks may be between the two. `Save` writes back the whole row as it
was read, which is what GORM's `Save` does, and inserts it again when it is
gone, unless order links referred to it; `Change` writes the columns the owner
sent into the row as it is by then. `Write`, through which all of them go,
remembers in `revived` which handovers a late write brought back to life after a
rejection or deletion, and `reopened` which orders were taken back: the
properties' exceptions. `SignedDebt` is the formula of `GetCashSummary` and
`GetHandoverPaymentLimit` before the clamp. `Office` chooses which of the
owner's operations an instance has, so that each question can be asked apart;
the passing run has all of them. Amounts
are whole units: the code's one-cent tolerance is not modelled.

### Withdrawal, Settlement, Payouts, Onboarding

`Withdrawal` keeps what the database has (`requests`, `withdrawn`), what
Telegram has (`message`, `presses`) and what processes are in the middle of
(`form`, `answers`, `sweep`). A call to Telegram may fail with or without its
effect, a press may be delivered again and again, and the server may stop
between any two steps; after that a message keeps its buttons, and a request
whose message was never sent stays pending until its time is over, though its
creator was told of a failure. Approving does not ask whether the time is over.
The sweep edits the messages of all it had found, also of a request that was
approved meanwhile.

`Settlement`: a submission sums and inserts in two steps, so that two of them
(one of the pages has no guard) submit a balance twice; a decision that loses
the conditional update still writes its row of the history. `Payouts` keeps
events and payouts in one sequence, because what an event is worth depends on
whether a payout came after it: before it today's rate counts, after it the
amount it was written with. `Onboarding` has no transaction around anything: an
approval that races a rejection leaves an account whose application is gone,
and a document uploaded in the oldest owner's name is not attached when another
owner approves.

### RefreshTokens, WebSession, CourierSession

A token number stands for the pair the server hands out. Expiry of the access
part may come at any moment. The web client's lock is a `localStorage` entry
good for ten seconds, and no test-and-set: `acquireRefreshLock` looks
(`LookAtLock`), writes (`WriteLock`) and reads back what it wrote (`ReadBack`),
the lock's owner looks at the stored pair again (`CheckStored`), releasing is a
look (`CheckOwner`) and a removal (`Unlock`), and the tab that waits looks at
the pair (`WatchStored`) and then at the lock (`WatchLock`). Each is a step, and
the tabs' steps interleave, as `localStorage` has no lock of its own across
pages. Two tabs that find the lock free together are told apart by the read-back
if both have written before either reads. If one writes when the other has read
already, both have it: the model goes on with that, and `trouble` remembers that
two tabs `crossed`, as it does where a tab starts to wait, or to watch, just
when the lock it waits for is given back. `LockRunsOut` is the ten seconds
passing while a refresh is still out, after which another tab presents the same
pair. The courier app has no tabs but two SecureStore items written one after
the other, so that a kill between them leaves a pair that does not belong
together. Both clients send the refresh with a bare `axios.post`, which has none
of the timeout of their other calls: a refresh that is lost (`RefreshLost`) may
be noticed (`LossNoticed`) or not, ever. In both, a log-out during a refresh is
undone by the refresh, which stores its pair when it arrives; the web client
never tells the server of a log-out.

### CourierApp, CourierTill

The lists are answers the server gave some time ago and may arrive in either
order, so that an old poll brings back a claimed order. The sheet is a copy of a
row; an answer to a step of one order closes the sheet that has another one open
by then. The till uploads each photo by a call of its own and submits when all
are up; between two emptyings the sheet keeps its number (`sheet`), which the
handover made of it carries, so that `SheetHandedIn` can count. `CourierTill`
refines `DecidedOnce` in its transfers.

### DispatchBoard

Four lists are polled and merged; `cache` holds which orders each lists, as they
were. A cancel is held back for six seconds in `batches` while its orders are
`hidden`; leaving the page sends it, signing out or closing the tab drops it.
What an order's row looks like when a modal is opened is kept with the modal
where the code does so: a confirmation decided on an old row takes an order away
from the courier who has it meanwhile, and a cancel held back cancels an order
delivered meanwhile. An order dragged to the delivery column without a courier
becomes `assigned` with no assignment, which `OrderFlow` accepts as well.
A bulk action is one press that sends a request for each order; `press` tells
its requests apart from those of the next press, because the lists are asked for
again once, when all of them have settled. The delivered list is in no
invalidation: it is renewed by its poll, so that `OwnMovesShow` allows a
delivered order to be missing there or to stand as at its last delivery.
Escape closes more than in the code (any modal).

### OrderCart, OrderForm, OrderEdit, OfficeOrder

What is typed is a number, its fill; what is in the cart is modelled apart, in
`OrderCart`, with the rounding of prices and the fees that the server adds.
`OrderForm` has the page on the screen and the page left behind, which finishes
its submission out of sight: its answer clears the draft that was typed since,
and its image backfill saves the ordered draft again. `OrderEdit` has the form
and the order at the server, which others edit and deliver while the form is
open. The fee is computed again at every edit, as `orders/service.go:1126` does,
but from delivery settings and product fees that do not change: what a change of
them does to an order that is saved again is not modelled, and
`UntouchedEditKeepsOrder` and `ShownIsStored` speak of unchanged fees.

### Desk and its tables

`Desk` is one dialog and one list: typing, submitting, closing, opening for
another row, leaving the page, with fetches that an invalidation overtakes. The
tables (`DeskDispatch` and the others) say of each dialog of the web admin which
query keys it renews, what the handler writes at the server, and its traits:
whether the button is disabled while it submits, whether closing empties it,
whether an answer closes it, whether its fields are filled again when data
arrive. `MCWebDesk` asks every dialog of every page against every list of that
page, and each one alone with three submissions.

The properties hold for all dialogs but those they name, which are this code's
exceptions and are kept as definitions so that a new one is noticed:

| Set | Dialogs | What they do |
|---|---|---|
| `Repeats` | CommentsSection, CommentsDrawer, DrawerComments, PaymentForm, ReturnForm, BudgetIncome, BudgetWithdrawal, AddExpenseModal, CreateProductModal | no guard, or a draft that stays: submitted again, done again |
| `Hasty` | RejectBox, SaveStatus | the answer empties what was typed since |
| `Refilled` | ReceivingEditModal, EditEmployeeModal, EditTeamModal, PersonalRateModal, DeliverySettingsTab, ProfileName | fresh data overwrite what is being typed |
| `Forgotten` | pairs of a dialog and a list | the change is not shown until the list is fetched for another reason: invalidations of one row, cash screens that renew only their own list, stock totals, dialogs of two requests, pharmacy payments against budget and finance, payouts against the payee's history |

### ListPage, Period

A list keeps a page number, a filter and the total of the last answer; its
answers come in any order, and rows leave. `PageInRange` is about stepping: the
finance ledger is the one list that can step past its end. A period control has
its draft, what it hands to the page, what it says, and what the server reads of
it (bounds inclusive or not, UTC or not, missing ones). Two exceptions are kept
as definitions: `HalfByDesktop` (the wide picker hands on half a period and
calls it "Максимум") and `Stale` (labels from before midnight; the cross brings
back the month in which the page was mounted).

## Runs

Passing runs are exhaustive for their bounds.

| Run | Instance | Shows |
|---|---|---|
| `OrderFlow_all` | 1 order, 2 couriers, 3 requests in flight; or 2 orders (one prepaid), 1 courier, 2 in flight | the cached courier is the assignment, no zombies, one posting, what a locking transaction read holds at commit |
| `OrderStock_all` | 1 order, 2 couriers, stocktakes that find both pieces, 1 looking worker; or 2 orders, none of these, one courier busy at a time; couriers, slots and workers are symmetric. 2 pieces, 1 transfer, 1 claim, lines up to 1 | nothing is promised twice, blocked goods are accounted for, own stock only, goods leave once, accepting a transfer never ties up goods the courier had free |
| `CashHandover_all` | 1 order, 1 courier, 2 submissions and 2 decisions at once, 2 handovers, the amounts 1 of 2 due, all office operations; submissions and decisions are symmetric | cash claimed once, debt equals balance, but where a handover came back to life or an order was reopened |
| `CashHandover_crossed` | 1 order, 1 courier, 1 submission and 2 decisions at once, 2 handovers, no office | expects `NoDoubleClaim` violated, below |
| `BackOffice_all` | 2 withdrawal requests and 1 trouble; 2 settlements, 1 submission and 2 reviews at once, 2 changes each; 2 payouts, 2 requests with one key, 2 rates, 1 event; 2 applications, 2 reviews, 2 owners | a withdrawal is decided once with one ledger row (refinement) and comes to an end; a history opens with the verdict; one key pays once; a filed document stays |
| `WebSession_live` | 2 tabs, 1 request each, 2 pairs, 1 trouble | rotation is never taken for reuse and the newest pair is kept while nothing goes wrong; requests settle whatever goes wrong, but for a refresh call lost for good |
| `WebSession_crossed` | the same without trouble but tabs that cross | expects `LockCoversTabs` violated, below |
| `CourierPhone_all` | 2 requests, 2 pairs, 1 trouble; till and transfers with amounts to 2, 2 photos, 2 tries | the session is kept, a queued request is served but for a refresh call lost for good, a sheet is handed in once, transfers are decided once (refinement) |
| `CourierApp_orders` | 1 order, 2 fetches and 2 calls at once, 1 move of others, 1 loss | what the screen shows comes to be what the server has; spinners stop |
| `DispatchBoard_desk` | 1 order, 1 courier, 2 events of others, 1 cancel | hidden orders are being cancelled, own moves show, a confirmed cancel is sent |
| `WebPages_all` | an order form (1 file, 2 orders entered, of which the first may lack a picture, 1 upload, 2 orders taken; 2 products, totals 0 and 2, 2 changes on a visit, 2 edits), or each of the dialogs beside each list of its pages, and alone (2 openings, 2 drafts, 3 submissions, 1 lost answer), or lists of 2 filters and 2 pages, or periods in 4 days | no order twice without a word, an edit nobody made changes nothing, what is shown is stored, one office order per answer; for the rest see the exceptions above |

The largest is `WebPages_all` with 1.6 million states in two minutes;
`CashHandover_all` has 0.8 million, `WebSession_live` 0.7 and `CourierPhone_all`
0.5. A third page of the lists and a second courier of the handovers come to
several minutes more and are left to the proofs, which bound neither.

### Properties worth a word

* `ReadsStandUntilCommit`: what a dispatcher's transaction read under the order
  lock is true when it commits, though it counted orders it had no lock on.
* `HistoryOpensWithVerdict`: whatever decisions race, the first row of a
  settlement's history is the confirmation or rejection that took effect. Later
  rows are not that reliable (`EveryRowIsAChange`, below).
* `OncePerKey`: two requests with one idempotency key, each of which found no
  batch, leave one batch.
* `FiledDocumentStays`: a document that made it onto an employee's profile is
  not quarantined by a late rejection of the application.
* `RotationIsNotReuse`: no tab presents a pair that was presented before, while
  other tabs refresh at the same time and look at the lock together. It holds
  while nothing goes wrong; `trouble` says what may (a lost call, a refresh that
  outlives its lock, a tab reloaded in the middle, tabs that cross), and the
  configuration allows one of them, after which only `RequestsSettle` is
  promised. The read-back is what it rests on: without it (`NoReadBack`) two
  tabs that look together both call.
* `OneLiveHandover`, `DebtIsBalance`: with decisions that cross at will. That an
  order is in two live handovers takes one of them that was rejected or deleted
  and came back, or an order reopened and delivered by another courier; the
  history variables say which, and nothing else is excepted.
* `SheetHandedIn`: a filled-in sheet is under review once, whatever of its
  uploads or its submission failed and however old the summary is; an answer
  lost after the server took it is the one way to a second handover.
* `UntouchedEditKeepsOrder`: saving a form in which nothing was changed keeps
  the order's items and total, through the rounding of unit prices, as long as
  nobody else edits it and the fees stay as they are.
* `NoSilentDuplicate`: a form is ordered twice only if an answer was lost or the
  page was left while it submitted.

### Bounds

The interesting order histories need one order and the courier it passes from
and to: two couriers, and as many stale requests as can matter to one order at
once. Two orders are needed where orders meet, which is the capacity, the
transfer and the shared pool. Goods are interesting at the point where they do
not suffice, so the stock is no larger than the demand. Submissions and
decisions meet in twos. Statuses return on themselves, so the histories
themselves are not bounded except by the number of handovers, of which two give
a claim and its repetition, or a claim and an entry beside it. In the clients,
two copies of everything that can be confused (tabs, pairs, requests, openings,
drafts, answers), and one thing that goes wrong: two are several times the
states, and what they do apart was looked at in smaller instances. The board's
run has one order, so that a bulk cancel of several is covered only by the
theorem.

Deadlock is checked where something can always be done. `WebSession_live`,
`WebSession_crossed`, `CourierPhone_all`, `CourierApp_orders`,
`DispatchBoard_desk`, `WebPages_all` and `BackOffice_all` switch it off: their
behaviours end when the page is left or closed, or when the bounded number of
requests is used up.

### Fairness

Only weak fairness, and only of what programs do by themselves.

* `WebSession`, `CourierSession`: a promise whose value is there resumes, the
  server goes on with a refresh it has, and a request is answered or times out,
  for both clients are made with a timeout (12 s, 10 s). The refresh is not sent
  through them but by a bare `axios.post` without one (`client.js:167`, the
  app's `client.js:77`), so nothing is assumed of a refresh call that is lost:
  `RequestsSettle` and `QueuedIsServed` are promised of behaviours in which no
  call stays lost for ever (`[]<>(... # "lost")`). A tab that waits for another
  one's refresh gives up after twelve seconds (`waitForOtherRefresh`), whatever
  became of that one.
* `CourierApp`: the polling interval, the answers, the undo window and the
  toast's timer.
* `DispatchBoard`: refetches of invalidated lists, the answers, the timer of a
  held-back cancel.
* `Withdrawal`: the ticker of `cmd/server/main.go:394-397` goes on, and
  `expires_at` passes.

Nothing is assumed of what people do; the server modules about orders, stock
and cash have no fairness and no liveness, since every action of theirs is a
request somebody may or may not send.

Liveness so stated: `RequestsSettle`, `QueuedIsServed`, `ScreenSettles`,
`ScreenComesToRest`, `CancelHonoured`, `RequestsEnd`.

### Refinement

`DecidedOnce` says what a decision promises: a document is decided once and an
acceptance takes effect once. `CourierTill` implements it in its transfers
(`DecidesOnce`, also proved): the button may be pressed again after a lost
answer, and on two screens. `Withdrawal` implements it in its requests
(`WithdrawnOnce`): a press may be delivered any number of times, two people may
press, and the sweep competes; an expiry is a rejection to it.

### What is refuted

Three sentences have a run of their own.

* `OrderFlow_zombie`: `orders/repository.go:351-355` says that an order which
  goes back to confirmed must lose its courier in the same step, or nobody can
  take it any more. A prepayment that is verified (`orders/service.go:1829`)
  after the order was assigned or claimed confirms it and keeps him.
* `CashHandover_crossed`: `courier/repository.go:946-953` says that what is
  pending or disputed keeps its orders, so that none is linked to two open
  handovers. Two desks read a pending handover; one rejects it; its courier
  hands the order in again; the other one's dispute, saved as it was read,
  brings the first handover back (`courier/service.go:686` and 708).
* `WebSession_crossed`: `client.js:145-147` says that the lock of `localStorage`
  keeps the rotation from looking like reuse. One tab finds the lock free and is
  overtaken by another, which looks, writes, reads back and refreshes; the first
  one's write then goes over the lock, and its refresh presents the spent token.

TLC refutes more sentences of the repository. To see one, list the property in
the configuration named.

| Property | Configuration | Where, and what happens |
|---|---|---|
| `UnassignOnlyHeld` | `OrderFlow_all` | `dispatch/service.go:460`: a delivered order goes back to confirmed |
| `UnclaimOnlyAssigned` | `OrderFlow_all` | `courier/service.go:271`: an order that went on its way after the look is unclaimed |
| `ResetByHolder` | `OrderFlow_all` | `courier/repository.go:608`: verified outside the transaction; the next courier's assignment is reset |
| `AssignWithinCap` | `OrderFlow_all` with a capacity of one | `dispatch/service.go:435`: two counts, then two commits |
| `NeverOverpromised` | `OrderStock_all`, a lower `Counts` | `inventory/service.go:745`: counted below what is blocked |
| `ReleasedOnce` | `OrderStock_all` | `orders/service.go:1558`: cancelled, then returned |
| `ClaimedIsReserved` | `OrderStock_all` | `warehouses/service.go:687`: address change, then the same courier |
| `EditKeepsWarehouse` | `OrderStock_all`, one order, `Stock = 3`, `MaxQty = 2` | `orders/service.go:1066`: a transfer accepted inside the edit is undone |
| `BlockedIsHeld` | `OrderStock_all`, `MayCrash = TRUE` | `warehouses/service.go:1045`: a crash leaves the report without its block |
| `OneOpenReturn` | `OrderStock_all`, two slots and workers | `warehouses/service.go:787`: two requests ask before either creates |
| `GiveBackReleases` | `OrderStock_all` | `courier/service.go:316` says a give-back releases the inventory; it keeps it, on purpose as `orders/service.go:1634` says |
| `FinalStaysFinal` | `CashHandover_crossed` | `courier/service.go:686`: the second of two decisions wins silently |
| `ExpiredIsExpired`, `ButtonsGoAway` | `BackOffice_all` | the sweep edits what was approved after it looked; a failed edit or a crash leaves the buttons |
| `SubmittedWithinDebt`, `EveryRowIsAChange`, `ConfirmedIsCounted` | `BackOffice_all` | a balance submitted twice; the loser's row of history; a rejected settlement edited to confirmed without a count |
| `PaidUpIsPaidUp`, `NeverOverpaid`, `RetryIsReplayed` | `BackOffice_all` (the second with two keys) | a payout at a lowered rate freezes the older amount, which is owed again; two payments that each saw the whole; `payouts/service.go:228-230`, the ceiling refuses a retry before its key is looked up |
| `NoAccountOfTheRejected`, `DocumentsShowUp` | `BackOffice_all` | an approval that races a rejection; a document uploaded in another owner's name, or after the list was read |
| `AllQueuedServed`, `SubmittedOnce` | `CourierPhone_all` | a 401 queues behind a refresh that is over; the answer of a handover that was taken is lost and it is submitted again |
| `ToastWithinWindow`, `AllOffersAccepted` | `CourierApp_orders` | `claimable.jsx:62-64`: the toast's five seconds start with the answer; the sheet offers a refusal of an order not yet on its way |
| `NeverDropped` | `DispatchBoard_desk` | `DispatcherBoardV3.jsx:368-369`: signing out within the six seconds |
| `RetryMayUseProof`, `PrepaymentWithinTotal`, `ProofMatchesFile` (two files), `EditStartsFromServer`, `OneCustomer` | `WebPages_all` | `CreateOrder.jsx:183-184` and `orders/service.go:808-816`, a refused order quarantines the upload; `orders/service.go:1704`, the prepayment given at creation is in no sum; a file chosen while another uploads; `EditOrder.jsx:286-288`, filled in from the list; a refused order leaves its customer |

The passing runs leave out exactly the operation that breaks their property, by
a constant (`Counts`, `MayCrash`), or make it an exception by a history variable
(`trouble`, `doubt`, `revived`, `reopened`), and say so: `NeverOverpromised`
holds as long as stocktakes count no less than is there, `BlockedIsHeld` without
crashes between connections, `OneLiveHandover` but for handovers that came back
to life and orders reopened for another courier, `DebtIsBalance` for couriers
without such handovers, reopened orders and manual entries accepted with another
amount (a manual entry confirmed by `UpdateHandover` with other money than was
entered does move the debt by the wrong sum).

## Proofs

Each theorem holds for every value of the constants that its module's
assumptions allow.

| Theorem | Says | Invariant, and why it takes one |
|---|---|---|
| `OrderFlow_proofs`: `TypeCorrect`, `CacheIsTheAssignment`, `NoZombies`, `PostsOnce`, `LockedReadsStand`, `LockedOrdersRest` | the run's invariants and action properties | `IInv`, below |
| `CashHandover_proofs`: `OneLiveHandoverEach` | no order in two live handovers, for any number of decisions between their read and their write and all operations of the office, but for the two exceptions by name | `RowsOK` (what a desk read has the courier, the orders and the total of the row, if not its status), `OnePhone` (the advisory lock), `HisOrders` (its orders were delivered by its courier, unless reopened), `StillEligible` (what a submission found is in no handover that was live ever since), `Apart` (no two of those share an order of one courier) |
| `DebtIsTheBalance` | the debt a courier is shown is the balance of what he owes and what was accepted, under the same conditions | the same with `AllBooked`: a submission's total is the dues of its orders |
| `OrderStock_proofs`: `ServedFromOwnStock` | an order draws on the main pool or its own courier's goods | `PlacesOK`, `NoLineIsMain`, `ReadIsNear` (what a transaction read is where the items are or were), `AbsentIsEmpty`, `TransfersOK` |
| `StockTypesHold`, `NothingPromisedTwice` | the types; no place promises more than it has, if no stocktake finds less than is promised | the same with `StockTyped`; `NeverOverpromised` itself is kept by every step from there |
| `AcceptedGoodsAreFree`, `GoodsLeaveTheBooksOnce` | accepting a transfer ties up nothing that was free; the total of all places changes by first deliveries, approved losses and stocktakes alone | the same; `QtyStep`, `DeliveryStep`, `DecideStep` say which steps change a quantity and which, `TotalFalls` and `TotalStays` what that does to the sum |
| `BlockedIsWaitedFor` | without crashes inside a loss report, blocked goods are those in open documents, to the piece | `Held`: the blocked goods are sums over all slots, so that the clamp at zero never acts |
| `BackOffice_proofs`: `WithdrawalsDecidedOnce` | the refinement of `DecidedOnce`, for any requests, presses, failures and crashes | `RequestsOK`: a request has a row exactly when its form got that far |
| `KeysPayOnce` | any keys, amounts and number of requests | `LedgerOK`: of all requests that found no batch of their key one inserts it |
| `FiledDocumentsStay` | any applications, reviews and owners | `HireInv`: `Submitted` (how far the submission is, given the application), `Heard` (what a review knows still holds) and `OneFiles` (one review files a document) |
| `FirstVerdictStands` | any settlements, amounts and reviews | `ReadRight`: what a review has read is the settlement, unless it was decided since; an edit has read a decided one |
| `CourierPhone_proofs`: `TransfersDecidedOnce` | the refinement of `DecidedOnce` | goods counted against accepted transfers |
| `SheetHandedInOnce` | any amounts, photos, presses, decisions and lost answers | `TillOK`: a sheet that is not being answered was taken no more often than answers were lost, and every sheet before it once more at most |
| `SessionStays` | any number of pairs, while nothing goes wrong | `Level` (the pairs up to the last were issued), `Pair` (which of the two items is behind, at each step of a refresh), `SignedIn`, `RetriesServed` (a request is sent again with a token the server takes) |
| `DispatchBoard_proofs`: `HiddenIsCancelling` | any orders, any number of held-back cancels | each batch has the orders it was made with, and no order is in two |
| `OwnMovesAreShown` | any orders, presses, bulk presses, losses and polls | `RowsOK`, `JobsOK`, and while nobody else moves an order `ListsTrue` (a list that is not asked for again, nor will be when a press settles, has the server's rows) and `DeliveriesOnly` (the delivered list has only rows of deliveries, of before perhaps, and none of an order that is returned by now) |
| `WebAdmin_proofs`: `LockStopsReuse`, `LockKeepsTheSession` | any number of tabs, requests and pairs, with every access of the lock a step, while nothing goes wrong (a lost or late call, a reload, tabs that cross) | `Locked`: who has read the lock back still owns it and nobody is about to write over it, and who waits for a pair to be replaced waits for a tab that replaces that pair; `TabOK` and `Settles`: what a tab presents is the stored pair, which is the newest unless a refresh is amid its work |
| `NothingOrderedTwice` | any files, uploads, retries and orders | `FillsKnown`, `OrderedIsGone`: what was ordered and is not in doubt is neither in the form, nor in the draft, nor in a submission |
| `UntouchedEditIsIdentity`, `ShownTotalIsStored` | any products, prices, carts, and fees that stay as they are | `IsStored`: every copy of the order is stored again as it is, with the same rounding and the same fee; a form without changes is one of them |
| `OfficeOrdersOnce` | any number of office orders | a fill in the form was ordered only by submissions whose answers were lost |
| `ReadIsNamed` | any last day and any start of the month, on every page | `PeriodOK`: the range is empty, open at its end, or in order, each as the page's control can make it; what is drafted is a range the control would hand on |
| `ListsStayInRange`, `LedgerFiltersAgree` | any filters and pages; any order of taps | the total shown belongs to the filter that is set |
| `TypedOnceMadeOnce` | any number of openings, drafts, submissions and lost answers, for every dialog of the code but the `Repeats` | `Once`: `HastyOnce` or `PatientOnce`, below |
| `TypedTextStays` | the same, for every dialog but the `Hasty` and the `Refilled` | `Typed`, and what the table says of the dialog (`Keeping`) |
| `OwnChangesAreShown` | every dialog beside every list of its pages, but the `Forgotten` pairs; any number of openings, losses and versions, with the one submission `Desk` has beside a list | `Current`: a list that is not being fetched has what this client was told, or is marked and not shown; what a fetch brings is no older |

`IInv` of `OrderFlow` is the conjunction of the type invariant, of
`CacheMatchesAssignment`, `OpenOrdersFree`, `ReadsStandUntilCommit` and
`PostedOnce`. `NoZombieOrder` alone is not inductive: an assignment commits
without looking again, so that it keeps the other conjuncts only because what it
read still stands, and it still stands only because every other writer asks
whether the order is locked. `OpenOrdersFree` strengthens `NoZombieOrder` with
orders that do not exist yet, which have no holder for `Create` to inherit, and
with the fact that an order nobody prepays has no prepayment to verify.
`LockedOrdersRest` follows from `ReadsStandUntilCommit`, which says two
transactions never have the same order. Every proof has one step per action;
the five roads into `changeStatusInternal` share a lemma.

The dialogs. `DoneOnce` is not inductive: that nothing was done twice yet says
nothing of what is on its way. Of a dialog that waits for its answer
`PatientOnce` adds that no two submissions of one thing typed are out, that the
dialog knows of the one whose text it still has (so that its button is off), and
that text which is in the fields with nothing out was done no more often than
answers were lost. Of one that empties its fields as it sends them `HastyOnce`
adds that one submission has the text, and the fields do not. The behaviour of
`Desk` is proved from rules on a dialog's row of the tables: `Careful` (it is
guarded, it does not forget a submission whose text it keeps, it adds with its
last request and an answer it hears empties it) and `Renewing` (the keys of a
request's answer begin the key of each list that the request changes). Then each
dialog is looked at once: `DispatchRules`, `StockRules`, `PeopleRules` and
`MoneyRules` say it is `Careful` or named among the `Repeats`; for each app
`…Reads` says what its lists read, and `…Renew` that every dialog there renews
them or is named as `Forgotten`. A dialog whose `invalidateQueries` lost a key
(`EditFinanceExpenseForgets`) fails at its own step of `OfficeRenew`.

Sums. `NeverOverpromised`, `BlockedIsHeld`, `GoodsLeaveOnce` and `DebtIsBalance`
speak of sums over orders, slots and handovers, which the models take with the
folds of the community modules. What such a fold is follows in `Sums` by
induction over finite sets, in the form of a set of numbers for which a
statement holds (`NatSetInduction`, `FiniteSetInduction`), since no theorem with
an operator for a parameter can be used. From a fold that is chosen
(`FoldExists`, `FoldsAgree`) come the facts the proofs use: a sum is its value
at any one member plus the sum over the rest (`SumTakeOut`), it changes with one
value (`SumChange`), two values may trade (`SumMoves`), sets without a common
member add up (`SumUnion`), and members that count for nothing may be left out
(`SumWhere`). The share of a transfer that each order gets (`Left`) is a function
of the orders before it, so its proof is an induction over their number.

Two of the proofs changed a module. `OwnMovesShow` was not provable: two bulk
presses that were out together settled as one in the model, where each renews
the lists by itself, and an order delivered, moved back and delivered again
stands in the delivered list as it was the first time; the settlement is now by
press, and the property says what the delivered list may show.
`GoodsLeaveOnce` is now the action property `GoodsMove` under a box, which
is the same for TLC.

Assumptions are the named ones of the modules: NULL is no courier and no order,
prepaid orders are orders, bounds are natural numbers, NULL holds no lock;
couriers, slots and orders are finite sets (`RowsAreFinite`, `OrdersAreFinite`),
NULL is not a document (`NobodyIsNoRow`), the lists of the board are of statuses
(`ReachIsStatus`), cash is a natural number and no submission is NULL
(`CashIsNat`, `IdleIsNull`). The theorems about `CashHandover` have no other
hypothesis: what is excepted stands in the properties, as history. The other
hypotheses stand in the theorems:

* `CountsCover` in `NothingPromisedTwice`, `MayCrash = FALSE` in
  `BlockedIsWaitedFor`: needed, by the refutations of the two properties above;
* `MaxToken` is at least one in `SessionStays`, since the first login issues a
  pair; the carts an order starts with are sequences in `UntouchedEditIsIdentity`
  and `ShownTotalIsStored`, whose module is only instantiated;
* the dialogs and lists are among those of the tables (`Cases`, `Fills`, and
  `NoQuery` is no list of theirs) in the three theorems about `Desk`.

Only model-checked:

* liveness, and anything with ENABLED: `RequestsSettle`, `QueuedIsServed`,
  `ScreenSettles`, `ScreenComesToRest`, `CancelHonoured`, `RequestsEnd`.

Every invariant and every action property of the passing runs is stated by a
theorem, for the specification of its module; what the runs compose (`MCSpec`:
one part after the other) stays with TLC.

The `TypeOK` of modules other than `OrderFlow` and `OrderStock` is
documentation, checked while the module was written.

## Not modelled

`PROJECT.json` lists every component with its reason. In the modelled ones:

* orders, couriers, cash: media proofs attached before the transaction, the
  five-second window of unclaim at the server (a give-back may come at any
  moment; `CourierApp` has the window), bulk operations (loops of single ones),
  soft deletion, products other than the one followed, FEFO batches and FIFO
  lots behind the quantities, notes and scheduling;
* budget: the ledger's other rows and `balance_after`, whose snapshots race;
* payouts: several members in a batch, pharmacy income, roles; the resolution
  of rates;
* media: image processing, variants, and the purge, whose list of at most 500
  candidates never shrinks when none of them can be deleted;
* clients: validation and the contents of fields, dashboards and product views,
  notifications, the loss form and the profile of the courier app, chips for
  amount, person and order, the redirect by role after a log-in.

Small things noticed on the way and modelled as they are: a comment typed for
one order is kept for the next; panels that await without a catch keep their
spinner; `EditEmployeeModal` writes back the whole person; "Показать ещё" of the
history replaces its rows; a typed 0 confirms a handover in full; typed dates
are not swapped.

## Plan

Done: `OrderFlow`, `OrderStock`, `CashHandover`, the two clients, the back
office, and the theorems above. Left, in order of importance:

1. An abstract `Custody`: an order is with nobody or with one courier, and goods
   and cash change hands once. `OrderFlow` without prepaid orders refines it.
2. `Inventory`: FEFO batches and the movements behind the pool, corrections of
   receivings and write-offs; `CourierLots`: the FIFO lots of a courier.
3. `Pharmacy`: allocation of payments, credit, corrections; the purge of media.
4. `ConnectionPool`: transactions that need a second connection (`GetNetProfit`
   inside an approval is one more); deadlock, and under weak fairness of release
   the liveness that a pool large enough gives.
5. `Commission`: the pure rate resolution against a reference definition.
