# Casivon in TLA+

Casivon is a business suite: an Axum service over PostgreSQL (`src/backend`) and
a React client (`src/frontend`). This directory holds a formal model of the
parts of the service where documents, stock and money have to agree, the TLC
runs that check it on small instances, and TLAPS proofs of what holds for every
size.

## How the service works, as far as the model goes

Every request is one async handler on a multi-threaded runtime. A handler calls
use cases, a use case calls repositories, and a repository call is one SQL
statement or one transaction. Nothing is locked *between* two repository calls
of the same handler, so any other handler may run there; and when the client
goes away the runtime drops the handler where it stands. There are no
background jobs and no retries inside the service: what a dropped handler had
left to do is done only if somebody asks again.

This gives every module below the same shape. A *slot* is a handler in flight.
Its `step` names the repository call it makes next; its other fields are the
locals it carries from one call to the next. Reads that begin a handler are one
step, and each write is a step. `Abandon` drops a handler anywhere.

## Inventory

| Component | State | Operations | What is hard | What makes it correct |
|---|---|---|---|---|
| Sales orders (`sales`) | `sales_orders`, `sales_order_lines` | create, update, set_status, delete, convert_to_invoice | status checked in one transaction, written in another; holds taken and released in a third | an order's status, its hold and its invoices agree |
| Sales invoices (`sales`) | `invoices`, `invoice_lines` | create, update, set_status, delete | shipping before the status write, posting and returning after it | goods are out exactly while the invoice is issued; no unit billed twice |
| Payments (`sales`) | `payments`, the invoice's `amount_paid`, `amount_due`, `status` | record_payment, delete_payment, mark_overdue | a balance read before the insert; a settlement written from a stale read | columns equal the ledgers; never more than is owed; a closed invoice stays closed |
| Credit notes (`sales`) | `credit_notes`, lines | create | a cap read before the insert; stock and settlement after it | never more credited than invoiced |
| Quotes (`sales`) | `quotes`, lines, `sales_orders.quote_id` | create, update, set_status, delete, convert_to_order | an edit written whole while the customer accepts; two conversions | one order per quote, made of what was accepted |
| Stock levels and reservations (`inventory`) | `stock_levels`, `stock_reservations` | apply_movements, reserve_for_order, release_order | several documents after the last units; a cascade behind the repository's back | promised never exceeds on hand; every row is counted in its level |
| Stock dispatcher (`inventory`) | the dispatch warehouse (`organization_settings`) | order_confirmed, order_released, invoice_issued, invoice_cancelled | the setting changes between a document's two halves | what came back had gone out |
| Stock use cases (`inventory`) | `stock_movements` | record_movement(s) | a movement committed and not posted | every movement is posted once |
| Costing (`inventory`) | `products.average_cost` | moving_average, average_after_removal, apply_costed | on hand summed before the lock that guards the average is granted | a movement changes the value of the stock by what it was worth |
| Purchasing | `purchase_orders`, receipts, returns, vendor payments | create, update, set_status, receive, return, pay | the same races as sales, in mirror image | never more received than ordered, nor returned than received |
| Posting (`accounting`) | `general_ledger_entries`, `accounts.base_current_balance`, posting mapping | post_with, reversals, post_unposted | keyed idempotence, a mapping that changes, crashes between document and posting | each document posted once; a reversal undoes what was posted |
| Journal and accounts (`accounting`) | the same, entered by hand | create, delete, recalculate | balances kept incrementally | balances equal the entries |
| Sessions and accounts (`auth`) | users, reset and verification tokens, revoked tokens (Redis) | register, verify, login, refresh, logout, change, forgot, reset, set_user_role, set_user_status, update_profile | tokens checked before the account changes; rows written whole; roles carried in tokens | no session survives what ended it; one link, one password; somebody administers |
| HR | employees, leave requests, expense reports | create, update, decide, set_status, delete | whole rows written from stale reads; a balance read before the approval | never more leave than entitled; an approved report is not edited |
| Attachments (`files`) | `attachments`, objects in S3, the receipts on expense lines | upload, download | bytes before row, row before claim | a claim names receipts that are there and are its own; a link goes to whoever may read |
| Projects and tasks (`projects`) | `projects`, `tasks`, `time_entries` | create, update, set_status, delete; log, change and remove hours | progress and hours derived after the row is written; a walk that looks for loops before the write | tasks are trees; progress and hours are what they are derived from |
| Chart of accounts (`accounting`) | `accounts.parent_id`, `is_active` | create, update, delete | the same walk; entries made while an account is closed | an account with entries stays; the tree shows every account |
| Money and exchange rates (`shared`, `settings`) | `fx_rates`, the rate and base columns of every document | round_money, to_base, calculate_line; rate_on, upsert, delete | every document rounds on its own, at its own day's rate | cents agree up to the halves rounded away; the gains are those of the payments on file |
| Settings | `organization_settings` | update | the dispatch warehouse above | - |
| CRM, search, products, warehouses, bills of materials | single rows | create, update, delete | nothing across rows | - |
| Mail, pagination, OpenAPI, web client | none, or derived | - | - | - |

Interactions: sales asks `StockDispatcher` to hold, release, ship and return;
the dispatcher asks `StockUseCases`, which asks the stock repository; sales,
purchasing, HR and stock hand what happened to `DocumentPoster`, which writes
the ledger. All of them are plain awaited calls in the handler's own task. The
other modules share tables rather than calls: an expense claim names attachments,
a sales order names its quote, a journal entry its accounts, and foreign keys
between them refuse what would leave a name without its row.

## Modules

### Shelf

The stock rows of one product. `onHand`, `reserved` are `stock_levels.quantity`
and `.reserved_quantity`, `held` is `stock_reservations` (a line has at most one
row: `UNIQUE (order_line_id)`). Every action is one transaction of
`PgStockRepository`; it locks the rows it decides on first, so it is one step:
`Reserve` (reserve_for_order), `Ship` (apply_movements with a release),
`Remove`, `Receive`, `Transfer` (apply_movements without), `ReleaseOrder`
(release_order), and `CascadeHold`, the `ON DELETE CASCADE` of migration 023
that removes a row and leaves the level. Shelf is also the abstract
specification that Fulfilment is shown to implement.

### Fulfilment

Orders, invoices and the shelf. `order` and `invoice` are the rows with their one
line; a line is identified by its order and by how often the order's lines were
replaced, which is what deleting and inserting them amounts to. `dispatch` is the
dispatch warehouse, if any. One action per repository call:

| Handler | Actions, in the order they run |
|---|---|
| `OrderUseCases::create` | `CreateOrder` |
| `::update` | `ReadOrderToUpdate`, `ReleaseBeforeUpdate`, `WriteOrder`, `HoldAfterUpdate` |
| `::set_status` | `ReadOrderToSetStatus`, `WriteOrderStatus`, `HoldConfirmed` or `ReleaseCancelled` |
| `::delete` | `ReadOrderToDelete`, `DeleteOrder` |
| `::convert_to_invoice` | `ReadOrderToBill`, `CreateInstalment` |
| `InvoiceUseCases::create`, `::update`, `::delete` | `CreateInvoice`; `ReadInvoiceToUpdate`, `WriteInvoice`; `ReadInvoiceToDelete`, `DeleteInvoice` |
| `::set_status` to sent | `ReadInvoiceToSend`, `ShipInvoice` or `RefuseShipment`, `WriteSent`, `ReadToAdvance`, `AdvanceOrder` |
| `::set_status` to cancelled | `ReadInvoiceToCancel`, `WriteCancelled`, `ReturnGoods`, `ReleaseToRehold`, `Rehold` |
| stock by hand, settings | `StockIn`, `StockOut`, `SetDispatch` |

`Pay` stands for everything that moves an issued invoice between sent and paid;
`FailRequest` is a call on a row that no longer exists. `shipped` is a history
variable: what left for an invoice less what came back.

### Settlement

One invoice, its payments and its credit notes. `status`, `amountPaid`,
`amountDue` are the invoice's columns; `payment` and `note` are the two ledgers.
`ReadToPay`, `InsertPayment`, `ReadPaid`, `ReadCredited`, `WriteSettlement` are
record_payment and resettle; a reversal and a credit note run the same last three
steps. `DayPasses` and `MarkOverdue` are the due date and the list query that
acts on it. An amount is a whole number of the smallest coin, and a line charges
one per unit, so a cap on quantities is a cap on amounts.

### PostingRules, Ledger and Posting

`PostingRules` is `domain/posting.rs`: for each kind of document, the *legs* it
posts, a leg being the two roles it debits and credits and an amount. The roles
are the code's twelve; `Complete` and `Perpetual` are the two conditions on the
mapping that switch posting and perpetual costing on. What a document is worth
(`Worth`) is given, in the base currency.

`Ledger` is the books: `posted` are the rows of `general_ledger_entries` that carry a
posting key, `written` those of the journal form, `balance` the balances kept on the
accounts. Each operator is one transaction: `Post` (insert on conflict do
nothing, and adjust for the rows that went in), `WriteByHand`, `RemoveByHand`,
`Recalculate`, `Retype`.

`Posting` puts handlers around them. A slot holds the list of calls a handler has
still to make, in the order its code makes them; that list is where the handlers
differ:

| Handler | Calls |
|---|---|
| invoice to sent | record the movement, write, plan and commit |
| invoice to cancelled | write, plan and commit the mirror, record the movement |
| payment recorded; deleted | write, plan, commit; plan and commit the mirror, write |
| credit note, goods receipt, purchase return | write, apply the movement, plan, commit |
| expense report approved, reimbursed | write, plan, commit |
| stock moved by hand | record the movement |
| repair | read what is outstanding, plan and commit each, report |
| journal entry written, deleted; recalculation | read, write |

Recording a movement (`record_movements`) posts it, applying it
(`apply_movements`) does not. `PlanPosting` reads the mapping and derives the rows,
`CommitPosting` writes them. `lost` is a history variable: the documents of which a
posting, or a posting of goods, was dropped or skipped and not made up for.

### StockTransactions

What Shelf takes for single steps, statement by statement. The variables of Shelf are
here the rows as last written, `committed` the rows as everybody else reads them,
`holder` who has locked which row, `average` the product's running cost. A
statement that needs a row another transaction holds waits (`Lockable`); of two
that wait for each other the database ends one (`EndDeadlock`); ending early, or
being dropped, puts the rows back (`RollBack`).

| Transaction | Statements |
|---|---|
| apply_movements, with a release | `ReleaseLine`, `GiveBack`, then as below |
| apply_movements, goods going out | `Check`, `SumOnHand`, `MoveAverage`, `AdjustLevel`, for a transfer `AdjustDestination`, `Commit` |
| apply_movements, goods coming in | `SumOnHand`, `MoveAverage`, `AdjustLevel`, `Commit` |
| reserve_for_order | `LockToReserve`, `InsertHold`, `Commit` |
| release_order | `ReleaseLine`, `GiveBack`, `Commit` |
| the orders' own cascade | `LineDeleted` |

`SumOnHand` and `MoveAverage` are one SQL statement in the code. Under READ COMMITTED
it takes its snapshot when it starts and then waits for the product's row; the
subquery's rows are not locked and not read again, so what it has summed may be
old by the time it goes on. The comment at stock_repo.rs:252 has the row lock
serialise the whole computation.

### Requests, and the modules over it

`Requests` is what the handlers of the following modules have in common: slots and
their steps, `Begin`, `Continue`, `Finish`, `Abandon`, and `Happens` for what takes one call or
comes from outside. An *agenda* is the set of requests and events a behaviour is
about; whether requests may overlap (`"overlap"`) or be dropped (`"client.drop"`) is
part of it. `disturbed` is a history variable, and `InTurn` its negation: no two
requests have run at once so far and none was dropped.

- **Purchasing**: one order, its receipts, returns and payments to the vendor,
  over Shelf's `Receive` and `Remove`. Receipts and returns are inserted, with the
  counter and the status derived from what was read, and their goods move in a
  transaction of their own (`InsertReceipt`, `MoveReceived`; `InsertReturn`,
  `MoveReturned` or `RefuseReturn`); payments are followed by `ReadVendorPaid`,
  `ReadReturned`, `SettlePurchase`. A return may name the order's line more than once:
  what arrived is compared with the sum of them, the shelf with each (`most` is the
  largest), so its movement may be refused after it was filed, with nobody else about.
  `arrived` and `left` are what moved, `refused` the units on returns that the shelf
  refused.
- **Quotes**: one quote, edited, decided, deleted and converted (`ReadQuoteToConvert`,
  `ReadQuoteLines`, `InsertConverted`), and the orders that name it, which may also be
  entered by hand.
- **Sessions**: one account's password and epoch, the refresh tokens of its sessions,
  the denylist in Redis and the reset links, with a clock that ticks twice a second
  because expiries are whole seconds and requests are not. `Verifies` is the token
  library, which accepts a token for a leeway past its expiry.
- **Users**: who registers, verifies, administers. An update of a row writes role,
  status and verification as they were read; access tokens (`badges`) carry a role
  that is not looked up again.
- **Leave**: an employee and the requests for leave on file, on a calendar of two
  years. What is left of the entitlement is summed when it is needed.
- **Expenses**: a report, written whole, and what is posted for it.
- **Attachments**: an upload (`BeginUpload`, `Put`, `InsertRow`), claims that name
  uploaded receipts, and downloads (`ReadRow`, `FindOwner`, `SignLink`).
- **Trees**: rows that name a parent among themselves and the walk, of bounded
  length, that `assert_no_cycle` makes; **Projects** and **Chart** use it.
- **Projects**: a project, its tasks, the hours on them. `ReadProgress` and
  `WriteProgress` derive a project's progress, `SyncHours` and `StoreHours` a task's
  hours. The latter are one SQL statement; as in `SumOnHand` above, what it adds up is
  of when it began, and it waits for the task's row after that.
- **Chart**: accounts opened, moved, closed, taken out of use, and entered.
- **Amounts**: what one order's invoices, credit notes and payments are worth, in cents
  and in the organisation's currency: `LineAmounts` prices a line, `ToBase` restates,
  `Settled` are the base columns, `books` the entries. A document is one step there, for
  its steps are taken apart in Settlement and Posting; `Resolved` is the rate of its date,
  and the deletion of a rate reads first whether it may (`ReadToDeleteRate`, `DeleteRate`).

### Service

All of these together: each part's steps leave the rows of the others alone, a
dropped handler ends its transaction (`Dropped`), and what Purchasing does to the
shelf in one step is one committed transaction, which waits while another one holds a
row of the product (`AtOnce`). So the committed rows of the whole service change by
steps of Shelf only.

### The modules of proofs

| Module | Over | What it is about |
|---|---|---|
| `ShelfProofs` | Shelf | what no transaction of the shelf can break |
| `Sums` | the community modules | what a sum over a finite set comes to |
| `FulfilmentProofs` | Fulfilment, ShelfProofs, Sums | documents drive the shelf by its transactions; holds follow lines; what holds of orders, billing and goods when requests do not overlap |
| `SettlementProofs` | Settlement, Sums | which status of an invoice may never change; what it says of its payments and notes |
| `PostingProofs` | Posting, Sums | what is posted stays; balances are what the entries add up to; the repair leaves nothing out; what each document comes to on its control account |
| `ValuationProofs` | PostingProofs | what the Inventory account carries is what the stock is worth |
| `HandlersProofs` | Service, ShelfProofs | stock transactions whose statements interleave are steps of Shelf; each part moves only handlers of its own; the whole service drives the shelf by the transactions of Shelf |
| `ServiceProofs` | HandlersProofs, Sums | sessions, sign-out, reset links, administrators, expense reports, quotes, receipts, purchased goods and their payments, leave, the chart of accounts, projects |

## Runs

Every run with `expect: pass` ends with no error over its whole state space.
Deadlock is not checked: the bounds on ids and stock let a run end with nothing
left to do, and no handler of the service waits for another.

| Run | Asks | Instance |
|---|---|---|
| `service` | do the parts that share the handlers keep their rows, documents and books in agreement; is every transaction of the stock repository one step of Shelf | 28 agendas, see below; 2 slots |
| `sequential` | do orders, invoices, shelf and holds agree when one request runs at a time; does a cancelled order give its goods back, for good | 1 order edited once, 2 invoices, quantities to 2 |
| `together` | do holds follow the lines of an order edited, confirmed, deleted, billed and shipped at once; is every step of the handlers a transaction of Shelf; do the levels count what the rows hold when requests are dropped but do not overlap | 1 order, 1 invoice, 2 slots, drops, dispatch switched on and off |
| `settled` | do an invoice's columns and status follow its ledgers; can settling ever issue a draft | total 2, 2 payments, 2 notes, 2 slots, drops |
| `posted` | do balances, control accounts and the Inventory account follow the documents; does the repair leave anything out | a document of each kind, 3 requests, 2 slots, drops, three mappings |

`together` leaves out the requests that only rewrite or delete an invoice: they touch no
stock row, and the theorems about its two safety properties include them. Of the
behaviours in which no two handlers are ever in flight at once (`OneInFlight`) it asks
for `ReservedIsHeld`, dropped requests included (`ReservedInTurn`); of the others nothing
is claimed, and `leaked` shows one where it fails. TLC warns of symmetry where temporal
formulas are checked; here none of them assumes fairness or tells one slot from
another, the run without symmetry, twice as large, ends the same way, and
`ReservationsExact` proves the formula.

In `posted` the mappings are perpetual, periodic and off: the accounts themselves
do not change, only whether there are any; the run `mirrored` shows why. `BooksAgree` is
conditioned on `disturbed`, the three ways in which the code lets a balance go wrong
until it is recalculated: a type changed under it, an entry deleted twice, a
recalculation that a posting ran into. `ControlsAgree` leaves out documents in `lost`
and in `contended`: those two handlers worked on at once, and those of which a
handler and the repair, having read different mappings, posted a part each.

`service` explores each agenda of MCService from the same initial state. They are
chosen so that every request of a part meets every other of that part it shares rows
with, and small enough each to end: `Stock` is Shelf alone; `Goods`, `OrderEdits` and `Vendor` are
Purchasing; `Holds`, `Lines`, `Shelves`, `Costs` and `CostsInTurn` are StockTransactions, the last
two with costs; `Quotes`, `Password`, `Reset`, `Links`, `SignOut`, `Users`, `Registration`, `Leave`,
`Staff`, `Expenses`, `Files`, `Edits`, `Tree`, `Progress`, `Hours`, `Chart`, `AccountTree`, `Amounts` and `Rates` are
the parts they name. Those without `"overlap"` run one request at a time, and there
all the parts of a property are checked; with it, the parts that hold whatever
overlaps. Agendas of different parts are not mixed: the steps of one leave the rows
of the others alone by the form of `ServiceNext`, so a mixture would only multiply
states.

What holds only in turn is stated after `InTurn` and was checked to be needed:
without it, and with `"overlap"` added to the agendas that lack it, TLC finds two
deliveries that receive the same units, a return whose goods are sold between its check
and its movement (one that names a line twice may be refused in turn as well, and the
properties say so), hours of a task added up before another entry and stored after it, a token of the new epoch handed to whoever knew the old
password, two administrators who demote each other, leave approved twice, an edit
and an approval of one claim that overwrite each other, two orders of one quote, two
tasks or accounts that hang under each other, progress of tasks that have changed
since it was read, a link to a file whose claim is gone, a currency in use left without a rate, and
two deliveries that each average over what was there before either.

In `settled` too `disturbed` says whether requests have overlapped or one was
dropped so far: the properties that no code keeps then are
stated of the behaviours where neither has happened, the others of all.

The bounds: two units let a line be held, billed or shipped in part; two
invoices let it be billed in instalments; two line identities let it be replaced
while it is held; two slots are every pairwise race. Stock received by hand is
bounded by `MaxOnHand`, an instance's largest promise plus one or less. In `service`
one order, quote, account, employee, report or project is enough, for nothing in
the code relates two of them; two tasks and three accounts are what a loop takes;
two tokens are a session and its continuation; three days are a working day, a
weekend and another year. `MaxHops` is how far the code walks up a tree: 64 rows there,
3 here, more than a tree of two tasks or three accounts is deep (what becomes of deeper
ones is in the theorems below). Costs are 2 and 5, so that averages need rounding. A
sale is of two units at 4 cents, less a tenth, plus a half: one unit comes to 6 and both
to 11, so instalments and credits round away from the whole; rates are 1.1 and 1.5. The
invoice of `settled` charges 2; of a total of zero, which the theorems include, the
same configuration was checked once.

Each property has a mutant: a change of one definition, like the variants named
`Variant` in the modules, under which the same run fails.

Seven runs expect a violation: each states what a comment, a test or the README says
and shows a behaviour of the code that does otherwise.

- `overheld`: cancelling one instalment holds the whole line again, so an order
  can be shipped in full and still hold stock.
- `rebilled`: editing a draft instalment loses its order line, which can then be
  billed again.
- `leaked`: an edit that read a draft deletes the lines of an order confirmed
  since, and the level keeps counting what they held.
- `returned`: a return that names one line twice passes the check of the shelf, line by
  line, and is filed; its movement then refuses the sum, where
  tests/atomic_stock.rs:306 has a refused return create no document.
- `cents`: instalments add up to their order only to the cent each rounds away, where
  sales/application/use_cases.rs:677 has them add back up to it; and what is paid and
  due of an invoice, restated to the organisation's currency one by one, misses its
  total by a cent, where :1652 has them always reconcile. `CentsAddUp` says that one of
  the two comments is right, and the run ends in a state in which neither is.
- `mirrored`: an invoice cancelled after the receivables role was given another
  account is mirrored on that account, and both keep a balance.
- `unrepaired`: a credit note posted by the repair has no stock leg, and the
  movement the comment leaves it to posts nothing.

The conditions under which the other properties are checked are needed too. Each
of the following is a behaviour TLC finds when the condition is dropped:

- two slots: `BilledWithinLine` fails when two conversions read the same
  outstanding quantity; `CancelledStaysCancelled` when a status is written over a
  cancellation made since it was read; `GoneMeansGone` when an order is marked
  shipped while its invoice is being cancelled;
- a dropped request: `IssuedMeansShipped` fails between shipping and the status
  write, and repeating the request ships again;
- a dispatch warehouse chosen between issuing and cancelling an invoice:
  `IssuedMeansShipped` fails, for goods come in that never went out;
- `~disturbed`: without it a payment exceeds what a credit note left of the
  invoice (`PaymentsFitTheBalance`), two notes credit the same units
  (`LedgersFitTheInvoice`), a settlement reopens an invoice cancelled since it
  was read (`CancelledIsClosed`), and of two settlements that read in one order and
  write in the other the older sums stay in the columns (`Settled`), where
  sales/application/use_cases.rs:1371 has them never drift away.

### Fairness

`CancelledLetsGo`, in `sequential`, is the liveness property. The run assumes weak
fairness of each slot's next call, which the runtime gives: a ready task is
polled, and a database call returns. It does not assume that anybody sends a
request. It has one slot and nobody drops requests: with two slots the hold and
the cancellation race, and a dropped request leaves its release undone.

## Proofs

The theorems hold for every value of the constants: any warehouses, orders, invoices,
payments and handlers, any bound on quantities. What they assume of the constants is
named in the modules and evaluated by TLC in the runs: there are finitely many lines,
orders, invoices, handlers, payments and credit notes (`LinesAssumption`,
`FiniteAssumption`, `LedgersAssumption`) and finitely many warehouses
(`WarehousesAssumption`), the total of an invoice is a number, zero included
(`TotalAssumption`), the names for nothing are
no names of anything (`NoWarehouseAssumption`, `NamesAssumption`, `NoIdAssumption`, `RowsAssumption`: no
two rows of the database are one), the lines in stock are lines (`StockLinesAssumption`),
and the bound on quantities is a number (`MaxQuantityAssumption`). Of Posting they assume
that there are finitely many documents and journal entries (`StartAssumption`,
`JournalAssumption`), that what documents are worth is not negative but for what the
rate did (`WorthAssumption`: amounts stay positive, posting.rs:223), and that mappings
and the entries of the journal form name accounts (`MappingsAssumption`,
`HandRowsAssumption`). Two theorems assume something besides of how the administrator
fills the mappings. `ControlsStayExact` assumes that the control accounts are kept
(`ControlsKept`): every complete mapping gives the receivables, the payables and what is
owed to employees the same accounts as any other, and gives those accounts no other role.
`StockStaysValued` assumes that the stock is kept on one account (`StockAccountKept`): it
is the Inventory account of every mapping under perpetual costing, and no complete
mapping gives it another role. Goods left on an account that is Inventory no longer are
goods the valuation does not find. The mappings of the run `posted` meet both
assumptions; those of `mirrored` give control accounts a second role, and there they are
not claimed to agree. Of
Purchasing and Leave they assume that there are finitely many vendor
payments and leave requests (`VendorPaymentsAssumption`, `LeaveIdsAssumption`); of Chart
and Projects, that the name for no parent is that of no account and no task and that
there are finitely many tasks and time entries (`AccountIdsAssumption`,
`TaskIdsAssumption`, `EntryIdsAssumption`).

**Shelf.** `ShelfProofs` proves `ShelfTypeOK`, `NeverOversold`, `HoldsCovered` and
`HeldGoodsCanShip`. The argument is one invariant, `ShelfInv`, the conjunction of the
first three. `NeverOversold` alone is not inductive: a release lowers a level by what
its row holds, and only `HoldsCovered` says that the level counts that much (otherwise
the clamp at zero would hide units other rows hold). `HoldsCovered` speaks of the
number of units held, so the proof first shows how that number changes when one
row is written (`UnitsSplit`, `OneRowWritten`); then there is one lemma per
transaction. `HeldGoodsCanShip` follows from the invariant. `ExactCount` says why
`HoldsCovered` is no equality: every transaction but the cascade leaves the number
of units that a level counts and no row holds as it is.

**Transactions implement Shelf.** The first part of `HandlersProofs` proves
`TransactionsAreSteps` of `TransactionsSpec`, the stock repository's statements with
the handlers that may be dropped between them. The run `service` checks the same
formula with the other parts beside it. The invariant, `TransactionsInv`, follows each
transaction by its step: a row is written by one transaction at most; where nobody
has written it is as committed; where one has, it is what the statements made so far
make of the committed row (`LineReleased`, `Moved`, ...), and what was decided under a
lock (that the units are there, that the row to be released holds as much) is still
so. When the transaction commits, the committed rows change by what one step of
Shelf does to them (`MovementCommits`, `ReleaseCommits`, `ReservationCommits`); every
other statement leaves them alone. With `ShelfProofs` it follows that no interleaving
commits a promise of goods that are not there (`CommittedPromises`). The last part says
the same of the whole service, whose other parts move goods too
(`ServiceImplementsShelf`): the invariant survives their steps, for those that move goods wait until nobody
holds a row, and so `ServiceNeverOversells` and `ServiceCoversHolds`.

**Documents drive the shelf.** `FulfilmentProofs` proves `StockSpec` of Fulfilment: each
call of its handlers is a transaction of Shelf or leaves the stock rows alone, with
any number of handlers at once and drops anywhere. For that the arguments the
handlers pass have to be ones Shelf takes: `DocumentsInv` says what rows and locals
can be, and counts the edits in flight of an order (`Editing`), each of which will
take another line. So what is proved of Shelf holds of the orders
(`OrdersNeverOversell`, `HeldGoodsShip`). `HoldsStayWithinPromises` is proved on top:
only `DocumentsInv` and `StockSpec` are needed, and a case for each call that replaces
lines.

**Sums.** Totals, what is billed and what has shipped are sums over sets of rows, folds
of the community modules. `Sums` says what they come to without induction over the
set. It counts units: a term of n is n units (`Heap`), and the units added less those
taken away (`Weight`) satisfy the equation of the fold (`WeightSplit`), so there is a
function the fold can choose. Two such functions could only differ on some subset, so
on a smallest one; but there one term is split off and the rest agrees (`SumWeighs`).
From it follow the facts that the proofs cite: one term split off (`SumSplit`), one
changed (`SumChanged`), one more (`SumExtended`), and that more or larger terms add up to
more (`SumGrows`).

**One request at a time.** The theorems of the last part of `FulfilmentProofs` have the
hypothesis `OneAtATime` (there is one handler at most), which is the setting of the run
`sequential`, or the weaker one that no two handlers are ever in flight at once
(`[]OneInFlight`), as in `ReservedInTurn`; what fails without them is listed above. Then what a
handler has read is still so when it writes (`StillAsRead`), a draft holds nothing
(`DraftsHoldNothing`), and from the two `CancelledStaysCancelled` and `ReservedIsHeld`
follow, dropped requests included: a cascade, on deletion or in an edit, always finds
lines whose holds were released. `HoldsMatchOrders` also needs that no request is
dropped (`~MayAbandon`, as in `sequential`), and the invariant `Releasing`: a cancelled
order that still holds something has a handler about to give it back.

`BilledWithinLine` adds what handlers have read of invoices (`InvoiceAsRead`) and of the
line to bill (`BilledInv`: with the instalment under way, what is billed still fits).
`LinksFit` says that invoices only point at lines their order has or has had, so a new
line starts with nothing billed (`NewLineUnbilled`); every other step bills no more
than before, or one instalment more (`BillsNext`).

`GoodsMatchDocuments` also needs that no request is dropped and that the dispatch
warehouse stays what it is: a shipment is followed by its status only if the handler
goes on, and an invoice issued while dispatch is off moves no goods.
`GoodsOut` says it without `Quiet`: goods are out while the invoice is issued, and also
between the movement and the status that tells of it. `ClaimsHold` says that what an
order or a handler claims to have gone has gone, and that no goods come back from
under such an order: the handler that returns them has seen that the order makes no
such claim. So each step leaves an order that makes it with no less shipped
(`GoodsStayGone`).

**Settlement.** `SettlementProofs` proves `OnlySetStatusIssues` and `CancelledIsClosed`
with the invariant `StatusInv`. The first holds whatever overlaps,
because nobody who settles has ever read a draft: a draft has neither payments nor
notes. The second is conditioned on `~disturbed` as the property is, and says what a
handler has read by the time it writes. `Settled`, `LedgersFitTheInvoice` and
`PaymentsFitTheBalance` rest on `MoneyInv`, the conjunction of three: what columns,
ledgers and locals are made of; that a draft has no ledger, whatever overlaps; and in
turn (`SettledInTurn`) that the columns are exact except while somebody settles, who
then knows the sums it has read, and that a payment or a credit about to be inserted
still fits. `Settled` alone is not inductive, because it says nothing while a request
is under way. Of an invoice that totals zero its status follows from its ledgers once
something was recorded against it; issuing does not settle, so it may read sent until
then.

**Posting.** `PostingProofs` proves `PostedForGood` from no assumption: no request touches
the books when it begins (`RequestsLeaveTheBooks`), and every call in flight adds to the
posted entries or leaves them (`StepsOnlyAdd`). It needs no invariant.

`BooksAgree` rests on `LedgerInv`. A balance is a sum over the entries, posted and written
by hand; `RebuiltWithRows` and `RebuiltWithHand` say, from `Sums`, how it moves when rows
are added or one entry of the journal changes. That is not enough: the rows that go in
have to be rows with numbers (`BooksTyped`, by way of `LegFits`: every leg names roles
that a complete mapping fills), a recalculation has to carry balances that were right
for the entries it read, and `JournalInTurn` has to say that one handler only is about to
write an entry, and that one about to be removed is as it was read or gone. The theorem
keeps the condition `~disturbed` of the property, and says that a recalculation which
nothing ran into meets it again. `PostingTypeOK` follows, and in it that no key is posted twice.

`RepairLeavesNothingOut` rests on `RepairInTurn`, which is about the calls the repair has
still to make: whatever its report is to name has an entry, or a call that comes before
the report books it (`Books`), and while a repair is under way posting is on, unless it was
switched off since. When it reads what is outstanding the second holds for every kind
(`RepairsBook`); planning hands it on to the commit, because a document that is worth an
entry posts one under every complete mapping (`PlanPosts`, `WorthLegs`); and the commit
makes the first hold, for a row that is not written finds its key on the books
(`CommittingRepairs`). A document all of whose legs are zero has nothing to post, which is
why the property is about documents that are worth an entry (`WorthEntries`).

`ControlsAgree` speaks of moments when no handler runs, and rests on `ControlsInv`, which
speaks of the others. A document has three postings, told apart by their keys (`PartOf`):
what it is worth, the mirror of that, and what an expense report pays out. Each is on the
books in full or not at all (`IsWhole`). A commit skips row by row, by key; but the legs
of a posting are all found or all missing, unless two mappings planned different legs
(`Piecemeal`), and then the property no longer speaks of the document. What a document
has been brought to is posted unless some handler still owes it (`Owed`, `Stands`) or it
was lost; who owes what can be read off the calls a handler has still to make, and
`Doing` lists every such list of calls with the status the document has by then. The
steps go by what they do to that list: a write of the document (`Written`), the first of
a list of calls carried out (`Carried`, `Parted`), or nothing of this document
(`Elsewhere`). The repair brings rows of its own, of
documents that were issued, and pays out only what is reimbursed. It makes up for a loss
only where nobody has begun to undo the document (`MadeUp`). At the end `ClaimWeighs`
adds up what a posting in full puts on the control account: what the document claims,
whichever complete mapping made it, and the mirror takes back what any of them did.

**The valuation.** `ValuationProofs` goes on from there. `ValuationIsInventory` speaks
of moments when no handler runs, too, and rests on `ValuationInv`: what came into stock
since the books were opened is what the Inventory account carries (`Total`), and what is
on its way there (`InTransit`), and the gaps of the documents (`Gaps`). Goods are booked
in one of two ways. A movement that books itself is made first and then planned and
committed by the same handler, which carries its worth until then (`Carries`); it has a
number of its own (`Numbered`), so its rows are never on the books before it commits
them and none is skipped (`CommitNumbers`). A credit note, a receipt or a purchase
return books its goods with its own posting (`Brings`), and has a gap while they were
moved and are not booked, or booked and not moved (`Gap`). Such a posting is on the
books in full or not at all, whichever perpetual mapping planned it (`BookedFull`,
`FullPosting`), and once the handlers are through it is there exactly when the goods
were moved (`Delivered`): this part takes `ControlsInv`, by which a handler's calls are
about one document and a document with no status has nothing on the books. Every step
changes the stock by what it changes the books, the way and the gaps by
(`ValuationGoesOn`), and where no handler runs nothing is on its way and no gap is left
but of a document whose posting was dropped (`lost`), until the repair makes up for it
(`QuietGoods`, `QuietValue`). A movement that was not booked is never made up for, and
nothing is claimed from then on (`GoodsKept`). TLC checked `ValuationInv` on the
instance of the run `posted` before it was proved.

**The parts of the service.** The theorems of `ServiceProofs` are about `ServiceSpec`,
the specification the run `service` checks, with every other part taking steps in
between and for any agendas. The rest of `HandlersProofs` says why they may be left out
of the argument: a part takes a free slot or moves a handler that is at a step of its
own (`PurchasingHandles`, `StockHandles`, ...), so to any other part its steps are
`Elsewhere`; and as long as nothing is disturbed one handler at most is in flight
(`HandlersInv`). `LiveSessionsKnowThePassword` rests on `TokensKnow`: the number of the
password and the epoch are counted together, so whoever holds a token of the account's
epoch knows the account's password. A handler that changes the password carries the one
it set across the second read of the account; only in turn is that still the account's.
`SignedOutIsOver` rests on `SignedOutInv`, a token signed out has expired or its
denylist entry outlives it, and that on the two roundings (`DeniedLongEnough`).
`OneLinkOnePassword` rests on `SpentInv`, which does not need requests in turn: a link
is marked used before the password is replaced, by one handler only, and has set none by
then. `AnAdministratorRemains` rests on `AdministeredInv`: what is still to be written
leaves an administrator too, because whoever is about to write it acted on somebody
else's row or keeps their own role.

`ClaimsAgree` rests on `ClaimsInv`: in turn, a handler's locals are the row with the
one change it was asked for, and while one is about to post a decision exactly that
posting is missing. `BookedOnce` needs none of it, only that a step which posts finds
the place empty or leaves it. `QuotesAgree` rests on `QuotesInv`: an order is only
inserted for a quote on file and a quote with orders is not deleted, whatever
overlaps; in turn a conversion under way has seen that no order names the quote, and
nobody else is there to enter one. `ReceiptsAreThere` rests on `FilesInv`, which but
for links does not need requests in turn: `FilesGrow` says that a row names its
uploader for good, that what is stored stays and that a claim never changes hands, so
what a handler checked before is still so when it writes the claim; an upload has its
file to itself, because files are made for it.

`GoodsFollowPapers` rests on `PurchasingInv`. A document is inserted in one statement
and its goods are moved in another, and there may be any number of handlers between
the two, so the proof counts what is on the way unit by unit (`Units`): a handler that
goes on takes its own units along and leaves the others (`UnitsMoved`), one that is
dropped takes nothing from the shelf (`UnitsDropped`). What has moved, what was refused
and what is on its way is at most what is on paper. In turn it is exactly that, the
shelf is the one the handler looked at, because nobody else's step touches it
(`NotPurchasing`), and so a return is refused only if it names a line more than once.

`PurchaseAgrees` is about the columns of an order that follow from other rows: its
status from what has arrived, its total from its line, what is paid and due from the
vendor payments and the returns. It rests on `VendorInv`. Whatever overlaps, the rows
keep their shape and vendor payments are of an order that was placed (`VendorRows`).
In turn the status and the total fit the rows (`OrderFits`), and so do the columns for
what is paid and due, unless the handler in flight has still to write them
(`Settling`); what it has read is still so until it does (`VendorCarried`). A refused
return ends its request before the order is settled, so what is due may then be too
much, by what was refused at most, until the next payment or return settles it
(`OrderSettled`, `SettledBut`).
`VendorSum` and its neighbours say, from `Sums`, what one payment more or less does
to what was paid.

`ApprovalsFitTheEntitlement` rests on `LeaveInv`: rows keep their shape, and in turn a
decision under way is about a request that still waits and, if it approves, fits what
the year has left (`LeaveCarried`). `Taken` adds up the days of the year's approved
requests, so the proof compares two sums over sets that differ by one request
(`TakenWritten`, `TakenDeleted`).

`ChartAgrees` and `ProjectsAgree` are about trees that the code keeps without loops by
walking up from the new parent, so many hops and no further. What such a walk has met
is a function defined by recursion, about which the prover knows nothing; it is
compared with walks that are sequences of rows (`IsWalk`, `Reaches`), of which a piece
is one again, and so are two that follow each other. `MetIsReached` says that the code
meets what so many steps lead to, `ForestHasNoLoops` that a tree is one where no row
reaches itself, and `Rehung` that a row may be hung under one that does not reach it:
a loop through the new step would lead from the new parent to the row without it. The
induction over the number of steps is done by hand, with the least number of a set
(`LeastNumber`).

`ChartAgrees` rests on `ChartInv`: whatever overlaps, the parents of accounts and the
accounts that entries name are on file, because the statement that deletes one looks
at both; in turn there is no loop no longer than the walk, and a handler about to write
a parent has walked from it. That the tree shows every account is only so while no
account is deeper than the walk is long (`TooDeep`, 64 hops in the code): a row that
hangs deeper is found neither by the walk nor by its root, and so the theorem says.
`ChartNamesAccounts` is what holds however deep the chart is.

`ProjectsAgree` rests on `ProjectsInv`. Whatever overlaps, a task never changes its
project and an entry never its task, so what a handler has read of them is still so if
they are still there (`WasIn`, `WasLogged`). Hours and progress are each derived in two
steps, a sum and a store, so they are exact in turn, and then but for the task
and the project the handler in flight has still to derive (`HoursFit`, `Syncing`;
`ProgressFits`, `Rolling`); what it is about to store is still what they come to
(`ProjectCarried`). That a roll-up is a percentage again takes the sum of them over
finitely many tasks (`RolledBounded`). Tasks are trees while none is deeper than the
walk is long (`TasksTooDeep`), as accounts are: the code gives up after 64 rows and
accepts what it has not seen. `ProjectsAddUp` is what holds however deep they are.

Model-checked only: `CancelledLetsGo`, which is liveness. `AmountsAgree` compares
roundings over a table, and `MovementsKeepTheirWorth` is about the arithmetic of one
rounding: nothing but cases to enumerate. `ServiceTypeOK` is not proved: the proofs of
`ServiceProofs` type what they use, part by part.

## Not modelled

Documents have one stocked line of one product. Several lines in one transaction
lock the rows of several products, one after the other; that they may deadlock, and
what becomes of a transaction the database ends, is in StockTransactions with the
rows of one. Two lines of one product in an order meet a return's check of the shelf as one line
named twice does. What several lines add to a rounding, exchange gains of vendor payments
(the mirror of Amounts), the opening of the
Inventory account, numbering, listing,
wording and, except for administrators and the readers of receipts, authorisation
are left out, and so are fields that no guard reads. Prices, discounts and totals are
not negative.

References that a client may write itself are left out, and what is claimed of documents
is claimed while nobody does: an entry of the journal form that carries a document's
reference (accounting/application/dto.rs:56) counts as its posting to the repair, which
then passes the document over, and a movement by hand that carries one
(inventory/application/dto.rs:112) is taken for the document's.

An expense report is one amount. In the code its total is rounded once and each of its
lines on its own (hr/application/use_cases.rs:764 and 780), so lines of less than a cent
may add up to something else than the total. A change of password hands out new tokens,
which Users leaves to Sessions. Who is an HR user and which user is which employee does
not change in Attachments.

Of races that are left out of a property by `InTurn` or `~disturbed` nothing is claimed;
they are the ones listed under Runs.

Customer relations, products, warehouses and bills of materials are rows written
whole, one at a time, from which nothing is derived; foreign keys refuse what would
leave a name without its row. Search and reports only read; mail sends and keeps
nothing; pagination and validation are pure helpers.

What was met on the way and is not a property:

- The library that verifies tokens accepts one for a minute past its expiry, and
  the denylist forgets it at the expiry, so a token signed out comes back for that
  minute, where redis_revoked_tokens.rs:41 has the signature check reject it.
  `SignedOutIsOver` ends at the expiry.
- What the payments of a foreign invoice leave on the receivable for rounding stays
  there once it is paid, and an invoice credited unit by unit may be credited a cent
  more than it charged.
- An update of a user writes the row whole, so a verification or a change of role
  made since it was read is undone.
- A project's next task code is the number of tasks plus one: after an earlier task
  is deleted it is one that is taken, and no task can be created without a code
  (task_repo.rs:180).
- An HR user who edits somebody's claim cannot keep the receipts its owner
  uploaded, and a file on several claims is judged by any one of them.
- The category of a product refuses only itself as its parent, and a component only
  its own product, so longer loops are kept out by nothing
  (inventory/application/use_cases.rs).

## Plan

1. *Done*: Shelf and its proofs, Fulfilment, Settlement.
2. *Done*: Posting, its balances and its repair, with the theorems that no key is posted
   twice, that the control accounts agree and that the Inventory account carries what the
   stock is worth. Left: the opening of the Inventory account.
3. *Done*: Purchasing, StockTransactions, Quotes, Sessions, Users, Leave, Expenses,
   Attachments, Projects, Chart, Amounts, composed in Service.
4. *Done*: the proofs that StockTransactions and the whole service implement Shelf, that
   Fulfilment drives it,
   what holds of orders, billing and goods in turn, the status and the settlement of
   invoices, and the parts of Service that are about accounts, expense reports, quotes,
   receipts, purchase orders, leave, the chart of accounts and projects; the ledger of
   Posting, its control accounts and the valuation. Left: `ServiceTypeOK`.
5. Documents of several products, where locks are taken in the order of the lines.
