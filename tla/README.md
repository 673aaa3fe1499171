# ERP-EDS: formal models

TLA+ models of the API of ERP-EDS (`src/apps/api`), a multi-tenant ERP for
construction companies: purchasing, payables, invoice reconciliation, budgets,
site diaries, staff. They are checked with TLC, and the most important
properties are proved with TLAPS for every size of the instance.

Paths below are relative to `src/apps/api/src/` unless they begin with `src/`.

Contents: 1 the system; 2 inventory; 3 the modules; 4 the runs; 5 fairness;
6 the proofs; 7 disagreements with the documentation; 8 what is not modelled;
9 plan.

## 1. The system

A NestJS API over PostgreSQL, through Prisma, with a React front end. Nothing
of the business state lives in the process: two requests interact only through
rows of the database (and, for photos and files, through an object storage).
Two scheduled jobs, which read and import fiscal documents, are the only work
that no request starts; they keep a lock in the memory of the one process.
Four facts shape every model here.

* Transactions run at READ COMMITTED, the default of PostgreSQL. Each Prisma
  call is atomic and sees what is committed when it runs. What a handler read
  may be stale one statement later, inside a transaction or not.
* What really serialises handlers is an explicit lock: `SELECT ... FOR UPDATE`
  on a purchase request, an employee or a budget, `FOR SHARE` on a budget, and
  `pg_advisory_xact_lock` for the numbering of site reports. A conditional
  `updateMany`/`deleteMany` and a unique index are the other guards.
* Writes of a transaction appear together, at its commit. A model therefore
  has one step per read that a later decision depends on, and one step for
  everything the handler writes and commits together.
* A handler can stop anywhere: a refusal (4xx), a database error, the 5 s limit
  of an interactive transaction, the end of the process. Inside a transaction
  nothing remains; between two statements outside one, the first stays. In the
  models `Abort(p)` (`Refuse`, `Crash`, `Throw`) is enabled in every state of a
  handler that is running.

A component is thus a set of tables, a set of handlers `p \in Procs` that are
each at some program counter `pc[p]` with the arguments `call[p]` and the
values `seen[p]` they have read, and the locks. The number of handlers in
flight is a constant of each instance.

## 2. Inventory

For each component: its state, its operations, what it interacts with, what is
hard about it, and what makes it correct. `PROJECT.json` lists all 28 with
their sources, and under `hazards` the 40 places of the code where an order, a
failure or a boundary decides whether it is right.

**Purchase requests and orders** (`compras/`). State: `PurchaseRequest`
(status, trash mark), its `PurchaseRequestItem` rows (quantity, net price, in
stock), `PurchaseOrder` with its lines. Operations: create, update of a draft,
add, edit and remove rows, mark stock, quote, the transitions DRAFT → PENDING →
QUOTING → APPROVED and → CANCELLED, remove and restore; for an order create,
change its lines, patch, cancel, remove, restore. Interacts with the approval
thresholds, the trash, invoices and payables (an order with invoices cannot be
cancelled). Hard: a balance that several orders share, read and then consumed;
which handlers take the row lock and which do not; an approval given on a value
that may change. Correct when: no line is bought beyond its quantity, nothing
in stock is bought, a bought line does not change, a request keeps a row, an
approval covers what it approved, the fulfilment shown is the truth.

**Numbering of site reports** (`diario/reports/report-number.ts`,
`daily-reports.service.ts`). State: the numbers and dates of the reports of a
site. Operations: create, copy, renumber, finalise, delete. Hard: MAX + 1
under an advisory lock while rows are deleted without it; a renumbering in two
passes over rows read before. Correct when: no two reports share a number, a
renumbering follows the dates and leaves the earlier ones alone.

**Site reports and their lists** (`diario/reports/`, `items/`). State: the
report, its hours, its lists, its status and the audit log. Operations: patch,
add, change and remove rows, finalise, delete. Hard: no transaction at all:
each handler reads, decides and writes with one statement. Correct when: a
report is finalised once and by the one whom the log names, what is finalised
is complete and does not change.

**Photos and videos** (`diario/reports/media/`, `storage/`). State: media rows
and the objects of a storage that shares no transaction with the database.
Operations: upload with thumbnail, delete, delete of the whole report. Hard:
partial failure and crash between the two stores. Correct when: a row never
points to a missing object, and what fails is undone.

**Allocations** (`rh/employee-allocations/`). State: the periods of an employee
and his status. Operations: create, transfer, change, remove, restore. Hard:
check of overlap and write in two statements, under a lock on another table;
partial patches; inclusive ends and the eve. Correct when: an employee is at
one site on a day, and a transfer neither rewrites the past nor leaves a gap.

**Pay, attendance, payslips, labour cost** (`rh/employees/`, `rh/attendance/`,
`rh/payslips/`, `rh/labor-costs/`). State: how an employee is paid, a row of
attendance per day with the daily rate frozen in it, a payslip per month.
Operations: patch of the employee, recording of a day, payslips, and the report
of what the days at a site cost, which holds attendance against allocations.
Hard: pay, days and allocations change apart from each other, without a lock;
shares are rounded; what is unknown must not look like zero. Correct when: a
raise does not change the past, the shares of the sites fill the month, and a
day that nobody recorded shows.

**Budgets** (`engenharia/budgets/`). State: versions, each with groups, items,
BDI and status; the official budget of the site. Operations: content, header,
import, close, revise, official, delete. Hard: shared and exclusive locks on one
row, counts under a shared lock, a copy of a tree that others edit. Correct
when: versions form a chain, a revision is a copy, what closes is complete,
the official one is closed.

**Invoices, payables, payments** (`financeiro/`). State: invoice status, the
payables of an invoice, payments, the approval for payment. Operations: manual
and from-invoice creation, change, cancel, approve, revoke, pay, change and
delete a payment, remove, restore. Hard: the status of an account is recomputed
from its payments in separate statements, outside a transaction, and in doubles.
Correct when: the status agrees with the payments once nothing runs, nothing is paid on a
cancelled account, an approval is of the present terms.

**Fiscal synchronisation** (`fiscal/sync/`, `fiscal/dfe/`). State: the last
number read (NSU), the window in which nothing may be asked, the stored
documents, a lock in memory. Operations: the runs of the job and of "synchronise
now". Hard: a tax authority (SEFAZ) that rejects whoever asks too often, counts
the queries of others too, and whose answers may be lost or cut off; pages that come again; an end of
the process between storing a page and moving the number. Correct
when: every document is stored once or known to be given up, the number never
passes one that is neither, no query of ours provokes a rejection.

**Reconciliation of inbound notes** (`fiscal/import/`, `conciliacao/`). State:
the fiscal documents in the queue, the notes (notas fiscais), the debts they
became. Operations: the importer, manual entry, reconciliation with an order or
without one, cancellation by a user, by the issuer and with the order, the edit of
the order, and the removal and return of the invoice in Finance. Hard: a note
comes in parts and in any order; the importer may end half way; checks of status
and balance are outside the transaction that writes; the supplier of the debt,
which the unique key holds, may be the note's, the register's or the order's.
Correct when: a note is one debt of its own value, cancelled notes stay so, the
lines of a note are stored once.

**Sessions** (`auth/`, `administracao/users/`, `configuracoes/users/`). State: refresh tokens, access
tokens that nobody stores, the password, the status of user and company.
Operations: login, renewal, logout, change of the password, two resets of it,
deactivation, suspension. Hard: everything may happen between two statements of
a renewal. Correct when: a token is exchanged once, no session outlives the
password it was opened with, who is deactivated or suspended is soon out.

The rest has little state that interacts, and is listed with its reason in
`PROJECT.json`: bank slips (section 8), trash (its restore is an action of the
models it touches), roles and settings, bank accounts, access of diary users,
PDF, catalogue and compositions, sites and cost centres, contractors, suppliers,
attachments, reports and search, onboarding, schema and migrations, front end,
deployment, certificates and DANFE.

```
 requests ──balance──▶ orders ──total──▶ reconciliation ──▶ invoices ─▶ payables ─▶ payments
    │ approval threshold    ▲                  ▲                            │
    └──────── trash ────────┘     SEFAZ ─▶ sync (NSU) ─▶ import      approval to pay
 site ─▶ reports (number, content, media ─▶ storage)     site ─▶ budgets (versions, official)
 employee ─▶ allocations ─┬▶ labour cost       user ─▶ sessions (refresh and access tokens)
          └▶ pay ─▶ attendance ┘
```

## 3. The modules

| module | models | kind |
| --- | --- | --- |
| `Fulfillment` | `compras/fulfillment.ts` | operators |
| `Procurement` | a request, its rows, its orders | state machine |
| `PurchaseLedger` | what purchasing promises: atomic purchases | abstract specification |
| `ProcurementLedger` | refinement mapping from the first to the second | composition |
| `ReportNumbering` | the numbers of the reports of a site | state machine |
| `DailyReport` | the content and life of one report | state machine |
| `ReportMedia` | its photos and videos | state machine |
| `Allocations` | the periods of one employee | state machine |
| `LaborCost` | his pay, attendance, payslip, and the cost reported, over `Allocations` | composition |
| `Budgets` | the versions of one budget | state machine |
| `Payables` | the invoice of one order, its accounts and payments | state machine |
| `FiscalFeed` | what the synchronisation promises of the numbered documents | abstract specification |
| `FiscalSync` | the runs that synchronise one company, and SEFAZ | state machine |
| `InboundNotes` | the importer, and the notes from entry to debt | state machine |
| `Sessions` | the tokens of one user | state machine |
| `Sums` | `SumOver`, the sum over a finite set | operators |
| `ProcurementProofs`, `LaborProofs`, `SessionsProofs`, `FiscalProofs`, `DailyReportProofs`, `BudgetProofs`, `PayablesProofs` | for every instance | proofs |
| `SumTheorems` | what `SumOver` computes | lemmas |
| `MC*` | workloads, symmetry, bounds | instances |

A definition keeps the name of the function it stands for where there is one,
and `map` in `PROJECT.json` gives the lines of every definition. Operators
marked `Mutant:` are variants of the definition below them with a plausible
mistake; each property has one that makes its run fail.

**Procurement.** A handler begins with its first reads and checks
(`Begin...`), waits for the lock if the code takes it (`AcquireLock`), reads the
rows and the quantities bought under the lock (`ReadBalance`), and writes and
commits (`Commit...`). A statement that writes the request's row, or inserts
one of its children, also waits for that lock (`rowLock = Free`): the foreign
key takes a key-share lock on it. Orders hold quantities per line; `Bought`
sums those of orders that are neither cancelled nor deleted, as
`ORDENS_QUE_CONTAM` does. Prices are small naturals; suppliers, discounts,
codes, taxes and the prices of orders are left out. That invoices or payments
refuse a cancellation is an `Abort`. Two history variables: `approved`, the rows on
which the approval was given, and `revived`, set when an order that did not
count counts again by a status edit or from the trash, which the code does not
compare with the balance.

**PurchaseLedger** has two variables, the quantity wanted of each line and what
each order holds, and three actions: an order takes quantities within what the
others leave, an order gives all back, unbought lines change. `ImplementsLedger`
says that every step of every handler is one of these or no step at all.

**ReportNumbering.** `ReadMaxNumber` and `ReadSite` are the reads under the advisory
lock, `CommitCreate` and `CommitRenumber` the writes; `SubmitReport` and `Remove` are
single conditional statements without the lock. `IsPivot` keeps what
`findIndex` and `slice` do when the report is gone.

**DailyReport.** A handler is a read with its decision and a statement; `submit`
and `remove` repeat the status in the statement, the others do not. The four
times of the day, one list with positions (activities) and one without stand
for all lists: they share the helper code of `daily-report-items.service.ts`.
The audit entry is a later step, outside any transaction. `workload` is chosen
at the start among those of the instance: how many calls run at once, which
hours a patch may carry, which rows there may be. `Alone` is a workload of one
call at a time.

**ReportMedia.** Each object written, each row and each removal is a step, and
`Crash` may follow any of them. `lost` is a history variable: objects whose
removal the storage refused, or that a crashed request had in hand.

**Allocations.** Days are 1..Horizon, `OpenEnd` stands for a null end date. The
check of overlap and the write are two steps under the employee's lock; `update`
decides from a row read before the lock, and writes only the fields that came.
`loose` is a history variable, set by a restore and by a patch that carries one
end only: in both cases the code does not check the period that results.

**LaborCost** extends `Allocations` with what else is kept of the employee, over
the days of one month. A request (`desk`) reads and decides in one step and
writes in another; the recording of a day reads twice, the pay and then what is
frozen (`BeginSave`, `ReadSnapshot`), before it writes. The status of the
employee is changed here, by the same patch as the pay, through the `SetStatus`
of `Allocations`; every other step of that module is taken over as it is. The
report is an operator, `Cost(site, days)`, on the state as it is: it only reads.
`overlapped` is a history variable: two requests were in flight at once. A day
off, hours, contract work and advances are left out.

**Budgets.** `LockShare` and `LockUpdate` are the two modes of `lockEditable`;
then one step reads and decides, one writes. Groups and items have ids that a
revision keeps, which stands for its renaming of ids. Snapshots of prices,
codes, ordering and the layout of spreadsheets are left out.

**Payables.** `Begin...` is what a handler reads and checks, `Commit...` its
write; every write of a payment goes on to `RecalculateRead` and
`RecalculateStore`, which are statements of their own. `CollectCancelOrder` is
the reading of the second transaction of a cancelled order. One invoice of the
order, its accounts, and accounts opened by hand; suppliers, methods, documents
and the content of the invoice are left out, and so is the threshold of a payment
(it only refuses). `terms` are the amount and the due date of an account;
`approved` are those it was approved for, where the code has a time stamp. The
code adds payments up as doubles, which the model keeps apart from the exact sum:
`Inexact` are the sets of amounts whose doubles add up to less than they do, any
sets at all in the proofs, 0.10 and 0.70 in the runs, and `StatusFor` compares as
the code does. A recalculation reads the account and its payments in one step and
then computes and stores. `stale` is a history variable: accounts of which a
payment was written (or restored) since their status was last recomputed, or whose
recomputation or edit was overtaken, or lost with its process.

**FiscalSync.** SEFAZ is modelled from how the code uses it: it has documents
`1..published`, serves pages after a number, and its `rest` is the hour within
which a query without news is rejected and starts the hour again. `served` is
what it has served to anybody of this company, which its rejection echoes.
`Begin`, `ReadState`, `Query`, `Persist`, `Advance`, `Arm`, `Block` and `Rest`
are the statements of `executar`; `wait` is `blockedUntil`. Faults are counted
by a bound: `QueryFails` (the query or its answer is lost), `QueryHangs` (the
answer is cut off after its headers, for which nobody listens: the run is `hung`
and keeps the lock), `OthersQuery`, `Throw`, `Crash`, and documents that cannot be
unpacked. A `Crash` ends a hung run too, and is not counted then. `Tick` is a unit of
time, of which SEFAZ's hour has two and our window three. Documents are numbers;
`lost` (history) are those the number passed without their being stored.

**FiscalFeed** has the documents, the number, the copies and the losses only.
`Receive` stores documents ahead of the number, each once; `Move` takes the
number over what is stored or lost; `Skip`, over anything, which is then lost.

**InboundNotes.** A `Paper` is a note as its issuer wrote it, with one amount;
`docs` are the fiscal documents about papers in the order of their numbers:
summaries, cancelled summaries, complete documents, cancellations. The importer
reads the first and the row with its key, decides (`ImportRead`), writes
(`ImportCreate`, `ImportUpdate`, `ImportEnrich`, `ImportEvent`) and marks the
document (`ImportMark`), and may fail or end between any two. Users type notes
with or without key and series, and reconcile in three steps: the note, the
order, its open amount and the register of suppliers, the transaction. The unique
keys of notes and invoices are the guards `Insertable` and `FreshInvoices`; the
second holds the supplier of the debt, who is the order's, or else the note's, or
else whom the register has by now (`lookups` is what it may answer: the issuer's
row, another, or none). `EditOrder` is the PATCH of an order, its status included;
`RemoveInvoice`, `RestoreInvoice`, `PayInvoice` and `AdjustDebt` are what Finance
and the trash do to a debt. `adjusted` (history) are debts whose accounts were
changed there by hand, `patched` (history) orders whose status a PATCH wrote. Left
out: invoices that Finance types or edits, the removal of an order (refused once a
note is linked to it), items, dates and cost centres, which refuse or are shown.
The queries of one `ReadOrder` are one step.

**Sessions.** A token is a refresh token together with the access token issued
with it, of which only the time left is kept. A renewal finds its token, revokes
it under a condition, reads the user, and issues; a change of password writes
password and revocations in one transaction and then issues. `opened` (history)
is the password a session was opened with, through its renewals; `raced`
(history) tells that a password changed while a call that was past its checks
had not issued yet; `kept` (history), that the last new password was one of the
reset that revokes nothing; `closedFor` (history) counts since a deactivation or a
suspension, and `reopened` (history) tells that the user, of a suspended company,
changed his password since. The e-mail that `assertCompanyActive` exempts has no
company that is suspended, and the login without password of development is left
out.

## 4. The runs

`CHECK_DEADLOCK FALSE` is there because these systems may rest: ids are bounded,
and when they are used up and no call is in flight nothing has to happen; in
`fiscal`, a run can always begin and deadlock is checked. Symmetry is over ids that
the specification treats alike, and there is none in the run with liveness.

| run | instance | states | checks |
| --- | --- | --- | --- |
| purchasing | four workloads: 2 calls and 2 orders on 1 line of quantity ≤ 2; 2 calls and 1 order on 2 rows; 1 call with the trash; 1 call over the life of the request, prices 0 and 1 | 0.6 M | `CheckedWithinRequested`, `RequestKeepsARow`, `FulfilledMeansNothingToBuy`, `ApprovalCoversTotal`, `BoughtLineIsFrozen`, `ImplementsLedger` |
| labor | three workloads: 2 calls on 2 periods; 2 requests on pay and attendance; 1 call on attendance, payslip and periods; 2 days, 2 sites | 0.5 M | `CheckedNoOverlap`, `TransferKeepsHistory`, `FrozenRate`, `DailyHasRate`, `SharesFillTheMonth` |
| reports | the content of one report: 2 calls on one row, or 1 call on two rows and three times; its media: 3 requests, 2 uploads; the numbers: 2 calls, 3 reports, 3 dates, typed numbers 1 and 3 | 0.5 M | `SubmittedOnce`, `AuditTellsWhoSubmitted`, `SubmittedReady`, `SubmittedIsFrozen`, `PositionsDistinct`, `RowsHaveFiles`, `NoOrphans`, `NumbersDistinct`, `RenumberFollowsDates` |
| budget | 2 calls on 2 or 3 versions, or 1 call on nested groups | 0.5 M | `VersionChain`, `RevisionCopiesOrigin`, `ClosesComplete`, `OfficialIsClosed` |
| payables | 2 calls on 2 payments of 1 account, or 1 call on up to 2 accounts, amounts 1, 2, 7 and 8, 2 dates | 1.0 M | `StatusTellsPayments`, `PaidIsNotCancelled`, `CancelSettlesOrder`, `ApprovedAsItStands` |
| fiscal | the job and a user, 5 documents, pages of 2, 2 pages a run, 3 faults | 0.1 M | `ImplementsFeed`, `NeverProvokes`, `EveryDocumentArrives` |
| inbound | seven workloads: 1 call on up to 3 documents, 2 notes, 1 order, 2 invoices, 2 suppliers; 2 calls on one note | 1.2 M | `NotesTypeOK`, `OneDebtPerNote`, `DebtIsOfTheNote`, `CancelledAtSource`, `ReconciledClosesOrder` |
| sessions | 2 calls, 3 tokens, 2 changes of password, an access token of 2 ticks | 2.0 M | `ExchangedOnce`, `OpenedWithThePassword`, `ClosedWithinTTL` |
| labor_parts, labor_silent | 1 call, 1 period, 2 days, 2 sites | | counterexamples, section 7 |
| inbound_second | the last workload of `inbound` | | counterexample, section 7 |
| fiscal_skip | as `fiscal` | | counterexample, section 7 |

The type invariant of a module is a theorem, section 6; that of `InboundNotes` is
checked by its run too, since it also says that lines are stored once.

*purchasing.* Two orders of up to 2 units compete for a line of up to 2, while the
line is resized or put in stock and orders are edited and patched (a patch to
CANCELLED stands for a deletion, which does the same to the sums). Two calls are
enough for a read of one to be made stale by a write of the other; two orders are
enough for a sum to exceed what each fits in. Of `LiveStatuses` one is kept,
since the code tells only CANCELLED from the rest. With two orders the run stops
before the step that brings an order back unchecked, after which the properties
promise nothing. Rows are added, edited, stocked and removed by two calls while
an order takes them: two rows, because "the last one" needs another to race
with. `FulfilledMeansNothingToBuy` compares the aggregate that the screen shows
with the rule that accepts orders, which are different code over the same rows.
Over the whole life of the request, its approval included, values from 0 to 4
against a threshold of 1 exist below, at and beyond it. With two calls the
approval may be overtaken, section 7.

*labor.* Two periods: one that a transfer closes and one that it opens; two days
and the open end give every relation between two inclusive periods that the
comparisons can tell apart. Two sites and two days let a day move between sites,
be recorded at one and allocated at the other, and a cost of 3 cents be shared
with a remainder. Two daily rates are a raise. Once `loose` or `overlapped` no
new call begins.

*reports.* The three modules about the reports of a site write different tables,
and an instance is about one of them. *Content*, two workloads: two calls at
once, for the order of finalisation, deletion and audit; one at a time with
longer lists, for what only a sequence of calls could break. `MaxPosition` is 3,
beyond the two rows there may be: positions grow after deletions. *Media*: three
requests, so that an upload meets the deletion of a medium and of the report.
Removal may fail and the process may end at each step. *Numbers*: three reports
are needed for a renumbering to have something before, at and after its pivot.
`FirstNumber` lies between the typed numbers. `RenumberFollowsDates` is about a
report that is still there under the lock.

*budget.* Three workloads: any two operations on two versions; two operations of
the life of three versions; single operations on two nested groups and two
items.

*payables.* Four workloads. Two calls on the payments of one account, with edits
and cancellation: `StatusTellsPayments` holds there, so a status is wrong only
while the account is `stale`, and one undisturbed recalculation repairs it. One
call at a time, any of which may stop half way: one account with two payments of
any status; two accounts with and without the invoice; two accounts that are
approved and edited. A half-paid account needs an amount of 2 and payments of 1;
amounts of 1, 7 and 8 tenths are there because 0.10 + 0.70 is less than 0.80 in
doubles: such an account stays PARTIAL, which `StatusTellsPayments` allows of an
exact sum only, section 7. The other three properties are for one call at a time, section 7.

*fiscal.* Five documents are two full pages and a last one, so that a run reaches
its limit of pages (PARTIAL) with documents left, and another ends with an empty
queue. Three faults let a crash between `Persist` and `Advance`, a lost answer
and the query of another consumer meet in one behaviour. `EveryDocumentArrives`
is of behaviours in which a run that hangs does not hang for ever.

*inbound.* Seven workloads. Three documents of one note in any order and kind; two
documents and what users type of the same note, with amounts that may differ and
an order of another supplier; an order that two notes are reconciled with and
cancelled, and its accounts paid; one debt that Finance adjusts, removes and
restores; an order that is edited, supplier and status too; two calls at once, the
importer among them, on one note; two calls on a note whose issuer is or is not
registered, with an order of another supplier. `NotesTypeOK`, `OneDebtPerNote` and
`CancelledAtSource` hold in all of them, the other two are of one call at a time.
Under `OneDebtPerNote` a second invoice of a note takes two calls and two
suppliers; *inbound_second* shows that these are enough. Under `DebtIsOfTheNote`
the accounts outlive the removal of their invoice, and a debt that Finance adjusted
is its own business.

*sessions.* Three tokens: one, the one it is exchanged for, and a third for a
second renewal, a login or a change of password in between. Two new passwords, so
that each reset may come before and after a change.

## 5. Fairness

`FiscalSync` alone has a liveness property and fairness: `EveryDocumentArrives`,
under weak fairness of

* `Continue(c)`: a run that has begun goes on. Its statements end, and so does its
  HTTPS query, by an answer or by a timeout, but for one case: an answer that is
  cut off after its headers ends neither way (`fiscal/dfe/dfe-client.service.ts:180`).
  That is the fault `QueryHangs`, after which the run does not go on, and every
  other one is skipped until the process is restarted;
* `Begin(Job)`: the scheduler calls the job every ten minutes
  (`fiscal/sync/fiscal-sync.job.ts:49`), and it finds the lock free in the end
  since runs end. A user never has to press the button;
* `Tick`: time passes.

Nothing makes anybody restart a process that hangs, so `EveryDocumentArrives` is
conditional: if no run hangs for ever (`[]<>~Hung`), every document arrives or is
given up. Nothing is assumed of SEFAZ
having documents nor of faults, which are finitely many. Weak fairness is enough: `Begin(Job)` stays enabled while no run goes on,
and if users' runs take every turn, it is these that progress.

The other specifications have no fairness: their properties are of states and of
steps. That a handler ends is the business of the transaction limit of Prisma,
and no handler waits for another except for a lock, which ends with its holder.

## 6. The proofs

TLAPS proves, for any number of calls, ids, lines, dates, quantities and bounds,
every property that a passing run checks but one, the liveness of `FiscalSync`,
under the same conditions as the run (one call at a time, nothing restored,
where the property says so), and the type invariant of every module. What follows
is, per module of proofs, the argument: the invariant that is inductive where
the property is not.

* `ProcurementProofs`. `TypeCorrect`, `LineWithinRequested` (`Spec =>
  []CheckedWithinRequested`), `ReadUnderLockStaysValid`. The invariant is
  `Base /\ (~revived => Balance)`. `Base`: types; a handler past its lock holds
  it; the rows it read are the rows there are. `Balance`: what was bought when
  it read is at least what is bought now, and no line is bought beyond its
  quantity. `WithinRequested` alone is not inductive: a handler about to write
  would have read anything. An order that takes `n` adds at most `n` to what the
  others hold (`UnitsGrow`), and everything else can only lower the sum
  (`UnitsShrink`). From the same invariant: `BoughtRowsAreFrozen` and
  `LastRowStays`, since whoever changes or removes rows under the lock read the
  rows there are and at least the purchases there are; and `KeepsTheLedger` (`Spec
  => ImplementsLedger`), step by step: what the ledger says an order takes is what
  it buys (`TakenIsBought`), and a checked order takes within the balance
  (`CheckedTakes`). `FulfilledIsSettled` needs the types only: what the screen
  aggregates agrees with what `WithinPending` accepts, line by line
  (`ItemFulfilled`, `AggregateFulfilled`). `ApprovalsCoverTheTotal` is of
  `Spec /\ []OneValueCall`: the calls that change the status or the value come
  one at a time, while orders, removals of rows, the trash and the lock are as
  free as ever. Its invariant `ValueInv`: stock has no price; every row of an
  approved request that is charged is, as it stands, a row that was approved; and
  a call that is about to write still finds the rows it read, or that status
  which let it in. Without `OneValueCall` it is false, section 7. Assumed:
  finitely many ids, naturals as prices, 0 among them.
* `LaborProofs`. First `Allocations` alone: `TypeCorrect`, `NeverTwoSites`,
  `TransfersKeepHistory`, the last two as long as `loose` is false. The invariant
  adds that what the check found under the lock is true of the rows there are
  now: removal by others cannot create a conflict. Then the composition, which
  implements its component (`ImplementsAllocations == LaborSpec => Spec`), so that
  `LaborNeverTwoSites` and `LaborTransfersKeepHistory` follow.
  `DailyWorkersHaveRates` and `FrozenRatesStay`, while requests come one at a
  time: what a request decided is what it would decide now.
  `SharesMakeTheCost`: with `D` days worked, `d` of them at a
  site, its share is within half a cent of `cost * d / D` (`HalfUpIsNear`), and
  the `d` of all sites add up to `D` (`DaysAddUp`). `LaborTypeCorrect`. Assumed: the horizon and the
  costs are naturals, finitely many sites.
* `SessionsProofs`. `TypeCorrect`, `TokensExchangedOnce`,
  `SessionsHaveThePassword`, `DeactivationCloses`. A token that is exchanged, or
  is being, is revoked and in the hands of one call; a call about to issue has
  the present password unless `raced` or `kept`; once the clock of a deactivation
  or suspension runs nobody is admitted, and unless `reopened` no access token has
  more left than the clock has to go.
* `FiscalProofs`, first part (`FiscalSync`): `TypeCorrect`, `ProvokesNothing`,
  `KeepsTheFeed` (`Spec => ImplementsFeed`). One run at a time, so the number it
  read is the stored one when it moves it; nothing before it is unsettled; the
  number never passes what was served, so that an echo does not take it back;
  until something fails, our window outlasts SEFAZ's, or a run is about to arm
  it. Assumed: `Cooldown > Hour`, as `proximaJanela` has it.
* `FiscalProofs`, second part (`InboundNotes`): `NotesTypeCorrect`,
  `NoteIsOneDebt`, `DebtsAreOfTheirNotes`, `CancelledNotesAreSettled`,
  `LastNoteClosesTheOrder`. Of all behaviours `NotesInv` says that documents are
  processed in their order (`InOrder`), that the importer is at the first one and
  its row is a row of that note (`AtTheFirst`), that a processed note has a row
  (`KnownNotes`), that after a processed cancellation no row of the note is
  pending (`EventsApplied`: rows only move on, `RowsMoveOn`), and that the unique
  index holds (`SerialOnce`, which alone keeps two reconciliations at once from
  two debts of one supplier). When calls and the importer come one at a time also
  `InTurn`: what a call has read is still so (`StillSo`), and notes and debts point
  at each other with the same value, supplier and order (`Books`), through the
  removal and return of the invoice. The parts of a debt add up to it, the
  remainder included (`PartsAddUp`). Assumed: finitely many ids.
* `DailyReportProofs`, first part: `TypeCorrect`, `FinalisedOnce`,
  `LogTellsWhoFinalised` for any number of calls at once: whoever is in the log,
  or about to be, is the one in the row as long as the report is there.
  `FinalisedIsComplete`, `FinalisedIsFrozen` and `PositionsNeverRepeat` for one
  call at a time: a call that has decided to write still may, and the position
  it is about to give is above all there are. Assumed: finitely many calls.
* Its second part (`ReportMedia`): `MediaTypeCorrect`, `NoDanglingRow`,
  `NothingForgotten`. Uploads have objects of their own; what an upload has
  written stays until its row is there, and what a request removes belongs to
  uploads that have ended. As long as the report exists, every object has a row, is
  in somebody's hands, or was lost.
* Its third (`ReportNumbering`): `NumberingTypeCorrect`, `NumbersNeverRepeat`. The
  invariant adds that dates are distinct, that the number a creation is about to
  give is above all that exist, and that a renumbering still knows the numbers
  that exist and would give none twice. Deletions without the lock only remove
  rows. Two reports after the pivot get different numbers since their dates
  differ (`BetweenGrows`). `RenumberingFollowsDates` needs besides that the
  report a renumbering starts from is one of those it read (`KnownPivots`).
* `BudgetProofs`: `TypeCorrect`, `VersionsAreAChain`, `OfficialStaysClosed`,
  `RevisionsCopyTheOrigin`, `ClosedIsComplete`, for any number of calls at once. A
  transaction has the lock of its operation (`Locking`) and nobody is in one with
  who has the budget for update (`Exclusion`), hence what it established when it
  read it finds when it writes (`Established`): a revision writes the copy of what
  its origin is, which is the latest version and closed. Of two revisions of one
  origin the second finds it superseded, and what is not the latest version
  never will be again (`Superseded`).
* `PayablesProofs`: `TypeCorrect`, `StatusIsThatOfThePayments`, for any number of
  calls at once and any amounts that doubles do not add up: an account that is not
  `stale` has the status that `StatusFor` gives its payments (`Tells`), since every
  write of a payment makes it stale and only the store of a recalculation whose sum
  and amount are the present ones clears it.
  `ApprovalIsOfPresentTerms`, `PaidStaysUncancelled`,
  `CancelledOrderOwesNothing` for one call at a time: what it has read is still
  so (`Current`). Assumed: finitely many ids.
* `SumTheorems` is about `SumOver`, the sum over a finite set that the modules
  above use. The fold of the library names a recursive function by CHOOSE: that
  one exists and is unique is proved from smaller sets to larger (`FoldExists`,
  `FoldsAgree`), and then what elements, subsets, parts and bounds do to a sum.
  An induction is written there as "of the sets for which it fails, one has no
  smaller one" (`LeastSubset`).

Model-checked only: `EveryDocumentArrives`, since liveness under fairness is out
of reach of the prover. The counterexamples of section 7 are TLC's. No module has
a RECURSIVE operator. What the conditions of the theorems leave out (two calls at
once in parts of `DailyReport`, `Payables` and `InboundNotes` and for the value of
a request, returns from the trash) is where the code does otherwise, section 7.

## 7. Disagreements with the documentation

Four have a run whose counterexample is the argument:

* *fiscal_skip*: `fiscal/sync/fiscal-sync.service.ts:197` takes over the number that
  a rejection echoes, also past what is stored here;
  `src/docs/plano-integracao-fiscal.md:86` says that a rejection costs delay and no
  document.
* *labor_parts*: `rh/labor-costs/labor-costs.service.ts:207` shares the cost of the
  month by the days of the period that is asked for; `labor-cost.ts:157` says, of
  the month. Two halves of a month cost twice the month.
* *labor_silent*: who was allocated to a site and has no day there is not in its
  report at all (`:132`), and alone he makes a known cost of nothing; `:134-135` says that such
  days make a cost partial "em vez de silenciosamente menor".
* *inbound_second*: the status of a note, read before the transaction, and the
  unique key, which holds the order's supplier
  (`conciliacao/inbound-invoices/inbound-invoices.service.ts:739`), let two calls make
  two debts of one note; `src/docs/conciliacao-nf-oc.md:90-92` says that the status
  prevents it.

Others were met while reading, and the conditions of the properties above say
where they begin. Purchasing:

* an order that was cancelled or deleted counts again by a plain PATCH or a
  restore, without a look at the balance
  (`compras/purchase-orders/purchase-orders.service.ts:618`, `trash/trash.service.ts`);
* an order is created on a request that was cancelled or deleted after its
  status was read (`purchase-orders.service.ts:141`);
* rows or prices enter a request that was approved meanwhile
  (`compras/purchase-requests/purchase-requests.service.ts:406`, `:414`), so its
  value exceeds what was approved;
* a row taken out of stock after the approval may be bought under it (`:537`);
* the update of a status is unconditional, so CANCELLED may be overwritten
  (`:1108`; C-2 in `src/BUSINESS_RULES.md` says it is terminal);
* an edit sends an approved request back to QUOTING (`:657`; C-1 says the flow
  only goes forward).

Site reports:

* `diario/reports/report-number.ts:52-54` says the number of a finalised report
  never changes and that one is never deleted; `daily-reports.service.ts:675`
  renumbers finalised reports, and an administrator deletes them (`:634`);
* an upload that lands between the reading of a report's media (`:625`) and its
  deletion (`:634`) loses its row to the cascade and leaves its object behind:
  `NoOrphans` is about a report that exists;
* the report to renumber is deleted between its reading and the lock: `findIndex`
  gives -1 and the last report takes its place (`:702`);
* writes that began while a report was a draft land after it was finalised
  (`diario/reports/items/daily-report-items.service.ts:222`,
  `diario/reports/media/daily-report-media.service.ts:157`), a report is
  finalised while what it needs is removed (`daily-reports.service.ts:518`), two
  patches of hours are incoherent together (`:482`), two activities get the
  same position (`daily-report-items.service.ts:186`);
* a failed thumbnail removes the photo (`daily-report-media.service.ts:151`, under
  a comment that says a heavy photo is better than a lost one).

Staff:

* a removed allocation returns over its successor (`trash/trash.service.ts:97`);
* two patches of one end of an allocation each are checked against rows that
  the other has changed, and together overlap another period
  (`rh/employee-allocations/employee-allocations.service.ts:203`);
* an employee who was terminated after the first check still gets an
  allocation (`:72`);
* a day saved again after its worker went from daily to monthly pay loses the
  rate that was frozen (`rh/attendance/attendance.service.ts:117-119` says it is
  never rewritten), and a past day recorded late takes today's rate;
* two patches of the pay, decided on the same row, leave a worker paid by the day
  without a rate; any patch writes the type of pay again from the row it read
  (`rh/employees/employees.service.ts:169`, `:186`);
* each site's share of a month is rounded on its own
  (`rh/labor-costs/labor-cost.ts:179`), so the sites add up to the month but for half
  a cent each, as `SharesFillTheMonth` says; `:160-161` says that the sum closes
  exactly;
* a month without a payslip is PARCIAL with value 0 where the title
  of a test says DESCONHECIDO (`labor-costs.service.spec.ts:164`); a removed
  payslip keeps the month taken.

Budgets:

* a closed budget is edited (`engenharia/budgets/budgets.service.ts:1028`; `:156`
  says it does not change), and two calls each remove one of the last two items
  of it, both under FOR SHARE (`:989`);
* two moves of groups of one parent leave two in the same position (`:830`).

Payables:

* payments of 0.10 and 0.70 leave an account of 0.80 PARTIAL, with one call at a
  time, since they are added as doubles
  (`financeiro/account-payables/account-payables.service.ts:361`); F-7 in
  `src/BUSINESS_RULES.md:199` says that a sum equal to the total is PAID.
  `StatusTellsPayments` lets such sums, and only them, be PARTIAL;
* a recalculation overtaken by another leaves a status that is not the one of
  F-6 and F-7, or takes an account out of CANCELLED
  (`financeiro/account-payables/account-payables.service.ts:371`); nothing repeats
  one that was interrupted, and the trash restores payments without one;
* a pending or refunded payment of an account cancelled since is set to PAID
  (`financeiro/payments/payments.service.ts:126`; F-12 refuses it at creation
  only), and an amount is raised past the threshold (same line; F-13);
* an invoice is launched twice: by hand, then by its validation, which does not
  look (`financeiro/invoices/invoices.service.ts:171`;
  `account-payables.service.ts:175` says once), or by two calls at once (`:184`);
* an account is opened for an invoice that is cancelled, also with its order
  (`account-payables.service.ts:157` does not read the status), or restored
  from the trash after the cancellation;
* a payment or an edit that lands between the reading and the write of a
  cancellation or an approval (`account-payables.service.ts:335`, `:468`,
  `purchase-orders.service.ts:750`).

Fiscal documents and notes:

* `src/apps/api/prisma/schema.prisma:2884-2886` says that a document is stored in
  the transaction that moves the number; they are two statements
  (`fiscal-sync.service.ts:253`), and it is the order and `skipDuplicates` that
  protect it;
* an answer that is cut off after its headers leaves the run waiting, and its lock
  taken, until a restart (`fiscal/dfe/dfe-client.service.ts:180`), where the plan
  says that the number reaches the last document
  (`src/docs/plano-integracao-fiscal.md:86`);
* a cancelled summary that comes after the complete document is skipped
  (`fiscal/import/fiscal-import.service.ts:174-176`; `schema.prisma:2634` says a note
  cancelled in the summary does not wait to be reconciled), and so is an event
  that is processed before its note;
* `fiscal/fiscal-integration.controller.ts:131-133` says that the button processes
  again what failed; `processPending` reads FORWARDED documents only, and one that
  failed stays in ERROR: so do the documents of a note that somebody typed without
  its key;
* what the reconciliation wrote in a note is "nunca mais alterado"
  (`schema.prisma:2647`); two reconciliations at once of a note without series make
  two debts, the second in place of the first (`conciliacao/.../inbound-invoices.service.ts:663`),
  and a cancellation of the note overtakes a reconciliation;
* the invoice of a reconciled note is removed in Finance
  (`financeiro/invoices/invoices.service.ts:192`) and leaves the note reconciled and
  the accounts where they are;
* a PATCH of the status cancels an order without its cascade
  (`compras/purchase-orders/purchase-orders.service.ts:635`), and the accounts of its
  notes stay open; the comment at `:697-702` says why they must not. `Standing` takes
  such orders out of `DebtIsOfTheNote`;
* an order is edited below what was reconciled with it, or passes to another
  supplier.

Sessions:

* of two resets of the password one, `POST /users/:id/reset-password`, revokes no
  session (`configuracoes/users/users.service.ts:228`);
  `administracao/users/system-users.service.ts:355-358` says of the other why it must.
  Until the next change (`kept`) `OpenedWithThePassword` promises nothing;
* the change of the password does not look at the company and answers with a new
  session (`auth/auth.service.ts:251`), again and again within the life of an access
  token; `:224-225` says that a suspension ends open sessions. `ClosedWithinTTL`
  leaves out who does so (`reopened`);
* a login or renewal past its checks when the password changes gets a session all
  the same (`:214`).

## 8. What is not modelled, and why

`PROJECT.json` gives the reason per component. In short: a component is out when
its handlers write one row that no other rule reads (CRUD), when it only reads,
or when it is layout or cryptography. The bank slips (`financeiro/bank-slips/`)
are pure functions over digits that no handler calls yet. Compositions are not
nested and budget groups never change their parent, so there is no cycle to
look for in either.

Within what is modelled, one request, one site, one employee, one report, one
budget, one company's documents or one user stands for all: the locks and the
rules are per such aggregate, and tenants do not share rows. Permissions appear
where a rule depends on them (approver, administrator of reports); elsewhere any
client may call anything. Attendance covers one month and payslips one row; the
fiscal documents have no content but their note and kind; access tokens are not
revoked, in the code as in the model.

## 9. Plan

1. As theorems: that `FiscalSync` with no fault left loses nothing more, the
   safety half of `EveryDocumentArrives`.
2. The order of budget groups (`moveNode`, `updateNode`) and of the lists of a
   report under two calls.
3. `InboundNotes` composed with `Payables`, which share the invoice, and
   `FiscalSync` with the importer, which share the documents.
4. Pure algorithms against reference definitions: the digits of bank slips once
   something calls them, BDI, the price of a composition.

Instances stay below five minutes on two cores.
