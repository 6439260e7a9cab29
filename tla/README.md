# A verification project for RootLco

RootLco is the backend and web front end of a workshop-management system: vehicles are received,
inspected, worked on, invoiced, paid for and handed over, by many tenants on one PostgreSQL database.
The rules live in two places: SQL functions, triggers and constraints (`src/supabase/migrations/`),
and the service classes of the API (`src/apps/api/src/modules/`), which call them inside one database
transaction per request. A separate worker process delivers events from a transactional outbox. The
web front end (`src/apps/web/`) renders and calls the API.

Everything interesting about the system's correctness is therefore of one kind: transactions at READ
COMMITTED, each reading some rows without a lock, taking some row locks in some order, and committing
or rolling back, and a worker that may die between any two of them. The models in this directory are
of that kind. A **request** is a transaction with a program counter; each unlocked read that is used
later and each wait for a lock is a step of its own; what is written under the last lock becomes
visible in one step with the commit.

1. [Inventory](#1-inventory)
2. [The modules](#2-the-modules)
3. [What the runs check](#3-what-the-runs-check)
4. [What is proved](#4-what-is-proved)
5. [Where code and documentation disagree](#5-where-code-and-documentation-disagree)
6. [What is not modelled](#6-what-is-not-modelled)
7. [Work left](#7-work-left)

## 1. Inventory

`PROJECT.json` lists every component with its source files. What each keeps, does and must get right
(components with a module are marked `*`):

### The ground everything stands on

| Component | State | Operations | Hard behaviour | What makes it correct |
|---|---|---|---|---|
| **Event outbox and worker** `*` (`apps/api/src/server/worker`, migration `20260718106000`) | `shared.event_outbox` (status, attempt count, lease), `shared.processed_events` (markers), `shared.error_records` | `publishEvent`, `claim_outbox_events`, `runConsumer`, `complete_outbox_event`, `fail_outbox_event`, `recordDeadLetter`, `stop` | several workers, leases that lapse under a slow task, lost answers, crashes between transactions, redelivery | an event's effects happen at most once per consumer; it is published only when all have happened; every event ends published or dead-lettered; a dead letter is reported |
| **Transactions** `*` (`server/db`) | connection pool, the transaction of a request | `withTransaction`, optimistic `record_version` updates | rollback at any point | all or nothing; a version is never written over |
| **HTTP pipeline and idempotency** `*` (`server/http`) | `shared.idempotency_keys`, rate limit counters | `withIdempotency`, `resolveRace`, route handler | two requests with one key at the same time; a retry of what already happened; a lost answer | one execution commits per key; the loser gets the winner's answer, and only if it asked the same |
| **Event catalogue** (`server/events`) | none | payload validation | – | – |
| **Cache** (`server/cache`) | in-process entries with a TTL, loaders in flight | `getOrLoad`, `delete`, `deleteNamespace` | an invalidation while a loader is running | a value older than its invalidation is not served after it |
| **Audit** (`server/audit`) | append-only rows | `recordAudit` in the caller's transaction | – | commits or vanishes with its cause |
| **Errors, health, configuration** | `WORKER_ID`, `OUTBOX_*` settings | – | equal defaults in every process | distinct workers have distinct ids |
| **Row level security** | policies | – | – | predicates on rows; tenants do not meet |

### Shared services

| Component | State | Operations | Hard behaviour | What makes it correct |
|---|---|---|---|---|
| **Message dispatch** `*` | `outbound_messages` (pending, queued, sending, sent, delivered, failed, cancelled), `delivery_attempts` | `promotePending`, `dispatchOne`, `failWith`, `retry`, `deadLetter` | the transaction stays open while the provider is called: the provider may answer after the timer, or take a message whose record is rolled back; budgets and attempt numbers are chosen before the row is locked | one delivery is recorded; nobody gets a message twice unless an answer was lost; a refusal is final |
| **Number sequences** | `number_sequences` (next value, period) | `next_display_number` under the row lock | rollback, period boundary | unique, gapless per committed document, no regression |
| **Documents, templates, transitions** | versions, scan results, legal holds, template approvals | one-row lifecycles | – | no version changes after approval |

### The workshop

| Component | State | Operations | Hard behaviour | What makes it correct |
|---|---|---|---|---|
| **Reception and appointments** | visits, authorizations, custody, signatures; appointments | check-in, capture, authorize, convert to a work order | two conversions at once | one work order per visit; custody is never held twice |
| **Work orders and jobs** `*` | work orders, jobs, states and transitions as data, assignments, additional work | create, transition, assign, request more work, close, rework | the closure gate reads jobs, labour, additional work, diagnoses, quality control and rework one after the other, with only the work order locked | nothing changes under a closed work order; what the closure saw still holds |
| **Labour and technicians** `*` | `labor_sessions`, skills, availability | start, stop, correct | the job's state is read before the work order is locked | at most one running session per technician; no labour on a closed order |
| **Quality control and rework** `*` | inspections, rework links | open, finalize, create rework, sign off | an inspection is opened on an order that is being closed | who led the work does not sign it off; a finalized result stays |
| **Diagnostics** `*` (whether, not what) | reports, template versions | capture, review, publish | a report completes beside a closure | a completed report stays completed |
| **Quotations** `*` | quotations, revisions, lines, decisions | create, revise, issue, decide, expire; cited by additional work, billed by the invoice | decisions racing each other, a new revision, the sweep and the clock | the status is what the decisions roll up to; what was relied on stays accepted |
| **Pricing, service catalogue** | price list versions, rules | publish, resolve by date | – | one price applies |
| **Parts stock** `*` (`modules/inventory`, migrations `20260723094000`, `20260723095000`) | `stock_balances` (on hand, reserved), `stock_reservations`, `stock_movements`, `part_issues`, `part_returns`, opening batches, adjustments | reserve, release, issue, return, damage; opening, adjust | lost races for the last unit, expiry inside another request, status read before the balance lock, lock order | no unit promised twice, lost or minted; a reservation ends once; a completed work order holds nothing |

### Money and handover

| Component | State | Operations | Hard behaviour | What makes it correct |
|---|---|---|---|---|
| **Invoices** `*` (`modules/billing`) | `invoices`, `invoice_amounts`, `credit_notes`, `financial_events` | create, issue, void, request and approve a credit note | two creations, two reductions at once | one live invoice per work order; never reduced below zero |
| **Payments** `*` (`modules/payments`) | `receipts`, `payment_allocations`, `receipt_reversals` | record, allocate, reverse | one receipt spent twice; a reversal under an allocation | a receipt is never spent beyond its amount; the ledger yields the balance |
| **Delivery** `*` (`modules/delivery`) | `delivery_records`, checklists, receivers, signatures | prepare, complete, override | the balance is read without a lock | what left without an override was paid |
| **Warranty** | records, coverage | activate, claim | – | a record is frozen once active |

### People and tenants

**Customers**, **vehicles** (record keeping, merges of duplicates, histories with periods that must not
overlap), **identity, sessions and authorization** (accounts, sessions, grants; expiry and revocation),
**tenants and platform** (the tenant status graph), **reporting and meta** (read only) and the **web
front end** (rendering). Their rules are mostly uniqueness constraints and one-row lifecycles.

### How they interact

Services call one another only through module indexes and always inside the caller's transaction, so a
request that touches parts and the work order is one commit. The database is the only shared state:
row locks order what must be ordered and CHECKs, unique indexes and triggers refuse the rest. Events
leave a transaction as rows of the outbox; the worker hands them to consumers, one transaction each.
Nothing calls back.

The hazards found while reading, each at its line and with the properties aimed at it, are the
`hazards` of `PROJECT.json`.

## 2. The modules

| Module | Models | Checked by | Proved in |
|---|---|---|---|
| `EventDelivery` | what the outbox promises: each event is committed, answered by its consumers, published once all have, or given up | (property of `outbox_one`) | `OutboxProofs` |
| `StockBook` | what the stock service promises: each request that succeeds is one entry, decided on the tables as they are | (property of `stock_safe`) | `StockProofs` |
| `CustomerAccounts` | what the sal schema promises: balances as if they were kept, each request one posting that overdraws nothing | (property of `receivables_safe`) | `ReceivablesProofs` |
| `WorkOrderFile` | what the workshop promises: each request that succeeds is one entry in the files, decided on them as they are then | (property of `workshop_safe`) | `WorkshopProofs` |
| `CommandStore` | what the pipeline promises of keyed commands: one at a time, each answered in the step in which it takes effect | (property of `idempotency_safe`) | `IdempotencyProofs` |
| `Outbox` | the event outbox, its worker processes and the consumer registry | `outbox_*`, with `MCOutbox` | `OutboxProofs` |
| `StockLedger` | reserve, release, issue, return and damage of parts, with their locks; completion of the work orders | `stock_*`, with `MCStock` | `StockProofs` |
| `Receivables` | invoices, receipts, allocations, credit notes, reversals and the handover | `receivables_safe`, with `MCReceivables` | `ReceivablesProofs` |
| `Workshop` | work orders, jobs, assignments, labour, additional work, diagnoses, quality control, rework, and the closure gate | `workshop_*`, with `MCWorkshop` | `WorkshopProofs` |
| `Quotation` | quotations, revisions, decisions, expiry, and who relies on an acceptance | `quotation_safe`, with `MCQuotation` | `QuotationProofs` |
| `Idempotency` | the Idempotency-Key and the expected record version of a command | `idempotency_safe`, with `MCIdempotency` | `IdempotencyProofs` |
| `MessageDispatch` | outbound messages between the dispatcher, its rivals and a provider | `dispatch_*`, with `MCDispatch` | `DispatchProofs` |
| `SumTheorems` | nothing: facts about `SumFunctionOnSet` (sums over finite sets) | – | itself |

`PROJECT.json` maps each definition to the lines it stands for. Definitions keep the names of the code
(`RecordDamage`, `OpenReceivable`, ...). A definition whose comment begins "Mutant of" is no part of the model: it is
a faulty variant of the definition below it and serves to show that a property can fail.

How the modules meet: `StockLedger.CloseWorkOrder` is `Workshop.FinishClose` seen from the parts desk, with the one
blocker that `Workshop` leaves out (open commitments of parts); `Quotation.BeginBill` is what `Receivables.CreateInvoice`
bills, and `Quotation.FinishCite` what a customer's approval in `Workshop.Decide` may name; every command of
any module runs inside the pipeline of `Idempotency`; events go to `Outbox`. Each module
assumes of its neighbours only what it says they do (a work order may close at any time, say), so
a property of one holds whatever the others do.

### Outbox

`outbox[e]` is a row of `shared.event_outbox` (status, attempt count, claimant); time appears as two
sets, `due` (pending rows whose `available_at` has passed) and `stale` (claimed rows older than the
lease). `processed[c, e]` is the marker in `shared.processed_events`, `effects[c, e]` counts the commits of
consumer `c`'s side effects, `error_records[e]` the rows of `shared.error_records`. `proc[w]` is the life of a worker
process (up, stopping, down) and `current[w]` the batch its loop awaits. The claim that raised
`attempt_count` to n is the task `<<e, n>>`, with a program counter that follows `processOutboxBatch` and
`runConsumer`:

    queued -> run -> mark -> commit -> run (next consumer) -> ... -> done
                any error -> fail -> done | record -> done | rejected
                process exits or dies -> gone

Every call to the database is an action of its own that may succeed, be refused, fail, or commit while
its answer is lost. A marker that another transaction has inserted and not yet committed makes `InsertMarker`
wait, as the primary key does. `OwnsClaim` is the WHERE clause of complete and fail, which knows the
claimant and not the claim. `stop()` ends polling, and the process may exit with tasks still running.

Named bounds: `MaxClaims` (how often one row is claimed, so that `attempt_count` is finite), `MaxFaults`
(faults in a behaviour). `FaultKinds` says which kinds an instance may meet: `crash`, `stop`, `slow` (a worker
outlives its lease), `db`, `ack` (a lost answer), `record`, and `unique` (a handler's own unique violation).

### StockLedger

One quarantine cell and any number of sellable ones. `on_hand`, `reserved`, `reservation`, `issue` are
the tables; `lapsed` the reservations whose expiry date has passed; `open` the work orders that
accept parts, `completed` those closed with the certificate of completion; `events` the event keys published.
`tx[s]` is the transaction of connection `s` and
`held[s]` its locks, `<<mode, row>>` with the conflict table of PostgreSQL restricted to the modes in use (`FOR
UPDATE`, the lock of an UPDATE, and the `FOR KEY SHARE` of a foreign key). The lock on a work order is
held from `requireWorkOrderAcceptingParts` to the commit. A request's steps are
`Begin… → InsertIssue | LockIssue → LockCell → FreeReservations → finish`, or `Rollback` at any point.
Reservation ids follow the order in which requests *begin*, as `created_at` does, not the order in which they commit.
A reservation that a damage frees is locked and changed at `FreeReservations`, where the SQL function's UPDATE runs;
`freed` carries the ids to the commit, where the change becomes visible, and the events are published for the ids
that the service read before. `CloseWorkOrder` waits for the lock of the work order, counts what it holds and
completes or cancels it; a cancellation counts nothing.

### Receivables

The open balance of an invoice and the rest of a receipt are derived, as in
`sal.invoice_open_receivable` and `sal.receipt_unallocated`. Allocations are kept per receipt and invoice;
`booked` sums the immutable `financial_events` by type. Two-lock requests (`AllocatePayment`,
`ApproveCreditNote`) and requests that look before an insert (`CreateInvoice`, `RecordPayment`) are several
steps; those fully covered by one lock are one. `CompleteDelivery` locks only the delivery record and
reads the balance with no lock at all, as the code does.

### Workshop

`state[w]` is the work order's state, `job`, `assignment`, `labour`, `request`, `diagnosed`, `inspection` and `rework`
the tables around it (only open assignments and running labour are kept, since nothing decided here looks at the
rest). The catalog of states, their flags and the transition graphs are rows of tables in the code and
constants here (`WoGraph`, `WoTerminal`, `TakesJobs`, `JobGraph`, `LabourAllowed`, ...), so the theorems hold for every catalog a
tenant may configure. A request that decides under the locks it needs is one action that waits until they are
free. One that reads before it locks is several, kept in `tx`: the closure (which holds the work order and asks for its
six blockers one statement at a time), a job transition and an assignment (which hold the job), the start and the
correction of labour (whose trigger reads the job's state before it locks the work order), and the
opening of diagnoses and inspections (which read the work order with no lock). The locks held are those `tx` implies.

### Quotation

`quotation` with its status and current revision, `revision` with its status and lines, `decision` per revision and line, `lapsed` for
the clock, `cited` and `billed` for what relies on a revision. Every command locks the quotation before it reads what it decides
on, so most are one action. The transactions with steps are those that compare `expires_at` with their own start
(`decide`, `cite`: `past` is the set of revisions expired when they began), the sweep, which lists its
candidates without locks and then locks one quotation after the other, and `create` and `bill`, which read before they
insert.

### Idempotency

`pc[r]` follows a request through `handleOperation` and `withIdempotency`: `new -> execute -> store -> commit -> done`,
with `raced -> done` for the one whose insert of the key found another's row. The resend of a client is a
request of its own with the same `Asks`. `Abort` is a rollback at any point, `Commit(r, FALSE)` one
whose answer never arrives. The fingerprint `print` covers tenant, principal, route and body, and not the
`If-Match` header, as in the code.

### MessageDispatch

`status`, `retries` and `attempts` are the committed rows, `call[w]` the open call of a worker with what it read before it
had the row. Each call is one transaction that stays open while the provider is called, so `sending` and `sent` are never
seen by others and a crash leaves a `queued` message. `taken` counts how often the provider took the message, `unrecorded` how often
without an attempt to show for it, `late` the calls that were given up and may still be served. Named
bound: `MaxTries` (attempts and calls after which a message is not looked up again).

## 3. What the runs check

Every cfg sets `CHECK_DEADLOCK FALSE`: requests, claims and documents are finite in number, so a
behaviour may end.

| Run | Instance | What it shows |
|---|---|---|
| `outbox_one` | 1 event, 2 subscribers, 2 workers with ids of their own, 2 attempts, 2 faults of any kind | effects once, every attempt past the ceiling paid for by a fault of its own, error records true, a row in two tasks' hands only after the older lease lapsed or beside an orphan, terminal rows stay; `Outbox` implements `EventDelivery` (384,000 states) |
| `outbox_fair` | 2 events in batches of 2 on one runner, one without subscribers and one of a schema version its second subscriber does not know; 2 faults, unique violations included | every committed event is eventually published or dead-lettered (63,000 states) |
| `stock_safe` | 2 connections, 1 cell of 2 units and the quarantine, 2 work orders, 1 key, 3 requests | balances coherent, units conserved, nothing held by a completed work order, waits lead forward but for a release; `StockLedger` implements `StockBook` (363,000 states) |
| `receivables_safe` | 2 connections, 1 work order, 2 invoices, 2 receipts, 1 credit note, 1 key, gross 2, amounts 1 and 2 | no overpayment, no receipt spent twice, the ledger agrees with the documents, one live invoice; `Receivables` implements `CustomerAccounts` (113,000 states) |
| `workshop_safe` | 2 connections, 1 work order, 1 job, 1 technician, 2 assignments, 1 labour session, 1 request, 1 inspection | the closure sees what cannot be undone, nothing reaches a terminal order; `Workshop` implements `WorkOrderFile` (531,000 states) |
| `workshop_rework` | 2 work orders (an original and its rework), 2 technicians, 2 inspections, 1 connection | the same closure for a critical rework: independent sign-off, its own quality control |
| `dispatch_safe` | 1 message, 3 workers, 2 attempts, at most 5 tries | one delivery recorded, duplicates have a lost answer behind them, refusals final, the retry budget overrun by no more than the workers allow (137,000 states) |
| `idempotency_safe` | a command, its resend, its key with another body, a rival and a follower on the same record | answers true, no lost update; `Idempotency` implements `CommandStore` (9,000 states) |
| `quotation_safe` | 2 connections, 1 work order, 2 quotations, 2 revisions, 2 lines | status and decisions agree, answers stand, what is relied on is accepted (782,000 states) |
| `outbox_crash_loop`, `stock_consumed_twice`, `dispatch_budget` | smaller | one documented claim each that the code does not keep, see [section 5](#5-where-code-and-documentation-disagree) |

**Why the bounds are enough.** *Outbox*: the protocol treats events independently except
for the batch, so one event with two workers shows every race on a row, and two events on one runner show
the batch. `MaxClaims = MaxAttempts + MaxFaults`: each fault can cost one claim that counts no
failure, and the theorem `ClaimsNotCut` says that no row is ever kept from being claimed by it. *Stock*: each hazard is a race of two open
transactions; three requests are a reservation and two requests that race for it, and with two
units and quantities 1 and 2 a cell can be exactly exhausted. *Receivables*: ids are finite and no request counter is
needed; two receipts of 1 or 2 against a gross of 2, plus a credit note, give every pair of concurrent
reductions, the exact fit and the excess by one. *Workshop*: a race for the closure needs the closure and one other
transaction; each blocker needs one row to appear behind it, and reassignment two. *Dispatch*: three workers are
a winner, a late dispatcher and a retry that read before either; five tries let a message use its budget, exceed it
and be taken late. *Idempotency*: two twins race, a third request reuses the key, and two commands with their own keys
expect the same and the next version. *Quotation*: two lines are decided by two transactions, a second revision supersedes the
first, and a second quotation gives a second source to bill. The theorems of section 4 hold without these bounds.
Sessions, work orders, receipts and invoices are
symmetric where the cfg says so; symmetry is used in runs without liveness only.

**Fairness** (`FairSpec`, `outbox_fair` only). Due times pass and leases lapse because time does; an idle worker polls
because `run()` loops; the claim takes the longest-due rows because the SQL orders by
`available_at`; each task of a running process gets some answer to each call because calls have statement
timeouts; a stopped or crashed worker starts again because a supervisor restarts it. No fairness is assumed of faults, and the
number of faults is bounded, without which nothing could be promised. The other modules state no fairness: people drive
them, and nothing in the repository schedules the message dispatcher or the expiry sweep, so nothing there must
eventually happen.

**Mutants.** For each property of a passing run `PROJECT.json` names a definition and a faulty variant
of it under which TLC finds the property violated in that same instance.

## 4. What is proved

TLAPS checks every theorem below for every value of the constants: any number of workers, connections, rows and
requests, any amounts, any catalog of states. The assumptions are the ASSUMEs of the modules, which only say what the constants are
(finite sets where sums are taken, NULL outside the sets, edges of a graph between its states). Every invariant was
checked by TLC on the run's instance before it was proved. The bounds of a model (`MaxClaims`, `MaxTries`) are constants too,
and a theorem holds for all of them.

Each proof module has the same shape. The inductive invariant is a conjunction of named parts, stated at the end of
the module it is about; one lemma per action shows that it keeps them; the theorem combines them by PTL.

### Outbox

| Theorem | States |
|---|---|
| `TypeCorrect` | `Spec => []TypeOK`, with the table's CHECKs |
| `EffectsHappenOnce` | `Spec => []EffectOnce`: at most one commit of a consumer's effects per event, whoever redelivers it |
| `AttemptsCounted` | `Spec => AttemptsOnlyGrow` (proved, and no longer run) |
| `SettledForGood` | `Spec => TerminalForever` |
| `PublishedMeansProcessed` | `PublishedProcessed`, if handlers cause no unique violation of their own (proved, and not run: the refinement says it too) |
| `OverrunsArePaid` | `Spec => []PaidByFaults`: attempts go past the ceiling only as often as faults have struck |
| `ClaimsNotCut` | with `MaxClaims >= MaxAttempts + MaxFaults` a claimable row is always below `MaxClaims`: the bound cuts off nothing |
| `OneOwner` | `Spec => []NoDoubleOwnership`, if every worker has a `WORKER_ID` of its own (`OwnClaimants`) |
| `ReportsAreTrue` | `ErrorRecordTruthful`: a dead letter is reported at most once, nothing else ever is |
| `OutboxImplementsDelivery` | `Spec => EventDelivery` under the refinement mapping, under the same condition |

*EffectOnce* is not inductive: a commit adds an effect, and only the marker it holds says that nobody
else is about to. The invariant is `TypeOK /\ OneOpenMarker /\ EffectOnce`, where `OneOpenMarker` is
the primary key of `processed_events` at work: of all tasks at `commit` at most one has a given key, and no marker of
that key is committed yet.

*PublishedProcessed* needs to know how far a task has come. `MarkersSoFar` says that a task at its k-th
subscriber leaves committed markers of all before it; `DeliveredInv` adds it to the above. A unique violation
inside a handler breaks it, hence the condition `"unique" \notin FaultKinds`.

*ErrorRecordTruthful* needs `OneReporter`: the worker decides by the attempt number it was given with
the claim, the database by the one it counts. No live task has a later number than its row, so a worker that
expects a dead letter is right; and `fail_outbox_event` answers success to the owner of a claimed row only, so one
task reports.

*NoDoubleOwnership* is about what nobody locks: a row is handed out for a lease, and its worker goes on after the transaction that
claimed it. `Held` says that a task finds the row as it was handed it unless its lease has lapsed; against it work the
other tasks of the same worker, which `complete` and `fail` cannot tell apart. `Awaited` says that a worker awaits the batch of each
task, so two of its tasks on one row can only exist if the older one was orphaned: a dead-letter report that throws
(`outbox-worker.ts:185` is a `Promise.all`) ends the wait for the whole batch. That is the second exception in the property. `Handed` says that the
tasks of a claim are new.

*PaidByFaults* has the invariant `Paid`. Only `fail_outbox_event` looks at the ceiling, so a claim that nobody
fails raises the count for nothing. `Paid` says that the claim of a row at the ceiling is in good hands (its lease runs, its
worker is up and awaits it), so that it ends the row, or a fault that has not been counted yet took it out of
them. What `outbox_crash_loop` shows to have no limit is thus limited by the faults, one attempt each.

The refinement maps the row and the markers to the abstract delivery, and claims, leases, retries, crashes
and polls to stuttering. Its invariant, `RefinementInv`, adds `AbsentUnclaimed` (a row that is not there counts no attempt).

### StockLedger

| Theorem | States |
|---|---|
| `StockTypeCorrect` | `Spec => []TypeOK`, with `on_hand` never negative |
| `ReturnsAreBounded` | `Spec => []ReturnsWithinIssue` (proved, and not run) |
| `KeysBookOnce` | `Spec => []OneReservationPerKey` (proved, and not run) |
| `OwnReservationsConsumedOnce` | `Spec => []OwnReservationConsumedOnce`: the case that the run `stock_consumed_twice` shows to fail without a work order |
| `CompletionSound` | `Spec => []CompletedHoldsNothing` |
| `EndedForGood` | `Spec => TerminalStatus` (proved, and not run) |
| `FittedWhileOpen` | `Spec => IssuedWhileOpen` (proved, and not run) |
| `BalancesCoherent` | `Spec => []Coherent`: what is reserved is the sum of the active reservations and lies on hand |
| `UnitsConserved` | `Spec => []Conserved`: what lies in the cells and what is fitted is what was counted |
| `ReleasesAnnounced` | `Spec => []ReleasedNotActive`, from `Announced`: what a damage saw when it began has been booked by then |
| `StockIsABook` | `Spec => RequestsAreEntries`: every step is an entry of `StockBook` or writes nothing |
| `OnlyReleasesDeadlock` | `Spec => []WaitsForward` |

None of these is inductive: each depends on a value that a transaction read some steps ago and on a lock that keeps it
true. The invariant `StockInv` (at the end of `StockLedger`) says which. `Carried`: an open transaction still `Relies` on what it read
(an issue on its open work order, and so on) and holds the lock that makes this safe.
`Locked`: no two transactions hold conflicting locks, and a reservation locked for a change is still
active. `Numbered`: the id of an open request is in no table yet. `Consumes`: an
issue's reservation is consumed. `Settled`: a completed work order is closed and holds nothing. The proof has a lemma for the beginning,
for a further step and for the end of a request (`RequestKeeps`, `AdvanceKeeps`, `FinishWrites`); the
last reduces the five ends of a request to one shape, `Wrote`: a reservation is booked or ended, an issue is
fitted or partly taken back, under locks, and the locks are given up.

The sums stand on a second layer, `Counted`, over `StockInv`. `Placed` says what the balances rest on: a transaction past `LockCell` holds
the balance of its cell, the reservation it names lies in that cell, and what a damage leaves reserved is covered by what it
leaves on hand. The last is the claim of `free_reservations_for_loss` (lemma `FreedEnough`): it gives up whole reservations from the newest on, so the
oldest one it would keep tells that the newer ones make up the loss. Every request then leaves a cell alone or has its balance to
itself (`CellsChange`), and units move between two terms of the sum (`SumChange` of `SumTheorems`).

*RequestsAreEntries* compares each commit with the tables as they are at that moment, where the code compared them with what it read
some steps before. A third layer, `Brought`, says that the two agree: what a request has found lapsed still is, what a
damage chose to give up it would choose again, a reservation still covers the issue it backs. `StockBook` allows what the
code allows: a reservation without a work order may back a second issue once it is consumed (`Backs`), which
is the case of `stock_consumed_twice`, and it takes only what nobody else was promised.
*WaitsForward* rests on `Holds`, which says which locks a transaction can have by how far it has come. All take a balance before
rows and rows before the quarantine, so whoever waits does so for a transaction that is further on; only a release has its
reservation before it asks for the balance.

### Receivables

| Theorem | States |
|---|---|
| `ReceivablesTypeCorrect` | `Spec => []TypeOK` |
| `BalancesAreKept` | `Spec => BalancesAreAccounts`: every step is a posting of `CustomerAccounts` or changes no account |
| `NeverOverpaidAlways` | `Spec => []NeverOverpaid` |
| `ReceiptsSpentOnce` | `Spec => []ReceiptSpentOnce` |
| `LedgerYieldsBalance` | `Spec => []LedgerAgrees`: the sums of the immutable events give the sum of what is open |
| `OneInvoicePerWorkOrder` | `Spec => []OneLiveInvoice` |
| `NothingLeavesUnpaid` | `Spec => []HandedOverPaid`, although the balance is read without a lock (proved, and not run: the refinement says more) |

The invariant adds to the properties `Documented` (allocations, credit notes and reversals name documents that exist and are in a
state to be named), `Carried` (what an open transaction has read still holds as far as it `Relies` on it) and
`Exclusive` (no two hold the same row). A step of one transaction must leave the cover of every other alone: each action's
lemma shows `Kept`, made of the money that stays sound, of the cover that lasts (`CoverLasts`) and of every other
open transaction that is spared (`Spares`). Balances are sums over sets of documents. They move by one term with each step
(`BalanceMoves`, `RestMoves`), and a reversal by a whole receipt's allocations at once (`SumPlus`). Those facts about sums
are in `SumTheorems`: a sum over a finite set is unchanged where its terms are, moves by what one term moves by, is monotone,
and splits over a part of the set. They are proved by choosing a smallest set for which the fact fails, which first-order
provers can follow where an induction rule with an operator parameter is beyond them.

The refinement keeps as variables what the code derives: what is open on an invoice, what is left of a receipt. A posting
checks these at the moment it is made (`Pay`: the amount fits both), the code under a lock it took before; `Relies` is what
bridges the two. For the handover the abstract specification has a moment of its own, `Clear`, at which the invoice is
issued and nothing is open; a reversal may come between it and the end of the request, so nothing is promised about the
balance at the end. `Posted` adds to the invariant that invoices bill work orders, that amounts are those which were named, and that an
open handover has the delivery record to itself, so that `Cleared` means what one session found.

### Workshop

| Theorem | States |
|---|---|
| `WorkshopTypeCorrect` | `Spec => []TypeOK` |
| `ClosureSound` | `Spec => []ClosedComplete` |
| `PrimaryUnique` | `Spec => []OnePrimary`: the lock on the job suffices, without the unique index (proved, and not run) |
| `TerminalStaysFrozen` | `Spec => TerminalFrozen` |
| `WorkshopIsAFile` | `Spec => RequestsAreAtomic`: every step is an entry of `WorkOrderFile` or writes nothing |
| `LabourWaitsForCustomer` | `Spec => SettledBeforeLabour` (proved, and not run: the refinement says it too) |

The closure asks for its blockers in six statements, and the last answer is given long after the first. `PassedHolds` says that
a blocker once passed stays passed while the closure has the work order locked: a new job, a labour session, a request must wait for that lock, and a
finished job, a completed diagnosis, a passed inspection and a sign-off cannot be taken back. `ReadHolds` is the same for what a job transition or an
assignment read, `TxOK` and `Referenced` say that what transactions and rows name exists, `Exclusive` that locks exclude.

*RequestsAreAtomic* maps a transaction to its end: what it reads before is stuttering, and the end is one entry decided on the
tables as they are then. So all six blockers must be absent at once when a closure commits (`PassedComplete`), a job transition must
follow an edge of the job's present state, and a reassignment must replace the primary there is. `EdgesHold`, an
invariant on top of the one above, says that what was looked up at the beginning still holds at the end. A job transition and an assignment
have no lock on the work order; that it is not closed under them follows from the first blocker, since the job they hold is not
finished (`HeldGoesOn`). `WorkOrderFile` promises no more than the code keeps: it lets a job go on in a cancelled work order, lets a diagnosis
or an inspection come after the end, and does not tie running labour to the state of its job
or a job's state to its assignments, since the code checks these when it begins and not when it commits.

### Idempotency, MessageDispatch, Quotation

| Theorem | States |
|---|---|
| `IdempotencyTypeCorrect`, `DispatchTypeCorrect`, `QuotationTypeCorrect` | the type invariants; with them that `sending` and `sent` are never committed |
| `CommandsAreAtomic` | `Spec => AtomicCommands`: every step is one of `CommandStore` or is seen by nobody |
| `OneExecutionPerKey` | `Spec => []AtMostOnce` (proved, and not run: the refinement says more) |
| `AnswersAreTrue` | `Spec => []AnswersTrue`: every success that is told is a committed execution of the same request |
| `UpdatesAreSerial` | `Spec => []NoLostUpdate` |
| `OneDeliveryRecorded` | `Spec => []LedgerAgrees` |
| `NoUnexplainedDuplicate` | `Spec => []DuplicatesExplained` |
| `RefusalsAreFinal` | `Spec => []RefusedForGood` |
| `OverrunBounded` | `Spec => []OverrunByWorkers`: the retry budget is overrun by at most one retry for every two other workers |
| `TwoWorkersKeepBudget` | `Spec => []RetriesWithinBudget` if there are at most two workers: `dispatch_budget` needs three |
| `StatusFollowsDecisions` | `Spec => []StandingAgrees` |
| `ReliedRemainsAccepted` | `Spec => []ReliedOnAccepted` |
| `AnswersStand` | `Spec => AnswerStands` |

*CommandsAreAtomic* maps the committed keys to `executed` and the answers to `told`; what a transaction has locked or inserted
without committing is seen by nobody and maps to stuttering, and so does the loser of a race that goes back to look up what the winner stored.
*Idempotency*: `Locked` says that one transaction at a time holds a key or a record, that the key is free and the version the expected one until it
ends, and that a race has a winner; `Used` that versions grow past every one that was used. *MessageDispatch*: `RowLock`
says that the call in `sending` is alone with its message, and that the message is `queued` to everybody else; that is
what lets a budget read too early be harmless to everything but the budget. And to the budget it does limited harm: `Spent` counts the calls that still
go by a count within it (`Stale`), of which each further retry uses up two, the one that fails and the one that requeues. *Quotation*: `Carried` says what a
transaction may still rely on (a bill drawn up without locks relies on an acceptance, which nothing takes
back), `Locked` that what a sweep has checked cannot change before it commits, `Shaped` that drafts have no answers.

### Only model-checked

Liveness (`EventuallySettled`), because TLAPS does no ENABLED reasoning here.

## 5. Where code and documentation disagree

Three are runs that end in a counterexample; `PROJECT.json` quotes the lines.

| Run | What happens |
|---|---|
| `outbox_crash_loop` | Only `fail_outbox_event` looks at the attempt ceiling. An event whose worker dies while handling it is claimed for ever. |
| `stock_consumed_twice` | Two issues for different work orders consume one reservation that names none: both read `active` without a lock and the trigger lets `consumed` become `consumed`. With a work order named, its lock prevents this (`OwnReservationConsumedOnce` holds). |
| `dispatch_budget` | A dispatch and a retry decide by a `retry_count` they read before they had the row; together they carry a message past `OUTBOX_MAX_ATTEMPTS`. |

The others are stated in the modules, do not hold there, and are not among the runs; uncommenting one in the cfg of its
module shows the trace.

* `Outbox`: with the default `WORKER_ID` in two processes, a task whose lease lapsed finalises the other's claim
  (`NoDoubleOwnership` needs `Claimant` to be injective). With ids of their own it takes three events in a row: a dead-letter report fails
  and rejects its batch, a sibling task outlives its lease, and its own worker, which polls again, claims that row anew. When the
  old task then fails the row, the row is pending although the new task is at it, and another worker may claim it
  (`OlderOrphan`; two events, two workers and the faults `record` and `slow` show it). A crash between the dead letter and its error record, which are two
  transactions, loses the record and the alert (`DeadLetterAccountedFor`). A unique violation inside a consumer is read as
  "already processed" (`PublishedProcessed` fails with `"unique"`); the one consumer registered today cannot cause one.
* `StockLedger`: a reservation consumed or expired while `recordDamage` waits for the balance is published as released
  (`PublishedReleaseHappened`), and one made in that window is freed without an event (`ReleasePublished`).
  `release` takes reservation then balance, an expiry inside `reserve` and a damage take them the other way round
  (so the two may wait for each other; PostgreSQL ends one of them, which `Rollback` covers). `WaitsForward` says that
  no other wait is in vain.
* `Workshop`: a job may be paused or completed between the trigger's read of its state and the insert of labour
  (`LabourWhereAllowed`); an inspection may be opened on an order that was closed a moment ago
  (`InspectedBeforeRelease`), which matters only where no check is mandatory (`Lasting`).
* `Quotation`: a quotation is created for a work order that was closed meanwhile (`QuotedWhileLive`). Two quotations of a work order may both
  be accepted, after which it cannot be billed until one is resolved by hand, and no operation does that (`OneSource`).
* `Idempotency`: `idempotency.ts:21-23` and `docs/standards/scalability-and-backpressure-standard.md:90-92` promise the loser of a race
  the winner's answer. It gets that only if it comes as far as the insert of the key; a twin that waits for the record's row is told
  that the record has moved (`TwinsReplayed`).
* `message-dispatcher.ts:88-92` and `docs/phase-1/phase-1-15/notification-architecture.md:266` speak of a message left in `sending` by a crash. There is
  none: the transaction rolls back to `queued`, and the message may be sent again.
* `countOpenCommitments` counts every part that is fitted (`inventory-read-service.ts:376`), so a work order with a fitted part
  can be neither closed nor delivered; `docs/phase-1/phase-1-21/gate-record.md:305` records the gap.
* A credit note that is asked for again compares its amount with what is open before it looks for its key
  (`invoice-service.ts:1087`), so a replay that comes when less is open is refused instead of answered.
* A line can be added to an opening batch while it is approved: `inventory-intake-service.ts:638` reads the status without a lock, and
  `20260723095000:132` says "Frozen once the batch is approved".

## 6. What is not modelled

* In `Outbox`: the lifecycle of an error record after it is written, the handler's own work (a counter of commits stands for it), payloads
  (an event is valid or not). A batch whose first runner throws leaves the others running while the next batch is
  polled; that is modelled (`BatchSettled`) and `NoDoubleOwnership` says what it does to rows, but no property limits how many
  runners then exist.
* In `StockLedger`: opening batches, adjustments, the item catalogue, customer-supplied and external parts;
  `stock.movement.posted` events (unique per movement, nothing can race for them); the creation
  of a cell's balance row. `issue_part`, `approve_adjustment` and `expire_reservations` have no caller in
  the applications. A work order is open or closed for good.
* In `Receivables`: numbers, currencies, record versions, maker and approver (each can only refuse),
  payment methods, deposits, warranty split. The status `credited` is set by no code. Reversals are SQL functions no
  route calls yet; they are modelled because the balances are defined in terms of them. Of the delivery's
  blockers only the financial one is modelled; the others can only refuse.
* In `Workshop`: notes, priorities, estimates, blockers set by hand (they only refuse), queues, skills and rates, the content of diagnoses and
  checklists. A rework link without a lead is left out: it never asks for a sign-off.
* In `Quotation`: amounts, prices, discounts, evidence and numbers; record versions (each command names the current one). The limit of a
  sweep is never reached. `expireLapsed` has no caller and no code sets the status `cancelled`.
* In `Idempotency`: the rate limiter, authentication, the expiry of keys (no code deletes one).
* In `MessageDispatch`: rendering, channels, preferences, several recipients. The use of the dispatcher in autocommit, which its
  comments describe and no code does, is not modelled.
* Replays answered from an existing key write nothing and are a step in `Idempotency` only.
* Components without a module, with the reason for each, are listed in `PROJECT.json`: record keeping and one-row
  lifecycles guarded by one constraint each, reference data, rendering.

## 7. Work left

In the order of what each would add:

1. **OpeningInventory**: the batch whose status is read without a lock; two first movements of a cell.
2. **NumberSequence**: allocation under the row lock across periods and rollbacks.
3. **Reception**: conversion into one work order, custody, and the other blockers of a delivery.
4. **Cache**: the invalidation against a fill that is running; sessions and revocation; tenant status.
5. Abstract specifications of the quotation and of the message dispatch, and proofs that `Quotation` and `MessageDispatch`
   implement them, as the other five modules do theirs.
