# Praella WMS in TLA+

Praella WMS is a multi-tenant warehouse management system: a NestJS API over
Postgres (through Prisma) and Redis, and a Next.js dashboard. Every stock change
goes through one service that locks a row, decides, writes the row and appends to
a ledger; orders and transfers are documents whose transitions call it. What is
hard here is concurrency: handlers load a document, check it, and only then open
the transaction that writes it. The same holds around the stock: tokens are read,
then rotated; administrators and references are counted, then rows are deleted; a
page is read in several requests, then acted on.

This directory holds the specifications, the TLC models that check them and the
TLAPS proofs about them. `PROJECT.json` lists components, runs, mutants, findings,
hazards, theorems, and, for every definition, the source lines it stands for.

    tlc -workers 2 -config MCStockLedger.cfg MCStockLedger
    tlapm StockLedgerProofs.tla

Proofs are in the modules named `...Proofs` and in `StockLemmas`.

## 1. The system

Paths are relative to `src/apps/api/src/`.

| Part | State it keeps | Operations | What makes it correct |
| --- | --- | --- | --- |
| Stock ledger `stock/stock-ledger.service.ts` | `stock_levels`, `stock_movements` | `applyMovement`, `adjustReservation`, both through `lockOrCreateLevel` | never negative, never under what is promised, the ledger accounts for every unit, all or nothing |
| Stock service `stock/stock.service.ts` | none of its own | `adjust`, `recordMovement`, `setReplenishmentRule`, lists | calls the ledger in one transaction |
| Transfers `transfers/` | `stock_transfers` and items | `create`, `dispatch`, `receive`, `cancel` | the status says what has moved; goods are conserved |
| Sales orders `orders/sales-orders.service.ts` | `sales_orders` and items | `create`, `update`, `replaceLines`, `allocate`, `fulfill`, `cancel` | reservations are what open orders wait for; status follows lines; finished is final |
| Purchase orders `orders/purchase-orders.service.ts` | `purchase_orders` and items | `create`, `update`, `replaceLines`, `submit`, `receive`, `cancel` | no over-receipt; no receipt on a cancelled order; version checks |
| Bulk jobs `jobs/` | `bulk_jobs`, a BullMQ queue | `enqueueBulkStockAdjustment`, the worker's `process` with three attempts | each line is accounted for; the report is the ledger's; a job ends |
| Cache `cache/`, its readers `reports/` and `stock/` | Redis keys of an organisation | `remember`, `invalidateOrganization` | no stale entry outlives the write that made it stale, none its time to live |
| Sessions `auth/`, `apps/web/proxy.ts` | `refresh_tokens`, `password_reset_tokens`, cookies | sign-up, sign-in, rotate, sign-out, reset | one live token per session; a reset ends the sessions; the theft alarm has a cause |
| Organisations and members, invitations | `memberships`, `warehouse_members`, `invitations` | invite, accept, revoke, change role, assign, remove | an administrator remains; an invitation is used once; only staff are assigned |
| Warehouses, products, catalogue | their tables | create, update, bulk update, archive or delete | nothing that is referred to disappears |
| Access control `common/guards`, contracts `permissions.ts` | request context | role and warehouse checks | every route asks for a permission the role matrix grants |
| Dashboard `apps/web` | what a page has read | pages, buttons, bulk bar | what is offered is honoured |
| Exports `exports/` | the offset of a stream | `streamProducts`, `streamStockLevels`, `streamMovements` | nothing is missed or repeated without a change |
| Document counters, audit, notifications, observability, health, configuration, contracts | rows, logs | | section 7 |

How they interact. Transfers, orders, bulk jobs and the stock service all call the
ledger inside a Prisma interactive transaction; they share its rows and compete
for their locks. After the transaction each handler appends to the audit log and
drops the organisation's cache; a bulk job drops it once, at its end. Removals in the
catalogue meet movements and documents at the foreign keys, and take assignments of
members with them. The dashboard calls the API with the role and the lists it has
read; its proxy refreshes tokens on behalf of parallel page requests.

The hazards (interleavings, state checked outside a transaction and used inside,
partial failure, deadlock, retries of what was done, boundaries) are listed with
their lines in `PROJECT.json` under `hazards`, each with the properties that
cover it.

## 2. Plan

The order in which the modules were written: 1. `StockRows`, `StockLedger` with
`AtomicLedger` and its proofs; 2. `Transfers`; 3. `SalesOrders`; 4. `PurchaseOrders`,
with the lines of both kinds of order in `OrderLines`; 5. `OrgCache` and `BulkJobs`,
composed in `BulkJobsCached`; 6. `Sessions`; 7. `AccessControl`, `Catalogue`,
`Members`, `Dashboard` and `Exports`, composed in `Workspace`. The proofs followed in the
same order, each component's in a module of its own and those of `Workspace`'s parts in
one.

Every safety property of the plan is proved; section 5 says what stays with TLC.

## 3. The modules

### StockRows
Row arithmetic, no state. A *change* is what a caller hands the ledger; `RefusedOn`
is the decision on the row that was read, `RowAfter` and `LedgerRowsOf` what is
written. `Adjust`, `RecordIn`, `RecordOut`, `TransferOut`, `TransferIn`, `Ship` and
`Reserve` build changes exactly as the services do, `respectReservations` included.
`applyMovement` writes both columns and `adjustReservation` only `reservedQuantity`:
that is why `RowAfter` takes the row read and the row as it is by then.

### StockLedger
Transactions of several changes, statement by statement. The states of a request
(`pc`) are those of the code: `select` (the `FOR UPDATE`), `upsert` (product lookup
and the SELECT of the upsert), `insert`, `update` (the decision, the UPDATE, the
ledger row), `commit`.

- The database is READ COMMITTED, the default, which nothing in the repository
  changes. A request sees committed rows and its own (`Visible`). Locks are held to
  the end of the transaction (`lock`, `End`). A row that another open transaction
  has inserted is invisible, and its key is locked.
- An upsert whose `update` is empty is not sent as `INSERT ... ON CONFLICT`: the
  client issues a SELECT and, when that finds nothing, an INSERT. So the race to create
  a row ends either in a unique violation (`InsertConflict`) or in a row that was
  read without a lock (`FindUnlocked`). This is an assumption about the client
  library, and the only one the finding `first_movement` rests on.
- Refusals, unique violations, out-of-range values, deadlock victims, time limits
  and crashes all roll back the whole transaction (`Rollback`).
- `unlockedReads` is a history variable: the pairs some request read through
  `FindUnlocked`. Invariants that the race breaks are stated for the other pairs;
  `LevelsNonNegative` is stated for all of them.

### AtomicLedger
What the callers rely on: a transaction applies its changes one after the other to
the rows as they stand, or does nothing. `StockLedgerClaims` instantiates it
(`ImplementsAtomicLedger`): an open transaction maps to *running* wherever its steps
are, and `suspect` to `unlockedReads`. The abstract specification has no locks, no
copies and no lines in flight. It says nothing of a pair once it is suspect.

### StockLemmas
No part of the system: what the other proofs need of sums over finite sets
(`SumFunctionOnSet`), of the fold that applies a transaction's changes (`Applied`) and
of the lines of orders (`MoveLines`, `LinesLeft`).

### Transfers
`TransfersService` over two warehouses. A request is `Load` (load and
`assertStatus`, outside the transaction) and `Commit` or `Refuse` (the transaction,
one step because `StockLedger` implements `AtomicLedger`), with changes of other
services in between. `Fail` stands for every rollback the code does not decide.
`legs` is the ledger by transfer: one element stands for one ledger row per line.
`overtaken` records the transfers that were written by a request holding an older
version. `recorded` counts what other services brought in, for conservation.

### OrderLines
No state: what `resolveShipments` and `resolveReceipts` let through (`ItemsOf`,
`ItemsOK`), when a transaction still finds the lines it loaded (`StillThere`), what
it does to them (`MoveLines`), what a DELETE leaves (`LinesLeft`), and a sequence of
stock changes applied in order (`Applied`). The two services have this code twice,
line for line, with `fulfilledQuantity` in one and `receivedQuantity` in the other:
`moved` here.

### SalesOrders
`SalesOrdersService` on the rows of one warehouse (a line is known by its pair).
`allocate`, `cancel` and `update` are a load and one transaction step. `fulfill` is
a load, `ShipLines` (the lines, then the read inside the transaction, holding row
locks) and `CommitShipment` (the status that follows from that read). `replaceLines`
is a load, the moment its DELETE takes its snapshot (`SeeLines`) and the rest: lines
inserted in between survive the DELETE. `insertedAt` plays the part of a line's id.
`exposed` records the orders that were written by a request holding an older
version, or shipped by a request that named a line twice. Amounts, names and dates
are left out.

### PurchaseOrders
`PurchaseOrdersService`, with the same division: `update`, `submit` and `cancel` are
a load and one UPDATE (`WriteStatus`), `receive` is a load, `ReceiveLines` (the
goods, then the read that decides the status) and `CommitReceipt`, `replaceLines` a
load, `SeeLines` and `ReplaceLines`. `booked` is the ledger by order: the units of
the movements whose reference is the order, which is what "must continue to
reconcile" is about. Nothing else touches the rows, since no property relates a
receipt to the stock others move and the ledger modules cover that. `blind` records
the orders written by a request holding an older version, with the version its
client had sent; `repeated` the orders of which a request named a line twice.

### OrgCache
`CacheService` for one organisation and two of the keys it caches under: the
dashboard's summary, which contains the low-stock list, and that list, which is
cached by itself too. `remember` is a look-up (`LookUp`, `LookUpLowStock`), the
reads (`ReadRows`, `Absorb` when one fill takes the other's result) and the store
(`Answer`); `invalidateOrganization` is a SCAN whose batches are deleted one by one
(`StartScan`, `DeleteBatch`), and may fail at any of them (`AbandonScan`). Data is a
version number; `oldest` is the oldest version an entry was computed from. `settled`
is the newest write whose invalidation went through, and `excused` marks a fill that
was under way when an invalidation began.

### BulkJobs
`JobsService` and `BulkStockProcessor`. `CreateRow` and `Enqueue` are two steps, and
`EnqueueFails` leaves the row. A worker's run follows the loop: `Start`, one line at
a time (`ApplyLine`, a transaction of its own, or `FailLine`), `Progress` at the end
of a chunk, `Finish`, `Invalidate`, `Return`. BullMQ is external: a job is waiting,
active, completed or failed, is taken by one worker, is delivered again after an
exception (`attempts`) or a lost lock (`stalls`), and given up after the configured
number. A worker that has lost its lock is not stopped: it goes on beside its
successor (`LoseLock`). `applied` and `deliveries` are history.

### BulkJobsCached
The two together: a worker's lines commit and its invalidation is `OrgCache`'s;
other services write and invalidate; a reader fills. How much goes on at once is bounded
by constants: `Beside` (which jobs may be there when one is submitted), `Alone` (jobs
that have the cache to themselves) and `ServiceMax`, with `Quiet` and `Open` as the
guards. `Alone = {}` and `Beside = [j \in Jobs |-> Jobs]` leave every job, reader and
service free to run with every other.

### Sessions
One account's rows and the cookies of its browsers. A call is an HTTP request that
has reached the API, and each of its queries is a step. `LoadToken`, `RevokeFamily`,
`IssueNext`, `RetireToken` are `rotate`; `UseLink`, `SetPassword`, `EndSessions` are
`confirm`. The browser's side is the proxy: `LoadPage` decides whether to refresh,
`Answer` and `Deny` set or delete the cookies, `LoseApi` is a refresh the proxy
could not make, which it treats like a refusal. A lost answer, a crash and every
expiry count against `MaxUpsets`. An access token is only fresh or not. `troubled`
records the sessions whose calls overlapped, were lost or cut off; `crossed` the
tokens issued by calls that had their check behind them when all sessions were
revoked.

### AccessControl
No state: the role matrix, for every route of the API the permission its decorator
asks for, and the statuses from which and to which the routes move documents.

### Catalogue
Warehouses, products, categories and suppliers as rows with references. A removal is
the count (`StartRemoval`, with the refusals of each service) and then a deletion or
an archiving; a bulk update goes through its items one by one. In between,
movements, documents and other requests add references. `Delete` does what the
`onDelete` rules of the schema do: restrict, cascade or set to null. `asked` is what
the last request filed a product under.

### Members
Memberships, warehouse assignments and invitations, on the warehouses of
`Catalogue`. A member request loads, may count administrators, and writes: three
steps between which others run. An invitation is looked up, created, revoked and
accepted in the queries of the code. `lapsed`, `lax` and `raced` record overlaps, as
above.

### Dashboard
One viewer's browser on one page, and one document. `Open` types an address,
`Follow` uses the sidebar; a page asks for the session and its lists together, and
they are answered in either order (`ReadSession`, `ReadLists`); then `Press` uses a
control that the page offers (`Offered`) and the API accepts or refuses (`Accepts`).
`betrayed` becomes true when the API refuses an offer though nothing had changed.

### Exports
One stream of one of the three exports: batches by offset, in the order of the
query, while rows are inserted, removed or renamed. Rows with the same key have no
order among them, as movements of one `createdAt` have none.

### Workspace
The five parts above over one organisation. `focus`, a set of parts out of the constant
`Focuses`, bounds what a behaviour is about: with `{Areas}` everything is at work. TLC's
instance takes one part at a time, with what the others do to it: warehouses that go
while they are in invitations or assignments, and memberships that change under the
dashboard.

## 4. The runs

| Run | Expect | Instance | What it shows |
| --- | --- | --- | --- |
| `ledger` | pass, 100 462 states | three requests; three pairs: one with stock and a promise, one without a row, one of an unknown product; nine programs, one per caller and two in opposite lock order; column limit 4 | types; rows never negative and in range; promises covered; ledger reconciles; decisions on the current row; every transaction ends; refinement of `AtomicLedger` |
| `first_movement` | violation | the same, with two first movements | the comment on the upsert race is not what the code does |
| `signed_sum` | violation | the same, with two adjustments | adjustments lose their sign in the ledger |
| `transfers` | pass, 395 378 states | two transfers, a two-line and a one-line shape in opposite directions, four requests, three foreign changes | status says what was moved; nothing arrives unsent; goods are conserved |
| `double_receipt` | violation | the same | two receipts of one transfer commit |
| `sales_orders` | pass, 494 203 states up to symmetry | two orders, two pairs, three line sets, four shipment requests, four requests, one foreign change | reservations are backed; status follows lines; finished is final |
| `broken_promise` | violation | two orders of one unit, two units | a second fulfilment takes another order's unit |
| `purchase_orders` | pass, 681 995 states up to symmetry | two orders, two pairs, three line sets, four receipt requests, four requests, room for three of the first product | lines agree with the ledger rows of their order; every unit booked is on the shelf; status follows lines |
| `stale_edit` | violation | the same | two edits with the same version both succeed |
| `bulk_jobs` | pass, 217 805 states | a job of three lines in chunks of two (one applies, one names an unknown product, one applies only after the first), two attempts, one stall; a job of two lines with one attempt and no stall; a job of one line that may be delivered again after a stall; two workers, one service, one reader | every line accounted for; the report is the ledger's; every queued job ends; what a finished invalidation removed stays away; the cache catches up |
| `sessions` | pass, 2 945 786 states up to symmetry | two browsers, two calls in flight, six calls, four tokens, one reset, one upset | a reset ends the sessions; one live token per session; the alarm has a cause |
| `workspace` | pass, 2 095 802 states up to symmetry | one warehouse, product, category, supplier; two documents; two removals or bulk updates in flight; two people, three memberships, two invitations, two requests; one page and one document; four records in batches of two, two changes | an administrator remains; only staff are assigned; an invitation admits once; offers are honoured; references survive; exports are complete |

Why the bounds are enough. A race in this code needs two requests that hold copies
of one document and at most one more to set the scene (create, allocate): four
requests leave room for two racing handlers after two that prepare. The ledger needs
two lines in opposite orders for a deadlock, and three requests for one that waits
behind the two. Quantities of up to 2 or 3 tell *none*, *some* and *all* apart, and
the column limit `MaxInt` is reached. Every action fires in its run.

The races of tokens, members and removals also need two requests, each past its
check, and a third step that tells the outcome: six calls let a sign-in, a reset and
a rotation overlap with one that presents the result. Three lines and chunks of two
give a full chunk and a last one; a report limit of 1 cuts an error list off; two
attempts and one stall give every way a job comes back. The long job runs alone, since
two of its runs already fill both workers; the short one runs with the reader and the
service, and at once with the tiny one, for the same workers and the same units
(`MCBeside`). Three memberships let two
administrators go and a third be readmitted. Invitations are to be staff or an
administrator (a manager may do nothing to members that staff may not). Four records
in batches of two are a full batch followed by a full or an empty one. With one
warehouse there are no transfers in `Catalogue`'s part; their foreign keys restrict
like those of the orders.

Properties of the passing runs exclude `unlockedReads`, `overtaken`, `exposed`,
`blind` and `repeated`, and those of the last three runs `excused`, `troubled`, `crossed`,
`lapsed`, `lax` and `raced`, where the code is not protected; `ReceiptsAreOnTheShelf` excludes
nothing. That is not a way to make them pass: the violation runs and section 6 say what
happens there, and the rest says that nothing *else* breaks them.

Symmetry is used in the runs of the two kinds of order (over requests and orders),
in `sessions` (browsers, calls) and in `workspace` (requests, removals, two of the
records), whose members are interchangeable in every definition; these runs check
invariants and one action property, no liveness. `CHECK_DEADLOCK` is on in the runs
of the ledger and the documents: the only state without a real step is the one in
which every request has been answered (`Quiet`). It is off in `bulk_jobs`,
`sessions` and `workspace`, which really stop: a system whose jobs are done and
whose cache is empty has nothing to do, and the bounds on calls, links, memberships
and changes end a behaviour wherever they are met. That jobs do not get stuck is
`JobsEnd`.

Every property has a mutant: a plausible bug, defined next to the operator it
replaces and named for what it does, under which TLC finds the property violated.

Fairness is used for three properties. `RequestsSettle`: weak fairness of the steps of each
request, which the event loop and the database give a request that can go on, and
of breaking a deadlock, which Postgres does by itself. Nothing is assumed of users,
of time limits or of crashes. A request that waits for a lock is not helped by
fairness: it needs the holder to end, which is the point of the property. `JobsEnd` and
`CacheCatchesUp`: a worker that has a job goes on, BullMQ delivers what waits and lets
the lock of a dead worker run out, a fill or an invalidation that has begun goes on, and
a time to live passes. Nothing has to fail, and nobody has to read, write or submit.

## 5. What is proved

Every invariant of a passing run is a theorem, and so are its action property and the
refinement: for any number of requests, documents, products, warehouses, jobs, browsers,
members and so on, where TLC's instances have two or three of each.

**The ledger** (`StockLedgerProofs`).

- `TypeCorrect`: `TypeOK` is inductive, with `WellPlaced` as the part that says
  what holds at each `pc`.
- `DecisionsAreCurrent`, from `LockInv`: uncommitted writes belong to the holder of
  the lock (`WritesAreLocked`), so what the holder reads stays current.
- `NeverNegative`, from `RowsInv`: committed, uncommitted and *read* rows are all
  non-negative and in range. The read row must be in the invariant, since an
  unlocked read makes the decision on a row that may no longer be there.
- `PromisesCovered`, from `CoverInv`: the same for coverage, away from
  `unlockedReads`. It needs the assumption that a movement that skips the
  reservation check takes no more than it releases (`CallerChange`), which is what
  `fulfill` does and what `ProgramsAssumption` states of every program.
- `LedgerAlwaysReconciles`, from `ReconcileInv`: a pair's committed rows followed by
  its lock holder's drafts form an unbroken chain that ends at the row that holder sees.
- `TransactionsAreAtomic`: `Spec => ImplementsAtomicLedger`, from `FollowInv`. At each
  line of an open request, the row it sees and the ledger rows it has inserted are
  what the abstract sequence has come to on the committed row (`SoFar`, `Follows`). That
  value is computed from a committed row that others may change; but a request holds the
  lock of every pair it has changed (`HoldsChanged`), and a pair it has not changed
  contributes nothing to its sequence (`TrailSkips`). Begin, commit, rollback, a replenishment
  rule and an unlocked read are the abstract steps of these names; all others stutter.

**Transfers** (`TransfersProofs`): `TypeCorrect`, `LegsCorrect`, `ArrivalsCorrect`,
`UnitsAreConserved`. Versions only grow, so a request whose copy has the version of
the transfer has its status (`MemoryInv`), and one that writes with an older copy is
what `overtaken` records. `ArrivalsWereSent` excludes nothing and needs another
invariant: a transfer that is on the road, or that was when a request loaded it, has its
first leg in the ledger (`RoadInv`). For conservation, one leg takes from the shelves
what it puts on the road, or back, item by item: sums over the pairs of a product, over
transfers and over items.

**Sales orders** (`SalesOrdersProofs`): `TypeCorrect`, `FinishedForGood` (the action
property), `StatusCorrect`, `ReservationsAlwaysBacked`. Again a copy with the version
of the order is the order, and a shipment that has moved its lines and read the order,
and whose copy is current, knows whether they complete it (`MemoryInv`). Then
`LinesInv`: the lines of every order that was not `exposed` agree with its status. Then the
reserved column of a pair against the sum, over orders, of what each still waits for.

**Purchase orders** (`PurchaseOrdersProofs`): `TypeCorrect`, `ReceiptsShelved`,
`LinesAlwaysReconcile`, `StatusCorrect`, from the same `MemoryInv` and a `LinesInv`
that adds `UntouchedAtFirst`: a draft, submitted or cancelled order has received
nothing, which is why replacing its lines loses no receipt.

**Bulk jobs and cache** (`BulkJobsProofs`): `CacheInvariant`, `SettledWritesSeen`,
`BulkInvariant`, `TypeCorrect`, `ReportComplete`, `ReportCorrect`. `CacheInv`: a fill has
seen every settled write and, while an invalidation walks the keys, the write that is
about; so has an entry, unless the walk has still to delete it (`SeesWrites`,
`EntrySees`). `BulkInv`: what a run counts is in the ledger, and all there is if the job
was delivered once (`WorkOK`); a line is applied at most once for each delivery, the
runs that have still to come to it included (`LineOK`, an argument that counts workers);
the row of a finished job is the ledger's (`RowOK`). `Beside`, `Alone` and
`ServiceMax` are constants, and no proof uses their values: the theorems hold with all
jobs under way at once as they do for TLC's instance, which has two.

**Sessions** (`SessionsProofs`): `TypeCorrect`; `ResetsEndSessions`, from `ResetInv`: a
call that is about to issue a token has checked a password as new as the last reset, or is
`crossed`; `AlarmsCaused` and `RotationIsOneShot`, from `SessionsInv`: every session that
is not `troubled` is `Orderly`, that is, one browser at most holds its token and one call
at most is busy with it, what is in a cookie or about to be handed out is not
revoked unless the call under way has revoked it itself, and one token is alive, or the
two of a rotation.

**The organisation** (`WorkspaceProofs`): `Invariant`, `TypeCorrect`, `ReferencesKept`,
`AnAdminRemains`, `AssignedAreStaff`, `InvitationsAdmit`, `OffersKept`,
`ExportsComplete`. They hold for every choice of `Focuses`, all parts at work together
included; two parts at once are beyond TLC. `WorkspaceInv` is the conjunction of the
parts' invariants:

- `CatalogueInv`: a removal that was not crossed has nothing filed under its row
  (`ClerkOK`), so its deletion takes no product's reference with it.
- `MembersInv`: what a request has read is still so unless others have `passed` it: the
  role of its member, that another administrator remains, that nothing is pending for
  an address, that an invitation is open (`RequestOK`). An invitation that is not accepted
  has made no membership (`LinkOK`).
- `DashboardInv`: the link to a page that is on its way was offered to a role with the
  permission of that page. That a control asks for what its route asks for, and the roles
  that have it, are lemmas over the table of routes.
- `ExportInv`: there are no more rows that the offset has passed unwritten than rows
  that were removed or renamed (`Missed`), nor more that it meets again than rows that
  were added or renamed (`Doubled`). A change moves at most one row across the offset.

**How.** Sums and folds of the community modules, and recursive functions like
`AtomicLedger`'s `Trail`, are `CHOOSE`s of functions that have to be shown to
exist. The library's induction theorems take an operator as a parameter, which the installed
provers cannot instantiate. `StockLemmas` derives induction for membership in a set
(`NatSetInduction`, `SubsetInduction`) from `WFMin`, which takes none.

**Assumptions.** Those the modules state and TLC evaluates, and no others. Of the
environment: a movement that skips the reservation check takes no more than it releases
(`CallerChange`), and what other services do to the rows reserves nothing and respects
what is promised (`OrdersOtherChangesAssumption`). Of identity: the marks for *nobody*
and *nothing* are none of those they stand beside, and rows of different tables differ
(`RowsDistinct`). Of size: pairs, orders, warehouses and transfers are finite
where sums range over them, and bounds are numbers. `StockLedgerProofs` extends
`StockLemmas` for its induction and so has the finiteness of `Pairs` in
scope; no step of it cites that.

**Only model-checked:** `RequestsSettle`, `JobsEnd` and `CacheCatchesUp`, which are
liveness under fairness. What the excluded requests can do (`overtaken`, `exposed` and
the others) is shown by the violation runs, one behaviour each.

## 6. Findings

1. `stock-ledger.service.ts:202`: after a missed `FOR UPDATE` the upsert's row is used without a
   lock and without the re-read that the comment promises; a first movement can be lost.
2. `stock-ledger.service.ts:117`: an adjustment's sign is not in its ledger row, so the
   signed sum the schema speaks of cannot be formed.
3. `transfers.service.ts:263`: two receipts of one transfer both commit.
4. `sales-orders.service.ts:382`: two fulfilments of one order both commit, and the second
   ships what another order has reserved.
5. `purchase-orders.service.ts:228`: a version is compared with the loaded copy and the
   UPDATE does not repeat it; two clients with one version both succeed.

The common cause of 3 to 5: a status or version read before the transaction and an
UPDATE that does not repeat the check. The same pattern lets two receipts of one
purchase order line, or one receipt that names a line twice, take in more than was
ordered, which `StatusMatchesLines` leaves aside and no run is spent on.
`versionedWhere` (`common/utils/concurrency.util.ts:55`) was written for it and has
no caller.

Other places where a comment promises more than the code does, met while modelling and
excluded by name in the properties above; no run is spent on them.

- `cache.service.ts:16-20` (an invalidation leaves no stale entry) and
  `reports.service.ts:35-38` (at most one write behind): a fill that read before a write
  stores after its invalidation, and is served until its time to live ends.
- Jobs: the status FAILED is never written, so a job that is given up keeps the row of
  its last attempt; a row whose job the queue refused stays QUEUED. A retry applies
  again what was applied before. `jobs.controller.ts:58` speaks of chunks in a
  transaction; each line is one.
- `token.service.ts:88-90` (issue and revoke in the same transaction): they are two
  unconditional statements, so two rotations of one token can both succeed. `:133`
  (already rotated): a token revoked by a reset or a sign-out raises the same alarm
  when it is presented later. The proxy deletes the cookies when the API cannot be reached.
- `organizations.service.ts:363-383`: two administrators who demote or remove each
  other can both pass the count. `schema.prisma:159-160` (administrators and managers have no
  assignments): `assignMembers` does not look at roles.
- Invitations: their warehouses are not checked when they are made, nor removed with a
  warehouse, so such an invitation cannot be accepted; an acceptance that overlaps
  another can readmit a member who was removed in between.
- A warehouse known only to transfers, sales orders or closed purchase orders, or a product known only
  to documents, passes the counts and is refused by a foreign key: neither deleted nor
  archived. An archived row is still accepted everywhere. A product that is filed under a
  category while this is removed silently loses it.
- `exports.service.ts:219-222` (a point-in-time snapshot): offset pages miss and repeat rows under changes.
- `permissions.ts:104-108`, `sidebar.tsx:79-81` (never offers what the API rejects): true only
  while the role, the assignments and the document stay as they were read. A user of
  several organisations gets no permissions from `/auth/me`, which skips the organisation context, and is offered nothing.
- The bulk routes ask for the `manage` permission of a document though they receive or fulfil.

## 7. What is not modelled

Document counters (one atomic upsert inside the creating transaction; codes are left
out), audit, mail, metrics, logs, health and configuration, which keep no state that
decides anything; CSV, money, paging and slug helpers, which are text and arithmetic
of one call; the document composer and the forms of the dashboard, its filters and
charts; the organisation's own name; the movement trend of the reports; seed and
migrations. Within the modelled parts, left out because no property tells them
apart: amounts and prices, names, notes, timestamps other than expiry, document
codes, and the audit calls that follow a transaction. The warehouse scope of staff
is modelled where the dashboard meets it, and not in the document modules, where it
only narrows who may make a request. Accounts are independent in `Sessions`, so one
is enough; organisations never meet, so neither do several in `Workspace`.
