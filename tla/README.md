# DealFlow360 in TLA+

DealFlow360 is a business-to-business quote-to-cash application (Next.js, Prisma,
PostgreSQL). A sales team prices a quotation, reviewers clear its discounts, the
customer negotiates and accepts it, the accepted quotation becomes an order, the
order is fulfilled from several warehouses, dispatches and services are invoiced,
and subscriptions are billed period by period. Every service call runs in one
PostgreSQL transaction at READ COMMITTED and serializes with `SELECT ... FOR
UPDATE` on the row it is about (`server/db.ts`, `withTx`, `lockRow`); there are no
CHECK constraints, so what must hold of the data is what the calls preserve.

Source paths below are relative to the repository's `src/server/services/` unless
they begin with another directory.

## Inventory

| component | state | operations | what is hard |
|---|---|---|---|
| stock (`stock.service.ts`, `admin/warehouse.service.ts`) | `StockLevel.onHand`, `.reserved`, `Warehouse.isActive` | `reserve`, `shipOut`, `receiveStock`, `adjustStock`, `setWarehouseActive` | several row locks per transaction, their order, reads before the lock |
| fulfilment (`fulfillment.service.ts`, `domain/split/plan-split.ts`) | one plan per order with its allocations, backorders and suggestions, shipments | propose, recompute, override, accept, dispatch, consolidate, decline, `onStockReceived` | a plan is stale when accepted; acceptance that fails runs a second transaction; the receipt handler reads before it locks; an event can be lost |
| quotation (`quotation.service.ts`) | status, version, approved version, terms, validity, version snapshots | edit, revise, cancel, submit, send, expire | people act on pages that show older versions |
| approval (`approval.service.ts`, `domain/risk/evaluate.ts`) | a request per submitted version, its steps in order | route, approve, reject, return, supersede | a review ended by someone else's revision; the customer's acceptance may come first |
| negotiation and portal (`negotiation.service.ts`, `portal.service.ts`) | proposals, acceptances | propose, apply, decline, withdraw, accept | applying a proposal is a revision and a new review in one call |
| orders (`order.service.ts`) | `Order.status` | create, complete | created from either side's last consent; completed by payments |
| invoices, payments, credits (`invoice.service.ts`, `payment.service.ts`, `credit.service.ts`) | invoice totals, payments, credit notes | issue, pay, credit, apply | idempotency keys, two invoices of one order settled at once |
| subscription billing (`subscription-billing.service.ts`, `pause-resume.service.ts`, `billing-job.ts`) | status, anchor, next billing date, pending changes, schedule | activate, bill a period, change, pause, resume, cancel | late and repeated runs, several events on one boundary |
| email outbox (`server/email/outbox.ts`) | status, attempts, next attempt | queue, deliver, drain | no claim: two senders pick one row |
| portal sign-in (`server/auth/`) | one-time tokens | issue, peek, consume | two requests with one token |
| policies (`policy.service.ts`) | versions, one active per kind | publish, restore | two publications at once |
| users (`admin/user.service.ts`, `auth.service.ts`) | role, active | sign up, approve, deactivate, reactivate | the last administrator; checks outside the transaction that writes |
| deal health (`deal-health.service.ts`) | alerts | scan, act | scans beside manual actions, no unique key |
| entitlements (`entitlement.service.ts`, `domain/entitlements`) | definitions, values, one shared draft per product | draft, preview, publish | a draft that changes after its preview; holders who change plan while they are told |
| periods (`domain/proration`, `domain/boundaries`) | - | period ends, boundaries, proration | months of different lengths |
| pricing, plan catalogue, reports, UI, assistant | - | - | sequential or read-only |

How they interact: accepting or approving a quotation creates the order in the
same transaction (`createOrderFromQuotation`), which also starts its
subscriptions. Fulfilment calls the stock operations inside its own transaction,
and a dispatch issues its invoice there. A payment completes the order. A receipt
emits `stock.received` after its commit, on an in-process bus that swallows
exceptions (`server/events.ts`). Jobs (`/api/jobs/...`) run billing, mail and
scans.

What makes each correct: stock is not oversold (but for a correction from an
outdated read) and never reserved in a warehouse that is off; every ordered unit is dispatched, held or on backorder, once; an
order carries terms that both sides agreed to; reviewers saw the terms they
cleared; goods are billed when they leave; each period is billed once, a paused one
never, and what a customer pays is the price of the service; each credit is used
once; mail is sent or given up; a sign-in link opens one session; one policy and one
administrator are active; whoever holds a plan is told what changes. The hazards of the code, at their lines, with the properties that
cover them, are listed in `PROJECT.json`.

## Modules

| module | models | extends or instantiates |
|---|---|---|
| `StockLedger` | abstract: what the stock rows promise | |
| `StockTx` | the stock transactions, one action per SQL statement that can wait, read or publish | implements `StockLedger` |
| `LineFlow` | abstract: what becomes of the units of an order line | |
| `Fulfillment` | plans, shipments, backorders and the receipt handler, one action per transaction | implements `StockLedger` and `LineFlow` |
| `Agreement` | abstract: two consents and one order | |
| `Quotation` | a quotation with its review, negotiation, expiry and order | implements `Agreement` |
| `Settlement` | invoices, payments, credit notes and order completion, one action per SQL statement that can wait, read or publish | |
| `BillingLedger` | abstract: the periods charged, in order, each once | |
| `SubscriptionBilling` | one subscription, the decisions about it, the billing job and the projected schedule | implements `BillingLedger` |
| `Calendar` | period ends and boundaries on the real calendar | |
| `EmailOutbox` | queued mail, senders that overlap, retries and backoff | |
| `PortalSignIn` | one-time links, the requests for them and the requests that follow them | |
| `PolicyCenter` | publication of one kind of policy | |
| `StaffAccess` | staff accounts and their administrators | |
| `Catalogue` | the entitlement draft of a product, its publication and notices | |
| `DealHealth` | scans and alerts | |
| `MC...` | the small instances for TLC; `MCBackOffice` composes the last seven | |
| `Sums_proofs` | lemmas about sums over finite sets and intervals | |
| `..._proofs` | theorems and their proofs; `BackOffice_proofs` those of the small components and of the calendar | |

### StockTx: the transactions under their locks

The variables `onHand`, `reserved` and `active` are the committed columns. A
transaction has a program counter: `warehouse` (it is in the loop of
`lockWarehouseRows`, which takes its warehouses in sorted order), `read`
(`adjustStock` reads the row without a lock), `row` (it is after its stock rows,
again in order), `movement` (the inserted `StockMovement` refers to a `Warehouse`
row, for which PostgreSQL takes a `FOR KEY SHARE` lock) and `commit`, which
publishes the update and frees the locks. `CheckFails` collects the conditions on
which the code throws, and `Rollback` may end a transaction anywhere: a crash, a
timeout, or PostgreSQL's deadlock detector.

A reservation that takes several rows of an accepted plan is one job with several
rows; the repeated lock calls of `move` inside `acceptPlan` find their locks held.
`adjustStock` first calls `ensureStockLevel`, an upsert with an empty update,
which for an existing row is a read. Another call may change the row between
`adjustStock`'s read and its write, and `StockTx_race` shows what that costs: less on
hand than is reserved. The history variable `stale` holds the rows whose last
correction was written over such a change; it guards nothing.
`CoveredUnlessStale` and `StockLedger` say that this is the only hole: a row that is
not in `stale` has on hand what it has reserved.

### Fulfillment: plans, shipments and backorders

Every call that begins with `lockRow(tx, "Order", ...)` is one action; `StockTx`
shows that the stock rows under it behave as if each call changed them at one
instant. Three calls are two actions: an acceptance that
is refused commits, and then calls `recomputePlan` in a second transaction
(`AcceptRefused`, then `RefreshPlan` or `RefreshConflict`); `onStockReceived`
reads the candidate backorders before it has locked their orders and reads them
again afterwards (`ScanBackorders`, then `ProposeConsolidations`); and `adjustStock`
reads its row without a lock and writes an absolute value (`ReadStock`, then
`AdjustStock`), with any reservation, dispatch or receipt in between. So `onHand` can
fall below `reserved`, and below zero when the goods are dispatched all the same
(`shipOut` looks at the reservation only); what the orders, plans, shipments and
reservations promise holds of those states too. `LoseScan` is
the handler that throws or a process that stops.

`markShipped` is `MarkShipped` for a planned shipment and `MarkShippedAgain` for one
that is SHIPPED: the second call finds the invoice by the shipment's key and changes
nothing. `sent` keeps the shipments that are SHIPPED, so that `DispatchedOnce` can
compare what the lines have dispatched and were billed with what has left.

`alloc[l][w]` is what the plan's live allocations hold for line `l` in warehouse
`w` and have not shipped; it is reserved once the plan is decided. The plan's id
never changes (one row per order, revived by an upsert), so a comparison with the
expected id always succeeds and is not a guard. The split algorithm is abstracted
to its result: with up to eight active warehouses (`ExhaustiveWarehouses`), any split
that fulfils the most units that the stock, the order's quantities and
`maxWarehousesPerOrder` allow, of which `planSplit` takes the cheapest; with more, where
it selects warehouses greedily, any split that fills the order from some selection of as
many as the policy allows, so possibly with fewer units. Backorders that a replan retires are
dropped: every query over them filters the soft-deleted rows. (The look-up by id
in `consolidateBackorder`, `findUniqueOrThrow`, does not filter; no page offers a
retired id, so the model has no such call.)

### Quotation: from draft to order

Every call locks the quotation row first and is one action. What interleaves is
people. `seen` holds every offer (a version with its terms) that some page may
still show; a reviewer or a customer acts on a member of it, and the code compares
its version with the current one (`lockedQuote(tx, id, expectedVersion)`).
`cleared` is a history variable: the offers that the policy or the last reviewer
cleared. `accepted` keeps, with each `QuoteAcceptance` row, the terms the customer
had in front of them; the code stores the version only, and it is a property
(`ImplementsAgreement`), not an assumption, that the two coincide.

A submission reprices, evaluates and routes: the model chooses a route from
`Routes`, the empty one meaning that the policy clears the offer by itself.
Applying a customer's proposal is a revision, an edit and a submission inside one
transaction, so its version grows by two and two snapshots are written. An expired
validity date is a clock step (`Lapse`), and the nightly job selects without a
lock and checks again under it (`PickExpired`, `Expire`): were it not for that check, it
would expire a quotation that was ordered in between (`ConfirmedIsFinal`).

### Settlement: invoices, payments and credits

One customer and one currency. A service call is a program, the list of statements
it has still to run (`ops`): row locks, the early returns (`"only if"`), and the
statements that write. Reading credit notes puts an `"apply"` statement
with the set of candidates in front of the rest of the program; it takes the oldest, waits
for its lock, and comes back with the others, so the candidates can be stale by
the time their locks are granted, as in `applyAvailableCredits`. `db` holds the
committed rows; a transaction's writes stay in its `draft`, which its own reads see
on top of `db`, and `Commit` publishes them: that is READ COMMITTED. The number
sequences are rows too, locked from the first number until the commit; credit notes
are therefore numbered in the order in which they become visible, and `createdAt`,
taken at the same moment, sorts them the same way. The unique key of a payment makes
a second insert wait for the first (`Pay`). `Fail` ends any transaction at any point:
a timeout, a lost connection, or the victim of a deadlock.

The programs are `recordPayment` with `completeOrderIfDone`, the delivery of a line
(`markShipped` or `recordServiceCompletion`, which also issue the invoice), a billed
period, and a plan change or cancellation: credits against source invoices, then
possibly a proration charge. Each delivery invoice stands for its order line, which
is done by the same transaction; a subscription's line is done once its first period
was billed, which the billing job does in the transaction that activates it (one that
is cancelled before that is not modelled). What the stock and the plan have to say
about a delivery is `Fulfillment`'s part, and the amounts of credits are inputs.
`VOID` and `DRAFT` invoices are not modelled: no code sets either.

### SubscriptionBilling and BillingLedger: periods, pauses and the job

`db` is the committed `Subscription` row with its pending changes, its log of
transitions and its invoices and credits. Decisions lock the row and are one action
each, built by `Decide`, which like the code rebuilds the projected schedule
(`regenerateSchedule`) at the end. The billing job is several actions: `StartRun`
takes the time and the list of subscriptions, `LockSubscription` may come much later,
`ProcessEvent` is one turn of the loop in `runBilling` (`Due`, then `Processed`: cancel
before pause before resume before activate before bill), and `CommitRun` or `FailRun`
ends the transaction; what it has written so far is `work`. A run that meets its
bound of events commits what it has and leaves the rest to the next one.

Time counts ticks and a billing cycle is a whole number of them, so that prorating
divides without a remainder; a real amount is rounded to a minor unit, which the model
leaves out. Cycles are equally long here; what months do is `Calendar`'s subject. A
repeated idempotency key is a stuttering step. `service` is a history variable, the
price of each tick at the quantity and plan in force, against which `ChargedForService`
sets the invoices and credits. It says nothing of plans with `FULL_CREDIT`, whose
credit is more than the unused part on purpose. `BillingLedger` is the promise in one
sentence: periods are entered in order, each once, none after the end.

### Calendar: periods on real months

Dates are day numbers of the Gregorian calendar; months and days are counted from January of
a year that is a multiple of 400. `PeriodEnd`
steps from a period to the next; `FirstBoundaryOnOrAfter` and `IsBoundary` compute
boundaries from the anchor. Pausing compares one with the other (`planPause`), so they
must agree: `PeriodsKeepTheAnchor`. The run begins on the 31st of January, the 29th of
February and the 31st of December, with every interval, resumptions and switches.

### EmailOutbox, PortalSignIn, PolicyCenter, StaffAccess, Catalogue, DealHealth

Six small components whose difficulty is what is not locked.

- `EmailOutbox`: a sender reads rows (`Drain`, or `SendOne` for a sign-in), hands each
  to the mail server (`Deliver`) and then records the outcome from the attempts it had
  read. Nobody claims a row. `MistakeForFailure` is the `catch` of `deliver`, which also
  catches a failed update of a message that did leave; `StopSender` is a process that
  stops. A message can be sent twice; `TriesAreBounded` says how often, `MailSettles`
  that each ends as SENT or FAILED.
- `PortalSignIn`: `issuePortalLink` deletes older tokens and creates a new one in one
  transaction; a visit reads its token, deletes it and counts what it deleted, and only
  then looks the user up. A deletion waits for another transaction's lock on the row.
- `PolicyCenter`: a publication takes the advisory lock of its kind, reads the latest
  and the active version one after the other, compares the active one with what the
  editor's page showed, and replaces it. `basis` and `replaced` are history.
- `StaffAccess`: a call checks its caller and its target, and writes in a transaction
  of its own; calls of different people overlap. `AlwaysAnAdmin`, which the code states,
  does not hold of it in two ways: the count is taken before the write
  (`BackOffice_admin`), and `approveUser` does not look whom it gives another role.
- `Catalogue`: every call holds the product's advisory lock and is one action, but a
  publication is two, since subscriptions move to other plans (`MovePlan`) between its
  reads and its commit.
- `DealHealth`: a scan is `CollectFindings` and `ApplyFindings` under an advisory lock;
  conditions change at any time; managers nudge, escalate and resolve. What a detector
  looks at is abstracted to the set of subjects it finds (`wrong`).

## Runs

Each run finishes within five minutes on two workers; `Subscription` and `BackOffice`
are the long ones, at two to three minutes each.

| run | instance | shows |
|---|---|---|
| `StockTx_all` | 2 warehouses, 1 product, 2 transactions of any kind | `CoveredUnlessStale`, the inductive invariant `TxInv` and the refinement of `StockLedger` |
| `StockTx_live` | 3 transactions that keep to the hierarchy, fair | `NoDeadlock`, `InactiveHoldsNothing`, and that every transaction ends (`Terminates`) |
| `StockTx_race` | 2 transactions, reservations and corrections | `NeverOversold` is violated: a reservation commits between `adjustStock`'s read and its write |
| `Fulfillment_compete` | 2 orders of 2 and 1 units, one warehouse that begins with 1 and may reach 2, one open correction by one unit down | conservation of units, truthful statuses and suggestions, the stock ledger |
| `Fulfillment_order` | 1 order with 2 lines of one product, two warehouses, of which one is tried exhaustively and two greedily | shipments match reservations, stock matches plans, shipments leave and are billed once, refinement of `LineFlow` |
| `Quotation` | 2 sets of terms, 6 versions, 3 people, routes of no and two reviewers, 1 open proposal | the safety properties of the quotation and the refinement of `Agreement` |
| `Settlement` | 3 transactions, 6 calls out of 11: 2 deliveries of one order, a subscription period and a proration charge of another, payments with 3 keys, changes and a cancellation, 3 credit notes | invoices and credit notes add up, credits stay within their source, oldest credits first, completed orders are settled |
| `Settlement_refund` | 1 transaction, 6 calls | violated: two credits refund the same cash |
| `Subscription` | 2 overlapping runs, 2 plans (cycles of 2 ticks with proration and of 4 without), quantities 1 and 2, 4 ticks, 2 decisions, 1 failure, 3 events per transaction | periods join, late runs catch up, the money is the service's, the schedule comes true, refinement of `BillingLedger`; every due event is processed |
| `Subscription_cancel` | 1 run, the same plans | violated: a switch of cycle after a cancellation charges past its date |
| `BackOffice` | each of the seven small components by itself | a property or two of each but `StaffAccess`, see above |
| `BackOffice_admin` | `StaffAccess` with three accounts and the role ADMIN | violated: two administrators deactivate each other |

`MCBackOffice` runs components that share no state side by side: `part`, chosen at the
start, names the one that moves, the others rest in an initial state, so the state space is the sum
of theirs and not the product.

Bounds and why they are enough. Two transactions of two rows each show every
conflict of two lock orders, three show a waiting chain. Two orders with three
units for two make every outcome of a competition appear: one served, one short,
both partly served, a proposal made obsolete by the other's acceptance; one open
correction is enough to be overtaken by a reservation, a dispatch or a receipt, and to
leave a reserved unit that is not there (two that overtake each other are `StockTx`'s
subject); two
warehouses for one order make splits, partial dispatches and consolidations from
another warehouse appear. Six versions allow a submission, a return, a revision, a
counter-proposal and a second review; two terms tell old from new; three people
are one owner with a reviewing role, one reviewer of the second role and one
administrator. Six calls of `Settlement` are two deliveries and their payments with two
retries, or three credits between a period, its payment and a charge; totals of one to
three let a payment be partial, a credit be larger than the balance, and a credit be
spread over two invoices. Four ticks are two periods of the short plan and one of the
long one, with a change, a pause or a cancellation inside a period or on its boundary,
a pause and its resumption between them, and a run that comes two periods late; three
events let a transaction stop half way through what is due. Two senders, two messages
and two attempts show each overlap of a read and a record; two link requests and two
visits show a link followed twice, while another replaces it; three versions by two
editors show a page that is one or two versions old; three accounts are two
administrators and a third; two definitions with two cycles and three edits tell a
common notice from one per cycle; thirty-eight months hold a February of a leap year and
three others. `MaxNotes` and `MaxRuns` bound `Settlement`, `MaxOnHand` bounds receipts and corrections,
`MaxVersion` and `MaxProposals` the quotation, `MaxTime`, `MaxOps`, `MaxFailures`,
`MaxFaults`, `MaxVersions`, `MaxEdits` and `LastMonth` the newer modules. Deadlock
checking is off where the calls run out or the clock reaches its bound (`Settlement`,
`Subscription`, `BackOffice` and their violated companions), and for `Quotation`, which
ends in CONFIRMED, CANCELLED or EXPIRED (an expired quotation has no way back) or at the
version bound.

Fairness. `StockTx!FairSpec` is strong fairness of each transaction's statements:
PostgreSQL grants row locks first come, first served, so a statement that becomes
possible again and again is eventually run. Rollbacks are not fair: nothing
promises them, and `Terminates` does not need them for transactions that keep to
the hierarchy. `SubscriptionBilling!FairSpec` and `EmailOutbox!MailFairness` are weak
fairness of the jobs: `/api/jobs/...` is called on a schedule, and a started call ends;
failures and stops are bounded, not fair. The clock is not fair: `DueIsProcessed` is
about what has come due already. No other run claims liveness: the other operations
happen when people click.

## What the violated runs show

1. `StockTx_race`: `admin/warehouse.service.ts:148` promises that on-hand never
   drops below what is reserved; `adjustStock` reads without a lock and writes an
   absolute value, so it can.
2. `Settlement_refund`: `issueCreditNote` caps each refund by the whole cash payment
   of the invoice, and tests/credit.integration.test.ts:225 means to preserve the
   caps; two credits on an invoice that was settled partly by an older credit
   together make more refundable than was paid.
3. `Subscription_cancel`: PRD.md:236 says "Stop future billing in either case at the
   effective end date"; `changeSubscription` does not look at `cancelEffectiveAt`, and a
   switch to another billing cycle charges a whole period that ends after it. The job
   then cancels at the old date, in the middle of that period and without a credit.
4. `BackOffice_admin`: `admin/user.service.ts:71` says "The workspace must always keep
   one active admin"; the administrators are counted before the transaction, without a
   lock. `approveUser` and `updateUserRole` do not count them at all; the run gives the
   role ADMIN only, so that it shows the race.

Disagreements between texts and code that reading shows without a run:

- `stock.service.ts:12` states a lock hierarchy, warehouses before stock rows, that
  `receiveStock` and `adjustStock` do not follow; PostgreSQL resolves the deadlock by
  failing one of the calls. `NoDeadlock` is checked, and proved, for the others.
- The comment at `fulfillment.service.ts:330` says that the expected plan id prevents
  overwriting another decision; the id never changes, so an override made between a
  refused acceptance and its refresh is replaced.
- README.md:479 says `blockOwnQuoteApproval` prevents clearing one's own quotation; the
  field is read nowhere, and `decideStep` checks the role only (a comment there says
  that this is wanted).
- README.md:96 calls the accepted version hash-bound; `sendToCustomer` sets a validity
  date, one of the hashed fields, without a new version.

Two more the models show but no text contradicts, and which are hazards without a
property: two payments that settle the last two invoices of an order at once leave it
OPEN, and so does a last invoice that is settled by credits.

## Proofs

All proofs are checked by TLAPS for every value of the constants that satisfies the
named assumptions: `StockAssumption`, `FulfillmentAssumption`, `QuotationAssumption`,
`SettlementAssumption`, `BillingAssumption`, `CatalogueAssumption`, `CalendarAssumption` and
those in the theorems themselves. TLC
evaluates the former on each run. They say what sort each constant is (lines, invoices,
keys and plans are finitely many, a cycle is at least one tick, ...) and nothing about
how many there are. Each inductive invariant was first checked by TLC on the instance of
its run.

- `Sums_proofs`: the lemmas all sums rest on. The prover has no induction over data with
  an operator as parameter; a set of naturals, or of subsets of a finite set, takes the
  operator's place (`InductionOnNat`, `InductionOnSet`). `SumUnique` shows that a
  function that adds up one element at a time is `SumFunctionOnSet`, so that removing,
  changing, adding, splitting, renaming and bounding terms follow, and sums over intervals.
- `StockTx_proofs`: `TypeCorrect`; `PhaseCorrect`, `WarehouseCorrect` and
  `CheckCorrect` are the three layers of the inductive invariant `TxInv`
  (`TransactionsKeepTheirLocks`). The type invariant and "reserved is at most on hand"
  are not inductive: between its check and its commit a transaction relies on what it
  read, so the invariant says for each program counter which locks are held
  (`PhaseInv`, `WarehouseInv`) and which check is therefore still valid (`CheckInv`).
  From it follow `OnlyStaleRowsAreOversold`, `TransactionsImplementLedger` and
  `InactiveWarehousesAreEmpty`. None assumes anything about corrections: that a row is
  covered unless it is in `stale` is part of the invariant, since the checks that other
  transactions rely on are made again under the row's lock. `HierarchyExcludesDeadlock` proves
  `NoDeadlock` for any number of reservations, dispatches and warehouse switches over
  finitely many warehouses. A transaction holds a prefix, in ascending order, of the warehouses
  it wants (`HierarchyCorrect`); whoever holds a stock row also holds its warehouse, so
  the only thing it ever waits for is a warehouse (`WaitsForWarehouse`), and in a circle whoever
  waits for the greatest one would wait for somebody who waits for none. The hypothesis
  `InHierarchy` leaves out receipts and corrections, which lock the stock row first and its
  warehouse, by foreign key, afterwards: of these deadlock freedom is not true, and the
  hazard list says so.
- `LineFlow_proofs`: `UnitsConserved` and `NothingOverdelivered`, for any lines and
  quantities; they hold of `Fulfillment` because it implements `LineFlow`
  (`LineFlowImplemented`).
- `Fulfillment_proofs`: `FulfillmentInvariant`. The seven invariants of the runs are
  inductive only together, with three additions (`FulfillmentInv`): an open correction
  was computed to leave what was reserved when it read, the planned and the shipped
  shipments of an order are finite bags over its lines,
  and nothing was shipped or planned for an order without a decision. That a row has on
  hand what it has reserved is not among them, and nothing else rests on it. So an acceptance may
  reserve what its plan says, a dispatch takes one shipment out of the bag, the row and the
  plan at once, and a decline finds what it releases. Per call there are lemmas on what it
  does to the sums over lines, warehouses and shipments, and one that the invariant is kept.
  The theorems for the invariants follow, and both refinements: a call is one step of
  `StockLedger` on the rows (`LedgerImplemented`) and moves units of its lines in `LineFlow`
  (`LineFlowImplemented`).
- `Quotation_proofs`: `TypeCorrect`; `TermsInvariant`, the inductive form of
  `VersionsNameTerms` (no page or snapshot is newer than the quotation, and one at
  its version shows its terms), on which `OffersAreCleared`, `OrdersAreAgreed` and
  `ReviewersSeeTheTerms` rest; `AcceptancesAreAnswered`, whose strengthening `AnswerInv`
  adds that an accepted version has no open proposal; `PendingRequestsAreCurrent`;
  `NothingIsLeftOpen` and `OrdersAnswerProposals`, which combine them; `ConfirmedStays`;
  and `QuotationImplementsAgreement`.
- `Settlement_proofs`: `SettlementInvariant`, for any number of transactions that read
  what others commit between two of their statements. `BooksInv` says that the committed
  rows are `Sound` (invoices, notes, applications and payments add up, credits are within
  their source, older credits are used first, completed orders are settled), that no two
  transactions hold one lock, and that each transaction `Fits` the rows: it holds the locks
  of all it has drafted (`Owned`), what it drafted is new or belongs to a locked invoice
  (`Fresh`), an application is drafted with its note and its invoice (`Beside`), the rows
  it sees only go forward from the committed ones (`Grows`) and are `Sound` as well, each
  statement it has still to run finds the locks and facts it needs, known already or given by
  an earlier statement (`Follows`), and each `"apply"` statement leaves aside only notes
  that older candidates have used up (`AllReady`). The heart is `CommitFits`: when one
  transaction commits, what another sees is a mixture of its own draft and rows that have
  moved on. Every sum of such a mixture is, row by row, a sum of one side or the other,
  because locks keep the drafts apart (`MixedSound`). `MoneyReconciled`,
  `CreditsWithinTotal`, `OldestFirst` and `CompletedSettled` are parts of `Sound`.
- `SubscriptionBilling_proofs`: `BillingTyped`, `BillingPeriodsJoin`,
  `BillingImplementsLedger` and `BillingChargesForService`. That each period is charged
  once does not follow from the row lock alone: it needs to be known that the next billing
  date is later than every period charged, through pauses, resumptions and switches of
  cycle. `BillingInv` says so of the committed subscription and of the one in the open
  transaction (`Ordered`, `Charged`): a billable one is next charged after its last period,
  a pause still to come begins where that next period would (so the pause wins), and a
  paused one was charged only before the pause and resumes after it. `Joined` states the
  periods' order for any subscription, and `Closed` how the last one ends, which is what
  the next one has to join. `Extends` relates the two: an
  open transaction has only added later periods, and while none is open they are equal.
  There is one lemma for each event of the job and one for each decision.
  `BillingChargesForService` rests on a second invariant, `Accounted`, beside `BillingInv`.
  Of the committed subscription and of the one in the open transaction it says (`Paid`) that
  service not charged yet costs nothing (`Unpriced`), that the rest of the current period
  costs its plan's rate at its quantity (`Priced`), that the invoices of that period have
  at least the price of this rest left to credit (`Creditworthy`), and that the whole
  service costs what was charged less what was credited (`Balanced`). `Creditworthy` is what
  makes the others inductive: `cancellationPreview` shares the unused amount over the
  invoices of the period, oldest first and each up to what it has left, and only if they
  are worth enough is all of it credited (`SharedOut`, by induction over the
  invoices). A change adjusts both sides by the same amount because prorating by
  whole ticks is exact (`ProrateExact`), and when a transaction commits, what it prices
  anew ends where it stands (`Charges`). Like the property, the theorem says nothing
  when a plan has `FULL_CREDIT`.
  `LateRunsMakeNoDifference` (`LateRunsCatchUp`): an event that has fallen due is the first
  one for every later time as well (`LaterIsSame`), so a run up to the end repeats what an
  earlier run did, and a measure of the events still to come (`Pending`) falls with each, so
  that the rounds `CatchUp` allows are enough (`EventsRunOut`, `RoundsSettle`).
  `ScheduleIsKept` (`ScheduleComesTrue`): the projection and the job compute periods by
  different code, and the job may charge several at once. `Foreseen` says of the open
  transaction how far along the projection of the committed subscription it has come
  (`Reached`): the periods behind it are charged as projected or were to be skipped, and the
  projection goes on from where billing stands (`Front`) with the same terms. Each event keeps
  it so: a charge moves one period along (`BilledForetold`); a resumption passes
  through the skipped periods one by one (`ResumeForetold`), and arrives at its date only because
  pauses begin and end on the grid of the anchor (`Aligned`); a cancellation skips all that is
  left (`CancelForetold`). `ScheduleInv` says which rows the schedule holds.
- `BackOffice_proofs`, the small components but `StaffAccess`, and the calendar.
  `PublicationsStayInOrder`: the
  invariant ties every step of a publication to the advisory lock, so that what was read is
  still so when it writes. `OneSessionPerLink`: whoever has deleted a token is the only
  one, and the link request that made it has ended, so it never comes back.
  `AlertsMatchFindings`: between its reads and its writes a scan holds the lock, so the
  alerts are the ones it has read; and of each subject at most the first alert is
  unresolved. `TriesStayBounded`: nobody claims a message, so a sender that read it long
  ago can record a failure from a stale attempt count and queue again what another has
  sent or given up. `OutboxInv` counts these (`Late`): once a new reader's failure would
  be the last, each late sender can open the message at most once more, and then each
  sender may read it once until the next record closes it. The sum of attempts, of
  what late senders can still open and of what readers can still try never grows
  (`Bounded`); calls and recorded attempts differ by the calls under way and by faults
  (`Counted`). `HoldersGetTheirNews`: each edit opens a revision of its own, so a preview of
  the draft's revision shows what publishing it changes (`DraftInv`), and a publication under
  way is of the draft that was previewed (`PublishingInv`); each plan that changes concerns
  one notice, with its differences, and any other plan none (`OneNotice`).
  `PeriodsNeverDrift`: every day number lies in one month, which `MonthOf` finds
  (`MonthOfDate`), so clamping to a month and reading the month and the day back is sound;
  boundaries follow each other from the anchor (`Boundaries`), the lookup finds the first
  that is not before its date (`FirstIndexIsFirst`), and the next period starts at one
  (`CalendarInv`). It holds of every anchor and interval, in all years.

Only model-checked: all liveness (`Terminates`, `DueIsProcessed`, `MailSettles`), which
the prover cannot reach, since it has neither fairness nor ENABLED. Every other property of
a passing run is a theorem, and the four runs that expect a violation have their
counterexamples. The theorems say nothing of termination: a run of the job that waits
forever keeps all of them.

## Not modelled

- Arithmetic within one request: pricing and risk scores, taxes, the proportional split
  of invoice amounts, rounding of prorated amounts, and which of the best splits
  `planSplit` takes. It has unit tests of its own, and the models leave it open.
- What detectors, previews, reports, queries, the user interface and the assistant
  compute: they read what the modelled calls write and change none of it.
- Master data without interplay: plans and tiers, products, customers, teams, upsell
  rules, labels of entitlements, replenishment settings.
- Entitlement snapshots: `currentEntitlements` reads definitions and values in two
  statements at READ COMMITTED, so a publication between them can leave a snapshot of
  both states; no text promises otherwise.
- Audit and notification rows, which influence nothing; `release` of a reservation,
  `applyCredits` and `nextPeriod`, which are called nowhere.
- Several subscriptions of one customer beside each other: their rows do not meet but in
  credit notes, which `Settlement` models.

The user interface and the seed data are most of the repository's lines; the map covers
the services and the domain functions they call.
