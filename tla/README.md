# A TLA+ model of the Enorth logistics backend

The repository is a NestJS service in TypeScript: freight quotes, bookings with
five carriers, a prepaid wallet per company fed by Square, tracking of booked
shipments with BullMQ jobs, invoices, claims, accounts, reminders and
notifications. It keeps its state in PostgreSQL through MikroORM, and uses Redis
for queues, locks, sessions and publish/subscribe. This directory holds TLA+
modules translated from that code, TLC configurations that check them, and
proofs checked by TLAPS. Line numbers are those of the commit beside it; the
table that ties each definition to its lines is `PROJECT.json`.

## Inventory

| component | state | operations | interacts with | what is hard | correct when |
|---|---|---|---|---|---|
| wallet (`modules/payment`) | `wallet`, `wallet_transaction`, saved cards | `chargeSavedCard`, `deductFromWallet`, `getOrCreateWallet` | Square; called by booking and invoices | overlapping requests on one row, no lock, no version; Square timeouts; crashes between transactions | no overdraft, no money from nothing, rows agree with Square, deposits settle |
| tracking (`modules/tracking`) | `shipment.currentStatus`, `nextPollAt`, `tracking_event`, Redis lock, queues | `processJob`, `apply`, `scheduleDueShipments`, `safetyNet` | carrier APIs, booking, cancelling | lock expiry, lost and repeated jobs, look-up-then-insert, stale answers | events stored once, none lost, status never stale, final status recorded |
| booking (`modules/shipment-carrier`) with its adapters | `shipment`, `quote` | `createShipment`, `trackShipment`, `cancelShipment`, `getRates` | adapters, wallet, tracking queues | the carrier accepts before the money moves; double submission; answers without a reference or a price | paid only for a pickup, not twice, cancelled where the carrier agreed, scheduled for tracking |
| invoices, surcharges | `invoice`, `surcharge` | `payInvoice`, `create` | wallet, email | pay twice; crash between deduction and flag | what is flagged as paid was deducted |
| quotes, shipments | `quote` and its parts, `quote_favorite`, `shipment` | `create`, `update`, `updateStatus`, `delete`, favourites, conversion, shipment update | notifications, booking | flushes in the middle of a handler, edits that overlap, checks of a stale row | the status machine is obeyed, references stand, an address is of one sort |
| claims (`modules/claim`) | `claim`, `claim_document`, files | `create`, `update`, `updateStatus`, `deleteDocument`, cleanup job | delayed queue, disk | status race; delayed deletion of a file in use again | the status machine is obeyed; a listed document has its file; orphans go |
| OTP, auth, users | `otp`, `user`, permissions, customers at Square | `generate`, `verify`, `signup`, `resetPassword`, review, profile changes | email, Square | side-by-side calls, cooldown and retry races | no customer left over that its sign-up knows of, guesses bounded, a token is used once |
| reminders, notifications, SSE | `reminder`, `notification`, `user_notification`, connection maps | worker, `broadcast`, `NotificationSubscriber`, `sendToUser`, `handleConnection` | delayed queue, Redis pub/sub | publish before commit; jobs handed out twice | completed exactly when notified, notified once, in the end |
| the rest (companies, address book, line item units, signatures, postal codes, roles, permissions, email, tracking lists, filters) | single rows | CRUD, look-ups, output | | none: single-row updates, pure I/O | |

`PROJECT.json` lists all components with their files and status, and the
hazards with their lines.

## Modules

| module | models | instance | theorems |
|---|---|---|---|
| `Account` | the abstract wallet: deposits and withdrawals, one at a time, never below zero | | |
| `Wallet` | the wallet of one company and the handlers that move its money | `MCWallet` | `WalletProofs` |
| `Tracking` | the tracking of one shipment | `MCTracking` | `TrackingProofs` |
| `Carriers` | what the adapters make of a request and of an answer; no state | | |
| `Booking` | booking, cancelling and invoicing one shipment, over `Carriers` | `MCBooking` | `BookingProofs` |
| `QuoteRules` | what the factories require, store, drop and refuse; no state | | |
| `Quotes` | the life of one quote, over `QuoteRules` | `MCQuotes` | `QuotesProofs` |
| `Claims` | one claim, its documents, files and delayed deletions | `MCClaims` | `ClaimsProofs` |
| `Accounts` | one email address: sign-up, codes, passwords, administration | `MCAccounts` | `AccountsProofs` |
| `Notify` | the reminders and notifications of one user | `MCNotify` | `NotifyProofs` |

The modules meet where the components do. `Quotes` ends with a shipment row
without a carrier, where `Booking` starts; `Booking` ends with `nextPollAt` set
and a job queued, where `Tracking` starts. `Booking` contains the deduction of
`Wallet` as the two steps that a caller sees, because there the question is what
the caller does with the outcome; `Wallet` contains everything that may happen
to the row.

What all of them share: a handler is cut at its awaits, and a database
transaction, or the flush at its end, is one step; where a transaction writes
before its flush, as `updateProfileByAdmin` does, its statements are steps of
their own. MikroORM shows in three ways.
A handler works on the entities of its own identity map, a copy of the row as it
was loaded. A flush writes the absolute values of the columns in which the copy
has changed, so that two handlers mix their columns. Nothing is locked and no
row has a version. A variable marked `history` exists for a property only; a
label `told` is an ending with an error the caller sees, `interrupted` one that
nobody answers for.

### Wallet

State: `wallet` is the row (`wallet.entity.ts`), `tx[r]` the transaction row
that request `r` inserts, `seen[r]` the Wallet entity in the identity map of
`r`'s EntityManager, `pc[r]` where the handler stands between two awaits,
`payment[c]` what Square knows of charge `c`. `credited` and `spent` are
history: sums over the transactions that completed.

Correspondence: `chargeSavedCard` is `BeginCharge`/`RefuseCharge` (the validations),
`FindWallet` and `OpenDeposit` (the transaction that inserts the PENDING row),
`CallSquare`, then one of `RecordError`, `Finalize`, `KeepPending`,
`RecordDecline`. `deductFromWallet` is `BeginDeduction`, `ReadWallet`,
`CreateWallet`, `CommitDeduction`. `findOne` by primary key returns the entity of
the identity map without a query, and `em.transactional` forks with the identity
map: hence `Credit` adds to `seen`, read before Square was called.
`SquareDecides` is independent of the handler: `RecordError` covers a decline,
and also a timeout of a payment that Square captures. `Interrupt` is a crash of
the process or a refused statement. Rows of `wallet_transaction` have no currency
column and the code adds USD and CAD to one balance, so the model counts one
unit, cents.

Properties: `BalanceNeverNegative`, `NoMoneyMinted`, `RowAgreesWithSquare`,
`DepositSettles` (liveness), and the refinement `ImplementsAccount`.
The refinement holds when requests do not overlap (`Serialized`), with every
failure in between; when they do, `DeductionsCovered` fails, and the surprising
part is what still holds: lost updates never make the balance negative and never
create money, because each write is a checked value less what was checked, or a
value that was in the row plus a payment that was captured.

### Tracking

State: the carrier (`stage`, `wording`), the shipment's columns (`status`,
`nextPoll` relative to now), the event table (`rows` under the carrier's id,
`copies` under a suffixed id, counted), the queue (`jobs`), the Redis key
(`lock`, with its holder as a ghost), and for every poll its place and what it
holds in memory: `loaded` (status in the identity map), `reply` (the carrier's
answer), `todo` (events not looked up yet), `fresh` (the event created and not
flushed). Shipments share nothing but queue capacity, so one is modelled.

Correspondence: `processJob` is `TakeJob` or `SkipJob`, `Load`, `Fetch`,
`LookUp`/`AutoFlush` for each event, `Flush`, `SetNextPoll`, `EnqueueNext`,
`Unlock`; its catch block is `PollFails`, then `SetNextPoll` and `EnqueueNext`
again. `trackShipment` is `BeginTrack` and the same middle part without the
lock. `Schedule`/`Bump` are the query-and-enqueue and the flush of both crons
(`Sought` is their different filters). `Booking...` is the end of
`createShipment`; `BeginCancel`, `Cancel`, `CancelRefused` are `cancelShipment`.
`em.create` makes an entity managed (`persistOnCreate`), and MikroORM flushes
pending changes before the next query on that table: hence `AutoFlush`, the
reason why a poll that fails half-way leaves some events stored. A flush
contains the status only if it differs from the loaded one (`NewStatus`).
`Verdict` is the answer of the look-up by id; `Id` is `generateEventId`, which
identifies events except for FedEx (`SharedId`). `HandleErrorFails` and
`WorkerDies` leave the job to BullMQ, which gives it back or drops it.

Left out: `pollRetryCount` (it only triggers a log line), rate limits,
`lastEventAt`, location and type of events, batches of 1000 and 500 shipments.

### Carriers and Booking

`Carriers` holds one group of operators per adapter. `...Maps` says which
shipments have a request for rates at all, `...Reads` what comes out of an
answer, `...Rates` both; `...Answers` which outcomes of a booking the adapter
lets through, `...Books` which of them it and the service take for a success;
`...Cancels` and `TakenForCancelled` the same for a cancellation. An answer is a
member of a small set (`Reply`, `CancelReply`): what counts is whether the
carrier took the shipment, whether a reference came back, and whether a price
did. `Charge` is where the deducted price comes from: the carrier's figure for
FedEx and TForce, the figure of the request for XPO and Minimax, and for TST
whichever is not 0.

State of `Booking`: the shipment row, the invoice row, `balance`, and for each
booking its `order` (what it asks for and is answered) and the `pickup` that the
carrier will make whatever the code thinks of it.

Correspondence: `createShipment` is `Begin` (guards on carrier and quote),
`CheckBalance`, `CarrierAnswers`, `Save` (first flush), `FindBalance`,
`CommitDeduction` or `DeductionFails`, and `SetPoll` (second flush). A refused or
failed deduction is logged and passed over (`Refused`); after a failed write the
wallet entity stays changed in memory (`"dirty"`), so the second flush writes it
after all. `cancelShipment` is `BeginCancel`, `CarrierReleases`,
`MarkCancelled`; `SurchargeService.create` is `AddSurcharges`; `payInvoice` is
`BeginPayment`, the deduction, `FlagPaid`.

Properties: `NothingDoneTwice` is what "Shipment already processed" and "Invoice
has already been paid" are worth, no more than that a request which loads the
row after another's flush stops. `ShortOnlyWhenOutpaced` is what the check
before the carrier call is worth. `ChargedOnlyForPickup`, `PaidWasDeducted` and
`CancelledIsReleased` relate the rows to what happened outside.
`OfferedIsBookable` relates the rates endpoint to the booking endpoint; the
exception it names, Polaris, is offered but has no booking. `ScheduledInTheEnd`
is the hand-over to the tracking scheduler.

### QuoteRules and Quotes

`QuoteRules` says for each of the seven kinds which parts a creation must bring
(`Required`), which are stored (`Built`), what is refused (`CreateRefuses`), and
the same for the update of a quote (`Whitelist`, `UpdateStores`,
`UpdateRefuses`) and for the update factories that a conversion and a shipment
update go through (`HandlerStores`, `HandlerChecks`, `HandlerRefuses`,
`HandlerThrows`). Contents are kept only where a check looks at them (`Odd`).

State of `Quotes`: the quote with the writer of each part (`by`), and for each
address whether it refers to the address book or has a row of its own; the
shipment; the favourites; the `copy` each handler loaded.

Correspondence: `QuoteService.create` and `ShipmentService.create` without a
quote are `BeginCreate`, then `Insert`, or `SaveEarly` (the flush inside
`buildServices`) and `CompleteCreate` or `InsertShipment`. Conversion, shipment
update, `update`, `updateStatus` and `delete` start with `Load`; the first two
go on with `FlushContact` (a new contact is flushed on its own, and with it what
has been changed before it), `FlushHandler`, and for a conversion
`InsertShipment`; the others with `FlushEdit`, `FlushMove`, `FlushDelete`.
Favourites are `CheckFavourite`/`InsertFavourite` and
`FindFavourite`/`RemoveFavourite`.

Properties: `StatusFollowsTable`, `ReferencesStand`, `OneAddress`,
`EditsComeWhole`, `HalfMadeWasCutShort`. Each says under which circumstances
alone the obvious statement fails: a status moves past the table only where a
shipment is made; an address is of two sorts only after one edit was flushed
over another; a part is missing only when a creation was cut between its two
flushes.

The code's behaviour here is sometimes odd, and modelled as it is: a conversion
takes archived and submitted quotes and looks at neither company nor status; of
a request to convert a package or pallet the line item is dropped, since
`lineItem` is sent and `lineItems` read; the courier pak's handler checks
`lineItems` and stores `lineItem`; services given as an object are always
refused by the update handlers; insurance and services assigned to a quote that
has none throw after contacts were flushed; services of a package pass the
whitelist and are not stored; a time critical quote cannot be created with a
car, truck or van, though it can be updated to one; a favourite of another user
of the company can neither be doubled nor removed.

### Claims

State: the claim row, the document rows (each with the request that inserted
it), the files on the disk, the delayed deletions in Redis. `gone` records which
removal deleted a file. Three stores, and no transaction spans two of them.

Correspondence: `create` is `BeginCreate`, `InsertClaim`; `updateStatus` is
`BeginDecide` (the table is looked up), `FlushStatus`; `update` is `BeginUpdate`,
one `QueueDeletion` per dropped document, `FlushUpdate`; `deleteDocument` is
`UnlinkDocument`, `RemoveDocument` by id and `UnlinkByName` by name; the cleanup
processor is `RunJob` and `JobFails`. A failed job is not tried again: the queue
configures no attempts, although the processor's comment expects a retry.
`Upload` is Multer, which gives each file a name of its own, before the handler.
Drafts have no way out of the table, and are so here.

Properties: `StatusFollowsTable` (a decision contradicts the table only if
another reviewer moved the claim in between), `DocumentKeepsFile`, and the
liveness property `OrphansGo`.

### Accounts

State: the user row of one email, the customers at Square, the code rows, and
the `copy` of the user and of the `code` that a handler loaded. Ids, passwords
and tokens are named after the request that made them.

Correspondence: `signup` starts the call to Square and the transaction side by
side (`BeginSignup`; `SquareAnswers`; `InsertUser`, `AwaitSquare`,
`SaveCustomer`), and its catch block is `Cleanup`, `DropCustomer`. `generate` is
`BeginCode`, `WipeCodes`, `WriteCode`; `verify` is `BeginVerify`, then `FlushMiss`
or `FlushUse` and `Grant`. `resetPassword`, `updatePassword`, `reviewAccount` and
`deleteProfile` are pairs of a `Begin...` and a `Flush...`; `createProfile` is one
transaction. `CodeAges` and `TokenExpires` are time.

What Square answers has three outcomes besides none: a customer, no customer,
and a customer whose answer is lost (`"lost"`). The code's catch makes both of
the latter null, so the clean-up passes by a customer it has no id of.

`updateProfileByAdmin` is one transaction under READ COMMITTED, step by step:
`BeginMember` loads user and collection, `BeginDelete` is the `nativeDelete` with
the rows it finds, `EndDelete` the same once no other open transaction is
deleting them, `FlushMember` the flush and the commit, which alone make anything
visible. A row of `user_permissions` carries the request that inserted it, since
a DELETE that waits finds the rows of its own beginning and not those inserted
meanwhile. Two consequences of the identity map are kept: the collection is
compared with what was loaded, so that a permission held before and asked for
again is not inserted after its row was deleted (`Inserted`), and a role is
written only if it differs from the loaded one (`Edited`). An insertion that
meets a row of the same permission undoes the transaction. A deadlock in
PostgreSQL is an `Interrupt` of either side.

Properties: `NoStrandedCustomer`, `GuessesAreCounted`, `SpentTokenIsGone`.
`NoStrandedCustomer` is about the two calls that run side by side; it exempts
the lost answer, which no handler can make good, and a deletion that Square
refuses. `PermissionsWereAsked` is in no run, since it is false of updates that
overlap: of two, the second keeps what the first inserted. A theorem states it
of updates that come in turn.

### Notify

State: reminder rows, the BullMQ job of each, the runs (one per time a job is
handed out, one per event of another service), committed notifications, messages
published and not received, the open connections and what they were sent.

Correspondence: `ReminderService.create` is `InsertReminders`, `QueueJob`,
`SaveJobIds`; the worker's transaction is `LoadReminder`, `WriteRows` (the flush
in `broadcast`, which waits for the row lock of another run), `Publish`,
`Commit`. `JobStalls` is a job of a dead worker, `LockLapses` one of a worker that
lives but did not renew its lock in time. The listener is `WriteEvent`,
`Publish`. `Receive` is the `NotificationSubscriber`, which hands each message to
`SSEService.sendToUser`; a message that meets no connection is lost, since
nothing calls `sendMissedNotifications`.

Properties: `CompletedIsNotified`, `NotifiedOnce`, `ShownIsStored` and the liveness
property `RemindedInTheEnd`. `NotifiedOnce` is about runs that begin after the
reminder is settled; two runs that overlap after a lapsed lock may both notify,
and the condition of the property says so.

## Runs

| run | configuration | shows |
|---|---|---|
| `wallet` | 2 charges, 2 deductions, all overlaps, crashes, all answers of Square | `TypeOK`, the three safety properties and `DepositSettles` |
| `wallet_serial` | the same, one request at a time, two deposit sizes | `ImplementsAccount` |
| `wallet_overdraft` | as `wallet` | violated: `DeductionsCovered` |
| `tracking` | 1 worker and 1 `trackShipment`, lock may expire, rewording, 2 failures | `TypeOK`, `NothingForgotten` |
| `tracking_locked` | 2 workers, 1 cancellation, 3 labels, 1 failure, polls end within the lock's life | exclusion, no duplicate rows, no status regress, the lock is released, the final stage is recorded |
| `tracking_delivered` | 1 worker | violated: `DeliveredNotScheduled` |
| `tracking_fedex` | 1 worker, shared ids | violated: `NothingForgotten` |
| `booking` | 2 bookings with a cancellation, or 1 booking with 2 payments; 1 failure | the type invariant, six safety properties, `ScheduledInTheEnd` |
| `quotes` | up to 3 of 12 requests, 4 kinds, 5 payloads, 1 interruption | the type invariant, four invariants, `StatusFollowsTable` |
| `claims` | up to 4 of 10 requests, 2 files, 1 fault | `TypeOK`, `StatusFollowsTable`, `DocumentKeepsFile`, `OrphansGo` |
| `accounts` | up to 4 of 19 requests, 1 fault | `TypeOK`, `NoStrandedCustomer`, `GuessesAreCounted`, `SpentTokenIsGone` |
| `notify` | 1 reminder, 1 event, 2 browsers, 3 faults | `TypeOK`, the three safety properties, `RemindedInTheEnd` |

The violated properties are disagreements between the code and what its own text
says; `PROJECT.json` quotes both. In short: the balance check of overlapping
deductions does not protect the balance; FedEx events share an id, so all but one
of an answer are dropped; and the crons filter on codes while the worker stores
labels.

### Bounds, and why they are enough

- Wallet: two charges and two deductions are the least in which each kind of
  handler races with itself and with the other. Amounts 1 to 3, deposits of 2
  (of 1 and 2 when serialized): a deduction can be smaller than, equal to and
  larger than one deposit, and both refusals by `MinDeposit` and `MaxDeposit`
  occur. A request runs once; a repeated request is another request.
- Tracking: `MaxJobs`: the crons enqueue only while fewer jobs are queued. The
  chain's own jobs are not bounded by it. With one it is still possible to have
  two jobs (a cron's and the chain's), which is what two workers need to race.
  `MaxFaults`: failures of any kind, anywhere (the action `Fault`); two in
  `tracking`, so that the error handler can fail too, one in `tracking_locked`.
  `MaxCopies`: the counter of suffixed rows saturates at one where only their
  existence matters, at two where their number does. `Labels`: two labels give
  one event; three give two, needed for a status that can go back and for events
  of one answer that compete for an id.
- `Together` (`Booking`, `Quotes`) and `Arriving` (`Claims`, `Accounts`): which
  sets of requests arrive in one behaviour. A property of these modules relates
  a handler to one or two others, so every set brings the handlers that touch
  the same columns; the theorems hold for any set.
- `MaxFaults` elsewhere: one interruption, refused statement or failed call,
  anywhere; three in `notify`, enough for a lapsed lock, a death and a failure
  in one behaviour.
- Booking: funds of 1, 2 and 4 against costs of 1 to 3 give a balance that is
  short from the start, that covers one request, and that covers both. Rate 1
  and prices 0 and 2: a carrier that charges less, or more, than it offered, and
  the charge of 0 for which nothing is deducted. `PACKAGE` and `STANDARD_FTL`
  are the types that differ in fee and in what the carriers take.
- Quotes: a kind whose creation flushes once (courier pak), twice (pallet), with
  neither line item nor signature (full truckload), and a spot kind. The five
  payloads hold each oddity, each way to state an address and both outcomes of
  every rule. `SAVED` and `ARCHIVED`: a status with and one without a way on. A
  second creator would make another quote, so no set has two.
- Claims: three reviewers, the least in which a decision is overtaken twice; two
  files, so that an update can keep one, drop one, and name it again.
- Accounts: `MaxRetries` is 2 (in the code 4): the third guess meets a block, two
  guesses race at the limit. Two permissions: one kept, one taken. Two
  changes of a member follow a profile whose permissions any request may choose,
  so that a change inserts, drops and meets rows of the other.
- Notify: a job is handed out at most twice (`Attempts`, BullMQ's default
  `maxStalledCount` of 1), as in the code. Reminders and events share no row,
  so one of each is enough; two browsers give a connection that breaks beside one
  that does not.

Deadlock is not checked where handlers are finite in number and nothing has to
follow: a wallet at rest, a booked shipment, a quote or claim nobody touches, a
reminder that is completed are legal ends. `tracking`, `tracking_delivered` and
`tracking_fedex` check it.

### Fairness

`Wallet`: weak fairness of each handler's steps. Node runs every continuation
and the Square client bounds each call with its own timeout, so an
uninterrupted handler goes on. Nothing makes a request start, and nothing makes
Square answer. `Tracking`: weak fairness of the passing of time (`PollTimePasses`,
`Expire`), of each cron (`@Cron`), of each worker (BullMQ hands out ready jobs)
and of the booking's own steps. Users, the carrier and faults are not fair. In
`tracking_locked` polls are assumed to end within the 120 seconds of their lock;
`tracking` drops that assumption. `Booking`: weak fairness of what follows a
carrier's answer (`Tail`), which are database statements; no adapter sets a
timeout, so nothing makes a carrier answer. `Claims`: weak fairness of the
cleanup worker. `Notify`: weak fairness of handing out jobs, of the check for
stalled ones, and of each run's steps. `Quotes` and `Accounts` state safety
properties only, and need none.

## Proofs

The `...Proofs` modules are checked by TLAPS for all values of the constants that
satisfy the modules' assumptions: any number of requests, workers, labels,
files, browsers, any amounts, payloads and bounds. Every module proves its type
invariant, one step per action. Beyond that:

- `NeverNegative`: the balance alone is not inductive, since a write takes its
  value from memory. The invariant also says that what a request has seen was
  never negative and, in front of the write, covers the amount.
- `NothingMinted`: the same argument upwards: no request has seen more than was
  credited, and `credited` only grows.
- `RowsAgree`: the invariant ties the place of a handler to the state of its row
  (no row before `open`, PENDING until the answer) and uses that Square never
  takes back CAPTURED or DECLINED.
- `FreshWalletIsAccount`: where no flush that moves money overwrites a value its
  request has not read (`NotStale`), `Finalize` is a `Deposit`, `CommitDeduction`
  a `Withdraw`, and all else stutters. `SerializedWalletIsAccount` is its case
  without overlap: under `Serialized` the request in flight is the only one, so
  what it has seen is what is stored (`SerializedIsNotStale`).
- `LockSeparates`: assuming polls end within their lock's life, every busy worker
  holds the lock (`LockHeld`, inductive), and there is one lock.
- `RowsAreSingle`: under the same assumption, with events that have ids of their
  own and no `trackShipment` beside the workers, an event that a poll has looked
  up in vain is not stored by another before its own flush (`LookedUp`, `Single`,
  from `LockHeld`).
- `NoPollGoesBack`: also from `LockHeld`, for distinct labels: neither the stored
  status nor the answer a worker applies is ahead of the carrier, and the status
  is not ahead of that answer (`InStep`), as only its worker writes meanwhile.
- `PolledStatusIsRecorded`: from `LockHeld` once more: the entity of a poll is the
  row, but for a cancellation (`InSight`), so that a label that is not written,
  as it has not changed, is in the row already.
- `NothingIsForgotten`: assuming events have ids of their own, an event of a
  poll's answer is still to do, in memory, or stored. It needs that rows are
  never deleted (`StoredStays`) and that a created row survives its flush
  (`FreshStored`). No lock is needed.
- `BookingProofs` needs the facts that hold between two awaits: `Enough` (a
  deduction about to be written was checked against the balance it holds, which
  keeps the balance a natural number), `Refs` (a cancellation holds on to a booking
  the carrier accepted), `Charges`, `Doubles` (a success leaves its mark on the
  row, and who finds the mark stops) and `Covered` (what the check covered is
  covered still, or another was charged). From these follow `DoneOnce`,
  `ShortWhenOutpaced`, `ChargedForPickup`, `PaidMeansDeducted`,
  `CancelledMeansReleased`; `OfferedMeansBookable` is a fact about `Carriers` and
  the guards of `Begin` (`Unsupported`).
- `QuotesProofs`: `Made` (until its creator has flushed nobody holds the quote),
  `Moves` (a status about to be written was looked up for a row that can have
  moved to that status only, because the table has one aim) and `Building`. From
  these `StatusMovesByTable`, `ReferencesAlwaysStand` and `HalfMadeMeansCutShort`.
  `OneAddressAlways` is inductive by itself once `Written` is taken apart
  (`WrittenOneAddress`). `EditsAlwaysWhole` needs to know who can have loaded a
  part: nobody writes a part twice, so what a handler has written is never what
  anybody had loaded before (`Wrote`, `Known`, `Whole`).
- `ClaimsProofs`: `Rows` (whoever knows of a document row knows it after its
  insertion, so no row is inserted twice) and `Removals` (a file leaves the disk
  by a removal on record, and a finished removal was for a row that is gone) give
  `FilesKept`; `Decisions` gives `StatusByTable`.
- `AccountsProofs`: `Places` says where a request of each kind can stand;
  `Customers` follows the two halves of a sign-up (`NoCustomerStranded`), `Tokens`
  says that the request a token or an id is named after has passed the step that
  makes it (`TokenSpent`), and `Guesses` gives `GuessesCounted`.
- `NotifyProofs`: `HandedOut` (runs of a job start one after the other, each
  once), `Beginning`, `Published`; `CompletedMeansNotified`, `ShownMeansStored`,
  and with `SettledStays`, an action-level fact, the temporal `OnceNotified`.

### What the code would need

Some of the properties above name the race that breaks what one would rather
say: "unless another edit was flushed meanwhile". The following theorems say
what holds when the race is ruled out. Their hypotheses are conditions on the
behaviour, which the code does not ensure and which a version column, a row lock
or a queue per row would; each of them leaves all other overlaps, failures and
crashes as they are. Without its hypothesis each conclusion fails on the
instances of the runs.

| theorem | if | then |
| --- | --- | --- |
| `FreshWalletIsAccount` | no money flush replaces a value not read (`NotStale`) | the wallet is an `Account` |
| `FreshDeductionsCovered` | the same | `DeductionsCovered`, which the run `wallet_overdraft` refutes without it |
| `InTurnTakenOnce` | bookings, and payments of the invoice, run one at a time (`InTurn`) | one is charged, and the carrier or the wallet asked again only after an attempt that ended in an error (`TakenOnce`) |
| `EditsInTurnKeepAddresses` | edits of the quote run one at a time (`EditsInTurn`) | an address has one row, entry or own (`OneSort`) |
| `DecisionsInTurn` | reviewers decide one at a time (`OneDecision`) | a filed claim follows the table (`TableIsKept`) |
| `OneCodeAtATime` | codes of a purpose are requested one at a time (`CodesInTurn`) | there is one at most (`OneCode`) |
| `GuessesAreLimited` | wrong guesses at a code are counted one at a time (`GuessesInTurn`) | it is blocked exactly at the limit (`BlockedAtLimit`) |
| `PermissionsAsked` | an administrator's changes of a member run one at a time (`MembersInTurn`) | nobody holds what the last change of the permissions did not ask for (`PermissionsWereAsked`) |
| `RenewedLocksNotifyOnce` | no lock of a job lapses under a run that goes on (`LocksRenewed`) | a reminder is notified once (`AtMostOnce`) |

The invariants behind them all say that what a handler holds in memory is what
the row says at the moment it writes: `BookingTurns` and `PaymentTurns`,
`FreshEdits`, `FreshDecisions`, `OneCodeInv` and `Current` (over `Sent`, which
ties a code to the request that made it), `Grants` (the DELETE of an update has
found every row there is), `Alone`. For `FreshDeductionsCovered`
the refinement does the work: `Account`'s own invariant `Balanced` bounds what is
spent, and the mapping carries it to the detailed wallet.

Only model-checked: liveness (`DepositSettles`, `LockIsReleased`,
`FinalStageRecorded`, `ScheduledInTheEnd`, `OrphansGo`, `RemindedInTheEnd`), which
rests on fairness and is out of the prover's reach. Every other property of a
passing run is proved.

## Not modelled, and why

- Payloads of the carriers, label files, OAuth tokens of their APIs, the currency
  conversion of rates: data, with no state of its own.
- Signing in and out, guards, settings, pictures and the other profile fields;
  companies; the address book and the look-up tables; listings, searches and
  filters: one row written or only read, nothing to interleave.
- The fields of a shipment and of a claim that their updates copy onto the row
  one by one; the email that follows an invoice or a code.
- The mock carrier tracking module, a test double that writes codes where the
  real path writes labels.
- Code that nothing calls: `handlePaymentSuccess`, `validateQuote()` in
  `utils/validateQuote.ts`, `shipment-normalizer.ts`, `shipment-rate-ranker.ts`,
  `mapper/fedex.mapper.ts`, `sendMissedNotifications`, `deliverToRecipients`,
  `onNotificationCreated`, `cleanupOldNotifications`, `broadcastToRoom` and the
  rooms behind it.
- In `Tracking`, the placeholder event with the current time that the TST adapter
  makes for an unknown PRO.

## Plan

Done: all modules above, their runs and proofs. What is left, in this order:

1. The placeholder event of TST as a carrier whose events are new with each poll.
2. The composition of `Quotes`, `Booking` and `Tracking` on one shipment row: a
   shipment update during a booking, a cancellation during a poll.
