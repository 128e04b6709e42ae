# Verification of BalanceChronicle

BalanceChronicle follows the ERC-20 contract `MyToken` on one or more chains,
records every balance change of every holder in PostgreSQL, and pays points in
proportion to balance and time. This directory holds TLA+ models of the Go
service `src/ethclient_service`, TLC configurations that check them on small
instances, and proofs checked by TLAPS.

Paths below are relative to `src/ethclient_service/` unless they begin with
`src/`.

## 1. The system

### Components

| component | state | operations | concurrency and faults |
|---|---|---|---|
| `ethereum/dual_mode_client.go` | mode, subscription, `eventChan` (100), `stopChan`, flags | subscribe, handle logs, reconnect after a delay, poll the last ten safe blocks, Stop | handler, timer and poller goroutines; broken subscriptions, failed dials |
| `services/event_listener.go` | one goroutine and client per chain | read `eventChan`, test confirmations, `processEvent`: check, publish, insert; `processChainEvents`: a batch of old blocks after the mark in `sync_states`; Stop | database and node calls that fail; a crash in a batch |
| `rabbitmq/rabbitmq.go` | connection, channel, `isRunning` | connect, publish, consume with manual ack, requeue, close | lost connection, redelivery, reordering by requeue |
| `services/event_consumer.go` | none of its own | `processMessage`: idempotency check, one transaction that inserts or marks the row and posts the changes; Start, Stop | runs on the client's consuming goroutine; rollback |
| PostgreSQL (`models/models.go`, `database/`) | `events`, `balance_changes`, `user_balances`, `points_calculations`, `user_points`, `sync_states` | statements and transactions at READ COMMITTED | statements that fail |
| `services/points_calculator.go` | ticker, `wg` | per user: find the last calculation, cut the time since into periods, pay them, add to the total | ticker, immediate run and API requests side by side |
| `controllers/balance_controller.go` | none | lists, history, `RebuildUserBalance` | one goroutine per request, beside the consumer |
| `controllers/points_controller.go` | none | leaderboard, history, trigger of a calculation | as above |
| `controllers/chain_controller.go` | none | chains, `SyncChain` (sets the mark back), `UpdatePointsRate` | as above, beside a batch or a calculation |
| `main.go` | the services | start in order, serve, stop in order on a signal | signal at any time |
| `src/hardhat/contracts/MyToken.sol` | balances | transfer, mint, burn | external to the service |

### How they interact

The node pushes logs, or answers a poll; `DualModeClient` puts parsed events
into `eventChan`; `listenChain` takes one, asks the node for the current block
and drops the event unless it has its confirmations; `processEvent` publishes
it to RabbitMQ **and then** inserts an unprocessed row. The consumer gets the
message from the broker, looks for the row outside of any transaction, and in
one transaction marks (or inserts) the row, appends the balance changes and
updates the balances. The points calculator reads the balance changes; the
controllers read everything, and some of them write: a rebuild of a balance, a
triggered calculation, a reset of the history sync. The history sync fetches
the events of a batch of old blocks and hands them to `processEvent` too; its
mark and its flag `is_syncing` are a row of `sync_states`. Broker and database
survive a restart, the rest does not.

### What is hard, and what correctness means

* An event must be applied once, though it is published before it is recorded,
  its message may come twice, late or after younger ones, and the process may
  stop anywhere: *no accepted event is lost, no row is posted twice, the
  recorded history always explains the balance*.
* Three goroutines hand the event source to each other without a lock: *exactly
  one is the source, and Stop leaves none behind*.
* The channel between producer and reader is bounded, and Stop waits: *Stop
  ends*.
* What a component promises holds at its boundary only: *a confirmed transfer
  goes all the way from the chain to the balances, once*.
* Batches, their mark and their flag are read, changed and reset by several
  actors without a lock, and outlive a crash: *no block is skipped, none is
  offered before it is safe, and the flag does not stay set*.
* Several goroutines pay points from what they read earlier: *no moment is paid
  twice and the total is the sum, unless two of them race, and then the total is
  too small rather than too large; the balance paid is the one held; a holder is
  paid up to now*.
* A request overwrites a balance beside the consumer: *no balance is invented,
  none is lost*.
* Shutdown stops the services in an order: *it ends, and loses no message*.

The hazards, each at its line and with the properties aimed at it, are listed
in `PROJECT.json`.

## 2. The modules

| module | what it is |
|---|---|
| `Ledger` | abstract specification: every event is posted at most once, atomically |
| `EventPipeline` | `processEvent`, the broker, the AMQP client, `processMessage`; implements `Ledger` |
| `MCEventPipeline` | two users and two transfers for TLC |
| `EventPipeline_proofs` | the pipeline's inductive invariant; the recorded history explains the balances; every transfer is applied once; the pipeline implements the ledger |
| `DualModeClient` | the event source, the reader `listenChain`, and their Stop |
| `DualModeClient_proofs` | one source; the types of what goes through the channel |
| `LivePath`, `MCLivePath` | `DualModeClient` (polling) and `EventPipeline` composed: chain, channel, listener, broker, consumer, Stop, crash |
| `LivePath_proofs` | what is proved of the pipeline and of the client holds in the composition; what is polled stays confirmed |
| `HistorySync`, `MCHistorySync` | `processChainEvents` and `SyncChain` on one row of `sync_states` |
| `HistorySync_proofs` | no block is skipped, none is offered too early |
| `BalancePeriods` | `buildBalancePeriods`, `calculatePeriodPoints`, and a reference |
| `PointsCalculator`, `MCPointsCalculator` | the transactions of a calculation, beside the consumer and each other |
| `PointsCalculator_proofs` | the periods are right, rows pay what was held, without a race no moment is paid twice and the total is the sum, with one it is no more than that |
| `BalanceRebuild`, `MCBalanceRebuild` | `RebuildUserBalance` beside the consumer |
| `BalanceRebuild_proofs` | a rebuild invents no balance, and alone takes the last one |
| `Leaderboard`, `MCLeaderboard` | `GetAllBalances` and `GetPointsLeaderboard`, walked page by page |
| `Leaderboard_proofs` | the pages descend, keep the minimum and show everyone once |
| `ServiceLifecycle` | `main`, Start and Stop of every service, and their goroutines |
| `ServiceLifecycle_proofs` | a shutdown loses no message |

Definitions whose comment begins with "Faulty variant" are not part of any
specification. Each is a plausible mistake in the definition that follows;
replacing that definition by it must break a property, and does
(`PROJECT.json`, `mutants`).

### EventPipeline

`events`, `changes` and `balance` are the three tables, `clock` the source of
row IDs (`GenerateID` begins with the time, so later IDs are larger), `ready`
and `unacked` the broker's queue, `conn` the AMQP channel, `lst` and `con` the
program counters and locals of the two goroutines. Steps are cut where another
goroutine, or a crash, can come between: `ListenerCheck`, `ListenerPublish`,
`ListenerStamp` (the ID is generated before the insert is executed) and
`ListenerCreate` are the calls of `processEvent`; `ConsumerCheck`,
`ConsumerCommit` or `ConsumerFail`, and `ConsumerAck` those of a message. A
transaction is one step: it has one writer, the consuming goroutine, and what
its statements read is written by nobody else but the listener's insert, which
it does not look for again. Points worth knowing:

* The check takes *any* error for "not found" (fault `query`), in the listener
  and in the consumer.
* `PublishEvent` without a connection, or with an error, is ignored: the row is
  inserted all the same.
* The consumer has no prefetch limit, so a requeued message goes behind what has
  been delivered already.
* A lost connection is never re-established; a handler that is running goes on
  and cannot acknowledge.
* `Restart` is a crash or an exit at any step.
* `FaultKinds` and `MaxFaults` say which faults a run allows and how many.

`LedgerSpec` is `Ledger` under the mapping `applied <- ` events with a processed
row, and `Delta <- PostedDelta`, the postings the code makes. `PostedDelta`
takes a burn twice, as the code does; `BalanceMirrorsContract` compares with the
contract instead.

### DualModeClient

An event is the block it is in. `handler`, `poller`, `timer`, `reader` and
`stop` are the five goroutines; `logs` is what the node has pushed and the
handler not read. The reconnect delay is abstracted: the timer fires at any
time. `TimerFires` and `TimerReconnect` are separate because `isRunning` is read
before the dial. A tick without an event to send, or with a failing call,
changes nothing and is no step. The reader accepts an event or skips it for want
of confirmations; what happens to an accepted one is `EventPipeline`.

### LivePath

The two modules above, as they meet in `listenChain`. `Offer` is one step of
both: the reader accepts the event (`Accept`, which is `ReaderAccept` without
its claim on the faults), and the listener looks whether it has a row
(`ListenerCheck`), finds that it has, or takes a query that fails for "none".
The reader's goroutine is the one that runs `processEvent`, so every step of the
reader needs `Free`: no event is being processed. Hence the channel fills up
behind a slow publish, and a Stop waits for it. The poller offers the blocks of
its window again and again while their messages are still on the way; this is
the interleaving that neither component has alone. `Crash` is the pipeline's
`Restart` together with the loss of the poller's list, the channel and the
reader; chain, tables and broker stay.

Faults of both components are drawn from the one counter `faults`. The
subscription is left out (`UseWebSocket` is FALSE), because `DualShutdown`
shows that with it Stop does not end; so are the faults `query` and `create` in
the run, because with each of them a transfer can be applied twice without a
crash (section 5).

### HistorySync

A block is the event in it. `row` is the chain's row of `sync_states`, `sync`
the locals of each goroutine in `processChainEvents`, `req` one `SyncChain`
request between its look at the table and its write (what it asks for,
`from_block`, is named in the write, the first step that uses it). Every
statement and every call of the node is a step: `ReadState`, `ReadHead` (with
the early returns), `CreateState` for the first sync, `Mark`, `Query`, `Unmark`
after a failed one, `ProcessEvent` per block, `Finish`. `own` says whether the
caller's `syncState` is the row of the table: a caller whose insert was refused
goes on with a record that no `UPDATE` finds. Nothing in the repository calls
`processChainEvents` at this commit; `Callers` may call it at any time, two at
once, and nothing makes them. The history variables `owed`, `misplaced` and
`orphaned` are written by no code; they say what the properties are about.
`from_block` may be any integer, as `SyncChain` takes any. A batch that starts
below 0 is refused by the node, or answered from wherever the name leads that
the number stands for in go-ethereum (`Answered`).

### PointsCalculator and BalancePeriods

Time is counted in moments, the code's milliseconds; a minute has `MinPeriod` of
them, so that a calculation ends within a minute and a change can be committed
behind it in the same one. One user on one chain; every `SELECT` and the reading
of the clock is a step (`ReadLast`, `ReadFirst`, `ReadClock`, `ReadChanges`,
`ReadTotal`), since at READ COMMITTED each statement sees what is committed by
then and none of them locks. `Tickers` run `calculateAllPoints` (the ticker, and
the immediate run of Start), `Triggers` are requests that name the user. The
consumer's commits are the action `Change`, which may come up to `MaxLag` after
the timestamp the listener gave the event; `missed` is history and says that a
calculation had already paid beyond that timestamp. `raced` is history too:
somebody has committed on top of a row he had not read. `BuildBalancePeriods` is
the code's loop: the k-th pass ends a period at the k-th change, if it has any
length. `PeriodPoints` cuts off below the last decimal (`Unit`) as the code's
formatting does, and balances may be negative or too small to earn.

### BalanceRebuild

The consumer reads and commits; a request reads the changes (`RebuildRead`),
looks for the row (`RebuildFind`), and updates it or creates one
(`RebuildUpdate`, `RebuildCreate`); nothing orders these steps. `ORDER BY
timestamp` leaves ties open: any of the latest records may be the last one. A
lookup that fails counts as "no row", and the row created then has no ID
(`balance_controller.go:303-312`): `blank` is that second row, which comes first
in every later `First`. `Current` is the balance of the row that `First` finds.

### Leaderboard

Amounts are compared by value in the points' list (`CAST`), and as texts in the
balances' list and in its filter. A balance may be a debt, since a burn is taken
twice; its text is a minus sign and digits, and the sign comes before every
digit, as in ASCII. (Some collations of PostgreSQL pass over the sign at first:
then a debt stands where its digits would.) A client goes through the pages
while amounts change.

### ServiceLifecycle

`main` and the shutdown goroutine are program counters, every other goroutine is
idle (`select`), `busy` or `off`. What they do while busy is the other modules'
matter. Before `signal.Notify` a signal ends the process at once. The client is
one goroutine that takes an event from a subscription (`push`) or a poll
(`poll`) and sends it into the bounded `channel`; a push looks at nothing but
the channel, as in `handleWebSocketLogs`. `EventListener.Stop` waits for the
reader and then, in `StopClient`, for the client's goroutine.

## 3. What is checked

Deadlock checking is off in every run: the chain, the clock, the faults and the
requests are bounded, the service may be stopped or has exited, a client has
seen the last page, and then the system rests for good reason. Bounds that are
not the code's (`MaxFaults`, `MaxHeight`, `MaxResets`, `MaxTime`, `MaxChanges`,
`MaxEvents`, `MaxAmount`) stand in guards or in `Init`.

| run | what it asks | instance, and why it is enough |
|---|---|---|
| `PipelineFaults` | `RowPostedIffProcessed`, `HistoryExplainsBalance`, `NoMessageLost`, `PublishedIsApplied` | a mint and a transfer of the minted tokens, any two of six kinds of faults. Two events make requeueing reorder; two faults allow one to happen in the recovery from another; a duplicate row needs one |
| `LivePath` | `AppliedAtMostOnce`, `LedgerSpec`, `PolledIsConfirmed`, `ConfirmedIsApplied`, `StopTerminates` | a mint and a burn in two of four blocks, so that both branches of `processBalanceChangesTx` run and a block leaves the window; a channel of one (a full channel is the case that matters), a window of one block; one fault out of a failed publish, a rollback, a lost connection and a crash; a stop at any time |
| `HistorySync` | `NoBlockSkipped`, `OfferedIsConfirmed`, `FlagIsCleared`, `SafeBlocksAreOffered` | two callers (a second makes both the refused insert and the overtaking), four blocks, batches of two, one confirmation, so that a batch is cut off at the safe block and another is not; one fault of any of five kinds, one request, for block 1 or for -1; the contract was deployed in block 0 |
| `PipelineTwice` (violated) | `AppliedAtMostOnce` | a mint and a transfer, one crash |
| `PipelineBurn` (violated) | `BalanceMirrorsContract` | a mint and a burn, no fault |
| `DualReconnect` | `OneSource`, `LeavesNothingRunning` | three events in four blocks, a channel of two, so that it can be full when a late reconnect brings the third; subscription first, two faults: one breaks the subscription, the second makes the reconnect fail; a stop at any time |
| `DualShutdown` (violated) | `StopTerminates` | a subscription, three events, a channel of one |
| `Points` | `PaidOnceUnlessRaced`, `TotalIsSumUnlessRaced`, `TotalWithinRows`, `RowsPayHeldBalance`, `PeriodsMatchReference`, `HolderIsPaid` | a ticker and a request; two changes, each committed up to a moment late, also in the same moment; balances below 0, too small for a moment or a minute to earn, and large enough; minutes of two moments in five, so that there are two minutes; stretches of at most three, so that a long one takes two calculations; one failing transaction |
| `PointsRace` (violated) | `CalculationsExclude` | a ticker and a request, one change, no fault |
| `LifecycleStop` | `ShutdownLosesNoMessage`, `SignalEndsService`, `QueueIsServed` | three events and a channel of one (one is with the reader, one in the channel, one in the client's hand: the smallest instance in which the client can be blocked), two faults of six kinds, a signal at any step |
| `Rebuild` | `BalanceWasHeld`, `BalanceIsLast` | two requests, so that one can find the row another has added; three changes in up to three different seconds, received and sent |
| `Leaderboard` | `ListedDescending`, `EveryoneListedOnce`, `ListedHaveMinimum` | three users, amounts from -3 to 3 in base 3 (so of one and two digits), limits below, within and above the allowed ones; the users are symmetric, for nothing names one |

Each module's `TypeOK` is checked in its first run; `LivePath` has those of its
two components.

On two workers no run takes two minutes; the largest are `Leaderboard`
(1,065,789 distinct states, up to symmetry), `Points` (658,177), `HistorySync`
(381,095), `Rebuild` (168,019) and `PipelineFaults` (108,012).

### Fairness

* `EventPipeline`: weak fairness of the listener's steps after its check, of the
  delivery, and of the consumer: goroutines are scheduled and the broker
  delivers. Nothing forces the chain to offer an event. Faults are not fair and
  are bounded: without an end to rollbacks nothing could be applied.
  `PublishedIsApplied` also assumes that the process has its connection again
  and again (`[]<>conn`), because only a restart makes another.
* `DualModeClient`: weak fairness of every goroutine, strong fairness of the
  branches that leave a `select` on `stopChan`: Go chooses at random among the
  cases that are ready. The same holds for the ticker in `ServiceLifecycle`.
  The chain need not grow.
* `LivePath`: the fairness of its two components, for the same reasons; the
  listener's and the reader's steps are those of one goroutine, and so are one
  condition. `ConfirmedIsApplied` assumes `[]<>conn`, and speaks of the blocks
  that stay in the poller's window.
* `HistorySync`: a call that has begun goes on. That calls come is a premise of
  `SafeBlocksAreOffered` (`CalledForEver`), since no code makes them.
* `PointsCalculator`: time passes and the ticker's goroutine goes on.

## 4. What is proved

Every theorem below holds for all values of the constants that meet the module's
`ASSUME`s, which TLC evaluates in the runs; a further assumption is stated with
the theorem.

### The pipeline (`EventPipeline_proofs`)

For every set of transfers and users, every kind and number of faults:

* `PipelineTypes`: `Spec => []TypeOK`
* `RowsArePostedOnce`: `Spec => []RowPostedIffProcessed`
* `MessagesAreNotLost`: `Spec => []NoMessageLost`
* `PipelineInvariant`: `Spec => []PipelineInv`, from which the three follow.
* `HistoryAlwaysExplains`: `Spec => []HistoryExplainsBalance`

`PipelineInv` adds two parts, without which the three are not inductive.
`FreshIds`: no ID is given out twice, none is larger than the clock, and the one
the listener holds is in no table; otherwise inserting a row could share the
changes of another. `ConsumerHoldsItsRow`: between check and commit the row
stays unprocessed (the listener only inserts, and the consumer is the only one
that marks), before the acknowledgement the event is applied, and the message in
hand is the first unacknowledged one while the connection lasts; otherwise the
commit could post twice, or the acknowledgement could drop a message that was
not applied. The proof has one lemma per action; `UpdateAppends` and
`PostingAppends` say what a transaction appends, `InAppend`, `InTail`,
`InConcat` and `InCons` where a message is after a queue operation.

`HistoryAlwaysExplains` rests on `HistorySound`: besides the property, that a
user who has a change has a last one in every beginning of the history, which
gives the `CHOOSE` in `BalanceAt` its value. Only a commit changes the history,
and it is at most two updates in a row, each of which keeps `HistorySound`.

### The ledger (`EventPipeline_proofs`)

If `query`, `create` and `crash` are not among the faults (`ForgetfulFaults`;
refused messages, rollbacks and lost connections may come in any number):

* `TransfersAreAppliedOnce`: `Spec => []AppliedAtMostOnce`
* `PipelineImplementsLedger`: `Spec => LedgerSpec`, that is, `Init` is the
  ledger's and every step of the pipeline is a posting or a stutter.

`OnceInv` is the argument. A transfer is published before it has a row, and
while it has none the listener, which is one goroutine, is about to insert it
(`PublishedOnce`); so it is published once and has one message (`OneMessage`);
the message of an applied transfer is the one to be acknowledged, or was put
back by a lost connection, which nothing delivers again (`NothingAppliedWaits`).
Each of the three faults breaks a link: a failed check is taken for "new", in
the listener and the consumer; a failed insert, or a crash before it, leaves a
published transfer without a row, and it is published again. The refinement
then needs `HistorySound` (the balance a commit starts from is the one in the
table) and `PostingIsSound` (what is posted is `PostedDelta`).

### From the chain to the balances (`LivePath_proofs`)

* `PathKeepsPipeline`: `NoMessageLost`, `RowPostedIffProcessed` and
  `HistoryExplainsBalance` hold in the composition, whatever faults there are,
  the listener's failing check among them.
* `PathAppliesOnce`: `Spec => []AppliedAtMostOnce`, if `query` and `create` are
  not among the faults. Crashes may be: the property ends with the first one.
* `PathImplementsLedger`: `Spec => LedgerSpec`, under the same assumption.
* `PathKeepsClient`: `Spec => [](Source!TypeOK /\ Source!OneSource)`: the client
  keeps in the composition, and through crashes, what it keeps alone.
* `PathTurnsNothingAway`: `Spec => []PolledIsConfirmed`, for every window,
  number of confirmations and fault.

`Proved` is an instance of the module above with its theorems, and `Client` one
of `DualModeClient_proofs`. Every step of `LivePath` is a step of the pipeline
while it runs (`RunStep`), its restart, or none of its business; and it is a
step of the client, a crash, or none of its business (`ClientStep`). So the step
lemmas of those modules apply and nothing is proved again. The assumption of
`PathAppliesOnce` is what the `LivePath` run has.

`PolledIsConfirmed` is about the last step of an event's way, so `DeepInv` says
of every place on the way, the poller's list, the channel and the reader's hand,
that what is there has its confirmations; the height only grows, and a crash
empties all three.

### The history sync (`HistorySync_proofs`)

For all callers, batch sizes, confirmations, requests, faults:

* `SyncTypes`: `Spec => []TypeOK`
* `BlocksAreNotSkipped`: `Spec => []NoBlockSkipped`
* `OfferedBlocksAreConfirmed`: `Spec => []OfferedIsConfirmed`
* `SyncInvariant`: `Spec => []SyncInv`

`BatchCoversOwed`, the second half of `SyncInv`, says of a batch under way what
`NoBlockSkipped` says of the mark: it has before it every block that is still
owed. Two batches of the row may run at once, and whichever ends last sets the
mark; each alone covers what is owed. `OfferedIsConfirmed` needs `EndsAreSafe`:
the end of a batch was safe when the head was read, and the head only grows.

### The points (`PointsCalculator_proofs`)

For any number of tickers and requests at once, and all changes, lags, rates,
stretches and faults:

* `CalculatorTypes`: `Spec => []TypeOK`
* `PeriodsAreRight`: `Spec => []PeriodsMatchReference`
* `RowsPayWhatWasHeld`: `Spec => []RowsPayHeldBalance`
* `NoMomentTwice`: `Spec => []PaidOnceUnlessRaced`
* `TotalsAreSums`: `Spec => []TotalIsSumUnlessRaced`
* `TotalsWithinRows`: `Spec => []TotalWithinRows`

`PeriodsAreRight` is about `buildBalancePeriods` alone: for any stretch and any
order of the changes in it that the `SELECT` may return, the periods tile the
stretch, each has the balance of the reference `HeldAt` in all of its moments,
and of changes with equal timestamps the last one that was returned counts.
`PayInv` carries this from the read to the row: a change that is not `missed`
comes after the end of everything that has been calculated, so the balance of a
paid moment does not change any more; and a stretch begins at a row's end with
the balance held until then, or at a change (`BeginsRight`), whoever wrote that
row.

`UnracedInv` says that what a calculation is about to commit lies in order and
behind all rows it knows (`StartsBehind`), and that a total it has read is the
sum of the rows it knows (`HasTotal`); both matter only while it knows all rows,
and `raced` says when somebody commits without. After a race `WithinInv` is
left: a total in the table, or in the hand of a transaction, is no more than the
sum of the rows, which never shrinks.

### The lists (`Leaderboard_proofs`)

For every finite set of users, all amounts, limits and minimums:

* `ListTypes`: `Spec => []TypeOK`
* `ListsDescend`: `Spec => []ListedDescending`
* `ListsKeepMinimum`: `Spec => []ListedHaveMinimum`
* `PagesShowEveryone`: `Spec => []EveryoneListedOnce`

`ListInv` says of what has been listed that it has the minimum and that each
page descends, whatever changed meanwhile; and while nothing changed, that it is
the beginning of a ranking, as long as the pages asked for (`SeenUpTo`,
`FromRankings`). Every query may order ties differently, so every page may come
from another ranking; `RankingsAgree` shows that two rankings have the same
amount at each place (otherwise one of them would have room for fewer users than
there are, a count by cardinality), and `RankingsUnique` that they are the same
where nobody is tied. The comparison of balances as texts is a linear order
(`TextTransitive`, `TextTotal`) and, among numbers of one length, that of the
numbers (`SameLengthOrder`); a debt comes before every number that is none.

### The others

* `ClientTypes` (`DualModeClient_proofs`): `Spec => []TypeOK`. `TypeInv` adds
  that whoever is about to hand an event on has one.
* `ClientHasOneSource` (`DualModeClient_proofs`): `Spec => []OneSource`, by
  `SourceInv`. It adds that handler and timer exclude each other, that an armed
  timer means no active subscription, that nothing runs before the client is
  started, and how `stopChan` and `isRunning` follow the progress of Stop. For
  every chain, window, capacity and number of faults.
* `RebuildTypes`, `RebuiltBalanceWasHeld` (`BalanceRebuild_proofs`):
  `Spec => []TypeOK` and `Spec => []BalanceWasHeld`, for any number of requests
  and changes. `RebuildInv` adds what is held between two statements: a request
  that has read holds the balance of a committed change (`ReadWasHeld`), and a
  transaction under way has its amount and time from a message (`TxOK`).
* `RebuiltBalanceIsLast` (`BalanceRebuild_proofs`): `Spec => []BalanceIsLast`.
  `LastInv` adds that a request and a message exclude each other until they have
  overlapped (`NoneInTheWay`), and that until then the balance of the row that
  `First` finds, the last record, what either has read, and the sum of all
  changes are one number (`AllEqual`). Lookups and updates may fail as they
  like.
* `LifecycleTypes`, `ShutdownWaitsForListener` (`ServiceLifecycle_proofs`):
  `Spec => []TypeOK` and `Spec => ShutdownLosesNoMessage`, for any number of
  events and faults. `LifecycleInv` says that nothing is started once the
  shutdown has begun (`StartedBefore`), that the listener is off before the next
  service is stopped (`ListenerGone`), that the client is closed after that and
  by nobody else (`ClosedLast`); `Room` counts the events over all places they
  can be in, and bounds the queue.

### Model-checked only

* Liveness: `PublishedIsApplied`, `ConfirmedIsApplied`, `StopTerminates`,
  `LeavesNothingRunning`, `FlagIsCleared`, `SafeBlocksAreOffered`,
  `HolderIsPaid`, `SignalEndsService`, `QueueIsServed`. The prover has no
  reasoning about fairness.
* The violated properties of section 3, as counterexamples: that they fail on a
  small instance says all there is to say.

Every invariant and every safety property that a passing run checks is a
theorem. Where a proof needs induction over data (the sum of the changes, the
sum of the points, the digits of a number), it takes the least element of a set
of naturals: `LeastNatural` and `InductiveSet` are facts about sets, derived
from the library's `WFMin`, and the recursive functions are unfolded with them.

## 5. Known limits of the code

Four runs show a disagreement between the code and what it says of itself; the
`findings` of `PROJECT.json` quote both.

1. `PipelineTwice`: a crash between publish and insert gets an event applied
   twice. Its message is published again; the consumer inserts a row for the one
   and flips the listener's row for the other. A second way leads there: if the
   listener's ID is older than the row that the consumer inserted meanwhile, a
   message that is delivered again finds the listener's unprocessed row first.
2. `PipelineBurn`: a burn is posted as `transfer_out` and as `burn`.
3. `DualShutdown`: with a full `eventChan` the WebSocket handler waits for a
   reader that was stopped before it, and Stop waits for the handler.
4. `PointsRace`: the reads that are to lock "with FOR UPDATE" do not. The ticker
   and a request start from the same last row and pay the same moments; and each
   writes the total it has read, or a first row of its own, so that the total is
   not the sum.

Other properties carry a condition, because the code gives no more; each
condition marks a case in which the property fails:

* `PublishedIsApplied` starts with an accepted message. An event whose publish
  failed is recorded, and the record keeps it from ever being published.
* `ConfirmedIsApplied` has the same exception (`RecordedUnpublished`), and
  speaks of the blocks that stay in the poller's window. The poller keeps no
  last block: what leaves the window between two ticks, or lies before the
  start, is not read.
* `AppliedAtMostOnce` of `LivePath` ends with the first crash, and the faults
  `query` and `create` are kept out of its run: an existence check that fails
  for any reason counts as "new", and a row that could not be inserted leaves
  the event to be published again by the next poll.
* `PolledIsConfirmed` is about polling. A subscription pushes an event when it
  is mined; with `BlockConfirmations > 0` it is dropped and not offered again.
* `QueueIsServed` lasts as long as the connection; nothing reconnects, and
  `isRunning` stays true. A consumer that is refused leaves none at all.
* `SignalEndsService` excepts a client that is `Blocked` when the listener
  stops: its handler holds an event, `eventChan` is full and the reader gone.
  This is `DualShutdown`, met from `main`: `EventListener.Stop` calls
  `CloseAll`, which never returns, and the process has to be killed.
* `LeavesNothingRunning` excepts a handler that is `Stranded`. A timer that has
  seen `isRunning` may dial while Stop runs, and starts a handler that nobody
  waits for. It ends when it looks at `stopChan`; but if the channel is full
  when it takes an event, it waits at `dual_mode_client.go:252` for a reader
  that is gone, as long as the process lives.
* `PaidOnceUnlessRaced` and `TotalIsSumUnlessRaced` end with the first commit on
  top of a row that was not read (`raced`); that it happens is `PointsRace`.
  Nobody who loses points of the total gets them back, since each calculation
  adds to the total it finds, and of two first rows only one is shown.
* `RowsPayHeldBalance` excepts changes that were `missed`: committed after a
  calculation has paid beyond their timestamp, be it by a moment. Timestamps are
  the listener's, in whole seconds, and the message, the transaction and a
  requeue come after it; the next calculation reads from the end of the last
  row, so such a change is never read, and the rows that follow pay the old
  balance until another change arrives. It also excepts changes with equal
  timestamps, whose order is the database's.
* `HolderIsPaid` asks for what earns points within `MaxPeriod` after the last
  row. A stretch that earns nothing leaves no row (`points_calculator.go:191`),
  and the next calculation begins in it again, while the code clips it to
  `MaxPeriod`: a user whose balance is 0, negative, or so small that every
  period is cut off to nothing for 24 hours on end, is never paid again,
  whatever he holds later.
* `BalanceIsLast` needs rebuilds that do not overlap with a message, and changes
  in different seconds, and speaks of the row that `First` finds. A rebuild
  whose lookup fails adds a second row, with an empty ID, before the user's own,
  which is not kept up from then on. Beyond the model: gorm refuses to update
  through a record whose key is empty (`ErrMissingWhereClause`), so that after
  such a rebuild every message of the user fails and is requeued without end.
* `ListedDescending` and `ListedHaveMinimum` compare balances of the same number
  of digits that are no debts, and a debt with what is none. Of two debts of one
  length the larger debt is listed first, and a text is before a longer one that
  goes on from it; "9" is listed before "10".
* `FlagIsCleared` and `SafeBlocksAreOffered` except a flag that nobody is left
  to clear (`orphaned`): after a crash in a batch, or a failed update at its
  end, `is_syncing` stays set in the table, and every later call returns at
  once, until a `SyncChain`.
* `NoBlockSkipped` and `SafeBlocksAreOffered` except a `SyncChain` in the middle
  of a batch, whose end overwrites the new mark, and one that asks for a block
  below 0 (`misplaced`): the number is not looked at
  (`chain_controller.go:137`), and the node refuses the range on every call, or
  takes its start for the name of a block ("latest" for -2), answers with
  nothing, and the mark moves on. `NoBlockSkipped` speaks of blocks that were
  *offered*: an event of a batch that fails is logged, and the mark moves past
  it.
* Before the first sync `SyncChain` has no effect in PostgreSQL and answers with
  a success: the ID of the row it inserts is longer than the column. SQLite, the
  fallback of `database.go`, does not enforce the width and takes the row
  (`ResetInsert` has both). A query of
  `sync_states` that fails counts as a first sync, and the batch runs from the
  first block with a record that no update finds. A batch has `BatchSize + 1`
  blocks.
* `EventConsumer.Stop` does not reach the goroutine that handles messages, and
  `PointsCalculator.Stop` does not wait for the immediate run; both end at the
  latest with the process. No property claims more.

## 6. What is not modelled

* `UpdatePointsRate`, which writes a float that calculations read without a
  lock: with a rate that changes, every row is still paid at some rate that was
  set, and nothing in the repository says which one it should be. The deadline
  that cuts the loop of `calculateAllPoints` over many users.
* A message that always fails (its chain has no record), and is requeued for
  ever: how much it leaves to the others depends on how fast the broker delivers
  it again, which nothing in the repository bounds.
* The listener's `processBalanceChanges` and `updateUserBalance`: copies of the
  consumer's that nothing calls. `DualModeClientManager` beyond `AddClient` and
  `CloseAll`, and `GetBlockTimestamp`, have no caller either.
* A sync and the live path together: both call `processEvent`, each in a
  goroutine of its own if somebody called `processChainEvents`, and the
  existence check would then race with the other's insert. As nothing calls it,
  no such behaviour of the program exists.
* Several chains: rows, changes, balances and clients of two chains share no
  key; they share the consuming goroutine and the queue.
* `ethereum/client.go` (nothing uses it), configuration, routing, logging,
  recovery middleware, and the read-only handlers, which format rows.
* A message that cannot be parsed is dropped (`Nack(false, false)`,
  `rabbitmq.go:193-197`). The queue is the service's own and every message in it
  was marshalled from the same type by `PublishEvent`, so none is.
* The databases' isolation is PostgreSQL's READ COMMITTED. The AMQP library's
  buffer of delivered messages is part of `unacked`.
* The Hardhat project, except for the effect of a transfer (`ContractDelta`).

## 7. Plan

Done, in this order: the pipeline and its ledger; the event source; points;
life cycle; rebuilds and lists; the history sync; the composition of source and
pipeline; the proofs of section 4. What is left, most useful first:

1. `PointsCalculator` with several users and the deadline, which cuts the loop
   at the same users every time if their order does not change.
2. Premises for the liveness properties as invariants: for each action whose
   fairness is assumed, that it is enabled where the argument needs it.
3. The subscription in `LivePath`, once a Stop of a subscribed client ends.
4. The history sync composed with `LivePath`, once something calls it.

## Running

    tlc -workers 2 -config PipelineFaults.cfg MCEventPipeline.tla
    tlc -workers 2 -config LivePath.cfg MCLivePath.tla
    tlc -workers 2 -config HistorySync.cfg MCHistorySync.tla
    tlapm LivePath_proofs.tla

`PROJECT.json` names module and configuration of every run.
