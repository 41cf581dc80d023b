# CometMock in TLA+

CometMock replaces CometBFT in tests of ABCI applications. One process plays all
validators: it builds a block, has every application check, sign and execute it,
stores it and serves CometBFT's RPC interface, without consensus or a network.
This directory models how it produces, stores and commits blocks, how it announces
them on its event bus, and how it answers RPC requests meanwhile. TLC checks the
model on small instances; TLAPS proves what matters most for all values of the
constants.

Paths below are relative to `src/cometmock/`. `PROJECT.json` maps each definition
to the lines it models.

## The system

| Part | Code | State | Operations that change it |
|---|---|---|---|
| Block production | `abci_client/client.go` | `CurState`, `LastBlock`, `LastCommit`, the two transaction queues, `signingStatus`, `blockMutex` | `SendInitChain`, `RunBlock` and its variants, `QueueTx`, `SetSigningStatus`, `CauseDoubleSign`, `CauseLightClientAttack` |
| Time handlers | `abci_client/time_handler.go` | an offset, the last block time | `GetBlockTime`, `AdvanceTime` |
| Storage | `storage/storage.go` | four maps by height, `stateUpdateMutex` | `LockBeforeStateUpdate`, `UpdateStores`, `UnlockAfterStateUpdate` |
| Commit infos | `utils/state.go` | none | `BuildExtendedCommitInfo`, `BuildLastCommitInfo` |
| Startup | `main.go` | flags | first block, RPC server, production loop |
| RPC endpoints | `rpc_server/routes.go` | none of their own | `advance_blocks`, `advance_time`, `set_signing_status`, `cause_double_sign`, `cause_light_client_attack`, `broadcast_tx_*`; the reads change nothing |
| Events | `client.go` (`fireEvents`), `rpc_server/websocket.go` | event bus, indexer, subscriptions | publish, subscribe, unsubscribe |
| Applications | external | what each has executed and committed | the ABCI requests |

Everything hard comes from how these parts meet:

* The production loop, each RPC request and each goroutine that `BroadcastTx`
  starts call `RunBlock` concurrently. `RunBlock` reads the last block's time, the
  time handler and the proposer *before* it takes `blockMutex`.
* `runBlock_helper` publishes its effects one after the other (queues, `LastCommit`,
  applications, `LastBlock` and stores, `CurState`, events, Commit) and can fail or
  panic between any two. Nothing is undone.
* An error makes `main` panic but is only an answer in an RPC handler. A panic ends
  the process, except in an RPC handler, where the server recovers from it; then
  neither mutex is unlocked.
* `fireEvents` hands its events to the bus with `blockMutex` and the storage locked,
  and the bus waits for the indexer but not for subscribers.
* Reads take no lock for `LastBlock` and `CurState`, one lock per entry of the storage,
  and ask the applications one after the other while Commit reaches them.
* Validator updates apply two blocks later and parameter updates one block later, so
  the last commit's signers differ from the current validators.

## Modules

| Module | Models |
|---|---|
| `ValidatorSets` | validator sets as functions from addresses to powers, updates, commits, the panics of the two commit infos. CometBFT's functions are external; the proposer is any member, as the priorities are not modelled |
| `TimeHandler` | both handlers and main's choice between them, the system clock |
| `MapStorage` | the four maps and their lock |
| `AbciClient` | composes the three with the goroutines, the mutex, the queues and the applications |
| `AbciClientProps` | types, properties, the inductive invariants, fairness, the refinement mapping to `Ledger` |
| `Ledger` | what all this promises: a chain of certified blocks that only grows, and applications that only move to its newest block |
| `EventBus` | extends `AbciClientProps` with `fireEvents`, the loop of the bus, the indexer and websocket subscriptions |
| `Pagination` | `validatePage`, `validatePerPage`, `validateSkipCount` as functions |
| `RpcServer` | extends `EventBus` and `Pagination` with the requests that read |
| `MCAbciClient`, `MCEventBus`, `MCRpcServer` | values of the constants for TLC |
| `TypeProofs` | every variable has its type |
| `StorageProofs` | what the storage holds: the stages of `RunBlock` up to the commit of a block, those that execute and store it, all steps; the applications follow the storage; `AbciClient` implements `Ledger`; `CurState` and `LastBlock` for readers without a lock |
| `ChainProofs` | what a block takes over from the one below it; what becomes of transactions |
| `TimeProofs` | the times of blocks that are run concurrently, with either handler; how far what `RunBlock` reads before it locks may be out of date |
| `EventProofs` | the index is sound and nearly complete |
| `DeliveryProofs` | subscriptions take every event, in order |
| `RpcProofs` | what readers get holds together while blocks are stored, applied and committed |
| `AnswerProofs` | pages are a partition of the results; answers are found and do not go back |

### State and actions of `AbciClient`

Each goroutine has a label `pc[t]` and the arguments of its `RunBlock`. The locals
of `runBlock_helper` exist once, as only the holder of `blockMutex` uses them. A
label is a point between two effects that another goroutine can observe; the code
between two labels touches only what `blockMutex` protects and is one step. The exception
is `StoreBlock`: it locks the storage, assigns `LastBlock` and fills the storage
(`client.go:1190-1197`), while `LastBlock` is also read without a lock (`routes.go:349`,
`411-413`). In between, such a reader finds the old block or the new one, and whoever then
asks the storage waits for the lock; the model has the same readers before and after the
step. That the lock comes before the assignment, without which a reader could look for a
block that is not stored yet, is taken from the code and not checked.

| Label | Step | Code |
|---|---|---|
| `initChain`, `firstBlock`, `startServer` | `InitChain`, `RunFirstBlock`, `StartServer` | `main.go:220-242` |
| `idle` | `ProduceBlock`, `AdvanceBlocks`, `CauseMisbehaviour`, `BroadcastTx` | the callers of `RunBlock` |
| `queueTx` | `QueueTx` waits for `blockMutex`, queues, and with `--auto-tx` starts a goroutine | `client.go:92`, `routes.go:491-495` |
| `readTime`, `getTime`, `readProposer` | the reads of `RunBlock` without a lock | `client.go:633-649` |
| `lock` | `LockBlockMutex` | `client.go:1233` |
| `checkTxs`, `propose` | CheckTx of both queues; evidence, PrepareProposal, `ClearTxs`, requeueing | `client.go:913-1030` |
| `process`, `sign` | ProcessProposal; a step per signature, since `set_signing_status` may come in between; the extended commit | `client.go:1032-1182` |
| `finalize`, `store`, `updateState`, `fireEvents` | FinalizeBlock, `UpdateStores`, `UpdateStateFromBlock`, its `fireEvents` and the unlock | `client.go:1184-1213` |
| `commit` | a step per application, then the new `AppHash` | `client.go:1215-1222` |

`RequestAdvanceTime`, `SetSigningStatus` and `ClockTick` can happen at any time.
`Leave(t, outcome)` is the return of `RunBlock` with `"ok"`, `"error"` or `"panic"`
and decides what becomes of the mutex and the process.

The data is abstract. A block's hash is the number of its proposal, so two attempts
at one height differ. A transaction is a model value, and `NoTx` is the empty entry
that a rejected one leaves in its queue. An application is the pair of blocks it has
executed and committed; `AppMay` says what it may do besides accepting. Vote
extensions are a flag of a commit, consensus parameters the enabling height of vote
extensions. `accepted`, `sent`, `advanced` and `runs` record the inputs, for bounds
and properties. A duration is a signed integer that wraps at `MaxInt64`, and
`advance_time` multiplies its argument by `Second` at that width.

`AbciClient` takes `fireEvents` as one step that returns (`EventsFired`) or panics for
want of a transaction result (`EventsPanic`). `EventBus` replaces that step by what
happens inside.

### State and actions of `EventBus`

| State | Code |
|---|---|
| `fired`, `log` | the events of the current block that are out, and all events so far |
| `inHand`, `waiting` | the event that the loop of the bus is handing out, and who has yet to get it |
| `batch`, `blockIndex`, `txIndex` | the block the indexer collects, and what it has indexed |
| `subs` | per subscription its state, its buffer, the event its goroutine holds, and what was taken from the buffer and whether it was written |

`PublishEvent`, `ReturnFromFireEvents` and `PanicInFireEvents` are `fireEvents`
(`client.go:1378-1436`). It blocks until the loop takes the event, not until anybody has
it. The loop and the indexer are CometBFT's and external: `DeliverToIndexer` waits
(its channel has no buffer), `DeliverToSubscription` cancels a subscription whose buffer
is full, `IndexBlock` and `IndexTxs` write the index when as many `Tx` events have come
as `NewBlockEvents` announced. `Subscribe`, `Unsubscribe` and `UnsubscribeAll` are the
requests of `websocket.go`; `TakeEvent`, `WriteRPCResponse` and `SeeCanceled` the
goroutine that `Subscribe` starts. A write may time out, which drops the event and
nothing else. A query is a set of types of events.

### State and actions of `RpcServer`

Each reader serves one request at a time: `calls[r]` holds what it still has to read
(`todo`), what it has got, and what was known when it began. Every access to shared
state is a step.

| Requests | Steps |
|---|---|
| `block`, `commit`, `validators`, `consensus_params`, `block_results` | `BeginAtHeight` reads `LastBlock.Height` in `getHeight` and checks the argument; `CallGetter` locks the storage for one entry; `commit` has two |
| `block_search`, `tx`, `tx_search` | `BeginSearch`, `BeginTx` read the index, sort and paginate; `CallGetter` fetches the blocks |
| `status` | `BeginStatus`, then a `ReadField` for each field, in the order of the code and without a lock |
| `abci_query`, `abci_info` | `BeginAppCall`, then an `AskClient` for each application, in any order; different answers are an error |

A query of a search matches everything: which results match is the query language's
business, what is done with them is modelled. Requests that `Begin` refuses are answered
at once.

## Runs

`CHECK_DEADLOCK FALSE` is right here: the process may crash, the requests are bounded,
and a leaked mutex stops everyone.

| Run | Instance | Checks | States |
|---|---|---|---|
| `errors` | two handlers, system clock; InitChain, ProcessProposal, FinalizeBlock and Commit fail | `BlocksLinked`, `AppsFollowStores`, `LastCommitIsStored`, `AppHashOfParent`, `TimeFollowsClock`, `RunsReturn`, `RefinesLedger` | 138 000 |
| `panics` | signing status, vote extensions, refused updates, a validator without a client, panics, failing FinalizeBlock | `TypeOK`, `StoresAgree`, `CommitsHaveQuorum`, `StorageInv`, `StoresAppendOnly` | 199 000 |
| `validators` | replacement of a validator, evidence, production loop and a handler | `UpdatesApplyTwoBlocksLater`, `EvidenceNamesASigner`, `HistoryInv`, `ReadsInOrder`, `ReadInv` | 1 610 000 |
| `concurrent` | production loop, a handler and a goroutine of `BroadcastTx`; two transactions, `advance_time` with durations that may overflow; FinalizeBlock may fail | `TxsLostOnlyWithBlocks`, `NoTxDuplicated`, `TxInv`, `NoTimeGained`, `TimeInv`, `ReadsInOrder` | 1 220 000 |
| `delivery` | `EventBus`: `--auto-tx`, a handler, indexer, a subscription that may be slow, full, cancelled or stuck; updates may be refused, `fireEvents` may panic | `IndexMatchesStores`, `IndexLagsTwoBlocks`, `NothingSkipped`, `BusInv`, `DeliveryInv`, `TxsAreIncluded`, `StoresUnlock`, `TxsAreIndexed`, `EventsAreDelivered` | 70 000 |
| `rpc` | `RpcServer`: every kind of read against block production, the index and two applications; updates may be refused, `fireEvents` may panic | `AnswersFound`, `CommitAnswersMatch`, `ReadsGoForward`, `QueryAnswersAreSnapshots`, `StatusGoesForward`, `PagesPartition`, `ReadsReturn` | 274 000 |
| `events_before_commit` | `RpcServer`: a subscriber queries two applications | `EventsComeLast` is violated | |
| `time_goes_back` | two handlers, `advance_time` | `TimesNeverDecrease` is violated | |
| `tx_lost` | a rejected proposal | `NoTxLost` is violated | |
| `leaked_mutex` | most of the power is down | `RunsReturn` is violated | |
| `wrong_signers` | replacement of a validator | `LastCommitMatchesValidators` is violated | |
| `states_before_blocks` | one handler, no failures | `StatesAreAfterBlocks` is violated | |

Some properties have exceptions in their statement, and these are what the code does:

* `NoTxLost` needs every proposal to be stored, and `TxsLostOnlyWithBlocks` says that it
  needs nothing else.
* `LastCommitIsStored` and `AppHashOfParent` allow one other value each: after a failed
  FinalizeBlock, the commit of an earlier attempt at the same height; after a failed Commit,
  no hash.
* `TimeFollowsClock` exempts durations that overflow and the second block, forward if the
  starting time is in the past and back if it is in the future.
* `RunsReturn` holds with every error of `errors`: rejected proposals, and failures of
  InitChain, FinalizeBlock and Commit. It does not survive a panic under the mutex
  (`leaked_mutex`), nor a refused state update, which leaves the storage locked so that the
  next `RunBlock` waits for it with `blockMutex` in hand.
* `TxsAreIncluded`, `StoresUnlock` and `ReadsReturn` therefore exempt a leaked lock.
  `delivery` and `rpc` contain both ways to leak one: a refused update, and the panic of
  `fireEvents` for want of a transaction result (`client.go:1422`), which the server
  recovers from in a handler. `TxsAreIndexed` speaks of transactions in a storage that can
  be read: what is stored under a lock that is never released is not indexed.
* `StoresAgree`, `BlocksLinked`, `CommitsHaveQuorum`, `StoresAppendOnly`,
  `AppsFollowStores` and `RefinesLedger` have none.

`ReadsInOrder` is what is left of the reads of `RunBlock` under concurrency. Block times and
proposers are not those of the newest block and state: both are read before the lock, and
any number of blocks may be stored in between. But the time is read first, so the proposer
is never older than the block that the time comes from; and the time is one block time, plus
some of the durations given, after that block. That `TimesNeverDecrease` is false shows that
it need not be the newest. What `advance_time` answers (`AnsweredTime`) is computed from the
last time that the handler has *given out*. It is the next block's time only if that is the
newest block's, which a concurrent or failed `RunBlock` prevents; no property speaks of it.

What the runs with events and readers show beyond the single statements:

* The index lacks at most the last two blocks of the storage, and nothing in CometMock's code
  says so: the bound comes from the unbuffered channel of the indexer, which makes the
  next `fireEvents` wait.
* A `status` answer may mix several blocks, but only in one direction, because the code
  happens to read the hash before the height and the height before the time.
* An `abci_query` asks the applications one after the other while Commit reaches them one
  after the other, and yet every answer is one that all of them would have given at one
  moment: the comparison of the answers does that.
* Reads return even if block production hangs in an application, as no application is
  called with the storage locked.

### Bounds

`MaxRuns` bounds the `RunBlock` calls after the first block: two let two callers race
for one height, three let an update applied two blocks later be seen, four let a
replaced validator's commit be read. `MaxCopies`, `MaxAdvance`, `MaxBlocks` and
`MaxNow` bound the copies of a transaction, the sum of the advanced durations, the
argument of `advance_blocks` and the clock; `MaxReads` the requests that read, where two
let one answer be compared with a later one. Widths and sizes are scaled down, with the
code's relations between them kept: `Second` is 2 and `MaxInt64` is 3 in `concurrent`, so
that an argument of 2 overflows when it is converted, and one of 1 when it is added to an
earlier one that is not spent yet; a subscription buffers 2 events instead of 100, fewer
than a block has; a page has at most 3 entries instead of 100. Validator 1 alone has two
thirds of the power and validator 2 has not, so both outcomes of the quorum occur with two
validators; a third is there to replace, or to lack a client. In `panics` the two
handlers are symmetric, and no liveness is checked there.

### Fairness

A goroutine that can go on goes on (weak fairness of `RunBlock(t)` and of the startup
steps): the Go scheduler preempts and starves nobody. Locking is strongly fair:
`sync.Mutex` hands the lock to a waiter after a millisecond. It is assumed that every
application answers. Requests, failures and clock ticks have no fairness.

`BusFairness` adds that the loop of the bus and the indexer go on, which never wait for
anything but each other. Nothing is assumed of websocket clients and their goroutines:
`StoresUnlock` and `TxsAreIndexed` must not depend on them. Only `EventsAreDelivered`
assumes, for the subscription it speaks of, that its goroutine runs.

`RpcFairness` assumes as little as possible: the goroutine that holds the storage's lock
goes on, the bus and the indexer do, and a reader that can lock again and again
eventually does (`sync.RWMutex` lets waiting readers in before the next writer). The
rest of block production may stop anywhere.

## Proofs

`tlapm` checks, for any number of goroutines, validators, applications, transactions,
subscriptions and readers, any buffer and page size, and for applications that fail, reject
and answer as `AppMay`, `Responses` and `InitResponses` let them. Of PrepareProposal the model
assumes that it answers with a part of what it was given, in the order given:
`CreateProposalBlock` would accept any list (`client.go:624-630`), and what the theorems say
of transactions depends on it.

| Module | Theorem | Statement |
|---|---|---|
| `TypeProofs` | `TypeCorrect` | `Spec => []TypeOK` |
| `StorageProofs` | `InvHolds` | `Spec => []StorageInv` |
| | `StorageIsConsistent` | `Spec => []StoresAgree` |
| | `StorageIsAChain` | `Spec => []BlocksLinked` |
| | `StoredCommitsHaveQuorum` | `Spec => []CommitsHaveQuorum` |
| | `StorageIsAppendOnly` | `Spec => StoresAppendOnly` |
| | `AppsStayOnChain` | `Spec => []AppsFollowStores` |
| | `ImplementsLedger` | `Spec => RefinesLedger` |
| `ChainProofs` | `HistoryInvHolds` | `Spec => []HistoryInv` |
| | `UpdatesTakeTwoBlocks` | `Spec => []UpdatesApplyTwoBlocksLater` |
| | `EvidenceIsAboutSigners` | `Spec => []EvidenceNamesASigner` |
| | `LastCommitsAreStored` | `Spec => []LastCommitIsStored` |
| | `AppHashesFollow` | `Spec => []AppHashOfParent` |
| | `TxInvHolds` | `Spec => []TxInv` |
| | `TxsAreNotDuplicated` | `Spec => []NoTxDuplicated` |
| | `TxsAreLostOnlyWithBlocks` | `Spec => []TxsLostOnlyWithBlocks` |
| `TimeProofs` | `TimeInvHolds` | `Spec => []TimeInv` |
| | `TimeIsNeverGained` | `Spec => []NoTimeGained` |
| | `ClockInvHolds` | `Spec => []ClockInv` |
| | `TimesFollowClock` | `Spec => []TimeFollowsClock` |
| | `ReadInvHolds` | `Spec => []ReadInv` |
| | `ReadsAreInOrder` | `Spec => []ReadsInOrder` |
| `EventProofs` | `EventsDoNotDisturb` | `BusSpec => Spec` |
| | `BusInvHolds` | `BusSpec => []BusInv` |
| | `IndexIsSound` | `BusSpec => []IndexMatchesStores` |
| | `IndexIsComplete` | `BusSpec => []IndexLagsTwoBlocks` |
| `DeliveryProofs` | `DeliveryInvHolds` | `BusSpec => []DeliveryInv` |
| | `NoEventIsSkipped` | `BusSpec => []NothingSkipped` |
| `RpcProofs` | `ReadersDoNotDisturb` | `RpcSpec => BusSpec` |
| | `CommitsMatchBlocks` | `RpcSpec => []CommitAnswersMatch` |
| | `StatusIsForward` | `RpcSpec => []StatusGoesForward` |
| | `AnswersAreSnapshots` | `RpcSpec => []QueryAnswersAreSnapshots` |
| `AnswerProofs` | `PagesArePartitions` | for every number of results and page size, each result is on exactly one page |
| | `AnswersAreFound` | `RpcSpec => []AnswersFound` |
| | `AnswersGoForward` | `RpcSpec => []ReadsGoForward` |
| | `PagesCoverOnce` | `RpcSpec => []PagesPartition` |

They rest on the assumptions in the modules: addresses are finitely many naturals (only
their order matters), times are integers, durations are not negative, goroutines are
distinct from each other and from the two marks of a free and a leaked mutex, the buffer of
a subscription holds at least one event, the indexer is not one of the subscriptions, a page
has at least one entry, and the other constants have their types. No theorem has a
hypothesis of its own: which failures occur is in the statements (`FailedAttempt`,
`Uncommitted`, `EveryProposalStored`, `OffsetFits`, `DurationsFit`).

The invariants build on each other: types, storage, applications, then the chain, the
times, the events and the readers. Each is inductive relative to the ones before it, so
that a step lemma has a case per action and mentions only what the action can disturb.
Leaves that need no arithmetic name Zenon, which is quicker on them than the SMT solver.

**Storage.** None of the properties of the storage is inductive. That a stored block is
linked to the one below depends on `CurState` describing `LastBlock` when the block was
proposed, many steps before it is stored; that nothing is overwritten depends on the same
fact when it *is* stored. `StorageInv` therefore adds:

* `Locks`: the goroutine between `Lock()` and `Unlock()` holds `blockMutex`, and the
  one that updates the storage holds `stateUpdateMutex`. No two goroutines are inside.
* `Stages`: what `runBlock_helper` has established at each label. The block's height
  and parent follow `CurState`; the votes come from its validators; from `finalize` on
  `LastCommit` signs the block with a quorum; and **while the storage is not locked,
  `CurState` describes `LastBlock`**. A refused state update leaves the two apart, and
  then the storage stays locked for ever, so that the next attempt at that height never
  stores anything. It is the leaked lock that keeps the storage append-only.
* `Starting`: nothing else runs while main waits for InitChain, which rewrites
  `CurState`.

**Ledger.** `ImplementsLedger` maps the abstract ledger's chain to the hashes, parents and
commits in the storage, its height to that of `LastBlock`, and its applications to what
they have committed. `StoreBlock` is `Extend`, a step of `SendCommit` is `Commit(c)`,
everything else stutters. For the second, the application must be behind and get the newest
block, which is in no way visible at `SendCommit`: `AppInv` adds to `AppsFollowStores` that
after FinalizeBlock every application has executed the block at hand, and that those
that have yet to commit it are below it. A failed FinalizeBlock or Commit leaves some
applications elsewhere, and the next FinalizeBlock brings them back.

**Chain.** What a block takes over from the one below it (`LastCommit`, `AppHash`, the
validators, the evidence) sits in fields of `AbciClient` between two blocks. `HistoryInv`
says for each label of `runBlock_helper`, and for the time when nobody is inside, that
these fields are the ones left by the newest *stored* block (`ParentStage`,
`ParentAtRest`, `CurStateFollows`), and that all blocks and states in the storage got them
so (`Heredity`). The validators of height h + 2 follow from two steps of `Follows`, one
`UpdateState` each.

**Transactions.** A transaction goes from a handler to the fresh queue, from there to a block
or to the stale queue, and from the block to the storage. `TxInv` counts its copies in all
these places and compares the sum with the broadcasts; that blocks hold no more than were
broadcast is not inductive without the queues. Only `DecideProposal` moves
many copies at once: it clears both queues, takes some entries into the block and requeues
the others. Both are loops over a queue (`Kept`), and the lemmas on it say that what the
block takes and what is requeued never exceed what was queued, and together leave none out.
A block that fails takes its transactions along, so the second half of `TxInv`, that
each accepted transaction is somewhere, is conditional on `EveryProposalStored`: there are as
many proposals as stored blocks, but for the one being run.

**Time.** `RunBlock` reads the last block's time and spends the offset of `advance_time`
before it locks. `TimeInv` bounds what each goroutine holds at each such label by the
height that `LastBlock` has *now* and by all durations spent so far, which only grow. The
offset is an int64: adding to it may wrap, and then it loses time but gains none, which is
why `Spent` never decreases. `ClockInv` does the same for the system clock: unless the
durations overflow, the offset is the initial one plus all of them, and each time that a
goroutine holds above the first block lies between what the clock showed at the start and
what it shows now. It needs to know that main's first block is the only one that has the
starting time (`MainFirst`).

`ReadInv` is about what is out of date rather than late. It says of each goroutine, from its
first read until its block is stored, that there is a stored block j from which the time
comes and a height k, not below j, whose proposer it holds; `ProposerOf(k)` is the proposer
in the state stored for k, or in `CurState` for the height that comes next. Two things are
needed to keep that true while others store blocks. `UpdateState` replaces the proposer in
`CurState`, but the state it starts from is the one that `StoreBlock` has just stored
(`StartsFromStored`), so that what was current becomes what is stored. And the offset, which
GetBlockTime adds to the time, is made of durations that were given (as long as they fit in
an int64), and their sum only grows.

**Events.** The loop of the bus hands one event at a time to everyone, and the indexer's
channel has no buffer. `BusInv` relates four things that move separately: how many events
of the block `fireEvents` has published, the event in hand, the batch of the indexer, and
the index. The bound of two blocks follows: the third event of a block, `NewBlockEvents`,
is not taken by the indexer before it is done with the block below, and the loop waits.
`DeliveryInv` says that what was published for a subscription is, in this order, what its
goroutine took, what it is writing, what is queued, and what the loop has in hand for it; a
step of the bus or of the goroutine moves one event from one of these to the next, and a
cancelled subscription keeps a beginning of it.

**Readers.** `ReadersDoNotDisturb` carries all theorems over to the composition: a reader
leaves block production and the bus alone, and the end of `fireEvents` is one of block
production's steps. Then:

* `TipInv` (in `StorageProofs`): `CurState` is the state after `LastBlock` or after the
  block below it, and the server is up only once it is the state after a block. So "the
  latest height" is never zero.
* `RpcInv`: the height of a request is stored, what it has left to read is exactly what its
  kind has yet to read there, and the commit it holds is the stored one. It survives
  concurrent `StoreBlock` steps because the storage is append-only.
* `StatusInv`: what a `status` has read after each field. The hash it holds is that of a
  stored block not above the height it reads later, and the time is read from a `CurState`
  that is at most one block below that height.
* `AppReadInv`: as long as the answers are equal, they name a block of the chain that all
  applications asked so far have reached, and either all applications have been at it at
  one moment or one that is still to be asked is elsewhere. The step of SendCommit comes
  from `ImplementsLedger`: an application only ever moves to the newest block, so an
  application that leaves a block never comes back to it.
* `AnswerInv`: nobody is told a height above that of `LastBlock`, what is left of a search
  is stored, and a request that settles on the latest height settles on at least what
  anybody had been told when it began. It needs `IndexIsSound` for the searches, `RpcInv`
  for the heights, `AppReadInv` for the applications and `StatusInv` for the order of the
  reads of `status`.

The results of a search are a sequence only if the index is finite; `IndexIsFinite`
derives that from `IndexIsSound`, as the index holds nothing but heights and transactions
of stored blocks. `PagesArePartitions` rests on `Quotient`, Go's division, which rounds
towards zero; the lemmas bracket it between multiples of the page size, with the case of
no results apart.

Loops over a queue or a log are recursive functions (`Kept`). The provers have no
induction over data, but every non-empty set of naturals has a least element
(`LeastNumber`), and what is proved of such functions (`KeptType`, `KeptAppend`) is proved
by looking at the least length at which it fails.

### What is only model-checked

* Liveness: `RunsReturn`, `TxsAreIncluded`, `StoresUnlock`, `TxsAreIndexed`,
  `EventsAreDelivered`, `ReadsReturn`. Fairness is outside the prover's reach.
* `NoTxLost` without a condition is false of a configuration in which a proposed block can
  fail (run `tx_lost`); `TxsLostOnlyWithBlocks` is what is proved.
* The external parts (applications, the loop of the bus, the indexer) are proved about as
  they are modelled.

## Where the code and its documentation differ

Six differences have a run:

* `TimesNeverDecrease`: the offset of `advance_time` shifts "all future blocks"
  (`time_handler.go:77`), but a concurrent `RunBlock` that read the last block earlier
  may store a block without it afterwards.
* `NoTxLost`: a transaction is removed "when included" (`client.go:85`), but the queues
  are cleared once the proposal exists, and a rejected proposal loses them.
* `RunsReturn`: `RunBlock` "is safe for use by multiple goroutines" (`client.go:1225`),
  but a panic under `blockMutex` that the RPC server recovers leaves it locked.
* `LastCommitMatchesValidators`: `BuildLastCommitInfo` is to get the last validator set
  (`utils/state.go:89`), but gets the current one.
  After an update that changes the number of validators it panics two blocks later, so
  `UpdatesApplyTwoBlocksLater` says something only of updates that keep the number.
* `EventsComeLast`: events "are fired after everything else" (`client.go:1276`), but the
  applications commit after them, so that who has received a block's events may query the
  state before it.
* `StatesAreAfterBlocks`: the state at a height is "the state after applying the block at
  that height" (`storage.go:21-22`), but `runBlock_helper` stores a copy of `CurState` before
  it applies the block (`client.go:1197`).

Others were met while modelling and are modelled as the code has them:

* Concurrent callers may get equal block times, although the time is said to advance
  from one block to the next (`main.go:63`).
* `GetBlockTime` spends the offset even if its block then fails, although it is to be
  called "precisely once for each block" and `AdvanceTime` to advance "all following blocks"
  (`time_handler.go:17-24`). An offset that overflows does not advance them either.
* The system clock's offset is `time.Since(start)`, so a start in the past makes blocks
  later than the system time by that much (`time_handler.go:46`).
* A refused state update returns without `UnlockAfterStateUpdate` (`client.go:1210`),
  which the caller "should call" (`storage.go:40`).
* After a failed FinalizeBlock, `LastCommit` is that of the failed block, and the next
  attempt at the height carries a commit for its own height (`client.go:1157`).
* The proposer is read before the lock and may be stale (`client.go:637`).
* `BroadcastTxAsync` is said to "return when that block is committed"
  (`routes.go:469`), but the block is run by another goroutine.
* `abci_info` dereferences the response before it looks at the error, so that an
  application that fails makes the handler panic (`routes.go:510`).
* The repository's README has `--block-time` values `<= 0` select the system clock
  and `--auto-tx` default to false; in `main.go` it is `< 0` and true.

## Not modelled

* HTTP set-up and JSON (`rpc_server.go`) beyond its recovery from panics and the missing
  `OnDisconnect`; reading the genesis file and keys, connecting to the applications,
  and logging: input and output without state of their own.
* Hashing (`utils/blocks.go`): blocks are numbered. `MakeVote` (`utils/votes.go`) is not
  called by the program.
* The query languages of subscriptions and searches, which belong to CometBFT: a
  subscription's query is a set of types, a search matches everything.
* Requests that are refused before they do anything, and `health` and
  `broadcast_tx_commit`, whose answers depend on nothing.
* Proposer priorities: the proposer is any member of the set.
* Data races proper: a read of a field is one step and yields a written value.
* A genesis with `initial_height` above 1 is in the model but in no run: it panics in the
  first block, before any property can be violated.
