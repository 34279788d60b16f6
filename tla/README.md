# A verification of susybraid-core

susybraid-core is an in-process blockchain for tests: a JSON-RPC provider over one
chain that mines a block as soon as a transaction comes, or on an interval, or on
request; that takes snapshots and reverts to them; and that can continue another
node's chain. This directory holds TLA+ models of the parts of `src/lib` that carry
that logic, TLC runs over small instances, and theorems checked by TLAPS for
instances of every size. `PROJECT.json` lists the runs, the lines of code each
definition stands for, the hazards, and a mutant of the code for every property.

- [The system](#the-system) - components, state, interactions, what is hard
- [The modules](#the-modules) - what models what, and how faithfully
- [The runs](#the-runs) - what is checked, the bounds, the fairness
- [The proofs](#the-proofs) - theorems, inductive invariants
- [Where the code disagrees with its documentation](#where-the-code-disagrees-with-its-documentation)
- [What is not modelled](#what-is-not-modelled)
- [Plan](#plan)

To run: `tlc -config Ledger.cfg MCLedger.tla`, `tlapm LedgerProofs.tla`, and so on.

## The system

One Node.js process. Every step runs to its end before another starts, and a step
ends where the code awaits or gives a callback away; all interleaving is between
such steps. Requests come in through `Provider.send` or the HTTP and web socket
servers around it, wait in the provider's queue, pass a chain of subproviders
(defaults, filters, subscriptions) and arrive at `GravitonApiDouble`, which forwards
each RPC to `StateManager`. That one owns the pool policy, the miner and the
snapshots, and works on one `BlockchainDouble`, or a `ForkedBlockchain`, which owns
the chain, its indexes in a key-value database, and the state trie that it shares
with the virtual machine.

| component | state | operations | what makes it correct |
|---|---|---|---|
| request queue (`provider.js`) and the gate before initialization (`graviton_api_double.js`) | `_requestQueue`, `_requestInProgress`, scheduled `setImmediate`s, initialization status | send, `_processRequestQueue`, completion callback, delayed handlers | one request in the engine at a time, in the order sent, each answered once, none forgotten |
| chain (`blockchain_double.js`) | `data.blocks`, `blockLogs`, `blockHashes`, `transactions`, `transactionReceipts`, `stateTrie.root`, `pending_transactions`, clock adjustment | `putBlock`, `popBlock`, `queueTransaction`, `processNextBlock`, `readyCall`, reads of past state | indexes agree with the chain; the root is that of the last block; a sender's nonces continue |
| state manager (`statemanager.js`) | `snapshots`, `is_mining`, `is_mining_on_interval`, timer and cancellation token | `processTransaction`, `processBlocks`, `startMining`, `stopMining`, `mineOnInterval`, `snapshot`, `revert` | a revert restores exactly; nothing is lost silently; one interval miner or none |
| database (`database.js`, `leveluparrayadapter.js`, `levelupobjectadapter.js`) | an entry per index and a length for each array; an entry per key | `push`, `pop`, `get`, `put`, `del` | a put or pop leaves five stores that agree; a killed process leaves a database that initializes |
| shared trie (`getAccount`, `getStorage`, `getCode`, `processBlock`) | `stateTrie.root` | point at a block's root, read, put back; run a block | reads answer for their block; the root comes back |
| forked chain (`forkedblockchain.js`, `forkedstoragetrie.js`) | `forkBlockNumber`, local blocks, local trie | reads by number and hash on both sides of the fork | a continuous chain; state of the right block; nothing from beyond the fork |
| action queue and batches (`statemanager.js`, `provider.js`) | `action_queue`, `action_processing`, the pool, the block in the making | the members of a JSON array, `_queueTransaction`, `processNextAction`, `processBlocks` | actions in turn; a batch ends as its members would one by one; every member answered |
| block tracker (`block_tracker.js`) | last block seen | new block | each stored block is passed on once, in order |
| subscriptions (`webSocketServer.js`) | subscriptions of each connection, connection of each subscription, the engine's own table | connect, subscribe, unsubscribe, close, new block | the tables agree; who subscribed hears every block; nothing is left of a closed connection |
| block filters (`delayedblockfilter.js`) | what each filter has seen, whether it was polled | new filter, poll, two inner requests | each block told once and in order; the first answer is one block late |
| gas estimation (`gasEstimation.js`) | the steps of one run | collect a step, estimate | the estimate is enough, and not too high |
| tracing, runtime errors, transactions | none across requests | pure | the trace is that of the call |
| servers, accounts, RPC formatting | none that the above depends on | conversion, I/O | - |

How they interact: the queue calls the state manager (a method call with a callback);
the interval miner re-enters the queue through `provider.send`; the state manager
drives the chain block by block; chain and virtual machine share the trie; the chain
writes the database; the tracker hears of blocks through an event and asks for them
through the queue; the members of a batch share the pool, the action queue and the root.

What is hard here:

- *Interleaving.* The busy flag of the queue against completions; the requests of one
  batch, which run side by side although the queue serves payloads one at a time; the
  root of the shared trie.
- *Late callbacks.* An `svm_mine` of the interval timer that is answered after
  `miner_stop`, or after a stop and a new start.
- *Long loops.* `revert` pops snapshots and, inside, blocks; `processBlocks` mines until
  the pool is empty and collects errors over several blocks.
- *Partial failure.* A block that the virtual machine refuses, after its transactions
  have left the pool.
- *Connections that close.* While their requests wait, or before a subscription that was
  asked for is made.
- *Answers put together.* The first poll of a filter asks for a number and then for the
  block before it, with blocks and reverts in between.
- *Rounding.* Each nested call holds a 64th of the gas back.
- *Crashes.* `putBlock` and `popBlock` write five stores without a batch.
- *Two chains.* Numbers, roots and hashes on each side of a fork, and a node on the
  other side that goes on mining.

`PROJECT.json` lists these at their lines under `hazards`, with the properties that
would catch each going wrong, or why none does yet.

## The modules

| module | models | composed with |
|---|---|---|
| `Timeline` | the promise: a chain that grows at its end, marks, rewinds that restore exactly, restarts | implemented by `Ledger` |
| `Ledger`, `MCLedger` | chain, indexes, pool, clock, snapshots, instant mining, `svm_mine`, restarts | refines `Timeline` |
| `LedgerProofs` | theorems about `Ledger` | |
| `RequestQueue`, `RequestQueueProofs` | the queue and the gate before initialization | gives `Ledger` its serial requests and `IntervalMiner` its fair queue |
| `IntervalMiner`, `IntervalMinerProofs` | `mineOnInterval`, tokens, timers, start, stop, close, the requests between them | |
| `BlockStore`, `MCBlockStore`, `BlockStoreProofs` | the writes inside one `putBlock` and one `popBlock`, kills, restarts | opens what is one step in `Ledger` |
| `StateTrie`, `MCStateTrie` | reads of past state and the run of a block over one root, side by side | opens the reads that `Ledger` leaves out |
| `ForkedChain` | chain, accounts, storage and receipts across a fork | |
| `StateProofs` | theorems about `StateTrie` and `ForkedChain` | extends both, whose definitions have names of their own for that |
| `Batch`, `MCBatch`, `BatchProofs` | the members of a batch side by side: action queue, nonces, pool, one block at a time | opens what one request is in `Ledger` |
| `BlockTracker` | the chain as a tracker sees it, and the tracker | extended by the two below |
| `Subscriptions` | connections, the two tables of the web socket server, the queue between | stands on the queue of `RequestQueue` |
| `BlockFilters` | polled block filters with the delayed first answer | |
| `TrackerProofs` | theorems about `BlockTracker`, `Subscriptions` and `BlockFilters` | extends both `Subscriptions` and `BlockFilters`, whose definitions have names of their own for that |
| `GasEstimation`, `MCGasEstimation`, `GasEstimationProofs` | a small machine with nested calls, the step tracker, the estimate, the transaction sent with it | |

### Ledger

One action per RPC that changes state, and one per turn of a loop. The loops of
`processBlocks` and `revert` are not collapsed: `phase` says which is running, and
`restart` (a new process over the same database) may come between any two turns.

| action | code |
|---|---|
| `processTransaction`, `rejectTransaction` | `statemanager.js` `queueTransaction`, `_queueTransaction`, `createTransactionWithCorrectNonce`, `processTransaction` |
| `processBlocksTurn`, `processBlocksDone` | one turn of `processBlocks` and its end; `processNextBlock`, `putBlock` |
| `startMining`, `stopMining`, `svm_mine` | the requests of those names |
| `increaseTime`, `setTime` | `svm_increaseTime`, `svm_setTime` |
| `snapshot`, `revert`, `revertUnknown` | the requests |
| `popSnapshot`, `revertPopsBlock`, `blocksPopped`, `revertDone` | the two nested loops of `revert` and `clearPendingTransactions` |
| `restart` | a new process: `BlockchainDouble.initialize` over a database that is not empty |

What the virtual machine does to a transaction is part of the transaction: it succeeds,
it throws (mined with status 0, a `RuntimeError` is reported), or its sender cannot pay
(the whole block fails). `sortByPriceAndNonce` is the set of all orders that the heap
over equal prices may produce. A state root is the count of each sender's transactions,
which tells any two states apart that the properties compare. The clock is the
adjustment alone. A hash stands for the thing hashed.

`Ledger` assumes what `RequestQueue` shows, one request at a time; batches are the subject
of `Batch` and `StateTrie`, and nothing covers the option `asyncRequestProcessing`. A block is stored in one step; that it
is not is the subject of `BlockStore`. `svm_revert` to the id 0 indexes `snapshots[-1]`
and throws inside the request; it changes nothing and is left out.

The variables `stranded` (senders whose transactions a failed block dropped), `origin`
(the state a revert began in) and the field `chain` of a snapshot are history: no guard
reads them.

### Batch

| action | code |
|---|---|
| `arrive` | `provider.js` hands an array to the engine: its members start in one turn, in order. A send or a call goes to `_queueTransaction`; `svm_mine` takes the pool at once |
| `finishAction`, `processBlocks` | `processTransaction` after the nonce was read; the turns of `processBlocks` |
| `runTransaction`, `failBlock`, `putBlock` | the virtual machine runs a block one transaction at a time; the block fails or is stored |
| `answerBatch` | everything is over |

`action_queue` and `action_processing` are the manager's. The end of an action starts the
next one in the same turn (`EndAction`), which reads its nonce then and there. `OneByOne`
and `Outcome` are the specification: the members in some order that keeps the actions in
theirs, each to its end before the next. `overlapped` names the two cases in which the code
does not keep it: a nonce read while `svm_mine` holds transactions that are neither in the
pool nor in the state (the batch `[svm_mine, send]` gives a nonce twice), or held back
while such a block fails. Two `svm_mine` in one batch, or one beside an instant miner, make
two blocks at once over the checkpoints of one virtual machine, and are excluded.

### BlockTracker, Subscriptions, BlockFilters

A block's hash is the sequence of the contents from genesis up to it: the same contents
after a revert have the same hash. `announced` is what the tracker passed on.

In `Subscriptions` a request of a client waits in `requestQueue`, and `serve` takes the
first and does what its method and the callback in `webSocketServer.js` do. `close` drops
the connection from the table and queues an unsubscribe for each of its subscriptions.
`missed` is history: what batches made or removed, which the tables never learn of.

`BlockFilters` names its specification `FiltersSpec`, and its blocks and reverts `svm_mine` and
`svm_revert`, as members of a batch. `polls` holds a record for each poll of a filter. A poll
begins when the engine's filter is read and emptied (`getFilterChanges`). While the filter is
watched, a number is then asked for (`askNumber`) and the block before it (`askPrevious`);
otherwise the answer is what was found. Blocks, reverts and more polls of the same filter come
between these steps. The code asks only whether the filter is watched, and stops watching when
such a poll is answered (`StopWatching`), so each poll begun by then is answered like the
first: `EachBlockOnce` and `DelayedByOne` say what that comes to for any number of them side by
side. A revert in between may leave the second request without a block; its null answer is read
all the same, the callback throws, and no answer ever comes (`"thrown"`). The fields `until`,
`delayed`, `first` and `disturbed`, and `earlier`, are history.

### GasEstimation

| action | code |
|---|---|
| `collect` | the `step` listener of the run that is watched: a step of the machine, and what `stepTracker` keeps of it |
| `estimate` | the callback of `runTx`: the gas that was used where the run failed or its last step has the least gas, the search otherwise |
| `send` | a client sends the transaction with a gas limit near the estimate (`Margins`) |
| `run` | a step of the machine on the transaction that was sent |

The machine is external and part of the state: `frame` is the list of operations a contract
has, with their fees, some of them calls with a frame of their own; `context` is the contract
in execution with the callers around it; `Execute` does one operation. A call is given all
gas but a 64th, and what it has not used comes back when it ends. The transaction is run twice, once
watched and once sent, so that the estimate is compared with what the machine really needs and
not with a formula for it.

`getTotal`, `systemOpSum` (its `while` loop: `Turn`, `AfterTurn`), `Scope` and the rest are
the functions of the code, on places counted from 1. The recursion and the loop are
functions, with `Throws` for the TypeError of a range that has no lowest step. A
contract of the model fails when a call of its own does; one that goes on after a failed call
is left out, and so are value transfers with their stipend, calls of accounts without code,
creations, refunds and the price of the data. `isStipend` compares a big number
with a number and is never true, so that branch never runs. Numbers are compared as decimal
strings in `findLowestIndex`, which is the order of the numbers while all have as many
digits; the model, and with it the theorem, compares the numbers.

### RequestQueue

The stages of a request are: unsent, queued, arriving at `handleRequest`, waiting for
initialization, released by it, running, ended. `immediates` counts scheduled runs of
`_processRequestQueue`. `getDelayedHandler` is modelled as it is: after a failed
initialization it ends the request and goes on to handle it, so the request ends twice.

### IntervalMiner

A miner is known by its cancellation token. The token is on the armed timer, then on
the queued `svm_mine`, then on the callback of the answer. A token nobody holds any more
may be handed out again, which keeps the state finite and is sound since nothing can
compare it any more. `TurnOver` says that a `process.nextTick` callback runs before the
next timer or immediate.

### BlockStore

`push` is a write of the entry and a write of the length. `async.parallel` lets the
writes of different stores come in any order; `async.series` in `popBlock` fixes it. A
pop reads what it deletes, and a log is decoded by looking its block up by hash; a read
that fails ends the pop with the earlier steps done. `crash` may come between any two
writes, and `initialize` then reads what is there. `torn` records which kinds of
operation were ever cut short; `floor` is the height below which no revert of this
process can reach. One block has one transaction with one log.

### StateTrie

A root stands for the set of blocks whose changes lie under it, and for whether it is
the account trie or the storage trie of the account read. A read goes through `getBlock`,
`account` and, for storage and code, `value`; each is a callback. `overlapped` is history:
a read or a block ever began during another one. In the serial mode it stays false. The
specification is named `TrieSpec`.

### ForkedChain

One account, one slot. The reads are operators, as they answer in one step here; the
actions are what changes the ground they stand on: both nodes mine, the local one
reverts. A block's hash, its transaction and its logs stand for each other. Two cases
are excluded by conditions of the properties, and said there: an account that a local
block destroyed and a slot that a local block cleared leave no trace in the local trie
and are fetched from the other node again.

## The runs

| run | question | bounds |
|---|---|---|
| `ledger` | do the stores, roots, nonces, snapshots and the pool stay right through failing blocks, reverts and crashes; does a revert restore exactly, clock included; is every request answered; does `Ledger` implement `Timeline` | 2 accounts, 4 payloads, gas 2 per block, 3 blocks and pending transactions, 2 snapshots, clock 0..1, both kinds of miner (494 thousand states) |
| `request_queue` | one at a time, in order, no lost wakeup, once, always | 4 requests, initialization done or failed at any moment |
| `interval_miner` | one miner, or none; does mining go on | 4 tokens, 3 client requests waiting |
| `block_store` | do the stores agree, whichever writes are cut off; which kill costs the chain | 4 blocks, 2 kills |
| `state_trie` | do reads answer right, does the root come back | 2 reads, 3 blocks |
| `state_trie_batch` | *violation*: is the root put back "for good" | 2 reads, 2 blocks |
| `forked_chain` | is the chain continuous, is what is read that of the right block | values 0..2, 3 remote and 3 local blocks |
| `batch` | are actions taken in turn, does a batch end as its members would one by one, is every member answered | batches of up to 4 members, 2 senders, at most one call and one `svm_mine`, 2 transactions pending before, instant miner or not (39 thousand states) |
| `subscriptions` | who hears of which block; do the tables agree; what is left of a closed connection | 2 connections, 2 subscriptions, 2 requests waiting, 2 blocks (446 thousand states) |
| `block_filters` | is each block found by one poll, in order, and answered but for the first hash; whose parent is the hash put there | 1 filter, 3 polls of it, 3 blocks with contents from a set of 2 (1.6 million states) |
| `gas_estimation` | without calls inside calls: is there an estimate, is one more than it enough, and is two less too little | all frames of up to 3 operations that call frames of up to 3, fees 63 and 64000, and calls in a row whose needs all but meet; gas limits from 2 below the estimate to 1 above (329 thousand states) |
| `gas_nested` | *violation*: is the estimate enough, with calls of calls | frames of up to 2 operations, two levels of calls |

Why the bounds are enough:

- *Ledger.* A chain of genesis and two blocks lets two snapshots lie at different
  heights, or at one, with a block above each, so that both loops of `revert` turn more
  than once, and two transactions wait for one block, which is what an order, a block that
  is too small for the pool, and a failed block with a transaction behind it take.
  The payloads include two that fit one block together, one that fills a block alone, one
  that fits none, equal and different prices, and one of each outcome. Two accounts are
  the least for an order between senders and for one sender's failure to strand another.
  The run has a liveness property, so it uses no symmetry.
- *RequestQueue.* A lost wakeup needs one request in the engine and one waiting, and an
  order needs three; four leaves one over.
- *IntervalMiner.* At most one token is armed, one held and, in the queue or on its way
  back, as many as stops and starts fit between; four tokens are never all held with
  three client requests.
- *BlockStore.* A put cut off, a restart, a put over its remains, a pop of that block and
  a second kill take three blocks and two kills.
- *StateTrie.* Two reads, or a read and a block, are what overlaps; the proofs cover
  any number.
- *Batch.* Three sends, or two of one sender and one of another, with a call and an
  `svm_mine` anywhere among them; what earlier requests left pending may start with a gap,
  so that blocks fail.
- *Subscriptions.* Two connections are needed for one to unsubscribe the other's
  subscription, and two waiting requests for a close between them. One content per block is
  enough: a revert and the same block again is the case in which the tracker stays silent.
- *BlockFilters.* Three blocks are one before the filter, one found and one between the
  requests; two contents tell a block mined again after a revert from the one it replaces.
  Three polls are two side by side and one after them. Filters share nothing but the chain, so
  one is enough.
- *GasEstimation.* A fee below the 64th held back and one above it, in every order, before,
  in and after calls, on one level of calls and on two. The rounding shows only where two
  calls need nearly the same gas, which such small fees never reach: the three frames `Tight`
  are there for it. The margins are those for
  which the property says something new: further off is enough, or too little, all the more.
- *ForkedChain.* The fork may be at the first, the last or a middle block of the other
  node, which may mine before and after the local blocks.

`BlockStore`, `RequestQueue`, `IntervalMiner`, `Subscriptions`, `BlockFilters` and
`GasEstimation` check no deadlock: blocks, requests and steps run out, a process may fail for
good, and a stopped and closed miner is at rest. All
other runs check it.

Fairness, only where a liveness property needs it:

- `Ledger!FairSpec`: weak fairness of `Continue`, that is, every asynchronous step of a
  handler calls back. Whether clients send and processes die is left open.
- `RequestQueue!FairSpec`: scheduled immediates run, initialization ends, each method calls
  its callback. Sending is left open.
- `Batch!FairSpec`: weak fairness of `Progress`: the members start, and each asynchronous
  step calls back.
- `Subscriptions!FairSpec`: weak fairness of `serve`: the queue is served, which
  `request_queue` shows.
- `IntervalMiner!FairSpec`: a timer goes off, the queue is served (which `request_queue`
  shows of the provider), and callbacks run.

Every property of a passing run has a mutant in `PROJECT.json`: a change to one
operator, of the kind a programmer makes, under which TLC finds the property violated.
The mutated forms stand in the modules just before the operator and are marked as such.

## The proofs

The eight modules named `...Proofs` hold for all accounts, payloads, requests, tokens,
reads, batches, blocks, kills, forks, connections, filters, frames, fees and bounds. They use nothing but
the assumptions on the constants that the modules name (and TLC evaluates). Each takes the
usual shape: `IInv` holds initially, `IInv /\ [Next]_vars => IInv'`, and the property
follows. Each inductive invariant was an invariant of its component's run before it was
proved, with what it says of all numbers said there of those in reach.

| theorem | says | argument |
|---|---|---|
| `RequestQueueTypes`, `Serialised`, `WakeupsKept`, `InOrder`, `OneAnswer` | the safety part of the queue | `QueuedOnce`: what is queued is at stage queued, once; `FlagTells`: the flag is taken exactly while one request is in the engine and that one was started last. Neither `OneInEngine` nor `AnsweredOnce` is inductive without them: a completion frees the flag on trust that its request holds it |
| `IntervalMinerTypes`, `OneMinerOnly` | `OneMiner` | inductive with the types alone: a callback arms a timer only with a token that is not cancelled, and by `OneMiner` that is the manager's own, which is cancelled then |
| `LedgerTypes` | types of `Ledger` | needs every snapshot's chain to be typed too |
| `SoundChain` | `ChainIsSound`: indexes, receipts and roots say what the blocks say | not inductive alone. A pop takes its block out of the indexes and the rest must still be there, so no transaction may stand in two blocks: `NoncesInOrder`, a transaction's nonce lies between the roots before and after its block, and `RootsGrow`, a later root counts no less |
| `ImplementsTheTimeline` | `ImplementsTimeline`: `Ledger` implements `Timeline` | every action is a step of `Timeline` or a stutter. While a revert runs the promise is that of before it; its last turn is the rewind, by the invariant of `RevertsRestore`; and `RevertGoesDown` makes a kill in the middle a restart that `Timeline` allows |
| `PoolContinues` | `PendingNoncesContinue` | `InLine`: the pending nonces of an account are a range, each given once, from its state's nonce on. A block that is stored ran every transaction at its sender's nonce, so it took the beginning of each range and moved the state by as much; one that fails strands the senders it drops |
| `AnswersAreTrue` | `MinedBeforeAnswered` | `AnswerInv`: while `processBlocks` runs, the caller's transaction is pending or mined, the failed ones collected are mined, and what is pending fits a block (`PoolFits`), so no block comes out empty |
| `NothingLost` | `NothingLostSilently` | an action property. A block fails where a sender cannot pay or a nonce is not the state's; by `PoolInLine` and the order by nonce the latter happens only to a sender that an earlier failure left with a gap |
| `RootIsLastBlocks` | `RootFollows` | the root changes with `blocks` only, in both directions |
| `SnapshotsStayIntact` | `SnapshotsIntact` | a pop goes no lower than the snapshot taken off: `RevertUnderWay`, `BlocksBeingPopped` |
| `RevertsRestore` | `RevertRestores` | at the end of the loops, by `SnapshotsPopped`, the chain is the one of the snapshot taken off last, which `RevertUnderWay` says is the one asked for |
| `StateTrieTypes` | types of `StateTrie` | |
| `ReadsAnswerRight` | `ReadsAreRight` in every interleaving | `InHand`: a read carries the root it reads under from the moment it is given, so what others do to `trie.root` does not reach it |
| `RootComesBack`, `BlocksKeepState` | without overlap | `OneAtATime` and `WayBack`: the only one under way knows the way back to the last block's root |
| `ActionsAreInTurn` | `ActionsInTurn`: the action queue of a batch works on one action at a time, in order | not inductive alone: an action that ends frees the flag, and that it is the one holding it rests on `JobHeld` (whose block is in the making) and `StagesFit` (nobody else makes one) |
| `ServedOneByOne` | `AsIfOneByOne`: a batch leaves what its members would have left one after another | `OrderInv` says the like of every state on the way. The members that have had their effect so far stand in an order that keeps the actions in turn (`Served`), each joining its end when its block is begun, when svm_mine takes the pool, or when an action ends without a block. What that order leads to is what there will be when the block in the making has ended (`Predicted`), but for a sender's transaction that is in the pool with its block not begun (`Matches`). That the block ends as predicted rests on `BlockRuns`: what has run carries the nonces from the root it was begun with to the root there is, and `InARow`: pending nonces have no gap. `Doomed` is the exception: a nonce was read before a block that will fail, and `overlapped` is bound to be set. Two folds over one order agree by `OneOutcome`, through the least place where they would differ |
| `TheStoresAgree`, `PutsAreAllOrNothing`, `AllPopsSucceed`, `KillsAreSurvived` | `StoresAgree`, `PutAllOrNothing`, `PopsSucceed`, `StartsAgain` | the four hold by one invariant that follows every single write. `Has`, `Counted` and `Top` say, from how far a put or a pop is, which stores hold its block already or still. `Whole`: beside that block the stores agree while nothing was cut short; `NoHoles` and `ListKept`: the list of blocks has its entries, and they are those of `before`. That a pop succeeds over stores that a kill tore rests on `SinceStart`: what this process put is found under its index and its hash, with its logs; that only a kill in a pop keeps a process from starting rests on `NoHoles` |
| `ContinuousChain` | `ChainIsContinuous`: no gap and no overlap where the fork's numbers meet the chain's own | own blocks are numbered on from `forkBlockNumber`; the lemmas take the blocks before and after the fork apart |
| `AccountsOfTheChain`, `StorageOfTheChain` | `AccountsByNumber`, `StorageByNumber` | `RootTells`, for each own block: its trie holds the account and the slot that its chain of blocks leaves, or nothing where no own block wrote, and then they are those of the fork's block; or an own block up to it destroyed the account (`DestroyedBy`), or cleared the slot (`ClearedBy`) |
| `TheTrackerFollows`, `TheTrackerFollowsPolled` | `TrackerFollows`, in `Subscriptions` and in `BlockFilters` | the places of the announced blocks are a growing map onto the starts of runs; a block stored extends it by its own place, or not at all when the run goes on |
| `SubscriptionsTypes`, `FiltersTypes` | types of both | `Room`: the bounds leave an id for every subscription waited for |
| `EveryBlockIsHeard` | `HearsEveryBlock` | `SinceThen`: who subscribed did so before what was announced since |
| `TheTablesAgree`, `NoneForgotten` | `TablesAgree`, `NoSubscriptionForgotten` | neither is inductive alone: that a subscription being made is in no table yet is `Fresh`, and that a connection that opens has nothing is `Unborn` |
| `PolledOnce`, `FirstPollIsOneBehind` | `EachBlockOnce`, `DelayedByOne` | `PollIs` says of every poll, from how far it is, what it has found and which block it is about; it rests on `FilterOk`: while a filter is watched none of its polls has been answered after the two requests, so each poll under way is one begun before any answer, and the polls divide what was announced among them (`SegmentStays`). That the block asked for is the parent of the one the poll is about holds as long as no revert came between (`OnChainStays`, `BeginningIsHash`) |
| `FlatEstimates` | `FlatCallsEstimated`: a contract whose calls call nothing themselves is estimated, one more than the estimate is enough, two less is too little | see below |

`FlatEstimates` compares two runs of one machine with a search over what was told of the
first, and its invariant has a part for each.

- *What is told.* `Linked` says how the steps follow one another: in a contract gas gets less
  by each fee, a call gives back what it has not used, and the steps of the contract called lie
  between the call and its terminator.
- *What is needed.* `Enough(p, g)` says of the steps alone that the gas g is enough from step
  p on: it pays for all that was used, and every call is passed what its contract used.
- *What is searched.* `EstimateIsNear`: the estimate is that, but for one unit. The lowest
  step ends a call (`LowestEnds`), which has no call around it, so the loop over scopes ends at once
  (`NothingInside`). Of what that call was left with, the 64th held back was more or less than what
  follows needs, and either is what the code adds. `sum + sum \div 63` is off by at most one
  (`NeededIsLittle`, `NeededIsEnough`). No call before the lowest step is tighter, since it had
  more gas left (`EnoughBefore`). What follows is estimated by the call of `getTotal` inside, by
  the least number of such calls for which it were not (`TotalIsNear`).
- *What is run.* The transaction sent is at each moment at a place of the way the watched run
  took, and goes on there exactly where its gas is `Enough` (`SentRuns`).

That one unit is no slack of the proof. The estimate without it, in either direction, is false, and the
frames `Tight` of the run are the counterexample for too little. `getTotal` is a recursive function over a CHOOSE;
that it equals its own definition (`TotalsAre`) is proved from its finite beginnings, of which
there is one of every length and any two agree.

Only model-checked, because this prover cannot reach it: the liveness properties
`RequestsAnswered`, `EveryRequestAnswered`, `MinesAgainAndAgain`, `BatchAnswered` and
`ClosedIsForgotten`. Every invariant and every other
action property of a passing run is a theorem. The two expected violations are
single counterexamples and need no more than TLC.

## Where the code disagrees with its documentation

Two runs find a statement of the repository violated.

1. **Overlapping reads leave the trie at an old block's root** (`state_trie_batch`,
   `blockchain_double.js:1027`). Each puts back what it found, which may be what another
   one has set. In the same way `getBalance` of an old block in a batch with a send makes
   the nonce be read under the old root.
2. **The gas of nested calls is estimated too low, or not at all** (`gas_nested`,
   `gasEstimation.js:157`). A contract that is called and calls two others, the first with
   much gas: the range after it is empty, and its lowest step `undefined`, so that the
   estimate ends in a TypeError. In others the sum of a scope replaces that of the
   scope within it and the estimate is too low.
Met while modelling, and said here without a run of their own:

- Without calls inside calls, too, the estimate can be one unit too low (`gasEstimation.js:214`):
  three calls in a row of contracts that cost 3330241, 51346 and 113, with the fee of 700 for each call, are
  estimated at 3383801 and need 3383802. The rounding of the 64th is that of one call and
  not of all. `FlatCallsEstimated` allows one unit to either side, and is proved.
- A sender may be answered with another transaction's hash (`provider.js:232`): the first
  hash of the runtime error is returned, which may be that of a transaction left pending by
  an earlier request. `MinedBeforeAnswered` says what holds: the hash is that of a mined
  transaction that threw.
- A block may be mined after `miner_stop` (`statemanager.js:899`): the timer's `svm_mine` may
  wait in the queue behind the stop. It is the last, says `OneMiner`.
- A process killed during a pop leaves a database that never initializes again
  (`leveluparrayadapter.js:105`): the entry goes before the length. `StartsAgain` says that
  this is the only way to lose it.
- A subscription that is answered after its connection has closed, or that a batch made, is
  recorded nowhere, is never told anything and never removed (`webSocketServer.js:86`,
  `webSocketServer.js:110`). `NoSubscriptionForgotten` speaks of all others.
- A first poll with a revert between its two requests may never be answered
  (`delayedblockfilter.js:130`): it reads the hash of null.
- Two polls of one filter in a batch are both answered as the first is (`delayedblockfilter.js:148`):
  the filter is still watched when the second begins. `EachBlockOnce` states it as it is.
- A forked chain answers transactions that the other node mined after the fork
  (`forkedblockchain.js:371`): they are fetched by hash with no look at their block. And a slot
  that a local block wrote is answered for blocks before it too (`forkedstoragetrie.js:45`),
  which `StorageByNumber` leaves out.
- The first poll of a block filter answers with the parent of the first block found, and
  never with that block itself (`delayedblockfilter.js`), which `EachBlockOnce` states as it is.
- A block mined again with the same hash right after a revert is not told to anyone
  (`block_tracker.js:61`), which `TrackerFollows` states as it is.

## What is not modelled

- Filters and subscriptions to logs and pending transactions: the engine's, which is external.
- Two blocks made at once by one batch, and the option `asyncRequestProcessing`: they share
  the checkpoints of one virtual machine, which is external.
- The storage stack of the tracer, and the messages of `RuntimeError.combine`: they shape
  what is printed.
- The restart of a forked chain over an existing database without `fork_block_number`, where
  the block of the fork stays unset, errors of the other node, and reads of a forked chain
  taken apart into their fetches.
- Signatures, encodings, serializers, the value and gas arithmetic of a transaction, and
  the virtual machine: data, or external code.
- Accounts and keys, RPC formatting, the HTTP and web socket servers, exports and build.
- `reactiveblocktracker.js`, which nothing requires.

## Plan

Order: what the system is for first (the ledger), then what it rests on (the queue, the
database, the trie), then what stands beside it.

1. *Done.* `Timeline`, `Ledger` and its refinement; `RequestQueue`; `IntervalMiner`;
   `BlockStore`; `StateTrie`; `ForkedChain`; the first proofs, about the ledger, the queue, the
   interval miner, the trie, the action queue of a batch and the continuity of a forked chain.
2. *Done.* `BlockTracker`, `Subscriptions`, `BlockFilters`: what clients hear of a chain that
   grows and reverts. `Batch`: the members of one batch against an order of them one by one.
   `GasEstimation`: the estimate against what the same run needs.
3. `ForkedChain`: the reads opened into their fetches, errors, and the restart that leaves
   the block of the fork unset; the storage stack of the tracer.
4. *Done.* Proofs of what the runs of the ledger, the database, the fork, the subscriptions
   and the filters check, and of the refinement of `Timeline`, step by step.
5. *Done.* `AsIfOneByOne` of `Batch`, against the fold over an order that the steps build up.
6. *Done.* `FlatCallsEstimated` of `GasEstimation`, for any frames, fees and gas.
7. Proofs about what point 3 adds.

New questions go into the existing runs where they share a state space, so that each run
keeps asking one distinct thing.
