------------------------------- MODULE Ledger -------------------------------
(***************************************************************************)
(* The chain, its indexes, the pool of pending transactions and the        *)
(* snapshots: lib/blockchain_double.js under lib/statemanager.js, in the   *)
(* default mode in which provider.js lets one request through at a time.   *)
(* A request whose handler works in several asynchronous steps             *)
(* (processBlocks mines block after block, revert pops snapshot after      *)
(* snapshot and block after block) takes several steps here too: phase     *)
(* says which loop is running, and the process may be restarted over the   *)
(* same database between any two of them.                                  *)
(*                                                                         *)
(* A transaction is its own hash: two transactions with the same fields    *)
(* are the same entry of the database.  What its execution does is part of *)
(* its payload: it succeeds, it throws (the VM returns an exception and    *)
(* the transaction is mined with status 0), or its sender cannot pay for   *)
(* it (vm.runBlock fails and no block is made).                            *)
(***************************************************************************)
EXTENDS Integers, FiniteSets, Sequences, Functions, FiniteSetsExt

CONSTANTS
  Accounts,          \* senders
  Payloads,          \* what a transaction asks for, see PayloadsAssumption
  BlockGasLimit,     \* blockchain.blockGasLimit
  IntervalOptions,   \* whether the option blockTime may be set: a subset of BOOLEAN
  NoTx,              \* absent transaction
  MaxBlocks,         \* bound: blocks on the chain and transactions in the pool together
  MaxSnapshots,      \* bound: live snapshots
  MaxAdjustment      \* bound: clock adjustment, in time units

Outcomes == {"succeeds", "throws", "underfunded"}

ASSUME PayloadsAssumption == Payloads \subseteq [price : Nat, gas : Nat, outcome : Outcomes]
ASSUME AccountsAssumption == IsFiniteSet(Accounts)
ASSUME BoundsAssumption ==
  /\ BlockGasLimit \in Nat
  /\ IntervalOptions \subseteq BOOLEAN
  /\ MaxBlocks \in Nat /\ MaxSnapshots \in Nat /\ MaxAdjustment \in Nat

Transactions == [from : Accounts, nonce : Nat, payload : Payloads]
ASSUME NoTxAssumption == NoTx \notin Transactions

VARIABLES
  \* the database (database.js), which survives a restart
  blocks,                 \* data.blocks
  blockLogs,              \* data.blockLogs: per block, the transactions whose logs it keeps
  blockHashes,            \* data.blockHashes: block hash -> index in blocks
  transactions,           \* data.transactions: the hashes it holds
  transactionReceipts,    \* data.transactionReceipts: hash -> receipt
  \* the memory of the process
  stateRoot,              \* stateTrie.root, as the account nonces found under it
  pending_transactions,
  snapshots,
  timeAdjustment,
  is_mining,
  is_mining_on_interval,
  \* the request being served
  phase,                  \* which loop runs: none ("idle"), processBlocks, or revert's two
  caller,                 \* the transaction whose sender waits, if any
  runtimeError,           \* the first hash collected by the RuntimeError, if any
  revertTo,               \* revert: zero-based id, time adjustment, height of the snapshot
  response,               \* the last answer
  \* history, read by no action
  origin,                 \* chain, snapshots and requested id when the running revert began
  stranded                \* accounts with pending transactions behind one a failed block dropped

dbVars      == <<blocks, blockLogs, blockHashes, transactions, transactionReceipts>>
chainVars   == <<dbVars, stateRoot>>
minerVars   == <<is_mining, is_mining_on_interval>>
requestVars == <<phase, caller, runtimeError, revertTo, origin>>
stateVars   == <<chainVars, pending_transactions, snapshots, timeAdjustment, minerVars, stranded>>
vars == <<stateVars, requestVars, response>>

Height == Len(blocks) - 1
LastBlock == blocks[Len(blocks)]

NoRequest == [id |-> 0, timeAdjustment |-> 0, floor |-> 0]
NoOrigin == [chain |-> <<>>, marks |-> <<>>, id |-> 0]
Answer(tx, result, error) == [tx |-> tx, result |-> result, error |-> error]
NoAnswer == Answer(NoTx, NoTx, "none")
-----------------------------------------------------------------------------
(* The pool. *)

PendingOf(a) == {i \in DOMAIN pending_transactions : pending_transactions[i].from = a}

(* The nonce the next transaction of an account must carry: one more than its
   highest pending nonce, or the state's when none is pending. *)
getQueuedNonce(a) ==
  IF PendingOf(a) = {}
    THEN stateRoot[a]
    ELSE 1 + Max({pending_transactions[i].nonce : i \in PendingOf(a)})

Heads(pool) ==
  {tx \in pool : \A other \in pool : other.from = tx.from => tx.nonce <= other.nonce}

(* A mutant: the price alone decides. *)
Best_IgnoringNonces(pool) ==
  {tx \in pool : \A other \in pool : other.payload.price <= tx.payload.price}

Best(pool) ==
  {tx \in Heads(pool) : \A other \in Heads(pool) : other.payload.price <= tx.payload.price}

(* The orders sortByPriceAndNonce may leave the pool in: each transaction is the
   lowest nonce of its account among those after it, and no such head pays more.
   Equal prices are ordered as the heap happens to. *)
sortByPriceAndNonce ==
  {order \in {[i \in DOMAIN pending_transactions |-> pending_transactions[p[i]]] :
                 p \in Injection(DOMAIN pending_transactions, DOMAIN pending_transactions)} :
     \A i \in DOMAIN order : order[i] \in Best({order[j] : j \in i..Len(order)})}

GasOf(txs, count) == MapThenSumSet(LAMBDA i : txs[i].payload.gas, 1..count)

(* The first count transactions of the order are those that fit within a block. *)
FitsInBlock(order, count) ==
  /\ GasOf(order, count) <= BlockGasLimit
  /\ count < Len(order) => GasOf(order, count + 1) > BlockGasLimit
-----------------------------------------------------------------------------
(* One block: processNextBlock, processBlock, putBlock, popBlock. *)

CountFrom(a, txs) == Cardinality({i \in DOMAIN txs : txs[i].from = a})

(* vm.runBlock runs a block only when each sender can pay and each nonce is next. *)
RunsInVM(batch) ==
  \A i \in DOMAIN batch :
    /\ batch[i].payload.outcome # "underfunded"
    /\ batch[i].nonce = stateRoot[batch[i].from]
                        + CountFrom(batch[i].from, SubSeq(batch, 1, i - 1))

Throwing(batch) == {i \in DOMAIN batch : batch[i].payload.outcome = "throws"}

(* How processNextBlock ends for a batch taken off the pool. *)
Verdict(batch) ==
  CASE batch = <<>> /\ pending_transactions # <<>> -> "exceeds block gas limit"
    [] ~RunsInVM(batch)                           -> "vm error"
    [] RunsInVM(batch) /\ Throwing(batch) # {}    -> "runtime error"
    [] OTHER                                      -> "none"

NewBlock(batch) ==
  [number       |-> Len(blocks),
   transactions |-> batch,
   stateRoot    |-> [a \in Accounts |-> stateRoot[a] + CountFrom(a, batch)]]

ReceiptOf(block, tx) ==
  [block |-> block, status |-> IF tx.payload.outcome = "throws" THEN 0 ELSE 1]

LogsOf(batch) == {batch[i] : i \in DOMAIN batch \ Throwing(batch)}

(* The entries of new written over those of old. *)
WrittenOver(new, old) ==
  [key \in DOMAIN new \cup DOMAIN old |-> IF key \in DOMAIN new THEN new[key] ELSE old[key]]

(* putBlock: the block is pushed with its logs and indexed under its hash and
   under the hash of each of its transactions. *)
putBlock(batch) ==
  LET block == NewBlock(batch) IN
  /\ blocks' = Append(blocks, block)
  /\ blockLogs' = Append(blockLogs, LogsOf(batch))
  /\ blockHashes' = WrittenOver([b \in {block} |-> Len(blocks)], blockHashes)
  /\ transactions' = transactions \cup Range(batch)
  /\ transactionReceipts' =
       WrittenOver([tx \in Range(batch) |-> ReceiptOf(block, tx)], transactionReceipts)
  /\ stateRoot' = block.stateRoot

(* popBlock deletes every entry putBlock made for the last block, and the state root
   goes back to that of the block before it. *)
dropLastBlock ==
  /\ transactions' = transactions \ Range(LastBlock.transactions)
  /\ blockLogs' = SubSeq(blockLogs, 1, Len(blockLogs) - 1)
  /\ blockHashes' = Restrict(blockHashes, DOMAIN blockHashes \ {LastBlock})
  /\ blocks' = SubSeq(blocks, 1, Height)

dropLastReceipts ==
  transactionReceipts' =
    Restrict(transactionReceipts, DOMAIN transactionReceipts \ Range(LastBlock.transactions))

rollBackRoot == stateRoot' = blocks[Height].stateRoot

(* A mutant: the state root is not rolled back. *)
popBlock_KeepsRoot == dropLastBlock /\ dropLastReceipts /\ UNCHANGED stateRoot

popBlock == dropLastBlock /\ dropLastReceipts /\ rollBackRoot

(* History: who is left with pending transactions that no block can run. *)
StrandedAfter(dropped, pool) ==
  {a \in stranded \cup {tx.from : tx \in dropped} : \E i \in DOMAIN pool : pool[i].from = a}

(* processNextBlock for one way to order the pool: the transactions that fit are
   taken off the pool before the VM runs them and are not put back if it fails. *)
processNextBlock(order, count) ==
  LET batch   == SubSeq(order, 1, count)
      rest    == SubSeq(order, count + 1, Len(order))
      verdict == Verdict(batch)
  IN /\ pending_transactions' = rest
     /\ IF verdict \in {"none", "runtime error"}
          THEN /\ putBlock(batch)
               /\ stranded' = StrandedAfter({}, rest)
          ELSE /\ UNCHANGED chainVars
               /\ stranded' = StrandedAfter(Range(batch), rest)

-----------------------------------------------------------------------------
(* Requests. Each starts when none is being served. *)

Idle == phase = "idle"

(* A bound: a block that takes pending transactions needs no more room than they do. *)
HasRoom == Len(blocks) + Len(pending_transactions) < MaxBlocks

Respond(answer) ==
  /\ phase' = "idle" /\ caller' = NoTx /\ runtimeError' = NoTx
  /\ revertTo' = NoRequest /\ origin' = NoOrigin
  /\ response' = answer

StartProcessBlocks(tx) ==
  /\ phase' = "processBlocks" /\ caller' = tx
  /\ response' = NoAnswer
  /\ UNCHANGED <<runtimeError, revertTo, origin>>

(* What clients send, nonces and all; none beyond the bound on blocks can be next. *)
Inputs == [from : Accounts, nonce : 0..MaxBlocks, payload : Payloads]

(* A transaction that _queueTransaction and createTransactionWithCorrectNonce let pass. *)
Acceptable(tx) ==
  /\ tx.payload.gas <= BlockGasLimit
  /\ tx.nonce = getQueuedNonce(tx.from)

(* sof_sendTransaction and its kin: the transaction joins the pool; an instant
   miner then mines until the pool is empty before it answers. *)
processTransaction(tx) ==
  /\ Idle
  /\ Acceptable(tx)
  /\ HasRoom
  /\ pending_transactions' = Append(pending_transactions, tx)
  /\ IF ~is_mining \/ is_mining_on_interval
       THEN Respond(Answer(tx, tx, "none"))
       ELSE StartProcessBlocks(tx)
  /\ UNCHANGED <<chainVars, snapshots, timeAdjustment, minerVars, stranded>>

(* Anything else a client may send is answered with an error and changes nothing. *)
rejectTransaction ==
  /\ Idle
  /\ ~(\A tx \in Inputs : Acceptable(tx))
  /\ Respond(Answer(NoTx, NoTx, "rejected"))
  /\ UNCHANGED stateVars

(* One turn of processBlocks: a runtime error is remembered and mining goes on;
   any other error ends the request and leaves the rest of the pool as it is. *)
processBlocksTurn ==
  /\ phase = "processBlocks"
  /\ pending_transactions # <<>>
  /\ \E order \in sortByPriceAndNonce, count \in 0..Len(pending_transactions) :
       /\ FitsInBlock(order, count)
       /\ processNextBlock(order, count)
       /\ LET batch == SubSeq(order, 1, count)
              verdict == Verdict(batch)
          IN IF verdict \in {"none", "runtime error"}
               THEN /\ runtimeError' = IF verdict = "runtime error" /\ runtimeError = NoTx
                                         THEN batch[Min(Throwing(batch))] ELSE runtimeError
                    /\ UNCHANGED <<phase, caller, revertTo, origin, response>>
               ELSE Respond(Answer(caller, NoTx, verdict))
  /\ UNCHANGED <<snapshots, timeAdjustment, minerVars>>

(* A mutant: processBlocks may stop before the pool is empty. *)
PoolProcessed_Early == TRUE

PoolProcessed == pending_transactions = <<>>

(* processBlocks ends when the pool is empty. provider.js reportErrorInResponse puts
   the first hash of a runtime error in the result of a transaction request. *)
processBlocksDone ==
  /\ phase = "processBlocks"
  /\ PoolProcessed
  /\ IF runtimeError = NoTx
       THEN Respond(Answer(caller, caller, "none"))
       ELSE Respond(Answer(caller, runtimeError, "runtime error"))
  /\ UNCHANGED stateVars

(* miner_start: an instant miner first mines what is pending. *)
startMining ==
  /\ Idle
  /\ ~is_mining
  /\ is_mining' = TRUE
  /\ IF is_mining_on_interval THEN Respond(NoAnswer) ELSE StartProcessBlocks(NoTx)
  /\ UNCHANGED <<chainVars, pending_transactions, snapshots, timeAdjustment,
                 is_mining_on_interval, stranded>>

stopMining ==
  /\ Idle
  /\ is_mining
  /\ is_mining' = FALSE
  /\ Respond(NoAnswer)
  /\ UNCHANGED <<chainVars, pending_transactions, snapshots, timeAdjustment,
                 is_mining_on_interval, stranded>>

(* svm_mine, from a client or from the interval timer: one block, whatever the
   miner's state; a timestamp moves the clock even when the block then fails. *)
svm_mine(adjustment) ==
  /\ Idle
  /\ HasRoom \/ pending_transactions # <<>>
  /\ \E order \in sortByPriceAndNonce, count \in 0..Len(pending_transactions) :
       LET verdict == Verdict(SubSeq(order, 1, count)) IN
       /\ FitsInBlock(order, count)
       /\ processNextBlock(order, count)
       /\ Respond(Answer(NoTx, NoTx, verdict))
       /\ timeAdjustment' = IF verdict = "exceeds block gas limit"
                              THEN timeAdjustment ELSE adjustment
  /\ UNCHANGED <<snapshots, minerVars>>

(* svm_increaseTime adds to the adjustment, svm_setTime replaces it. *)
increaseTime(seconds) ==
  /\ Idle
  /\ timeAdjustment + seconds <= MaxAdjustment
  /\ timeAdjustment' = timeAdjustment + seconds
  /\ Respond(NoAnswer)
  /\ UNCHANGED <<chainVars, pending_transactions, snapshots, minerVars, stranded>>

setTime(adjustment) ==
  /\ Idle
  /\ timeAdjustment' = adjustment
  /\ Respond(NoAnswer)
  /\ UNCHANGED <<chainVars, pending_transactions, snapshots, minerVars, stranded>>
-----------------------------------------------------------------------------
(* Snapshots. The field chain is history: the chain the snapshot was taken of. *)

snapshot ==
  /\ Idle
  /\ Len(snapshots) < MaxSnapshots
  /\ snapshots' = Append(snapshots, [blockNumber    |-> Height,
                                     timeAdjustment |-> timeAdjustment,
                                     chain          |-> blocks])
  /\ Respond(NoAnswer)
  /\ UNCHANGED <<chainVars, pending_transactions, timeAdjustment, minerVars, stranded>>

(* svm_revert to a snapshot that does not exist, or no longer does. *)
revertUnknown(id) ==
  /\ Idle
  /\ id > Len(snapshots)
  /\ Respond(Answer(NoTx, NoTx, "rejected"))
  /\ UNCHANGED stateVars

(* svm_revert to a snapshot that exists: the loops get under way. The id of the
   request is 1-based, that of the loops zero-based. *)
beginRevert(id, zeroBased, adjustment) ==
  /\ Idle
  /\ id \in DOMAIN snapshots
  /\ phase' = "popSnapshots"
  /\ revertTo' = [id |-> zeroBased, timeAdjustment |-> adjustment, floor |-> Height]
  /\ origin' = [chain |-> blocks, marks |-> snapshots, id |-> id]
  /\ response' = NoAnswer
  /\ UNCHANGED <<stateVars, caller, runtimeError>>

(* Two mutants: the clock of the newest snapshot; the id made zero-based twice. *)
revert_NewestTime(id) == beginRevert(id, id - 1, snapshots[Len(snapshots)].timeAdjustment)
revert_TwiceZeroBased(id) == beginRevert(id, id - 2, snapshots[id].timeAdjustment)

revert(id) == beginRevert(id, id - 1, snapshots[id].timeAdjustment)

(* The outer loop of revert takes the newest snapshot off. *)
popSnapshot ==
  /\ phase = "popSnapshots"
  /\ Len(snapshots) > revertTo.id
  /\ snapshots' = SubSeq(snapshots, 1, Len(snapshots) - 1)
  /\ revertTo' = [revertTo EXCEPT !.floor = snapshots[Len(snapshots)].blockNumber]
  /\ phase' = "popBlocks"
  /\ UNCHANGED <<chainVars, pending_transactions, timeAdjustment, minerVars,
                 caller, runtimeError, origin, response, stranded>>

(* A mutant: the height is compared with the wrong operator. *)
AboveSnapshot_OffByOne == Height >= revertTo.floor /\ Height > 0

AboveSnapshot == Height > revertTo.floor

(* The inner loop pops blocks while the height is above the snapshot's. *)
revertPopsBlock ==
  /\ phase = "popBlocks"
  /\ AboveSnapshot
  /\ popBlock
  /\ UNCHANGED <<pending_transactions, snapshots, timeAdjustment, minerVars, requestVars,
                 response, stranded>>

(* A mutant: the inner loop never hands back to the outer one. *)
backToSnapshots_Missing == UNCHANGED phase

backToSnapshots == phase' = "popSnapshots"

blocksPopped ==
  /\ phase = "popBlocks"
  /\ ~AboveSnapshot
  /\ backToSnapshots
  /\ UNCHANGED <<stateVars, caller, runtimeError, revertTo, origin, response>>

(* A mutant: the pool outlives the revert. *)
clearPendingTransactions_Not == UNCHANGED <<pending_transactions, stranded>>

clearPendingTransactions == pending_transactions' = <<>> /\ stranded' = {}

revertDone ==
  /\ phase = "popSnapshots"
  /\ Len(snapshots) <= revertTo.id
  /\ clearPendingTransactions
  /\ timeAdjustment' = revertTo.timeAdjustment
  /\ Respond(NoAnswer)
  /\ UNCHANGED <<chainVars, snapshots, minerVars>>
-----------------------------------------------------------------------------
(* A new process over the same database: blockchain.initialize finds the last
   block and takes its state root; everything kept in memory starts afresh. *)
restart ==
  /\ stateRoot' = LastBlock.stateRoot
  /\ pending_transactions' = <<>>
  /\ snapshots' = <<>>
  /\ timeAdjustment' = 0
  /\ is_mining' = TRUE
  /\ stranded' = {}
  /\ Respond(NoAnswer)
  /\ UNCHANGED <<dbVars, is_mining_on_interval>>

(* The first start makes and stores the genesis block. *)
Genesis == [number       |-> 0,
            transactions |-> <<>>,
            stateRoot    |-> [a \in Accounts |-> 0]]

Init ==
  /\ blocks = <<Genesis>>
  /\ blockLogs = << {} >>
  /\ blockHashes = [b \in {Genesis} |-> 0]
  /\ transactions = {}
  /\ transactionReceipts = <<>>
  /\ stateRoot = Genesis.stateRoot
  /\ pending_transactions = <<>>
  /\ snapshots = <<>>
  /\ timeAdjustment = 0
  /\ is_mining = TRUE
  /\ is_mining_on_interval \in IntervalOptions
  /\ phase = "idle" /\ caller = NoTx /\ runtimeError = NoTx
  /\ revertTo = NoRequest /\ origin = NoOrigin
  /\ response = NoAnswer
  /\ stranded = {}

Request ==
  \/ \E tx \in Inputs : processTransaction(tx)
  \/ rejectTransaction
  \/ startMining \/ stopMining
  \/ \E adjustment \in 0..MaxAdjustment : svm_mine(adjustment) \/ setTime(adjustment)
  \/ \E seconds \in 1..MaxAdjustment : increaseTime(seconds)
  \/ snapshot
  \/ \E id \in 1..(MaxSnapshots + 1) : revert(id) \/ revertUnknown(id)

(* The callbacks of the request being served. *)
Continue ==
  \/ processBlocksTurn \/ processBlocksDone
  \/ popSnapshot \/ revertPopsBlock \/ blocksPopped \/ revertDone

Next == Request \/ Continue \/ restart

(* Every asynchronous step of a handler calls back: the loops go on. *)
Spec == Init /\ [][Next]_vars
FairSpec == Spec /\ WF_vars(Continue)
-----------------------------------------------------------------------------
(* Properties. *)

Errors == {"none", "runtime error", "vm error", "exceeds block gas limit", "rejected"}
BlockType == [number : Nat, transactions : Seq(Transactions), stateRoot : [Accounts -> Nat]]
SnapshotType == [blockNumber : Nat, timeAdjustment : Nat, chain : Seq(BlockType)]
MaybeTx == Transactions \cup {NoTx}
Reverting == phase \in {"popSnapshots", "popBlocks"}

(* Every variable keeps its type, and the list of blocks is never empty. *)
TypeOK ==
  /\ blocks \in Seq(BlockType) /\ blocks # <<>>
  /\ blockLogs \in Seq(SUBSET Transactions)
  /\ transactions \subseteq Transactions
  /\ stateRoot \in [Accounts -> Nat]
  /\ pending_transactions \in Seq(Transactions)
  /\ snapshots \in Seq(SnapshotType)
  /\ timeAdjustment \in Nat
  /\ is_mining \in BOOLEAN /\ is_mining_on_interval \in BOOLEAN
  /\ phase \in {"idle", "processBlocks", "popSnapshots", "popBlocks"}
  /\ caller \in MaybeTx /\ runtimeError \in MaybeTx
  /\ revertTo \in [id : Nat, timeAdjustment : Nat, floor : Nat]
  /\ response \in [tx : MaybeTx, result : MaybeTx, error : Errors]
  /\ origin \in [chain : Seq(BlockType), marks : Seq(SnapshotType), id : Nat]
  /\ stranded \subseteq Accounts

OnChain == UNION {Range(blocks[b].transactions) : b \in DOMAIN blocks}

(* The five stores putBlock and popBlock write say the same thing: the hash index
   inverts blocks, a transaction is stored exactly when a block of the chain holds
   it, its receipt names that block, and the logs of each block are those of its
   own transactions that did not throw. *)
IndexesMatchChain ==
  /\ DOMAIN blockHashes = Range(blocks)
  /\ \A b \in DOMAIN blocks : blockHashes[blocks[b]] = b - 1 /\ blocks[b].number = b - 1
  /\ transactions = OnChain
  /\ DOMAIN transactionReceipts = OnChain
  /\ \A tx \in OnChain :
       LET receipt == transactionReceipts[tx] IN
       /\ receipt.block \in Range(blocks)
       /\ tx \in Range(receipt.block.transactions)
       /\ receipt.status = IF tx.payload.outcome = "throws" THEN 0 ELSE 1
  /\ Len(blockLogs) = Len(blocks)
  /\ \A b \in DOMAIN blocks : blockLogs[b] = LogsOf(blocks[b].transactions)

MinedUpTo(b, a) ==
  Cardinality({p \in UNION {{i} \X DOMAIN blocks[i].transactions : i \in 1..b} :
                 blocks[p[1]].transactions[p[2]].from = a})

(* The state root in use is that of the last block, and the root of every block
   counts exactly the transactions mined up to it: no root survives a pop, and no
   block is committed over another state than its parent's. *)
RootsCountTransactions ==
  /\ stateRoot = LastBlock.stateRoot
  /\ \A b \in DOMAIN blocks, a \in Accounts : blocks[b].stateRoot[a] = MinedUpTo(b, a)

(* The chain is sound: its stores and its state roots say what its blocks say, after
   every block, failure, revert and restart. *)
ChainIsSound == IndexesMatchChain /\ RootsCountTransactions

(* The pending nonces of an account are consecutive, without repetition, and start
   at its state's nonce; only a failed block that dropped a transaction of the
   account can leave a gap below them, and only while they are pending. *)
PendingNoncesContinue ==
  ~Reverting =>
    \A a \in Accounts :
      LET nonces == {pending_transactions[i].nonce : i \in PendingOf(a)} IN
      /\ Cardinality(nonces) = Cardinality(PendingOf(a))
      /\ nonces # {} =>
           /\ nonces = Min(nonces)..Max(nonces)
           /\ Min(nonces) >= stateRoot[a]
           /\ a \notin stranded => Min(nonces) = stateRoot[a]

(* The chain below a live snapshot is the chain it was taken of, however many
   blocks, reverts and failed blocks came since, and snapshots are nested. *)
SnapshotsIntact ==
  /\ \A i \in DOMAIN snapshots :
       /\ snapshots[i].blockNumber <= Height
       /\ snapshots[i].chain = SubSeq(blocks, 1, snapshots[i].blockNumber + 1)
  /\ \A i, j \in DOMAIN snapshots :
       i <= j => snapshots[i].blockNumber <= snapshots[j].blockNumber

(* A revert that completes leaves the chain and the clock as they were when the
   snapshot it names was taken, no transaction pending, and only older snapshots. *)
RevertRestores ==
  [][phase = "popSnapshots" /\ phase' = "idle" /\ response' = NoAnswer /\ ~restart =>
       LET mark == origin.marks[origin.id] IN
       /\ blocks' = mark.chain
       /\ stateRoot' = mark.chain[Len(mark.chain)].stateRoot
       /\ timeAdjustment' = mark.timeAdjustment
       /\ pending_transactions' = <<>>
       /\ snapshots' = SubSeq(origin.marks, 1, origin.id - 1)]_vars

(* A sender that is told its transaction was mined, with or without an exception,
   finds it on the chain with its receipt: with an instant miner the answer comes
   after the last block, not after the first.  The hash that an exception is told with
   is that of a mined transaction that threw, though not always the sender's own.  And
   processNextBlock never meets a pool of which nothing fits, which its comment says
   "should never happen". *)
MinedBeforeAnswered ==
  /\ response.error # "exceeds block gas limit"
  /\ Idle /\ response.error \in {"none", "runtime error"} /\ response.tx # NoTx =>
    \/ response.tx \in OnChain /\ response.tx \in DOMAIN transactionReceipts
    \/ (~is_mining \/ is_mining_on_interval) /\ response.tx \in Range(pending_transactions)
  /\ Idle /\ response.error = "runtime error" /\ response.tx # NoTx =>
       response.result \in OnChain /\ transactionReceipts[response.result].status = 0

(* A transaction leaves the pool only for the chain, by a revert or a restart, or
   with a block the VM refused; and the VM refuses a block only for a sender that
   cannot pay or behind the gap an earlier refused block left. *)
NothingLostSilently ==
  [][LET leaving == Range(pending_transactions) \ (Range(pending_transactions') \cup transactions')
     IN leaving # {} =>
          \/ restart \/ revertDone
          \/ /\ response'.error = "vm error"
             /\ \E tx \in leaving : tx.payload.outcome = "underfunded" \/ tx.from \in stranded]_vars

(* Every request is answered, unless the process is restarted: processBlocks and
   both loops of revert come to an end. *)
RequestsAnswered == (phase # "idle") ~> (phase = "idle")

TransactionsOf(c) == [b \in DOMAIN c |-> c[b].transactions]
ChainsOf(marks) == [i \in DOMAIN marks |-> TransactionsOf(marks[i].chain)]

(* The refinement: while a revert runs, the promise is still that of before it. *)
Promised == INSTANCE Timeline WITH
  chain <- TransactionsOf(IF Reverting THEN origin.chain ELSE blocks),
  marks <- ChainsOf(IF Reverting THEN origin.marks ELSE snapshots)

(* The block by block, snapshot by snapshot revert and the restart that may cut it
   short implement the one-step rewind and the restart of Timeline. *)
ImplementsTimeline == Promised!Spec
=============================================================================
