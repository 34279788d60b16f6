-------------------------------- MODULE Batch --------------------------------
(***************************************************************************)
(* One JSON-RPC batch: provider.js lets one payload at a time through, but *)
(* the members of an array start one after the other in one turn and then  *)
(* run side by side.  Transactions, and the calls and traces that share    *)
(* their queue, go through the action queue of lib/statemanager.js one at  *)
(* a time; svm_mine goes past it to processNextBlock.  An action reads the *)
(* sender's next nonce when it starts and puts its transaction into the    *)
(* pool in a later turn; an instant miner then mines until the pool is     *)
(* empty.                                                                  *)
(*                                                                         *)
(* One block at a time is made here: a batch has at most one svm_mine, and *)
(* none when the miner is instant.  Two blocks at once would share the     *)
(* checkpoints of one virtual machine, which is external.  Every           *)
(* transaction fits in a block, succeeds and offers the same price; the    *)
(* order of those of different senders in a block is open.                 *)
(***************************************************************************)
EXTENDS Naturals, Sequences, FiniteSets, Functions

CONSTANTS
  Senders,
  NoSender,
  Batches,           \* the batches to serve: sequences of members
  Miners,            \* whether the miner is instant: a subset of BOOLEAN
  MaxPending         \* bound: transactions pending from earlier requests

Members == [kind : {"send"}, from : Senders] \cup [kind : {"read", "mine"}, from : {NoSender}]

Mines(b) == {i \in DOMAIN b : b[i].kind = "mine"}

ASSUME NoSenderAssumption == NoSender \notin Senders
ASSUME BatchesAssumption == \A b \in Batches : b \in Seq(Members) /\ Cardinality(Mines(b)) <= 1
ASSUME BatchBoundAssumption == Miners \subseteq BOOLEAN /\ MaxPending \in Nat

VARIABLES
  batch,                   \* the members
  instant,                 \* is_mining and not is_mining_on_interval
  arrived,                 \* how many members have started
  action_queue,            \* members that wait
  action_processing,
  stage,                   \* per member: where it is
  nonce,                   \* per member: the nonce it read
  pending_transactions,
  chain,                   \* the blocks above the one the batch finds last
  root,                    \* stateTrie.root, as the next nonce of each sender
  job,                     \* the block in the making
  order,                   \* history: actions in the order they were started
  before,                  \* history: the pool the batch found
  overlapped               \* history: a nonce was read while a block was in the making, or
                           \* read before a block was begun that failed, and used after it

queueVars == <<arrived, action_queue, action_processing, order>>
blockVars == <<chain, root, job>>
vars == <<batch, before, instant, queueVars, stage, nonce, pending_transactions, blockVars, overlapped>>

(* Not started; in the action queue; started, with its nonce read; in processBlocks
   between two blocks; with a block in the making; over. *)
Stages == {"unsent", "queued", "started", "processBlocks", "block", "answered", "failed"}

Transaction(a, n) == [from |-> a, nonce |-> n]
Transactions == [from : Senders, nonce : Nat]

(* A block in the making: whose, its transactions, how many have run, the root to go back
   to, and whether an action had read a nonce and not used it when the pool was taken. *)
Job(i, txs, late) == [member |-> i, txs |-> txs, run |-> 0, root |-> root, late |-> late]
NoJob == [member |-> 0, txs |-> <<>>, run |-> 0, root |-> [a \in Senders |-> 0], late |-> FALSE]

(* Earlier requests may have left transactions pending, also such as no block can run
   because one before them was dropped (Ledger!NothingLostSilently). *)
PendingAtFirst ==
  {[i \in 1..k |-> Transaction(a, gap + i - 1)] : a \in Senders, k \in 0..MaxPending, gap \in {0, 1}}

Init ==
  /\ batch \in Batches
  /\ instant \in Miners
  /\ instant => Mines(batch) = {}
  /\ pending_transactions \in PendingAtFirst
  /\ before = pending_transactions
  /\ arrived = 0
  /\ action_queue = <<>>
  /\ action_processing = FALSE
  /\ stage = [i \in DOMAIN batch |-> "unsent"]
  /\ nonce = [i \in DOMAIN batch |-> 0]
  /\ chain = <<>>
  /\ root = [a \in Senders |-> 0]
  /\ job = NoJob
  /\ order = <<>>
  /\ overlapped = FALSE
-----------------------------------------------------------------------------
PendingNonces(a, pool) ==
  {pool[i].nonce : i \in {k \in DOMAIN pool : pool[k].from = a}}

(* A mutant: the state alone tells. *)
getQueuedNonce_OfState(a, pool, state) == state[a]

(* The nonce the next transaction of a sender must carry. *)
getQueuedNonce(a, pool, state) ==
  LET pending == PendingNonces(a, pool) IN
  IF pending = {} THEN state[a]
  ELSE 1 + (CHOOSE n \in pending : \A other \in pending : other <= n)

Making == job # NoJob

(* The action queue hands member i to its handler: processTransaction reads the nonce,
   with the pool and the state as the turn has left them so far. *)
StartAction(i, pool, state, making) ==
  /\ order' = Append(order, i)
  /\ IF batch[i].kind = "send"
       THEN /\ nonce' = [nonce EXCEPT ![i] = getQueuedNonce(batch[i].from, pool, state)]
            /\ overlapped' = (overlapped \/ making)
       ELSE UNCHANGED <<nonce, overlapped>>

(* A mutant: an action is started whether or not one is being processed. *)
Free_Always == TRUE

Free == ~action_processing

(* _queueTransaction and processNextAction. *)
queueAction(i) ==
  IF Free
    THEN /\ action_processing' = TRUE
         /\ stage' = [stage EXCEPT ![i] = "started"]
         /\ StartAction(i, pending_transactions, root, Making)
         /\ UNCHANGED action_queue
    ELSE /\ action_queue' = Append(action_queue, i)
         /\ stage' = [stage EXCEPT ![i] = "queued"]
         /\ UNCHANGED <<action_processing, order, nonce, overlapped>>

(* A mutant: the flag is freed although actions wait. *)
NextAction_Dropped == {}

NextAction == IF action_queue = <<>> THEN {} ELSE {Head(action_queue)}

(* The intermediary callback of processNextAction: the member is answered, and the next
   action is started in the same turn. *)
EndAction(i, outcome) ==
  IF NextAction = {}
    THEN /\ stage' = [stage EXCEPT ![i] = outcome]
         /\ action_processing' = FALSE
         /\ UNCHANGED <<action_queue, order, nonce, overlapped>>
    ELSE \E next \in NextAction :
         /\ stage' = [stage EXCEPT ![i] = outcome, ![next] = "started"]
         /\ action_queue' = Tail(action_queue)
         /\ StartAction(next, pending_transactions', root', Making')
         /\ UNCHANGED action_processing

(* The orders sortByPriceAndNonce may leave the pool in. *)
Sorted ==
  {s \in {[i \in DOMAIN pending_transactions |-> pending_transactions[p[i]]] :
             p \in Bijection(DOMAIN pending_transactions, DOMAIN pending_transactions)} :
     \A i, j \in DOMAIN s : i < j /\ s[i].from = s[j].from => s[i].nonce <= s[j].nonce}

Late == \E i \in DOMAIN batch : stage[i] = "started" /\ batch[i].kind = "send"

(* processNextBlock takes the pool. *)
TakePool(i) ==
  /\ \E txs \in Sorted : job' = Job(i, txs, Late)
  /\ pending_transactions' = <<>>
  /\ UNCHANGED <<chain, root>>
-----------------------------------------------------------------------------
(* The members start in the order of the array, in one turn. *)
arrive ==
  /\ arrived < Len(batch)
  /\ arrived' = arrived + 1
  /\ LET i == arrived + 1 IN
     IF batch[i].kind = "mine"
       THEN /\ TakePool(i)
            /\ stage' = [stage EXCEPT ![i] = "block"]
            /\ UNCHANGED <<action_queue, action_processing, order, nonce, overlapped>>
       ELSE /\ queueAction(i)
            /\ UNCHANGED <<pending_transactions, blockVars>>
  /\ UNCHANGED <<batch, before, instant>>

AllArrived == arrived = Len(batch)

(* processTransaction goes on with the nonce: the transaction joins the pool, and is
   answered unless the miner is instant.  A call or trace is answered. *)
finishAction(i) ==
  /\ AllArrived
  /\ stage[i] = "started"
  /\ UNCHANGED <<batch, before, instant, arrived, blockVars>>
  /\ pending_transactions' =
       IF batch[i].kind = "send"
         THEN Append(pending_transactions, Transaction(batch[i].from, nonce[i]))
         ELSE pending_transactions
  /\ IF batch[i].kind = "send" /\ instant
       THEN /\ stage' = [stage EXCEPT ![i] = "processBlocks"]
            /\ UNCHANGED <<action_queue, action_processing, order, nonce, overlapped>>
       ELSE EndAction(i, "answered")

(* processBlocks: a block while the pool is not empty. *)
processBlocks(i) ==
  /\ AllArrived
  /\ stage[i] = "processBlocks"
  /\ IF pending_transactions # <<>>
       THEN /\ TakePool(i)
            /\ stage' = [stage EXCEPT ![i] = "block"]
            /\ UNCHANGED <<action_queue, action_processing, order, nonce, overlapped>>
       ELSE /\ UNCHANGED <<pending_transactions, blockVars>>
            /\ EndAction(i, "answered")
  /\ UNCHANGED <<batch, before, instant, arrived>>

NextTx == job.txs[job.run + 1]
Runs == NextTx.nonce = root[NextTx.from]

(* The virtual machine runs the next transaction of the block. *)
runTransaction ==
  /\ AllArrived
  /\ Making
  /\ job.run < Len(job.txs)
  /\ Runs
  /\ root' = [root EXCEPT ![NextTx.from] = @ + 1]
  /\ job' = [job EXCEPT !.run = @ + 1]
  /\ UNCHANGED <<batch, before, instant, queueVars, stage, nonce, pending_transactions, chain, overlapped>>

(* How svm_mine goes on after its block, and how processBlocks does. *)
MineOver(outcome) ==
  /\ batch[job.member].kind = "mine"
  /\ stage' = [stage EXCEPT ![job.member] = outcome]
  /\ UNCHANGED <<action_queue, action_processing, order, nonce>>

NextTurn ==
  /\ batch[job.member].kind = "send"
  /\ stage' = [stage EXCEPT ![job.member] = "processBlocks"]
  /\ UNCHANGED <<action_queue, action_processing, order, nonce, overlapped>>

(* A nonce is not the next one: the block fails, the root goes back, its transactions are
   gone, and so ends the request that made it. *)
failBlock ==
  /\ AllArrived
  /\ Making
  /\ job.run < Len(job.txs)
  /\ ~Runs
  /\ root' = job.root
  /\ job' = NoJob
  /\ UNCHANGED <<batch, before, instant, arrived, pending_transactions, chain>>
  /\ \/ MineOver("failed") /\ overlapped' = (overlapped \/ job.late)
     \/ batch[job.member].kind = "send" /\ EndAction(job.member, "failed")

(* putBlock. *)
putBlock ==
  /\ AllArrived
  /\ Making
  /\ job.run = Len(job.txs)
  /\ chain' = Append(chain, job.txs)
  /\ job' = NoJob
  /\ \/ MineOver("answered") /\ UNCHANGED overlapped
     \/ NextTurn
  /\ UNCHANGED <<batch, before, instant, arrived, pending_transactions, root>>
-----------------------------------------------------------------------------
Over == \A i \in DOMAIN batch : stage[i] \in {"answered", "failed"}

(* The batch is answered. *)
answerBatch == AllArrived /\ Over /\ UNCHANGED vars

Progress ==
  \/ arrive \/ runTransaction \/ failBlock \/ putBlock
  \/ \E i \in DOMAIN batch : finishAction(i) \/ processBlocks(i)

Next == Progress \/ answerBatch

Spec == Init /\ [][Next]_vars

(* Every asynchronous step calls back. *)
FairSpec == Spec /\ WF_vars(Progress)
-----------------------------------------------------------------------------
(* What the members do one after another: the specification of a batch. *)

State == [chain : Seq(SUBSET Transactions), pool : SUBSET Transactions,
          root : [Senders -> Nat], failed : SUBSET DOMAIN batch]

NoncesOf(txs, a) == {tx.nonce : tx \in {t \in txs : t.from = a}}

(* Every sender's transactions carry the nonces from its next one on. *)
CanRun(s) ==
  \A a \in Senders :
    NoncesOf(s.pool, a) = s.root[a]..(s.root[a] + Cardinality(NoncesOf(s.pool, a)) - 1)

(* A block of the whole pool, for member i. *)
Mined(s, i) ==
  IF CanRun(s)
    THEN [s EXCEPT !.chain = Append(s.chain, s.pool), !.pool = {},
                   !.root = [a \in Senders |-> s.root[a] + Cardinality(NoncesOf(s.pool, a))]]
    ELSE [s EXCEPT !.pool = {}, !.failed = s.failed \cup {i}]

NextNonce(s, a) ==
  IF NoncesOf(s.pool, a) = {} THEN s.root[a]
  ELSE 1 + (CHOOSE n \in NoncesOf(s.pool, a) : \A other \in NoncesOf(s.pool, a) : other <= n)

Sent(s, a) == [s EXCEPT !.pool = s.pool \cup {Transaction(a, NextNonce(s, a))}]

After(s, i) ==
  CASE batch[i].kind = "send" -> IF instant THEN Mined(Sent(s, batch[i].from), i)
                                 ELSE Sent(s, batch[i].from)
    [] batch[i].kind = "mine" -> Mined(s, i)
    [] OTHER                  -> s

Found == [chain |-> <<>>, pool |-> Range(before), root |-> [a \in Senders |-> 0], failed |-> {}]

(* The members in some order that keeps the actions in the order of the array. *)
OneByOne ==
  {p \in Bijection(DOMAIN batch, DOMAIN batch) :
     \A i, j \in DOMAIN batch : i < j /\ {p[i], p[j]} \cap Mines(batch) = {} => p[i] < p[j]}

Outcome(p) ==
  LET state[k \in 0..Len(batch)] == IF k = 0 THEN Found ELSE After(state[k - 1], p[k])
  IN state[Len(batch)]
-----------------------------------------------------------------------------
(* Properties. *)

(* Every variable keeps its type. *)
TypeOK ==
  /\ batch \in Batches
  /\ before \in PendingAtFirst
  /\ instant \in BOOLEAN
  /\ arrived \in 0..Len(batch)
  /\ action_queue \in Seq(DOMAIN batch)
  /\ action_processing \in BOOLEAN
  /\ stage \in [DOMAIN batch -> Stages]
  /\ nonce \in [DOMAIN batch -> Nat]
  /\ pending_transactions \in Seq(Transactions)
  /\ chain \in Seq(Seq(Transactions))
  /\ root \in [Senders -> Nat]
  /\ job \in [member : 0..Len(batch), txs : Seq(Transactions), run : Nat,
              root : [Senders -> Nat], late : BOOLEAN]
  /\ order \in Seq(DOMAIN batch)
  /\ overlapped \in BOOLEAN

InAction == {i \in DOMAIN batch \ Mines(batch) : stage[i] \in {"started", "processBlocks", "block"}}

(* The action queue of statemanager.js works on one action at a time, in the order of the
   array; action_processing tells whether it does, and no action waits when it does not. *)
ActionsInTurn ==
  /\ action_processing = (InAction # {})
  /\ \A i \in InAction : i = order[Len(order)]
  /\ action_queue # <<>> => action_processing
  /\ LET begun == order \o action_queue IN
       /\ \A k, l \in DOMAIN begun : k < l => begun[k] < begun[l]
       /\ Range(begun) = (1..arrived) \ Mines(batch)

(* A batch ends as its members would have, served one after another in some order that
   keeps the actions in turn: the same blocks, pool and failures.  The exception is a
   nonce read while svm_mine held transactions that were neither in the pool nor in the
   state, or held back while a block failed. *)
AsIfOneByOne ==
  Over /\ AllArrived /\ ~overlapped =>
    \E p \in OneByOne :
      /\ Outcome(p).chain = [k \in DOMAIN chain |-> Range(chain[k])]
      /\ Outcome(p).pool = Range(pending_transactions)
      /\ Outcome(p).root = root
      /\ Outcome(p).failed = {i \in DOMAIN batch : stage[i] = "failed"}

(* Every member of the batch is answered. *)
BatchAnswered == <>(AllArrived /\ Over)
=============================================================================
