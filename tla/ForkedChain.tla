----------------------------- MODULE ForkedChain -----------------------------
(***************************************************************************)
(* ForkedBlockchain (lib/utils/forkedblockchain.js) and the tries it reads *)
(* through (lib/utils/forkedstoragetrie.js): a local chain that continues  *)
(* another node's chain from the block forkBlockNumber.  What the local    *)
(* blocks have not written is fetched from the other node, which goes on   *)
(* mining meanwhile.                                                       *)
(* There is one account with one storage slot; a value is a member of      *)
(* 0..MaxValue, where 0 means no account and an empty slot.  Each block    *)
(* has one transaction.  The reads answer in one step: they are operators. *)
(***************************************************************************)
EXTENDS Integers, Sequences, FiniteSets

CONSTANTS
  MaxValue,
  MaxRemote,          \* bound: blocks of the other node
  MaxLocal            \* bound: local blocks
ASSUME BoundsAssumption == MaxValue \in Nat \ {0} /\ MaxRemote \in Nat \ {0} /\ MaxLocal \in Nat \ {0}

VARIABLES
  remote,             \* the state after each block of the other node; block n is remote[n + 1]
  forkBlockNumber,
  blocks              \* data.blocks: the local blocks

vars == <<remote, forkBlockNumber, blocks>>

Values == 0..MaxValue
States == {s \in [account : Values, slot : Values] : s.account = 0 => s.slot = 0}

(* The trie has no key for what was never written here, or was deleted. *)
Absent == MaxValue + 1
NoBlock == [side |-> "none", number |-> -1]
Remote(n) == [side |-> "remote", number |-> n]
Local(n) == [side |-> "local", number |-> n]

latestBlock == blocks[Len(blocks)]
getHeight == latestBlock.number
AtRemote(n) == remote[n + 1]
RemoteHeight == Len(remote) - 1
-----------------------------------------------------------------------------
(* Two mutants: the local blocks are counted from the block of the fork; a number beyond
   the fork goes to the other node as it is. *)
getRelativeBlockNumber_FromFork(n) == n - forkBlockNumber
SafeFallback_Unpegged(n) == IF n > RemoteHeight THEN RemoteHeight ELSE n

isFallbackBlock(n) == n <= forkBlockNumber
getRelativeBlockNumber(n) == n - forkBlockNumber - 1

(* getSafeFallbackBlockNumber: no read of the other node's state goes beyond the fork. *)
SafeFallback(n) == IF n > forkBlockNumber THEN forkBlockNumber ELSE n

(* data.blocks.get answers with an error behind the end of the array. *)
BlockAt(index) == IF index + 1 \in DOMAIN blocks THEN Local(blocks[index + 1].number) ELSE NoBlock

getFallbackBlock(n) == IF n \in 0..RemoteHeight THEN Remote(n) ELSE NoBlock

getBlock(n) ==
  IF isFallbackBlock(n) THEN getFallbackBlock(n) ELSE BlockAt(getRelativeBlockNumber(n))

(* The logs of a block stand for the block. *)
getBlockLogs(n) ==
  IF getRelativeBlockNumber(n) < 0 THEN getFallbackBlock(n) ELSE BlockAt(getRelativeBlockNumber(n))

(* The hash of a block stands for the block. What is not in data.blockHashes must be a
   block of the other node. *)
getBlockByHash(hash) ==
  IF \E i \in DOMAIN blocks : hash = Local(blocks[i].number) THEN hash
  ELSE IF hash.side = "remote" THEN getFallbackBlock(hash.number) ELSE NoBlock

parentHash(block) ==
  IF block.side = "remote" THEN Remote(block.number - 1)
  ELSE blocks[getRelativeBlockNumber(block.number) + 1].parent
-----------------------------------------------------------------------------
(* keyExists and get of the trie with a state root: the account, or what the other node
   had at the fork. *)
AccountIn(root) == IF root.account # Absent THEN root.account ELSE AtRemote(forkBlockNumber).account

(* A mutant: the account is read under the current root. *)
getAccount_CurrentRoot(n) ==
  IF latestBlock.stateRoot.account # Absent /\ n > forkBlockNumber
    THEN latestBlock.stateRoot.account
    ELSE AtRemote(SafeFallback(n)).account

(* getAccount looks for the account under the current root first, then reads it under the
   root of the block. *)
getAccount(n) ==
  IF latestBlock.stateRoot.account # Absent /\ n > forkBlockNumber
    THEN AccountIn(blocks[getRelativeBlockNumber(n) + 1].stateRoot)
    ELSE AtRemote(SafeFallback(n)).account

(* getCode does the same, but asks the other node for "latest" beyond the fork. *)
getCode(n) ==
  IF latestBlock.stateRoot.account # Absent /\ n > forkBlockNumber
    THEN AccountIn(blocks[getRelativeBlockNumber(n) + 1].stateRoot)
    ELSE AtRemote(SafeFallback(IF n > forkBlockNumber THEN getHeight ELSE n)).account

(* A mutant: the other node is asked for the number as it is. *)
getStorage_Unpegged(n) ==
  IF latestBlock.stateRoot.slot # Absent THEN latestBlock.stateRoot.slot
  ELSE AtRemote(SafeFallback_Unpegged(n)).slot

(* getStorage reads the slot in the account's trie under the current root, whatever the
   block. *)
getStorage(n) ==
  IF latestBlock.stateRoot.slot # Absent THEN latestBlock.stateRoot.slot
  ELSE AtRemote(SafeFallback(n)).slot

(* A transaction has the hash of its block. A local one is in data.transactions, and its
   receipt has its block; the other node is asked for every other one. *)
getTransaction(block) == getBlockByHash(block)
getTransactionReceipt(block) ==
  IF block.side = "local" THEN getBlockByHash(block) ELSE getBlock(block.number)
-----------------------------------------------------------------------------
(* createGenesisBlock: the first local block comes after the block of the fork. *)
Genesis ==
  [number |-> forkBlockNumber + 1, parent |-> Remote(forkBlockNumber),
   stateRoot |-> [account |-> Absent, slot |-> Absent],
   state |-> AtRemote(forkBlockNumber)]

Init ==
  /\ remote \in {<<s, t>> : s, t \in States}
  /\ forkBlockNumber \in 0..RemoteHeight
  /\ blocks = <<Genesis>>

(* The other node mines a block of its own. *)
remoteMines ==
  /\ Len(remote) < MaxRemote
  /\ \E s \in States : remote' = Append(remote, s)
  /\ UNCHANGED <<forkBlockNumber, blocks>>

(* createBlock and putBlock: a block with a new root, and the state it ought to have. *)
Mine(root, state) ==
  /\ Len(blocks) < MaxLocal
  /\ blocks' = Append(blocks, [number |-> latestBlock.number + 1,
                               parent |-> Local(latestBlock.number),
                               stateRoot |-> root, state |-> state])
  /\ UNCHANGED <<remote, forkBlockNumber>>

(* A transaction writes the account and perhaps the slot; the virtual machine deletes the
   key of a slot that becomes 0. *)
transact ==
  \E account \in Values \ {0} :
    \/ Mine([latestBlock.stateRoot EXCEPT !.account = account],
            [latestBlock.state EXCEPT !.account = account])
    \/ \E slot \in Values :
         Mine([account |-> account, slot |-> IF slot = 0 THEN Absent ELSE slot],
              [account |-> account, slot |-> slot])

(* The contract destroys itself. *)
destroy ==
  /\ latestBlock.state.account # 0
  /\ Mine([account |-> Absent, slot |-> Absent], [account |-> 0, slot |-> 0])

mineEmpty == Mine(latestBlock.stateRoot, latestBlock.state)

(* svm_revert pops blocks; no snapshot is older than the first local block. *)
popBlock ==
  /\ Len(blocks) > 1
  /\ blocks' = SubSeq(blocks, 1, Len(blocks) - 1)
  /\ UNCHANGED <<remote, forkBlockNumber>>

Next == remoteMines \/ transact \/ destroy \/ mineEmpty \/ popBlock

Spec == Init /\ [][Next]_vars
-----------------------------------------------------------------------------
(* The state after block n of the chain that the local blocks continue. *)
StateAfter(n) ==
  IF n <= forkBlockNumber THEN AtRemote(n) ELSE blocks[n - forkBlockNumber].state

AtFork == AtRemote(forkBlockNumber)
Destroyed ==
  \E i \in DOMAIN blocks : \E n \in forkBlockNumber..blocks[i].number :
    blocks[i].state.account = 0 /\ StateAfter(n).account # 0
Cleared == AtFork.slot # 0 /\ \E i \in DOMAIN blocks : blocks[i].state.slot = 0

(* Every block of the chain across the fork is found under its number and its hash, has
   its own logs, comes after the one with the number before, and nothing is found beyond the
   last local block; and the receipt of a transaction up to the fork or of a local one has
   the transaction's own block. *)
ChainIsContinuous ==
  /\ \A n \in 0..getHeight :
       /\ getBlock(n).number = n
       /\ getBlockByHash(getBlock(n)) = getBlock(n) /\ getBlockLogs(n) = getBlock(n)
       /\ n > 0 => parentHash(getBlock(n)) = getBlock(n - 1)
  /\ getBlock(getHeight + 1) = NoBlock
  /\ \A n \in 0..forkBlockNumber : getTransactionReceipt(Remote(n)) = getTransaction(Remote(n))
  /\ \A i \in DOMAIN blocks :
       LET block == Local(blocks[i].number)
       IN getTransaction(block) = block /\ getTransactionReceipt(block) = block

(* getAccount and getCode answer for each number with the account after that block, with
   what the other node had where no local block wrote it, and never with what that node has
   written since; except for an account that a local block destroyed, which is fetched again. *)
AccountsByNumber ==
  ~Destroyed => \A n \in 0..getHeight :
    getAccount(n) = StateAfter(n).account /\ getCode(n) = StateAfter(n).account

(* Some block after n has another slot than block n has. *)
ChangedSince(n) == \E k \in n..getHeight : StateAfter(k).slot # StateAfter(n).slot

(* sof_getStorageAt answers for each number with the slot as it was after that block, whatever
   the other node has written since the fork, as long as no local block has written it; and
   then for the blocks since it last changed, the latest one among them.  Except for a slot of
   the other node's that a local block cleared, which is fetched again. *)
StorageByNumber ==
  ~Cleared => \A n \in 0..getHeight :
    (\A i \in DOMAIN blocks : blocks[i].stateRoot.slot = Absent) \/ ~ChangedSince(n) =>
      getStorage(n) = StateAfter(n).slot
=============================================================================
