------------------------------ MODULE StateTrie ------------------------------
(***************************************************************************)
(* The state trie that BlockchainDouble shares between the virtual machine *)
(* and the reads of past state.  getAccount, getStorage and getCode point  *)
(* its root at the block that was asked for, read, and put the root back   *)
(* in a callback; processBlock runs a block over the same trie and         *)
(* putBlock records the root it finds as the block's.                      *)
(* The provider's queue keeps two requests apart, but the requests of one  *)
(* batch run side by side (provider.js:163), as all do with the option     *)
(* asyncRequestProcessing.  overlapped tells whether that ever happened.   *)
(* A root stands for what the trie holds under it: the blocks whose        *)
(* changes are in, and whether it is the trie of the accounts or that of   *)
(* the storage of the account that is read.                                *)
(***************************************************************************)
EXTENDS Naturals, Sequences

CONSTANTS
  Calls,              \* reads that can be under way at the same time
  MaxBlocks           \* bound: blocks on the chain, genesis included

ASSUME BlocksAssumption == MaxBlocks \in Nat \ {0}

VARIABLES
  root,               \* stateTrie.root
  stateRoots,         \* header.stateRoot of the blocks on the chain
  calls,              \* the reads, each with the roots it holds
  block,              \* the block being mined: "none", "running" or "run"
  checkpoint,         \* the root the block being mined began with; GenesisRoot between blocks
  answer,             \* the last read that was answered
  overlapped          \* history: a read or a block began during another one

trieVars == <<root, stateRoots, calls, block, checkpoint, answer, overlapped>>

Kinds == {"getAccount", "getStorage", "getCode"}
Stages == {"idle", "getBlock", "account", "value"}

State(blocks) == [trie |-> "state", blocks |-> blocks]
GenesisRoot == State(<<>>)
With(r, number) == [trie |-> r.trie, blocks |-> Append(r.blocks, number)]
LastRoot == stateRoots[Len(stateRoots)]

(* account.stateRoot of the account under a root: a trie of its own. No account is
   found in a storage trie, and the new Account that is made instead has none. *)
Storage(r) == [trie |-> "storage", blocks |-> IF r.trie = "state" THEN r.blocks ELSE <<>>]

(* What a call holds: its block, the root it has to put back, the root it reads under. *)
Read(stage, kind, number, saved, reading) ==
  [stage |-> stage, kind |-> kind, number |-> number, saved |-> saved, reading |-> reading]
Idle == Read("idle", "getAccount", 1, GenesisRoot, GenesisRoot)

Busy == block # "none" \/ \E c \in Calls : calls[c].stage # "idle"

TrieInit ==
  /\ root = GenesisRoot
  /\ stateRoots = <<GenesisRoot>>
  /\ calls = [c \in Calls |-> Idle]
  /\ block = "none"
  /\ checkpoint = GenesisRoot
  /\ answer = [kind |-> "getAccount", number |-> 1, value |-> GenesisRoot]
  /\ overlapped = FALSE
-----------------------------------------------------------------------------
(* A read begins with getBlock, of the number or the tag it was given. *)
call(c, kind) ==
  /\ calls[c].stage = "idle"
  /\ calls' = [calls EXCEPT ![c] = Read("getBlock", kind, 1, GenesisRoot, GenesisRoot)]
  /\ overlapped' = (overlapped \/ Busy)
  /\ UNCHANGED <<root, stateRoots, block, checkpoint, answer>>

(* getBlock found the block: trie.get starts from the root it is given here, whatever
   becomes of trie.root later. *)
blockFound(c) ==
  /\ calls[c].stage = "getBlock"
  /\ \E number \in DOMAIN stateRoots :
       /\ calls' = [calls EXCEPT ![c] = Read("account", @.kind, number, root, stateRoots[number])]
       /\ root' = stateRoots[number]
  /\ UNCHANGED <<stateRoots, block, checkpoint, answer, overlapped>>

blockMissing(c) ==
  /\ calls[c].stage = "getBlock"
  /\ calls' = [calls EXCEPT ![c] = Idle]
  /\ UNCHANGED <<root, stateRoots, block, checkpoint, answer, overlapped>>

(* The read is over and answers with what is under the root it read. *)
Finish(c) ==
  /\ root' = calls[c].saved
  /\ answer' = [kind |-> calls[c].kind, number |-> calls[c].number, value |-> calls[c].reading]
  /\ calls' = [calls EXCEPT ![c] = Idle]

(* A mutant: an error leaves the root where it is. *)
Fail_Return(c) ==
  /\ UNCHANGED <<root, answer>>
  /\ calls' = [calls EXCEPT ![c] = Idle]

Fail(c) ==
  /\ root' = calls[c].saved
  /\ calls' = [calls EXCEPT ![c] = Idle]
  /\ UNCHANGED answer

(* A mutant: the second trie.get of getStorage comes before trie.root is set. *)
StorageRead_SameRoot(c) ==
  /\ calls[c].kind = "getStorage"
  /\ root' = Storage(calls[c].reading)
  /\ calls' = [calls EXCEPT ![c] = Read("value", @.kind, @.number, @.saved, root)]
  /\ UNCHANGED answer

(* The callback of the first trie.get. getStorage goes on in the account's own trie, and
   getCode by the hash of the code, under which it lies whatever the root is. *)
StorageRead(c) ==
  /\ calls[c].kind = "getStorage"
  /\ root' = Storage(calls[c].reading)
  /\ calls' = [calls EXCEPT ![c] = Read("value", @.kind, @.number, @.saved, Storage(@.reading))]
  /\ UNCHANGED answer

CodeRead(c) ==
  /\ calls[c].kind = "getCode"
  /\ calls' = [calls EXCEPT ![c] = Read("value", @.kind, @.number, @.saved, @.reading)]
  /\ UNCHANGED <<root, answer>>

(* account.getCode of an account that has none calls back at once. *)
accountRead(c) ==
  /\ calls[c].stage = "account"
  /\ \/ StorageRead(c)
     \/ CodeRead(c)
     \/ calls[c].kind # "getStorage" /\ Finish(c)
  /\ UNCHANGED <<stateRoots, block, checkpoint, overlapped>>

valueRead(c) ==
  /\ calls[c].stage = "value"
  /\ Finish(c)
  /\ UNCHANGED <<stateRoots, block, checkpoint, overlapped>>

readFails(c) ==
  /\ calls[c].stage \in {"account", "value"}
  /\ Fail(c)
  /\ UNCHANGED <<stateRoots, block, checkpoint, overlapped>>
-----------------------------------------------------------------------------
(* processBlock: vm.runBlock takes a checkpoint of the trie, and on an error goes back to
   it; otherwise the block's changes are in the trie under a new root. *)
processBlock ==
  /\ block = "none"
  /\ Len(stateRoots) < MaxBlocks
  /\ block' = "running"
  /\ checkpoint' = root
  /\ overlapped' = (overlapped \/ Busy)
  /\ UNCHANGED <<root, stateRoots, calls, answer>>

blockRun ==
  /\ block = "running"
  /\ block' = "run"
  /\ root' = With(root, Len(stateRoots))
  /\ UNCHANGED <<stateRoots, calls, checkpoint, answer, overlapped>>

runFails ==
  /\ block = "running"
  /\ block' = "none"
  /\ root' = checkpoint
  /\ checkpoint' = GenesisRoot
  /\ UNCHANGED <<stateRoots, calls, answer, overlapped>>

(* Two mutants: the header gets the root that the block began with; the block stays in
   hand and is put again. *)
putBlock_Again ==
  /\ block = "run"
  /\ stateRoots' = Append(stateRoots, root)
  /\ checkpoint' = GenesisRoot
  /\ UNCHANGED <<root, calls, block, answer, overlapped>>
putBlock_RootBefore ==
  /\ block = "run"
  /\ block' = "none"
  /\ stateRoots' = Append(stateRoots, checkpoint)
  /\ checkpoint' = GenesisRoot
  /\ UNCHANGED <<root, calls, answer, overlapped>>

(* After the await on the tries of transactions and receipts. BlockStore has the writes. *)
putBlock ==
  /\ block = "run"
  /\ block' = "none"
  /\ stateRoots' = Append(stateRoots, root)
  /\ checkpoint' = GenesisRoot
  /\ UNCHANGED <<root, calls, answer, overlapped>>

TrieNext ==
  \/ \E c \in Calls :
       \/ \E kind \in Kinds : call(c, kind)
       \/ blockFound(c) \/ blockMissing(c) \/ accountRead(c) \/ valueRead(c) \/ readFails(c)
  \/ processBlock \/ blockRun \/ runFails \/ putBlock

TrieSpec == TrieInit /\ [][TrieNext]_trieVars
-----------------------------------------------------------------------------
Roots == [trie : {"state", "storage"}, blocks : Seq(Nat)]

(* Every variable keeps its type, and no read goes to a block that is not on the chain. *)
TypeOK ==
  /\ root \in Roots /\ checkpoint \in Roots
  /\ stateRoots \in Seq(Roots) /\ Len(stateRoots) \in 1..MaxBlocks
  /\ calls \in [Calls -> [stage : Stages, kind : Kinds, number : DOMAIN stateRoots,
                          saved : Roots, reading : Roots]]
  /\ block \in {"none", "running", "run"}
  /\ answer \in [kind : Kinds, number : DOMAIN stateRoots, value : Roots]
  /\ overlapped \in BOOLEAN

(* getAccount, getStorage and getCode answer from the state of the block they were asked
   for, in every interleaving with each other and with a block that is being mined, although
   they all read through one root that each of them moves. *)
ReadsAreRight ==
  answer.value = IF answer.kind = "getStorage" THEN Storage(stateRoots[answer.number])
                 ELSE stateRoots[answer.number]

(* As long as nothing overlapped, the root is that of the last block whenever nothing is
   under way: every read puts it back, on its error paths too, and so does a failed block. *)
RootBack == ~overlapped /\ ~Busy => root = LastRoot

(* As long as nothing overlapped, the root that putBlock locks in is that of the block's
   parent with the block's own changes, whatever was read before. *)
BlocksKeepTheirState ==
  ~overlapped => \A n \in DOMAIN stateRoots : stateRoots[n] = State([i \in 1..(n - 1) |-> i])

(* What the comments of the three reads say (blockchain_double.js:1027, 1088, 1125): "Finally,
   put the stateRoot back for good". Two reads of one batch put back each other's. *)
BackForGood == ~Busy => root = LastRoot
=============================================================================
