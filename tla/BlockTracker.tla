---------------------------- MODULE BlockTracker ----------------------------
(***************************************************************************)
(* lib/block_tracker.js over the chain: the tracker listens to the event   *)
(* "block" that blockchain_double.js emits when a block is stored, and     *)
(* passes on the blocks whose hash differs from the last one it saw.       *)
(* popBlock emits nothing.  Subscriptions.tla and BlockFilters.tla build   *)
(* on this module.                                                         *)
(*                                                                         *)
(* A block's hash tells its contents and its ancestors apart and nothing   *)
(* else, so it is the sequence of contents from the first block above      *)
(* genesis up to this one, and genesis is the empty sequence.  A block     *)
(* mined again with the same contents (time included) after a revert has   *)
(* the hash it had.  The process starts over an empty database, so that    *)
(* the tracker has seen genesis.                                           *)
(***************************************************************************)
EXTENDS Naturals, Sequences

CONSTANTS
  Contents,          \* what tells blocks at one height apart: transactions, time
  MaxStored          \* bound: blocks stored in all

ASSUME MaxStoredAssumption == MaxStored \in Nat

VARIABLES
  chain,             \* the contents of the blocks above genesis
  currentBlock,      \* tracker._currentBlock: its hash
  stored,            \* history: the hashes of the blocks stored, in order
  announced          \* history: the hashes the tracker passed on, in order

trackerVars == <<chain, currentBlock, stored, announced>>

Genesis == <<>>
Hashes == Seq(Contents)
HashAt(number) == SubSeq(chain, 1, number)

TrackerInit ==
  /\ chain = <<>>
  /\ currentBlock = Genesis
  /\ stored = <<>>
  /\ announced = <<>>
-----------------------------------------------------------------------------
(* A mutant: a block of a height seen before is not passed on. *)
IsNews_ByNumber(hash) == Len(hash) > Len(currentBlock)

(* _setCurrentBlock returns early when the hash is that of the last block seen. *)
IsNews(hash) == hash # currentBlock

setCurrentBlock(hash) ==
  IF IsNews(hash)
    THEN /\ currentBlock' = hash
         /\ announced' = Append(announced, hash)
    ELSE UNCHANGED <<currentBlock, announced>>

(* putBlock: the block goes to the end of the chain and the event is emitted. *)
putBlock(content) ==
  /\ Len(stored) < MaxStored
  /\ chain' = Append(chain, content)
  /\ stored' = Append(stored, chain')
  /\ setCurrentBlock(chain')

(* popBlock, over and over: svm_revert to a snapshot of that height. *)
popTo(height) ==
  /\ height < Len(chain)
  /\ chain' = HashAt(height)
  /\ UNCHANGED <<currentBlock, stored, announced>>
-----------------------------------------------------------------------------
TrackerTypeOK ==
  /\ chain \in Hashes
  /\ currentBlock \in Hashes
  /\ stored \in Seq(Hashes)
  /\ announced \in Seq(Hashes)

(* The positions of the stored blocks that differ from the block stored before. *)
FirstOfRun == {i \in DOMAIN stored : stored[i] # IF i = 1 THEN Genesis ELSE stored[i - 1]}

(* block_tracker.js hears of every block: it passes on each one stored, in order, but for
   one stored again right after itself, and it knows the last one stored, whatever
   reverts came between. *)
TrackerFollows ==
  /\ currentBlock = IF stored = <<>> THEN Genesis ELSE stored[Len(stored)]
  /\ \E at \in [DOMAIN announced -> FirstOfRun] :
       /\ \A i, j \in DOMAIN announced : i < j => at[i] < at[j]
       /\ {at[i] : i \in DOMAIN announced} = FirstOfRun
       /\ \A i \in DOMAIN announced : announced[i] = stored[at[i]]
=============================================================================
