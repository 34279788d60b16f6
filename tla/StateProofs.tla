------------------------------ MODULE StateProofs ------------------------------
(***************************************************************************)
(* Theorems about what is read of the state and of the chain: of StateTrie *)
(* first, then of ForkedChain.                                             *)
(*                                                                         *)
(* StateTrie, for any number of reads and of blocks.  TrieInv adds to the  *)
(* properties what the reads under way hold (InHand) and, for as long as   *)
(* nothing overlapped, that only one of them moves the root and knows the  *)
(* way back (OneAtATime, WayBack).                                         *)
(*                                                                         *)
(* ForkedChain, for any values and any number of blocks on both nodes: the *)
(* chain across the fork is continuous under every number and every hash.  *)
(* It follows from where the local blocks stand and what they name as      *)
(* their parents, which mining and popping keep.  What accounts and slots  *)
(* read as follows from RootTells, which says of each block what its root  *)
(* has and lacks.                                                          *)
(***************************************************************************)
EXTENDS StateTrie, ForkedChain, SequenceTheorems, TLAPS

Value(kind, r) == IF kind = "getStorage" THEN Storage(r) ELSE r

(* A block is begun only when there is room for it. *)
Room == block # "none" => Len(stateRoots) < MaxBlocks

(* Every read under way reads under the root of its block, or in that of its account. *)
InHand ==
  \A c \in Calls :
    /\ calls[c].stage = "account" => calls[c].reading = stateRoots[calls[c].number]
    /\ calls[c].stage = "value" =>
         calls[c].reading = Value(calls[c].kind, stateRoots[calls[c].number])

OneAtATime ==
  /\ \A c, d \in Calls : calls[c].stage # "idle" /\ calls[d].stage # "idle" => c = d
  /\ \A c \in Calls : calls[c].stage # "idle" => block = "none"

Moved(c) == calls[c].stage \in {"account", "value"}

WayBack ==
  /\ \A c \in Calls : Moved(c) => calls[c].saved = LastRoot
  /\ block = "none" /\ (\A c \in Calls : ~Moved(c)) => root = LastRoot
  /\ block = "running" => root = LastRoot /\ checkpoint = LastRoot
  /\ block = "run" => root = With(LastRoot, Len(stateRoots))

Serial == ~overlapped => OneAtATime /\ WayBack

Correct == TypeOK /\ Room /\ InHand /\ ReadsAreRight
TrieInv == Correct /\ Serial /\ BlocksKeepTheirState
-----------------------------------------------------------------------------
LEMMA RootTypes ==
  /\ GenesisRoot \in Roots
  /\ \A r \in Roots : Storage(r) \in Roots
  /\ \A r \in Roots, n \in Nat : With(r, n) \in Roots
<1>1. GenesisRoot \in Roots
  BY DEF Roots, GenesisRoot, State
<1>2. \A r \in Roots : Storage(r) \in Roots
  BY DEF Roots, Storage
<1>3. \A r \in Roots, n \in Nat : With(r, n) \in Roots
  BY DEF Roots, With
<1> QED
  BY <1>1, <1>2, <1>3

LEMMA InitCorrect == TrieInit => Correct
<1> SUFFICES ASSUME TrieInit PROVE Correct
  OBVIOUS
<1>1. TypeOK
  <2>1. stateRoots \in Seq(Roots) /\ Len(stateRoots) \in 1..MaxBlocks /\ 1 \in DOMAIN stateRoots
    BY RootTypes, BlocksAssumption DEF TrieInit
  <2>2. Idle \in [stage : Stages, kind : Kinds, number : DOMAIN stateRoots, saved : Roots,
                  reading : Roots]
    BY <2>1, RootTypes DEF Idle, Read, Kinds, Stages
  <2> QED
    BY <2>1, <2>2, RootTypes DEF TrieInit, TypeOK, Kinds
<1>2. InHand
  BY DEF TrieInit, InHand, Idle, Read
<1>3. ReadsAreRight
  BY DEF TrieInit, ReadsAreRight
<1> QED
  BY <1>1, <1>2, <1>3 DEF Correct, TrieInit, Room

(* The next-state relation, one disjunct per action. *)
LEMMA Actions ==
  ASSUME TrieNext
  PROVE \/ \E c \in Calls, kind \in Kinds : call(c, kind)
        \/ \E c \in Calls : blockFound(c)
        \/ \E c \in Calls : blockMissing(c)
        \/ \E c \in Calls : accountRead(c)
        \/ \E c \in Calls : valueRead(c)
        \/ \E c \in Calls : readFails(c)
        \/ processBlock \/ blockRun \/ runFails \/ putBlock
BY DEF TrieNext

LEMMA TypeStep == TypeOK /\ Room /\ [TrieNext]_trieVars => TypeOK'
<1> SUFFICES ASSUME TypeOK, Room, [TrieNext]_trieVars PROVE TypeOK'
  OBVIOUS
<1> USE DEF TypeOK, Read
<1>1. ASSUME NEW c \in Calls, NEW kind \in Kinds, call(c, kind) PROVE TypeOK'
  BY <1>1, RootTypes DEF call, Stages
<1>2. ASSUME NEW c \in Calls, blockFound(c) PROVE TypeOK'
  BY <1>2 DEF blockFound, Stages
<1>3. ASSUME NEW c \in Calls, blockMissing(c) PROVE TypeOK'
  BY <1>3, RootTypes DEF blockMissing, Idle, Stages, Kinds
<1>4. ASSUME NEW c \in Calls, accountRead(c) PROVE TypeOK'
  <2>1. CASE StorageRead(c)
    BY <1>4, <2>1, RootTypes DEF accountRead, StorageRead, Stages
  <2>2. CASE CodeRead(c)
    BY <1>4, <2>2 DEF accountRead, CodeRead, Stages
  <2>3. CASE Finish(c)
    BY <1>4, <2>3, RootTypes DEF accountRead, Finish, Idle, Stages, Kinds
  <2> QED
    BY <1>4, <2>1, <2>2, <2>3 DEF accountRead
<1>5. ASSUME NEW c \in Calls, valueRead(c) PROVE TypeOK'
  BY <1>5, RootTypes DEF valueRead, Finish, Idle, Stages, Kinds
<1>6. ASSUME NEW c \in Calls, readFails(c) PROVE TypeOK'
  BY <1>6, RootTypes DEF readFails, Fail, Idle, Stages, Kinds
<1>7. CASE processBlock
  BY <1>7 DEF processBlock
<1>8. CASE blockRun
  BY <1>8, RootTypes DEF blockRun
<1>9. CASE runFails
  BY <1>9, RootTypes DEF runFails
<1>10. CASE putBlock
  <2>1. stateRoots' \in Seq(Roots) /\ Len(stateRoots') = Len(stateRoots) + 1
    BY <1>10 DEF putBlock
  <2>2. Len(stateRoots') \in 1..MaxBlocks
    BY <1>10, <2>1, BlocksAssumption DEF putBlock, Room
  <2>3. DOMAIN stateRoots \subseteq DOMAIN stateRoots'
    BY <2>1
  <2> QED
    BY <1>10, <2>1, <2>2, <2>3, RootTypes DEF putBlock
<1>11. CASE UNCHANGED trieVars
  BY <1>11 DEF trieVars
<1> QED
  BY <1>1, <1>2, <1>3, <1>4, <1>5, <1>6, <1>7, <1>8, <1>9, <1>10, <1>11, Actions

LEMMA RoomStep == TypeOK /\ Room /\ [TrieNext]_trieVars => Room'
<1> SUFFICES ASSUME TypeOK, Room, [TrieNext]_trieVars PROVE Room'
  OBVIOUS
<1>1. CASE processBlock
  BY <1>1 DEF processBlock, Room
<1>2. CASE blockRun
  BY <1>2 DEF blockRun, Room
<1>3. CASE runFails \/ putBlock
  BY <1>3 DEF runFails, putBlock, Room
<1>4. CASE UNCHANGED <<block, stateRoots>>
  BY <1>4 DEF Room
<1>5. ASSUME NEW c \in Calls, accountRead(c) PROVE UNCHANGED <<block, stateRoots>>
  BY <1>5 DEF accountRead
<1> QED
  BY <1>1, <1>2, <1>3, <1>4, <1>5, Actions
     DEF call, blockFound, blockMissing, valueRead, readFails, trieVars

(* What a step does to one read, whichever action it is of whichever read. *)
LEMMA ReadStep ==
  ASSUME TypeOK, InHand, [TrieNext]_trieVars, NEW d \in Calls
  PROVE \/ calls'[d] = calls[d]
        \/ calls'[d].stage \in {"idle", "getBlock"}
        \/ /\ calls'[d].stage = "account"
           /\ calls'[d].number \in DOMAIN stateRoots
           /\ calls'[d].reading = stateRoots[calls'[d].number]
        \/ /\ calls'[d].stage = "value"
           /\ calls'[d].number \in DOMAIN stateRoots
           /\ calls'[d].reading = Value(calls'[d].kind, stateRoots[calls'[d].number])
<1> USE DEF TypeOK, Read
<1>1. ASSUME NEW c \in Calls, NEW kind \in Kinds, call(c, kind) PROVE calls'[d] = calls[d] \/ calls'[d].stage = "getBlock"
  BY <1>1 DEF call, Idle
<1>2. ASSUME NEW c \in Calls, blockFound(c)
      PROVE \/ calls'[d] = calls[d]
            \/ /\ calls'[d].stage = "account"
               /\ calls'[d].number \in DOMAIN stateRoots
               /\ calls'[d].reading = stateRoots[calls'[d].number]
  BY <1>2 DEF blockFound
<1>3. ASSUME NEW c \in Calls, blockMissing(c) PROVE calls'[d] = calls[d] \/ calls'[d].stage = "idle"
  BY <1>3 DEF blockMissing, Idle
<1>4. ASSUME NEW c \in Calls, accountRead(c)
      PROVE \/ calls'[d] = calls[d] \/ calls'[d].stage = "idle"
            \/ /\ calls'[d].stage = "value"
               /\ calls'[d].number \in DOMAIN stateRoots
               /\ calls'[d].reading = Value(calls'[d].kind, stateRoots[calls'[d].number])
  <2>1. CASE StorageRead(c)
    BY <1>4, <2>1 DEF accountRead, StorageRead, InHand, Value
  <2>2. CASE CodeRead(c)
    BY <1>4, <2>2 DEF accountRead, CodeRead, InHand, Value
  <2>3. CASE Finish(c)
    BY <1>4, <2>3 DEF accountRead, Finish, Idle
  <2> QED
    BY <1>4, <2>1, <2>2, <2>3 DEF accountRead
<1>5. ASSUME NEW c \in Calls, valueRead(c) \/ readFails(c) PROVE calls'[d] = calls[d] \/ calls'[d].stage = "idle"
  BY <1>5 DEF valueRead, readFails, Finish, Fail, Idle
<1>6. CASE processBlock \/ blockRun \/ runFails \/ putBlock \/ UNCHANGED trieVars
  BY <1>6 DEF processBlock, blockRun, runFails, putBlock, trieVars
<1> QED
  BY <1>1, <1>2, <1>3, <1>4, <1>5, <1>6, Actions

(* The roots of the blocks on the chain stay what they are. *)
LEMMA RootsStay ==
  ASSUME TypeOK, [TrieNext]_trieVars
  PROVE /\ DOMAIN stateRoots \subseteq DOMAIN stateRoots'
        /\ \A n \in DOMAIN stateRoots : stateRoots'[n] = stateRoots[n]
<1>1. CASE putBlock
  BY <1>1 DEF putBlock, TypeOK
<1>2. CASE UNCHANGED stateRoots
  BY <1>2
<1>3. ASSUME NEW c \in Calls, accountRead(c) PROVE UNCHANGED stateRoots
  BY <1>3 DEF accountRead
<1> QED
  BY <1>1, <1>2, <1>3, Actions
     DEF call, blockFound, blockMissing, valueRead, readFails, processBlock, blockRun, runFails, trieVars

LEMMA InHandStep == TypeOK /\ InHand /\ [TrieNext]_trieVars => InHand'
<1> SUFFICES ASSUME TypeOK, InHand, [TrieNext]_trieVars, NEW d \in Calls
             PROVE /\ calls'[d].stage = "account" => calls'[d].reading = stateRoots'[calls'[d].number]
                   /\ calls'[d].stage = "value" =>
                        calls'[d].reading = Value(calls'[d].kind, stateRoots'[calls'[d].number])
  BY DEF InHand, Value, Storage
<1>1. calls[d].number \in DOMAIN stateRoots
  BY DEF TypeOK
<1> QED
  BY <1>1, ReadStep, RootsStay DEF InHand

LEMMA AnswerStep == TypeOK /\ InHand /\ ReadsAreRight /\ [TrieNext]_trieVars => ReadsAreRight'
<1> SUFFICES ASSUME TypeOK, InHand, ReadsAreRight, [TrieNext]_trieVars PROVE ReadsAreRight'
  OBVIOUS
<1>1. CASE UNCHANGED answer
  BY <1>1, RootsStay DEF ReadsAreRight, TypeOK, Storage
<1>2. ASSUME NEW c \in Calls, Finish(c), UNCHANGED stateRoots,
             calls[c].stage = "account", calls[c].kind # "getStorage"
      PROVE ReadsAreRight'
  BY <1>2 DEF Finish, ReadsAreRight, InHand, Value, Storage
<1>3. ASSUME NEW c \in Calls, accountRead(c) PROVE UNCHANGED answer \/ ReadsAreRight'
  BY <1>2, <1>3 DEF accountRead, StorageRead, CodeRead
<1>4. ASSUME NEW c \in Calls, valueRead(c) PROVE ReadsAreRight'
  <2>1. Finish(c)
    BY <1>4 DEF valueRead
  <2>2. stateRoots' = stateRoots
    BY <1>4 DEF valueRead
  <2>3. calls[c].stage = "value"
    BY <1>4 DEF valueRead
  <2> QED
    BY <2>1, <2>2, <2>3 DEF Finish, ReadsAreRight, InHand, Value, Storage
<1>5. ASSUME NEW c \in Calls, readFails(c) PROVE UNCHANGED answer
  BY <1>5 DEF readFails, Fail
<1> QED
  BY <1>1, <1>3, <1>4, <1>5, Actions
     DEF call, blockFound, blockMissing, processBlock, blockRun, runFails, putBlock, trieVars

LEMMA CorrectStep == Correct /\ [TrieNext]_trieVars => Correct'
BY TypeStep, RoomStep, InHandStep, AnswerStep DEF Correct

-----------------------------------------------------------------------------
LEMMA InitSerial == TrieInit => Serial /\ BlocksKeepTheirState
<1> SUFFICES ASSUME TrieInit PROVE Serial /\ BlocksKeepTheirState
  OBVIOUS
<1>1. Serial
  BY DEF TrieInit, Serial, OneAtATime, WayBack, Moved, LastRoot, Idle, Read
<1>2. BlocksKeepTheirState
  <2>1. \A n \in DOMAIN stateRoots : n = 1
    BY DEF TrieInit
  <2>2. [i \in 1..(1 - 1) |-> i] = <<>>
    OBVIOUS
  <2> QED
    BY <2>1, <2>2 DEF TrieInit, BlocksKeepTheirState, GenesisRoot
<1> QED
  BY <1>1, <1>2

LEMMA OverlapStays == TypeOK /\ [TrieNext]_trieVars /\ ~overlapped' => ~overlapped
<1> SUFFICES ASSUME TypeOK, [TrieNext]_trieVars, ~overlapped' PROVE ~overlapped
  OBVIOUS
<1>1. ASSUME NEW c \in Calls, accountRead(c) PROVE overlapped' = overlapped
  BY <1>1 DEF accountRead
<1>2. ASSUME NEW c \in Calls, NEW kind \in Kinds, call(c, kind) PROVE ~overlapped
  BY <1>2 DEF call
<1>3. CASE processBlock
  BY <1>3 DEF processBlock
<1> QED
  BY <1>1, <1>2, <1>3, Actions
     DEF blockFound, blockMissing, valueRead, readFails, blockRun, runFails, putBlock, trieVars

LEMMA SerialStep == TypeOK /\ Serial /\ [TrieNext]_trieVars => Serial'
<1> SUFFICES ASSUME TypeOK, Serial, [TrieNext]_trieVars, ~overlapped' PROVE OneAtATime' /\ WayBack'
  BY DEF Serial
<1>0. OneAtATime /\ WayBack
  BY OverlapStays DEF Serial
<1> USE DEF Moved, Read, LastRoot
<1>1. ASSUME NEW c \in Calls, NEW kind \in Kinds, call(c, kind) PROVE OneAtATime' /\ WayBack'
  <2>1. block = "none" /\ \A d \in Calls : calls[d].stage = "idle"
    BY <1>1 DEF call, Busy
  <2> QED
    BY <1>0, <1>1, <2>1 DEF call, OneAtATime, WayBack, TypeOK
<1>2. ASSUME NEW c \in Calls, calls[c].stage # "idle"
      PROVE block = "none" /\ \A d \in Calls : d # c => calls[d].stage = "idle"
  BY <1>0, <1>2 DEF OneAtATime
<1>3. ASSUME NEW c \in Calls, blockFound(c) PROVE OneAtATime' /\ WayBack'
  <2>1. root = stateRoots[Len(stateRoots)]
    BY <1>0, <1>2, <1>3 DEF blockFound, WayBack
  <2> QED
    BY <1>0, <1>2, <1>3, <2>1 DEF blockFound, OneAtATime, WayBack, TypeOK
<1>4. ASSUME NEW c \in Calls, blockMissing(c) PROVE OneAtATime' /\ WayBack'
  <2>1. root = stateRoots[Len(stateRoots)]
    BY <1>0, <1>2, <1>4 DEF blockMissing, WayBack
  <2> QED
    BY <1>0, <1>2, <1>4, <2>1 DEF blockMissing, OneAtATime, WayBack, TypeOK, Idle
<1>5. ASSUME NEW c \in Calls, Moved(c), root' = calls[c].saved, calls' = [calls EXCEPT ![c] = Idle],
             UNCHANGED <<stateRoots, block, checkpoint>>
      PROVE OneAtATime' /\ WayBack'
  BY <1>0, <1>2, <1>5 DEF OneAtATime, WayBack, TypeOK, Idle
<1>6. ASSUME NEW c \in Calls, accountRead(c) PROVE OneAtATime' /\ WayBack'
  <2>1. CASE StorageRead(c) \/ CodeRead(c)
    BY <1>0, <1>2, <1>6, <2>1 DEF accountRead, StorageRead, CodeRead, OneAtATime, WayBack, TypeOK
  <2>2. CASE Finish(c)
    BY <1>5, <1>6, <2>2 DEF accountRead, Finish
  <2> QED
    BY <1>6, <2>1, <2>2 DEF accountRead
<1>7. ASSUME NEW c \in Calls, valueRead(c) \/ readFails(c) PROVE OneAtATime' /\ WayBack'
  BY <1>5, <1>7 DEF valueRead, readFails, Finish, Fail
<1>8. CASE processBlock
  <2>1. \A d \in Calls : calls[d].stage = "idle"
    BY <1>8 DEF processBlock, Busy
  <2> QED
    BY <1>0, <1>8, <2>1 DEF processBlock, OneAtATime, WayBack
<1>9. CASE blockRun
  BY <1>0, <1>9 DEF blockRun, OneAtATime, WayBack
<1>10. CASE runFails
  BY <1>0, <1>10 DEF runFails, OneAtATime, WayBack
<1>11. CASE putBlock
  BY <1>0, <1>11 DEF putBlock, OneAtATime, WayBack, TypeOK
<1>12. CASE UNCHANGED trieVars
  BY <1>0, <1>12 DEF trieVars, OneAtATime, WayBack
<1> QED
  BY <1>1, <1>3, <1>4, <1>6, <1>7, <1>8, <1>9, <1>10, <1>11, <1>12, Actions

LEMMA OneMore ==
  ASSUME NEW n \in Nat
  PROVE Append([i \in 1..n |-> i], n + 1) = [i \in 1..(n + 1) |-> i]
<1>1. [i \in 1..n |-> i] \in Seq(Nat)
  OBVIOUS
<1> QED
  BY <1>1

LEMMA BlocksKeepStep ==
  TypeOK /\ Serial /\ BlocksKeepTheirState /\ [TrieNext]_trieVars => BlocksKeepTheirState'
<1> SUFFICES ASSUME TypeOK, Serial, BlocksKeepTheirState, [TrieNext]_trieVars, ~overlapped',
                    NEW n \in DOMAIN stateRoots'
             PROVE stateRoots'[n] = State([i \in 1..(n - 1) |-> i])
  BY DEF BlocksKeepTheirState
<1>1. CASE n \in DOMAIN stateRoots
  BY <1>1, OverlapStays, RootsStay DEF BlocksKeepTheirState
<1>2. CASE n \notin DOMAIN stateRoots
  <2>1. putBlock
    <3>1. ASSUME NEW c \in Calls, accountRead(c) PROVE UNCHANGED stateRoots
      BY <3>1 DEF accountRead
    <3> QED
      BY <1>2, <3>1, Actions
         DEF call, blockFound, blockMissing, valueRead, readFails, processBlock, blockRun, runFails, trieVars
  <2> DEFINE last == Len(stateRoots)
  <2>2. last \in Nat \ {0} /\ n = last + 1 /\ stateRoots'[n] = root
    BY <1>2, <2>1 DEF putBlock, TypeOK
  <2>3. root = With(stateRoots[last], last)
    BY <2>1, OverlapStays DEF Serial, WayBack, LastRoot, putBlock
  <2>4. stateRoots[last] = State([i \in 1..(last - 1) |-> i])
    BY <2>2, OverlapStays DEF BlocksKeepTheirState, TypeOK
  <2>5. Append([i \in 1..(last - 1) |-> i], last) = [i \in 1..last |-> i]
    <3>1. last - 1 \in Nat /\ (last - 1) + 1 = last
      BY <2>2
    <3> QED
      BY <3>1, OneMore
  <2> QED
    <3>1. root = [trie |-> "state", blocks |-> Append([i \in 1..(last - 1) |-> i], last)]
      BY <2>3, <2>4 DEF With, State
    <3>2. n - 1 = last
      BY <2>2
    <3> QED
      BY <2>2, <2>5, <3>1, <3>2 DEF State
<1> QED
  BY <1>1, <1>2

(* The inductive invariant, from which the theorems below follow. *)
THEOREM TrieInvariant == TrieSpec => []TrieInv
<1>1. TrieInit => TrieInv
  BY InitCorrect, InitSerial DEF TrieInv
<1>2. TrieInv /\ [TrieNext]_trieVars => TrieInv'
  BY CorrectStep, SerialStep, BlocksKeepStep DEF TrieInv, Correct
<1> QED
  BY <1>1, <1>2, PTL DEF TrieSpec

(* Every variable of the trie's readers and writer keeps its type. *)
THEOREM StateTrieTypes == TrieSpec => []TypeOK
BY TrieInvariant, PTL DEF TrieInv, Correct

(* However many reads and blocks overlap, a read answers from the state of its own block. *)
THEOREM ReadsAnswerRight == TrieSpec => []ReadsAreRight
BY TrieInvariant, PTL DEF TrieInv, Correct

(* Where requests are served one after the other, the root is back at the last block's after
   every read and every block, after failed ones too. *)
THEOREM RootComesBack == TrieSpec => []RootBack
<1>1. TrieInv => RootBack
  BY DEF TrieInv, Serial, WayBack, Moved, RootBack, Busy
<1> QED
  BY <1>1, TrieInvariant, PTL

(* There, no read can leave a mark in the chain: the root of every block is that of its
   parent with the block's own changes. *)
THEOREM BlocksKeepState == TrieSpec => []BlocksKeepTheirState
BY TrieInvariant, PTL DEF TrieInv
-------------------------------------------------------------------------------
(* The forked chain. *)
ForkedRoots == [account : 0..Absent, slot : 0..Absent]
BlockType == [number : Nat, parent : {Remote(n) : n \in Nat} \cup {Local(n) : n \in Nat},
              stateRoot : ForkedRoots, state : States]

(* The types, and the block of the fork is one that the other node has. *)
Types ==
  /\ remote \in Seq(States)
  /\ forkBlockNumber \in 0..RemoteHeight
  /\ blocks \in Seq(BlockType) /\ blocks # <<>>

(* The local blocks are numbered from the one after the block of the fork, and each names
   the one before it. *)
BlocksInLine ==
  \A i \in DOMAIN blocks :
    /\ blocks[i].number = forkBlockNumber + i
    /\ blocks[i].parent = IF i = 1 THEN Remote(forkBlockNumber) ELSE Local(forkBlockNumber + i - 1)

ChainInv == Types /\ BlocksInLine

(* What Types and BlocksInLine say of lengths and numbers. *)
LEMMA Lengths ==
  ASSUME ChainInv
  PROVE  /\ Len(blocks) \in Nat \ {0} /\ DOMAIN blocks = 1..Len(blocks)
         /\ Len(remote) \in Nat \ {0} /\ RemoteHeight \in Nat
         /\ forkBlockNumber \in Nat /\ forkBlockNumber <= RemoteHeight
         /\ getHeight = forkBlockNumber + Len(blocks)
         /\ \A i \in 1..Len(blocks) : blocks[i] \in BlockType
<1>1. /\ Len(blocks) \in Nat \ {0} /\ DOMAIN blocks = 1..Len(blocks)
      /\ \A i \in 1..Len(blocks) : blocks[i] \in BlockType
  BY EmptySeq, LenProperties, ElementOfSeq DEF ChainInv, Types
<1>2. Len(remote) \in Nat
  BY LenProperties DEF ChainInv, Types
<1>3. forkBlockNumber \in 0..(Len(remote) - 1)
  BY DEF ChainInv, Types, RemoteHeight
<1>4. getHeight = forkBlockNumber + Len(blocks)
  BY <1>1 DEF ChainInv, BlocksInLine, getHeight, latestBlock
<1> QED
  BY <1>1, <1>2, <1>3, <1>4 DEF RemoteHeight

LEMMA InitialInvariant ==
  ASSUME Init
  PROVE  ChainInv
<1>1. PICK s \in States, t \in States : remote = <<s, t>>
  BY DEF Init
<1>2. remote \in Seq(States) /\ Len(remote) = 2
  BY <1>1
<1>3. forkBlockNumber \in {0, 1} /\ forkBlockNumber + 1 \in {1, 2}
  BY <1>2 DEF Init, RemoteHeight
<1>4. AtRemote(forkBlockNumber) \in States
  BY <1>1, <1>3 DEF AtRemote
<1>5. Absent \in 0..Absent
  BY BoundsAssumption DEF Absent
<1>6. Genesis \in BlockType
  BY <1>3, <1>4, <1>5 DEF Genesis, BlockType, ForkedRoots
<1>7. blocks = <<Genesis>> /\ blocks \in Seq(BlockType) /\ blocks # <<>> /\ DOMAIN blocks = {1} /\ blocks[1] = Genesis
  BY <1>6 DEF Init
<1> QED
  BY <1>2, <1>3, <1>7 DEF ChainInv, Types, BlocksInLine, Genesis, Init

(* Mining puts a block at the end of the line. *)
LEMMA MineStep ==
  ASSUME ChainInv, NEW written \in ForkedRoots, NEW state \in States, Mine(written, state)
  PROVE  ChainInv'
<1> DEFINE mined == [number |-> latestBlock.number + 1, parent |-> Local(latestBlock.number),
                     stateRoot |-> written, state |-> state]
<1>1. latestBlock.number = forkBlockNumber + Len(blocks) /\ latestBlock.number \in Nat
  BY Lengths DEF getHeight
<1>2. mined \in BlockType
  BY <1>1 DEF BlockType
<1>3. blocks' = Append(blocks, mined) /\ UNCHANGED <<remote, forkBlockNumber>>
  BY DEF Mine
<1>4. /\ blocks' \in Seq(BlockType) /\ blocks' # <<>>
      /\ DOMAIN blocks' = 1..(Len(blocks) + 1)
      /\ blocks'[Len(blocks) + 1] = mined
      /\ \A i \in 1..Len(blocks) : blocks'[i] = blocks[i]
  BY <1>2, <1>3, AppendProperties, LenProperties, EmptySeq DEF ChainInv, Types
<1>5. Types'
  BY <1>3, <1>4 DEF ChainInv, Types, RemoteHeight
<1>6. ASSUME NEW i \in DOMAIN blocks'
      PROVE  /\ blocks'[i].number = forkBlockNumber' + i
             /\ blocks'[i].parent = IF i = 1 THEN Remote(forkBlockNumber') ELSE Local(forkBlockNumber' + i - 1)
  <2>1. CASE i = Len(blocks) + 1
    <3>1. /\ i # 1 /\ forkBlockNumber' + i = latestBlock.number + 1
          /\ forkBlockNumber' + i - 1 = latestBlock.number
      <4>1. /\ Len(blocks) \in Nat \ {0} /\ forkBlockNumber \in Nat /\ forkBlockNumber' = forkBlockNumber
            /\ latestBlock.number = forkBlockNumber + Len(blocks)
        BY <1>1, <1>3, Lengths
      <4> HIDE DEF mined
      <4> QED
        BY <2>1, <4>1
    <3>2. blocks'[i].number = latestBlock.number + 1 /\ blocks'[i].parent = Local(latestBlock.number)
      BY <2>1, <1>4
    <3> QED
      BY <3>1, <3>2
  <2>2. CASE i \in 1..Len(blocks)
    BY <2>2, <1>3, <1>4, Lengths DEF ChainInv, BlocksInLine, Remote, Local
  <2> QED
    BY <2>1, <2>2, <1>4, Lengths
<1> QED
  BY <1>5, <1>6 DEF ChainInv, BlocksInLine

LEMMA LatestIsTyped ==
  ASSUME ChainInv
  PROVE  latestBlock.stateRoot \in ForkedRoots /\ latestBlock.state \in States
  BY Lengths DEF latestBlock, BlockType

LEMMA NextInvariant ==
  ASSUME ChainInv, [Next]_vars
  PROVE  ChainInv'
<1> USE DEF Values
<1>0. Absent \in 0..Absent /\ Values \subseteq 0..Absent /\ 0 \in Values
  BY BoundsAssumption DEF Absent
<1>1. CASE remoteMines
  <2>1. PICK s \in States : remote' = Append(remote, s)
    BY <1>1 DEF remoteMines
  <2>2. remote' \in Seq(States) /\ Len(remote') = Len(remote) + 1
    BY <2>1, AppendProperties DEF ChainInv, Types
  <2> QED
    BY <1>1, <2>2, Lengths DEF remoteMines, ChainInv, Types, BlocksInLine, RemoteHeight
<1>2. CASE transact
  <2>1. PICK account \in Values \ {0} :
          \/ Mine([latestBlock.stateRoot EXCEPT !.account = account],
                  [latestBlock.state EXCEPT !.account = account])
          \/ \E slot \in Values :
               Mine([account |-> account, slot |-> IF slot = 0 THEN Absent ELSE slot],
                    [account |-> account, slot |-> slot])
    BY <1>2 DEF transact
  <2>2. CASE Mine([latestBlock.stateRoot EXCEPT !.account = account],
                  [latestBlock.state EXCEPT !.account = account])
    <3>1. [latestBlock.stateRoot EXCEPT !.account = account] \in ForkedRoots
      BY <1>0, LatestIsTyped DEF ForkedRoots
    <3>2. [latestBlock.state EXCEPT !.account = account] \in States
      BY LatestIsTyped DEF States
    <3> QED
      BY <2>2, <3>1, <3>2, MineStep
  <2>3. CASE \E slot \in Values :
               Mine([account |-> account, slot |-> IF slot = 0 THEN Absent ELSE slot],
                    [account |-> account, slot |-> slot])
    <3>1. PICK slot \in Values :
            Mine([account |-> account, slot |-> IF slot = 0 THEN Absent ELSE slot],
                 [account |-> account, slot |-> slot])
      BY <2>3
    <3>2. [account |-> account, slot |-> IF slot = 0 THEN Absent ELSE slot] \in ForkedRoots
      BY <1>0 DEF ForkedRoots
    <3>3. [account |-> account, slot |-> slot] \in States
      BY DEF States
    <3> QED
      BY <3>1, <3>2, <3>3, MineStep
  <2> QED
    BY <2>1, <2>2, <2>3
<1>3. CASE destroy
  <2>1. [account |-> Absent, slot |-> Absent] \in ForkedRoots
    BY <1>0 DEF ForkedRoots
  <2>2. [account |-> 0, slot |-> 0] \in States
    BY <1>0 DEF States
  <2> QED
    BY <1>3, <2>1, <2>2, MineStep DEF destroy
<1>4. CASE mineEmpty
  BY <1>4, MineStep, LatestIsTyped DEF mineEmpty
<1>5. CASE popBlock
  <2>1. blocks' = SubSeq(blocks, 1, Len(blocks) - 1) /\ Len(blocks) > 1
        /\ UNCHANGED <<remote, forkBlockNumber>>
    BY <1>5 DEF popBlock
  <2>2. /\ blocks' \in Seq(BlockType) /\ Len(blocks') = Len(blocks) - 1
        /\ \A i \in 1..(Len(blocks) - 1) : blocks'[i] = blocks[i]
    BY <2>1, Lengths, SubSeqProperties DEF ChainInv, Types
  <2>3. DOMAIN blocks' = 1..(Len(blocks) - 1) /\ blocks' # <<>>
    <3>1. DOMAIN blocks' = 1..Len(blocks')
      BY <2>2, LenProperties
    <3>2. Len(blocks') > 0
      BY <2>1, <2>2, Lengths
    <3>3. blocks' # <<>>
      BY <3>2
    <3> QED
      BY <2>2, <3>1, <3>3
  <2> QED
    BY <2>1, <2>2, <2>3, Lengths DEF ChainInv, Types, BlocksInLine, RemoteHeight
<1>6. CASE UNCHANGED vars
  BY <1>6 DEF vars, ChainInv, Types, BlocksInLine, RemoteHeight
<1> QED
  BY <1>1, <1>2, <1>3, <1>4, <1>5, <1>6 DEF Next

(* Up to the fork every number finds the other node's block, *)
LEMMA BeforeFork ==
  ASSUME ChainInv, NEW n \in 0..forkBlockNumber
  PROVE  /\ getBlock(n) = Remote(n) /\ getBlockByHash(Remote(n)) = Remote(n)
         /\ getBlockLogs(n) = Remote(n)
<1>1. n \in 0..RemoteHeight /\ n <= forkBlockNumber /\ n - forkBlockNumber - 1 < 0
  BY Lengths
<1>2. \A i \in DOMAIN blocks : Remote(n) # Local(blocks[i].number)
  BY DEF Remote, Local
<1> QED
  BY <1>1, <1>2 DEF getBlock, isFallbackBlock, getFallbackBlock, getBlockByHash, getBlockLogs,
                    getRelativeBlockNumber, Remote

(* and after it the local one. *)
LEMMA AfterFork ==
  ASSUME ChainInv, NEW i \in DOMAIN blocks
  PROVE  LET n == forkBlockNumber + i IN
         /\ blocks[i].number = n
         /\ getBlock(n) = Local(n) /\ getBlockByHash(Local(n)) = Local(n)
         /\ getBlockLogs(n) = Local(n)
         /\ getRelativeBlockNumber(n) + 1 = i
<1> DEFINE n == forkBlockNumber + i
<1>1. blocks[i].number = n
  BY DEF ChainInv, BlocksInLine
<1>2. i \in Nat /\ i >= 1 /\ forkBlockNumber \in Nat
  BY Lengths
<1>3. getRelativeBlockNumber(n) = i - 1 /\ ~(n <= forkBlockNumber) /\ ~(i - 1 < 0) /\ (i - 1) + 1 = i
  BY <1>2 DEF getRelativeBlockNumber
<1>4. BlockAt(i - 1) = Local(n)
  BY <1>1, <1>3 DEF BlockAt
<1> QED
  BY <1>1, <1>3, <1>4 DEF getBlock, isFallbackBlock, getBlockByHash, getBlockLogs

LEMMA Continuous ==
  ASSUME ChainInv
  PROVE  ChainIsContinuous
<1>1. ASSUME NEW n \in 0..getHeight
      PROVE  /\ getBlock(n).number = n
             /\ getBlockByHash(getBlock(n)) = getBlock(n) /\ getBlockLogs(n) = getBlock(n)
             /\ n > 0 => parentHash(getBlock(n)) = getBlock(n - 1)
  <2>1. CASE n <= forkBlockNumber
    <3>1. n \in 0..forkBlockNumber /\ (n > 0 => n - 1 \in 0..forkBlockNumber)
      BY <2>1, Lengths
    <3>2. getBlock(n) = Remote(n) /\ (n > 0 => getBlock(n - 1) = Remote(n - 1))
      BY <3>1, BeforeFork
    <3> QED
      BY <3>1, <3>2, BeforeFork DEF parentHash, Remote
  <2>2. CASE n > forkBlockNumber
    <3>1. PICK i \in DOMAIN blocks : n = forkBlockNumber + i
      <4>1. n - forkBlockNumber \in DOMAIN blocks /\ n = forkBlockNumber + (n - forkBlockNumber)
        BY <2>2, Lengths
      <4> QED
        BY <4>1
    <3>2. /\ getBlock(n) = Local(n) /\ getBlockByHash(Local(n)) = Local(n)
          /\ getBlockLogs(n) = Local(n) /\ getRelativeBlockNumber(n) + 1 = i
      BY <3>1, AfterFork
    <3>3. parentHash(getBlock(n)) = blocks[i].parent
      BY <3>2 DEF parentHash, Local
    <3>4. CASE i = 1
      <4>1. n - 1 = forkBlockNumber /\ n - 1 \in 0..forkBlockNumber
        BY <3>1, <3>4, Lengths
      <4>2. getBlock(n - 1) = Remote(forkBlockNumber)
        BY <4>1, BeforeFork
      <4>3. blocks[i].parent = Remote(forkBlockNumber)
        BY <3>4 DEF ChainInv, BlocksInLine
      <4> QED
        BY <3>1, <3>2, <3>3, <3>4, <4>2, <4>3 DEF Local
    <3>5. CASE i # 1
      <4>1. i - 1 \in DOMAIN blocks /\ n - 1 = forkBlockNumber + (i - 1) /\ forkBlockNumber + i - 1 = n - 1
        BY <3>1, <3>5, Lengths
      <4>2. getBlock(n - 1) = Local(n - 1)
        BY <4>1, AfterFork
      <4> QED
        BY <3>2, <3>3, <3>5, <4>1, <4>2 DEF ChainInv, BlocksInLine, Local
    <3> QED
      BY <3>4, <3>5
  <2> QED
    BY <2>1, <2>2, Lengths
<1>2. getBlock(getHeight + 1) = NoBlock
  <2>1. /\ ~(getHeight + 1 <= forkBlockNumber)
        /\ getRelativeBlockNumber(getHeight + 1) = Len(blocks)
        /\ Len(blocks) + 1 \notin DOMAIN blocks
    BY Lengths DEF getRelativeBlockNumber
  <2> QED
    BY <2>1 DEF getBlock, isFallbackBlock, BlockAt
<1>3. ASSUME NEW n \in 0..forkBlockNumber
      PROVE  getTransactionReceipt(Remote(n)) = getTransaction(Remote(n))
  BY BeforeFork DEF getTransactionReceipt, getTransaction, Remote
<1>4. ASSUME NEW i \in DOMAIN blocks
      PROVE  LET mined == Local(blocks[i].number)
             IN getTransaction(mined) = mined /\ getTransactionReceipt(mined) = mined
  BY AfterFork DEF getTransactionReceipt, getTransaction, Local
<1> QED
  BY <1>1, <1>2, <1>3, <1>4 DEF ChainIsContinuous

(* The chain across the fork is continuous under every number and every hash, whatever
   both nodes mine and the local one reverts: forkedblockchain.js counts its blocks right. *)
THEOREM ContinuousChain == Spec => []ChainIsContinuous
<1>1. Init => ChainInv
  BY InitialInvariant
<1>2. ChainInv /\ [Next]_vars => ChainInv'
  BY NextInvariant
<1>3. ChainInv => ChainIsContinuous
  BY Continuous
<1> QED
  BY <1>1, <1>2, <1>3, PTL DEF Spec
-----------------------------------------------------------------------------
(* What the reads of accounts and of the slot find. *)

(* A block up to i of the chain b over the state s of the fork destroyed the account, or
   cleared a slot of the other node's. *)
DestroyedBy(b, s, i) ==
  \E j \in 1..i : /\ b[j].state.account = 0
                  /\ s.account # 0 \/ \E k \in 1..j : b[k].state.account # 0
ClearedBy(b, s, i) == s.slot # 0 /\ \E j \in 1..i : b[j].state.slot = 0

(* What the root of a block has is what its state has.  What it lacks no block up to it has
   written, unless one destroyed the account or cleared the slot. *)
RootTells(b, s, i) ==
  /\ b[i].stateRoot.account # Absent => b[i].stateRoot.account = b[i].state.account
  /\ b[i].stateRoot.slot # Absent => b[i].stateRoot.slot = b[i].state.slot
  /\ b[i].stateRoot.account = Absent /\ ~DestroyedBy(b, s, i) =>
       \A j \in 1..i : b[j].state.account = s.account
  /\ b[i].stateRoot.slot = Absent /\ ~ClearedBy(b, s, i) => b[i].state.slot = s.slot

(* It is so of every block. *)
RootsTell == \A i \in 1..Len(blocks) : RootTells(blocks, AtFork, i)

(* The first blocks of another chain that begins like b. *)
LEMMA SameBeginning ==
  ASSUME NEW b, NEW c, NEW s, NEW n \in Nat, NEW i \in 1..n,
         \A j \in 1..n : c[j] = b[j], RootTells(b, s, i)
  PROVE  RootTells(c, s, i)
<1>1. \A j \in 1..i : j \in 1..n /\ \A k \in 1..j : k \in 1..n
  OBVIOUS
<1>2. i \in 1..i
  OBVIOUS
<1>3. \A j \in 1..i : c[j] = b[j] /\ \A k \in 1..j : c[k] = b[k]
  BY <1>1
<1>4. DestroyedBy(c, s, i) <=> DestroyedBy(b, s, i)
  BY <1>3 DEF DestroyedBy
<1>5. ClearedBy(c, s, i) <=> ClearedBy(b, s, i)
  BY <1>3 DEF ClearedBy
<1>6. c[i] = b[i]
  OBVIOUS
<1> QED
  BY <1>3, <1>4, <1>5, <1>6, Zenon DEF RootTells

(* A block more: its root lacks what the root before it lacks, or what it has deleted. *)
LEMMA OneBlockMore ==
  ASSUME NEW b, NEW s, NEW n \in Nat \ {0}, RootTells(b, s, n),
         LET last == b[n]  mined == b[n + 1] IN
         /\ mined.stateRoot.account # Absent => mined.stateRoot.account = mined.state.account
         /\ mined.stateRoot.slot # Absent => mined.stateRoot.slot = mined.state.slot
         /\ mined.stateRoot.account = Absent =>
              \/ last.stateRoot.account = Absent /\ mined.state.account = last.state.account
              \/ mined.state.account = 0 /\ last.state.account # 0
         /\ mined.stateRoot.slot = Absent =>
              \/ last.stateRoot.slot = Absent /\ mined.state.slot = last.state.slot
              \/ mined.state.slot = 0
  PROVE  RootTells(b, s, n + 1)
<1>1. /\ n + 1 \in 1..(n + 1) /\ n \in 1..n /\ n \in 1..(n + 1)
      /\ \A j \in 1..n : j \in 1..(n + 1)
      /\ \A j \in 1..(n + 1) : j \in 1..n \/ j = n + 1
  OBVIOUS
<1>2. DestroyedBy(b, s, n) => DestroyedBy(b, s, n + 1)
  BY <1>1, Zenon DEF DestroyedBy
<1>3. ClearedBy(b, s, n) => ClearedBy(b, s, n + 1)
  BY <1>1, Zenon DEF ClearedBy
<1>4. b[n + 1].state.account = 0 /\ b[n].state.account # 0 => DestroyedBy(b, s, n + 1)
  BY <1>1, Zenon DEF DestroyedBy
<1>5. b[n + 1].state.slot = 0 /\ ~ClearedBy(b, s, n + 1) => s.slot = 0
  BY <1>1, Zenon DEF ClearedBy
<1>6. ASSUME b[n + 1].stateRoot.account = Absent, ~DestroyedBy(b, s, n + 1)
      PROVE  \A j \in 1..(n + 1) : b[j].state.account = s.account
  <2>1. b[n].stateRoot.account = Absent /\ b[n + 1].state.account = b[n].state.account
    BY <1>4, <1>6
  <2>2. \A j \in 1..n : b[j].state.account = s.account
    BY <1>2, <1>6, <2>1, Zenon DEF RootTells
  <2> QED
    BY <1>1, <2>1, <2>2
<1>7. ASSUME b[n + 1].stateRoot.slot = Absent, ~ClearedBy(b, s, n + 1)
      PROVE  b[n + 1].state.slot = s.slot
  <2>1. CASE b[n].stateRoot.slot = Absent /\ b[n + 1].state.slot = b[n].state.slot
    BY <1>3, <1>7, <2>1, Zenon DEF RootTells
  <2>2. CASE b[n + 1].state.slot = 0
    BY <1>5, <1>7, <2>2
  <2> QED
    BY <1>7, <2>1, <2>2
<1> QED
  BY <1>6, <1>7, Zenon DEF RootTells

(* Mining keeps it, when the root and the state go together. *)
LEMMA MineTells ==
  ASSUME ChainInv, RootsTell, NEW written, NEW state, Mine(written, state),
         written.account # Absent => written.account = state.account,
         written.slot # Absent => written.slot = state.slot,
         written.account = Absent =>
           \/ latestBlock.stateRoot.account = Absent /\ state.account = latestBlock.state.account
           \/ state.account = 0 /\ latestBlock.state.account # 0,
         written.slot = Absent =>
           \/ latestBlock.stateRoot.slot = Absent /\ state.slot = latestBlock.state.slot
           \/ state.slot = 0
  PROVE  RootsTell'
<1> DEFINE n == Len(blocks)
           mined == [number |-> latestBlock.number + 1, parent |-> Local(latestBlock.number),
                     stateRoot |-> written, state |-> state]
<1>1. /\ blocks' = Append(blocks, mined) /\ remote' = remote
      /\ forkBlockNumber' = forkBlockNumber
  BY DEF Mine
<1>2. n \in Nat \ {0} /\ blocks \in Seq(BlockType)
  BY Lengths DEF ChainInv, Types
<1>3. /\ Len(blocks') = n + 1 /\ blocks'[n + 1] = mined
      /\ \A i \in 1..n : blocks'[i] = blocks[i]
  <2>1. \A x : /\ Len(Append(blocks, x)) = Len(blocks) + 1
               /\ Append(blocks, x)[Len(blocks) + 1] = x
               /\ \A i \in 1..Len(blocks) : Append(blocks, x)[i] = blocks[i]
    BY <1>2
  <2> QED
    BY <1>1, <2>1, Zenon
<1>4. AtFork' = AtFork
  BY <1>1 DEF AtFork, AtRemote
<1>5. latestBlock = blocks[n] /\ mined.stateRoot = written /\ mined.state = state
  BY DEF latestBlock
<1> HIDE DEF n, mined
<1>6. \A i \in 1..n : RootTells(blocks', AtFork, i)
  <2>1. \A i \in 1..n : RootTells(blocks, AtFork, i)
    BY DEF RootsTell, n
  <2> QED
    BY <1>2, <1>3, <2>1, SameBeginning
<1>7. n \in 1..n /\ \A i \in 1..(n + 1) : i \in 1..n \/ i = n + 1
  BY <1>2
<1>8. blocks'[n] = latestBlock /\ blocks'[n + 1].stateRoot = written /\ blocks'[n + 1].state = state
  BY <1>3, <1>5, <1>7
<1>9. RootTells(blocks', AtFork, n + 1)
  BY <1>2, <1>6, <1>7, <1>8, OneBlockMore
<1>10. \A i \in 1..(n + 1) : RootTells(blocks', AtFork, i)
  BY <1>6, <1>7, <1>9
<1> QED
  BY <1>3, <1>4, <1>10, Zenon DEF RootsTell

(* The first local block has written nothing. *)
LEMMA InitiallyTells ==
  ASSUME Init
  PROVE  RootsTell
<1>1. blocks = <<Genesis>>
  BY DEF Init
<1>2. Len(blocks) = 1 /\ blocks[1] = Genesis
  BY <1>1
<1>3. /\ blocks[1].stateRoot.account = Absent /\ blocks[1].stateRoot.slot = Absent
      /\ blocks[1].state = AtFork
  BY <1>2 DEF Genesis, AtFork
<1>4. \A i \in 1..1 : i = 1
  OBVIOUS
<1> QED
  BY <1>2, <1>3, <1>4 DEF RootsTell, RootTells

(* Every step keeps it. *)
LEMMA NextTells ==
  ASSUME ChainInv, RootsTell, [Next]_vars
  PROVE  RootsTell'
<1> DEFINE last == latestBlock
           n == Len(blocks)
<1>0. 0 # Absent /\ Absent \notin Values
  BY BoundsAssumption DEF Absent, Values
<1>1. n \in Nat \ {0} /\ n \in 1..n /\ last = blocks[n]
  BY Lengths DEF latestBlock
<1>2. /\ last.stateRoot.account # Absent => last.stateRoot.account = last.state.account
      /\ last.stateRoot.slot # Absent => last.stateRoot.slot = last.state.slot
  BY <1>1, Zenon DEF RootsTell, RootTells
<1>3. last.stateRoot \in ForkedRoots /\ last.state \in States
  BY LatestIsTyped
<1>4. CASE remoteMines
  <2>1. PICK s \in States : remote' = Append(remote, s)
    BY <1>4 DEF remoteMines
  <2>2. blocks' = blocks /\ forkBlockNumber' = forkBlockNumber
    BY <1>4 DEF remoteMines
  <2>3. forkBlockNumber + 1 \in 1..Len(remote)
    BY Lengths DEF RemoteHeight
  <2>4. remote'[forkBlockNumber + 1] = remote[forkBlockNumber + 1]
    BY <2>1, <2>3, AppendProperties DEF ChainInv, Types
  <2>5. AtFork' = AtFork
    BY <2>2, <2>4 DEF AtFork, AtRemote
  <2> QED
    BY <2>2, <2>5, Zenon DEF RootsTell
<1>5. CASE transact
  <2>1. PICK account \in Values \ {0} :
          \/ Mine([last.stateRoot EXCEPT !.account = account],
                  [last.state EXCEPT !.account = account])
          \/ \E slot \in Values :
               Mine([account |-> account, slot |-> IF slot = 0 THEN Absent ELSE slot],
                    [account |-> account, slot |-> slot])
    BY <1>5 DEF transact
  <2>2. account # Absent
    BY <1>0
  <2>3. CASE Mine([last.stateRoot EXCEPT !.account = account],
                  [last.state EXCEPT !.account = account])
    <3> DEFINE written == [last.stateRoot EXCEPT !.account = account]
               state == [last.state EXCEPT !.account = account]
    <3>1. /\ written.account = account /\ written.slot = last.stateRoot.slot
          /\ state.account = account /\ state.slot = last.state.slot
      BY <1>3 DEF ForkedRoots, States
    <3>2. Mine(written, state)
      BY <2>3
    <3> HIDE DEF written, state
    <3> QED
      BY <1>2, <2>2, <3>1, <3>2, MineTells
  <2>4. CASE \E slot \in Values :
               Mine([account |-> account, slot |-> IF slot = 0 THEN Absent ELSE slot],
                    [account |-> account, slot |-> slot])
    <3>1. PICK slot \in Values :
            Mine([account |-> account, slot |-> IF slot = 0 THEN Absent ELSE slot],
                 [account |-> account, slot |-> slot])
      BY <2>4
    <3> DEFINE written == [account |-> account, slot |-> IF slot = 0 THEN Absent ELSE slot]
               state == [account |-> account, slot |-> slot]
    <3>2. /\ written.account = account /\ written.slot = IF slot = 0 THEN Absent ELSE slot
          /\ state.account = account /\ state.slot = slot
      OBVIOUS
    <3>3. Mine(written, state)
      BY <3>1
    <3>4. slot # Absent
      BY <1>0
    <3> HIDE DEF written, state
    <3> QED
      BY <2>2, <3>2, <3>3, <3>4, MineTells
  <2> QED
    BY <2>1, <2>3, <2>4
<1>6. CASE destroy
  <2> DEFINE written == [account |-> Absent, slot |-> Absent]
             state == [account |-> 0, slot |-> 0]
  <2>1. last.state.account # 0 /\ Mine(written, state)
    BY <1>6 DEF destroy
  <2>2. written.account = Absent /\ written.slot = Absent /\ state.account = 0 /\ state.slot = 0
    OBVIOUS
  <2> HIDE DEF written, state
  <2> QED
    BY <2>1, <2>2, MineTells
<1>7. CASE mineEmpty
  BY <1>2, <1>7, MineTells DEF mineEmpty
<1>8. CASE popBlock
  <2>1. blocks' = SubSeq(blocks, 1, n - 1) /\ n > 1
        /\ remote' = remote /\ forkBlockNumber' = forkBlockNumber
    BY <1>8 DEF popBlock
  <2>2. Len(blocks') = n - 1 /\ \A i \in 1..(n - 1) : blocks'[i] = blocks[i]
    BY <2>1, Lengths, SubSeqProperties DEF ChainInv, Types
  <2>3. AtFork' = AtFork
    BY <2>1 DEF AtFork, AtRemote
  <2>4. n - 1 \in Nat /\ \A i \in 1..(n - 1) : i \in 1..n
    BY <1>1
  <2>5. \A i \in 1..(n - 1) : RootTells(blocks, AtFork, i)
    BY <2>4, Zenon DEF RootsTell
  <2> HIDE DEF n
  <2>6. \A i \in 1..(n - 1) : RootTells(blocks', AtFork, i)
    BY <2>2, <2>4, <2>5, SameBeginning
  <2> QED
    BY <2>2, <2>3, <2>6, Zenon DEF RootsTell
<1>9. CASE UNCHANGED vars
  <2>1. blocks' = blocks /\ remote' = remote /\ forkBlockNumber' = forkBlockNumber
    BY <1>9 DEF vars
  <2>2. AtFork' = AtFork
    BY <2>1 DEF AtFork, AtRemote
  <2> QED
    BY <2>1, <2>2, Zenon DEF RootsTell
<1> QED
  BY <1>4, <1>5, <1>6, <1>7, <1>8, <1>9 DEF Next

(* A block destroyed the account only if the property says so. *)
LEMMA NotDestroyed ==
  ASSUME ChainInv, ~Destroyed, NEW i \in 1..Len(blocks)
  PROVE  ~DestroyedBy(blocks, AtFork, i)
<1> SUFFICES ASSUME NEW j \in 1..i, blocks[j].state.account = 0,
                    AtFork.account # 0 \/ \E k \in 1..j : blocks[k].state.account # 0
             PROVE  FALSE
  BY DEF DestroyedBy
<1>1. j \in DOMAIN blocks /\ forkBlockNumber \in Nat /\ j \in Nat /\ j >= 1
  BY Lengths
<1>2. blocks[j].number = forkBlockNumber + j
  BY <1>1 DEF ChainInv, BlocksInLine
<1>3. \A m \in forkBlockNumber..(forkBlockNumber + j) : StateAfter(m).account = 0
  BY <1>1, <1>2 DEF Destroyed
<1>4. CASE AtFork.account # 0
  <2>1. forkBlockNumber \in forkBlockNumber..(forkBlockNumber + j)
        /\ forkBlockNumber <= forkBlockNumber
    BY <1>1
  <2>2. StateAfter(forkBlockNumber) = AtFork
    BY <2>1 DEF StateAfter, AtFork
  <2> QED
    BY <1>3, <1>4, <2>1, <2>2
<1>5. ASSUME NEW k \in 1..j, blocks[k].state.account # 0
      PROVE  FALSE
  <2>1. /\ forkBlockNumber + k \in forkBlockNumber..(forkBlockNumber + j)
        /\ ~(forkBlockNumber + k <= forkBlockNumber)
        /\ (forkBlockNumber + k) - forkBlockNumber = k
    BY <1>1
  <2>2. StateAfter(forkBlockNumber + k) = blocks[k].state
    BY <2>1 DEF StateAfter
  <2> QED
    BY <1>3, <1>5, <2>1, <2>2
<1> QED
  BY <1>4, <1>5

(* The account read under the root of a block is the one after it. *)
LEMMA AccountsAreRight ==
  ASSUME ChainInv, RootsTell
  PROVE  AccountsByNumber
<1> SUFFICES ASSUME ~Destroyed, NEW n \in 0..getHeight
             PROVE  getAccount(n) = StateAfter(n).account /\ getCode(n) = StateAfter(n).account
  BY DEF AccountsByNumber
<1> DEFINE last == Len(blocks)
<1>1. /\ last \in Nat \ {0} /\ last \in 1..last /\ latestBlock = blocks[last]
      /\ forkBlockNumber \in Nat /\ getHeight = forkBlockNumber + last
      /\ n \in Nat /\ getHeight > forkBlockNumber
  BY Lengths DEF latestBlock
<1>2. CASE n <= forkBlockNumber
  <2>1. ~(n > forkBlockNumber)
    BY <1>1, <1>2
  <2>2. SafeFallback(n) = n
    BY <2>1, Zenon DEF SafeFallback
  <2> QED
    BY <1>2, <2>1, <2>2, Zenon DEF getAccount, getCode, StateAfter
<1>3. CASE n > forkBlockNumber
  <2> DEFINE i == n - forkBlockNumber
  <2>1. i \in 1..last /\ ~(n <= forkBlockNumber) /\ getRelativeBlockNumber(n) + 1 = i
    BY <1>1, <1>3 DEF getRelativeBlockNumber
  <2>2. /\ ~DestroyedBy(blocks, AtFork, i) /\ ~DestroyedBy(blocks, AtFork, last)
        /\ RootTells(blocks, AtFork, i) /\ RootTells(blocks, AtFork, last)
    BY <1>1, <2>1, NotDestroyed, Zenon DEF RootsTell
  <2>3. StateAfter(n) = blocks[i].state
    BY <2>1, Zenon DEF StateAfter
  <2>4. SafeFallback(n) = forkBlockNumber /\ SafeFallback(getHeight) = forkBlockNumber
    BY <1>1, <1>3, Zenon DEF SafeFallback
  <2>5. i \in 1..i
    BY <2>1
  <2> HIDE DEF i, last
  <2>6. CASE latestBlock.stateRoot.account # Absent
    <3>1. getAccount(n) = AccountIn(blocks[i].stateRoot) /\ getCode(n) = AccountIn(blocks[i].stateRoot)
      BY <1>3, <2>1, <2>6, Zenon DEF getAccount, getCode
    <3>2. AccountIn(blocks[i].stateRoot) = blocks[i].state.account
      <4>1. CASE blocks[i].stateRoot.account # Absent
        BY <2>2, <4>1, Zenon DEF AccountIn, RootTells
      <4>2. CASE blocks[i].stateRoot.account = Absent
        BY <2>2, <2>5, <4>2, Zenon DEF AccountIn, RootTells, AtFork
      <4> QED
        BY <4>1, <4>2
    <3> QED
      BY <2>3, <3>1, <3>2
  <2>7. CASE latestBlock.stateRoot.account = Absent
    <3>1. getAccount(n) = AtFork.account /\ getCode(n) = AtFork.account
      BY <1>3, <2>4, <2>7, Zenon DEF getAccount, getCode, AtFork
    <3>2. blocks[i].state.account = AtFork.account
      BY <1>1, <2>1, <2>2, <2>7, Zenon DEF RootTells
    <3> QED
      BY <2>3, <3>1, <3>2
  <2> QED
    BY <2>6, <2>7
<1> QED
  BY <1>1, <1>2, <1>3

(* So is the slot under the last root, for the block asked for, where it has not changed since
   that block or no local block has it in its trie. *)
LEMMA StorageIsRight ==
  ASSUME ChainInv, RootsTell
  PROVE  StorageByNumber
<1> SUFFICES ASSUME ~Cleared, NEW n \in 0..getHeight,
                    (\A i \in DOMAIN blocks : blocks[i].stateRoot.slot = Absent) \/ ~ChangedSince(n)
             PROVE  getStorage(n) = StateAfter(n).slot
  BY DEF StorageByNumber
<1> DEFINE last == Len(blocks)
<1>1. /\ last \in Nat \ {0} /\ last \in 1..last /\ latestBlock = blocks[last]
      /\ DOMAIN blocks = 1..last
      /\ forkBlockNumber \in Nat /\ getHeight = forkBlockNumber + last
      /\ n \in Nat /\ n <= getHeight /\ ~(getHeight <= forkBlockNumber)
  BY Lengths DEF latestBlock
<1>2. getHeight \in n..getHeight /\ getHeight - forkBlockNumber = last
  BY <1>1
<1>3. \A i \in 1..last : ~ClearedBy(blocks, AtFork, i) /\ RootTells(blocks, AtFork, i)
  <2>1. \A i \in 1..last : \A j \in 1..i : j \in 1..last
    BY <1>1
  <2> QED
    BY <1>1, <2>1, Zenon DEF RootsTell, Cleared, ClearedBy
<1>4. StateAfter(getHeight) = latestBlock.state
  BY <1>1, <1>2, Zenon DEF StateAfter
<1>5. ~ChangedSince(n) => StateAfter(n).slot = latestBlock.state.slot
  BY <1>2, <1>4, Zenon DEF ChangedSince
<1>6. CASE latestBlock.stateRoot.slot # Absent
  <2>1. getStorage(n) = latestBlock.state.slot
    BY <1>1, <1>3, <1>6, Zenon DEF getStorage, RootTells
  <2> QED
    BY <1>1, <1>5, <1>6, <2>1, Zenon
<1>7. CASE latestBlock.stateRoot.slot = Absent /\ n <= forkBlockNumber
  <2>1. ~(n > forkBlockNumber)
    BY <1>1, <1>7
  <2> QED
    BY <1>7, <2>1, Zenon DEF getStorage, SafeFallback, StateAfter
<1>8. CASE latestBlock.stateRoot.slot = Absent /\ n > forkBlockNumber
  <2>1. n - forkBlockNumber \in 1..last /\ ~(n <= forkBlockNumber)
    BY <1>1, <1>8
  <2>2. getStorage(n) = AtFork.slot
    BY <1>8, Zenon DEF getStorage, SafeFallback, AtFork
  <2>3. CASE \A i \in DOMAIN blocks : blocks[i].stateRoot.slot = Absent
    BY <1>1, <1>3, <2>1, <2>2, <2>3, Zenon DEF RootTells, StateAfter
  <2>4. CASE ~ChangedSince(n)
    BY <1>1, <1>3, <1>5, <1>8, <2>2, <2>4, Zenon DEF RootTells
  <2> QED
    BY <2>3, <2>4
<1> QED
  BY <1>1, <1>6, <1>7, <1>8

(* The invariant of both reads. *)
LEMMA AlwaysTells == Spec => [](ChainInv /\ RootsTell)
<1>1. Init => ChainInv /\ RootsTell
  BY InitialInvariant, InitiallyTells
<1>2. ChainInv /\ RootsTell /\ [Next]_vars => (ChainInv /\ RootsTell)'
  BY NextInvariant, NextTells
<1> QED
  BY <1>1, <1>2, PTL DEF Spec

(* forkedblockchain.js answers for each number with the account after that block, whatever the
   other node has written since, unless a local block destroyed it. *)
THEOREM AccountsOfTheChain == Spec => []AccountsByNumber
<1>1. ChainInv /\ RootsTell => AccountsByNumber
  BY AccountsAreRight
<1> QED
  BY <1>1, AlwaysTells, PTL

(* forkedblockchain.js answers for each number with the slot as it was after that block, where
   it has not changed since or no local block has written it, unless a local block cleared one
   of the other node's. *)
THEOREM StorageOfTheChain == Spec => []StorageByNumber
<1>1. ChainInv /\ RootsTell => StorageByNumber
  BY StorageIsRight
<1> QED
  BY <1>1, AlwaysTells, PTL
=============================================================================
