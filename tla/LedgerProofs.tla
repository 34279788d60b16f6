---------------------------- MODULE LedgerProofs ----------------------------
(***************************************************************************)
(* What the ledger promises, for any accounts, payloads and bounds. It     *)
(* keeps its types; the chain below a live snapshot stays the chain it     *)
(* was taken of, and a revert that completes brings back exactly what it   *)
(* names. The stores, nonces and state roots say what the blocks of the    *)
(* chain say. What a client sees of the chain implements Timeline.tla:     *)
(* each step is a step of the timeline or none. The pending nonces of an   *)
(* account continue the mined ones, but for those a refused block took     *)
(* away. A sender told that its transaction was mined finds it on the      *)
(* chain, and a transaction leaves the pool for the chain, by a revert or  *)
(* a restart, or with a block that the VM refused for a reason.            *)
(***************************************************************************)
EXTENDS Ledger, SequenceTheorems, FiniteSetTheorems, WellFoundedInduction, TLAPS

(* The state root in use is that of the last block. *)
RootFollows == stateRoot = LastBlock.stateRoot

(* A revert under way: which snapshot it goes back to, which ones it has taken off,
   and how far down the last one lets it pop. *)
RevertUnderWay ==
  Reverting =>
    /\ origin.id \in DOMAIN origin.marks
    /\ revertTo.id = origin.id - 1
    /\ revertTo.timeAdjustment = origin.marks[origin.id].timeAdjustment
    /\ revertTo.id <= Len(snapshots) /\ Len(snapshots) <= Len(origin.marks)
    /\ snapshots = SubSeq(origin.marks, 1, Len(snapshots))

SnapshotsPopped ==
  phase = "popSnapshots" /\ Len(snapshots) < Len(origin.marks) =>
    blocks = origin.marks[Len(snapshots) + 1].chain

BlocksBeingPopped ==
  phase = "popBlocks" =>
    LET mark == origin.marks[Len(snapshots) + 1] IN
    /\ Len(snapshots) < Len(origin.marks)
    /\ revertTo.floor = mark.blockNumber
    /\ mark.blockNumber <= Height
    /\ mark.chain = SubSeq(blocks, 1, mark.blockNumber + 1)
    /\ \A i \in DOMAIN snapshots : snapshots[i].blockNumber <= mark.blockNumber

IInv == /\ TypeOK /\ RootFollows /\ SnapshotsIntact
        /\ RevertUnderWay /\ SnapshotsPopped /\ BlocksBeingPopped
-----------------------------------------------------------------------------
(* Sequences. *)

(* Appending keeps every prefix. *)
LEMMA PrefixOfAppend ==
  ASSUME NEW S, NEW s \in Seq(S), NEW e \in S, NEW n \in 0..Len(s)
  PROVE  SubSeq(Append(s, e), 1, n) = SubSeq(s, 1, n)
<1>1. \A i \in 1..n : Append(s, e)[i] = s[i] /\ s[i] \in S
  BY AppendProperties, ElementOfSeq
<1>2. /\ SubSeq(Append(s, e), 1, n) \in Seq(S) /\ SubSeq(s, 1, n) \in Seq(S)
      /\ Len(SubSeq(Append(s, e), 1, n)) = Len(SubSeq(s, 1, n))
      /\ \A i \in 1..n : SubSeq(Append(s, e), 1, n)[i] = SubSeq(s, 1, n)[i]
      /\ Len(SubSeq(s, 1, n)) = n
  BY <1>1, SubSeqProperties
<1> QED
  BY <1>2, SeqEqual

(* A prefix of a prefix is a prefix. *)
LEMMA PrefixOfPrefix ==
  ASSUME NEW S, NEW s \in Seq(S), NEW n \in 0..Len(s), NEW m \in 0..n
  PROVE  SubSeq(SubSeq(s, 1, n), 1, m) = SubSeq(s, 1, m)
<1>1. \A i \in 1..n : s[i] \in S
  BY ElementOfSeq
<1>2. SubSeq(s, 1, n) \in Seq(S) /\ Len(SubSeq(s, 1, n)) = n
      /\ \A i \in 1..n : SubSeq(s, 1, n)[i] = s[i]
  BY <1>1, SubSeqProperties
<1>3. /\ SubSeq(SubSeq(s, 1, n), 1, m) \in Seq(S) /\ SubSeq(s, 1, m) \in Seq(S)
      /\ Len(SubSeq(SubSeq(s, 1, n), 1, m)) = m /\ Len(SubSeq(s, 1, m)) = m
      /\ \A i \in 1..m : SubSeq(SubSeq(s, 1, n), 1, m)[i] = SubSeq(s, 1, m)[i]
  BY <1>1, <1>2, SubSeqProperties
<1> QED
  BY <1>3, SeqEqual

(* The fields of a member of a list of snapshots. *)
LEMMA MarkTypes ==
  ASSUME NEW marks \in Seq(SnapshotType), NEW i \in DOMAIN marks
  PROVE  /\ marks[i] \in SnapshotType
         /\ marks[i].blockNumber \in Nat
         /\ marks[i].timeAdjustment \in Nat
         /\ marks[i].chain \in Seq(BlockType)
<1>1. marks[i] \in SnapshotType
  BY LenProperties, ElementOfSeq
<1> QED
  BY <1>1 DEF SnapshotType

(* Every prefix is a sequence over the same set, of the length asked for. *)
LEMMA PrefixType ==
  ASSUME NEW S, NEW s \in Seq(S), NEW n \in 0..Len(s)
  PROVE  /\ SubSeq(s, 1, n) \in Seq(S)
         /\ Len(SubSeq(s, 1, n)) = n
         /\ \A i \in 1..n : SubSeq(s, 1, n)[i] = s[i]
<1>1. \A i \in 1..n : s[i] \in S
  BY ElementOfSeq
<1> QED
  BY <1>1, SubSeqProperties
-----------------------------------------------------------------------------
(* The types of what one block is made of. *)

(* A non-empty set of naturals has a least member, which Min chooses. *)
LEMMA LeastMember ==
  ASSUME NEW S \in SUBSET Nat, S # {}
  PROVE  Min(S) \in S /\ \A y \in S : Min(S) <= y
<1> DEFINE R == OpToRel(<, Nat)
<1>1. IsWellFoundedOn(R, Nat)
  BY NatLessThanWellFounded
<1>2. \A x, y \in Nat : y < x => <<y, x>> \in R
  BY DEF OpToRel
<1> HIDE DEF R
<1>3. PICK x \in S : \A y \in S : <<y, x>> \notin R
  BY <1>1, WFMin
<1>4. \A y \in S : x \in Nat /\ y \in Nat /\ ~(y < x)
  BY <1>2, <1>3, Zenon
<1>5. \A y \in S : x =< y
  BY <1>4, SMT
<1> QED
  BY <1>5 DEF Min

LEMMA OrderType ==
  ASSUME TypeOK, NEW order \in sortByPriceAndNonce
  PROVE  order \in Seq(Transactions) /\ Len(order) = Len(pending_transactions)
<1>1. PICK p \in [DOMAIN pending_transactions -> DOMAIN pending_transactions] :
        order = [i \in DOMAIN pending_transactions |-> pending_transactions[p[i]]]
  BY DEF sortByPriceAndNonce, Injection
<1>2. pending_transactions \in [1..Len(pending_transactions) -> Transactions]
      /\ Len(pending_transactions) \in Nat
  BY LenProperties DEF TypeOK
<1> QED
  BY <1>1, <1>2

LEMMA NewBlockType ==
  ASSUME TypeOK, NEW batch \in Seq(Transactions)
  PROVE  NewBlock(batch) \in BlockType
<1>1. \A a \in Accounts : CountFrom(a, batch) \in Nat
  <2> TAKE a \in Accounts
  <2>1. IsFiniteSet(DOMAIN batch)
    BY LenProperties, FS_Interval
  <2> QED
    BY <2>1, FS_Subset, FS_CardinalityType DEF CountFrom
<1>2. [a \in Accounts |-> stateRoot[a] + CountFrom(a, batch)] \in [Accounts -> Nat]
  BY <1>1 DEF TypeOK
<1>3. Len(blocks) \in Nat
  BY LenProperties DEF TypeOK
<1> QED
  BY <1>2, <1>3 DEF NewBlock, BlockType

LEMMA FirstThrowing ==
  ASSUME NEW batch \in Seq(Transactions), Throwing(batch) # {}
  PROVE  batch[Min(Throwing(batch))] \in Transactions
<1>1. Throwing(batch) \subseteq 1..Len(batch)
  BY LenProperties DEF Throwing
<1>2. Min(Throwing(batch)) \in 1..Len(batch)
  BY <1>1, LeastMember
<1> QED
  BY <1>2, ElementOfSeq

(* What processNextBlock does to the chain and the pool, whatever its verdict. *)
LEMMA NextBlockEffect ==
  ASSUME TypeOK, NEW order \in sortByPriceAndNonce,
         NEW count \in 0..Len(pending_transactions), processNextBlock(order, count)
  PROVE  /\ pending_transactions' \in Seq(Transactions)
         /\ SubSeq(order, 1, count) \in Seq(Transactions)
         /\ stranded' \subseteq Accounts
         /\ blockLogs' \in Seq(SUBSET Transactions)
         /\ transactions' \subseteq Transactions
         /\ \/ UNCHANGED <<blocks, stateRoot>>
            \/ \E block \in BlockType :
                 blocks' = Append(blocks, block) /\ stateRoot' = block.stateRoot
<1> DEFINE batch == SubSeq(order, 1, count)
           rest == SubSeq(order, count + 1, Len(order))
<1>1. /\ order \in Seq(Transactions) /\ Len(order) = Len(pending_transactions)
      /\ Len(order) \in Nat
  BY OrderType, LenProperties
<1>2. \A i \in 1..Len(order) : order[i] \in Transactions
  BY <1>1, ElementOfSeq
<1>3. batch \in Seq(Transactions) /\ rest \in Seq(Transactions)
  BY <1>1, <1>2, SubSeqProperties
<1>4. Range(batch) \subseteq Transactions
  BY <1>3 DEF Range
<1>5. pending_transactions' = rest
  BY DEF processNextBlock
<1> HIDE DEF batch, rest
<1>6. \A dropped \in SUBSET Transactions : StrandedAfter(dropped, rest) \subseteq Accounts
  BY DEF StrandedAfter, TypeOK, Transactions
<1>7. CASE putBlock(batch) /\ stranded' = StrandedAfter({}, rest)
  <2>1. /\ NewBlock(batch) \in BlockType
        /\ LogsOf(batch) \in SUBSET Transactions
    BY <1>3, NewBlockType DEF LogsOf
  <2>2. /\ blocks' = Append(blocks, NewBlock(batch))
        /\ stateRoot' = NewBlock(batch).stateRoot
        /\ blockLogs' = Append(blockLogs, LogsOf(batch))
        /\ transactions' = transactions \cup Range(batch)
    BY <1>7, Zenon DEF putBlock
  <2>3. /\ blockLogs' \in Seq(SUBSET Transactions)
        /\ transactions' \subseteq Transactions
    BY <1>4, <2>1, <2>2 DEF TypeOK
  <2>4. stranded' \subseteq Accounts
    BY <1>6, <1>7, Zenon
  <2> QED
    BY <1>3, <1>5, <2>1, <2>2, <2>3, <2>4 DEF batch
<1>8. CASE UNCHANGED chainVars /\ stranded' = StrandedAfter(Range(batch), rest)
  <2>1. stranded' \subseteq Accounts
    BY <1>4, <1>6, <1>8, Zenon
  <2> QED
    BY <1>3, <1>5, <1>8, <2>1 DEF chainVars, dbVars, TypeOK, batch
<1> QED
  BY <1>7, <1>8, Zenon DEF processNextBlock, batch, rest
-----------------------------------------------------------------------------
(* The two ways in which a step outside a revert leaves the invariant alone. *)

LEMMA ChainKept ==
  ASSUME IInv, TypeOK', UNCHANGED <<blocks, stateRoot, snapshots>>,
         phase' \in {"idle", "processBlocks"}
  PROVE  IInv'
  BY DEF IInv, RootFollows, LastBlock, SnapshotsIntact, Height, RevertUnderWay, Reverting,
         SnapshotsPopped, BlocksBeingPopped

LEMMA ChainExtended ==
  ASSUME IInv, TypeOK', NEW block \in BlockType, blocks' = Append(blocks, block),
         stateRoot' = block.stateRoot, UNCHANGED snapshots,
         phase' \in {"idle", "processBlocks"}
  PROVE  IInv'
<1>1. /\ blocks \in Seq(BlockType) /\ Len(blocks) \in Nat
      /\ Len(blocks') = Len(blocks) + 1 /\ blocks'[Len(blocks')] = block
  BY AppendProperties, LenProperties DEF IInv, TypeOK
<1>2. RootFollows'
  BY <1>1 DEF RootFollows, LastBlock
<1>3. \A i \in DOMAIN snapshots :
        /\ snapshots[i].blockNumber \in Nat /\ snapshots[i].blockNumber + 1 \in 0..Len(blocks)
        /\ snapshots[i].chain = SubSeq(blocks, 1, snapshots[i].blockNumber + 1)
  <2> TAKE i \in DOMAIN snapshots
  <2>1. snapshots[i].blockNumber \in Nat
    BY MarkTypes DEF IInv, TypeOK
  <2>2. /\ snapshots[i].blockNumber <= Len(blocks) - 1
        /\ snapshots[i].chain = SubSeq(blocks, 1, snapshots[i].blockNumber + 1)
    BY DEF IInv, SnapshotsIntact, Height
  <2> QED
    BY <1>1, <2>1, <2>2
<1>4. \A i \in DOMAIN snapshots :
        SubSeq(blocks', 1, snapshots[i].blockNumber + 1)
          = SubSeq(blocks, 1, snapshots[i].blockNumber + 1)
  BY <1>1, <1>3, PrefixOfAppend
<1>5. SnapshotsIntact'
  <2>1. \A i \in DOMAIN snapshots' :
          /\ snapshots'[i].blockNumber <= Height'
          /\ snapshots'[i].chain = SubSeq(blocks', 1, snapshots'[i].blockNumber + 1)
    BY <1>1, <1>3, <1>4 DEF Height
  <2> QED
    BY <2>1 DEF IInv, SnapshotsIntact
<1> QED
  BY <1>2, <1>5 DEF IInv, RevertUnderWay, Reverting, SnapshotsPopped, BlocksBeingPopped

LEMMA Responded ==
  ASSUME NEW answer \in [tx : MaybeTx, result : MaybeTx, error : Errors], Respond(answer)
  PROVE  /\ phase' = "idle"
         /\ caller' \in MaybeTx /\ runtimeError' \in MaybeTx
         /\ revertTo' \in [id : Nat, timeAdjustment : Nat, floor : Nat]
         /\ response' \in [tx : MaybeTx, result : MaybeTx, error : Errors]
         /\ origin' \in [chain : Seq(BlockType), marks : Seq(SnapshotType), id : Nat]
  BY EmptySeq DEF Respond, NoRequest, NoOrigin, MaybeTx

LEMMA AnswerType ==
  ASSUME NEW tx \in MaybeTx, NEW result \in MaybeTx, NEW error \in Errors
  PROVE  Answer(tx, result, error) \in [tx : MaybeTx, result : MaybeTx, error : Errors]
  BY DEF Answer

LEMMA NoAnswerType == NoAnswer \in [tx : MaybeTx, result : MaybeTx, error : Errors]
  BY AnswerType DEF NoAnswer, MaybeTx, Errors
-----------------------------------------------------------------------------
(* Initial states and one lemma per action. *)

LEMMA InitIInv == Init => IInv
<1> SUFFICES ASSUME Init PROVE IInv
  OBVIOUS
<1> USE DEF Init
<1>1. Genesis \in BlockType
  <2>1. <<>> \in Seq(Transactions)
    BY EmptySeq
  <2> QED
    BY <2>1 DEF Genesis, BlockType
<1>2. blocks \in Seq(BlockType) /\ Len(blocks) = 1 /\ blocks[1] = Genesis /\ blocks # <<>>
  BY <1>1
<1>3. TypeOK
  <2>1. blockLogs \in Seq(SUBSET Transactions) /\ stateRoot \in [Accounts -> Nat]
    BY DEF Genesis
  <2>2. /\ revertTo \in [id : Nat, timeAdjustment : Nat, floor : Nat]
        /\ origin \in [chain : Seq(BlockType), marks : Seq(SnapshotType), id : Nat]
    BY EmptySeq DEF NoRequest, NoOrigin
  <2>3. pending_transactions \in Seq(Transactions) /\ snapshots \in Seq(SnapshotType)
    BY EmptySeq
  <2>4. is_mining_on_interval \in BOOLEAN
    BY BoundsAssumption
  <2> QED
    BY <1>2, <2>1, <2>2, <2>3, <2>4, NoAnswerType DEF TypeOK, MaybeTx
<1>4. RootFollows
  BY <1>2 DEF RootFollows, LastBlock
<1>5. SnapshotsIntact
  BY DEF SnapshotsIntact
<1> QED
  BY <1>3, <1>4, <1>5 DEF IInv, RevertUnderWay, Reverting, SnapshotsPopped, BlocksBeingPopped

LEMMA ProcessTransactionStep ==
  ASSUME IInv, NEW tx \in Inputs, processTransaction(tx)
  PROVE  IInv'
<1>1. tx \in Transactions
  BY BoundsAssumption DEF Inputs, Transactions
<1>2. /\ pending_transactions' = Append(pending_transactions, tx)
      /\ Respond(Answer(tx, tx, "none")) \/ StartProcessBlocks(tx)
      /\ UNCHANGED <<chainVars, snapshots, timeAdjustment, minerVars, stranded>>
  BY Zenon DEF processTransaction
<1>3. pending_transactions' \in Seq(Transactions)
  BY <1>1, <1>2 DEF IInv, TypeOK
<1>4. UNCHANGED <<blocks, blockLogs, transactions, stateRoot, snapshots, timeAdjustment,
                  is_mining, is_mining_on_interval, stranded>>
  BY <1>2 DEF chainVars, dbVars, minerVars
<1>5. CASE Respond(Answer(tx, tx, "none"))
  <2>1. Answer(tx, tx, "none") \in [tx : MaybeTx, result : MaybeTx, error : Errors]
    BY <1>1, AnswerType DEF MaybeTx, Errors
  <2>2. TypeOK'
    BY <1>3, <1>4, <1>5, <2>1, Responded DEF IInv, TypeOK
  <2> QED
    BY <1>4, <1>5, <2>1, <2>2, Responded, ChainKept
<1>6. CASE StartProcessBlocks(tx)
  <2>1. TypeOK'
    BY <1>1, <1>3, <1>4, <1>6, NoAnswerType DEF IInv, TypeOK, StartProcessBlocks, MaybeTx
  <2> QED
    BY <1>4, <1>6, <2>1, ChainKept DEF StartProcessBlocks
<1> QED
  BY <1>2, <1>5, <1>6

LEMMA RejectStep ==
  ASSUME IInv, NEW error \in Errors, Respond(Answer(NoTx, NoTx, error)), UNCHANGED stateVars
  PROVE  IInv'
<1>1. Answer(NoTx, NoTx, error) \in [tx : MaybeTx, result : MaybeTx, error : Errors]
  BY AnswerType DEF MaybeTx
<1>2. TypeOK'
  BY <1>1, Responded DEF IInv, TypeOK, stateVars, chainVars, dbVars, minerVars
<1> QED
  BY <1>1, <1>2, Responded, ChainKept DEF stateVars, chainVars, dbVars

(* A request that answers at once and touches neither the chain nor the pool nor the
   snapshots. *)
LEMMA SettingStep ==
  ASSUME IInv, Respond(NoAnswer), timeAdjustment' \in Nat, is_mining' \in BOOLEAN,
         UNCHANGED <<chainVars, pending_transactions, snapshots, is_mining_on_interval, stranded>>
  PROVE  IInv'
<1>1. TypeOK'
  BY NoAnswerType, Responded DEF IInv, TypeOK, chainVars, dbVars
<1> QED
  BY <1>1, NoAnswerType, Responded, ChainKept DEF chainVars, dbVars

LEMMA ClockStep ==
  ASSUME IInv, timeAdjustment' \in Nat, Respond(NoAnswer),
         UNCHANGED <<chainVars, pending_transactions, snapshots, minerVars, stranded>>
  PROVE  IInv'
<1>1. is_mining' \in BOOLEAN /\ UNCHANGED is_mining_on_interval
  BY DEF minerVars, IInv, TypeOK
<1> QED
  BY <1>1, SettingStep

LEMMA StartMiningStep ==
  ASSUME IInv, startMining
  PROVE  IInv'
<1>1. CASE is_mining_on_interval
  BY <1>1, SettingStep DEF startMining, IInv, TypeOK
<1>2. CASE ~is_mining_on_interval
  <2>1. StartProcessBlocks(NoTx) /\ is_mining' = TRUE
        /\ UNCHANGED <<chainVars, pending_transactions, snapshots, timeAdjustment,
                       is_mining_on_interval, stranded>>
    BY <1>2 DEF startMining
  <2>2. TypeOK'
    BY <2>1, NoAnswerType
       DEF StartProcessBlocks, IInv, TypeOK, chainVars, dbVars, MaybeTx
  <2> QED
    BY <2>1, <2>2, ChainKept DEF StartProcessBlocks, chainVars, dbVars
<1> QED
  BY <1>1, <1>2

(* A step that mines one block, or fails to. *)
LEMMA MiningStep ==
  ASSUME IInv, TypeOK', NEW order \in sortByPriceAndNonce,
         NEW count \in 0..Len(pending_transactions), processNextBlock(order, count),
         UNCHANGED snapshots, phase' \in {"idle", "processBlocks"}
  PROVE  IInv'
<1>1. TypeOK
  BY DEF IInv
<1>2. \/ UNCHANGED <<blocks, stateRoot>>
      \/ \E block \in BlockType : blocks' = Append(blocks, block) /\ stateRoot' = block.stateRoot
  BY <1>1, NextBlockEffect
<1> QED
  BY <1>2, ChainKept, ChainExtended

(* The chain keeps its type when a block is mined. *)
LEMMA MinedTypes ==
  ASSUME TypeOK, NEW order \in sortByPriceAndNonce,
         NEW count \in 0..Len(pending_transactions), processNextBlock(order, count)
  PROVE  blocks' \in Seq(BlockType) /\ blocks' # <<>> /\ stateRoot' \in [Accounts -> Nat]
<1>1. \/ UNCHANGED <<blocks, stateRoot>>
      \/ \E block \in BlockType : blocks' = Append(blocks, block) /\ stateRoot' = block.stateRoot
  BY NextBlockEffect
<1>2. CASE UNCHANGED <<blocks, stateRoot>>
  BY <1>2 DEF TypeOK
<1>3. ASSUME NEW block \in BlockType, blocks' = Append(blocks, block),
             stateRoot' = block.stateRoot
      PROVE  blocks' \in Seq(BlockType) /\ blocks' # <<>> /\ stateRoot' \in [Accounts -> Nat]
  <2>1. stateRoot' \in [Accounts -> Nat]
    BY <1>3 DEF BlockType
  <2>2. blocks \in Seq(BlockType)
    BY DEF TypeOK
  <2>3. blocks' \in Seq(BlockType) /\ Len(blocks') = Len(blocks) + 1
    BY <1>3, <2>2, AppendProperties
  <2> QED
    BY <2>1, <2>2, <2>3, EmptySeq, LenProperties
<1> QED
  BY <1>1, <1>2, <1>3

LEMMA ProcessBlocksTurnStep ==
  ASSUME IInv, processBlocksTurn
  PROVE  IInv'
<1>1. TypeOK
  BY DEF IInv
<1>2. PICK order \in sortByPriceAndNonce, count \in 0..Len(pending_transactions) :
        /\ processNextBlock(order, count)
        /\ LET batch == SubSeq(order, 1, count)
               verdict == Verdict(batch)
           IN IF verdict \in {"none", "runtime error"}
                THEN /\ runtimeError' = IF verdict = "runtime error" /\ runtimeError = NoTx
                                          THEN batch[Min(Throwing(batch))] ELSE runtimeError
                     /\ UNCHANGED <<phase, caller, revertTo, origin, response>>
                ELSE Respond(Answer(caller, NoTx, verdict))
  BY DEF processBlocksTurn
<1> DEFINE batch == SubSeq(order, 1, count)
           verdict == Verdict(batch)
<1>3. batch \in Seq(Transactions)
  BY <1>1, <1>2, NextBlockEffect
<1>4. verdict \in {"none", "runtime error", "vm error", "exceeds block gas limit"}
      /\ (verdict = "runtime error" => Throwing(batch) # {})
  BY DEF Verdict
<1> HIDE DEF batch, verdict
<1>5. /\ UNCHANGED <<snapshots, timeAdjustment, is_mining, is_mining_on_interval>>
      /\ phase = "processBlocks"
  BY DEF processBlocksTurn, minerVars
<1>6. CASE /\ runtimeError' = IF verdict = "runtime error" /\ runtimeError = NoTx
                                THEN batch[Min(Throwing(batch))] ELSE runtimeError
           /\ UNCHANGED <<phase, caller, revertTo, origin, response>>
  <2>1. runtimeError' \in MaybeTx
    BY <1>1, <1>3, <1>4, <1>6, FirstThrowing DEF TypeOK, MaybeTx
  <2>2. TypeOK'
    BY <1>1, <1>2, <1>5, <1>6, <2>1, NextBlockEffect, MinedTypes DEF TypeOK
  <2> QED
    BY <1>2, <1>5, <1>6, <2>2, MiningStep
<1>7. CASE Respond(Answer(caller, NoTx, verdict))
  <2>1. Answer(caller, NoTx, verdict) \in [tx : MaybeTx, result : MaybeTx, error : Errors]
    BY <1>1, <1>4, AnswerType DEF TypeOK, MaybeTx, Errors
  <2>2. TypeOK'
    BY <1>1, <1>2, <1>5, <1>7, <2>1, Responded, NextBlockEffect, MinedTypes DEF TypeOK
  <2> QED
    BY <1>2, <1>5, <1>7, <2>1, <2>2, Responded, MiningStep
<1> QED
  BY <1>2, <1>6, <1>7, Zenon DEF batch, verdict

LEMMA ProcessBlocksDoneStep ==
  ASSUME IInv, processBlocksDone
  PROVE  IInv'
<1>1. PICK result \in MaybeTx, error \in Errors : Respond(Answer(caller, result, error))
  BY DEF processBlocksDone, IInv, TypeOK, MaybeTx, Errors
<1>2. UNCHANGED stateVars
  BY DEF processBlocksDone
<1>3. Answer(caller, result, error) \in [tx : MaybeTx, result : MaybeTx, error : Errors]
  BY AnswerType DEF IInv, TypeOK
<1>4. TypeOK'
  BY <1>1, <1>2, <1>3, Responded DEF IInv, TypeOK, stateVars, chainVars, dbVars, minerVars
<1> QED
  BY <1>1, <1>2, <1>3, <1>4, Responded, ChainKept DEF stateVars, chainVars, dbVars

LEMMA MineStep ==
  ASSUME IInv, NEW adjustment \in 0..MaxAdjustment, svm_mine(adjustment)
  PROVE  IInv'
<1>1. TypeOK
  BY DEF IInv
<1>2. PICK order \in sortByPriceAndNonce, count \in 0..Len(pending_transactions) :
        LET verdict == Verdict(SubSeq(order, 1, count)) IN
        /\ processNextBlock(order, count)
        /\ Respond(Answer(NoTx, NoTx, verdict))
        /\ timeAdjustment' = IF verdict = "exceeds block gas limit"
                               THEN timeAdjustment ELSE adjustment
  BY DEF svm_mine
<1> DEFINE verdict == Verdict(SubSeq(order, 1, count))
<1>3. verdict \in Errors
  BY DEF Verdict, Errors
<1> HIDE DEF verdict
<1>4. /\ Respond(Answer(NoTx, NoTx, verdict))
      /\ timeAdjustment' = timeAdjustment \/ timeAdjustment' = adjustment
  BY <1>2 DEF verdict
<1>5. UNCHANGED <<snapshots, is_mining, is_mining_on_interval>>
  BY DEF svm_mine, minerVars
<1>6. Answer(NoTx, NoTx, verdict) \in [tx : MaybeTx, result : MaybeTx, error : Errors]
  BY <1>3, AnswerType DEF MaybeTx
<1>7. timeAdjustment' \in Nat
  BY <1>1, <1>4, BoundsAssumption DEF TypeOK
<1>8. TypeOK'
  BY <1>1, <1>2, <1>4, <1>5, <1>6, <1>7, Responded, NextBlockEffect, MinedTypes DEF TypeOK
<1> QED
  BY <1>2, <1>4, <1>5, <1>6, <1>8, Responded, MiningStep

LEMMA SnapshotStep ==
  ASSUME IInv, snapshot
  PROVE  IInv'
<1> DEFINE mark == [blockNumber |-> Height, timeAdjustment |-> timeAdjustment, chain |-> blocks]
<1>1. /\ snapshots' = Append(snapshots, mark)
      /\ Respond(NoAnswer)
      /\ UNCHANGED <<chainVars, pending_transactions, timeAdjustment, minerVars, stranded>>
  BY DEF snapshot
<1>2. /\ blocks \in Seq(BlockType) /\ Len(blocks) \in Nat /\ Len(blocks) > 0
      /\ snapshots \in Seq(SnapshotType) /\ Len(snapshots) \in Nat
  BY EmptySeq, LenProperties DEF IInv, TypeOK
<1>3. mark \in SnapshotType
  BY <1>2 DEF IInv, TypeOK, SnapshotType, Height
<1> HIDE DEF mark
<1>4. /\ snapshots' \in Seq(SnapshotType)
      /\ DOMAIN snapshots' = 1..(Len(snapshots) + 1) /\ DOMAIN snapshots = 1..Len(snapshots)
      /\ snapshots'[Len(snapshots) + 1] = mark
      /\ \A i \in 1..Len(snapshots) : snapshots'[i] = snapshots[i]
  BY <1>1, <1>2, <1>3, AppendProperties, LenProperties
<1>5. TypeOK'
  BY <1>1, <1>4, NoAnswerType, Responded DEF IInv, TypeOK, chainVars, dbVars, minerVars
<1>6. UNCHANGED <<blocks, stateRoot>>
  BY <1>1 DEF chainVars, dbVars
<1>7. /\ mark.blockNumber = Len(blocks) - 1
      /\ mark.chain = SubSeq(blocks, 1, mark.blockNumber + 1)
  BY <1>2, SubSeqFull DEF mark, Height
<1>8. \A i \in DOMAIN snapshots : snapshots[i].blockNumber <= Len(blocks) - 1
  BY DEF IInv, SnapshotsIntact, Height
<1>9. SnapshotsIntact'
  <2>1. \A i \in DOMAIN snapshots' :
          /\ snapshots'[i].blockNumber <= Height'
          /\ snapshots'[i].chain = SubSeq(blocks', 1, snapshots'[i].blockNumber + 1)
    <3> TAKE i \in DOMAIN snapshots'
    <3>1. CASE i = Len(snapshots) + 1
      BY <1>2, <1>4, <1>6, <1>7, <3>1 DEF Height
    <3>2. CASE i \in 1..Len(snapshots)
      BY <1>4, <1>6, <3>2 DEF IInv, SnapshotsIntact, Height
    <3> QED
      BY <1>2, <1>4, <3>1, <3>2
  <2>2. \A i, j \in DOMAIN snapshots' :
          i <= j => snapshots'[i].blockNumber <= snapshots'[j].blockNumber
    BY <1>2, <1>4, <1>7, <1>8 DEF IInv, SnapshotsIntact
  <2> QED
    BY <2>1, <2>2 DEF SnapshotsIntact
<1> QED
  BY <1>1, <1>5, <1>6, <1>9, NoAnswerType, Responded
     DEF IInv, RootFollows, LastBlock, RevertUnderWay, Reverting, SnapshotsPopped, BlocksBeingPopped
-----------------------------------------------------------------------------
(* The steps of a revert. *)

LEMMA RevertStep ==
  ASSUME IInv, NEW id \in 1..(MaxSnapshots + 1), revert(id)
  PROVE  IInv'
<1>1. /\ id \in DOMAIN snapshots
      /\ phase' = "popSnapshots"
      /\ revertTo' = [id |-> id - 1, timeAdjustment |-> snapshots[id].timeAdjustment,
                      floor |-> Height]
      /\ origin' = [chain |-> blocks, marks |-> snapshots, id |-> id]
      /\ response' = NoAnswer
      /\ UNCHANGED <<stateVars, caller, runtimeError>>
  BY DEF revert, beginRevert
<1>2. /\ blocks \in Seq(BlockType) /\ Len(blocks) \in Nat /\ Len(blocks) > 0
      /\ snapshots \in Seq(SnapshotType) /\ DOMAIN snapshots = 1..Len(snapshots)
      /\ Len(snapshots) \in Nat
  BY EmptySeq, LenProperties DEF IInv, TypeOK
<1>3. UNCHANGED <<blocks, blockLogs, transactions, stateRoot, pending_transactions, snapshots,
                  timeAdjustment, is_mining, is_mining_on_interval, stranded>>
  BY <1>1 DEF stateVars, chainVars, dbVars, minerVars
<1>4. snapshots[id].timeAdjustment \in Nat
  BY <1>1, <1>2, MarkTypes
<1>5. /\ revertTo' \in [id : Nat, timeAdjustment : Nat, floor : Nat]
      /\ origin' \in [chain : Seq(BlockType), marks : Seq(SnapshotType), id : Nat]
  BY <1>1, <1>2, <1>4 DEF Height
<1>6. TypeOK'
  BY <1>1, <1>3, <1>5, NoAnswerType DEF IInv, TypeOK
<1>7. RootFollows' /\ SnapshotsIntact'
  BY <1>3 DEF IInv, RootFollows, LastBlock, SnapshotsIntact, Height
<1>8. SubSeq(snapshots, 1, Len(snapshots)) = snapshots
  BY <1>2, SubSeqFull
<1>9. RevertUnderWay'
  BY <1>1, <1>2, <1>3, <1>8 DEF RevertUnderWay
<1>10. SnapshotsPopped' /\ BlocksBeingPopped'
  BY <1>1, <1>2, <1>3 DEF SnapshotsPopped, BlocksBeingPopped
<1> QED
  BY <1>6, <1>7, <1>9, <1>10 DEF IInv

LEMMA PopSnapshotStep ==
  ASSUME IInv, popSnapshot
  PROVE  IInv'
<1> DEFINE n == Len(snapshots)
           mark == snapshots[n]
<1>1. /\ phase = "popSnapshots" /\ n > revertTo.id
      /\ snapshots' = SubSeq(snapshots, 1, n - 1)
      /\ revertTo' = [revertTo EXCEPT !.floor = mark.blockNumber]
      /\ phase' = "popBlocks"
      /\ UNCHANGED <<blocks, blockLogs, transactions, stateRoot, pending_transactions,
                     timeAdjustment, is_mining, is_mining_on_interval,
                     caller, runtimeError, origin, response, stranded>>
  BY DEF popSnapshot, chainVars, dbVars, minerVars
<1>2. /\ snapshots \in Seq(SnapshotType) /\ n \in Nat /\ DOMAIN snapshots = 1..n
      /\ revertTo \in [id : Nat, timeAdjustment : Nat, floor : Nat]
      /\ origin.marks \in Seq(SnapshotType)
      /\ Len(origin.marks) \in Nat /\ DOMAIN origin.marks = 1..Len(origin.marks)
  BY LenProperties DEF IInv, TypeOK
<1>3. n \in 1..n /\ n - 1 \in 0..n
  BY <1>1, <1>2
<1>4. /\ snapshots' \in Seq(SnapshotType) /\ Len(snapshots') = n - 1
      /\ DOMAIN snapshots' = 1..(n - 1)
      /\ \A i \in 1..(n - 1) : snapshots'[i] = snapshots[i]
  BY <1>1, <1>2, <1>3, PrefixType, LenProperties
<1>5. mark.blockNumber \in Nat
  BY <1>2, <1>3, MarkTypes
<1>6. /\ n <= Len(origin.marks) /\ snapshots = SubSeq(origin.marks, 1, n)
      /\ revertTo.id = origin.id - 1 /\ origin.id \in DOMAIN origin.marks
      /\ revertTo.timeAdjustment = origin.marks[origin.id].timeAdjustment
  BY <1>1 DEF IInv, RevertUnderWay, Reverting
<1>7. TypeOK'
  BY <1>1, <1>2, <1>4, <1>5 DEF IInv, TypeOK
<1>8. RootFollows' /\ SnapshotsIntact'
  <2>1. SnapshotsIntact'
    BY <1>1, <1>2, <1>4 DEF IInv, SnapshotsIntact, Height
  <2> QED
    BY <1>1, <2>1 DEF IInv, RootFollows, LastBlock
<1>9. snapshots' = SubSeq(origin.marks, 1, n - 1)
  BY <1>1, <1>2, <1>3, <1>6, PrefixOfPrefix
<1>10. mark = origin.marks[n]
  BY <1>2, <1>3, <1>6, PrefixType
<1>11. RevertUnderWay'
  BY <1>1, <1>2, <1>3, <1>4, <1>6, <1>9 DEF RevertUnderWay
<1>12. /\ mark.blockNumber <= Height
       /\ mark.chain = SubSeq(blocks, 1, mark.blockNumber + 1)
       /\ \A i \in 1..(n - 1) : snapshots[i].blockNumber <= mark.blockNumber
  BY <1>2, <1>3 DEF IInv, SnapshotsIntact
<1>13. revertTo'.floor = mark.blockNumber
  BY <1>1, <1>2
<1> HIDE DEF mark, n
<1>14. BlocksBeingPopped'
  <2>1. Len(snapshots') + 1 = n /\ Len(snapshots') < Len(origin.marks)
    BY <1>2, <1>4, <1>6
  <2> QED
    BY <1>1, <1>4, <1>10, <1>12, <1>13, <2>1 DEF BlocksBeingPopped, Height
<1>15. SnapshotsPopped'
  BY <1>1 DEF SnapshotsPopped
<1> QED
  BY <1>7, <1>8, <1>11, <1>14, <1>15 DEF IInv

LEMMA PopBlockStep ==
  ASSUME IInv, revertPopsBlock
  PROVE  IInv'
<1>1. /\ phase = "popBlocks" /\ Height > revertTo.floor
      /\ transactions' = transactions \ Range(LastBlock.transactions)
      /\ blockLogs' = SubSeq(blockLogs, 1, Len(blockLogs) - 1)
      /\ blocks' = SubSeq(blocks, 1, Height)
      /\ stateRoot' = blocks[Height].stateRoot
      /\ UNCHANGED <<pending_transactions, snapshots, timeAdjustment, is_mining,
                     is_mining_on_interval, phase, caller, runtimeError, revertTo, origin,
                     response, stranded>>
  BY DEF revertPopsBlock, AboveSnapshot, popBlock, dropLastBlock, rollBackRoot, requestVars,
         minerVars
<1> DEFINE mark == origin.marks[Len(snapshots) + 1]
<1>2. /\ Len(snapshots) < Len(origin.marks)
      /\ revertTo.floor = mark.blockNumber
      /\ mark.chain = SubSeq(blocks, 1, mark.blockNumber + 1)
      /\ \A i \in DOMAIN snapshots : snapshots[i].blockNumber <= mark.blockNumber
  BY <1>1 DEF IInv, BlocksBeingPopped
<1>3. /\ blocks \in Seq(BlockType) /\ Len(blocks) \in Nat
      /\ blockLogs \in Seq(SUBSET Transactions) /\ Len(blockLogs) \in Nat
      /\ revertTo.floor \in Nat /\ snapshots \in Seq(SnapshotType)
  BY LenProperties DEF IInv, TypeOK
<1> HIDE DEF mark
<1>4. Height \in Nat /\ Height \in 1..Len(blocks) /\ Height \in 0..Len(blocks)
  BY <1>1, <1>3 DEF Height
<1>5. /\ blocks' \in Seq(BlockType) /\ Len(blocks') = Height
      /\ blocks'[Height] = blocks[Height] /\ blocks[Height] \in BlockType
  BY <1>1, <1>3, <1>4, PrefixType, ElementOfSeq
<1>6. \A m \in 0..Height : SubSeq(blocks', 1, m) = SubSeq(blocks, 1, m)
  BY <1>1, <1>3, <1>4, PrefixOfPrefix
<1>7. TypeOK'
  <2>1. blockLogs' \in Seq(SUBSET Transactions)
    <3>1. \A i \in 1..(Len(blockLogs) - 1) : blockLogs[i] \in SUBSET Transactions
      BY <1>3, ElementOfSeq
    <3> QED
      BY <1>1, <1>3, <3>1, SubSeqProperties
  <2>2. stateRoot' \in [Accounts -> Nat]
    BY <1>1, <1>5 DEF BlockType
  <2>3. blocks' # <<>>
    BY <1>4, <1>5, EmptySeq
  <2> QED
    BY <1>1, <1>5, <2>1, <2>2, <2>3 DEF IInv, TypeOK
<1>8. RootFollows'
  BY <1>1, <1>4, <1>5 DEF RootFollows, LastBlock
<1>9. Height' = Height - 1
  BY <1>5 DEF Height
<1>10. \A i \in DOMAIN snapshots :
         /\ snapshots[i].blockNumber \in Nat /\ snapshots[i].blockNumber <= Height - 1
         /\ snapshots[i].blockNumber + 1 \in 0..Height
         /\ snapshots[i].chain = SubSeq(blocks, 1, snapshots[i].blockNumber + 1)
  <2> TAKE i \in DOMAIN snapshots
  <2>1. snapshots[i].blockNumber \in Nat
    BY <1>3, MarkTypes
  <2>2. snapshots[i].chain = SubSeq(blocks, 1, snapshots[i].blockNumber + 1)
    BY DEF IInv, SnapshotsIntact
  <2>3. snapshots[i].blockNumber <= revertTo.floor
    BY <1>2
  <2> QED
    BY <1>1, <1>3, <1>4, <2>1, <2>2, <2>3
<1>11. SnapshotsIntact'
  <2>1. \A i \in DOMAIN snapshots' :
          /\ snapshots'[i].blockNumber <= Height'
          /\ snapshots'[i].chain = SubSeq(blocks', 1, snapshots'[i].blockNumber + 1)
    BY <1>1, <1>6, <1>9, <1>10
  <2> QED
    BY <1>1, <2>1 DEF IInv, SnapshotsIntact
<1>12. BlocksBeingPopped'
  <2>1. mark.blockNumber + 1 \in 0..Height /\ mark.blockNumber <= Height - 1
    BY <1>1, <1>2, <1>3, <1>4
  <2>2. mark.chain = SubSeq(blocks', 1, mark.blockNumber + 1)
    BY <1>2, <1>6, <2>1
  <2>3. mark' = mark
    BY <1>1 DEF mark
  <2> QED
    BY <1>1, <1>2, <1>9, <2>1, <2>2, <2>3 DEF BlocksBeingPopped, mark
<1>13. RevertUnderWay' /\ SnapshotsPopped'
  BY <1>1 DEF IInv, RevertUnderWay, Reverting, SnapshotsPopped
<1> QED
  BY <1>7, <1>8, <1>11, <1>12, <1>13 DEF IInv

LEMMA BlocksPoppedStep ==
  ASSUME IInv, blocksPopped
  PROVE  IInv'
<1>1. /\ phase = "popBlocks" /\ ~(Height > revertTo.floor) /\ phase' = "popSnapshots"
      /\ UNCHANGED <<blocks, blockLogs, transactions, stateRoot, pending_transactions, snapshots,
                     timeAdjustment, is_mining, is_mining_on_interval, caller, runtimeError,
                     revertTo, origin, response, stranded>>
  BY DEF blocksPopped, AboveSnapshot, backToSnapshots, stateVars, chainVars, dbVars, minerVars
<1> DEFINE mark == origin.marks[Len(snapshots) + 1]
<1>2. /\ revertTo.floor = mark.blockNumber /\ mark.blockNumber <= Height
      /\ mark.chain = SubSeq(blocks, 1, mark.blockNumber + 1)
  BY <1>1 DEF IInv, BlocksBeingPopped
<1>3. blocks \in Seq(BlockType) /\ Len(blocks) \in Nat /\ revertTo.floor \in Nat
  BY LenProperties DEF IInv, TypeOK
<1> HIDE DEF mark
<1>4. mark.blockNumber + 1 = Len(blocks)
  BY <1>1, <1>2, <1>3 DEF Height
<1>5. mark.chain = blocks
  BY <1>2, <1>3, <1>4, SubSeqFull
<1>6. SnapshotsPopped'
  BY <1>1, <1>5 DEF SnapshotsPopped, mark
<1>7. TypeOK' /\ RootFollows' /\ SnapshotsIntact'
  BY <1>1 DEF IInv, TypeOK, RootFollows, LastBlock, SnapshotsIntact, Height
<1>8. RevertUnderWay' /\ BlocksBeingPopped'
  BY <1>1 DEF IInv, RevertUnderWay, Reverting, BlocksBeingPopped
<1> QED
  BY <1>6, <1>7, <1>8 DEF IInv

LEMMA RevertDoneStep ==
  ASSUME IInv, revertDone
  PROVE  IInv'
<1>1. /\ pending_transactions' = <<>> /\ stranded' = {}
      /\ timeAdjustment' = revertTo.timeAdjustment
      /\ Respond(NoAnswer)
      /\ UNCHANGED <<blocks, blockLogs, transactions, stateRoot, snapshots, is_mining,
                     is_mining_on_interval>>
  BY DEF revertDone, clearPendingTransactions, chainVars, dbVars, minerVars
<1>2. pending_transactions' \in Seq(Transactions) /\ timeAdjustment' \in Nat
  BY <1>1, EmptySeq DEF IInv, TypeOK
<1>3. TypeOK'
  BY <1>1, <1>2, NoAnswerType, Responded DEF IInv, TypeOK
<1> QED
  BY <1>1, <1>3, NoAnswerType, Responded, ChainKept

LEMMA RestartStep ==
  ASSUME IInv, restart
  PROVE  IInv'
<1>1. /\ stateRoot' = LastBlock.stateRoot
      /\ pending_transactions' = <<>> /\ snapshots' = <<>>
      /\ timeAdjustment' = 0 /\ is_mining' = TRUE /\ stranded' = {}
      /\ Respond(NoAnswer)
      /\ UNCHANGED <<blocks, blockLogs, transactions, is_mining_on_interval>>
  BY DEF restart, dbVars
<1>2. /\ stateRoot' \in [Accounts -> Nat]
      /\ pending_transactions' \in Seq(Transactions) /\ snapshots' \in Seq(SnapshotType)
  BY <1>1, EmptySeq DEF IInv, RootFollows, TypeOK
<1>3. phase' = "idle"
  BY <1>1, NoAnswerType, Responded
<1>4. TypeOK'
  BY <1>1, <1>2, NoAnswerType, Responded DEF IInv, TypeOK
<1>5. RootFollows'
  BY <1>1 DEF RootFollows, LastBlock
<1>6. SnapshotsIntact'
  BY <1>1 DEF SnapshotsIntact
<1> QED
  BY <1>3, <1>4, <1>5, <1>6 DEF IInv, RevertUnderWay, Reverting, SnapshotsPopped, BlocksBeingPopped
-----------------------------------------------------------------------------
(* The invariant is inductive. *)

LEMMA RequestStep == IInv /\ Request => IInv'
<1> SUFFICES ASSUME IInv, Request PROVE IInv'
  OBVIOUS
<1>1. CASE \E tx \in Inputs : processTransaction(tx)
  BY <1>1, ProcessTransactionStep
<1>2. CASE rejectTransaction
  BY <1>2, RejectStep DEF rejectTransaction, Errors
<1>3. CASE startMining
  BY <1>3, StartMiningStep
<1>4. CASE stopMining
  BY <1>4, SettingStep DEF stopMining, IInv, TypeOK
<1>5. CASE \E adjustment \in 0..MaxAdjustment : svm_mine(adjustment)
  BY <1>5, MineStep
<1>6. CASE \E adjustment \in 0..MaxAdjustment : setTime(adjustment)
  <2>1. PICK adjustment \in 0..MaxAdjustment : setTime(adjustment)
    BY <1>6
  <2>2. timeAdjustment' \in Nat
    BY <2>1, BoundsAssumption DEF setTime
  <2> QED
    BY <2>1, <2>2, ClockStep DEF setTime
<1>7. CASE \E seconds \in 1..MaxAdjustment : increaseTime(seconds)
  <2>1. PICK seconds \in 1..MaxAdjustment : increaseTime(seconds)
    BY <1>7
  <2>2. timeAdjustment' \in Nat
    BY <2>1, BoundsAssumption DEF increaseTime, IInv, TypeOK
  <2> QED
    BY <2>1, <2>2, ClockStep DEF increaseTime
<1>8. CASE snapshot
  BY <1>8, SnapshotStep
<1>9. CASE \E id \in 1..(MaxSnapshots + 1) : revert(id)
  BY <1>9, RevertStep
<1>10. CASE \E id \in 1..(MaxSnapshots + 1) : revertUnknown(id)
  BY <1>10, RejectStep DEF revertUnknown, Errors
<1> QED
  BY <1>1, <1>2, <1>3, <1>4, <1>5, <1>6, <1>7, <1>8, <1>9, <1>10 DEF Request

LEMMA NextIInv == IInv /\ [Next]_vars => IInv'
<1> SUFFICES ASSUME IInv, [Next]_vars PROVE IInv'
  OBVIOUS
<1>1. CASE Request
  BY <1>1, RequestStep
<1>2. CASE Continue
  BY <1>2, ProcessBlocksTurnStep, ProcessBlocksDoneStep, PopSnapshotStep, PopBlockStep,
     BlocksPoppedStep, RevertDoneStep DEF Continue
<1>3. CASE restart
  BY <1>3, RestartStep
<1>4. CASE UNCHANGED vars
  BY <1>4 DEF vars, stateVars, chainVars, dbVars, minerVars, requestVars, IInv, TypeOK,
              RootFollows, LastBlock, SnapshotsIntact, Height, RevertUnderWay, Reverting,
              SnapshotsPopped, BlocksBeingPopped
<1> QED
  BY <1>1, <1>2, <1>3, <1>4 DEF Next

LEMMA IInvHolds == Spec => []IInv
  BY InitIInv, NextIInv, PTL DEF Spec
-----------------------------------------------------------------------------
(* Every variable of the ledger keeps its type, whatever the accounts, the payloads
   and the bounds. *)
THEOREM LedgerTypes == Spec => []TypeOK
<1>1. IInv => TypeOK
  BY DEF IInv
<1> QED
  BY <1>1, IInvHolds, PTL

(* Statemanager and BlockchainDouble agree on the state: the trie's root is the root
   of the last block, after every block, pop, failed block and restart. *)
THEOREM RootIsLastBlocks == Spec => []RootFollows
<1>1. IInv => RootFollows
  BY DEF IInv
<1> QED
  BY <1>1, IInvHolds, PTL

(* The chain below a live snapshot stays the chain it was taken of, and snapshots
   are nested. *)
THEOREM SnapshotsStayIntact == Spec => []SnapshotsIntact
<1>1. IInv => SnapshotsIntact
  BY DEF IInv
<1> QED
  BY <1>1, IInvHolds, PTL

(* The step in which a revert completes. *)
LEMMA RevertCompletes ==
  ASSUME IInv, [Next]_vars, phase = "popSnapshots", phase' = "idle", ~restart
  PROVE  revertDone
<1>1. phase' # phase
  OBVIOUS
<1>2. ~UNCHANGED vars
  BY <1>1 DEF vars, requestVars
<1>3. ~Request
  BY DEF Request, Idle, processTransaction, rejectTransaction, startMining, stopMining, svm_mine,
         setTime, increaseTime, snapshot, revert, beginRevert, revertUnknown
<1>4. ~processBlocksTurn /\ ~processBlocksDone /\ ~revertPopsBlock /\ ~blocksPopped
  BY DEF processBlocksTurn, processBlocksDone, revertPopsBlock, blocksPopped
<1>5. ~popSnapshot
  BY DEF popSnapshot
<1> QED
  BY <1>2, <1>3, <1>4, <1>5 DEF Next, Continue

(* A revert that completes, however many blocks and snapshots it popped one by one,
   leaves the chain, its state root, the clock and the snapshots as they were when
   the snapshot it names was taken, and no transaction pending. *)
THEOREM RevertsRestore == Spec => RevertRestores
<1> DEFINE Restored ==
      phase = "popSnapshots" /\ phase' = "idle" /\ response' = NoAnswer /\ ~restart =>
        LET mark == origin.marks[origin.id] IN
        /\ blocks' = mark.chain
        /\ stateRoot' = mark.chain[Len(mark.chain)].stateRoot
        /\ timeAdjustment' = mark.timeAdjustment
        /\ pending_transactions' = <<>>
        /\ snapshots' = SubSeq(origin.marks, 1, origin.id - 1)
<1>1. IInv /\ [Next]_vars => Restored
  <2> SUFFICES ASSUME IInv, [Next]_vars, phase = "popSnapshots", phase' = "idle", ~restart
               PROVE  LET mark == origin.marks[origin.id] IN
                      /\ blocks' = mark.chain
                      /\ stateRoot' = mark.chain[Len(mark.chain)].stateRoot
                      /\ timeAdjustment' = mark.timeAdjustment
                      /\ pending_transactions' = <<>>
                      /\ snapshots' = SubSeq(origin.marks, 1, origin.id - 1)
    OBVIOUS
  <2>1. revertDone
    BY RevertCompletes
  <2>2. /\ Len(snapshots) <= revertTo.id
        /\ pending_transactions' = <<>> /\ timeAdjustment' = revertTo.timeAdjustment
        /\ UNCHANGED <<blocks, stateRoot, snapshots>>
    BY <2>1 DEF revertDone, clearPendingTransactions, chainVars, dbVars
  <2>3. /\ snapshots \in Seq(SnapshotType) /\ origin.marks \in Seq(SnapshotType)
        /\ Len(snapshots) \in Nat /\ Len(origin.marks) \in Nat
        /\ DOMAIN origin.marks = 1..Len(origin.marks) /\ revertTo.id \in Nat
    BY LenProperties DEF IInv, TypeOK
  <2>4. /\ origin.id \in DOMAIN origin.marks /\ revertTo.id = origin.id - 1
        /\ revertTo.timeAdjustment = origin.marks[origin.id].timeAdjustment
        /\ revertTo.id <= Len(snapshots)
        /\ snapshots = SubSeq(origin.marks, 1, Len(snapshots))
    BY DEF IInv, RevertUnderWay, Reverting
  <2>5. Len(snapshots) = origin.id - 1 /\ Len(snapshots) + 1 = origin.id
        /\ Len(snapshots) < Len(origin.marks)
    BY <2>2, <2>3, <2>4
  <2>6. blocks = origin.marks[origin.id].chain
    BY <2>5 DEF IInv, SnapshotsPopped
  <2>7. stateRoot = blocks[Len(blocks)].stateRoot
    BY DEF IInv, RootFollows, LastBlock
  <2> QED
    BY <2>2, <2>4, <2>5, <2>6, <2>7
<1>2. IInv /\ [Next]_vars => [Restored]_vars
  BY <1>1
<1>3. Spec => [][Restored]_vars
  BY <1>2, IInvHolds, PTL DEF Spec
<1> QED
  BY <1>3 DEF RevertRestores
-----------------------------------------------------------------------------
(* Chain soundness (1): the transactions of an account on a chain. *)

(* Where the transactions of an account stand on the first b blocks of a chain. *)
PlacesOn(c, b, a) ==
  {p \in UNION {{i} \X DOMAIN c[i].transactions : i \in 1..b} :
     c[p[1]].transactions[p[2]].from = a}

LEMMA PlaceOn ==
  ASSUME NEW c, NEW b \in Nat, NEW a, NEW p
  PROVE  p \in PlacesOn(c, b, a) <=>
           \E i \in 1..b : \E j \in DOMAIN c[i].transactions :
             p = <<i, j>> /\ c[i].transactions[j].from = a
<1>1. ASSUME p \in PlacesOn(c, b, a)
      PROVE  \E i \in 1..b : \E j \in DOMAIN c[i].transactions :
               p = <<i, j>> /\ c[i].transactions[j].from = a
  <2>1. PICK i \in 1..b : p \in {i} \X DOMAIN c[i].transactions
    BY <1>1, Zenon DEF PlacesOn
  <2>2. p = <<i, p[2]>> /\ p[1] = i /\ p[2] \in DOMAIN c[i].transactions
    BY <2>1
  <2>3. c[p[1]].transactions[p[2]].from = a
    BY <1>1, Zenon DEF PlacesOn
  <2> QED
    BY <2>2, <2>3
<1>2. ASSUME NEW i \in 1..b, NEW j \in DOMAIN c[i].transactions,
             p = <<i, j>>, c[i].transactions[j].from = a
      PROVE  p \in PlacesOn(c, b, a)
  <2>1. p \in {i} \X DOMAIN c[i].transactions /\ p[1] = i /\ p[2] = j
    BY <1>2
  <2>2. p \in UNION {{k} \X DOMAIN c[k].transactions : k \in 1..b}
    BY <2>1, Zenon
  <2>3. c[p[1]].transactions[p[2]].from = a
    BY <1>2, <2>1
  <2> QED
    BY <2>2, <2>3, Zenon DEF PlacesOn
<1> QED
  BY <1>1, <1>2, Zenon

(* Chains that agree on their first b blocks have the same transactions there. *)
LEMMA SamePlaces ==
  ASSUME NEW c, NEW d, NEW b \in Nat, NEW a, \A i \in 1..b : c[i].transactions = d[i].transactions
  PROVE  PlacesOn(c, b, a) = PlacesOn(d, b, a)
<1>1. \A p : p \in PlacesOn(c, b, a) <=> p \in PlacesOn(d, b, a)
  BY PlaceOn
<1> QED
  BY <1>1

(* The transactions of a block are a sequence. *)
LEMMA BlockFields ==
  ASSUME NEW c \in Seq(BlockType), NEW i \in 1..Len(c)
  PROVE  /\ c[i] \in BlockType /\ c[i].number \in Nat
         /\ c[i].transactions \in Seq(Transactions)
         /\ c[i].stateRoot \in [Accounts -> Nat]
<1>1. c[i] \in BlockType
  BY ElementOfSeq
<1> QED
  BY <1>1 DEF BlockType

LEMMA DomainFinite ==
  ASSUME NEW S, NEW s \in Seq(S)
  PROVE  IsFiniteSet(DOMAIN s)
  BY LenProperties, FS_Interval

LEMMA PlacesFinite ==
  ASSUME NEW c \in Seq(BlockType), NEW b \in 0..Len(c), NEW a
  PROVE  IsFiniteSet(PlacesOn(c, b, a))
<1> DEFINE Rows == {{i} \X DOMAIN c[i].transactions : i \in 1..b}
           row == [i \in 1..b |-> {i} \X DOMAIN c[i].transactions]
<1>0. \A S, T : IsFiniteSet(S) /\ IsFiniteSet(T) => IsFiniteSet(S \X T)
  BY FS_Product
<1>1. b \in Nat /\ Len(c) \in Nat /\ b <= Len(c)
  BY LenProperties
<1>2. \A i \in 1..b : IsFiniteSet({i} \X DOMAIN c[i].transactions)
  <2> TAKE i \in 1..b
  <2>1. c[i].transactions \in Seq(Transactions)
    BY <1>1, BlockFields
  <2>2. IsFiniteSet(DOMAIN c[i].transactions)
    BY <2>1, DomainFinite
  <2>3. IsFiniteSet({i})
    BY FS_Singleton
  <2> QED
    BY <1>0, <2>2, <2>3, Zenon
<1>3. row \in Surjection(1..b, Rows)
  BY DEF Surjection
<1>4. IsFiniteSet(1..b)
  BY <1>1, FS_Interval
<1>5. IsFiniteSet(Rows)
  BY <1>3, <1>4, FS_Surjection
<1>6. \A R \in Rows : IsFiniteSet(R)
  BY <1>2
<1>7. IsFiniteSet(UNION Rows)
  BY <1>5, <1>6, FS_UNION
<1>8. PlacesOn(c, b, a) \in SUBSET UNION Rows
  BY Zenon DEF PlacesOn
<1> QED
  BY <1>7, <1>8, FS_Subset

(* Where the transactions of an account stand in a block. *)
PlacesIn(a, txs) == {i \in DOMAIN txs : txs[i].from = a}

LEMMA CountType ==
  ASSUME NEW txs \in Seq(Transactions), NEW a
  PROVE  /\ IsFiniteSet(PlacesIn(a, txs))
         /\ CountFrom(a, txs) = Cardinality(PlacesIn(a, txs))
         /\ CountFrom(a, txs) \in Nat
<1>1. IsFiniteSet(DOMAIN txs)
  BY DomainFinite
<1>2. PlacesIn(a, txs) \in SUBSET DOMAIN txs
  BY DEF PlacesIn
<1>3. IsFiniteSet(PlacesIn(a, txs))
  BY <1>1, <1>2, FS_Subset
<1> QED
  BY <1>3, FS_CardinalityType DEF PlacesIn, CountFrom

(* One more block has the transactions of the chain before it and its own. *)
LEMMA OneMoreBlock ==
  ASSUME NEW c \in Seq(BlockType), NEW b \in 0..(Len(c) - 1), NEW a
  PROVE  Cardinality(PlacesOn(c, b + 1, a))
           = Cardinality(PlacesOn(c, b, a)) + CountFrom(a, c[b + 1].transactions)
<1> DEFINE txs == c[b + 1].transactions
           new == {<<b + 1, j>> : j \in PlacesIn(a, txs)}
           at == [j \in PlacesIn(a, txs) |-> <<b + 1, j>>]
<1>1. Len(c) \in Nat /\ b \in Nat /\ b + 1 \in 1..Len(c) /\ b \in 0..Len(c)
  BY LenProperties
<1>2. txs \in Seq(Transactions)
  BY <1>1, BlockFields
<1>3. PlacesOn(c, b + 1, a) = PlacesOn(c, b, a) \cup new
  <2>1. ASSUME NEW p PROVE p \in PlacesOn(c, b + 1, a) <=> p \in PlacesOn(c, b, a) \cup new
    <3>1. p \in PlacesOn(c, b + 1, a) <=>
            \E i \in 1..(b + 1) : \E j \in DOMAIN c[i].transactions :
              p = <<i, j>> /\ c[i].transactions[j].from = a
      BY <1>1, PlaceOn
    <3>2. p \in PlacesOn(c, b, a) <=>
            \E i \in 1..b : \E j \in DOMAIN c[i].transactions :
              p = <<i, j>> /\ c[i].transactions[j].from = a
      BY <1>1, PlaceOn
    <3>3. p \in new <=> \E j \in DOMAIN txs : p = <<b + 1, j>> /\ txs[j].from = a
      BY DEF PlacesIn
    <3>4. 1..(b + 1) = 1..b \cup {b + 1}
      BY <1>1
    <3> QED
      BY <3>1, <3>2, <3>3, <3>4, Zenon
  <2> QED
    BY <2>1
<1>4. PlacesOn(c, b, a) \cap new = {}
  <2> SUFFICES ASSUME NEW p \in PlacesOn(c, b, a), p \in new PROVE FALSE
    OBVIOUS
  <2>1. PICK i \in 1..b : \E j \in DOMAIN c[i].transactions : p = <<i, j>>
    BY <1>1, PlaceOn
  <2>2. PICK k \in PlacesIn(a, txs) : p = <<b + 1, k>>
    OBVIOUS
  <2> QED
    BY <1>1, <2>1, <2>2
<1>5. at \in Bijection(PlacesIn(a, txs), new)
  BY DEF Bijection, Injection, Surjection, IsInjective
<1>6. IsFiniteSet(PlacesIn(a, txs)) /\ CountFrom(a, txs) = Cardinality(PlacesIn(a, txs))
      /\ CountFrom(a, txs) \in Nat
  BY <1>2, CountType
<1>7. IsFiniteSet(new) /\ Cardinality(new) = CountFrom(a, txs)
  BY <1>5, <1>6, FS_Bijection DEF ExistsBijection
<1>8. IsFiniteSet(PlacesOn(c, b, a)) /\ Cardinality(PlacesOn(c, b, a)) \in Nat
  BY <1>1, PlacesFinite, FS_CardinalityType
<1>9. Cardinality(PlacesOn(c, b, a) \cup new)
        = Cardinality(PlacesOn(c, b, a)) + Cardinality(new) - Cardinality(PlacesOn(c, b, a) \cap new)
  BY <1>7, <1>8, FS_Union
<1>10. Cardinality(PlacesOn(c, b, a) \cap new) = 0
  BY <1>4, FS_EmptySet
<1>11. Cardinality(PlacesOn(c, b + 1, a)) = Cardinality(PlacesOn(c, b, a) \cup new)
  BY <1>3, Zenon
<1> HIDE DEF new
<1> QED
  BY <1>6, <1>7, <1>8, <1>9, <1>10, <1>11
-----------------------------------------------------------------------------
(* Chain soundness (2): the invariant ChainInv and its steps. *)

(* The state root never goes down along the chain; and a transaction carries a nonce that
   the state had not reached before its block and has passed with it. *)
RootsGrow ==
  \A b, c \in DOMAIN blocks, a \in Accounts :
    b <= c => blocks[b].stateRoot[a] <= blocks[c].stateRoot[a]

NoncesInOrder ==
  \A b, c \in DOMAIN blocks : \A tx \in Range(blocks[b].transactions) :
    IF c < b THEN blocks[c].stateRoot[tx.from] <= tx.nonce
             ELSE tx.nonce < blocks[c].stateRoot[tx.from]

ChainInv == ChainIsSound /\ RootsGrow /\ NoncesInOrder

(* The first transactions of an account in a block. *)
LEMMA PlacesInPrefix ==
  ASSUME NEW txs \in Seq(Transactions), NEW n \in 0..Len(txs), NEW a
  PROVE  /\ SubSeq(txs, 1, n) \in Seq(Transactions)
         /\ PlacesIn(a, SubSeq(txs, 1, n)) = PlacesIn(a, txs) \cap 1..n
<1>1. /\ SubSeq(txs, 1, n) \in Seq(Transactions) /\ Len(SubSeq(txs, 1, n)) = n
      /\ \A i \in 1..n : SubSeq(txs, 1, n)[i] = txs[i]
  BY PrefixType
<1>2. DOMAIN SubSeq(txs, 1, n) = 1..n /\ DOMAIN txs = 1..Len(txs) /\ Len(txs) \in Nat
  BY <1>1, LenProperties
<1> QED
  BY <1>1, <1>2 DEF PlacesIn

LEMMA PrefixCount ==
  ASSUME NEW txs \in Seq(Transactions), NEW i \in DOMAIN txs
  PROVE  /\ CountFrom(txs[i].from, SubSeq(txs, 1, i - 1)) \in Nat
         /\ CountFrom(txs[i].from, SubSeq(txs, 1, i - 1)) < CountFrom(txs[i].from, txs)
<1> DEFINE a == txs[i].from
           P == PlacesIn(a, SubSeq(txs, 1, i - 1))
           Q == PlacesIn(a, txs)
<1>1. i \in 1..Len(txs) /\ Len(txs) \in Nat /\ i - 1 \in 0..Len(txs)
  BY LenProperties
<1>2. SubSeq(txs, 1, i - 1) \in Seq(Transactions) /\ P = Q \cap 1..(i - 1)
  BY <1>1, PlacesInPrefix
<1>3. /\ IsFiniteSet(Q) /\ CountFrom(a, txs) = Cardinality(Q) /\ CountFrom(a, txs) \in Nat
  BY CountType
<1>4. CountFrom(a, SubSeq(txs, 1, i - 1)) = Cardinality(P)
      /\ CountFrom(a, SubSeq(txs, 1, i - 1)) \in Nat
  BY <1>2, CountType
<1>5. i \in Q /\ i \notin P
  BY <1>1, <1>2 DEF PlacesIn
<1>6. P \in SUBSET Q
  BY <1>2
<1>7. Cardinality(P) <= Cardinality(Q) /\ (Cardinality(Q) = Cardinality(P) => Q = P)
  BY <1>3, <1>6, FS_Subset
<1> HIDE DEF P, Q, a
<1>8. Cardinality(P) # Cardinality(Q)
  BY <1>5, <1>7
<1> QED
  BY <1>3, <1>4, <1>7, <1>8 DEF a

(* What putBlock writes. *)
LEMMA Written ==
  ASSUME IInv, NEW batch \in Seq(Transactions), putBlock(batch)
  PROVE  LET n == Len(blocks)
             block == NewBlock(batch) IN
         /\ n \in Nat /\ n > 0 /\ DOMAIN blocks = 1..n
         /\ blocks' \in Seq(BlockType) /\ Len(blocks') = n + 1 /\ DOMAIN blocks' = 1..(n + 1)
         /\ \A i \in 1..n : blocks'[i] = blocks[i]
         /\ blocks'[n + 1] = block /\ block \in BlockType
         /\ block.number = n /\ block.transactions = batch
         /\ \A a \in Accounts :
              /\ stateRoot[a] \in Nat /\ CountFrom(a, batch) \in Nat
              /\ block.stateRoot[a] = stateRoot[a] + CountFrom(a, batch)
              /\ stateRoot'[a] = stateRoot[a] + CountFrom(a, batch)
              /\ stateRoot[a] = blocks[n].stateRoot[a]
<1> DEFINE n == Len(blocks)
           block == NewBlock(batch)
<1>1. TypeOK /\ blocks \in Seq(BlockType)
  BY DEF IInv, TypeOK
<1>2. n \in Nat /\ n > 0 /\ DOMAIN blocks = 1..n
  BY <1>1, LenProperties, EmptySeq DEF TypeOK
<1>3. block \in BlockType
  BY <1>1, NewBlockType
<1>4. block.number = n /\ block.transactions = batch
      /\ block.stateRoot = [a \in Accounts |-> stateRoot[a] + CountFrom(a, batch)]
  BY DEF NewBlock
<1>5. blocks' = Append(blocks, block) /\ stateRoot' = block.stateRoot
  BY Zenon DEF putBlock
<1> HIDE DEF block
<1>6. /\ blocks' \in Seq(BlockType) /\ Len(blocks') = n + 1
      /\ \A i \in 1..n : blocks'[i] = blocks[i]
      /\ blocks'[n + 1] = block
  BY <1>1, <1>3, <1>5, AppendProperties
<1>7. DOMAIN blocks' = 1..(n + 1)
  BY <1>6, LenProperties
<1>8. \A a \in Accounts : stateRoot[a] \in Nat /\ CountFrom(a, batch) \in Nat
  BY <1>1, CountType DEF TypeOK
<1>9. stateRoot = blocks[n].stateRoot
  BY DEF IInv, RootFollows, LastBlock
<1> QED
  BY <1>2, <1>3, <1>4, <1>5, <1>6, <1>7, <1>8, <1>9 DEF block

LEMMA AppendKeepsRoots ==
  ASSUME IInv, RootsCountTransactions, NEW batch \in Seq(Transactions), putBlock(batch)
  PROVE  RootsCountTransactions'
<1> DEFINE n == Len(blocks)
           block == NewBlock(batch)
<1>1. /\ n \in Nat /\ n > 0 /\ DOMAIN blocks = 1..n
      /\ blocks' \in Seq(BlockType) /\ Len(blocks') = n + 1 /\ DOMAIN blocks' = 1..(n + 1)
      /\ \A i \in 1..n : blocks'[i] = blocks[i]
      /\ blocks'[n + 1] = block /\ block.transactions = batch
  BY Written
<1>2. \A a \in Accounts :
        /\ block.stateRoot[a] = stateRoot[a] + CountFrom(a, batch)
        /\ stateRoot[a] = blocks[n].stateRoot[a]
  BY Written
<1>3. stateRoot' = block.stateRoot
  BY Zenon DEF putBlock
<1> HIDE DEF n, block
<1>4. (stateRoot = LastBlock.stateRoot)'
  BY <1>1, <1>3 DEF LastBlock
<1>5. \A b \in 1..n, a \in Accounts : blocks[b].stateRoot[a] = Cardinality(PlacesOn(blocks, b, a))
  BY <1>1 DEF RootsCountTransactions, MinedUpTo, PlacesOn
<1>6. \A b \in 1..n, a \in Accounts : PlacesOn(blocks', b, a) = PlacesOn(blocks, b, a)
  <2> TAKE b \in 1..n, a \in Accounts
  <2>1. b \in Nat /\ \A i \in 1..b : blocks'[i].transactions = blocks[i].transactions
    BY <1>1
  <2> QED
    BY <2>1, SamePlaces
<1>7. \A b \in 1..n, a \in Accounts :
        blocks'[b].stateRoot[a] = Cardinality(PlacesOn(blocks', b, a))
  <2> TAKE b \in 1..n, a \in Accounts
  <2>1. blocks'[b] = blocks[b]
    BY <1>1
  <2> QED
    BY <1>5, <1>6, <2>1
<1>8. \A a \in Accounts : blocks'[n + 1].stateRoot[a] = Cardinality(PlacesOn(blocks', n + 1, a))
  <2> TAKE a \in Accounts
  <2>1. n \in 0..(Len(blocks') - 1) /\ n \in 1..n
    BY <1>1
  <2>2. Cardinality(PlacesOn(blocks', n + 1, a))
          = Cardinality(PlacesOn(blocks', n, a)) + CountFrom(a, batch)
    BY <1>1, <2>1, OneMoreBlock
  <2>3. Cardinality(PlacesOn(blocks', n, a)) = stateRoot[a]
    BY <1>2, <1>5, <1>6, <2>1
  <2> QED
    BY <1>1, <1>2, <2>2, <2>3
<1>9. \A b \in 1..(n + 1), a \in Accounts :
        blocks'[b].stateRoot[a] = Cardinality(PlacesOn(blocks', b, a))
  <2>1. 1..(n + 1) = 1..n \cup {n + 1}
    BY <1>1
  <2> QED
    BY <1>7, <1>8, <2>1
<1> QED
  BY <1>1, <1>4, <1>9 DEF RootsCountTransactions, MinedUpTo, PlacesOn

(* The nonces of a block that the VM has run. *)
LEMMA NoncesOfBatch ==
  ASSUME IInv, NEW batch \in Seq(Transactions), RunsInVM(batch), NEW i \in DOMAIN batch
  PROVE  /\ batch[i] \in Transactions /\ batch[i].from \in Accounts /\ batch[i].nonce \in Nat
         /\ stateRoot[batch[i].from] \in Nat /\ stateRoot[batch[i].from] <= batch[i].nonce
         /\ batch[i].nonce < stateRoot[batch[i].from] + CountFrom(batch[i].from, batch)
<1>1. batch[i] \in Transactions
  BY LenProperties, ElementOfSeq
<1>2. batch[i].from \in Accounts /\ batch[i].nonce \in Nat
  BY <1>1 DEF Transactions
<1>3. stateRoot[batch[i].from] \in Nat
  BY <1>2 DEF IInv, TypeOK
<1>4. batch[i].nonce = stateRoot[batch[i].from] + CountFrom(batch[i].from, SubSeq(batch, 1, i - 1))
  BY DEF RunsInVM
<1>5. /\ CountFrom(batch[i].from, SubSeq(batch, 1, i - 1)) \in Nat
      /\ CountFrom(batch[i].from, SubSeq(batch, 1, i - 1)) < CountFrom(batch[i].from, batch)
  BY PrefixCount
<1>6. CountFrom(batch[i].from, batch) \in Nat
  BY CountType
<1> QED
  BY <1>1, <1>2, <1>3, <1>4, <1>5, <1>6

LEMMA RootTypes ==
  ASSUME IInv, NEW b \in DOMAIN blocks
  PROVE  /\ \A a \in Accounts : blocks[b].stateRoot[a] \in Nat
         /\ \A tx \in Range(blocks[b].transactions) :
              tx \in Transactions /\ tx.from \in Accounts /\ tx.nonce \in Nat
<1>1. blocks \in Seq(BlockType) /\ b \in 1..Len(blocks)
  BY LenProperties DEF IInv, TypeOK
<1>2. blocks[b].stateRoot \in [Accounts -> Nat] /\ blocks[b].transactions \in Seq(Transactions)
  BY <1>1, BlockFields
<1>3. \A tx \in Range(blocks[b].transactions) : tx \in Transactions
  BY <1>2 DEF Range
<1> QED
  BY <1>2, <1>3 DEF Transactions

LEMMA AppendKeepsNonces ==
  ASSUME IInv, RootsGrow, NoncesInOrder,
         NEW batch \in Seq(Transactions), RunsInVM(batch), putBlock(batch)
  PROVE  RootsGrow' /\ NoncesInOrder'
<1> DEFINE n == Len(blocks)
           block == NewBlock(batch)
<1>1. /\ n \in Nat /\ n > 0 /\ DOMAIN blocks = 1..n /\ DOMAIN blocks' = 1..(n + 1)
      /\ \A i \in 1..n : blocks'[i] = blocks[i]
      /\ blocks'[n + 1] = block /\ block.transactions = batch
  BY Written
<1>2. \A a \in Accounts :
        /\ stateRoot[a] \in Nat /\ CountFrom(a, batch) \in Nat
        /\ block.stateRoot[a] = stateRoot[a] + CountFrom(a, batch)
        /\ stateRoot[a] = blocks[n].stateRoot[a]
  BY Written
<1> HIDE DEF n, block
<1>3. \A b \in 1..n, a \in Accounts :
        blocks[b].stateRoot[a] \in Nat /\ blocks[b].stateRoot[a] <= stateRoot[a]
  BY <1>1, <1>2, RootTypes DEF RootsGrow
<1>4. RootsGrow'
  <2> SUFFICES ASSUME NEW b \in 1..(n + 1), NEW c \in 1..(n + 1), NEW a \in Accounts, b <= c
               PROVE  blocks'[b].stateRoot[a] <= blocks'[c].stateRoot[a]
    BY <1>1 DEF RootsGrow
  <2>1. CASE c \in 1..n
    <3>1. b \in 1..n
      BY <1>1, <2>1
    <3> QED
      BY <1>1, <2>1, <3>1 DEF RootsGrow
  <2>2. CASE c = n + 1 /\ b \in 1..n
    BY <1>1, <1>2, <1>3, <2>2
  <2>3. CASE c = n + 1 /\ b = n + 1
    BY <1>1, <1>2, <2>3
  <2> QED
    BY <1>1, <2>1, <2>2, <2>3
<1>5. \A tx \in Range(batch) :
        /\ tx.from \in Accounts /\ tx.nonce \in Nat /\ stateRoot[tx.from] <= tx.nonce
        /\ tx.nonce < stateRoot[tx.from] + CountFrom(tx.from, batch)
  BY NoncesOfBatch DEF Range
<1>6. NoncesInOrder'
  <2> SUFFICES ASSUME NEW b \in 1..(n + 1), NEW c \in 1..(n + 1),
                      NEW tx \in Range(blocks'[b].transactions)
               PROVE  IF c < b THEN blocks'[c].stateRoot[tx.from] <= tx.nonce
                               ELSE tx.nonce < blocks'[c].stateRoot[tx.from]
    BY <1>1 DEF NoncesInOrder
  <2>1. CASE b \in 1..n /\ c \in 1..n
    BY <1>1, <2>1 DEF NoncesInOrder
  <2>2. CASE b \in 1..n /\ c = n + 1
    <3>1. tx \in Range(blocks[b].transactions) /\ n \in 1..n /\ ~(n < b)
      BY <1>1, <2>2
    <3>2. tx.from \in Accounts /\ tx.nonce \in Nat
      BY <1>1, <2>2, <3>1, RootTypes
    <3>3. tx.nonce < blocks[n].stateRoot[tx.from]
      BY <1>1, <2>2, <3>1 DEF NoncesInOrder
    <3> QED
      BY <1>1, <1>2, <2>2, <3>2, <3>3
  <2>3. CASE b = n + 1 /\ c \in 1..n
    <3>1. tx \in Range(batch) /\ c < b
      BY <1>1, <2>3
    <3>2. tx.from \in Accounts /\ tx.nonce \in Nat /\ stateRoot[tx.from] <= tx.nonce
      BY <1>5, <3>1
    <3>3. blocks'[c].stateRoot[tx.from] \in Nat
          /\ blocks'[c].stateRoot[tx.from] <= stateRoot[tx.from]
      BY <1>1, <1>3, <2>3, <3>2
    <3> QED
      BY <1>2, <3>1, <3>2, <3>3
  <2>4. CASE b = n + 1 /\ c = n + 1
    <3>1. tx \in Range(batch) /\ ~(c < b)
      BY <1>1, <2>4
    <3> QED
      BY <1>1, <1>2, <1>5, <2>4, <3>1
  <2> QED
    BY <1>1, <2>1, <2>2, <2>3, <2>4
<1> QED
  BY <1>4, <1>6

(* What a transaction on the chain is. *)
LEMMA OnChainIs ==
  ASSUME NEW tx
  PROVE  tx \in OnChain <=> \E b \in DOMAIN blocks : tx \in Range(blocks[b].transactions)
  BY DEF OnChain

(* A transaction on the chain has a nonce that its account has left behind. *)
LEMMA MinedIsPast ==
  ASSUME IInv, NoncesInOrder, NEW tx \in OnChain
  PROVE  /\ tx \in Transactions /\ tx.from \in Accounts /\ tx.nonce \in Nat
         /\ stateRoot[tx.from] \in Nat /\ tx.nonce < stateRoot[tx.from]
<1>1. PICK b \in DOMAIN blocks : tx \in Range(blocks[b].transactions)
  BY OnChainIs
<1>2. tx \in Transactions /\ tx.from \in Accounts /\ tx.nonce \in Nat
  BY <1>1, RootTypes
<1>3. DOMAIN blocks = 1..Len(blocks) /\ Len(blocks) \in Nat /\ Len(blocks) # 0
  BY LenProperties, EmptySeq DEF IInv, TypeOK
<1>4. Len(blocks) \in DOMAIN blocks /\ ~(Len(blocks) < b)
  BY <1>1, <1>3
<1>5. tx.nonce < blocks[Len(blocks)].stateRoot[tx.from]
  BY <1>1, <1>4 DEF NoncesInOrder
<1>6. stateRoot = blocks[Len(blocks)].stateRoot /\ stateRoot[tx.from] \in Nat
  BY <1>2 DEF IInv, RootFollows, LastBlock, TypeOK
<1> QED
  BY <1>2, <1>5, <1>6

(* The stores after putBlock. *)
LEMMA AppendKeepsIndexes ==
  ASSUME IInv, IndexesMatchChain, NEW batch \in Seq(Transactions), putBlock(batch)
  PROVE  IndexesMatchChain'
<1> DEFINE n == Len(blocks)
           block == NewBlock(batch)
           index == [b \in {block} |-> n]
           receipts == [tx \in Range(batch) |-> ReceiptOf(block, tx)]
<1>1. /\ n \in Nat /\ n > 0 /\ DOMAIN blocks = 1..n
      /\ Len(blocks') = n + 1 /\ DOMAIN blocks' = 1..(n + 1)
      /\ \A i \in 1..n : blocks'[i] = blocks[i]
      /\ blocks'[n + 1] = block /\ block.transactions = batch /\ block.number = n
  BY Written
<1>2. /\ blockLogs' = Append(blockLogs, LogsOf(batch))
      /\ blockHashes' = WrittenOver(index, blockHashes)
      /\ transactions' = transactions \cup Range(batch)
      /\ transactionReceipts' = WrittenOver(receipts, transactionReceipts)
  BY Zenon DEF putBlock
<1>3. DOMAIN index = {block} /\ index[block] = n
  OBVIOUS
<1>4. DOMAIN receipts = Range(batch) /\ \A tx \in Range(batch) : receipts[tx] = ReceiptOf(block, tx)
  OBVIOUS
<1>5. LogsOf(batch) \in SUBSET Transactions
  BY LenProperties DEF LogsOf
<1> HIDE DEF n, block, index, receipts
<1>6. Range(blocks') = Range(blocks) \cup {block}
  <2>1. 1..(n + 1) = 1..n \cup {n + 1}
    BY <1>1
  <2> QED
    BY <1>1, <2>1 DEF Range
<1>7. \A b \in 1..n : blocks[b].number = b - 1 /\ blockHashes[blocks[b]] = b - 1
  BY <1>1 DEF IndexesMatchChain
<1>8. \A b \in 1..n : blocks[b] # block
  BY <1>1, <1>7
<1>9. /\ DOMAIN blockHashes' = Range(blocks')
      /\ \A b \in 1..(n + 1) : blockHashes'[blocks'[b]] = b - 1 /\ blocks'[b].number = b - 1
  <2>1. DOMAIN blockHashes = Range(blocks) /\ \A b \in 1..n : blocks[b] \in Range(blocks)
    BY <1>1 DEF IndexesMatchChain, Range
  <2>2. DOMAIN blockHashes' = {block} \cup Range(blocks)
        /\ \A x \in {block} \cup Range(blocks) :
             blockHashes'[x] = IF x = block THEN n ELSE blockHashes[x]
    BY <1>2, <1>3, <2>1 DEF WrittenOver
  <2>3. \A b \in 1..n : blockHashes'[blocks'[b]] = b - 1 /\ blocks'[b].number = b - 1
    BY <1>1, <1>7, <1>8, <2>1, <2>2
  <2>4. blockHashes'[blocks'[n + 1]] = n /\ blocks'[n + 1].number = n
    BY <1>1, <2>2
  <2>5. DOMAIN blockHashes' = Range(blocks')
    BY <1>6, <2>2
  <2>6. \A b \in 1..(n + 1) : b \in 1..n \/ (b = n + 1 /\ b - 1 = n)
    BY <1>1
  <2> QED
    BY <2>3, <2>4, <2>5, <2>6
<1>10. OnChain' = OnChain \cup Range(batch)
  <2>1. ASSUME NEW tx PROVE tx \in OnChain' <=> tx \in OnChain \cup Range(batch)
    <3>1. tx \in OnChain' <=> \E b \in 1..(n + 1) : tx \in Range(blocks'[b].transactions)
      BY <1>1 DEF OnChain
    <3>2. 1..(n + 1) = 1..n \cup {n + 1}
      BY <1>1
    <3>3. tx \in OnChain' <=> \/ \E b \in 1..n : tx \in Range(blocks[b].transactions)
                              \/ tx \in Range(batch)
      BY <1>1, <3>1, <3>2, Zenon
    <3> QED
      BY <1>1, <3>3, OnChainIs
  <2> QED
    BY <2>1
<1>11. /\ transactions = OnChain /\ DOMAIN transactionReceipts = OnChain
       /\ \A tx \in OnChain :
            /\ transactionReceipts[tx].block \in Range(blocks)
            /\ tx \in Range(transactionReceipts[tx].block.transactions)
            /\ transactionReceipts[tx].status = IF tx.payload.outcome = "throws" THEN 0 ELSE 1
  BY DEF IndexesMatchChain
<1>12. DOMAIN transactionReceipts' = OnChain'
       /\ \A tx \in OnChain' : transactionReceipts'[tx] =
            IF tx \in Range(batch) THEN ReceiptOf(block, tx) ELSE transactionReceipts[tx]
  <2>1. DOMAIN transactionReceipts' = Range(batch) \cup OnChain
        /\ \A tx \in Range(batch) \cup OnChain : transactionReceipts'[tx] =
             IF tx \in Range(batch) THEN receipts[tx] ELSE transactionReceipts[tx]
    BY <1>2, <1>4, <1>11 DEF WrittenOver
  <2> QED
    BY <1>4, <1>10, <2>1
<1>13. \A tx \in OnChain' :
         LET receipt == transactionReceipts'[tx] IN
         /\ receipt.block \in Range(blocks')
         /\ tx \in Range(receipt.block.transactions)
         /\ receipt.status = IF tx.payload.outcome = "throws" THEN 0 ELSE 1
  <2> TAKE tx \in OnChain'
  <2>1. CASE tx \in Range(batch)
    BY <1>1, <1>6, <1>12, <2>1 DEF ReceiptOf
  <2>2. CASE tx \notin Range(batch)
    BY <1>6, <1>10, <1>11, <1>12, <2>2
  <2> QED
    BY <2>1, <2>2
<1>14. /\ Len(blockLogs') = Len(blocks')
       /\ \A b \in 1..(n + 1) : blockLogs'[b] = LogsOf(blocks'[b].transactions)
  <2>1. blockLogs \in Seq(SUBSET Transactions) /\ Len(blockLogs) = n
    BY DEF IInv, TypeOK, IndexesMatchChain, n
  <2>2. /\ Len(blockLogs') = n + 1 /\ blockLogs'[n + 1] = LogsOf(batch)
        /\ \A b \in 1..n : blockLogs'[b] = blockLogs[b]
    BY <1>2, <1>5, <2>1, AppendProperties
  <2>3. \A b \in 1..n : blockLogs[b] = LogsOf(blocks[b].transactions)
    BY <1>1 DEF IndexesMatchChain
  <2>4. 1..(n + 1) = 1..n \cup {n + 1}
    BY <1>1
  <2>5. \A b \in 1..n : blockLogs'[b] = LogsOf(blocks'[b].transactions)
    BY <1>1, <2>2, <2>3
  <2>6. blockLogs'[n + 1] = LogsOf(blocks'[n + 1].transactions)
    BY <1>1, <2>2
  <2> QED
    BY <1>1, <2>2, <2>4, <2>5, <2>6
<1>15. transactions' = OnChain'
  BY <1>2, <1>10, <1>11
<1> QED
  BY <1>1, <1>9, <1>12, <1>13, <1>14, <1>15 DEF IndexesMatchChain

(* What popBlock leaves, above genesis. *)
LEMMA Popped ==
  ASSUME IInv, popBlock, Height > 0
  PROVE  LET n == Len(blocks) IN
         /\ n \in Nat /\ n > 1 /\ DOMAIN blocks = 1..n /\ LastBlock = blocks[n] /\ Height = n - 1
         /\ blocks' = SubSeq(blocks, 1, n - 1) /\ blocks' \in Seq(BlockType)
         /\ Len(blocks') = n - 1 /\ DOMAIN blocks' = 1..(n - 1)
         /\ \A i \in 1..(n - 1) : blocks'[i] = blocks[i]
         /\ stateRoot' = blocks[n - 1].stateRoot
<1> DEFINE n == Len(blocks)
<1>1. blocks \in Seq(BlockType)
  BY DEF IInv, TypeOK
<1>2. n \in Nat /\ n > 1 /\ DOMAIN blocks = 1..n /\ LastBlock = blocks[n] /\ Height = n - 1
  BY <1>1, LenProperties DEF Height, LastBlock
<1>3. blocks' = SubSeq(blocks, 1, n - 1) /\ stateRoot' = blocks[n - 1].stateRoot
  BY <1>2 DEF popBlock, dropLastBlock, rollBackRoot
<1>4. /\ blocks' \in Seq(BlockType) /\ Len(blocks') = n - 1
      /\ \A i \in 1..(n - 1) : blocks'[i] = blocks[i]
  BY <1>1, <1>2, <1>3, PrefixType
<1>5. DOMAIN blocks' = 1..(n - 1)
  BY <1>4, LenProperties
<1> QED
  BY <1>2, <1>3, <1>4, <1>5

LEMMA PopKeepsRoots ==
  ASSUME IInv, RootsCountTransactions, RootsGrow, NoncesInOrder, popBlock, Height > 0
  PROVE  RootsCountTransactions' /\ RootsGrow' /\ NoncesInOrder'
<1> DEFINE n == Len(blocks)
<1>1. /\ n \in Nat /\ n > 1 /\ DOMAIN blocks = 1..n
      /\ Len(blocks') = n - 1 /\ DOMAIN blocks' = 1..(n - 1)
      /\ \A i \in 1..(n - 1) : blocks'[i] = blocks[i]
      /\ stateRoot' = blocks[n - 1].stateRoot
  BY Popped
<1> HIDE DEF n
<1>2. (stateRoot = LastBlock.stateRoot)'
  BY <1>1 DEF LastBlock
<1>3. \A b \in 1..(n - 1), a \in Accounts :
        blocks[b].stateRoot[a] = Cardinality(PlacesOn(blocks, b, a))
  BY <1>1 DEF RootsCountTransactions, MinedUpTo, PlacesOn
<1>4. \A b \in 1..(n - 1), a \in Accounts :
        blocks'[b].stateRoot[a] = Cardinality(PlacesOn(blocks', b, a))
  <2> TAKE b \in 1..(n - 1), a \in Accounts
  <2>1. b \in Nat /\ \A i \in 1..b : blocks'[i].transactions = blocks[i].transactions
    BY <1>1
  <2>2. PlacesOn(blocks', b, a) = PlacesOn(blocks, b, a)
    BY <2>1, SamePlaces
  <2>3. blocks'[b] = blocks[b]
    BY <1>1
  <2> QED
    BY <1>3, <2>2, <2>3
<1>5. RootsCountTransactions'
  BY <1>1, <1>2, <1>4 DEF RootsCountTransactions, MinedUpTo, PlacesOn
<1>6. RootsGrow'
  BY <1>1 DEF RootsGrow
<1>7. NoncesInOrder'
  BY <1>1 DEF NoncesInOrder
<1> QED
  BY <1>5, <1>6, <1>7

(* A transaction is in one block only. *)
LEMMA MinedOnce ==
  ASSUME IInv, NoncesInOrder, NEW b \in DOMAIN blocks, NEW c \in DOMAIN blocks,
         NEW tx \in Range(blocks[b].transactions), tx \in Range(blocks[c].transactions)
  PROVE  b = c
<1>1. b \in Int /\ c \in Int
  BY LenProperties DEF IInv, TypeOK
<1>2. \A d \in DOMAIN blocks : blocks[d].stateRoot[tx.from] \in Nat /\ tx.nonce \in Nat
  BY RootTypes
<1>3. ~(b < c)
  BY <1>1, <1>2 DEF NoncesInOrder
<1>4. ~(c < b)
  BY <1>1, <1>2 DEF NoncesInOrder
<1> QED
  BY <1>1, <1>3, <1>4

(* popBlock takes exactly the entries of the last block out of the stores. *)
LEMMA PopKeepsIndexes ==
  ASSUME IInv, IndexesMatchChain, NoncesInOrder, popBlock, Height > 0
  PROVE  IndexesMatchChain'
<1> DEFINE n == Len(blocks)
           gone == Range(blocks[n].transactions)
<1>1. /\ n \in Nat /\ n > 1 /\ DOMAIN blocks = 1..n /\ LastBlock = blocks[n]
      /\ Len(blocks') = n - 1 /\ DOMAIN blocks' = 1..(n - 1)
      /\ \A i \in 1..(n - 1) : blocks'[i] = blocks[i]
  BY Popped
<1>2. /\ transactions' = transactions \ gone
      /\ blockLogs' = SubSeq(blockLogs, 1, Len(blockLogs) - 1)
      /\ blockHashes' = Restrict(blockHashes, DOMAIN blockHashes \ {blocks[n]})
      /\ transactionReceipts' = Restrict(transactionReceipts, DOMAIN transactionReceipts \ gone)
  BY <1>1 DEF popBlock, dropLastBlock, dropLastReceipts
<1> HIDE DEF n
<1>3. \A b \in 1..n : blocks[b].number = b - 1 /\ blockHashes[blocks[b]] = b - 1
  BY <1>1 DEF IndexesMatchChain
<1>4. \A b \in 1..(n - 1) : blocks[b] # blocks[n]
  BY <1>1, <1>3
<1>5. Range(blocks') = Range(blocks) \ {blocks[n]}
  <2>1. \A b \in 1..n : b \in 1..(n - 1) \/ b = n
    BY <1>1
  <2>2. \A b \in 1..(n - 1) : b \in 1..n
    BY <1>1
  <2>3. Range(blocks) = {blocks[b] : b \in 1..n} /\ Range(blocks') = {blocks'[b] : b \in 1..(n - 1)}
    BY <1>1 DEF Range
  <2> QED
    BY <1>1, <1>4, <2>1, <2>2, <2>3
<1>6. /\ DOMAIN blockHashes' = Range(blocks')
      /\ \A b \in 1..(n - 1) : blockHashes'[blocks'[b]] = b - 1 /\ blocks'[b].number = b - 1
  <2>1. DOMAIN blockHashes = Range(blocks) /\ \A b \in 1..n : blocks[b] \in Range(blocks)
    BY <1>1 DEF IndexesMatchChain, Range
  <2>2. /\ DOMAIN blockHashes' = Range(blocks) \ {blocks[n]}
        /\ \A x \in Range(blocks) \ {blocks[n]} : blockHashes'[x] = blockHashes[x]
    BY <1>2, <2>1 DEF Restrict
  <2>3. \A b \in 1..(n - 1) : b \in 1..n /\ blocks[b] \in Range(blocks) \ {blocks[n]}
    BY <1>1, <1>4, <2>1
  <2> QED
    BY <1>1, <1>3, <1>5, <2>2, <2>3
<1>7. OnChain' = OnChain \ gone
  <2>1. ASSUME NEW tx PROVE tx \in OnChain' <=> tx \in OnChain \ gone
    <3>1. tx \in OnChain' <=> \E b \in 1..(n - 1) : tx \in Range(blocks[b].transactions)
      BY <1>1 DEF OnChain
    <3>2. tx \in OnChain <=> \E b \in 1..n : tx \in Range(blocks[b].transactions)
      BY <1>1, OnChainIs
    <3>3. \A b \in 1..n : b \in 1..(n - 1) \/ b = n
      BY <1>1
    <3>4. n \in 1..n /\ \A b \in 1..(n - 1) : b \in 1..n /\ b # n
      BY <1>1
    <3>5. tx \in gone => \A b \in 1..(n - 1) : tx \notin Range(blocks[b].transactions)
      BY <1>1, <3>4, MinedOnce
    <3> QED
      BY <3>1, <3>2, <3>3, <3>4, <3>5
  <2> QED
    BY <2>1
<1>8. /\ transactions = OnChain /\ DOMAIN transactionReceipts = OnChain
      /\ \A tx \in OnChain :
           /\ transactionReceipts[tx].block \in Range(blocks)
           /\ tx \in Range(transactionReceipts[tx].block.transactions)
           /\ transactionReceipts[tx].status = IF tx.payload.outcome = "throws" THEN 0 ELSE 1
  BY DEF IndexesMatchChain
<1> HIDE DEF gone
<1>9. DOMAIN transactionReceipts' = OnChain'
      /\ \A tx \in OnChain' : tx \in OnChain /\ transactionReceipts'[tx] = transactionReceipts[tx]
  BY <1>2, <1>7, <1>8 DEF Restrict
<1>10. \A tx \in OnChain' :
         LET receipt == transactionReceipts'[tx] IN
         /\ receipt.block \in Range(blocks')
         /\ tx \in Range(receipt.block.transactions)
         /\ receipt.status = IF tx.payload.outcome = "throws" THEN 0 ELSE 1
  <2> TAKE tx \in OnChain'
  <2>1. tx \notin gone /\ tx \in Range(transactionReceipts[tx].block.transactions)
    BY <1>7, <1>8, <1>9
  <2>2. transactionReceipts[tx].block # blocks[n]
    BY <2>1 DEF gone
  <2> QED
    BY <1>5, <1>8, <1>9, <2>2
<1>11. /\ Len(blockLogs') = Len(blocks')
       /\ \A b \in 1..(n - 1) : blockLogs'[b] = LogsOf(blocks'[b].transactions)
  <2>1. blockLogs \in Seq(SUBSET Transactions) /\ Len(blockLogs) = n
    BY DEF IInv, TypeOK, IndexesMatchChain, n
  <2>2. n - 1 \in 0..n
    BY <1>1
  <2>3. /\ Len(blockLogs') = n - 1
        /\ \A b \in 1..(n - 1) : blockLogs'[b] = blockLogs[b]
    BY <1>2, <2>1, <2>2, PrefixType
  <2>4. \A b \in 1..n : blockLogs[b] = LogsOf(blocks[b].transactions)
    BY <1>1 DEF IndexesMatchChain
  <2> QED
    BY <1>1, <2>3, <2>4
<1>12. transactions' = OnChain'
  BY <1>2, <1>7, <1>8
<1> QED
  BY <1>1, <1>6, <1>9, <1>10, <1>11, <1>12 DEF IndexesMatchChain

(* processNextBlock puts a block when the VM runs it, and otherwise leaves the chain alone. *)
LEMMA VerdictOfBatch ==
  ASSUME NEW batch
  PROVE  /\ Verdict(batch) \in Errors
         /\ Verdict(batch) \in {"none", "runtime error"} => RunsInVM(batch)
         /\ Verdict(batch) = "runtime error" => Throwing(batch) # {}
         /\ Verdict(batch) = "vm error" => ~RunsInVM(batch)
         /\ Verdict(batch) \notin {"none", "runtime error", "vm error"} =>
              batch = <<>> /\ pending_transactions # <<>>
  BY DEF Verdict, Errors

LEMMA BlockOrNone ==
  ASSUME IInv, NEW order \in sortByPriceAndNonce, NEW count \in 0..Len(pending_transactions),
         processNextBlock(order, count)
  PROVE  LET batch == SubSeq(order, 1, count) IN
         /\ batch \in Seq(Transactions)
         /\ \/ /\ Verdict(batch) \in {"none", "runtime error"}
               /\ RunsInVM(batch) /\ putBlock(batch)
            \/ /\ Verdict(batch) \notin {"none", "runtime error"}
               /\ UNCHANGED chainVars
<1> DEFINE batch == SubSeq(order, 1, count)
<1>1. batch \in Seq(Transactions)
  BY NextBlockEffect DEF IInv
<1>2. \/ Verdict(batch) \in {"none", "runtime error"} /\ putBlock(batch)
      \/ Verdict(batch) \notin {"none", "runtime error"} /\ UNCHANGED chainVars
  BY Zenon DEF processNextBlock
<1> HIDE DEF batch
<1>3. Verdict(batch) \in {"none", "runtime error"} => RunsInVM(batch)
  BY VerdictOfBatch
<1> QED
  BY <1>1, <1>2, <1>3, Zenon DEF batch

(* The three things a step may do to the chain. *)
LEMMA StepsOfChain ==
  ASSUME IInv, [Next]_vars
  PROVE  \/ UNCHANGED chainVars
         \/ \E batch \in Seq(Transactions) : RunsInVM(batch) /\ putBlock(batch)
         \/ popBlock /\ Height > 0
<1>1. CASE processBlocksTurn
  <2>1. PICK order \in sortByPriceAndNonce :
          \E count \in 0..Len(pending_transactions) : processNextBlock(order, count)
    BY <1>1, Zenon DEF processBlocksTurn
  <2>2. PICK count \in 0..Len(pending_transactions) : processNextBlock(order, count)
    BY <2>1
  <2> QED
    BY <2>2, BlockOrNone, Zenon
<1>2. CASE \E adjustment \in 0..MaxAdjustment : svm_mine(adjustment)
  <2>1. PICK order \in sortByPriceAndNonce :
          \E count \in 0..Len(pending_transactions) : processNextBlock(order, count)
    BY <1>2, Zenon DEF svm_mine
  <2>2. PICK count \in 0..Len(pending_transactions) : processNextBlock(order, count)
    BY <2>1
  <2> QED
    BY <2>2, BlockOrNone, Zenon
<1>3. CASE revertPopsBlock
  <2>1. popBlock /\ Height > revertTo.floor
    BY <1>3 DEF revertPopsBlock, AboveSnapshot
  <2>2. revertTo.floor \in Nat /\ Height \in Int
    BY LenProperties DEF IInv, TypeOK, Height
  <2> QED
    BY <2>1, <2>2
<1>4. CASE restart
  <2>1. stateRoot' = stateRoot /\ UNCHANGED dbVars
    BY <1>4 DEF restart, IInv, RootFollows
  <2> QED
    BY <2>1 DEF chainVars
<1>5. CASE \/ \E tx \in Inputs : processTransaction(tx)
           \/ rejectTransaction \/ startMining \/ stopMining \/ snapshot
           \/ \E adjustment \in 0..MaxAdjustment : setTime(adjustment)
           \/ \E seconds \in 1..MaxAdjustment : increaseTime(seconds)
           \/ \E id \in 1..(MaxSnapshots + 1) : revert(id) \/ revertUnknown(id)
  BY <1>5 DEF processTransaction, rejectTransaction, startMining, stopMining, snapshot, setTime,
              increaseTime, revert, beginRevert, revertUnknown, stateVars
<1>6. CASE processBlocksDone \/ popSnapshot \/ blocksPopped \/ revertDone
  BY <1>6 DEF processBlocksDone, popSnapshot, blocksPopped, revertDone, stateVars
<1>7. CASE UNCHANGED vars
  BY <1>7 DEF vars, stateVars
<1> QED
  BY <1>1, <1>2, <1>3, <1>4, <1>5, <1>6, <1>7 DEF Next, Request, Continue

LEMMA InitChainInv == Init => ChainInv
<1> SUFFICES ASSUME Init PROVE ChainInv
  OBVIOUS
<1>1. /\ Len(blocks) = 1 /\ DOMAIN blocks = {1} /\ blocks[1] = Genesis /\ LastBlock = Genesis
      /\ Range(blocks) = {Genesis}
  BY DEF Init, LastBlock, Range
<1>2. Genesis.number = 0 /\ Genesis.transactions = <<>> /\ \A a \in Accounts : Genesis.stateRoot[a] = 0
  BY DEF Genesis
<1>3. OnChain = {}
  <2>1. DOMAIN <<>> = {} /\ Range(<<>>) = {}
    BY DEF Range
  <2> QED
    BY <1>1, <1>2, <2>1, OnChainIs
<1>4. IndexesMatchChain
  <2>1. blockHashes = [b \in {Genesis} |-> 0] /\ blockLogs = << {} >> /\ transactions = {}
        /\ transactionReceipts = <<>>
    BY DEF Init
  <2>2. DOMAIN blockHashes = {Genesis} /\ blockHashes[Genesis] = 0
    BY <2>1
  <2>3. Len(blockLogs) = 1 /\ blockLogs[1] = {} /\ DOMAIN transactionReceipts = {}
    BY <2>1
  <2>4. LogsOf(<<>>) = {}
    BY DEF LogsOf
  <2> QED
    BY <1>1, <1>2, <1>3, <2>1, <2>2, <2>3, <2>4 DEF IndexesMatchChain
<1>5. \A a \in Accounts : MinedUpTo(1, a) = 0
  <2> TAKE a \in Accounts
  <2>1. \A p : p \notin PlacesOn(blocks, 1, a)
    BY <1>1, <1>2, PlaceOn
  <2>2. PlacesOn(blocks, 1, a) = {}
    BY <2>1
  <2>3. MinedUpTo(1, a) = Cardinality(PlacesOn(blocks, 1, a))
    BY DEF MinedUpTo, PlacesOn
  <2> QED
    BY <2>2, <2>3, FS_EmptySet
<1>6. RootsCountTransactions
  BY <1>1, <1>2, <1>5 DEF RootsCountTransactions, Init
<1>7. RootsGrow /\ NoncesInOrder
  BY <1>1, <1>2 DEF RootsGrow, NoncesInOrder, Range
<1> QED
  BY <1>4, <1>6, <1>7 DEF ChainInv, ChainIsSound

LEMMA NextChainInv ==
  ASSUME IInv, ChainInv, [Next]_vars
  PROVE  ChainInv'
<1>1. CASE UNCHANGED chainVars
  <2>1. UNCHANGED <<blocks, blockLogs, blockHashes, transactions, transactionReceipts, stateRoot>>
    BY <1>1 DEF chainVars, dbVars
  <2>2. RootsGrow' /\ NoncesInOrder'
    BY <2>1 DEF ChainInv, RootsGrow, NoncesInOrder
  <2>3. \A b, a : MinedUpTo(b, a)' = MinedUpTo(b, a)
    BY <2>1 DEF MinedUpTo
  <2>4. RootsCountTransactions'
    BY <2>1, <2>3 DEF ChainInv, ChainIsSound, RootsCountTransactions, LastBlock
  <2>5. OnChain' = OnChain
    BY <2>1 DEF OnChain
  <2>6. IndexesMatchChain'
    BY <2>1, <2>5 DEF ChainInv, ChainIsSound, IndexesMatchChain
  <2> QED
    BY <2>2, <2>4, <2>6 DEF ChainInv, ChainIsSound
<1>2. ASSUME NEW batch \in Seq(Transactions), RunsInVM(batch), putBlock(batch)
      PROVE  ChainInv'
  BY <1>2, AppendKeepsRoots, AppendKeepsNonces, AppendKeepsIndexes DEF ChainInv, ChainIsSound
<1>3. CASE popBlock /\ Height > 0
  BY <1>3, PopKeepsRoots, PopKeepsIndexes DEF ChainInv, ChainIsSound
<1> QED
  BY <1>1, <1>2, <1>3, StepsOfChain, Zenon

LEMMA ChainInvHolds == Spec => []ChainInv
<1>1. IInv /\ ChainInv /\ [Next]_vars => ChainInv'
  BY NextChainInv
<1> QED
  BY <1>1, InitChainInv, IInvHolds, PTL DEF Spec

(* The five stores that putBlock and popBlock write and the state roots say what the blocks
   of the chain say, after every block, failure, pop and restart. *)
THEOREM SoundChain == Spec => []ChainIsSound
<1>1. ChainInv => ChainIsSound
  BY DEF ChainInv
<1> QED
  BY <1>1, ChainInvHolds, PTL
-----------------------------------------------------------------------------
(* What a revert leaves standing. *)

(* While a revert runs, the chain is the part of the one it began with that goes down to
   the last snapshot taken off at most. *)
RevertGoesDown ==
  Reverting =>
    /\ Len(blocks) <= Len(origin.chain)
    /\ blocks = SubSeq(origin.chain, 1, Len(blocks))
    /\ Len(snapshots) = Len(origin.marks) => blocks = origin.chain

(* The steps after which a revert is under way. *)
LEMMA StepsOfRevert ==
  ASSUME [Next]_vars, Reverting'
  PROVE  \/ Idle /\ \E id \in 1..(MaxSnapshots + 1) : revert(id)
         \/ popSnapshot \/ revertPopsBlock \/ blocksPopped
         \/ UNCHANGED vars
<1>1. phase' # "idle" /\ phase' # "processBlocks"
  BY DEF Reverting
<1>2. \A answer : ~Respond(answer)
  BY <1>1 DEF Respond
<1>3. \A tx : ~StartProcessBlocks(tx)
  BY <1>1 DEF StartProcessBlocks
<1>4. ~processBlocksTurn
  <2>1. SUFFICES ASSUME processBlocksTurn, phase' = phase PROVE FALSE
    BY <1>2, Zenon DEF processBlocksTurn
  <2> QED
    BY <1>1, <2>1 DEF processBlocksTurn
<1>5. ~(\E adjustment \in 0..MaxAdjustment : svm_mine(adjustment))
  BY <1>2, Zenon DEF svm_mine
<1>6. ~(\E tx \in Inputs : processTransaction(tx)) /\ ~rejectTransaction /\ ~startMining
      /\ ~stopMining /\ ~snapshot /\ ~processBlocksDone /\ ~revertDone /\ ~restart
  BY <1>2, <1>3, Zenon DEF processTransaction, rejectTransaction, startMining, stopMining, snapshot,
     processBlocksDone, revertDone, restart
<1>7. /\ ~(\E adjustment \in 0..MaxAdjustment : setTime(adjustment))
      /\ ~(\E seconds \in 1..MaxAdjustment : increaseTime(seconds))
      /\ ~(\E id \in 1..(MaxSnapshots + 1) : revertUnknown(id))
  BY <1>2, Zenon DEF setTime, increaseTime, revertUnknown
<1>8. \A id \in 1..(MaxSnapshots + 1) : revert(id) => Idle
  BY DEF revert, beginRevert
<1> QED
  BY <1>4, <1>5, <1>6, <1>7, <1>8, Zenon DEF Next, Request, Continue

LEMMA BeginsAtOnce ==
  ASSUME IInv, NEW id \in 1..(MaxSnapshots + 1), revert(id)
  PROVE  /\ ~Reverting /\ Reverting'
         /\ origin' = [chain |-> blocks, marks |-> snapshots, id |-> id]
         /\ UNCHANGED <<blocks, snapshots>>
  BY DEF revert, beginRevert, Reverting, Idle, stateVars, chainVars, dbVars

LEMMA NextRevertGoesDown ==
  ASSUME IInv, RevertGoesDown, [Next]_vars
  PROVE  RevertGoesDown'
<1> SUFFICES ASSUME Reverting' PROVE RevertGoesDown'
  BY DEF RevertGoesDown
<1>1. blocks \in Seq(BlockType) /\ Len(blocks) \in Nat /\ Len(snapshots) \in Nat
      /\ origin.chain \in Seq(BlockType) /\ Len(origin.chain) \in Nat
  BY LenProperties DEF IInv, TypeOK
<1>2. ASSUME NEW id \in 1..(MaxSnapshots + 1), revert(id)
      PROVE  RevertGoesDown'
  <2>1. origin'.chain = blocks /\ UNCHANGED <<blocks, snapshots>>
    BY <1>2, BeginsAtOnce
  <2>2. SubSeq(blocks, 1, Len(blocks)) = blocks
    BY <1>1, SubSeqFull
  <2> QED
    BY <1>1, <2>1, <2>2 DEF RevertGoesDown
<1>3. CASE popSnapshot
  <2>1. /\ phase = "popSnapshots" /\ Len(snapshots) > revertTo.id
        /\ snapshots' = SubSeq(snapshots, 1, Len(snapshots) - 1)
        /\ UNCHANGED <<blocks, origin>>
    BY <1>3 DEF popSnapshot, chainVars, dbVars
  <2>2. Reverting /\ Len(snapshots) <= Len(origin.marks) /\ revertTo.id \in Nat
        /\ snapshots \in Seq(SnapshotType)
    BY <2>1 DEF Reverting, IInv, RevertUnderWay, TypeOK
  <2>3. Len(snapshots) - 1 \in 0..Len(snapshots)
    BY <1>1, <2>1, <2>2
  <2>4. Len(snapshots') = Len(snapshots) - 1
    BY <2>1, <2>2, <2>3, PrefixType
  <2>5. Len(origin.marks) \in Nat
    BY LenProperties DEF IInv, TypeOK
  <2>6. Len(snapshots') # Len(origin.marks)
    BY <1>1, <2>2, <2>4, <2>5
  <2> QED
    BY <2>1, <2>2, <2>6 DEF RevertGoesDown
<1>4. CASE revertPopsBlock
  <2>1. /\ phase = "popBlocks" /\ popBlock /\ Height > revertTo.floor
        /\ UNCHANGED <<snapshots, origin>>
    BY <1>4 DEF revertPopsBlock, AboveSnapshot, requestVars
  <2>2. /\ Reverting /\ Len(snapshots) < Len(origin.marks) /\ revertTo.floor \in Nat
        /\ Height \in Int
    BY <1>1, <2>1 DEF Reverting, IInv, BlocksBeingPopped, TypeOK, Height
  <2>3. Height > 0
    BY <2>1, <2>2
  <2>4. blocks' = SubSeq(blocks, 1, Len(blocks) - 1) /\ Len(blocks') = Len(blocks) - 1
        /\ Len(blocks) > 1
    BY <2>1, <2>3, Popped
  <2>5. Len(blocks) <= Len(origin.chain) /\ blocks = SubSeq(origin.chain, 1, Len(blocks))
    BY <2>2 DEF RevertGoesDown
  <2>6. Len(blocks) \in 0..Len(origin.chain) /\ Len(blocks) - 1 \in 0..Len(blocks)
    BY <1>1, <2>4, <2>5
  <2>7. SubSeq(SubSeq(origin.chain, 1, Len(blocks)), 1, Len(blocks) - 1)
          = SubSeq(origin.chain, 1, Len(blocks) - 1)
    BY <1>1, <2>6, PrefixOfPrefix
  <2>8. Len(origin.marks) \in Nat
    BY LenProperties DEF IInv, TypeOK
  <2> QED
    BY <1>1, <2>1, <2>2, <2>4, <2>5, <2>7, <2>8 DEF RevertGoesDown
<1>5. CASE blocksPopped
  BY <1>5 DEF blocksPopped, stateVars, chainVars, dbVars, RevertGoesDown, Reverting
<1>6. CASE UNCHANGED vars
  BY <1>6 DEF vars, stateVars, chainVars, dbVars, requestVars, RevertGoesDown, Reverting
<1> QED
  BY <1>2, <1>3, <1>4, <1>5, <1>6, StepsOfRevert
-----------------------------------------------------------------------------
(* What TransactionsOf and ChainsOf make of sequences. *)

LEMMA TransactionsOfIs ==
  ASSUME NEW c \in Seq(BlockType)
  PROVE  /\ TransactionsOf(c) \in Seq(Seq(Transactions))
         /\ Len(TransactionsOf(c)) = Len(c)
         /\ \A i \in 1..Len(c) : TransactionsOf(c)[i] = c[i].transactions
<1>1. DOMAIN c = 1..Len(c) /\ Len(c) \in Nat
  BY LenProperties
<1>2. \A i \in 1..Len(c) : c[i].transactions \in Seq(Transactions)
  BY BlockFields
<1>3. TransactionsOf(c) \in [1..Len(c) -> Seq(Transactions)]
  BY <1>1, <1>2 DEF TransactionsOf
<1>4. TransactionsOf(c) \in Seq(Seq(Transactions))
  BY <1>1, <1>3, SeqDef
<1>5. 1..Len(TransactionsOf(c)) = 1..Len(c) /\ Len(TransactionsOf(c)) \in Nat
  BY <1>3, <1>4, LenProperties
<1>6. Len(TransactionsOf(c)) = Len(c)
  BY <1>1, <1>5
<1> QED
  BY <1>1, <1>4, <1>6 DEF TransactionsOf

LEMMA TransactionsOfPrefix ==
  ASSUME NEW c \in Seq(BlockType), NEW n \in 0..Len(c)
  PROVE  TransactionsOf(SubSeq(c, 1, n)) = SubSeq(TransactionsOf(c), 1, n)
<1> DEFINE d == SubSeq(c, 1, n)
<1>1. d \in Seq(BlockType) /\ Len(d) = n /\ \A i \in 1..n : d[i] = c[i]
  BY PrefixType
<1>2. /\ TransactionsOf(c) \in Seq(Seq(Transactions)) /\ Len(TransactionsOf(c)) = Len(c)
      /\ \A i \in 1..Len(c) : TransactionsOf(c)[i] = c[i].transactions
  BY TransactionsOfIs
<1>3. /\ TransactionsOf(d) \in Seq(Seq(Transactions)) /\ Len(TransactionsOf(d)) = n
      /\ \A i \in 1..n : TransactionsOf(d)[i] = d[i].transactions
  BY <1>1, TransactionsOfIs
<1>4. /\ SubSeq(TransactionsOf(c), 1, n) \in Seq(Seq(Transactions))
      /\ Len(SubSeq(TransactionsOf(c), 1, n)) = n
      /\ \A i \in 1..n : SubSeq(TransactionsOf(c), 1, n)[i] = TransactionsOf(c)[i]
  BY <1>2, PrefixType
<1>5. Len(c) \in Nat /\ n \in Nat /\ n <= Len(c)
  BY LenProperties
<1>6. \A i \in 1..n : TransactionsOf(d)[i] = SubSeq(TransactionsOf(c), 1, n)[i]
  BY <1>1, <1>2, <1>3, <1>4, <1>5
<1> HIDE DEF d
<1>7. TransactionsOf(d) = SubSeq(TransactionsOf(c), 1, n)
  BY <1>3, <1>4, <1>6, SeqEqual
<1> QED
  BY <1>7 DEF d

LEMMA ChainsOfIs ==
  ASSUME NEW marks \in Seq(SnapshotType)
  PROVE  /\ ChainsOf(marks) \in Seq(Seq(Seq(Transactions)))
         /\ Len(ChainsOf(marks)) = Len(marks) /\ DOMAIN ChainsOf(marks) = DOMAIN marks
         /\ \A i \in 1..Len(marks) : ChainsOf(marks)[i] = TransactionsOf(marks[i].chain)
<1>1. DOMAIN marks = 1..Len(marks) /\ Len(marks) \in Nat
  BY LenProperties
<1>2. \A i \in 1..Len(marks) : TransactionsOf(marks[i].chain) \in Seq(Seq(Transactions))
  BY <1>1, MarkTypes, TransactionsOfIs
<1>3. ChainsOf(marks) \in [1..Len(marks) -> Seq(Seq(Transactions))]
  BY <1>1, <1>2 DEF ChainsOf
<1>4. ChainsOf(marks) \in Seq(Seq(Seq(Transactions)))
  BY <1>1, <1>3, SeqDef
<1>5. 1..Len(ChainsOf(marks)) = 1..Len(marks) /\ Len(ChainsOf(marks)) \in Nat
  BY <1>3, <1>4, LenProperties
<1>6. Len(ChainsOf(marks)) = Len(marks)
  BY <1>1, <1>5
<1> QED
  BY <1>1, <1>4, <1>6 DEF ChainsOf

LEMMA ChainsOfPrefix ==
  ASSUME NEW marks \in Seq(SnapshotType), NEW n \in 0..Len(marks)
  PROVE  ChainsOf(SubSeq(marks, 1, n)) = SubSeq(ChainsOf(marks), 1, n)
<1> DEFINE older == SubSeq(marks, 1, n)
<1>1. older \in Seq(SnapshotType) /\ Len(older) = n /\ \A i \in 1..n : older[i] = marks[i]
  BY PrefixType
<1>2. /\ ChainsOf(marks) \in Seq(Seq(Seq(Transactions))) /\ Len(ChainsOf(marks)) = Len(marks)
      /\ \A i \in 1..Len(marks) : ChainsOf(marks)[i] = TransactionsOf(marks[i].chain)
  BY ChainsOfIs
<1>3. /\ ChainsOf(older) \in Seq(Seq(Seq(Transactions))) /\ Len(ChainsOf(older)) = n
      /\ \A i \in 1..n : ChainsOf(older)[i] = TransactionsOf(older[i].chain)
  BY <1>1, ChainsOfIs
<1>4. /\ SubSeq(ChainsOf(marks), 1, n) \in Seq(Seq(Seq(Transactions)))
      /\ Len(SubSeq(ChainsOf(marks), 1, n)) = n
      /\ \A i \in 1..n : SubSeq(ChainsOf(marks), 1, n)[i] = ChainsOf(marks)[i]
  BY <1>2, PrefixType
<1>5. Len(marks) \in Nat /\ n \in Nat /\ n <= Len(marks)
  BY LenProperties
<1>6. \A i \in 1..n : ChainsOf(older)[i] = SubSeq(ChainsOf(marks), 1, n)[i]
  BY <1>1, <1>2, <1>3, <1>4, <1>5
<1> HIDE DEF older
<1>7. ChainsOf(older) = SubSeq(ChainsOf(marks), 1, n)
  BY <1>3, <1>4, <1>6, SeqEqual
<1> QED
  BY <1>7 DEF older
-----------------------------------------------------------------------------
(* The refinement of Timeline. *)

(* The chain and the marks that Timeline speaks of. *)
PromisedChain == TransactionsOf(IF Reverting THEN origin.chain ELSE blocks)
PromisedMarks == ChainsOf(IF Reverting THEN origin.marks ELSE snapshots)

(* Timeline counts with the library's cardinality. *)
LEMMA SameCardinality ==
  ASSUME NEW S
  PROVE  Promised!Cardinality(S) = Cardinality(S)
  BY Zenon DEF Promised!Cardinality, Cardinality

(* The nonces of Timeline are counted as the state root counts them. *)
LEMMA SentIsRoot ==
  ASSUME IInv, RootsCountTransactions, NEW a \in Accounts
  PROVE  Promised!SentBy(a, TransactionsOf(blocks)) = stateRoot[a]
<1> DEFINE c == TransactionsOf(blocks)
           n == Len(blocks)
           sent == {p \in UNION {{i} \X DOMAIN c[i] : i \in DOMAIN c} : c[p[1]][p[2]].from = a}
<1>1. blocks \in Seq(BlockType) /\ n \in Nat /\ n # 0 /\ DOMAIN blocks = 1..n
  BY LenProperties, EmptySeq DEF IInv, TypeOK
<1>2. DOMAIN c = 1..n /\ \A i \in 1..n : c[i] = blocks[i].transactions
  BY <1>1, TransactionsOfIs DEF TransactionsOf
<1> HIDE DEF c
<1>3. {{i} \X DOMAIN c[i] : i \in DOMAIN c} = {{i} \X DOMAIN blocks[i].transactions : i \in 1..n}
  BY <1>2
<1>4. \A p \in UNION {{i} \X DOMAIN blocks[i].transactions : i \in 1..n} :
        c[p[1]] = blocks[p[1]].transactions
  BY <1>2
<1>5. sent = PlacesOn(blocks, n, a)
  BY <1>3, <1>4 DEF PlacesOn
<1>6. Promised!SentBy(a, c) = Cardinality(sent)
  BY SameCardinality DEF Promised!SentBy
<1>7. Cardinality(PlacesOn(blocks, n, a)) = blocks[n].stateRoot[a]
  BY <1>1 DEF RootsCountTransactions, MinedUpTo, PlacesOn
<1>8. stateRoot[a] = blocks[n].stateRoot[a]
  BY DEF RootsCountTransactions, LastBlock
<1> QED
  BY <1>5, <1>6, <1>7, <1>8 DEF c

LEMMA BlockContinues ==
  ASSUME IInv, RootsCountTransactions, NEW batch \in Seq(Transactions), RunsInVM(batch)
  PROVE  Promised!NoncesContinue(batch, TransactionsOf(blocks))
<1> SUFFICES ASSUME NEW i \in DOMAIN batch
             PROVE  batch[i].nonce = Promised!SentBy(batch[i].from, TransactionsOf(blocks))
                      + Cardinality({j \in 1..(i - 1) : batch[j].from = batch[i].from})
  BY SameCardinality DEF Promised!NoncesContinue
<1> DEFINE a == batch[i].from
<1>1. i \in 1..Len(batch) /\ Len(batch) \in Nat /\ i - 1 \in 0..Len(batch)
      /\ DOMAIN batch = 1..Len(batch)
  BY LenProperties
<1>2. batch[i].from \in Accounts
  BY NoncesOfBatch
<1>3. batch[i].nonce = stateRoot[a] + CountFrom(a, SubSeq(batch, 1, i - 1))
  BY DEF RunsInVM
<1>4. PlacesIn(a, SubSeq(batch, 1, i - 1)) = {j \in 1..(i - 1) : batch[j].from = a}
      /\ SubSeq(batch, 1, i - 1) \in Seq(Transactions)
  <2>1. SubSeq(batch, 1, i - 1) \in Seq(Transactions)
        /\ PlacesIn(a, SubSeq(batch, 1, i - 1)) = PlacesIn(a, batch) \cap 1..(i - 1)
    BY <1>1, PlacesInPrefix
  <2> QED
    BY <1>1, <2>1 DEF PlacesIn
<1>5. CountFrom(a, SubSeq(batch, 1, i - 1)) = Cardinality(PlacesIn(a, SubSeq(batch, 1, i - 1)))
  BY <1>4, CountType
<1>6. CountFrom(a, SubSeq(batch, 1, i - 1)) = Cardinality({j \in 1..(i - 1) : batch[j].from = a})
  BY <1>4, <1>5, Zenon
<1> QED
  BY <1>2, <1>3, <1>6, SentIsRoot

LEMMA PrefixIsPrefix ==
  ASSUME NEW c \in Seq(BlockType), NEW n \in 0..Len(c)
  PROVE  Promised!IsPrefixOf(TransactionsOf(SubSeq(c, 1, n)), TransactionsOf(c))
<1>1. SubSeq(c, 1, n) \in Seq(BlockType) /\ Len(SubSeq(c, 1, n)) = n
  BY PrefixType
<1>2. TransactionsOf(SubSeq(c, 1, n)) = SubSeq(TransactionsOf(c), 1, n)
  BY TransactionsOfPrefix
<1>3. Len(TransactionsOf(SubSeq(c, 1, n))) = n /\ Len(TransactionsOf(c)) = Len(c)
  BY <1>1, TransactionsOfIs
<1>4. n <= Len(c)
  BY LenProperties
<1> QED
  BY <1>2, <1>3, <1>4 DEF Promised!IsPrefixOf

(* A block extends the promised chain. *)
LEMMA PutExtends ==
  ASSUME IInv, ChainInv, ~Reverting, ~Reverting', UNCHANGED snapshots,
         NEW batch \in Seq(Transactions), RunsInVM(batch), putBlock(batch)
  PROVE  Promised!Extend
<1> DEFINE n == Len(blocks)
<1>1. /\ n \in Nat /\ blocks' \in Seq(BlockType) /\ Len(blocks') = n + 1
      /\ blocks'[n + 1].transactions = batch
      /\ \A i \in 1..n : blocks'[i] = blocks[i]
  BY Written
<1>2. blocks \in Seq(BlockType) /\ n \in 0..Len(blocks')
  BY <1>1 DEF IInv, TypeOK
<1>3. SubSeq(blocks', 1, n) = blocks
  <2>1. /\ SubSeq(blocks', 1, n) \in Seq(BlockType) /\ Len(SubSeq(blocks', 1, n)) = n
        /\ \A i \in 1..n : SubSeq(blocks', 1, n)[i] = blocks'[i]
    BY <1>1, <1>2, PrefixType
  <2> QED
    BY <1>1, <1>2, <2>1, SeqEqual
<1>4. Promised!IsPrefixOf(TransactionsOf(blocks), TransactionsOf(blocks'))
  BY <1>1, <1>2, <1>3, PrefixIsPrefix
<1>5. /\ Len(TransactionsOf(blocks')) = n + 1 /\ Len(TransactionsOf(blocks)) = n
      /\ TransactionsOf(blocks')[n + 1] = batch
  BY <1>1, <1>2, TransactionsOfIs
<1>6. Promised!NoncesContinue(batch, TransactionsOf(blocks))
  BY BlockContinues DEF ChainInv, ChainIsSound
<1>7. /\ PromisedChain = TransactionsOf(blocks) /\ PromisedChain' = TransactionsOf(blocks')
      /\ PromisedMarks' = PromisedMarks
  BY DEF PromisedChain, PromisedMarks
<1>8. /\ Len(PromisedChain') = Len(PromisedChain) + 1
      /\ Promised!IsPrefixOf(PromisedChain, PromisedChain')
      /\ Promised!NoncesContinue(PromisedChain'[Len(PromisedChain')], PromisedChain)
      /\ UNCHANGED PromisedMarks
  BY <1>4, <1>5, <1>6, <1>7
<1> QED
  BY <1>8 DEF Promised!Extend, PromisedChain, PromisedMarks

LEMMA SnapshotMarks ==
  ASSUME IInv, snapshot
  PROVE  Promised!Mark
<1> DEFINE mark == [blockNumber |-> Height, timeAdjustment |-> timeAdjustment, chain |-> blocks]
           n == Len(snapshots)
<1>1. /\ ~Reverting /\ ~Reverting' /\ snapshots' = Append(snapshots, mark) /\ UNCHANGED blocks
  BY DEF snapshot, Idle, Respond, Reverting, chainVars, dbVars
<1>2. snapshots \in Seq(SnapshotType) /\ blocks \in Seq(BlockType) /\ n \in Nat
  BY LenProperties DEF IInv, TypeOK
<1>3. mark \in SnapshotType
  <2>1. Len(blocks) \in Nat /\ Len(blocks) # 0 /\ timeAdjustment \in Nat
    BY LenProperties, EmptySeq DEF IInv, TypeOK
  <2>2. Height \in Nat
    BY <2>1 DEF Height
  <2> QED
    BY <1>2, <2>1, <2>2 DEF SnapshotType
<1>4. mark.chain = blocks
  OBVIOUS
<1> HIDE DEF mark
<1>5. /\ snapshots' \in Seq(SnapshotType) /\ Len(snapshots') = n + 1 /\ snapshots'[n + 1] = mark
      /\ \A i \in 1..n : snapshots'[i] = snapshots[i]
  BY <1>1, <1>2, <1>3, AppendProperties
<1>6. /\ ChainsOf(snapshots) \in Seq(Seq(Seq(Transactions))) /\ Len(ChainsOf(snapshots)) = n
      /\ \A i \in 1..n : ChainsOf(snapshots)[i] = TransactionsOf(snapshots[i].chain)
  BY <1>2, ChainsOfIs
<1>7. /\ ChainsOf(snapshots') \in Seq(Seq(Seq(Transactions))) /\ Len(ChainsOf(snapshots')) = n + 1
      /\ \A i \in 1..(n + 1) : ChainsOf(snapshots')[i] = TransactionsOf(snapshots'[i].chain)
  BY <1>5, ChainsOfIs
<1>8. TransactionsOf(blocks) \in Seq(Seq(Transactions))
  BY <1>2, TransactionsOfIs
<1>9. /\ Append(ChainsOf(snapshots), TransactionsOf(blocks)) \in Seq(Seq(Seq(Transactions)))
      /\ Len(Append(ChainsOf(snapshots), TransactionsOf(blocks))) = n + 1
      /\ \A i \in 1..n : Append(ChainsOf(snapshots), TransactionsOf(blocks))[i] = ChainsOf(snapshots)[i]
      /\ Append(ChainsOf(snapshots), TransactionsOf(blocks))[n + 1] = TransactionsOf(blocks)
  BY <1>6, <1>8, AppendProperties
<1>10. \A i \in 1..(n + 1) :
         ChainsOf(snapshots')[i] = Append(ChainsOf(snapshots), TransactionsOf(blocks))[i]
  <2> HIDE DEF n
  <2>1. /\ \A i \in 1..n : i \in 1..(n + 1)
        /\ n + 1 \in 1..(n + 1)
        /\ \A i \in 1..(n + 1) : i \in 1..n \/ i = n + 1
    BY <1>2
  <2>2. \A i \in 1..n : ChainsOf(snapshots')[i] = ChainsOf(snapshots)[i]
    BY <1>5, <1>6, <1>7, <2>1, Zenon
  <2>3. ChainsOf(snapshots')[n + 1] = TransactionsOf(blocks)
    BY <1>4, <1>5, <1>7, <2>1, Zenon
  <2> QED
    BY <1>9, <2>1, <2>2, <2>3, Zenon
<1>11. ChainsOf(snapshots') = Append(ChainsOf(snapshots), TransactionsOf(blocks))
  BY <1>7, <1>9, <1>10, SeqEqual
<1>12. /\ PromisedMarks' = Append(PromisedMarks, PromisedChain) /\ UNCHANGED PromisedChain
  BY <1>1, <1>11 DEF PromisedMarks, PromisedChain
<1> QED
  BY <1>12 DEF Promised!Mark, PromisedMarks, PromisedChain

LEMMA RevertRewinds ==
  ASSUME IInv, revertDone
  PROVE  Promised!Rewind
<1>1. /\ phase = "popSnapshots" /\ phase' = "idle"
      /\ Len(snapshots) <= revertTo.id /\ UNCHANGED <<blocks, snapshots>>
  BY DEF revertDone, Respond, chainVars, dbVars
<1>2. Reverting /\ ~Reverting'
  BY <1>1 DEF Reverting
<1>3. /\ snapshots \in Seq(SnapshotType) /\ origin.marks \in Seq(SnapshotType)
      /\ Len(snapshots) \in Nat /\ Len(origin.marks) \in Nat
      /\ DOMAIN origin.marks = 1..Len(origin.marks)
  BY LenProperties DEF IInv, TypeOK
<1>4. /\ origin.id \in DOMAIN origin.marks /\ revertTo.id = origin.id - 1
      /\ revertTo.id <= Len(snapshots)
      /\ snapshots = SubSeq(origin.marks, 1, Len(snapshots))
  BY <1>2 DEF IInv, RevertUnderWay
<1>5. /\ Len(snapshots) = origin.id - 1 /\ Len(snapshots) + 1 = origin.id
      /\ Len(snapshots) < Len(origin.marks) /\ origin.id - 1 \in 0..Len(origin.marks)
  BY <1>1, <1>3, <1>4
<1>6. blocks = origin.marks[origin.id].chain
  BY <1>1, <1>5 DEF IInv, SnapshotsPopped
<1>7. TransactionsOf(blocks) = ChainsOf(origin.marks)[origin.id]
      /\ DOMAIN ChainsOf(origin.marks) = DOMAIN origin.marks
  BY <1>3, <1>4, <1>6, ChainsOfIs
<1>8. ChainsOf(snapshots) = SubSeq(ChainsOf(origin.marks), 1, origin.id - 1)
  BY <1>3, <1>4, <1>5, ChainsOfPrefix
<1>9. /\ PromisedMarks = ChainsOf(origin.marks)
      /\ PromisedChain' = TransactionsOf(blocks) /\ PromisedMarks' = ChainsOf(snapshots)
  BY <1>1, <1>2 DEF PromisedMarks, PromisedChain
<1>10. \E k \in DOMAIN PromisedMarks :
         PromisedChain' = PromisedMarks[k] /\ PromisedMarks' = SubSeq(PromisedMarks, 1, k - 1)
  BY <1>4, <1>7, <1>8, <1>9
<1> QED
  BY <1>10 DEF Promised!Rewind, PromisedMarks, PromisedChain

(* A restart, in the middle of a revert or not, is the restart of Timeline. *)
LEMMA RestartRestarts ==
  ASSUME IInv, RevertGoesDown, restart
  PROVE  Promised!Restart
<1>1. ~Reverting' /\ blocks' = blocks /\ snapshots' = <<>>
  BY DEF restart, dbVars, Respond, Reverting
<1>2. blocks \in Seq(BlockType) /\ Len(blocks) \in Nat /\ Len(blocks) \in 0..Len(blocks)
      /\ SubSeq(blocks, 1, Len(blocks)) = blocks
  <2>1. blocks \in Seq(BlockType) /\ Len(blocks) \in Nat
    BY LenProperties DEF IInv, TypeOK
  <2> QED
    BY <2>1, SubSeqFull
<1>3. PromisedChain' = TransactionsOf(blocks) /\ PromisedMarks' = <<>>
  <2>1. ChainsOf(<<>>) = <<>>
    BY DEF ChainsOf
  <2> QED
    BY <1>1, <2>1 DEF PromisedChain, PromisedMarks
<1>4. CASE ~Reverting
  <2>1. PromisedChain = TransactionsOf(blocks)
    BY <1>4 DEF PromisedChain
  <2>2. Promised!IsPrefixOf(TransactionsOf(blocks), TransactionsOf(blocks))
    BY <1>2, PrefixIsPrefix
  <2>3. /\ PromisedMarks' = <<>> /\ Promised!IsPrefixOf(PromisedChain', PromisedChain)
        /\ PromisedChain' = PromisedChain
    BY <1>3, <2>1, <2>2
  <2> QED
    BY <2>3 DEF Promised!Restart, PromisedMarks, PromisedChain
<1>5. CASE Reverting
  <2>1. /\ Len(blocks) <= Len(origin.chain) /\ blocks = SubSeq(origin.chain, 1, Len(blocks))
        /\ Len(snapshots) = Len(origin.marks) => blocks = origin.chain
        /\ Len(snapshots) <= Len(origin.marks)
    BY <1>5 DEF RevertGoesDown, IInv, RevertUnderWay
  <2>2. /\ origin.chain \in Seq(BlockType) /\ origin.marks \in Seq(SnapshotType)
        /\ Len(snapshots) \in Nat /\ Len(origin.chain) \in Nat /\ Len(origin.marks) \in Nat
        /\ DOMAIN origin.marks = 1..Len(origin.marks)
    BY LenProperties DEF IInv, TypeOK
  <2>3. PromisedChain = TransactionsOf(origin.chain) /\ PromisedMarks = ChainsOf(origin.marks)
    BY <1>5 DEF PromisedChain, PromisedMarks
  <2>4. Promised!IsPrefixOf(TransactionsOf(blocks), TransactionsOf(origin.chain))
    <3>1. Len(blocks) \in 0..Len(origin.chain)
      BY <1>2, <2>1, <2>2
    <3>2. Promised!IsPrefixOf(TransactionsOf(SubSeq(origin.chain, 1, Len(blocks))),
                              TransactionsOf(origin.chain))
      BY <2>2, <3>1, PrefixIsPrefix
    <3> QED
      BY <2>1, <3>2
  <2>5. CASE Len(snapshots) = Len(origin.marks)
    <3>1. /\ PromisedMarks' = <<>> /\ Promised!IsPrefixOf(PromisedChain', PromisedChain)
          /\ PromisedChain' = PromisedChain
      BY <1>3, <2>1, <2>3, <2>4, <2>5
    <3> QED
      BY <3>1 DEF Promised!Restart, PromisedMarks, PromisedChain
  <2>6. CASE Len(snapshots) < Len(origin.marks)
    <3> DEFINE k == Len(snapshots) + 1
    <3>1. k \in DOMAIN origin.marks
      BY <2>2, <2>6
    <3>2. origin.marks[k].blockNumber \in Nat
      BY <2>2, <3>1, MarkTypes
    <3>3. \E n \in 0..Len(blocks) : origin.marks[k].chain = SubSeq(blocks, 1, n)
      <4>1. CASE phase = "popSnapshots"
        <5>1. origin.marks[k].chain = blocks
          BY <2>6, <4>1 DEF IInv, SnapshotsPopped
        <5> QED
          BY <1>2, <5>1
      <4>2. CASE phase = "popBlocks"
        <5>1. /\ origin.marks[k].blockNumber <= Height
              /\ origin.marks[k].chain = SubSeq(blocks, 1, origin.marks[k].blockNumber + 1)
          BY <4>2 DEF IInv, BlocksBeingPopped
        <5>2. origin.marks[k].blockNumber + 1 \in 0..Len(blocks)
          BY <1>2, <3>2, <5>1 DEF Height
        <5> QED
          BY <5>1, <5>2
      <4> QED
        BY <1>5, <4>1, <4>2 DEF Reverting
    <3>4. Promised!IsPrefixOf(TransactionsOf(origin.marks[k].chain), TransactionsOf(blocks))
      BY <1>2, <3>3, PrefixIsPrefix
    <3>5. /\ k \in DOMAIN ChainsOf(origin.marks)
          /\ ChainsOf(origin.marks)[k] = TransactionsOf(origin.marks[k].chain)
      BY <2>2, <3>1, ChainsOfIs
    <3> HIDE DEF k
    <3>6. /\ PromisedMarks' = <<>> /\ Promised!IsPrefixOf(PromisedChain', PromisedChain)
          /\ \E i \in DOMAIN PromisedMarks : Promised!IsPrefixOf(PromisedMarks[i], PromisedChain')
      BY <1>3, <2>3, <2>4, <3>4, <3>5
    <3> QED
      BY <3>6 DEF Promised!Restart, PromisedMarks, PromisedChain
  <2> QED
    BY <2>1, <2>2, <2>5, <2>6
<1> QED
  BY <1>4, <1>5

(* Steps that Timeline does not see. *)
LEMMA QuietStep ==
  ASSUME \/ ~Reverting /\ ~Reverting' /\ UNCHANGED <<blocks, snapshots>>
         \/ Reverting /\ Reverting' /\ UNCHANGED origin
         \/ ~Reverting /\ Reverting' /\ origin'.chain = blocks /\ origin'.marks = snapshots
  PROVE  UNCHANGED <<PromisedChain, PromisedMarks>>
  BY DEF PromisedChain, PromisedMarks

LEMMA BlockStep ==
  ASSUME IInv, ChainInv, ~Reverting, ~Reverting', UNCHANGED snapshots,
         NEW order \in sortByPriceAndNonce, NEW count \in 0..Len(pending_transactions),
         processNextBlock(order, count)
  PROVE  Promised!Extend \/ UNCHANGED <<PromisedChain, PromisedMarks>>
<1> DEFINE batch == SubSeq(order, 1, count)
<1>1. /\ batch \in Seq(Transactions)
      /\ (RunsInVM(batch) /\ putBlock(batch)) \/ UNCHANGED chainVars
  BY BlockOrNone, Zenon
<1> HIDE DEF batch
<1>2. CASE RunsInVM(batch) /\ putBlock(batch)
  BY <1>1, <1>2, PutExtends
<1>3. CASE UNCHANGED chainVars
  BY <1>3, QuietStep DEF chainVars, dbVars
<1> QED
  BY <1>1, <1>2, <1>3

(* Every step is a step of Timeline or none. *)
LEMMA PromiseStep ==
  ASSUME IInv, ChainInv, RevertGoesDown, [Next]_vars
  PROVE  Promised!Next \/ UNCHANGED <<PromisedChain, PromisedMarks>>
<1>1. CASE \/ \E tx \in Inputs : processTransaction(tx)
           \/ rejectTransaction \/ startMining \/ stopMining
           \/ \E adjustment \in 0..MaxAdjustment : setTime(adjustment)
           \/ \E seconds \in 1..MaxAdjustment : increaseTime(seconds)
           \/ \E id \in 1..(MaxSnapshots + 1) : revertUnknown(id)
           \/ processBlocksDone
  <2>1. /\ ~Reverting /\ UNCHANGED <<blocks, snapshots>>
        /\ (\E answer : Respond(answer)) \/ \E tx : StartProcessBlocks(tx)
    BY <1>1 DEF processTransaction, rejectTransaction, startMining, stopMining, setTime,
                increaseTime, revertUnknown, processBlocksDone, stateVars, chainVars, dbVars,
                Idle, Reverting
  <2>2. ~Reverting'
    BY <2>1 DEF Respond, StartProcessBlocks, Reverting
  <2> QED
    BY <2>1, <2>2, QuietStep
<1>2. CASE processBlocksTurn
  <2>1. PICK order \in sortByPriceAndNonce :
          \E count \in 0..Len(pending_transactions) :
            /\ processNextBlock(order, count)
            /\ phase' = phase \/ \E answer : Respond(answer)
    BY <1>2, Zenon DEF processBlocksTurn
  <2>2. PICK count \in 0..Len(pending_transactions) :
          /\ processNextBlock(order, count)
          /\ phase' = phase \/ \E answer : Respond(answer)
    BY <2>1
  <2>3. ~Reverting /\ UNCHANGED snapshots
    BY <1>2 DEF processBlocksTurn, Reverting
  <2>4. ~Reverting'
    BY <2>2, <2>3 DEF Respond, Reverting
  <2> QED
    BY <2>2, <2>3, <2>4, BlockStep DEF Promised!Next
<1>3. CASE \E adjustment \in 0..MaxAdjustment : svm_mine(adjustment)
  <2>1. PICK order \in sortByPriceAndNonce :
          \E count \in 0..Len(pending_transactions) :
            processNextBlock(order, count) /\ \E answer : Respond(answer)
    BY <1>3, Zenon DEF svm_mine
  <2>2. PICK count \in 0..Len(pending_transactions) :
          processNextBlock(order, count) /\ \E answer : Respond(answer)
    BY <2>1
  <2>3. ~Reverting /\ UNCHANGED snapshots
    BY <1>3 DEF svm_mine, Idle, Reverting
  <2>4. ~Reverting'
    BY <2>2 DEF Respond, Reverting
  <2> QED
    BY <2>2, <2>3, <2>4, BlockStep DEF Promised!Next
<1>4. CASE snapshot
  BY <1>4, SnapshotMarks DEF Promised!Next
<1>5. ASSUME NEW id \in 1..(MaxSnapshots + 1), revert(id)
      PROVE  UNCHANGED <<PromisedChain, PromisedMarks>>
  <2>1. ~Reverting /\ Reverting' /\ origin'.chain = blocks /\ origin'.marks = snapshots
    BY <1>5, BeginsAtOnce
  <2> QED
    BY <2>1, QuietStep
<1>6. CASE popSnapshot \/ revertPopsBlock \/ blocksPopped
  <2>1. Reverting /\ Reverting' /\ UNCHANGED origin
    BY <1>6 DEF popSnapshot, revertPopsBlock, blocksPopped, backToSnapshots, requestVars, Reverting
  <2> QED
    BY <2>1, QuietStep
<1>7. CASE revertDone
  BY <1>7, RevertRewinds DEF Promised!Next
<1>8. CASE restart
  BY <1>8, RestartRestarts DEF Promised!Next
<1>9. CASE UNCHANGED vars
  <2>1. UNCHANGED <<blocks, snapshots, phase, origin>>
    BY <1>9 DEF vars, stateVars, chainVars, dbVars, requestVars
  <2> QED
    BY <2>1, QuietStep DEF Reverting
<1> QED
  BY <1>1, <1>2, <1>3, <1>4, <1>5, <1>6, <1>7, <1>8, <1>9, Zenon DEF Next, Request, Continue

(* A process over an empty database starts with the empty timeline. *)
LEMMA PromiseInit == Init => Promised!Init
<1> SUFFICES ASSUME Init PROVE Promised!Init
  OBVIOUS
<1>1. blocks = <<Genesis>> /\ snapshots = <<>> /\ ~Reverting
  BY DEF Init, Reverting
<1>2. TransactionsOf(blocks) = << <<>> >>
  BY <1>1 DEF TransactionsOf, Genesis
<1>3. ChainsOf(<<>>) = <<>>
  BY DEF ChainsOf
<1> QED
  BY <1>1, <1>2, <1>3 DEF Promised!Init

LEMMA RevertGoesDownHolds == Spec => []RevertGoesDown
<1>1. Init => RevertGoesDown
  BY DEF Init, RevertGoesDown, Reverting
<1>2. IInv /\ RevertGoesDown /\ [Next]_vars => RevertGoesDown'
  BY NextRevertGoesDown
<1> QED
  BY <1>1, <1>2, IInvHolds, PTL DEF Spec

(* The block by block and snapshot by snapshot revert, the blocks that processBlocks and
   svm_mine make or fail to make, and a restart between any two of those steps implement the
   timeline: a chain that only grows at its end with the nonces of each account in order,
   marks, a one-step rewind to a mark, and a restart that keeps a chain between the two ends
   of the rewind it cuts short. *)
THEOREM ImplementsTheTimeline == Spec => ImplementsTimeline
<1>1. IInv /\ ChainInv /\ RevertGoesDown /\ [Next]_vars => [Promised!Next]_(Promised!vars)
  <2>1. UNCHANGED <<PromisedChain, PromisedMarks>> => UNCHANGED Promised!vars
    BY DEF PromisedChain, PromisedMarks, Promised!vars
  <2> QED
    BY <2>1, PromiseStep
<1> QED
  BY <1>1, PromiseInit, IInvHolds, ChainInvHolds, RevertGoesDownHolds, PTL
     DEF Spec, ImplementsTimeline, Promised!Spec
-----------------------------------------------------------------------------
(* The pool (1): nonces and orders. *)

(* Greatest and least members. *)

LEMMA GreatestMember ==
  ASSUME NEW S \in SUBSET Nat, S # {}, NEW u \in Nat, \A x \in S : x <= u
  PROVE  Max(S) \in S /\ \A y \in S : y <= Max(S)
<1> DEFINE D == {d \in Nat : \E x \in S : x + d = u}
<1>1. \A x \in S : u - x \in D
  OBVIOUS
<1>2. D # {} /\ D \in SUBSET Nat
  BY <1>1
<1> HIDE DEF D
<1>3. Min(D) \in D /\ \A d \in D : Min(D) <= d
  BY <1>2, LeastMember
<1>4. PICK x \in S : x + Min(D) = u
  BY <1>3 DEF D
<1>5. \A y \in S : x >= y
  <2> TAKE y \in S
  <2>1. Min(D) <= u - y /\ Min(D) \in Nat
    BY <1>1, <1>2, <1>3
  <2> QED
    BY <1>4, <2>1
<1>6. Max(S) \in S /\ \A y \in S : Max(S) >= y
  BY <1>5, Zenon DEF Max
<1> QED
  BY <1>6

(* The fields of a member of a sequence of transactions. *)
LEMMA TransactionAt ==
  ASSUME NEW txs \in Seq(Transactions), NEW i \in DOMAIN txs
  PROVE  txs[i] \in Transactions /\ txs[i].from \in Accounts /\ txs[i].nonce \in Nat
<1>1. txs[i] \in Transactions
  BY LenProperties, ElementOfSeq
<1> QED
  BY <1>1 DEF Transactions

(* The nonces of a sequence of transactions are bounded. *)
LEMMA NoncesBounded ==
  ASSUME NEW txs \in Seq(Transactions)
  PROVE  \E u \in Nat : \A i \in DOMAIN txs : txs[i].nonce <= u
<1> DEFINE n == Len(txs)
           Bounded(m) == \E u \in Nat : \A i \in 1..m : txs[i].nonce <= u
           B == {m \in 0..n : ~Bounded(m)}
<1>1. n \in Nat /\ DOMAIN txs = 1..n
  BY LenProperties
<1>2. \A i \in 1..n : txs[i].nonce \in Nat
  BY <1>1, TransactionAt
<1>3. Bounded(0)
  <2>1. 0 \in Nat /\ \A i \in 1..0 : txs[i].nonce <= 0
    OBVIOUS
  <2> QED
    BY <2>1
<1>4. ASSUME NEW m \in 0..n, m # 0, Bounded(m - 1)
      PROVE  Bounded(m)
  <2>1. PICK u \in Nat : \A i \in 1..(m - 1) : txs[i].nonce <= u
    BY <1>4
  <2>2. m \in 1..n /\ txs[m].nonce \in Nat
    BY <1>1, <1>2, <1>4
  <2> DEFINE v == u + txs[m].nonce
  <2>3. \A i \in 1..m : txs[i].nonce <= v
    <3> TAKE i \in 1..m
    <3>1. i \in 1..(m - 1) \/ i = m
      BY <1>1
    <3>2. txs[i].nonce \in Nat
      BY <1>1, <1>2
    <3> QED
      BY <2>1, <2>2, <3>1, <3>2
  <2>4. v \in Nat
    BY <2>2
  <2> QED
    BY <2>3, <2>4
<1> HIDE DEF Bounded
<1>5. B = {}
  <2> SUFFICES ASSUME B # {} PROVE FALSE
    OBVIOUS
  <2>1. B \in SUBSET Nat
    BY <1>1
  <2>2. Min(B) \in B /\ \A m \in B : Min(B) <= m
    BY <2>1, LeastMember
  <2> DEFINE m == Min(B)
  <2>3. m \in 0..n /\ ~Bounded(m) /\ m # 0
    BY <1>3, <2>2
  <2>4. m - 1 \in 0..n /\ ~(m <= m - 1)
    BY <1>1, <2>3
  <2>5. Bounded(m - 1)
    BY <2>2, <2>4
  <2> QED
    BY <1>4, <2>3, <2>5
<1>6. Bounded(n)
  BY <1>1, <1>5
<1> QED
  BY <1>1, <1>6 DEF Bounded
-----------------------------------------------------------------------------
(* The nonces that account a has pending. *)
NoncesPending(a) == {pending_transactions[i].nonce : i \in PendingOf(a)}

(* The pool of every account is in line: no nonce below that of its state, none twice, no gap,
   and none missing at the front unless a failed block dropped it. *)
InLine(a) ==
  /\ \A i \in PendingOf(a) : stateRoot[a] <= pending_transactions[i].nonce
  /\ \A i, j \in PendingOf(a) :
       pending_transactions[i].nonce = pending_transactions[j].nonce => i = j
  /\ \A m, n \in NoncesPending(a) : m..n \subseteq NoncesPending(a)
  /\ PendingOf(a) # {} /\ a \notin stranded => stateRoot[a] \in NoncesPending(a)

PoolInLine == ~Reverting => \A a \in Accounts : InLine(a)

(* No transaction of the pool is too large for a block of its own. *)
PoolFits ==
  \A tx \in Range(pending_transactions) : tx.payload.gas <= BlockGasLimit

LEMMA PoolTypes ==
  ASSUME TypeOK
  PROVE  /\ Len(pending_transactions) \in Nat
         /\ DOMAIN pending_transactions = 1..Len(pending_transactions)
         /\ \A i \in DOMAIN pending_transactions :
              /\ pending_transactions[i] \in Transactions
              /\ pending_transactions[i].from \in Accounts
              /\ pending_transactions[i].nonce \in Nat
              /\ i \in PendingOf(pending_transactions[i].from)
         /\ \A a : PendingOf(a) \subseteq 1..Len(pending_transactions) /\ NoncesPending(a) \subseteq Nat
<1>1. pending_transactions \in Seq(Transactions)
  BY DEF TypeOK
<1>2. Len(pending_transactions) \in Nat /\ DOMAIN pending_transactions = 1..Len(pending_transactions)
  BY <1>1, LenProperties
<1>3. \A i \in DOMAIN pending_transactions :
        /\ pending_transactions[i] \in Transactions
        /\ pending_transactions[i].from \in Accounts
        /\ pending_transactions[i].nonce \in Nat
  BY <1>1, TransactionAt
<1> QED
  BY <1>2, <1>3 DEF PendingOf, NoncesPending

(* The order that sortByPriceAndNonce leaves the pool in has the transactions of the pool, each
   in one place, and those of an account in the order of their nonces. *)
LEMMA OrderIsPool ==
  ASSUME TypeOK, NEW order \in sortByPriceAndNonce
  PROVE  /\ order \in Seq(Transactions) /\ Len(order) = Len(pending_transactions)
         /\ \E p \in [DOMAIN order -> DOMAIN pending_transactions] :
              /\ \A i \in DOMAIN order : order[i] = pending_transactions[p[i]]
              /\ \A i, j \in DOMAIN order : p[i] = p[j] => i = j
              /\ \A k \in DOMAIN pending_transactions : \E i \in DOMAIN order : p[i] = k
         /\ \A i, j \in DOMAIN order :
              i <= j /\ order[i].from = order[j].from => order[i].nonce <= order[j].nonce
<1> DEFINE P == DOMAIN pending_transactions
           n == Len(pending_transactions)
<1>1. PICK p \in Injection(P, P) : order = [i \in P |-> pending_transactions[p[i]]]
  BY DEF sortByPriceAndNonce
<1>2. /\ order \in Seq(Transactions) /\ Len(order) = n /\ n \in Nat /\ P = 1..n /\ DOMAIN order = 1..n
  BY OrderType, LenProperties, PoolTypes
<1>3. p \in [P -> P] /\ \A i, j \in P : p[i] = p[j] => i = j
  BY <1>1 DEF Injection, IsInjective
<1>4. p \in Surjection(P, P)
  <2>1. IsFiniteSet(P)
    BY <1>2, FS_Interval
  <2> QED
    BY <1>1, <2>1, FS_Injection
<1>5. \A k \in P : \E i \in P : p[i] = k
  BY <1>4 DEF Surjection
<1>6. \A i, j \in 1..n : i <= j /\ order[i].from = order[j].from => order[i].nonce <= order[j].nonce
  <2> SUFFICES ASSUME NEW i \in 1..n, NEW j \in 1..n, i <= j, order[i].from = order[j].from
               PROVE  order[i].nonce <= order[j].nonce
    OBVIOUS
  <2>1. order[i] \in Best({order[q] : q \in i..Len(order)})
    BY <1>2 DEF sortByPriceAndNonce
  <2>2. order[j] \in {order[q] : q \in i..Len(order)}
    BY <1>2
  <2> QED
    BY <2>1, <2>2, Zenon DEF Best, Heads
<1>7. P = DOMAIN order /\ \A i \in P : order[i] = pending_transactions[p[i]]
  BY <1>1, <1>2
<1> HIDE DEF P, n
<1>8. /\ p \in [DOMAIN order -> P]
      /\ \A i \in DOMAIN order : order[i] = pending_transactions[p[i]]
      /\ \A i, j \in DOMAIN order : p[i] = p[j] => i = j
      /\ \A k \in P : \E i \in DOMAIN order : p[i] = k
  BY <1>3, <1>5, <1>7, Zenon
<1> QED
  BY <1>2, <1>6, <1>8 DEF P, n

(* What processNextBlock takes and leaves. *)
LEMMA BatchAndRest ==
  ASSUME TypeOK, NEW order \in sortByPriceAndNonce, NEW count \in 0..Len(pending_transactions)
  PROVE  LET batch == SubSeq(order, 1, count)
             rest  == SubSeq(order, count + 1, Len(order))
         IN /\ Len(order) \in Nat /\ DOMAIN order = 1..Len(order) /\ count \in 0..Len(order)
            /\ batch \in Seq(Transactions) /\ DOMAIN batch = 1..count
            /\ \A i \in 1..count : batch[i] = order[i]
            /\ DOMAIN rest = 1..(Len(order) - count)
            /\ \A i \in 1..(Len(order) - count) : rest[i] = order[count + i]
            /\ Range(batch) = {order[i] : i \in 1..count}
            /\ Range(rest) = {order[i] : i \in (count + 1)..Len(order)}
            /\ Range(pending_transactions) = Range(batch) \cup Range(rest)
<1> DEFINE batch == SubSeq(order, 1, count)
           rest  == SubSeq(order, count + 1, Len(order))
           n == Len(order)
<1>1. /\ order \in Seq(Transactions) /\ n \in Nat /\ DOMAIN order = 1..n /\ count \in 0..n
      /\ \A i \in 1..n : order[i] \in Transactions
  BY OrderIsPool, LenProperties, TransactionAt
<1>2. batch \in Seq(Transactions) /\ Len(batch) = count /\ \A i \in 1..count : batch[i] = order[i]
  BY <1>1, PrefixType
<1>3. DOMAIN batch = 1..count
  BY <1>2, LenProperties
<1>4. DOMAIN rest = 1..(n - count) /\ \A i \in 1..(n - count) : rest[i] = order[count + i]
  <2> HIDE DEF n
  <2>1. count + 1 \in Int /\ n \in Int /\ \A i \in (count + 1)..n : order[i] \in Transactions
    BY <1>1
  <2>2. /\ SubSeq(order, count + 1, n) \in Seq(Transactions)
        /\ Len(SubSeq(order, count + 1, n)) = IF count + 1 <= n THEN n - (count + 1) + 1 ELSE 0
        /\ \A i \in 1..(n - (count + 1) + 1) : SubSeq(order, count + 1, n)[i] = order[count + 1 + i - 1]
    BY <2>1, SubSeqProperties
  <2>3. /\ n - count = n - (count + 1) + 1
        /\ ~(count + 1 <= n) => n - count = 0
        /\ \A i \in 1..(n - count) : count + 1 + i - 1 = count + i
    BY <1>1
  <2>4. /\ SubSeq(order, count + 1, n) \in Seq(Transactions)
        /\ Len(SubSeq(order, count + 1, n)) = n - count
        /\ \A i \in 1..(n - count) : SubSeq(order, count + 1, n)[i] = order[count + i]
    BY <2>2, <2>3
  <2>5. DOMAIN SubSeq(order, count + 1, n) = 1..(n - count)
    BY <2>4, LenProperties
  <2> QED
    BY <2>4, <2>5 DEF n
<1>5. /\ \A i \in 1..(n - count) : count + i \in (count + 1)..n
      /\ \A i \in (count + 1)..n : i - count \in 1..(n - count) /\ count + (i - count) = i
      /\ \A i \in 1..n : i \in 1..count \/ i \in (count + 1)..n
      /\ 1..count \subseteq 1..n /\ (count + 1)..n \subseteq 1..n
  <2> HIDE DEF n
  <2> QED
    BY <1>1
<1> HIDE DEF batch, rest, n
<1>6. Range(batch) = {order[i] : i \in 1..count}
  BY <1>2, <1>3 DEF Range
<1>7. Range(rest) = {order[i] : i \in (count + 1)..n}
  <2>1. Range(rest) = {order[count + i] : i \in 1..(n - count)}
    BY <1>4 DEF Range
  <2> QED
    BY <1>5, <2>1
<1>8. Range(pending_transactions) = {order[i] : i \in 1..n}
  <2>1. PICK p \in [DOMAIN order -> DOMAIN pending_transactions] :
          /\ \A i \in DOMAIN order : order[i] = pending_transactions[p[i]]
          /\ \A k \in DOMAIN pending_transactions : \E i \in DOMAIN order : p[i] = k
    BY OrderIsPool
  <2>2. \A i \in 1..n : order[i] \in Range(pending_transactions)
    BY <1>1, <2>1 DEF Range
  <2>3. ASSUME NEW tx \in Range(pending_transactions)
        PROVE  \E i \in 1..n : order[i] = tx
    <3>1. PICK k \in DOMAIN pending_transactions : pending_transactions[k] = tx
      BY DEF Range
    <3>2. PICK i \in DOMAIN order : p[i] = k
      BY <2>1
    <3> QED
      BY <1>1, <2>1, <3>1, <3>2
  <2> QED
    BY <2>2, <2>3
<1>9. Range(pending_transactions) = Range(batch) \cup Range(rest)
  BY <1>5, <1>6, <1>7, <1>8
<1> QED
  BY <1>1, <1>2, <1>3, <1>4, <1>6, <1>7, <1>9 DEF batch, rest, n
-----------------------------------------------------------------------------
(* The pool (2): every account stays in line. *)

(* The transaction that joins the pool carries the next nonce of its account. *)
LEMMA QueuedNonce ==
  ASSUME TypeOK, NEW a \in Accounts, InLine(a)
  PROVE  /\ getQueuedNonce(a) \in Nat /\ stateRoot[a] \in Nat /\ stateRoot[a] <= getQueuedNonce(a)
         /\ \A m \in NoncesPending(a) : m \in Nat /\ m < getQueuedNonce(a)
         /\ PendingOf(a) = {} => getQueuedNonce(a) = stateRoot[a]
         /\ PendingOf(a) # {} => \E m \in NoncesPending(a) : getQueuedNonce(a) = m + 1
<1>1. stateRoot[a] \in Nat /\ NoncesPending(a) \in SUBSET Nat
  BY PoolTypes DEF TypeOK
<1>2. CASE PendingOf(a) = {}
  BY <1>1, <1>2 DEF getQueuedNonce, NoncesPending
<1>3. CASE PendingOf(a) # {}
  <2>1. PICK u \in Nat : \A i \in DOMAIN pending_transactions : pending_transactions[i].nonce <= u
    BY NoncesBounded DEF TypeOK
  <2>2. NoncesPending(a) # {} /\ \A m \in NoncesPending(a) : m <= u
    BY <1>3, <2>1 DEF NoncesPending, PendingOf
  <2>3. Max(NoncesPending(a)) \in NoncesPending(a)
        /\ \A m \in NoncesPending(a) : m <= Max(NoncesPending(a))
    BY <1>1, <2>2, GreatestMember
  <2>4. getQueuedNonce(a) = 1 + Max(NoncesPending(a))
    BY <1>3 DEF getQueuedNonce, NoncesPending
  <2>5. stateRoot[a] <= Max(NoncesPending(a))
    BY <2>3 DEF InLine, NoncesPending
  <2> QED
    BY <1>1, <1>3, <2>3, <2>4, <2>5
<1> QED
  BY <1>2, <1>3

LEMMA JoinKeepsLine ==
  ASSUME TypeOK, \A a \in Accounts : InLine(a), NEW tx \in Transactions,
         tx.nonce = getQueuedNonce(tx.from),
         pending_transactions' = Append(pending_transactions, tx), UNCHANGED <<stateRoot, stranded>>
  PROVE  \A a \in Accounts : InLine(a)'
<1> DEFINE n == Len(pending_transactions)
<1>1. /\ n \in Nat /\ DOMAIN pending_transactions = 1..n /\ DOMAIN pending_transactions' = 1..(n + 1)
      /\ \A i \in 1..n : pending_transactions'[i] = pending_transactions[i]
      /\ pending_transactions'[n + 1] = tx
  <2>1. pending_transactions \in Seq(Transactions)
    BY DEF TypeOK
  <2> QED
    BY <2>1, AppendProperties, LenProperties
<1>2. tx.from \in Accounts /\ tx.nonce \in Nat
  BY DEF Transactions
<1> SUFFICES ASSUME NEW a \in Accounts PROVE InLine(a)'
  OBVIOUS
<1>3. \A i \in 1..(n + 1) : i \in 1..n \/ i = n + 1
  BY <1>1
<1>4. 1..n \subseteq 1..(n + 1) /\ n + 1 \in 1..(n + 1) /\ n + 1 \notin 1..n
  BY <1>1
<1> HIDE DEF n
<1>5. \A i : i \in PendingOf(a)' <=> (i \in PendingOf(a) \/ (i = n + 1 /\ tx.from = a))
  BY <1>1, <1>3, <1>4 DEF PendingOf
<1>6. \A i \in PendingOf(a) : pending_transactions'[i] = pending_transactions[i]
  BY <1>1 DEF PendingOf
<1>7. \A m : m \in NoncesPending(a)' <=> (m \in NoncesPending(a) \/ (m = tx.nonce /\ tx.from = a))
  BY <1>1, <1>5, <1>6 DEF NoncesPending
<1>8. InLine(a) /\ stateRoot' = stateRoot /\ stranded' = stranded
  OBVIOUS
<1>9. CASE tx.from # a
  <2>1. PendingOf(a)' = PendingOf(a) /\ NoncesPending(a)' = NoncesPending(a)
    BY <1>5, <1>7, <1>9
  <2>2. \A i \in PendingOf(a) : pending_transactions'[i].nonce = pending_transactions[i].nonce
    BY <1>6
  <2>3. /\ \A i \in PendingOf(a)' : stateRoot'[a] <= pending_transactions'[i].nonce
        /\ \A i, j \in PendingOf(a)' :
             pending_transactions'[i].nonce = pending_transactions'[j].nonce => i = j
    BY <1>8, <2>1, <2>2, Zenon DEF InLine
  <2>4. /\ \A m, l \in NoncesPending(a)' : m..l \subseteq NoncesPending(a)'
        /\ PendingOf(a)' # {} /\ a \notin stranded' => stateRoot'[a] \in NoncesPending(a)'
    <3>1. /\ \A m, l \in NoncesPending(a) : m..l \subseteq NoncesPending(a)
          /\ PendingOf(a) # {} /\ a \notin stranded => stateRoot[a] \in NoncesPending(a)
      BY <1>8, Zenon DEF InLine
    <3> DEFINE S == NoncesPending(a)
    <3>2. \A m, l \in S : m..l \subseteq S
      BY <3>1
    <3> HIDE DEF S
    <3>3. NoncesPending(a)' = S
      BY <2>1 DEF S
    <3> QED
      BY <1>8, <2>1, <3>1, <3>2, <3>3
  <2> QED
    BY <2>3, <2>4, Zenon DEF InLine
<1>10. CASE tx.from = a
  <2>1. /\ stateRoot[a] \in Nat /\ stateRoot[a] <= tx.nonce
        /\ \A m \in NoncesPending(a) : m \in Nat /\ m < tx.nonce
        /\ PendingOf(a) = {} => tx.nonce = stateRoot[a]
        /\ PendingOf(a) # {} => \E m \in NoncesPending(a) : tx.nonce = m + 1
    BY <1>10, QueuedNonce
  <2>2. \A i \in PendingOf(a) : pending_transactions[i].nonce \in NoncesPending(a)
    BY DEF NoncesPending
  <2>3. \A i \in PendingOf(a)' : stateRoot'[a] <= pending_transactions'[i].nonce
    BY <1>1, <1>5, <1>6, <1>8, <2>1 DEF InLine
  <2>4. \A i, j \in PendingOf(a)' :
          pending_transactions'[i].nonce = pending_transactions'[j].nonce => i = j
    <3>1. \A i, j \in PendingOf(a) :
            pending_transactions[i].nonce = pending_transactions[j].nonce => i = j
      BY <1>8 DEF InLine
    <3>2. \A i \in PendingOf(a) : pending_transactions[i].nonce # tx.nonce
      BY <1>2, <2>1, <2>2
    <3> QED
      <4> SUFFICES ASSUME NEW i \in PendingOf(a)', NEW j \in PendingOf(a)',
                          pending_transactions'[i].nonce = pending_transactions'[j].nonce
                   PROVE  i = j
        OBVIOUS
      <4>1. CASE i \in PendingOf(a) /\ j \in PendingOf(a)
        BY <1>6, <3>1, <4>1
      <4>2. CASE i \in PendingOf(a) /\ j = n + 1
        BY <1>1, <1>6, <3>2, <4>2
      <4>3. CASE i = n + 1 /\ j \in PendingOf(a)
        BY <1>1, <1>6, <3>2, <4>3
      <4> QED
        BY <1>5, <4>1, <4>2, <4>3
  <2>5. ASSUME NEW m \in NoncesPending(a)', NEW l \in NoncesPending(a)', NEW k \in m..l
        PROVE  k \in NoncesPending(a)'
    <3>1. CASE m = tx.nonce
      BY <1>2, <1>7, <1>10, <2>1, <2>5, <3>1
    <3>2. CASE m \in NoncesPending(a) /\ l \in NoncesPending(a)
      BY <1>7, <1>8, <2>5, <3>2 DEF InLine
    <3>3. CASE m \in NoncesPending(a) /\ l = tx.nonce
      <4>1. PendingOf(a) # {}
        BY <3>3 DEF NoncesPending
      <4>2. PICK h \in NoncesPending(a) : tx.nonce = h + 1
        BY <2>1, <4>1
      <4>3. k = tx.nonce \/ k \in m..h
        BY <1>2, <2>1, <2>5, <3>3, <4>2
      <4> QED
        BY <1>7, <1>8, <1>10, <3>3, <4>2, <4>3 DEF InLine
    <3> QED
      BY <1>7, <3>1, <3>2, <3>3
  <2>6. PendingOf(a)' # {} /\ a \notin stranded' => stateRoot'[a] \in NoncesPending(a)'
    BY <1>7, <1>8, <1>10, <2>1 DEF InLine
  <2> QED
    BY <2>3, <2>4, <2>5, <2>6 DEF InLine
<1> QED
  BY <1>9, <1>10
-----------------------------------------------------------------------------
(* An order of a pool that is in line keeps every account in line. *)
LEMMA OrderInLine ==
  ASSUME TypeOK, \A a \in Accounts : InLine(a), NEW order \in sortByPriceAndNonce
  PROVE  /\ \A i \in DOMAIN order :
              /\ order[i] \in Transactions /\ order[i].from \in Accounts /\ order[i].nonce \in Nat
              /\ stateRoot[order[i].from] \in Nat /\ stateRoot[order[i].from] <= order[i].nonce
         /\ \A i, j \in DOMAIN order :
              i < j /\ order[i].from = order[j].from => order[i].nonce < order[j].nonce
         /\ \A a \in Accounts : \A m :
              m \in NoncesPending(a) <=> \E i \in DOMAIN order : order[i].from = a /\ order[i].nonce = m
<1>1. order \in Seq(Transactions) /\ DOMAIN order = 1..Len(order) /\ Len(order) \in Nat
  BY OrderIsPool, LenProperties
<1>2. PICK p \in [DOMAIN order -> DOMAIN pending_transactions] :
        /\ \A i \in DOMAIN order : order[i] = pending_transactions[p[i]]
        /\ \A i, j \in DOMAIN order : p[i] = p[j] => i = j
        /\ \A k \in DOMAIN pending_transactions : \E i \in DOMAIN order : p[i] = k
  BY OrderIsPool
<1>3. \A i \in DOMAIN order :
        order[i] \in Transactions /\ order[i].from \in Accounts /\ order[i].nonce \in Nat
  BY <1>1, TransactionAt
<1>4. \A i \in DOMAIN order : p[i] \in PendingOf(order[i].from)
  BY <1>2 DEF PendingOf
<1>5. \A i \in DOMAIN order : stateRoot[order[i].from] \in Nat /\ stateRoot[order[i].from] <= order[i].nonce
  BY <1>2, <1>3, <1>4 DEF InLine, TypeOK
<1>6. ASSUME NEW i \in DOMAIN order, NEW j \in DOMAIN order, i < j, order[i].from = order[j].from
      PROVE  order[i].nonce < order[j].nonce
  <2>1. order[i].nonce <= order[j].nonce
    <3>1. i <= j
      BY <1>1, <1>6
    <3>2. \A k, l \in DOMAIN order :
            k <= l /\ order[k].from = order[l].from => order[k].nonce <= order[l].nonce
      BY OrderIsPool
    <3> QED
      BY <1>6, <3>1, <3>2, Zenon
  <2>2. i # j /\ p[i] # p[j]
    BY <1>1, <1>2, <1>6
  <2>3. order[i].nonce # order[j].nonce
    BY <1>2, <1>3, <1>4, <1>6, <2>2 DEF InLine
  <2> QED
    BY <1>3, <1>6, <2>1, <2>3
<1>7. \A a \in Accounts : \A m :
        m \in NoncesPending(a) <=> \E i \in DOMAIN order : order[i].from = a /\ order[i].nonce = m
  <2> TAKE a \in Accounts
  <2> TAKE m
  <2>1. ASSUME m \in NoncesPending(a)
        PROVE  \E i \in DOMAIN order : order[i].from = a /\ order[i].nonce = m
    <3>1. PICK k \in DOMAIN pending_transactions :
            pending_transactions[k].from = a /\ pending_transactions[k].nonce = m
      BY <2>1 DEF NoncesPending, PendingOf
    <3>2. PICK i \in DOMAIN order : p[i] = k
      BY <1>2
    <3> QED
      BY <1>2, <3>1, <3>2
  <2>2. ASSUME NEW i \in DOMAIN order, order[i].from = a, order[i].nonce = m
        PROVE  m \in NoncesPending(a)
    BY <1>2, <1>4, <2>2 DEF NoncesPending
  <2> QED
    BY <2>1, <2>2
<1> QED
  BY <1>3, <1>5, <1>6, <1>7

(* What is left of an order is in line, if its lowest nonces are where they should be. *)
LEMMA RestInLine ==
  ASSUME TypeOK, \A b \in Accounts : InLine(b), NEW order \in sortByPriceAndNonce,
         NEW count \in 0..Len(pending_transactions),
         pending_transactions' = SubSeq(order, count + 1, Len(order)),
         NEW a \in Accounts,
         \A i \in (count + 1)..Len(order) : order[i].from = a => stateRoot'[a] <= order[i].nonce,
         a \notin stranded' =>
           \A i \in (count + 1)..Len(order) : order[i].from = a =>
             \E j \in (count + 1)..Len(order) : order[j].from = a /\ order[j].nonce = stateRoot'[a]
  PROVE  InLine(a)'
<1> DEFINE n == Len(order)
           r == n - count
<1>1. /\ order \in Seq(Transactions) /\ n \in Nat /\ DOMAIN order = 1..n /\ count \in 0..n /\ r \in Nat
  BY OrderIsPool, LenProperties
<1>2. /\ DOMAIN pending_transactions' = 1..r
      /\ \A i \in 1..r : pending_transactions'[i] = order[count + i]
  BY BatchAndRest
<1>3. \A i \in 1..r : count + i \in (count + 1)..n /\ count + i \in 1..n
  BY <1>1
<1>4. \A i \in (count + 1)..n : i - count \in 1..r /\ count + (i - count) = i /\ i \in 1..n
  BY <1>1
<1> HIDE DEF n, r
<1>5. \A i : i \in PendingOf(a)' <=> i \in 1..r /\ order[count + i].from = a
  BY <1>2 DEF PendingOf
<1>6. \A m : m \in NoncesPending(a)' <=>
              \E i \in (count + 1)..n : order[i].from = a /\ order[i].nonce = m
  <2>1. \A m : m \in NoncesPending(a)' <=> \E i \in 1..r : order[count + i].from = a /\ order[count + i].nonce = m
    BY <1>2, <1>5 DEF NoncesPending
  <2> QED
    BY <1>3, <1>4, <2>1
<1>7. /\ \A i \in 1..n :
           order[i] \in Transactions /\ order[i].from \in Accounts /\ order[i].nonce \in Nat
      /\ \A i, j \in 1..n : i < j /\ order[i].from = order[j].from => order[i].nonce < order[j].nonce
      /\ \A m : m \in NoncesPending(a) <=> \E i \in 1..n : order[i].from = a /\ order[i].nonce = m
  <2>1. \A i \in DOMAIN order :
          order[i] \in Transactions /\ order[i].from \in Accounts /\ order[i].nonce \in Nat
    BY OrderInLine
  <2>2. \A i, j \in DOMAIN order :
          i < j /\ order[i].from = order[j].from => order[i].nonce < order[j].nonce
    BY OrderInLine
  <2>3. \A m : m \in NoncesPending(a) <=>
                \E i \in DOMAIN order : order[i].from = a /\ order[i].nonce = m
    BY OrderInLine
  <2>4. 1..n = DOMAIN order
    BY <1>1
  <2>5. \A i \in 1..n :
          order[i] \in Transactions /\ order[i].from \in Accounts /\ order[i].nonce \in Nat
    BY <2>1, <2>4
  <2>6. \A i, j \in 1..n : i < j /\ order[i].from = order[j].from => order[i].nonce < order[j].nonce
    BY <2>2, <2>4
  <2>7. \A m : m \in NoncesPending(a) <=> \E i \in 1..n : order[i].from = a /\ order[i].nonce = m
    <3> TAKE m
    <3> QED
      BY <2>3, <2>4
  <2> QED
    BY <2>5, <2>6, <2>7
<1>8. \A i \in PendingOf(a)' : stateRoot'[a] <= pending_transactions'[i].nonce
  BY <1>2, <1>3, <1>5 DEF n
<1>9. ASSUME NEW i \in PendingOf(a)', NEW j \in PendingOf(a)',
             pending_transactions'[i].nonce = pending_transactions'[j].nonce
      PROVE  i = j
  <2>1. i \in 1..r /\ j \in 1..r /\ order[count + i].from = a /\ order[count + j].from = a
        /\ order[count + i].nonce = order[count + j].nonce
    BY <1>2, <1>5, <1>9
  <2>2. ~(count + i < count + j) /\ ~(count + j < count + i)
    BY <1>3, <1>7, <2>1
  <2> QED
    BY <1>1, <2>1, <2>2
<1>10. ASSUME NEW m \in NoncesPending(a)', NEW l \in NoncesPending(a)', NEW k \in m..l
       PROVE  k \in NoncesPending(a)'
  <2>1. PICK i \in (count + 1)..n : order[i].from = a /\ order[i].nonce = m
    BY <1>6
  <2>2. PICK j \in (count + 1)..n : order[j].from = a /\ order[j].nonce = l
    BY <1>6
  <2>3. m \in NoncesPending(a) /\ l \in NoncesPending(a) /\ i \in 1..n /\ m \in Nat /\ l \in Nat
    BY <1>4, <1>7, <2>1, <2>2
  <2>4. k \in NoncesPending(a)
    BY <2>3 DEF InLine
  <2>5. PICK q \in 1..n : order[q].from = a /\ order[q].nonce = k
    BY <1>7, <2>4
  <2>6. ASSUME q < i PROVE FALSE
    <3>1. order[q].nonce < order[i].nonce
      BY <1>7, <2>1, <2>3, <2>5, <2>6
    <3>2. k < m
      BY <2>1, <2>5, <3>1
    <3> QED
      BY <2>3, <3>2
  <2>7. q \in (count + 1)..n
    BY <1>1, <2>1, <2>5, <2>6
  <2> QED
    BY <1>6, <2>5, <2>7
<1>11. PendingOf(a)' # {} /\ a \notin stranded' => stateRoot'[a] \in NoncesPending(a)'
  BY <1>3, <1>5, <1>6 DEF n
<1> QED
  BY <1>8, <1>9, <1>10, <1>11 DEF InLine

(* The last transaction of an account in a block that the VM has run. *)
LEMMA LastOfBatch ==
  ASSUME IInv, NEW batch \in Seq(Transactions), RunsInVM(batch), NEW a \in Accounts,
         CountFrom(a, batch) # 0
  PROVE  \E i \in DOMAIN batch :
           batch[i].from = a /\ batch[i].nonce = stateRoot[a] + CountFrom(a, batch) - 1
<1> DEFINE M == PlacesIn(a, batch)
<1>1. /\ Len(batch) \in Nat /\ DOMAIN batch = 1..Len(batch)
      /\ IsFiniteSet(M) /\ CountFrom(a, batch) = Cardinality(M) /\ CountFrom(a, batch) \in Nat
  BY LenProperties, CountType
<1>2. M \subseteq 1..Len(batch) /\ \A i \in M : batch[i].from = a
  BY <1>1 DEF PlacesIn
<1>3. M # {}
  BY <1>1, FS_EmptySet
<1>4. M \in SUBSET Nat /\ \A i \in M : i <= Len(batch)
  BY <1>1, <1>2
<1> HIDE DEF M
<1>5. Max(M) \in M /\ \A i \in M : i <= Max(M)
  BY <1>1, <1>3, <1>4, GreatestMember
<1> DEFINE i == Max(M)
<1> HIDE DEF i
<1>6. i \in M /\ i \in 1..Len(batch) /\ i - 1 \in 0..Len(batch) /\ \A j \in M : j <= i
  <2>1. i \in M /\ \A j \in M : j <= i
    BY <1>5 DEF i
  <2>2. i \in 1..Len(batch)
    BY <1>2, <2>1
  <2> QED
    BY <1>1, <2>1, <2>2
<1>7. SubSeq(batch, 1, i - 1) \in Seq(Transactions)
      /\ PlacesIn(a, SubSeq(batch, 1, i - 1)) = M \cap 1..(i - 1)
  BY <1>6, PlacesInPrefix DEF M
<1>8. M \cap 1..(i - 1) = M \ {i}
  <2>1. \A j \in M : j \in 1..(i - 1) <=> j # i
    BY <1>1, <1>2, <1>6
  <2> QED
    BY <2>1
<1>9. Cardinality(M \ {i}) = Cardinality(M) - 1
  BY <1>1, <1>6, FS_RemoveElement
<1>10. CountFrom(a, SubSeq(batch, 1, i - 1)) = CountFrom(a, batch) - 1
  <2>1. CountFrom(a, SubSeq(batch, 1, i - 1)) = Cardinality(PlacesIn(a, SubSeq(batch, 1, i - 1)))
    BY <1>7, CountType
  <2> QED
    BY <1>1, <1>7, <1>8, <1>9, <2>1
<1>11. batch[i].from = a /\ i \in DOMAIN batch
  BY <1>1, <1>2, <1>6
<1>12. batch[i].nonce = stateRoot[a] + (CountFrom(a, batch) - 1)
  BY <1>10, <1>11 DEF RunsInVM
<1>13. stateRoot[a] \in Nat
  BY DEF IInv, TypeOK
<1> QED
  BY <1>1, <1>11, <1>12, <1>13

(* A block, whether the VM runs it or not, keeps the pool in line. *)
LEMMA TurnKeepsLine ==
  ASSUME IInv, \A a \in Accounts : InLine(a),
         NEW order \in sortByPriceAndNonce, NEW count \in 0..Len(pending_transactions),
         processNextBlock(order, count)
  PROVE  \A a \in Accounts : InLine(a)'
<1> DEFINE batch == SubSeq(order, 1, count)
           rest == SubSeq(order, count + 1, Len(order))
           n == Len(order)
<1>1. /\ pending_transactions' = rest
      /\ \/ RunsInVM(batch) /\ putBlock(batch) /\ stranded' = StrandedAfter({}, rest)
         \/ UNCHANGED chainVars /\ stranded' = StrandedAfter(Range(batch), rest)
  BY VerdictOfBatch, Zenon DEF processNextBlock
<1>2. TypeOK
  BY DEF IInv
<1>3. /\ n \in Nat /\ DOMAIN order = 1..n /\ count \in 0..n
      /\ batch \in Seq(Transactions) /\ DOMAIN batch = 1..count
      /\ \A i \in 1..count : batch[i] = order[i]
      /\ Range(batch) = {order[i] : i \in 1..count}
      /\ DOMAIN rest = 1..(n - count) /\ \A i \in 1..(n - count) : rest[i] = order[count + i]
  BY <1>2, BatchAndRest
<1> HIDE DEF batch, rest
<1>4. /\ \A i \in 1..n :
           /\ order[i] \in Transactions /\ order[i].from \in Accounts /\ order[i].nonce \in Nat
           /\ stateRoot[order[i].from] \in Nat /\ stateRoot[order[i].from] <= order[i].nonce
      /\ \A i, j \in 1..n : i < j /\ order[i].from = order[j].from => order[i].nonce < order[j].nonce
      /\ \A a \in Accounts : \A m :
           m \in NoncesPending(a) <=> \E i \in 1..n : order[i].from = a /\ order[i].nonce = m
  <2>1. \A i \in DOMAIN order :
          /\ order[i] \in Transactions /\ order[i].from \in Accounts /\ order[i].nonce \in Nat
          /\ stateRoot[order[i].from] \in Nat /\ stateRoot[order[i].from] <= order[i].nonce
    BY <1>2, OrderInLine
  <2>2. \A i, j \in DOMAIN order :
          i < j /\ order[i].from = order[j].from => order[i].nonce < order[j].nonce
    BY <1>2, OrderInLine
  <2>3. \A a \in Accounts : \A m :
          m \in NoncesPending(a) <=> \E i \in DOMAIN order : order[i].from = a /\ order[i].nonce = m
    BY <1>2, OrderInLine
  <2>4. 1..n = DOMAIN order
    BY <1>3
  <2> HIDE DEF n
  <2>5. \A i \in 1..n :
          /\ order[i] \in Transactions /\ order[i].from \in Accounts /\ order[i].nonce \in Nat
          /\ stateRoot[order[i].from] \in Nat /\ stateRoot[order[i].from] <= order[i].nonce
    BY <2>1, <2>4
  <2>6. \A i, j \in 1..n : i < j /\ order[i].from = order[j].from => order[i].nonce < order[j].nonce
    BY <2>2, <2>4
  <2>7. \A a \in Accounts : \A m :
          m \in NoncesPending(a) <=> \E i \in 1..n : order[i].from = a /\ order[i].nonce = m
    <3> TAKE a \in Accounts
    <3> TAKE m
    <3>1. m \in NoncesPending(a) <=> \E i \in DOMAIN order : order[i].from = a /\ order[i].nonce = m
      BY <2>3
    <3> QED
      BY <2>4, <3>1
  <2> QED
    BY <2>5, <2>6, <2>7
<1>5. SUFFICES ASSUME NEW a \in Accounts
               PROVE  /\ \A i \in (count + 1)..n : order[i].from = a => stateRoot'[a] <= order[i].nonce
                      /\ a \notin stranded' =>
                           \A i \in (count + 1)..n : order[i].from = a =>
                             \E j \in (count + 1)..n : order[j].from = a /\ order[j].nonce = stateRoot'[a]
  BY <1>1, <1>2, RestInLine DEF rest
<1>6. stateRoot[a] \in Nat
  BY <1>2 DEF TypeOK
<1> HIDE DEF n
<1>7. /\ (count + 1)..n \subseteq 1..n /\ 1..count \subseteq 1..n
      /\ \A i \in 1..n : i \notin (count + 1)..n => i \in 1..count
      /\ \A i \in (count + 1)..n : i - count \in 1..(n - count) /\ count + (i - count) = i
      /\ \A i \in 1..count, j \in (count + 1)..n : i < j
  <2>1. n \in Nat /\ count \in Nat /\ count <= n
    BY <1>3
  <2> QED
    BY <2>1
<1>8. \A i \in (count + 1)..n : order[i].from = a /\ a \in stranded => a \in StrandedAfter({}, rest)
  <2> SUFFICES ASSUME NEW i \in (count + 1)..n, order[i].from = a, a \in stranded
               PROVE  a \in StrandedAfter({}, rest)
    OBVIOUS
  <2>1. i - count \in DOMAIN rest /\ rest[i - count].from = a
    BY <1>3, <1>7
  <2> QED
    BY <2>1 DEF StrandedAfter
<1>9. \A i \in (count + 1)..n : order[i].from = a /\ a \notin stranded =>
        \E j \in 1..n : order[j].from = a /\ order[j].nonce = stateRoot[a]
  <2> SUFFICES ASSUME NEW i \in (count + 1)..n, order[i].from = a, a \notin stranded
               PROVE  \E j \in 1..n : order[j].from = a /\ order[j].nonce = stateRoot[a]
    OBVIOUS
  <2>1. PendingOf(a) # {}
    <3>1. order[i].nonce \in NoncesPending(a)
      BY <1>4, <1>7
    <3> QED
      BY <3>1 DEF NoncesPending
  <2>2. stateRoot[a] \in NoncesPending(a)
    BY <2>1 DEF InLine
  <2> QED
    BY <1>4, <2>2
<1>10. CASE RunsInVM(batch) /\ putBlock(batch) /\ stranded' = StrandedAfter({}, rest)
  <2> DEFINE k == CountFrom(a, batch)
  <2>1. k \in Nat /\ stateRoot'[a] = stateRoot[a] + k
    BY <1>3, <1>10, Written
  <2>2. \A i \in 1..count : order[i].from = a => order[i].nonce < stateRoot[a] + k
    BY <1>3, <1>10, NoncesOfBatch
  <2>3. k # 0 => \E i \in 1..count : order[i].from = a /\ order[i].nonce = stateRoot[a] + k - 1
    BY <1>3, <1>10, LastOfBatch
  <2> HIDE DEF k
  <2>4. \A i \in (count + 1)..n : order[i].from = a => stateRoot[a] + k <= order[i].nonce
    <3> SUFFICES ASSUME NEW i \in (count + 1)..n, order[i].from = a
                 PROVE  stateRoot[a] + k <= order[i].nonce
      OBVIOUS
    <3>1. order[i].nonce \in Nat /\ stateRoot[a] <= order[i].nonce
      BY <1>4, <1>7
    <3>2. CASE k = 0
      BY <1>6, <3>1, <3>2
    <3>3. CASE k # 0
      <4>1. PICK j \in 1..count : order[j].from = a /\ order[j].nonce = stateRoot[a] + k - 1
        BY <2>3, <3>3
      <4>2. order[j].nonce < order[i].nonce
        BY <1>4, <1>7, <4>1
      <4> QED
        BY <1>6, <2>1, <3>1, <4>1, <4>2
    <3> QED
      BY <3>2, <3>3
  <2>5. ASSUME a \notin stranded', NEW i \in (count + 1)..n, order[i].from = a
        PROVE  \E j \in (count + 1)..n : order[j].from = a /\ order[j].nonce = stateRoot[a] + k
    <3>1. a \notin stranded
      BY <1>8, <1>10, <2>5
    <3>2. /\ stateRoot[a] \in NoncesPending(a) /\ order[i].nonce \in NoncesPending(a)
          /\ order[i].nonce \in Nat
      BY <1>4, <1>7, <1>9, <2>5, <3>1
    <3>3. stateRoot[a] + k \in stateRoot[a]..order[i].nonce
      BY <1>6, <2>1, <2>4, <2>5, <3>2
    <3>4. stateRoot[a] + k \in NoncesPending(a)
      BY <3>2, <3>3 DEF InLine
    <3>5. PICK j \in 1..n : order[j].from = a /\ order[j].nonce = stateRoot[a] + k
      BY <1>4, <3>4
    <3>6. j \notin 1..count
      BY <1>6, <2>1, <2>2, <3>5
    <3> QED
      BY <1>7, <3>5, <3>6
  <2> QED
    BY <2>1, <2>4, <2>5
<1>11. CASE UNCHANGED chainVars /\ stranded' = StrandedAfter(Range(batch), rest)
  <2>1. stateRoot' = stateRoot
    BY <1>11 DEF chainVars
  <2>2. \A i \in (count + 1)..n : order[i].from = a => stateRoot'[a] <= order[i].nonce
    BY <1>4, <1>7, <2>1
  <2>3. ASSUME a \notin stranded', NEW i \in (count + 1)..n, order[i].from = a
        PROVE  \E j \in (count + 1)..n : order[j].from = a /\ order[j].nonce = stateRoot'[a]
    <3>1. i - count \in DOMAIN rest /\ rest[i - count].from = a
      BY <1>3, <1>7, <2>3
    <3>2. a \notin stranded /\ \A tx \in Range(batch) : tx.from # a
      BY <1>11, <2>3, <3>1 DEF StrandedAfter
    <3>3. PICK j \in 1..n : order[j].from = a /\ order[j].nonce = stateRoot[a]
      BY <1>9, <2>3, <3>2
    <3>4. j \notin 1..count
      BY <1>3, <3>2, <3>3
    <3> QED
      BY <1>7, <2>1, <3>3, <3>4
  <2> QED
    BY <2>2, <2>3
<1> QED
  BY <1>1, <1>10, <1>11
-----------------------------------------------------------------------------
(* The pool (3): the steps, and the theorem. *)

(* What a step may do to the pool. *)
LEMMA StepsOfPool ==
  ASSUME IInv, [Next]_vars
  PROVE  \/ UNCHANGED <<chainVars, pending_transactions, stranded>> /\ ~Reverting
         \/ /\ ~Reverting /\ UNCHANGED <<chainVars, stranded>>
            /\ \E tx \in Inputs :
                 Acceptable(tx) /\ pending_transactions' = Append(pending_transactions, tx)
         \/ /\ ~Reverting
            /\ \E order \in sortByPriceAndNonce : \E count \in 0..Len(pending_transactions) :
                 LET verdict == Verdict(SubSeq(order, 1, count)) IN
                 /\ FitsInBlock(order, count) /\ processNextBlock(order, count)
                 /\ response'.error = verdict \/ verdict \in {"none", "runtime error"}
         \/ pending_transactions' = <<>> /\ (revertDone \/ restart)
         \/ UNCHANGED pending_transactions /\ Reverting'
<1>1. CASE \E tx \in Inputs : processTransaction(tx)
  BY <1>1, Zenon DEF processTransaction, Idle, Reverting
<1>2. CASE processBlocksTurn
  <2>1. PICK order \in sortByPriceAndNonce : \E count \in 0..Len(pending_transactions) :
          LET verdict == Verdict(SubSeq(order, 1, count)) IN
          /\ FitsInBlock(order, count) /\ processNextBlock(order, count)
          /\ verdict \in {"none", "runtime error"} \/ Respond(Answer(caller, NoTx, verdict))
    BY <1>2, Zenon DEF processBlocksTurn
  <2>2. PICK count \in 0..Len(pending_transactions) :
          LET verdict == Verdict(SubSeq(order, 1, count)) IN
          /\ FitsInBlock(order, count) /\ processNextBlock(order, count)
          /\ verdict \in {"none", "runtime error"} \/ Respond(Answer(caller, NoTx, verdict))
    BY <2>1
  <2>3. \A error : Respond(Answer(caller, NoTx, error)) => response'.error = error
    BY DEF Respond, Answer
  <2>4. ~Reverting
    BY <1>2 DEF processBlocksTurn, Reverting
  <2> QED
    BY <2>2, <2>3, <2>4, Zenon
<1>3. CASE \E adjustment \in 0..MaxAdjustment : svm_mine(adjustment)
  <2>1. PICK order \in sortByPriceAndNonce : \E count \in 0..Len(pending_transactions) :
          LET verdict == Verdict(SubSeq(order, 1, count)) IN
          /\ FitsInBlock(order, count) /\ processNextBlock(order, count)
          /\ Respond(Answer(NoTx, NoTx, verdict))
    BY <1>3, Zenon DEF svm_mine
  <2>2. PICK count \in 0..Len(pending_transactions) :
          LET verdict == Verdict(SubSeq(order, 1, count)) IN
          /\ FitsInBlock(order, count) /\ processNextBlock(order, count)
          /\ Respond(Answer(NoTx, NoTx, verdict))
    BY <2>1
  <2>3. \A error : Respond(Answer(NoTx, NoTx, error)) => response'.error = error
    BY DEF Respond, Answer
  <2>4. ~Reverting
    BY <1>3 DEF svm_mine, Idle, Reverting
  <2> QED
    BY <2>2, <2>3, <2>4, Zenon
<1>4. CASE \/ rejectTransaction \/ startMining \/ stopMining \/ snapshot
           \/ \E adjustment \in 0..MaxAdjustment : setTime(adjustment)
           \/ \E seconds \in 1..MaxAdjustment : increaseTime(seconds)
           \/ \E id \in 1..(MaxSnapshots + 1) : revertUnknown(id)
           \/ processBlocksDone
  <2>1. UNCHANGED <<chainVars, pending_transactions, stranded>> /\ ~Reverting
    BY <1>4 DEF rejectTransaction, startMining, stopMining, snapshot, setTime, increaseTime,
                revertUnknown, processBlocksDone, stateVars, Idle, Reverting
  <2> QED
    BY <2>1
<1>5. CASE \/ \E id \in 1..(MaxSnapshots + 1) : revert(id)
           \/ popSnapshot \/ revertPopsBlock \/ blocksPopped
  <2>1. UNCHANGED pending_transactions /\ Reverting'
    BY <1>5 DEF revert, beginRevert, popSnapshot, revertPopsBlock, blocksPopped, backToSnapshots,
                requestVars, stateVars, Reverting
  <2> QED
    BY <2>1
<1>6. CASE revertDone \/ restart
  BY <1>6 DEF revertDone, clearPendingTransactions, restart
<1>7. CASE UNCHANGED vars
  <2>1. UNCHANGED <<chainVars, pending_transactions, stranded>> /\ UNCHANGED phase
    BY <1>7 DEF vars, stateVars, requestVars
  <2> QED
    BY <2>1 DEF Reverting
<1> QED
  BY <1>1, <1>2, <1>3, <1>4, <1>5, <1>6, <1>7, Zenon DEF Next, Request, Continue

LEMMA NextPoolInLine ==
  ASSUME IInv, PoolInLine, [Next]_vars
  PROVE  PoolInLine'
<1>1. TypeOK
  BY DEF IInv
<1>2. SUFFICES ASSUME ~Reverting' PROVE \A a \in Accounts : InLine(a)'
  BY DEF PoolInLine
<1>3. ~Reverting => \A a \in Accounts : InLine(a)
  BY DEF PoolInLine
<1>4. CASE UNCHANGED <<chainVars, pending_transactions, stranded>> /\ ~Reverting
  <2>1. UNCHANGED <<stateRoot, pending_transactions, stranded>>
    BY <1>4 DEF chainVars
  <2> QED
    BY <1>3, <1>4, <2>1 DEF InLine, PendingOf, NoncesPending
<1>5. CASE /\ ~Reverting /\ UNCHANGED <<chainVars, stranded>>
           /\ \E tx \in Inputs :
                Acceptable(tx) /\ pending_transactions' = Append(pending_transactions, tx)
  <2>1. PICK tx \in Inputs :
          Acceptable(tx) /\ pending_transactions' = Append(pending_transactions, tx)
    BY <1>5
  <2>2. tx \in Transactions /\ tx.nonce = getQueuedNonce(tx.from)
    BY <2>1, BoundsAssumption DEF Inputs, Transactions, Acceptable
  <2>3. UNCHANGED <<stateRoot, stranded>>
    BY <1>5 DEF chainVars
  <2> QED
    BY <1>1, <1>3, <1>5, <2>1, <2>2, <2>3, JoinKeepsLine
<1>6. CASE /\ ~Reverting
           /\ \E order \in sortByPriceAndNonce : \E count \in 0..Len(pending_transactions) :
                processNextBlock(order, count)
  <2>1. PICK order \in sortByPriceAndNonce : \E count \in 0..Len(pending_transactions) :
          processNextBlock(order, count)
    BY <1>6
  <2>2. PICK count \in 0..Len(pending_transactions) : processNextBlock(order, count)
    BY <2>1
  <2> QED
    BY <1>3, <1>6, <2>2, TurnKeepsLine
<1>7. CASE pending_transactions' = <<>>
  BY <1>7 DEF InLine, PendingOf, NoncesPending
<1> QED
  BY <1>2, <1>4, <1>5, <1>6, <1>7, StepsOfPool, Zenon

LEMMA PoolInLineHolds == Spec => []PoolInLine
<1>1. Init => PoolInLine
  BY DEF Init, PoolInLine, InLine, PendingOf, NoncesPending
<1>2. IInv /\ PoolInLine /\ [Next]_vars => PoolInLine'
  BY NextPoolInLine
<1> QED
  BY <1>1, <1>2, IInvHolds, PTL DEF Spec

(* The nonces of a pool in line, as the pool is asked for them. *)
LEMMA LineContinues ==
  ASSUME TypeOK, NEW a \in Accounts, InLine(a)
  PROVE  LET nonces == {pending_transactions[i].nonce : i \in PendingOf(a)} IN
         /\ Cardinality(nonces) = Cardinality(PendingOf(a))
         /\ nonces # {} =>
              /\ nonces = Min(nonces)..Max(nonces)
              /\ Min(nonces) >= stateRoot[a]
              /\ a \notin stranded => Min(nonces) = stateRoot[a]
<1> DEFINE nonces == {pending_transactions[i].nonce : i \in PendingOf(a)}
           f == [i \in PendingOf(a) |-> pending_transactions[i].nonce]
<1>1. /\ Len(pending_transactions) \in Nat /\ PendingOf(a) \in SUBSET (1..Len(pending_transactions))
      /\ nonces \in SUBSET Nat /\ stateRoot[a] \in Nat
  BY PoolTypes DEF NoncesPending, TypeOK
<1>2. IsFiniteSet(PendingOf(a))
  <2>1. IsFiniteSet(1..Len(pending_transactions))
    BY <1>1, FS_Interval
  <2> QED
    BY <1>1, <2>1, FS_Subset
<1>3. f \in Bijection(PendingOf(a), nonces)
  <2>1. f \in Injection(PendingOf(a), nonces)
    BY DEF InLine, Injection, IsInjective
  <2>2. f \in Surjection(PendingOf(a), nonces)
    BY DEF Surjection
  <2> QED
    BY <2>1, <2>2 DEF Bijection
<1>4. Cardinality(nonces) = Cardinality(PendingOf(a))
  BY <1>2, <1>3, FS_Bijection DEF ExistsBijection
<1>5. ASSUME nonces # {}
      PROVE  /\ nonces = Min(nonces)..Max(nonces)
             /\ Min(nonces) >= stateRoot[a]
             /\ a \notin stranded => Min(nonces) = stateRoot[a]
  <2>1. PICK u \in Nat : \A i \in DOMAIN pending_transactions : pending_transactions[i].nonce <= u
    BY NoncesBounded DEF TypeOK
  <2>2. \A m \in nonces : m <= u /\ stateRoot[a] <= m
    <3>1. \A i \in PendingOf(a) : i \in DOMAIN pending_transactions
      BY DEF PendingOf
    <3> QED
      BY <2>1, <3>1 DEF InLine
  <2>3. /\ \A m, n \in nonces : m..n \subseteq nonces
        /\ a \notin stranded => stateRoot[a] \in nonces
    BY <1>5 DEF InLine, NoncesPending
  <2> HIDE DEF nonces
  <2>4. Min(nonces) \in nonces /\ \A m \in nonces : Min(nonces) <= m
    BY <1>1, <1>5, LeastMember
  <2>5. Max(nonces) \in nonces /\ \A m \in nonces : m <= Max(nonces)
    BY <1>1, <1>5, <2>1, <2>2, GreatestMember
  <2>6. Min(nonces)..Max(nonces) \subseteq nonces
    BY <2>3, <2>4, <2>5
  <2>7. nonces \subseteq Min(nonces)..Max(nonces)
    BY <1>1, <2>4, <2>5
  <2>8. Min(nonces) \in Nat /\ stateRoot[a] <= Min(nonces)
    BY <1>1, <2>2, <2>4
  <2>9. a \notin stranded => Min(nonces) <= stateRoot[a]
    BY <2>3, <2>4
  <2>10. nonces = Min(nonces)..Max(nonces)
    BY <2>6, <2>7, Zenon
  <2>11. Min(nonces) >= stateRoot[a] /\ (a \notin stranded => Min(nonces) = stateRoot[a])
    BY <1>1, <2>8, <2>9
  <2> QED
    BY <2>10, <2>11, Zenon
<1> QED
  BY <1>4, <1>5

(* Whatever the prices and the gas of the transactions, and whichever blocks fail: the pending
   nonces of every account are consecutive, without repetition, and begin at the nonce of its
   state unless a failed block has dropped one of its transactions. *)
THEOREM PoolContinues == Spec => []PendingNoncesContinue
<1>1. IInv /\ PoolInLine => PendingNoncesContinue
  BY LineContinues DEF IInv, PoolInLine, PendingNoncesContinue
<1> QED
  BY <1>1, IInvHolds, PoolInLineHolds, PTL
-----------------------------------------------------------------------------
(* What senders are told. *)

(* The gas of a batch of one transaction. *)
LEMMA GasOfOne ==
  ASSUME NEW txs, txs[1].payload.gas \in Nat
  PROVE  GasOf(txs, 1) = txs[1].payload.gas
<1> DEFINE Step(h, s) == IF s = {} THEN 0
                         ELSE txs[CHOOSE x \in s : TRUE].payload.gas + h[s \ {CHOOSE x \in s : TRUE}]
           f == CHOOSE h : h = [s \in SUBSET (1..1) |-> Step(h, s)]
           g == [s \in SUBSET (1..1) |-> IF s = {} THEN 0 ELSE txs[1].payload.gas]
<1>1. GasOf(txs, 1) = f[1..1]
  BY Zenon DEF GasOf, MapThenSumSet, MapThenFoldSet
<1>2. SUBSET (1..1) = {{}, {1}} /\ 1..1 = {1} /\ {1} # {} /\ {1} \ {1} = {}
  OBVIOUS
<1>3. (CHOOSE x \in {1} : TRUE) = 1
  OBVIOUS
<1>4. g = [s \in SUBSET (1..1) |-> Step(g, s)]
  <2>1. \A s \in SUBSET (1..1) : Step(g, s) = IF s = {} THEN 0 ELSE txs[1].payload.gas
    <3>1. Step(g, {}) = 0
      OBVIOUS
    <3>2. Step(g, {1}) = txs[1].payload.gas
      <4>1. g[{}] = 0
        BY <1>2
      <4> HIDE DEF g
      <4>2. Step(g, {1}) = txs[1].payload.gas + g[{}]
        BY <1>2, <1>3
      <4> QED
        BY <4>1, <4>2
    <3> HIDE DEF Step, g
    <3> QED
      BY <1>2, <3>1, <3>2
  <2> HIDE DEF Step
  <2> QED
    BY <2>1
<1>5. f = [s \in SUBSET (1..1) |-> Step(f, s)]
  <2> HIDE DEF Step, g
  <2> QED
    BY <1>4, Zenon
<1> HIDE DEF f, g
<1>6. f[{}] = 0
  <2>1. {} \in SUBSET (1..1) /\ Step(f, {}) = 0
    OBVIOUS
  <2> HIDE DEF Step
  <2> QED
    BY <1>5, <2>1
<1>7. f[{1}] = txs[1].payload.gas + f[{}]
  <2>1. {1} \in SUBSET (1..1) /\ Step(f, {1}) = txs[1].payload.gas + f[{}]
    BY <1>2, <1>3
  <2> HIDE DEF Step
  <2> QED
    BY <1>5, <2>1
<1> QED
  BY <1>1, <1>2, <1>6, <1>7
(* When something is pending and every pending transaction fits in a block of its own, a block
   takes something. *)
LEMMA SomethingFits ==
  ASSUME TypeOK, PoolFits, pending_transactions # <<>>,
         NEW order \in sortByPriceAndNonce, NEW count \in 0..Len(pending_transactions),
         FitsInBlock(order, count)
  PROVE  SubSeq(order, 1, count) # <<>>
<1>1. /\ order \in Seq(Transactions) /\ Len(order) = Len(pending_transactions)
      /\ Len(order) \in Nat /\ Len(order) # 0 /\ DOMAIN order = 1..Len(order)
  BY OrderIsPool, LenProperties, EmptySeq DEF TypeOK
<1>2. 1 \in DOMAIN order
  BY <1>1
<1>3. order[1] \in Range(pending_transactions)
  <2>1. PICK p \in [DOMAIN order -> DOMAIN pending_transactions] :
          \A i \in DOMAIN order : order[i] = pending_transactions[p[i]]
    BY OrderIsPool
  <2> QED
    BY <1>2, <2>1 DEF Range
<1>4. order[1].payload.gas \in Nat /\ order[1].payload.gas <= BlockGasLimit
  <2>1. order[1] \in Transactions
    BY <1>1, <1>2, TransactionAt
  <2> QED
    BY <1>3, <2>1, PayloadsAssumption DEF PoolFits, Transactions
<1>5. count # 0
  <2> SUFFICES ASSUME count = 0 PROVE FALSE
    OBVIOUS
  <2>1. GasOf(order, 0 + 1) > BlockGasLimit
    BY <1>1 DEF FitsInBlock
  <2>2. 0 + 1 = 1
    OBVIOUS
  <2>3. GasOf(order, 1) = order[1].payload.gas
    BY <1>4, GasOfOne
  <2> QED
    BY <1>4, <2>1, <2>2, <2>3, BoundsAssumption
<1>6. Len(SubSeq(order, 1, count)) = count
  BY <1>1, PrefixType
<1> QED
  BY <1>5, <1>6, EmptySeq

LEMMA RangeOfAppend ==
  ASSUME NEW S, NEW s \in Seq(S), NEW e \in S
  PROVE  Range(Append(s, e)) = Range(s) \cup {e}
<1> DEFINE n == Len(s)
           t == Append(s, e)
<1>1. /\ n \in Nat /\ DOMAIN s = 1..n /\ DOMAIN t = 1..(n + 1) /\ t[n + 1] = e
      /\ \A i \in 1..n : t[i] = s[i]
  BY AppendProperties, LenProperties
<1>2. 1..(n + 1) = 1..n \cup {n + 1}
  BY <1>1
<1> HIDE DEF n, t
<1>3. Range(t) = Range(s) \cup {e}
  BY <1>1, <1>2 DEF Range
<1> QED
  BY <1>3 DEF t

LEMMA NextPoolFits ==
  ASSUME IInv, PoolFits, [Next]_vars
  PROVE  PoolFits'
<1>1. TypeOK
  BY DEF IInv
<1>2. CASE UNCHANGED pending_transactions
  BY <1>2 DEF PoolFits
<1>3. CASE \E tx \in Inputs :
             Acceptable(tx) /\ pending_transactions' = Append(pending_transactions, tx)
  <2>1. PICK tx \in Inputs :
          Acceptable(tx) /\ pending_transactions' = Append(pending_transactions, tx)
    BY <1>3
  <2>2. tx \in Transactions /\ pending_transactions \in Seq(Transactions)
    BY <1>1, <2>1, BoundsAssumption DEF Inputs, Transactions, TypeOK
  <2>3. Range(pending_transactions') = Range(pending_transactions) \cup {tx}
    BY <2>1, <2>2, RangeOfAppend
  <2> QED
    BY <2>1, <2>3 DEF PoolFits, Acceptable
<1>4. CASE \E order \in sortByPriceAndNonce : \E count \in 0..Len(pending_transactions) :
             processNextBlock(order, count)
  <2>1. PICK order \in sortByPriceAndNonce : \E count \in 0..Len(pending_transactions) :
          processNextBlock(order, count)
    BY <1>4
  <2>2. PICK count \in 0..Len(pending_transactions) : processNextBlock(order, count)
    BY <2>1
  <2>3. pending_transactions' = SubSeq(order, count + 1, Len(order))
    BY <2>2, Zenon DEF processNextBlock
  <2>4. Range(pending_transactions') \subseteq Range(pending_transactions)
    BY <1>1, <2>3, BatchAndRest
  <2> QED
    BY <2>4 DEF PoolFits
<1>5. CASE pending_transactions' = <<>>
  BY <1>5 DEF PoolFits, Range
<1> QED
  BY <1>2, <1>3, <1>4, <1>5, StepsOfPool, Zenon
-----------------------------------------------------------------------------
(* While processBlocks runs, the transaction whose sender waits is on the chain or still
   pending, and the hash it would be told with an exception is on the chain. *)
CallerKnown ==
  /\ phase # "processBlocks" => caller = NoTx /\ runtimeError = NoTx
  /\ caller # NoTx => caller \in OnChain \cup Range(pending_transactions)
  /\ runtimeError # NoTx => runtimeError \in OnChain /\ runtimeError.payload.outcome = "throws"

AnswerInv == PoolFits /\ CallerKnown /\ MinedBeforeAnswered

LEMMA RespondEnds ==
  ASSUME NEW answer, Respond(answer)
  PROVE  CallerKnown' /\ phase' = "idle" /\ response' = answer
  BY DEF Respond, CallerKnown

LEMMA NothingToTell ==
  ASSUME response'.tx = NoTx, response'.error # "exceeds block gas limit"
  PROVE  MinedBeforeAnswered'
  BY DEF MinedBeforeAnswered

LEMMA StillBusy ==
  ASSUME phase' # "idle", response'.error # "exceeds block gas limit"
  PROVE  MinedBeforeAnswered'
  BY DEF MinedBeforeAnswered, Idle

(* One turn of processBlocks. *)
LEMMA TurnAnswers ==
  ASSUME IInv, ChainInv, ChainInv', AnswerInv, processBlocksTurn
  PROVE  CallerKnown' /\ MinedBeforeAnswered'
<1>1. PICK order \in sortByPriceAndNonce : \E count \in 0..Len(pending_transactions) :
        LET verdict == Verdict(SubSeq(order, 1, count)) IN
        /\ FitsInBlock(order, count) /\ processNextBlock(order, count)
        /\ IF verdict \in {"none", "runtime error"}
             THEN /\ runtimeError' =
                       IF verdict = "runtime error" /\ runtimeError = NoTx
                         THEN SubSeq(order, 1, count)[Min(Throwing(SubSeq(order, 1, count)))]
                         ELSE runtimeError
                  /\ UNCHANGED <<phase, caller, revertTo, origin, response>>
             ELSE Respond(Answer(caller, NoTx, verdict))
  BY Zenon DEF processBlocksTurn
<1>2. PICK count \in 0..Len(pending_transactions) :
        LET verdict == Verdict(SubSeq(order, 1, count)) IN
        /\ FitsInBlock(order, count) /\ processNextBlock(order, count)
        /\ IF verdict \in {"none", "runtime error"}
             THEN /\ runtimeError' =
                       IF verdict = "runtime error" /\ runtimeError = NoTx
                         THEN SubSeq(order, 1, count)[Min(Throwing(SubSeq(order, 1, count)))]
                         ELSE runtimeError
                  /\ UNCHANGED <<phase, caller, revertTo, origin, response>>
             ELSE Respond(Answer(caller, NoTx, verdict))
  BY <1>1
<1> DEFINE batch == SubSeq(order, 1, count)
           rest == SubSeq(order, count + 1, Len(order))
           verdict == Verdict(batch)
<1>3. TypeOK /\ PoolFits /\ phase = "processBlocks" /\ pending_transactions # <<>>
  BY DEF IInv, AnswerInv, processBlocksTurn
<1>4. batch # <<>>
  BY <1>2, <1>3, SomethingFits
<1>5. /\ batch \in Seq(Transactions) /\ pending_transactions' = rest
      /\ Range(pending_transactions) = Range(batch) \cup Range(rest)
  <2>1. pending_transactions' = rest
    BY <1>2, Zenon DEF processNextBlock
  <2> QED
    BY <1>3, <2>1, BatchAndRest
<1>6. \/ verdict \in {"none", "runtime error"} /\ putBlock(batch)
      \/ verdict \notin {"none", "runtime error"}
  BY <1>2, Zenon DEF processNextBlock
<1>7. verdict = "runtime error" => Throwing(batch) # {}
  BY VerdictOfBatch
<1>8. verdict \notin {"none", "runtime error"} => verdict = "vm error"
  BY <1>4, VerdictOfBatch
<1> HIDE DEF batch, rest
<1>9. CASE verdict \in {"none", "runtime error"}
  <2>1. /\ putBlock(batch) /\ UNCHANGED <<phase, caller, response>>
        /\ runtimeError' = IF verdict = "runtime error" /\ runtimeError = NoTx
                             THEN batch[Min(Throwing(batch))] ELSE runtimeError
    BY <1>2, <1>6, <1>9 DEF batch
  <2>2. OnChain' = OnChain \cup Range(batch)
    <3>1. transactions' = transactions \cup Range(batch)
      BY <2>1, Zenon DEF putBlock
    <3> QED
      BY <3>1 DEF ChainInv, ChainIsSound, IndexesMatchChain
  <2>3. caller' # NoTx => caller' \in OnChain' \cup Range(pending_transactions')
    BY <1>5, <2>1, <2>2 DEF AnswerInv, CallerKnown
  <2>4. runtimeError' # NoTx =>
          runtimeError' \in OnChain' /\ runtimeError'.payload.outcome = "throws"
    <3>1. CASE verdict = "runtime error" /\ runtimeError = NoTx
      <4>1. Min(Throwing(batch)) \in Throwing(batch)
        <5>1. Throwing(batch) \in SUBSET Nat
          BY <1>5, LenProperties DEF Throwing
        <5> QED
          BY <1>7, <3>1, <5>1, LeastMember
      <4>2. runtimeError' = batch[Min(Throwing(batch))]
        BY <2>1, <3>1
      <4> QED
        BY <2>2, <4>1, <4>2 DEF Throwing, Range
    <3>2. CASE ~(verdict = "runtime error" /\ runtimeError = NoTx)
      <4>1. runtimeError' = runtimeError
        BY <2>1, <3>2
      <4> QED
        BY <2>2, <4>1 DEF AnswerInv, CallerKnown
    <3> QED
      BY <3>1, <3>2
  <2>5. phase' = "processBlocks"
    BY <1>3, <2>1
  <2>6. response'.error # "exceeds block gas limit"
    BY <2>1 DEF AnswerInv, MinedBeforeAnswered
  <2> QED
    BY <2>3, <2>4, <2>5, <2>6, StillBusy DEF CallerKnown
<1>10. CASE verdict \notin {"none", "runtime error"}
  <2>1. Respond(Answer(caller, NoTx, "vm error"))
    BY <1>2, <1>8, <1>10 DEF batch
  <2>2. CallerKnown' /\ response' = Answer(caller, NoTx, "vm error")
    BY <2>1, RespondEnds, Zenon
  <2>3. response'.error = "vm error"
    BY <2>2 DEF Answer
  <2>4. response'.error \notin {"none", "runtime error", "exceeds block gas limit"}
    BY <2>3
  <2> QED
    BY <2>2, <2>4, Zenon DEF MinedBeforeAnswered
<1> QED
  BY <1>9, <1>10

(* A transaction request. *)
LEMMA RequestAnswers ==
  ASSUME IInv, AnswerInv, NEW tx \in Inputs, processTransaction(tx)
  PROVE  CallerKnown' /\ MinedBeforeAnswered'
<1>1. /\ phase = "idle" /\ pending_transactions' = Append(pending_transactions, tx)
      /\ UNCHANGED <<is_mining, is_mining_on_interval>>
  BY DEF processTransaction, Idle, minerVars
<1>2. tx \in Transactions /\ pending_transactions \in Seq(Transactions)
  BY BoundsAssumption DEF Inputs, Transactions, IInv, TypeOK
<1>3. tx \in Range(pending_transactions')
  BY <1>1, <1>2, RangeOfAppend
<1>4. CASE ~is_mining \/ is_mining_on_interval
  <2>1. Respond(Answer(tx, tx, "none"))
    BY <1>4, Zenon DEF processTransaction
  <2>2. CallerKnown' /\ response' = Answer(tx, tx, "none")
    BY <2>1, RespondEnds, Zenon
  <2>3. response'.tx = tx /\ response'.error = "none"
    BY <2>2 DEF Answer
  <2>4. MinedBeforeAnswered'
    BY <1>1, <1>3, <1>4, <2>3 DEF MinedBeforeAnswered
  <2> QED
    BY <2>2, <2>4
<1>5. CASE ~(~is_mining \/ is_mining_on_interval)
  <2>1. StartProcessBlocks(tx)
    BY <1>5, Zenon DEF processTransaction
  <2>2. phase' = "processBlocks" /\ caller' = tx /\ response' = NoAnswer /\ runtimeError' = runtimeError
    BY <2>1 DEF StartProcessBlocks
  <2>3. runtimeError = NoTx
    BY <1>1 DEF AnswerInv, CallerKnown
  <2>4. CallerKnown'
    BY <1>3, <2>2, <2>3 DEF CallerKnown
  <2>5. response'.error # "exceeds block gas limit"
    BY <2>2 DEF NoAnswer, Answer
  <2> QED
    BY <2>2, <2>4, <2>5, StillBusy
<1> QED
  BY <1>4, <1>5

(* The end of processBlocks. *)
LEMMA DoneAnswers ==
  ASSUME IInv, ChainInv, AnswerInv, processBlocksDone
  PROVE  CallerKnown' /\ MinedBeforeAnswered'
<1>1. /\ pending_transactions = <<>> /\ UNCHANGED <<blocks, transactionReceipts>>
      /\ Respond(IF runtimeError = NoTx THEN Answer(caller, caller, "none")
                                        ELSE Answer(caller, runtimeError, "runtime error"))
  BY DEF processBlocksDone, PoolProcessed, stateVars, chainVars, dbVars
<1>2. CallerKnown'
  BY <1>1, RespondEnds, Zenon
<1>3. response' = IF runtimeError = NoTx THEN Answer(caller, caller, "none")
                                         ELSE Answer(caller, runtimeError, "runtime error")
  BY <1>1 DEF Respond
<1>4. /\ response'.tx = caller
      /\ response'.error = IF runtimeError = NoTx THEN "none" ELSE "runtime error"
      /\ runtimeError # NoTx => response'.result = runtimeError
  BY <1>3 DEF Answer
<1>5. OnChain' = OnChain /\ transactionReceipts' = transactionReceipts
  BY <1>1 DEF OnChain
<1>6. Range(pending_transactions) = {}
  <2>1. Range(<<>>) = {}
    BY DEF Range
  <2> QED
    BY <1>1, <2>1
<1>7. /\ caller # NoTx => caller \in OnChain
      /\ runtimeError # NoTx => runtimeError \in OnChain /\ runtimeError.payload.outcome = "throws"
  BY <1>6 DEF AnswerInv, CallerKnown
<1>8. /\ DOMAIN transactionReceipts = OnChain
      /\ \A tx \in OnChain : transactionReceipts[tx].status = IF tx.payload.outcome = "throws" THEN 0 ELSE 1
  BY DEF ChainInv, ChainIsSound, IndexesMatchChain
<1>9. MinedBeforeAnswered'
  BY <1>4, <1>5, <1>7, <1>8 DEF MinedBeforeAnswered
<1> QED
  BY <1>2, <1>9

LEMMA NextAnswers ==
  ASSUME IInv, ChainInv, ChainInv', AnswerInv, [Next]_vars
  PROVE  CallerKnown' /\ MinedBeforeAnswered'
<1>1. CASE \E tx \in Inputs : processTransaction(tx)
  BY <1>1, RequestAnswers
<1>2. CASE processBlocksTurn
  BY <1>2, TurnAnswers
<1>3. CASE processBlocksDone
  BY <1>3, DoneAnswers
<1>4. CASE \E adjustment \in 0..MaxAdjustment : svm_mine(adjustment)
  <2>1. PICK order \in sortByPriceAndNonce : \E count \in 0..Len(pending_transactions) :
          /\ FitsInBlock(order, count)
          /\ Respond(Answer(NoTx, NoTx, Verdict(SubSeq(order, 1, count))))
    BY <1>4, Zenon DEF svm_mine
  <2>2. PICK count \in 0..Len(pending_transactions) :
          /\ FitsInBlock(order, count)
          /\ Respond(Answer(NoTx, NoTx, Verdict(SubSeq(order, 1, count))))
    BY <2>1
  <2>3. TypeOK /\ PoolFits
    BY DEF IInv, AnswerInv
  <2> DEFINE batch == SubSeq(order, 1, count)
  <2>4. batch = <<>> => pending_transactions = <<>>
    BY <2>2, <2>3, SomethingFits
  <2> HIDE DEF batch
  <2>5. Verdict(batch) # "exceeds block gas limit"
    BY <2>4, VerdictOfBatch DEF Verdict
  <2>6. CallerKnown' /\ response' = Answer(NoTx, NoTx, Verdict(batch))
    BY <2>2, RespondEnds, Zenon DEF batch
  <2>7. response'.tx = NoTx /\ response'.error # "exceeds block gas limit"
    BY <2>5, <2>6 DEF Answer
  <2> QED
    BY <2>6, <2>7, NothingToTell
<1>5. ASSUME NEW error \in {"none", "rejected"}, Respond(Answer(NoTx, NoTx, error))
      PROVE  CallerKnown' /\ MinedBeforeAnswered'
  <2>1. CallerKnown' /\ response' = Answer(NoTx, NoTx, error)
    BY <1>5, RespondEnds, Zenon
  <2>2. response'.tx = NoTx /\ response'.error # "exceeds block gas limit"
    BY <2>1 DEF Answer
  <2> QED
    BY <2>1, <2>2, NothingToTell
<1>6. CASE \/ rejectTransaction \/ stopMining \/ snapshot \/ revertDone \/ restart
           \/ \E adjustment \in 0..MaxAdjustment : setTime(adjustment)
           \/ \E seconds \in 1..MaxAdjustment : increaseTime(seconds)
           \/ \E id \in 1..(MaxSnapshots + 1) : revertUnknown(id)
  <2>1. \/ Respond(Answer(NoTx, NoTx, "none"))
        \/ Respond(Answer(NoTx, NoTx, "rejected"))
    BY <1>6, Zenon DEF rejectTransaction, stopMining, snapshot, revertDone, restart, setTime,
       increaseTime, revertUnknown, NoAnswer
  <2> QED
    BY <1>5, <2>1
<1>7. CASE startMining
  <2>1. CASE is_mining_on_interval
    <3>1. Respond(Answer(NoTx, NoTx, "none"))
      BY <1>7, <2>1, Zenon DEF startMining, NoAnswer
    <3> QED
      BY <1>5, <3>1
  <2>2. CASE ~is_mining_on_interval
    <3>1. StartProcessBlocks(NoTx) /\ phase = "idle"
      BY <1>7, <2>2, Zenon DEF startMining, Idle
    <3>2. phase' = "processBlocks" /\ caller' = NoTx /\ response' = NoAnswer /\ runtimeError' = NoTx
      BY <3>1 DEF StartProcessBlocks, AnswerInv, CallerKnown
    <3>3. response'.error # "exceeds block gas limit"
      BY <3>2 DEF NoAnswer, Answer
    <3> QED
      BY <3>2, <3>3, StillBusy DEF CallerKnown
  <2> QED
    BY <2>1, <2>2
<1>8. CASE \/ \E id \in 1..(MaxSnapshots + 1) : revert(id)
           \/ popSnapshot \/ revertPopsBlock \/ blocksPopped
  <2>1. /\ phase # "processBlocks" /\ phase' \in {"popSnapshots", "popBlocks"}
        /\ UNCHANGED <<caller, runtimeError>>
        /\ response' = NoAnswer \/ response' = response
    BY <1>8 DEF revert, beginRevert, popSnapshot, revertPopsBlock, blocksPopped, backToSnapshots,
                requestVars, Idle
  <2>2. caller' = NoTx /\ runtimeError' = NoTx /\ phase' # "idle"
    BY <2>1 DEF AnswerInv, CallerKnown
  <2>3. response'.error # "exceeds block gas limit"
    <3>1. NoAnswer.error = "none" /\ response.error # "exceeds block gas limit"
      BY DEF AnswerInv, MinedBeforeAnswered, NoAnswer, Answer
    <3> QED
      BY <2>1, <3>1
  <2> QED
    BY <2>2, <2>3, StillBusy DEF CallerKnown
<1>9. CASE UNCHANGED vars
  <2>1. UNCHANGED <<blocks, transactionReceipts, pending_transactions, is_mining,
                    is_mining_on_interval, phase, caller, runtimeError, response>>
    BY <1>9 DEF vars, stateVars, chainVars, dbVars, minerVars, requestVars
  <2>2. OnChain' = OnChain
    BY <2>1 DEF OnChain
  <2> QED
    BY <2>1, <2>2 DEF AnswerInv, CallerKnown, MinedBeforeAnswered, Idle
<1> QED
  BY <1>1, <1>2, <1>3, <1>4, <1>6, <1>7, <1>8, <1>9, Zenon DEF Next, Request, Continue

LEMMA AnswerInvHolds == Spec => []AnswerInv
<1>1. Init => AnswerInv
  <2> SUFFICES ASSUME Init PROVE AnswerInv
    OBVIOUS
  <2>1. PoolFits /\ CallerKnown
    BY DEF Init, PoolFits, CallerKnown, Range
  <2>2. response.tx = NoTx /\ response.error = "none"
    BY DEF Init, NoAnswer, Answer
  <2>3. MinedBeforeAnswered
    BY <2>2 DEF MinedBeforeAnswered
  <2> QED
    BY <2>1, <2>3 DEF AnswerInv
<1>2. IInv /\ ChainInv /\ ChainInv' /\ AnswerInv /\ [Next]_vars => AnswerInv'
  BY NextAnswers, NextPoolFits DEF AnswerInv
<1> QED
  BY <1>1, <1>2, IInvHolds, ChainInvHolds, PTL DEF Spec

(* A sender that is told that its transaction was mined finds it on the chain, an exception is
   told with a transaction of the chain that threw, and no block is ever refused because
   nothing in the pool fits. *)
THEOREM AnswersAreTrue == Spec => []MinedBeforeAnswered
<1>1. AnswerInv => MinedBeforeAnswered
  BY DEF AnswerInv
<1> QED
  BY <1>1, AnswerInvHolds, PTL
-----------------------------------------------------------------------------
(* In a pool that is in line, the transactions of an account that a failed block has not
   touched carry, in the order of the block, the nonces the VM expects. *)
LEMMA NoncesAsExpected ==
  ASSUME IInv, \A a \in Accounts : InLine(a),
         NEW order \in sortByPriceAndNonce, NEW count \in 0..Len(pending_transactions),
         NEW i \in 1..count, order[i].from \notin stranded
  PROVE  order[i].nonce = stateRoot[order[i].from]
           + CountFrom(order[i].from, SubSeq(SubSeq(order, 1, count), 1, i - 1))
<1> DEFINE a == order[i].from
           n == Len(order)
           before == {j \in 1..(i - 1) : order[j].from = a}
           expected == stateRoot[a]..(order[i].nonce - 1)
           f == [j \in before |-> order[j].nonce]
<1>1. TypeOK
  BY DEF IInv
<1>2. /\ order \in Seq(Transactions) /\ n \in Nat /\ DOMAIN order = 1..n /\ count \in 0..n
  BY <1>1, BatchAndRest, OrderIsPool
<1>3. /\ \A j \in DOMAIN order :
           /\ order[j] \in Transactions /\ order[j].from \in Accounts /\ order[j].nonce \in Nat
           /\ stateRoot[order[j].from] \in Nat /\ stateRoot[order[j].from] <= order[j].nonce
      /\ \A j, k \in DOMAIN order :
           j < k /\ order[j].from = order[k].from => order[j].nonce < order[k].nonce
  BY <1>1, OrderInLine
<1>4. \A m : m \in NoncesPending(a) <=> \E j \in DOMAIN order : order[j].from = a /\ order[j].nonce = m
  <2>1. i \in DOMAIN order
    BY <1>2
  <2>2. a \in Accounts
    BY <1>3, <2>1
  <2> QED
    BY <1>1, <2>2, OrderInLine
<1> HIDE DEF n
<1>5. /\ i \in 1..n /\ i - 1 \in 0..n /\ i \in DOMAIN order /\ i - 1 \in 0..count
      /\ \A j \in 1..(i - 1) : j \in 1..n /\ j < i
      /\ \A j \in 1..n : j < i => j \in 1..(i - 1)
  <2>1. n \in Nat /\ count \in Nat /\ count <= n
    BY <1>2
  <2> QED
    BY <1>2, <2>1
<1>6. a \in Accounts /\ order[i].nonce \in Nat /\ stateRoot[a] \in Nat /\ stateRoot[a] <= order[i].nonce
  BY <1>3, <1>5
<1>7. SubSeq(SubSeq(order, 1, count), 1, i - 1) = SubSeq(order, 1, i - 1)
  BY <1>2, <1>5, PrefixOfPrefix DEF n
<1>8. /\ PlacesIn(a, SubSeq(order, 1, i - 1)) = before
      /\ SubSeq(order, 1, i - 1) \in Seq(Transactions)
  <2>1. /\ SubSeq(order, 1, i - 1) \in Seq(Transactions)
        /\ PlacesIn(a, SubSeq(order, 1, i - 1)) = PlacesIn(a, order) \cap 1..(i - 1)
    BY <1>2, <1>5, PlacesInPrefix DEF n
  <2> QED
    BY <1>2, <1>5, <2>1 DEF PlacesIn
<1>9. IsFiniteSet(before) /\ CountFrom(a, SubSeq(order, 1, i - 1)) = Cardinality(before)
  BY <1>8, CountType
<1>10. /\ \A j \in before : order[j].nonce \in expected
       /\ \A j, k \in before : order[j].nonce = order[k].nonce => j = k
  <2>1. \A j \in before : j \in DOMAIN order /\ j < i /\ order[j].from = order[i].from
    BY <1>2, <1>5
  <2>2. \A j \in before : order[j].nonce \in Nat /\ stateRoot[a] <= order[j].nonce
                          /\ order[j].nonce < order[i].nonce
    BY <1>3, <1>5, <2>1
  <2>3. \A j \in before : order[j].nonce \in expected
    BY <1>6, <2>2
  <2>4. ASSUME NEW j \in before, NEW k \in before, order[j].nonce = order[k].nonce
        PROVE  j = k
    <3>1. ~(j < k) /\ ~(k < j)
      BY <1>3, <2>1, <2>2, <2>4
    <3>2. j \in Int /\ k \in Int
      OBVIOUS
    <3> QED
      BY <3>1, <3>2
  <2> QED
    BY <2>3, <2>4
<1>11. \A m \in expected : \E j \in before : order[j].nonce = m
  <2> SUFFICES ASSUME NEW m \in expected PROVE \E j \in before : order[j].nonce = m
    OBVIOUS
  <2>1. order[i].nonce \in NoncesPending(a) /\ InLine(a)
    BY <1>4, <1>5, <1>6
  <2>2. PendingOf(a) # {}
    BY <2>1 DEF NoncesPending
  <2>3. stateRoot[a] \in NoncesPending(a)
    BY <2>1, <2>2 DEF InLine
  <2>4. m \in stateRoot[a]..order[i].nonce /\ m < order[i].nonce
    BY <1>6
  <2>5. m \in NoncesPending(a)
    BY <2>1, <2>3, <2>4 DEF InLine
  <2>6. PICK j \in DOMAIN order : order[j].from = a /\ order[j].nonce = m
    BY <1>4, <2>5
  <2>7. ~(i < j) /\ i # j
    BY <1>3, <1>5, <2>4, <2>6
  <2>8. j < i /\ j \in 1..n
    BY <1>2, <1>5, <2>6, <2>7 DEF n
  <2> QED
    BY <1>5, <2>6, <2>8
<1> HIDE DEF before, expected
<1>12. f \in Bijection(before, expected)
  <2>1. f \in Injection(before, expected)
    BY <1>10 DEF Injection, IsInjective
  <2>2. f \in Surjection(before, expected)
    BY <1>10, <1>11 DEF Surjection
  <2> QED
    BY <2>1, <2>2 DEF Bijection
<1>13. Cardinality(expected) = Cardinality(before)
  BY <1>9, <1>12, FS_Bijection DEF ExistsBijection
<1>14. Cardinality(expected) = order[i].nonce - stateRoot[a]
  <2>1. Cardinality(expected) =
          IF stateRoot[a] > order[i].nonce - 1 THEN 0 ELSE (order[i].nonce - 1) - stateRoot[a] + 1
    <3>1. stateRoot[a] \in Int /\ order[i].nonce - 1 \in Int
      BY <1>6
    <3> HIDE DEF a
    <3> QED
      BY <3>1, FS_Interval DEF expected
  <2> QED
    BY <1>6, <2>1
<1>15. CountFrom(a, SubSeq(SubSeq(order, 1, count), 1, i - 1)) = order[i].nonce - stateRoot[a]
  BY <1>7, <1>9, <1>13, <1>14
<1> QED
  BY <1>6, <1>15
-----------------------------------------------------------------------------
(* Nothing is lost in silence. *)

(* A block that the VM refuses holds a transaction that it had to refuse, and that one is gone. *)
LEMMA RefusedIsLost ==
  ASSUME IInv, ChainInv, \A a \in Accounts : InLine(a),
         NEW order \in sortByPriceAndNonce, NEW count \in 0..Len(pending_transactions),
         ~RunsInVM(SubSeq(order, 1, count))
  PROVE  \E tx \in Range(pending_transactions) :
           /\ tx \notin Range(SubSeq(order, count + 1, Len(order))) /\ tx \notin transactions
           /\ tx.payload.outcome = "underfunded" \/ tx.from \in stranded
<1> DEFINE batch == SubSeq(order, 1, count)
           rest == SubSeq(order, count + 1, Len(order))
           n == Len(order)
<1>1. TypeOK
  BY DEF IInv
<1>2. /\ n \in Nat /\ DOMAIN order = 1..n /\ count \in 0..n
      /\ DOMAIN batch = 1..count /\ \A i \in 1..count : batch[i] = order[i]
      /\ Range(rest) = {order[i] : i \in (count + 1)..n}
      /\ Range(batch) = {order[i] : i \in 1..count}
      /\ Range(pending_transactions) = Range(batch) \cup Range(rest)
  BY <1>1, BatchAndRest
<1>3. PICK i \in 1..count :
        \/ batch[i].payload.outcome = "underfunded"
        \/ batch[i].nonce # stateRoot[batch[i].from] + CountFrom(batch[i].from, SubSeq(batch, 1, i - 1))
  <2>1. ~RunsInVM(batch)
    OBVIOUS
  <2> QED
    BY <1>2, <2>1, Zenon DEF RunsInVM
<1>4. batch[i] = order[i] /\ order[i] \in Range(pending_transactions)
  BY <1>2
<1>5. order[i].payload.outcome = "underfunded" \/ order[i].from \in stranded
  <2> SUFFICES ASSUME order[i].from \notin stranded PROVE order[i].payload.outcome = "underfunded"
    OBVIOUS
  <2>1. order[i].nonce = stateRoot[order[i].from] + CountFrom(order[i].from, SubSeq(batch, 1, i - 1))
    BY NoncesAsExpected
  <2> HIDE DEF batch
  <2> QED
    BY <1>3, <1>4, <2>1
<1> HIDE DEF batch, rest
<1>6. /\ \A j \in DOMAIN order :
           /\ order[j].from \in Accounts /\ order[j].nonce \in Nat
           /\ stateRoot[order[j].from] \in Nat /\ stateRoot[order[j].from] <= order[j].nonce
      /\ \A j, k \in DOMAIN order :
           j < k /\ order[j].from = order[k].from => order[j].nonce < order[k].nonce
  BY <1>1, OrderInLine
<1> HIDE DEF n
<1>7. i \in DOMAIN order /\ \A j \in (count + 1)..n : j \in DOMAIN order /\ i < j
  <2>1. n \in Nat /\ count \in Nat /\ count <= n /\ DOMAIN order = 1..n
    BY <1>2
  <2> QED
    BY <2>1
<1>8. order[i] \notin Range(rest)
  <2>1. \A j \in (count + 1)..n : order[i] # order[j]
    <3> SUFFICES ASSUME NEW j \in (count + 1)..n, order[i] = order[j] PROVE FALSE
      OBVIOUS
    <3>1. order[i].nonce < order[j].nonce
      BY <1>6, <1>7
    <3> QED
      BY <1>6, <1>7, <3>1
  <2> QED
    BY <1>2, <2>1
<1>9. order[i] \notin transactions
  <2> SUFFICES ASSUME order[i] \in OnChain PROVE FALSE
    BY DEF ChainInv, ChainIsSound, IndexesMatchChain
  <2>1. order[i].nonce < stateRoot[order[i].from]
    BY MinedIsPast DEF ChainInv
  <2> QED
    BY <1>6, <1>7, <2>1
<1> QED
  BY <1>4, <1>5, <1>8, <1>9 DEF rest

LEMMA StepLosesNothing ==
  ASSUME IInv, ChainInv, PoolInLine, [Next]_vars
  PROVE  LET leaving == Range(pending_transactions) \ (Range(pending_transactions') \cup transactions')
         IN leaving # {} =>
              \/ restart \/ revertDone
              \/ /\ response'.error = "vm error"
                 /\ \E tx \in leaving : tx.payload.outcome = "underfunded" \/ tx.from \in stranded
<1> DEFINE leaving == Range(pending_transactions) \ (Range(pending_transactions') \cup transactions')
<1>1. SUFFICES ASSUME leaving # {}, ~(restart \/ revertDone)
               PROVE  /\ response'.error = "vm error"
                      /\ \E tx \in leaving : tx.payload.outcome = "underfunded" \/ tx.from \in stranded
  OBVIOUS
<1>2. TypeOK
  BY DEF IInv
<1>3. pending_transactions' # pending_transactions
  BY <1>1
<1>4. ~(\E tx \in Inputs :
          Acceptable(tx) /\ pending_transactions' = Append(pending_transactions, tx))
  <2> SUFFICES ASSUME NEW tx \in Inputs, pending_transactions' = Append(pending_transactions, tx)
               PROVE  FALSE
    OBVIOUS
  <2>1. tx \in Transactions /\ pending_transactions \in Seq(Transactions)
    BY <1>2, BoundsAssumption DEF Inputs, Transactions, TypeOK
  <2>2. Range(pending_transactions') = Range(pending_transactions) \cup {tx}
    BY <2>1, RangeOfAppend
  <2> QED
    BY <1>1, <2>2
<1>5. /\ ~Reverting
      /\ \E order \in sortByPriceAndNonce : \E count \in 0..Len(pending_transactions) :
           LET verdict == Verdict(SubSeq(order, 1, count)) IN
           /\ FitsInBlock(order, count) /\ processNextBlock(order, count)
           /\ response'.error = verdict \/ verdict \in {"none", "runtime error"}
  <2> HIDE DEF leaving
  <2> QED
    BY <1>1, <1>3, <1>4, StepsOfPool, Zenon
<1>6. PICK order \in sortByPriceAndNonce : \E count \in 0..Len(pending_transactions) :
        LET verdict == Verdict(SubSeq(order, 1, count)) IN
        /\ processNextBlock(order, count)
        /\ response'.error = verdict \/ verdict \in {"none", "runtime error"}
  BY <1>5, Zenon
<1>7. PICK count \in 0..Len(pending_transactions) :
        LET verdict == Verdict(SubSeq(order, 1, count)) IN
        /\ processNextBlock(order, count)
        /\ response'.error = verdict \/ verdict \in {"none", "runtime error"}
  BY <1>6
<1> DEFINE batch == SubSeq(order, 1, count)
           rest == SubSeq(order, count + 1, Len(order))
<1>8. /\ pending_transactions' = rest
      /\ \/ putBlock(batch)
         \/ Verdict(batch) \notin {"none", "runtime error"} /\ UNCHANGED chainVars
  BY <1>7, Zenon DEF processNextBlock
<1>9. Range(pending_transactions) = Range(batch) \cup Range(rest)
  BY <1>2, BatchAndRest
<1> HIDE DEF batch, rest
<1>10. ~putBlock(batch)
  <2> SUFFICES ASSUME putBlock(batch) PROVE FALSE
    OBVIOUS
  <2>1. transactions' = transactions \cup Range(batch)
    BY Zenon DEF putBlock
  <2> QED
    BY <1>1, <1>8, <1>9, <2>1
<1>11. batch # <<>>
  <2>1. Range(<<>>) = {}
    BY DEF Range
  <2> QED
    BY <1>1, <1>8, <1>9, <2>1
<1>12. Verdict(batch) = "vm error" /\ ~RunsInVM(batch)
  BY <1>8, <1>10, <1>11, VerdictOfBatch
<1>13. response'.error = "vm error"
  BY <1>7, <1>12 DEF batch
<1>14. PICK tx \in Range(pending_transactions) :
         /\ tx \notin Range(rest) /\ tx \notin transactions
         /\ tx.payload.outcome = "underfunded" \/ tx.from \in stranded
  <2>1. \A a \in Accounts : InLine(a)
    BY <1>5 DEF PoolInLine
  <2> QED
    BY <1>12, <2>1, RefusedIsLost DEF batch, rest
<1>15. transactions' = transactions
  BY <1>8, <1>10 DEF chainVars, dbVars
<1> QED
  BY <1>8, <1>13, <1>14, <1>15

(* No transaction is lost in silence: one leaves the pool for the chain, by a revert or a restart,
   or with a block that the VM refuses; and the VM refuses a block only for a sender that cannot
   pay or one behind the gap that an earlier refused block left. *)
THEOREM NothingLost == Spec => NothingLostSilently
<1> DEFINE leaving == Range(pending_transactions) \ (Range(pending_transactions') \cup transactions')
           Accounted == leaving # {} =>
             \/ restart \/ revertDone
             \/ /\ response'.error = "vm error"
                /\ \E tx \in leaving : tx.payload.outcome = "underfunded" \/ tx.from \in stranded
<1>1. IInv /\ ChainInv /\ PoolInLine /\ [Next]_vars => [Accounted]_vars
  BY StepLosesNothing
<1>2. Spec => [][Accounted]_vars
  BY <1>1, IInvHolds, ChainInvHolds, PoolInLineHolds, PTL DEF Spec
<1> QED
  BY <1>2 DEF NothingLostSilently
=============================================================================
