------------------------------ MODULE BatchProofs ------------------------------
(***************************************************************************)
(* For any senders and batches of any length, two facts of the members of  *)
(* a batch.                                                                *)
(*                                                                         *)
(* The action queue works on one action at a time, in the order of the     *)
(* batch.  ActionsInTurn is not inductive by itself: the flag is freed     *)
(* when an action ends, and that the action which ends is the one that     *)
(* holds it rests on JobHeld, which says whose block is in the making, and *)
(* on StagesFit, by which nobody but that action makes one.                *)
(*                                                                         *)
(* Members none of which was overlapped leave what they would have left    *)
(* one after another.  AsIfOneByOne speaks of the end of a batch only.     *)
(* OneAfterAnother says the like of every state on the way, of the members *)
(* which have had their effect so far: the state a block in the making     *)
(* will leave when it ends (Predicted) is one they leave one after         *)
(* another, but for a sender's transaction that is in the pool with its    *)
(* block not begun (Matches).                                              *)
(***************************************************************************)
EXTENDS Batch, Integers, SequenceTheorems, FiniteSetTheorems, WellFoundedInduction, TLAPS

Size == Len(batch)
Places == 1..Size

(* The types of what the queue is made of, and the fields of the block in the making. *)
Types ==
  /\ batch \in Seq(Members) /\ instant \in BOOLEAN
  /\ arrived \in 0..Size
  /\ action_queue \in Seq(Places) /\ order \in Seq(Places)
  /\ action_processing \in BOOLEAN
  /\ stage \in [Places -> Stages]
  /\ DOMAIN job = {"member", "txs", "run", "root", "late"}

(* Members start in order; svm_mine is no action, and there is one at most, and none when
   the miner is instant; no action makes blocks unless it is. *)
StagesFit ==
  /\ \A i \in Places : i > arrived => stage[i] = "unsent"
  /\ \A i \in Mines(batch) : stage[i] \in {"unsent", "block", "answered", "failed"}
  /\ \A i, j \in Mines(batch) : i = j
  /\ instant => Mines(batch) = {}
  /\ \A i \in Places \ Mines(batch) : stage[i] \in {"processBlocks", "block"} => instant

(* The block in the making is that of the member whose stage says so. *)
JobHeld ==
  /\ Making => job.member \in Places /\ stage[job.member] = "block"
  /\ \A i \in Places : stage[i] = "block" => Making /\ job.member = i

(* An action in progress has been started. *)
SomeStarted == InAction # {} => Len(order) > 0

IInv == Types /\ StagesFit /\ JobHeld /\ SomeStarted /\ ActionsInTurn

Begun == order \o action_queue

(* A sequence of members in the order of the batch, which holds just these. *)
Ordered(s, members) ==
  /\ \A k, l \in DOMAIN s : k < l => s[k] < s[l]
  /\ Range(s) = members
-----------------------------------------------------------------------------
(* Sequences. *)

(* An action that joins the queue joins Begun at its end, *)
LEMMA AppendToQueue ==
  ASSUME NEW S, NEW s \in Seq(S), NEW q \in Seq(S), NEW i \in S
  PROVE  s \o Append(q, i) = Append(s \o q, i)
<1>1. Append(q, i) \in Seq(S) /\ s \o q \in Seq(S) /\ s \o Append(q, i) \in Seq(S)
      /\ Append(s \o q, i) \in Seq(S)
  BY AppendProperties, ConcatProperties
<1>2. Len(s \o Append(q, i)) = Len(Append(s \o q, i))
  BY <1>1, AppendProperties, ConcatProperties
<1>3. ASSUME NEW k \in 1..Len(s \o Append(q, i))
      PROVE  (s \o Append(q, i))[k] = Append(s \o q, i)[k]
  BY <1>1, <1>2, AppendProperties, ConcatProperties
<1> QED
  BY <1>1, <1>2, <1>3, SeqEqual

(* and one that is taken off the queue and started leaves Begun as it is. *)
LEMMA HeadToOrder ==
  ASSUME NEW S, NEW s \in Seq(S), NEW q \in Seq(S), q # <<>>
  PROVE  Append(s, Head(q)) \o Tail(q) = s \o q
<1> DEFINE h == Head(q)
           t == Tail(q)
           front == <<h>>
<1>1. /\ h \in S /\ t \in Seq(S) /\ Len(t) = Len(q) - 1 /\ Len(q) \in Nat \ {0}
      /\ \A k \in 1..Len(t) : t[k] = q[k + 1]
      /\ h = q[1]
  BY HeadTailProperties, EmptySeq
<1>2. front \in Seq(S) /\ Len(front) = 1 /\ front[1] = h
  BY <1>1
<1> HIDE DEF front, t, h
<1>3. /\ front \o t \in Seq(S) /\ Len(front \o t) = 1 + Len(t)
      /\ \A k \in 1..(1 + Len(t)) : (front \o t)[k] = IF k <= 1 THEN front[k] ELSE t[k - 1]
  <2>1. /\ front \o t \in Seq(S) /\ Len(front \o t) = Len(front) + Len(t)
        /\ \A k \in 1..(Len(front) + Len(t)) :
             (front \o t)[k] = IF k <= Len(front) THEN front[k] ELSE t[k - Len(front)]
    BY <1>1, <1>2, ConcatProperties
  <2> QED
    BY <2>1, <1>2
<1>4. front \o t = q
  <2>1. Len(front \o t) = Len(q)
    BY <1>1, <1>3
  <2>2. ASSUME NEW k \in 1..Len(q) PROVE (front \o t)[k] = q[k]
    <3>1. CASE k = 1
      BY <3>1, <1>1, <1>2, <1>3
    <3>2. CASE k # 1
      BY <3>2, <1>1, <1>3
    <3> QED
      BY <3>1, <3>2
  <2> QED
    BY <2>1, <2>2, <1>3, SeqEqual
<1>5. Append(s, h) = s \o front
  BY <1>1, AppendIsConcat DEF front
<1> QED
  BY <1>1, <1>2, <1>4, <1>5, ConcatAssociative DEF h, t

(* A member later than all those begun keeps them in order. *)
LEMMA OrderedAppend ==
  ASSUME NEW n \in Nat, NEW s \in Seq(1..n), NEW members, Ordered(s, members),
         NEW i \in 1..n, \A j \in members : j < i
  PROVE  Ordered(Append(s, i), members \cup {i})
<1>1. /\ Append(s, i) \in Seq(1..n) /\ Len(Append(s, i)) = Len(s) + 1
      /\ \A k \in 1..Len(s) : Append(s, i)[k] = s[k]
      /\ Append(s, i)[Len(s) + 1] = i
  BY AppendProperties
<1>2. Len(s) \in Nat /\ DOMAIN s = 1..Len(s) /\ DOMAIN Append(s, i) = 1..(Len(s) + 1)
  BY <1>1, LenProperties
<1>3. \A k \in 1..Len(s) : s[k] \in members
  BY <1>2 DEF Ordered, Range
<1>4. ASSUME NEW k \in DOMAIN Append(s, i), NEW l \in DOMAIN Append(s, i), k < l
      PROVE  Append(s, i)[k] < Append(s, i)[l]
  <2>1. CASE l = Len(s) + 1
    BY <2>1, <1>1, <1>2, <1>3, <1>4
  <2>2. CASE l # Len(s) + 1
    BY <2>2, <1>1, <1>2, <1>4 DEF Ordered
  <2> QED
    BY <2>1, <2>2
<1>5. Range(Append(s, i)) = members \cup {i}
  <2>1. ASSUME NEW x \in members PROVE \E k \in DOMAIN Append(s, i) : Append(s, i)[k] = x
    <3>1. PICK k \in DOMAIN s : s[k] = x
      BY DEF Ordered, Range
    <3> QED
      BY <3>1, <1>1, <1>2
  <2>2. \E k \in DOMAIN Append(s, i) : Append(s, i)[k] = i
    BY <1>1, <1>2
  <2>3. \A k \in DOMAIN Append(s, i) : Append(s, i)[k] \in members \cup {i}
    BY <1>1, <1>2, <1>3
  <2> QED
    BY <2>1, <2>2, <2>3 DEF Range
<1> QED
  BY <1>4, <1>5 DEF Ordered
-----------------------------------------------------------------------------
(* The start, and each action. *)

(* At first nothing has arrived and nothing is in progress. *)
LEMMA InitialInvariant ==
  ASSUME Init
  PROVE  IInv
<1>1. batch \in Seq(Members) /\ Cardinality(Mines(batch)) <= 1
  BY BatchesAssumption DEF Init
<1>2. DOMAIN batch = Places /\ Size \in Nat
  BY <1>1, LenProperties DEF Size, Places
<1>3. Types
  <2>1. instant \in BOOLEAN /\ arrived = 0 /\ action_queue = <<>> /\ order = <<>>
        /\ action_processing = FALSE /\ stage = [i \in Places |-> "unsent"] /\ job = NoJob
    BY <1>2, BatchBoundAssumption DEF Init
  <2>2. DOMAIN job = {"member", "txs", "run", "root", "late"}
    BY <2>1 DEF NoJob
  <2>3. stage \in [Places -> Stages]
    BY <2>1 DEF Stages
  <2> QED
    <3>1. action_queue \in Seq(Places) /\ order \in Seq(Places)
      BY <2>1, EmptySeq
    <3>2. action_processing \in BOOLEAN
      BY <1>2, <2>1, Zenon
    <3>3. arrived \in 0..Size
      BY <1>2, <2>1, SMT
    <3> QED
      BY <1>1, <2>1, <2>2, <2>3, <3>1, <3>2, <3>3 DEF Types
<1>4. ASSUME NEW i \in Mines(batch), NEW j \in Mines(batch), i # j PROVE FALSE
  <2>1. IsFiniteSet(Mines(batch)) /\ Cardinality(Mines(batch)) \in Nat
    <3>1. IsFiniteSet(Places)
      BY <1>2, FS_Interval DEF Places
    <3>2. Mines(batch) \in SUBSET Places
      BY <1>2 DEF Mines
    <3> QED
      BY <3>1, <3>2, FS_Subset, FS_CardinalityType
  <2>2. {i} \cup {j} \in SUBSET Mines(batch)
    BY <1>4
  <2>3. Cardinality({i} \cup {j}) = 2
    <3>1. IsFiniteSet({i}) /\ Cardinality({i}) = 1
      BY FS_Singleton
    <3> QED
      BY <1>4, <3>1, FS_AddElement
  <2>4. Cardinality({i} \cup {j}) <= Cardinality(Mines(batch))
    BY <2>1, <2>2, FS_Subset
  <2>5. 2 <= Cardinality(Mines(batch))
    BY <2>3, <2>4
  <2> QED
    BY <1>1, <2>1, <2>5
<1>5. StagesFit
  BY <1>2, <1>4 DEF Init, StagesFit, Mines
<1>6. JobHeld
  BY <1>2 DEF Init, JobHeld, Making
<1>7. InAction = {}
  BY DEF Init, InAction
<1>8. order \o action_queue = <<>>
  BY EmptySeq, ConcatEmptySeq DEF Init
<1>9. ActionsInTurn
  <2>1. /\ DOMAIN <<>> = {} /\ Range(<<>>) = {}
    BY DEF Range
  <2>2. (1..arrived) \ Mines(batch) = {}
    BY DEF Init
  <2>3. action_queue = <<>> /\ action_processing = FALSE
    BY DEF Init
  <2> QED
    BY <1>7, <1>8, <2>1, <2>2, <2>3 DEF ActionsInTurn
<1> QED
  BY <1>3, <1>5, <1>6, <1>7, <1>9 DEF IInv, SomeStarted

(* The actions in progress are those the queue last started, of which there is one. *)
LEMMA Facts ==
  ASSUME IInv
  PROVE  /\ Size \in Nat /\ DOMAIN batch = Places /\ Mines(batch) \subseteq Places
         /\ Begun \in Seq(Places) /\ Ordered(Begun, (1..arrived) \ Mines(batch))
         /\ InAction \subseteq Places \ Mines(batch)
         /\ \A i, j \in InAction : i = j
         /\ ~action_processing => InAction = {} /\ action_queue = <<>>
<1>1. Size \in Nat /\ DOMAIN batch = Places
  BY LenProperties DEF IInv, Types, Size, Places
<1>2. Begun \in Seq(Places)
  BY ConcatProperties DEF IInv, Types, Begun
<1> QED
  BY <1>1, <1>2 DEF IInv, ActionsInTurn, Ordered, Begun, InAction, Mines

(* The next member of the array starts. *)
LEMMA ArriveStep ==
  ASSUME IInv, arrive
  PROVE  IInv'
<1> DEFINE i == arrived + 1
<1>1. /\ i \in Places /\ arrived \in Nat /\ arrived' = i /\ UNCHANGED <<batch, instant>>
      /\ stage[i] = "unsent" /\ Size' = Size /\ Places' = Places
      /\ Mines(batch)' = Mines(batch)
  <2>1. arrived \in 0..Size /\ arrived < Size /\ Size \in Nat
    BY Facts DEF arrive, IInv, Types, Size
  <2> QED
    BY <2>1 DEF arrive, IInv, StagesFit, Places, Size
<1>2. CASE batch[i].kind = "mine"
  <2>1. /\ i \in Mines(batch) /\ stage' = [stage EXCEPT ![i] = "block"]
        /\ UNCHANGED <<action_queue, action_processing, order>>
        /\ DOMAIN job' = {"member", "txs", "run", "root", "late"} /\ job'.member = i
    BY <1>1, <1>2, Facts DEF arrive, Mines, TakePool, Job
  <2>2. ~instant /\ \A j \in Places : stage[j] # "block"
    BY <1>1, <2>1 DEF IInv, StagesFit
  <2>3. /\ stage' \in [Places -> Stages] /\ stage'[i] = "block"
        /\ \A j \in Places \ {i} : stage'[j] = stage[j]
    BY <1>1, <2>1 DEF IInv, Types, Stages
  <2>4. Types'
    BY <1>1, <2>1, <2>3, Facts DEF IInv, Types, Places
  <2>5. StagesFit'
    BY <1>1, <2>1, <2>2, <2>3, Facts DEF IInv, StagesFit, Places
  <2>6. JobHeld'
    <3>1. job' # NoJob'
      BY <1>1, <2>1 DEF NoJob, Places
    <3> QED
      BY <1>1, <2>1, <2>2, <2>3, <3>1 DEF JobHeld, Making
  <2>7. InAction' = InAction
    BY <1>1, <2>1, <2>3, Facts DEF InAction
  <2>8. (1..arrived') \ Mines(batch) = (1..arrived) \ Mines(batch)
    BY <1>1, <2>1
  <2>9. ActionsInTurn'
    BY <1>1, <2>1, <2>7, <2>8 DEF IInv, ActionsInTurn
  <2> QED
    BY <2>1, <2>4, <2>5, <2>6, <2>7, <2>9 DEF IInv, SomeStarted
<1>3. CASE batch[i].kind # "mine"
  <2>1. /\ i \notin Mines(batch) /\ queueAction(i) /\ UNCHANGED job
        /\ \A j \in (1..arrived) \ Mines(batch) : j < i
        /\ (1..arrived') \ Mines(batch) = ((1..arrived) \ Mines(batch)) \cup {i}
    BY <1>1, <1>3, Facts DEF arrive, Mines, blockVars
  <2>2. Ordered(Append(Begun, i), (1..arrived') \ Mines(batch))
    BY <1>1, <2>1, Facts, OrderedAppend DEF Places
  <2>3. CASE Free
    <3>1. /\ action_processing' = TRUE /\ stage' = [stage EXCEPT ![i] = "started"]
          /\ order' = Append(order, i) /\ action_queue' = action_queue
          /\ InAction = {} /\ action_queue = <<>>
      BY <2>1, <2>3, Facts DEF queueAction, StartAction, Free
    <3>2. /\ stage' \in [Places -> Stages] /\ stage'[i] = "started"
          /\ \A j \in Places \ {i} : stage'[j] = stage[j]
      BY <1>1, <3>1 DEF IInv, Types, Stages
    <3>3. /\ order' \in Seq(Places) /\ Len(order') = Len(order) + 1
          /\ order'[Len(order')] = i
      BY <1>1, <3>1, AppendProperties DEF IInv, Types
    <3>4. Types'
      <4>1. UNCHANGED job
        BY <2>1
      <4> QED
        BY <1>1, <3>1, <3>2, <3>3, <4>1, Facts DEF IInv, Types, Places
    <3>5. StagesFit'
      <4>1. i \notin Mines(batch)
        BY <2>1
      <4> QED
        BY <1>1, <3>2, <4>1, Facts DEF IInv, StagesFit, Places
    <3>6. JobHeld'
      <4>1. Making' = Making
        BY <2>1, <1>1 DEF Making, NoJob
      <4> QED
        BY <1>1, <2>1, <3>2, <4>1 DEF IInv, JobHeld
    <3>7. InAction' = {i}
      BY <1>1, <2>1, <3>1, <3>2, Facts DEF InAction
    <3>8. order' \o action_queue' = Append(Begun, i)
      BY <1>1, <3>1, <3>3, ConcatEmptySeq DEF IInv, Types, Begun
    <3>9. ActionsInTurn'
      BY <1>1, <2>2, <3>1, <3>3, <3>7, <3>8 DEF ActionsInTurn, Ordered
    <3>10. Len(order) \in Nat
      BY LenProperties DEF IInv, Types
    <3> QED
      BY <3>3, <3>4, <3>5, <3>6, <3>9, <3>10 DEF IInv, SomeStarted
  <2>4. CASE ~Free
    <3>1. /\ action_queue' = Append(action_queue, i) /\ stage' = [stage EXCEPT ![i] = "queued"]
          /\ UNCHANGED <<action_processing, order>> /\ action_processing = TRUE
      BY <2>1, <2>4 DEF queueAction, Free, IInv, Types
    <3>2. /\ stage' \in [Places -> Stages] /\ stage'[i] = "queued"
          /\ \A j \in Places \ {i} : stage'[j] = stage[j]
      BY <1>1, <3>1 DEF IInv, Types, Stages
    <3>3. action_queue' \in Seq(Places)
      BY <1>1, <3>1, AppendProperties DEF IInv, Types
    <3>4. Types'
      <4>1. UNCHANGED job
        BY <2>1
      <4> QED
        BY <1>1, <3>1, <3>2, <3>3, <4>1, Facts DEF IInv, Types, Places
    <3>5. StagesFit'
      <4>1. i \notin Mines(batch)
        BY <2>1
      <4> QED
        BY <1>1, <3>2, <4>1, Facts DEF IInv, StagesFit, Places
    <3>6. JobHeld'
      <4>1. Making' = Making
        BY <2>1, <1>1 DEF Making, NoJob
      <4> QED
        BY <1>1, <2>1, <3>2, <4>1 DEF IInv, JobHeld
    <3>7. InAction' = InAction
      BY <1>1, <2>1, <3>2, Facts DEF InAction
    <3>8. order' \o action_queue' = Append(Begun, i)
      BY <1>1, <3>1, AppendToQueue DEF IInv, Types, Begun
    <3>9. ActionsInTurn'
      BY <1>1, <2>2, <3>1, <3>7, <3>8 DEF IInv, ActionsInTurn, Ordered
    <3> QED
      BY <3>1, <3>4, <3>5, <3>6, <3>7, <3>9 DEF IInv, SomeStarted
  <2> QED
    BY <2>3, <2>4
<1> QED
  BY <1>2, <1>3

(* An action ends, with its block or without one, and the next one starts. *)
LEMMA EndStep ==
  ASSUME IInv, NEW i \in InAction, NEW outcome \in {"answered", "failed"},
         EndAction(i, outcome), UNCHANGED <<batch, instant, arrived>>,
         \/ stage[i] # "block" /\ UNCHANGED job
         \/ Making /\ job.member = i /\ job' = NoJob
  PROVE  IInv'
<1>1. /\ i \in Places /\ i \notin Mines(batch) /\ \A j \in InAction : j = i
      /\ action_processing = TRUE
      /\ Size' = Size /\ Places' = Places /\ Mines(batch)' = Mines(batch)
  BY Facts DEF Size, Places, IInv, Types
<1>2. DOMAIN job' = {"member", "txs", "run", "root", "late"}
  BY DEF IInv, Types, NoJob
<1>3. ASSUME stage' \in [Places -> Stages], stage'[i] = outcome,
             \A j \in Places \ {i} :
               \/ stage'[j] = stage[j]
               \/ stage'[j] = "started" /\ j \in 1..arrived /\ j \notin InAction \cup Mines(batch)
      PROVE  StagesFit' /\ JobHeld'
  <2>1. StagesFit'
    <3>1. i <= arrived /\ arrived \in Nat
      BY <1>1, Facts DEF IInv, StagesFit, InAction, Types, Places
    <3>2. ASSUME NEW j \in Places, j > arrived PROVE stage'[j] = "unsent"
      <4>1. j # i /\ j \notin 1..arrived
        BY <3>1, <3>2, Facts DEF Places
      <4> QED
        BY <1>3, <3>2, <4>1 DEF IInv, StagesFit
    <3>3. ASSUME NEW j \in Mines(batch)
          PROVE  stage'[j] \in {"unsent", "block", "answered", "failed"}
      BY <1>1, <1>3, Facts DEF IInv, StagesFit
    <3>4. ASSUME NEW j \in Places \ Mines(batch), stage'[j] \in {"processBlocks", "block"}
          PROVE  instant
      BY <1>1, <1>3, <3>4 DEF IInv, StagesFit
    <3> QED
      BY <1>1, <3>2, <3>3, <3>4 DEF IInv, StagesFit
  <2>2. CASE stage[i] # "block" /\ UNCHANGED job
    <3>1. Making' = Making
      BY <2>2 DEF Making, NoJob
    <3>2. Making => job.member # i
      BY <2>2 DEF IInv, JobHeld
    <3>3. ASSUME Making PROVE stage'[job.member] = "block"
      <4>1. job.member \in Places \ {i} /\ stage[job.member] = "block"
        BY <3>2, <3>3 DEF IInv, JobHeld
      <4>2. job.member \in InAction \cup Mines(batch)
        BY <4>1, Facts DEF InAction
      <4> QED
        BY <1>3, <4>1, <4>2
    <3> QED
      BY <1>1, <1>3, <2>1, <2>2, <3>1, <3>3 DEF IInv, JobHeld
  <2>3. CASE Making /\ job.member = i /\ job' = NoJob
    <3>1. ~Making'
      BY <2>3 DEF Making, NoJob
    <3>2. \A j \in Places : stage'[j] # "block"
      BY <1>1, <1>3, <2>3 DEF IInv, JobHeld
    <3> QED
      BY <1>1, <2>1, <3>1, <3>2 DEF JobHeld
  <2> QED
    BY <2>1, <2>2, <2>3
<1>4. CASE action_queue = <<>>
  <2>1. /\ stage' = [stage EXCEPT ![i] = outcome] /\ action_processing' = FALSE
        /\ UNCHANGED <<action_queue, order>>
    BY <1>4 DEF EndAction, NextAction
  <2>2. /\ stage' \in [Places -> Stages] /\ stage'[i] = outcome
        /\ \A j \in Places \ {i} : stage'[j] = stage[j]
    BY <1>1, <2>1 DEF IInv, Types, Stages
  <2>3. Types'
    BY <1>1, <1>2, <2>1, <2>2 DEF IInv, Types
  <2>4. InAction' = {}
    BY <1>1, <2>2, Facts DEF InAction
  <2>5. ActionsInTurn'
    BY <1>1, <1>4, <2>1, <2>4 DEF IInv, ActionsInTurn
  <2> QED
    BY <1>3, <2>2, <2>3, <2>4, <2>5 DEF IInv, SomeStarted
<1>5. CASE action_queue # <<>>
  <2> DEFINE next == Head(action_queue)
  <2>1. /\ stage' = [stage EXCEPT ![i] = outcome, ![next] = "started"]
        /\ action_queue' = Tail(action_queue) /\ order' = Append(order, next)
        /\ UNCHANGED action_processing
    BY <1>5 DEF EndAction, NextAction, StartAction
  <2>2. /\ next \in Places /\ Tail(action_queue) \in Seq(Places)
        /\ next = action_queue[1] /\ Len(action_queue) \in Nat \ {0}
        /\ order \in Seq(Places) /\ Len(order) \in Nat
    BY <1>5, HeadTailProperties, EmptySeq, LenProperties DEF IInv, Types
  <2>3. /\ order' \in Seq(Places) /\ Len(order') = Len(order) + 1 /\ order'[Len(order')] = next
    BY <2>1, <2>2, AppendProperties
  <2>4. order' \o action_queue' = Begun
    BY <1>5, <2>1, HeadToOrder DEF IInv, Types, Begun
  <2>5. next \in (1..arrived) \ Mines(batch) /\ next # i
    <3>1. /\ Begun[Len(order) + 1] = next
          /\ DOMAIN Begun = 1..(Len(order) + Len(action_queue))
          /\ \A k \in 1..Len(order) : Begun[k] = order[k]
      <4>1. /\ Begun \in Seq(Places) /\ Len(Begun) = Len(order) + Len(action_queue)
            /\ \A k \in 1..(Len(order) + Len(action_queue)) :
                 Begun[k] = IF k <= Len(order) THEN order[k] ELSE action_queue[k - Len(order)]
        BY ConcatProperties DEF IInv, Types, Begun
      <4>2. /\ Len(order) + 1 \in 1..(Len(order) + Len(action_queue))
            /\ (Len(order) + 1) - Len(order) = 1
        BY <2>2
      <4> QED
        BY <2>2, <4>1, <4>2, LenProperties
    <3>2. next \in Range(Begun)
      BY <2>2, <3>1 DEF Range
    <3>3. i = order[Len(order)] /\ Len(order) >= 1
      BY <2>2 DEF IInv, ActionsInTurn, SomeStarted
    <3>4. Begun[Len(order)] = i /\ i < next
      BY <2>2, <3>1, <3>3, Facts DEF Ordered
    <3> QED
      BY <1>1, <2>2, <3>2, <3>4, Facts DEF Ordered, Places
  <2>6. /\ stage' \in [Places -> Stages] /\ stage'[i] = outcome /\ stage'[next] = "started"
        /\ \A j \in Places \ {i, next} : stage'[j] = stage[j]
    BY <1>1, <2>1, <2>2, <2>5 DEF IInv, Types, Stages
  <2>7. Types'
    BY <1>1, <1>2, <2>1, <2>2, <2>3, <2>6 DEF IInv, Types
  <2>8. InAction' = {next}
    BY <1>1, <2>2, <2>5, <2>6, Facts DEF InAction
  <2>9. ActionsInTurn'
    BY <1>1, <2>1, <2>3, <2>4, <2>8, Facts DEF IInv, ActionsInTurn, Ordered
  <2> QED
    <3>1. next \notin InAction
      BY <1>1, <2>5
    <3>2. StagesFit' /\ JobHeld'
      BY <1>3, <2>5, <2>6, <3>1
    <3> QED
      BY <2>2, <2>3, <2>7, <2>9, <3>2 DEF IInv, SomeStarted
<1> QED
  BY <1>4, <1>5

(* An action goes on, and is still the one in progress. *)
LEMMA GoesOnStep ==
  ASSUME IInv, NEW i \in InAction, NEW at \in {"processBlocks", "block"}, instant,
         stage' = [stage EXCEPT ![i] = at],
         UNCHANGED <<batch, instant, arrived, action_queue, action_processing, order>>,
         DOMAIN job' = {"member", "txs", "run", "root", "late"},
         \/ at = "block" /\ stage[i] # "block" /\ job' # NoJob /\ job'.member = i
         \/ at = "processBlocks" /\ stage[i] # "block" /\ UNCHANGED job
         \/ at = "processBlocks" /\ Making /\ job.member = i /\ job' = NoJob
  PROVE  IInv'
<1>1. /\ i \in Places /\ i \notin Mines(batch) /\ \A j \in InAction : j = i
      /\ Size' = Size /\ Places' = Places /\ Mines(batch)' = Mines(batch)
      /\ Mines(batch) = {}
  BY Facts DEF Size, Places, IInv, StagesFit
<1>2. /\ stage' \in [Places -> Stages] /\ stage'[i] = at
      /\ \A j \in Places \ {i} : stage'[j] = stage[j]
  BY <1>1 DEF IInv, Types, Stages
<1>3. Types'
  BY <1>1, <1>2 DEF IInv, Types
<1>4. StagesFit'
  <2>1. stage[i] # "unsent"
    BY DEF InAction
  <2> QED
    BY <1>1, <1>2, <2>1 DEF IInv, StagesFit
<1>5. \A j \in Places \ {i} : stage[j] # "block"
  BY <1>1, Facts DEF InAction
<1>6. JobHeld'
  <2>1. CASE at = "block"
    BY <1>1, <1>2, <1>5, <2>1 DEF JobHeld, Making, NoJob
  <2>2. CASE at = "processBlocks"
    <3>1. \A j \in Places : stage'[j] # "block"
      BY <1>1, <1>2, <1>5, <2>2
    <3>2. ~Making'
      BY <1>1, <1>5, <2>2 DEF IInv, JobHeld, Making, NoJob
    <3> QED
      BY <1>1, <3>1, <3>2 DEF JobHeld
  <2> QED
    BY <2>1, <2>2
<1>7. InAction' = InAction
  BY <1>1, <1>2, Facts DEF InAction
<1>8. ActionsInTurn' /\ SomeStarted'
  BY <1>1, <1>7 DEF IInv, ActionsInTurn, SomeStarted
<1> QED
  BY <1>3, <1>4, <1>6, <1>8 DEF IInv

(* An action that started ends, or goes on to its block. *)
LEMMA FinishActionStep ==
  ASSUME IInv, NEW i \in DOMAIN batch, finishAction(i)
  PROVE  IInv'
<1>1. i \in InAction /\ stage[i] = "started" /\ UNCHANGED <<batch, instant, arrived, job>>
  BY Facts DEF finishAction, InAction, IInv, StagesFit, blockVars
<1>2. CASE batch[i].kind = "send" /\ instant
  BY <1>1, <1>2, GoesOnStep DEF finishAction, IInv, Types
<1>3. CASE ~(batch[i].kind = "send" /\ instant)
  BY <1>1, <1>3, EndStep DEF finishAction
<1> QED
  BY <1>2, <1>3

(* A sender's action takes the pool, or ends where nothing is left to take. *)
LEMMA ProcessBlocksStep ==
  ASSUME IInv, NEW i \in DOMAIN batch, processBlocks(i)
  PROVE  IInv'
<1>1. i \in InAction /\ stage[i] = "processBlocks" /\ UNCHANGED <<batch, instant, arrived>>
  BY Facts DEF processBlocks, InAction, IInv, StagesFit
<1>2. CASE pending_transactions # <<>>
  <2>1. /\ stage' = [stage EXCEPT ![i] = "block"]
        /\ UNCHANGED <<action_queue, action_processing, order>>
        /\ DOMAIN job' = {"member", "txs", "run", "root", "late"} /\ job'.member = i
    BY <1>2 DEF processBlocks, TakePool, Job
  <2>2. job' # NoJob /\ instant
    BY <1>1, <2>1, Facts DEF NoJob, Places, IInv, StagesFit, InAction
  <2> QED
    BY <1>1, <2>1, <2>2, GoesOnStep
<1>3. CASE pending_transactions = <<>>
  BY <1>1, <1>3, EndStep DEF processBlocks, blockVars
<1> QED
  BY <1>2, <1>3

(* svm_mine is over: it is no action, and the queue does not notice. *)
LEMMA MineOverStep ==
  ASSUME IInv, Making, NEW outcome \in {"answered", "failed"}, MineOver(outcome), job' = NoJob,
         UNCHANGED <<batch, instant, arrived>>
  PROVE  IInv'
<1> DEFINE i == job.member
<1>1. /\ i \in Mines(batch) /\ i \in Places /\ stage[i] = "block"
      /\ stage' = [stage EXCEPT ![i] = outcome]
      /\ UNCHANGED <<action_queue, action_processing, order>>
      /\ Size' = Size /\ Places' = Places /\ Mines(batch)' = Mines(batch)
  BY Facts DEF MineOver, IInv, JobHeld, Mines, Size, Places
<1> HIDE DEF i
<1>2. /\ stage' \in [Places -> Stages] /\ stage'[i] = outcome
      /\ \A j \in Places \ {i} : stage'[j] = stage[j]
  BY <1>1 DEF IInv, Types, Stages
<1>3. Types'
  BY <1>1, <1>2 DEF IInv, Types, NoJob
<1>4. StagesFit'
  BY <1>1, <1>2 DEF IInv, StagesFit
<1>5. JobHeld'
  BY <1>1, <1>2 DEF IInv, JobHeld, Making, NoJob, i
<1>6. InAction' = InAction
  BY <1>1, <1>2, Facts DEF InAction
<1>7. ActionsInTurn' /\ SomeStarted'
  BY <1>1, <1>6 DEF IInv, ActionsInTurn, SomeStarted
<1> QED
  BY <1>3, <1>4, <1>5, <1>7 DEF IInv

(* A block in the making for an action is made by the action in progress. *)
LEMMA OwnBlock ==
  ASSUME IInv, Making, batch[job.member].kind = "send"
  PROVE  job.member \in InAction /\ instant
<1>1. job.member \in Places \ Mines(batch) /\ stage[job.member] = "block"
  BY Facts DEF IInv, JobHeld, Mines
<1> QED
  BY <1>1, Facts DEF IInv, StagesFit, InAction

(* A block fails: its svm_mine or its action is over. *)
LEMMA FailBlockStep ==
  ASSUME IInv, failBlock
  PROVE  IInv'
<1>1. Making /\ job' = NoJob /\ UNCHANGED <<batch, instant, arrived>>
  BY DEF failBlock
<1>2. CASE MineOver("failed")
  BY <1>1, <1>2, MineOverStep
<1>3. CASE batch[job.member].kind = "send" /\ EndAction(job.member, "failed")
  BY <1>1, <1>3, OwnBlock, EndStep
<1> QED
  BY <1>2, <1>3 DEF failBlock

(* A block is put: its svm_mine is over, or its action goes on. *)
LEMMA PutBlockStep ==
  ASSUME IInv, putBlock
  PROVE  IInv'
<1>1. Making /\ job' = NoJob /\ UNCHANGED <<batch, instant, arrived>>
      /\ DOMAIN job' = {"member", "txs", "run", "root", "late"}
  BY DEF putBlock, NoJob
<1>2. CASE MineOver("answered")
  BY <1>1, <1>2, MineOverStep
<1>3. CASE NextTurn
  BY <1>1, <1>3, OwnBlock, GoesOnStep DEF NextTurn
<1> QED
  BY <1>2, <1>3 DEF putBlock

(* A transaction of the block runs. *)
LEMMA RunTransactionStep ==
  ASSUME IInv, runTransaction
  PROVE  IInv'
<1>1. /\ job' = [job EXCEPT !.run = @ + 1] /\ Making
      /\ UNCHANGED <<batch, instant, arrived, action_queue, action_processing, order, stage>>
  BY DEF runTransaction, queueVars
<1>2. DOMAIN job' = {"member", "txs", "run", "root", "late"} /\ job'.member = job.member
  BY <1>1 DEF IInv, Types
<1>3. Making'
  BY <1>1, <1>2, Facts DEF IInv, JobHeld, Making, NoJob, Places
<1>4. UNCHANGED <<Size, Places, Mines(batch), InAction>>
  BY <1>1 DEF Size, Places, InAction
<1> QED
  BY <1>1, <1>2, <1>3, <1>4 DEF IInv, Types, StagesFit, JobHeld, SomeStarted, ActionsInTurn

(* Every step keeps the queue so. *)
LEMMA NextInvariant ==
  ASSUME IInv, [Next]_vars
  PROVE  IInv'
<1>1. CASE UNCHANGED vars
  <2>1. UNCHANGED <<batch, instant, arrived, action_queue, action_processing, order, stage, job>>
    BY <1>1 DEF vars, queueVars, blockVars
  <2>2. UNCHANGED <<Size, Places, Mines(batch), InAction, Making>>
    BY <2>1 DEF Size, Places, InAction, Making, NoJob
  <2> QED
    BY <2>1, <2>2 DEF IInv, Types, StagesFit, JobHeld, SomeStarted, ActionsInTurn
<1> QED
  BY <1>1, ArriveStep, RunTransactionStep, FailBlockStep, PutBlockStep, FinishActionStep,
     ProcessBlocksStep DEF Next, Progress, answerBatch

(* The action queue of statemanager.js works on one action at a time, in the order of the
   batch, and its flag tells whether it does. *)
THEOREM ActionsAreInTurn == Spec => []ActionsInTurn
<1>1. Init => IInv
  BY InitialInvariant
<1>2. IInv /\ [Next]_vars => IInv'
  BY NextInvariant
<1>3. IInv => ActionsInTurn
  BY DEF IInv
<1> QED
  BY <1>1, <1>2, <1>3, PTL DEF Spec

-------------------------------------------------------------------------------
(* The place in an order: with its block in the making, or with nothing left to do but to be
   answered, a member has had its effect. *)
Effected ==
  {i \in Places : \/ stage[i] \in {"block", "answered", "failed"}
                  \/ stage[i] = "processBlocks" /\ pending_transactions = <<>>}

(* An order of those members that keeps the actions in turn. *)
Serving(done) ==
  /\ done \in Seq(Places) /\ Range(done) = Effected
  /\ \A k, l \in DOMAIN done : done[k] = done[l] => k = l
  /\ \A k, l \in DOMAIN done :
       k < l /\ done[k] \notin Mines(batch) /\ done[l] \notin Mines(batch) => done[k] < done[l]

(* What they do one after another, as Outcome says. *)
Serves(f, done) ==
  f = [k \in 0..Len(done) |-> IF k = 0 THEN Found ELSE After(f[k - 1], done[k])]

(* The blocks as sets, and the members that failed. *)
Blocks == [k \in DOMAIN chain |-> Range(chain[k])]
Failed == {i \in Places : stage[i] = "failed"}

(* The state the members have left so far, in the terms of the specification. *)
Now == [chain |-> Blocks, pool |-> Range(pending_transactions), root |-> root, failed |-> Failed]

(* The next nonces after a block of the pool. *)
RootAfter(r, pool) == [a \in Senders |-> r[a] + Cardinality(NoncesOf(pool, a))]

(* The state the block in the making was begun in, *)
Base == [chain |-> Blocks, pool |-> Range(job.txs), root |-> job.root, failed |-> Failed]

(* and the one that is left when it ends, with what has joined the pool since. *)
WithPool(s, pool) == [s EXCEPT !.pool = pool]
Predicted ==
  IF Making THEN WithPool(Mined(Base, job.member), Range(pending_transactions)) ELSE Now

(* Not so when a nonce was read before a block that will fail: then overlapped will be set. *)
Doomed == Making /\ job.late /\ ~CanRun(Base)

(* A sender's transaction is in the pool, and its block not begun. *)
Sending(i) == stage[i] = "processBlocks" /\ pending_transactions # <<>>

(* The specification's state s is the one the members have left, and the nonce that was read
   is its next. *)
Matches(s) ==
  /\ \A i \in Places : Sending(i) => Predicted = Sent(s, batch[i].from)
  /\ (\A i \in Places : ~Sending(i)) => Predicted = s
  /\ \A i \in Places : stage[i] = "started" /\ batch[i].kind = "send" =>
                         nonce[i] = NextNonce(s, batch[i].from)

(* No transaction is in the pool twice, and the nonces of each sender are without a gap. *)
Single(txs) == \A k, l \in DOMAIN txs : txs[k] = txs[l] => k = l
InARow(pool) == \A a \in Senders : \E m, n \in Nat : NoncesOf(pool, a) = m..n
PoolKept ==
  /\ pending_transactions \in Seq(Transactions)
  /\ Single(pending_transactions) /\ InARow(Range(pending_transactions))

(* The block in the making: the transactions that have run carry the nonces from the root it
   was begun with to the root there is. *)
Ran == {job.txs[k] : k \in 1..job.run}
BlockRuns ==
  /\ job.txs \in Seq(Transactions) /\ job.run \in 0..Len(job.txs)
  /\ job.root \in [Senders -> Nat] /\ job.late \in BOOLEAN
  /\ Single(job.txs) /\ InARow(Range(job.txs))
  /\ \A k, l \in DOMAIN job.txs :
       k < l /\ job.txs[k].from = job.txs[l].from => job.txs[k].nonce <= job.txs[l].nonce
  /\ \A a \in Senders : job.root[a] <= root[a] /\ NoncesOf(Ran, a) = job.root[a]..(root[a] - 1)
  /\ job.late => job.member \in Mines(batch)

(* What waits in the action queue is queued; only a sender's action goes on to processBlocks,
   and its block leaves nothing in the pool. *)
StagesKnown ==
  /\ \A k \in DOMAIN action_queue : stage[action_queue[k]] = "queued"
  /\ \A i \in Places : stage[i] = "processBlocks" => batch[i].kind = "send"
TakesAll == Making /\ job.member \notin Mines(batch) => pending_transactions = <<>>

(* The members so far, one after another, lead to the state s of the specification. *)
Served(s) == \E done, f : Serving(done) /\ Serves(f, done) /\ f[Len(done)] = s

(* The invariant: what there is, is what they have left so far, and it is so until a nonce is
   read out of turn. *)
BlockTyped == root \in [Senders -> Nat] /\ (Making => BlockRuns)
OneAfterAnother ==
  /\ BlockTyped /\ TakesAll
  /\ chain \in Seq(Seq(Transactions)) /\ DOMAIN nonce = Places
  /\ Doomed \/ (PoolKept /\ \E s : Served(s) /\ Matches(s))

OrderInv == StagesKnown /\ (overlapped \/ OneAfterAnother)
-----------------------------------------------------------------------------
(* Every set of natural numbers that is not empty has a least one: induction, in a form that
   the provers can use. *)
LEMMA LeastNumber ==
  ASSUME NEW T \in SUBSET Nat, T # {}
  PROVE  \E x \in T : \A y \in T : x <= y
<1>1. PICK x \in T : \A y \in T : ~ (<<y, x>> \in OpToRel(<, Nat))
  BY NatLessThanWellFounded, WFMin
<1>2. ASSUME NEW y \in T
      PROVE  x <= y
  <2>1. ~ (y < x)
    BY <1>1 DEF OpToRel
  <2> QED
    BY <2>1
<1> QED
  BY <1>2

(* There is one outcome of an order, *)
LEMMA OneOutcome ==
  ASSUME NEW done \in Seq(Places), NEW f, Serves(f, done), NEW g, Serves(g, done)
  PROVE  f[Len(done)] = g[Len(done)]
<1>1. Len(done) \in Nat
  BY LenProperties
<1>2. \A k \in 0..Len(done) : f[k] = (IF k = 0 THEN Found ELSE After(f[k - 1], done[k]))
  BY Zenon DEF Serves
<1>3. \A k \in 0..Len(done) : g[k] = (IF k = 0 THEN Found ELSE After(g[k - 1], done[k]))
  BY Zenon DEF Serves
<1> DEFINE apart == {k \in 0..Len(done) : f[k] # g[k]}
<1>4. SUFFICES ASSUME f[Len(done)] # g[Len(done)]
               PROVE  FALSE
  OBVIOUS
<1>5. apart \in SUBSET Nat /\ apart # {}
  BY <1>1, <1>4
<1> HIDE DEF apart
<1>6. PICK k \in apart : \A l \in apart : k <= l
  BY <1>5, LeastNumber
<1>7. k \in 0..Len(done) /\ f[k] # g[k]
  BY DEF apart
<1>8. k # 0
  BY <1>2, <1>3, <1>7, Zenon
<1>9. k - 1 \in 0..Len(done) /\ ~ (k <= k - 1)
  BY <1>1, <1>7, <1>8
<1>10. f[k - 1] = g[k - 1]
  BY <1>6, <1>9, Zenon DEF apart
<1> QED
  BY <1>2, <1>3, <1>7, <1>8, <1>10, Zenon

(* and one of an order that goes on. *)
LEMMA OutcomeGoesOn ==
  ASSUME NEW done \in Seq(Places), NEW f, Serves(f, done), NEW i \in Places
  PROVE  \E g : Serves(g, Append(done, i)) /\ g[Len(Append(done, i))] = After(f[Len(done)], i)
<1> DEFINE n == Len(done)
           more == Append(done, i)
           g == [k \in 0..(n + 1) |-> IF k \in 0..n THEN f[k] ELSE After(f[n], i)]
<1>1. n \in Nat /\ Len(more) = n + 1 /\ more[n + 1] = i /\ \A k \in 1..n : more[k] = done[k]
  BY LenProperties, AppendProperties
<1> HIDE DEF n, more
<1>2. \A k \in 0..n : f[k] = (IF k = 0 THEN Found ELSE After(f[k - 1], done[k]))
  BY Zenon DEF Serves, n
<1>3. n + 1 \in 0..(n + 1) /\ n + 1 \notin 0..n /\ n \in 0..n
  BY <1>1
<1>4. g[n + 1] = After(f[n], i)
  BY <1>3, Zenon
<1>5. ASSUME NEW k \in 0..(n + 1)
      PROVE  g[k] = IF k = 0 THEN Found ELSE After(g[k - 1], more[k])
  <2>1. CASE k = n + 1
    <3>1. k # 0 /\ k - 1 = n /\ n \in 0..(n + 1)
      BY <1>1, <2>1
    <3>2. g[n] = f[n]
      BY <1>3, <3>1, Zenon
    <3>3. g[k] = After(f[n], i) /\ more[k] = i
      BY <1>1, <1>4, <2>1, Zenon
    <3> HIDE DEF g
    <3> QED
      BY <3>1, <3>2, <3>3, Zenon
  <2>2. CASE k # n + 1
    <3>1. k \in 0..n
      BY <1>1, <2>2
    <3>2. g[k] = f[k]
      BY <3>1, Zenon
    <3>3. CASE k = 0
      <4> HIDE DEF g
      <4> QED
        BY <1>2, <3>1, <3>2, <3>3, Zenon
    <3>4. CASE k # 0
      <4>1. k \in 1..n /\ k - 1 \in 0..n /\ k - 1 \in 0..(n + 1)
        BY <1>1, <3>1, <3>4
      <4>2. g[k - 1] = f[k - 1]
        BY <4>1, Zenon
      <4>3. more[k] = done[k]
        BY <1>1, <4>1
      <4> HIDE DEF g
      <4> QED
        BY <1>2, <3>1, <3>2, <3>4, <4>2, <4>3, Zenon
    <3> QED
      BY <3>3, <3>4
  <2> QED
    BY <2>1, <2>2
<1>6. g = [k \in 0..(n + 1) |-> IF k = 0 THEN Found ELSE After(g[k - 1], more[k])]
  <2> DEFINE h == [k \in 0..(n + 1) |-> IF k = 0 THEN Found ELSE After(g[k - 1], more[k])]
  <2>1. \A k \in 0..(n + 1) : g[k] = h[k]
    BY <1>5, Zenon
  <2>2. DOMAIN g = 0..(n + 1) /\ DOMAIN h = 0..(n + 1)
    OBVIOUS
  <2>3. g = [k \in 0..(n + 1) |-> g[k]] /\ h = [k \in 0..(n + 1) |-> h[k]]
    OBVIOUS
  <2> HIDE DEF g, h
  <2>4. g = h
    BY <2>1, <2>3
  <2> QED
    BY <2>4, Zenon DEF h
<1> HIDE DEF g
<1>7. Serves(g, more)
  BY <1>1, <1>6, Zenon DEF Serves
<1> QED
  BY <1>1, <1>4, <1>7, Zenon DEF n, more

-------------------------------------------------------------------------------
(* The pool as a set tells the nonces that the code finds in the list. *)
LEMMA NoncesOfPool ==
  ASSUME NEW pool \in Seq(Transactions), NEW a
  PROVE  NoncesOf(Range(pool), a) = PendingNonces(a, pool)
<1>1. DOMAIN pool = 1..Len(pool) /\ Len(pool) \in Nat
  BY LenProperties
<1>2. ASSUME NEW n, n \in NoncesOf(Range(pool), a)
      PROVE  n \in PendingNonces(a, pool)
  BY <1>2 DEF NoncesOf, PendingNonces, Range
<1>3. ASSUME NEW n, n \in PendingNonces(a, pool)
      PROVE  n \in NoncesOf(Range(pool), a)
  BY <1>3 DEF NoncesOf, PendingNonces, Range
<1> QED
  BY <1>2, <1>3

(* The nonce that the code reads is the next of the specification. *)
LEMMA SameNonce ==
  ASSUME NEW pool \in Seq(Transactions), NEW a, NEW state,
         NEW s, s.pool = Range(pool), s.root = state
  PROVE  getQueuedNonce(a, pool, state) = NextNonce(s, a)
<1>1. NoncesOf(s.pool, a) = PendingNonces(a, pool)
  BY NoncesOfPool
<1> QED
  BY <1>1 DEF getQueuedNonce, NextNonce

(* The greatest of a row. *)
LEMMA GreatestOfRow ==
  ASSUME NEW m \in Nat, NEW n \in Nat, m <= n
  PROVE  (CHOOSE x \in m..n : \A other \in m..n : other <= x) = n
<1>1. n \in m..n /\ \A other \in m..n : other <= n
  OBVIOUS
<1> DEFINE x == CHOOSE y \in m..n : \A other \in m..n : other <= y
<1>2. x \in m..n /\ \A other \in m..n : other <= x
  BY <1>1, Zenon
<1> HIDE DEF x
<1>3. x = n
  BY <1>1, <1>2
<1> QED
  BY <1>3 DEF x

(* The next nonce where those of the pool are without a gap. *)
LEMMA NextOfRow ==
  ASSUME NEW s, NEW a, NEW m \in Nat, NEW n \in Nat, NoncesOf(s.pool, a) = m..n
  PROVE  NextNonce(s, a) = IF n < m THEN s.root[a] ELSE n + 1
<1>1. CASE n < m
  <2>1. m..n = {}
    BY <1>1
  <2> QED
    BY <1>1, <2>1, Zenon DEF NextNonce
<1>2. CASE ~(n < m)
  <2>1. m..n # {} /\ m <= n
    BY <1>2
  <2>2. (CHOOSE x \in m..n : \A other \in m..n : other <= x) = n
    BY <2>1, GreatestOfRow
  <2>3. NextNonce(s, a) = 1 + (CHOOSE x \in m..n : \A other \in m..n : other <= x)
    BY <2>1, Zenon DEF NextNonce
  <2> QED
    BY <1>2, <2>2, <2>3
<1> QED
  BY <1>1, <1>2

(* A nonce is none of those pending. *)
LEMMA NextIsNew ==
  ASSUME NEW pool \in Seq(Transactions), InARow(Range(pool)), NEW a \in Senders,
         NEW s, s.pool = Range(pool), s.root[a] \in Nat
  PROVE  /\ NextNonce(s, a) \in Nat
         /\ NextNonce(s, a) \notin NoncesOf(Range(pool), a)
         /\ \E m, n \in Nat : NoncesOf(Range(pool), a) \cup {NextNonce(s, a)} = m..n
<1>1. PICK m \in Nat : \E n \in Nat : NoncesOf(Range(pool), a) = m..n
  BY DEF InARow
<1>2. PICK n \in Nat : NoncesOf(Range(pool), a) = m..n
  BY <1>1
<1>3. NextNonce(s, a) = IF n < m THEN s.root[a] ELSE n + 1
  BY <1>2, NextOfRow
<1>4. CASE n < m
  <2>1. m..n = {} /\ {s.root[a]} = s.root[a]..s.root[a]
    BY <1>4
  <2> QED
    BY <1>2, <1>3, <1>4, <2>1
<1>5. CASE ~(n < m)
  <2>1. n + 1 \in Nat /\ n + 1 \notin m..n /\ (m..n) \cup {n + 1} = m..(n + 1)
    BY <1>5
  <2> QED
    BY <1>2, <1>3, <1>5, <2>1
<1> QED
  BY <1>4, <1>5

(* What a transaction that joins a set adds to the nonces. *)
LEMMA NoncesOfMore ==
  ASSUME NEW S, NEW b, NEW n, NEW a
  PROVE  NoncesOf(S \cup {Transaction(b, n)}, a) = NoncesOf(S, a) \cup IF a = b THEN {n} ELSE {}
<1> DEFINE tx == Transaction(b, n)
<1>1. tx.from = b /\ tx.nonce = n
  BY DEF Transaction
<1> HIDE DEF tx
<1>2. CASE a = b
  <2>1. {t \in S \cup {tx} : t.from = a} = {t \in S : t.from = a} \cup {tx}
    BY <1>1, <1>2
  <2> QED
    BY <1>1, <1>2, <2>1 DEF NoncesOf, tx
<1>3. CASE a # b
  <2>1. {t \in S \cup {tx} : t.from = a} = {t \in S : t.from = a}
    BY <1>1, <1>3
  <2> QED
    BY <1>3, <2>1 DEF NoncesOf, tx
<1> QED
  BY <1>2, <1>3

(* One more, as a set. *)
LEMMA RangeOfAppend ==
  ASSUME NEW S, NEW s \in Seq(S), NEW x \in S
  PROVE  Range(Append(s, x)) = Range(s) \cup {x}
<1>1. /\ DOMAIN s = 1..Len(s) /\ Len(s) \in Nat /\ DOMAIN Append(s, x) = 1..(Len(s) + 1)
      /\ \A k \in 1..Len(s) : Append(s, x)[k] = s[k]
      /\ Append(s, x)[Len(s) + 1] = x
  BY LenProperties, AppendProperties
<1>2. ASSUME NEW y, y \in Range(Append(s, x)) PROVE y \in Range(s) \cup {x}
  <2>1. PICK k \in 1..(Len(s) + 1) : y = Append(s, x)[k]
    BY <1>1, <1>2 DEF Range
  <2> QED
    BY <1>1, <2>1 DEF Range
<1>3. ASSUME NEW y, y \in Range(s) \cup {x} PROVE y \in Range(Append(s, x))
  <2>1. CASE y = x
    BY <1>1, <2>1 DEF Range
  <2>2. CASE y \in Range(s)
    <3>1. PICK k \in 1..Len(s) : y = s[k]
      BY <1>1, <2>2 DEF Range
    <3>2. k \in DOMAIN Append(s, x) /\ Append(s, x)[k] = y
      BY <1>1, <3>1
    <3> QED
      BY <3>2 DEF Range
  <2> QED
    BY <1>3, <2>1, <2>2
<1> QED
  BY <1>2, <1>3

(* One more that is not there yet. *)
LEMMA SingleAppend ==
  ASSUME NEW S, NEW s \in Seq(S), Single(s), NEW x \in S, x \notin Range(s)
  PROVE  Single(Append(s, x))
<1>1. /\ DOMAIN s = 1..Len(s) /\ Len(s) \in Nat /\ DOMAIN Append(s, x) = 1..(Len(s) + 1)
      /\ \A k \in 1..Len(s) : Append(s, x)[k] = s[k]
      /\ Append(s, x)[Len(s) + 1] = x
  BY LenProperties, AppendProperties
<1>2. \A k \in 1..Len(s) : s[k] # x
  BY <1>1 DEF Range
<1> QED
  BY <1>1, <1>2 DEF Single

(* The transaction that joins the pool leaves it kept. *)
LEMMA JoinsPool ==
  ASSUME PoolKept, NEW b \in Senders,
         NEW s, s.pool = Range(pending_transactions), s.root[b] \in Nat,
         NEW tx, tx = Transaction(b, NextNonce(s, b)),
         pending_transactions' = Append(pending_transactions, tx)
  PROVE  /\ PoolKept'
         /\ Range(pending_transactions') = Range(pending_transactions) \cup {tx}
<1>1. pending_transactions \in Seq(Transactions) /\ InARow(Range(pending_transactions))
      /\ Single(pending_transactions)
  BY DEF PoolKept
<1>2. /\ NextNonce(s, b) \in Nat
      /\ NextNonce(s, b) \notin NoncesOf(Range(pending_transactions), b)
      /\ \E m, n \in Nat : NoncesOf(Range(pending_transactions), b) \cup {NextNonce(s, b)} = m..n
  BY <1>1, NextIsNew
<1>3. tx \in Transactions
  BY <1>2 DEF Transaction, Transactions
<1>4. tx \notin Range(pending_transactions)
  BY <1>2 DEF NoncesOf, Transaction
<1>5. Range(pending_transactions') = Range(pending_transactions) \cup {tx}
  BY <1>1, <1>3, RangeOfAppend
<1>6. pending_transactions' \in Seq(Transactions) /\ Single(pending_transactions')
  BY <1>1, <1>3, <1>4, AppendProperties, SingleAppend
<1>7. ASSUME NEW a \in Senders
      PROVE  \E m, n \in Nat : NoncesOf(Range(pending_transactions'), a) = m..n
  <2>1. NoncesOf(Range(pending_transactions'), a) =
          NoncesOf(Range(pending_transactions), a) \cup IF a = b THEN {NextNonce(s, b)} ELSE {}
    BY <1>5, NoncesOfMore
  <2>2. CASE a = b
    BY <1>2, <2>1, <2>2
  <2>3. CASE a # b
    BY <1>1, <2>1, <2>3 DEF InARow
  <2> QED
    BY <2>2, <2>3
<1> QED
  BY <1>5, <1>6, <1>7 DEF PoolKept, InARow

-------------------------------------------------------------------------------
(* The number of the nonces in a row. *)
LEMMA SizeOfRow ==
  ASSUME NEW m \in Nat, NEW n \in Nat, m <= n
  PROVE  Cardinality(m..(n - 1)) = n - m
<1>1. m \in Int /\ n - 1 \in Int
  OBVIOUS
<1>2. Cardinality(m..(n - 1)) = IF m > n - 1 THEN 0 ELSE (n - 1) - m + 1
  BY <1>1, FS_Interval
<1> QED
  BY <1>2

(* A row is finite. *)
LEMMA RowsAreCounted ==
  ASSUME NEW pool, InARow(pool), NEW a \in Senders
  PROVE  Cardinality(NoncesOf(pool, a)) \in Nat
<1>1. PICK m \in Nat : \E n \in Nat : NoncesOf(pool, a) = m..n
  BY DEF InARow
<1>2. PICK n \in Nat : NoncesOf(pool, a) = m..n
  BY <1>1
<1>3. m \in Int /\ n \in Int
  OBVIOUS
<1>4. Cardinality(m..n) = IF m > n THEN 0 ELSE n - m + 1
  BY <1>3, FS_Interval
<1> QED
  BY <1>2, <1>4

(* The next nonce is the same before a block that runs and after it. *)
LEMMA NextAfterBlock ==
  ASSUME NEW s, NEW t, CanRun(s), InARow(s.pool), s.root \in [Senders -> Nat],
         NEW a \in Senders, NoncesOf(t.pool, a) = {},
         t.root[a] = s.root[a] + Cardinality(NoncesOf(s.pool, a))
  PROVE  NextNonce(t, a) = NextNonce(s, a)
<1> DEFINE r == s.root[a]
           c == Cardinality(NoncesOf(s.pool, a))
<1>1. r \in Nat /\ c \in Nat
  BY RowsAreCounted
<1>2. NoncesOf(s.pool, a) = r..(r + c - 1)
  BY DEF CanRun
<1>3. NextNonce(t, a) = r + c
  BY DEF NextNonce
<1> HIDE DEF c
<1>4. CASE c = 0
  <2>1. r..(r + c - 1) = {}
    BY <1>1, <1>4
  <2>2. NextNonce(s, a) = r
    BY <1>2, <2>1, Zenon DEF NextNonce
  <2> HIDE DEF r
  <2> QED
    BY <1>1, <1>3, <1>4, <2>2
<1>5. CASE c # 0
  <2> HIDE DEF r
  <2>1. r + c - 1 \in Nat /\ ~ (r + c - 1 < r) /\ r + c - 1 + 1 = r + c
    BY <1>1, <1>5
  <2>2. NextNonce(s, a) = r + c - 1 + 1
    BY <1>1, <1>2, <2>1, NextOfRow
  <2> QED
    BY <1>3, <2>1, <2>2
<1> QED
  BY <1>4, <1>5

(* The block in the making can run if it has run to its end, *)
LEMMA BlockSucceeds ==
  ASSUME BlockRuns, root \in [Senders -> Nat], job.run = Len(job.txs)
  PROVE  /\ CanRun(Base)
         /\ root = [a \in Senders |-> job.root[a] + Cardinality(NoncesOf(Range(job.txs), a))]
<1>1. Ran = Range(job.txs)
  BY LenProperties DEF BlockRuns, Ran, Range
<1>2. ASSUME NEW a \in Senders
      PROVE  /\ NoncesOf(Range(job.txs), a) = job.root[a]..(root[a] - 1)
             /\ job.root[a] \in Nat /\ root[a] \in Nat
             /\ Cardinality(NoncesOf(Range(job.txs), a)) = root[a] - job.root[a]
  <2>1. job.root[a] \in Nat /\ root[a] \in Nat /\ job.root[a] <= root[a]
        /\ NoncesOf(Range(job.txs), a) = job.root[a]..(root[a] - 1)
    BY <1>1 DEF BlockRuns
  <2> QED
    BY <2>1, SizeOfRow
<1>3. CanRun(Base)
  <2>1. ASSUME NEW a \in Senders
        PROVE  NoncesOf(Range(job.txs), a) =
                 job.root[a]..(job.root[a] + Cardinality(NoncesOf(Range(job.txs), a)) - 1)
    <3>1. job.root[a] + (root[a] - job.root[a]) - 1 = root[a] - 1
      BY <1>2
    <3> QED
      BY <1>2, <3>1
  <2>2. Base.pool = Range(job.txs) /\ Base.root = job.root
    BY DEF Base
  <2> QED
    BY <2>1, <2>2 DEF CanRun
<1>4. \A a \in Senders : root[a] = job.root[a] + Cardinality(NoncesOf(Range(job.txs), a))
  BY <1>2
<1> QED
  BY <1>3, <1>4

(* it cannot if a transaction of it does not run, *)
LEMMA BlockFails ==
  ASSUME BlockRuns, root \in [Senders -> Nat], job.run < Len(job.txs), ~Runs
  PROVE  ~CanRun(Base)
<1>1. SUFFICES ASSUME CanRun(Base)
               PROVE  FALSE
  OBVIOUS
<1> DEFINE k == job.run + 1
           tx == job.txs[k]
           a == tx.from
           r == job.root[a]
           c == Cardinality(NoncesOf(Range(job.txs), a))
<1>2. /\ Len(job.txs) \in Nat /\ DOMAIN job.txs = 1..Len(job.txs) /\ job.run \in Nat
      /\ k \in DOMAIN job.txs
  BY LenProperties DEF BlockRuns
<1>3. tx \in Transactions /\ a \in Senders /\ tx.nonce \in Nat
  <2>1. job.txs \in Seq(Transactions)
    BY DEF BlockRuns
  <2>2. \A l \in 1..Len(job.txs) : job.txs[l] \in Transactions
    BY <2>1, ElementOfSeq
  <2>3. tx \in Transactions
    BY <1>2, <2>2
  <2> QED
    BY <2>3 DEF Transactions
<1>4. tx.nonce # root[a]
  BY DEF Runs, NextTx
<1>5. r \in Nat /\ root[a] \in Nat /\ r <= root[a] /\ NoncesOf(Ran, a) = r..(root[a] - 1)
  BY <1>3 DEF BlockRuns
<1>6. c \in Nat /\ NoncesOf(Range(job.txs), a) = r..(r + c - 1)
  <2>1. Base.pool = Range(job.txs) /\ Base.root = job.root
    BY DEF Base
  <2>2. c \in Nat
    BY <1>3, RowsAreCounted DEF BlockRuns
  <2> QED
    BY <1>1, <1>3, <2>1, <2>2 DEF CanRun
<1>7. tx.nonce \in NoncesOf(Range(job.txs), a)
  BY <1>2 DEF NoncesOf, Range
<1>8. tx.nonce \notin NoncesOf(Ran, a)
  <2>1. SUFFICES ASSUME tx.nonce \in NoncesOf(Ran, a)
                 PROVE  FALSE
    OBVIOUS
  <2>2. PICK l \in 1..job.run : job.txs[l].from = a /\ job.txs[l].nonce = tx.nonce
    BY <2>1 DEF NoncesOf, Ran
  <2>3. l \in DOMAIN job.txs /\ l # k
    BY <1>2
  <2>4. job.txs[l] \in Transactions
    BY <2>3, ElementOfSeq DEF BlockRuns
  <2>5. job.txs[l] = tx
    BY <1>3, <2>2, <2>4 DEF Transactions
  <2> QED
    BY <1>2, <2>3, <2>5 DEF BlockRuns, Single
<1> HIDE DEF c, r, a, tx
<1>9. root[a] < tx.nonce /\ root[a] \in r..(r + c - 1)
  BY <1>3, <1>4, <1>5, <1>6, <1>7, <1>8
<1>10. PICK l \in DOMAIN job.txs : job.txs[l].from = a /\ job.txs[l].nonce = root[a]
  <2>1. root[a] \in NoncesOf(Range(job.txs), a)
    BY <1>6, <1>9
  <2> QED
    BY <2>1 DEF NoncesOf, Range
<1>11. l > job.run
  <2>1. SUFFICES ASSUME l \in 1..job.run
                 PROVE  FALSE
    BY <1>2
  <2>2. root[a] \in NoncesOf(Ran, a)
    BY <1>10, <2>1 DEF NoncesOf, Ran
  <2> QED
    BY <1>5, <2>2
<1>12. l # k
  BY <1>3, <1>9, <1>10 DEF tx
<1>13. k < l
  BY <1>2, <1>11, <1>12
<1>14. tx.nonce <= root[a]
  BY <1>2, <1>10, <1>13, Zenon DEF BlockRuns, tx, a
<1> QED
  BY <1>3, <1>5, <1>9, <1>14

(* and a transaction that runs leaves it what it is. *)
LEMMA BlockGoesOn ==
  ASSUME BlockRuns, root \in [Senders -> Nat], job.run < Len(job.txs), Runs,
         root' = [root EXCEPT ![NextTx.from] = @ + 1],
         job' = [job EXCEPT !.run = @ + 1], UNCHANGED batch,
         DOMAIN job = {"member", "txs", "run", "root", "late"}
  PROVE  /\ BlockRuns' /\ root' \in [Senders -> Nat]
         /\ job'.member = job.member /\ job'.txs = job.txs /\ job'.root = job.root
         /\ job'.late = job.late
<1> DEFINE k == job.run + 1
           tx == job.txs[k]
           b == tx.from
<1>1. /\ Len(job.txs) \in Nat /\ DOMAIN job.txs = 1..Len(job.txs) /\ job.run \in Nat
      /\ k \in 1..Len(job.txs) /\ NextTx = tx
  BY LenProperties DEF BlockRuns, NextTx
<1>2. tx \in Transactions /\ b \in Senders /\ tx.nonce = root[b]
  <2>1. job.txs \in Seq(Transactions)
    BY DEF BlockRuns
  <2>2. \A l \in 1..Len(job.txs) : job.txs[l] \in Transactions
    BY <2>1, ElementOfSeq
  <2>3. tx \in Transactions
    BY <1>1, <2>2
  <2> QED
    BY <1>1, <2>3 DEF Transactions, Runs
<1>3. /\ job'.member = job.member /\ job'.txs = job.txs /\ job'.root = job.root
      /\ job'.late = job.late /\ job'.run = job.run + 1
  OBVIOUS
<1>4. /\ root' \in [Senders -> Nat] /\ root'[b] = root[b] + 1
      /\ \A a \in Senders : a # b => root'[a] = root[a]
  BY <1>1, <1>2
<1>5. Ran' = Ran \cup {tx}
  <2>1. 1..(job.run + 1) = (1..job.run) \cup {job.run + 1}
    BY <1>1
  <2> QED
    BY <1>3, <2>1 DEF Ran
<1> HIDE DEF tx
<1>6. ASSUME NEW a \in Senders
      PROVE  /\ job'.root[a] <= root'[a]
             /\ NoncesOf(Ran', a) = job'.root[a]..(root'[a] - 1)
  <2>1. job.root[a] \in Nat /\ root[a] \in Nat /\ job.root[a] <= root[a]
        /\ NoncesOf(Ran, a) = job.root[a]..(root[a] - 1)
    BY DEF BlockRuns
  <2>2. CASE a = b
    <3>1. NoncesOf(Ran', a) = NoncesOf(Ran, a) \cup {root[a]}
      <4>1. {t \in Ran \cup {tx} : t.from = a} = {t \in Ran : t.from = a} \cup {tx}
        BY <2>2
      <4> QED
        BY <1>2, <1>5, <2>2, <4>1 DEF NoncesOf
    <3>2. (job.root[a]..(root[a] - 1)) \cup {root[a]} = job.root[a]..((root[a] + 1) - 1)
      BY <2>1
    <3> QED
      BY <1>3, <1>4, <2>1, <2>2, <3>1, <3>2
  <2>3. CASE a # b
    <3>1. NoncesOf(Ran', a) = NoncesOf(Ran, a)
      <4>1. {t \in Ran \cup {tx} : t.from = a} = {t \in Ran : t.from = a}
        BY <2>3
      <4> QED
        BY <1>5, <4>1 DEF NoncesOf
    <3> QED
      BY <1>3, <1>4, <2>1, <2>3, <3>1
  <2> QED
    BY <2>2, <2>3
<1>7. job'.run \in 0..Len(job'.txs)
  BY <1>1, <1>3
<1>8. Mines(batch)' = Mines(batch)
  BY DEF Mines
<1> QED
  <2> HIDE DEF b, k
  <2> QED
    BY <1>3, <1>4, <1>6, <1>7, <1>8 DEF BlockRuns, Single

(* The pool in the order it is mined in. *)
LEMMA SortedPool ==
  ASSUME PoolKept, NEW txs \in Sorted
  PROVE  /\ txs \in Seq(Transactions) /\ Single(txs)
         /\ Range(txs) = Range(pending_transactions)
         /\ pending_transactions # <<>> => txs # <<>>
         /\ \A k, l \in DOMAIN txs :
              k < l /\ txs[k].from = txs[l].from => txs[k].nonce <= txs[l].nonce
<1> DEFINE pool == pending_transactions
           D == DOMAIN pool
<1>1. PICK p \in Bijection(D, D) : txs = [k \in D |-> pool[p[k]]]
  BY DEF Sorted
<1>2. /\ p \in [D -> D] /\ \A k, l \in D : p[k] = p[l] => k = l
      /\ \A k \in D : \E l \in D : p[l] = k
  BY <1>1 DEF Bijection, Injection, Surjection, IsInjective
<1>3. pool \in Seq(Transactions) /\ Single(pool) /\ Len(pool) \in Nat /\ D = 1..Len(pool)
      /\ \A k \in D : pool[k] \in Transactions
  BY LenProperties, ElementOfSeq DEF PoolKept
<1>4. DOMAIN txs = D /\ \A k \in D : txs[k] = pool[p[k]]
  BY <1>1
<1>5. txs \in Seq(Transactions)
  <2>1. txs \in [1..Len(pool) -> Transactions]
    BY <1>1, <1>2, <1>3
  <2> QED
    BY <1>3, <2>1, SeqDef
<1>6. Single(txs)
  BY <1>2, <1>3, <1>4 DEF Single
<1>7. Range(txs) = Range(pool)
  <2>1. ASSUME NEW x, x \in Range(txs) PROVE x \in Range(pool)
    BY <1>2, <1>4, <2>1 DEF Range
  <2>2. ASSUME NEW x, x \in Range(pool) PROVE x \in Range(txs)
    <3>1. PICK k \in D : x = pool[k]
      BY <2>2 DEF Range
    <3>2. PICK l \in D : p[l] = k
      BY <1>2
    <3> QED
      BY <1>4, <3>1, <3>2 DEF Range
  <2> QED
    BY <2>1, <2>2
<1>8. pool # <<>> => txs # <<>>
  <2>1. ASSUME txs = <<>> PROVE pool = <<>>
    <3>1. D = {}
      BY <1>4, <2>1
    <3>2. Len(pool) = 0
      BY <1>3, <3>1
    <3> QED
      BY <1>3, <3>2, EmptySeq
  <2> QED
    BY <2>1
<1>9. \A k, l \in DOMAIN txs : k < l /\ txs[k].from = txs[l].from => txs[k].nonce <= txs[l].nonce
  BY DEF Sorted
<1> QED
  BY <1>5, <1>6, <1>7, <1>8, <1>9

-------------------------------------------------------------------------------
(* The specification of a batch is the same from start to end. *)
LEMMA SameSpecification ==
  ASSUME batch' = batch, before' = before, instant' = instant
  PROVE  /\ Found' = Found /\ Size' = Size /\ Places' = Places /\ Mines(batch)' = Mines(batch)
         /\ \A s, i : After(s, i)' = After(s, i)
<1>1. Found' = Found /\ Size' = Size /\ Places' = Places /\ Mines(batch)' = Mines(batch)
  BY DEF Found, Size, Places, Mines
<1>2. ASSUME NEW s, NEW i
      PROVE  After(s, i)' = After(s, i)
  BY Zenon DEF After
<1> QED
  BY <1>1, <1>2, Zenon

(* So an outcome stays the outcome of its order. *)
LEMMA SameOutcome ==
  ASSUME batch' = batch, before' = before, instant' = instant, NEW f, NEW done
  PROVE  Serves(f, done)' <=> Serves(f, done)
<1> DEFINE g == [k \in 0..Len(done) |-> IF k = 0 THEN Found ELSE After(f[k - 1], done[k])]
<1>1. Found' = Found /\ \A s, i : After(s, i)' = After(s, i)
  BY SameSpecification
<1>2. g' = g
  <2>1. ASSUME NEW k \in 0..Len(done)
        PROVE  (IF k = 0 THEN Found' ELSE After(f[k - 1], done[k])')
                 = IF k = 0 THEN Found ELSE After(f[k - 1], done[k])
    BY <1>1, Zenon
  <2> QED
    BY <2>1, Zenon
<1>3. (Serves(f, done) <=> f = g) /\ (Serves(f, done)' <=> f = g')
  BY Zenon DEF Serves
<1> QED
  BY <1>2, <1>3, Zenon

(* Nothing has its effect, *)
LEMMA ServedStill ==
  ASSUME NEW s, Served(s), Effected' = Effected,
         batch' = batch, before' = before, instant' = instant
  PROVE  Served(s)'
<1>1. PICK done, f : Serving(done) /\ Serves(f, done) /\ f[Len(done)] = s
  BY Zenon DEF Served
<1>2. Serves(f, done)'
  BY <1>1, SameOutcome, Zenon
<1>3. Places' = Places /\ Mines(batch)' = Mines(batch)
  BY SameSpecification
<1>4. Serving(done)'
  BY <1>1, <1>3 DEF Serving
<1> QED
  BY <1>1, <1>2, <1>4, Zenon DEF Served

(* or one more member has. *)
LEMMA ServedNext ==
  ASSUME NEW s, Served(s), NEW i \in Places, NEW t, t = After(s, i),
         i \notin Effected, Effected' = Effected \cup {i},
         batch' = batch, before' = before, instant' = instant,
         i \in Mines(batch) \/ \A j \in Effected \ Mines(batch) : j < i
  PROVE  Served(t)'
<1>1. PICK done, f : Serving(done) /\ Serves(f, done) /\ f[Len(done)] = s
  BY Zenon DEF Served
<1> DEFINE more == Append(done, i)
<1>2. done \in Seq(Places) /\ Range(done) = Effected
  BY <1>1 DEF Serving
<1>3. PICK g : Serves(g, more) /\ g[Len(more)] = t
  BY <1>1, <1>2, OutcomeGoesOn
<1>4. Places' = Places /\ Mines(batch)' = Mines(batch)
  BY SameSpecification
<1>5. /\ more \in Seq(Places) /\ Range(more) = Effected \cup {i}
  BY <1>2, AppendProperties, RangeOfAppend
<1>6. /\ Len(done) \in Nat /\ DOMAIN done = 1..Len(done) /\ DOMAIN more = 1..(Len(done) + 1)
      /\ \A k \in 1..Len(done) : more[k] = done[k]
      /\ more[Len(done) + 1] = i
  BY <1>2, LenProperties, AppendProperties
<1>7. \A k \in 1..Len(done) : done[k] \in Effected
  BY <1>2, <1>6 DEF Range
<1> HIDE DEF more
<1>8. \A k, l \in DOMAIN more : more[k] = more[l] => k = l
  BY <1>1, <1>6, <1>7 DEF Serving
<1>9. ASSUME NEW k \in DOMAIN more, NEW l \in DOMAIN more, k < l,
             more[k] \notin Mines(batch), more[l] \notin Mines(batch)
      PROVE  more[k] < more[l]
  <2>1. k \in 1..Len(done) /\ more[k] = done[k]
    BY <1>6, <1>9
  <2>2. CASE l = Len(done) + 1
    BY <1>6, <1>7, <1>9, <2>1, <2>2
  <2>3. CASE l # Len(done) + 1
    <3>1. l \in 1..Len(done) /\ more[l] = done[l]
      BY <1>6, <2>3
    <3> QED
      BY <1>1, <1>6, <1>9, <2>1, <3>1 DEF Serving
  <2> QED
    BY <2>2, <2>3
<1>10. Serving(more)'
  <2>1. /\ more \in Seq(Places)' /\ Range(more) = Effected'
    BY <1>4, <1>5
  <2> QED
    BY <1>4, <1>8, <1>9, <2>1, Zenon DEF Serving
<1>11. Serves(g, more)'
  BY <1>3, SameOutcome, Zenon
<1> QED
  BY <1>3, <1>10, <1>11, Zenon DEF Served

(* What a member does to the specification's state. *)
LEMMA AfterIs ==
  ASSUME NEW s, NEW i
  PROVE  /\ batch[i].kind = "send" /\ instant => After(s, i) = Mined(Sent(s, batch[i].from), i)
         /\ batch[i].kind = "send" /\ ~instant => After(s, i) = Sent(s, batch[i].from)
         /\ batch[i].kind = "mine" => After(s, i) = Mined(s, i)
         /\ batch[i].kind = "read" => After(s, i) = s
  BY DEF After

(* The members, by kind. *)
LEMMA Kinds ==
  ASSUME IInv, NEW i \in Places
  PROVE  /\ batch[i].kind \in {"send", "read", "mine"}
         /\ batch[i].kind = "mine" <=> i \in Mines(batch)
         /\ batch[i].kind = "send" => batch[i].from \in Senders
<1>1. batch \in Seq(Members) /\ DOMAIN batch = Places /\ i \in 1..Len(batch)
  BY Facts DEF IInv, Types, Places, Size
<1>2. batch[i] \in Members
  BY <1>1, ElementOfSeq
<1> QED
  BY <1>1, <1>2 DEF Members, Mines

-------------------------------------------------------------------------------
(* What is overlapped stays so. *)
LEMMA EndOverlaps ==
  ASSUME NEW i, NEW outcome, EndAction(i, outcome), overlapped
  PROVE  overlapped'
<1>1. CASE NextAction = {}
  BY <1>1, Zenon DEF EndAction
<1>2. CASE NextAction # {}
  <2>1. PICK next \in NextAction : StartAction(next, pending_transactions', root', Making')
    BY <1>2, Zenon DEF EndAction
  <2> QED
    BY <2>1, Zenon DEF StartAction
<1> QED
  BY <1>1, <1>2

(* No step takes it back. *)
LEMMA OverlappedStays ==
  ASSUME [Next]_vars, overlapped
  PROVE  overlapped'
<1>1. CASE UNCHANGED vars
  BY <1>1 DEF vars
<1>2. CASE arrive
  <2>1. CASE batch[arrived + 1].kind = "mine"
    BY <1>2, <2>1, Zenon DEF arrive
  <2>2. CASE ~(batch[arrived + 1].kind = "mine")
    <3>1. queueAction(arrived + 1)
      BY <1>2, <2>2, Zenon DEF arrive
    <3>2. CASE Free
      <4>1. StartAction(arrived + 1, pending_transactions, root, Making)
        BY <3>1, <3>2, Zenon DEF queueAction
      <4> QED
        BY <4>1, Zenon DEF StartAction
    <3>3. CASE ~Free
      BY <3>1, <3>3, Zenon DEF queueAction
    <3> QED
      BY <3>2, <3>3
  <2> QED
    BY <2>1, <2>2
<1>3. CASE runTransaction
  BY <1>3, Zenon DEF runTransaction
<1>4. CASE failBlock
  <2>1. CASE overlapped' = (overlapped \/ job.late)
    BY <2>1, Zenon
  <2>2. CASE EndAction(job.member, "failed")
    BY <2>2, EndOverlaps
  <2> QED
    BY <1>4, <2>1, <2>2 DEF failBlock
<1>5. CASE putBlock
  BY <1>5 DEF putBlock, NextTurn
<1>6. ASSUME NEW i \in DOMAIN batch, finishAction(i)
      PROVE  overlapped'
  <2>1. CASE batch[i].kind = "send" /\ instant
    BY <1>6, <2>1, Zenon DEF finishAction
  <2>2. CASE ~(batch[i].kind = "send" /\ instant)
    <3>1. EndAction(i, "answered")
      BY <1>6, <2>2, Zenon DEF finishAction
    <3> QED
      BY <3>1, EndOverlaps
  <2> QED
    BY <2>1, <2>2
<1>7. ASSUME NEW i \in DOMAIN batch, processBlocks(i)
      PROVE  overlapped'
  <2>1. CASE pending_transactions # <<>>
    BY <1>7, <2>1, Zenon DEF processBlocks
  <2>2. CASE pending_transactions = <<>>
    <3>1. EndAction(i, "answered")
      BY <1>7, <2>2, Zenon DEF processBlocks
    <3> QED
      BY <3>1, EndOverlaps
  <2> QED
    BY <2>1, <2>2
<1>8. CASE answerBatch
  BY <1>8 DEF answerBatch, vars
<1> QED
  BY <1>1, <1>2, <1>3, <1>4, <1>5, <1>6, <1>7, <1>8 DEF Next, Progress

(* What waits, waits in the order of the batch, *)
LEMMA QueueInOrder ==
  ASSUME IInv
  PROVE  /\ action_queue \in Seq(Places)
         /\ \A k, l \in DOMAIN action_queue : k < l => action_queue[k] < action_queue[l]
<1>1. action_queue \in Seq(Places) /\ order \in Seq(Places)
      /\ Len(order) \in Nat /\ Len(action_queue) \in Nat
      /\ DOMAIN action_queue = 1..Len(action_queue)
  BY LenProperties DEF IInv, Types
<1>2. /\ Begun \in Seq(Places) /\ Len(Begun) = Len(order) + Len(action_queue)
      /\ \A k \in 1..(Len(order) + Len(action_queue)) :
           Begun[k] = IF k <= Len(order) THEN order[k] ELSE action_queue[k - Len(order)]
  BY <1>1, ConcatProperties DEF Begun
<1>3. DOMAIN Begun = 1..(Len(order) + Len(action_queue))
  BY <1>2, LenProperties
<1>4. \A k, l \in DOMAIN Begun : k < l => Begun[k] < Begun[l]
  BY Facts DEF Ordered
<1>5. ASSUME NEW k \in 1..Len(action_queue)
      PROVE  Len(order) + k \in DOMAIN Begun /\ Begun[Len(order) + k] = action_queue[k]
  <2>1. /\ Len(order) + k \in 1..(Len(order) + Len(action_queue)) /\ ~(Len(order) + k <= Len(order))
        /\ (Len(order) + k) - Len(order) = k
    BY <1>1
  <2>2. Begun[Len(order) + k] = action_queue[(Len(order) + k) - Len(order)]
    BY <1>2, <2>1, Zenon
  <2> QED
    BY <1>3, <2>1, <2>2
<1>6. ASSUME NEW k \in 1..Len(action_queue), NEW l \in 1..Len(action_queue), k < l
      PROVE  action_queue[k] < action_queue[l]
  <2>1. Len(order) + k < Len(order) + l
    BY <1>1, <1>6
  <2>2. Begun[Len(order) + k] < Begun[Len(order) + l]
    BY <1>4, <1>5, <2>1
  <2> QED
    BY <1>5, <2>2
<1> QED
  BY <1>1, <1>6

(* and an action in progress is later than those that have had their effect. *)
LEMMA LaterThanEffected ==
  ASSUME IInv, StagesKnown, NEW i \in InAction, NEW j \in Effected \ Mines(batch), j # i
  PROVE  j < i
<1>1. action_queue \in Seq(Places) /\ order \in Seq(Places)
      /\ Len(order) \in Nat /\ Len(action_queue) \in Nat
      /\ DOMAIN action_queue = 1..Len(action_queue)
  BY LenProperties DEF IInv, Types
<1>2. /\ Begun \in Seq(Places) /\ Len(Begun) = Len(order) + Len(action_queue)
      /\ \A k \in 1..(Len(order) + Len(action_queue)) :
           Begun[k] = IF k <= Len(order) THEN order[k] ELSE action_queue[k - Len(order)]
  BY <1>1, ConcatProperties DEF Begun
<1>3. DOMAIN Begun = 1..(Len(order) + Len(action_queue))
  BY <1>2, LenProperties
<1>4. j \in Places /\ stage[j] \in {"block", "answered", "failed", "processBlocks"}
  BY DEF Effected
<1>5. j \in (1..arrived) \ Mines(batch)
  <2>1. stage[j] # "unsent"
    BY <1>4
  <2>2. ~(j > arrived)
    BY <1>4, <2>1 DEF IInv, StagesFit
  <2>3. j \in 1..Size /\ Size \in Nat /\ arrived \in 0..Size
    BY <1>4, Facts DEF Places, IInv, Types
  <2> QED
    BY <2>2, <2>3
<1>6. PICK k \in 1..(Len(order) + Len(action_queue)) : Begun[k] = j
  BY <1>3, <1>5, Facts DEF Ordered, Range
<1>7. k <= Len(order)
  <2>1. SUFFICES ASSUME ~(k <= Len(order))
                 PROVE  FALSE
    OBVIOUS
  <2>2. k - Len(order) \in DOMAIN action_queue /\ j = action_queue[k - Len(order)]
    BY <1>1, <1>2, <1>6, <2>1
  <2>3. stage[j] = "queued"
    BY <2>2 DEF StagesKnown
  <2> QED
    BY <1>4, <2>3
<1>8. i = order[Len(order)] /\ Len(order) > 0
  BY DEF IInv, ActionsInTurn, SomeStarted
<1>9. Len(order) \in DOMAIN Begun /\ Begun[Len(order)] = i
  BY <1>1, <1>2, <1>3, <1>8
<1>10. k < Len(order)
  BY <1>1, <1>6, <1>7, <1>9
<1> QED
  BY <1>3, <1>6, <1>9, <1>10, Facts DEF Ordered
-----------------------------------------------------------------------------
(* A sender's action that makes its blocks is alone: no block is in the making beside it. *)
LEMMA AloneInBlocks ==
  ASSUME IInv, NEW i \in InAction
  PROVE  /\ \A j \in Places \ Mines(batch) :
              stage[j] \in {"started", "processBlocks", "block"} => j = i
         /\ instant /\ stage[i] # "block" => ~Making
<1>1. ASSUME NEW j \in Places \ Mines(batch), stage[j] \in {"started", "processBlocks", "block"}
      PROVE  j = i
  <2>1. j \in InAction
    BY <1>1, Facts DEF InAction
  <2> QED
    BY <2>1, Facts
<1>2. ASSUME instant, stage[i] # "block", Making
      PROVE  FALSE
  <2>1. Mines(batch) = {} /\ job.member \in Places /\ stage[job.member] = "block"
    BY <1>2 DEF IInv, StagesFit, JobHeld
  <2>2. job.member = i
    BY <1>1, <2>1
  <2> QED
    BY <1>2, <2>1, <2>2
<1> QED
  BY <1>1, <1>2

(* Nobody is sending unless that action is. *)
LEMMA WhoSends ==
  ASSUME IInv, StagesKnown, NEW j \in Places, stage[j] = "processBlocks"
  PROVE  j \in InAction /\ batch[j].kind = "send" /\ instant /\ ~Making
<1>1. j \notin Mines(batch)
  BY DEF IInv, StagesFit
<1>2. j \in InAction
  BY <1>1, Facts DEF InAction
<1>3. batch[j].kind = "send"
  BY DEF StagesKnown
<1>4. instant
  BY <1>1 DEF IInv, StagesFit
<1> QED
  BY <1>2, <1>3, <1>4, AloneInBlocks

(* Whether a block can run, and the next nonces, rest on the pool and the root alone. *)
LEMMA NextUnchanged ==
  ASSUME NEW s, NEW t, s.pool = t.pool, s.root = t.root
  PROVE  /\ CanRun(s) <=> CanRun(t)
         /\ \A a : NextNonce(s, a) = NextNonce(t, a)
<1>1. CanRun(s) <=> CanRun(t)
  BY Zenon DEF CanRun
<1>2. ASSUME NEW a
      PROVE  NextNonce(s, a) = NextNonce(t, a)
  <2>1. NoncesOf(t.pool, a) = NoncesOf(s.pool, a)
    BY Zenon
  <2> QED
    BY <2>1 DEF NextNonce
<1> QED
  BY <1>1, <1>2, Zenon

(* The fields of WithPool. *)
LEMMA WithPoolIs ==
  ASSUME NEW c, NEW p, NEW r, NEW f, NEW q
  PROVE  WithPool([chain |-> c, pool |-> p, root |-> r, failed |-> f], q)
           = [chain |-> c, pool |-> q, root |-> r, failed |-> f]
  BY DEF WithPool

(* What a block leaves, with what has joined the pool since it was begun, *)
LEMMA RunsWith ==
  ASSUME NEW c, NEW p, NEW r, NEW f, NEW i, NEW q,
         NEW s, s = [chain |-> c, pool |-> p, root |-> r, failed |-> f], CanRun(s)
  PROVE  WithPool(Mined(s, i), q) =
           [chain |-> Append(c, p), pool |-> q, root |-> RootAfter(r, p), failed |-> f]
<1> DEFINE longer == Append(c, p)
           more == RootAfter(r, p)
<1>1. Mined(s, i) = [chain |-> longer, pool |-> {}, root |-> more, failed |-> f]
  <2>1. LET rec == [chain |-> c, pool |-> p, root |-> r, failed |-> f] IN
        CanRun(rec) => Mined(rec, i) =
             [chain |-> Append(c, p), pool |-> {},
              root |-> [a \in Senders |-> r[a] + Cardinality(NoncesOf(p, a))], failed |-> f]
    BY DEF Mined
  <2> QED
    BY <2>1, Zenon DEF RootAfter
<1> HIDE DEF longer, more
<1>2. WithPool([chain |-> longer, pool |-> {}, root |-> more, failed |-> f], q) =
        [chain |-> longer, pool |-> q, root |-> more, failed |-> f]
  BY WithPoolIs
<1> QED
  BY <1>1, <1>2, Zenon DEF longer, more

(* and one that fails. *)
LEMMA FailsWith ==
  ASSUME NEW c, NEW p, NEW r, NEW f, NEW i, NEW q,
         NEW s, s = [chain |-> c, pool |-> p, root |-> r, failed |-> f], ~CanRun(s)
  PROVE  WithPool(Mined(s, i), q) =
           [chain |-> c, pool |-> q, root |-> r, failed |-> f \cup {i}]
<1> DEFINE both == f \cup {i}
<1>1. Mined(s, i) = [chain |-> c, pool |-> {}, root |-> r, failed |-> both]
  <2>1. LET rec == [chain |-> c, pool |-> p, root |-> r, failed |-> f] IN
        ~CanRun(rec) => Mined(rec, i) = [chain |-> c, pool |-> {}, root |-> r, failed |-> both]
    BY DEF Mined
  <2> QED
    BY <2>1, Zenon
<1> HIDE DEF both
<1>2. WithPool([chain |-> c, pool |-> {}, root |-> r, failed |-> both], q) =
        [chain |-> c, pool |-> q, root |-> r, failed |-> both]
  BY WithPoolIs
<1> QED
  BY <1>1, <1>2, Zenon DEF both

(* The fields of the states there are. *)
LEMMA PredictedIs ==
  ASSUME root \in [Senders -> Nat], Making => BlockRuns
  PROVE  /\ Predicted.pool = Range(pending_transactions)
         /\ Predicted.root \in [Senders -> Nat]
         /\ ~Making => Predicted = Now
         /\ Making /\ CanRun(Base) => Predicted =
              [chain |-> Append(Blocks, Range(job.txs)), pool |-> Range(pending_transactions),
               root |-> RootAfter(job.root, Range(job.txs)), failed |-> Failed]
         /\ Making /\ ~CanRun(Base) => Predicted =
              [chain |-> Blocks, pool |-> Range(pending_transactions), root |-> job.root,
               failed |-> Failed \cup {job.member}]
<1>1. CASE ~Making
  <2>1. Predicted = Now
    BY <1>1, Zenon DEF Predicted
  <2> QED
    BY <1>1, <2>1 DEF Now
<1> DEFINE c == Blocks
           p == Range(job.txs)
           r == job.root
           f == Failed
           q == Range(pending_transactions)
<1>2. Base = [chain |-> c, pool |-> p, root |-> r, failed |-> f]
  BY Zenon DEF Base
<1>3. Making => Predicted = WithPool(Mined(Base, job.member), q)
  BY Zenon DEF Predicted
<1>4. Making => r \in [Senders -> Nat] /\ RootAfter(r, p) \in [Senders -> Nat]
  <2>1. ASSUME NEW a \in Senders, Making
        PROVE  r[a] + Cardinality(NoncesOf(p, a)) \in Nat
    BY <2>1, RowsAreCounted DEF BlockRuns
  <2> QED
    BY <2>1 DEF RootAfter, BlockRuns
<1> HIDE DEF c, p, r, f, q
<1>5. CASE Making /\ CanRun(Base)
  <2>1. Predicted = [chain |-> Append(c, p), pool |-> q, root |-> RootAfter(r, p), failed |-> f]
    BY <1>2, <1>3, <1>5, RunsWith
  <2>2. Predicted.pool = q /\ Predicted.root \in [Senders -> Nat]
    <3> DEFINE longer == Append(c, p)
    <3> HIDE DEF longer
    <3>1. Predicted = [chain |-> longer, pool |-> q, root |-> RootAfter(r, p), failed |-> f]
      BY <2>1 DEF longer
    <3> QED
      BY <1>4, <1>5, <3>1
  <2> QED
    BY <1>5, <2>1, <2>2, Zenon DEF c, p, r, f, q
<1>6. CASE Making /\ ~CanRun(Base)
  <2>1. Predicted = [chain |-> c, pool |-> q, root |-> r, failed |-> f \cup {job.member}]
    BY <1>2, <1>3, <1>6, FailsWith
  <2>2. Predicted.pool = q /\ Predicted.root \in [Senders -> Nat]
    BY <1>4, <1>6, <2>1
  <2> QED
    BY <1>6, <2>1, <2>2, Zenon DEF c, p, r, f, q
<1> QED
  BY <1>1, <1>5, <1>6, Zenon

(* A block joins the chain. *)
LEMMA BlocksGrow ==
  ASSUME chain \in Seq(Seq(Transactions)), NEW txs \in Seq(Transactions),
         chain' = Append(chain, txs)
  PROVE  chain' \in Seq(Seq(Transactions)) /\ Blocks' = Append(Blocks, Range(txs))
<1> DEFINE n == Len(chain)
<1>1. /\ n \in Nat /\ DOMAIN chain = 1..n /\ DOMAIN chain' = 1..(n + 1)
      /\ \A k \in 1..n : chain'[k] = chain[k]
      /\ chain'[n + 1] = txs /\ chain' \in Seq(Seq(Transactions))
  BY LenProperties, AppendProperties
<1> HIDE DEF n
<1>2. /\ Blocks = [k \in 1..n |-> Range(chain[k])]
      /\ Blocks' = [k \in 1..(n + 1) |-> Range(chain'[k])]
  BY <1>1, Zenon DEF Blocks
<1> DEFINE S == SUBSET Transactions
<1>3. \A k \in 1..n : Range(chain[k]) \in S
  <2>1. \A k \in 1..n : chain[k] \in Seq(Transactions)
    BY <1>1, ElementOfSeq DEF n
  <2>2. ASSUME NEW s \in Seq(Transactions) PROVE Range(s) \in S
    BY ElementOfSeq, LenProperties DEF Range
  <2> QED
    BY <2>1, <2>2
<1>4. Range(txs) \in S
  BY ElementOfSeq, LenProperties DEF Range
<1> HIDE DEF S
<1>5. Blocks \in Seq(S)
  <2>1. Blocks \in [1..n -> S]
    BY <1>2, <1>3
  <2> QED
    BY <1>1, <2>1, SeqDef
<1>6. Len(Blocks) = n
  BY <1>1, <1>2, <1>5, LenProperties
<1>7. /\ Append(Blocks, Range(txs)) \in Seq(S) /\ Len(Append(Blocks, Range(txs))) = n + 1
      /\ \A k \in 1..n : Append(Blocks, Range(txs))[k] = Blocks[k]
      /\ Append(Blocks, Range(txs))[n + 1] = Range(txs)
  BY <1>4, <1>5, <1>6, AppendProperties
<1>8. Blocks' \in Seq(S)
  <2>1. \A k \in 1..(n + 1) : Range(chain'[k]) \in S
    BY <1>1, <1>3, <1>4
  <2>2. Blocks' \in [1..(n + 1) -> S]
    BY <1>2, <2>1
  <2> QED
    BY <1>1, <2>2, SeqDef
<1>9. Len(Blocks') = n + 1
  BY <1>1, <1>2, <1>8, LenProperties
<1>10. ASSUME NEW k \in 1..(n + 1) PROVE Blocks'[k] = Append(Blocks, Range(txs))[k]
  <2>1. CASE k = n + 1
    BY <1>1, <1>2, <1>7, <2>1
  <2>2. CASE k # n + 1
    <3>1. k \in 1..n
      BY <1>1, <2>2
    <3> QED
      BY <1>1, <1>2, <1>7, <3>1
  <2> QED
    BY <2>1, <2>2
<1>11. Blocks' = Append(Blocks, Range(txs))
  BY <1>7, <1>8, <1>9, <1>10, SeqEqual
<1> QED
  BY <1>1, <1>11

-------------------------------------------------------------------------------
(* The fields of what is predicted. *)
PredictedFields ==
  /\ Predicted.pool = Range(pending_transactions)
  /\ Predicted.root \in [Senders -> Nat]
  /\ ~Making => Predicted = Now
  /\ Making /\ CanRun(Base) => Predicted =
       [chain |-> Append(Blocks, Range(job.txs)), pool |-> Range(pending_transactions),
        root |-> RootAfter(job.root, Range(job.txs)), failed |-> Failed]
  /\ Making /\ ~CanRun(Base) => Predicted =
       [chain |-> Blocks, pool |-> Range(pending_transactions), root |-> job.root,
        failed |-> Failed \cup {job.member}]

(* It is so now, and after a step. *)
LEMMA PredictedAt == BlockTyped => PredictedFields
  BY PredictedIs, Zenon DEF PredictedFields, BlockTyped

LEMMA PredictedThen == (BlockTyped => PredictedFields)'
  BY PredictedAt, PTL

(* A stage changes. *)
LEMMA OneMoves ==
  ASSUME IInv, NEW i \in Places, NEW at, stage' = [stage EXCEPT ![i] = at]
  PROVE  stage'[i] = at /\ \A j \in Places \ {i} : stage'[j] = stage[j]
  BY DEF IInv, Types

(* The stages of the others stay known. *)
LEMMA StageMoves ==
  ASSUME IInv, StagesKnown, NEW i \in Places, NEW at, stage' = [stage EXCEPT ![i] = at],
         stage[i] # "queued", at = "processBlocks" => batch[i].kind = "send",
         batch' = batch, action_queue' = action_queue
  PROVE  StagesKnown'
<1>1. stage'[i] = at /\ \A j \in Places \ {i} : stage'[j] = stage[j]
  BY OneMoves
<1>2. \A k \in DOMAIN action_queue : action_queue[k] \in Places
  BY ElementOfSeq, LenProperties DEF IInv, Types
<1>3. Places' = Places
  BY DEF Places, Size
<1>4. \A k \in DOMAIN action_queue : stage'[action_queue[k]] = "queued"
  BY <1>1, <1>2 DEF StagesKnown
<1>5. \A j \in Places : stage'[j] = "processBlocks" => batch[j].kind = "send"
  BY <1>1 DEF StagesKnown
<1> QED
  BY <1>3, <1>4, <1>5 DEF StagesKnown

(* An action ends: it has had its effect, and only the next one starts. *)
LEMMA EndStages ==
  ASSUME IInv, StagesKnown, NEW i \in InAction, NEW outcome \in {"answered", "failed"},
         EndAction(i, outcome), batch' = batch
  PROVE  /\ StagesKnown'
         /\ Effected' = Effected \cup {i}
         /\ Failed' = IF outcome = "failed" THEN Failed \cup {i} ELSE Failed
         /\ \A j \in Places : stage'[j] # "processBlocks"
<1>1. i \in Places /\ stage[i] \in {"started", "processBlocks", "block"} /\ i \notin Mines(batch)
  BY Facts DEF InAction
<1>2. Places' = Places
  BY DEF Places, Size
<1>3. /\ action_queue \in Seq(Places) /\ Len(action_queue) \in Nat
      /\ DOMAIN action_queue = 1..Len(action_queue)
      /\ \A k \in DOMAIN action_queue : action_queue[k] \in Places
      /\ \A k, l \in DOMAIN action_queue : k < l => action_queue[k] < action_queue[l]
  BY QueueInOrder, LenProperties, ElementOfSeq
<1>4. \A j \in Places : j # i => stage[j] # "processBlocks"
  <2>1. ASSUME NEW j \in Places, stage[j] = "processBlocks" PROVE j = i
    BY <2>1, WhoSends, Facts
  <2> QED
    BY <2>1
<1>5. ASSUME NEW q, \A k \in DOMAIN q : stage'[q[k]] = "queued", action_queue' = q,
             stage'[i] = outcome,
             \A j \in Places \ {i} :
               stage'[j] = stage[j] \/ (stage[j] = "queued" /\ stage'[j] = "started")
      PROVE  /\ StagesKnown'
             /\ Effected' = Effected \cup {i}
             /\ Failed' = IF outcome = "failed" THEN Failed \cup {i} ELSE Failed
             /\ \A j \in Places : stage'[j] # "processBlocks"
  <2>1. \A j \in Places : stage'[j] # "processBlocks"
    BY <1>4, <1>5
  <2>2. StagesKnown'
    BY <1>2, <1>5, <2>1 DEF StagesKnown
  <2>3. ASSUME NEW j \in Places
        PROVE  j \in Effected' <=> j \in Effected \cup {i}
    <3>1. CASE j = i
      BY <1>2, <1>5, <3>1 DEF Effected
    <3>2. CASE j # i
      <4>1. stage[j] # "processBlocks" /\ stage'[j] # "processBlocks"
        BY <1>4, <2>1, <3>2
      <4>2. (stage'[j] = stage[j]) \/ (stage[j] = "queued" /\ stage'[j] = "started")
        BY <1>5, <3>2
      <4> QED
        BY <1>2, <3>2, <4>1, <4>2 DEF Effected
    <3> QED
      BY <3>1, <3>2
  <2>4. Effected' \subseteq Places /\ Effected \subseteq Places
    BY <1>2 DEF Effected
  <2>5. Effected' = Effected \cup {i}
    BY <1>1, <2>3, <2>4
  <2>6. ASSUME NEW j \in Places
        PROVE  stage'[j] = "failed" <=> stage[j] = "failed" \/ (j = i /\ outcome = "failed")
    BY <1>1, <1>5
  <2>7. /\ Failed' = {j \in Places : stage'[j] = "failed"}
        /\ Failed = {j \in Places : stage[j] = "failed"}
    BY <1>2 DEF Failed
  <2>8. Failed' = IF outcome = "failed" THEN Failed \cup {i} ELSE Failed
    BY <1>1, <2>6, <2>7
  <2> QED
    BY <2>1, <2>2, <2>5, <2>8
<1>6. CASE action_queue = <<>>
  <2>1. stage' = [stage EXCEPT ![i] = outcome] /\ action_queue' = action_queue
    BY <1>6 DEF EndAction, NextAction
  <2>2. stage'[i] = outcome /\ \A j \in Places \ {i} : stage'[j] = stage[j]
    BY <1>1, <2>1, OneMoves
  <2>3. \A k \in DOMAIN action_queue : stage'[action_queue[k]] = "queued"
    BY <1>6, <2>1
  <2> QED
    BY <1>5, <2>1, <2>2, <2>3
<1>7. CASE action_queue # <<>>
  <2> DEFINE next == Head(action_queue)
             rest == Tail(action_queue)
  <2>1. /\ stage' = [stage EXCEPT ![i] = outcome, ![next] = "started"]
        /\ action_queue' = rest
    BY <1>7 DEF EndAction, NextAction, StartAction
  <2>2. /\ next = action_queue[1] /\ 1 \in DOMAIN action_queue
        /\ rest \in Seq(Places) /\ DOMAIN rest = 1..(Len(action_queue) - 1)
        /\ \A k \in DOMAIN rest : rest[k] = action_queue[k + 1] /\ k + 1 \in DOMAIN action_queue
    <3>1. /\ next = action_queue[1] /\ Len(action_queue) \in Nat \ {0}
          /\ rest \in Seq(Places) /\ Len(rest) = Len(action_queue) - 1
          /\ \A k \in 1..Len(rest) : rest[k] = action_queue[k + 1]
      BY <1>3, <1>7, HeadTailProperties, EmptySeq
    <3>2. DOMAIN rest = 1..Len(rest)
      BY <3>1, LenProperties
    <3> HIDE DEF next, rest
    <3> QED
      BY <1>3, <3>1, <3>2
  <2> HIDE DEF next, rest
  <2>3. next \in Places /\ stage[next] = "queued" /\ next # i
    BY <1>1, <1>3, <2>2 DEF StagesKnown
  <2>4. /\ stage'[i] = outcome /\ stage'[next] = "started"
        /\ \A j \in Places \ {i, next} : stage'[j] = stage[j]
    BY <1>1, <2>1, <2>3 DEF IInv, Types
  <2>5. ASSUME NEW k \in DOMAIN rest
        PROVE  stage'[rest[k]] = "queued"
    <3>1. rest[k] = action_queue[k + 1] /\ k + 1 \in DOMAIN action_queue /\ 1 < k + 1
      BY <2>2, <1>3
    <3>2. stage[rest[k]] = "queued" /\ rest[k] \in Places
      BY <1>3, <3>1 DEF StagesKnown
    <3>3. rest[k] # next
      <4>1. action_queue[1] < action_queue[k + 1]
        BY <1>3, <2>2, <3>1
      <4>2. action_queue[1] \in Nat
        BY <2>2, <2>3, Facts DEF Places
      <4> QED
        BY <2>2, <3>1, <4>1, <4>2
    <3> QED
      BY <1>1, <2>4, <3>2, <3>3
  <2>6. \A j \in Places \ {i} :
          stage'[j] = stage[j] \/ (stage[j] = "queued" /\ stage'[j] = "started")
    BY <2>3, <2>4
  <2> QED
    BY <1>5, <2>1, <2>4, <2>5, <2>6
<1> QED
  BY <1>6, <1>7

(* The next action reads the nonce that the state it finds makes the next. *)
LEMMA EndMatches ==
  ASSUME IInv, StagesKnown, NEW i \in InAction, NEW outcome \in {"answered", "failed"},
         EndAction(i, outcome), batch' = batch, DOMAIN nonce = Places,
         ~overlapped', BlockTyped', pending_transactions' \in Seq(Transactions),
         NEW s, Predicted' = s
  PROVE  Matches(s)' /\ DOMAIN nonce' = Places
<1>1. Places' = Places /\ i \in Places
  BY Facts DEF Places, Size
<1>2. \A j \in Places : stage'[j] # "processBlocks"
  BY EndStages
<1>3. \A j \in Places : ~Sending(j)'
  BY <1>2 DEF Sending
<1>4. ASSUME NEW j \in Places, j # i, batch[j].kind = "send"
      PROVE  stage[j] # "started"
  <2>1. j \notin Mines(batch)
    BY <1>4 DEF Mines
  <2> QED
    BY <1>4, <2>1, AloneInBlocks
<1>5. CASE action_queue = <<>>
  <2>1. stage' = [stage EXCEPT ![i] = outcome] /\ nonce' = nonce
    BY <1>5 DEF EndAction, NextAction
  <2>2. stage'[i] = outcome /\ \A j \in Places \ {i} : stage'[j] = stage[j]
    BY <1>1, <2>1, OneMoves
  <2>3. \A j \in Places : ~(stage'[j] = "started" /\ batch[j].kind = "send")
    BY <1>4, <2>2
  <2> QED
    BY <1>1, <1>3, <2>1, <2>3 DEF Matches
<1>6. CASE action_queue # <<>>
  <2> DEFINE next == Head(action_queue)
  <2>1. /\ stage' = [stage EXCEPT ![i] = outcome, ![next] = "started"]
        /\ StartAction(next, pending_transactions', root', Making')
    BY <1>6 DEF EndAction, NextAction
  <2>2. next \in Places
    BY <1>6, HeadTailProperties DEF IInv, Types
  <2> HIDE DEF next
  <2>3. \A j \in Places \ {i, next} : stage'[j] = stage[j]
    BY <1>1, <2>1, <2>2 DEF IInv, Types
  <2>4. CASE batch[next].kind = "send"
    <3>1. nonce' = [nonce EXCEPT ![next] =
                      getQueuedNonce(batch[next].from, pending_transactions', root')]
          /\ ~Making'
      BY <2>1, <2>4 DEF StartAction
    <3>2. s = Now'
      BY <3>1, PredictedThen DEF PredictedFields
    <3>3. s.pool = Range(pending_transactions') /\ s.root = root'
      BY <3>2 DEF Now
    <3>4. nonce'[next] = NextNonce(s, batch[next].from)
      BY <2>2, <3>1, <3>3, SameNonce
    <3>5. \A j \in Places : stage'[j] = "started" /\ batch[j].kind = "send" => j = next \/ j = i
      BY <1>4, <2>3
    <3>6. next # i => stage'[i] = outcome
      BY <1>1, <2>1, <2>2 DEF IInv, Types
    <3>7. \A j \in Places : stage'[j] = "started" /\ batch[j].kind = "send" =>
                              nonce'[j] = NextNonce(s, batch[j].from)
      BY <3>4, <3>5, <3>6
    <3> QED
      BY <1>1, <1>3, <3>1, <3>7 DEF Matches
  <2>5. CASE batch[next].kind # "send"
    <3>1. nonce' = nonce
      BY <2>1, <2>5 DEF StartAction
    <3>2. next # i => stage'[i] = outcome
      BY <1>1, <2>1, <2>2 DEF IInv, Types
    <3>3. \A j \in Places : ~(stage'[j] = "started" /\ batch[j].kind = "send")
      BY <1>4, <2>3, <2>5, <3>2
    <3> QED
      BY <1>1, <1>3, <3>1, <3>3 DEF Matches
  <2> QED
    BY <2>4, <2>5
<1> QED
  BY <1>5, <1>6

-------------------------------------------------------------------------------
(* Where nothing that tells has changed, the state still matches. *)
LEMMA MatchesStill ==
  ASSUME NEW s, Matches(s), Predicted' = Predicted, batch' = batch,
         \A i \in Places : Sending(i)' <=> Sending(i),
         \A i \in Places : stage'[i] = "started" /\ batch[i].kind = "send" =>
                             stage[i] = "started" /\ nonce'[i] = nonce[i]
  PROVE  Matches(s)'
<1>1. Places' = Places
  BY DEF Places, Size
<1> QED
  BY <1>1, Zenon DEF Matches

(* What a block in the making leads to rests on these alone. *)
LEMMA PredictedStill ==
  ASSUME Making' <=> Making, chain' = chain, Failed' = Failed,
         pending_transactions' = pending_transactions,
         ~Making => root' = root,
         Making => job'.member = job.member /\ job'.txs = job.txs /\ job'.root = job.root
  PROVE  Predicted' = Predicted
<1>1. Blocks' = Blocks
  BY DEF Blocks
<1>2. CASE Making
  <2>1. Base' = Base
    BY <1>1, <1>2, Zenon DEF Base
  <2> QED
    BY <1>2, <2>1, Zenon DEF Predicted
<1>3. CASE ~Making
  <2>1. Now' = Now
    BY <1>1, <1>3, Zenon DEF Now
  <2> QED
    BY <1>3, <2>1, Zenon DEF Predicted
<1> QED
  BY <1>2, <1>3

(* A block that will fail will still fail while its transactions are the same. *)
LEMMA DoomedStill ==
  ASSUME Doomed, Making', job'.txs = job.txs, job'.root = job.root, job'.late = job.late
  PROVE  Doomed'
<1>1. Base'.pool = Base.pool /\ Base'.root = Base.root
  BY DEF Base
<1>2. CanRun(Base') <=> CanRun(Base)
  BY <1>1, NextUnchanged
<1> QED
  BY <1>2, Zenon DEF Doomed

(* Where the root and the block do not change, its types do not. *)
LEMMA BlockTypedStill ==
  ASSUME BlockTyped, root' = root, job' = job, batch' = batch
  PROVE  BlockTyped' /\ (Making' <=> Making)
<1>1. Making' <=> Making
  BY Zenon DEF Making, NoJob
<1>2. Mines(batch)' = Mines(batch) /\ Ran' = Ran
  BY DEF Mines, Ran
<1>3. BlockRuns => BlockRuns'
  BY <1>2, Zenon DEF BlockRuns, Single
<1> QED
  BY <1>1, <1>3, Zenon DEF BlockTyped

(* A transaction joins the pool while a block may be in the making. *)
LEMMA PredictedJoins ==
  ASSUME BlockTyped, root' = root, job' = job, batch' = batch, chain' = chain, Failed' = Failed
  PROVE  Predicted' = WithPool(Predicted, Range(pending_transactions'))
<1>1. BlockTyped' /\ (Making' <=> Making)
  BY BlockTypedStill
<1>2. PredictedFields /\ PredictedFields'
  BY <1>1, PredictedAt, PredictedThen
<1>3. Blocks' = Blocks
  BY DEF Blocks
<1>4. Base' = Base
  BY <1>3, Zenon DEF Base
<1> DEFINE q == Range(pending_transactions)
           more == Range(pending_transactions')
<1>5. CASE ~Making
  <2>1. /\ Predicted = [chain |-> Blocks, pool |-> q, root |-> root, failed |-> Failed]
        /\ Predicted' = [chain |-> Blocks, pool |-> more, root |-> root, failed |-> Failed]
    BY <1>1, <1>2, <1>3, <1>5, Zenon DEF PredictedFields, Now
  <2> HIDE DEF q, more
  <2>2. WithPool([chain |-> Blocks, pool |-> q, root |-> root, failed |-> Failed], more) =
          [chain |-> Blocks, pool |-> more, root |-> root, failed |-> Failed]
    BY WithPoolIs
  <2> QED
    BY <2>1, <2>2, Zenon DEF q, more
<1>6. CASE Making /\ CanRun(Base)
  <2> DEFINE c == Append(Blocks, Range(job.txs))
             r == RootAfter(job.root, Range(job.txs))
  <2>1. Making' /\ CanRun(Base')
    BY <1>1, <1>4, <1>6, Zenon
  <2>2. /\ Predicted = [chain |-> c, pool |-> q, root |-> r, failed |-> Failed]
        /\ Predicted' = [chain |-> c, pool |-> more, root |-> r, failed |-> Failed]
    <3>1. r' = r
      BY Zenon DEF RootAfter
    <3> QED
      BY <1>2, <1>3, <1>6, <2>1, <3>1, Zenon DEF PredictedFields
  <2> HIDE DEF c, r, q, more
  <2>3. WithPool([chain |-> c, pool |-> q, root |-> r, failed |-> Failed], more) =
          [chain |-> c, pool |-> more, root |-> r, failed |-> Failed]
    BY WithPoolIs
  <2> QED
    BY <2>2, <2>3, Zenon DEF q, more
<1>7. CASE Making /\ ~CanRun(Base)
  <2> DEFINE f == Failed \cup {job.member}
  <2>1. Making' /\ ~CanRun(Base')
    BY <1>1, <1>4, <1>7, Zenon
  <2>2. /\ Predicted = [chain |-> Blocks, pool |-> q, root |-> job.root, failed |-> f]
        /\ Predicted' = [chain |-> Blocks, pool |-> more, root |-> job.root, failed |-> f]
    BY <1>2, <1>3, <1>7, <2>1, Zenon DEF PredictedFields
  <2> HIDE DEF f, q, more
  <2>3. WithPool([chain |-> Blocks, pool |-> q, root |-> job.root, failed |-> f], more) =
          [chain |-> Blocks, pool |-> more, root |-> job.root, failed |-> f]
    BY WithPoolIs
  <2> QED
    BY <2>2, <2>3, Zenon DEF q, more
<1> QED
  BY <1>5, <1>6, <1>7

(* A block leaves no pool. *)
LEMMA MinedEmpties ==
  ASSUME NEW c, NEW p, NEW r, NEW f, NEW i,
         NEW s, s = [chain |-> c, pool |-> p, root |-> r, failed |-> f]
  PROVE  WithPool(Mined(s, i), {}) = Mined(s, i)
<1>1. CASE CanRun(s)
  <2> DEFINE longer == Append(c, p)
             more == RootAfter(r, p)
  <2>1. Mined(s, i) = [chain |-> longer, pool |-> {}, root |-> more, failed |-> f]
    <3>1. LET rec == [chain |-> c, pool |-> p, root |-> r, failed |-> f] IN
          CanRun(rec) => Mined(rec, i) =
               [chain |-> Append(c, p), pool |-> {},
                root |-> [a \in Senders |-> r[a] + Cardinality(NoncesOf(p, a))], failed |-> f]
      BY DEF Mined
    <3> QED
      BY <1>1, <3>1, Zenon DEF RootAfter
  <2> HIDE DEF longer, more
  <2>2. WithPool([chain |-> longer, pool |-> {}, root |-> more, failed |-> f], {}) =
          [chain |-> longer, pool |-> {}, root |-> more, failed |-> f]
    BY WithPoolIs
  <2> QED
    BY <2>1, <2>2, Zenon
<1>2. CASE ~CanRun(s)
  <2> DEFINE both == f \cup {i}
  <2>1. Mined(s, i) = [chain |-> c, pool |-> {}, root |-> r, failed |-> both]
    <3>1. LET rec == [chain |-> c, pool |-> p, root |-> r, failed |-> f] IN
          ~CanRun(rec) => Mined(rec, i) = [chain |-> c, pool |-> {}, root |-> r, failed |-> both]
      BY DEF Mined
    <3> QED
      BY <1>2, <3>1, Zenon
  <2> HIDE DEF both
  <2>2. WithPool([chain |-> c, pool |-> {}, root |-> r, failed |-> both], {}) =
          [chain |-> c, pool |-> {}, root |-> r, failed |-> both]
    BY WithPoolIs
  <2> QED
    BY <2>1, <2>2, Zenon
<1> QED
  BY <1>1, <1>2

(* The pool is taken: the state there is will be mined. *)
LEMMA TakePoolPredicts ==
  ASSUME PoolKept, BlockTyped, ~Making, NEW i \in Places, TakePool(i), batch' = batch,
         Size \in Nat, Failed' = Failed, Late => i \in Mines(batch)
  PROVE  /\ BlockTyped' /\ Making' /\ PoolKept'
         /\ job'.member = i /\ job'.late = Late
         /\ Base' = Now
         /\ Predicted' = Mined(Now, i)
<1>1. PICK txs \in Sorted : job' = Job(i, txs, Late)
  BY DEF TakePool
<1>2. pending_transactions' = <<>> /\ chain' = chain /\ root' = root
  BY DEF TakePool
<1>3. /\ job'.member = i /\ job'.txs = txs /\ job'.run = 0 /\ job'.root = root
      /\ job'.late = Late
  BY <1>1 DEF Job
<1>4. /\ txs \in Seq(Transactions) /\ Single(txs)
      /\ Range(txs) = Range(pending_transactions)
      /\ \A k, l \in DOMAIN txs : k < l /\ txs[k].from = txs[l].from => txs[k].nonce <= txs[l].nonce
  BY SortedPool
<1>5. Making'
  <2>1. i # 0
    BY DEF Places
  <2> QED
    BY <1>3, <2>1 DEF Making, NoJob
<1>6. PoolKept'
  <2>1. <<>> \in Seq(Transactions) /\ Single(<<>>) /\ Range(<<>>) = {}
    BY EmptySeq DEF Single, Range
  <2>2. ASSUME NEW a \in Senders
        PROVE  \E m, n \in Nat : NoncesOf({}, a) = m..n
    <3>1. NoncesOf({}, a) = {} /\ 1..0 = {}
      BY DEF NoncesOf
    <3> QED
      BY <3>1
  <2>3. InARow({})
    BY <2>2, Zenon DEF InARow
  <2>4. pending_transactions' \in Seq(Transactions) /\ Single(pending_transactions')
        /\ InARow(Range(pending_transactions'))
    BY <1>2, <2>1, <2>3
  <2> QED
    BY <2>4, Zenon DEF PoolKept, InARow, Single
<1>7. Late \in BOOLEAN
  BY DEF Late
<1>8. BlockRuns'
  <2>1. root \in [Senders -> Nat]
    BY DEF BlockTyped
  <2>2. Ran' = {}
    BY <1>3 DEF Ran
  <2>3. ASSUME NEW a \in Senders
        PROVE  root[a] <= root[a] /\ NoncesOf({}, a) = root[a]..(root[a] - 1)
    <3>1. NoncesOf({}, a) = {}
      BY DEF NoncesOf
    <3> DEFINE r == root[a]
    <3>2. r \in Nat
      BY <2>1
    <3> HIDE DEF r
    <3>3. r <= r /\ r..(r - 1) = {}
      BY <3>2
    <3> QED
      BY <3>1, <3>3, Zenon DEF r
  <2>4. Mines(batch)' = Mines(batch)
    BY DEF Mines
  <2>5. 0 \in 0..Len(txs)
    BY <1>4, LenProperties
  <2>6. InARow(Range(txs))
    BY <1>4 DEF PoolKept
  <2>7. /\ job'.txs \in Seq(Transactions) /\ job'.run \in 0..Len(job'.txs)
        /\ job'.root \in [Senders -> Nat] /\ job'.late \in BOOLEAN
        /\ Single(job'.txs) /\ InARow(Range(job'.txs))
    BY <1>3, <1>4, <1>7, <2>1, <2>5, <2>6, Zenon
  <2>8. \A k, l \in DOMAIN job'.txs :
          k < l /\ job'.txs[k].from = job'.txs[l].from => job'.txs[k].nonce <= job'.txs[l].nonce
    BY <1>3, <1>4, Zenon
  <2>9. \A a \in Senders :
          job'.root[a] <= root'[a] /\ NoncesOf(Ran', a) = job'.root[a]..(root'[a] - 1)
    BY <1>2, <1>3, <2>2, <2>3
  <2>10. job'.late => job'.member \in Mines(batch)'
    BY <1>3, <2>4, Zenon
  <2> QED
    BY <2>7, <2>8, <2>9, <2>10, Zenon DEF BlockRuns, Single
<1>9. BlockTyped'
  BY <1>2, <1>8, Zenon DEF BlockTyped
<1>10. Blocks' = Blocks
  BY <1>2 DEF Blocks
<1>11. Base' = Now
  BY <1>3, <1>4, <1>10, Zenon DEF Base, Now
<1>12. Predicted' = Mined(Now, i)
  <2>1. Range(<<>>) = {}
    BY DEF Range
  <2>2. Predicted' = WithPool(Mined(Base', i), {})
    BY <1>2, <1>3, <1>5, <2>1, Zenon DEF Predicted
  <2>3. Now = [chain |-> Blocks, pool |-> Range(pending_transactions), root |-> root,
               failed |-> Failed]
    BY Zenon DEF Now
  <2>4. WithPool(Mined(Now, i), {}) = Mined(Now, i)
    BY <2>3, MinedEmpties
  <2> QED
    BY <1>11, <2>2, <2>4, Zenon
<1> QED
  BY <1>3, <1>5, <1>6, <1>9, <1>11, <1>12

-------------------------------------------------------------------------------
(* A transaction of the block runs. *)
LEMMA RunOrder ==
  ASSUME IInv, StagesKnown, OneAfterAnother, runTransaction
  PROVE  OneAfterAnother'
<1>1. /\ Making /\ job.run < Len(job.txs) /\ Runs
      /\ root' = [root EXCEPT ![NextTx.from] = @ + 1] /\ job' = [job EXCEPT !.run = @ + 1]
      /\ batch' = batch /\ before' = before /\ instant' = instant /\ stage' = stage
      /\ nonce' = nonce /\ pending_transactions' = pending_transactions /\ chain' = chain
  BY DEF runTransaction
<1>2. BlockRuns /\ root \in [Senders -> Nat]
  BY <1>1 DEF OneAfterAnother, BlockTyped
<1>3. /\ BlockRuns' /\ root' \in [Senders -> Nat]
      /\ job'.member = job.member /\ job'.txs = job.txs /\ job'.root = job.root
      /\ job'.late = job.late
  BY <1>1, <1>2, BlockGoesOn DEF IInv, Types
<1>4. Making'
  BY <1>1, <1>3, Facts DEF IInv, JobHeld, Making, NoJob, Places
<1>5. Places' = Places /\ Mines(batch)' = Mines(batch) /\ Failed' = Failed /\ Effected' = Effected
  BY <1>1 DEF Places, Size, Mines, Failed, Effected
<1>6. Predicted' = Predicted
  BY <1>1, <1>3, <1>4, <1>5, PredictedStill
<1>7. BlockTyped' /\ TakesAll' /\ chain' \in Seq(Seq(Transactions)) /\ DOMAIN nonce' = Places'
  BY <1>1, <1>3, <1>5 DEF OneAfterAnother, BlockTyped, TakesAll
<1>8. Doomed => Doomed'
  BY <1>3, <1>4, DoomedStill
<1>9. ASSUME PoolKept, NEW s, Served(s), Matches(s)
      PROVE  PoolKept' /\ Served(s)' /\ Matches(s)'
  <2>1. PoolKept'
    BY <1>1, <1>9 DEF PoolKept, Single, InARow
  <2>2. Served(s)'
    BY <1>1, <1>5, <1>9, ServedStill
  <2>3. Matches(s)'
    <3>1. \A i \in Places : Sending(i)' <=> Sending(i)
      BY <1>1 DEF Sending
    <3> QED
      BY <1>1, <1>6, <1>9, <3>1, MatchesStill
  <2> QED
    BY <2>1, <2>2, <2>3
<1> QED
  BY <1>7, <1>8, <1>9, Zenon DEF OneAfterAnother

(* The block in the making leads to the state that is left when it is put. *)
LEMMA PutPredicts ==
  ASSUME BlockTyped, chain \in Seq(Seq(Transactions)), putBlock, Failed' = Failed
  PROVE  ~Doomed /\ BlockTyped' /\ ~Making' /\ chain' \in Seq(Seq(Transactions))
         /\ Predicted' = Predicted
<1>1. /\ Making /\ job.run = Len(job.txs) /\ chain' = Append(chain, job.txs) /\ job' = NoJob
      /\ batch' = batch /\ pending_transactions' = pending_transactions /\ root' = root
  BY DEF putBlock
<1>2. BlockRuns /\ root \in [Senders -> Nat]
  BY <1>1 DEF BlockTyped
<1>3. /\ CanRun(Base)
      /\ root = [a \in Senders |-> job.root[a] + Cardinality(NoncesOf(Range(job.txs), a))]
  BY <1>1, <1>2, BlockSucceeds
<1>4. root = RootAfter(job.root, Range(job.txs))
  BY <1>3, Zenon DEF RootAfter
<1>5. ~Making'
  BY <1>1 DEF Making
<1>6. BlockTyped'
  BY <1>1, <1>2, <1>5, Zenon DEF BlockTyped
<1>7. chain' \in Seq(Seq(Transactions)) /\ Blocks' = Append(Blocks, Range(job.txs))
  BY <1>1, <1>2, BlocksGrow DEF BlockRuns
<1>8. Predicted = [chain |-> Append(Blocks, Range(job.txs)), pool |-> Range(pending_transactions),
                   root |-> root, failed |-> Failed]
  BY <1>1, <1>3, <1>4, PredictedAt, Zenon DEF PredictedFields
<1>9. Predicted' = Now'
  BY <1>5, Zenon DEF Predicted
<1>10. Now' = [chain |-> Append(Blocks, Range(job.txs)), pool |-> Range(pending_transactions),
               root |-> root, failed |-> Failed]
  BY <1>1, <1>7, Zenon DEF Now
<1> QED
  BY <1>3, <1>5, <1>6, <1>7, <1>8, <1>9, <1>10, Zenon DEF Doomed

(* A block is put. *)
LEMMA PutOrder ==
  ASSUME IInv, StagesKnown, OneAfterAnother, putBlock
  PROVE  OneAfterAnother'
<1> DEFINE m == job.member
<1>1. /\ Making /\ job' = NoJob
      /\ batch' = batch /\ before' = before /\ instant' = instant
      /\ pending_transactions' = pending_transactions
  BY DEF putBlock
<1>2. m \in Places /\ stage[m] = "block"
  BY <1>1 DEF IInv, JobHeld
<1>3. PICK at \in {"answered", "processBlocks"} :
        /\ stage' = [stage EXCEPT ![m] = at] /\ nonce' = nonce
        /\ at = "processBlocks" => pending_transactions = <<>>
  <2>1. CASE MineOver("answered")
    BY <2>1 DEF MineOver
  <2>2. CASE NextTurn
    <3>1. m \notin Mines(batch)
      BY <2>2 DEF NextTurn, Mines
    <3>2. pending_transactions = <<>>
      BY <1>1, <3>1 DEF OneAfterAnother, TakesAll
    <3> QED
      BY <2>2, <3>2 DEF NextTurn
  <2> QED
    BY <2>1, <2>2 DEF putBlock
<1> HIDE DEF m
<1>4. stage'[m] = at /\ \A j \in Places \ {m} : stage'[j] = stage[j]
  BY <1>2, <1>3, OneMoves
<1>5. Places' = Places
  BY <1>1 DEF Places, Size
<1>6. Failed' = Failed
  <2>1. \A j \in Places : stage'[j] = "failed" <=> stage[j] = "failed"
    BY <1>2, <1>4
  <2> QED
    BY <1>5, <2>1 DEF Failed
<1>7. Effected' = Effected
  <2>1. ASSUME NEW j \in Places
        PROVE  j \in Effected' <=> j \in Effected
    <3>1. CASE j = m
      BY <1>1, <1>2, <1>3, <1>4, <1>5, <3>1 DEF Effected
    <3>2. CASE j # m
      BY <1>1, <1>4, <1>5, <3>2 DEF Effected
    <3> QED
      BY <3>1, <3>2
  <2>2. Effected' \subseteq Places /\ Effected \subseteq Places
    BY <1>5 DEF Effected
  <2> QED
    BY <2>1, <2>2
<1>8. /\ ~Doomed /\ BlockTyped' /\ ~Making' /\ chain' \in Seq(Seq(Transactions))
      /\ Predicted' = Predicted
  BY <1>6, PutPredicts DEF OneAfterAnother
<1>9. PICK s : PoolKept /\ Served(s) /\ Matches(s)
  BY <1>8 DEF OneAfterAnother
<1>10. PoolKept'
  BY <1>1, <1>9 DEF PoolKept, Single, InARow
<1>11. Served(s)'
  BY <1>1, <1>7, <1>9, ServedStill
<1>12. Matches(s)'
  <2>1. \A j \in Places : Sending(j)' <=> Sending(j)
    BY <1>1, <1>2, <1>3, <1>4 DEF Sending
  <2>2. \A j \in Places : stage'[j] = "started" => stage[j] = "started"
    BY <1>4
  <2> QED
    BY <1>1, <1>3, <1>8, <1>9, <2>1, <2>2, MatchesStill
<1>13. TakesAll' /\ DOMAIN nonce' = Places'
  BY <1>3, <1>5, <1>8 DEF OneAfterAnother, TakesAll
<1> QED
  BY <1>8, <1>10, <1>11, <1>12, <1>13, Zenon DEF OneAfterAnother

(* It also leads to the one that is left when it fails. *)
LEMMA FailPredicts ==
  ASSUME BlockTyped, chain \in Seq(Seq(Transactions)), failBlock,
         Failed' = Failed \cup {job.member}
  PROVE  ~CanRun(Base) /\ BlockTyped' /\ ~Making' /\ chain' = chain /\ Predicted' = Predicted
<1>1. /\ Making /\ job.run < Len(job.txs) /\ ~Runs /\ chain' = chain /\ job' = NoJob
      /\ batch' = batch /\ pending_transactions' = pending_transactions /\ root' = job.root
  BY DEF failBlock
<1>2. BlockRuns /\ root \in [Senders -> Nat]
  BY <1>1 DEF BlockTyped
<1>3. ~CanRun(Base)
  BY <1>1, <1>2, BlockFails
<1>4. ~Making'
  BY <1>1 DEF Making
<1>5. BlockTyped'
  BY <1>1, <1>2, <1>4, Zenon DEF BlockTyped, BlockRuns
<1>6. Blocks' = Blocks
  BY <1>1 DEF Blocks
<1>7. Predicted = [chain |-> Blocks, pool |-> Range(pending_transactions),
                   root |-> job.root, failed |-> Failed \cup {job.member}]
  BY <1>1, <1>3, PredictedAt, Zenon DEF PredictedFields
<1>8. Predicted' = Now'
  BY <1>4, Zenon DEF Predicted
<1>9. Now' = [chain |-> Blocks, pool |-> Range(pending_transactions),
              root |-> job.root, failed |-> Failed \cup {job.member}]
  BY <1>1, <1>6, Zenon DEF Now
<1> QED
  BY <1>1, <1>3, <1>4, <1>5, <1>7, <1>8, <1>9, Zenon

(* A block fails, with no nonce read before it. *)
LEMMA FailOrder ==
  ASSUME IInv, StagesKnown, OneAfterAnother, failBlock, ~overlapped'
  PROVE  OneAfterAnother'
<1> DEFINE m == job.member
<1>1. /\ Making /\ job' = NoJob
      /\ batch' = batch /\ before' = before /\ instant' = instant
      /\ pending_transactions' = pending_transactions
  BY DEF failBlock
<1>2. m \in Places /\ stage[m] = "block"
  BY <1>1 DEF IInv, JobHeld
<1>3. Places' = Places
  BY <1>1 DEF Places, Size
<1>4. m \in Effected
  BY <1>2 DEF Effected
<1>5. CASE MineOver("failed") /\ overlapped' = (overlapped \/ job.late)
  <2>1. stage' = [stage EXCEPT ![m] = "failed"] /\ nonce' = nonce /\ ~job.late
    BY <1>5 DEF MineOver
  <2> HIDE DEF m
  <2>2. stage'[m] = "failed" /\ \A j \in Places \ {m} : stage'[j] = stage[j]
    BY <1>2, <2>1, OneMoves
  <2>3. Failed' = Failed \cup {m}
    <3>1. \A j \in Places : stage'[j] = "failed" <=> stage[j] = "failed" \/ j = m
      BY <1>2, <2>2
    <3> QED
      BY <1>2, <1>3, <3>1 DEF Failed
  <2>4. Effected' = Effected
    <3>1. ASSUME NEW j \in Places
          PROVE  j \in Effected' <=> j \in Effected
      <4>1. CASE j = m
        BY <1>2, <1>3, <2>2, <4>1 DEF Effected
      <4>2. CASE j # m
        BY <1>1, <1>3, <2>2, <4>2 DEF Effected
      <4> QED
        BY <4>1, <4>2
    <3>2. Effected' \subseteq Places /\ Effected \subseteq Places
      BY <1>3 DEF Effected
    <3> QED
      BY <3>1, <3>2
  <2>5. BlockTyped' /\ ~Making' /\ chain' = chain /\ Predicted' = Predicted
    BY <2>3, FailPredicts DEF OneAfterAnother, m
  <2>6. ~Doomed
    BY <2>1 DEF Doomed
  <2>7. PICK s : PoolKept /\ Served(s) /\ Matches(s)
    BY <2>6 DEF OneAfterAnother
  <2>8. PoolKept'
    BY <1>1, <2>7 DEF PoolKept, Single, InARow
  <2>9. Served(s)'
    BY <1>1, <2>4, <2>7, ServedStill
  <2>10. Matches(s)'
    <3>1. \A j \in Places : Sending(j)' <=> Sending(j)
      BY <1>1, <1>2, <2>2 DEF Sending
    <3>2. \A j \in Places : stage'[j] = "started" => stage[j] = "started"
      BY <2>2
    <3> QED
      BY <1>1, <2>1, <2>5, <2>7, <3>1, <3>2, MatchesStill
  <2>11. TakesAll' /\ DOMAIN nonce' = Places' /\ chain' \in Seq(Seq(Transactions))
    BY <1>3, <2>1, <2>5 DEF OneAfterAnother, TakesAll
  <2> QED
    BY <2>5, <2>8, <2>9, <2>10, <2>11, Zenon DEF OneAfterAnother
<1>6. CASE batch[m].kind = "send" /\ EndAction(m, "failed")
  <2>1. m \in InAction /\ m \notin Mines(batch)
    BY <1>1, <1>6, OwnBlock DEF Mines
  <2>2. pending_transactions = <<>> /\ ~job.late
    BY <1>1, <2>1 DEF OneAfterAnother, TakesAll, BlockTyped, BlockRuns
  <2>3. Effected' = Effected /\ Failed' = Failed \cup {m}
    BY <1>1, <1>4, <1>6, <2>1, EndStages
  <2>4. BlockTyped' /\ ~Making' /\ chain' = chain /\ Predicted' = Predicted
    BY <2>3, FailPredicts DEF OneAfterAnother
  <2>5. PICK s : PoolKept /\ Served(s) /\ Matches(s)
    BY <2>2 DEF OneAfterAnother, Doomed
  <2>6. Predicted' = s
    BY <2>2, <2>4, <2>5 DEF Matches, Sending
  <2>7. PoolKept'
    BY <1>1, <2>5 DEF PoolKept, Single, InARow
  <2>8. Served(s)'
    BY <1>1, <2>3, <2>5, ServedStill
  <2>9. Matches(s)' /\ DOMAIN nonce' = Places
    <3>1. pending_transactions' \in Seq(Transactions) /\ DOMAIN nonce = Places
      BY <1>1, <2>5 DEF PoolKept, OneAfterAnother
    <3> HIDE DEF m
    <3> QED
      BY <1>1, <1>6, <2>1, <2>4, <2>6, <3>1, EndMatches
  <2>10. TakesAll' /\ chain' \in Seq(Seq(Transactions))
    BY <2>4 DEF OneAfterAnother, TakesAll
  <2> QED
    BY <1>3, <2>4, <2>7, <2>8, <2>9, <2>10, Zenon DEF OneAfterAnother
<1> QED
  BY <1>5, <1>6 DEF failBlock

-------------------------------------------------------------------------------
(* The end of an action adds no nonces. *)
LEMMA EndDomain ==
  ASSUME NEW i, NEW outcome, EndAction(i, outcome)
  PROVE  DOMAIN nonce' = DOMAIN nonce
<1>1. CASE NextAction = {}
  BY <1>1 DEF EndAction
<1>2. CASE NextAction # {}
  <2>1. PICK next \in NextAction : StartAction(next, pending_transactions', root', Making')
    BY <1>2 DEF EndAction
  <2> QED
    BY <2>1 DEF StartAction
<1> QED
  BY <1>1, <1>2

(* An action that goes on with its nonce, or a call that is answered. *)
LEMMA FinishOrder ==
  ASSUME IInv, StagesKnown, OneAfterAnother, NEW i \in DOMAIN batch, finishAction(i), ~overlapped'
  PROVE  OneAfterAnother'
<1> DEFINE a == batch[i].from
<1>1. /\ stage[i] = "started"
      /\ batch' = batch /\ before' = before /\ instant' = instant
      /\ chain' = chain /\ root' = root /\ job' = job
  BY DEF finishAction, blockVars
<1>2. i \in InAction /\ i \in Places /\ i \notin Mines(batch)
  BY <1>1, Facts DEF InAction, IInv, StagesFit
<1>3. Places' = Places /\ Mines(batch)' = Mines(batch)
  BY <1>1 DEF Places, Size, Mines
<1>4. BlockTyped' /\ (Making' <=> Making)
  BY <1>1, BlockTypedStill DEF OneAfterAnother
<1>5. \A j \in Places : stage[j] # "processBlocks" /\ ~Sending(j)
  <2>1. ASSUME NEW j \in Places, stage[j] = "processBlocks" PROVE FALSE
    BY <1>1, <1>2, <2>1, WhoSends, Facts
  <2> QED
    BY <2>1 DEF Sending
<1>6. Making => job.member \in Mines(batch)
  <2>1. ASSUME Making, job.member \notin Mines(batch) PROVE FALSE
    <3>1. job.member \in Places /\ stage[job.member] = "block"
      BY <2>1 DEF IInv, JobHeld
    <3> QED
      BY <1>1, <1>2, <2>1, <3>1, AloneInBlocks
  <2> QED
    BY <2>1
<1>7. TakesAll'
  BY <1>1, <1>3, <1>4, <1>6 DEF TakesAll
<1>8. i \notin Effected /\ \A j \in Effected \ Mines(batch) : j < i
  <2>1. i \notin Effected
    BY <1>1 DEF Effected
  <2> QED
    BY <1>2, <2>1, LaterThanEffected
<1>9. Doomed => Doomed'
  <2>1. ASSUME Doomed PROVE Doomed'
    <3>1. Making'
      BY <1>4, <2>1 DEF Doomed
    <3> QED
      BY <1>1, <2>1, <3>1, DoomedStill
  <2> QED
    BY <2>1
<1>10. ASSUME NEW j \in Places, j # i, batch[j].kind = "send"
       PROVE  stage[j] # "started"
  <2>1. j \notin Mines(batch)
    BY <1>10 DEF Mines
  <2> QED
    BY <1>2, <1>10, <2>1, AloneInBlocks
<1>11. chain' \in Seq(Seq(Transactions)) /\ DOMAIN nonce = Places
  BY <1>1 DEF OneAfterAnother
<1>12. PredictedFields
  BY PredictedAt DEF OneAfterAnother
<1>13. ASSUME batch[i].kind = "send", PoolKept, NEW s, Matches(s)
       PROVE  /\ PoolKept' /\ Predicted = s
              /\ Failed' = Failed => Predicted' = Sent(s, a)
              /\ pending_transactions' # <<>>
  <2>1. pending_transactions' = Append(pending_transactions, Transaction(a, nonce[i]))
    BY <1>13 DEF finishAction
  <2>2. Predicted = s /\ nonce[i] = NextNonce(s, a)
    BY <1>1, <1>2, <1>5, <1>13 DEF Matches
  <2>3. a \in Senders
    BY <1>2, <1>13, Kinds
  <2>4. s.pool = Range(pending_transactions) /\ s.root[a] \in Nat
    BY <1>12, <2>2, <2>3 DEF PredictedFields
  <2> HIDE DEF a
  <2> DEFINE tx == Transaction(a, nonce[i])
  <2>5. tx = Transaction(a, NextNonce(s, a))
    BY <2>2
  <2> HIDE DEF tx
  <2>6. pending_transactions' = Append(pending_transactions, tx)
    BY <2>1 DEF tx
  <2>7. PoolKept' /\ Range(pending_transactions') = Range(pending_transactions) \cup {tx}
    BY <1>13, <2>3, <2>4, <2>5, <2>6, JoinsPool
  <2>8. Failed' = Failed => Predicted' = WithPool(s, Range(pending_transactions'))
    BY <1>1, <2>2, PredictedJoins DEF OneAfterAnother
  <2>9. WithPool(s, Range(pending_transactions')) = Sent(s, a)
    BY <2>4, <2>5, <2>7, Zenon DEF WithPool, Sent
  <2>10. pending_transactions' # <<>>
    <3>1. tx \in Range(pending_transactions') /\ Range(<<>>) = {}
      BY <2>7 DEF Range
    <3> QED
      BY <3>1
  <2> QED
    BY <2>2, <2>7, <2>8, <2>9, <2>10
<1>14. CASE batch[i].kind = "send" /\ instant
  <2>1. stage' = [stage EXCEPT ![i] = "processBlocks"] /\ nonce' = nonce
    BY <1>14 DEF finishAction
  <2>2. stage'[i] = "processBlocks" /\ \A j \in Places \ {i} : stage'[j] = stage[j]
    BY <1>2, <2>1, OneMoves
  <2>3. Failed' = Failed
    <3>1. \A j \in Places : stage'[j] = "failed" <=> stage[j] = "failed"
      BY <1>1, <2>2
    <3> QED
      BY <1>3, <3>1 DEF Failed
  <2>4. ASSUME PoolKept, NEW s, Served(s), Matches(s)
        PROVE  PoolKept' /\ Served(s)' /\ Matches(s)'
    <3>1. /\ PoolKept' /\ Predicted' = Sent(s, a) /\ pending_transactions' # <<>>
      BY <1>13, <1>14, <2>3, <2>4
    <3>2. Effected' = Effected
      <4>1. ASSUME NEW j \in Places
            PROVE  j \in Effected' <=> j \in Effected
        <5>1. CASE j = i
          BY <1>1, <1>3, <2>2, <3>1, <5>1 DEF Effected
        <5>2. CASE j # i
          BY <1>3, <1>5, <2>2, <5>2 DEF Effected
        <5> QED
          BY <5>1, <5>2
      <4>2. Effected' \subseteq Places /\ Effected \subseteq Places
        BY <1>3 DEF Effected
      <4> QED
        BY <4>1, <4>2
    <3>3. Served(s)'
      BY <1>1, <2>4, <3>2, ServedStill
    <3>4. \A j \in Places : Sending(j)' <=> j = i
      BY <1>5, <2>2, <3>1 DEF Sending
    <3>5. \A j \in Places : ~(stage'[j] = "started" /\ batch[j].kind = "send")
      BY <1>10, <2>2
    <3>6. Matches(s)'
      <4>1. \A j \in Places : Sending(j)' => Predicted' = Sent(s, batch[j].from)
        BY <3>1, <3>4
      <4>2. ~(\A j \in Places : ~Sending(j)')
        BY <1>2, <3>4
      <4>3. \A j \in Places' : Sending(j)' => Predicted' = Sent(s, batch'[j].from)
        BY <1>1, <1>3, <4>1
      <4> QED
        BY <1>1, <1>3, <3>5, <4>1, <4>2, Zenon DEF Matches
    <3> QED
      BY <3>1, <3>3, <3>6
  <2>5. DOMAIN nonce' = Places'
    BY <1>3, <1>11, <2>1
  <2> QED
    BY <1>4, <1>7, <1>9, <1>11, <2>4, <2>5, Zenon DEF OneAfterAnother
<1>15. CASE ~(batch[i].kind = "send" /\ instant)
  <2>1. EndAction(i, "answered")
    BY <1>15 DEF finishAction
  <2>2. Effected' = Effected \cup {i} /\ Failed' = Failed
    BY <1>1, <1>2, <2>1, EndStages
  <2>3. DOMAIN nonce' = Places'
    BY <1>3, <1>11, <2>1, EndDomain
  <2>4. ASSUME PoolKept, NEW s, Served(s), Matches(s)
        PROVE  PoolKept' /\ \E t : Served(t)' /\ Matches(t)'
    <3>1. PICK t : t = Predicted'
      OBVIOUS
    <3>2. PoolKept' /\ t = After(s, i)
      <4>1. CASE batch[i].kind = "send"
        <5>1. PoolKept' /\ t = Sent(s, a)
          BY <1>13, <2>2, <2>4, <3>1, <4>1
        <5> QED
          BY <1>15, <4>1, <5>1, AfterIs
      <4>2. CASE batch[i].kind # "send"
        <5>1. batch[i].kind = "read"
          BY <1>2, <4>2, Kinds
        <5>2. pending_transactions' = pending_transactions
          BY <4>2 DEF finishAction
        <5>3. Predicted' = Predicted
          BY <1>1, <1>4, <2>2, <5>2, PredictedStill
        <5>4. Predicted = s
          BY <1>5, <2>4 DEF Matches
        <5>5. PoolKept'
          BY <2>4, <5>2 DEF PoolKept, Single, InARow
        <5> QED
          BY <3>1, <5>1, <5>3, <5>4, <5>5, AfterIs
      <4> QED
        BY <4>1, <4>2
    <3>3. Served(t)'
      BY <1>1, <1>2, <1>8, <2>2, <2>4, <3>2, ServedNext
    <3>4. Matches(t)'
      <4>1. pending_transactions' \in Seq(Transactions)
        BY <3>2 DEF PoolKept
      <4> QED
        BY <1>1, <1>2, <1>4, <1>11, <2>1, <3>1, <4>1, EndMatches
    <3> QED
      BY <3>2, <3>3, <3>4
  <2> QED
    BY <1>4, <1>7, <1>9, <1>11, <2>3, <2>4, Zenon DEF OneAfterAnother
<1> QED
  BY <1>14, <1>15

(* The pool is taken by a sender's action, or found empty. *)
LEMMA ProcessOrder ==
  ASSUME IInv, StagesKnown, OneAfterAnother, NEW i \in DOMAIN batch, processBlocks(i), ~overlapped'
  PROVE  OneAfterAnother'
<1> DEFINE a == batch[i].from
<1>1. /\ stage[i] = "processBlocks"
      /\ batch' = batch /\ before' = before /\ instant' = instant
  BY DEF processBlocks
<1>2. /\ i \in Places /\ i \in InAction /\ batch[i].kind = "send" /\ instant /\ ~Making
      /\ i \notin Mines(batch)
  BY <1>1, WhoSends, Facts DEF InAction
<1>3. Places' = Places /\ Mines(batch)' = Mines(batch) /\ Size \in Nat
  BY <1>1, Facts DEF Places, Size, Mines
<1>4. PICK s : PoolKept /\ Served(s) /\ Matches(s)
  BY <1>2 DEF OneAfterAnother, Doomed
<1>5. BlockTyped /\ chain \in Seq(Seq(Transactions)) /\ DOMAIN nonce = Places
  BY DEF OneAfterAnother
<1>6. \A j \in Places : j # i => stage[j] # "processBlocks"
  <2>1. ASSUME NEW j \in Places, stage[j] = "processBlocks" PROVE j = i
    BY <1>2, <2>1, WhoSends, Facts
  <2> QED
    BY <2>1
<1>7. \A j \in Places : ~(stage[j] = "started" /\ batch[j].kind = "send")
  <2>1. ASSUME NEW j \in Places, stage[j] = "started", batch[j].kind = "send" PROVE FALSE
    <3>1. j \notin Mines(batch)
      BY <2>1 DEF Mines
    <3> QED
      BY <1>1, <1>2, <2>1, <3>1, AloneInBlocks
  <2> QED
    BY <2>1
<1>8. CASE pending_transactions # <<>>
  <2>1. TakePool(i) /\ stage' = [stage EXCEPT ![i] = "block"] /\ nonce' = nonce
    BY <1>8 DEF processBlocks
  <2>2. stage'[i] = "block" /\ \A j \in Places \ {i} : stage'[j] = stage[j]
    BY <1>2, <2>1, OneMoves
  <2>3. pending_transactions' = <<>> /\ chain' = chain
    BY <2>1 DEF TakePool
  <2>4. Failed' = Failed
    <3>1. \A j \in Places : stage'[j] = "failed" <=> stage[j] = "failed"
      BY <1>1, <2>2
    <3> QED
      BY <1>3, <3>1 DEF Failed
  <2>5. ~Late
    BY <1>7, Facts DEF Late
  <2>6. BlockTyped' /\ Making' /\ PoolKept' /\ Predicted' = Mined(Now, i)
    BY <1>1, <1>2, <1>3, <1>4, <1>5, <2>1, <2>4, <2>5, TakePoolPredicts
  <2>7. Now = Sent(s, a)
    <3>1. Predicted = Sent(s, a)
      BY <1>1, <1>2, <1>4, <1>8 DEF Matches, Sending
    <3> QED
      BY <1>2, <3>1 DEF Predicted
  <2>8. PICK t : t = Predicted'
    OBVIOUS
  <2>9. t = After(s, i)
    BY <1>2, <2>6, <2>7, <2>8, AfterIs
  <2>10. i \notin Effected /\ Effected' = Effected \cup {i}
    <3>1. i \notin Effected
      BY <1>1, <1>8 DEF Effected
    <3>2. ASSUME NEW j \in Places
          PROVE  j \in Effected' <=> j \in Effected \cup {i}
      <4>1. CASE j = i
        BY <1>3, <2>2, <4>1 DEF Effected
      <4>2. CASE j # i
        BY <1>3, <1>6, <2>2, <4>2 DEF Effected
      <4> QED
        BY <4>1, <4>2
    <3>3. Effected' \subseteq Places /\ Effected \subseteq Places
      BY <1>3 DEF Effected
    <3> QED
      BY <1>2, <3>1, <3>2, <3>3
  <2>11. \A j \in Effected \ Mines(batch) : j < i
    BY <1>2, <2>10, LaterThanEffected
  <2>12. Served(t)'
    BY <1>1, <1>2, <1>4, <2>9, <2>10, <2>11, ServedNext
  <2>13. Matches(t)'
    <3>1. \A j \in Places : ~Sending(j)'
      BY <2>3 DEF Sending
    <3>2. \A j \in Places : ~(stage'[j] = "started" /\ batch[j].kind = "send")
      BY <1>7, <2>2
    <3> QED
      BY <1>1, <1>3, <2>8, <3>1, <3>2, Zenon DEF Matches
  <2>14. TakesAll' /\ DOMAIN nonce' = Places' /\ chain' \in Seq(Seq(Transactions))
    BY <1>3, <1>5, <2>1, <2>3 DEF TakesAll
  <2> QED
    BY <2>6, <2>12, <2>13, <2>14, Zenon DEF OneAfterAnother
<1>9. CASE pending_transactions = <<>>
  <2>1. /\ EndAction(i, "answered") /\ pending_transactions' = pending_transactions
        /\ chain' = chain /\ root' = root /\ job' = job
    BY <1>9 DEF processBlocks, blockVars
  <2>2. Effected' = Effected \cup {i} /\ Failed' = Failed
    BY <1>1, <1>2, <2>1, EndStages
  <2>3. Effected' = Effected
    BY <1>1, <1>2, <1>9, <2>2 DEF Effected
  <2>4. BlockTyped' /\ (Making' <=> Making)
    BY <1>1, <1>5, <2>1, BlockTypedStill
  <2>5. Predicted' = Predicted
    BY <2>1, <2>2, <2>4, PredictedStill
  <2>6. Predicted' = s
    BY <1>4, <1>9, <2>5 DEF Matches, Sending
  <2>7. PoolKept'
    BY <1>4, <2>1 DEF PoolKept, Single, InARow
  <2>8. Served(s)'
    BY <1>1, <1>4, <2>3, ServedStill
  <2>9. Matches(s)' /\ DOMAIN nonce' = Places
    <3>1. pending_transactions' \in Seq(Transactions)
      BY <2>7 DEF PoolKept
    <3> QED
      BY <1>1, <1>2, <1>5, <2>1, <2>4, <2>6, <3>1, EndMatches
  <2>10. TakesAll' /\ chain' \in Seq(Seq(Transactions))
    BY <1>2, <1>5, <2>1, <2>4 DEF TakesAll
  <2> QED
    BY <1>3, <2>4, <2>7, <2>8, <2>9, <2>10, Zenon DEF OneAfterAnother
<1> QED
  BY <1>8, <1>9

-------------------------------------------------------------------------------
(* svm_mine takes the pool as it starts. *)
LEMMA ArriveMineOrder ==
  ASSUME IInv, StagesKnown, OneAfterAnother, arrive, batch[arrived + 1].kind = "mine"
  PROVE  OneAfterAnother'
<1> DEFINE i == arrived + 1
<1>1. /\ TakePool(i) /\ stage' = [stage EXCEPT ![i] = "block"] /\ nonce' = nonce
      /\ batch' = batch /\ before' = before /\ instant' = instant
  BY DEF arrive
<1>2. i \in Places /\ stage[i] = "unsent" /\ Size \in Nat
  <2>1. arrived \in 0..Size /\ arrived < Size /\ Size \in Nat
    BY Facts DEF arrive, IInv, Types, Size
  <2> QED
    BY <2>1 DEF IInv, StagesFit, Places
<1>3. i \in Mines(batch)
  BY <1>2, Kinds
<1> HIDE DEF i
<1>4. Places' = Places /\ Mines(batch)' = Mines(batch)
  BY <1>1 DEF Places, Size, Mines
<1>5. ~instant /\ ~Making
  <2>1. ~instant
    BY <1>3 DEF IInv, StagesFit
  <2>2. ASSUME Making PROVE FALSE
    <3>1. job.member \in Places /\ stage[job.member] = "block"
      BY <2>2 DEF IInv, JobHeld
    <3>2. job.member \in Mines(batch)
      BY <2>1, <3>1 DEF IInv, StagesFit
    <3> QED
      BY <1>2, <1>3, <3>1, <3>2 DEF IInv, StagesFit
  <2> QED
    BY <2>1, <2>2
<1>6. \A j \in Places : stage[j] # "processBlocks" /\ ~Sending(j)
  <2>1. ASSUME NEW j \in Places, stage[j] = "processBlocks" PROVE FALSE
    BY <1>5, <2>1, WhoSends
  <2> QED
    BY <2>1 DEF Sending
<1>7. PICK s : PoolKept /\ Served(s) /\ Matches(s)
  BY <1>5 DEF OneAfterAnother, Doomed
<1>8. BlockTyped /\ chain \in Seq(Seq(Transactions)) /\ DOMAIN nonce = Places
  BY DEF OneAfterAnother
<1>9. s = Now
  BY <1>5, <1>6, <1>7 DEF Matches, Predicted
<1>10. stage'[i] = "block" /\ \A j \in Places \ {i} : stage'[j] = stage[j]
  BY <1>1, <1>2, OneMoves
<1>11. pending_transactions' = <<>> /\ chain' = chain
  BY <1>1 DEF TakePool
<1>12. Failed' = Failed
  <2>1. \A j \in Places : stage'[j] = "failed" <=> stage[j] = "failed"
    BY <1>2, <1>10
  <2> QED
    BY <1>4, <2>1 DEF Failed
<1>13. /\ BlockTyped' /\ Making' /\ PoolKept' /\ job'.late = Late /\ Base' = Now
       /\ Predicted' = Mined(Now, i)
  BY <1>1, <1>2, <1>3, <1>5, <1>7, <1>8, <1>12, TakePoolPredicts
<1>14. PICK t : t = Predicted'
  OBVIOUS
<1>15. t = After(s, i)
  <2>1. batch[i].kind = "mine"
    BY <1>2, <1>3, Kinds
  <2> QED
    BY <1>9, <1>13, <1>14, <2>1, AfterIs
<1>16. i \notin Effected /\ Effected' = Effected \cup {i}
  <2>1. i \notin Effected
    BY <1>2 DEF Effected
  <2>2. ASSUME NEW j \in Places
        PROVE  j \in Effected' <=> j \in Effected \cup {i}
    <3>1. CASE j = i
      BY <1>4, <1>10, <3>1 DEF Effected
    <3>2. CASE j # i
      BY <1>4, <1>6, <1>10, <3>2 DEF Effected
    <3> QED
      BY <3>1, <3>2
  <2>3. Effected' \subseteq Places /\ Effected \subseteq Places
    BY <1>4 DEF Effected
  <2> QED
    BY <1>2, <2>1, <2>2, <2>3
<1>17. Served(t)'
  BY <1>1, <1>2, <1>3, <1>7, <1>15, <1>16, ServedNext
<1>18. TakesAll' /\ DOMAIN nonce' = Places' /\ chain' \in Seq(Seq(Transactions))
  BY <1>1, <1>4, <1>8, <1>11 DEF TakesAll
<1>19. CASE Late /\ ~CanRun(Now)
  <2>1. Doomed'
    BY <1>13, <1>19, Zenon DEF Doomed
  <2> QED
    BY <1>13, <1>18, <2>1, Zenon DEF OneAfterAnother
<1>20. CASE ~(Late /\ ~CanRun(Now))
  <2>1. \A j \in Places : ~Sending(j)'
    BY <1>11 DEF Sending
  <2>2. ASSUME NEW j \in Places, stage'[j] = "started", batch[j].kind = "send"
        PROVE  nonce'[j] = NextNonce(t, batch[j].from)
    <3>1. stage[j] = "started"
      BY <1>10, <2>2
    <3>2. Late
      BY <2>2, <3>1, Facts DEF Late
    <3>3. CanRun(s)
      BY <1>9, <1>20, <3>2
    <3>4. nonce'[j] = NextNonce(s, batch[j].from)
      BY <1>1, <1>7, <2>2, <3>1 DEF Matches
    <3>5. /\ s.pool = Range(pending_transactions) /\ s.root = root
          /\ s = [chain |-> Blocks, pool |-> Range(pending_transactions), root |-> root,
                  failed |-> Failed]
      BY <1>9 DEF Now
    <3>6. InARow(s.pool) /\ s.root \in [Senders -> Nat]
      BY <1>7, <1>8, <3>5 DEF PoolKept, BlockTyped
    <3> DEFINE b == batch[j].from
    <3>7. b \in Senders
      BY <2>2, Kinds
    <3> HIDE DEF b
    <3>8. NoncesOf(t.pool, b) = {} /\ t.root[b] = s.root[b] + Cardinality(NoncesOf(s.pool, b))
      <4>1. t = Mined(s, i)
        BY <1>9, <1>13, <1>14
      <4> DEFINE longer == Append(Blocks, Range(pending_transactions))
                 more == RootAfter(root, Range(pending_transactions))
      <4>2. t = [chain |-> longer, pool |-> {}, root |-> more, failed |-> Failed]
        <5>1. LET rec == [chain |-> Blocks, pool |-> Range(pending_transactions), root |-> root,
                          failed |-> Failed] IN
              CanRun(rec) => Mined(rec, i) =
                [chain |-> longer, pool |-> {},
                 root |-> [c \in Senders |->
                             root[c] + Cardinality(NoncesOf(Range(pending_transactions), c))],
                 failed |-> Failed]
          BY DEF Mined
        <5> QED
          BY <3>3, <3>5, <4>1, <5>1, Zenon DEF RootAfter
      <4>3. more[b] = root[b] + Cardinality(NoncesOf(Range(pending_transactions), b))
        BY <3>7 DEF RootAfter
      <4> HIDE DEF longer, more
      <4>4. t.pool = {} /\ t.root = more
        BY <4>2
      <4>5. NoncesOf(t.pool, b) = {}
        BY <4>4 DEF NoncesOf
      <4> QED
        BY <3>5, <4>3, <4>4, <4>5
    <3>9. NextNonce(t, b) = NextNonce(s, b)
      BY <3>3, <3>6, <3>7, <3>8, NextAfterBlock
    <3> QED
      BY <3>4, <3>9 DEF b
  <2>3. Matches(t)'
    BY <1>1, <1>4, <1>14, <2>1, <2>2, Zenon DEF Matches
  <2> QED
    BY <1>13, <1>17, <1>18, <2>3, Zenon DEF OneAfterAnother
<1> QED
  BY <1>19, <1>20

(* Another member starts, or waits in the action queue. *)
LEMMA ArriveActionOrder ==
  ASSUME IInv, StagesKnown, OneAfterAnother, arrive, batch[arrived + 1].kind # "mine", ~overlapped'
  PROVE  OneAfterAnother'
<1> DEFINE i == arrived + 1
<1>1. /\ queueAction(i) /\ pending_transactions' = pending_transactions
      /\ chain' = chain /\ root' = root /\ job' = job
      /\ batch' = batch /\ before' = before /\ instant' = instant
  BY DEF arrive, blockVars
<1>2. i \in Places /\ stage[i] = "unsent"
  <2>1. arrived \in 0..Size /\ arrived < Size /\ Size \in Nat
    BY Facts DEF arrive, IInv, Types, Size
  <2> QED
    BY <2>1 DEF IInv, StagesFit, Places
<1> HIDE DEF i
<1>3. Places' = Places /\ Mines(batch)' = Mines(batch)
  BY <1>1 DEF Places, Size, Mines
<1>4. PICK at \in {"started", "queued"} : stage' = [stage EXCEPT ![i] = at]
  BY <1>1 DEF queueAction
<1>5. stage'[i] = at /\ \A j \in Places \ {i} : stage'[j] = stage[j]
  BY <1>2, <1>4, OneMoves
<1>6. Failed' = Failed
  <2>1. \A j \in Places : stage'[j] = "failed" <=> stage[j] = "failed"
    BY <1>2, <1>5
  <2> QED
    BY <1>3, <2>1 DEF Failed
<1>7. Effected' = Effected
  <2>1. ASSUME NEW j \in Places
        PROVE  j \in Effected' <=> j \in Effected
    <3>1. CASE j = i
      BY <1>2, <1>3, <1>5, <3>1 DEF Effected
    <3>2. CASE j # i
      BY <1>1, <1>3, <1>5, <3>2 DEF Effected
    <3> QED
      BY <3>1, <3>2
  <2>2. Effected' \subseteq Places /\ Effected \subseteq Places
    BY <1>3 DEF Effected
  <2> QED
    BY <2>1, <2>2
<1>8. BlockTyped' /\ (Making' <=> Making)
  BY <1>1, BlockTypedStill DEF OneAfterAnother
<1>9. Predicted' = Predicted
  BY <1>1, <1>6, <1>8, PredictedStill
<1>10. Doomed => Doomed'
  <2>1. ASSUME Doomed PROVE Doomed'
    <3>1. Making'
      BY <1>8, <2>1 DEF Doomed
    <3> QED
      BY <1>1, <2>1, <3>1, DoomedStill
  <2> QED
    BY <2>1
<1>11. TakesAll' /\ chain' \in Seq(Seq(Transactions)) /\ DOMAIN nonce = Places
  BY <1>1, <1>3, <1>8 DEF OneAfterAnother, TakesAll
<1>12. \A j \in Places : Sending(j)' <=> Sending(j)
  BY <1>1, <1>2, <1>5 DEF Sending
<1>13. DOMAIN nonce' = Places'
  BY <1>1, <1>3, <1>11 DEF queueAction, StartAction
<1>14. ASSUME PoolKept, NEW s, Served(s), Matches(s)
       PROVE  PoolKept' /\ Served(s)' /\ Matches(s)'
  <2>1. PoolKept'
    BY <1>1, <1>14 DEF PoolKept, Single, InARow
  <2>2. Served(s)'
    BY <1>1, <1>7, <1>14, ServedStill
  <2>3. CASE Free
    <3>1. InAction = {} /\ StartAction(i, pending_transactions, root, Making)
      BY <1>1, <2>3, Facts DEF queueAction, Free
    <3>2. ASSUME NEW j \in Places, stage[j] = "started", batch[j].kind = "send" PROVE FALSE
      BY <3>1, <3>2, Facts DEF InAction, Mines
    <3>3. \A j \in Places : ~Sending(j)
      <4>1. ASSUME NEW j \in Places, stage[j] = "processBlocks" PROVE FALSE
        BY <3>1, <4>1, WhoSends
      <4> QED
        BY <4>1 DEF Sending
    <3>4. Predicted = s
      BY <1>14, <3>3 DEF Matches
    <3>5. ASSUME batch[i].kind = "send"
          PROVE  nonce'[i] = NextNonce(s, batch[i].from)
      <4>1. ~Making
        BY <3>1, <3>5 DEF StartAction
      <4>2. s = Now
        BY <3>4, <4>1 DEF Predicted
      <4>3. s.pool = Range(pending_transactions) /\ s.root = root
        BY <4>2 DEF Now
      <4>4. nonce'[i] = getQueuedNonce(batch[i].from, pending_transactions, root)
        BY <1>2, <1>11, <3>1, <3>5 DEF StartAction
      <4>5. pending_transactions \in Seq(Transactions)
        BY <1>14 DEF PoolKept
      <4> QED
        BY <4>3, <4>4, <4>5, SameNonce
    <3>6. ASSUME NEW j \in Places, stage'[j] = "started", batch[j].kind = "send"
          PROVE  nonce'[j] = NextNonce(s, batch[j].from)
      <4>1. j = i
        BY <1>5, <3>2, <3>6
      <4> QED
        BY <3>5, <3>6, <4>1
    <3>7. Matches(s)'
      <4>1. \A j \in Places : ~Sending(j)'
        BY <1>12, <3>3
      <4> QED
        BY <1>1, <1>3, <1>9, <3>4, <3>6, <4>1, Zenon DEF Matches
    <3> QED
      BY <2>1, <2>2, <3>7
  <2>4. CASE ~Free
    <3>1. stage' = [stage EXCEPT ![i] = "queued"] /\ nonce' = nonce
      BY <1>1, <2>4 DEF queueAction
    <3>2. stage'[i] = "queued"
      BY <1>2, <3>1, OneMoves
    <3>3. \A j \in Places : stage'[j] = "started" => stage[j] = "started"
      BY <1>5, <3>2
    <3>4. Matches(s)'
      BY <1>1, <1>9, <1>12, <1>14, <3>1, <3>3, MatchesStill
    <3> QED
      BY <2>1, <2>2, <3>4
  <2> QED
    BY <2>3, <2>4
<1> QED
  BY <1>8, <1>10, <1>11, <1>13, <1>14, Zenon DEF OneAfterAnother

(* Nothing happens. *)
LEMMA StutterOrder ==
  ASSUME IInv, StagesKnown, OneAfterAnother, UNCHANGED vars
  PROVE  OneAfterAnother'
<1>1. /\ batch' = batch /\ before' = before /\ instant' = instant
      /\ stage' = stage /\ nonce' = nonce /\ pending_transactions' = pending_transactions
      /\ chain' = chain /\ root' = root /\ job' = job
  BY DEF vars, blockVars
<1>2. /\ Places' = Places /\ Mines(batch)' = Mines(batch) /\ Failed' = Failed
      /\ Effected' = Effected
  BY <1>1 DEF Places, Size, Mines, Failed, Effected
<1>3. BlockTyped' /\ (Making' <=> Making)
  BY <1>1, BlockTypedStill DEF OneAfterAnother
<1>4. Predicted' = Predicted
  BY <1>1, <1>2, <1>3, PredictedStill
<1>5. Doomed => Doomed'
  <2>1. ASSUME Doomed PROVE Doomed'
    <3>1. Making'
      BY <1>3, <2>1 DEF Doomed
    <3> QED
      BY <1>1, <2>1, <3>1, DoomedStill
  <2> QED
    BY <2>1
<1>6. TakesAll' /\ chain' \in Seq(Seq(Transactions)) /\ DOMAIN nonce' = Places'
  BY <1>1, <1>2, <1>3 DEF OneAfterAnother, TakesAll
<1>7. ASSUME PoolKept, NEW s, Served(s), Matches(s)
      PROVE  PoolKept' /\ Served(s)' /\ Matches(s)'
  <2>1. PoolKept'
    BY <1>1, <1>7 DEF PoolKept, Single, InARow
  <2>2. Served(s)'
    BY <1>1, <1>2, <1>7, ServedStill
  <2>3. \A j \in Places : Sending(j)' <=> Sending(j)
    BY <1>1 DEF Sending
  <2>4. Matches(s)'
    BY <1>1, <1>4, <1>7, <2>3, MatchesStill
  <2> QED
    BY <2>1, <2>2, <2>4
<1> QED
  BY <1>3, <1>5, <1>6, <1>7, Zenon DEF OneAfterAnother

-------------------------------------------------------------------------------
(* No step queues what is not queued. *)
LEMMA StagesKnownNext ==
  ASSUME IInv, StagesKnown, [Next]_vars
  PROVE  StagesKnown'
<1>1. ASSUME batch' = batch, stage' = stage, action_queue' = action_queue
      PROVE  StagesKnown'
  <2>1. Places' = Places
    BY <1>1 DEF Places, Size
  <2> QED
    BY <1>1, <2>1 DEF StagesKnown
<1>2. CASE UNCHANGED vars
  BY <1>1, <1>2 DEF vars, queueVars
<1>3. CASE arrive
  <2> DEFINE i == arrived + 1
  <2>1. i \in Places /\ stage[i] = "unsent" /\ batch' = batch
    <3>1. arrived \in 0..Size /\ arrived < Size /\ Size \in Nat
      BY <1>3, Facts DEF arrive, IInv, Types, Size
    <3> QED
      BY <1>3, <3>1 DEF arrive, IInv, StagesFit, Places
  <2>2. CASE batch[i].kind = "mine"
    <3>1. stage' = [stage EXCEPT ![i] = "block"] /\ action_queue' = action_queue
      BY <1>3, <2>2 DEF arrive
    <3> QED
      BY <2>1, <3>1, StageMoves
  <2>3. CASE batch[i].kind # "mine" /\ Free
    <3>1. stage' = [stage EXCEPT ![i] = "started"] /\ action_queue' = action_queue
      BY <1>3, <2>3 DEF arrive, queueAction
    <3> QED
      BY <2>1, <3>1, StageMoves
  <2>4. CASE batch[i].kind # "mine" /\ ~Free
    <3>1. stage' = [stage EXCEPT ![i] = "queued"] /\ action_queue' = Append(action_queue, i)
      BY <1>3, <2>4 DEF arrive, queueAction
    <3> HIDE DEF i
    <3>2. stage'[i] = "queued" /\ \A j \in Places \ {i} : stage'[j] = stage[j]
      BY <2>1, <3>1, OneMoves
    <3>3. /\ action_queue \in Seq(Places) /\ Len(action_queue) \in Nat
          /\ DOMAIN action_queue = 1..Len(action_queue)
          /\ \A k \in DOMAIN action_queue : action_queue[k] \in Places
      BY LenProperties, ElementOfSeq DEF IInv, Types
    <3>4. /\ DOMAIN action_queue' = 1..(Len(action_queue) + 1)
          /\ action_queue'[Len(action_queue) + 1] = i
          /\ \A k \in 1..Len(action_queue) : action_queue'[k] = action_queue[k]
      BY <2>1, <3>1, <3>3, AppendProperties, LenProperties
    <3>5. ASSUME NEW k \in DOMAIN action_queue'
          PROVE  stage'[action_queue'[k]] = "queued"
      <4>1. CASE k = Len(action_queue) + 1
        BY <3>2, <3>4, <4>1
      <4>2. CASE k # Len(action_queue) + 1
        <5>1. k \in DOMAIN action_queue /\ action_queue'[k] = action_queue[k]
          BY <3>3, <3>4, <4>2
        <5>2. stage[action_queue[k]] = "queued" /\ action_queue[k] \in Places
          BY <3>3, <5>1 DEF StagesKnown
        <5> QED
          BY <3>2, <5>1, <5>2
      <4> QED
        BY <4>1, <4>2
    <3>6. Places' = Places
      BY <2>1 DEF Places, Size
    <3>7. \A j \in Places : stage'[j] = "processBlocks" => batch'[j].kind = "send"
      BY <2>1, <3>2 DEF StagesKnown
    <3> QED
      BY <3>5, <3>6, <3>7 DEF StagesKnown
  <2> QED
    BY <2>2, <2>3, <2>4
<1>4. CASE runTransaction
  BY <1>1, <1>4 DEF runTransaction, queueVars
<1>5. ASSUME NEW outcome \in {"answered", "failed"}, Making, MineOver(outcome), batch' = batch
      PROVE  StagesKnown'
  <2> DEFINE m == job.member
  <2>1. /\ m \in Places /\ stage[m] = "block"
        /\ stage' = [stage EXCEPT ![m] = outcome] /\ action_queue' = action_queue
    BY <1>5 DEF MineOver, IInv, JobHeld
  <2> HIDE DEF m
  <2> QED
    BY <1>5, <2>1, StageMoves
<1>6. CASE failBlock
  <2>1. CASE MineOver("failed")
    BY <1>5, <1>6, <2>1 DEF failBlock
  <2>2. CASE batch[job.member].kind = "send" /\ EndAction(job.member, "failed")
    BY <1>6, <2>2, OwnBlock, EndStages DEF failBlock
  <2> QED
    BY <1>6, <2>1, <2>2 DEF failBlock
<1>7. CASE putBlock
  <2>1. CASE MineOver("answered")
    BY <1>5, <1>7, <2>1 DEF putBlock
  <2>2. CASE NextTurn
    <3> DEFINE m == job.member
    <3>1. /\ m \in Places /\ stage[m] = "block" /\ batch' = batch /\ batch[m].kind = "send"
          /\ stage' = [stage EXCEPT ![m] = "processBlocks"] /\ action_queue' = action_queue
      BY <1>7, <2>2 DEF NextTurn, putBlock, IInv, JobHeld
    <3> HIDE DEF m
    <3> QED
      BY <3>1, StageMoves
  <2> QED
    BY <1>7, <2>1, <2>2 DEF putBlock
<1>8. ASSUME NEW i \in DOMAIN batch, finishAction(i)
      PROVE  StagesKnown'
  <2>1. i \in InAction /\ i \in Places /\ stage[i] = "started" /\ batch' = batch
    BY <1>8, Facts DEF finishAction, InAction, IInv, StagesFit
  <2>2. CASE batch[i].kind = "send" /\ instant
    <3>1. stage' = [stage EXCEPT ![i] = "processBlocks"] /\ action_queue' = action_queue
      BY <1>8, <2>2 DEF finishAction
    <3> QED
      BY <2>1, <2>2, <3>1, StageMoves
  <2>3. CASE ~(batch[i].kind = "send" /\ instant)
    <3>1. EndAction(i, "answered")
      BY <1>8, <2>3 DEF finishAction
    <3> QED
      BY <2>1, <3>1, EndStages
  <2> QED
    BY <2>2, <2>3
<1>9. ASSUME NEW i \in DOMAIN batch, processBlocks(i)
      PROVE  StagesKnown'
  <2>1. i \in InAction /\ i \in Places /\ stage[i] = "processBlocks" /\ batch' = batch
    BY <1>9, Facts DEF processBlocks, InAction, IInv, StagesFit
  <2>2. CASE pending_transactions # <<>>
    <3>1. stage' = [stage EXCEPT ![i] = "block"] /\ action_queue' = action_queue
      BY <1>9, <2>2 DEF processBlocks
    <3> QED
      BY <2>1, <3>1, StageMoves
  <2>3. CASE pending_transactions = <<>>
    <3>1. EndAction(i, "answered")
      BY <1>9, <2>3 DEF processBlocks
    <3> QED
      BY <2>1, <3>1, EndStages
  <2> QED
    BY <2>2, <2>3
<1> QED
  BY <1>2, <1>3, <1>4, <1>6, <1>7, <1>8, <1>9 DEF Next, Progress, answerBatch

(* Every step keeps the order, or reads a nonce out of turn. *)
LEMMA OrderNext ==
  ASSUME IInv, OrderInv, [Next]_vars
  PROVE  OrderInv'
<1>1. StagesKnown'
  BY StagesKnownNext DEF OrderInv
<1>2. CASE overlapped
  <2>1. overlapped'
    BY <1>2, OverlappedStays
  <2> QED
    BY <1>1, <2>1 DEF OrderInv
<1>3. CASE overlapped'
  BY <1>1, <1>3 DEF OrderInv
<1>4. CASE ~overlapped /\ ~overlapped'
  <2>1. StagesKnown /\ OneAfterAnother
    BY <1>4 DEF OrderInv
  <2>2. CASE UNCHANGED vars
    BY <1>1, <2>1, <2>2, StutterOrder DEF OrderInv
  <2>3. CASE arrive
    BY <1>1, <1>4, <2>1, <2>3, ArriveMineOrder, ArriveActionOrder DEF OrderInv
  <2>4. CASE runTransaction
    BY <1>1, <2>1, <2>4, RunOrder DEF OrderInv
  <2>5. CASE failBlock
    BY <1>1, <1>4, <2>1, <2>5, FailOrder DEF OrderInv
  <2>6. CASE putBlock
    BY <1>1, <2>1, <2>6, PutOrder DEF OrderInv
  <2>7. ASSUME NEW i \in DOMAIN batch, finishAction(i) PROVE OrderInv'
    BY <1>1, <1>4, <2>1, <2>7, FinishOrder DEF OrderInv
  <2>8. ASSUME NEW i \in DOMAIN batch, processBlocks(i) PROVE OrderInv'
    BY <1>1, <1>4, <2>1, <2>8, ProcessOrder DEF OrderInv
  <2> QED
    BY <2>2, <2>3, <2>4, <2>5, <2>6, <2>7, <2>8 DEF Next, Progress, answerBatch
<1> QED
  BY <1>2, <1>3, <1>4

(* What earlier requests may have left pending is in a row. *)
LEMMA PoolAtFirst ==
  ASSUME pending_transactions \in PendingAtFirst
  PROVE  PoolKept
<1>1. PICK a \in Senders, k \in 0..MaxPending, gap \in {0, 1} :
        pending_transactions = [i \in 1..k |-> Transaction(a, gap + i - 1)]
  BY DEF PendingAtFirst
<1>2. k \in Nat /\ gap \in Nat
  BY <1>1, BatchBoundAssumption
<1> DEFINE pool == pending_transactions
<1>3. ASSUME NEW i \in 1..k
      PROVE  /\ gap + i - 1 \in Nat /\ pool[i] = Transaction(a, gap + i - 1)
             /\ pool[i] \in Transactions /\ pool[i].from = a /\ pool[i].nonce = gap + i - 1
  <2>1. gap + i - 1 \in Nat /\ pool[i] = Transaction(a, gap + i - 1)
    BY <1>1, <1>2
  <2> QED
    BY <2>1 DEF Transaction, Transactions
<1>4. DOMAIN pool = 1..k /\ pool \in Seq(Transactions)
  <2>1. pool \in [1..k -> Transactions]
    BY <1>1, <1>3
  <2> QED
    BY <1>2, <2>1, SeqDef
<1>5. Single(pool)
  <2>1. ASSUME NEW i \in 1..k, NEW j \in 1..k, pool[i] = pool[j] PROVE i = j
    <3>1. gap + i - 1 = gap + j - 1
      BY <1>3, <2>1
    <3> QED
      BY <1>2, <3>1
  <2> QED
    BY <1>4, <2>1, Zenon DEF Single
<1>6. ASSUME NEW b \in Senders
      PROVE  \E m, n \in Nat : NoncesOf(Range(pool), b) = m..n
  <2>1. NoncesOf(Range(pool), b) = PendingNonces(b, pool)
    BY <1>4, NoncesOfPool
  <2>2. CASE b # a \/ k = 0
    <3>1. {i \in DOMAIN pool : pool[i].from = b} = {}
      BY <1>3, <1>4, <2>2
    <3>2. PendingNonces(b, pool) = {}
      BY <3>1 DEF PendingNonces
    <3>3. 1..0 = {}
      OBVIOUS
    <3> QED
      BY <2>1, <3>2, <3>3
  <2>3. CASE b = a /\ k # 0
    <3>1. ASSUME NEW n
          PROVE  n \in PendingNonces(b, pool) <=> n \in gap..(gap + k - 1)
      <4>1. ASSUME n \in PendingNonces(b, pool) PROVE n \in gap..(gap + k - 1)
        <5>1. PICK i \in 1..k : n = pool[i].nonce
          BY <1>4, <4>1 DEF PendingNonces
        <5> QED
          BY <1>2, <1>3, <5>1
      <4>2. ASSUME n \in gap..(gap + k - 1) PROVE n \in PendingNonces(b, pool)
        <5>1. n - gap + 1 \in 1..k /\ gap + (n - gap + 1) - 1 = n
          BY <1>2, <4>2
        <5>2. n - gap + 1 \in DOMAIN pool /\ pool[n - gap + 1].nonce = n
              /\ pool[n - gap + 1].from = b
          BY <1>3, <1>4, <2>3, <5>1
        <5> QED
          BY <5>2 DEF PendingNonces
      <4> QED
        BY <4>1, <4>2
    <3>2. gap + k - 1 \in Nat
      BY <1>2, <2>3
    <3> QED
      BY <1>2, <2>1, <3>1, <3>2
  <2> QED
    BY <2>2, <2>3
<1> QED
  BY <1>4, <1>5, <1>6, Zenon DEF PoolKept, InARow

(* At first nobody has been served, and the pool is what was found. *)
LEMMA OrderInit ==
  ASSUME Init
  PROVE  OrderInv
<1>1. /\ stage = [i \in DOMAIN batch |-> "unsent"] /\ nonce = [i \in DOMAIN batch |-> 0]
      /\ chain = <<>> /\ root = [a \in Senders |-> 0] /\ job = NoJob /\ action_queue = <<>>
      /\ pending_transactions \in PendingAtFirst /\ before = pending_transactions
  BY DEF Init
<1>2. DOMAIN batch = Places
  BY InitialInvariant, Facts
<1>3. ~Making /\ ~Doomed
  BY <1>1 DEF Making, Doomed
<1>4. \A i \in Places : stage[i] = "unsent"
  BY <1>1, <1>2
<1>5. StagesKnown
  <2>1. DOMAIN action_queue = {}
    BY <1>1
  <2> QED
    BY <1>4, <2>1 DEF StagesKnown
<1>6. BlockTyped /\ TakesAll /\ chain \in Seq(Seq(Transactions)) /\ DOMAIN nonce = Places
  BY <1>1, <1>2, <1>3, EmptySeq DEF BlockTyped, TakesAll
<1>7. PoolKept
  BY <1>1, PoolAtFirst
<1>8. Effected = {} /\ Failed = {}
  BY <1>4 DEF Effected, Failed
<1>9. Now = Found
  <2>1. Blocks = <<>>
    <3>1. DOMAIN chain = {} /\ DOMAIN <<>> = {}
      BY <1>1
    <3>2. Blocks = [k \in {} |-> Range(chain[k])]
      BY <3>1 DEF Blocks
    <3>3. <<>> = [k \in {} |-> Range(chain[k])]
      OBVIOUS
    <3> QED
      BY <3>2, <3>3
  <2> QED
    BY <1>1, <1>8, <2>1, Zenon DEF Now, Found
<1>10. Predicted = Found
  BY <1>3, <1>9 DEF Predicted
<1>11. PICK s : s = Found
  OBVIOUS
<1>12. Matches(s)
  BY <1>4, <1>10, <1>11 DEF Matches, Sending
<1>13. Served(s)
  <2> DEFINE done == <<>>
             f == [k \in 0..0 |-> Found]
  <2>1. done \in Seq(Places) /\ Range(done) = {} /\ DOMAIN done = {} /\ Len(done) = 0
    BY EmptySeq DEF Range
  <2>2. Serving(done)
    BY <1>8, <2>1 DEF Serving
  <2>3. f[0] = s
    BY <1>11
  <2>4. Serves(f, done)
    <3> DEFINE g == [k \in 0..Len(done) |-> IF k = 0 THEN Found ELSE After(f[k - 1], done[k])]
    <3>1. f = g
      <4>1. \A k \in 0..0 : k = 0
        OBVIOUS
      <4>2. \A k \in 0..0 : Found = IF k = 0 THEN Found ELSE After(f[k - 1], done[k])
        BY <4>1, Zenon
      <4>3. [k \in 0..0 |-> Found] =
              [k \in 0..0 |-> IF k = 0 THEN Found ELSE After(f[k - 1], done[k])]
        BY <4>2, Zenon
      <4> QED
        BY <2>1, <4>3, Zenon
    <3> QED
      BY <3>1, Zenon DEF Serves
  <2> HIDE DEF done, f
  <2> QED
    BY <2>1, <2>2, <2>3, <2>4, Zenon DEF Served
<1> QED
  BY <1>5, <1>6, <1>7, <1>12, <1>13, Zenon DEF OrderInv, OneAfterAnother

(* When all are answered, their order is one of OneByOne and has their outcome. *)
LEMMA OrderTells ==
  ASSUME IInv, OrderInv, Over, ~overlapped
  PROVE  \E p \in OneByOne :
           /\ Outcome(p).chain = [k \in DOMAIN chain |-> Range(chain[k])]
           /\ Outcome(p).pool = Range(pending_transactions)
           /\ Outcome(p).root = root
           /\ Outcome(p).failed = {i \in DOMAIN batch : stage[i] = "failed"}
<1>1. Size \in Nat /\ DOMAIN batch = Places
  BY Facts
<1>2. \A i \in Places : stage[i] \in {"answered", "failed"}
  BY <1>1 DEF Over
<1>3. ~Making
  BY <1>2 DEF IInv, JobHeld
<1>4. PICK s : Served(s) /\ Matches(s)
  BY <1>3 DEF OrderInv, OneAfterAnother, Doomed
<1>5. s = Now
  <2>1. \A i \in Places : ~Sending(i)
    BY <1>2 DEF Sending
  <2> QED
    BY <1>3, <1>4, <2>1 DEF Matches, Predicted
<1>6. PICK done, f : Serving(done) /\ Serves(f, done) /\ f[Len(done)] = s
  BY <1>4, Zenon DEF Served
<1>7. Effected = Places
  BY <1>2 DEF Effected
<1>8. /\ done \in Seq(Places) /\ Range(done) = Places
      /\ \A k, l \in DOMAIN done : done[k] = done[l] => k = l
      /\ \A k, l \in DOMAIN done :
           k < l /\ done[k] \notin Mines(batch) /\ done[l] \notin Mines(batch) => done[k] < done[l]
  BY <1>6, <1>7 DEF Serving
<1>9. Len(done) = Size
  <2>1. Len(done) \in Nat /\ DOMAIN done = 1..Len(done) /\ done \in [1..Len(done) -> Places]
    BY <1>8, LenProperties
  <2>2. done \in Bijection(1..Len(done), Places)
    <3>1. \A x \in Places : \E k \in 1..Len(done) : done[k] = x
      BY <1>8, <2>1 DEF Range
    <3> QED
      BY <1>8, <2>1, <3>1 DEF Bijection, Injection, Surjection, IsInjective
  <2>3. IsFiniteSet(1..Len(done)) /\ Cardinality(1..Len(done)) = Len(done)
    <3>1. 1 \in Int /\ Len(done) \in Int
      BY <2>1
    <3>2. IsFiniteSet(1..Len(done))
          /\ Cardinality(1..Len(done)) = IF 1 > Len(done) THEN 0 ELSE Len(done) - 1 + 1
      BY <3>1, FS_Interval
    <3> QED
      BY <2>1, <3>2
  <2>4. Cardinality(Places) = Size
    <3>1. 1 \in Int /\ Size \in Int
      BY <1>1
    <3>2. Cardinality(1..Size) = IF 1 > Size THEN 0 ELSE Size - 1 + 1
      BY <3>1, FS_Interval
    <3> QED
      BY <1>1, <3>2 DEF Places
  <2>5. ExistsBijection(1..Len(done), Places)
    BY <2>2 DEF ExistsBijection
  <2> QED
    BY <2>3, <2>4, <2>5, FS_Bijection
<1>10. DOMAIN done = Places
  BY <1>8, <1>9, LenProperties DEF Places
<1>11. done \in OneByOne
  <2>1. done \in Bijection(DOMAIN batch, DOMAIN batch)
    <3>1. done \in [Places -> Places]
      BY <1>8, <1>9, LenProperties DEF Places
    <3>2. \A x \in Places : \E k \in Places : done[k] = x
      BY <1>8, <1>10 DEF Range
    <3> QED
      BY <1>1, <1>8, <1>10, <3>1, <3>2 DEF Bijection, Injection, Surjection, IsInjective
  <2>2. \A i, j \in DOMAIN batch :
          i < j /\ {done[i], done[j]} \cap Mines(batch) = {} => done[i] < done[j]
    BY <1>1, <1>8, <1>10
  <2> QED
    BY <2>1, <2>2 DEF OneByOne
<1>12. Outcome(done) = s
  <2> DEFINE Leads(g) ==
               g = [k \in 0..Len(batch) |-> IF k = 0 THEN Found ELSE After(g[k - 1], done[k])]
             g == CHOOSE h : Leads(h)
  <2>1. Len(done) = Len(batch)
    BY <1>9 DEF Size
  <2>2. Leads(f)
    BY <1>6, <2>1, Zenon DEF Serves
  <2>3. Leads(g)
    BY <2>2, Zenon
  <2>4. Outcome(done) = g[Len(batch)]
    BY Zenon DEF Outcome
  <2> HIDE DEF g
  <2>5. Serves(g, done)
    BY <2>1, <2>3, Zenon DEF Serves
  <2>6. g[Len(done)] = f[Len(done)]
    BY <1>6, <1>8, <2>5, OneOutcome
  <2> QED
    BY <1>6, <2>1, <2>4, <2>6, Zenon
<1>13. /\ s.chain = [k \in DOMAIN chain |-> Range(chain[k])]
       /\ s.pool = Range(pending_transactions) /\ s.root = root
       /\ s.failed = {i \in DOMAIN batch : stage[i] = "failed"}
  BY <1>1, <1>5 DEF Now, Blocks, Failed
<1> QED
  BY <1>11, <1>12, <1>13, Zenon

(* A batch ends as its members would have ended one after another, in some order that keeps
   the actions in turn, with the same chain, pool, nonces and failures: the action queue of
   lib/statemanager.js and processNextBlock keep them apart, although provider.js sends them
   all at once and svm_mine passes the queue by.  Unless, that is, a sender's nonce was read
   while svm_mine made a block, or before one that failed: then overlapped is set. *)
THEOREM ServedOneByOne == Spec => []AsIfOneByOne
<1>1. Init => IInv /\ OrderInv
  BY InitialInvariant, OrderInit
<1>2. IInv /\ OrderInv /\ [Next]_vars => (IInv /\ OrderInv)'
  BY NextInvariant, OrderNext
<1>3. IInv /\ OrderInv => AsIfOneByOne
  BY OrderTells DEF AsIfOneByOne
<1> QED
  BY <1>1, <1>2, <1>3, PTL DEF Spec
=============================================================================
