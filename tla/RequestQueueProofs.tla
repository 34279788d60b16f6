------------------------- MODULE RequestQueueProofs -------------------------
(***************************************************************************)
(* For any set of requests: the queue of lib/provider.js serves one        *)
(* request at a time, in order, loses no wakeup and answers once.          *)
(***************************************************************************)
EXTENDS RequestQueue, SequenceTheorems, TLAPS

(* What is in the queue has been sent and is nowhere else, and once. *)
QueuedOnce ==
  /\ \A i \in DOMAIN requestQueue : stage[requestQueue[i]] = "queued"
  /\ \A i, j \in DOMAIN requestQueue : requestQueue[i] = requestQueue[j] => i = j

(* The flag and the engine, for all but a failed initialization. *)
FlagTells ==
  initialization # "failed" =>
    /\ InEngine # {} => requestInProgress
    /\ requestInProgress => InEngine # {}
    /\ \A r \in InEngine : started # <<>> /\ r = started[Len(started)]

IInv == TypeOK /\ QueuedOnce /\ FlagTells /\ NoLostWakeup /\ ServedInOrder /\ AnsweredOnce

USE DEF Stages

LEMMA InitIInv == Init => IInv
<1> SUFFICES ASSUME Init PROVE IInv
  OBVIOUS
<1> USE DEF Init
<1>1. <<>> \in Seq(Requests) /\ <<>> \o <<>> = <<>> /\ Len(<<>>) = 0
  BY EmptySeq, ConcatEmptySeq
<1>2. TypeOK
  BY <1>1 DEF TypeOK
<1>3. InEngine = {}
  BY DEF InEngine, At
<1>4. QueuedOnce /\ FlagTells
  BY <1>1, <1>3 DEF QueuedOnce, FlagTells
<1>5. NoLostWakeup /\ ServedInOrder /\ AnsweredOnce
  BY <1>1 DEF NoLostWakeup, ServedInOrder, AnsweredOnce
<1> QED
  BY <1>2, <1>4, <1>5 DEF IInv

(* Appending to a concatenation appends to its second part. *)
LEMMA AppendToConcat ==
  ASSUME NEW p \in Seq(Requests), NEW q \in Seq(Requests), NEW r \in Requests
  PROVE  Append(p \o q, r) = p \o Append(q, r)
  OBVIOUS

(* Sending appends to the queue and schedules a run. *)
LEMMA QueueStep ==
  ASSUME IInv, NEW r \in Requests, queueRequest(r)
  PROVE  IInv'
<1> USE DEF IInv, queueRequest
<1>1. TypeOK'
  BY AppendProperties DEF TypeOK
<1>2. QueuedOnce'
  <2>1. /\ requestQueue' = Append(requestQueue, r) /\ requestQueue \in Seq(Requests)
        /\ Len(requestQueue') = Len(requestQueue) + 1
        /\ requestQueue'[Len(requestQueue) + 1] = r
        /\ \A i \in 1..Len(requestQueue) : requestQueue'[i] = requestQueue[i]
    BY AppendProperties DEF TypeOK
  <2>2. \A i \in DOMAIN requestQueue : requestQueue[i] # r /\ requestQueue[i] \in Requests
    BY <2>1, ElementOfSeq DEF QueuedOnce
  <2> QED
    BY <2>1, <2>2 DEF QueuedOnce, TypeOK
<1>3. FlagTells'
  <2>1. InEngine' = InEngine
    BY DEF InEngine, At, TypeOK
  <2> QED
    BY <2>1 DEF FlagTells
<1>4. NoLostWakeup'
  BY DEF NoLostWakeup, TypeOK
<1>5. ServedInOrder'
  <2>1. Append(started \o requestQueue, r) = started \o Append(requestQueue, r)
    <3>1. started \in Seq(Requests) /\ requestQueue \in Seq(Requests)
      BY DEF TypeOK
    <3> QED
      BY <3>1, AppendToConcat, Zenon
  <2> QED
    BY <2>1 DEF ServedInOrder
<1>6. AnsweredOnce'
  BY DEF AnsweredOnce, TypeOK
<1> QED
  BY <1>1, <1>2, <1>3, <1>4, <1>5, <1>6

(* A run that goes on with an empty queue leaves all but its own schedule alone. *)
LEMMA EmptyRun ==
  ASSUME IInv, processRequestQueue, requestQueue = <<>>
  PROVE  IInv'
<1> USE DEF processRequestQueue, MayStart
<1> UNCHANGED <<requestQueue, requestInProgress, stage, started, initialization, answers, sent>>
    /\ immediates' \in Nat
  BY DEF IInv, TypeOK
<1> QED
  BY DEF IInv, TypeOK, QueuedOnce, FlagTells, InEngine, At, NoLostWakeup, ServedInOrder, AnsweredOnce

(* A run that hands the head of the queue over. *)
LEMMA HandOverStep ==
  ASSUME IInv, processRequestQueue, requestQueue # <<>>
  PROVE  IInv'
<1> DEFINE h == Head(requestQueue)
<1>1. /\ h \in Requests /\ stage[h] = "queued" /\ h = requestQueue[1]
      /\ Tail(requestQueue) \in Seq(Requests)
      /\ Len(Tail(requestQueue)) = Len(requestQueue) - 1
      /\ \A i \in 1..Len(Tail(requestQueue)) : Tail(requestQueue)[i] = requestQueue[i + 1]
      /\ Len(requestQueue) \in Nat /\ Len(requestQueue) > 0
  BY HeadTailProperties DEF IInv, TypeOK, QueuedOnce
<1>2. /\ requestInProgress = FALSE /\ requestInProgress' = TRUE
      /\ requestQueue' = Tail(requestQueue)
      /\ stage' = [stage EXCEPT ![h] = "arriving"]
      /\ started' = Append(started, h)
      /\ immediates' = immediates - 1 /\ immediates > 0
      /\ UNCHANGED <<initialization, answers, sent>>
  BY DEF processRequestQueue, MayStart, handOver, IInv, TypeOK
<1>3. /\ started' \in Seq(Requests)
      /\ Len(started') = Len(started) + 1 /\ started'[Len(started')] = h
  BY <1>1, <1>2, AppendProperties DEF IInv, TypeOK
<1>4. TypeOK'
  BY <1>1, <1>2, <1>3 DEF IInv, TypeOK
<1>5. QueuedOnce'
  <2>1. \A i \in 1..Len(Tail(requestQueue)) :
          /\ i + 1 \in DOMAIN requestQueue /\ 1 \in DOMAIN requestQueue
          /\ requestQueue[i + 1] \in Requests /\ stage[requestQueue[i + 1]] = "queued"
          /\ requestQueue[i + 1] # h
    <3> TAKE i \in 1..Len(Tail(requestQueue))
    <3>1. DOMAIN requestQueue = 1..Len(requestQueue)
      BY LenProperties DEF IInv, TypeOK
    <3>2. i + 1 \in DOMAIN requestQueue /\ 1 \in DOMAIN requestQueue /\ i + 1 # 1
      BY <1>1, <3>1
    <3>3. requestQueue[i + 1] \in Requests
      BY <3>1, <3>2, ElementOfSeq DEF IInv, TypeOK
    <3>4. stage[requestQueue[i + 1]] = "queued" /\ requestQueue[i + 1] # h
      BY <1>1, <3>2 DEF IInv, QueuedOnce
    <3> QED
      BY <3>2, <3>3, <3>4
  <2>2. DOMAIN Tail(requestQueue) = 1..Len(Tail(requestQueue))
    BY <1>1
  <2>3. \A i \in DOMAIN requestQueue' : stage'[requestQueue'[i]] = "queued"
    <3> TAKE i \in DOMAIN requestQueue'
    <3>1. i \in 1..Len(Tail(requestQueue))
      BY <1>2, <2>2
    <3>2. requestQueue'[i] = requestQueue[i + 1]
      BY <1>1, <1>2, <3>1
    <3> QED
      BY <1>2, <2>1, <3>1, <3>2 DEF IInv, TypeOK
  <2>4. \A i, j \in DOMAIN requestQueue' : requestQueue'[i] = requestQueue'[j] => i = j
    BY <1>1, <1>2, <2>1, <2>2 DEF IInv, QueuedOnce
  <2> QED
    BY <2>3, <2>4 DEF QueuedOnce
<1>6. FlagTells'
  <2> SUFFICES ASSUME initialization # "failed" PROVE FlagTells'
    BY <1>2 DEF FlagTells
  <2>1. InEngine = {}
    BY <1>2 DEF IInv, FlagTells
  <2>2. InEngine' = {h}
    BY <2>1, <1>1, <1>2 DEF InEngine, At, IInv, TypeOK
  <2> QED
    BY <2>2, <1>2, <1>3, EmptySeq DEF FlagTells
<1>7. NoLostWakeup'
  BY <1>2 DEF NoLostWakeup
<1>8. ServedInOrder'
  <2>1. sent = started \o requestQueue
    BY DEF IInv, ServedInOrder
  <2>2. requestQueue = <<h>> \o Tail(requestQueue)
    BY <1>1 DEF IInv, TypeOK
  <2>3. started' = started \o <<h>>
    BY <1>1, <1>2, AppendIsConcat DEF IInv, TypeOK
  <2>4. (started \o <<h>>) \o Tail(requestQueue) = started \o (<<h>> \o Tail(requestQueue))
    BY <1>1, ConcatAssociative DEF IInv, TypeOK
  <2> QED
    BY <1>2, <2>1, <2>2, <2>3, <2>4 DEF ServedInOrder
<1>9. AnsweredOnce'
  BY <1>1, <1>2 DEF AnsweredOnce, IInv, TypeOK
<1> QED
  BY <1>4, <1>5, <1>6, <1>7, <1>8, <1>9 DEF IInv

LEMMA BusyStep ==
  ASSUME IInv, processBusy
  PROVE  IInv'
  BY DEF processBusy, IInv, TypeOK, QueuedOnce, FlagTells, InEngine, At, NoLostWakeup,
         ServedInOrder, AnsweredOnce

(* A completion keeps the bookkeeping of the queue, whoever calls it. *)
LEMMA CompletionKeepsQueue ==
  ASSUME IInv, NEW r \in Requests, stage[r] # "queued", NEW s \in Stages \ {"queued"},
         Move(r, s), complete(r)
  PROVE  TypeOK' /\ QueuedOnce' /\ NoLostWakeup' /\ ServedInOrder'
<1> USE DEF Move, complete, reschedule, freeFlag, IInv
<1>1. TypeOK'
  <2>1. immediates' \in Nat
    BY DEF TypeOK
  <2>2. stage' \in [Requests -> Stages] /\ answers' \in [Requests -> Nat]
    BY DEF TypeOK
  <2> QED
    BY <2>1, <2>2 DEF TypeOK
<1>2. QueuedOnce'
  BY ElementOfSeq DEF QueuedOnce, TypeOK
<1>3. NoLostWakeup' /\ ServedInOrder'
  BY DEF NoLostWakeup, ServedInOrder, TypeOK
<1> QED
  BY <1>1, <1>2, <1>3

(* A request that moves on inside the engine, and nothing else. *)
LEMMA MoveInEngine ==
  ASSUME IInv, NEW r \in Requests, r \in InEngine,
         NEW s \in {"waiting", "released", "running"}, Move(r, s), Quiet
  PROVE  IInv'
<1> USE DEF Move, Quiet
<1>1. TypeOK'
  BY DEF IInv, TypeOK
<1>2. QueuedOnce'
  BY ElementOfSeq DEF QueuedOnce, IInv, TypeOK, InEngine, At
<1>3. FlagTells'
  <2>1. InEngine' = InEngine
    BY DEF InEngine, At, IInv, TypeOK
  <2> QED
    BY <2>1 DEF FlagTells, IInv
<1>4. NoLostWakeup' /\ ServedInOrder'
  BY DEF NoLostWakeup, ServedInOrder, IInv
<1>5. AnsweredOnce'
  BY DEF AnsweredOnce, IInv, TypeOK, InEngine, At
<1> QED
  BY <1>1, <1>2, <1>3, <1>4, <1>5 DEF IInv

(* The end of a request when initialization did not fail: it was the only one. *)
LEMMA EndStep ==
  ASSUME IInv, NEW r \in Requests, endRequest(r)
  PROVE  IInv'
<1>1. TypeOK' /\ QueuedOnce' /\ NoLostWakeup' /\ ServedInOrder'
  BY CompletionKeepsQueue DEF endRequest
<1>2. initialization' = initialization
  BY DEF endRequest, complete
<1>3. CASE initialization = "failed"
  BY <1>1, <1>2, <1>3 DEF IInv, FlagTells, AnsweredOnce
<1>4. CASE initialization # "failed"
  <2>1. r \in InEngine /\ \A q \in InEngine : q = r
    BY <1>4 DEF endRequest, InEngine, At, IInv, FlagTells
  <2>2. InEngine' = {}
    BY <2>1 DEF endRequest, Move, InEngine, At, IInv, TypeOK
  <2>3. FlagTells'
    BY <2>2 DEF endRequest, complete, freeFlag, FlagTells
  <2>4. AnsweredOnce'
    BY <1>4 DEF endRequest, complete, Move, AnsweredOnce, IInv, TypeOK
  <2> QED
    BY <1>1, <2>3, <2>4 DEF IInv
<1> QED
  BY <1>3, <1>4

LEMMA HandleStep ==
  ASSUME IInv, NEW r \in Requests, handleRequest(r)
  PROVE  IInv'
<1>1. CASE initialization = "failed"
  <2>1. TypeOK' /\ QueuedOnce' /\ NoLostWakeup' /\ ServedInOrder'
    BY <1>1, CompletionKeepsQueue DEF handleRequest
  <2>2. initialization' = "failed"
    BY <1>1 DEF handleRequest, complete
  <2> QED
    BY <2>1, <2>2 DEF IInv, FlagTells, AnsweredOnce
<1>2. CASE initialization # "failed"
  <2>1. r \in InEngine
    BY DEF handleRequest, InEngine, At
  <2> QED
    BY <1>2, <2>1, MoveInEngine DEF handleRequest
<1> QED
  BY <1>1, <1>2

LEMMA DelayedStep ==
  ASSUME IInv, NEW r \in Requests, delayedHandler(r)
  PROVE  IInv'
<1>1. CASE initialization = "failed"
  <2>1. TypeOK' /\ QueuedOnce' /\ NoLostWakeup' /\ ServedInOrder'
    BY <1>1, CompletionKeepsQueue DEF delayedHandler, endsEarly
  <2>2. initialization' = "failed"
    BY <1>1 DEF delayedHandler, endsEarly, complete
  <2> QED
    BY <2>1, <2>2 DEF IInv, FlagTells, AnsweredOnce
<1>2. CASE initialization # "failed"
  <2>1. r \in InEngine
    BY DEF delayedHandler, InEngine, At
  <2> QED
    BY <1>2, <2>1, MoveInEngine DEF delayedHandler, endsEarly
<1> QED
  BY <1>1, <1>2

LEMMA InitializationStep ==
  ASSUME IInv, NEW outcome \in InitOutcomes, initializationOver(outcome)
  PROVE  IInv'
<1> USE DEF initializationOver
<1>1. TypeOK'
  BY InitAssumption DEF IInv, TypeOK
<1>2. QueuedOnce'
  BY ElementOfSeq DEF QueuedOnce, IInv, TypeOK
<1>3. FlagTells'
  <2>1. InEngine' = InEngine
    BY DEF InEngine, At, IInv, TypeOK
  <2> QED
    BY <2>1 DEF FlagTells, IInv
<1>4. NoLostWakeup' /\ ServedInOrder'
  BY DEF NoLostWakeup, ServedInOrder, IInv
<1>5. AnsweredOnce'
  BY DEF AnsweredOnce, IInv, TypeOK
<1> QED
  BY <1>1, <1>2, <1>3, <1>4, <1>5 DEF IInv

LEMMA NextIInv == IInv /\ [Next]_vars => IInv'
<1> SUFFICES ASSUME IInv, [Next]_vars PROVE IInv'
  OBVIOUS
<1>1. CASE processRequestQueue
  BY <1>1, EmptyRun, HandOverStep
<1>2. CASE processBusy
  BY <1>2, BusyStep
<1>3. CASE Initializing
  BY <1>3, InitializationStep DEF Initializing
<1>4. CASE \E r \in Requests : Handling(r)
  BY <1>4, HandleStep, EndStep, DelayedStep DEF Handling
<1>5. CASE \E r \in Requests : queueRequest(r)
  BY <1>5, QueueStep
<1>6. CASE UNCHANGED vars
  BY <1>6 DEF vars, IInv, TypeOK, QueuedOnce, FlagTells, InEngine, At, NoLostWakeup,
              ServedInOrder, AnsweredOnce
<1> QED
  BY <1>1, <1>2, <1>3, <1>4, <1>5, <1>6 DEF Next

LEMMA IInvHolds == Spec => []IInv
  BY InitIInv, NextIInv, PTL DEF Spec

(* Every variable of the queue keeps its type. *)
THEOREM RequestQueueTypes == Spec => []TypeOK
<1>1. IInv => TypeOK
  BY DEF IInv
<1> QED
  BY <1>1, IInvHolds, PTL

(* Unless initialization failed, one request at a time is in the engine, and the flag
   says so. *)
THEOREM Serialised == Spec => []OneInEngine
<1>1. IInv => OneInEngine
  BY DEF IInv, FlagTells, OneInEngine, TypeOK
<1> QED
  BY <1>1, IInvHolds, PTL

(* A request that waits while none is served has a run scheduled for it. *)
THEOREM WakeupsKept == Spec => []NoLostWakeup
<1>1. IInv => NoLostWakeup
  BY DEF IInv
<1> QED
  BY <1>1, IInvHolds, PTL

(* Requests reach the engine in the order in which they were sent. *)
THEOREM InOrder == Spec => []ServedInOrder
<1>1. IInv => ServedInOrder
  BY DEF IInv
<1> QED
  BY <1>1, IInvHolds, PTL

(* Unless initialization failed, every request that ended was answered exactly once. *)
THEOREM OneAnswer == Spec => []AnsweredOnce
<1>1. IInv => AnsweredOnce
  BY DEF IInv
<1> QED
  BY <1>1, IInvHolds, PTL
=============================================================================
