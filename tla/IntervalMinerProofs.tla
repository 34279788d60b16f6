------------------------ MODULE IntervalMinerProofs ------------------------
(***************************************************************************)
(* For any tokens and any number of requests: a manager that mines has one *)
(* miner that will go on, one that was stopped has none.  With the types   *)
(* that is inductive as it stands: a callback may arm a timer only with a  *)
(* token that is not cancelled, which OneMiner says is the manager's own.  *)
(***************************************************************************)
EXTENDS IntervalMiner, SequenceTheorems, TLAPS

IInv == TypeOK /\ OneMiner

(* The tokens whose svm_mine is queued, after a request joins the queue. *)
LEMMA SentAppend ==
  ASSUME NEW q \in Requests, requestQueue \in Seq(Requests),
         requestQueue' = Append(requestQueue, q)
  PROVE  Sent' = Sent \cup {t \in Tokens : q = MineFor(t)}
<1>1. /\ Len(requestQueue') = Len(requestQueue) + 1
      /\ requestQueue'[Len(requestQueue) + 1] = q
      /\ \A i \in 1..Len(requestQueue) : requestQueue'[i] = requestQueue[i]
      /\ DOMAIN requestQueue = 1..Len(requestQueue) /\ DOMAIN requestQueue' = 1..Len(requestQueue')
      /\ Len(requestQueue) \in Nat
  BY AppendProperties, LenProperties
<1>2. ASSUME NEW t PROVE (\E i \in DOMAIN requestQueue' : requestQueue'[i] = MineFor(t))
                          <=> (\E i \in DOMAIN requestQueue : requestQueue[i] = MineFor(t))
                              \/ q = MineFor(t)
  BY <1>1
<1> QED
  BY <1>2 DEF Sent

(* And after its head is served. *)
LEMMA SentTail ==
  ASSUME requestQueue \in Seq(Requests), requestQueue # <<>>,
         requestQueue' = Tail(requestQueue)
  PROVE  Sent = Sent' \cup {t \in Tokens : Head(requestQueue) = MineFor(t)}
<1>1. /\ Len(requestQueue') = Len(requestQueue) - 1
      /\ \A i \in 1..(Len(requestQueue) - 1) : requestQueue'[i] = requestQueue[i + 1]
      /\ DOMAIN requestQueue = 1..Len(requestQueue) /\ DOMAIN requestQueue' = 1..Len(requestQueue')
      /\ Len(requestQueue) \in Nat /\ Len(requestQueue) > 0
      /\ Head(requestQueue) = requestQueue[1]
  BY HeadTailProperties, LenProperties, EmptySeq
<1>2. ASSUME NEW t PROVE (\E i \in DOMAIN requestQueue : requestQueue[i] = MineFor(t))
                          <=> (\E i \in DOMAIN requestQueue' : requestQueue'[i] = MineFor(t))
                              \/ Head(requestQueue) = MineFor(t)
  <2>1. ASSUME NEW i \in DOMAIN requestQueue, requestQueue[i] = MineFor(t)
        PROVE  \/ \E j \in DOMAIN requestQueue' : requestQueue'[j] = MineFor(t)
               \/ Head(requestQueue) = MineFor(t)
    <3>1. CASE i = 1
      BY <3>1, <2>1, <1>1
    <3>2. CASE i # 1
      <4>1. i - 1 \in DOMAIN requestQueue' /\ requestQueue'[i - 1] = requestQueue[i]
        BY <3>2, <1>1
      <4> QED
        BY <4>1, <2>1
    <3> QED
      BY <3>1, <3>2
  <2>2. ASSUME NEW j \in DOMAIN requestQueue', requestQueue'[j] = MineFor(t)
        PROVE  \E i \in DOMAIN requestQueue : requestQueue[i] = MineFor(t)
    <3>1. j + 1 \in DOMAIN requestQueue /\ requestQueue[j + 1] = requestQueue'[j]
      BY <1>1
    <3> QED
      BY <3>1, <2>2
  <2>3. ASSUME Head(requestQueue) = MineFor(t)
        PROVE  \E i \in DOMAIN requestQueue : requestQueue[i] = MineFor(t)
    BY <2>3, <1>1
  <2> QED
    BY <2>1, <2>2, <2>3
<1> QED
  BY <1>2 DEF Sent

(* The requests that a client sends are no timer's. *)
LEMMA ClientsAreNoTimers ==
  /\ Start # Stop
  /\ \A t : MineFor(t) # Start /\ MineFor(t) # Stop /\ (\A u : MineFor(t) = MineFor(u) => t = u)
  BY DEF MineFor, Start, Stop

(* Starting and stopping, with whatever is queued and on its way back as it was. *)
LEMMA StartStep ==
  ASSUME IInv, startMining, Sent' = Sent, answered' = answered
  PROVE  OneMiner' /\ is_mining' \in BOOLEAN /\ cancelled' \subseteq Tokens
         /\ minerCancellationToken' \in Tokens \cup {NoToken}
         /\ mining_interval_timeout' \in Tokens \cup {NoToken}
<1> USE TokensAssumption DEF IInv, TypeOK
<1>1. CASE is_mining
  BY <1>1 DEF startMining, OneMiner, Live
<1>2. CASE ~is_mining
  <2>1. PICK t \in Tokens :
          /\ Fresh(t)
          /\ minerCancellationToken' = t /\ mining_interval_timeout' = t
          /\ cancelled' = cancelPrevious \ {t}
    BY <1>2 DEF startMining, mineOnInterval
  <2>2. (Sent \cup answered) \subseteq cancelled /\ t \notin Sent /\ t \notin answered
    BY <1>2, <2>1 DEF OneMiner, Live, Fresh, Held
  <2>3. Live' = {t}
    BY <2>1, <2>2 DEF Live, cancelPrevious
  <2> QED
    BY <1>2, <2>1, <2>3 DEF OneMiner, startMining, cancelPrevious
<1> QED
  BY <1>1, <1>2

LEMMA StopStep ==
  ASSUME IInv, stopMining, Sent' = Sent, answered' = answered
  PROVE  OneMiner' /\ is_mining' \in BOOLEAN /\ cancelled' \subseteq Tokens
         /\ minerCancellationToken' \in Tokens \cup {NoToken}
         /\ mining_interval_timeout' \in Tokens \cup {NoToken}
<1> USE TokensAssumption DEF IInv, TypeOK
<1>1. CASE is_mining
  <2>1. Sent \cup answered \subseteq cancelled \cup {minerCancellationToken} /\ NoToken \notin Sent \cup answered
    BY <1>1 DEF OneMiner, Live, Sent
  <2>2. Live' = {}
    BY <1>1, <2>1 DEF Live, stopMining, cancelPrevious
  <2> QED
    BY <1>1, <2>2 DEF OneMiner, stopMining, cancelPrevious
<1>2. CASE ~is_mining
  BY <1>2 DEF stopMining, OneMiner, Live
<1> QED
  BY <1>1, <1>2

LEMMA InitIInv == Init => IInv
<1> SUFFICES ASSUME Init PROVE IInv
  OBVIOUS
<1>1. TypeOK
  BY EmptySeq DEF Init, TypeOK
<1>2. OneMiner
  <2>1. Sent = {}
    BY EmptySeq DEF Init, Sent
  <2> QED
    BY <2>1, TokensAssumption DEF Init, OneMiner, Live
<1> QED
  BY <1>1, <1>2 DEF IInv

LEMMA FireStep ==
  ASSUME IInv, timerFires
  PROVE  IInv'
<1>1. MineFor(mining_interval_timeout) \in Requests /\ mining_interval_timeout \in Tokens
  BY DEF IInv, TypeOK, timerFires, Requests
<1>2. TypeOK'
  BY <1>1, AppendProperties DEF IInv, TypeOK, timerFires
<1>3. Sent' = Sent \cup {mining_interval_timeout}
  BY <1>1, SentAppend, ClientsAreNoTimers DEF IInv, TypeOK, timerFires
<1>4. Live' = Live
  BY <1>1, <1>3, TokensAssumption DEF Live, timerFires
<1> QED
  BY <1>2, <1>4 DEF IInv, OneMiner, timerFires

LEMMA SendStep ==
  ASSUME IInv, NEW q \in {Start, Stop}, clientSends(q)
  PROVE  IInv'
<1>1. TypeOK'
  BY AppendProperties DEF IInv, TypeOK, clientSends, Requests
<1>2. Sent' = Sent
  <2>1. q \in Requests /\ requestQueue \in Seq(Requests) /\ requestQueue' = Append(requestQueue, q)
    BY DEF IInv, TypeOK, clientSends, Requests
  <2>2. {t \in Tokens : q = MineFor(t)} = {}
    BY ClientsAreNoTimers
  <2> QED
    BY <2>1, <2>2, SentAppend
<1> QED
  BY <1>1, <1>2 DEF IInv, OneMiner, Live, clientSends

LEMMA ServeStep ==
  ASSUME IInv, serve
  PROVE  IInv'
<1> DEFINE q == Head(requestQueue)
<1>1. q \in Requests /\ requestQueue' \in Seq(Requests)
  BY HeadTailProperties DEF IInv, TypeOK, serve
<1>2. Sent = Sent' \cup {t \in Tokens : q = MineFor(t)}
  BY SentTail DEF IInv, TypeOK, serve
<1>3. CASE q = Start
  <2>1. startMining /\ UNCHANGED <<answered, closed>>
    BY <1>3, ClientsAreNoTimers DEF serve
  <2>2. Sent' = Sent
    BY <1>2, <1>3, ClientsAreNoTimers
  <2> QED
    BY <1>1, <2>1, <2>2, StartStep DEF IInv, TypeOK
<1>4. CASE q = Stop
  <2>1. stopMining /\ UNCHANGED <<answered, closed>>
    BY <1>4, ClientsAreNoTimers DEF serve
  <2>2. Sent' = Sent
    BY <1>2, <1>4, ClientsAreNoTimers
  <2> QED
    BY <1>1, <2>1, <2>2, StopStep DEF IInv, TypeOK
<1>5. CASE \E t \in Tokens : q = MineFor(t)
  <2>1. PICK t \in Tokens : q = MineFor(t)
    BY <1>5
  <2>2. /\ answered' = answered \cup {t}
        /\ UNCHANGED <<is_mining, minerCancellationToken, cancelled, mining_interval_timeout, closed>>
    BY <2>1, ClientsAreNoTimers DEF serve
  <2>3. Sent' \cup answered' = Sent \cup answered
    BY <1>2, <2>1, <2>2, ClientsAreNoTimers
  <2>4. Live' = Live
    BY <2>2, <2>3 DEF Live
  <2> QED
    BY <1>1, <2>2, <2>4 DEF IInv, TypeOK, OneMiner
<1> QED
  BY <1>1, <1>3, <1>4, <1>5 DEF Requests

LEMMA CallbackStep ==
  ASSUME IInv, NEW t \in Tokens, minedCallback(t)
  PROVE  IInv'
<1> USE TokensAssumption
<1>1. Sent' = Sent /\ answered' = answered \ {t} /\ t \in answered
  BY DEF minedCallback, Sent
<1>2. CASE t \in cancelled
  <2>1. UNCHANGED <<is_mining, minerCancellationToken, cancelled, mining_interval_timeout,
                    requestQueue, closed>>
    BY <1>2 DEF minedCallback, mayRearm
  <2>2. Live' = Live
    BY <1>1, <1>2, <2>1 DEF Live
  <2> QED
    BY <1>1, <2>1, <2>2 DEF IInv, TypeOK, OneMiner
<1>3. CASE t \notin cancelled
  <2>1. is_mining /\ Live = {minerCancellationToken}
    BY <1>1, <1>3 DEF IInv, TypeOK, OneMiner, Live
  <2>2. PICK u \in Tokens :
          /\ Fresh(u)
          /\ minerCancellationToken' = u /\ mining_interval_timeout' = u
          /\ cancelled' = cancelPrevious \ {u}
    BY <1>3, <2>1 DEF minedCallback, mayRearm, mineOnInterval
  <2>3. u \notin Sent /\ u \notin answered
    BY <2>2 DEF Fresh, Held
  <2>4. Sent \cup answered \subseteq cancelled \cup {minerCancellationToken}
        /\ NoToken \notin Sent \cup answered
    BY <2>1 DEF Live, IInv, TypeOK, Sent
  <2>5. Live' = {u}
    BY <1>1, <2>2, <2>3, <2>4 DEF Live, cancelPrevious
  <2> QED
    BY <1>1, <2>1, <2>2, <2>5 DEF IInv, TypeOK, OneMiner, cancelPrevious, minedCallback
<1> QED
  BY <1>2, <1>3

LEMMA CloseStep ==
  ASSUME IInv, close
  PROVE  IInv'
<1>1. Sent' = Sent /\ stopMining /\ UNCHANGED <<requestQueue, answered>> /\ closed' = TRUE
  BY DEF close, Sent
<1> QED
  BY <1>1, StopStep DEF IInv, TypeOK

THEOREM IInvHolds == Spec => []IInv
<1>1. IInv /\ [Next]_vars => IInv'
  <2> SUFFICES ASSUME IInv, [Next]_vars PROVE IInv'
    OBVIOUS
  <2>1. CASE timerFires
    BY <2>1, FireStep
  <2>2. CASE serve
    BY <2>2, ServeStep
  <2>3. CASE close
    BY <2>3, CloseStep
  <2>4. CASE clientSends(Start) \/ clientSends(Stop)
    BY <2>4, SendStep
  <2>5. CASE \E t \in Tokens : minedCallback(t)
    BY <2>5, CallbackStep
  <2>6. CASE UNCHANGED vars
    BY <2>6 DEF vars, IInv, TypeOK, OneMiner, Live, Sent
  <2> QED
    BY <2>1, <2>2, <2>3, <2>4, <2>5, <2>6 DEF Next
<1> QED
  BY <1>1, InitIInv, PTL DEF Spec

(* Every variable of IntervalMiner keeps its type, for any tokens and any number of
   requests. *)
THEOREM IntervalMinerTypes == Spec => []TypeOK
<1>1. IInv => TypeOK
  BY DEF IInv
<1> QED
  BY <1>1, IInvHolds, PTL

(* However many starts, stops, timers and late answers there are, a manager that mines
   has exactly one miner that will go on, and a stopped one has none. *)
THEOREM OneMinerOnly == Spec => []OneMiner
<1>1. IInv => OneMiner
  BY DEF IInv
<1> QED
  BY <1>1, IInvHolds, PTL
=============================================================================
