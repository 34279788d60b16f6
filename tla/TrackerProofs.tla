---------------------------- MODULE TrackerProofs ----------------------------
(***************************************************************************)
(* The block tracker and what listens to it, for any connections, filters, *)
(* contents and bounds.                                                    *)
(*                                                                         *)
(* Subscriptions: the types, what a subscribed connection is sent, the two *)
(* tables of webSocketServer.js and the engine's, and what                 *)
(* block_tracker.js passes on.  TablesAgree is not inductive by itself:    *)
(* that a new subscription is in no table yet is Fresh, and that a         *)
(* connection that opens has nothing is Unborn.  Room says that the bounds *)
(* of the model leave a place for each subscription waited for.            *)
(*                                                                         *)
(* Filters, the second half: what the polls of a filter find and what they *)
(* answer, poll by poll.  A poll that goes on was begun while the filter   *)
(* was watched; the invariant says what it has found and set aside, and    *)
(* that nothing is answered while a filter is watched.                     *)
(***************************************************************************)
EXTENDS Subscriptions, BlockFilters, SequenceTheorems, FiniteSetTheorems, TLAPS

(* The requests that make a subscription. *)
Subscribes == {"subscribe", "subscribeInBatch"}

(* The bounds leave room for every subscription that is waited for. *)
Room == latestId + Waiting(Subscribes) <= MaxSubscriptions

(* What has not been made yet is nowhere. *)
Fresh ==
  /\ active \subseteq 1..latestId
  /\ \A c \in Connections : subscriptionsOf[c] \subseteq 1..latestId
  /\ \A id \in Ids : id > latestId => connectionOf[id] = NoConnection /\ heard[id] = <<>>

(* What is not open yet has nothing. *)
Unborn ==
  \A c \in Connections : connection[c] = "new" =>
    subscriptionsOf[c] = {} /\ \A id \in Ids : connectionOf[id] # c

(* A subscription was made after what had been announced by then. *)
SinceThen == \A id \in Ids : since[id] <= Len(announced)

(* The inductive invariant. *)
IInv == /\ TypeOK /\ Room /\ Fresh /\ Unborn /\ SinceThen
        /\ HearsEveryBlock /\ TablesAgree /\ NoSubscriptionForgotten
-----------------------------------------------------------------------------
(* How many requests to subscribe wait. *)

Places(q) == {i \in DOMAIN q : q[i].kind \in Subscribes}

(* They are finitely many. *)
LEMMA PlacesFinite ==
  ASSUME NEW S, NEW q \in Seq(S)
  PROVE  IsFiniteSet(Places(q)) /\ Cardinality(Places(q)) \in Nat
<1>1. Len(q) \in Int /\ 1 \in Int /\ DOMAIN q = 1..Len(q)
  BY LenProperties
<1>2. IsFiniteSet(1..Len(q))
  BY <1>1, FS_Interval
<1>3. Places(q) \in SUBSET (1..Len(q))
  BY <1>1 DEF Places
<1> QED
  BY <1>2, <1>3, FS_Subset, FS_CardinalityType

(* A request more. *)
LEMMA OneMoreWaits ==
  ASSUME NEW S, NEW q \in Seq(S), NEW r \in S
  PROVE  Cardinality(Places(Append(q, r))) =
           Cardinality(Places(q)) + IF r.kind \in Subscribes THEN 1 ELSE 0
<1>1. /\ Len(q) \in Nat /\ DOMAIN q = 1..Len(q) /\ DOMAIN Append(q, r) = 1..(Len(q) + 1)
      /\ \A i \in 1..Len(q) : Append(q, r)[i] = q[i]
      /\ Append(q, r)[Len(q) + 1] = r
  BY LenProperties, AppendProperties
<1>2. Places(Append(q, r)) = Places(q) \cup IF r.kind \in Subscribes THEN {Len(q) + 1} ELSE {}
  BY <1>1 DEF Places
<1>3. Len(q) + 1 \notin Places(q)
  BY <1>1 DEF Places
<1>4. IsFiniteSet(Places(q)) /\ Cardinality(Places(q)) \in Nat
  BY PlacesFinite
<1>5. CASE r.kind \in Subscribes
  BY <1>2, <1>3, <1>4, <1>5, FS_AddElement
<1>6. CASE r.kind \notin Subscribes
  BY <1>2, <1>4, <1>6
<1> QED
  BY <1>5, <1>6

(* Requests of close handlers do not count. *)
LEMMA NoMoreWait ==
  ASSUME NEW S, NEW q \in Seq(S), NEW d \in Seq(S), \A i \in DOMAIN d : d[i].kind \notin Subscribes
  PROVE  Cardinality(Places(q \o d)) = Cardinality(Places(q))
<1>1. /\ Len(q) \in Nat /\ DOMAIN q = 1..Len(q) /\ Len(d) \in Nat /\ DOMAIN d = 1..Len(d)
      /\ q \o d \in Seq(S) /\ Len(q \o d) = Len(q) + Len(d)
      /\ \A i \in 1..(Len(q) + Len(d)) : (q \o d)[i] = IF i <= Len(q) THEN q[i] ELSE d[i - Len(q)]
  BY LenProperties, ConcatProperties
<1>2. DOMAIN (q \o d) = 1..(Len(q) + Len(d))
  BY <1>1, LenProperties
<1>3. \A i \in 1..(Len(q) + Len(d)) : i > Len(q) => (q \o d)[i].kind \notin Subscribes
  <2> TAKE i \in 1..(Len(q) + Len(d))
  <2> HAVE i > Len(q)
  <2>1. i - Len(q) \in DOMAIN d
    BY <1>1
  <2> QED
    BY <1>1, <2>1
<1>4. \A i : i \in Places(q \o d) <=> i \in Places(q)
  BY <1>1, <1>2, <1>3 DEF Places
<1>5. Places(q \o d) = Places(q)
  BY <1>4
<1> QED
  BY <1>5

(* The first request goes. *)
LEMMA OneLessWaits ==
  ASSUME NEW S, NEW q \in Seq(S), q # <<>>
  PROVE  Cardinality(Places(q)) =
           Cardinality(Places(Tail(q))) + IF Head(q).kind \in Subscribes THEN 1 ELSE 0
<1>1. /\ Len(q) \in Nat \ {0} /\ DOMAIN q = 1..Len(q) /\ Head(q) = q[1]
      /\ Tail(q) \in Seq(S) /\ DOMAIN Tail(q) = 1..(Len(q) - 1)
      /\ \A i \in 1..(Len(q) - 1) : Tail(q)[i] = q[i + 1]
  BY LenProperties, HeadTailProperties, EmptySeq
<1> DEFINE T == Places(q) \ {1}
           f == [i \in T |-> i - 1]
<1>2. \A i \in T : i \in 2..Len(q) /\ i - 1 \in 1..(Len(q) - 1) /\ (i - 1) + 1 = i
  BY <1>1 DEF Places
<1>3. \A i \in T : i - 1 \in Places(Tail(q))
  BY <1>1, <1>2 DEF Places
<1>4. \A i \in Places(Tail(q)) : i + 1 \in T /\ (i + 1) - 1 = i
  BY <1>1 DEF Places
<1>5. \A i, j \in T : i - 1 = j - 1 => i = j
  BY <1>2
<1> HIDE DEF T
<1>6. f \in Bijection(T, Places(Tail(q)))
  <2>1. f \in [T -> Places(Tail(q))] /\ DOMAIN f = T
    BY <1>3
  <2>2. IsInjective(f)
    BY <1>5 DEF IsInjective
  <2>3. \A t \in Places(Tail(q)) : \E i \in T : f[i] = t
    <3> TAKE t \in Places(Tail(q))
    <3>1. t + 1 \in T /\ f[t + 1] = t
      BY <1>4
    <3> QED
      BY <3>1
  <2> QED
    BY <2>1, <2>2, <2>3 DEF Bijection, Injection, Surjection
<1>7. IsFiniteSet(Places(q)) /\ Cardinality(Places(q)) \in Nat
  BY PlacesFinite
<1>8. IsFiniteSet(T) /\ Cardinality(T) =
        IF 1 \in Places(q) THEN Cardinality(Places(q)) - 1 ELSE Cardinality(Places(q))
  BY <1>7, FS_RemoveElement DEF T
<1>9. Cardinality(Places(Tail(q))) = Cardinality(T)
  BY <1>6, <1>8, FS_Bijection DEF ExistsBijection
<1>10. 1 \in Places(q) <=> Head(q).kind \in Subscribes
  BY <1>1 DEF Places
<1> QED
  BY <1>7, <1>8, <1>9, <1>10

(* What the guard of Send counts. *)
LEMMA WaitingIs == Waiting(Subscribes) = Cardinality(Places(requestQueue))
  BY DEF Waiting, Places

-----------------------------------------------------------------------------
(* Connections open, send and close. *)

(* The same after a step. *)
LEMMA WaitingIsNext == Waiting(Subscribes)' = Cardinality(Places(requestQueue'))
  BY DEF Waiting, Places

(* A connection opens: it had nothing before. *)
LEMMA ConnectKeeps ==
  ASSUME IInv, NEW c \in Connections, connect(c)
  PROVE  IInv'
<1>1. /\ connection[c] = "new"
      /\ connection' = [connection EXCEPT ![c] = "open"]
      /\ chain' = chain /\ currentBlock' = currentBlock /\ stored' = stored
      /\ announced' = announced /\ requestQueue' = requestQueue
      /\ subscriptionsOf' = subscriptionsOf /\ connectionOf' = connectionOf
      /\ active' = active /\ latestId' = latestId
      /\ heard' = heard /\ since' = since /\ missed' = missed
  BY DEF connect, trackerVars, tableVars, historyVars
<1>2. TypeOK /\ Room /\ Fresh /\ Unborn /\ SinceThen
      /\ HearsEveryBlock /\ TablesAgree /\ NoSubscriptionForgotten
  BY DEF IInv
<1>3. connection \in [Connections -> {"new", "open", "closed"}]
  BY <1>2 DEF TypeOK
<1>4. /\ connection'[c] = "open"
      /\ \A d \in Connections : d # c => connection'[d] = connection[d]
  BY <1>1, <1>3
<1>5. subscriptionsOf[c] = {} /\ \A id \in Ids : connectionOf[id] # c
  BY <1>1, <1>2 DEF Unborn
<1>6. TypeOK'
  BY <1>1, <1>2 DEF TypeOK, TrackerTypeOK
<1>7. Room'
  BY <1>1, <1>2, WaitingIs, WaitingIsNext DEF Room
<1>8. Fresh' /\ SinceThen' /\ HearsEveryBlock'
  BY <1>1, <1>2, ZenonT(30) DEF Fresh, SinceThen, HearsEveryBlock
<1>9. Unborn'
  BY <1>1, <1>2, <1>4 DEF Unborn
<1>10. TablesAgree'
  BY <1>1, <1>2, <1>4, <1>5 DEF TablesAgree, IsOpen
<1>11. NoSubscriptionForgotten'
  BY <1>1, <1>2, <1>4 DEF NoSubscriptionForgotten, IsOpen
<1> QED
  BY <1>6, <1>7, <1>8, <1>9, <1>10, <1>11 DEF IInv

(* A request is put last. *)
LEMMA SendKeeps ==
  ASSUME IInv, NEW r \in Requests, Send(r)
  PROVE  IInv'
<1>1. /\ HasRoom(r)
      /\ requestQueue' = Append(requestQueue, r)
      /\ connection' = connection
      /\ chain' = chain /\ currentBlock' = currentBlock /\ stored' = stored
      /\ announced' = announced
      /\ subscriptionsOf' = subscriptionsOf /\ connectionOf' = connectionOf
      /\ active' = active /\ latestId' = latestId
      /\ heard' = heard /\ since' = since /\ missed' = missed
  BY DEF Send, trackerVars, tableVars, historyVars
<1>2. TypeOK /\ Room /\ Fresh /\ Unborn /\ SinceThen
      /\ HearsEveryBlock /\ TablesAgree /\ NoSubscriptionForgotten
  BY DEF IInv
<1>3. requestQueue \in Seq(Requests) /\ latestId \in Nat
  BY <1>2 DEF TypeOK
<1>4. requestQueue' \in Seq(Requests)
  BY <1>1, <1>3, AppendProperties
<1>5. TypeOK'
  BY <1>1, <1>2, <1>4 DEF TypeOK, TrackerTypeOK
<1>6. Room'
  <2>1. Cardinality(Places(requestQueue')) =
          Cardinality(Places(requestQueue)) + IF r.kind \in Subscribes THEN 1 ELSE 0
    BY <1>1, <1>3, OneMoreWaits
  <2>2. Cardinality(Places(requestQueue)) \in Nat
    BY <1>3, PlacesFinite
  <2>3. r.kind \in Subscribes => latestId + Cardinality(Places(requestQueue)) < MaxSubscriptions
    BY <1>1, WaitingIs DEF HasRoom, Subscribes
  <2>4. latestId + Cardinality(Places(requestQueue)) <= MaxSubscriptions
    BY <1>2, WaitingIs DEF Room
  <2>5. latestId' + Cardinality(Places(requestQueue')) <= MaxSubscriptions
    BY <1>1, <1>3, <2>1, <2>2, <2>3, <2>4, SubscriptionBounds
  <2> QED
    BY <2>5, WaitingIsNext DEF Room
<1>7. Fresh' /\ SinceThen' /\ HearsEveryBlock' /\ Unborn' /\ TablesAgree'
  BY <1>1, <1>2, ZenonT(30)
     DEF Fresh, SinceThen, HearsEveryBlock, Unborn, TablesAgree, IsOpen
<1>8. \A i \in DOMAIN requestQueue : i \in DOMAIN requestQueue' /\ requestQueue'[i] = requestQueue[i]
  BY <1>1, <1>3, AppendProperties, LenProperties
<1>9. NoSubscriptionForgotten'
  BY <1>1, <1>2, <1>8 DEF NoSubscriptionForgotten, IsOpen
<1> QED
  BY <1>5, <1>6, <1>7, <1>9 DEF IInv

(* A client asks to subscribe or to end a subscription made so far. *)
LEMMA MessageKeeps ==
  ASSUME IInv, NEW c \in Connections, message(c)
  PROVE  IInv'
<1>1. latestId \in 0..MaxSubscriptions
  BY DEF IInv, TypeOK
<1>2. /\ [kind |-> "subscribe", from |-> c] \in Requests
      /\ [kind |-> "subscribeInBatch", from |-> c] \in Requests
  BY DEF Requests
<1>3. \A id \in 1..latestId :
        /\ [kind |-> "unsubscribe", from |-> c, id |-> id] \in Requests
        /\ [kind |-> "unsubscribeInBatch", from |-> c, id |-> id] \in Requests
  BY <1>1, SubscriptionBounds DEF Requests, Ids
<1>4. CASE Send([kind |-> "subscribe", from |-> c])
  BY <1>2, <1>4, SendKeeps
<1>5. CASE Send([kind |-> "subscribeInBatch", from |-> c])
  BY <1>2, <1>5, SendKeeps
<1>6. ASSUME NEW id \in 1..latestId, Send([kind |-> "unsubscribe", from |-> c, id |-> id])
      PROVE  IInv'
  BY <1>3, <1>6, SendKeeps
<1>7. ASSUME NEW id \in 1..latestId, Send([kind |-> "unsubscribeInBatch", from |-> c, id |-> id])
      PROVE  IInv'
  BY <1>3, <1>7, SendKeeps
<1> QED
  BY <1>4, <1>5, <1>6, <1>7 DEF message

(* A connection closes: what it had recorded is queued to be ended. *)
LEMMA CloseKeeps ==
  ASSUME IInv, NEW c \in Connections, close(c)
  PROVE  IInv'
<1>1. TypeOK /\ Room /\ Fresh /\ Unborn /\ SinceThen
      /\ HearsEveryBlock /\ TablesAgree /\ NoSubscriptionForgotten
  BY DEF IInv
<1>2. PICK ids \in InOrder(subscriptionsOf[c]) :
        requestQueue' = requestQueue \o [i \in DOMAIN ids |-> Drop(ids[i])]
  BY DEF close, RecordedOf
<1>3. /\ IsOpen(c)
      /\ connection' = [connection EXCEPT ![c] = "closed"]
      /\ subscriptionsOf' = [subscriptionsOf EXCEPT ![c] = {}]
      /\ chain' = chain /\ currentBlock' = currentBlock /\ stored' = stored
      /\ announced' = announced /\ connectionOf' = connectionOf
      /\ active' = active /\ latestId' = latestId
      /\ heard' = heard /\ since' = since /\ missed' = missed
  BY DEF close, trackerVars, historyVars
<1> DEFINE d == [i \in DOMAIN ids |-> Drop(ids[i])]
<1>4. /\ connection \in [Connections -> {"new", "open", "closed"}]
      /\ subscriptionsOf \in [Connections -> SUBSET Ids]
      /\ requestQueue \in Seq(Requests) /\ latestId \in Nat
  BY <1>1 DEF TypeOK
<1>5. Cardinality(subscriptionsOf[c]) \in Nat
  <2>1. 1 \in Int /\ MaxSubscriptions \in Int
    BY SubscriptionBounds
  <2>2. IsFiniteSet(1..MaxSubscriptions)
    BY <2>1, FS_Interval
  <2>3. subscriptionsOf[c] \in SUBSET (1..MaxSubscriptions)
    BY <1>4 DEF Ids
  <2> QED
    BY <2>2, <2>3, FS_Subset, FS_CardinalityType
<1>6. /\ ids \in [1..Cardinality(subscriptionsOf[c]) -> subscriptionsOf[c]]
      /\ Range(ids) = subscriptionsOf[c]
  BY DEF InOrder
<1>7. /\ DOMAIN ids = 1..Cardinality(subscriptionsOf[c])
      /\ \A i \in DOMAIN ids : ids[i] \in Ids /\ d[i] = Drop(ids[i])
  BY <1>4, <1>6
<1>8. \A id \in Ids : Drop(id) \in Requests /\ Drop(id).kind = "drop"
  BY DEF Drop, Requests
<1>9. d \in Seq(Requests) /\ Len(d) = Cardinality(subscriptionsOf[c]) /\ DOMAIN d = DOMAIN ids
  <2>1. d \in [1..Cardinality(subscriptionsOf[c]) -> Requests]
    BY <1>7, <1>8
  <2>2. d \in Seq(Requests)
    BY <1>5, <2>1, SeqDef
  <2>3. DOMAIN d = 1..Len(d) /\ Len(d) \in Nat
    BY <2>2, LenProperties
  <2> HIDE DEF d
  <2> QED
    BY <1>5, <1>7, <2>1, <2>2, <2>3
<1>10. \A i \in DOMAIN d : d[i].kind \notin Subscribes
  BY <1>7, <1>8, <1>9 DEF Subscribes
<1>11. requestQueue' = requestQueue \o d
  BY <1>2
<1> HIDE DEF d
<1>12. /\ requestQueue' \in Seq(Requests)
       /\ Len(requestQueue') = Len(requestQueue) + Len(d)
       /\ \A i \in 1..(Len(requestQueue) + Len(d)) :
            requestQueue'[i] = IF i <= Len(requestQueue) THEN requestQueue[i]
                                                        ELSE d[i - Len(requestQueue)]
  BY <1>4, <1>9, <1>11, ConcatProperties
<1>13. /\ Len(requestQueue) \in Nat /\ DOMAIN requestQueue = 1..Len(requestQueue)
       /\ Len(d) \in Nat /\ DOMAIN d = 1..Len(d)
       /\ DOMAIN requestQueue' = 1..(Len(requestQueue) + Len(d))
  BY <1>4, <1>9, <1>12, LenProperties
<1>14. TypeOK'
  BY <1>1, <1>3, <1>12 DEF TypeOK, TrackerTypeOK
<1>15. Room'
  <2>1. Cardinality(Places(requestQueue')) = Cardinality(Places(requestQueue))
    BY <1>4, <1>9, <1>10, <1>11, NoMoreWait
  <2> QED
    BY <1>1, <1>3, <2>1, WaitingIs, WaitingIsNext DEF Room
<1>16. /\ connection'[c] = "closed" /\ subscriptionsOf'[c] = {}
       /\ \A e \in Connections : e # c => /\ connection'[e] = connection[e]
                                          /\ subscriptionsOf'[e] = subscriptionsOf[e]
  BY <1>3, <1>4
<1>17. Fresh'
  BY <1>1, <1>3, <1>16 DEF Fresh
<1>18. SinceThen' /\ HearsEveryBlock'
  BY <1>1, <1>3, ZenonT(30) DEF SinceThen, HearsEveryBlock
<1>19. Unborn'
  BY <1>1, <1>3, <1>16 DEF Unborn
<1>20. TablesAgree'
  BY <1>1, <1>3, <1>16 DEF TablesAgree, IsOpen
<1>21. \A i \in DOMAIN requestQueue :
         i \in DOMAIN requestQueue' /\ requestQueue'[i] = requestQueue[i]
  BY <1>12, <1>13
<1>22. \A i \in DOMAIN d : /\ Len(requestQueue) + i \in DOMAIN requestQueue'
                           /\ requestQueue'[Len(requestQueue) + i] = d[i]
  <2> TAKE i \in DOMAIN d
  <2>1. /\ Len(requestQueue) + i \in 1..(Len(requestQueue) + Len(d))
        /\ ~(Len(requestQueue) + i <= Len(requestQueue))
        /\ (Len(requestQueue) + i) - Len(requestQueue) = i
    BY <1>13
  <2> QED
    BY <1>12, <1>13, <2>1
<1>23. \A id \in subscriptionsOf[c] : \E i \in DOMAIN requestQueue' : requestQueue'[i] = Drop(id)
  <2> TAKE id \in subscriptionsOf[c]
  <2>1. PICK i \in DOMAIN ids : ids[i] = id
    BY <1>6 DEF Range
  <2> QED
    BY <1>7, <1>9, <1>22, <2>1
<1>24. NoSubscriptionForgotten'
  <2> SUFFICES ASSUME NEW id \in active, id \notin missed,
                      ~ \E i \in DOMAIN requestQueue' : requestQueue'[i] = Drop(id)
               PROVE  \E e \in Connections : IsOpen(e)' /\ id \in subscriptionsOf'[e]
    BY <1>3 DEF NoSubscriptionForgotten, Drop
  <2>1. PICK e \in Connections : IsOpen(e) /\ id \in subscriptionsOf[e]
    BY <1>1, <1>21 DEF NoSubscriptionForgotten
  <2>2. e # c
    BY <1>23, <2>1
  <2> QED
    BY <1>16, <2>1, <2>2 DEF IsOpen
<1> QED
  BY <1>14, <1>15, <1>17, <1>18, <1>19, <1>20, <1>24 DEF IInv

-----------------------------------------------------------------------------
(* The queue is served: subscriptions are made. *)

(* The request at the head of the queue is gone; what else waited still does. *)
LEMMA TheRestWaits ==
  ASSUME IInv, requestQueue # <<>>, requestQueue' = Tail(requestQueue)
  PROVE  /\ requestQueue' \in Seq(Requests)
         /\ Head(requestQueue) \in Requests
         /\ \A id \in Ids :
              /\ Head(requestQueue) # Drop(id)
              /\ \E i \in DOMAIN requestQueue : requestQueue[i] = Drop(id)
              => \E i \in DOMAIN requestQueue' : requestQueue'[i] = Drop(id)
         /\ latestId + Cardinality(Places(requestQueue')) <= MaxSubscriptions
         /\ Head(requestQueue).kind \in Subscribes =>
              latestId + 1 + Cardinality(Places(requestQueue')) <= MaxSubscriptions
         /\ Cardinality(Places(requestQueue')) \in Nat
<1>1. requestQueue \in Seq(Requests) /\ latestId \in Nat
  BY DEF IInv, TypeOK
<1>2. /\ requestQueue' \in Seq(Requests) /\ Head(requestQueue) \in Requests
      /\ Head(requestQueue) = requestQueue[1]
      /\ DOMAIN requestQueue = 1..Len(requestQueue) /\ Len(requestQueue) \in Nat
      /\ DOMAIN requestQueue' = 1..(Len(requestQueue) - 1)
      /\ \A i \in 1..(Len(requestQueue) - 1) : requestQueue'[i] = requestQueue[i + 1]
  BY <1>1, LenProperties, HeadTailProperties, EmptySeq
<1>3. ASSUME NEW id \in Ids, Head(requestQueue) # Drop(id),
             NEW i \in DOMAIN requestQueue, requestQueue[i] = Drop(id)
      PROVE  \E j \in DOMAIN requestQueue' : requestQueue'[j] = Drop(id)
  <2>1. i # 1
    BY <1>2, <1>3
  <2>2. i - 1 \in DOMAIN requestQueue' /\ (i - 1) + 1 = i
    BY <1>2, <2>1
  <2>3. requestQueue'[i - 1] = Drop(id)
    BY <1>2, <1>3, <2>2
  <2> QED
    BY <2>2, <2>3
<1>4. Cardinality(Places(requestQueue)) =
        Cardinality(Places(requestQueue')) + IF Head(requestQueue).kind \in Subscribes THEN 1 ELSE 0
  BY <1>1, OneLessWaits
<1>5. Cardinality(Places(requestQueue')) \in Nat
  BY <1>2, PlacesFinite
<1>6. latestId + Cardinality(Places(requestQueue)) <= MaxSubscriptions
  BY WaitingIs DEF IInv, Room
<1>7. /\ latestId + Cardinality(Places(requestQueue')) <= MaxSubscriptions
      /\ Head(requestQueue).kind \in Subscribes =>
           latestId + 1 + Cardinality(Places(requestQueue')) <= MaxSubscriptions
  BY <1>1, <1>4, <1>5, <1>6, SubscriptionBounds
<1> QED
  BY <1>2, <1>3, <1>5, <1>7

(* What making a subscription does, recorded or not. *)
LEMMA CreateIs ==
  ASSUME IInv, create, latestId + 1 <= MaxSubscriptions
  PROVE  /\ latestId' = latestId + 1 /\ latestId' \in Ids /\ latestId' \in 0..MaxSubscriptions
         /\ active' = active \cup {latestId'} /\ latestId' \notin active
         /\ active' \subseteq 1..latestId' /\ 1..latestId \subseteq 1..latestId'
         /\ latestId' \in 1..latestId'
         /\ since' \in [Ids -> Nat] /\ since'[latestId'] = Len(announced)
         /\ \A id \in Ids : id # latestId' => since'[id] = since[id]
         /\ heard[latestId'] = <<>> /\ connectionOf[latestId'] = NoConnection
         /\ \A c \in Connections : latestId' \notin subscriptionsOf[c]
         /\ \A id \in Ids : id > latestId' => id > latestId /\ id # latestId'
         /\ chain' = chain /\ currentBlock' = currentBlock /\ stored' = stored
         /\ announced' = announced /\ connection' = connection /\ heard' = heard
         /\ TrackerTypeOK'
<1>1. /\ latestId' = latestId + 1
      /\ active' = active \cup {latestId'}
      /\ since' = [since EXCEPT ![latestId'] = Len(announced)]
      /\ chain' = chain /\ currentBlock' = currentBlock /\ stored' = stored
      /\ announced' = announced /\ connection' = connection /\ heard' = heard
  BY DEF create, trackerVars
<1>2. /\ latestId \in 0..MaxSubscriptions /\ announced \in Seq(Hashes)
      /\ since \in [Ids -> Nat] /\ TrackerTypeOK
  BY DEF IInv, TypeOK, TrackerTypeOK
<1>3. /\ active \subseteq 1..latestId
      /\ \A c \in Connections : subscriptionsOf[c] \subseteq 1..latestId
      /\ \A id \in Ids : id > latestId => connectionOf[id] = NoConnection /\ heard[id] = <<>>
  BY DEF IInv, Fresh
<1>4. /\ latestId' \in Ids /\ latestId' \in 0..MaxSubscriptions /\ latestId' > latestId
      /\ latestId' \notin 1..latestId /\ 1..latestId \subseteq 1..latestId'
      /\ latestId' \in 1..latestId'
      /\ \A id \in Ids : id > latestId' => id > latestId /\ id # latestId'
  BY <1>1, <1>2, SubscriptionBounds DEF Ids
<1>5. active' \subseteq 1..latestId' /\ latestId' \notin active
  BY <1>1, <1>3, <1>4
<1>6. Len(announced) \in Nat
  BY <1>2, LenProperties
<1>7. /\ since' \in [Ids -> Nat] /\ since'[latestId'] = Len(announced)
      /\ \A id \in Ids : id # latestId' => since'[id] = since[id]
  BY <1>1, <1>2, <1>4, <1>6
<1>8. heard[latestId'] = <<>> /\ connectionOf[latestId'] = NoConnection
  BY <1>3, <1>4
<1>9. \A c \in Connections : latestId' \notin subscriptionsOf[c]
  BY <1>3, <1>4
<1>10. TrackerTypeOK'
  BY <1>1, <1>2 DEF TrackerTypeOK
<1> QED
  BY <1>1, <1>4, <1>5, <1>7, <1>8, <1>9, <1>10

(* A new subscription begins where its connection is told from. *)
LEMMA CreateHears ==
  ASSUME IInv, create, latestId + 1 <= MaxSubscriptions,
         \A id \in Ids : id # latestId' => connectionOf'[id] = connectionOf[id]
  PROVE  HearsEveryBlock' /\ SinceThen'
<1>1. HearsEveryBlock /\ SinceThen /\ active \subseteq Ids /\ announced \in Seq(Hashes)
  BY DEF IInv, TypeOK, TrackerTypeOK
<1>2. Len(announced) \in Nat /\ Len(announced) + 1 \in Int /\ Len(announced) + 1 > Len(announced)
  BY <1>1, LenProperties
<1>3. SubSeq(announced, Len(announced) + 1, Len(announced)) = <<>>
  BY <1>1, <1>2, SubSeqProperties, EmptySeq
<1>4. SinceThen'
  BY <1>1, <1>2, CreateIs DEF SinceThen
<1>5. HearsEveryBlock'
  <2> SUFFICES ASSUME NEW id \in active', connectionOf'[id] # NoConnection
               PROVE  heard[id] = SubSeq(announced, since'[id] + 1, Len(announced))
    BY CreateIs, Zenon DEF HearsEveryBlock
  <2>1. CASE id = latestId'
    BY <1>3, <2>1, CreateIs
  <2>2. CASE id # latestId'
    <3>1. id \in active /\ id \in Ids /\ since'[id] = since[id] /\ connectionOf[id] # NoConnection
      BY <1>1, <2>2, CreateIs
    <3> QED
      BY <1>1, <3>1, Zenon DEF HearsEveryBlock
  <2> QED
    BY <2>1, <2>2
<1> QED
  BY <1>4, <1>5

(* A subscription is made alone: recorded in both tables, or its connection is gone. *)
LEMMA SubscribeKeeps ==
  ASSUME IInv, requestQueue # <<>>, requestQueue' = Tail(requestQueue),
         Head(requestQueue).kind = "subscribe", NEW c \in Connections, subscribe(c)
  PROVE  IInv'
<1>1. TypeOK /\ Room /\ Fresh /\ Unborn /\ SinceThen
      /\ HearsEveryBlock /\ TablesAgree /\ NoSubscriptionForgotten
  BY DEF IInv
<1>2. create /\ latestId \in 0..MaxSubscriptions
  BY <1>1 DEF subscribe, TypeOK
<1>3. Cardinality(Places(requestQueue')) \in Nat
      /\ latestId + 1 + Cardinality(Places(requestQueue')) <= MaxSubscriptions
  BY TheRestWaits DEF Subscribes
<1>4. latestId + 1 <= MaxSubscriptions
  BY <1>2, <1>3, SubscriptionBounds
<1> DEFINE n == latestId'
<1>5. /\ latestId' = latestId + 1 /\ n \in Ids /\ n \in 0..MaxSubscriptions
      /\ active' = active \cup {n} /\ n \notin active
      /\ active' \subseteq 1..n /\ 1..latestId \subseteq 1..n /\ n \in 1..n
      /\ since' \in [Ids -> Nat]
      /\ connectionOf[n] = NoConnection
      /\ \A e \in Connections : n \notin subscriptionsOf[e]
      /\ \A id \in Ids : id > n => id > latestId /\ id # n
      /\ connection' = connection /\ heard' = heard
      /\ TrackerTypeOK'
  BY <1>2, <1>4, CreateIs
<1>6. \/ /\ IsOpen(c)
         /\ subscriptionsOf' = [subscriptionsOf EXCEPT ![c] = @ \cup {n}]
         /\ connectionOf' = [connectionOf EXCEPT ![n] = c]
         /\ missed' = missed
      \/ /\ missed' = missed \cup {n}
         /\ subscriptionsOf' = subscriptionsOf /\ connectionOf' = connectionOf
  BY Zenon DEF subscribe, StillThere, Unrecorded
<1> HIDE DEF n
<1>7. /\ subscriptionsOf \in [Connections -> SUBSET Ids]
      /\ connectionOf \in [Ids -> Connections \cup {NoConnection}]
      /\ heard \in [Ids -> Seq(Hashes)] /\ missed \subseteq Ids /\ active \subseteq Ids
      /\ connection \in [Connections -> {"new", "open", "closed"}]
  BY <1>1 DEF TypeOK
<1>8. /\ subscriptionsOf' \in [Connections -> SUBSET Ids]
      /\ connectionOf' \in [Ids -> Connections \cup {NoConnection}]
      /\ missed' \subseteq Ids
      /\ \A id \in Ids : id # n => connectionOf'[id] = connectionOf[id]
      /\ \A e \in Connections : subscriptionsOf[e] \subseteq subscriptionsOf'[e]
                                /\ subscriptionsOf'[e] \subseteq subscriptionsOf[e] \cup {n}
  <2>1. CASE /\ IsOpen(c)
             /\ subscriptionsOf' = [subscriptionsOf EXCEPT ![c] = @ \cup {n}]
             /\ connectionOf' = [connectionOf EXCEPT ![n] = c]
             /\ missed' = missed
    <3>1. n \in Ids /\ subscriptionsOf[c] \cup {n} \in SUBSET Ids
      BY <1>5, <1>7
    <3>2. /\ connectionOf' \in [Ids -> Connections \cup {NoConnection}]
          /\ \A id \in Ids : id # n => connectionOf'[id] = connectionOf[id]
      BY <1>7, <2>1, <3>1
    <3>3. subscriptionsOf' \in [Connections -> SUBSET Ids]
      BY <1>7, <2>1, <3>1
    <3>4. \A e \in Connections :
            subscriptionsOf'[e] = IF e = c THEN subscriptionsOf[c] \cup {n} ELSE subscriptionsOf[e]
      BY <1>7, <2>1
    <3> QED
      BY <1>7, <2>1, <3>2, <3>3, <3>4
  <2>2. CASE /\ missed' = missed \cup {n}
             /\ subscriptionsOf' = subscriptionsOf /\ connectionOf' = connectionOf
    <3>1. n \in Ids
      BY <1>5
    <3>2. missed' \subseteq Ids
      BY <1>7, <2>2, <3>1
    <3> QED
      BY <1>7, <2>2, <3>2
  <2> QED
    BY <1>6, <2>1, <2>2
<1>9. n = latestId'
  BY DEF n
<1>10. TypeOK'
  BY <1>5, <1>7, <1>8, <1>9, TheRestWaits DEF TypeOK
<1>11. Room'
  BY <1>3, <1>5, WaitingIsNext DEF Room
<1>12. Fresh'
  BY <1>1, <1>5, <1>7, <1>8, <1>9 DEF Fresh
<1>13. Unborn'
  BY <1>1, <1>5, <1>6, <1>7 DEF Unborn, IsOpen
<1>14. HearsEveryBlock' /\ SinceThen'
  BY <1>2, <1>4, <1>8, <1>9, CreateHears
<1>15. TablesAgree'
  <2> SUFFICES ASSUME NEW id \in Ids \ missed', NEW e \in Connections
               PROVE  /\ connectionOf'[id] = e =>
                           id \in active' /\ (IsOpen(e) => id \in subscriptionsOf'[e])
                      /\ id \in subscriptionsOf'[e] /\ id \in active' =>
                           connectionOf'[id] = e /\ IsOpen(e)
    BY <1>5 DEF TablesAgree, IsOpen
  <2>1. CASE id # n
    BY <1>1, <1>5, <1>6, <1>7, <1>8, <2>1 DEF TablesAgree
  <2>2. CASE id = n
    BY <1>5, <1>6, <1>7, <2>2, ConnectionsAssumption
  <2> QED
    BY <2>1, <2>2
<1>16. NoSubscriptionForgotten'
  <2> SUFFICES ASSUME NEW id \in active'
               PROVE  \/ id \in missed'
                      \/ \E e \in Connections : IsOpen(e) /\ id \in subscriptionsOf'[e]
                      \/ \E i \in DOMAIN requestQueue' : requestQueue'[i] = Drop(id)
    BY <1>5, Zenon DEF NoSubscriptionForgotten, IsOpen, Drop
  <2>1. CASE id = n
    BY <1>6, <1>7, <2>1
  <2>2. CASE id # n
    <3>1. id \in active /\ id \in Ids
      BY <1>5, <1>7, <2>2
    <3>2. Head(requestQueue) # Drop(id)
      BY DEF Drop
    <3>3. missed \subseteq missed'
      BY <1>6
    <3> QED
      BY <1>1, <1>8, <3>1, <3>2, <3>3, TheRestWaits, Zenon DEF NoSubscriptionForgotten
  <2> QED
    BY <2>1, <2>2
<1> QED
  BY <1>10, <1>11, <1>12, <1>13, <1>14, <1>15, <1>16 DEF IInv

(* A subscription is made in a batch: never recorded. *)
LEMMA SubscribeInBatchKeeps ==
  ASSUME IInv, requestQueue # <<>>, requestQueue' = Tail(requestQueue),
         Head(requestQueue).kind = "subscribeInBatch", subscribeInBatch
  PROVE  IInv'
<1>1. TypeOK /\ Room /\ Fresh /\ Unborn /\ SinceThen
      /\ HearsEveryBlock /\ TablesAgree /\ NoSubscriptionForgotten
  BY DEF IInv
<1>2. create /\ latestId \in 0..MaxSubscriptions
  BY <1>1 DEF subscribeInBatch, TypeOK
<1>3. Cardinality(Places(requestQueue')) \in Nat
      /\ latestId + 1 + Cardinality(Places(requestQueue')) <= MaxSubscriptions
  BY TheRestWaits DEF Subscribes
<1>4. latestId + 1 <= MaxSubscriptions
  BY <1>2, <1>3, SubscriptionBounds
<1> DEFINE n == latestId'
<1>5. /\ latestId' = latestId + 1 /\ n \in Ids /\ n \in 0..MaxSubscriptions
      /\ active' = active \cup {n} /\ n \notin active
      /\ active' \subseteq 1..n /\ 1..latestId \subseteq 1..n /\ n \in 1..n
      /\ since' \in [Ids -> Nat]
      /\ \A id \in Ids : id > n => id > latestId /\ id # n
      /\ connection' = connection /\ heard' = heard
      /\ TrackerTypeOK'
  BY <1>2, <1>4, CreateIs
<1>6. /\ missed' = missed \cup {n}
      /\ subscriptionsOf' = subscriptionsOf /\ connectionOf' = connectionOf
  BY DEF subscribeInBatch, Unrecorded
<1> HIDE DEF n
<1>7. /\ subscriptionsOf \in [Connections -> SUBSET Ids]
      /\ connectionOf \in [Ids -> Connections \cup {NoConnection}]
      /\ heard \in [Ids -> Seq(Hashes)] /\ missed \subseteq Ids /\ active \subseteq Ids
      /\ connection \in [Connections -> {"new", "open", "closed"}]
  BY <1>1 DEF TypeOK
<1>9. n = latestId'
  BY DEF n
<1>10. TypeOK'
  BY <1>5, <1>6, <1>7, <1>9, TheRestWaits DEF TypeOK
<1>11. Room'
  BY <1>3, <1>5, WaitingIsNext DEF Room
<1>12. Fresh'
  BY <1>1, <1>5, <1>6, <1>9 DEF Fresh
<1>13. Unborn'
  BY <1>1, <1>5, <1>6 DEF Unborn
<1>14. HearsEveryBlock' /\ SinceThen'
  BY <1>2, <1>4, <1>6, CreateHears
<1>15. TablesAgree'
  BY <1>1, <1>5, <1>6 DEF TablesAgree, IsOpen
<1>16. NoSubscriptionForgotten'
  <2> SUFFICES ASSUME NEW id \in active', id # n
               PROVE  \/ id \in missed
                      \/ \E e \in Connections : IsOpen(e) /\ id \in subscriptionsOf[e]
                      \/ \E i \in DOMAIN requestQueue' : requestQueue'[i] = Drop(id)
    BY <1>5, <1>6 DEF NoSubscriptionForgotten, IsOpen, Drop
  <2>1. id \in active /\ id \in Ids
    BY <1>5, <1>7
  <2>2. Head(requestQueue) # Drop(id)
    BY DEF Drop
  <2> QED
    BY <1>1, <2>1, <2>2, TheRestWaits, Zenon DEF NoSubscriptionForgotten
<1> QED
  BY <1>10, <1>11, <1>12, <1>13, <1>14, <1>15, <1>16 DEF IInv

-----------------------------------------------------------------------------
(* The queue is served: subscriptions are ended. *)

(* A request for a subscription that is not there changes nothing but the queue. *)
LEMMA UnknownKeeps ==
  ASSUME IInv, requestQueue # <<>>, requestQueue' = Tail(requestQueue),
         UNCHANGED <<trackerVars, connection, tableVars, historyVars>>,
         \A id \in active : Head(requestQueue) # Drop(id)
  PROVE  IInv'
<1>1. /\ chain' = chain /\ currentBlock' = currentBlock /\ stored' = stored
      /\ announced' = announced /\ connection' = connection
      /\ subscriptionsOf' = subscriptionsOf /\ connectionOf' = connectionOf
      /\ active' = active /\ latestId' = latestId
      /\ heard' = heard /\ since' = since /\ missed' = missed
  BY DEF trackerVars, tableVars, historyVars
<1>2. TypeOK /\ Room /\ Fresh /\ Unborn /\ SinceThen
      /\ HearsEveryBlock /\ TablesAgree /\ NoSubscriptionForgotten /\ active \subseteq Ids
  BY DEF IInv, TypeOK
<1>3. TypeOK'
  BY <1>1, <1>2, TheRestWaits DEF TypeOK, TrackerTypeOK
<1>4. Room'
  BY <1>1, TheRestWaits, WaitingIsNext DEF Room
<1>5. Fresh' /\ SinceThen' /\ HearsEveryBlock' /\ Unborn' /\ TablesAgree'
  BY <1>1, <1>2, ZenonT(30)
     DEF Fresh, SinceThen, HearsEveryBlock, Unborn, TablesAgree, IsOpen
<1>6. NoSubscriptionForgotten'
  <2> SUFFICES ASSUME NEW id \in active
               PROVE  \/ id \in missed
                      \/ \E e \in Connections : IsOpen(e) /\ id \in subscriptionsOf[e]
                      \/ \E i \in DOMAIN requestQueue' : requestQueue'[i] = Drop(id)
    BY <1>1, Zenon DEF NoSubscriptionForgotten, IsOpen, Drop
  <2>1. id \in Ids
    BY <1>2
  <2> QED
    BY <1>2, <2>1, TheRestWaits, Zenon DEF NoSubscriptionForgotten
<1> QED
  BY <1>3, <1>4, <1>5, <1>6 DEF IInv

(* A subscription is ended: by its connection or another, behind the tables' back, or for a
   closed connection. *)
LEMMA EndKeeps ==
  ASSUME IInv, requestQueue # <<>>, requestQueue' = Tail(requestQueue),
         NEW id \in Ids, uninstall(id),
         \A other \in active : Head(requestQueue) = Drop(other) => other = id,
         subscriptionsOf' \in [Connections -> SUBSET Ids],
         \A c \in Connections : subscriptionsOf'[c] = subscriptionsOf[c]
                                \/ subscriptionsOf'[c] = subscriptionsOf[c] \ {id},
         \/ connectionOf' = [connectionOf EXCEPT ![id] = NoConnection] /\ missed' = missed
         \/ /\ connectionOf' = connectionOf
            /\ missed' = missed \cup {id}
            /\ subscriptionsOf' = subscriptionsOf
  PROVE  IInv'
<1>1. TypeOK /\ Room /\ Fresh /\ Unborn /\ SinceThen
      /\ HearsEveryBlock /\ TablesAgree /\ NoSubscriptionForgotten
  BY DEF IInv
<1>2. /\ active' = active \ {id}
      /\ heard' = [heard EXCEPT ![id] = <<>>]
      /\ since' = [since EXCEPT ![id] = 0]
      /\ chain' = chain /\ currentBlock' = currentBlock /\ stored' = stored
      /\ announced' = announced /\ connection' = connection /\ latestId' = latestId
  BY DEF uninstall, trackerVars
<1>3. /\ connectionOf \in [Ids -> Connections \cup {NoConnection}]
      /\ subscriptionsOf \in [Connections -> SUBSET Ids]
      /\ heard \in [Ids -> Seq(Hashes)] /\ since \in [Ids -> Nat]
      /\ missed \subseteq Ids /\ active \subseteq Ids
      /\ announced \in Seq(Hashes) /\ TrackerTypeOK
  BY <1>1 DEF TypeOK, TrackerTypeOK
<1>4. /\ connectionOf' \in [Ids -> Connections \cup {NoConnection}]
      /\ missed' \subseteq Ids /\ missed \subseteq missed' /\ missed' \subseteq missed \cup {id}
      /\ \A other \in Ids : other # id => connectionOf'[other] = connectionOf[other]
  BY <1>3
<1>5. /\ heard' \in [Ids -> Seq(Hashes)] /\ heard'[id] = <<>>
      /\ \A other \in Ids : other # id => heard'[other] = heard[other]
  <2>1. <<>> \in Seq(Hashes)
    BY EmptySeq
  <2> QED
    BY <1>2, <1>3, <2>1
<1>6. /\ since' \in [Ids -> Nat] /\ since'[id] = 0
      /\ \A other \in Ids : other # id => since'[other] = since[other]
  BY <1>2, <1>3
<1>7. TrackerTypeOK'
  BY <1>2, <1>3 DEF TrackerTypeOK
<1>8. TypeOK'
  <2>1. active' \subseteq Ids
    BY <1>2, <1>3
  <2>2. latestId' \in 0..MaxSubscriptions /\ connection' \in [Connections -> {"new", "open", "closed"}]
    BY <1>1, <1>2 DEF TypeOK
  <2> QED
    BY <1>4, <1>5, <1>6, <1>7, <2>1, <2>2, TheRestWaits DEF TypeOK
<1>9. Room'
  BY <1>2, TheRestWaits, WaitingIsNext DEF Room
<1>10. Fresh'
  <2>1. \A c \in Connections : subscriptionsOf'[c] \subseteq subscriptionsOf[c]
    OBVIOUS
  <2>2. connectionOf'[id] = connectionOf[id] \/ connectionOf'[id] = NoConnection
    BY <1>3
  <2> QED
    BY <1>1, <1>2, <1>3, <1>4, <1>5, <2>1, <2>2 DEF Fresh
<1>11. Unborn'
  <2>1. connectionOf'[id] = connectionOf[id] \/ connectionOf'[id] = NoConnection
    BY <1>3
  <2> QED
    BY <1>1, <1>2, <1>4, <2>1, ConnectionsAssumption DEF Unborn
<1>12. SinceThen'
  <2>1. Len(announced) \in Nat
    BY <1>3, LenProperties
  <2> QED
    BY <1>1, <1>2, <1>6, <2>1 DEF SinceThen
<1>13. HearsEveryBlock'
  <2> SUFFICES ASSUME NEW other \in active', connectionOf'[other] # NoConnection
               PROVE  heard'[other] = SubSeq(announced, since'[other] + 1, Len(announced))
    BY <1>2, Zenon DEF HearsEveryBlock
  <2>1. other \in active /\ other # id /\ other \in Ids
    BY <1>2, <1>3
  <2> QED
    BY <1>1, <1>4, <1>5, <1>6, <2>1, Zenon DEF HearsEveryBlock
<1>14. TablesAgree'
  <2> SUFFICES ASSUME NEW other \in Ids \ missed', NEW c \in Connections
               PROVE  /\ connectionOf'[other] = c =>
                           other \in active' /\ (IsOpen(c) => other \in subscriptionsOf'[c])
                      /\ other \in subscriptionsOf'[c] /\ other \in active' =>
                           connectionOf'[other] = c /\ IsOpen(c)
    BY <1>2 DEF TablesAgree, IsOpen
  <2>1. CASE other # id
    BY <1>1, <1>2, <1>4, <2>1 DEF TablesAgree
  <2>2. CASE other = id
    <3>1. connectionOf'[id] = NoConnection
      BY <1>3, <2>2
    <3> QED
      BY <1>2, <2>2, <3>1, ConnectionsAssumption
  <2> QED
    BY <2>1, <2>2
<1>15. NoSubscriptionForgotten'
  <2> SUFFICES ASSUME NEW other \in active'
               PROVE  \/ other \in missed'
                      \/ \E c \in Connections : IsOpen(c) /\ other \in subscriptionsOf'[c]
                      \/ \E i \in DOMAIN requestQueue' : requestQueue'[i] = Drop(other)
    BY <1>2, Zenon DEF NoSubscriptionForgotten, IsOpen, Drop
  <2>1. other \in active /\ other # id /\ other \in Ids
    BY <1>2, <1>3
  <2>2. \A c \in Connections : other \in subscriptionsOf[c] => other \in subscriptionsOf'[c]
    BY <2>1
  <2> QED
    BY <1>1, <1>4, <2>1, <2>2, TheRestWaits, Zenon DEF NoSubscriptionForgotten
<1> QED
  BY <1>8, <1>9, <1>10, <1>11, <1>12, <1>13, <1>14, <1>15 DEF IInv

(* The queue hands over one request. *)
LEMMA ServeKeeps ==
  ASSUME IInv, serve
  PROVE  IInv'
<1> DEFINE r == Head(requestQueue)
<1>1. requestQueue # <<>> /\ requestQueue' = Tail(requestQueue) /\ Handle(r)
  BY DEF serve
<1>2. r \in Requests
  BY <1>1, TheRestWaits
<1>3. \A id : Drop(id).kind = "drop" /\ Drop(id).id = id
  BY DEF Drop
<1>4. subscriptionsOf \in [Connections -> SUBSET Ids]
  BY DEF IInv, TypeOK
<1>5. CASE r.kind = "subscribe" /\ subscribe(r.from)
  <2>1. r.from \in Connections
    BY <1>2, <1>5 DEF Requests
  <2> QED
    BY <1>1, <1>5, <2>1, SubscribeKeeps
<1>6. CASE r.kind = "subscribeInBatch" /\ subscribeInBatch
  BY <1>1, <1>6, SubscribeInBatchKeeps
<1>7. CASE r.kind = "unsubscribe" /\ unsubscribe(r.from, r.id)
  <2>1. r.from \in Connections /\ r.id \in Ids
    BY <1>2, <1>7 DEF Requests
  <2>2. \A id : r # Drop(id)
    BY <1>3, <1>7
  <2>3. CASE Known(r.id)
    <3>1. /\ uninstall(r.id)
          /\ connectionOf' = [connectionOf EXCEPT ![r.id] = NoConnection]
          /\ subscriptionsOf' = [subscriptionsOf EXCEPT ![r.from] = @ \ {r.id}]
          /\ missed' = missed
      BY <1>7, <2>3, Zenon DEF unsubscribe, forgetConnection
    <3>2. \A c \in Connections : subscriptionsOf'[c] = subscriptionsOf[c]
                                 \/ subscriptionsOf'[c] = subscriptionsOf[c] \ {r.id}
      BY <1>4, <3>1
    <3>3. subscriptionsOf' \in [Connections -> SUBSET Ids]
      <4>1. subscriptionsOf[r.from] \ {r.id} \in SUBSET Ids
        BY <1>4, <2>1
      <4> QED
        BY <1>4, <3>1, <4>1
    <3> QED
      BY <1>1, <2>1, <2>2, <3>1, <3>2, <3>3, EndKeeps
  <2>4. CASE ~Known(r.id)
    BY <1>1, <1>7, <2>2, <2>4, UnknownKeeps, Zenon DEF unsubscribe
  <2> QED
    BY <2>3, <2>4
<1>8. CASE r.kind = "unsubscribeInBatch" /\ unsubscribeInBatch(r.id)
  <2>1. r.id \in Ids
    BY <1>2, <1>8 DEF Requests
  <2>2. \A id : r # Drop(id)
    BY <1>3, <1>8
  <2>3. CASE Known(r.id)
    <3>1. /\ uninstall(r.id) /\ missed' = missed \cup {r.id}
          /\ subscriptionsOf' = subscriptionsOf /\ connectionOf' = connectionOf
      BY <1>8, <2>3, Zenon DEF unsubscribeInBatch, Unrecorded
    <3> QED
      BY <1>1, <1>4, <2>1, <2>2, <3>1, EndKeeps
  <2>4. CASE ~Known(r.id)
    BY <1>1, <1>8, <2>2, <2>4, UnknownKeeps, Zenon DEF unsubscribeInBatch
  <2> QED
    BY <2>3, <2>4
<1>9. CASE r.kind = "drop" /\ dropSubscription(r.id)
  <2>1. r.id \in Ids
    BY <1>2, <1>9 DEF Requests
  <2>2. \A id : r = Drop(id) => id = r.id
    BY <1>3
  <2>3. CASE Known(r.id)
    <3>1. /\ uninstall(r.id) /\ missed' = missed
          /\ subscriptionsOf' = subscriptionsOf
          /\ connectionOf' = [connectionOf EXCEPT ![r.id] = NoConnection]
      BY <1>9, <2>3, Zenon DEF dropSubscription, forgetConnection
    <3> QED
      BY <1>1, <1>4, <2>1, <2>2, <3>1, EndKeeps
  <2>4. CASE ~Known(r.id)
    <3>1. \A id \in active : r # Drop(id)
      BY <2>2, <2>4 DEF Known
    <3> QED
      BY <1>1, <1>9, <2>4, <3>1, UnknownKeeps, Zenon DEF dropSubscription
  <2> QED
    BY <2>3, <2>4
<1> QED
  BY <1>1, <1>5, <1>6, <1>7, <1>8, <1>9 DEF Handle

-----------------------------------------------------------------------------
(* Blocks are stored and reverted. *)

(* What is left of a sequence after its first n members. *)
LEMMA TheEnd ==
  ASSUME NEW S, NEW q \in Seq(S), NEW n \in Nat, n <= Len(q)
  PROVE  /\ SubSeq(q, n + 1, Len(q)) \in Seq(S)
         /\ Len(SubSeq(q, n + 1, Len(q))) = Len(q) - n
         /\ \A i \in 1..(Len(q) - n) : SubSeq(q, n + 1, Len(q))[i] = q[n + i]
<1>1. Len(q) \in Nat /\ \A i \in 1..Len(q) : q[i] \in S
  BY LenProperties
<1>2. \A k \in Nat : n <= k =>
        /\ n + 1 \in Int /\ k \in Int
        /\ (IF n + 1 <= k THEN k - (n + 1) + 1 ELSE 0) = k - n
        /\ k - (n + 1) + 1 = k - n
        /\ \A i \in 1..(k - n) : (n + 1) + i - 1 = n + i
        /\ \A i \in (n + 1)..k : i \in 1..k
  OBVIOUS
<1>3. /\ n + 1 \in Int /\ Len(q) \in Int
      /\ (IF n + 1 <= Len(q) THEN Len(q) - (n + 1) + 1 ELSE 0) = Len(q) - n
      /\ Len(q) - (n + 1) + 1 = Len(q) - n
      /\ \A i \in 1..(Len(q) - n) : (n + 1) + i - 1 = n + i
      /\ \A i \in (n + 1)..Len(q) : i \in 1..Len(q)
  BY <1>1, <1>2, Zenon
<1>4. \A i \in (n + 1)..Len(q) : q[i] \in S
  BY <1>1, <1>3, Zenon
<1>5. /\ SubSeq(q, n + 1, Len(q)) \in Seq(S)
      /\ Len(SubSeq(q, n + 1, Len(q))) =
           IF n + 1 <= Len(q) THEN Len(q) - (n + 1) + 1 ELSE 0
      /\ \A i \in 1..(Len(q) - (n + 1) + 1) : SubSeq(q, n + 1, Len(q))[i] = q[(n + 1) + i - 1]
  <2>1. ASSUME NEW a \in Int, NEW b \in Int, \A i \in a..b : q[i] \in S
        PROVE  /\ SubSeq(q, a, b) \in Seq(S)
               /\ Len(SubSeq(q, a, b)) = IF a <= b THEN b - a + 1 ELSE 0
               /\ \A i \in 1..(b - a + 1) : SubSeq(q, a, b)[i] = q[a + i - 1]
    BY <2>1, SubSeqProperties
  <2> QED
    BY <1>3, <1>4, <2>1, Zenon
<1>6. \A i \in 1..(Len(q) - n) : SubSeq(q, n + 1, Len(q))[i] = q[n + i]
  <2> TAKE i \in 1..(Len(q) - n)
  <2>1. i \in 1..(Len(q) - (n + 1) + 1) /\ (n + 1) + i - 1 = n + i
    BY <1>3, Zenon
  <2> QED
    BY <1>5, <2>1, Zenon
<1> QED
  BY <1>3, <1>5, <1>6, Zenon

(* A sequence that grows by one keeps its ends. *)
LEMMA OneLonger ==
  ASSUME NEW S, NEW q \in Seq(S), NEW e \in S, NEW n \in Nat, n <= Len(q)
  PROVE  SubSeq(Append(q, e), n + 1, Len(Append(q, e))) = Append(SubSeq(q, n + 1, Len(q)), e)
<1>1. /\ Len(q) \in Nat /\ DOMAIN q = 1..Len(q)
      /\ Append(q, e) \in Seq(S) /\ Len(Append(q, e)) = Len(q) + 1
      /\ \A i \in 1..Len(q) : Append(q, e)[i] = q[i]
      /\ Append(q, e)[Len(q) + 1] = e
  BY LenProperties, AppendProperties
<1> DEFINE a == Append(q, e)
           p == SubSeq(q, n + 1, Len(q))
           s == SubSeq(a, n + 1, Len(a))
           m == Len(q) - n
<1>2. m \in Nat /\ n + 1 \in Nat /\ Len(q) = n + m /\ Len(a) = n + m + 1
  BY <1>1
<1>4. p \in Seq(S) /\ Len(p) = m /\ \A i \in 1..m : p[i] = q[n + i]
  BY TheEnd, Zenon
<1>6. s \in Seq(S) /\ Len(s) = m + 1 /\ \A i \in 1..(m + 1) : s[i] = a[n + i]
  <2>1. n <= Len(a) /\ Len(a) - n = m + 1 /\ a \in Seq(S)
    BY <1>1
  <2>2. /\ s \in Seq(S) /\ Len(s) = Len(a) - n
        /\ \A i \in 1..(Len(a) - n) : s[i] = a[n + i]
    BY <2>1, TheEnd, Zenon
  <2> QED
    BY <2>1, <2>2, Zenon
<1>7. /\ Append(p, e) \in Seq(S) /\ Len(Append(p, e)) = m + 1
      /\ \A i \in 1..m : Append(p, e)[i] = p[i]
      /\ Append(p, e)[m + 1] = e
  BY <1>4, AppendProperties
<1>8. \A i \in 1..m : n + i \in 1..Len(q)
  BY <1>1
<1>9. n + (m + 1) = Len(q) + 1
  BY <1>1
<1>10. \A i \in 1..m : i \in 1..(m + 1)
  BY <1>2
<1>11. m + 1 \in 1..(m + 1)
  BY <1>2
<1>12. \A i \in 1..(m + 1) : i \in 1..m \/ i = m + 1
  BY <1>2
<1>13. \A i \in 1..m : s[i] = Append(p, e)[i]
  <2> TAKE i \in 1..m
  <2>1. s[i] = a[n + i] /\ a[n + i] = q[n + i] /\ p[i] = q[n + i] /\ Append(p, e)[i] = p[i]
    BY <1>1, <1>4, <1>6, <1>7, <1>8, <1>10
  <2> QED
    BY <2>1
<1>14. s[m + 1] = Append(p, e)[m + 1]
  <2>1. s[m + 1] = a[n + (m + 1)]
    BY <1>6, <1>11, Zenon
  <2> QED
    BY <1>1, <1>7, <1>9, <2>1, Zenon
<1> HIDE DEF p, s, a, m
<1>15. \A i \in 1..Len(s) : s[i] = Append(p, e)[i]
  BY <1>6, <1>12, <1>13, <1>14
<1>16. s = Append(p, e)
  BY <1>6, <1>7, <1>15, SeqEqual
<1> QED
  BY <1>16 DEF s, p, a

(* A block is stored: every subscription with a connection is sent what the tracker says. *)
LEMMA MineKeeps ==
  ASSUME IInv, NEW content \in Contents, mine(content)
  PROVE  IInv'
<1>1. TypeOK /\ Room /\ Fresh /\ Unborn /\ SinceThen
      /\ HearsEveryBlock /\ TablesAgree /\ NoSubscriptionForgotten
  BY DEF IInv
<1>2. /\ chain' = Append(chain, content)
      /\ stored' = Append(stored, chain')
      /\ \/ currentBlock' = chain' /\ announced' = Append(announced, currentBlock')
         \/ currentBlock' = currentBlock /\ announced' = announced
      /\ heard' = [id \in Ids |-> IF id \in Told /\ announced' # announced
                                    THEN Append(heard[id], currentBlock') ELSE heard[id]]
      /\ requestQueue' = requestQueue /\ connection' = connection
      /\ subscriptionsOf' = subscriptionsOf /\ connectionOf' = connectionOf
      /\ active' = active /\ latestId' = latestId /\ since' = since /\ missed' = missed
  BY Zenon DEF mine, putBlock, setCurrentBlock, tableVars
<1>3. /\ chain \in Seq(Contents) /\ currentBlock \in Hashes /\ stored \in Seq(Hashes)
      /\ announced \in Seq(Hashes) /\ heard \in [Ids -> Seq(Hashes)] /\ active \subseteq Ids
      /\ since \in [Ids -> Nat] /\ connectionOf \in [Ids -> Connections \cup {NoConnection}]
  BY <1>1 DEF TypeOK, TrackerTypeOK, Hashes
<1>4. chain' \in Hashes
  BY <1>2, <1>3, AppendProperties DEF Hashes
<1>5. currentBlock' \in Hashes
  BY <1>2, <1>3, <1>4
<1>6. stored' \in Seq(Hashes) /\ announced' \in Seq(Hashes)
  <2>1. Append(announced, currentBlock') \in Seq(Hashes)
    BY <1>3, <1>5, AppendProperties
  <2> QED
    BY <1>2, <1>3, <1>4, <2>1, AppendProperties
<1>7. TrackerTypeOK'
  BY <1>4, <1>5, <1>6 DEF TrackerTypeOK
<1>8. heard' \in [Ids -> Seq(Hashes)]
  <2>1. \A id \in Ids : Append(heard[id], currentBlock') \in Seq(Hashes) /\ heard[id] \in Seq(Hashes)
    BY <1>3, <1>5, AppendProperties
  <2> QED
    BY <1>2, <2>1
<1>9. \A id \in Ids : heard'[id] = IF id \in Told /\ announced' # announced
                                     THEN Append(heard[id], currentBlock') ELSE heard[id]
  BY <1>2
<1>10. TypeOK'
  BY <1>1, <1>2, <1>7, <1>8 DEF TypeOK
<1>11. Room'
  BY <1>1, <1>2, WaitingIs, WaitingIsNext DEF Room
<1>12. Fresh'
  <2>1. \A id \in Ids : id > latestId => connectionOf[id] = NoConnection
    BY <1>1 DEF Fresh
  <2>2. \A id \in Ids : id > latestId => id \notin Told
    BY <2>1, ConnectionsAssumption DEF Told
  <2> QED
    BY <1>1, <1>2, <1>9, <2>2 DEF Fresh
<1>13. Unborn'
  BY <1>1, <1>2 DEF Unborn
<1>14. SinceThen'
  <2>1. Len(announced) \in Nat /\ (announced' = announced \/ Len(announced') = Len(announced) + 1)
    BY <1>2, <1>3, <1>5, AppendProperties, LenProperties
  <2> QED
    BY <1>1, <1>2, <1>3, <2>1 DEF SinceThen
<1>15. HearsEveryBlock'
  <2> SUFFICES ASSUME NEW id \in active, connectionOf[id] # NoConnection
               PROVE  heard'[id] = SubSeq(announced', since[id] + 1, Len(announced'))
    BY <1>2, Zenon DEF HearsEveryBlock
  <2>1. id \in Ids /\ id \in Told /\ since[id] \in Nat /\ since[id] <= Len(announced)
    BY <1>1, <1>3 DEF Told, SinceThen
  <2>2. heard[id] = SubSeq(announced, since[id] + 1, Len(announced))
    BY <1>1, Zenon DEF HearsEveryBlock
  <2>3. CASE announced' = announced
    BY <1>9, <2>1, <2>2, <2>3
  <2>4. CASE announced' # announced
    <3>1. announced' = Append(announced, currentBlock')
      BY <1>2, <2>4
    <3>2. heard'[id] = Append(heard[id], currentBlock')
      BY <1>9, <2>1, <2>4
    <3>3. SubSeq(Append(announced, currentBlock'), since[id] + 1, Len(Append(announced, currentBlock')))
            = Append(SubSeq(announced, since[id] + 1, Len(announced)), currentBlock')
      BY <1>3, <1>5, <2>1, OneLonger
    <3> QED
      BY <2>2, <3>1, <3>2, <3>3, Zenon
  <2> QED
    BY <2>3, <2>4
<1>16. TablesAgree'
  BY <1>1, <1>2 DEF TablesAgree, IsOpen
<1>17. NoSubscriptionForgotten'
  BY <1>1, <1>2, Zenon DEF NoSubscriptionForgotten, IsOpen, Drop
<1> QED
  BY <1>10, <1>11, <1>12, <1>13, <1>14, <1>15, <1>16, <1>17 DEF IInv

(* What neither the queue nor the tables see. *)
LEMMA OthersKeep ==
  ASSUME IInv, TrackerTypeOK', announced' = announced, requestQueue' = requestQueue,
         connection' = connection, subscriptionsOf' = subscriptionsOf,
         connectionOf' = connectionOf, active' = active, latestId' = latestId,
         heard' = heard, since' = since, missed' = missed
  PROVE  IInv'
<1>1. TypeOK /\ Room /\ Fresh /\ Unborn /\ SinceThen
      /\ HearsEveryBlock /\ TablesAgree /\ NoSubscriptionForgotten
  BY DEF IInv
<1>2. TypeOK'
  BY <1>1 DEF TypeOK
<1>3. Room'
  BY <1>1, WaitingIs, WaitingIsNext DEF Room
<1>4. Fresh' /\ SinceThen' /\ HearsEveryBlock'
  BY <1>1, ZenonT(30) DEF Fresh, SinceThen, HearsEveryBlock
<1>5. Unborn' /\ TablesAgree'
  BY <1>1, ZenonT(30) DEF Unborn, TablesAgree, IsOpen
<1>6. NoSubscriptionForgotten'
  BY <1>1, Zenon DEF NoSubscriptionForgotten, IsOpen, Drop
<1> QED
  BY <1>2, <1>3, <1>4, <1>5, <1>6 DEF IInv

(* A chain cut short is a chain. *)
LEMMA PopTypes ==
  ASSUME TrackerTypeOK, NEW height \in Nat, popTo(height)
  PROVE  TrackerTypeOK'
<1>1. chain \in Seq(Contents) /\ height < Len(chain)
  BY DEF TrackerTypeOK, Hashes, popTo
<1>2. /\ chain' = SubSeq(chain, 1, height)
      /\ currentBlock' = currentBlock /\ stored' = stored /\ announced' = announced
  BY DEF popTo, HashAt
<1>3. Len(chain) \in Nat /\ 1 \in Nat
  BY <1>1, LenProperties
<1>4. \A i \in 1..height : i \in 1..Len(chain)
  BY <1>1, <1>3
<1>5. chain' \in Seq(Contents)
  BY <1>1, <1>2, <1>3, <1>4, SubSeqProperties
<1> QED
  BY <1>2, <1>5 DEF TrackerTypeOK, Hashes

(* svm_revert: neither the queue nor the tables see it. *)
LEMMA RevertKeeps ==
  ASSUME IInv, NEW height \in 0..(MaxStored - 1), revert(height)
  PROVE  IInv'
<1>1. height \in Nat
  BY MaxStoredAssumption
<1>2. TrackerTypeOK'
  BY <1>1, PopTypes DEF revert, IInv, TypeOK
<1>3. /\ announced' = announced /\ requestQueue' = requestQueue
      /\ connection' = connection /\ subscriptionsOf' = subscriptionsOf
      /\ connectionOf' = connectionOf /\ active' = active /\ latestId' = latestId
      /\ heard' = heard /\ since' = since /\ missed' = missed
  BY DEF revert, popTo, tableVars, historyVars
<1> QED
  BY <1>2, <1>3, OthersKeep

(* The process starts over an empty database. *)
LEMMA Start ==
  ASSUME Init
  PROVE  IInv
<1>1. \A S : <<>> \in Seq(S)
  BY EmptySeq
<1>2. TypeOK
  BY <1>1, SubscriptionBounds DEF Init, TrackerInit, TypeOK, TrackerTypeOK, Genesis, Hashes
<1>3. Places(requestQueue) = {}
  <2>1. DOMAIN requestQueue = {}
    BY EmptySeq DEF Init
  <2> QED
    BY <2>1 DEF Places
<1>4. Room
  <2>1. Cardinality(Places(requestQueue)) = 0
    BY <1>3, FS_EmptySet
  <2> QED
    BY <2>1, WaitingIs, SubscriptionBounds DEF Room, Init
<1>5. Fresh /\ Unborn
  BY ConnectionsAssumption DEF Init, Fresh, Unborn
<1>6. SinceThen
  BY EmptySeq DEF Init, TrackerInit, SinceThen
<1>7. HearsEveryBlock /\ NoSubscriptionForgotten
  BY DEF Init, HearsEveryBlock, NoSubscriptionForgotten
<1>8. TablesAgree
  BY ConnectionsAssumption DEF Init, TablesAgree
<1> QED
  BY <1>2, <1>4, <1>5, <1>6, <1>7, <1>8 DEF IInv

(* One step of anything. *)
LEMMA Step ==
  ASSUME IInv, [Next]_vars
  PROVE  IInv'
<1>1. ASSUME NEW c \in Connections, connect(c)
      PROVE  IInv'
  BY <1>1, ConnectKeeps
<1>2. ASSUME NEW c \in Connections, message(c)
      PROVE  IInv'
  BY <1>2, MessageKeeps
<1>3. ASSUME NEW c \in Connections, close(c)
      PROVE  IInv'
  BY <1>3, CloseKeeps
<1>4. ASSUME NEW content \in Contents, mine(content)
      PROVE  IInv'
  BY <1>4, MineKeeps
<1>5. ASSUME NEW height \in 0..(MaxStored - 1), revert(height)
      PROVE  IInv'
  BY <1>5, RevertKeeps
<1>6. CASE serve
  BY <1>6, ServeKeeps
<1>7. CASE UNCHANGED vars
  <2>1. /\ chain' = chain /\ currentBlock' = currentBlock /\ stored' = stored
        /\ announced' = announced /\ requestQueue' = requestQueue
        /\ connection' = connection /\ subscriptionsOf' = subscriptionsOf
        /\ connectionOf' = connectionOf /\ active' = active /\ latestId' = latestId
        /\ heard' = heard /\ since' = since /\ missed' = missed
    BY <1>7 DEF vars, trackerVars, tableVars, historyVars
  <2>2. TrackerTypeOK'
    BY <2>1 DEF IInv, TypeOK, TrackerTypeOK
  <2> QED
    BY <2>1, <2>2, OthersKeep
<1> QED
  BY <1>1, <1>2, <1>3, <1>4, <1>5, <1>6, <1>7 DEF Next

(* The invariant of the proofs. *)
LEMMA AlwaysIInv == Spec => []IInv
<1>1. Init => IInv
  BY Start
<1>2. IInv /\ [Next]_vars => IInv'
  BY Step
<1> QED
  BY <1>1, <1>2, PTL DEF Spec

-----------------------------------------------------------------------------
(* The tracker, and the theorems. *)

(* The tracker passes on the block stored when it differs from the one stored before. *)
LEMMA StoredIsFollowed ==
  ASSUME TrackerTypeOK, TrackerFollows, NEW content \in Contents, putBlock(content)
  PROVE  TrackerFollows'
<1> DEFINE n == Len(stored)
           k == Len(announced)
<1>1. /\ chain' = Append(chain, content)
      /\ stored' = Append(stored, chain')
      /\ IF chain' # currentBlock
           THEN currentBlock' = chain' /\ announced' = Append(announced, chain')
           ELSE currentBlock' = currentBlock /\ announced' = announced
  BY Zenon DEF putBlock, setCurrentBlock, IsNews
<1>2. chain \in Seq(Contents) /\ stored \in Seq(Hashes) /\ announced \in Seq(Hashes)
  BY DEF TrackerTypeOK, Hashes
<1>3. chain' \in Hashes
  BY <1>1, <1>2, AppendProperties DEF Hashes
<1>4. /\ n \in Nat /\ DOMAIN stored = 1..n /\ DOMAIN stored' = 1..(n + 1)
      /\ stored' \in Seq(Hashes) /\ Len(stored') = n + 1
      /\ \A i \in 1..n : stored'[i] = stored[i]
      /\ stored'[n + 1] = chain'
  BY <1>1, <1>2, <1>3, LenProperties, AppendProperties
<1>5. (stored = <<>>) <=> n = 0
  BY <1>2, EmptySeq
<1>6. currentBlock = IF n = 0 THEN Genesis ELSE stored[n]
  BY <1>5, Zenon DEF TrackerFollows
<1>7. currentBlock' = chain'
  BY <1>1
<1>8. stored' # <<>>
  BY <1>4, EmptySeq
<1>9. currentBlock' = IF stored' = <<>> THEN Genesis ELSE stored'[Len(stored')]
  BY <1>4, <1>7, <1>8
<1> HIDE DEF n
<1>10. \A i \in 1..n : i \in FirstOfRun' <=> i \in FirstOfRun
  <2> TAKE i \in 1..n
  <2>1. i \in 1..(n + 1) /\ (i # 1 => i - 1 \in 1..n)
    BY <1>4
  <2>2. stored'[i] = stored[i] /\ (i # 1 => stored'[i - 1] = stored[i - 1])
    BY <1>4, <2>1
  <2> QED
    BY <1>4, <2>1, <2>2 DEF FirstOfRun, Genesis
<1>11. n + 1 \in FirstOfRun' <=> chain' # currentBlock
  <2>1. n + 1 \in 1..(n + 1) /\ (n + 1) - 1 = n /\ (n + 1 = 1 <=> n = 0)
    BY <1>4
  <2>2. n # 0 => n \in 1..n
    BY <1>4
  <2>3. n # 0 => stored'[n] = stored[n]
    BY <1>4, <2>2
  <2>4. n + 1 \in FirstOfRun' <=> chain' # IF n = 0 THEN <<>> ELSE stored'[n]
    <3>1. n + 1 \in FirstOfRun' <=>
            stored'[n + 1] # IF n + 1 = 1 THEN <<>> ELSE stored'[(n + 1) - 1]
      BY <1>4, <2>1, Zenon DEF FirstOfRun, Genesis
    <3>2. stored'[n + 1] = chain' /\ (n + 1) - 1 = n /\ (n + 1 = 1 <=> n = 0)
      BY <1>4, <2>1
    <3>3. CASE n = 0
      <4>1. n + 1 \in FirstOfRun' <=> stored'[n + 1] # <<>>
        BY <3>1, <3>2, <3>3, Zenon
      <4> QED
        BY <3>2, <3>3, <4>1
    <3>4. CASE n # 0
      <4>1. n + 1 \in FirstOfRun' <=> stored'[n + 1] # stored'[(n + 1) - 1]
        BY <3>1, <3>2, <3>4, Zenon
      <4>2. n + 1 \in FirstOfRun' <=> chain' # stored'[n]
        BY <3>2, <4>1
      <4> QED
        BY <3>4, <4>2
    <3> QED
      BY <3>3, <3>4
  <2> QED
    BY <1>6, <2>3, <2>4 DEF Genesis
<1>12. FirstOfRun \subseteq 1..n /\ FirstOfRun' \subseteq 1..(n + 1)
  BY <1>4 DEF FirstOfRun
<1>13. n + 1 \notin 1..n /\ \A i \in 1..n : i \in Nat /\ i < n + 1
  BY <1>4
<1>14. FirstOfRun' = IF chain' # currentBlock THEN FirstOfRun \cup {n + 1} ELSE FirstOfRun
  <2>1. \A i \in 1..(n + 1) : i \in 1..n \/ i = n + 1
    BY <1>4
  <2>2. CASE chain' # currentBlock
    <3>1. n + 1 \in FirstOfRun'
      BY <1>11, <2>2
    <3>2. \A i : i \in FirstOfRun' <=> i \in FirstOfRun \/ i = n + 1
      BY <1>10, <1>12, <2>1, <3>1
    <3>3. FirstOfRun' = FirstOfRun \cup {n + 1}
      BY <3>2
    <3> QED
      BY <2>2, <3>3
  <2>3. CASE chain' = currentBlock
    <3>1. n + 1 \notin FirstOfRun'
      BY <1>11, <2>3
    <3>2. \A i : i \in FirstOfRun' <=> i \in FirstOfRun
      BY <1>10, <1>12, <2>1, <3>1
    <3>3. FirstOfRun' = FirstOfRun
      BY <3>2
    <3> QED
      BY <2>3, <3>3
  <2> QED
    BY <2>2, <2>3
<1>15. PICK at \in [DOMAIN announced -> FirstOfRun] :
         /\ \A i, j \in DOMAIN announced : i < j => at[i] < at[j]
         /\ {at[i] : i \in DOMAIN announced} = FirstOfRun
         /\ \A i \in DOMAIN announced : announced[i] = stored[at[i]]
  BY Zenon DEF TrackerFollows
<1>16. \A i \in DOMAIN announced : at[i] \in FirstOfRun /\ at[i] \in 1..n
  BY <1>12, <1>15
<1>17. CASE chain' = currentBlock
  <2>1. announced' = announced /\ FirstOfRun' = FirstOfRun
    BY <1>1, <1>14, <1>17
  <2>2. \A i \in DOMAIN announced : announced[i] = stored'[at[i]]
    BY <1>4, <1>15, <1>16
  <2> QED
    BY <1>9, <1>15, <2>1, <2>2, Zenon DEF TrackerFollows
<1>18. CASE chain' # currentBlock
  <2>1. announced' = Append(announced, chain') /\ FirstOfRun' = FirstOfRun \cup {n + 1}
    BY <1>1, <1>14, <1>18
  <2>2. /\ k \in Nat /\ DOMAIN announced = 1..k /\ DOMAIN announced' = 1..(k + 1)
        /\ \A i \in 1..k : announced'[i] = announced[i]
        /\ announced'[k + 1] = chain'
    BY <1>2, <1>3, <2>1, LenProperties, AppendProperties
  <2> HIDE DEF k
  <2> DEFINE next == [i \in 1..(k + 1) |-> IF i = k + 1 THEN n + 1 ELSE at[i]]
  <2>3. /\ k + 1 \in 1..(k + 1) /\ k + 1 \notin 1..k
        /\ \A i \in 1..k : i \in 1..(k + 1) /\ i # k + 1 /\ i < k + 1 /\ ~(k + 1 < i)
        /\ ~(k + 1 < k + 1)
        /\ \A i \in 1..(k + 1) : i \in 1..k \/ i = k + 1
    BY <2>2
  <2>4. /\ next[k + 1] = n + 1
        /\ \A i \in 1..k : next[i] = at[i]
        /\ DOMAIN next = 1..(k + 1)
    BY <2>3
  <2>5. next \in [1..(k + 1) -> FirstOfRun']
    <3>1. \A i \in 1..(k + 1) : (IF i = k + 1 THEN n + 1 ELSE at[i]) \in FirstOfRun'
      BY <1>16, <2>1, <2>2, <2>3
    <3> QED
      BY <3>1
  <2> HIDE DEF next
  <2>6. \A i, j \in 1..(k + 1) : i < j => next[i] < next[j]
    <3> SUFFICES ASSUME NEW i \in 1..(k + 1), NEW j \in 1..(k + 1), i < j
                 PROVE  next[i] < next[j]
      OBVIOUS
    <3>1. i \in 1..k
      BY <2>2
    <3>2. CASE j = k + 1
      BY <1>13, <1>16, <2>2, <2>4, <3>1, <3>2
    <3>3. CASE j \in 1..k
      BY <1>15, <2>2, <2>4, <3>1, <3>3
    <3> QED
      BY <2>3, <3>2, <3>3
  <2>7. {next[i] : i \in 1..(k + 1)} = FirstOfRun'
    <3>1. \A i \in 1..(k + 1) : next[i] \in FirstOfRun'
      BY <2>5
    <3>2. \A m \in FirstOfRun' : \E i \in 1..(k + 1) : next[i] = m
      <4> TAKE m \in FirstOfRun'
      <4>1. CASE m = n + 1
        BY <2>3, <2>4, <4>1
      <4>2. CASE m \in FirstOfRun
        <5>1. PICK i \in 1..k : at[i] = m
          BY <1>15, <2>2, <4>2
        <5> QED
          BY <2>3, <2>4, <5>1
      <4> QED
        BY <2>1, <4>1, <4>2
    <3> QED
      BY <3>1, <3>2
  <2>8. \A i \in 1..(k + 1) : announced'[i] = stored'[next[i]]
    <3> TAKE i \in 1..(k + 1)
    <3>1. CASE i = k + 1
      BY <1>4, <2>2, <2>4, <3>1
    <3>2. CASE i \in 1..k
      <4>1. announced'[i] = announced[i] /\ next[i] = at[i] /\ at[i] \in 1..n
        BY <1>16, <2>2, <2>4, <3>2
      <4>2. announced[i] = stored[at[i]] /\ stored'[at[i]] = stored[at[i]]
        BY <1>4, <1>15, <2>2, <3>2, <4>1
      <4> QED
        BY <4>1, <4>2
    <3> QED
      BY <2>3, <3>1, <3>2
  <2>9. DOMAIN announced' = 1..(k + 1)
    BY <2>2
  <2> QED
    BY <1>9, <2>5, <2>6, <2>7, <2>8, <2>9, Zenon DEF TrackerFollows
<1> QED
  BY <1>17, <1>18

(* Nothing is stored. *)
LEMMA NothingStored ==
  ASSUME TrackerFollows, currentBlock' = currentBlock, stored' = stored, announced' = announced
  PROVE  TrackerFollows'
<1>1. FirstOfRun' = FirstOfRun
  BY DEF FirstOfRun, Genesis
<1> QED
  BY <1>1, Zenon DEF TrackerFollows, Genesis

(* Nothing is stored at the start. *)
LEMMA TrackerStarts ==
  ASSUME TrackerInit
  PROVE  TrackerFollows
<1>1. stored = <<>> /\ announced = <<>> /\ currentBlock = Genesis
  BY DEF TrackerInit
<1>2. DOMAIN stored = {} /\ DOMAIN announced = {}
  BY <1>1, EmptySeq
<1>3. FirstOfRun = {}
  BY <1>2 DEF FirstOfRun
<1> DEFINE at == [i \in {} |-> 0]
<1>4. at \in [DOMAIN announced -> FirstOfRun]
  BY <1>2, <1>3
<1>5. {at[i] : i \in DOMAIN announced} = FirstOfRun
  BY <1>2, <1>3
<1> HIDE DEF at
<1> QED
  BY <1>1, <1>2, <1>4, <1>5 DEF TrackerFollows

(* block_tracker.js passes on each block stored, in order, but for one stored again right after
   itself, and knows the last one stored. *)
THEOREM TheTrackerFollows == Spec => []TrackerFollows
<1>1. Init => TrackerFollows
  BY TrackerStarts DEF Init
<1>2. IInv /\ TrackerFollows /\ [Next]_vars => TrackerFollows'
  <2> SUFFICES ASSUME IInv, TrackerFollows, [Next]_vars
               PROVE  TrackerFollows'
    OBVIOUS
  <2>1. ASSUME NEW content \in Contents, mine(content)
        PROVE  TrackerFollows'
    BY <2>1, StoredIsFollowed DEF mine, IInv, TypeOK
  <2>2. ASSUME currentBlock' = currentBlock, stored' = stored, announced' = announced
        PROVE  TrackerFollows'
    BY <2>2, NothingStored
  <2>3. ASSUME NEW height, revert(height)
        PROVE  TrackerFollows'
    BY <2>2, <2>3, Zenon DEF revert, popTo
  <2>4. ASSUME NEW c \in Connections, connect(c) \/ close(c)
        PROVE  TrackerFollows'
    BY <2>2, <2>4 DEF connect, close, trackerVars
  <2>5. ASSUME NEW c \in Connections, message(c)
        PROVE  TrackerFollows'
    BY <2>2, <2>5 DEF message, Send, trackerVars
  <2>6. ASSUME serve
        PROVE  TrackerFollows'
    <3>1. ASSUME UNCHANGED trackerVars
          PROVE  TrackerFollows'
      BY <2>2, <3>1 DEF trackerVars
    <3>2. ASSUME NEW c, subscribe(c)
          PROVE  UNCHANGED trackerVars
      BY <3>2, Zenon DEF subscribe, create
    <3>3. ASSUME subscribeInBatch
          PROVE  UNCHANGED trackerVars
      BY <3>3, Zenon DEF subscribeInBatch, create
    <3>4. ASSUME NEW c, NEW id, unsubscribe(c, id)
          PROVE  UNCHANGED trackerVars
      BY <3>4 DEF unsubscribe, uninstall
    <3>5. ASSUME NEW id, unsubscribeInBatch(id)
          PROVE  UNCHANGED trackerVars
      BY <3>5 DEF unsubscribeInBatch, uninstall
    <3>6. ASSUME NEW id, dropSubscription(id)
          PROVE  UNCHANGED trackerVars
      BY <3>6 DEF dropSubscription, uninstall
    <3>7. Handle(Head(requestQueue))
      BY <2>6 DEF serve
    <3> QED
      BY <3>1, <3>2, <3>3, <3>4, <3>5, <3>6, <3>7, Zenon DEF Handle
  <2>7. ASSUME UNCHANGED vars
        PROVE  TrackerFollows'
    BY <2>2, <2>7 DEF vars, trackerVars
  <2> QED
    BY <2>1, <2>3, <2>4, <2>5, <2>6, <2>7, Zenon DEF Next
<1> QED
  BY <1>1, <1>2, AlwaysIInv, PTL DEF Spec

(* Every variable of webSocketServer.js and the engine keeps its type. *)
THEOREM SubscriptionsTypes == Spec => []TypeOK
<1>1. IInv => TypeOK
  BY DEF IInv
<1> QED
  BY <1>1, AlwaysIInv, PTL

(* A subscribed connection is sent each block announced, once and in order. *)
THEOREM EveryBlockIsHeard == Spec => []HearsEveryBlock
<1>1. IInv => HearsEveryBlock
  BY DEF IInv
<1> QED
  BY <1>1, AlwaysIInv, PTL

(* The tables of webSocketServer.js and the engine's agree, but for what was made or ended in
   a batch or for a connection that had closed. *)
THEOREM TheTablesAgree == Spec => []TablesAgree
<1>1. IInv => TablesAgree
  BY DEF IInv
<1> QED
  BY <1>1, AlwaysIInv, PTL

(* Each subscription of the engine is recorded for an open connection, or its unsubscribe
   waits, or no table ever had it: it was made in a batch or answered after its connection
   had closed.  Those stay for good. *)
THEOREM NoneForgotten == Spec => []NoSubscriptionForgotten
<1>1. IInv => NoSubscriptionForgotten
  BY DEF IInv
<1> QED
  BY <1>1, AlwaysIInv, PTL
-----------------------------------------------------------------------------
(* Block filters, over the same tracker. *)
(* What is so of one poll that is to tell of the blocks due. *)
PollIs(poll, due) ==
  /\ poll.step # "answered" => poll.first /\ poll.result = due
  /\ poll.step = "number" => poll.delayed = Genesis
  /\ poll.step = "previous" =>
       /\ poll.delayed # Genesis /\ poll.blockNumber = Len(poll.delayed)
       /\ ~poll.disturbed => OnChain(poll.delayed)
  /\ poll.step = "thrown" => poll.disturbed
  /\ poll.step = "answered" =>
       IF poll.delayed = Genesis THEN poll.result = due
       ELSE /\ poll.first /\ poll.result # <<>>
            /\ Tail(poll.result) = IF due = <<>> THEN <<>> ELSE Tail(due)
            /\ ~poll.disturbed =>
                 poll.result[1] = SubSeq(poll.delayed, 1, Len(poll.delayed) - 1)

(* What is so of one filter.  Polls that go on were begun while the filter was watched, that
   is, before any was answered. *)
FilterOk(f) ==
  IF f \in installed
    THEN /\ earlier[f] <= Len(announced)
         /\ updates[f] = SubSeq(announced, ReadUpTo(f, Len(polls[f])) + 1, Len(announced))
         /\ f \in watching => Unanswered(f)
         /\ \A i \in DOMAIN polls[f] :
              polls[f][i].until <= Len(announced) /\ PollIs(polls[f][i], Due(f, i))
    ELSE polls[f] = <<>> /\ updates[f] = <<>>

(* The inductive invariant of the filters. *)
FiltersInv == FiltersTypeOK /\ \A f \in Filters : FilterOk(f)
-----------------------------------------------------------------------------
(* Sequences. *)

(* Another first member. *)
LEMMA FirstReplaced ==
  ASSUME NEW S, NEW s \in Seq(S), s # <<>>, NEW e \in S
  PROVE  LET t == [s EXCEPT ![1] = e]
         IN  t \in Seq(S) /\ t # <<>> /\ Tail(t) = Tail(s) /\ t[1] = e
<1> DEFINE t == [s EXCEPT ![1] = e]
<1>1. Len(s) \in Nat \ {0} /\ 1 \in 1..Len(s)
  <2>1. Len(s) \in Nat \ {0}
    BY EmptySeq
  <2> QED
    BY <2>1
<1>2. /\ t \in Seq(S) /\ Len(t) = Len(s)
      /\ \A j \in 1..Len(s) : t[j] = IF j = 1 THEN e ELSE s[j]
  BY <1>1, ExceptSeq
<1> HIDE DEF t
<1>3. t # <<>>
  BY <1>1, <1>2, EmptySeq
<1>4. /\ Tail(s) \in Seq(S) /\ Len(Tail(s)) = Len(s) - 1
      /\ \A i \in 1..(Len(s) - 1) : Tail(s)[i] = s[i + 1]
  BY HeadTailProperties
<1>5. /\ Tail(t) \in Seq(S) /\ Len(Tail(t)) = Len(s) - 1
      /\ \A i \in 1..(Len(s) - 1) : Tail(t)[i] = t[i + 1]
  BY <1>2, <1>3, HeadTailProperties
<1>6. \A i \in 1..(Len(s) - 1) : i + 1 \in 1..Len(s) /\ i + 1 # 1
  BY <1>1
<1>7. \A i \in 1..(Len(s) - 1) : Tail(t)[i] = Tail(s)[i]
  BY <1>2, <1>4, <1>5, <1>6
<1>8. Tail(t) = Tail(s)
  BY <1>4, <1>5, <1>7, SeqEqual, Zenon
<1>9. t[1] = e
  BY <1>1, <1>2
<1> QED
  BY <1>2, <1>3, <1>8, <1>9 DEF t

(* What lies within a sequence is still there when something is put at its end. *)
LEMMA SegmentStays ==
  ASSUME NEW S, NEW q \in Seq(S), NEW e \in S, NEW m \in Nat, NEW n \in Nat, n <= Len(q)
  PROVE  SubSeq(Append(q, e), m + 1, n) = SubSeq(q, m + 1, n)
<1>1. /\ Len(q) \in Nat /\ \A i \in 1..Len(q) : q[i] \in S
      /\ \A i \in 1..Len(q) : Append(q, e)[i] = q[i]
  BY LenProperties, AppendProperties
<1>2. m + 1 \in Int /\ n \in Int /\ \A i \in (m + 1)..n : i \in 1..Len(q)
  BY <1>1
<1>3. \A i \in (m + 1)..n : q[i] \in S /\ Append(q, e)[i] \in S
  BY <1>1, <1>2
<1> DEFINE length == IF m + 1 <= n THEN n - (m + 1) + 1 ELSE 0
           p == SubSeq(q, m + 1, n)
           r == SubSeq(Append(q, e), m + 1, n)
<1>4. /\ p \in Seq(S) /\ Len(p) = length
      /\ \A i \in 1..(n - (m + 1) + 1) : p[i] = q[(m + 1) + i - 1]
  BY <1>2, <1>3, SubSeqProperties
<1>5. /\ r \in Seq(S) /\ Len(r) = length
      /\ \A i \in 1..(n - (m + 1) + 1) : r[i] = Append(q, e)[(m + 1) + i - 1]
  BY <1>2, <1>3, SubSeqProperties
<1>6. \A i \in 1..length :
        i \in 1..(n - (m + 1) + 1) /\ (m + 1) + i - 1 \in 1..Len(q)
  BY <1>1
<1> HIDE DEF p, r, length
<1>7. \A i \in 1..length : r[i] = p[i]
  BY <1>1, <1>4, <1>5, <1>6, Zenon
<1>8. r = p
  BY <1>4, <1>5, <1>7, SeqEqual
<1> QED
  BY <1>8 DEF p, r

(* The beginning of a beginning is a beginning. *)
LEMMA PrefixOfPrefix ==
  ASSUME NEW S, NEW s \in Seq(S), NEW n \in 1..Len(s), NEW k \in 1..n
  PROVE  SubSeq(SubSeq(s, 1, n), 1, k) = SubSeq(s, 1, k)
<1>1. Len(s) \in Nat
  BY LenProperties
<1>2. 1 \in 1..Len(s) /\ 1 \in 1..(n - 1 + 1) /\ k \in 1..(n - 1 + 1)
      /\ 1 + 1 - 1 = 1 /\ 1 + k - 1 = k
  BY <1>1
<1> QED
  BY <1>2, SubSeqOfSubSeq

(* The beginning of a chain, and of a hash, is a hash. *)
LEMMA BeginningIsHash ==
  ASSUME NEW hash \in Hashes, NEW n \in Nat, n <= Len(hash)
  PROVE  SubSeq(hash, 1, n) \in Hashes
<1>1. Len(hash) \in Nat /\ \A i \in 1..Len(hash) : hash[i] \in Contents
  BY LenProperties DEF Hashes
<1>2. 1 \in Int /\ n \in Int /\ \A i \in 1..n : i \in 1..Len(hash)
  BY <1>1
<1>3. \A i \in 1..n : hash[i] \in Contents
  BY <1>1, <1>2
<1> QED
  BY <1>2, <1>3, SubSeqProperties DEF Hashes
-----------------------------------------------------------------------------
(* The polls of a filter. *)

(* A poll and its parts. *)
LEMMA PollParts ==
  ASSUME FiltersTypeOK, NEW f \in Filters
  PROVE  /\ polls[f] \in Seq(Polls) /\ Len(polls[f]) \in Nat
         /\ DOMAIN polls[f] = 1..Len(polls[f])
         /\ \A i \in 1..Len(polls[f]) : polls[f][i] \in Polls
         /\ earlier[f] \in Nat /\ updates[f] \in Seq(Hashes)
         /\ announced \in Seq(Hashes) /\ Len(announced) \in Nat
<1>1. /\ polls[f] \in Seq(Polls) /\ earlier[f] \in Nat /\ updates[f] \in Seq(Hashes)
      /\ announced \in Seq(Hashes)
  BY DEF FiltersTypeOK, TrackerTypeOK
<1> QED
  BY <1>1, LenProperties

(* What has been read has been announced. *)
LEMMA ReadIsAnnounced ==
  ASSUME FiltersTypeOK, NEW f \in Filters, f \in installed, FilterOk(f)
  PROVE  \A i \in 0..Len(polls[f]) :
           ReadUpTo(f, i) \in Nat /\ ReadUpTo(f, i) <= Len(announced)
<1> TAKE i \in 0..Len(polls[f])
<1>1. CASE i = 0
  BY <1>1, PollParts DEF FilterOk, ReadUpTo
<1>2. CASE i # 0
  <2>1. i \in 1..Len(polls[f]) /\ polls[f][i] \in Polls
    BY <1>2, PollParts
  <2>2. polls[f][i].until \in Nat
    BY <2>1 DEF Polls
  <2>3. polls[f][i].until <= Len(announced)
    BY <2>1, PollParts, Zenon DEF FilterOk
  <2> QED
    BY <1>2, <2>2, <2>3 DEF ReadUpTo
<1> QED
  BY <1>1, <1>2

(* A filter nothing happens to. *)
LEMMA SameFilter ==
  ASSUME NEW f \in Filters, FilterOk(f), chain' = chain, announced' = announced,
         f \in installed' <=> f \in installed, f \in watching' => f \in watching,
         updates'[f] = updates[f], polls'[f] = polls[f], earlier'[f] = earlier[f]
  PROVE  FilterOk(f)'
<1>1. \A i : ReadUpTo(f, i)' = ReadUpTo(f, i)
  BY Zenon DEF ReadUpTo
<1>2. \A i : Due(f, i)' = Due(f, i)
  <2> TAKE i
  <2>1. ReadUpTo(f, i - 1)' = ReadUpTo(f, i - 1) /\ ReadUpTo(f, i)' = ReadUpTo(f, i)
    BY <1>1
  <2> QED
    BY <2>1 DEF Due
<1>3. \A hash : OnChain(hash)' <=> OnChain(hash)
  BY Zenon DEF OnChain, HashAt
<1>4. Unanswered(f)' <=> Unanswered(f)
  BY Zenon DEF Unanswered
<1>5. \A i : PollIs(polls[f][i], Due(f, i))' <=> PollIs(polls[f][i], Due(f, i))
  <2> TAKE i
  <2>1. (polls[f][i])' = polls[f][i]
    OBVIOUS
  <2> QED
    BY <1>2, <1>3, <2>1, Zenon DEF PollIs, Genesis
<1>6. CASE f \in installed
  BY <1>1, <1>4, <1>5, <1>6, Zenon DEF FilterOk
<1>7. CASE f \notin installed
  BY <1>7, Zenon DEF FilterOk
<1> QED
  BY <1>6, <1>7
-----------------------------------------------------------------------------
(* Blocks are stored and reverted while filters are polled. *)

(* A block is stored: what is on the chain stays there. *)
LEMMA OnChainStays ==
  ASSUME chain \in Hashes, NEW content \in Contents, chain' = Append(chain, content),
         NEW hash \in Hashes, OnChain(hash)
  PROVE  OnChain(hash)'
<1>1. Len(hash) <= Len(chain) /\ SubSeq(chain, 1, Len(hash)) = hash
  BY DEF OnChain, HashAt
<1>2. Len(hash) \in Nat /\ Len(chain) \in Nat /\ Len(Append(chain, content)) = Len(chain) + 1
  BY LenProperties, AppendProperties DEF Hashes
<1>3. SubSeq(Append(chain, content), 0 + 1, Len(hash)) = SubSeq(chain, 0 + 1, Len(hash))
  BY <1>1, <1>2, SegmentStays DEF Hashes
<1>4. 0 + 1 = 1
  OBVIOUS
<1>5. SubSeq(chain', 1, Len(hash)) = hash
  BY <1>1, <1>3, <1>4
<1>6. Len(hash) <= Len(chain')
  BY <1>1, <1>2
<1> QED
  BY <1>5, <1>6 DEF OnChain, HashAt

(* Each filter that is there takes what the tracker says. *)
LEMMA MineFilters ==
  ASSUME FiltersInv, NEW content \in Contents, svm_mine(content)
  PROVE  FiltersInv'
<1>1. /\ chain' = Append(chain, content)
      /\ stored' = Append(stored, chain')
      /\ \/ currentBlock' = chain' /\ announced' = Append(announced, currentBlock')
         \/ currentBlock' = currentBlock /\ announced' = announced
  BY Zenon DEF svm_mine, putBlock, setCurrentBlock
<1>2. /\ updates' = [f \in Filters |-> IF f \in installed /\ announced' # announced
                                         THEN Append(updates[f], currentBlock') ELSE updates[f]]
      /\ installed' = installed /\ watching' = watching /\ polls' = polls /\ earlier' = earlier
  BY DEF svm_mine
<1>3. FiltersTypeOK
  BY DEF FiltersInv
<1>4. /\ chain \in Seq(Contents) /\ currentBlock \in Hashes /\ stored \in Seq(Hashes)
      /\ announced \in Seq(Hashes) /\ updates \in [Filters -> Seq(Hashes)]
  BY <1>3 DEF FiltersTypeOK, TrackerTypeOK, Hashes
<1>5. chain' \in Hashes
  BY <1>1, <1>4, AppendProperties DEF Hashes
<1>6. currentBlock' \in Hashes
  BY <1>1, <1>4, <1>5
<1>7. stored' \in Seq(Hashes) /\ announced' \in Seq(Hashes)
  <2>1. Append(announced, currentBlock') \in Seq(Hashes)
    BY <1>4, <1>6, AppendProperties
  <2> QED
    BY <1>1, <1>4, <1>5, <2>1, AppendProperties
<1>8. TrackerTypeOK'
  BY <1>5, <1>6, <1>7 DEF TrackerTypeOK
<1>9. updates' \in [Filters -> Seq(Hashes)]
  <2>1. \A f \in Filters : Append(updates[f], currentBlock') \in Seq(Hashes)
                           /\ updates[f] \in Seq(Hashes)
    BY <1>4, <1>6, AppendProperties
  <2> QED
    BY <1>2, <2>1
<1>10. FiltersTypeOK'
  BY <1>2, <1>3, <1>8, <1>9 DEF FiltersTypeOK
<1>11. ASSUME NEW f \in Filters
       PROVE  FilterOk(f)'
  <2>1. FilterOk(f)
    BY DEF FiltersInv
  <2>2. updates'[f] = IF f \in installed /\ announced' # announced
                        THEN Append(updates[f], currentBlock') ELSE updates[f]
    BY <1>2
  <2>3. CASE f \notin installed
    BY <1>2, <2>1, <2>2, <2>3, Zenon DEF FilterOk
  <2>4. CASE f \in installed
    <3>1. /\ earlier[f] <= Len(announced)
          /\ updates[f] = SubSeq(announced, ReadUpTo(f, Len(polls[f])) + 1, Len(announced))
          /\ f \in watching => Unanswered(f)
          /\ \A i \in DOMAIN polls[f] :
               polls[f][i].until <= Len(announced) /\ PollIs(polls[f][i], Due(f, i))
      BY <2>1, <2>4, Zenon DEF FilterOk
    <3>2. \A i \in 0..Len(polls[f]) :
            ReadUpTo(f, i) \in Nat /\ ReadUpTo(f, i) <= Len(announced)
      BY <1>3, <2>1, <2>4, ReadIsAnnounced
    <3>3. \A i : ReadUpTo(f, i)' = ReadUpTo(f, i)
      BY <1>2, Zenon DEF ReadUpTo
    <3>4. /\ Len(announced) \in Nat /\ Len(polls[f]) \in Nat
          /\ DOMAIN polls[f] = 1..Len(polls[f]) /\ earlier[f] \in Nat
          /\ \A i \in 1..Len(polls[f]) : polls[f][i] \in Polls
      BY <1>3, PollParts
    <3>5. announced' = announced \/ Len(announced') = Len(announced) + 1
      BY <1>1, <1>4, <1>6, AppendProperties
    <3>6. earlier'[f] <= Len(announced')
      BY <1>2, <3>1, <3>4, <3>5
    <3>7. updates'[f] = SubSeq(announced', ReadUpTo(f, Len(polls[f])) + 1, Len(announced'))
      <4>1. CASE announced' = announced
        BY <2>2, <3>1, <4>1
      <4>2. CASE announced' # announced
        <5>1. ReadUpTo(f, Len(polls[f])) \in Nat
              /\ ReadUpTo(f, Len(polls[f])) <= Len(announced)
          BY <3>2, <3>4
        <5>2. SubSeq(Append(announced, currentBlock'), ReadUpTo(f, Len(polls[f])) + 1,
                     Len(Append(announced, currentBlock')))
                = Append(SubSeq(announced, ReadUpTo(f, Len(polls[f])) + 1, Len(announced)),
                         currentBlock')
          BY <1>4, <1>6, <5>1, OneLonger
        <5> QED
          BY <1>1, <2>2, <2>4, <3>1, <4>2, <5>2, Zenon
      <4> QED
        BY <4>1, <4>2
    <3>8. ASSUME NEW i \in DOMAIN polls[f]
          PROVE  (polls[f][i].until <= Len(announced) /\ PollIs(polls[f][i], Due(f, i)))'
      <4>1. /\ polls[f][i] \in Polls /\ i \in 0..Len(polls[f]) /\ i - 1 \in 0..Len(polls[f])
        BY <3>4, <3>8
      <4>2. polls[f][i].until \in Nat /\ polls[f][i].delayed \in Hashes
        BY <4>1 DEF Polls
      <4>3. polls[f][i].until <= Len(announced) /\ PollIs(polls[f][i], Due(f, i))
        BY <3>1
      <4>4. SubSeq(announced', ReadUpTo(f, i - 1) + 1, ReadUpTo(f, i))
              = SubSeq(announced, ReadUpTo(f, i - 1) + 1, ReadUpTo(f, i))
        <5>1. /\ ReadUpTo(f, i - 1) \in Nat /\ ReadUpTo(f, i) \in Nat
              /\ ReadUpTo(f, i) <= Len(announced)
          BY <3>2, <4>1
        <5>2. SubSeq(Append(announced, currentBlock'), ReadUpTo(f, i - 1) + 1, ReadUpTo(f, i))
                = SubSeq(announced, ReadUpTo(f, i - 1) + 1, ReadUpTo(f, i))
          BY <1>4, <1>6, <5>1, SegmentStays
        <5> QED
          BY <1>1, <5>2
      <4>5. Due(f, i)' = Due(f, i)
        <5>1. ReadUpTo(f, i - 1)' = ReadUpTo(f, i - 1) /\ ReadUpTo(f, i)' = ReadUpTo(f, i)
          BY <3>3
        <5> QED
          BY <4>4, <5>1 DEF Due
      <4>6. (polls[f][i])' = polls[f][i]
        BY <1>2
      <4>7. OnChain(polls[f][i].delayed) => OnChain(polls[f][i].delayed)'
        <5>1. chain \in Hashes
          BY <1>4 DEF Hashes
        <5>2. \A hash \in Hashes : OnChain(hash) => OnChain(hash)'
          BY <1>1, <5>1, OnChainStays
        <5>3. polls' = polls
          BY <1>2
        <5> QED
          BY <4>2, <5>2, <5>3, Zenon DEF OnChain, HashAt
      <4>8. PollIs(polls[f][i], Due(f, i))'
        BY <4>3, <4>5, <4>6, <4>7, Zenon DEF PollIs, Genesis
      <4>9. polls[f][i].until <= Len(announced')
        BY <3>4, <3>5, <4>2, <4>3
      <4> QED
        BY <4>6, <4>8, <4>9
    <3>9. (f \in watching => Unanswered(f))'
      BY <1>2, <3>1, Zenon DEF Unanswered
    <3>10. (\A i \in DOMAIN polls[f] :
              polls[f][i].until <= Len(announced) /\ PollIs(polls[f][i], Due(f, i)))'
      BY <1>2, <3>8
    <3> QED
      BY <1>2, <2>4, <3>3, <3>6, <3>7, <3>9, <3>10, Zenon DEF FilterOk
  <2> QED
    BY <2>3, <2>4
<1> QED
  BY <1>10, <1>11 DEF FiltersInv

(* svm_revert comes into the polls that are not over. *)
LEMMA RevertFilters ==
  ASSUME FiltersInv, NEW height \in 0..(MaxStored - 1), svm_revert(height)
  PROVE  FiltersInv'
<1>1. /\ popTo(height) /\ announced' = announced /\ installed' = installed
      /\ polls' = [f \in Filters |-> [i \in DOMAIN polls[f] |-> Disturb(polls[f][i])]]
      /\ updates' = updates /\ watching' = watching /\ earlier' = earlier
  BY DEF svm_revert, popTo, HashAt
<1>2. FiltersTypeOK
  BY DEF FiltersInv
<1>3. TrackerTypeOK'
  <2>1. height \in Nat
    BY MaxStoredAssumption
  <2> QED
    BY <1>1, <1>2, <2>1, PopTypes DEF FiltersTypeOK
<1>4. ASSUME NEW f \in Filters
      PROVE  /\ polls'[f] \in Seq(Polls) /\ Len(polls'[f]) = Len(polls[f])
             /\ DOMAIN polls'[f] = DOMAIN polls[f]
             /\ \A i \in DOMAIN polls[f] :
                  /\ polls'[f][i].disturbed =
                       (polls[f][i].disturbed \/ polls[f][i].step \in {"number", "previous"})
                  /\ polls'[f][i].step = polls[f][i].step
                  /\ polls'[f][i].result = polls[f][i].result
                  /\ polls'[f][i].blockNumber = polls[f][i].blockNumber
                  /\ polls'[f][i].until = polls[f][i].until
                  /\ polls'[f][i].delayed = polls[f][i].delayed
                  /\ polls'[f][i].first = polls[f][i].first
  <2>1. /\ polls[f] \in Seq(Polls) /\ Len(polls[f]) \in Nat
        /\ DOMAIN polls[f] = 1..Len(polls[f])
        /\ \A i \in 1..Len(polls[f]) : polls[f][i] \in Polls
    BY <1>2, PollParts
  <2>2. polls'[f] = [i \in 1..Len(polls[f]) |-> Disturb(polls[f][i])]
    BY <1>1, <2>1
  <2>3. ASSUME NEW p \in Polls
        PROVE  /\ Disturb(p) \in Polls
               /\ Disturb(p).disturbed = (p.disturbed \/ p.step \in {"number", "previous"})
               /\ Disturb(p).step = p.step /\ Disturb(p).result = p.result
               /\ Disturb(p).blockNumber = p.blockNumber /\ Disturb(p).until = p.until
               /\ Disturb(p).delayed = p.delayed /\ Disturb(p).first = p.first
    BY <2>3 DEF Disturb, Polls
  <2>4. polls'[f] \in [1..Len(polls[f]) -> Polls]
    BY <2>1, <2>2, <2>3
  <2>5. polls'[f] \in Seq(Polls) /\ Len(polls'[f]) = Len(polls[f])
    BY <2>1, <2>2, <2>4
  <2>6. \A i \in 1..Len(polls[f]) : polls'[f][i] = Disturb(polls[f][i])
    BY <2>2
  <2>7. DOMAIN polls'[f] = 1..Len(polls[f])
    BY <2>2
  <2> QED
    BY <2>1, <2>3, <2>5, <2>6, <2>7
<1>5. FiltersTypeOK'
  <2>1. polls' \in [Filters -> Seq(Polls)]
    BY <1>1, <1>4
  <2> QED
    BY <1>1, <1>2, <1>3, <2>1 DEF FiltersTypeOK
<1>6. ASSUME NEW f \in Filters
      PROVE  FilterOk(f)'
  <2>1. FilterOk(f)
    BY DEF FiltersInv
  <2>2. CASE f \notin installed
    <3>1. polls[f] = <<>> /\ updates[f] = <<>>
      BY <2>1, <2>2 DEF FilterOk
    <3>2. polls'[f] = <<>>
      <4>1. Len(polls'[f]) = 0
        BY <1>4, <3>1, EmptySeq
      <4> QED
        BY <1>4, <4>1, EmptySeq
    <3> QED
      BY <1>1, <2>2, <3>1, <3>2 DEF FilterOk
  <2>3. CASE f \in installed
    <3>1. /\ earlier[f] <= Len(announced)
          /\ updates[f] = SubSeq(announced, ReadUpTo(f, Len(polls[f])) + 1, Len(announced))
          /\ f \in watching => Unanswered(f)
          /\ \A i \in DOMAIN polls[f] :
               polls[f][i].until <= Len(announced) /\ PollIs(polls[f][i], Due(f, i))
      BY <2>1, <2>3, Zenon DEF FilterOk
    <3>2. Len(polls[f]) \in Nat /\ DOMAIN polls[f] = 1..Len(polls[f])
      BY <1>2, PollParts
    <3>3. \A i \in 0..Len(polls[f]) : ReadUpTo(f, i)' = ReadUpTo(f, i)
      <4>1. \A i \in 0..Len(polls[f]) : i # 0 => i \in DOMAIN polls[f]
        BY <3>2
      <4>2. \A i \in DOMAIN polls[f] : polls'[f][i].until = polls[f][i].until
        BY <1>4
      <4> QED
        BY <1>1, <4>1, <4>2 DEF ReadUpTo
    <3>4. ASSUME NEW i \in DOMAIN polls[f]
          PROVE  (polls[f][i].until <= Len(announced) /\ PollIs(polls[f][i], Due(f, i)))'
      <4>1. Due(f, i)' = Due(f, i)
        <5>1. i \in 0..Len(polls[f]) /\ i - 1 \in 0..Len(polls[f])
          BY <3>2, <3>4
        <5>2. ReadUpTo(f, i - 1)' = ReadUpTo(f, i - 1) /\ ReadUpTo(f, i)' = ReadUpTo(f, i)
          BY <3>3, <5>1
        <5> QED
          BY <1>1, <5>2 DEF Due
      <4>2. polls[f][i].until <= Len(announced) /\ PollIs(polls[f][i], Due(f, i))
        BY <3>1, <3>4
      <4>3. /\ polls'[f][i].disturbed <=>
                 (polls[f][i].disturbed \/ polls[f][i].step \in {"number", "previous"})
            /\ polls'[f][i].step = polls[f][i].step
            /\ polls'[f][i].result = polls[f][i].result
            /\ polls'[f][i].blockNumber = polls[f][i].blockNumber
            /\ polls'[f][i].until = polls[f][i].until
            /\ polls'[f][i].delayed = polls[f][i].delayed
            /\ polls'[f][i].first = polls[f][i].first
        BY <1>4, <3>4
      <4>4. PollIs(polls[f][i], Due(f, i))'
        BY <4>1, <4>2, <4>3 DEF PollIs, Genesis
      <4> QED
        BY <1>1, <4>2, <4>3, <4>4
    <3>5. (f \in watching => Unanswered(f))'
      BY <1>1, <1>4, <3>1 DEF Unanswered
    <3>6. (\A i \in DOMAIN polls[f] :
             polls[f][i].until <= Len(announced) /\ PollIs(polls[f][i], Due(f, i)))'
      BY <1>4, <3>4
    <3>7. ReadUpTo(f, Len(polls[f]))' = ReadUpTo(f, Len(polls[f]))
      <4>1. Len(polls[f]) \in 0..Len(polls[f]) /\ Len(polls'[f]) = Len(polls[f])
        BY <1>4, <3>2
      <4>2. PICK n \in 0..Len(polls[f]) : n = Len(polls[f])
        BY <4>1
      <4>3. ReadUpTo(f, n)' = ReadUpTo(f, n)
        BY <3>3
      <4> QED
        BY <4>1, <4>2, <4>3 DEF ReadUpTo
    <3> QED
      BY <1>1, <2>3, <3>1, <3>5, <3>6, <3>7, Zenon DEF FilterOk
  <2> QED
    BY <2>2, <2>3
<1> QED
  BY <1>5, <1>6 DEF FiltersInv
-----------------------------------------------------------------------------
(* The steps of a poll. *)

(* A new filter starts with nothing. *)
LEMMA NewFilter ==
  ASSUME FiltersInv, NEW f \in Filters, newBlockFilter(f)
  PROVE  FiltersInv'
<1>1. /\ f \notin installed /\ installed' = installed \cup {f} /\ watching' = watching \cup {f}
      /\ earlier' = [earlier EXCEPT ![f] = Len(announced)]
      /\ chain' = chain /\ currentBlock' = currentBlock /\ stored' = stored
      /\ announced' = announced /\ updates' = updates /\ polls' = polls
  BY DEF newBlockFilter, trackerVars
<1>2. FiltersTypeOK
  BY DEF FiltersInv
<1>3. Len(announced) \in Nat /\ announced \in Seq(Hashes)
  BY <1>2, PollParts
<1>4. earlier' \in [Filters -> Nat] /\ earlier'[f] = Len(announced)
      /\ \A g \in Filters : g # f => earlier'[g] = earlier[g]
  BY <1>1, <1>2, <1>3 DEF FiltersTypeOK
<1>5. FiltersTypeOK'
  BY <1>1, <1>2, <1>4 DEF FiltersTypeOK, TrackerTypeOK
<1>6. ASSUME NEW g \in Filters, g # f
      PROVE  FilterOk(g)'
  <2>1. FilterOk(g)
    BY DEF FiltersInv
  <2>2. earlier'[g] = earlier[g] /\ (g \in installed' <=> g \in installed)
        /\ (g \in watching' => g \in watching)
    BY <1>1, <1>4, <1>6
  <2> QED
    BY <1>1, <2>1, <2>2, SameFilter
<1>7. FilterOk(f)'
  <2>1. polls'[f] = <<>> /\ updates'[f] = <<>> /\ f \in installed'
    BY <1>1 DEF FiltersInv, FilterOk
  <2>2. Len(polls'[f]) = 0 /\ DOMAIN polls'[f] = {}
    BY <2>1, EmptySeq
  <2>3. SubSeq(announced, Len(announced) + 1, Len(announced)) = <<>>
    <3>1. Len(announced) + 1 \in Int /\ Len(announced) \in Int
          /\ Len(announced) < Len(announced) + 1
      BY <1>3
    <3> QED
      BY <3>1, SubSeqEmpty
  <2>4. ReadUpTo(f, Len(polls[f]))' = Len(announced)
    BY <1>4, <2>2 DEF ReadUpTo
  <2>5. earlier'[f] <= Len(announced')
    BY <1>1, <1>3, <1>4
  <2>6. Unanswered(f)'
    BY <2>2 DEF Unanswered
  <2> QED
    BY <1>1, <2>1, <2>2, <2>3, <2>4, <2>5, <2>6, Zenon DEF FilterOk
<1> QED
  BY <1>5, <1>6, <1>7 DEF FiltersInv

(* A poll takes what was found: all that was announced since the last one. *)
LEMMA PollFilter ==
  ASSUME FiltersInv, NEW f \in Filters, getFilterChanges(f)
  PROVE  FiltersInv'
<1>1. /\ f \in installed /\ updates' = [updates EXCEPT ![f] = <<>>]
      /\ polls' = [polls EXCEPT ![f] = Append(@, NewPoll(f))]
      /\ chain' = chain /\ currentBlock' = currentBlock /\ stored' = stored
      /\ announced' = announced /\ installed' = installed /\ watching' = watching
      /\ earlier' = earlier
  BY DEF getFilterChanges, changesAfterPoll, trackerVars
<1>2. FiltersTypeOK /\ FilterOk(f)
  BY DEF FiltersInv
<1>3. /\ updates[f] \in Seq(Hashes) /\ <<>> \in Seq(Hashes) /\ polls[f] \in Seq(Polls)
      /\ Len(polls[f]) \in Nat /\ DOMAIN polls[f] = 1..Len(polls[f])
      /\ Len(announced) \in Nat /\ earlier[f] \in Nat /\ announced \in Seq(Hashes)
  BY <1>2, PollParts, EmptySeq
<1>4. /\ earlier[f] <= Len(announced)
      /\ updates[f] = SubSeq(announced, ReadUpTo(f, Len(polls[f])) + 1, Len(announced))
      /\ f \in watching => Unanswered(f)
      /\ \A i \in DOMAIN polls[f] :
           polls[f][i].until <= Len(announced) /\ PollIs(polls[f][i], Due(f, i))
  BY <1>1, <1>2, Zenon DEF FilterOk
<1>5. PICK poll \in Polls :
      /\ poll = NewPoll(f)
      /\ poll.step = (IF f \in watching THEN "number" ELSE "answered")
      /\ poll.result = updates[f] /\ poll.until = Len(announced) /\ poll.delayed = Genesis
      /\ poll.first = Unanswered(f) /\ poll.disturbed = FALSE
  <2>1. Genesis \in Hashes
    BY EmptySeq DEF Genesis, Hashes
  <2>2. Unanswered(f) \in BOOLEAN
    BY DEF Unanswered
  <2>3. (IF f \in watching THEN "number" ELSE "answered") \in Steps
    BY DEF Steps
  <2>4. /\ NewPoll(f) \in Polls
        /\ NewPoll(f).step = (IF f \in watching THEN "number" ELSE "answered")
        /\ NewPoll(f).result = updates[f] /\ NewPoll(f).until = Len(announced)
        /\ NewPoll(f).delayed = Genesis
        /\ NewPoll(f).first = Unanswered(f) /\ NewPoll(f).disturbed = FALSE
    BY <1>3, <2>1, <2>2, <2>3 DEF NewPoll, Polls
  <2> QED
    BY <2>4
<1>6. /\ Append(polls[f], poll) \in Seq(Polls)
      /\ Len(Append(polls[f], poll)) = Len(polls[f]) + 1
      /\ \A i \in 1..Len(polls[f]) : Append(polls[f], poll)[i] = polls[f][i]
      /\ Append(polls[f], poll)[Len(polls[f]) + 1] = poll
  BY <1>3, <1>5, AppendProperties
<1>7. /\ polls' \in [Filters -> Seq(Polls)] /\ polls'[f] = Append(polls[f], poll)
      /\ \A g \in Filters : g # f => polls'[g] = polls[g]
  BY <1>1, <1>2, <1>5, <1>6 DEF FiltersTypeOK
<1>8. updates' \in [Filters -> Seq(Hashes)] /\ updates'[f] = <<>>
      /\ \A g \in Filters : g # f => updates'[g] = updates[g]
  BY <1>1, <1>2, <1>3 DEF FiltersTypeOK
<1>9. FiltersTypeOK'
  BY <1>1, <1>2, <1>7, <1>8 DEF FiltersTypeOK, TrackerTypeOK
<1>10. ASSUME NEW g \in Filters, g # f
       PROVE  FilterOk(g)'
  <2>1. FilterOk(g)
    BY DEF FiltersInv
  <2> QED
    BY <1>1, <1>7, <1>8, <1>10, <2>1, SameFilter
<1>11. FilterOk(f)'
  <2>1. PICK last \in Nat : last = Len(polls[f]) + 1
    BY <1>3
  <2>2. /\ last \in Nat \ {0} /\ last - 1 = Len(polls[f]) /\ DOMAIN polls'[f] = 1..last
        /\ Len(polls'[f]) = last /\ polls'[f][last] = poll
        /\ \A i \in 1..Len(polls[f]) : polls'[f][i] = polls[f][i]
    BY <1>3, <1>6, <1>7, <2>1, LenProperties
  <2>3. \A i \in 1..last : i # last => i \in 1..Len(polls[f])
    BY <1>3, <2>1
  <2>4. \A i \in 0..Len(polls[f]) : ReadUpTo(f, i)' = ReadUpTo(f, i)
    <3>1. \A i \in 0..Len(polls[f]) : i # 0 => i \in 1..Len(polls[f])
      BY <1>3
    <3> QED
      BY <1>1, <2>2, <3>1 DEF ReadUpTo
  <2>5. ReadUpTo(f, last)' = Len(announced)
    BY <1>5, <2>2 DEF ReadUpTo
  <2>6. updates'[f] = SubSeq(announced', ReadUpTo(f, last)' + 1, Len(announced'))
    <3>1. Len(announced) + 1 \in Int /\ Len(announced) \in Int
          /\ Len(announced) < Len(announced) + 1
      BY <1>3
    <3>2. SubSeq(announced, Len(announced) + 1, Len(announced)) = <<>>
      BY <3>1, SubSeqEmpty
    <3> QED
      BY <1>1, <1>8, <2>5, <3>2
  <2>7. (f \in watching => Unanswered(f))'
    <3> SUFFICES ASSUME f \in watching
                 PROVE  Unanswered(f)'
      BY <1>1
    <3>1. Unanswered(f) /\ poll.step # "answered"
      BY <1>4, <1>5
    <3>2. \A i \in 1..last : polls'[f][i].step # "answered"
      BY <1>3, <2>2, <2>3, <3>1 DEF Unanswered
    <3> QED
      BY <2>2, <3>2 DEF Unanswered
  <2>8. ASSUME NEW i \in 1..last
        PROVE  (polls[f][i].until <= Len(announced) /\ PollIs(polls[f][i], Due(f, i)))'
    <3>1. CASE i = last
      <4>1. Due(f, i)' = updates[f]
        <5>1. Len(polls[f]) \in 0..Len(polls[f])
          BY <1>3
        <5>2. PICK n \in 0..Len(polls[f]) : n = Len(polls[f])
          BY <5>1
        <5>3. ReadUpTo(f, n)' = ReadUpTo(f, n)
          BY <2>4
        <5>4. i - 1 = n
          BY <2>2, <3>1, <5>2
        <5>5. Due(f, i)' = SubSeq(announced', ReadUpTo(f, n)' + 1, ReadUpTo(f, i)')
          BY <5>4 DEF Due
        <5>6. ReadUpTo(f, i)' = Len(announced)
          BY <2>5, <3>1
        <5> QED
          BY <1>1, <1>4, <5>2, <5>3, <5>5, <5>6
      <4>2. polls'[f][i] = poll
        BY <2>2, <3>1
      <4>3. poll.step # "answered" => poll.first
        BY <1>4, <1>5
      <4>4. PollIs(polls[f][i], Due(f, i))'
        BY <1>5, <4>1, <4>2, <4>3 DEF PollIs, Genesis
      <4>5. polls'[f][i].until <= Len(announced')
        <5>1. polls'[f][i].until = Len(announced) /\ announced' = announced
          BY <1>1, <1>5, <4>2
        <5>2. Len(announced) <= Len(announced)
          BY <1>3
        <5> QED
          BY <5>1, <5>2
      <4> QED
        BY <4>4, <4>5
    <3>2. CASE i # last
      <4>1. i \in 1..Len(polls[f])
        BY <2>3, <3>2
      <4>2. (polls[f][i])' = polls[f][i]
        BY <2>2, <4>1
      <4>3. i \in 0..Len(polls[f]) /\ i - 1 \in 0..Len(polls[f])
        BY <1>3, <4>1
      <4>4. Due(f, i)' = Due(f, i)
        <5>1. ReadUpTo(f, i - 1)' = ReadUpTo(f, i - 1) /\ ReadUpTo(f, i)' = ReadUpTo(f, i)
          BY <2>4, <4>3
        <5> QED
          BY <1>1, <5>1 DEF Due
      <4>5. polls[f][i].until <= Len(announced) /\ PollIs(polls[f][i], Due(f, i))
        BY <1>3, <1>4, <4>1
      <4>6. \A hash : OnChain(hash)' <=> OnChain(hash)
        BY <1>1, Zenon DEF OnChain, HashAt
      <4>7. PollIs(polls[f][i], Due(f, i))'
        BY <4>2, <4>4, <4>5, <4>6, Zenon DEF PollIs, Genesis
      <4> QED
        BY <1>1, <4>2, <4>5, <4>7
    <3> QED
      BY <3>1, <3>2
  <2>9. ReadUpTo(f, Len(polls[f]))' = ReadUpTo(f, last)'
    BY <2>2, Zenon DEF ReadUpTo
  <2> QED
    BY <1>1, <1>4, <2>2, <2>6, <2>7, <2>8, <2>9, Zenon DEF FilterOk
<1> QED
  BY <1>9, <1>10, <1>11 DEF FiltersInv

(* A poll that goes on as it should keeps the invariant. *)
LEMMA ContinueKeeps ==
  ASSUME FiltersInv, NEW f \in Filters, NEW i \in DOMAIN polls[f], NEW poll \in Polls,
         Continue(f, i, poll), poll.until = polls[f][i].until, PollIs(poll, Due(f, i)),
         \/ poll.step # "answered" /\ watching' = watching
         \/ watching' = watching \ {f}
  PROVE  FiltersInv'
<1>1. /\ polls' = [polls EXCEPT ![f] = [@ EXCEPT ![i] = poll]]
      /\ chain' = chain /\ currentBlock' = currentBlock /\ stored' = stored
      /\ announced' = announced /\ installed' = installed /\ updates' = updates
      /\ earlier' = earlier
  BY DEF Continue, trackerVars
<1>2. FiltersTypeOK /\ FilterOk(f)
  BY DEF FiltersInv
<1>3. /\ polls[f] \in Seq(Polls) /\ Len(polls[f]) \in Nat
      /\ DOMAIN polls[f] = 1..Len(polls[f])
  BY <1>2, PollParts
<1>4. f \in installed
  <2>1. polls[f] # <<>>
    BY <1>3, EmptySeq
  <2> QED
    BY <1>2, <2>1 DEF FilterOk
<1>5. /\ earlier[f] <= Len(announced)
      /\ updates[f] = SubSeq(announced, ReadUpTo(f, Len(polls[f])) + 1, Len(announced))
      /\ f \in watching => Unanswered(f)
      /\ \A j \in DOMAIN polls[f] :
           polls[f][j].until <= Len(announced) /\ PollIs(polls[f][j], Due(f, j))
  BY <1>2, <1>4, Zenon DEF FilterOk
<1> DEFINE next == [polls[f] EXCEPT ![i] = poll]
<1>6. /\ next \in Seq(Polls) /\ Len(next) = Len(polls[f]) /\ DOMAIN next = DOMAIN polls[f]
      /\ next[i] = poll
      /\ \A j \in DOMAIN polls[f] : j # i => next[j] = polls[f][j]
  BY <1>3, ExceptSeq
<1> HIDE DEF next
<1>7. /\ polls' \in [Filters -> Seq(Polls)] /\ polls'[f] = next
      /\ \A g \in Filters : g # f => polls'[g] = polls[g]
  BY <1>1, <1>2, <1>6 DEF FiltersTypeOK, next
<1>8. watching' \subseteq watching
  OBVIOUS
<1>9. FiltersTypeOK'
  BY <1>1, <1>2, <1>7, <1>8 DEF FiltersTypeOK, TrackerTypeOK
<1>10. ASSUME NEW g \in Filters, g # f
       PROVE  FilterOk(g)'
  <2>1. FilterOk(g)
    BY DEF FiltersInv
  <2>2. g \in watching' => g \in watching
    BY <1>8
  <2> QED
    BY <1>1, <1>7, <1>10, <2>1, <2>2, SameFilter
<1>11. FilterOk(f)'
  <2>1. \A j \in DOMAIN polls[f] : polls'[f][j].until = polls[f][j].until
    BY <1>6, <1>7
  <2>2. \A j \in 0..Len(polls[f]) : ReadUpTo(f, j)' = ReadUpTo(f, j)
    <3>1. \A j \in 0..Len(polls[f]) : j # 0 => j \in DOMAIN polls[f]
      BY <1>3
    <3> QED
      BY <1>1, <2>1, <3>1 DEF ReadUpTo
  <2>3. (f \in watching => Unanswered(f))'
    <3> SUFFICES ASSUME f \in watching'
                 PROVE  Unanswered(f)'
      OBVIOUS
    <3>1. Unanswered(f) /\ poll.step # "answered"
      BY <1>5
    <3>2. \A j \in DOMAIN polls[f] : polls'[f][j].step # "answered"
      BY <1>6, <1>7, <3>1 DEF Unanswered
    <3> QED
      BY <1>6, <1>7, <3>2 DEF Unanswered
  <2>4. ASSUME NEW j \in DOMAIN polls[f]
        PROVE  (polls[f][j].until <= Len(announced) /\ PollIs(polls[f][j], Due(f, j)))'
    <3>1. Due(f, j)' = Due(f, j)
      <4>1. j \in 0..Len(polls[f]) /\ j - 1 \in 0..Len(polls[f])
        BY <1>3, <2>4
      <4>2. ReadUpTo(f, j - 1)' = ReadUpTo(f, j - 1) /\ ReadUpTo(f, j)' = ReadUpTo(f, j)
        BY <2>2, <4>1
      <4> QED
        BY <1>1, <4>2 DEF Due
    <3>2. \A hash : OnChain(hash)' <=> OnChain(hash)
      BY <1>1, Zenon DEF OnChain, HashAt
    <3>3. PICK now : now = polls'[f][j]
      OBVIOUS
    <3>4. PollIs(now, Due(f, j))
      BY <1>5, <1>6, <1>7, <3>3
    <3>5. PollIs(polls[f][j], Due(f, j))'
      BY <3>1, <3>2, <3>3, <3>4, Zenon DEF PollIs, Genesis
    <3>6. polls'[f][j].until <= Len(announced')
      BY <1>1, <1>5, <2>1
    <3> QED
      BY <3>5, <3>6
  <2>5. ReadUpTo(f, Len(polls[f]))' = ReadUpTo(f, Len(polls[f]))
    <3>1. Len(polls[f]) \in 0..Len(polls[f]) /\ Len(polls'[f]) = Len(polls[f])
      BY <1>3, <1>6, <1>7
    <3>2. PICK n \in 0..Len(polls[f]) : n = Len(polls[f])
      BY <3>1
    <3>3. ReadUpTo(f, n)' = ReadUpTo(f, n)
      BY <2>2
    <3> QED
      BY <3>1, <3>2, <3>3 DEF ReadUpTo
  <2>6. (\A j \in DOMAIN polls[f] :
           polls[f][j].until <= Len(announced) /\ PollIs(polls[f][j], Due(f, j)))'
    BY <1>6, <1>7, <2>4
  <2> QED
    BY <1>1, <1>4, <1>5, <2>3, <2>5, <2>6, Zenon DEF FilterOk
<1> QED
  BY <1>9, <1>10, <1>11 DEF FiltersInv

(* The first request of the series. *)
LEMMA AskNumber ==
  ASSUME FiltersInv, NEW f \in Filters, NEW i \in DOMAIN polls[f], askNumber(f, i)
  PROVE  FiltersInv'
<1>1. FiltersTypeOK /\ FilterOk(f) /\ polls[f][i].step = "number"
  BY DEF FiltersInv, askNumber
<1>2. polls[f][i] \in Polls
  BY <1>1, PollParts
<1>3. /\ polls[f][i].result \in Seq(Hashes) /\ polls[f][i].first \in BOOLEAN
      /\ polls[f][i].disturbed \in BOOLEAN
  BY <1>2 DEF Polls
<1>4. PollIs(polls[f][i], Due(f, i))
  <2>1. Len(polls[f]) \in Nat /\ DOMAIN polls[f] = 1..Len(polls[f]) /\ polls[f] # <<>>
    BY <1>1, PollParts, EmptySeq
  <2> QED
    BY <1>1, <2>1 DEF FilterOk
<1>5. polls[f][i].first /\ polls[f][i].result = Due(f, i) /\ polls[f][i].delayed = Genesis
  BY <1>1, <1>4, Zenon DEF PollIs
<1>6. PICK subject : subject = SubjectOf(polls[f][i])
  OBVIOUS
<1>7. CASE OnChain(subject) /\ subject # Genesis
  <2>1. PICK poll : poll = [polls[f][i] EXCEPT !.step = "previous", !.delayed = subject,
                                               !.blockNumber = Len(subject)]
    OBVIOUS
  <2>2. Continue(f, i, poll) /\ watching' = watching
    BY <1>6, <1>7, <2>1, Zenon DEF askNumber, NumberOf
  <2>3. subject \in Hashes
    <3>1. polls[f][i].result # <<>> => polls[f][i].result[1] \in Hashes
      <4>1. polls[f][i].result # <<>> => Len(polls[f][i].result) \in Nat \ {0}
        BY <1>3, EmptySeq
      <4>2. polls[f][i].result # <<>> => 1 \in 1..Len(polls[f][i].result)
        BY <4>1
      <4> QED
        BY <1>3, <4>2, ElementOfSeq
    <3>2. chain \in Hashes
      BY <1>1 DEF FiltersTypeOK, TrackerTypeOK
    <3> QED
      BY <1>6, <3>1, <3>2 DEF SubjectOf
  <2>4. Len(subject) \in Nat
    BY <2>3, LenProperties DEF Hashes
  <2>5. /\ poll \in Polls /\ poll.step = "previous" /\ poll.delayed = subject
        /\ poll.blockNumber = Len(subject) /\ poll.result = polls[f][i].result
        /\ poll.until = polls[f][i].until /\ poll.first = polls[f][i].first
    BY <1>2, <2>1, <2>3, <2>4 DEF Polls, Steps
  <2>6. PollIs(poll, Due(f, i))
    BY <1>5, <1>7, <2>5 DEF PollIs
  <2> QED
    BY <2>2, <2>5, <2>6, ContinueKeeps
<1>8. CASE ~(OnChain(subject) /\ subject # Genesis)
  <2>1. Answer(f, i, polls[f][i].result)
    BY <1>6, <1>8, Zenon DEF askNumber
  <2>2. PICK poll : poll = [polls[f][i] EXCEPT !.step = "answered",
                                               !.result = polls[f][i].result]
    OBVIOUS
  <2>3. Continue(f, i, poll) /\ watching' = watching \ {f}
    BY <2>1, <2>2, Zenon DEF Answer, StopWatching
  <2>4. /\ poll \in Polls /\ poll.step = "answered" /\ poll.delayed = polls[f][i].delayed
        /\ poll.result = polls[f][i].result /\ poll.until = polls[f][i].until
    BY <1>2, <2>2 DEF Polls, Steps
  <2>5. PollIs(poll, Due(f, i))
    BY <1>5, <2>4 DEF PollIs
  <2> QED
    BY <2>3, <2>4, <2>5, ContinueKeeps
<1> QED
  BY <1>7, <1>8

(* The second one: the block before takes the place of the first, or is all there is. *)
LEMMA AskPrevious ==
  ASSUME FiltersInv, NEW f \in Filters, NEW i \in DOMAIN polls[f], askPrevious(f, i)
  PROVE  FiltersInv'
<1>1. FiltersTypeOK /\ FilterOk(f) /\ polls[f][i].step = "previous"
  BY DEF FiltersInv, askPrevious
<1>2. polls[f][i] \in Polls
  BY <1>1, PollParts
<1>3. PICK delayed : delayed = polls[f][i].delayed
  OBVIOUS
<1>4. PICK result : result = polls[f][i].result
  OBVIOUS
<1>5. /\ result \in Seq(Hashes) /\ delayed \in Hashes /\ chain \in Hashes
      /\ polls[f][i].disturbed \in BOOLEAN
  BY <1>1, <1>2, <1>3, <1>4 DEF Polls, FiltersTypeOK, TrackerTypeOK
<1>6. PollIs(polls[f][i], Due(f, i))
  <2>1. Len(polls[f]) \in Nat /\ DOMAIN polls[f] = 1..Len(polls[f]) /\ polls[f] # <<>>
    BY <1>1, PollParts, EmptySeq
  <2> QED
    BY <1>1, <2>1 DEF FilterOk
<1>7. /\ polls[f][i].first /\ result = Due(f, i)
      /\ delayed # <<>> /\ polls[f][i].blockNumber = Len(delayed)
      /\ ~polls[f][i].disturbed => OnChain(delayed)
  BY <1>1, <1>3, <1>4, <1>6, Zenon DEF PollIs, Genesis
<1>8. Len(delayed) \in Nat \ {0} /\ Len(chain) \in Nat
  BY <1>5, <1>7, EmptySeq, LenProperties DEF Hashes
<1>9. PICK m \in Nat : m = Len(delayed) - 1
  <2>1. Len(delayed) - 1 \in Nat
    BY <1>8
  <2> QED
    BY <2>1
<1>10. PreviousNumber(polls[f][i]) = m
  BY <1>7, <1>9 DEF PreviousNumber
<1>11. ~polls[f][i].disturbed => m <= Len(chain) /\ SubSeq(chain, 1, m) = SubSeq(delayed, 1, m)
  <2> SUFFICES ASSUME ~polls[f][i].disturbed
               PROVE  m <= Len(chain) /\ SubSeq(chain, 1, m) = SubSeq(delayed, 1, m)
    OBVIOUS
  <2>1. Len(delayed) <= Len(chain) /\ SubSeq(chain, 1, Len(delayed)) = delayed
    BY <1>7, Zenon DEF OnChain, HashAt
  <2>2. m <= Len(chain) /\ Len(delayed) \in 1..Len(chain)
    BY <1>8, <1>9, <2>1
  <2>3. CASE m = 0
    <3>1. 1 \in Int /\ 0 \in Int /\ 0 < 1
      OBVIOUS
    <3>2. \A s : SubSeq(s, 1, 0) = <<>>
      BY <3>1, SubSeqEmpty
    <3> QED
      BY <2>2, <2>3, <3>2
  <2>4. CASE m # 0
    <3>1. m \in 1..Len(delayed)
      BY <1>8, <1>9, <2>4
    <3>2. SubSeq(SubSeq(chain, 1, Len(delayed)), 1, m) = SubSeq(chain, 1, m)
      BY <1>5, <2>2, <3>1, PrefixOfPrefix DEF Hashes
    <3> QED
      BY <2>1, <2>2, <3>2
  <2> QED
    BY <2>3, <2>4
<1>12. CASE m <= Len(chain)
  <2>1. PICK previous : previous = SubSeq(chain, 1, m)
    OBVIOUS
  <2>2. previous \in Hashes
    BY <1>5, <1>12, <2>1, BeginningIsHash
  <2>3. PICK hashes : hashes = WithPrevious(result, previous)
    OBVIOUS
  <2>4. /\ hashes \in Seq(Hashes) /\ hashes # <<>> /\ hashes[1] = previous
        /\ Tail(hashes) = IF result = <<>> THEN <<>> ELSE Tail(result)
    <3>1. CASE result = <<>>
      <4>1. hashes = <<previous>>
        BY <2>3, <3>1 DEF WithPrevious
      <4> QED
        BY <2>2, <3>1, <4>1
    <3>2. CASE result # <<>>
      <4>1. hashes = [result EXCEPT ![1] = previous]
        BY <2>3, <3>2 DEF WithPrevious
      <4> QED
        BY <1>5, <2>2, <3>2, <4>1, FirstReplaced
    <3> QED
      BY <3>1, <3>2
  <2>5. Answer(f, i, hashes)
    BY <1>4, <1>10, <1>12, <2>1, <2>3, Zenon DEF askPrevious, HashAt
  <2>6. PICK poll : poll = [polls[f][i] EXCEPT !.step = "answered", !.result = hashes]
    OBVIOUS
  <2>7. Continue(f, i, poll) /\ watching' = watching \ {f}
    BY <2>5, <2>6, Zenon DEF Answer, StopWatching
  <2>8. /\ poll \in Polls /\ poll.step = "answered" /\ poll.delayed = delayed
        /\ poll.result = hashes /\ poll.until = polls[f][i].until
        /\ poll.first = polls[f][i].first /\ poll.disturbed = polls[f][i].disturbed
    BY <1>2, <1>3, <2>4, <2>6 DEF Polls, Steps
  <2>9. PollIs(poll, Due(f, i))
    <3>1. ~poll.disturbed => poll.result[1] = SubSeq(poll.delayed, 1, Len(poll.delayed) - 1)
      BY <1>9, <1>11, <2>1, <2>4, <2>8
    <3>2. poll.result # <<>> /\ poll.first /\ poll.delayed # Genesis
          /\ Tail(poll.result) = IF Due(f, i) = <<>> THEN <<>> ELSE Tail(Due(f, i))
      BY <1>7, <2>4, <2>8 DEF Genesis
    <3> QED
      BY <2>8, <3>1, <3>2 DEF PollIs
  <2> QED
    BY <2>7, <2>8, <2>9, ContinueKeeps
<1>13. CASE ~(m <= Len(chain))
  <2>1. PICK poll : poll = [polls[f][i] EXCEPT !.step = "thrown"]
    OBVIOUS
  <2>2. Continue(f, i, poll) /\ watching' = watching
    BY <1>10, <1>13, <2>1, Zenon DEF askPrevious
  <2>3. /\ poll \in Polls /\ poll.step = "thrown" /\ poll.delayed = delayed
        /\ poll.result = result /\ poll.until = polls[f][i].until
        /\ poll.first = polls[f][i].first /\ poll.disturbed = polls[f][i].disturbed
    BY <1>2, <1>3, <1>4, <2>1 DEF Polls, Steps
  <2>4. polls[f][i].disturbed
    BY <1>11, <1>13
  <2>5. PollIs(poll, Due(f, i))
    BY <1>7, <2>3, <2>4 DEF PollIs
  <2> QED
    BY <2>2, <2>3, <2>5, ContinueKeeps
<1> QED
  BY <1>12, <1>13
-----------------------------------------------------------------------------
(* The theorems about filters. *)

(* No filter yet. *)
LEMMA FiltersStart ==
  ASSUME FiltersInit
  PROVE  FiltersInv /\ TrackerFollows
<1>1. /\ TrackerInit /\ installed = {} /\ watching = {}
      /\ updates = [f \in Filters |-> <<>>] /\ polls = [f \in Filters |-> <<>>]
      /\ earlier = [f \in Filters |-> 0]
  BY DEF FiltersInit
<1>2. \A S : <<>> \in Seq(S)
  BY EmptySeq
<1>3. FiltersTypeOK
  BY <1>1, <1>2 DEF FiltersTypeOK, TrackerInit, TrackerTypeOK, Hashes, Genesis
<1>4. \A f \in Filters : FilterOk(f)
  BY <1>1 DEF FilterOk
<1> QED
  BY <1>1, <1>3, <1>4, TrackerStarts DEF FiltersInv

(* One step of anything. *)
LEMMA FiltersStep ==
  ASSUME FiltersInv, TrackerFollows, [FiltersNext]_filterVars
  PROVE  FiltersInv' /\ TrackerFollows'
<1>1. ASSUME currentBlock' = currentBlock, stored' = stored, announced' = announced
      PROVE  TrackerFollows'
  BY <1>1, NothingStored
<1>2. ASSUME UNCHANGED <<chain, currentBlock, stored, announced>>
      PROVE  TrackerFollows'
  BY <1>1, <1>2
<1>3. ASSUME NEW content \in Contents, svm_mine(content)
      PROVE  FiltersInv' /\ TrackerFollows'
  <2>1. putBlock(content)
    BY <1>3 DEF svm_mine
  <2>2. TrackerFollows'
    BY <2>1, StoredIsFollowed DEF FiltersInv, FiltersTypeOK
  <2> QED
    BY <1>3, <2>2, MineFilters
<1>4. ASSUME NEW height \in 0..(MaxStored - 1), svm_revert(height)
      PROVE  FiltersInv' /\ TrackerFollows'
  BY <1>1, <1>4, RevertFilters DEF svm_revert, popTo
<1>5. ASSUME NEW f \in Filters, newBlockFilter(f)
      PROVE  FiltersInv' /\ TrackerFollows'
  BY <1>2, <1>5, NewFilter DEF newBlockFilter, trackerVars
<1>6. ASSUME NEW f \in Filters, getFilterChanges(f)
      PROVE  FiltersInv' /\ TrackerFollows'
  BY <1>2, <1>6, PollFilter DEF getFilterChanges, trackerVars
<1>7. ASSUME NEW f, NEW i, NEW poll, Continue(f, i, poll)
      PROVE  TrackerFollows'
  BY <1>2, <1>7 DEF Continue, trackerVars
<1>8. ASSUME NEW f \in Filters, NEW i \in DOMAIN polls[f], askNumber(f, i)
      PROVE  FiltersInv' /\ TrackerFollows'
  BY <1>7, <1>8, AskNumber DEF askNumber, Answer
<1>9. ASSUME NEW f \in Filters, NEW i \in DOMAIN polls[f], askPrevious(f, i)
      PROVE  FiltersInv' /\ TrackerFollows'
  BY <1>7, <1>9, AskPrevious DEF askPrevious, Answer
<1>10. CASE UNCHANGED filterVars
  <2>1. /\ chain' = chain /\ currentBlock' = currentBlock /\ stored' = stored
        /\ announced' = announced /\ installed' = installed /\ updates' = updates
        /\ watching' = watching /\ polls' = polls /\ earlier' = earlier
    BY <1>10 DEF filterVars, trackerVars
  <2>2. FiltersTypeOK'
    BY <2>1 DEF FiltersInv, FiltersTypeOK, TrackerTypeOK
  <2>3. \A f \in Filters : FilterOk(f)'
    <3> TAKE f \in Filters
    <3>1. FilterOk(f)
      BY DEF FiltersInv
    <3> QED
      BY <2>1, <3>1, SameFilter
  <2> QED
    BY <1>1, <2>1, <2>2, <2>3 DEF FiltersInv
<1> QED
  BY <1>3, <1>4, <1>5, <1>6, <1>8, <1>9, <1>10 DEF FiltersNext

(* The invariant of the proofs about filters. *)
LEMMA AlwaysFiltersInv == FiltersSpec => [](FiltersInv /\ TrackerFollows)
<1>1. FiltersInit => FiltersInv /\ TrackerFollows
  BY FiltersStart
<1>2. FiltersInv /\ TrackerFollows /\ [FiltersNext]_filterVars => (FiltersInv /\ TrackerFollows)'
  BY FiltersStep
<1> QED
  BY <1>1, <1>2, PTL DEF FiltersSpec

(* Whatever is polled, block_tracker.js passes on what is stored. *)
THEOREM TheTrackerFollowsPolled == FiltersSpec => []TrackerFollows
  BY AlwaysFiltersInv, PTL

(* The filters' variables keep their types. *)
THEOREM FiltersTypes == FiltersSpec => []FiltersTypeOK
<1>1. FiltersInv => FiltersTypeOK
  BY DEF FiltersInv
<1> QED
  BY <1>1, AlwaysFiltersInv, PTL

(* What a filter's polls found: each block once and in order, however many polls of it go on
   side by side; all that delayedblockfilter.js touches is the first hash of an answer, and
   only of polls begun before any was answered. *)
THEOREM PolledOnce == FiltersSpec => []EachBlockOnce
<1>1. FiltersInv => EachBlockOnce
  <2> SUFFICES ASSUME FiltersInv, NEW f \in installed
               PROVE  /\ updates[f] = SubSeq(announced, ReadUpTo(f, Len(polls[f])) + 1,
                                             Len(announced))
                      /\ \A i \in DOMAIN polls[f] :
                           IF IsDelayed(polls[f][i])
                             THEN /\ polls[f][i].first /\ polls[f][i].result # <<>>
                                  /\ Tail(polls[f][i].result) =
                                       IF Due(f, i) = <<>> THEN <<>> ELSE Tail(Due(f, i))
                             ELSE polls[f][i].result = Due(f, i)
    BY Zenon DEF EachBlockOnce
  <2>1. f \in Filters /\ FilterOk(f)
    BY DEF FiltersInv, FiltersTypeOK
  <2>2. ASSUME NEW i \in DOMAIN polls[f]
        PROVE  IF IsDelayed(polls[f][i])
                 THEN /\ polls[f][i].first /\ polls[f][i].result # <<>>
                      /\ Tail(polls[f][i].result) =
                           IF Due(f, i) = <<>> THEN <<>> ELSE Tail(Due(f, i))
                 ELSE polls[f][i].result = Due(f, i)
    <3>1. PollIs(polls[f][i], Due(f, i))
      BY <2>1, Zenon DEF FilterOk
    <3> QED
      BY <3>1, Zenon DEF PollIs, IsDelayed
  <2> QED
    BY <2>1, <2>2, Zenon DEF FilterOk
<1> QED
  BY <1>1, AlwaysFiltersInv, PTL

(* A poll answers with the parent of the block it is about, and is answered, unless a revert
   came into it. *)
THEOREM FirstPollIsOneBehind == FiltersSpec => []DelayedByOne
<1>1. FiltersInv => DelayedByOne
  <2> SUFFICES ASSUME FiltersInv, NEW f \in Filters, NEW i \in DOMAIN polls[f],
                      ~polls[f][i].disturbed
               PROVE  /\ polls[f][i].step # "thrown"
                      /\ IsDelayed(polls[f][i]) =>
                           polls[f][i].result[1] =
                             SubSeq(polls[f][i].delayed, 1, Len(polls[f][i].delayed) - 1)
    BY Zenon DEF DelayedByOne
  <2>1. FiltersTypeOK /\ FilterOk(f)
    BY DEF FiltersInv
  <2>2. Len(polls[f]) \in Nat /\ DOMAIN polls[f] = 1..Len(polls[f]) /\ polls[f] # <<>>
    BY <2>1, PollParts, EmptySeq
  <2>3. PollIs(polls[f][i], Due(f, i))
    BY <2>1, <2>2 DEF FilterOk
  <2> QED
    BY <2>3, Zenon DEF PollIs, IsDelayed
<1> QED
  BY <1>1, AlwaysFiltersInv, PTL
=============================================================================
