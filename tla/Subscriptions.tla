---------------------------- MODULE Subscriptions ----------------------------
(***************************************************************************)
(* Subscriptions to new blocks over web sockets: lib/webSocketServer.js    *)
(* keeps two tables, the subscriptions of each open connection and the     *)
(* connection of each subscription, beside the table of the engine's       *)
(* subscription subprovider (external).  Requests go through the serial    *)
(* queue of lib/provider.js (RequestQueue.tla), so a connection may close  *)
(* while requests of it wait, and its close handler queues requests of its *)
(* own.  A request and the callback of its answer are one step: the        *)
(* callback is a process.nextTick of the turn that ends the request, and   *)
(* neither a close nor another request comes between.                      *)
(***************************************************************************)
EXTENDS BlockTracker, FiniteSets, Functions

CONSTANTS
  Connections,
  NoConnection,
  MaxSubscriptions,  \* bound: subscriptions made in all
  MaxQueue           \* bound: requests of clients that wait

ASSUME ConnectionsAssumption == NoConnection \notin Connections
ASSUME SubscriptionBounds == MaxSubscriptions \in Nat /\ MaxQueue \in Nat

Ids == 1..MaxSubscriptions

Requests ==
  [kind : {"subscribe", "subscribeInBatch"}, from : Connections]
  \cup [kind : {"unsubscribe", "unsubscribeInBatch"}, from : Connections, id : Ids]
  \cup [kind : {"drop"}, id : Ids]

VARIABLES
  requestQueue,            \* provider._requestQueue
  connection,              \* "new", "open" (it is in connections) or "closed"
  subscriptionsOf,         \* connections[c].subscriptions
  connectionOf,            \* connectionsBySubscriptionId
  active,                  \* the engine's subscriptions
  latestId,                \* the engine's filterIndex
  heard,                   \* history: per subscription, the hashes sent to its connection
  since,                   \* history: per subscription, how many had been announced before
  missed                   \* history: subscriptions made or ended without the tables' knowledge

tableVars == <<subscriptionsOf, connectionOf, active, latestId>>
historyVars == <<heard, since, missed>>
vars == <<trackerVars, requestQueue, connection, tableVars, historyVars>>

Init ==
  /\ TrackerInit
  /\ requestQueue = <<>>
  /\ connection = [c \in Connections |-> "new"]
  /\ subscriptionsOf = [c \in Connections |-> {}]
  /\ connectionOf = [id \in Ids |-> NoConnection]
  /\ active = {}
  /\ latestId = 0
  /\ heard = [id \in Ids |-> <<>>]
  /\ since = [id \in Ids |-> 0]
  /\ missed = {}

IsOpen(c) == connection[c] = "open"
-----------------------------------------------------------------------------
(* What comes in from the sockets. *)

(* manageConnection. *)
connect(c) ==
  /\ connection[c] = "new"
  /\ connection' = [connection EXCEPT ![c] = "open"]
  /\ UNCHANGED <<trackerVars, requestQueue, tableVars, historyVars>>

Waiting(kinds) == Cardinality({i \in DOMAIN requestQueue : requestQueue[i].kind \in kinds})

(* The bounds: every subscription waited for can be made. *)
HasRoom(request) ==
  /\ Len(requestQueue) < MaxQueue
  /\ request.kind \in {"subscribe", "subscribeInBatch"} =>
       latestId + Waiting({"subscribe", "subscribeInBatch"}) < MaxSubscriptions

Send(request) ==
  /\ HasRoom(request)
  /\ requestQueue' = Append(requestQueue, request)
  /\ UNCHANGED <<trackerVars, connection, tableVars, historyVars>>

(* A message of an open connection: to subscribe, or to unsubscribe any subscription made
   so far, alone or as a member of a batch. *)
message(c) ==
  /\ IsOpen(c)
  /\ \/ Send([kind |-> "subscribe", from |-> c])
     \/ Send([kind |-> "subscribeInBatch", from |-> c])
     \/ \E id \in 1..latestId : Send([kind |-> "unsubscribe", from |-> c, id |-> id])
     \/ \E id \in 1..latestId : Send([kind |-> "unsubscribeInBatch", from |-> c, id |-> id])

Drop(id) == [kind |-> "drop", id |-> id]

(* A mutant: the connection is forgotten before its subscriptions are looked up. *)
RecordedOf_Forgotten(c) == {}

RecordedOf(c) == subscriptionsOf[c]

(* The keys of a table in the order they were put there. *)
InOrder(ids) ==
  {s \in [1..Cardinality(ids) -> ids] : Range(s) = ids /\ \A i, j \in DOMAIN s : i < j => s[i] < s[j]}

(* The close handler: an sof_unsubscribe for each subscription recorded, and the
   connection is forgotten. *)
close(c) ==
  /\ IsOpen(c)
  /\ connection' = [connection EXCEPT ![c] = "closed"]
  /\ \E ids \in InOrder(RecordedOf(c)) :
       requestQueue' = requestQueue \o [i \in DOMAIN ids |-> Drop(ids[i])]
  /\ subscriptionsOf' = [subscriptionsOf EXCEPT ![c] = {}]
  /\ UNCHANGED <<trackerVars, connectionOf, active, latestId, historyVars>>
-----------------------------------------------------------------------------
(* A request reaches the engine, is answered, and its callback runs. *)

(* The subprovider makes a subscription. *)
create ==
  /\ latestId' = latestId + 1
  /\ active' = active \cup {latestId'}
  /\ since' = [since EXCEPT ![latestId'] = Len(announced)]
  /\ UNCHANGED <<trackerVars, connection, heard>>

Unrecorded(id) ==
  /\ missed' = missed \cup {id}
  /\ UNCHANGED <<subscriptionsOf, connectionOf>>

(* A mutant: the answer is recorded although the connection is gone. *)
StillThere_Assumed(c) == TRUE

StillThere(c) == IsOpen(c)

(* _handleRequest, sof_subscribe: recorded when the connection is still there. *)
subscribe(c) ==
  /\ create
  /\ IF StillThere(c)
       THEN /\ subscriptionsOf' = [subscriptionsOf EXCEPT ![c] = @ \cup {latestId'}]
            /\ connectionOf' = [connectionOf EXCEPT ![latestId'] = c]
            /\ UNCHANGED missed
       ELSE Unrecorded(latestId')

(* _handleRequest, default: the payload of a batch has no method, whatever its members. *)
subscribeInBatch == create /\ Unrecorded(latestId')

Known(id) == id \in active

(* The subprovider ends a subscription. *)
uninstall(id) ==
  /\ active' = active \ {id}
  /\ heard' = [heard EXCEPT ![id] = <<>>]
  /\ since' = [since EXCEPT ![id] = 0]
  /\ UNCHANGED <<trackerVars, connection, latestId>>

(* Two mutants: the entry is emptied and not deleted; it is deleted only for its owner. *)
forgetConnection_Emptied(id, c) == connectionOf' = [connectionOf EXCEPT ![id] = "undefined"]
forgetConnection_IfOwn(id, c) ==
  connectionOf' = IF connectionOf[id] = c
                    THEN [connectionOf EXCEPT ![id] = NoConnection] ELSE connectionOf

forgetConnection(id, c) == connectionOf' = [connectionOf EXCEPT ![id] = NoConnection]

(* _handleRequest, sof_unsubscribe: an unknown id is answered with an error. *)
unsubscribe(c, id) ==
  IF Known(id)
    THEN /\ uninstall(id)
         /\ forgetConnection(id, c)
         /\ subscriptionsOf' = [subscriptionsOf EXCEPT ![c] = @ \ {id}]
         /\ UNCHANGED missed
    ELSE UNCHANGED <<trackerVars, connection, tableVars, historyVars>>

unsubscribeInBatch(id) ==
  IF Known(id)
    THEN uninstall(id) /\ Unrecorded(id)
    ELSE UNCHANGED <<trackerVars, connection, tableVars, historyVars>>

(* The request of a close handler. *)
dropSubscription(id) ==
  IF Known(id)
    THEN /\ uninstall(id)
         /\ forgetConnection(id, NoConnection)
         /\ UNCHANGED <<subscriptionsOf, missed>>
    ELSE UNCHANGED <<trackerVars, connection, tableVars, historyVars>>

(* A mutant: a connection is told once, whatever it has subscribed. *)
Told_Once ==
  {id \in active : /\ connectionOf[id] \in Connections
                   /\ \A other \in active : connectionOf[other] = connectionOf[id] => other <= id}

(* The subscriptions _updateSubscriptions finds a connection for. *)
Told == {id \in active : connectionOf[id] \in Connections}

(* A request that mines a block, anyone's, the interval miner's included: the event of the
   tracker becomes a notification for each subscription.  Where such a request waits in
   the queue makes no difference to anything here, so it is served when it comes. *)
mine(content) ==
  /\ putBlock(content)
  /\ heard' = [id \in Ids |->
                 IF id \in Told /\ announced' # announced
                   THEN Append(heard[id], currentBlock') ELSE heard[id]]
  /\ UNCHANGED <<requestQueue, connection, tableVars, since, missed>>

(* svm_revert, served likewise. *)
revert(height) ==
  /\ popTo(height)
  /\ UNCHANGED <<requestQueue, connection, tableVars, historyVars>>

Handle(r) ==
  \/ r.kind = "subscribe"          /\ subscribe(r.from)
  \/ r.kind = "subscribeInBatch"   /\ subscribeInBatch
  \/ r.kind = "unsubscribe"        /\ unsubscribe(r.from, r.id)
  \/ r.kind = "unsubscribeInBatch" /\ unsubscribeInBatch(r.id)
  \/ r.kind = "drop"               /\ dropSubscription(r.id)

(* _processRequestQueue hands the next request over. *)
serve ==
  /\ requestQueue # <<>>
  /\ requestQueue' = Tail(requestQueue)
  /\ Handle(Head(requestQueue))
-----------------------------------------------------------------------------
Next ==
  \/ \E c \in Connections : connect(c) \/ message(c) \/ close(c)
  \/ \E content \in Contents : mine(content)
  \/ \E height \in 0..(MaxStored - 1) : revert(height)
  \/ serve

Spec == Init /\ [][Next]_vars

(* The queue is served (RequestQueue!EveryRequestAnswered); what clients do is theirs. *)
FairSpec == Spec /\ WF_vars(serve)
-----------------------------------------------------------------------------
(* Properties. *)

(* Every variable keeps its type. *)
TypeOK ==
  /\ TrackerTypeOK
  /\ requestQueue \in Seq(Requests)
  /\ connection \in [Connections -> {"new", "open", "closed"}]
  /\ subscriptionsOf \in [Connections -> SUBSET Ids]
  /\ connectionOf \in [Ids -> Connections \cup {NoConnection}]
  /\ active \subseteq Ids
  /\ latestId \in 0..MaxSubscriptions
  /\ heard \in [Ids -> Seq(Hashes)]
  /\ since \in [Ids -> Nat]
  /\ missed \subseteq Ids

(* A connection is sent every block the tracker announced since it subscribed, each once
   and in order, until its subscription ends: whatever other connections subscribe, end or
   close, and whatever is reverted in between. *)
HearsEveryBlock ==
  \A id \in active :
    connectionOf[id] # NoConnection =>
      heard[id] = SubSeq(announced, since[id] + 1, Len(announced))

(* The two tables of webSocketServer.js and the engine's agree, but for subscriptions made
   or ended behind the tables' back: one found under its id is active, and an open
   connection has it recorded as well; what an open connection has recorded and is active is
   found under its id. *)
TablesAgree ==
  \A id \in Ids \ missed, c \in Connections :
    /\ connectionOf[id] = c => id \in active /\ (IsOpen(c) => id \in subscriptionsOf[c])
    /\ id \in subscriptionsOf[c] /\ id \in active => connectionOf[id] = c /\ IsOpen(c)

(* The engine keeps no subscription nobody can end: each belongs to an open connection, or
   its end is queued, or its answer was not recorded (the connection closed while the
   request waited, or it was made in a batch). *)
NoSubscriptionForgotten ==
  \A id \in active :
    \/ id \in missed
    \/ \E c \in Connections : IsOpen(c) /\ id \in subscriptionsOf[c]
    \/ \E i \in DOMAIN requestQueue : requestQueue[i] = Drop(id)

(* The subscriptions of a closed connection come to an end in both tables, unless a batch
   had ended one before. *)
ClosedIsForgotten ==
  \A id \in Ids, c \in Connections :
    (connectionOf[id] = c /\ ~IsOpen(c)) ~> (connectionOf[id] = NoConnection \/ id \in missed)
=============================================================================
