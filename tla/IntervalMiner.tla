---------------------------- MODULE IntervalMiner ----------------------------
(***************************************************************************)
(* Mining on an interval (option blockTime): mineOnInterval, startMining   *)
(* and stopMining of lib/statemanager.js, the requests they exchange with  *)
(* the queue of lib/provider.js, and Provider.close.                       *)
(* mineOnInterval arms a timer; the timer sends svm_mine through the       *)
(* provider; when that request is answered its callback arms the next      *)
(* timer, unless the cancellation token it was made with has been          *)
(* cancelled meanwhile.  Each call of mineOnInterval makes a new token, so *)
(* a timer, the svm_mine request it sends and the callback of that request *)
(* are told apart by their token.                                          *)
(***************************************************************************)
EXTENDS Naturals, Sequences, FiniteSets

CONSTANTS
  Tokens,             \* cancellation tokens; bound: one that is forgotten is used again
  NoToken,            \* null
  MaxQueue            \* bound: client requests in the queue

ASSUME TokensAssumption == NoToken \notin Tokens
ASSUME QueueAssumption == MaxQueue \in Nat

VARIABLES
  is_mining,
  minerCancellationToken,  \* _minerCancellationToken
  cancelled,               \* the tokens whose field cancelled is true
  mining_interval_timeout, \* the token of the armed timer, or NoToken
  requestQueue,            \* the provider's queue: its head is being served
  answered,                \* tokens whose svm_mine was answered, callback on its way
  closed                   \* Provider.close was called

vars == <<is_mining, minerCancellationToken, cancelled, mining_interval_timeout, requestQueue,
          answered, closed>>

(* What the queue holds: the timer's own requests, and those of clients. *)
MineFor(t) == [method |-> "svm_mine", token |-> t]
Start == [method |-> "miner_start", token |-> NoToken]
Stop == [method |-> "miner_stop", token |-> NoToken]
Requests == {MineFor(t) : t \in Tokens} \cup {Start, Stop}

Sent == {t \in Tokens : \E i \in DOMAIN requestQueue : requestQueue[i] = MineFor(t)}

(* Someone still holds these: the manager, a timer, a request, a callback. *)
Held == ({minerCancellationToken, mining_interval_timeout} \cup Sent \cup answered) \ {NoToken}
Fresh(t) == t \in Tokens \ Held
-----------------------------------------------------------------------------
(* Two mutants: the token of the miner before is left as it is; it is cancelled also
   when it is null. *)
cancelPrevious_Not == cancelled
cancelPrevious_Null == cancelled \cup {minerCancellationToken}

cancelPrevious == cancelled \cup ({minerCancellationToken} \ {NoToken})

(* mineOnInterval, called with is_mining as it then is. It clears the timer, cancels
   the token of the miner before it, and arms a timer with a new token. *)
mineOnInterval(mining) ==
  IF mining
    THEN \E t \in Tokens :
           /\ Fresh(t)
           /\ minerCancellationToken' = t
           /\ mining_interval_timeout' = t
           /\ cancelled' = cancelPrevious \ {t}
    ELSE /\ mining_interval_timeout' = NoToken
         /\ cancelled' = cancelPrevious
         /\ UNCHANGED minerCancellationToken

stopMining ==
  IF is_mining
    THEN /\ is_mining' = FALSE
         /\ cancelled' = cancelPrevious
         /\ minerCancellationToken' = NoToken
         /\ mining_interval_timeout' = NoToken
    ELSE UNCHANGED <<is_mining, minerCancellationToken, cancelled, mining_interval_timeout>>

startMining ==
  IF is_mining
    THEN UNCHANGED <<is_mining, minerCancellationToken, cancelled, mining_interval_timeout>>
    ELSE is_mining' = TRUE /\ mineOnInterval(TRUE)
-----------------------------------------------------------------------------
(* StateManager.initialize has called mineOnInterval. *)
Init ==
  /\ is_mining = TRUE
  /\ minerCancellationToken \in Tokens
  /\ mining_interval_timeout = minerCancellationToken
  /\ cancelled = {}
  /\ requestQueue = <<>>
  /\ answered = {}
  /\ closed = FALSE

(* An answer goes out with process.nextTick: its callback runs before any other timer
   or immediate, though code that runs on the same turn may come in between. *)
TurnOver == answered = {}

(* The timer goes off: provider.send queues its svm_mine. *)
timerFires ==
  /\ TurnOver
  /\ mining_interval_timeout # NoToken
  /\ requestQueue' = Append(requestQueue, MineFor(mining_interval_timeout))
  /\ mining_interval_timeout' = NoToken
  /\ UNCHANGED <<is_mining, minerCancellationToken, cancelled, answered, closed>>

clientSends(request) ==
  /\ ~closed
  /\ Cardinality({i \in DOMAIN requestQueue : requestQueue[i].token = NoToken}) < MaxQueue
  /\ requestQueue' = Append(requestQueue, request)
  /\ UNCHANGED <<is_mining, minerCancellationToken, cancelled, mining_interval_timeout, answered, closed>>

(* The request at the head of the queue is served; svm_mine mines a block whether or
   not the miner was stopped while it waited. *)
serve ==
  /\ TurnOver
  /\ requestQueue # <<>>
  /\ requestQueue' = Tail(requestQueue)
  /\ \/ /\ Head(requestQueue) = Start
        /\ startMining
        /\ UNCHANGED answered
     \/ /\ Head(requestQueue) = Stop
        /\ stopMining
        /\ UNCHANGED answered
     \/ \E t \in Tokens :
          /\ Head(requestQueue) = MineFor(t)
          /\ answered' = answered \cup {t}
          /\ UNCHANGED <<is_mining, minerCancellationToken, cancelled, mining_interval_timeout>>
  /\ UNCHANGED closed

(* A mutant: the test of the token is the wrong way round. *)
mayRearm_Inverted(t) == t \in cancelled

mayRearm(t) == t \notin cancelled

(* The callback of the timer's svm_mine. *)
minedCallback(t) ==
  /\ t \in answered
  /\ answered' = answered \ {t}
  /\ IF mayRearm(t)
       THEN mineOnInterval(is_mining)
       ELSE UNCHANGED <<minerCancellationToken, cancelled, mining_interval_timeout>>
  /\ UNCHANGED <<is_mining, requestQueue, closed>>

(* Provider.close stops the miner out of turn. *)
close ==
  /\ ~closed
  /\ closed' = TRUE
  /\ stopMining
  /\ UNCHANGED <<requestQueue, answered>>

Next ==
  \/ timerFires \/ serve \/ close
  \/ clientSends(Start) \/ clientSends(Stop)
  \/ \E t \in Tokens : minedCallback(t)

Spec == Init /\ [][Next]_vars

(* Timers go off, the provider serves its queue (RequestQueue.tla), callbacks run. *)
FairSpec == Spec /\ WF_vars(timerFires) /\ WF_vars(serve) /\ WF_vars(\E t \in Tokens : minedCallback(t))
-----------------------------------------------------------------------------
(* Properties. *)

(* Every variable keeps its type. *)
TypeOK ==
  /\ is_mining \in BOOLEAN
  /\ minerCancellationToken \in Tokens \cup {NoToken}
  /\ cancelled \subseteq Tokens
  /\ mining_interval_timeout \in Tokens \cup {NoToken}
  /\ requestQueue \in Seq(Requests)
  /\ answered \subseteq Tokens
  /\ closed \in BOOLEAN

(* The miners that will go on: a timer armed, or a request or callback under way
   whose token is not cancelled. *)
Live == (({mining_interval_timeout} \ {NoToken}) \cup Sent \cup answered) \ cancelled

(* However starts, stops, timers and late answers interleave, a manager that is mining
   has exactly one miner that will go on, the one whose token it holds; and one that
   was stopped has none, so that nothing starts it again but miner_start. *)
OneMiner ==
  /\ is_mining => Live = {minerCancellationToken}
  /\ ~is_mining => Live = {} /\ mining_interval_timeout = NoToken

(* A manager that goes on mining keeps mining blocks: the chain of timers never breaks
   off, whatever was started and stopped before. *)
MinesAgainAndAgain == <>[]is_mining => []<>(Sent # {}) /\ []<>(answered # {})
=============================================================================
