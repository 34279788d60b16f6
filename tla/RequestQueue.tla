---------------------------- MODULE RequestQueue ----------------------------
(***************************************************************************)
(* How lib/provider.js lets one request at a time through to the engine,   *)
(* and how lib/subproviders/graviton_api_double.js holds requests back     *)
(* until the state manager is initialized.  Provider.send queues a request *)
(* and schedules _processRequestQueue with setImmediate; a run of it takes *)
(* the flag _requestInProgress and hands the head of the queue to the      *)
(* engine; the completion callback schedules another run, answers, and     *)
(* frees the flag.  A request that comes before initialization waits with  *)
(* a delayed handler, which on a failed initialization ends the request    *)
(* and then handles it, which ends it again.                               *)
(***************************************************************************)
EXTENDS Naturals, Sequences, FiniteSets

CONSTANTS
  Requests,             \* every request is sent once
  InitOutcomes          \* how initialization may end: a subset of {"done", "failed"}

ASSUME RequestsAssumption == IsFiniteSet(Requests)
ASSUME InitAssumption == InitOutcomes \subseteq {"done", "failed"}

VARIABLES
  requestQueue,         \* provider._requestQueue
  requestInProgress,    \* provider._requestInProgress
  immediates,           \* scheduled runs of _processRequestQueue
  initialization,       \* "pending", "done" or "failed": initialized, initialization_error
  stage,                \* per request: where it is
  answers,              \* per request: how many times its callback was called
  sent,                 \* history: requests in the order they were sent
  started               \* history: requests in the order they reached the engine

vars == <<requestQueue, requestInProgress, immediates, initialization, stage, answers, sent, started>>

(* unsent; queued; in the engine on its way to the api double (arriving); waiting in
   post_initialization_callbacks; its delayed handler scheduled (released); being
   worked on (running), by a handler that will end it; ended. *)
Stages == {"unsent", "queued", "arriving", "waiting", "released", "running", "ended"}

At(s) == {r \in Requests : stage[r] = s}
InEngine == At("arriving") \cup At("waiting") \cup At("released") \cup At("running")

Init ==
  /\ requestQueue = <<>>
  /\ requestInProgress = FALSE
  /\ immediates = 0
  /\ initialization = "pending"
  /\ stage = [r \in Requests |-> "unsent"]
  /\ answers = [r \in Requests |-> 0]
  /\ sent = <<>>
  /\ started = <<>>
-----------------------------------------------------------------------------
(* Provider.send and _queueRequest. *)
queueRequest(r) ==
  /\ stage[r] = "unsent"
  /\ stage' = [stage EXCEPT ![r] = "queued"]
  /\ requestQueue' = Append(requestQueue, r)
  /\ immediates' = immediates + 1
  /\ sent' = Append(sent, r)
  /\ UNCHANGED <<requestInProgress, initialization, answers, started>>

(* A mutant: a run does not look at the flag. *)
MayStart_AnyTime == immediates > 0

(* A scheduled run of _processRequestQueue goes on when no request is in progress. *)
MayStart == immediates > 0 /\ ~requestInProgress

(* A mutant: the newest request is handed over. *)
handOver_Newest ==
  LET r == requestQueue[Len(requestQueue)] IN
  /\ requestQueue' = SubSeq(requestQueue, 1, Len(requestQueue) - 1)
  /\ stage' = [stage EXCEPT ![r] = "arriving"]
  /\ started' = Append(started, r)

handOver ==
  LET r == Head(requestQueue) IN
  /\ requestQueue' = Tail(requestQueue)
  /\ stage' = [stage EXCEPT ![r] = "arriving"]
  /\ started' = Append(started, r)

(* _processRequestQueue takes the flag and hands a request to the engine; when the
   queue is empty it frees the flag again. *)
processRequestQueue ==
  /\ MayStart
  /\ immediates' = immediates - 1
  /\ IF requestQueue = <<>>
       THEN UNCHANGED <<requestQueue, requestInProgress, stage, started>>
       ELSE requestInProgress' = TRUE /\ handOver
  /\ UNCHANGED <<initialization, answers, sent>>

(* A run that finds the flag taken returns: the completion schedules another. *)
processBusy ==
  /\ immediates > 0
  /\ requestInProgress
  /\ immediates' = immediates - 1
  /\ UNCHANGED <<requestQueue, requestInProgress, initialization, stage, answers, sent, started>>

(* Two mutants: the rest of the queue is left to the next send; the flag stays taken. *)
reschedule_Not == UNCHANGED immediates
freeFlag_Not == UNCHANGED requestInProgress

reschedule == immediates' = IF requestQueue # <<>> THEN immediates + 1 ELSE immediates
freeFlag == requestInProgress' = FALSE

(* The completion callback, run for every call of the engine's end. *)
complete(r) ==
  /\ reschedule
  /\ answers' = [answers EXCEPT ![r] = @ + 1]
  /\ freeFlag
  /\ UNCHANGED <<requestQueue, initialization, sent, started>>

Move(r, s) == stage' = [stage EXCEPT ![r] = s]
Quiet == UNCHANGED <<requestQueue, requestInProgress, immediates, initialization, answers, sent,
                     started>>

(* GravitonApiDouble.handleRequest: a failed initialization ends the request; one that
   is not over keeps it waiting; otherwise its method runs. *)
handleRequest(r) ==
  /\ stage[r] = "arriving"
  /\ \/ initialization = "failed"  /\ Move(r, "ended")   /\ complete(r)
     \/ initialization = "pending" /\ Move(r, "waiting") /\ Quiet
     \/ initialization = "done"    /\ Move(r, "running") /\ Quiet

(* The method calls end. *)
endRequest(r) ==
  /\ stage[r] = "running"
  /\ Move(r, "ended")
  /\ complete(r)

(* state.initialize calls back: every waiting request gets its own setImmediate. *)
initializationOver(outcome) ==
  /\ initialization = "pending"
  /\ initialization' = outcome
  /\ stage' = [r \in Requests |-> IF stage[r] = "waiting" THEN "released" ELSE stage[r]]
  /\ UNCHANGED <<requestQueue, requestInProgress, immediates, answers, sent, started>>

(* A mutant: the delayed handler ends a request also when all is well. *)
endsEarly_Always == TRUE

endsEarly == initialization = "failed"

(* getDelayedHandler: after an error it ends the request and, for want of a return,
   goes on to handle it, so that the request is ended once more. *)
delayedHandler(r) ==
  /\ stage[r] = "released"
  /\ Move(r, "running")
  /\ IF endsEarly THEN complete(r) ELSE Quiet
-----------------------------------------------------------------------------
Handling(r) == handleRequest(r) \/ endRequest(r) \/ delayedHandler(r)
Initializing == \E outcome \in InitOutcomes : initializationOver(outcome)

Next ==
  \/ processRequestQueue \/ processBusy \/ Initializing
  \/ \E r \in Requests : Handling(r) \/ queueRequest(r)

Spec == Init /\ [][Next]_vars

(* Scheduled callbacks run, initialization comes to an end and every method calls
   end; whether and when a client sends a request is up to the client. *)
Fairness ==
  /\ WF_vars(processRequestQueue \/ processBusy)
  /\ WF_vars(Initializing)
  /\ \A r \in Requests : WF_vars(Handling(r))

FairSpec == Spec /\ Fairness
-----------------------------------------------------------------------------
(* Properties. *)

(* Every variable keeps its type. *)
TypeOK ==
  /\ requestQueue \in Seq(Requests)
  /\ requestInProgress \in BOOLEAN
  /\ immediates \in Nat
  /\ initialization \in {"pending", "done", "failed"}
  /\ stage \in [Requests -> Stages]
  /\ answers \in [Requests -> Nat]
  /\ sent \in Seq(Requests)
  /\ started \in Seq(Requests)

(* _processRequestQueue serialises requests: unless initialization failed, at most one
   is in the engine, the flag is taken exactly while one is, and it is the one handed
   over last, so that answers too come in the order of requests. *)
OneInEngine ==
  initialization # "failed" =>
    /\ requestInProgress = (InEngine # {})
    /\ \A r \in InEngine : started # <<>> /\ r = started[Len(started)]

(* No wakeup is lost: when requests wait and none is being served, a run of
   _processRequestQueue is scheduled, whoever freed the flag and in whatever order
   the sends, the runs and the completions came. *)
NoLostWakeup == requestQueue # <<>> /\ ~requestInProgress => immediates > 0

(* Requests reach the engine in the order in which they were sent; none is skipped
   and none is handed over twice. *)
ServedInOrder == sent = started \o requestQueue

(* Unless initialization failed, a request is answered once, when it ends. *)
AnsweredOnce ==
  initialization # "failed" =>
    \A r \in Requests : answers[r] = IF stage[r] = "ended" THEN 1 ELSE 0

(* Every request sent is answered, also after a failed initialization. *)
EveryRequestAnswered ==
  \A r \in Requests : (stage[r] = "queued") ~> (answers[r] > 0)
=============================================================================
