---------------------------- MODULE BlockFilters ----------------------------
(***************************************************************************)
(* Block filters that a client polls: the engine's filters (external)      *)
(* under lib/subproviders/delayedblockfilter.js, which answers the first   *)
(* poll of a filter with the hash of the block before the first one found, *)
(* or before the last one of the chain when none is found.  It asks for    *)
(* the number and for that block in two requests of its own.  They go      *)
(* past the queue of provider.js, and the other members of the same batch, *)
(* svm_mine, svm_revert and more polls of the filter among them, run in    *)
(* between.  A filter is watched until such a poll is answered, so that    *)
(* polls begun by then are all answered like the first.                    *)
(***************************************************************************)
EXTENDS BlockTracker

CONSTANTS
  Filters,
  MaxPolls           \* bound: polls of each filter

ASSUME MaxPollsAssumption == MaxPolls \in Nat

VARIABLES
  installed,         \* the engine's filters
  updates,           \* per filter: the hashes the next poll finds
  watching,          \* delayedBlockFilter.watching
  polls,             \* per filter: its polls, as they were begun
  earlier            \* history: per filter, how many blocks had been announced before

filterVars == <<trackerVars, installed, updates, watching, polls, earlier>>

(* A poll is about to ask for a number, or for the block before; a callback of it has
   thrown, and no answer ever comes; or it is answered. *)
Steps == {"number", "previous", "thrown", "answered"}

Polls ==
  [step : Steps,
   result : Seq(Hashes),      \* what was found and, in the end, the answer
   blockNumber : Nat,
   until : Nat,               \* history: how many blocks were announced when it was begun
   delayed : Hashes,          \* history: the block whose predecessor it answers, or genesis
   first : BOOLEAN,           \* history: no poll of the filter was answered before
   disturbed : BOOLEAN]       \* history: a revert came into it

FiltersInit ==
  /\ TrackerInit
  /\ installed = {}
  /\ updates = [f \in Filters |-> <<>>]
  /\ watching = {}
  /\ polls = [f \in Filters |-> <<>>]
  /\ earlier = [f \in Filters |-> 0]
-----------------------------------------------------------------------------
changesAfterPoll(f) == [updates EXCEPT ![f] = <<>>]

svm_mine(content) ==
  /\ putBlock(content)
  /\ updates' = [f \in Filters |->
                   IF f \in installed /\ announced' # announced
                     THEN Append(updates[f], currentBlock') ELSE updates[f]]
  /\ UNCHANGED <<installed, watching, polls, earlier>>

(* A revert comes into every poll that is not over. *)
Disturb(p) == [p EXCEPT !.disturbed = @ \/ p.step \in {"number", "previous"}]

svm_revert(height) ==
  /\ popTo(height)
  /\ polls' = [f \in Filters |-> [i \in DOMAIN polls[f] |-> Disturb(polls[f][i])]]
  /\ UNCHANGED <<installed, updates, watching, earlier>>

(* handleNewBlockFilter: the filter is made, and watched. *)
newBlockFilter(f) ==
  /\ f \notin installed
  /\ installed' = installed \cup {f}
  /\ watching' = watching \cup {f}
  /\ earlier' = [earlier EXCEPT ![f] = Len(announced)]
  /\ UNCHANGED <<trackerVars, updates, polls>>
-----------------------------------------------------------------------------
Unanswered(f) == \A i \in DOMAIN polls[f] : polls[f][i].step # "answered"

(* A filter no longer watched is answered at once. *)
NewPoll(f) ==
  [step |-> IF f \in watching THEN "number" ELSE "answered",
   result |-> updates[f], blockNumber |-> 0,
   until |-> Len(announced), delayed |-> Genesis,
   first |-> Unanswered(f), disturbed |-> FALSE]

(* A poll: the engine's filter is read and emptied. *)
getFilterChanges(f) ==
  /\ f \in installed
  /\ Len(polls[f]) < MaxPolls
  /\ updates' = changesAfterPoll(f)
  /\ polls' = [polls EXCEPT ![f] = Append(@, NewPoll(f))]
  /\ UNCHANGED <<trackerVars, installed, watching, earlier>>

(* Poll i of a filter goes on. *)
Continue(f, i, poll) ==
  /\ polls' = [polls EXCEPT ![f] = [@ EXCEPT ![i] = poll]]
  /\ UNCHANGED <<trackerVars, installed, updates, earlier>>

(* A mutant: the filter is watched for ever. *)
StopWatching_Not(f) == UNCHANGED watching

StopWatching(f) == watching' = watching \ {f}

(* The end of the series: the answer goes out and the filter is watched no more. *)
Answer(f, i, hashes) ==
  /\ Continue(f, i, [polls[f][i] EXCEPT !.step = "answered", !.result = hashes])
  /\ StopWatching(f)

OnChain(hash) == Len(hash) <= Len(chain) /\ HashAt(Len(hash)) = hash

(* The block a first poll is about: the first one found, or else the last one there is. *)
SubjectOf(poll) == IF poll.result # <<>> THEN poll.result[1] ELSE chain

NumberOf(hash) == Len(hash)

(* The first request of the series: sof_getBlockByHash of the first hash found, which
   fails when that block is gone, or sof_blockNumber.  At genesis nothing is changed. *)
askNumber(f, i) ==
  LET subject == SubjectOf(polls[f][i]) IN
  /\ polls[f][i].step = "number"
  /\ IF OnChain(subject) /\ subject # Genesis
       THEN /\ Continue(f, i, [polls[f][i] EXCEPT !.step = "previous", !.delayed = subject,
                                                  !.blockNumber = NumberOf(subject)])
            /\ UNCHANGED watching
       ELSE Answer(f, i, polls[f][i].result)

(* A mutant: the block before the last one is taken, wherever the first one found is. *)
PreviousNumber_OfLast(poll) == IF Len(chain) = 0 THEN 0 ELSE Len(chain) - 1

PreviousNumber(poll) == poll.blockNumber - 1

WithPrevious(hashes, previous) ==
  IF hashes = <<>> THEN <<previous>> ELSE [hashes EXCEPT ![1] = previous]

(* The second request, sof_getBlockByNumber: for a number past the end of the chain its
   result is null, and taking the hash of null throws. *)
askPrevious(f, i) ==
  LET number == PreviousNumber(polls[f][i]) IN
  /\ polls[f][i].step = "previous"
  /\ IF number <= Len(chain)
       THEN Answer(f, i, WithPrevious(polls[f][i].result, HashAt(number)))
       ELSE /\ Continue(f, i, [polls[f][i] EXCEPT !.step = "thrown"])
            /\ UNCHANGED watching
-----------------------------------------------------------------------------
FiltersNext ==
  \/ \E content \in Contents : svm_mine(content)
  \/ \E height \in 0..(MaxStored - 1) : svm_revert(height)
  \/ \E f \in Filters :
       \/ newBlockFilter(f) \/ getFilterChanges(f)
       \/ \E i \in DOMAIN polls[f] : askNumber(f, i) \/ askPrevious(f, i)

FiltersSpec == FiltersInit /\ [][FiltersNext]_filterVars
-----------------------------------------------------------------------------
(* Properties. *)

(* Every variable keeps its type. *)
FiltersTypeOK ==
  /\ TrackerTypeOK
  /\ installed \subseteq Filters
  /\ watching \subseteq installed
  /\ updates \in [Filters -> Seq(Hashes)]
  /\ polls \in [Filters -> Seq(Polls)]
  /\ earlier \in [Filters -> Nat]

(* The blocks announced up to the begin of poll i, after those before poll i - 1 or, for
   i = 1, before the filter. *)
ReadUpTo(f, i) == IF i = 0 THEN earlier[f] ELSE polls[f][i].until
Due(f, i) == SubSeq(announced, ReadUpTo(f, i - 1) + 1, ReadUpTo(f, i))

IsDelayed(poll) == poll.step = "answered" /\ poll.delayed # Genesis

(* Each block announced since a filter was made is found by one of its polls, once and in
   order, or waits for the next, whatever is mined, reverted or polled side by side.  A
   poll answers with what it found; but of a poll begun before any was answered,
   delayedblockfilter.js replaces the first hash, or puts one where none was found. *)
EachBlockOnce ==
  \A f \in installed :
    /\ updates[f] = SubSeq(announced, ReadUpTo(f, Len(polls[f])) + 1, Len(announced))
    /\ \A i \in DOMAIN polls[f] :
         LET poll == polls[f][i]
             rest == IF Due(f, i) = <<>> THEN <<>> ELSE Tail(Due(f, i))
         IN  IF IsDelayed(poll)
               THEN poll.first /\ poll.result # <<>> /\ Tail(poll.result) = rest
               ELSE poll.result = Due(f, i)

(* The hash put there is that of the parent of the block the poll is about, also when blocks
   are mined between the requests, and the poll is answered, unless a revert came in between. *)
DelayedByOne ==
  \A f \in Filters : \A i \in DOMAIN polls[f] :
    LET poll == polls[f][i] IN
    ~poll.disturbed =>
      /\ poll.step # "thrown"
      /\ IsDelayed(poll) =>
           poll.result[1] = SubSeq(poll.delayed, 1, Len(poll.delayed) - 1)
=============================================================================
