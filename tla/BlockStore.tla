----------------------------- MODULE BlockStore -----------------------------
(***************************************************************************)
(* How BlockchainDouble.putBlock and popBlock write a block into the five  *)
(* stores of lib/database.js, write by write: the arrays blocks and        *)
(* blockLogs (LevelUpArrayAdapter keeps an entry per index and a length,   *)
(* in two writes, "TODO: Do this in atomic batch") and the objects         *)
(* blockHashes, transactions and transactionReceipts.  putBlock writes     *)
(* them in parallel, popBlock one after the other.  The process may be     *)
(* killed between any two writes and started again over what was written.  *)
(* Every block has one transaction with one log; a block stands for its    *)
(* hash, for its state root and for its transaction and that one's         *)
(* receipt and log.                                                        *)
(***************************************************************************)
EXTENDS Naturals, Sequences, FiniteSets, Functions

CONSTANTS
  Blocks,             \* every block is put once
  NoBlock,
  MaxCrashes          \* bound: times the process is killed

ASSUME BlocksAssumption == IsFiniteSet(Blocks) /\ NoBlock \notin Blocks
ASSUME CrashesAssumption == MaxCrashes \in Nat

Arrays == {"blocks", "blockLogs"}
Objects == {"blockHashes", "transactions", "transactionReceipts"}

VARIABLES
  \* the database
  entries,            \* per array: index -> block
  length,             \* per array: its stored length
  blockHashes,        \* block -> index in blocks
  transactions,       \* blocks whose transaction is stored
  transactionReceipts, \* blocks whose transaction's receipt is stored
  \* the process
  process,            \* "down", "up", or "failed": initialize ended with an error
  stateRoot,          \* the block whose state root stateTrie has
  operation,          \* what runs: its kind, its block, the index it writes
  writes,             \* put: per store, the writes that are left
  steps,              \* pop: the steps that are left
  floor,              \* blocks, genesis included, at the start: no snapshot is older
  \* history
  before,             \* the list of blocks when the last operation began
  torn,               \* kinds of operation that the process was killed in
  popped,             \* blocks popped to the end
  popFailed,          \* whether popBlock ever called back with an error
  crashes

objectVars == <<blockHashes, transactions, transactionReceipts>>
dbVars == <<entries, length, objectVars>>
historyVars == <<before, torn, popped, popFailed, crashes>>
vars == <<dbVars, process, stateRoot, operation, writes, steps, floor, historyVars>>

NoOperation == [kind |-> "none", block |-> NoBlock, index |-> 0]
Idle == process = "up" /\ operation.kind = "none"

With(f, key, value) == [x \in DOMAIN f \cup {key} |-> IF x = key THEN value ELSE f[x]]
Without(f, key) == [x \in DOMAIN f \ {key} |-> f[x]]
Empty == [x \in {} |-> NoBlock]

(* The blocks below the stored length, when the entry of each is there. *)
Readable(a) == 0..(length[a] - 1) \subseteq DOMAIN entries[a]
IsChain(chain) ==
  /\ length["blocks"] = Len(chain)
  /\ Readable("blocks")
  /\ \A i \in DOMAIN chain : entries["blocks"][i - 1] = chain[i]
Stored == [i \in 1..length["blocks"] |-> entries["blocks"][i - 1]]

Used == popped \cup Range(entries["blocks"]) \cup Range(entries["blockLogs"])
        \cup DOMAIN blockHashes \cup transactions \cup transactionReceipts

Init ==
  /\ entries = [a \in Arrays |-> Empty]
  /\ length = [a \in Arrays |-> 0]
  /\ blockHashes = Empty
  /\ transactions = {} /\ transactionReceipts = {}
  /\ process = "down"
  /\ stateRoot = NoBlock
  /\ operation = NoOperation
  /\ writes = [s \in Arrays \cup Objects |-> 0]
  /\ steps = <<>>
  /\ floor = 0
  /\ before = <<>> /\ torn = {} /\ popped = {} /\ popFailed = FALSE /\ crashes = 0
-----------------------------------------------------------------------------
(* A mutant: the length is written first. *)
ArrayWrite_LengthFirst(a) ==
  IF writes[a] = 1
    THEN /\ entries' = [entries EXCEPT ![a] = With(@, length[a] - 1, operation.block)]
         /\ UNCHANGED length
    ELSE /\ length' = [length EXCEPT ![a] = @ + 1]
         /\ UNCHANGED entries

(* LevelUpArrayAdapter.push takes two writes, LevelUpObjectAdapter.put one. *)
WritesOfPut(s) == IF s \in Arrays THEN 2 ELSE 1

(* push writes the entry behind the last one, then the length. *)
ArrayWrite(a) ==
  IF writes[a] = 2
    THEN /\ entries' = [entries EXCEPT ![a] = With(@, length[a], operation.block)]
         /\ UNCHANGED length
    ELSE /\ length' = [length EXCEPT ![a] = @ + 1]
         /\ UNCHANGED entries

ObjectWrite(s) ==
  /\ blockHashes' = IF s = "blockHashes" THEN With(blockHashes, operation.block, operation.index)
                    ELSE blockHashes
  /\ transactions' = transactions \cup IF s = "transactions" THEN {operation.block} ELSE {}
  /\ transactionReceipts' =
       transactionReceipts \cup IF s = "transactionReceipts" THEN {operation.block} ELSE {}

StartPut(block) ==
  /\ operation' = [kind |-> "put", block |-> block, index |-> length["blocks"]]
  /\ writes' = [s \in Arrays \cup Objects |-> WritesOfPut(s)]
  /\ stateRoot' = block
  /\ before' = Stored
  /\ UNCHANGED <<dbVars, steps, torn, popped, popFailed, crashes>>

(* putBlock of a block the VM has run: the index of its hash is read first. *)
putBlock(block) ==
  /\ Idle
  /\ block \notin Used \cup {stateRoot}
  /\ StartPut(block)
  /\ UNCHANGED <<process, floor>>

(* async.parallel: the writes of different stores come in any order. *)
write(s) ==
  /\ operation.kind = "put"
  /\ writes[s] > 0
  /\ writes' = [writes EXCEPT ![s] = @ - 1]
  /\ IF s \in Arrays
       THEN ArrayWrite(s) /\ UNCHANGED objectVars
       ELSE ObjectWrite(s) /\ UNCHANGED <<entries, length>>
  /\ UNCHANGED <<process, stateRoot, operation, steps, floor, historyVars>>

putDone ==
  /\ operation.kind = "put"
  /\ \A s \in DOMAIN writes : writes[s] = 0
  /\ operation' = NoOperation
  /\ UNCHANGED <<dbVars, process, stateRoot, writes, steps, floor, historyVars>>
-----------------------------------------------------------------------------
(* A mutant: the block goes before its logs. *)
PopSteps_BlockFirst ==
  <<<<"delete", "transactions">>, <<"delete", "transactionReceipts">>,
    <<"read", "blocks">>, <<"delete", "blocks">>, <<"length", "blocks">>,
    <<"read", "blockLogs">>, <<"delete", "blockLogs">>, <<"length", "blockLogs">>,
    <<"delete", "blockHashes">>, <<"root", "blocks">>>>

(* async.series over the requests of popBlock, and the state root at the end. *)
PopSteps ==
  <<<<"delete", "transactions">>, <<"delete", "transactionReceipts">>,
    <<"read", "blockLogs">>, <<"delete", "blockLogs">>, <<"length", "blockLogs">>,
    <<"delete", "blockHashes">>,
    <<"read", "blocks">>, <<"delete", "blocks">>, <<"length", "blocks">>, <<"root", "blocks">>>>

(* popBlock of the last block, which a revert reaches only above its snapshot. *)
popBlock ==
  /\ Idle
  /\ length["blocks"] > floor
  /\ operation' = [kind |-> "pop", block |-> entries["blocks"][length["blocks"] - 1],
                   index |-> length["blocks"] - 1]
  /\ steps' = PopSteps
  /\ before' = Stored
  /\ UNCHANGED <<dbVars, process, stateRoot, writes, floor, torn, popped, popFailed, crashes>>

Last(a) == length[a] - 1

(* LevelUpArrayAdapter.get: an index out of range or without an entry is an error. *)
CanGet(a, index) == index < length[a] /\ index \in DOMAIN entries[a]

(* pop reads what it deletes; BlockLogsSerializer.decode looks the block of the first
   log up by its hash. *)
CanRead(a) ==
  /\ CanGet(a, Last(a))
  /\ a = "blockLogs" =>
       LET block == entries[a][Last(a)] IN
       /\ block \in DOMAIN blockHashes
       /\ CanGet("blocks", blockHashes[block])

DatabaseStep(step) ==
  /\ transactions' = transactions \ IF step = <<"delete", "transactions">> THEN {operation.block} ELSE {}
  /\ transactionReceipts' =
       transactionReceipts \ IF step = <<"delete", "transactionReceipts">> THEN {operation.block} ELSE {}
  /\ blockHashes' = IF step = <<"delete", "blockHashes">>
                      THEN Without(blockHashes, operation.block) ELSE blockHashes
  /\ entries' = [a \in Arrays |-> IF step = <<"delete", a>> THEN Without(entries[a], Last(a))
                                  ELSE entries[a]]
  /\ length' = [a \in Arrays |-> IF step = <<"length", a>> THEN Last(a) ELSE length[a]]

(* A mutant: setStateRoot is not called. *)
RootAfterPop_Stays == stateRoot

RootAfterPop == entries["blocks"][Last("blocks")]

ReadFails == \E a \in Arrays : Head(steps) = <<"read", a>> /\ ~CanRead(a)

(* The next request of the series; a read that fails ends it with an error. *)
popStep ==
  /\ operation.kind = "pop"
  /\ Head(steps) # <<"root", "blocks">>
  /\ IF ReadFails
       THEN /\ operation' = NoOperation
            /\ popFailed' = TRUE
            /\ UNCHANGED <<dbVars, steps>>
       ELSE /\ DatabaseStep(Head(steps))
            /\ steps' = Tail(steps)
            /\ UNCHANGED <<operation, popFailed>>
  /\ UNCHANGED <<process, stateRoot, writes, floor, before, torn, popped, crashes>>

popDone ==
  /\ operation.kind = "pop"
  /\ Head(steps) = <<"root", "blocks">>
  /\ stateRoot' = RootAfterPop
  /\ operation' = NoOperation
  /\ steps' = <<>>
  /\ popped' = popped \cup {operation.block}
  /\ UNCHANGED <<dbVars, process, writes, floor, before, torn, popFailed, crashes>>
-----------------------------------------------------------------------------
(* BlockchainDouble.initialize: the last block gives the state root; where no block
   is, a genesis block is put; where the last one cannot be read, it fails. *)
initialize ==
  /\ process = "down"
  /\ floor' = IF length["blocks"] = 0 THEN 1 ELSE length["blocks"]
  /\ \/ /\ length["blocks"] = 0
        /\ process' = "up"
        /\ \E block \in Blocks \ Used : StartPut(block)
     \/ /\ length["blocks"] > 0 /\ CanGet("blocks", Last("blocks"))
        /\ process' = "up"
        /\ stateRoot' = entries["blocks"][Last("blocks")]
        /\ UNCHANGED <<dbVars, operation, writes, steps, historyVars>>
     \/ /\ length["blocks"] > 0 /\ ~CanGet("blocks", Last("blocks"))
        /\ process' = "failed"
        /\ UNCHANGED <<dbVars, stateRoot, operation, writes, steps, historyVars>>

crash ==
  /\ process = "up"
  /\ crashes < MaxCrashes
  /\ crashes' = crashes + 1
  /\ process' = "down"
  /\ stateRoot' = NoBlock
  /\ torn' = torn \cup ({operation.kind} \ {"none"})
  /\ operation' = NoOperation
  /\ writes' = [s \in Arrays \cup Objects |-> 0]
  /\ steps' = <<>>
  /\ UNCHANGED <<dbVars, floor, before, popped, popFailed>>

Next ==
  \/ \E block \in Blocks : putBlock(block)
  \/ \E s \in Arrays \cup Objects : write(s)
  \/ putDone
  \/ popBlock \/ popStep \/ popDone
  \/ initialize \/ crash

Spec == Init /\ [][Next]_vars
-----------------------------------------------------------------------------
(* Properties. *)

(* Between operations, while no operation was ever cut short, the five stores agree:
   both arrays hold the same blocks under the same indexes and nothing beyond, and
   the other three hold exactly those blocks, the hash index under their places.  And
   whatever a crash cut off, the state root in memory is that of the last stored block. *)
StoresAgree ==
  /\ Idle => CanGet("blocks", Last("blocks")) /\ stateRoot = entries["blocks"][Last("blocks")]
  /\ operation.kind = "none" /\ torn = {} =>
    /\ length["blocks"] = length["blockLogs"]
    /\ entries["blocks"] = entries["blockLogs"]
    /\ DOMAIN entries["blocks"] = 0..(length["blocks"] - 1)
    /\ transactions = Range(entries["blocks"])
    /\ transactionReceipts = transactions /\ DOMAIN blockHashes = transactions
    /\ \A i \in DOMAIN entries["blocks"] : blockHashes[entries["blocks"][i]] = i

(* While no pop was ever cut short or is running, the list of blocks is at every
   moment, also after a crash in the middle of a put, the one before the put or that
   one with its block: never a list with a hole or with another block. *)
PutAllOrNothing ==
  "pop" \notin torn /\ operation.kind # "pop" =>
    \/ IsChain(before)
    \/ \E block \in Blocks : IsChain(Append(before, block))
    \/ before # <<>> /\ before[Len(before)] \in popped /\ IsChain(SubSeq(before, 1, Len(before) - 1))

(* The pop of a block put since the process started finds all that it reads, in the
   order in which it deletes, also when an earlier crash left the stores torn; and a
   block popped to the end has left all five stores, torn or not. *)
PopsSucceed ==
  /\ ~popFailed
  /\ \A block \in popped :
       /\ block \notin DOMAIN blockHashes \cup transactions \cup transactionReceipts
       /\ \A a \in Arrays : block \notin Range(entries[a])

(* A process starts again over whatever a kill left, unless it was a pop that was cut short;
   and then all blocks but the last are still stored. *)
StartsAgain ==
  process = "failed" =>
    /\ "pop" \in torn
    /\ 0..(length["blocks"] - 2) \subseteq DOMAIN entries["blocks"]
=============================================================================
