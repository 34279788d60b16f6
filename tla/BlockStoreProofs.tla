--------------------------- MODULE BlockStoreProofs ---------------------------
(***************************************************************************)
(* For any blocks and any number of crashes: the five stores agree between *)
(* operations, the list of blocks is never torn by a put, and popBlock     *)
(* finds and removes all of a block put since the process started.         *)
(*                                                                         *)
(* The invariant follows the one block that the running operation is       *)
(* about: which stores have it and which array counts it, by the writes or *)
(* requests that are left.  Everything else stays in its place, so a write *)
(* of a put and a request of a pop are the same kind of step (StoreStep).  *)
(***************************************************************************)
EXTENDS BlockStore, SequenceTheorems, TLAPS

Putting == operation.kind = "put"
Popping == operation.kind = "pop"

(* How many requests of popBlock are left while the block is still in a store, and while the
   length of an array still counts it. *)
LeftToDelete ==
  [transactions |-> 10, transactionReceipts |-> 9, blockLogs |-> 7, blockHashes |-> 5, blocks |-> 3]
LeftToShorten == [blockLogs |-> 6, blocks |-> 2]

(* Whether the block of the operation that runs is in a store; whether an array counts it. *)
Has(s) ==
  \/ Putting /\ writes[s] < WritesOfPut(s)
  \/ Popping /\ Len(steps) >= LeftToDelete[s]
Counted(a) ==
  \/ Putting /\ writes[a] = 0
  \/ Popping /\ Len(steps) >= LeftToShorten[a]

(* The index behind the last block that no operation is about. *)
Top(a) == length[a] - IF Counted(a) THEN 1 ELSE 0

(* What is left of popBlock is an end of its series. *)
StepsLeft ==
  Popping => Len(steps) \in 1..10 /\ steps = SubSeq(PopSteps, 11 - Len(steps), 10)

Types ==
  /\ DOMAIN entries = Arrays
  /\ \A a \in Arrays : /\ entries[a] \in [DOMAIN entries[a] -> Blocks]
                       /\ DOMAIN entries[a] \subseteq Nat
  /\ length \in [Arrays -> Nat]
  /\ blockHashes \in [DOMAIN blockHashes -> Nat] /\ DOMAIN blockHashes \subseteq Blocks
  /\ process \in {"down", "up", "failed"}
  /\ floor \in Nat
  /\ operation.kind \in {"none", "put", "pop"}
  /\ operation.index \in Nat
  /\ operation.kind # "none" => operation.block \in Blocks /\ process = "up"
  /\ writes \in [Arrays \cup Objects -> Nat]
  /\ \A s \in Arrays \cup Objects : writes[s] <= WritesOfPut(s)
  /\ StepsLeft
  /\ before \in Seq(Blocks)

(* A block is in an array once. *)
EachEntryOnce ==
  \A a \in Arrays : \A i, j \in DOMAIN entries[a] : entries[a][i] = entries[a][j] => i = j

(* The block of the operation that runs. *)
BlockAtHand ==
  operation.kind # "none" =>
    /\ operation.index = Top("blocks")
    /\ operation.block \notin popped
    /\ \A a \in Arrays :
         /\ Top(a) \in Nat
         /\ Has(a) => Top(a) \in DOMAIN entries[a] /\ entries[a][Top(a)] = operation.block
         /\ ~Has(a) => operation.block \notin Range(entries[a])
    /\ Has("blockHashes") =>
         operation.block \in DOMAIN blockHashes /\ blockHashes[operation.block] = operation.index
    /\ ~Has("blockHashes") => operation.block \notin DOMAIN blockHashes
    /\ ~Has("transactions") => operation.block \notin transactions
    /\ ~Has("transactionReceipts") => operation.block \notin transactionReceipts

(* What a put of this process has stored completely: the entries of both arrays under places
   that keep their distance, and the hash. *)
LogsOf(i) == Top("blockLogs") - (Top("blocks") - i)
SinceStart ==
  process = "up" =>
    \A i \in floor..(Top("blocks") - 1) :
      /\ i \in DOMAIN entries["blocks"] /\ LogsOf(i) \in DOMAIN entries["blockLogs"]
      /\ entries["blocks"][i] = entries["blockLogs"][LogsOf(i)]
      /\ entries["blocks"][i] \in DOMAIN blockHashes /\ blockHashes[entries["blocks"][i]] = i

(* The list of blocks has no holes, but for one at its end where a pop was cut short. *)
NoHoles ==
  \/ 0..(Top("blocks") - 1) \subseteq DOMAIN entries["blocks"]
  \/ /\ process # "up" /\ "pop" \in torn
     /\ 0..(Top("blocks") - 2) \subseteq DOMAIN entries["blocks"]

(* The last block that the process found when it started, or its genesis block. *)
Floor ==
  process = "up" =>
    /\ floor >= 1
    /\ Top("blocks") < floor => Putting /\ Top("blocks") = 0 /\ floor = 1

Root ==
  /\ Putting => stateRoot = operation.block
  /\ Idle => stateRoot = entries["blocks"][length["blocks"] - 1]

Gone == \A block \in popped :
          /\ block \notin DOMAIN blockHashes \cup transactions \cup transactionReceipts
          /\ \A a \in Arrays : block \notin Range(entries[a])

(* While no operation was ever cut short, the stores differ in the block at hand at most. *)
Whole ==
  torn = {} =>
    LET n == Top("blocks")
        AtHand(s) == IF Has(s) THEN {operation.block} ELSE {}
        below == {entries["blocks"][i] : i \in 0..(n - 1)}
    IN
    /\ \A a \in Arrays :
         /\ Top(a) = n
         /\ DOMAIN entries[a] = 0..(n - 1) \cup IF Has(a) THEN {n} ELSE {}
    /\ \A i \in 0..(n - 1) :
         /\ entries["blockLogs"][i] = entries["blocks"][i]
         /\ entries["blocks"][i] \in DOMAIN blockHashes
         /\ blockHashes[entries["blocks"][i]] = i
    /\ transactions = below \cup AtHand("transactions")
    /\ transactionReceipts = below \cup AtHand("transactionReceipts")
    /\ DOMAIN blockHashes = below \cup AtHand("blockHashes")

(* While no pop was ever cut short, the list of blocks is the one before the operation, or
   that one and its block. *)
ListKept ==
  "pop" \notin torn =>
    /\ Putting => /\ Top("blocks") = Len(before)
                  /\ \A i \in DOMAIN before : entries["blocks"][i - 1] = before[i]
    /\ Popping => /\ Len(before) = Top("blocks") + 1
                  /\ \A i \in 1..Top("blocks") : entries["blocks"][i - 1] = before[i]
                  /\ before[Len(before)] = operation.block
    /\ operation.kind = "none" => PutAllOrNothing

IInv == /\ Types /\ EachEntryOnce /\ BlockAtHand /\ SinceStart /\ NoHoles /\ Floor /\ Root
        /\ ~popFailed /\ Gone /\ Whole /\ ListKept
-----------------------------------------------------------------------------
(* Functions and sequences. *)

(* With and Without keep the values in a set. *)
LEMMA WithType ==
  ASSUME NEW T, NEW S, NEW f \in [S -> T], NEW key, NEW value \in T
  PROVE  With(f, key, value) \in [S \cup {key} -> T]
  BY DEF With

LEMMA WithoutType ==
  ASSUME NEW T, NEW S, NEW f \in [S -> T], NEW key
  PROVE  Without(f, key) \in [S \ {key} -> T]
  BY DEF Without

LEMMA RangeIs ==
  ASSUME NEW f
  PROVE  \A y : y \in Range(f) <=> \E x \in DOMAIN f : f[x] = y
  BY DEF Range

(* The requests of popBlock, by how many of them are left. *)
LEMMA RequestsLeft ==
  ASSUME Types, Popping
  PROVE  /\ Len(steps) \in 1..10
         /\ \A s \in Arrays \cup Objects :
              Head(steps) = <<"delete", s>> <=> Len(steps) = LeftToDelete[s]
         /\ \A a \in Arrays : Head(steps) = <<"length", a>> <=> Len(steps) = LeftToShorten[a]
         /\ \A a \in Arrays :
              Head(steps) = <<"read", a>> <=> Len(steps) = LeftToDelete[a] + 1
         /\ Head(steps) = <<"root", "blocks">> <=> Len(steps) = 1
         /\ Len(steps) > 1 =>
              /\ Len(Tail(steps)) = Len(steps) - 1
              /\ Tail(steps) = SubSeq(PopSteps, 11 - Len(Tail(steps)), 10)
<1>1. PICK n \in 1..10 : n = Len(steps) /\ steps = SubSeq(PopSteps, 11 - n, 10)
  BY DEF Types, StepsLeft
<1>2. PopSteps \in Seq(Range(PopSteps)) /\ Len(PopSteps) = 10
  BY DEF PopSteps, Range
<1>3. /\ Head(steps) = PopSteps[11 - n]
      /\ Tail(steps) = SubSeq(PopSteps, (11 - n) + 1, 10)
  <2>1. 11 - n \in 1..Len(PopSteps) /\ 10 \in (11 - n)..Len(PopSteps)
    BY <1>2
  <2>2. /\ Head(SubSeq(PopSteps, 11 - n, 10)) = PopSteps[11 - n]
        /\ Tail(SubSeq(PopSteps, 11 - n, 10)) = SubSeq(PopSteps, (11 - n) + 1, 10)
    BY <1>2, <2>1, HeadTailOfSubSeq
  <2> QED
    BY <1>1, <2>2, Zenon
<1>4. n > 1 => Len(Tail(steps)) = n - 1 /\ Tail(steps) = SubSeq(PopSteps, 11 - Len(Tail(steps)), 10)
  <2> SUFFICES ASSUME n > 1 PROVE Len(Tail(steps)) = n - 1
    <3>1. (11 - n) + 1 = 11 - (n - 1)
      OBVIOUS
    <3> QED
      BY <1>3, <3>1, Zenon
  <2>1. /\ (11 - n) + 1 \in Int /\ 10 \in Int
        /\ \A i \in ((11 - n) + 1)..10 : PopSteps[i] \in Range(PopSteps)
    <3>1. \A i \in 1..Len(PopSteps) : PopSteps[i] \in Range(PopSteps)
      BY <1>2, ElementOfSeq
    <3> QED
      BY <1>2, <3>1
  <2>2. Len(SubSeq(PopSteps, (11 - n) + 1, 10)) =
          IF (11 - n) + 1 <= 10 THEN 10 - ((11 - n) + 1) + 1 ELSE 0
    <3>1. ASSUME NEW m \in Int, \A i \in m..10 : PopSteps[i] \in Range(PopSteps)
          PROVE  Len(SubSeq(PopSteps, m, 10)) = IF m <= 10 THEN 10 - m + 1 ELSE 0
      BY <3>1, SubSeqProperties
    <3> QED
      BY <2>1, <3>1
  <2>3. (IF (11 - n) + 1 <= 10 THEN 10 - ((11 - n) + 1) + 1 ELSE 0) = n - 1
    OBVIOUS
  <2> QED
    BY <1>3, <2>2, <2>3, Zenon
<1>5. /\ PopSteps[1] = <<"delete", "transactions">> /\ PopSteps[2] = <<"delete", "transactionReceipts">>
      /\ PopSteps[3] = <<"read", "blockLogs">> /\ PopSteps[4] = <<"delete", "blockLogs">>
      /\ PopSteps[5] = <<"length", "blockLogs">> /\ PopSteps[6] = <<"delete", "blockHashes">>
      /\ PopSteps[7] = <<"read", "blocks">> /\ PopSteps[8] = <<"delete", "blocks">>
      /\ PopSteps[9] = <<"length", "blocks">> /\ PopSteps[10] = <<"root", "blocks">>
  BY DEF PopSteps
<1>6. /\ LeftToDelete["transactions"] = 10 /\ LeftToDelete["transactionReceipts"] = 9
      /\ LeftToDelete["blockLogs"] = 7 /\ LeftToDelete["blockHashes"] = 5 /\ LeftToDelete["blocks"] = 3
      /\ LeftToShorten["blockLogs"] = 6 /\ LeftToShorten["blocks"] = 2
  BY DEF LeftToDelete, LeftToShorten
<1>7. n = 1 \/ n = 2 \/ n = 3 \/ n = 4 \/ n = 5 \/ n = 6 \/ n = 7 \/ n = 8 \/ n = 9 \/ n = 10
  OBVIOUS
<1>8. \A s \in Arrays \cup Objects : Head(steps) = <<"delete", s>> <=> n = LeftToDelete[s]
  BY <1>3, <1>5, <1>6, <1>7 DEF Arrays, Objects
<1>9. \A a \in Arrays : /\ Head(steps) = <<"length", a>> <=> n = LeftToShorten[a]
                        /\ Head(steps) = <<"read", a>> <=> n = LeftToDelete[a] + 1
  BY <1>3, <1>5, <1>6, <1>7 DEF Arrays, Objects
<1>10. Head(steps) = <<"root", "blocks">> <=> n = 1
  BY <1>3, <1>5, <1>7
<1> QED
  BY <1>1, <1>4, <1>8, <1>9, <1>10

------------------------------------------------------------------------------
(* One write or one request. *)

(* What one write or one request of a popBlock may do: the block at hand comes into a store or
   leaves it, at its own place, and everything else stays. *)
ComesOrGoes(a) ==
  \/ entries'[a] = entries[a] /\ (Has(a)' <=> Has(a))
  \/ entries'[a] = With(entries[a], Top(a), operation.block) /\ ~Has(a) /\ Has(a)'
  \/ entries'[a] = Without(entries[a], Top(a)) /\ Has(a) /\ ~Has(a)'
HashComesOrGoes ==
  \/ blockHashes' = blockHashes /\ (Has("blockHashes")' <=> Has("blockHashes"))
  \/ /\ blockHashes' = With(blockHashes, operation.block, operation.index)
     /\ ~Has("blockHashes") /\ Has("blockHashes")'
  \/ /\ blockHashes' = Without(blockHashes, operation.block)
     /\ Has("blockHashes") /\ ~Has("blockHashes")'
IsIn(s, stored, before_) ==
  \/ stored = before_ /\ (Has(s)' <=> Has(s))
  \/ stored = before_ \cup {operation.block} /\ ~Has(s) /\ Has(s)'
  \/ stored = before_ \ {operation.block} /\ Has(s) /\ ~Has(s)'
StoreStep ==
  /\ operation.kind # "none" /\ operation' = operation
  /\ process' = process /\ stateRoot' = stateRoot /\ floor' = floor
  /\ before' = before /\ torn' = torn /\ popped' = popped /\ popFailed' = popFailed
  /\ \A a \in Arrays : Top(a)' = Top(a) /\ ComesOrGoes(a)
  /\ HashComesOrGoes
  /\ IsIn("transactions", transactions', transactions)
  /\ IsIn("transactionReceipts", transactionReceipts', transactionReceipts)

(* The arrays after such a step. *)
LEMMA ArraysAfter ==
  ASSUME IInv, StoreStep, NEW a \in Arrays
  PROVE  /\ Has(a)' => Top(a) \in DOMAIN entries'[a] /\ entries'[a][Top(a)] = operation.block
         /\ ~Has(a)' => operation.block \notin Range(entries'[a])
         /\ \A i : i # Top(a) => (i \in DOMAIN entries'[a] <=> i \in DOMAIN entries[a])
         /\ \A i \in DOMAIN entries[a] : i # Top(a) => entries'[a][i] = entries[a][i]
         /\ \A i, j \in DOMAIN entries'[a] : entries'[a][i] = entries'[a][j] => i = j
         /\ \A c \in Range(entries'[a]) : c \in Range(entries[a]) \/ c = operation.block
         /\ (Top(a) \in DOMAIN entries[a] <=> Has(a)) =>
              (Top(a) \in DOMAIN entries'[a] <=> Has(a)')
<1>1. /\ Has(a) => Top(a) \in DOMAIN entries[a] /\ entries[a][Top(a)] = operation.block
      /\ ~Has(a) => operation.block \notin Range(entries[a])
      /\ \A i, j \in DOMAIN entries[a] : entries[a][i] = entries[a][j] => i = j
  BY DEF IInv, BlockAtHand, StoreStep, EachEntryOnce
<1>2. ComesOrGoes(a)
  BY DEF StoreStep
<1>3. CASE entries'[a] = entries[a] /\ (Has(a)' <=> Has(a))
  BY <1>1, <1>3
<1>4. CASE entries'[a] = With(entries[a], Top(a), operation.block) /\ ~Has(a) /\ Has(a)'
  <2>1. /\ DOMAIN entries'[a] = DOMAIN entries[a] \cup {Top(a)}
        /\ entries'[a][Top(a)] = operation.block
        /\ \A x \in DOMAIN entries[a] : x # Top(a) => entries'[a][x] = entries[a][x]
    BY <1>4 DEF With
  <2>2. \A x \in DOMAIN entries[a] : entries[a][x] # operation.block
    BY <1>1, <1>4, RangeIs
  <2>3. \A i, j \in DOMAIN entries'[a] : entries'[a][i] = entries'[a][j] => i = j
    BY <1>1, <2>1, <2>2
  <2>4. \A c \in Range(entries'[a]) : c \in Range(entries[a]) \/ c = operation.block
    BY <2>1, RangeIs
  <2> QED
    BY <1>4, <2>1, <2>3, <2>4
<1>5. CASE entries'[a] = Without(entries[a], Top(a)) /\ Has(a) /\ ~Has(a)'
  <2>1. /\ DOMAIN entries'[a] = DOMAIN entries[a] \ {Top(a)}
        /\ \A x \in DOMAIN entries[a] \ {Top(a)} : entries'[a][x] = entries[a][x]
    BY <1>5 DEF Without
  <2>2. operation.block \notin Range(entries'[a])
    BY <1>1, <1>5, <2>1, RangeIs
  <2>3. \A c \in Range(entries'[a]) : c \in Range(entries[a])
    BY <2>1, RangeIs
  <2> QED
    BY <1>1, <1>5, <2>1, <2>2, <2>3
<1> QED
  BY <1>2, <1>3, <1>4, <1>5 DEF ComesOrGoes

(* The index of the hashes after such a step. *)
LEMMA HashesAfter ==
  ASSUME IInv, StoreStep
  PROVE  /\ Has("blockHashes")' =>
              /\ operation.block \in DOMAIN blockHashes'
              /\ blockHashes'[operation.block] = operation.index
         /\ ~Has("blockHashes")' => operation.block \notin DOMAIN blockHashes'
         /\ \A c : c # operation.block => (c \in DOMAIN blockHashes' <=> c \in DOMAIN blockHashes)
         /\ \A c \in DOMAIN blockHashes : c # operation.block => blockHashes'[c] = blockHashes[c]
<1>1. /\ Has("blockHashes") =>
           operation.block \in DOMAIN blockHashes /\ blockHashes[operation.block] = operation.index
      /\ ~Has("blockHashes") => operation.block \notin DOMAIN blockHashes
  BY DEF IInv, BlockAtHand, StoreStep
<1>2. HashComesOrGoes
  BY DEF StoreStep
<1>3. CASE blockHashes' = blockHashes /\ (Has("blockHashes")' <=> Has("blockHashes"))
  BY <1>1, <1>3
<1>4. CASE /\ blockHashes' = With(blockHashes, operation.block, operation.index)
           /\ ~Has("blockHashes") /\ Has("blockHashes")'
  BY <1>4 DEF With
<1>5. CASE /\ blockHashes' = Without(blockHashes, operation.block)
           /\ Has("blockHashes") /\ ~Has("blockHashes")'
  BY <1>5 DEF Without
<1> QED
  BY <1>2, <1>3, <1>4, <1>5 DEF HashComesOrGoes

(* A write of a put, or a request of a pop, keeps the invariant. *)
LEMMA StoreStepKeeps ==
  ASSUME IInv, StoreStep, Types'
  PROVE  IInv'
<1> DEFINE b == operation.block
           n == Top("blocks")
<1>1. /\ operation.kind # "none" /\ operation' = operation
      /\ process' = process /\ stateRoot' = stateRoot /\ floor' = floor
      /\ before' = before /\ torn' = torn /\ popped' = popped /\ popFailed' = popFailed
      /\ \A a \in Arrays : Top(a)' = Top(a)
      /\ (Putting' <=> Putting) /\ (Popping' <=> Popping)
  BY DEF StoreStep, Putting, Popping
<1>2. /\ \A a \in Arrays : Top(a) \in Nat
      /\ "blocks" \in Arrays /\ "blockLogs" \in Arrays /\ b \in Blocks /\ operation.index = n
      /\ floor \in Nat /\ n \in Int /\ b \notin popped /\ process = "up"
  BY <1>1 DEF IInv, Types, BlockAtHand, Arrays
<1> HIDE DEF n, b
<1>3. \A a \in Arrays :
        /\ Has(a)' => Top(a) \in DOMAIN entries'[a] /\ entries'[a][Top(a)] = b
        /\ ~Has(a)' => b \notin Range(entries'[a])
        /\ \A i : i # Top(a) => (i \in DOMAIN entries'[a] <=> i \in DOMAIN entries[a])
        /\ \A i \in DOMAIN entries[a] : i # Top(a) => entries'[a][i] = entries[a][i]
        /\ \A i, j \in DOMAIN entries'[a] : entries'[a][i] = entries'[a][j] => i = j
        /\ \A c \in Range(entries'[a]) : c \in Range(entries[a]) \/ c = b
        /\ (Top(a) \in DOMAIN entries[a] <=> Has(a)) => (Top(a) \in DOMAIN entries'[a] <=> Has(a)')
  BY ArraysAfter DEF b
<1>4. /\ Has("blockHashes")' => b \in DOMAIN blockHashes' /\ blockHashes'[b] = operation.index
      /\ ~Has("blockHashes")' => b \notin DOMAIN blockHashes'
      /\ \A c : c # b => (c \in DOMAIN blockHashes' <=> c \in DOMAIN blockHashes)
      /\ \A c \in DOMAIN blockHashes : c # b => blockHashes'[c] = blockHashes[c]
  BY HashesAfter DEF b
<1>5. /\ ~Has("transactions")' => b \notin transactions'
      /\ \A c : c # b => (c \in transactions' <=> c \in transactions)
      /\ ~Has("transactionReceipts")' => b \notin transactionReceipts'
      /\ \A c : c # b => (c \in transactionReceipts' <=> c \in transactionReceipts)
  BY <1>1 DEF StoreStep, IsIn, IInv, BlockAtHand, b
<1>6. EachEntryOnce'
  BY <1>3 DEF EachEntryOnce
<1>7. BlockAtHand'
  BY <1>1, <1>2, <1>3, <1>4, <1>5 DEF BlockAtHand, b, n
(* The entries below the block at hand are other blocks. *)
<1>8. \A i \in DOMAIN entries["blocks"] : i # n => entries["blocks"][i] # b
  <2>1. CASE Has("blocks")
    BY <1>1, <1>2, <2>1 DEF IInv, BlockAtHand, EachEntryOnce, n, b
  <2>2. CASE ~Has("blocks")
    BY <1>1, <1>2, <2>2, RangeIs DEF IInv, BlockAtHand, b
  <2> QED
    BY <2>1, <2>2
<1>9. SinceStart'
  <2> SUFFICES ASSUME NEW i \in floor..(n - 1)
               PROVE  /\ i \in DOMAIN entries'["blocks"] /\ LogsOf(i)' \in DOMAIN entries'["blockLogs"]
                      /\ entries'["blocks"][i] = entries'["blockLogs"][LogsOf(i)']
                      /\ entries'["blocks"][i] \in DOMAIN blockHashes'
                      /\ blockHashes'[entries'["blocks"][i]] = i
    BY <1>1, <1>2 DEF SinceStart, n
  <2>1. /\ i \in DOMAIN entries["blocks"] /\ LogsOf(i) \in DOMAIN entries["blockLogs"]
        /\ entries["blocks"][i] = entries["blockLogs"][LogsOf(i)]
        /\ entries["blocks"][i] \in DOMAIN blockHashes /\ blockHashes[entries["blocks"][i]] = i
    BY <1>2 DEF IInv, SinceStart, n
  <2>2. i # n /\ LogsOf(i)' = LogsOf(i) /\ LogsOf(i) # Top("blockLogs")
    BY <1>1, <1>2 DEF LogsOf, n
  <2>3. /\ i \in DOMAIN entries'["blocks"] /\ entries'["blocks"][i] = entries["blocks"][i]
        /\ LogsOf(i) \in DOMAIN entries'["blockLogs"]
        /\ entries'["blockLogs"][LogsOf(i)] = entries["blockLogs"][LogsOf(i)]
    BY <1>2, <1>3, <2>1, <2>2 DEF n
  <2>4. entries["blocks"][i] # b
    BY <1>8, <2>1, <2>2
  <2> QED
    BY <1>4, <2>1, <2>2, <2>3, <2>4
<1>10. Floor'
  BY <1>1, <1>2 DEF IInv, Floor, n
<1>11. Root'
  BY <1>1 DEF IInv, Root, Idle, Putting, b
<1>12. Gone'
  BY <1>1, <1>2, <1>3, <1>4, <1>5 DEF IInv, Gone
<1>13. Whole'
  <2> DEFINE below == {entries["blocks"][i] : i \in 0..(n - 1)}
             belowThen == {entries'["blocks"][i] : i \in 0..(n - 1)}
  <2> SUFFICES ASSUME torn = {} PROVE Whole'
    BY <1>1 DEF Whole
  <2>1. /\ \A a \in Arrays :
             /\ Top(a) = n
             /\ DOMAIN entries[a] = 0..(n - 1) \cup IF Has(a) THEN {n} ELSE {}
        /\ \A i \in 0..(n - 1) :
             /\ entries["blockLogs"][i] = entries["blocks"][i]
             /\ entries["blocks"][i] \in DOMAIN blockHashes
             /\ blockHashes[entries["blocks"][i]] = i
        /\ transactions = below \cup IF Has("transactions") THEN {b} ELSE {}
        /\ transactionReceipts = below \cup IF Has("transactionReceipts") THEN {b} ELSE {}
        /\ DOMAIN blockHashes = below \cup IF Has("blockHashes") THEN {b} ELSE {}
    BY DEF IInv, Whole, n, b
  <2>2. \A a \in Arrays : DOMAIN entries'[a] = 0..(n - 1) \cup IF Has(a)' THEN {n} ELSE {}
    <3> TAKE a \in Arrays
    <3>1. n \in DOMAIN entries[a] <=> Has(a)
      BY <1>2, <2>1
    <3>2. n \in DOMAIN entries'[a] <=> Has(a)'
      BY <1>3, <2>1, <3>1
    <3>3. \A i : i # n => (i \in DOMAIN entries'[a] <=> i \in 0..(n - 1))
      BY <1>3, <2>1
    <3> QED
      BY <1>2, <3>2, <3>3
  <2>3. \A i \in 0..(n - 1) :
          /\ i \in DOMAIN entries["blocks"] /\ i \in DOMAIN entries["blockLogs"] /\ i # n
          /\ entries'["blocks"][i] = entries["blocks"][i]
          /\ entries'["blockLogs"][i] = entries["blockLogs"][i]
          /\ entries["blocks"][i] # b
    BY <1>2, <1>3, <1>8, <2>1
  <2>4. \A i \in 0..(n - 1) :
          /\ entries'["blockLogs"][i] = entries'["blocks"][i]
          /\ entries'["blocks"][i] \in DOMAIN blockHashes'
          /\ blockHashes'[entries'["blocks"][i]] = i
    BY <1>4, <2>1, <2>3
  <2>5. below = belowThen /\ b \notin below
    BY <2>3
  <2> HIDE DEF below, belowThen
  <2>6. transactions' = below \cup IF Has("transactions")' THEN {b} ELSE {}
    BY <2>1, <2>5 DEF StoreStep, IsIn, b
  <2>7. transactionReceipts' = below \cup IF Has("transactionReceipts")' THEN {b} ELSE {}
    BY <2>1, <2>5 DEF StoreStep, IsIn, b
  <2>8. DOMAIN blockHashes' = below \cup IF Has("blockHashes")' THEN {b} ELSE {}
    BY <1>4, <2>1, <2>5
  <2>9. Top("blocks")' = n /\ (operation.block)' = b /\ \A a \in Arrays : Top(a)' = n
    BY <1>1, <1>2, <2>1 DEF n, b
  <2> QED
    BY <2>2, <2>4, <2>5, <2>6, <2>7, <2>8, <2>9 DEF Whole, belowThen
<1>14. 0..(n - 1) \subseteq DOMAIN entries["blocks"]
  BY <1>2 DEF IInv, NoHoles, n
<1>15. NoHoles'
  BY <1>1, <1>2, <1>3, <1>14 DEF NoHoles, n
<1>16. ListKept'
  <2> SUFFICES ASSUME "pop" \notin torn PROVE ListKept'
    BY <1>1 DEF ListKept
  <2>1. /\ Putting => n = Len(before) /\ \A i \in DOMAIN before : entries["blocks"][i - 1] = before[i]
        /\ Popping => /\ Len(before) = n + 1
                      /\ \A i \in 1..n : entries["blocks"][i - 1] = before[i]
                      /\ before[Len(before)] = b
    BY DEF IInv, ListKept, n, b
  <2>2. \A i \in 0..(n - 1) : entries'["blocks"][i] = entries["blocks"][i]
    BY <1>2, <1>3, <1>14 DEF n
  <2>3. before \in Seq(Blocks) /\ DOMAIN before = 1..Len(before) /\ Len(before) \in Nat
    BY LenProperties DEF IInv, Types
  <2>4. Putting => \A i \in DOMAIN before : entries'["blocks"][i - 1] = before[i]
    BY <1>2, <2>1, <2>2, <2>3
  <2>5. Popping => \A i \in 1..n : entries'["blocks"][i - 1] = before[i]
    BY <1>2, <2>1, <2>2
  <2> QED
    BY <1>1, <1>2, <2>1, <2>2, <2>4, <2>5 DEF ListKept, n, b
<1> QED
  BY <1>1, <1>6, <1>7, <1>9, <1>10, <1>11, <1>12, <1>13, <1>16, <1>15 DEF IInv

------------------------------------------------------------------------------
(* The writes of putBlock. *)

(* What a write of a put does to one array. *)
LEMMA ArrayWriteComes ==
  ASSUME IInv, NEW s \in Arrays \cup Objects, write(s), NEW a \in Arrays
  PROVE  /\ Top(a)' = Top(a) /\ ComesOrGoes(a)
         /\ entries'[a] \in [DOMAIN entries'[a] -> Blocks] /\ DOMAIN entries'[a] \subseteq Nat
         /\ length'[a] \in Nat
<1>1. /\ Putting /\ Putting' /\ ~Popping /\ ~Popping' /\ operation' = operation
      /\ operation.block \in Blocks
      /\ DOMAIN entries = Arrays /\ length \in [Arrays -> Nat] /\ length[a] \in Nat
      /\ entries[a] \in [DOMAIN entries[a] -> Blocks] /\ DOMAIN entries[a] \subseteq Nat
      /\ writes \in [Arrays \cup Objects -> Nat] /\ writes[s] > 0 /\ writes[s] \in Nat
      /\ writes' = [writes EXCEPT ![s] = writes[s] - 1]
      /\ writes[a] <= 2 /\ writes[a] \in Nat /\ WritesOfPut(a) = 2
      /\ a \in Arrays \cup Objects
  BY DEF IInv, Types, write, Putting, Popping, WritesOfPut
<1>2. CASE s = a /\ writes[a] = 2
  <2>1. /\ entries' = [entries EXCEPT ![a] = With(entries[a], length[a], operation.block)]
        /\ length' = length
    BY <1>2 DEF write, ArrayWrite
  <2>2. Top(a) = length[a] /\ Top(a)' = length[a] /\ ~Has(a) /\ Has(a)'
    BY <1>1, <1>2, <2>1 DEF Top, Has, Counted
  <2>3. entries'[a] = With(entries[a], length[a], operation.block)
    BY <1>1, <2>1
  <2>4. With(entries[a], length[a], operation.block) \in [DOMAIN entries[a] \cup {length[a]} -> Blocks]
    BY <1>1, WithType
  <2> HIDE DEF With
  <2>5. entries'[a] \in [DOMAIN entries'[a] -> Blocks] /\ DOMAIN entries'[a] \subseteq Nat
    BY <1>1, <2>3, <2>4
  <2> QED
    BY <1>1, <2>1, <2>2, <2>3, <2>5 DEF ComesOrGoes
<1>3. CASE s = a /\ writes[a] # 2
  <2>1. entries' = entries /\ length' = [length EXCEPT ![a] = length[a] + 1]
    BY <1>3 DEF write, ArrayWrite
  <2>2. writes[a] = 1 /\ writes'[a] = 0 /\ length'[a] = length[a] + 1
    BY <1>1, <1>3, <2>1
  <2>3. Top(a) = length[a] /\ Top(a)' = length[a] /\ Has(a) /\ Has(a)'
    BY <1>1, <2>2 DEF Top, Has, Counted
  <2> QED
    BY <1>1, <2>1, <2>2, <2>3 DEF ComesOrGoes
<1>4. CASE s # a
  <2>1. entries'[a] = entries[a] /\ length'[a] = length[a] /\ writes'[a] = writes[a]
    BY <1>1, <1>4 DEF write, ArrayWrite
  <2>2. Top(a)' = Top(a) /\ (Has(a)' <=> Has(a))
    BY <1>1, <2>1 DEF Top, Has, Counted
  <2> QED
    BY <1>1, <2>1, <2>2 DEF ComesOrGoes
<1> QED
  BY <1>2, <1>3, <1>4

(* A write of a put is a store step. *)
LEMMA WriteIsStoreStep ==
  ASSUME IInv, NEW s \in Arrays \cup Objects, write(s)
  PROVE  StoreStep /\ Types'
<1>1. /\ Putting /\ Putting' /\ ~Popping /\ ~Popping' /\ operation' = operation
      /\ operation.block \in Blocks /\ operation.index \in Nat /\ operation.kind \in {"none", "put", "pop"}
      /\ DOMAIN entries = Arrays /\ length \in [Arrays -> Nat]
      /\ writes \in [Arrays \cup Objects -> Nat] /\ writes[s] > 0 /\ writes[s] \in Nat
      /\ writes' = [writes EXCEPT ![s] = writes[s] - 1]
      /\ \A x \in Arrays \cup Objects : writes[x] <= WritesOfPut(x)
      /\ process' = process /\ stateRoot' = stateRoot /\ floor' = floor
      /\ before' = before /\ torn' = torn /\ popped' = popped /\ popFailed' = popFailed
  BY DEF IInv, Types, write, Putting, Popping, historyVars
<1>2. \A a \in Arrays :
        /\ Top(a)' = Top(a) /\ ComesOrGoes(a)
        /\ entries'[a] \in [DOMAIN entries'[a] -> Blocks] /\ DOMAIN entries'[a] \subseteq Nat
        /\ length'[a] \in Nat
  BY ArrayWriteComes
<1>3. DOMAIN entries' = Arrays /\ length' \in [Arrays -> Nat]
  BY <1>1 DEF write, ArrayWrite
<1>4. writes' \in [Arrays \cup Objects -> Nat] /\ \A x \in Arrays \cup Objects : writes'[x] <= WritesOfPut(x)
  <2>1. WritesOfPut(s) \in Nat
    BY DEF WritesOfPut
  <2> QED
    BY <1>1, <2>1
<1>5. \A x \in Objects : /\ x # s => (Has(x)' <=> Has(x))
                         /\ x = s => ~Has(x) /\ Has(x)'
  <2> TAKE x \in Objects
  <2>1. WritesOfPut(x) = 1 /\ x \in Arrays \cup Objects
    BY DEF WritesOfPut, Arrays, Objects
  <2> QED
    BY <1>1, <2>1 DEF Has
<1>6. /\ s \in Objects => ObjectWrite(s)
      /\ s \in Arrays => UNCHANGED objectVars
      /\ Objects = {"blockHashes", "transactions", "transactionReceipts"}
      /\ s \in Objects \/ (s \in Arrays /\ s \notin Objects)
  BY DEF write, Objects, Arrays
<1>7. HashComesOrGoes
  BY <1>1, <1>5, <1>6 DEF HashComesOrGoes, ObjectWrite, objectVars
<1>8. IsIn("transactions", transactions', transactions)
  BY <1>1, <1>5, <1>6 DEF IsIn, ObjectWrite, objectVars
<1>9. IsIn("transactionReceipts", transactionReceipts', transactionReceipts)
  BY <1>1, <1>5, <1>6 DEF IsIn, ObjectWrite, objectVars
<1>10. blockHashes' \in [DOMAIN blockHashes' -> Nat] /\ DOMAIN blockHashes' \subseteq Blocks
  <2>1. blockHashes \in [DOMAIN blockHashes -> Nat] /\ DOMAIN blockHashes \subseteq Blocks
    BY DEF IInv, Types
  <2>2. With(blockHashes, operation.block, operation.index)
          \in [DOMAIN blockHashes \cup {operation.block} -> Nat]
    BY <1>1, <2>1, WithType
  <2>3. \/ blockHashes' = blockHashes
        \/ blockHashes' = With(blockHashes, operation.block, operation.index)
    BY <1>6 DEF ObjectWrite, objectVars
  <2> QED
    BY <1>1, <2>1, <2>2, <2>3
<1>11. StoreStep
  BY <1>1, <1>2, <1>7, <1>8, <1>9, Zenon DEF StoreStep, Putting
<1>12. Types'
  BY <1>1, <1>2, <1>3, <1>4, <1>10 DEF IInv, Types, StepsLeft
<1> QED
  BY <1>11, <1>12

------------------------------------------------------------------------------
(* The requests of popBlock. *)

(* popBlock finds all that it reads. *)
LEMMA ReadsSucceed ==
  ASSUME IInv, Popping
  PROVE  ~ReadFails
<1>1. /\ \A a \in Arrays : Head(steps) = <<"read", a>> <=> Len(steps) = LeftToDelete[a] + 1
      /\ LeftToDelete["blockLogs"] = 7 /\ LeftToDelete["blockHashes"] = 5 /\ LeftToDelete["blocks"] = 3
      /\ LeftToShorten["blockLogs"] = 6 /\ LeftToShorten["blocks"] = 2
      /\ Len(steps) \in 1..10
  BY RequestsLeft DEF IInv, LeftToDelete, LeftToShorten
<1>2. SUFFICES ASSUME NEW a \in Arrays, Len(steps) = LeftToDelete[a] + 1 PROVE CanRead(a)
  BY <1>1, Zenon DEF ReadFails
<1>3. Len(steps) >= LeftToDelete[a] /\ Len(steps) >= LeftToShorten[a] /\ Len(steps) >= 4
      /\ (a = "blockLogs" => Len(steps) = 8)
      /\ a \in {"blocks", "blockLogs"}
  BY <1>1, <1>2 DEF Arrays
<1>4. Has(a) /\ Counted(a) /\ Has("blocks") /\ Counted("blocks")
      /\ (a = "blockLogs" => Has("blockHashes"))
  BY <1>1, <1>3 DEF Has, Counted
<1>5. /\ length[a] \in Nat /\ length["blocks"] \in Nat
      /\ \A x \in Arrays : DOMAIN entries[x] \subseteq Nat
      /\ Top(a) = length[a] - 1 /\ Top("blocks") = length["blocks"] - 1
      /\ operation.kind # "none" /\ "blocks" \in Arrays
  BY <1>4 DEF IInv, Types, Top, Arrays, Popping
<1>6. /\ Top(a) \in DOMAIN entries[a] /\ entries[a][Top(a)] = operation.block
      /\ Top("blocks") \in DOMAIN entries["blocks"]
      /\ operation.index = Top("blocks")
      /\ a = "blockLogs" =>
           operation.block \in DOMAIN blockHashes /\ blockHashes[operation.block] = operation.index
  BY <1>4, <1>5 DEF IInv, BlockAtHand
<1>7. CanGet(a, Last(a)) /\ CanGet("blocks", operation.index) /\ Last(a) = Top(a)
  BY <1>5, <1>6 DEF CanGet, Last
<1> QED
  BY <1>6, <1>7 DEF CanRead

(* What a request of a pop does to one array. *)
LEMMA RequestGoes ==
  ASSUME IInv, popStep, ~ReadFails, NEW a \in Arrays
  PROVE  /\ Top(a)' = Top(a) /\ ComesOrGoes(a)
         /\ entries'[a] \in [DOMAIN entries'[a] -> Blocks] /\ DOMAIN entries'[a] \subseteq Nat
         /\ length'[a] \in Nat
<1>1. /\ Popping /\ Popping' /\ ~Putting /\ ~Putting' /\ operation' = operation
      /\ DatabaseStep(Head(steps)) /\ steps' = Tail(steps)
      /\ DOMAIN entries = Arrays /\ length \in [Arrays -> Nat] /\ length[a] \in Nat
      /\ entries[a] \in [DOMAIN entries[a] -> Blocks] /\ DOMAIN entries[a] \subseteq Nat
      /\ Types /\ Head(steps) # <<"root", "blocks">>
  BY DEF IInv, Types, popStep, Popping, Putting
<1>2. /\ Len(steps) \in 2..10 /\ Len(steps') = Len(steps) - 1
      /\ Head(steps) = <<"delete", a>> <=> Len(steps) = LeftToDelete[a]
      /\ Head(steps) = <<"length", a>> <=> Len(steps) = LeftToShorten[a]
  BY <1>1, RequestsLeft
<1>3. LeftToDelete[a] \in Nat /\ LeftToShorten[a] \in Nat /\ LeftToDelete[a] > LeftToShorten[a]
  BY DEF LeftToDelete, LeftToShorten, Arrays
<1>4. /\ entries'[a] = IF Head(steps) = <<"delete", a>> THEN Without(entries[a], Last(a)) ELSE entries[a]
      /\ length'[a] = IF Head(steps) = <<"length", a>> THEN Last(a) ELSE length[a]
  BY <1>1, Zenon DEF DatabaseStep
<1>5. /\ Has(a) <=> Len(steps) >= LeftToDelete[a]
      /\ Has(a)' <=> Len(steps) - 1 >= LeftToDelete[a]
      /\ Counted(a) <=> Len(steps) >= LeftToShorten[a]
      /\ Counted(a)' <=> Len(steps) - 1 >= LeftToShorten[a]
  BY <1>1, <1>2 DEF Has, Counted
<1>6. Top(a) \in Nat
  BY <1>1 DEF IInv, BlockAtHand, Popping
<1>7. /\ Has(a) => Counted(a)
      /\ Top(a) = IF Counted(a) THEN length[a] - 1 ELSE length[a]
      /\ Top(a)' = IF Counted(a)' THEN length'[a] - 1 ELSE length'[a]
  <2>1. Has(a) => Counted(a)
    BY <1>2, <1>3, <1>5
  <2>2. length[a] - 0 = length[a] /\ length'[a] - 0 = length'[a]
    BY <1>1, <1>4 DEF Last
  <2> QED
    BY <2>1, <2>2 DEF Top
<1>8. Top(a)' = Top(a) /\ length'[a] \in Nat
  BY <1>1, <1>2, <1>3, <1>4, <1>5, <1>6, <1>7 DEF Last
<1>9. CASE Head(steps) = <<"delete", a>>
  <2>1. Has(a) /\ ~Has(a)' /\ Last(a) = Top(a)
    BY <1>1, <1>2, <1>3, <1>5, <1>7, <1>9 DEF Last
  <2>2. entries'[a] = Without(entries[a], Top(a))
    BY <1>4, <1>9, <2>1
  <2>3. Without(entries[a], Top(a)) \in [DOMAIN entries[a] \ {Top(a)} -> Blocks]
    BY <1>1, WithoutType
  <2> HIDE DEF Without
  <2> QED
    BY <1>1, <1>8, <2>1, <2>2, <2>3 DEF ComesOrGoes
<1>10. CASE Head(steps) # <<"delete", a>>
  <2>1. entries'[a] = entries[a] /\ (Has(a)' <=> Has(a))
    BY <1>2, <1>3, <1>4, <1>5, <1>10
  <2> QED
    BY <1>1, <1>8, <2>1 DEF ComesOrGoes
<1> QED
  BY <1>9, <1>10

(* A request of a pop is a store step. *)
LEMMA RequestIsStoreStep ==
  ASSUME IInv, popStep
  PROVE  StoreStep /\ Types'
<1>1. Popping
  BY DEF popStep, Popping
<1>2. ~ReadFails
  BY <1>1, ReadsSucceed
<1>3. /\ Popping /\ Popping' /\ ~Putting /\ ~Putting' /\ operation' = operation
      /\ DatabaseStep(Head(steps)) /\ steps' = Tail(steps) /\ popFailed' = popFailed
      /\ process' = process /\ stateRoot' = stateRoot /\ floor' = floor /\ writes' = writes
      /\ before' = before /\ torn' = torn /\ popped' = popped
      /\ Types /\ Head(steps) # <<"root", "blocks">>
  BY <1>1, <1>2 DEF IInv, popStep, Popping, Putting
<1>4. \A a \in Arrays :
        /\ Top(a)' = Top(a) /\ ComesOrGoes(a)
        /\ entries'[a] \in [DOMAIN entries'[a] -> Blocks] /\ DOMAIN entries'[a] \subseteq Nat
        /\ length'[a] \in Nat
  BY <1>2, RequestGoes
<1>5. DOMAIN entries' = Arrays /\ length' \in [Arrays -> Nat]
  <2>1. DOMAIN entries' = Arrays /\ length' = [a \in Arrays |-> length'[a]]
    BY <1>3 DEF DatabaseStep
  <2> QED
    BY <1>4, <2>1
<1>6. /\ Len(steps) \in 2..10 /\ Len(steps') = Len(steps) - 1
      /\ \A x \in Objects : Head(steps) = <<"delete", x>> <=> Len(steps) = LeftToDelete[x]
  BY <1>3, RequestsLeft
<1>7. \A x \in Objects : /\ Head(steps) # <<"delete", x>> => (Has(x)' <=> Has(x))
                         /\ Head(steps) = <<"delete", x>> => Has(x) /\ ~Has(x)'
  <2> TAKE x \in Objects
  <2>1. /\ LeftToDelete[x] \in Nat
        /\ Has(x) <=> Len(steps) >= LeftToDelete[x]
        /\ Has(x)' <=> Len(steps') >= LeftToDelete[x]
    BY <1>3 DEF Has, LeftToDelete, Objects
  <2>2. Head(steps) = <<"delete", x>> <=> Len(steps) = LeftToDelete[x]
    BY <1>6
  <2>3. Len(steps) \in 2..10 /\ Len(steps') = Len(steps) - 1
    BY <1>6
  <2> QED
    BY <2>1, <2>2, <2>3
<1>8. /\ blockHashes' = IF Head(steps) = <<"delete", "blockHashes">>
                          THEN Without(blockHashes, operation.block) ELSE blockHashes
      /\ transactions' = IF Head(steps) = <<"delete", "transactions">>
                           THEN transactions \ {operation.block} ELSE transactions
      /\ transactionReceipts' = IF Head(steps) = <<"delete", "transactionReceipts">>
                                  THEN transactionReceipts \ {operation.block}
                                  ELSE transactionReceipts
      /\ Objects = {"blockHashes", "transactions", "transactionReceipts"}
  BY <1>3 DEF DatabaseStep, Objects
<1>9. HashComesOrGoes
  BY <1>7, <1>8 DEF HashComesOrGoes
<1>10. IsIn("transactions", transactions', transactions)
  BY <1>7, <1>8 DEF IsIn
<1>11. IsIn("transactionReceipts", transactionReceipts', transactionReceipts)
  BY <1>7, <1>8 DEF IsIn
<1>12. blockHashes' \in [DOMAIN blockHashes' -> Nat] /\ DOMAIN blockHashes' \subseteq Blocks
  <2>1. blockHashes \in [DOMAIN blockHashes -> Nat] /\ DOMAIN blockHashes \subseteq Blocks
    BY <1>3 DEF Types
  <2>2. Without(blockHashes, operation.block) \in [DOMAIN blockHashes \ {operation.block} -> Nat]
    BY <2>1, WithoutType
  <2>3. \/ blockHashes' = blockHashes
        \/ blockHashes' = Without(blockHashes, operation.block)
    BY <1>8
  <2> QED
    BY <2>1, <2>2, <2>3
<1>13. StoreStep
  BY <1>3, <1>4, <1>9, <1>10, <1>11, Zenon DEF StoreStep, Popping
<1>14. Types'
  <2>1. Len(steps') \in 1..10
    <3>1. \A m \in 2..10 : m - 1 \in 1..10
      OBVIOUS
    <3> QED
      BY <1>6, <3>1, Zenon
  <2>2. Len(steps) > 1
    BY <1>6
  <2>3. steps' = SubSeq(PopSteps, 11 - Len(steps'), 10)
    BY <1>3, <2>2, RequestsLeft, Zenon
  <2>4. StepsLeft'
    BY <2>1, <2>3, Zenon DEF StepsLeft
  <2> QED
    BY <1>3, <1>4, <1>5, <1>12, <2>4 DEF Types
<1> QED
  BY <1>13, <1>14

------------------------------------------------------------------------------
(* An operation begins or ends. *)

(* While no operation runs. *)
LEMMA Quiet ==
  ASSUME Types, operation.kind = "none"
  PROVE  /\ \A s : ~Has(s)
         /\ \A a : ~Counted(a)
         /\ \A a \in Arrays : Top(a) = length[a] /\ length[a] \in Nat
  BY DEF Types, Has, Counted, Top, Putting, Popping

(* When a put begins. *)
LEMMA PutBegins ==
  ASSUME Types, NEW block, StartPut(block)
  PROVE  /\ Putting' /\ ~Popping' /\ operation'.block = block /\ operation'.index = length["blocks"]
         /\ \A s \in Arrays \cup Objects : ~Has(s)'
         /\ \A a \in Arrays : ~Counted(a)' /\ Top(a)' = length[a]
         /\ writes' \in [Arrays \cup Objects -> Nat]
         /\ \A s \in Arrays \cup Objects : writes'[s] <= WritesOfPut(s)
<1>1. /\ operation' = [kind |-> "put", block |-> block, index |-> length["blocks"]]
      /\ writes' = [s \in Arrays \cup Objects |-> WritesOfPut(s)]
      /\ length' = length
  BY DEF StartPut, dbVars
<1>2. \A s \in Arrays \cup Objects : WritesOfPut(s) \in 1..2
  BY DEF WritesOfPut
<1>3. \A a \in Arrays : WritesOfPut(a) = 2
  BY DEF WritesOfPut
<1>4. /\ Putting' /\ ~Popping' /\ operation'.block = block /\ operation'.index = length["blocks"]
  BY <1>1 DEF Putting, Popping
<1>5. \A s \in Arrays \cup Objects : ~Has(s)'
  BY <1>1, <1>2, <1>4 DEF Has
<1>6. \A a \in Arrays : ~Counted(a)'
  BY <1>1, <1>3, <1>4 DEF Counted
<1>7. \A a \in Arrays : Top(a)' = length[a]
  BY <1>1, <1>6 DEF Top, Types
<1> QED
  BY <1>1, <1>2, <1>4, <1>5, <1>6, <1>7

(* The beginning of a put keeps the invariant, where the process that begins it is up. *)
LEMMA StartPutKeeps ==
  ASSUME IInv, operation.kind = "none", NEW block \in Blocks, block \notin Used, StartPut(block),
         0..(length["blocks"] - 1) \subseteq DOMAIN entries["blocks"],
         process' = "up", floor' \in Nat, SinceStart', Floor'
  PROVE  IInv'
<1> DEFINE n == length["blocks"]
<1>1. /\ operation' = [kind |-> "put", block |-> block, index |-> n]
      /\ entries' = entries /\ length' = length /\ blockHashes' = blockHashes
      /\ transactions' = transactions /\ transactionReceipts' = transactionReceipts
      /\ stateRoot' = block /\ before' = Stored /\ torn' = torn /\ popped' = popped
      /\ popFailed' = popFailed
  BY DEF StartPut, dbVars, objectVars
<1>2. /\ Putting' /\ ~Popping' /\ operation'.block = block /\ operation'.index = n
      /\ \A s \in Arrays \cup Objects : ~Has(s)'
      /\ \A a \in Arrays : ~Counted(a)' /\ Top(a)' = length[a]
      /\ writes' \in [Arrays \cup Objects -> Nat]
      /\ \A s \in Arrays \cup Objects : writes'[s] <= WritesOfPut(s)
  BY PutBegins DEF IInv
<1>3. /\ \A s : ~Has(s)
      /\ \A a \in Arrays : Top(a) = length[a] /\ length[a] \in Nat
      /\ "blocks" \in Arrays /\ "blockLogs" \in Arrays
      /\ "blockHashes" \in Objects /\ "transactions" \in Objects /\ "transactionReceipts" \in Objects
  BY Quiet DEF IInv, Arrays, Objects
<1>4. /\ \A a \in Arrays : block \notin Range(entries[a])
      /\ block \notin DOMAIN blockHashes /\ block \notin transactions
      /\ block \notin transactionReceipts /\ block \notin popped
  BY DEF Used, Arrays
<1>5. before' \in Seq(Blocks) /\ Len(before') = n /\ \A i \in 1..n : before'[i] = entries["blocks"][i - 1]
  <2>1. \A i \in 1..n : entries["blocks"][i - 1] \in Blocks
    BY <1>3 DEF IInv, Types
  <2>2. before' = [i \in 1..n |-> entries["blocks"][i - 1]] /\ n \in Nat
    BY <1>1, <1>3 DEF Stored
  <2> HIDE DEF n
  <2> QED
    BY <2>1, <2>2
<1> HIDE DEF n
<1>6. Types'
  BY <1>1, <1>2, <1>5, <1>3 DEF IInv, Types, StepsLeft, n
<1>7. EachEntryOnce'
  BY <1>1 DEF IInv, EachEntryOnce
<1>8. BlockAtHand'
  BY <1>1, <1>2, <1>3, <1>4 DEF BlockAtHand, n
<1>9. NoHoles' /\ Root'
  BY <1>1, <1>2, <1>3 DEF NoHoles, Root, Idle, Putting, n
<1>10. Gone' /\ popFailed' = FALSE
  BY <1>1 DEF IInv, Gone
<1>11. Whole'
  BY <1>1, <1>2, <1>3 DEF IInv, Whole, n
<1>12. ListKept'
  <2>1. DOMAIN before' = 1..n
    BY <1>5, LenProperties
  <2> QED
    BY <1>1, <1>2, <1>3, <1>5, <2>1 DEF ListKept, n, Putting
<1> QED
  BY <1>6, <1>7, <1>8, <1>9, <1>10, <1>11, <1>12 DEF IInv

(* A put of a running process begins. *)
LEMMA PutBlockKeeps ==
  ASSUME IInv, NEW block \in Blocks, putBlock(block)
  PROVE  IInv'
<1>1. /\ operation.kind = "none" /\ process = "up" /\ process' = "up" /\ floor' = floor
      /\ block \notin Used /\ StartPut(block) /\ floor \in Nat
      /\ entries' = entries /\ blockHashes' = blockHashes
  BY DEF putBlock, Idle, IInv, Types, StartPut, dbVars, objectVars
<1>2. \A a \in Arrays : Top(a) = length[a] /\ length[a] \in Nat /\ Top(a)' = length[a]
  BY <1>1, Quiet, PutBegins DEF IInv
<1>3. SinceStart'
  BY <1>1, <1>2 DEF IInv, SinceStart, LogsOf, Arrays
<1>4. Floor'
  BY <1>1, <1>2 DEF IInv, Floor, Putting, Arrays
<1>5. 0..(length["blocks"] - 1) \subseteq DOMAIN entries["blocks"]
  BY <1>1, <1>2 DEF IInv, NoHoles, Arrays
<1> QED
  BY <1>1, <1>3, <1>4, <1>5, StartPutKeeps

(* The list of blocks while a put runs: the one before it, or that one and its block. *)
LEMMA ListOfPut ==
  ASSUME IInv, Putting, "pop" \notin torn
  PROVE  /\ ~Counted("blocks") => IsChain(before)
         /\ Counted("blocks") => \E block \in Blocks : IsChain(Append(before, block))
<1> DEFINE n == Top("blocks")
<1>1. /\ n = Len(before) /\ \A i \in DOMAIN before : entries["blocks"][i - 1] = before[i]
      /\ before \in Seq(Blocks) /\ n \in Nat /\ DOMAIN before = 1..n
      /\ length["blocks"] \in Nat /\ "blocks" \in Arrays /\ process = "up" /\ ~Popping
  BY LenProperties DEF IInv, Types, BlockAtHand, ListKept, Putting, Popping, Arrays
<1>2. 0..(n - 1) \subseteq DOMAIN entries["blocks"]
  BY <1>1 DEF IInv, NoHoles
<1>3. ASSUME ~Counted("blocks") PROVE IsChain(before)
  <2>1. length["blocks"] = n
    BY <1>1, <1>3 DEF Top
  <2> QED
    BY <1>1, <1>2, <2>1 DEF IsChain, Readable
<1>4. ASSUME Counted("blocks") PROVE \E block \in Blocks : IsChain(Append(before, block))
  <2>1. length["blocks"] = n + 1 /\ length["blocks"] - 1 = n
    BY <1>1, <1>4 DEF Top
  <2>2. Has("blocks")
    BY <1>1, <1>4 DEF Counted, Has, WritesOfPut
  <2>3. PICK block \in Blocks : /\ block = operation.block
                                /\ n \in DOMAIN entries["blocks"] /\ entries["blocks"][n] = block
    BY <1>1, <2>2 DEF IInv, Types, BlockAtHand, Putting
  <2> HIDE DEF n
  <2>4. /\ Append(before, block) \in Seq(Blocks) /\ Len(Append(before, block)) = n + 1
        /\ \A i \in 1..n : Append(before, block)[i] = before[i]
        /\ Append(before, block)[n + 1] = block
        /\ DOMAIN Append(before, block) = 1..(n + 1)
    BY <1>1, AppendProperties, LenProperties
  <2>5. 0..n \subseteq DOMAIN entries["blocks"]
    BY <1>1, <1>2, <2>3
  <2>6. \A i \in 1..(n + 1) : entries["blocks"][i - 1] = Append(before, block)[i]
    <3> TAKE i \in 1..(n + 1)
    <3>1. CASE i = n + 1
      <4>1. (n + 1) - 1 = n
        BY <1>1
      <4> QED
        BY <2>3, <2>4, <3>1, <4>1
    <3>2. CASE i # n + 1
      <4>1. i \in 1..n
        BY <1>1, <3>2
      <4> QED
        BY <1>1, <2>4, <4>1
    <3> QED
      BY <3>1, <3>2
  <2>7. IsChain(Append(before, block))
    BY <2>1, <2>4, <2>5, <2>6, Zenon DEF IsChain, Readable
  <2> QED
    BY <2>7
<1> QED
  BY <1>3, <1>4

(* A put ends: its block is in all stores. *)
LEMMA PutDoneKeeps ==
  ASSUME IInv, putDone
  PROVE  IInv'
<1> DEFINE b == operation.block
           n == Top("blocks")
<1>1. /\ Putting /\ ~Popping /\ operation' = NoOperation /\ process = "up"
      /\ entries' = entries /\ length' = length /\ blockHashes' = blockHashes
      /\ transactions' = transactions /\ transactionReceipts' = transactionReceipts
      /\ process' = process /\ stateRoot' = stateRoot /\ writes' = writes /\ steps' = steps
      /\ floor' = floor /\ before' = before /\ torn' = torn /\ popped' = popped
      /\ popFailed' = popFailed
      /\ \A s \in Arrays \cup Objects : writes[s] = 0
      /\ b \in Blocks /\ stateRoot = b
  BY DEF putDone, dbVars, objectVars, historyVars, IInv, Types, Putting, Popping, Root
<1>2. /\ \A s \in Arrays \cup Objects : Has(s)
      /\ \A a \in Arrays : Counted(a) /\ Top(a) = length[a] - 1 /\ length[a] \in Nat
  BY <1>1 DEF Has, Counted, Top, WritesOfPut, IInv, Types
<1>3. /\ \A a \in Arrays : /\ Top(a) \in Nat /\ Top(a) \in DOMAIN entries[a]
                           /\ entries[a][Top(a)] = b
      /\ b \in DOMAIN blockHashes /\ blockHashes[b] = n
      /\ "blocks" \in Arrays /\ "blockLogs" \in Arrays /\ floor \in Nat
      /\ n \in Nat /\ n = length["blocks"] - 1 /\ operation.index = n
  BY <1>1, <1>2 DEF IInv, BlockAtHand, Arrays, Objects, Putting, Types
<1> HIDE DEF b, n
<1>4. Types'
  BY <1>1 DEF IInv, Types, StepsLeft, NoOperation, Putting, Popping
<1>5. /\ operation'.kind = "none" /\ ~Putting' /\ ~Popping' /\ \A s : ~Has(s)'
      /\ \A a \in Arrays : Top(a)' = Top(a) + 1
  BY <1>1, <1>2, <1>4, Quiet DEF NoOperation, Putting, Popping, Has, Counted, Top
<1>6. EachEntryOnce' /\ BlockAtHand' /\ Gone' /\ popFailed' = FALSE
  BY <1>1, <1>5 DEF IInv, EachEntryOnce, BlockAtHand, Gone
<1>7. SinceStart'
  <2> SUFFICES ASSUME NEW i \in floor..n
               PROVE  /\ i \in DOMAIN entries["blocks"] /\ LogsOf(i)' \in DOMAIN entries["blockLogs"]
                      /\ entries["blocks"][i] = entries["blockLogs"][LogsOf(i)']
                      /\ entries["blocks"][i] \in DOMAIN blockHashes
                      /\ blockHashes[entries["blocks"][i]] = i
    BY <1>1, <1>3, <1>5 DEF SinceStart, n
  <2>1. LogsOf(i)' = LogsOf(i) /\ (i = n => LogsOf(i) = Top("blockLogs"))
    BY <1>3, <1>5 DEF LogsOf, n
  <2>2. CASE i = n
    BY <1>3, <2>1, <2>2 DEF n
  <2>3. CASE i # n
    <3>1. i \in floor..(n - 1)
      BY <1>3, <2>3
    <3> QED
      BY <1>1, <2>1, <3>1 DEF IInv, SinceStart, n
  <2> QED
    BY <2>2, <2>3
<1>8. NoHoles' /\ Floor'
  <2>1. 0..(n - 1) \subseteq DOMAIN entries["blocks"]
    BY <1>1 DEF IInv, NoHoles, n
  <2>2. 0..n \subseteq DOMAIN entries["blocks"]
    BY <1>3, <2>1 DEF n
  <2>3. NoHoles'
    BY <1>1, <1>3, <1>5, <2>2 DEF NoHoles, n
  <2>4. Floor'
    BY <1>1, <1>3, <1>5 DEF IInv, Floor, n
  <2> QED
    BY <2>3, <2>4
<1>9. Root'
  BY <1>1, <1>3, <1>5 DEF Root, Idle, n
<1>10. Whole'
  <2> DEFINE below == {entries["blocks"][i] : i \in 0..(n - 1)}
  <2> SUFFICES ASSUME torn = {} PROVE Whole'
    BY <1>1 DEF Whole
  <2>1. /\ \A a \in Arrays :
             /\ Top(a) = n
             /\ DOMAIN entries[a] = 0..(n - 1) \cup {n}
        /\ \A i \in 0..(n - 1) :
             /\ entries["blockLogs"][i] = entries["blocks"][i]
             /\ entries["blocks"][i] \in DOMAIN blockHashes
             /\ blockHashes[entries["blocks"][i]] = i
        /\ transactions = below \cup {b}
        /\ transactionReceipts = below \cup {b}
        /\ DOMAIN blockHashes = below \cup {b}
    BY <1>2 DEF IInv, Whole, n, b, Objects
  <2>2. 0..n = 0..(n - 1) \cup {n}
    BY <1>3
  <2>3. {entries["blocks"][i] : i \in 0..n} = below \cup {b}
    BY <1>3, <2>2 DEF n
  <2>4. \A i \in 0..n : /\ entries["blockLogs"][i] = entries["blocks"][i]
                        /\ entries["blocks"][i] \in DOMAIN blockHashes
                        /\ blockHashes[entries["blocks"][i]] = i
    BY <1>3, <2>1, <2>2 DEF n
  <2>5. /\ \A a \in Arrays : Top(a)' = n + 1
        /\ (n + 1) - 1 = n
    BY <1>3, <1>5, <2>1
  <2>6. Top("blocks")' = n + 1
    BY <1>3, <2>5
  <2> HIDE DEF below
  <2> QED
    BY <1>1, <1>5, <2>1, <2>2, <2>3, <2>4, <2>5, <2>6 DEF Whole
<1>11. ListKept'
  <2> SUFFICES ASSUME "pop" \notin torn PROVE PutAllOrNothing'
    BY <1>1, <1>5 DEF ListKept
  <2>1. \E block \in Blocks : IsChain(Append(before, block))
    BY <1>1, <1>2, <1>3, ListOfPut
  <2> QED
    BY <1>1, <2>1, Zenon DEF PutAllOrNothing, IsChain, Readable
<1> QED
  BY <1>4, <1>6, <1>7, <1>8, <1>9, <1>10, <1>11 DEF IInv

(* A pop begins: its block is in all stores. *)
LEMMA PopBlockKeeps ==
  ASSUME IInv, popBlock
  PROVE  IInv'
<1> DEFINE n == length["blocks"] - 1
           b == entries["blocks"][n]
<1>1. /\ operation.kind = "none" /\ process = "up"
      /\ length["blocks"] > floor /\ floor \in Nat /\ length["blocks"] \in Nat
      /\ operation' = [kind |-> "pop", block |-> b, index |-> n]
      /\ entries' = entries /\ length' = length /\ blockHashes' = blockHashes
      /\ transactions' = transactions /\ transactionReceipts' = transactionReceipts
      /\ process' = process /\ stateRoot' = stateRoot /\ writes' = writes /\ steps' = PopSteps
      /\ floor' = floor /\ before' = Stored /\ torn' = torn /\ popped' = popped
      /\ popFailed' = popFailed
      /\ "blocks" \in Arrays /\ "blockLogs" \in Arrays
  BY DEF popBlock, Idle, dbVars, objectVars, IInv, Types, Arrays
<1>2. /\ \A s : ~Has(s)
      /\ \A a \in Arrays : Top(a) = length[a] /\ length[a] \in Nat
  BY <1>1, Quiet DEF IInv
<1>3. n \in Nat /\ n \in floor..(Top("blocks") - 1) /\ n + 1 = length["blocks"]
  BY <1>1, <1>2
<1>4. LogsOf(n) = length["blockLogs"] - 1
  BY <1>1, <1>2, <1>3 DEF LogsOf
<1> HIDE DEF n
<1>5. /\ n \in DOMAIN entries["blocks"] /\ LogsOf(n) \in DOMAIN entries["blockLogs"]
      /\ b = entries["blockLogs"][LogsOf(n)] /\ b \in DOMAIN blockHashes /\ blockHashes[b] = n
  BY <1>1, <1>3 DEF IInv, SinceStart
<1>6. b \in Blocks /\ b \notin popped
  BY <1>1, <1>5, RangeIs DEF IInv, Types, Gone
<1>7. Putting' = FALSE /\ Popping' = TRUE /\ Len(steps') = 10
  BY <1>1 DEF Putting, Popping, PopSteps
<1>8. \A s \in Arrays \cup Objects : Has(s)'
  BY <1>7 DEF Has, LeftToDelete, Arrays, Objects
<1>9. \A a \in Arrays : Counted(a)'
  BY <1>7 DEF Counted, LeftToShorten, Arrays
<1>10. \A a \in Arrays : Top(a)' = length[a] - 1
  BY <1>1, <1>9 DEF Top
<1>11. /\ length["blockLogs"] - 1 \in Nat /\ length["blockLogs"] - 1 \in DOMAIN entries["blockLogs"]
       /\ entries["blockLogs"][length["blockLogs"] - 1] = b
       /\ length["blocks"] - 1 = n
       /\ operation'.block = b /\ operation'.index = n /\ operation'.kind = "pop"
  BY <1>1, <1>3, <1>4, <1>5 DEF IInv, Types, n
<1> HIDE DEF b
<1>12. before' \in Seq(Blocks) /\ Len(before') = n + 1 /\ before'[n + 1] = b
       /\ \A i \in 1..n : before'[i] = entries["blocks"][i - 1]
  <2>1. 0..n \subseteq DOMAIN entries["blocks"]
    BY <1>1, <1>2, <1>11 DEF IInv, NoHoles
  <2>2. \A i \in 1..(n + 1) : entries["blocks"][i - 1] \in Blocks
    <3> TAKE i \in 1..(n + 1)
    <3>1. i - 1 \in DOMAIN entries["blocks"]
      BY <1>3, <2>1
    <3> QED
      BY <1>1, <3>1 DEF IInv, Types
  <2>3. before' = [i \in 1..(n + 1) |-> entries["blocks"][i - 1]]
    BY <1>1, <1>3 DEF Stored
  <2>4. before' \in Seq(Blocks) /\ Len(before') = n + 1
    BY <1>3, <2>2, <2>3
  <2>5. before'[n + 1] = entries["blocks"][n]
    BY <1>3, <2>3
  <2>6. \A i \in 1..n : before'[i] = entries["blocks"][i - 1]
    BY <1>3, <2>3
  <2> QED
    BY <2>4, <2>5, <2>6 DEF b
<1>13. Types'
  <2>1. StepsLeft'
    <3>1. PopSteps \in Seq(Range(PopSteps)) /\ Len(PopSteps) = 10
      BY DEF PopSteps, Range
    <3>2. SubSeq(PopSteps, 1, 10) = PopSteps
      BY <3>1, SubSeqFull
    <3>3. 11 - 10 = 1 /\ 10 \in 1..10
      OBVIOUS
    <3> QED
      BY <1>1, <1>7, <3>2, <3>3, Zenon DEF StepsLeft
  <2> QED
    BY <1>1, <1>3, <1>6, <1>11, <1>12, <2>1 DEF IInv, Types
<1>14. EachEntryOnce'
  BY <1>1 DEF IInv, EachEntryOnce
<1>15. BlockAtHand'
  <2>1. \A a \in Arrays : Top(a)' \in Nat /\ Top(a)' \in DOMAIN entries[a] /\ entries[a][Top(a)'] = b
    BY <1>3, <1>5, <1>10, <1>11 DEF Arrays, b
  <2> QED
    BY <1>1, <1>5, <1>6, <1>8, <1>10, <1>11, <2>1 DEF BlockAtHand, Objects
<1>16. SinceStart'
  <2>1. \A i \in floor..(n - 1) : i \in floor..(Top("blocks") - 1) /\ LogsOf(i)' = LogsOf(i)
    BY <1>1, <1>2, <1>3, <1>10, <1>11 DEF LogsOf
  <2> QED
    BY <1>1, <1>10, <1>11, <2>1 DEF IInv, SinceStart
<1>17. NoHoles' /\ Floor' /\ Root'
  BY <1>1, <1>2, <1>3, <1>7, <1>10, <1>11 DEF IInv, NoHoles, Floor, Root, Idle
<1>18. Gone' /\ popFailed' = FALSE
  BY <1>1 DEF IInv, Gone
<1>19. Whole'
  <2> DEFINE below == {entries["blocks"][i] : i \in 0..(n - 1)}
             all == {entries["blocks"][i] : i \in 0..n}
  <2> SUFFICES ASSUME torn = {} PROVE Whole'
    BY <1>1 DEF Whole
  <2>1. /\ \A a \in Arrays : length[a] = n + 1 /\ DOMAIN entries[a] = 0..n
        /\ \A i \in 0..n : /\ entries["blockLogs"][i] = entries["blocks"][i]
                           /\ entries["blocks"][i] \in DOMAIN blockHashes
                           /\ blockHashes[entries["blocks"][i]] = i
        /\ transactions = all /\ transactionReceipts = all /\ DOMAIN blockHashes = all
    <3> DEFINE top == Top("blocks")
    <3>1. top = n + 1 /\ top - 1 = n
      BY <1>1, <1>2, <1>3
    <3>2. /\ \A a \in Arrays : Top(a) = top /\ DOMAIN entries[a] = 0..(top - 1)
          /\ \A i \in 0..(top - 1) : /\ entries["blockLogs"][i] = entries["blocks"][i]
                                     /\ entries["blocks"][i] \in DOMAIN blockHashes
                                     /\ blockHashes[entries["blocks"][i]] = i
          /\ transactions = {entries["blocks"][i] : i \in 0..(top - 1)}
          /\ transactionReceipts = {entries["blocks"][i] : i \in 0..(top - 1)}
          /\ DOMAIN blockHashes = {entries["blocks"][i] : i \in 0..(top - 1)}
      BY <1>2 DEF IInv, Whole
    <3> HIDE DEF top
    <3> QED
      BY <1>2, <3>1, <3>2
  <2>2. 0..n = 0..(n - 1) \cup {n}
    BY <1>3
  <2>3. all = below \cup {b}
    BY <2>2 DEF b
  <2>4. \A a \in Arrays : Top(a)' = n
    <3>1. (n + 1) - 1 = n
      BY <1>3
    <3> QED
      BY <1>10, <2>1, <3>1
  <2> HIDE DEF below, all
  <2>5. below = {entries'["blocks"][i] : i \in 0..(n - 1)}
    BY <1>1 DEF below
  <2> QED
    BY <1>1, <1>8, <1>11, <2>1, <2>2, <2>3, <2>4, <2>5 DEF Whole, Objects
<1>20. ListKept'
  BY <1>1, <1>7, <1>10, <1>11, <1>12 DEF ListKept
<1> QED
  BY <1>13, <1>14, <1>15, <1>16, <1>17, <1>18, <1>19, <1>20 DEF IInv

(* A pop ends: its block has left all stores. *)
LEMMA PopDoneKeeps ==
  ASSUME IInv, popDone
  PROVE  IInv'
<1> DEFINE b == operation.block
           n == Top("blocks")
<1>1. /\ Popping /\ ~Putting /\ process = "up" /\ operation' = NoOperation
      /\ Head(steps) = <<"root", "blocks">>
      /\ entries' = entries /\ length' = length /\ blockHashes' = blockHashes
      /\ transactions' = transactions /\ transactionReceipts' = transactionReceipts
      /\ process' = process /\ stateRoot' = RootAfterPop /\ writes' = writes
      /\ floor' = floor /\ before' = before /\ torn' = torn /\ popped' = popped \cup {b}
      /\ popFailed' = popFailed /\ b \in Blocks
      /\ "blocks" \in Arrays /\ "blockLogs" \in Arrays /\ floor \in Nat
  BY DEF popDone, dbVars, objectVars, IInv, Types, Popping, Putting, Arrays
<1>2. Len(steps) = 1
  BY <1>1, RequestsLeft DEF IInv
<1>3. /\ \A s \in Arrays \cup Objects : ~Has(s)
      /\ \A a \in Arrays : ~Counted(a)
  BY <1>1, <1>2 DEF Has, Counted, LeftToDelete, LeftToShorten, Arrays, Objects
<1>4. \A a \in Arrays : Top(a) = length[a] /\ length[a] \in Nat
  BY <1>3 DEF IInv, Types, Top
<1>5. /\ \A a \in Arrays : b \notin Range(entries[a])
      /\ b \notin DOMAIN blockHashes /\ b \notin transactions /\ b \notin transactionReceipts
      /\ n \in Nat /\ n = length["blocks"]
  BY <1>1, <1>3, <1>4 DEF IInv, BlockAtHand, Objects, Popping
<1> HIDE DEF b, n
<1>6. Types'
  BY <1>1 DEF IInv, Types, StepsLeft, NoOperation, Popping
<1>7. /\ operation'.kind = "none" /\ ~Putting' /\ ~Popping' /\ \A s : ~Has(s)'
      /\ \A a \in Arrays : Top(a)' = Top(a)
  BY <1>1, <1>4, <1>6, Quiet DEF NoOperation, Putting, Popping, Has, Counted, Top
<1>8. EachEntryOnce' /\ BlockAtHand' /\ popFailed' = FALSE
  BY <1>1, <1>7 DEF IInv, EachEntryOnce, BlockAtHand
<1>9. Gone'
  BY <1>1, <1>5 DEF IInv, Gone
<1>10. SinceStart'
  BY <1>1, <1>7 DEF IInv, SinceStart, LogsOf
<1>11. NoHoles' /\ Floor'
  BY <1>1, <1>7 DEF IInv, NoHoles, Floor
<1>12. Root'
  BY <1>1, <1>7 DEF Root, RootAfterPop, Last
<1>13. Whole'
  BY <1>1, <1>3, <1>7 DEF IInv, Whole, Objects
<1>14. ListKept'
  <2> SUFFICES ASSUME "pop" \notin torn PROVE PutAllOrNothing'
    BY <1>1, <1>7 DEF ListKept
  <2>1. /\ Len(before) = n + 1 /\ \A i \in 1..n : entries["blocks"][i - 1] = before[i]
        /\ before[Len(before)] = b /\ before \in Seq(Blocks)
    BY <1>1 DEF IInv, ListKept, n, b, Types
  <2>2. Len(before) - 1 = n /\ n \in 0..Len(before)
    BY <1>5, <2>1
  <2>3. /\ SubSeq(before, 1, n) \in Seq(Blocks) /\ Len(SubSeq(before, 1, n)) = n
        /\ \A i \in 1..n : SubSeq(before, 1, n)[i] = before[i]
        /\ DOMAIN SubSeq(before, 1, n) = 1..n
    <3>1. \A i \in 1..n : before[i] \in Blocks
      BY <1>5, <2>1, ElementOfSeq
    <3>2. /\ SubSeq(before, 1, n) \in Seq(Blocks)
          /\ Len(SubSeq(before, 1, n)) = IF 1 <= n THEN n - 1 + 1 ELSE 0
          /\ \A i \in 1..(n - 1 + 1) : SubSeq(before, 1, n)[i] = before[1 + i - 1]
      BY <1>5, <3>1, SubSeqProperties
    <3>3. Len(SubSeq(before, 1, n)) = n
      BY <1>5, <3>2
    <3> QED
      BY <1>5, <3>2, <3>3, LenProperties
  <2>4. IsChain(SubSeq(before, 1, n))
    BY <1>1, <1>5, <2>1, <2>3 DEF IsChain, Readable, IInv, NoHoles, n
  <2>5. IsChain(SubSeq(before, 1, Len(before) - 1))'
    <3>1. SubSeq(before', 1, Len(before') - 1) = SubSeq(before, 1, n)
      BY <1>1, <2>2, Zenon
    <3> QED
      BY <1>1, <2>4, <3>1, Zenon DEF IsChain, Readable
  <2>6. before' # <<>> /\ before'[Len(before')] \in popped'
    <3>1. before # <<>>
      BY <1>5, <2>1
    <3> QED
      BY <1>1, <2>1, <3>1
  <2> QED
    BY <2>5, <2>6, Zenon DEF PutAllOrNothing
<1> QED
  BY <1>6, <1>8, <1>9, <1>10, <1>11, <1>12, <1>13, <1>14 DEF IInv

------------------------------------------------------------------------------
(* Crashes, restarts, and the invariant. *)

(* A crash forgets what runs and leaves what is written. *)
LEMMA CrashKeeps ==
  ASSUME IInv, crash
  PROVE  IInv'
<1> DEFINE n == Top("blocks")
<1>1. /\ process' = "down" /\ operation' = NoOperation
      /\ torn' = torn \cup ({operation.kind} \ {"none"})
      /\ writes' = [s \in Arrays \cup Objects |-> 0]
      /\ entries' = entries /\ length' = length /\ blockHashes' = blockHashes
      /\ transactions' = transactions /\ transactionReceipts' = transactionReceipts
      /\ floor' = floor /\ before' = before /\ popped' = popped /\ popFailed' = popFailed
      /\ "blocks" \in Arrays /\ process = "up"
      /\ operation.kind \in {"none", "put", "pop"} /\ Types
  BY DEF crash, dbVars, objectVars, IInv, Types, Arrays
<1>2. Types'
  <2>1. \A s \in Arrays \cup Objects : 0 <= WritesOfPut(s)
    BY DEF WritesOfPut
  <2> QED
    BY <1>1, <2>1 DEF Types, StepsLeft, NoOperation, Popping
<1>3. /\ operation'.kind = "none" /\ ~Putting' /\ ~Popping' /\ ~Idle' /\ \A s : ~Has(s)'
      /\ \A a : ~Counted(a)'
  BY <1>1 DEF NoOperation, Putting, Popping, Has, Counted, Idle
<1>4. \A a \in Arrays : Top(a)' = length[a] /\ length[a] \in Nat
  BY <1>1, <1>3 DEF Top, Types
<1>5. EachEntryOnce' /\ BlockAtHand' /\ SinceStart' /\ Floor' /\ Root' /\ Gone' /\ popFailed' = FALSE
  BY <1>1, <1>3 DEF IInv, EachEntryOnce, BlockAtHand, SinceStart, Floor, Root, Gone
<1>6. NoHoles'
  <2>1. 0..(n - 1) \subseteq DOMAIN entries["blocks"]
    BY <1>1 DEF IInv, NoHoles
  <2>2. CASE operation.kind = "none"
    <3>1. n = length["blocks"]
      BY <1>1, <2>2, Quiet
    <3> QED
      BY <1>1, <1>4, <2>1, <3>1 DEF NoHoles
  <2>3. CASE operation.kind = "put"
    <3>1. length["blocks"] = n \/ (length["blocks"] = n + 1 /\ Counted("blocks"))
      BY <1>1, <1>4 DEF Top
    <3>2. Counted("blocks") => Has("blocks")
      BY <1>1, <2>3 DEF Counted, Has, Putting, Popping, WritesOfPut, Types
    <3>3. n \in Nat /\ (Has("blocks") => n \in DOMAIN entries["blocks"])
      BY <1>1, <2>3 DEF IInv, BlockAtHand
    <3>4. 0..(length["blocks"] - 1) \subseteq DOMAIN entries["blocks"]
      <4> HIDE DEF n
      <4> QED
        BY <2>1, <3>1, <3>2, <3>3
    <3> QED
      BY <1>1, <1>4, <3>4 DEF NoHoles
  <2>4. CASE operation.kind = "pop"
    <3>1. n \in Nat /\ (length["blocks"] = n \/ length["blocks"] = n + 1)
      BY <1>1, <1>4, <2>4 DEF IInv, BlockAtHand, Top
    <3>2. 0..(length["blocks"] - 2) \subseteq DOMAIN entries["blocks"]
      <4> HIDE DEF n
      <4> QED
        BY <2>1, <3>1
    <3> QED
      BY <1>1, <1>4, <2>4, <3>2 DEF NoHoles
  <2> QED
    BY <1>1, <2>2, <2>3, <2>4
<1>7. Whole'
  <2> SUFFICES ASSUME torn' = {} PROVE Whole'
    BY DEF Whole
  <2>1. operation.kind = "none" /\ torn = {}
    BY <1>1
  <2>2. \A s : ~Has(s)
    BY <1>1, <2>1, Quiet
  <2>3. \A a \in Arrays : Top(a) = length[a]
    BY <1>1, <2>1, Quiet
  <2> QED
    BY <1>1, <1>3, <1>4, <2>1, <2>2, <2>3 DEF IInv, Whole
<1>8. ListKept'
  <2> SUFFICES ASSUME "pop" \notin torn' PROVE PutAllOrNothing'
    BY <1>3 DEF ListKept
  <2>1. "pop" \notin torn /\ operation.kind # "pop" /\ ListKept
    BY <1>1 DEF IInv
  <2>2. CASE operation.kind = "none"
    <3>1. PutAllOrNothing
      BY <2>1, <2>2 DEF ListKept
    <3> QED
      BY <1>1, <2>1, <3>1, Zenon DEF PutAllOrNothing, IsChain, Readable
  <2>3. CASE operation.kind = "put"
    <3>1. IsChain(before) \/ \E block \in Blocks : IsChain(Append(before, block))
      BY <2>1, <2>3, ListOfPut DEF Putting
    <3> QED
      BY <1>1, <3>1, Zenon DEF PutAllOrNothing, IsChain, Readable
  <2> QED
    BY <1>1, <2>1, <2>2, <2>3
<1> QED
  BY <1>2, <1>5, <1>6, <1>7, <1>8 DEF IInv

(* A process starts over what is stored, or fails. *)
LEMMA InitializeKeeps ==
  ASSUME IInv, initialize
  PROVE  IInv'
<1>1. /\ process = "down" /\ operation.kind = "none" /\ length["blocks"] \in Nat
      /\ floor' = (IF length["blocks"] = 0 THEN 1 ELSE length["blocks"])
      /\ "blocks" \in Arrays /\ Types
  BY DEF initialize, IInv, Types, Arrays
<1>2. /\ \A s : ~Has(s)
      /\ \A a \in Arrays : Top(a) = length[a] /\ length[a] \in Nat
  BY <1>1, Quiet
<1>3. ASSUME length["blocks"] = 0, process' = "up", NEW block \in Blocks \ Used, StartPut(block)
      PROVE  IInv'
  <2>1. floor' = 1
    BY <1>1, <1>3
  <2>2. Top("blocks")' = 0 /\ Putting'
    BY <1>1, <1>3, PutBegins
  <2>3. SinceStart' /\ Floor'
    BY <2>1, <2>2 DEF SinceStart, Floor
  <2>4. 0..(length["blocks"] - 1) \subseteq DOMAIN entries["blocks"]
    BY <1>3
  <2> QED
    BY <1>1, <1>3, <2>1, <2>3, <2>4, StartPutKeeps
<1>4. ASSUME entries' = entries, length' = length, blockHashes' = blockHashes,
             transactions' = transactions, transactionReceipts' = transactionReceipts,
             operation' = operation, writes' = writes, steps' = steps, before' = before,
             torn' = torn, popped' = popped, popFailed' = popFailed, length["blocks"] > 0,
             \/ /\ CanGet("blocks", Last("blocks")) /\ process' = "up"
                /\ stateRoot' = entries["blocks"][Last("blocks")]
             \/ process' = "failed"
      PROVE  IInv'
  <2>1. floor' = length["blocks"] /\ floor' \in Nat
    BY <1>1, <1>4
  <2>2. Types'
    BY <1>1, <1>4, <2>1 DEF Types, StepsLeft, Popping
  <2>3. /\ operation'.kind = "none" /\ ~Putting' /\ ~Popping' /\ \A s : ~Has(s)'
        /\ \A a \in Arrays : Top(a)' = length[a]
    BY <1>1, <1>4, <2>2, Quiet DEF Putting, Popping, Has, Counted, Top
  <2>4. EachEntryOnce' /\ BlockAtHand' /\ Gone' /\ popFailed' = FALSE
    BY <1>4, <2>3 DEF IInv, EachEntryOnce, BlockAtHand, Gone
  <2>5. SinceStart' /\ Floor'
    BY <1>1, <1>4, <2>1, <2>3 DEF SinceStart, Floor
  <2>6. NoHoles'
    <3>1. CASE process' = "up"
      <4>1. length["blocks"] - 1 \in DOMAIN entries["blocks"]
        BY <1>4, <3>1 DEF CanGet, Last
      <4>2. 0..(length["blocks"] - 2) \subseteq DOMAIN entries["blocks"]
        BY <1>1, <1>2 DEF IInv, NoHoles
      <4>3. 0..(length["blocks"] - 1) \subseteq DOMAIN entries["blocks"]
        BY <1>1, <4>1, <4>2
      <4> QED
        BY <1>1, <1>4, <2>3, <4>3 DEF NoHoles
    <3>2. CASE process' = "failed"
      BY <1>1, <1>2, <1>4, <2>3, <3>2 DEF IInv, NoHoles
    <3> QED
      BY <1>4, <3>1, <3>2
  <2>7. Root'
    BY <1>4, <2>3 DEF Root, Idle, Last
  <2>8. Whole'
    BY <1>1, <1>2, <1>4, <2>3 DEF IInv, Whole
  <2>9. ListKept'
    <3>1. "pop" \notin torn => PutAllOrNothing
      BY <1>1 DEF IInv, ListKept
    <3>2. "pop" \notin torn => PutAllOrNothing'
      BY <1>4, <3>1, Zenon DEF PutAllOrNothing, IsChain, Readable
    <3> QED
      BY <1>4, <2>3, <3>2 DEF ListKept
  <2> QED
    BY <2>2, <2>4, <2>5, <2>6, <2>7, <2>8, <2>9 DEF IInv
<1> QED
  BY <1>3, <1>4 DEF initialize, dbVars, objectVars, historyVars

(* The invariant holds at the start, when nothing is stored. *)
LEMMA InitIInv == Init => IInv
<1> SUFFICES ASSUME Init PROVE IInv
  OBVIOUS
<1>1. /\ entries = [a \in Arrays |-> Empty] /\ length = [a \in Arrays |-> 0] /\ blockHashes = Empty
      /\ transactions = {} /\ transactionReceipts = {} /\ process = "down"
      /\ operation = NoOperation /\ writes = [s \in Arrays \cup Objects |-> 0] /\ floor = 0
      /\ before = <<>> /\ torn = {} /\ popped = {} /\ popFailed = FALSE
      /\ DOMAIN Empty = {} /\ "blocks" \in Arrays /\ "blockLogs" \in Arrays
  BY DEF Init, Empty, Arrays
<1>2. Types
  <2>1. \A s \in Arrays \cup Objects : 0 <= WritesOfPut(s)
    BY DEF WritesOfPut
  <2>2. Empty \in [{} -> Blocks] /\ Empty \in [{} -> Nat]
    BY DEF Empty
  <2>3. before \in Seq(Blocks)
    BY <1>1, EmptySeq
  <2> QED
    BY <1>1, <2>1, <2>2, <2>3 DEF Types, StepsLeft, NoOperation, Popping
<1>3. /\ operation.kind = "none" /\ \A s : ~Has(s)
      /\ \A a \in Arrays : Top(a) = length[a] /\ Top(a) = 0
      /\ ~Putting /\ ~Popping
  BY <1>1, <1>2, Quiet DEF NoOperation, Putting, Popping
<1>4. EachEntryOnce /\ BlockAtHand /\ SinceStart /\ NoHoles /\ Floor /\ Root /\ Gone
  BY <1>1, <1>3 DEF EachEntryOnce, BlockAtHand, SinceStart, NoHoles, Floor, Root, Idle, Gone
<1>5. Whole
  BY <1>1, <1>3 DEF Whole
<1>6. ListKept
  <2>1. IsChain(before)
    BY <1>1, EmptySeq DEF IsChain, Readable
  <2> QED
    BY <1>3, <2>1 DEF ListKept, PutAllOrNothing
<1> QED
  BY <1>1, <1>2, <1>4, <1>5, <1>6 DEF IInv

(* Every step keeps the invariant. *)
LEMMA NextIInv == IInv /\ [Next]_vars => IInv'
<1> SUFFICES ASSUME IInv, [Next]_vars PROVE IInv'
  OBVIOUS
<1>1. ASSUME NEW block \in Blocks, putBlock(block) PROVE IInv'
  BY <1>1, PutBlockKeeps
<1>2. ASSUME NEW s \in Arrays \cup Objects, write(s) PROVE IInv'
  BY <1>2, WriteIsStoreStep, StoreStepKeeps
<1>3. CASE putDone
  BY <1>3, PutDoneKeeps
<1>4. CASE popBlock
  BY <1>4, PopBlockKeeps
<1>5. CASE popStep
  BY <1>5, RequestIsStoreStep, StoreStepKeeps
<1>6. CASE popDone
  BY <1>6, PopDoneKeeps
<1>7. CASE initialize
  BY <1>7, InitializeKeeps
<1>8. CASE crash
  BY <1>8, CrashKeeps
<1>9. CASE UNCHANGED vars
  <2>1. /\ entries' = entries /\ length' = length /\ blockHashes' = blockHashes
        /\ transactions' = transactions /\ transactionReceipts' = transactionReceipts
        /\ process' = process /\ stateRoot' = stateRoot /\ operation' = operation
        /\ writes' = writes /\ steps' = steps /\ floor' = floor /\ before' = before
        /\ torn' = torn /\ popped' = popped /\ popFailed' = popFailed
    BY <1>9 DEF vars, dbVars, objectVars, historyVars
  <2>2. /\ \A s : Has(s)' <=> Has(s)
        /\ \A a : Top(a)' = Top(a)
        /\ (Putting' <=> Putting) /\ (Popping' <=> Popping) /\ (Idle' <=> Idle)
    BY <2>1 DEF Has, Top, Counted, Putting, Popping, Idle
  <2>3. Types' /\ EachEntryOnce' /\ BlockAtHand' /\ SinceStart'
    BY <2>1, <2>2 DEF IInv, Types, StepsLeft, EachEntryOnce, BlockAtHand, SinceStart, LogsOf
  <2>4. NoHoles' /\ Floor' /\ Root' /\ popFailed' = FALSE /\ Gone'
    BY <2>1, <2>2 DEF IInv, NoHoles, Floor, Root, Gone
  <2>5. Whole'
    BY <2>1, <2>2 DEF IInv, Whole
  <2>6. PutAllOrNothing' <=> PutAllOrNothing
    BY <2>1, Zenon DEF PutAllOrNothing, IsChain, Readable
  <2>7. ListKept'
    BY <2>1, <2>2, <2>6 DEF IInv, ListKept
  <2> QED
    BY <2>3, <2>4, <2>5, <2>7 DEF IInv
<1> QED
  BY <1>1, <1>2, <1>3, <1>4, <1>5, <1>6, <1>7, <1>8, <1>9 DEF Next

LEMMA IInvHolds == Spec => []IInv
  BY InitIInv, NextIInv, PTL DEF Spec

------------------------------------------------------------------------------
(* What follows. *)

(* Between operations, while none was ever cut short, the five stores of database.js hold the
   same blocks under the same places and nothing else; and the state root in memory is that of
   the last stored block, whatever a crash had cut off before. *)
THEOREM TheStoresAgree == Spec => []StoresAgree
<1>1. ASSUME IInv PROVE StoresAgree
  <2>1. /\ Types /\ EachEntryOnce
        /\ "blocks" \in Arrays /\ "blockLogs" \in Arrays /\ length["blocks"] \in Nat
    BY <1>1 DEF IInv, Types, Arrays
  <2>2. ASSUME Idle
        PROVE  CanGet("blocks", Last("blocks")) /\ stateRoot = entries["blocks"][Last("blocks")]
    <3>1. process = "up" /\ operation.kind = "none" /\ Top("blocks") = length["blocks"] /\ ~Putting
      BY <2>1, <2>2, Quiet DEF Idle, Putting
    <3>2. length["blocks"] >= 1
      BY <1>1, <2>1, <3>1 DEF IInv, Floor, Types
    <3>3. 0..(length["blocks"] - 1) \subseteq DOMAIN entries["blocks"]
      BY <1>1, <3>1 DEF IInv, NoHoles
    <3>4. CanGet("blocks", length["blocks"] - 1)
      BY <2>1, <3>2, <3>3 DEF CanGet
    <3> QED
      BY <1>1, <2>2, <3>4 DEF IInv, Root, Last
  <2>3. ASSUME operation.kind = "none", torn = {}
        PROVE  /\ length["blocks"] = length["blockLogs"]
               /\ entries["blocks"] = entries["blockLogs"]
               /\ DOMAIN entries["blocks"] = 0..(length["blocks"] - 1)
               /\ transactions = Range(entries["blocks"])
               /\ transactionReceipts = transactions /\ DOMAIN blockHashes = transactions
               /\ \A i \in DOMAIN entries["blocks"] : blockHashes[entries["blocks"][i]] = i
    <3> DEFINE n == length["blocks"]
    <3>1. /\ \A s : ~Has(s)
          /\ \A a \in Arrays : Top(a) = length[a]
      BY <2>1, <2>3, Quiet
    <3>2. /\ \A a \in Arrays : length[a] = n /\ DOMAIN entries[a] = 0..(n - 1)
          /\ \A i \in 0..(n - 1) : /\ entries["blockLogs"][i] = entries["blocks"][i]
                                   /\ blockHashes[entries["blocks"][i]] = i
          /\ transactions = {entries["blocks"][i] : i \in 0..(n - 1)}
          /\ transactionReceipts = transactions /\ DOMAIN blockHashes = transactions
      BY <1>1, <2>1, <2>3, <3>1 DEF IInv, Whole
    <3>3. entries["blocks"] = entries["blockLogs"]
      <4>1. /\ entries["blocks"] \in [DOMAIN entries["blocks"] -> Blocks]
            /\ entries["blockLogs"] \in [DOMAIN entries["blockLogs"] -> Blocks]
        BY <2>1 DEF Types
      <4>2. DOMAIN entries["blocks"] = 0..(n - 1) /\ DOMAIN entries["blockLogs"] = 0..(n - 1)
        BY <2>1, <3>2
      <4> HIDE DEF n
      <4>3. entries["blocks"] = [i \in 0..(n - 1) |-> entries["blocks"][i]]
        BY <4>1, <4>2, Zenon
      <4>4. entries["blockLogs"] = [i \in 0..(n - 1) |-> entries["blockLogs"][i]]
        BY <4>1, <4>2, Zenon
      <4>5. \A i \in 0..(n - 1) : entries["blocks"][i] = entries["blockLogs"][i]
        BY <3>2
      <4> QED
        BY <4>3, <4>4, <4>5, Zenon
    <3>4. transactions = Range(entries["blocks"])
      BY <2>1, <3>2 DEF Range
    <3> QED
      BY <2>1, <3>2, <3>3, <3>4
  <2> QED
    BY <2>2, <2>3, Zenon DEF StoresAgree
<1> QED
  BY <1>1, IInvHolds, PTL

(* While no pop was ever cut short, the list of blocks is at every moment of a put, and after a
   crash at any moment of it, the list before it or that list and its block. *)
THEOREM PutsAreAllOrNothing == Spec => []PutAllOrNothing
<1>1. ASSUME IInv PROVE PutAllOrNothing
  <2>1. CASE Putting
    <3>1. "pop" \notin torn =>
            IsChain(before) \/ \E block \in Blocks : IsChain(Append(before, block))
      BY <1>1, <2>1, ListOfPut
    <3> QED
      BY <3>1, Zenon DEF PutAllOrNothing
  <2>2. CASE operation.kind = "none"
    BY <1>1, <2>2 DEF IInv, ListKept, PutAllOrNothing
  <2> QED
    BY <1>1, <2>1, <2>2 DEF IInv, Types, PutAllOrNothing, Putting
<1> QED
  BY <1>1, IInvHolds, PTL

(* popBlock never fails on a block that was put since the process started, also when an earlier
   crash left the stores torn, and a block popped to the end has left all five. *)
THEOREM AllPopsSucceed == Spec => []PopsSucceed
<1>1. IInv => PopsSucceed
  BY DEF IInv, Gone, PopsSucceed
<1> QED
  BY <1>1, IInvHolds, PTL

(* A process fails to start only over the database of one that was killed in a pop, and then
   all blocks but the last are still stored. *)
THEOREM KillsAreSurvived == Spec => []StartsAgain
<1> DEFINE PopWasCut == process = "failed" => "pop" \in torn
<1>1. Init => PopWasCut
  BY DEF Init
<1>2. ASSUME IInv, PopWasCut, [Next]_vars PROVE PopWasCut'
  <2>1. Types
    BY <1>2 DEF IInv
  <2>2. CASE initialize
    <3>1. /\ process = "down" /\ torn' = torn
          /\ process' = "failed" => length["blocks"] > 0 /\ ~CanGet("blocks", length["blocks"] - 1)
      BY <2>2 DEF initialize, StartPut, historyVars, Last
    <3>2. operation.kind = "none"
      BY <2>1, <3>1 DEF Types
    <3>3. Top("blocks") = length["blocks"] /\ length["blocks"] \in Nat
      BY <2>1, <3>2, Quiet DEF Arrays
    <3>4. ASSUME process' = "failed" PROVE "pop" \in torn
      <4>1. length["blocks"] - 1 \in 0..(length["blocks"] - 1)
        BY <3>1, <3>3, <3>4
      <4>2. length["blocks"] - 1 \notin DOMAIN entries["blocks"]
        BY <3>1, <3>3, <3>4, <4>1 DEF CanGet
      <4> QED
        BY <1>2, <3>3, <4>1, <4>2 DEF IInv, NoHoles
    <3> QED
      BY <3>1, <3>4
  <2>3. CASE crash
    BY <2>3 DEF crash
  <2>4. CASE ~initialize /\ ~crash
    <3>1. process' = process /\ torn' = torn
      BY <1>2, <2>4 DEF Next, vars, historyVars, putBlock, StartPut, write, putDone, popBlock,
                        popStep, popDone
    <3> QED
      BY <1>2, <3>1
  <2> QED
    BY <2>2, <2>3, <2>4
<1>3. ASSUME IInv, PopWasCut PROVE StartsAgain
  <2> SUFFICES ASSUME process = "failed"
               PROVE  0..(length["blocks"] - 2) \subseteq DOMAIN entries["blocks"]
    BY <1>3 DEF StartsAgain
  <2>1. Types /\ operation.kind = "none"
    BY <1>3 DEF IInv, Types
  <2>2. Top("blocks") = length["blocks"] /\ length["blocks"] \in Nat
    BY <2>1, Quiet DEF Arrays
  <2> QED
    BY <1>3, <2>2 DEF IInv, NoHoles
<1> QED
  BY <1>1, <1>2, <1>3, IInvHolds, PTL DEF Spec
===============================================================================
