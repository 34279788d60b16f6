-------------------------- MODULE GasEstimationProofs --------------------------
(***************************************************************************)
(* For any frames, any fee of a call and any gas, a contract whose calls   *)
(* call nothing themselves is estimated, and but for one unit to either    *)
(* side.                                                                   *)
(*                                                                         *)
(* FlatCallsEstimated speaks of a transaction that is over; the invariant  *)
(* IInv speaks of every state on the way there.  While the run is watched, *)
(* the steps told are linked (Linked): each goes on where the one before   *)
(* ended, a call gives back what it has not used, and gas gets less in a   *)
(* contract and in those it calls.  What gas is enough from a step on      *)
(* (Enough) can then be said of the steps alone: it pays for what was      *)
(* used, and every call is passed what it cost.  The estimate is near that *)
(* (Near, EstimateIsNear): the lowest step ends a call, what the search    *)
(* says is needed before the 64th of that call is held back is one unit    *)
(* off at most (NeededIsLittle, NeededIsEnough), no call before it is      *)
(* tighter (EnoughBefore), and what follows the call is estimated by a     *)
(* search that goes one level less deep (TotalIsNear).  The transaction    *)
(* that is sent takes the way of the run that was watched (Way, Here), and *)
(* goes on exactly where its gas is enough (SentRuns).                     *)
(*                                                                         *)
(* getTotal is a recursive function: the finite beginnings of it that      *)
(* exist (Part) agree, which makes it what its definition says.            *)
(***************************************************************************)
EXTENDS GasEstimation, SequenceTheorems, WellFoundedInduction, TLAPS

(* The steps of a contract whose calls call nothing themselves, and how they follow. *)
Steps == [op : {"OP", "CALL", "STOP"}, depth : {0, 1}, fee : Nat, gasLeft : Nat]

(* From the call b to a step p of the contract that it calls. *)
Encloses(s, b, p) ==
  /\ b \in DOMAIN s /\ p \in DOMAIN s /\ b < p /\ s[b].op = "CALL"
  /\ \A q \in (b + 1)..(p - 1) : s[q].op = "OP"

(* One step after the other. *)
Chained(s) ==
  \A p \in DOMAIN s : p + 1 \in DOMAIN s =>
    /\ s[p].op = "OP" => s[p + 1].depth = s[p].depth /\ s[p + 1].gasLeft = s[p].gasLeft - s[p].fee
    /\ s[p].op = "CALL" => /\ s[p + 1].depth = 1 /\ s[p].gasLeft >= s[p].fee
                           /\ s[p + 1].gasLeft = Passed(s[p].gasLeft - s[p].fee)
    /\ s[p].op = "STOP" => s[p].depth = 1 /\ s[p + 1].depth = 0

(* A call gives back what it has not used. *)
GivenBack(s) ==
  \A b, e \in DOMAIN s :
    Encloses(s, b, e) /\ s[e].op = "STOP" /\ e + 1 \in DOMAIN s =>
      s[e + 1].gasLeft = s[b].gasLeft - s[b].fee - s[b + 1].gasLeft + s[e].gasLeft

(* The steps of the contracts called are those enclosed. *)
Nested(s) ==
  /\ \A p \in DOMAIN s : s[p].op # "STOP" => s[p].fee >= 1
  /\ \A p \in DOMAIN s : s[p].op = "CALL" => s[p].depth = 0
  /\ \A p \in DOMAIN s : s[p].depth = 1 => \E b \in DOMAIN s : Encloses(s, b, p)
  /\ \A b, p \in DOMAIN s : Encloses(s, b, p) => s[p].depth = 1

(* Gas gets less, in a contract and in those it calls. *)
Falling(s) ==
  /\ \A p, q \in DOMAIN s : p < q /\ s[p].depth = 0 /\ s[q].depth = 0 =>
       s[p].gasLeft >= s[q].gasLeft + s[p].fee
  /\ \A p, q \in DOMAIN s : p < q /\ (\A r \in p..(q - 1) : s[r].op = "OP") =>
       s[p].gasLeft >= s[q].gasLeft + s[p].fee

Linked(s) == s \in Seq(Steps) /\ Chained(s) /\ GivenBack(s) /\ Nested(s) /\ Falling(s)

(* The system operations are found by their places. *)
Indexed ==
  /\ systemOps \in Seq(DOMAIN ops)
  /\ \A i, j \in DOMAIN systemOps : i < j => systemOps[i] < systemOps[j]
  /\ \A p \in DOMAIN ops : ops[p].op # "OP" <=> \E i \in DOMAIN systemOps : systemOps[i] = p

(* And the first of the lowest steps is known. *)
LowestKnown ==
  ops # <<>> =>
    /\ lowestGasIndex \in DOMAIN ops
    /\ \A p \in DOMAIN ops : ops[lowestGasIndex].gasLeft <= ops[p].gasLeft
    /\ \A p \in DOMAIN ops : p < lowestGasIndex => ops[lowestGasIndex].gasLeft < ops[p].gasLeft
    /\ lowestSysOpIndex \in Nat \ {0}
    /\ ops[lowestGasIndex].op # "OP" => /\ lowestSysOpIndex \in DOMAIN systemOps
                                        /\ systemOps[lowestSysOpIndex] = lowestGasIndex

(* Where the machine is: the operation of the outer contract that is next, and that of the
   contract it calls, or 0. *)
Alone(i, g) == Context(frame, i, g, 0, <<>>)
Within(i, m, g, k) == Context(frame[i - 1].frame, m, g, 1, Alone(i, k))

StandingAt(c) ==
  \/ \E i \in 1..(Len(frame) + 1) : \E g \in Nat : c = Alone(i, g)
  \/ \E i \in 2..(Len(frame) + 1) : \E g, k \in Nat :
       /\ frame[i - 1].op = "CALL"
       /\ \E m \in 1..(Len(frame[i - 1].frame) + 1) : c = Within(i, m, g, k)
Standing == StandingAt(context)

HereOf(c) ==
  IF c.depth = 0 THEN [outer |-> c.next, inner |-> 0]
  ELSE [outer |-> c.caller.next, inner |-> c.next]
Here == HereOf(context)

(* The gas the caller keeps. *)
KeptOf(c) == IF c.depth = 0 THEN 0 ELSE c.caller.gas
Kept == KeptOf(context)

(* The operation there is at a place of the contract, and the place that follows. *)
OpAt(w) ==
  IF w.inner = 0
    THEN IF w.outer \in DOMAIN frame THEN frame[w.outer].op ELSE "STOP"
    ELSE IF w.inner \in DOMAIN frame[w.outer - 1].frame THEN "OP" ELSE "STOP"
FeeAt(w) ==
  IF w.inner = 0
    THEN IF w.outer \in DOMAIN frame THEN frame[w.outer].fee ELSE 0
    ELSE IF w.inner \in DOMAIN frame[w.outer - 1].frame
           THEN frame[w.outer - 1].frame[w.inner].fee ELSE 0
After(w) ==
  IF OpAt(w) = "CALL" THEN [outer |-> w.outer + 1, inner |-> 1]
  ELSE IF OpAt(w) = "STOP" THEN [outer |-> w.outer, inner |-> 0]
  ELSE IF w.inner = 0 THEN [outer |-> w.outer + 1, inner |-> 0]
  ELSE [outer |-> w.outer, inner |-> w.inner + 1]

(* The way the run that was watched took. *)
Way(way) ==
  /\ DOMAIN way = 1..(Len(ops) + 1) /\ way[1] = [outer |-> 1, inner |-> 0]
  /\ \A p \in DOMAIN ops :
       /\ way[p + 1] = After(way[p])
       /\ ops[p].op = OpAt(way[p]) /\ ops[p].fee = FeeAt(way[p])
       /\ ops[p].depth = IF way[p].inner = 0 THEN 0 ELSE 1

(* The call that the machine is in, and the gas kept of it. *)
KeptIn(s, kept) ==
  \E b \in DOMAIN s : /\ Encloses(s, b, Len(s))
                      /\ kept = s[b].gasLeft - s[b].fee - s[b + 1].gasLeft
CallerKept == context.depth = 1 => KeptIn(Append(ops, Told), Kept)

(* The run that is watched. *)
Watched ==
  /\ outcome = "running" =>
       /\ Linked(Append(ops, Told)) /\ CallerKept
       /\ \E way : Way(way) /\ Here = way[Len(ops) + 1]
  /\ outcome # "running" => /\ ops # <<>> /\ Linked(ops) /\ \E way : Way(way)
                            /\ (success <=> outcome = "success")
                            /\ (success => ops[Len(ops)].depth = 0)

-----------------------------------------------------------------------------
(* What gas is enough from a place of the outer contract on: for all that is used, and for
   each call with what is passed to it. *)
EndOf(p) ==
  CHOOSE e \in DOMAIN ops : p <= e /\ ops[e].op = "STOP" /\ \A q \in p..(e - 1) : ops[q].op = "OP"
Cost(b) == ops[b + 1].gasLeft - ops[EndOf(b + 1)].gasLeft
Enough(p, g) ==
  /\ g >= ops[p].gasLeft - ops[Len(ops)].gasLeft
  /\ \A b \in DOMAIN ops :
       b >= p /\ ops[b].op = "CALL" =>
         Passed(g - (ops[p].gasLeft - ops[b].gasLeft) - ops[b].fee) >= Cost(b)

(* An estimate that is one unit off at most. *)
Near(p, t) ==
  /\ t \in Nat
  /\ \A g \in Int : (g > t => Enough(p, g)) /\ (Enough(p, g) => g >= t - 1)

(* What gas is enough from a place on, with what the caller keeps. *)
Suffices(p, g, k) ==
  IF ops[p].depth = 0 THEN Enough(p, g)
  ELSE LET left == g - (ops[p].gasLeft - ops[EndOf(p)].gasLeft)
       IN  left >= 0 /\ Enough(EndOf(p) + 1, k + left)

(* The transaction that was sent succeeds if its gas is enough. *)
SentRuns ==
  sent =>
    /\ outcome = "running" =>
         \E way : Way(way) /\ \E p \in DOMAIN ops : /\ Here = way[p]
                                         /\ (Suffices(p, context.gas, Kept) <=> Enough(1, gasLimit))
    /\ outcome = "success" => Enough(1, gasLimit)
    /\ outcome = "outOfGas" => ~Enough(1, gasLimit)

Estimated ==
  success => /\ Linked(ops) /\ ops[Len(ops)].depth = 0 /\ Near(1, gasEstimate)
             /\ \E way : Way(way)
             /\ SentRuns

FlatRuns ==
  /\ frame \in Frames /\ ops \in Seq(Steps) /\ (ops # <<>> \/ gasEstimate = NoEstimate)
  /\ Indexed /\ LowestKnown
  /\ gasLimit \in Int /\ sent \in BOOLEAN /\ outcome \in {"running", "success", "outOfGas"}
  /\ (gasEstimate # NoEstimate => gasEstimate \in Int) /\ (sent => gasEstimate # NoEstimate)
  /\ outcome = "running" => Standing
  /\ gasEstimate = NoEstimate => Watched
  /\ gasEstimate # NoEstimate => Estimated
IInv == Flat(frame) => FlatRuns
-----------------------------------------------------------------------------
(* Every set of numbers has a least one. *)
LEMMA LeastNumber ==
  ASSUME NEW T \in SUBSET Nat, T # {}
  PROVE  \E x \in T : \A y \in T : x <= y
<1>1. PICK x \in T : \A y \in T : ~ (<<y, x>> \in OpToRel(<, Nat))
  BY NatLessThanWellFounded, WFMin
<1>2. ASSUME NEW y \in T
      PROVE  x <= y
  <2>1. ~ (y < x)
    BY <1>1 DEF OpToRel
  <2> QED
    BY <2>1
<1> QED
  BY <1>2

(* What a call is given: part of what is left, *)
LEMMA PassedIsLess ==
  ASSUME NEW r \in Nat
  PROVE  Passed(r) \in Nat /\ Passed(r) <= r
BY DEF Passed

(* not less of more, *)
LEMMA PassedMonotone ==
  ASSUME NEW r \in Int, NEW s \in Int, r <= s
  PROVE  Passed(r) \in Int /\ Passed(r) <= Passed(s)
BY DEF Passed

(* and less by no more than what is missing. *)
LEMMA PassedOfLess ==
  ASSUME NEW r \in Int, NEW x \in Nat
  PROVE  Passed(r - x) >= Passed(r) - x
BY DEF Passed

(* The estimate of what is needed before the 64th is held back is one too high at most, *)
LEMMA NeededIsLittle ==
  ASSUME NEW r \in Int, NEW c \in Nat, Passed(r) >= c
  PROVE  r >= c + c \div 63 - 1
BY DEF Passed

(* with one more it is enough, *)
LEMMA NeededIsEnough ==
  ASSUME NEW s \in Int, NEW c \in Nat, s >= c + c \div 63 + 1
  PROVE  Passed(s) >= c
BY DEF Passed

(* and enough for a call before that one, of which there was left no less. *)
LEMMA EnoughBefore ==
  ASSUME NEW r \in Int, NEW x \in Nat, NEW c \in Nat, NEW d \in Nat, NEW s \in Int,
         Passed(r + x) - d >= Passed(r) - c, s >= c + c \div 63 + 1
  PROVE  Passed(s + x) >= d
<1> DEFINE t == c + c \div 63 + 1
<1>1. t \in Int /\ Passed(t + x) <= Passed(s + x)
  BY PassedMonotone
<1>2. (r + x) \div 64 >= r \div 64 + x \div 64
  OBVIOUS
<1>3. Passed(r + x) - Passed(r) <= x - x \div 64
  BY <1>2 DEF Passed
<1>4. (t + x) \div 64 <= c \div 63 + x \div 64 + 1
  OBVIOUS
<1>5. Passed(t + x) >= c + x - x \div 64
  BY <1>4 DEF Passed
<1>6. Passed(s + x) \in Int /\ Passed(t + x) \in Int /\ Passed(r + x) \in Int /\ Passed(r) \in Int
  BY DEF Passed
<1> QED
  BY <1>1, <1>3, <1>5, <1>6
-----------------------------------------------------------------------------
(* The totals of ranges up to a number of calls, one within the other. *)
Part(g, n) == g = [i \in 0..n |-> Totals(i, g[i - 1])]

(* A beginning has the totals of every number of calls up to its own, each from the one before, *)
LEMMA PartIs ==
  ASSUME NEW n \in Nat, NEW g, Part(g, n), NEW i \in 0..n
  PROVE  g[i] = Totals(i, g[i - 1])
BY Zenon DEF Part

(* and where getTotal may not call itself no total is asked for. *)
LEMMA NoCalls ==
  ASSUME NEW t, NEW u
  PROVE  Totals(0, t) = Totals(0, u)
BY Zenon DEF Totals

(* So two beginnings agree as far as both go, *)
LEMMA PartsAgree ==
  ASSUME NEW n \in Nat, NEW g, Part(g, n), NEW m \in Nat, NEW h, Part(h, m),
         NEW k \in Nat, k <= n, k <= m
  PROVE  g[k] = h[k]
<1> DEFINE apart == {i \in Nat : i <= n /\ i <= m /\ g[i] # h[i]}
<1> SUFFICES ASSUME g[k] # h[k] PROVE FALSE
  OBVIOUS
<1>1. apart # {} /\ apart \in SUBSET Nat
  OBVIOUS
<1>2. PICK i \in apart : \A j \in apart : i <= j
  BY <1>1, LeastNumber, Zenon
<1>3. i \in Nat /\ i <= n /\ i <= m /\ g[i] # h[i]
  OBVIOUS
<1>4. i \in 0..n /\ i \in 0..m
  BY <1>3
<1>5. g[i] = Totals(i, g[i - 1]) /\ h[i] = Totals(i, h[i - 1])
  BY <1>4, PartIs
<1>6. i # 0
  <2> SUFFICES ASSUME i = 0 PROVE FALSE
    OBVIOUS
  <2>1. Totals(0, g[0 - 1]) = Totals(0, h[0 - 1])
    BY NoCalls
  <2> QED
    BY <2>1, <1>3, <1>5
<1>7. i - 1 \in Nat /\ i - 1 <= n /\ i - 1 <= m /\ ~ (i <= i - 1)
  BY <1>3, <1>6
<1>8. g[i - 1] = h[i - 1]
  BY <1>2, <1>7, Zenon
<1> QED
  BY <1>3, <1>5, <1>8, Zenon

(* each goes on by one more, *)
LEMMA PartExtends ==
  ASSUME NEW n \in Nat, NEW g, Part(g, n)
  PROVE  \E h : Part(h, n + 1)
<1> DEFINE h == [i \in 0..(n + 1) |-> IF i \in 0..n THEN g[i] ELSE Totals(n + 1, g[n])]
<1>1. ASSUME NEW i \in 0..(n + 1)
      PROVE  h[i] = Totals(i, h[i - 1])
  <2>1. CASE i = n + 1
    <3>1. n \in 0..(n + 1) /\ n \in 0..n /\ n + 1 \notin 0..n /\ i - 1 = n
      BY <2>1
    <3>2. h[i] = Totals(n + 1, g[n]) /\ h[n] = g[n]
      BY <2>1, <3>1, Zenon
    <3> QED
      BY <2>1, <3>1, <3>2, Zenon
  <2>2. CASE i = 0
    <3>1. i \in 0..n /\ i \in 0..(n + 1)
      BY <2>2
    <3>2. h[i] = g[i] /\ g[i] = Totals(i, g[i - 1])
      BY <3>1, PartIs, Zenon
    <3>3. Totals(0, g[i - 1]) = Totals(0, h[i - 1])
      BY NoCalls
    <3> QED
      BY <2>2, <3>2, <3>3, Zenon
  <2>3. CASE i # n + 1 /\ i # 0
    <3>1. i \in 0..n /\ i - 1 \in 0..n /\ i - 1 \in 0..(n + 1)
      BY <2>3
    <3>2. h[i] = g[i] /\ h[i - 1] = g[i - 1] /\ g[i] = Totals(i, g[i - 1])
      BY <3>1, PartIs, Zenon
    <3> QED
      BY <3>2, Zenon
  <2> QED
    BY <2>1, <2>2, <2>3
<1>2. h = [i \in 0..(n + 1) |-> h[i]]
  BY Zenon
<1>3. [i \in 0..(n + 1) |-> h[i]] = [i \in 0..(n + 1) |-> Totals(i, h[i - 1])]
  <2> HIDE DEF h
  <2> QED
    BY <1>1, Zenon
<1> HIDE DEF h
<1>4. h = [i \in 0..(n + 1) |-> Totals(i, h[i - 1])]
  BY <1>2, <1>3, Zenon
<1> QED
  BY <1>4 DEF Part

(* and there is one of every length. *)
LEMMA PartExists ==
  ASSUME NEW n \in Nat
  PROVE  \E g : Part(g, n)
<1> DEFINE without == {i \in Nat : \A g : ~Part(g, i)}
<1> SUFFICES ASSUME \A g : ~Part(g, n) PROVE FALSE
  OBVIOUS
<1>1. without # {} /\ without \in SUBSET Nat
  BY Zenon
<1>2. PICK i \in without : \A j \in without : i <= j
  BY <1>1, LeastNumber, Zenon
<1>3. i \in Nat /\ \A g : ~Part(g, i)
  BY Zenon
<1>4. i # 0
  <2> DEFINE g == [j \in 0..0 |-> Totals(0, 0)]
  <2>1. ASSUME NEW j \in 0..0
        PROVE  Totals(0, 0) = Totals(j, g[j - 1])
    <3>1. j = 0
      OBVIOUS
    <3> HIDE DEF g
    <3>2. Totals(0, 0) = Totals(0, g[j - 1])
      BY NoCalls
    <3> QED
      BY <3>1, <3>2, Zenon
  <2>2. g = [j \in 0..0 |-> Totals(j, g[j - 1])]
    BY <2>1, Zenon
  <2> HIDE DEF g
  <2>3. Part(g, 0)
    BY <2>2 DEF Part
  <2> QED
    BY <1>3, <2>3, Zenon
<1>5. i - 1 \in Nat /\ ~ (i <= i - 1) /\ i - 1 + 1 = i
  BY <1>3, <1>4
<1>6. PICK g : Part(g, i - 1)
  BY <1>2, <1>5, Zenon
<1>7. \E h : Part(h, i - 1 + 1)
  BY <1>5, <1>6, PartExtends
<1> QED
  BY <1>3, <1>5, <1>7

(* getTotal is what its definition says. *)
LEMMA TotalsAre == \A n \in Nat : getTotal[n] = Totals(n, getTotal[n - 1])
<1> DEFINE part(n) == CHOOSE g : Part(g, n)
           f == [n \in Nat |-> part(n)[n]]
<1>1. ASSUME NEW n \in Nat
      PROVE  f[n] = Totals(n, f[n - 1])
  <2>1. Part(part(n), n)
    BY PartExists, Zenon
  <2>2. n \in 0..n
    OBVIOUS
  <2>3. part(n)[n] = Totals(n, part(n)[n - 1])
    <3> HIDE DEF part
    <3> QED
      BY <2>1, <2>2, PartIs
  <2>4. f[n] = part(n)[n]
    BY Zenon
  <2>5. CASE n = 0
    <3>1. Totals(0, part(n)[n - 1]) = Totals(0, f[n - 1])
      <4> HIDE DEF part, f
      <4> QED
        BY NoCalls
    <3> HIDE DEF part, f
    <3> QED
      BY <2>3, <2>4, <2>5, <3>1, Zenon
  <2>6. CASE n # 0
    <3>1. n - 1 \in Nat /\ n - 1 <= n /\ n - 1 <= n - 1
      BY <2>6
    <3>2. Part(part(n - 1), n - 1)
      BY <3>1, PartExists, Zenon
    <3>3. part(n)[n - 1] = part(n - 1)[n - 1]
      <4> HIDE DEF part
      <4> QED
        BY <2>1, <3>1, <3>2, PartsAgree
    <3>4. f[n - 1] = part(n - 1)[n - 1]
      BY <3>1, Zenon
    <3> HIDE DEF part, f
    <3> QED
      BY <2>3, <2>4, <3>3, <3>4, Zenon
  <2> QED
    BY <2>5, <2>6
<1>2. f = [n \in Nat |-> Totals(n, f[n - 1])]
  <2> HIDE DEF part
  <2>1. \A n \in Nat : part(n)[n] = Totals(n, f[n - 1])
    BY <1>1, Zenon
  <2> QED
    BY <2>1, Zenon
<1> HIDE DEF f
<1>3. getTotal = [n \in Nat |-> Totals(n, getTotal[n - 1])]
  BY <1>2, Zenon DEF getTotal
<1> QED
  BY <1>3, Zenon

(* A loop that stops at its beginning ends there. *)
LEMMA LoopStays ==
  ASSUME NEW first, NEW root, NEW total, AfterTurn(first, root, total) = first
  PROVE  LET loop[n \in Nat] == IF n = 0 THEN first ELSE AfterTurn(loop[n - 1], root, total)
         IN  \A n \in Nat : loop[n] = first
<1> DEFINE loop[n \in Nat] == IF n = 0 THEN first ELSE AfterTurn(loop[n - 1], root, total)
           f == [n \in Nat |-> first]
<1>1. ASSUME NEW n \in Nat
      PROVE  first = (IF n = 0 THEN first ELSE AfterTurn(f[n - 1], root, total))
  <2>1. n # 0 => n - 1 \in Nat
    OBVIOUS
  <2> QED
    BY <2>1, Zenon
<1>2. f = [n \in Nat |-> IF n = 0 THEN first ELSE AfterTurn(f[n - 1], root, total)]
  BY <1>1, Zenon
<1>3. loop = [n \in Nat |-> IF n = 0 THEN first ELSE AfterTurn(loop[n - 1], root, total)]
  <2> HIDE DEF f
  <2> QED
    BY <1>2, Zenon
<1> HIDE DEF loop, f
<1>4. ASSUME NEW n \in Nat, loop[n] # first
      PROVE  FALSE
  <2> DEFINE apart == {i \in Nat : loop[i] # first}
  <2>1. apart # {} /\ apart \in SUBSET Nat
    BY <1>4, Zenon
  <2>2. PICK i \in apart : \A j \in apart : i <= j
    BY <2>1, LeastNumber, Zenon
  <2>3. i \in Nat /\ loop[i] # first
    BY Zenon
  <2>4. i # 0
    BY <1>3, <2>3, Zenon
  <2>5. i - 1 \in Nat /\ ~ (i <= i - 1)
    BY <2>3, <2>4
  <2>6. loop[i - 1] = first
    BY <2>2, <2>5, Zenon
  <2> QED
    BY <1>3, <2>3, <2>4, <2>6, Zenon
<1> QED
  BY <1>4, Zenon DEF loop
-----------------------------------------------------------------------------
(* The run that was watched succeeded. *)
Whole == Linked(ops) /\ Indexed /\ ops # <<>> /\ success /\ ops[Len(ops)].depth = 0

(* The types of its steps, the last of which ends the transaction. *)
LEMMA Typed ==
  ASSUME Whole
  PROVE  /\ Len(ops) \in Nat \ {0} /\ DOMAIN ops = 1..Len(ops)
         /\ \A p \in DOMAIN ops : /\ ops[p].op \in {"OP", "CALL", "STOP"} /\ ops[p].depth \in {0, 1}
                                  /\ ops[p].fee \in Nat /\ ops[p].gasLeft \in Nat
         /\ ops[Len(ops)].op = "STOP" /\ ops[Len(ops)].depth = 0
<1>1. ops \in Seq(Steps) /\ ops # <<>>
  BY DEF Whole, Linked
<1>2. Len(ops) \in Nat \ {0} /\ DOMAIN ops = 1..Len(ops)
  BY <1>1, LenProperties, EmptySeq
<1>3. \A p \in DOMAIN ops : ops[p] \in Steps
  BY <1>1, <1>2, ElementOfSeq
<1>4. ops[Len(ops)].op = "STOP" /\ ops[Len(ops)].depth = 0
  BY DEF Whole, success
<1> QED
  BY <1>2, <1>3, <1>4 DEF Steps

(* The parts of Linked, as they are used. *)
LEMMA Follows ==
  ASSUME Linked(ops), NEW p \in DOMAIN ops, p + 1 \in DOMAIN ops
  PROVE  /\ ops[p].op = "OP" => /\ ops[p + 1].depth = ops[p].depth
                                /\ ops[p + 1].gasLeft = ops[p].gasLeft - ops[p].fee
         /\ ops[p].op = "CALL" => /\ ops[p + 1].depth = 1 /\ ops[p].gasLeft >= ops[p].fee
                                  /\ ops[p + 1].gasLeft = Passed(ops[p].gasLeft - ops[p].fee)
         /\ ops[p].op = "STOP" => ops[p].depth = 1 /\ ops[p + 1].depth = 0
BY Zenon DEF Linked, Chained

(* Who is called by whom. *)
LEMMA IsNested ==
  ASSUME Linked(ops)
  PROVE  /\ \A p \in DOMAIN ops : ops[p].op # "STOP" => ops[p].fee >= 1
         /\ \A p \in DOMAIN ops : ops[p].op = "CALL" => ops[p].depth = 0
         /\ \A p \in DOMAIN ops : ops[p].depth = 1 => \E b \in DOMAIN ops : Encloses(ops, b, p)
         /\ \A b, p \in DOMAIN ops : Encloses(ops, b, p) => ops[p].depth = 1
BY Zenon DEF Linked, Nested

(* A contract that is called ends before the transaction does. *)
LEMMA CallEnds ==
  ASSUME Whole, NEW p \in DOMAIN ops, ops[p].depth = 1
  PROVE  \E e \in DOMAIN ops : /\ p <= e /\ e < Len(ops) /\ ops[e].op = "STOP"
                               /\ \A q \in p..(e - 1) : ops[q].op = "OP"
<1> DEFINE ends == {q \in p..Len(ops) : ops[q].op # "OP"}
<1>1. Len(ops) \in Nat /\ p \in Nat /\ DOMAIN ops = 1..Len(ops)
  BY Typed
<1>2. Len(ops) \in ends /\ ends \in SUBSET Nat
  BY <1>1, Typed
<1>3. PICK e \in ends : \A q \in ends : e <= q
  BY <1>2, LeastNumber, Zenon
<1>4. e \in Nat /\ p <= e /\ e <= Len(ops) /\ ops[e].op # "OP" /\ e \in DOMAIN ops
  BY <1>1
<1>5. \A q \in p..(e - 1) : ops[q].op = "OP"
  <2> TAKE q \in p..(e - 1)
  <2>1. q \in p..Len(ops) /\ ~ (e <= q)
    BY <1>1, <1>4
  <2> QED
    BY <1>3, <2>1
<1>6. PICK b \in DOMAIN ops : Encloses(ops, b, p)
  BY IsNested DEF Whole
<1>7. Encloses(ops, b, e)
  <2>1. b < p /\ ops[b].op = "CALL" /\ \A q \in (b + 1)..(p - 1) : ops[q].op = "OP"
    BY <1>6, Zenon DEF Encloses
  <2>2. b \in Nat
    BY <1>1
  <2>3. \A q \in (b + 1)..(e - 1) : q \in (b + 1)..(p - 1) \/ q \in p..(e - 1)
    BY <1>1, <1>4, <2>2
  <2>4. b < e
    BY <1>1, <1>4, <2>1, <2>2
  <2> QED
    BY <1>4, <1>5, <2>1, <2>3, <2>4, Zenon DEF Encloses
<1>8. ops[e].depth = 1
  BY <1>4, <1>7, IsNested, Zenon DEF Whole
<1>9. ops[e].op = "STOP"
  BY <1>4, <1>8, IsNested, Typed DEF Whole
<1>10. e < Len(ops)
  BY <1>1, <1>4, <1>8, Typed
<1> QED
  BY <1>4, <1>5, <1>9, <1>10

(* There is one such end, and it is the one that is chosen. *)
LEMMA OneEnd ==
  ASSUME Whole, NEW p \in DOMAIN ops, NEW e \in DOMAIN ops, p <= e, ops[e].op = "STOP",
         \A q \in p..(e - 1) : ops[q].op = "OP"
  PROVE  EndOf(p) = e
<1>1. p \in Nat /\ DOMAIN ops \subseteq Nat
  BY Typed
<1>2. ASSUME NEW f \in DOMAIN ops, p <= f, ops[f].op = "STOP",
             \A q \in p..(f - 1) : ops[q].op = "OP"
      PROVE  f = e
  <2>1. CASE f < e
    <3>1. f \in p..(e - 1)
      BY <1>1, <1>2, <2>1
    <3> QED
      BY <1>2, <3>1
  <2>2. CASE e < f
    <3>1. e \in p..(f - 1)
      BY <1>1, <1>2, <2>2
    <3> QED
      BY <1>2, <3>1
  <2> QED
    BY <1>1, <2>1, <2>2
<1> QED
  BY <1>2, Zenon DEF EndOf

(* Where the contract ends that a step belongs to. *)
LEMMA EndOfIs ==
  ASSUME Whole, NEW p \in DOMAIN ops, ops[p].depth = 1
  PROVE  /\ EndOf(p) \in DOMAIN ops /\ p <= EndOf(p) /\ EndOf(p) < Len(ops)
         /\ ops[EndOf(p)].op = "STOP"
         /\ \A q \in p..(EndOf(p) - 1) : ops[q].op = "OP"
<1>1. PICK e \in DOMAIN ops : /\ p <= e /\ e < Len(ops) /\ ops[e].op = "STOP"
                              /\ \A q \in p..(e - 1) : ops[q].op = "OP"
  BY CallEnds
<1>2. EndOf(p) = e
  BY <1>1, OneEnd
<1> QED
  BY <1>1, <1>2, Zenon

(* A call: what is passed to it, where it ends, what it costs, and what is left then. *)
LEMMA CallIs ==
  ASSUME Whole, NEW b \in DOMAIN ops, ops[b].op = "CALL"
  PROVE  LET e == EndOf(b + 1) IN
         /\ b + 1 \in DOMAIN ops /\ e \in DOMAIN ops /\ e + 1 \in DOMAIN ops /\ b + 1 <= e
         /\ ops[b].depth = 0 /\ ops[b + 1].depth = 1 /\ ops[e].op = "STOP" /\ ops[e].depth = 1
         /\ ops[e + 1].depth = 0
         /\ ops[b].gasLeft - ops[b].fee \in Nat
         /\ ops[b + 1].gasLeft = Passed(ops[b].gasLeft - ops[b].fee)
         /\ Cost(b) = ops[b + 1].gasLeft - ops[e].gasLeft /\ Cost(b) \in Nat
         /\ ops[e + 1].gasLeft = ops[b].gasLeft - ops[b].fee - Cost(b)
         /\ Encloses(ops, b, e)
         /\ \A q \in (b + 1)..(e - 1) : ops[q].op = "OP"
<1> DEFINE e == EndOf(b + 1)
<1>1. Len(ops) \in Nat /\ b \in Nat /\ DOMAIN ops = 1..Len(ops) /\ b # Len(ops)
  BY Typed
<1>2. b + 1 \in DOMAIN ops
  BY <1>1
<1>3. Linked(ops)
  BY DEF Whole
<1>4. /\ ops[b + 1].depth = 1 /\ ops[b].gasLeft >= ops[b].fee
      /\ ops[b + 1].gasLeft = Passed(ops[b].gasLeft - ops[b].fee) /\ ops[b].depth = 0
  BY <1>2, <1>3, Follows, IsNested, Zenon
<1>5. /\ e \in DOMAIN ops /\ b + 1 <= e /\ e < Len(ops) /\ ops[e].op = "STOP"
      /\ \A q \in (b + 1)..(e - 1) : ops[q].op = "OP"
  BY <1>2, <1>4, EndOfIs
<1> HIDE DEF e
<1>6. e + 1 \in DOMAIN ops /\ b < e
  BY <1>1, <1>5
<1>7. Encloses(ops, b, e)
  BY <1>5, <1>6, Zenon DEF Encloses
<1>8. ops[e].depth = 1
  BY <1>3, <1>5, <1>7, IsNested, Zenon
<1>9. ops[e + 1].depth = 0
  BY <1>3, <1>5, <1>6, Follows, Zenon
<1>10. ops[e + 1].gasLeft = ops[b].gasLeft - ops[b].fee - ops[b + 1].gasLeft + ops[e].gasLeft
  BY <1>3, <1>5, <1>6, <1>7, Zenon DEF Linked, GivenBack
<1>11. /\ ops[b].gasLeft \in Nat /\ ops[b].fee \in Nat /\ ops[e].gasLeft \in Nat
       /\ ops[b + 1].gasLeft \in Nat /\ ops[e].fee \in Nat /\ ops[b + 1].fee \in Nat
  BY <1>2, <1>5, Typed, Zenon
<1>12. ops[b + 1].gasLeft >= ops[e].gasLeft
  <2>1. CASE b + 1 = e
    BY <2>1, <1>11
  <2>2. CASE b + 1 # e
    <3>1. b + 1 < e /\ e \in Nat
      BY <2>2, <1>5, <1>1
    <3>2. ops[b + 1].gasLeft >= ops[e].gasLeft + ops[b + 1].fee
      BY <1>2, <1>3, <1>5, <3>1, Zenon DEF Linked, Falling
    <3> QED
      BY <1>11, <3>2
  <2> QED
    BY <2>1, <2>2
<1>13. Cost(b) = ops[b + 1].gasLeft - ops[e].gasLeft
  BY Zenon DEF Cost, e
<1>14. Cost(b) \in Nat /\ ops[e + 1].gasLeft = ops[b].gasLeft - ops[b].fee - Cost(b)
  BY <1>10, <1>11, <1>12, <1>13
<1>15. ops[b].gasLeft - ops[b].fee \in Nat
  BY <1>4, <1>11
<1> QED
  BY <1>2, <1>4, <1>5, <1>6, <1>7, <1>8, <1>9, <1>13, <1>14, <1>15, Zenon DEF e

(* The terminator of a call belongs to one. *)
LEMMA CallOf ==
  ASSUME Whole, NEW e \in DOMAIN ops, ops[e].op = "STOP", ops[e].depth = 1
  PROVE  \E b \in DOMAIN ops : ops[b].op = "CALL" /\ b < e /\ EndOf(b + 1) = e
<1>1. PICK b \in DOMAIN ops : Encloses(ops, b, e)
  BY IsNested, Zenon DEF Whole
<1>2. /\ b < e /\ ops[b].op = "CALL"
      /\ \A q \in (b + 1)..(e - 1) : ops[q].op = "OP"
  BY <1>1, Zenon DEF Encloses
<1>3. Len(ops) \in Nat /\ b \in Nat /\ e \in Nat /\ DOMAIN ops = 1..Len(ops)
  BY Typed
<1>4. b + 1 \in DOMAIN ops /\ b + 1 <= e
  BY <1>2, <1>3
<1>5. EndOf(b + 1) = e
  BY <1>2, <1>4, OneEnd
<1> QED
  BY <1>2, <1>5

(* The step with the least gas, but the last, ends a call. *)
LEMMA LowestEnds ==
  ASSUME Whole, NEW p \in DOMAIN ops, NEW e \in DOMAIN ops, p <= e, e # Len(ops),
         \A q \in p..Len(ops) : ops[e].gasLeft <= ops[q].gasLeft
  PROVE  ops[e].op = "STOP" /\ ops[e].depth = 1
<1>1. Len(ops) \in Nat /\ p \in Nat /\ e \in Nat /\ DOMAIN ops = 1..Len(ops) /\ Linked(ops)
  BY Typed DEF Whole
<1>2. e + 1 \in DOMAIN ops /\ e + 1 \in p..Len(ops)
  BY <1>1
<1>3. ops[e].gasLeft <= ops[e + 1].gasLeft
  BY <1>2
<1>4. /\ ops[e].gasLeft \in Nat /\ ops[e].fee \in Nat /\ ops[e + 1].gasLeft \in Nat
      /\ ops[e].op \in {"OP", "CALL", "STOP"}
  BY <1>2, Typed
<1>5. ops[e].op # "STOP" => ops[e].fee >= 1
  BY <1>1, IsNested
<1>6. ops[e].op # "OP"
  BY <1>1, <1>2, <1>3, <1>4, <1>5, Follows
<1>7. ASSUME ops[e].op = "CALL"
      PROVE  FALSE
  <2>1. ops[e].gasLeft >= ops[e].fee /\ ops[e + 1].gasLeft = Passed(ops[e].gasLeft - ops[e].fee)
    BY <1>1, <1>2, <1>7, Follows
  <2>2. ops[e].gasLeft - ops[e].fee \in Nat /\ ops[e].fee >= 1
    BY <1>4, <1>5, <1>7, <2>1
  <2>3. Passed(ops[e].gasLeft - ops[e].fee) <= ops[e].gasLeft - ops[e].fee
    BY <2>2, PassedIsLess
  <2> QED
    BY <1>3, <1>4, <2>1, <2>2, <2>3
<1>8. ops[e].op = "STOP"
  BY <1>4, <1>6, <1>7
<1> QED
  BY <1>1, <1>2, <1>8, Follows, Zenon
-----------------------------------------------------------------------------
(* The system operations are where their places say, in their order. *)
LEMMA PlacesAre ==
  ASSUME Whole
  PROVE  /\ Len(systemOps) \in Nat /\ DOMAIN systemOps = 1..Len(systemOps)
         /\ \A i \in DOMAIN systemOps : systemOps[i] \in DOMAIN ops /\ ops[systemOps[i]].op # "OP"
         /\ \A i, j \in DOMAIN systemOps : i < j <=> systemOps[i] < systemOps[j]
         /\ \A p \in DOMAIN ops : ops[p].op # "OP" => \E i \in DOMAIN systemOps : systemOps[i] = p
<1>1. Indexed
  BY DEF Whole
<1>2. systemOps \in Seq(DOMAIN ops)
  BY <1>1 DEF Indexed
<1>3. Len(systemOps) \in Nat /\ DOMAIN systemOps = 1..Len(systemOps)
  BY <1>2, LenProperties
<1>4. \A i \in DOMAIN systemOps : systemOps[i] \in DOMAIN ops
  BY <1>2, <1>3, ElementOfSeq
<1>5. \A i \in DOMAIN systemOps : ops[systemOps[i]].op # "OP"
  BY <1>1, <1>4, Zenon DEF Indexed
<1>6. \A p \in DOMAIN ops : ops[p].op # "OP" => \E i \in DOMAIN systemOps : systemOps[i] = p
  BY <1>1, Zenon DEF Indexed
<1>7. \A i, j \in DOMAIN systemOps : i < j => systemOps[i] < systemOps[j]
  BY <1>1, Zenon DEF Indexed
<1>8. DOMAIN ops \subseteq Nat
  BY Typed
<1>9. \A i, j \in DOMAIN systemOps : systemOps[i] < systemOps[j] => i < j
  <2> SUFFICES ASSUME NEW i \in DOMAIN systemOps, NEW j \in DOMAIN systemOps,
                      systemOps[i] < systemOps[j]
               PROVE  i < j
    OBVIOUS
  <2>1. systemOps[i] \in Nat /\ systemOps[j] \in Nat /\ i \in Nat /\ j \in Nat
    BY <1>3, <1>4, <1>8
  <2>2. ~(j < i) /\ j # i
    <3>1. ASSUME j < i PROVE FALSE
      <4>1. systemOps[j] < systemOps[i]
        BY <1>7, <3>1, Zenon
      <4> QED
        BY <2>1, <4>1
    <3>2. j # i
      BY <2>1
    <3> QED
      BY <3>1, <3>2
  <2> QED
    BY <2>1, <2>2
<1> QED
  BY <1>3, <1>4, <1>5, <1>6, <1>7, <1>9, Zenon

(* Where the system operations of a call are. *)
LEMMA PlacesOfCall ==
  ASSUME Whole, NEW b \in DOMAIN ops, ops[b].op = "CALL"
  PROVE  \E k \in DOMAIN systemOps :
           /\ k > 1 /\ k - 1 \in DOMAIN systemOps /\ k + 1 \in DOMAIN systemOps
           /\ systemOps[k] = EndOf(b + 1) /\ systemOps[k - 1] = b
           /\ Depth(k) = 1 /\ Depth(k - 1) = 0 /\ Depth(k + 1) = 0
           /\ PositionOf(EndOf(b + 1)) = k
<1> DEFINE e == EndOf(b + 1)
<1>1. /\ e \in DOMAIN ops /\ ops[e].op = "STOP" /\ ops[e].depth = 1 /\ ops[b].depth = 0
      /\ b + 1 <= e /\ \A q \in (b + 1)..(e - 1) : ops[q].op = "OP"
  BY CallIs, Zenon
<1> HIDE DEF e
<1>2. /\ Len(ops) \in Nat /\ DOMAIN ops = 1..Len(ops) /\ ops # <<>> /\ Len(ops) \in DOMAIN ops
      /\ ops[Len(ops)].op = "STOP" /\ ops[Len(ops)].depth = 0 /\ b \in Nat /\ e \in Nat
  BY <1>1, Typed DEF Whole
<1>3. PICK k \in DOMAIN systemOps : systemOps[k] = e
  <2>1. ops[e].op # "OP"
    BY <1>1
  <2> QED
    BY <1>1, <2>1, PlacesAre, Zenon
<1>4. PICK j \in DOMAIN systemOps : systemOps[j] = b
  <2>1. ops[b].op # "OP"
    OBVIOUS
  <2> QED
    BY <2>1, PlacesAre, Zenon
<1>5. PICK l \in DOMAIN systemOps : systemOps[l] = Len(ops)
  <2>1. ops[Len(ops)].op # "OP"
    BY <1>2
  <2> QED
    BY <1>2, <2>1, PlacesAre, Zenon
<1>6. /\ Len(systemOps) \in Nat /\ DOMAIN systemOps = 1..Len(systemOps)
      /\ k \in Nat /\ j \in Nat /\ l \in Nat
  BY PlacesAre
<1>7. j < k
  <2>1. b < e
    BY <1>1, <1>2
  <2> QED
    BY <1>3, <1>4, <2>1, PlacesAre
<1>8. k < l
  <2>1. e < Len(ops)
    BY <1>1, <1>2
  <2> QED
    BY <1>3, <1>5, <2>1, PlacesAre
<1>9. j = k - 1
  <2> SUFFICES ASSUME j # k - 1 PROVE FALSE
    OBVIOUS
  <2>1. j + 1 \in DOMAIN systemOps /\ j < j + 1 /\ j + 1 < k
    BY <1>6, <1>7
  <2>2. b < systemOps[j + 1] /\ systemOps[j + 1] < e
    BY <1>3, <1>4, <2>1, PlacesAre
  <2>3. systemOps[j + 1] \in DOMAIN ops /\ ops[systemOps[j + 1]].op # "OP"
    BY <2>1, PlacesAre
  <2>4. systemOps[j + 1] \in (b + 1)..(e - 1)
    BY <1>2, <2>2, <2>3
  <2> QED
    BY <1>1, <2>3, <2>4
<1>10. k + 1 \in DOMAIN systemOps /\ k < k + 1
  BY <1>6, <1>8
<1>11. Depth(k + 1) = 0
  <2> DEFINE q == systemOps[k + 1]
  <2>1. q \in DOMAIN ops /\ e < q
    BY <1>3, <1>10, PlacesAre
  <2> HIDE DEF q
  <2> SUFFICES ASSUME ops[q].depth # 0 PROVE FALSE
    BY DEF Depth, q
  <2>2. ops[q].depth = 1
    BY <2>1, Typed
  <2>3. PICK c \in DOMAIN ops : Encloses(ops, c, q)
    BY <2>1, <2>2, IsNested, Zenon DEF Whole
  <2>4. c < q /\ ops[c].op = "CALL" /\ \A r \in (c + 1)..(q - 1) : ops[r].op = "OP"
    BY <2>3, Zenon DEF Encloses
  <2>5. ops[c].op # "OP"
    BY <2>4
  <2>6. PICK i \in DOMAIN systemOps : systemOps[i] = c
    BY <2>5, PlacesAre, Zenon
  <2>7. i < k + 1
    BY <1>10, <2>4, <2>6, PlacesAre DEF q
  <2>8. c < e
    <3>1. c # e
      BY <1>1, <2>4
    <3>2. i # k
      BY <1>3, <2>6, <3>1
    <3>3. i < k
      BY <1>6, <2>7, <3>2
    <3> QED
      BY <1>3, <2>6, <3>3, PlacesAre
  <2>9. e \in (c + 1)..(q - 1)
    BY <1>2, <2>1, <2>8
  <2> QED
    BY <1>1, <2>4, <2>9
<1>12. Depth(k) = 1 /\ Depth(k - 1) = 0
  BY <1>1, <1>3, <1>4, <1>9 DEF Depth
<1>13. PositionOf(e) = k
  <2>1. \A i \in DOMAIN systemOps : systemOps[i] = e => i = k
    <3> SUFFICES ASSUME NEW i \in DOMAIN systemOps, systemOps[i] = e PROVE i = k
      OBVIOUS
    <3>1. ~(i < k) /\ ~(k < i)
      BY <1>2, <1>3, PlacesAre
    <3> QED
      BY <1>6, <3>1
  <2> QED
    BY <1>3, <2>1, Zenon DEF PositionOf
<1>14. k > 1 /\ k - 1 \in DOMAIN systemOps
  BY <1>4, <1>6, <1>9
<1> QED
  BY <1>3, <1>4, <1>9, <1>10, <1>11, <1>12, <1>13, <1>14, Zenon DEF e

(* The greatest is what all others are not above, *)
LEMMA MaxIs ==
  ASSUME NEW T \in SUBSET Int, NEW x \in T, \A y \in T : x >= y
  PROVE  Max(T) = x
<1>1. \A z \in T : (\A y \in T : z >= y) => z = x
  OBVIOUS
<1> QED
  BY <1>1 DEF Max

(* and the least what none is below. *)
LEMMA MinIs ==
  ASSUME NEW T \in SUBSET Int, NEW x \in T, \A y \in T : x <= y
  PROVE  Min(T) = x
<1>1. \A z \in T : (\A y \in T : z <= y) => z = x
  OBVIOUS
<1> QED
  BY <1>1 DEF Min

(* The scope of a call that calls nothing. *)
LEMMA ScopeIs ==
  ASSUME Whole, NEW k \in DOMAIN systemOps, k > 1, k - 1 \in DOMAIN systemOps,
         k + 1 \in DOMAIN systemOps, Depth(k) = 1, Depth(k - 1) = 0, Depth(k + 1) = 0
  PROVE  Scope(k, 1) = [begin |-> systemOps[k - 1], end |-> systemOps[k] + 1]
<1> DEFINE outer == {i \in DOMAIN systemOps : Depth(i) < 1}
<1>1. Len(systemOps) \in Nat /\ DOMAIN systemOps = 1..Len(systemOps)
  BY PlacesAre
<1>2. k - 1 \in outer /\ k + 1 \in outer /\ k \notin outer /\ outer \subseteq 1..Len(systemOps)
  BY <1>1
<1> HIDE DEF outer
<1> DEFINE before == {1} \cup {i \in outer : i <= k}
           behind == {Len(systemOps) + 1} \cup {i \in outer : i >= k}
<1>3. /\ k \in Int /\ k - 1 \in before /\ k + 1 \in behind
      /\ \A y \in before : y \in Int /\ k - 1 >= y
      /\ \A y \in behind : y \in Int /\ k + 1 <= y
  BY <1>1, <1>2
<1>4. Scope(k, 1) = [begin |-> systemOps[Max(before)], end |-> systemOps[Min(behind) - 1] + 1]
  BY DEF Scope, outer
<1> HIDE DEF before, behind
<1>5. Max(before) = k - 1 /\ Min(behind) = k + 1
  <2>1. before \in SUBSET Int /\ behind \in SUBSET Int
    BY <1>3
  <2> QED
    BY <1>3, <2>1, MaxIs, MinIs, Zenon
<1>6. Min(behind) - 1 = k
  BY <1>3, <1>5
<1> QED
  BY <1>4, <1>5, <1>6

(* The loop ends at once: the call is its own root scope. *)
LEMMA NothingInside ==
  ASSUME NEW k, Depth(k) = 1, NEW total, Len(systemOps) \in Nat
  PROVE  systemOpSum(k, total) = 0
<1> DEFINE first == [k |-> k, parent |-> findParentScope(k), sum |-> 0]
           root == findRootScope(k)
<1>1. root = first.parent /\ first.sum = 0
  BY DEF findRootScope, findParentScope
<1>2. AfterTurn(first, root, total) = first
  <2> HIDE DEF first, root
  <2> QED
    BY <1>1, Zenon DEF AfterTurn
<1>3. LET loop[n \in Nat] == IF n = 0 THEN first ELSE AfterTurn(loop[n - 1], root, total)
      IN  \A n \in Nat : loop[n] = first
  <2> HIDE DEF first, root
  <2> QED
    BY <1>2, LoopStays
<1>4. LET loop[n \in Nat] == IF n = 0 THEN first ELSE AfterTurn(loop[n - 1], root, total)
      IN  loop[Len(systemOps)].sum = 0
  BY <1>1, <1>3, Zenon
<1> QED
  BY <1>4, Zenon DEF systemOpSum

(* What a range needs is its call with the 64th held back, or with what follows. *)
LEMMA TotalAroundIs ==
  ASSUME Whole, NEW b \in DOMAIN ops, ops[b].op = "CALL", NEW p \in DOMAIN ops, NEW stop,
         NEW total, NEW r \in Nat, total[EndOf(b + 1) + 1][stop] = r
  PROVE  TotalAround(EndOf(b + 1), p, stop, total) =
           ops[p].gasLeft - ops[b].gasLeft + ops[b].fee + Cost(b)
             + (IF Cost(b) \div 63 > r THEN Cost(b) \div 63 ELSE r)
<1> DEFINE e == EndOf(b + 1)
           c == Cost(b)
<1>1. PICK k \in DOMAIN systemOps :
           /\ k > 1 /\ k - 1 \in DOMAIN systemOps /\ k + 1 \in DOMAIN systemOps
           /\ systemOps[k] = e /\ systemOps[k - 1] = b
           /\ Depth(k) = 1 /\ Depth(k - 1) = 0 /\ Depth(k + 1) = 0
           /\ PositionOf(e) = k
  BY PlacesOfCall
<1>2. /\ e \in DOMAIN ops /\ e + 1 \in DOMAIN ops /\ c \in Nat
      /\ ops[e + 1].gasLeft = ops[b].gasLeft - ops[b].fee - c
  BY CallIs, Zenon
<1>3. ops[b].gasLeft \in Nat /\ ops[b].fee \in Nat /\ ops[p].gasLeft \in Nat
  BY Typed, Zenon
<1> HIDE DEF e, c
<1>4. findRootScope(k) = [begin |-> b, end |-> e + 1]
  BY <1>1, ScopeIs, Zenon DEF findRootScope
<1>5. findRootScope(k).begin = b /\ findRootScope(k).end = e + 1
  BY <1>4
<1>6. systemOpSum(k, total) = 0
  BY <1>1, NothingInside, PlacesAre, Zenon
<1>7. ~ \A i \in DOMAIN systemOps : systemOps[i] # e
  BY <1>1, Zenon
<1>8. 0 # Throws /\ r # Throws
  BY EstimateAssumption
<1> DEFINE held == neededBefore6364(c) - c
           most == neededBefore6364(c) + ops[b].fee + sumRange(p, b)
<1>9. sumRange(b, e + 1) - ops[b].fee = c
  BY <1>2, <1>3 DEF sumRange
<1>10. TotalAround(e, p, stop, total) = IF held > r THEN most ELSE most - held + r
  <2>1. total[e + 1][stop] = r
    BY Zenon DEF e
  <2> QED
    BY <1>1, <1>5, <1>6, <1>7, <1>8, <1>9, <2>1, Zenon DEF TotalAround
<1>11. neededBefore6364(c) = c + c \div 63 /\ sumRange(p, b) = ops[p].gasLeft - ops[b].gasLeft
  BY DEF neededBefore6364, sumRange
<1>12. c \div 63 \in Nat
  BY <1>2
<1>13. held = c \div 63
  BY <1>2, <1>11, <1>12
<1>14. most = ops[p].gasLeft - ops[b].gasLeft + ops[b].fee + c + c \div 63
  BY <1>2, <1>3, <1>11, <1>12
<1>15. most - held + r = ops[p].gasLeft - ops[b].gasLeft + ops[b].fee + c + r
  BY <1>2, <1>3, <1>12, <1>13, <1>14
<1> HIDE DEF held, most
<1> QED
  BY <1>10, <1>13, <1>14, <1>15, Zenon DEF e, c
-----------------------------------------------------------------------------
(* Enough for a call: what it costs is passed to it, and what then is left is enough. *)
LEMMA EnoughOfCall ==
  ASSUME Whole, NEW p \in DOMAIN ops, NEW b \in DOMAIN ops, p <= b, ops[b].op = "CALL",
         NEW g \in Int
  PROVE  LET s == g - (ops[p].gasLeft - ops[b].gasLeft) - ops[b].fee IN
         Enough(p, g) <=>
           /\ \A a \in DOMAIN ops : a >= p /\ a < b /\ ops[a].op = "CALL" =>
                Passed(g - (ops[p].gasLeft - ops[a].gasLeft) - ops[a].fee) >= Cost(a)
           /\ Passed(s) >= Cost(b)
           /\ Enough(EndOf(b + 1) + 1, s - Cost(b))
<1> DEFINE e == EndOf(b + 1)
           c == Cost(b)
           s == g - (ops[p].gasLeft - ops[b].gasLeft) - ops[b].fee
           Pays(a) == Passed(g - (ops[p].gasLeft - ops[a].gasLeft) - ops[a].fee) >= Cost(a)
           PaysAfter(a) ==
             Passed(s - c - (ops[e + 1].gasLeft - ops[a].gasLeft) - ops[a].fee) >= Cost(a)
           n == Len(ops)
<1>1. /\ b + 1 \in DOMAIN ops /\ e \in DOMAIN ops /\ e + 1 \in DOMAIN ops /\ b + 1 <= e
      /\ c \in Nat /\ ops[e + 1].gasLeft = ops[b].gasLeft - ops[b].fee - c
      /\ \A q \in (b + 1)..(e - 1) : ops[q].op = "OP"
      /\ ops[e].op = "STOP"
  BY CallIs, Zenon
<1> HIDE DEF e, c
<1>2. n \in Nat /\ DOMAIN ops = 1..n /\ n \in DOMAIN ops
  BY Typed
<1>3. \A a \in DOMAIN ops : a \in Nat /\ ops[a].gasLeft \in Nat /\ ops[a].fee \in Nat
  BY Typed
<1>4. /\ ops[p].gasLeft \in Nat /\ ops[b].gasLeft \in Nat /\ ops[b].fee \in Nat
       /\ ops[n].gasLeft \in Nat /\ ops[e + 1].gasLeft \in Nat
  BY <1>1, <1>2, <1>3, Zenon
<1>12. s - c - (ops[e + 1].gasLeft - ops[n].gasLeft) = g - (ops[p].gasLeft - ops[n].gasLeft)
  <2> HIDE DEF n
  <2> QED
    BY <1>1, <1>4
<1>5. ASSUME NEW a \in DOMAIN ops
      PROVE  s - c - (ops[e + 1].gasLeft - ops[a].gasLeft) - ops[a].fee
               = g - (ops[p].gasLeft - ops[a].gasLeft) - ops[a].fee
  BY <1>1, <1>3
<1>6. \A a \in DOMAIN ops : PaysAfter(a) <=> Pays(a)
  BY <1>5, Zenon
<1>7. Pays(b) <=> Passed(s) >= c
  BY Zenon DEF c
<1>8. s - c >= ops[e + 1].gasLeft - ops[n].gasLeft <=> g >= ops[p].gasLeft - ops[n].gasLeft
  <2> HIDE DEF n
  <2> QED
    BY <1>1, <1>4
<1>9. ASSUME NEW a \in DOMAIN ops, ops[a].op = "CALL"
      PROVE  (a >= p) <=> ((a >= p /\ a < b) \/ a = b \/ a >= e + 1)
  <2>1. a \notin (b + 1)..(e - 1) /\ a # e
    BY <1>1, <1>9
  <2>2. a \in Nat /\ b \in Nat /\ e \in Nat /\ p \in Nat
    BY <1>1, <1>3
  <2> QED
    BY <1>1, <2>1, <2>2
<1>10. Enough(p, g) <=> /\ g >= ops[p].gasLeft - ops[n].gasLeft
                        /\ \A a \in DOMAIN ops : a >= p /\ ops[a].op = "CALL" => Pays(a)
  BY Zenon DEF Enough
<1>11. Enough(e + 1, s - c) <=>
         /\ s - c >= ops[e + 1].gasLeft - ops[n].gasLeft
         /\ \A a \in DOMAIN ops : a >= e + 1 /\ ops[a].op = "CALL" => PaysAfter(a)
  BY Zenon DEF Enough
<1> HIDE DEF s, n
<1>13. Enough(p, g) <=>
         /\ \A a \in DOMAIN ops : a >= p /\ a < b /\ ops[a].op = "CALL" => Pays(a)
         /\ Passed(s) >= c
         /\ Enough(e + 1, s - c)
  <2> HIDE DEF Pays, PaysAfter
  <2> QED
    BY <1>6, <1>7, <1>8, <1>9, <1>10, <1>11, Zenon
<1> QED
  BY <1>13, Zenon DEF e, c, s

(* All that is used is enough where the last step has the least. *)
LEMMA NearLast ==
  ASSUME Whole, NEW p \in DOMAIN ops,
         \A q \in p..Len(ops) : ops[Len(ops)].gasLeft <= ops[q].gasLeft
  PROVE  Near(p, ops[p].gasLeft - ops[Len(ops)].gasLeft)
<1> DEFINE n == Len(ops)
           t == ops[p].gasLeft - ops[n].gasLeft
<1>1. n \in Nat /\ DOMAIN ops = 1..n /\ n \in DOMAIN ops /\ p \in Nat
  BY Typed
<1>2. \A a \in DOMAIN ops : a \in Nat /\ ops[a].gasLeft \in Nat /\ ops[a].fee \in Nat
  BY Typed
<1>3. t \in Nat
  BY <1>1, <1>2
<1>4. ASSUME NEW g \in Int, g > t, NEW b \in DOMAIN ops, b >= p, ops[b].op = "CALL"
      PROVE  Passed(g - (ops[p].gasLeft - ops[b].gasLeft) - ops[b].fee) >= Cost(b)
  <2> DEFINE r == ops[b].gasLeft - ops[b].fee
             l == ops[n].gasLeft
             s == g - (ops[p].gasLeft - ops[b].gasLeft) - ops[b].fee
             f == ops[EndOf(b + 1)].gasLeft
  <2>1. /\ EndOf(b + 1) \in DOMAIN ops /\ b + 1 <= EndOf(b + 1)
        /\ r \in Nat /\ Cost(b) = Passed(r) - f
    BY <1>4, CallIs, Zenon
  <2>2. EndOf(b + 1) \in p..n
    BY <1>1, <1>2, <1>4, <2>1
  <2>3. l <= f /\ f \in Nat /\ l \in Nat
    BY <1>1, <1>2, <2>1, <2>2
  <2>8. /\ ops[p].gasLeft \in Nat /\ ops[b].gasLeft \in Nat /\ ops[b].fee \in Nat
        /\ ops[n].gasLeft \in Nat
    BY <1>1, <1>2, Zenon
  <2>4. r - l <= s /\ r - l \in Int /\ s \in Int
    <3> DEFINE gp == ops[p].gasLeft
               gb == ops[b].gasLeft
               fb == ops[b].fee
    <3>1. g > gp - l
      BY <1>4
    <3>2. r = gb - fb /\ s = g - (gp - gb) - fb
      OBVIOUS
    <3>3. gp \in Nat /\ gb \in Nat /\ fb \in Nat /\ l \in Nat
      BY <2>8
    <3> HIDE DEF gp, gb, fb, l, r, s
    <3> QED
      BY <3>1, <3>2, <3>3
  <2> HIDE DEF r, l, s, f
  <2>5. Passed(r - l) <= Passed(s) /\ Passed(r - l) \in Int /\ Passed(s) \in Int
    BY <2>4, PassedMonotone
  <2>6. Passed(r - l) >= Passed(r) - l /\ Passed(r) \in Nat
    BY <2>1, <2>3, PassedOfLess, PassedIsLess
  <2>7. Passed(s) >= Cost(b)
    BY <2>1, <2>3, <2>5, <2>6
  <2> QED
    BY <2>7 DEF s
<1>5. ASSUME NEW g \in Int, g > t
      PROVE  Enough(p, g)
  <2>1. g >= t
    BY <1>3, <1>5
  <2> HIDE DEF t
  <2>2. \A b \in DOMAIN ops : b >= p /\ ops[b].op = "CALL" =>
          Passed(g - (ops[p].gasLeft - ops[b].gasLeft) - ops[b].fee) >= Cost(b)
    BY <1>4, <1>5
  <2> QED
    BY <2>1, <2>2, Zenon DEF Enough, t
<1>6. ASSUME NEW g \in Int, Enough(p, g)
      PROVE  g >= t - 1
  <2>1. g >= t
    BY <1>6, Zenon DEF Enough
  <2> QED
    BY <1>3, <2>1
<1> HIDE DEF t
<1>7. Near(p, t)
  BY <1>3, <1>5, <1>6 DEF Near
<1> QED
  BY <1>7 DEF t

(* What follows a call with the least gas is estimated: so is what begins before it. *)
LEMMA NearAround ==
  ASSUME Whole, NEW p \in DOMAIN ops, ops[p].depth = 0,
         NEW b \in DOMAIN ops, p <= b, ops[b].op = "CALL",
         \A q \in p..Len(ops) : ops[EndOf(b + 1)].gasLeft <= ops[q].gasLeft,
         NEW r, Near(EndOf(b + 1) + 1, r)
  PROVE  Near(p, ops[p].gasLeft - ops[b].gasLeft + ops[b].fee + Cost(b)
                   + (IF Cost(b) \div 63 > r THEN Cost(b) \div 63 ELSE r))
<1> DEFINE e == EndOf(b + 1)
           c == Cost(b)
           m == IF c \div 63 > r THEN c \div 63 ELSE r
           t == ops[p].gasLeft - ops[b].gasLeft + ops[b].fee + c + m
           n == Len(ops)
           S(g) == g - (ops[p].gasLeft - ops[b].gasLeft) - ops[b].fee
           left == ops[b].gasLeft - ops[b].fee
<1>1. /\ b + 1 \in DOMAIN ops /\ e \in DOMAIN ops /\ e + 1 \in DOMAIN ops /\ b + 1 <= e
      /\ c \in Nat /\ c = Passed(left) - ops[e].gasLeft /\ left \in Nat /\ ops[b].depth = 0
  <2>1. /\ b + 1 \in DOMAIN ops /\ e \in DOMAIN ops /\ e + 1 \in DOMAIN ops /\ b + 1 <= e
        /\ ops[b].depth = 0
    BY CallIs, Zenon
  <2>2. c \in Nat /\ left \in Nat
    BY CallIs, Zenon
  <2>3. ops[b + 1].gasLeft = Passed(left) /\ c = ops[b + 1].gasLeft - ops[e].gasLeft
    BY CallIs, Zenon
  <2> QED
    BY <2>1, <2>2, <2>3, Zenon
<1> HIDE DEF e, c
<1>2. n \in Nat /\ DOMAIN ops = 1..n /\ p \in Nat /\ b \in Nat
  BY Typed
<1>3. \A a \in DOMAIN ops : a \in Nat /\ ops[a].gasLeft \in Nat /\ ops[a].fee \in Nat
  BY Typed
<1>4. r \in Nat /\ Near(e + 1, r)
  BY DEF Near, e
<1>5. c \div 63 \in Nat /\ m \in Nat /\ m >= c \div 63 /\ m >= r
  BY <1>1, <1>4
<1>6. ops[p].gasLeft >= ops[b].gasLeft
  <2>1. CASE p = b
    BY <2>1, <1>3
  <2>2. CASE p # b
    <3>1. p < b
      BY <1>2, <2>2
    <3>2. ops[p].gasLeft >= ops[b].gasLeft + ops[p].fee
      BY <1>1, <3>1, Zenon DEF Whole, Linked, Falling
    <3> QED
      BY <1>3, <3>2
  <2> QED
    BY <2>1, <2>2
<1>14. /\ ops[p].gasLeft \in Nat /\ ops[b].gasLeft \in Nat /\ ops[b].fee \in Nat
       /\ ops[e].gasLeft \in Nat
  BY <1>1, <1>3, Zenon
<1>7. t \in Nat
  <2> HIDE DEF m
  <2> QED
    BY <1>1, <1>14, <1>5, <1>6
<1>8. ASSUME NEW g \in Int
      PROVE  S(g) \in Int /\ (g > t <=> S(g) >= c + m + 1) /\ (g >= t - 1 <=> S(g) >= c + m - 1)
  <2>1. c \in Nat /\ m \in Nat
    BY <1>1, <1>5
  <2> DEFINE gp == ops[p].gasLeft
             gb == ops[b].gasLeft
             fb == ops[b].fee
  <2>2. S(g) = g - (gp - gb) - fb /\ t = gp - gb + fb + c + m
    OBVIOUS
  <2>3. gp \in Nat /\ gb \in Nat /\ fb \in Nat
    BY <1>14
  <2> HIDE DEF gp, gb, fb, m, t, S
  <2> QED
    BY <2>1, <2>2, <2>3
<1>9. ASSUME NEW g \in Int
      PROVE  Enough(p, g) <=>
               /\ \A a \in DOMAIN ops : a >= p /\ a < b /\ ops[a].op = "CALL" =>
                    Passed(g - (ops[p].gasLeft - ops[a].gasLeft) - ops[a].fee) >= Cost(a)
               /\ Passed(S(g)) >= c
               /\ Enough(e + 1, S(g) - c)
  BY EnoughOfCall, Zenon DEF e, c
<1>10. ASSUME NEW g \in Int, g > t, NEW a \in DOMAIN ops, a >= p, a < b, ops[a].op = "CALL"
       PROVE  Passed(g - (ops[p].gasLeft - ops[a].gasLeft) - ops[a].fee) >= Cost(a)
  <2> DEFINE left_a == ops[a].gasLeft - ops[a].fee
             f == ops[EndOf(a + 1)].gasLeft
             x == left_a - left
             s == S(g)
             k == ops[e].gasLeft
             d == Cost(a)
  <2>11. ops[a].gasLeft \in Nat /\ ops[a].fee \in Nat
    BY <1>3, Zenon
  <2>12. ops[a].op = "CALL"
    BY <1>10
  <2>1. /\ EndOf(a + 1) \in DOMAIN ops /\ a + 1 <= EndOf(a + 1) /\ ops[a].depth = 0
        /\ left_a \in Nat /\ d = Passed(left_a) - f /\ d \in Nat
    <3>1. /\ EndOf(a + 1) \in DOMAIN ops /\ a + 1 <= EndOf(a + 1) /\ ops[a].depth = 0
          /\ left_a \in Nat /\ ops[a + 1].gasLeft = Passed(left_a)
          /\ d = ops[a + 1].gasLeft - f /\ d \in Nat
      BY <2>12, CallIs, Zenon
    <3> QED
      BY <3>1, Zenon
  <2>2. EndOf(a + 1) \in p..n
    BY <1>2, <1>3, <1>10, <2>1
  <2>3. k <= f /\ k \in Nat /\ f \in Nat
    BY <1>1, <1>3, <2>1, <2>2 DEF e
  <2>4. ops[a].gasLeft >= ops[b].gasLeft + ops[a].fee
    BY <1>1, <1>10, <2>1, Zenon DEF Whole, Linked, Falling
  <2>5. x \in Nat /\ left + x = left_a
    BY <1>14, <2>11, <2>4
  <2>6. s \in Int /\ s >= c + c \div 63 + 1
    <3>1. s \in Int /\ s >= c + m + 1
      BY <1>8, <1>10
    <3> HIDE DEF m, s
    <3> QED
      BY <3>1, <1>1, <1>5, SMTT(60)
  <2>7. g - (ops[p].gasLeft - ops[a].gasLeft) - ops[a].fee = s + x
    BY <1>14, <2>11
  <2> HIDE DEF left_a, f, x, s, k, d, left
  <2>8. Passed(left) \in Nat /\ Passed(left + x) \in Nat
    BY <1>1, <2>1, <2>5, PassedIsLess
  <2>9. Passed(left + x) - d >= Passed(left) - c
    <3>1. c = Passed(left) - k
      BY <1>1 DEF k
    <3>2. d = Passed(left + x) - f
      BY <2>1, <2>5
    <3> QED
      BY <2>3, <2>8, <3>1, <3>2
  <2>10. Passed(s + x) >= d
    <3>1. left \in Int /\ c \in Nat /\ d \in Nat
      BY <1>1, <2>1
    <3> QED
      BY <3>1, <2>5, <2>6, <2>9, EnoughBefore
  <2> QED
    BY <2>7, <2>10 DEF d
<1>11. ASSUME NEW g \in Int, g > t
       PROVE  Enough(p, g)
  <2> DEFINE s == S(g)
  <2>1. s \in Int /\ s >= c + m + 1
    BY <1>8, <1>11
  <2> HIDE DEF s
  <2>2. s - c \in Int /\ s - c > r /\ s >= c + c \div 63 + 1
    <3> HIDE DEF m
    <3> QED
      BY <1>1, <1>4, <1>5, <2>1
  <2>3. Passed(s) >= c
    BY <1>1, <2>1, <2>2, NeededIsEnough
  <2>4. Enough(e + 1, s - c)
    BY <1>4, <2>2 DEF Near
  <2>5. \A a \in DOMAIN ops : a >= p /\ a < b /\ ops[a].op = "CALL" =>
          Passed(g - (ops[p].gasLeft - ops[a].gasLeft) - ops[a].fee) >= Cost(a)
    <3> HIDE DEF t
    <3> QED
      BY <1>10, <1>11
  <2> QED
    BY <1>9, <2>3, <2>4, <2>5, Zenon DEF s
<1>12. ASSUME NEW g \in Int, Enough(p, g)
       PROVE  g >= t - 1
  <2> DEFINE s == S(g)
  <2>1. Passed(s) >= c /\ Enough(e + 1, s - c) /\ s \in Int
    BY <1>8, <1>9, <1>12, Zenon
  <2> HIDE DEF s
  <2>2. s >= c + c \div 63 - 1
    BY <1>1, <2>1, NeededIsLittle
  <2>3. s - c >= r - 1
    <3>1. s - c \in Int
      BY <1>1, <2>1
    <3> QED
      BY <1>4, <2>1, <3>1 DEF Near
  <2>4. s >= c + m - 1
    BY <1>1, <1>4, <2>1, <2>2, <2>3
  <2> HIDE DEF t, m
  <2> QED
    BY <1>8, <2>4, Zenon DEF s
<1> HIDE DEF t
<1>13. Near(p, t)
  BY <1>7, <1>11, <1>12 DEF Near
<1> QED
  BY <1>13, Zenon DEF t, m, c
-----------------------------------------------------------------------------
(* The last of the steps with the least gas. *)
LEMMA LowestIndexIs ==
  ASSUME Whole, NEW p \in DOMAIN ops
  PROVE  /\ findLowestIndex(p, Len(ops)) \in DOMAIN ops /\ p <= findLowestIndex(p, Len(ops))
         /\ \A q \in p..Len(ops) : ops[findLowestIndex(p, Len(ops))].gasLeft <= ops[q].gasLeft
<1> DEFINE n == Len(ops)
           left(i) == ops[i].gasLeft
           lowest == {i \in p..n : \A j \in p..n : left(i) <= left(j)}
<1>1. n \in Nat /\ p \in Nat /\ p <= n /\ 1 <= p /\ DOMAIN ops = 1..n
  BY Typed
<1>2. \A i \in p..n : i \in DOMAIN ops /\ i \in Nat /\ left(i) \in Nat
  BY <1>1, Typed
<1> HIDE DEF n, left
<1>3. PICK i \in lowest : TRUE
  <2> DEFINE gas == {left(i) : i \in p..n}
  <2>1. gas # {} /\ gas \in SUBSET Nat
    BY <1>1, <1>2
  <2>2. PICK x \in gas : \A y \in gas : x <= y
    BY <2>1, LeastNumber, Zenon
  <2>3. PICK i \in p..n : x = left(i)
    BY Zenon
  <2>4. i \in lowest
    BY <2>2, <2>3, Zenon
  <2> QED
    BY <2>4, Zenon
<1>4. PICK e \in lowest : \A j \in lowest : e >= j
  <2> DEFINE far == {n - j : j \in lowest}
  <2>1. far # {} /\ far \in SUBSET Nat
    <3>1. lowest \in SUBSET (p..n)
      BY Zenon
    <3> HIDE DEF lowest
    <3> QED
      BY <1>1, <1>3, <3>1
  <2>2. PICK x \in far : \A y \in far : x <= y
    BY <2>1, LeastNumber, Zenon
  <2>3. PICK e \in lowest : x = n - e
    BY Zenon
  <2>4. ASSUME NEW j \in lowest
        PROVE  e >= j
    <3>1. n - e <= n - j
      BY <2>2, <2>3, Zenon
    <3>2. e \in p..n /\ j \in p..n
      BY Zenon
    <3> QED
      BY <1>1, <3>1, <3>2
  <2> QED
    BY <2>4
<1>5. Max({0} \cup lowest) = e
  <2>1. lowest \in SUBSET (p..n)
    BY Zenon
  <2> HIDE DEF lowest
  <2>2. e \in {0} \cup lowest /\ {0} \cup lowest \in SUBSET Int /\ \A y \in {0} \cup lowest : e >= y
    BY <1>1, <1>4, <2>1
  <2> QED
    BY <2>2, MaxIs, Zenon
<1>6. findLowestIndex(p, n) = e
  BY <1>5, Zenon DEF findLowestIndex, left
<1>7. e \in p..n /\ \A q \in p..n : left(e) <= left(q)
  BY Zenon
<1>8. e \in DOMAIN ops /\ p <= e
  BY <1>1, <1>7
<1> QED
  BY <1>6, <1>7, <1>8, Zenon DEF n, left

(* The place after a call. *)
LEMMA AfterCall ==
  ASSUME Whole, NEW b \in DOMAIN ops, ops[b].op = "CALL", NEW p \in DOMAIN ops, p <= b
  PROVE  /\ EndOf(b + 1) + 1 \in DOMAIN ops /\ ops[EndOf(b + 1) + 1].depth = 0
         /\ p < EndOf(b + 1) + 1
<1>1. /\ EndOf(b + 1) \in DOMAIN ops /\ EndOf(b + 1) + 1 \in DOMAIN ops
      /\ b + 1 <= EndOf(b + 1) /\ ops[EndOf(b + 1) + 1].depth = 0
  BY CallIs, Zenon
<1>2. DOMAIN ops \subseteq Nat
  BY Typed
<1> QED
  BY <1>1, <1>2

(* The call that the lowest step ends begins where the search does, or later. *)
LEMMA CallInRange ==
  ASSUME Whole, NEW p \in DOMAIN ops, ops[p].depth = 0, NEW b \in DOMAIN ops, ops[b].op = "CALL",
         p <= EndOf(b + 1)
  PROVE  p <= b
<1> DEFINE e == EndOf(b + 1)
<1>1. /\ e \in DOMAIN ops /\ b + 1 <= e /\ ops[e].depth = 1
      /\ Encloses(ops, b, e) /\ \A q \in (b + 1)..(e - 1) : ops[q].op = "OP"
  BY CallIs, Zenon
<1> HIDE DEF e
<1>2. DOMAIN ops \subseteq Nat
  BY Typed
<1>3. p # e
  BY <1>1
<1> SUFFICES ASSUME b < p PROVE FALSE
  BY <1>2
<1>4. p <= e
  BY DEF e
<1>5. \A q \in (b + 1)..(p - 1) : q \in (b + 1)..(e - 1)
  BY <1>1, <1>2, <1>4
<1>6. Encloses(ops, b, p)
  BY <1>1, <1>5, Zenon DEF Encloses
<1>7. ops[p].depth = 1
  BY <1>6, IsNested, Zenon DEF Whole
<1> QED
  BY <1>7

(* What a search that may call itself works out. *)
LEMMA TotalsOf ==
  ASSUME NEW n, n # 0, NEW total, NEW start \in Nat, NEW stop \in Nat
  PROVE  Totals(n, total)[start][stop] = Total(start, stop, total)
BY DEF Totals

(* The estimate of a range up to the end is near to what is needed. *)
LEMMA TotalIsNear ==
  ASSUME Whole, NEW n \in Nat, NEW p \in DOMAIN ops, ops[p].depth = 0, Len(ops) - p < n
  PROVE  Near(p, getTotal[n][p][Len(ops)])
<1> DEFINE last == Len(ops)
           Holds(k) == \A q \in DOMAIN ops :
                         ops[q].depth = 0 /\ last - q < k => Near(q, getTotal[k][q][last])
           wrong == {k \in Nat : ~Holds(k)}
<1>1. last \in Nat /\ DOMAIN ops = 1..last /\ last \in DOMAIN ops
  BY Typed
<1>2. ASSUME NEW k \in Nat, \A j \in Nat : j < k => Holds(j)
      PROVE  Holds(k)
  <2> SUFFICES ASSUME NEW q \in DOMAIN ops, ops[q].depth = 0, last - q < k
               PROVE  Near(q, getTotal[k][q][last])
    BY Zenon
  <2>1. q \in Nat /\ k # 0 /\ k - 1 \in Nat /\ k - 1 < k /\ q <= last
    BY <1>1
  <2> DEFINE total == getTotal[k - 1]
             lowest == findLowestIndex(q, last)
  <2>2. Holds(k - 1)
    BY <1>2, <2>1, Zenon
  <2>3. getTotal[k][q][last] = Total(q, last, total)
    <3>1. getTotal[k] = Totals(k, total)
      BY TotalsAre
    <3> HIDE DEF total, last
    <3>2. Totals(k, total)[q][last] = Total(q, last, total)
      BY <1>1, <2>1, TotalsOf
    <3> QED
      BY <3>1, <3>2, Zenon
  <2>4. /\ lowest \in DOMAIN ops /\ q <= lowest
        /\ \A i \in q..last : ops[lowest].gasLeft <= ops[i].gasLeft
    BY LowestIndexIs
  <2>5. CASE lowest = last
    <3>1. Near(q, ops[q].gasLeft - ops[last].gasLeft)
      BY <2>4, <2>5, NearLast
    <3>2. getTotal[k][q][last] = ops[q].gasLeft - ops[last].gasLeft
      BY <2>3, <2>5, Zenon DEF Total, sumRange
    <3> QED
      BY <3>1, <3>2, Zenon
  <2>6. CASE lowest # last
    <3>1. ops[lowest].op = "STOP" /\ ops[lowest].depth = 1
      <4> HIDE DEF lowest
      <4> QED
        BY <2>4, <2>6, LowestEnds
    <3>2. PICK b \in DOMAIN ops : ops[b].op = "CALL" /\ b < lowest /\ EndOf(b + 1) = lowest
      <4> HIDE DEF lowest
      <4> QED
        BY <2>4, <3>1, CallOf
    <3>3. q <= b
      <4> HIDE DEF lowest
      <4> QED
        BY <2>4, <3>2, CallInRange
    <3>4. lowest + 1 \in DOMAIN ops /\ ops[lowest + 1].depth = 0 /\ q < lowest + 1
      <4> HIDE DEF lowest
      <4> QED
        BY <3>2, <3>3, AfterCall, Zenon
    <3>5. last - (lowest + 1) < k - 1
      <4> HIDE DEF lowest, last
      <4> QED
        BY <1>1, <2>1, <3>4
    <3> DEFINE r == total[lowest + 1][last]
    <3>6. Near(lowest + 1, r) /\ r \in Nat
      <4>1. Near(lowest + 1, r)
        <5> HIDE DEF lowest, last
        <5> QED
          BY <2>2, <3>4, <3>5, Zenon
      <4> HIDE DEF r
      <4> QED
        BY <4>1, Zenon DEF Near
    <3>7. Total(q, last, total) = TotalAround(lowest, q, last, total)
      BY <2>6, Zenon DEF Total
    <3> HIDE DEF total, lowest, last
    <3> DEFINE t == ops[q].gasLeft - ops[b].gasLeft + ops[b].fee + Cost(b)
                      + (IF Cost(b) \div 63 > r THEN Cost(b) \div 63 ELSE r)
    <3>8. total[EndOf(b + 1) + 1][last] = r
      BY <3>2
    <3> HIDE DEF r
    <3>9. TotalAround(lowest, q, last, total) = t
      BY <3>2, <3>6, <3>8, TotalAroundIs
    <3>10. Near(q, t)
      <4>1. \A i \in q..Len(ops) : ops[EndOf(b + 1)].gasLeft <= ops[i].gasLeft
        BY <2>4, <3>2 DEF last
      <4>2. Near(EndOf(b + 1) + 1, r)
        BY <3>2, <3>6
      <4> QED
        BY <3>2, <3>3, <4>1, <4>2, NearAround, Zenon
    <3> HIDE DEF t
    <3> QED
      BY <2>3, <3>7, <3>9, <3>10, Zenon
  <2> QED
    BY <2>5, <2>6
<1> HIDE DEF Holds, last
<1>3. Holds(n)
  <2> SUFFICES ASSUME ~Holds(n) PROVE FALSE
    OBVIOUS
  <2>1. wrong # {} /\ wrong \in SUBSET Nat
    BY Zenon
  <2>2. PICK k \in wrong : \A j \in wrong : k <= j
    BY <2>1, LeastNumber, Zenon
  <2>3. \A j \in Nat : j < k => Holds(j)
    <3> TAKE j \in Nat
    <3> HAVE j < k
    <3>1. ~ (k <= j) /\ k \in Nat
      OBVIOUS
    <3> QED
      BY <2>2, <3>1, Zenon
  <2> QED
    BY <1>2, <2>3, Zenon
<1> QED
  BY <1>3, Zenon DEF Holds, last

(* The estimate of the whole run is. *)
LEMMA FirstIsOuter ==
  ASSUME Whole
  PROVE  1 \in DOMAIN ops /\ ops[1].depth = 0
<1>1. Len(ops) \in Nat \ {0} /\ DOMAIN ops = 1..Len(ops)
  BY Typed
<1>2. 1 \in DOMAIN ops
  BY <1>1
<1>3. \A b \in DOMAIN ops : ~Encloses(ops, b, 1)
  BY <1>1 DEF Encloses
<1>4. ops[1].depth # 1
  BY <1>2, <1>3, IsNested, Zenon DEF Whole
<1> QED
  BY <1>2, <1>4, Typed

(* So is what the gas estimate is set to, whichever of its three branches is taken. *)
LEMMA EstimateIsNear ==
  ASSUME Whole, LowestKnown
  PROVE  Near(1, IF lowestGasIndex = Len(ops) THEN sumRange(1, Len(ops))
                 ELSE IF lowestSysOpIndex > 1
                   THEN TotalAround(systemOps[lowestSysOpIndex], 1, Len(ops), getTotal[Len(ops)])
                 ELSE getTotal[Len(ops)][1][Len(ops)])
<1> DEFINE last == Len(ops)
           e == lowestGasIndex
           total == getTotal[last]
<1>1. 1 \in DOMAIN ops /\ ops[1].depth = 0 /\ last \in Nat /\ DOMAIN ops = 1..last /\ ops # <<>>
  BY FirstIsOuter, Typed DEF Whole
<1>2. /\ e \in DOMAIN ops
      /\ \A p \in DOMAIN ops : ops[e].gasLeft <= ops[p].gasLeft
      /\ ops[e].op # "OP" => /\ lowestSysOpIndex \in DOMAIN systemOps
                             /\ systemOps[lowestSysOpIndex] = e
  BY <1>1, Zenon DEF LowestKnown
<1>3. \A q \in 1..last : ops[e].gasLeft <= ops[q].gasLeft
  BY <1>1, <1>2, Zenon
<1> HIDE DEF last, e
<1>4. CASE e = last
  <2>1. Near(1, ops[1].gasLeft - ops[last].gasLeft)
    BY <1>1, <1>3, <1>4, NearLast DEF last
  <2> QED
    BY <1>4, <2>1, Zenon DEF sumRange, last, e
<1>5. CASE e # last
  <2>1. ops[e].op = "STOP" /\ ops[e].depth = 1 /\ 1 <= e
    <3>1. 1 <= e
      BY <1>1, <1>2
    <3> QED
      BY <1>1, <1>2, <1>3, <1>5, <3>1, LowestEnds DEF last
  <2>2. PICK b \in DOMAIN ops : ops[b].op = "CALL" /\ b < e /\ EndOf(b + 1) = e
    BY <1>2, <2>1, CallOf
  <2>3. 1 <= b
    BY <1>1
  <2>4. e + 1 \in DOMAIN ops /\ ops[e + 1].depth = 0 /\ 1 < e + 1
    BY <1>1, <2>2, <2>3, AfterCall, Zenon
  <2> DEFINE r == total[e + 1][last]
  <2>5. Near(e + 1, r) /\ r \in Nat
    <3>1. last - (e + 1) < last
      BY <1>1, <2>4
    <3>2. Near(e + 1, r)
      BY <1>1, <2>4, <3>1, TotalIsNear DEF last
    <3> HIDE DEF r
    <3> QED
      BY <3>2, Zenon DEF Near
  <2>6. total[EndOf(b + 1) + 1][last] = r
    BY <2>2
  <2>7. systemOps[lowestSysOpIndex] = e /\ lowestSysOpIndex > 1
    <3>1. ops[e].op # "OP"
      BY <2>1
    <3>2. systemOps[lowestSysOpIndex] = e /\ lowestSysOpIndex \in DOMAIN systemOps
      BY <1>2, <3>1, Zenon
    <3>3. PICK k \in DOMAIN systemOps : k > 1 /\ systemOps[k] = e
      BY <2>2, PlacesOfCall, Zenon
    <3>4. lowestSysOpIndex = k
      <4> DEFINE l == lowestSysOpIndex
      <4>1. /\ l < k => systemOps[l] < systemOps[k]
            /\ k < l => systemOps[k] < systemOps[l]
        BY <3>2, PlacesAre, Zenon
      <4>2. l \in Nat /\ k \in Nat /\ e \in Nat
        BY <1>1, <1>2, <3>2, PlacesAre
      <4> QED
        BY <3>2, <3>3, <4>1, <4>2
    <3> QED
      BY <3>2, <3>3, <3>4
  <2> HIDE DEF total, r
  <2> DEFINE t == ops[1].gasLeft - ops[b].gasLeft + ops[b].fee + Cost(b)
                    + (IF Cost(b) \div 63 > r THEN Cost(b) \div 63 ELSE r)
  <2>8. TotalAround(e, 1, last, total) = t
    BY <1>1, <2>2, <2>5, <2>6, TotalAroundIs
  <2>9. Near(1, t)
    <3>1. \A i \in 1..Len(ops) : ops[EndOf(b + 1)].gasLeft <= ops[i].gasLeft
      BY <1>3, <2>2 DEF last
    <3>2. Near(EndOf(b + 1) + 1, r)
      BY <2>2, <2>5
    <3> QED
      BY <1>1, <2>2, <2>3, <3>1, <3>2, NearAround, Zenon
  <2> HIDE DEF t
  <2> QED
    BY <1>5, <2>7, <2>8, <2>9, Zenon DEF last, e, total
<1> QED
  BY <1>4, <1>5
-----------------------------------------------------------------------------
(* A step that may follow others. *)
Links(s, x) ==
  LET n == Len(s) IN
  /\ x \in Steps
  /\ x.op # "STOP" => x.fee >= 1
  /\ x.op = "CALL" => x.depth = 0
  /\ n = 0 => x.depth = 0
  /\ n # 0 =>
       /\ s[n].op = "OP" => x.depth = s[n].depth /\ x.gasLeft = s[n].gasLeft - s[n].fee
       /\ s[n].op = "CALL" => /\ x.depth = 1 /\ s[n].gasLeft >= s[n].fee
                              /\ x.gasLeft = Passed(s[n].gasLeft - s[n].fee)
       /\ s[n].op = "STOP" => /\ s[n].depth = 1 /\ x.depth = 0
                              /\ \E b \in DOMAIN s :
                                   /\ Encloses(s, b, n)
                                   /\ x.gasLeft = s[b].gasLeft - s[b].fee - s[b + 1].gasLeft
                                                    + s[n].gasLeft

(* The steps t are the steps s and x after them. *)
Grown(s, x, t) ==
  /\ Len(s) \in Nat /\ DOMAIN s = 1..Len(s) /\ DOMAIN t = 1..(Len(s) + 1)
  /\ \A i \in DOMAIN s : t[i] = s[i]
  /\ t[Len(s) + 1] = x
  /\ \A i \in DOMAIN s : s[i] \in Steps

(* Append is that. *)
LEMMA AppendGrows ==
  ASSUME NEW s \in Seq(Steps), NEW x \in Steps
  PROVE  Grown(s, x, Append(s, x))
<1>1. Len(s) \in Nat /\ DOMAIN s = 1..Len(s)
  BY LenProperties
<1>2. /\ Append(s, x) \in Seq(Steps) /\ Len(Append(s, x)) = Len(s) + 1
      /\ \A i \in 1..Len(s) : Append(s, x)[i] = s[i]
      /\ Append(s, x)[Len(s) + 1] = x
  BY AppendProperties
<1>3. DOMAIN Append(s, x) = 1..(Len(s) + 1)
  BY <1>2, LenProperties
<1>4. \A i \in DOMAIN s : s[i] \in Steps
  BY <1>1, ElementOfSeq
<1> QED
  BY <1>1, <1>2, <1>3, <1>4, Zenon DEF Grown

(* What a step before encloses does not change. *)
LEMMA EnclosesStays ==
  ASSUME NEW s, NEW x, NEW t, Grown(s, x, t), NEW b \in DOMAIN s, NEW p \in DOMAIN s
  PROVE  Encloses(t, b, p) <=> Encloses(s, b, p)
<1>1. Len(s) \in Nat /\ DOMAIN s = 1..Len(s) /\ DOMAIN t = 1..(Len(s) + 1)
  BY Zenon DEF Grown
<1>2. b \in DOMAIN t /\ p \in DOMAIN t
  BY <1>1
<1>3. \A q \in (b + 1)..(p - 1) : q \in DOMAIN s
  BY <1>1
<1>4. \A q \in DOMAIN s : t[q] = s[q]
  BY Zenon DEF Grown
<1> QED
  BY <1>2, <1>3, <1>4, Zenon DEF Encloses

(* The last step is in a call that begins at the one before, or that the one before is in. *)
LEMMA EnclosesLast ==
  ASSUME NEW s, NEW x, NEW t, Grown(s, x, t), NEW b \in DOMAIN t
  PROVE  Encloses(t, b, Len(s) + 1) <=>
           \/ b = Len(s) /\ s[b].op = "CALL"
           \/ Len(s) # 0 /\ s[Len(s)].op = "OP" /\ b \in DOMAIN s /\ Encloses(s, b, Len(s))
<1> DEFINE n == Len(s)
           m == n + 1
<1>1. n \in Nat /\ DOMAIN s = 1..n /\ DOMAIN t = 1..(n + 1)
  BY Zenon DEF Grown
<1>2. \A q \in DOMAIN s : t[q] = s[q]
  BY Zenon DEF Grown
<1> HIDE DEF n
<1>7. m \in Nat /\ m - 1 = n /\ m \in DOMAIN t /\ n < m
  BY <1>1
<1> HIDE DEF m
<1>3. ASSUME b = n, s[b].op = "CALL"
      PROVE  Encloses(t, b, m)
  <2>1. b \in DOMAIN s /\ m \in DOMAIN t /\ b < m /\ (b + 1)..(m - 1) = {}
    BY <1>1, <1>3, <1>7
  <2> QED
    BY <1>2, <1>3, <2>1, Zenon DEF Encloses
<1>4. ASSUME n # 0, s[n].op = "OP", b \in DOMAIN s, Encloses(s, b, n)
      PROVE  Encloses(t, b, m)
  <2>1. b < n /\ s[b].op = "CALL" /\ \A q \in (b + 1)..(n - 1) : s[q].op = "OP"
    BY <1>4, Zenon DEF Encloses
  <2>2. m \in DOMAIN t /\ n \in DOMAIN s /\ b < m
    BY <1>1, <1>4, <1>7, <2>1
  <2>3. \A q \in (b + 1)..(m - 1) : q \in DOMAIN s /\ (q \in (b + 1)..(n - 1) \/ q = n)
    BY <1>1, <1>4, <1>7, <2>1
  <2> QED
    BY <1>2, <1>4, <2>1, <2>2, <2>3, Zenon DEF Encloses
<1>5. ASSUME Encloses(t, b, m)
      PROVE  \/ b = n /\ s[b].op = "CALL"
             \/ n # 0 /\ s[n].op = "OP" /\ b \in DOMAIN s /\ Encloses(s, b, n)
  <2>1. b < m /\ t[b].op = "CALL" /\ \A q \in (b + 1)..(m - 1) : t[q].op = "OP"
    BY <1>5, Zenon DEF Encloses
  <2>2. b \in DOMAIN s
    BY <1>1, <1>7, <2>1
  <2>3. s[b].op = "CALL"
    BY <1>2, <2>1, <2>2, Zenon
  <2>4. CASE b = n
    BY <2>3, <2>4
  <2>5. CASE b # n
    <3>1. /\ n # 0 /\ n \in DOMAIN s /\ n \in (b + 1)..(m - 1) /\ b < n
          /\ \A q \in (b + 1)..(n - 1) : q \in DOMAIN s /\ q \in (b + 1)..(m - 1)
      BY <1>1, <1>7, <2>2, <2>5
    <3>2. s[n].op = "OP" /\ \A q \in (b + 1)..(n - 1) : s[q].op = "OP"
      BY <1>2, <2>1, <3>1, Zenon
    <3>3. Encloses(s, b, n)
      BY <2>2, <2>3, <3>1, <3>2, Zenon DEF Encloses
    <3> QED
      BY <2>2, <3>1, <3>2, <3>3
  <2> QED
    BY <2>4, <2>5
<1>6. Encloses(t, b, m) <=>
        \/ b = n /\ s[b].op = "CALL"
        \/ n # 0 /\ s[n].op = "OP" /\ b \in DOMAIN s /\ Encloses(s, b, n)
  BY <1>3, <1>4, <1>5, Zenon
<1> QED
  BY <1>6, Zenon DEF n, m

(* With the step that follows, *)
LEMMA ChainedGrows ==
  ASSUME NEW s, NEW x, NEW t, Grown(s, x, t), Linked(s), Links(s, x)
  PROVE  Chained(t)
<1> DEFINE n == Len(s)
<1>1. n \in Nat /\ DOMAIN s = 1..n /\ DOMAIN t = 1..(n + 1)
  BY Zenon DEF Grown
<1>2. t[n + 1] = x /\ \A q \in DOMAIN s : t[q] = s[q]
  BY Zenon DEF Grown
<1> DEFINE Step(p) ==
             /\ t[p].op = "OP" => t[p + 1].depth = t[p].depth
                                  /\ t[p + 1].gasLeft = t[p].gasLeft - t[p].fee
             /\ t[p].op = "CALL" => /\ t[p + 1].depth = 1 /\ t[p].gasLeft >= t[p].fee
                                    /\ t[p + 1].gasLeft = Passed(t[p].gasLeft - t[p].fee)
             /\ t[p].op = "STOP" => t[p].depth = 1 /\ t[p + 1].depth = 0
<1>3. ASSUME NEW p \in DOMAIN t, p + 1 \in DOMAIN t
      PROVE  Step(p)
  <2>1. CASE p = n
    <3>1. n # 0 /\ p \in DOMAIN s
      BY <1>1, <1>3, <2>1
    <3>2. t[p] = s[n] /\ t[p + 1] = x
      BY <1>2, <2>1, <3>1
    <3> QED
      BY <3>1, <3>2, Zenon DEF Links
  <2>2. CASE p # n
    <3>1. p \in DOMAIN s /\ p + 1 \in DOMAIN s
      BY <1>1, <1>3, <2>2
    <3>2. t[p] = s[p] /\ t[p + 1] = s[p + 1]
      BY <1>2, <3>1
    <3> QED
      BY <3>1, <3>2, Zenon DEF Linked, Chained
  <2> QED
    BY <2>1, <2>2
<1> QED
  BY <1>3, Zenon DEF Chained

(* A step is in one call. *)
LEMMA OneCall ==
  ASSUME NEW s, NEW n \in Nat, DOMAIN s = 1..n, NEW b, NEW c, NEW p,
         Encloses(s, b, p), Encloses(s, c, p)
  PROVE  b = c
<1>1. /\ b \in 1..n /\ c \in 1..n /\ p \in 1..n /\ b < p /\ c < p
      /\ s[b].op = "CALL" /\ s[c].op = "CALL"
      /\ \A q \in (b + 1)..(p - 1) : s[q].op = "OP"
      /\ \A q \in (c + 1)..(p - 1) : s[q].op = "OP"
  BY Zenon DEF Encloses
<1>2. ASSUME b < c PROVE FALSE
  <2>1. c \in (b + 1)..(p - 1)
    BY <1>1, <1>2
  <2> QED
    BY <1>1, <2>1
<1>3. ASSUME c < b PROVE FALSE
  <2>1. b \in (c + 1)..(p - 1)
    BY <1>1, <1>3
  <2> QED
    BY <1>1, <2>1
<1> QED
  BY <1>1, <1>2, <1>3

(* The step after a call has what that gave back. *)
LEMMA GivenBackGrows ==
  ASSUME NEW s, NEW x, NEW t, Grown(s, x, t), Linked(s), Links(s, x)
  PROVE  GivenBack(t)
<1> DEFINE n == Len(s)
<1>1. n \in Nat /\ DOMAIN s = 1..n /\ DOMAIN t = 1..(n + 1)
  BY Zenon DEF Grown
<1>2. t[n + 1] = x /\ \A q \in DOMAIN s : t[q] = s[q]
  BY Zenon DEF Grown
<1>3. ASSUME NEW b \in DOMAIN t, NEW e \in DOMAIN t, Encloses(t, b, e), t[e].op = "STOP",
             e + 1 \in DOMAIN t
      PROVE  t[e + 1].gasLeft = t[b].gasLeft - t[b].fee - t[b + 1].gasLeft + t[e].gasLeft
  <2>1. e \in DOMAIN s
    BY <1>1, <1>3
  <2>2. b < e
    BY <1>3, Zenon DEF Encloses
  <2>3. b \in DOMAIN s /\ b + 1 \in DOMAIN s
    BY <1>1, <2>1, <2>2
  <2>4. Encloses(s, b, e)
    BY <1>3, <2>1, <2>3, EnclosesStays
  <2>5. t[b] = s[b] /\ t[b + 1] = s[b + 1] /\ t[e] = s[e]
    BY <1>2, <2>1, <2>3
  <2>6. CASE e = n
    <3>1. n # 0 /\ s[n].op = "STOP"
      BY <1>1, <1>3, <2>1, <2>5, <2>6
    <3>2. PICK c \in DOMAIN s : /\ Encloses(s, c, n)
                                /\ x.gasLeft = s[c].gasLeft - s[c].fee - s[c + 1].gasLeft
                                                 + s[n].gasLeft
      BY <3>1, Zenon DEF Links
    <3>3. c = b
      BY <1>1, <2>4, <2>6, <3>2, OneCall
    <3> QED
      BY <1>2, <2>5, <2>6, <3>2, <3>3, Zenon
  <2>7. CASE e # n
    <3>1. e + 1 \in DOMAIN s
      BY <1>1, <2>1, <2>7
    <3> QED
      BY <1>2, <1>3, <2>1, <2>3, <2>4, <2>5, <3>1, ZenonT(60) DEF Linked, GivenBack
  <2> QED
    BY <2>6, <2>7
<1> QED
  BY <1>3, Zenon DEF GivenBack

(* The last step belongs to the contract it is told of. *)
LEMMA NestedGrows ==
  ASSUME NEW s, NEW x, NEW t, Grown(s, x, t), Linked(s), Links(s, x)
  PROVE  Nested(t)
<1> DEFINE n == Len(s)
<1>1. n \in Nat /\ DOMAIN s = 1..n /\ DOMAIN t = 1..(n + 1) /\ n + 1 \in DOMAIN t
  <2>1. n \in Nat /\ DOMAIN s = 1..n /\ DOMAIN t = 1..(n + 1)
    BY Zenon DEF Grown
  <2> QED
    BY <2>1
<1>2. t[n + 1] = x /\ \A q \in DOMAIN s : t[q] = s[q]
  BY Zenon DEF Grown
<1>3. \A p \in DOMAIN t : p \in DOMAIN s \/ p = n + 1
  BY <1>1
<1>4. Nested(s)
  BY DEF Linked
<1>5. \A p \in DOMAIN t : t[p].op # "STOP" => t[p].fee >= 1
  BY <1>2, <1>3, <1>4, Zenon DEF Nested, Links
<1>6. \A p \in DOMAIN t : t[p].op = "CALL" => t[p].depth = 0
  BY <1>2, <1>3, <1>4, Zenon DEF Nested, Links
<1>7. x.depth \in {0, 1} /\ \A q \in DOMAIN s : s[q].op \in {"OP", "CALL", "STOP"}
  BY DEF Links, Grown, Steps
<1>8. ASSUME NEW p \in DOMAIN t, t[p].depth = 1
      PROVE  \E b \in DOMAIN t : Encloses(t, b, p)
  <2>1. CASE p \in DOMAIN s
    <3>1. PICK b \in DOMAIN s : Encloses(s, b, p)
      BY <1>2, <1>4, <1>8, <2>1, Zenon DEF Nested
    <3>2. Encloses(t, b, p) /\ b \in DOMAIN t
      BY <1>1, <2>1, <3>1, EnclosesStays
    <3> QED
      BY <3>2
  <2>2. CASE p = n + 1
    <3>1. x.depth = 1
      BY <1>2, <1>8, <2>2
    <3>2. n # 0
      BY <3>1 DEF Links
    <3>3. n \in DOMAIN s /\ n \in DOMAIN t
      BY <1>1, <3>2
    <3>4. CASE s[n].op = "OP"
      <4>1. s[n].depth = 1
        BY <3>1, <3>2, <3>4, Zenon DEF Links
      <4>2. PICK b \in DOMAIN s : Encloses(s, b, n)
        BY <1>4, <3>3, <4>1, Zenon DEF Nested
      <4>3. b \in DOMAIN t
        BY <1>1
      <4>4. Encloses(t, b, n + 1)
        BY <3>2, <3>4, <4>2, <4>3, EnclosesLast
      <4> QED
        BY <2>2, <4>3, <4>4
    <3>5. CASE s[n].op = "CALL"
      <4>1. Encloses(t, n, n + 1)
        BY <3>3, <3>5, EnclosesLast
      <4> QED
        BY <2>2, <3>3, <4>1
    <3>6. CASE s[n].op = "STOP"
      BY <3>1, <3>2, <3>6 DEF Links
    <3> QED
      BY <1>7, <3>3, <3>4, <3>5, <3>6
  <2> QED
    BY <1>3, <2>1, <2>2
<1>9. ASSUME NEW b \in DOMAIN t, NEW p \in DOMAIN t, Encloses(t, b, p)
      PROVE  t[p].depth = 1
  <2>1. CASE p \in DOMAIN s
    <3>1. b < p
      BY <1>9, Zenon DEF Encloses
    <3>2. b \in DOMAIN s
      BY <1>1, <2>1, <3>1
    <3>3. Encloses(s, b, p)
      BY <1>9, <2>1, <3>2, EnclosesStays
    <3>4. s[p].depth = 1
      BY <1>4, <2>1, <3>2, <3>3, Zenon DEF Nested
    <3> QED
      BY <1>2, <2>1, <3>4, Zenon
  <2>2. CASE p = n + 1
    <3>1. \/ b = n /\ s[b].op = "CALL"
          \/ n # 0 /\ s[n].op = "OP" /\ b \in DOMAIN s /\ Encloses(s, b, n)
      BY <1>9, <2>2, EnclosesLast
    <3>2. CASE b = n /\ s[b].op = "CALL"
      <4>1. n # 0
        BY <1>1, <3>2
      <4> QED
        BY <1>2, <2>2, <3>2, <4>1 DEF Links
    <3>3. CASE n # 0 /\ s[n].op = "OP" /\ b \in DOMAIN s /\ Encloses(s, b, n)
      <4>1. n \in DOMAIN s
        BY <1>1, <3>3
      <4>2. s[n].depth = 1
        BY <1>4, <3>3, <4>1, Zenon DEF Nested
      <4> QED
        BY <1>2, <2>2, <3>3, <4>2, Zenon DEF Links
    <3> QED
      BY <3>1, <3>2, <3>3
  <2> QED
    BY <1>3, <2>1, <2>2
<1> QED
  BY <1>5, <1>6, <1>8, <1>9, Zenon DEF Nested

(* Its gas is less than that of the steps before it, but for what a call was not passed. *)
LEMMA FallingGrows ==
  ASSUME NEW s, NEW x, NEW t, Grown(s, x, t), Linked(s), Links(s, x)
  PROVE  Falling(t)
<1> DEFINE n == Len(s)
<1>1. n \in Nat /\ DOMAIN s = 1..n /\ DOMAIN t = 1..(n + 1)
  BY Zenon DEF Grown
<1>2. t[n + 1] = x /\ \A q \in DOMAIN s : t[q] = s[q]
  BY Zenon DEF Grown
<1>3. Falling(s) /\ Nested(s)
  BY DEF Linked
<1>4. /\ \A q \in DOMAIN s : /\ s[q].gasLeft \in Nat /\ s[q].fee \in Nat
                             /\ s[q].op \in {"OP", "CALL", "STOP"} /\ s[q].depth \in {0, 1}
      /\ x.gasLeft \in Nat
  BY DEF Links, Grown, Steps
<1>5. ASSUME NEW p \in DOMAIN s, s[p].depth = 0, x.depth = 0
      PROVE  s[p].gasLeft >= x.gasLeft + s[p].fee
  <2>1. n # 0 /\ n \in DOMAIN s
    BY <1>1
  <2>2. CASE s[n].op = "OP"
    <3>1. s[n].depth = 0 /\ x.gasLeft = s[n].gasLeft - s[n].fee
      BY <1>5, <2>1, <2>2, Zenon DEF Links
    <3>2. CASE p = n
      BY <1>4, <2>1, <3>1, <3>2
    <3>3. CASE p # n
      <4>1. p < n
        BY <1>1, <3>3
      <4>2. s[p].gasLeft >= s[n].gasLeft + s[p].fee
        BY <1>3, <1>5, <2>1, <3>1, <4>1, Zenon DEF Falling
      <4>3. s[n].gasLeft \in Nat /\ s[n].fee \in Nat /\ s[p].gasLeft \in Nat /\ s[p].fee \in Nat
        BY <1>4, <2>1
      <4> QED
        BY <3>1, <4>2, <4>3
    <3> QED
      BY <3>2, <3>3
  <2>3. CASE s[n].op = "CALL"
    BY <1>5, <2>1, <2>3 DEF Links
  <2>4. CASE s[n].op = "STOP"
    <3>1. PICK b \in DOMAIN s : /\ Encloses(s, b, n)
                                /\ x.gasLeft = s[b].gasLeft - s[b].fee - s[b + 1].gasLeft
                                                 + s[n].gasLeft
      BY <2>1, <2>4, Zenon DEF Links
    <3>2. s[n].depth = 1
      BY <2>1, <2>4, Zenon DEF Links
    <3>3. b < n /\ s[b].op = "CALL" /\ \A q \in (b + 1)..(n - 1) : s[q].op = "OP"
      BY <3>1, Zenon DEF Encloses
    <3>4. b + 1 \in DOMAIN s
      BY <1>1, <3>3
    <3>5. /\ s[b].gasLeft \in Nat /\ s[b].fee \in Nat /\ s[b + 1].gasLeft \in Nat
          /\ s[n].gasLeft \in Nat /\ s[p].gasLeft \in Nat /\ s[p].fee \in Nat
          /\ s[b + 1].fee \in Nat
      BY <1>4, <2>1, <3>4
    <3>6. s[b + 1].gasLeft >= s[n].gasLeft
      <4>1. CASE b + 1 = n
        BY <3>5, <4>1
      <4>2. CASE b + 1 # n
        <5>1. b + 1 < n
          BY <1>1, <3>3, <4>2
        <5>2. s[b + 1].gasLeft >= s[n].gasLeft + s[b + 1].fee
          BY <1>3, <2>1, <3>3, <3>4, <5>1, Zenon DEF Falling
        <5> QED
          BY <3>5, <5>2
      <4> QED
        BY <4>1, <4>2
    <3>10. x.gasLeft = s[b].gasLeft - s[b].fee - s[b + 1].gasLeft + s[n].gasLeft
      BY <3>1
    <3>11. s[b].gasLeft >= x.gasLeft + s[b].fee
      BY <1>4, <3>5, <3>6, <3>10, SMTT(60)
    <3>7. CASE p = b
      BY <3>7, <3>11
    <3>8. CASE p < b
      <4>1. s[b].depth = 0
        BY <1>3, <3>3, Zenon DEF Nested
      <4>2. s[p].gasLeft >= s[b].gasLeft + s[p].fee
        BY <1>3, <1>5, <3>8, <4>1, Zenon DEF Falling
      <4> QED
        BY <1>4, <3>5, <3>11, <4>2, SMTT(60)
    <3>9. CASE b < p
      <4>1. p # n
        BY <1>5, <3>2
      <4>2. \A q \in (b + 1)..(p - 1) : q \in (b + 1)..(n - 1)
        BY <1>1
      <4>3. Encloses(s, b, p)
        BY <3>3, <3>9, <4>2, Zenon DEF Encloses
      <4>4. s[p].depth = 1
        BY <1>3, <4>3, Zenon DEF Nested
      <4> QED
        BY <1>5, <4>4
    <3> QED
      BY <1>1, <3>7, <3>8, <3>9
  <2> QED
    BY <1>4, <2>1, <2>2, <2>3, <2>4
<1>6. ASSUME NEW p \in DOMAIN s, \A r \in p..n : s[r].op = "OP"
      PROVE  s[p].gasLeft >= x.gasLeft + s[p].fee
  <2>1. n # 0 /\ n \in DOMAIN s /\ n \in p..n
    BY <1>1
  <2>2. x.gasLeft = s[n].gasLeft - s[n].fee
    BY <1>6, <2>1, Zenon DEF Links
  <2>3. s[n].gasLeft \in Nat /\ s[n].fee \in Nat /\ s[p].gasLeft \in Nat /\ s[p].fee \in Nat
    BY <1>4, <2>1
  <2>4. CASE p = n
    BY <2>2, <2>3, <2>4
  <2>5. CASE p # n
    <3>1. p < n /\ \A r \in p..(n - 1) : r \in p..n
      BY <1>1, <2>5
    <3>2. s[p].gasLeft >= s[n].gasLeft + s[p].fee
      BY <1>3, <1>6, <2>1, <3>1, Zenon DEF Falling
    <3> QED
      BY <2>2, <2>3, <3>2
  <2> QED
    BY <2>4, <2>5
<1>7. ASSUME NEW p \in DOMAIN t, NEW q \in DOMAIN t, p < q, t[p].depth = 0, t[q].depth = 0
      PROVE  t[p].gasLeft >= t[q].gasLeft + t[p].fee
  <2>1. p \in DOMAIN s /\ (q \in DOMAIN s \/ q = n + 1)
    BY <1>1, <1>7
  <2>2. CASE q \in DOMAIN s
    BY <1>2, <1>3, <1>7, <2>1, <2>2, Zenon DEF Falling
  <2>3. CASE q = n + 1
    BY <1>2, <1>5, <1>7, <2>1, <2>3, Zenon
  <2> QED
    BY <2>1, <2>2, <2>3
<1>8. ASSUME NEW p \in DOMAIN t, NEW q \in DOMAIN t, p < q, \A r \in p..(q - 1) : t[r].op = "OP"
      PROVE  t[p].gasLeft >= t[q].gasLeft + t[p].fee
  <2>1. /\ p \in DOMAIN s /\ (q \in DOMAIN s \/ q = n + 1)
        /\ \A r \in p..(q - 1) : r \in DOMAIN s
    BY <1>1, <1>8
  <2>2. \A r \in p..(q - 1) : s[r].op = "OP"
    BY <1>2, <1>8, <2>1, Zenon
  <2>3. CASE q \in DOMAIN s
    BY <1>2, <1>3, <1>8, <2>1, <2>2, <2>3, Zenon DEF Falling
  <2>4. CASE q = n + 1
    <3>1. q - 1 = n
      BY <1>1, <2>4
    <3>2. \A r \in p..n : s[r].op = "OP"
      BY <2>2, <3>1
    <3> QED
      BY <1>2, <1>6, <2>1, <2>4, <3>2, Zenon
  <2> QED
    BY <2>1, <2>3, <2>4
<1> QED
  BY <1>7, <1>8, Zenon DEF Falling

(* Together: a step that may follow the others keeps them linked. *)
LEMMA LinkedGrows ==
  ASSUME NEW s, Linked(s), NEW x, Links(s, x)
  PROVE  Linked(Append(s, x))
<1>1. s \in Seq(Steps) /\ x \in Steps
  BY Zenon DEF Linked, Links
<1>2. Grown(s, x, Append(s, x))
  BY <1>1, AppendGrows
<1>3. Append(s, x) \in Seq(Steps)
  BY <1>1, AppendProperties
<1> QED
  BY <1>2, <1>3, ChainedGrows, GivenBackGrows, NestedGrows, FallingGrows, Zenon DEF Linked
-----------------------------------------------------------------------------
(* The ways the machine goes on from where it is. *)
Stepped(gas, kept, depth) ==
  /\ outcome' = "running" /\ StandingAt(context') /\ HereOf(context') = After(Here)
  /\ context'.gas = gas /\ KeptOf(context') = kept /\ context'.depth = depth

(* The gas does not pay for the operation, *)
OutOfGas == Told.op # "STOP" /\ context.gas < Told.fee /\ outcome' = "outOfGas"

(* it does, *)
Operates ==
  /\ Told.op = "OP" /\ context.gas >= Told.fee
  /\ Stepped(context.gas - Told.fee, Kept, context.depth)

(* it does and is passed on, *)
CallsOther ==
  /\ Told.op = "CALL" /\ context.depth = 0 /\ context.gas >= Told.fee
  /\ Stepped(Passed(context.gas - Told.fee),
             context.gas - Told.fee - Passed(context.gas - Told.fee), 1)

(* the contract that was called gives back what it has left, *)
Returns == Told.op = "STOP" /\ context.depth = 1 /\ Stepped(Kept + context.gas, 0, 0)

(* or the transaction ends. *)
Succeeds == Told.op = "STOP" /\ context.depth = 0 /\ outcome' = "success"

(* The frames there are, of contracts whose calls call nothing. *)
LEMMA FrameIs ==
  ASSUME NEW f \in Frames
  PROVE  /\ Len(f) \in Nat /\ DOMAIN f = 1..Len(f)
         /\ \A i \in DOMAIN f : /\ f[i].op \in {"OP", "CALL"} /\ f[i].fee \in Nat \ {0}
                                /\ f[i].frame \in Frames
<1> DEFINE Item_ == [op : {"OP", "CALL"}, fee : Nat \ {0}, frame : Frames]
<1>1. f \in Seq(Item_)
  BY FramesAssumption, Zenon
<1> HIDE DEF Item_
<1>2. Len(f) \in Nat /\ DOMAIN f = 1..Len(f)
  BY <1>1, LenProperties
<1>3. \A i \in DOMAIN f : f[i] \in Item_
  BY <1>1, <1>2, ElementOfSeq
<1>4. \A y \in Item_ : y.op \in {"OP", "CALL"} /\ y.fee \in Nat \ {0} /\ y.frame \in Frames
  BY DEF Item_
<1> QED
  BY <1>2, <1>3, <1>4, Zenon

(* The frame of a call has no call. *)
LEMMA FlatFrameIs ==
  ASSUME frame \in Frames, Flat(frame), NEW i \in DOMAIN frame, frame[i].op = "CALL"
  PROVE  /\ Len(frame[i].frame) \in Nat /\ DOMAIN frame[i].frame = 1..Len(frame[i].frame)
         /\ \A j \in DOMAIN frame[i].frame : /\ frame[i].frame[j].op = "OP"
                                             /\ frame[i].frame[j].fee \in Nat \ {0}
<1>1. frame[i].frame \in Frames
  BY FrameIs, Zenon
<1>2. /\ Len(frame[i].frame) \in Nat /\ DOMAIN frame[i].frame = 1..Len(frame[i].frame)
      /\ \A j \in DOMAIN frame[i].frame : /\ frame[i].frame[j].op \in {"OP", "CALL"}
                                          /\ frame[i].frame[j].fee \in Nat \ {0}
  BY <1>1, FrameIs, Zenon
<1>3. \A j \in DOMAIN frame[i].frame : frame[i].frame[j].op # "CALL"
  BY Zenon DEF Flat, Calls
<1> QED
  BY <1>2, <1>3

(* In the outer contract, *)
LEMMA AloneIs ==
  ASSUME frame \in Frames, NEW i \in 1..(Len(frame) + 1), NEW g \in Nat, context = Alone(i, g)
  PROVE  /\ context.frame = frame /\ context.next = i /\ context.gas = g /\ context.depth = 0
         /\ context.caller = <<>> /\ Here = [outer |-> i, inner |-> 0] /\ Kept = 0
         /\ AtEnd <=> i \notin DOMAIN frame
         /\ Item = frame[i]
<1>1. /\ context.frame = frame /\ context.next = i /\ context.gas = g /\ context.depth = 0
      /\ context.caller = <<>>
  BY DEF Alone, Context
<1> QED
  BY <1>1, Zenon DEF Here, HereOf, Kept, KeptOf, AtEnd, Item

(* and in one that it calls. *)
LEMMA WithinIs ==
  ASSUME NEW i, NEW m, NEW g, NEW k, context = Within(i, m, g, k)
  PROVE  /\ context.frame = frame[i - 1].frame /\ context.next = m /\ context.gas = g
         /\ context.depth = 1 /\ context.caller = Alone(i, k)
         /\ context.caller.next = i /\ context.caller.gas = k /\ context.caller.frame = frame
         /\ context.caller.depth = 0 /\ context.caller.caller = <<>>
         /\ Here = [outer |-> i, inner |-> m] /\ Kept = k
         /\ AtEnd <=> m \notin DOMAIN frame[i - 1].frame
         /\ Item = frame[i - 1].frame[m]
<1>1. /\ context.frame = frame[i - 1].frame /\ context.next = m /\ context.gas = g
      /\ context.depth = 1 /\ context.caller = Alone(i, k)
  BY DEF Within, Context
<1>2. /\ context.caller.next = i /\ context.caller.gas = k /\ context.caller.frame = frame
      /\ context.caller.depth = 0 /\ context.caller.caller = <<>>
  BY <1>1 DEF Alone, Context
<1>3. 1 # 0
  OBVIOUS
<1> QED
  BY <1>1, <1>2, <1>3, Zenon DEF Here, HereOf, Kept, KeptOf, AtEnd, Item

(* What is told of a step. *)
ToldRight ==
  /\ Told \in Steps /\ Told.gasLeft = context.gas /\ Told.depth = context.depth
  /\ Told.op = OpAt(Here) /\ Told.fee = FeeAt(Here)
  /\ Told.depth = (IF Here.inner = 0 THEN 0 ELSE 1)
  /\ Told.op # "STOP" => Told.fee >= 1
  /\ Told.op = "CALL" => Told.depth = 0
  /\ Kept \in Nat

(* Of the end of a contract, and of an operation. *)
LEMMA ToldFields ==
  /\ AtEnd => /\ Told.op = "STOP" /\ Told.fee = 0 /\ Told.depth = context.depth
              /\ Told.gasLeft = context.gas
              /\ Told = [op |-> "STOP", depth |-> context.depth, fee |-> 0,
                         gasLeft |-> context.gas]
  /\ ~AtEnd => /\ Told.op = Item.op /\ Told.fee = Item.fee /\ Told.depth = context.depth
               /\ Told.gasLeft = context.gas
               /\ Told = [op |-> Item.op, depth |-> context.depth, fee |-> Item.fee,
                          gasLeft |-> context.gas]
<1>1. CASE AtEnd
  <2>1. Told = [op |-> "STOP", depth |-> context.depth, fee |-> 0, gasLeft |-> context.gas]
    BY <1>1, Zenon DEF Told
  <2> QED
    BY <1>1, <2>1
<1>2. CASE ~AtEnd
  <2>1. Told = [op |-> Item.op, depth |-> context.depth, fee |-> Item.fee, gasLeft |-> context.gas]
    BY <1>2, Zenon DEF Told
  <2> QED
    BY <1>2, <2>1
<1> QED
  BY <1>1, <1>2

(* It is right in the outer contract, *)
LEMMA ToldAlone ==
  ASSUME frame \in Frames, NEW i \in 1..(Len(frame) + 1), NEW g \in Nat, context = Alone(i, g)
  PROVE  ToldRight
<1>1. /\ context.gas = g /\ context.depth = 0 /\ Here.outer = i /\ Here.inner = 0 /\ Kept = 0
      /\ AtEnd <=> i \notin DOMAIN frame
      /\ Item = frame[i]
  BY AloneIs
<1>2. CASE i \in DOMAIN frame
  <2>1. Item.op \in {"OP", "CALL"} /\ Item.fee \in Nat \ {0}
    BY <1>1, <1>2, FrameIs, Zenon
  <2>2. /\ Told.op = Item.op /\ Told.fee = Item.fee /\ Told.depth = 0 /\ Told.gasLeft = g
        /\ Told = [op |-> Item.op, depth |-> context.depth, fee |-> Item.fee,
                   gasLeft |-> context.gas]
    BY <1>1, <1>2, ToldFields, Zenon
  <2>3. Told \in Steps
    BY <1>1, <2>1, <2>2 DEF Steps
  <2>4. OpAt(Here) = Item.op /\ FeeAt(Here) = Item.fee
    BY <1>1, <1>2, Zenon DEF OpAt, FeeAt
  <2> QED
    BY <1>1, <2>1, <2>2, <2>3, <2>4 DEF ToldRight
<1>3. CASE i \notin DOMAIN frame
  <2>2. /\ Told.op = "STOP" /\ Told.fee = 0 /\ Told.depth = 0 /\ Told.gasLeft = g
        /\ Told = [op |-> "STOP", depth |-> context.depth, fee |-> 0, gasLeft |-> context.gas]
    BY <1>1, <1>3, ToldFields, Zenon
  <2>3. Told \in Steps
    BY <1>1, <2>2 DEF Steps
  <2>4. OpAt(Here) = "STOP" /\ FeeAt(Here) = 0
    BY <1>1, <1>3, Zenon DEF OpAt, FeeAt
  <2> QED
    BY <1>1, <2>2, <2>3, <2>4 DEF ToldRight
<1> QED
  BY <1>2, <1>3

(* in one that it calls, *)
LEMMA ToldWithin ==
  ASSUME frame \in Frames, Flat(frame), NEW i \in 2..(Len(frame) + 1), NEW g \in Nat, NEW k \in Nat,
         frame[i - 1].op = "CALL", NEW m \in 1..(Len(frame[i - 1].frame) + 1),
         context = Within(i, m, g, k)
  PROVE  ToldRight
<1>1. /\ context.gas = g /\ context.depth = 1 /\ Here.outer = i /\ Here.inner = m /\ Kept = k
      /\ AtEnd <=> m \notin DOMAIN frame[i - 1].frame
      /\ Item = frame[i - 1].frame[m]
  BY WithinIs
<1>2. i - 1 \in DOMAIN frame
  <2>1. Len(frame) \in Nat /\ DOMAIN frame = 1..Len(frame)
    BY FrameIs
  <2> QED
    BY <2>1
<1>3. m # 0
  <2>1. Len(frame[i - 1].frame) \in Nat
    BY <1>2, FlatFrameIs
  <2> QED
    BY <2>1
<1>4. CASE m \in DOMAIN frame[i - 1].frame
  <2>1. Item.op = "OP" /\ Item.fee \in Nat \ {0}
    BY <1>1, <1>2, <1>4, FlatFrameIs, Zenon
  <2>2. /\ Told.op = Item.op /\ Told.fee = Item.fee /\ Told.depth = 1 /\ Told.gasLeft = g
        /\ Told = [op |-> Item.op, depth |-> context.depth, fee |-> Item.fee,
                   gasLeft |-> context.gas]
    BY <1>1, <1>4, ToldFields, Zenon
  <2>3. Told \in Steps
    BY <1>1, <2>1, <2>2 DEF Steps
  <2>4. OpAt(Here) = Item.op /\ FeeAt(Here) = Item.fee
    BY <1>1, <1>3, <1>4, <2>1, Zenon DEF OpAt, FeeAt
  <2> QED
    BY <1>1, <1>3, <2>1, <2>2, <2>3, <2>4 DEF ToldRight
<1>5. CASE m \notin DOMAIN frame[i - 1].frame
  <2>2. /\ Told.op = "STOP" /\ Told.fee = 0 /\ Told.depth = 1 /\ Told.gasLeft = g
        /\ Told = [op |-> "STOP", depth |-> context.depth, fee |-> 0, gasLeft |-> context.gas]
    BY <1>1, <1>5, ToldFields, Zenon
  <2>3. Told \in Steps
    BY <1>1, <2>2 DEF Steps
  <2>4. OpAt(Here) = "STOP" /\ FeeAt(Here) = 0
    BY <1>1, <1>3, <1>5, Zenon DEF OpAt, FeeAt
  <2> QED
    BY <1>1, <1>3, <2>2, <2>3, <2>4 DEF ToldRight
<1> QED
  BY <1>4, <1>5

(* and so wherever the machine stands. *)
LEMMA ToldIs == frame \in Frames /\ Flat(frame) /\ Standing => ToldRight
BY ToldAlone, ToldWithin, Zenon DEF Standing, StandingAt
-----------------------------------------------------------------------------
(* Where a contract goes on. *)
LEMMA AloneAt ==
  ASSUME NEW i \in 1..(Len(frame) + 1), NEW g \in Nat
  PROVE  /\ StandingAt(Alone(i, g)) /\ HereOf(Alone(i, g)) = [outer |-> i, inner |-> 0]
         /\ KeptOf(Alone(i, g)) = 0 /\ Alone(i, g).gas = g /\ Alone(i, g).depth = 0
<1>1. Alone(i, g).gas = g /\ Alone(i, g).depth = 0 /\ Alone(i, g).next = i
  BY DEF Alone, Context
<1>2. StandingAt(Alone(i, g))
  BY Zenon DEF StandingAt
<1> QED
  BY <1>1, <1>2, Zenon DEF HereOf, KeptOf

(* And where one goes on that it calls. *)
LEMMA WithinAt ==
  ASSUME NEW i \in 2..(Len(frame) + 1), NEW g \in Nat, NEW k \in Nat, frame[i - 1].op = "CALL",
         NEW m \in 1..(Len(frame[i - 1].frame) + 1)
  PROVE  /\ StandingAt(Within(i, m, g, k))
         /\ HereOf(Within(i, m, g, k)) = [outer |-> i, inner |-> m]
         /\ KeptOf(Within(i, m, g, k)) = k /\ Within(i, m, g, k).gas = g
         /\ Within(i, m, g, k).depth = 1
<1>1. /\ Within(i, m, g, k).gas = g /\ Within(i, m, g, k).depth = 1 /\ Within(i, m, g, k).next = m
      /\ Within(i, m, g, k).caller = Alone(i, k)
  BY DEF Within, Context
<1>2. Alone(i, k).gas = k /\ Alone(i, k).next = i
  BY DEF Alone, Context
<1>3. StandingAt(Within(i, m, g, k))
  BY Zenon DEF StandingAt
<1>4. 1 # 0
  OBVIOUS
<1> QED
  BY <1>1, <1>2, <1>3, <1>4, Zenon DEF HereOf, KeptOf

(* What a step of the machine may be. *)
Goes == OutOfGas \/ Operates \/ CallsOther \/ Returns \/ Succeeds

(* Every step is one of these. *)
LEMMA ExecuteIs ==
  ASSUME frame \in Frames, Flat(frame), Standing, Execute
  PROVE  Goes
<1>1. ToldRight
  BY ToldIs
<1>2. /\ Len(frame) \in Nat /\ DOMAIN frame = 1..Len(frame)
      /\ \A i \in DOMAIN frame : frame[i].op \in {"OP", "CALL"} /\ frame[i].fee \in Nat \ {0}
  BY FrameIs
<1>3. outcome = "running"
  BY DEF Execute
<1>4. CASE ~AtEnd /\ Rest < 0 /\ Ends("outOfGas")
  <2>1. Told.op = Item.op /\ Told.fee = Item.fee /\ outcome' = "outOfGas"
    BY <1>4, ToldFields DEF Ends
  <2>2. context.gas \in Nat /\ Item.fee \in Nat /\ Item.op # "STOP"
    <3>1. CASE \E i \in 1..(Len(frame) + 1) : \E g \in Nat : context = Alone(i, g)
      <4>1. PICK i \in 1..(Len(frame) + 1) : \E g \in Nat : context = Alone(i, g)
        BY <3>1
      <4>2. PICK g \in Nat : context = Alone(i, g)
        BY <4>1
      <4>3. context.gas = g /\ i \in DOMAIN frame /\ Item = frame[i]
        BY <1>4, <4>2, AloneIs
      <4> QED
        BY <1>2, <4>3
    <3>2. CASE \E i \in 2..(Len(frame) + 1) : \E g, k \in Nat :
                 /\ frame[i - 1].op = "CALL"
                 /\ \E m \in 1..(Len(frame[i - 1].frame) + 1) : context = Within(i, m, g, k)
      <4>1. PICK i \in 2..(Len(frame) + 1) : \E g, k \in Nat :
                 /\ frame[i - 1].op = "CALL"
                 /\ \E m \in 1..(Len(frame[i - 1].frame) + 1) : context = Within(i, m, g, k)
        BY <3>2
      <4>2. PICK g \in Nat, k \in Nat :
                 /\ frame[i - 1].op = "CALL"
                 /\ \E m \in 1..(Len(frame[i - 1].frame) + 1) : context = Within(i, m, g, k)
        BY <4>1, Zenon
      <4>3. PICK m \in 1..(Len(frame[i - 1].frame) + 1) : context = Within(i, m, g, k)
        BY <4>2
      <4>4. context.gas = g /\ m \in DOMAIN frame[i - 1].frame /\ Item = frame[i - 1].frame[m]
        BY <1>4, <4>3, WithinIs
      <4>5. i - 1 \in DOMAIN frame
        BY <1>2
      <4>6. Item.op = "OP" /\ Item.fee \in Nat \ {0}
        BY <4>2, <4>4, <4>5, FlatFrameIs, Zenon
      <4> QED
        BY <4>4, <4>6
    <3> QED
      BY <3>1, <3>2, Zenon DEF Standing, StandingAt
  <2>3. context.gas < Item.fee
    BY <1>4, <2>2 DEF Rest
  <2> QED
    BY <2>1, <2>2, <2>3 DEF Goes, OutOfGas
<1>5. CASE \E i \in 1..(Len(frame) + 1) : \E g \in Nat : context = Alone(i, g)
  <2>1. PICK i \in 1..(Len(frame) + 1) : \E g \in Nat : context = Alone(i, g)
    BY <1>5
  <2>2. PICK g \in Nat : context = Alone(i, g)
    BY <2>1
  <2>3. /\ context.frame = frame /\ context.next = i /\ context.gas = g /\ context.depth = 0
        /\ context.caller = <<>> /\ Here.outer = i /\ Here.inner = 0 /\ Kept = 0
        /\ AtEnd <=> i \notin DOMAIN frame
        /\ Item = frame[i]
    <3>1. Here = [outer |-> i, inner |-> 0]
      BY <2>2, AloneIs
    <3>2. Here.outer = i /\ Here.inner = 0
      BY <3>1
    <3> QED
      BY <2>2, <3>2, AloneIs
  <2>4. CASE ~AtEnd /\ Rest >= 0 /\ Item.op = "OP" /\ GoesOn(Onward(Rest))
    <3>1. i \in DOMAIN frame /\ Told.op = "OP" /\ Told.fee = Item.fee /\ Item.fee \in Nat
      BY <1>2, <2>3, <2>4, ToldFields
    <3>2. i + 1 \in 1..(Len(frame) + 1) /\ Rest \in Nat /\ Rest = g - Told.fee /\ g >= Told.fee
      BY <1>2, <2>3, <2>4, <3>1 DEF Rest
    <3>3. context' = Alone(i + 1, Rest) /\ outcome' = "running"
      BY <1>3, <2>3, <2>4, Zenon DEF GoesOn, Onward, Alone
    <3>4. /\ StandingAt(context') /\ HereOf(context') = [outer |-> i + 1, inner |-> 0]
          /\ KeptOf(context') = 0 /\ context'.gas = Rest /\ context'.depth = 0
      BY <3>2, <3>3, AloneAt
    <3>5. OpAt(Here) = "OP"
      BY <1>1, <3>1, Zenon DEF ToldRight
    <3>6. After(Here) = [outer |-> i + 1, inner |-> 0]
      BY <2>3, <3>5 DEF After
    <3> QED
      BY <2>3, <3>1, <3>2, <3>3, <3>4, <3>6 DEF Goes, Operates, Stepped
  <2>5. CASE /\ ~AtEnd /\ Rest >= 0 /\ Item.op = "CALL"
             /\ GoesOn(Context(Item.frame, 1, Passed(Rest), context.depth + 1,
                               Onward(Rest - Passed(Rest))))
    <3>1. i \in DOMAIN frame /\ Told.op = "CALL" /\ Told.fee = Item.fee /\ Item.fee \in Nat
      BY <1>2, <2>3, <2>5, ToldFields
    <3>2. /\ i + 1 \in 2..(Len(frame) + 1) /\ Rest \in Nat /\ Rest = g - Told.fee /\ g >= Told.fee
          /\ i + 1 - 1 = i
      BY <1>2, <2>3, <2>5, <3>1 DEF Rest
    <3>3. Passed(Rest) \in Nat /\ Rest - Passed(Rest) \in Nat
      <4>1. Rest \in Nat
        BY <3>2
      <4>2. Passed(Rest) \in Nat /\ Passed(Rest) <= Rest
        BY <4>1, PassedIsLess
      <4> QED
        BY <4>1, <4>2
    <3>4. 0 + 1 = 1
      OBVIOUS
    <3>5. context' = Within(i + 1, 1, Passed(Rest), Rest - Passed(Rest)) /\ outcome' = "running"
      <4>1. frame[i + 1 - 1] = Item /\ context.depth + 1 = 1
        BY <2>3, <3>2, <3>4, Zenon
      <4>2. Onward(Rest - Passed(Rest)) = Alone(i + 1, Rest - Passed(Rest))
        BY <2>3, Zenon DEF Onward, Alone
      <4>3. Within(i + 1, 1, Passed(Rest), Rest - Passed(Rest))
              = Context(Item.frame, 1, Passed(Rest), 1, Alone(i + 1, Rest - Passed(Rest)))
        BY <4>1 DEF Within
      <4> QED
        BY <1>3, <2>5, <4>1, <4>2, <4>3, Zenon DEF GoesOn
    <3>6. Len(frame[i].frame) \in Nat /\ frame[i].op = "CALL"
      BY <2>3, <2>5, <3>1, FlatFrameIs
    <3>7. 1 \in 1..(Len(frame[i].frame) + 1)
      BY <3>6
    <3>8. /\ StandingAt(context') /\ HereOf(context') = [outer |-> i + 1, inner |-> 1]
          /\ KeptOf(context') = Rest - Passed(Rest) /\ context'.gas = Passed(Rest)
          /\ context'.depth = 1
      <4>1. frame[i + 1 - 1].op = "CALL" /\ 1 \in 1..(Len(frame[i + 1 - 1].frame) + 1)
        BY <3>2, <3>6, <3>7, Zenon
      <4> DEFINE w == Within(i + 1, 1, Passed(Rest), Rest - Passed(Rest))
      <4>2. /\ StandingAt(w) /\ HereOf(w) = [outer |-> i + 1, inner |-> 1]
            /\ KeptOf(w) = Rest - Passed(Rest) /\ w.gas = Passed(Rest) /\ w.depth = 1
        BY <3>2, <3>3, <4>1, WithinAt, SMTT(60)
      <4> HIDE DEF w
      <4>3. context' = w
        BY <3>5 DEF w
      <4> QED
        BY <4>2, <4>3, Zenon
    <3>9. OpAt(Here) = "CALL"
      BY <1>1, <3>1, Zenon DEF ToldRight
    <3>10. After(Here) = [outer |-> i + 1, inner |-> 1]
      BY <2>3, <3>9 DEF After
    <3>11. Rest = context.gas - Told.fee
      BY <2>3, <3>2
    <3>12. Stepped(Passed(context.gas - Told.fee),
                   context.gas - Told.fee - Passed(context.gas - Told.fee), 1)
      BY <3>5, <3>8, <3>10, <3>11, Zenon DEF Stepped
    <3>13. context.gas >= Told.fee
      BY <2>3, <3>2, Zenon
    <3> QED
      BY <2>3, <3>1, <3>12, <3>13, Zenon DEF Goes, CallsOther
  <2>6. CASE AtEnd /\ context.depth > 0 /\ GoesOn(Returned)
    BY <2>3, <2>6
  <2>7. CASE AtEnd /\ context.depth = 0 /\ Ends("success")
    BY <2>7, ToldFields DEF Goes, Succeeds, Ends
  <2> QED
    BY <1>4, <2>4, <2>5, <2>6, <2>7, Zenon DEF Execute
<1>6. CASE \E i \in 2..(Len(frame) + 1) : \E g, k \in Nat :
             /\ frame[i - 1].op = "CALL"
             /\ \E m \in 1..(Len(frame[i - 1].frame) + 1) : context = Within(i, m, g, k)
  <2>1. PICK i \in 2..(Len(frame) + 1) : \E g, k \in Nat :
             /\ frame[i - 1].op = "CALL"
             /\ \E m \in 1..(Len(frame[i - 1].frame) + 1) : context = Within(i, m, g, k)
    BY <1>6
  <2>2. PICK g \in Nat, k \in Nat :
             /\ frame[i - 1].op = "CALL"
             /\ \E m \in 1..(Len(frame[i - 1].frame) + 1) : context = Within(i, m, g, k)
    BY <2>1, Zenon
  <2>3. PICK m \in 1..(Len(frame[i - 1].frame) + 1) : context = Within(i, m, g, k)
    BY <2>2
  <2>4. /\ context.frame = frame[i - 1].frame /\ context.next = m /\ context.gas = g
        /\ context.depth = 1 /\ context.caller = Alone(i, k)
        /\ context.caller.next = i /\ context.caller.gas = k /\ context.caller.frame = frame
        /\ context.caller.depth = 0 /\ context.caller.caller = <<>>
        /\ Here = [outer |-> i, inner |-> m] /\ Kept = k
        /\ AtEnd <=> m \notin DOMAIN frame[i - 1].frame
        /\ Item = frame[i - 1].frame[m]
    BY <2>3, WithinIs
  <2>5. Here.outer = i /\ Here.inner = m
    BY <2>4
  <2>6. i - 1 \in DOMAIN frame /\ i \in 1..(Len(frame) + 1)
    BY <1>2
  <2>7. /\ Len(frame[i - 1].frame) \in Nat
        /\ DOMAIN frame[i - 1].frame = 1..Len(frame[i - 1].frame)
        /\ \A j \in DOMAIN frame[i - 1].frame : /\ frame[i - 1].frame[j].op = "OP"
                                                /\ frame[i - 1].frame[j].fee \in Nat \ {0}
    BY <2>2, <2>6, FlatFrameIs
  <2>8. m # 0
    BY <2>7
  <2>9. CASE ~AtEnd /\ Rest >= 0 /\ Item.op = "OP" /\ GoesOn(Onward(Rest))
    <3>1. /\ m \in DOMAIN frame[i - 1].frame /\ Told.op = "OP" /\ Told.fee = Item.fee
          /\ Item.fee \in Nat
      BY <2>4, <2>7, <2>9, ToldFields
    <3>2. /\ m + 1 \in 1..(Len(frame[i - 1].frame) + 1) /\ Rest \in Nat /\ Rest = g - Told.fee
          /\ g >= Told.fee
      <4>1. m + 1 \in 1..(Len(frame[i - 1].frame) + 1)
        BY <2>7, <3>1
      <4>2. Rest = g - Item.fee
        BY <2>4 DEF Rest
      <4> QED
        BY <2>9, <3>1, <4>1, <4>2
    <3>3. context' = Within(i, m + 1, Rest, k) /\ outcome' = "running"
      BY <1>3, <2>4, <2>9, Zenon DEF GoesOn, Onward, Within
    <3>4. /\ StandingAt(context') /\ HereOf(context') = [outer |-> i, inner |-> m + 1]
          /\ KeptOf(context') = k /\ context'.gas = Rest /\ context'.depth = 1
      <4> DEFINE w == Within(i, m + 1, Rest, k)
      <4>1. /\ StandingAt(w) /\ HereOf(w) = [outer |-> i, inner |-> m + 1]
            /\ KeptOf(w) = k /\ w.gas = Rest /\ w.depth = 1
        <5> DEFINE j == m + 1
                   r == Rest
        <5>1. frame[i - 1].op = "CALL" /\ j \in 1..(Len(frame[i - 1].frame) + 1) /\ r \in Nat
          BY <2>2, <3>2
        <5> HIDE DEF j, r
        <5>2. /\ StandingAt(Within(i, j, r, k))
              /\ HereOf(Within(i, j, r, k)) = [outer |-> i, inner |-> j]
              /\ KeptOf(Within(i, j, r, k)) = k /\ Within(i, j, r, k).gas = r
              /\ Within(i, j, r, k).depth = 1
          BY <5>1, WithinAt, ZenonT(60)
        <5> QED
          BY <5>2, Zenon DEF j, r
      <4> HIDE DEF w
      <4>2. context' = w
        BY <3>3 DEF w
      <4> QED
        BY <4>1, <4>2, Zenon
    <3>5. OpAt(Here) = "OP"
      BY <1>1, <3>1, Zenon DEF ToldRight
    <3>6. After(Here) = [outer |-> i, inner |-> m + 1]
      BY <2>5, <2>8, <3>5 DEF After
    <3> QED
      BY <2>4, <3>1, <3>2, <3>3, <3>4, <3>6 DEF Goes, Operates, Stepped
  <2>10. CASE /\ ~AtEnd /\ Rest >= 0 /\ Item.op = "CALL"
              /\ GoesOn(Context(Item.frame, 1, Passed(Rest), context.depth + 1,
                                Onward(Rest - Passed(Rest))))
    <3>1. m \in DOMAIN frame[i - 1].frame /\ frame[i - 1].frame[m].op = "CALL"
      BY <2>4, <2>10, Zenon
    <3>2. frame[i - 1].frame[m].op = "OP"
      BY <2>7, <3>1, Zenon
    <3> QED
      BY <3>1, <3>2
  <2>11. CASE AtEnd /\ context.depth > 0 /\ GoesOn(Returned)
    <3>1. context' = Alone(i, k + g) /\ outcome' = "running" /\ Told.op = "STOP"
      BY <1>3, <2>4, <2>11, ToldFields, Zenon DEF GoesOn, Returned, Alone
    <3>2. k + g \in Nat
      OBVIOUS
    <3>3. /\ StandingAt(context') /\ HereOf(context') = [outer |-> i, inner |-> 0]
          /\ KeptOf(context') = 0 /\ context'.gas = k + g /\ context'.depth = 0
      BY <2>6, <3>1, <3>2, AloneAt, Zenon
    <3>4. OpAt(Here) = "STOP"
      BY <1>1, <3>1, Zenon DEF ToldRight
    <3>5. After(Here) = [outer |-> i, inner |-> 0]
      BY <2>5, <3>4 DEF After
    <3> QED
      BY <2>4, <3>1, <3>3, <3>5, Zenon DEF Goes, Returns, Stepped
  <2>12. CASE AtEnd /\ context.depth = 0 /\ Ends("success")
    BY <2>4, <2>12
  <2> QED
    BY <1>4, <2>9, <2>10, <2>11, <2>12, Zenon DEF Execute
<1> QED
  BY <1>5, <1>6, Zenon DEF Standing, StandingAt
-----------------------------------------------------------------------------
(* The transaction that was sent takes the way of the run that was watched. *)
LEMMA OuterGoesOn ==
  ASSUME Whole, NEW p \in DOMAIN ops, p + 1 \in DOMAIN ops, ops[p].op = "OP", ops[p].depth = 0,
         NEW g \in Int
  PROVE  Enough(p, g) <=> Enough(p + 1, g - ops[p].fee)
<1> DEFINE n == Len(ops)
           left(a) == ops[a].gasLeft
           fee == ops[p].fee
           Pays(a) == Passed(g - (left(p) - left(a)) - ops[a].fee) >= Cost(a)
           PaysAfter(a) == Passed(g - fee - (left(p + 1) - left(a)) - ops[a].fee) >= Cost(a)
<1>1. n \in Nat /\ DOMAIN ops = 1..n /\ n \in DOMAIN ops
  BY Typed
<1>2. \A a \in DOMAIN ops : a \in Nat /\ left(a) \in Nat /\ ops[a].fee \in Nat
  BY Typed
<1>3. left(p + 1) = left(p) - fee
  BY Follows, Zenon DEF Whole
<1>4. left(p) \in Nat /\ left(p + 1) \in Nat /\ fee \in Nat /\ left(n) \in Nat
  BY <1>1, <1>2
<1>5. \A a \in DOMAIN ops : Pays(a) <=> PaysAfter(a)
  <2> TAKE a \in DOMAIN ops
  <2>1. left(a) \in Nat /\ ops[a].fee \in Nat
    BY <1>2
  <2> DEFINE fee_a == ops[a].fee
  <2> HIDE DEF left, fee, fee_a
  <2>2. g - fee - (left(p + 1) - left(a)) - fee_a = g - (left(p) - left(a)) - fee_a
    BY <1>3, <1>4, <2>1 DEF fee_a
  <2> QED
    BY <2>2, Zenon DEF fee_a
<1>6. g >= left(p) - left(n) <=> g - fee >= left(p + 1) - left(n)
  <2> HIDE DEF left, fee, n
  <2> QED
    BY <1>3, <1>4
<1>7. \A a \in DOMAIN ops : ops[a].op = "CALL" => (a >= p <=> a >= p + 1)
  BY <1>2
<1>8. Enough(p, g) <=> /\ g >= left(p) - left(n)
                       /\ \A a \in DOMAIN ops : a >= p /\ ops[a].op = "CALL" => Pays(a)
  BY Zenon DEF Enough
<1>9. Enough(p + 1, g - fee) <=>
        /\ g - fee >= left(p + 1) - left(n)
        /\ \A a \in DOMAIN ops : a >= p + 1 /\ ops[a].op = "CALL" => PaysAfter(a)
  BY Zenon DEF Enough
<1> HIDE DEF left, fee, n, Pays, PaysAfter
<1>10. Enough(p, g) <=> Enough(p + 1, g - fee)
  BY <1>5, <1>6, <1>7, <1>8, <1>9, Zenon
<1> QED
  BY <1>10, Zenon DEF fee

(* An operation of a contract called leaves the end of that where it is, *)
LEMMA InnerGoesOn ==
  ASSUME Whole, NEW p \in DOMAIN ops, p + 1 \in DOMAIN ops, ops[p].op = "OP", ops[p].depth = 1
  PROVE  /\ ops[p + 1].depth = 1 /\ EndOf(p + 1) = EndOf(p)
         /\ ops[p + 1].gasLeft = ops[p].gasLeft - ops[p].fee
<1> DEFINE e == EndOf(p)
<1>1. /\ e \in DOMAIN ops /\ p <= e /\ ops[e].op = "STOP"
      /\ \A q \in p..(e - 1) : ops[q].op = "OP"
  BY EndOfIs
<1>2. ops[p + 1].depth = 1 /\ ops[p + 1].gasLeft = ops[p].gasLeft - ops[p].fee
  BY Follows, Zenon DEF Whole
<1> HIDE DEF e
<1>3. DOMAIN ops \subseteq Nat
  BY Typed
<1>4. p # e
  BY <1>1
<1>5. p + 1 <= e /\ \A q \in (p + 1)..(e - 1) : q \in p..(e - 1)
  BY <1>1, <1>3, <1>4
<1>6. EndOf(p + 1) = e
  BY <1>1, <1>5, OneEnd
<1> QED
  BY <1>2, <1>6 DEF e

(* so that what was enough before an operation is enough after it, less its fee; *)
LEMMA OpGoesOn ==
  ASSUME Whole, NEW p \in DOMAIN ops, p + 1 \in DOMAIN ops, ops[p].op = "OP",
         NEW g \in Int, NEW k \in Int
  PROVE  Suffices(p, g, k) <=> Suffices(p + 1, g - ops[p].fee, k)
<1>1. CASE ops[p].depth = 0
  <2>1. ops[p + 1].depth = 0
    BY <1>1, Follows, Zenon DEF Whole
  <2>2. Enough(p, g) <=> Enough(p + 1, g - ops[p].fee)
    BY <1>1, OuterGoesOn
  <2> QED
    BY <1>1, <2>1, <2>2, Zenon DEF Suffices
<1>2. CASE ops[p].depth = 1
  <2> DEFINE e == EndOf(p)
             left == g - (ops[p].gasLeft - ops[e].gasLeft)
             leftAfter == g - ops[p].fee - (ops[p + 1].gasLeft - ops[e].gasLeft)
  <2>1. /\ ops[p + 1].depth = 1 /\ EndOf(p + 1) = e
        /\ ops[p + 1].gasLeft = ops[p].gasLeft - ops[p].fee
    BY <1>2, InnerGoesOn
  <2>2. e \in DOMAIN ops
    BY <1>2, EndOfIs
  <2>3. /\ ops[p].gasLeft \in Nat /\ ops[p + 1].gasLeft \in Nat /\ ops[p].fee \in Nat
        /\ ops[e].gasLeft \in Nat
    BY <2>2, Typed
  <2>4. left = leftAfter
    <3> DEFINE gp == ops[p].gasLeft
               gq == ops[p + 1].gasLeft
               fp == ops[p].fee
               ge == ops[e].gasLeft
    <3>1. gp \in Nat /\ gq \in Nat /\ fp \in Nat /\ ge \in Nat /\ gq = gp - fp
      BY <2>1, <2>3
    <3> HIDE DEF gp, gq, fp, ge
    <3>2. g - (gp - ge) = g - fp - (gq - ge)
      BY <3>1
    <3> QED
      BY <3>2 DEF gp, gq, fp, ge
  <2>5. ops[p].depth # 0 /\ ops[p + 1].depth # 0
    BY <1>2, <2>1
  <2>6. Suffices(p, g, k) <=> left >= 0 /\ Enough(e + 1, k + left)
    BY <2>5, Zenon DEF Suffices
  <2>7. Suffices(p + 1, g - ops[p].fee, k) <=> leftAfter >= 0 /\ Enough(e + 1, k + leftAfter)
    <3> HIDE DEF e
    <3>1. Suffices(p + 1, g - ops[p].fee, k) <=>
            LET l == g - ops[p].fee - (ops[p + 1].gasLeft - ops[EndOf(p + 1)].gasLeft)
            IN  l >= 0 /\ Enough(EndOf(p + 1) + 1, k + l)
      BY <2>5, Zenon DEF Suffices
    <3> QED
      BY <2>1, <3>1, Zenon
  <2> HIDE DEF left, leftAfter, e
  <2> QED
    BY <2>4, <2>6, <2>7, Zenon
<1> QED
  BY <1>1, <1>2, Typed

(* what was enough for a call is enough for what it is passed and the caller keeps; *)
LEMMA CallGoesOn ==
  ASSUME Whole, NEW b \in DOMAIN ops, ops[b].op = "CALL", NEW g \in Int, NEW k
  PROVE  LET s == g - ops[b].fee IN
         Suffices(b, g, k) <=> Suffices(b + 1, Passed(s), s - Passed(s))
<1> DEFINE e == EndOf(b + 1)
           c == Cost(b)
           s == g - ops[b].fee
           left == Passed(s) - (ops[b + 1].gasLeft - ops[e].gasLeft)
<1>1. /\ b + 1 \in DOMAIN ops /\ e \in DOMAIN ops /\ e + 1 \in DOMAIN ops /\ b + 1 <= e
      /\ ops[b].depth = 0 /\ ops[b + 1].depth = 1
      /\ c \in Nat /\ c = ops[b + 1].gasLeft - ops[e].gasLeft
  BY CallIs, Zenon
<1>2. ops[b].gasLeft \in Nat /\ ops[b].fee \in Nat /\ b \in Nat
  BY Typed
<1>3. s \in Int /\ Passed(s) \in Int
  BY <1>2 DEF Passed
<1>4. g - (ops[b].gasLeft - ops[b].gasLeft) - ops[b].fee = s
  BY <1>2
<1>5. Suffices(b, g, k) <=> Enough(b, g)
  BY <1>1, Zenon DEF Suffices
<1>6. ops[b + 1].depth # 0
  BY <1>1
<1>7. Suffices(b + 1, Passed(s), s - Passed(s)) <=>
        left >= 0 /\ Enough(e + 1, s - Passed(s) + left)
  BY <1>6, Zenon DEF Suffices
<1>8. left = Passed(s) - c
  BY <1>1, Zenon
<1> HIDE DEF left
<1>9. Enough(b, g) <=> Passed(s) >= c /\ Enough(e + 1, s - c)
  <2>1. b <= b
    BY <1>2
  <2>2. Enough(b, g) <=>
          /\ \A a \in DOMAIN ops : a >= b /\ a < b /\ ops[a].op = "CALL" =>
               Passed(g - (ops[b].gasLeft - ops[a].gasLeft) - ops[a].fee) >= Cost(a)
          /\ Passed(g - (ops[b].gasLeft - ops[b].gasLeft) - ops[b].fee) >= c
          /\ Enough(e + 1, g - (ops[b].gasLeft - ops[b].gasLeft) - ops[b].fee - c)
    BY <2>1, EnoughOfCall, Zenon
  <2>3. \A a \in DOMAIN ops : ~(a >= b /\ a < b)
    BY Typed
  <2> HIDE DEF s, c, e
  <2> QED
    BY <1>4, <2>2, <2>3, Zenon
<1> HIDE DEF s, c, e
<1>10. left >= 0 <=> Passed(s) >= c
  BY <1>1, <1>3, <1>8
<1>11. s - Passed(s) + left = s - c
  BY <1>1, <1>3, <1>8
<1> QED
  BY <1>5, <1>7, <1>9, <1>10, <1>11, Zenon DEF s

(* what was enough for both of these is enough for the caller with what is given back; *)
LEMMA ReturnGoesOn ==
  ASSUME Whole, NEW p \in DOMAIN ops, p + 1 \in DOMAIN ops, ops[p].op = "STOP",
         NEW g \in Nat, NEW k \in Nat
  PROVE  Suffices(p, g, k) <=> Suffices(p + 1, k + g, 0)
<1>1. ops[p].depth = 1 /\ ops[p + 1].depth = 0
  BY Follows, Zenon DEF Whole
<1>2. DOMAIN ops \subseteq Nat
  BY Typed
<1>3. p <= p /\ \A q \in p..(p - 1) : ops[q].op = "OP"
  BY <1>2
<1>4. EndOf(p) = p
  BY <1>3, OneEnd
<1>5. ops[p].gasLeft \in Nat
  BY Typed
<1>6. g - (ops[p].gasLeft - ops[p].gasLeft) = g /\ g >= 0
  BY <1>5
<1>7. ops[p].depth # 0
  BY <1>1
<1>8. Suffices(p, g, k) <=>
        LET l == g - (ops[p].gasLeft - ops[EndOf(p)].gasLeft)
        IN  l >= 0 /\ Enough(EndOf(p) + 1, k + l)
  BY <1>7, Zenon DEF Suffices
<1>9. Suffices(p, g, k) <=> Enough(p + 1, k + g)
  BY <1>4, <1>6, <1>8, Zenon
<1> QED
  BY <1>1, <1>9, Zenon DEF Suffices

(* at the end any gas is enough; *)
LEMMA EndSuffices ==
  ASSUME Whole, NEW p \in DOMAIN ops, ops[p].op = "STOP", ops[p].depth = 0, NEW g \in Nat, NEW k
  PROVE  p = Len(ops) /\ Suffices(p, g, k)
<1>1. Len(ops) \in Nat /\ DOMAIN ops = 1..Len(ops) /\ p \in Nat /\ ops[p].gasLeft \in Nat
  BY Typed
<1>2. ASSUME p + 1 \in DOMAIN ops PROVE FALSE
  <2>1. ops[p].depth = 1
    BY <1>2, Follows, Zenon DEF Whole
  <2> QED
    BY <2>1
<1>3. p = Len(ops)
  BY <1>1, <1>2
<1>4. g >= ops[p].gasLeft - ops[Len(ops)].gasLeft
  BY <1>1, <1>3
<1>5. \A a \in DOMAIN ops : a >= p /\ ops[a].op = "CALL" => FALSE
  <2> TAKE a \in DOMAIN ops
  <2>1. a >= p => a = p
    BY <1>1, <1>3
  <2> QED
    BY <2>1
<1>6. Enough(p, g)
  BY <1>4, <1>5, Zenon DEF Enough
<1> QED
  BY <1>3, <1>6, Zenon DEF Suffices

(* and gas that does not pay for the operation never is. *)
LEMMA TooLittle ==
  ASSUME Whole, NEW p \in DOMAIN ops, ops[p].op # "STOP", NEW g \in Int, g < ops[p].fee, NEW k
  PROVE  ~Suffices(p, g, k)
<1>1. /\ Len(ops) \in Nat /\ DOMAIN ops = 1..Len(ops) /\ p \in Nat /\ Len(ops) \in DOMAIN ops
      /\ ops[p].gasLeft \in Nat /\ ops[p].fee \in Nat /\ ops[Len(ops)].gasLeft \in Nat
      /\ ops[Len(ops)].op = "STOP" /\ ops[Len(ops)].depth = 0
      /\ Falling(ops)
  BY Typed DEF Whole, Linked
<1>2. CASE ops[p].depth = 0
  <2>1. p < Len(ops)
    BY <1>1
  <2>2. ops[p].gasLeft >= ops[Len(ops)].gasLeft + ops[p].fee
    BY <1>1, <1>2, <2>1, Zenon DEF Falling
  <2>3. ~ (g >= ops[p].gasLeft - ops[Len(ops)].gasLeft)
    <3> DEFINE gp == ops[p].gasLeft
               fp == ops[p].fee
               gn == ops[Len(ops)].gasLeft
    <3>1. gp \in Nat /\ fp \in Nat /\ gn \in Nat /\ gp >= gn + fp /\ g < fp
      BY <1>1, <2>2
    <3> HIDE DEF gp, fp, gn
    <3>2. ~ (g >= gp - gn)
      BY <3>1
    <3> QED
      BY <3>2 DEF gp, gn
  <2> QED
    BY <1>2, <2>3, Zenon DEF Suffices, Enough
<1>3. CASE ops[p].depth = 1
  <2> DEFINE e == EndOf(p)
  <2>1. /\ e \in DOMAIN ops /\ p <= e /\ ops[e].op = "STOP"
        /\ \A q \in p..(e - 1) : ops[q].op = "OP"
    BY <1>3, EndOfIs
  <2> HIDE DEF e
  <2>2. p < e /\ e \in Nat /\ ops[e].gasLeft \in Nat
    <3>1. p # e
      BY <2>1
    <3>2. e \in Nat /\ ops[e].gasLeft \in Nat
      BY <2>1, Typed
    <3> QED
      BY <1>1, <2>1, <3>1, <3>2
  <2>3. ops[p].gasLeft >= ops[e].gasLeft + ops[p].fee
    BY <1>1, <2>1, <2>2, Zenon DEF Falling
  <2>4. ~ (g - (ops[p].gasLeft - ops[e].gasLeft) >= 0)
    <3> DEFINE gp == ops[p].gasLeft
               fp == ops[p].fee
               ge == ops[e].gasLeft
    <3>1. gp \in Nat /\ fp \in Nat /\ ge \in Nat /\ gp >= ge + fp /\ g < fp
      BY <1>1, <2>2, <2>3
    <3> HIDE DEF gp, fp, ge
    <3>2. ~ (g - (gp - ge) >= 0)
      BY <3>1
    <3> QED
      BY <3>2 DEF gp, ge
  <2>5. ops[p].depth # 0
    BY <1>3
  <2> QED
    BY <2>4, <2>5, Zenon DEF Suffices, e
<1> QED
  BY <1>2, <1>3, Typed
-----------------------------------------------------------------------------
(* A step of the run that is watched goes on where the one before ended. *)
LEMMA NextLinks ==
  ASSUME ops \in Seq(Steps), Linked(Append(ops, Told)), CallerKept, ToldRight, ToldRight',
         Operates \/ CallsOther \/ Returns
  PROVE  Links(Append(ops, Told), Told')
<1> DEFINE s == Append(ops, Told)
           x == Told'
           n == Len(s)
<1>1. Told \in Steps /\ Told.gasLeft = context.gas /\ Told.depth = context.depth
  BY Zenon DEF ToldRight
<1>2. /\ x \in Steps /\ x.gasLeft = context'.gas /\ x.depth = context'.depth
      /\ (x.op # "STOP" => x.fee >= 1) /\ (x.op = "CALL" => x.depth = 0)
  BY Zenon DEF ToldRight
<1>3. /\ s \in Seq(Steps) /\ n = Len(ops) + 1 /\ Len(ops) \in Nat /\ s[Len(ops) + 1] = Told
  BY <1>1, AppendProperties, LenProperties
<1>4. n \in Nat \ {0} /\ s[n] = Told
  BY <1>3
<1>5. CASE Operates
  <2>1. Told.op = "OP" /\ context'.gas = context.gas - Told.fee /\ context'.depth = context.depth
    BY <1>5, Zenon DEF Operates, Stepped
  <2>2. Told.op # "CALL" /\ Told.op # "STOP"
    BY <2>1
  <2> HIDE DEF s, x, n
  <2>3. s[n].op = "OP" /\ x.depth = s[n].depth /\ x.gasLeft = s[n].gasLeft - s[n].fee
    BY <1>1, <1>2, <1>4, <2>1, Zenon
  <2> QED
    BY <1>2, <1>4, <2>3 DEF Links, s, x, n
<1>6. CASE CallsOther
  <2>1. /\ Told.op = "CALL" /\ context.gas >= Told.fee /\ context'.depth = 1
        /\ context'.gas = Passed(context.gas - Told.fee)
    BY <1>6, Zenon DEF CallsOther, Stepped
  <2> HIDE DEF s, x, n
  <2>2. /\ s[n].op = "CALL" /\ x.depth = 1 /\ s[n].gasLeft >= s[n].fee
        /\ x.gasLeft = Passed(s[n].gasLeft - s[n].fee)
    BY <1>1, <1>2, <1>4, <2>1, Zenon
  <2> QED
    BY <1>2, <1>4, <2>2 DEF Links, s, x, n
<1>7. CASE Returns
  <2>1. /\ Told.op = "STOP" /\ context.depth = 1 /\ context'.depth = 0
        /\ context'.gas = Kept + context.gas
    BY <1>7, Zenon DEF Returns, Stepped
  <2>2. PICK b \in DOMAIN s : Encloses(s, b, n) /\ Kept = s[b].gasLeft - s[b].fee - s[b + 1].gasLeft
    BY <2>1, Zenon DEF CallerKept, KeptIn
  <2> HIDE DEF s, x, n
  <2>3. s[n].op = "STOP" /\ s[n].depth = 1 /\ x.depth = 0
    BY <1>1, <1>2, <1>4, <2>1, Zenon
  <2>4. x.gasLeft = s[b].gasLeft - s[b].fee - s[b + 1].gasLeft + s[n].gasLeft
    BY <1>1, <1>2, <1>4, <2>1, <2>2, Zenon
  <2>5. \E c \in DOMAIN s :
          /\ Encloses(s, c, n)
          /\ x.gasLeft = s[c].gasLeft - s[c].fee - s[c + 1].gasLeft + s[n].gasLeft
    BY <2>2, <2>4, Zenon
  <2>6. s[n].op # "OP" /\ s[n].op # "CALL"
    BY <2>3
  <2>7. n # 0
    BY <1>4
  <2> QED
    BY <1>2, <2>3, <2>5, <2>6, <2>7, Zenon DEF Links, s, x, n
<1> QED
  BY <1>5, <1>6, <1>7

(* And what the caller keeps is known. *)
LEMMA NextKept ==
  ASSUME NEW s \in Seq(Steps), s # <<>>, NEW x \in Steps, s[Len(s)] = Told,
         KeptIn(s, Kept) \/ context.depth # 1, ToldRight, x = Told', ToldRight',
         Operates \/ CallsOther \/ Returns, context'.depth = 1
  PROVE  KeptIn(Append(s, x), Kept')
<1> DEFINE t == Append(s, x)
           n == Len(s)
<1>1. Grown(s, x, t)
  BY AppendGrows
<1>2. /\ n \in Nat \ {0} /\ DOMAIN s = 1..n /\ DOMAIN t = 1..(n + 1)
      /\ Len(t) = n + 1 /\ t[n + 1] = x /\ \A i \in DOMAIN s : t[i] = s[i]
  <2>1. n \in Nat \ {0} /\ DOMAIN s = 1..n
    BY LenProperties, EmptySeq
  <2>2. Len(t) = n + 1
    BY AppendProperties
  <2> QED
    BY <1>1, <2>1, <2>2, Zenon DEF Grown
<1> HIDE DEF t, n
<1>3. Kept' = KeptOf(context')
  BY DEF Kept
<1>4. CASE Operates
  <2>1. /\ Told.op = "OP" /\ Kept' = Kept /\ context.depth = 1
    BY <1>3, <1>4, Zenon DEF Operates, Stepped
  <2>2. PICK b \in DOMAIN s : Encloses(s, b, n) /\ Kept = s[b].gasLeft - s[b].fee - s[b + 1].gasLeft
    BY <2>1, Zenon DEF KeptIn, n
  <2>3. b < n
    BY <2>2, Zenon DEF Encloses
  <2>4. b \in DOMAIN t /\ b + 1 \in DOMAIN s /\ n # 0
    BY <1>2, <2>3
  <2>5. Encloses(t, b, n + 1)
    <3>1. s[n].op = "OP"
      BY <2>1 DEF n
    <3> QED
      BY <1>1, <2>2, <2>4, <3>1, EnclosesLast, Zenon DEF n
  <2>6. Kept' = t[b].gasLeft - t[b].fee - t[b + 1].gasLeft
    BY <1>2, <2>1, <2>2, <2>4, Zenon
  <2>7. KeptIn(t, Kept')
    BY <1>2, <2>4, <2>5, <2>6, Zenon DEF KeptIn
  <2> QED
    BY <2>7 DEF t
<1>5. CASE CallsOther
  <2>1. /\ Told.op = "CALL" /\ context'.gas = Passed(context.gas - Told.fee)
        /\ Kept' = context.gas - Told.fee - Passed(context.gas - Told.fee)
    BY <1>3, <1>5, Zenon DEF CallsOther, Stepped
  <2>2. Told.gasLeft = context.gas /\ x.gasLeft = context'.gas
    BY Zenon DEF ToldRight
  <2>3. n \in DOMAIN s /\ n \in DOMAIN t /\ s[n] = Told
    BY <1>2 DEF n
  <2>4. Encloses(t, n, n + 1)
    <3>1. s[n].op = "CALL"
      BY <2>1, <2>3
    <3> QED
      BY <1>1, <2>3, <3>1, EnclosesLast, Zenon DEF n
  <2>5. Kept' = t[n].gasLeft - t[n].fee - t[n + 1].gasLeft
    BY <1>2, <2>1, <2>2, <2>3, Zenon
  <2>6. KeptIn(t, Kept')
    BY <1>2, <2>3, <2>4, <2>5, Zenon DEF KeptIn
  <2> QED
    BY <2>6 DEF t
<1>6. CASE Returns
  <2>1. context'.depth = 0
    BY <1>6, Zenon DEF Returns, Stepped
  <2> QED
    BY <2>1
<1> QED
  BY <1>4, <1>5, <1>6

(* Both together. *)
LEMMA TraceGrows ==
  ASSUME ops \in Seq(Steps), Linked(Append(ops, Told)), CallerKept, ToldRight, ToldRight',
         ops' = Append(ops, Told), Operates \/ CallsOther \/ Returns
  PROVE  Linked(Append(ops', Told')) /\ CallerKept'
<1>1. Links(ops', Told')
  <2>1. Links(Append(ops, Told), Told')
    BY NextLinks
  <2> QED
    BY <2>1
<1>2. Linked(ops')
  OBVIOUS
<1>3. Linked(Append(ops', Told'))
  BY <1>1, <1>2, LinkedGrows
<1>4. ASSUME context'.depth = 1
      PROVE  KeptIn(Append(ops', Told'), Kept')
  <2>1. Told \in Steps /\ Told' \in Steps
    BY Zenon DEF ToldRight
  <2>2. /\ ops' \in Seq(Steps) /\ ops' # <<>> /\ ops'[Len(ops')] = Told
    <3>1. /\ Len(Append(ops, Told)) = Len(ops) + 1 /\ Append(ops, Told)[Len(ops) + 1] = Told
          /\ Append(ops, Told) \in Seq(Steps) /\ Append(ops, Told) # <<>>
      BY <2>1, AppendProperties
    <3> QED
      BY <3>1, Zenon
  <2>3. KeptIn(ops', Kept) \/ context.depth # 1
    BY Zenon DEF CallerKept
  <2> QED
    BY <1>4, <2>1, <2>2, <2>3, NextKept
<1> QED
  BY <1>3, <1>4, Zenon DEF CallerKept
-----------------------------------------------------------------------------
(* A step is told: the steps there are then, *)
LEMMA OpsGrow ==
  ASSUME ops \in Seq(Steps), Told \in Steps, ops' = Append(ops, Told)
  PROVE  /\ Len(ops) \in Nat /\ DOMAIN ops = 1..Len(ops) /\ Len(ops') = Len(ops) + 1
         /\ DOMAIN ops' = 1..(Len(ops) + 1) /\ ops' \in Seq(Steps) /\ ops' # <<>>
         /\ ops'[Len(ops) + 1] = Told /\ \A p \in DOMAIN ops : ops'[p] = ops[p]
         /\ \A p \in DOMAIN ops : ops[p].gasLeft \in Nat
<1>1. Grown(ops, Told, Append(ops, Told))
  BY AppendGrows
<1>2. Len(Append(ops, Told)) = Len(ops) + 1 /\ Append(ops, Told) \in Seq(Steps)
  BY AppendProperties
<1>3. \A p \in DOMAIN ops : ops[p].gasLeft \in Nat
  BY <1>1 DEF Grown, Steps
<1>4. Append(ops, Told) # <<>>
  BY AppendProperties
<1> QED
  BY <1>1, <1>2, <1>3, <1>4, Zenon DEF Grown

(* the places of the system operations, *)
LEMMA IndexGrows ==
  ASSUME ops \in Seq(Steps), Told \in Steps, ops' = Append(ops, Told), Indexed,
         systemOps' = IF Told.op = "OP" THEN systemOps ELSE Append(systemOps, Len(ops) + 1)
  PROVE  Indexed'
<1> DEFINE n == Len(ops)
           c == Len(systemOps)
<1>1. /\ n \in Nat /\ DOMAIN ops = 1..n /\ DOMAIN ops' = 1..(n + 1) /\ ops'[n + 1] = Told
      /\ \A p \in DOMAIN ops : ops'[p] = ops[p]
  BY OpsGrow
<1>2. systemOps \in Seq(DOMAIN ops) /\ c \in Nat /\ DOMAIN systemOps = 1..c
  <2>1. systemOps \in Seq(DOMAIN ops)
    BY Zenon DEF Indexed
  <2> QED
    BY <2>1, LenProperties
<1>3. \A i \in DOMAIN systemOps : systemOps[i] \in 1..n
  BY <1>1, <1>2, ElementOfSeq
<1>4. \A i, j \in DOMAIN systemOps : i < j => systemOps[i] < systemOps[j]
  BY Zenon DEF Indexed
<1>5. \A p \in DOMAIN ops : ops[p].op # "OP" <=> \E i \in DOMAIN systemOps : systemOps[i] = p
  BY Zenon DEF Indexed
<1> HIDE DEF n
<1>6. DOMAIN ops \subseteq DOMAIN ops'
  BY <1>1
<1>7. CASE Told.op = "OP"
  <2>1. systemOps' = systemOps
    BY <1>7, Zenon
  <2>2. systemOps \in Seq(DOMAIN ops')
    BY <1>1, <1>2, <1>3
  <2>3. \A p \in DOMAIN ops' : ops'[p].op # "OP" <=> \E i \in DOMAIN systemOps : systemOps[i] = p
    <3> TAKE p \in DOMAIN ops'
    <3>1. CASE p = n + 1
      <4>1. ~ \E i \in DOMAIN systemOps : systemOps[i] = p
        BY <1>1, <1>3, <3>1
      <4> QED
        BY <1>1, <1>7, <3>1, <4>1
    <3>2. CASE p # n + 1
      <4>1. p \in DOMAIN ops
        BY <1>1, <3>2
      <4> QED
        BY <1>1, <1>5, <4>1, Zenon
    <3> QED
      BY <3>1, <3>2
  <2> QED
    BY <1>4, <2>1, <2>2, <2>3, Zenon DEF Indexed
<1>8. CASE Told.op # "OP"
  <2> DEFINE t == Append(systemOps, n + 1)
  <2>1. systemOps' = t
    BY <1>8, Zenon DEF n
  <2>2. /\ t \in Seq(DOMAIN ops') /\ DOMAIN t = 1..(c + 1) /\ t[c + 1] = n + 1
        /\ \A i \in 1..c : t[i] = systemOps[i]
    <3>1. systemOps \in Seq(DOMAIN ops') /\ n + 1 \in DOMAIN ops'
      BY <1>1, <1>2, <1>3
    <3>2. t \in Seq(DOMAIN ops') /\ Len(t) = c + 1
      BY <3>1, AppendProperties
    <3> QED
      BY <3>1, <3>2, AppendProperties, LenProperties
  <2> HIDE DEF t
  <2>3. \A i, j \in DOMAIN t : i < j => t[i] < t[j]
    <3> TAKE i, j \in DOMAIN t
    <3> HAVE i < j
    <3>1. i \in DOMAIN systemOps
      BY <1>2, <2>2
    <3>2. CASE j = c + 1
      BY <1>1, <1>2, <1>3, <2>2, <3>1, <3>2
    <3>3. CASE j # c + 1
      <4>1. j \in DOMAIN systemOps
        BY <1>2, <2>2, <3>3
      <4> QED
        BY <1>2, <1>4, <2>2, <3>1, <4>1
    <3> QED
      BY <3>2, <3>3
  <2>4. \A p \in DOMAIN ops' : ops'[p].op # "OP" <=> \E i \in DOMAIN t : t[i] = p
    <3> TAKE p \in DOMAIN ops'
    <3>1. CASE p = n + 1
      <4>1. c + 1 \in DOMAIN t
        BY <1>2, <2>2
      <4> QED
        BY <1>1, <1>8, <2>2, <3>1, <4>1
    <3>2. CASE p # n + 1
      <4>1. p \in DOMAIN ops
        BY <1>1, <3>2
      <4>2. (\E i \in DOMAIN t : t[i] = p) <=> \E i \in DOMAIN systemOps : systemOps[i] = p
        <5>1. \A i \in DOMAIN systemOps : i \in DOMAIN t /\ t[i] = systemOps[i]
          BY <1>2, <2>2
        <5>2. \A i \in DOMAIN t : i \in DOMAIN systemOps \/ t[i] # p
          BY <1>2, <2>2, <3>2
        <5> QED
          BY <5>1, <5>2, Zenon
      <4> QED
        BY <1>1, <1>5, <4>1, <4>2, Zenon
    <3> QED
      BY <3>1, <3>2
  <2> QED
    BY <2>1, <2>2, <2>3, <2>4, ZenonT(60) DEF Indexed
<1> QED
  BY <1>7, <1>8

(* the lowest of them, *)
LEMMA LowestGrows ==
  ASSUME ops \in Seq(Steps), Told \in Steps, ops' = Append(ops, Told), Indexed, LowestKnown,
         systemOps' = IF Told.op = "OP" THEN systemOps ELSE Append(systemOps, Len(ops) + 1),
         IF ops = <<>> \/ Told.gasLeft < ops[lowestGasIndex].gasLeft
           THEN lowestGasIndex' = Len(ops) + 1 /\ lowestSysOpIndex' = Len(systemOps) + 1
           ELSE UNCHANGED <<lowestGasIndex, lowestSysOpIndex>>
  PROVE  LowestKnown'
<1> DEFINE n == Len(ops)
           c == Len(systemOps)
           l == lowestGasIndex
           left(p) == ops[p].gasLeft
           leftAfter(p) == ops'[p].gasLeft
<1>1. /\ n \in Nat /\ DOMAIN ops = 1..n /\ DOMAIN ops' = 1..(n + 1) /\ ops'[n + 1] = Told
      /\ \A p \in DOMAIN ops : ops'[p] = ops[p]
  BY OpsGrow
<1>2. systemOps \in Seq(DOMAIN ops) /\ c \in Nat /\ DOMAIN systemOps = 1..c
  <2>1. systemOps \in Seq(DOMAIN ops)
    BY Zenon DEF Indexed
  <2> QED
    BY <2>1, LenProperties
<1>3. /\ \A p \in DOMAIN ops : left(p) \in Nat /\ leftAfter(p) = left(p)
      /\ Told.gasLeft \in Nat /\ leftAfter(n + 1) = Told.gasLeft
  BY <1>1, OpsGrow DEF Steps
<1>4. CASE ops = <<>> \/ Told.gasLeft < left(l)
  <2>1. lowestGasIndex' = n + 1 /\ lowestSysOpIndex' = c + 1
    BY <1>4, Zenon
  <2>2. \A p \in 1..n : leftAfter(n + 1) < leftAfter(p)
    <3> TAKE p \in 1..n
    <3>1. ops # <<>>
      BY <1>1
    <3>2. l \in DOMAIN ops /\ left(l) <= left(p)
      BY <1>1, <3>1, Zenon DEF LowestKnown
    <3>3. left(l) \in Nat /\ left(p) \in Nat /\ leftAfter(p) = left(p)
      BY <1>1, <1>3, <3>2, Zenon
    <3>4. Told.gasLeft < left(l)
      BY <1>4, <3>1
    <3> HIDE DEF left, leftAfter
    <3> QED
      BY <1>3, <3>2, <3>3, <3>4
  <2>3. n + 1 \in DOMAIN ops' /\ \A p \in DOMAIN ops' : p = n + 1 \/ p \in 1..n
    BY <1>1
  <2>4. \A p \in DOMAIN ops' : leftAfter(n + 1) <= leftAfter(p)
    <3> TAKE p \in DOMAIN ops'
    <3>1. CASE p = n + 1
      <4> HIDE DEF leftAfter
      <4> QED
        BY <1>3, <3>1
    <3>2. CASE p \in 1..n
      <4>1. leftAfter(p) \in Nat /\ leftAfter(n + 1) < leftAfter(p)
        BY <1>1, <1>3, <2>2, <3>2, Zenon
      <4> HIDE DEF leftAfter
      <4> QED
        BY <1>3, <4>1
    <3> QED
      BY <2>3, <3>1, <3>2
  <2>5. \A p \in DOMAIN ops' : p < n + 1 => leftAfter(n + 1) < leftAfter(p)
    <3> TAKE p \in DOMAIN ops'
    <3>1. p = n + 1 => ~ (p < n + 1)
      BY <1>1
    <3> QED
      BY <2>2, <2>3, <3>1, Zenon
  <2>6. c + 1 \in Nat \ {0}
    BY <1>2
  <2>7. ASSUME ops'[n + 1].op # "OP"
        PROVE  c + 1 \in DOMAIN systemOps' /\ systemOps'[c + 1] = n + 1
    <3>1. systemOps' = Append(systemOps, n + 1)
      BY <1>1, <2>7, Zenon
    <3>2. /\ Append(systemOps, n + 1) \in Seq(1..(n + 1)) /\ Len(Append(systemOps, n + 1)) = c + 1
          /\ Append(systemOps, n + 1)[c + 1] = n + 1
      <4>1. systemOps \in Seq(1..(n + 1)) /\ n + 1 \in 1..(n + 1)
        <5>1. \A i \in 1..c : systemOps[i] \in 1..n
          BY <1>1, <1>2, ElementOfSeq
        <5> QED
          BY <1>1, <1>2, <5>1
      <4> QED
        BY <4>1, AppendProperties
    <3>3. DOMAIN Append(systemOps, n + 1) = 1..(c + 1)
      BY <3>2, LenProperties
    <3> QED
      BY <1>2, <3>1, <3>2, <3>3
  <2> HIDE DEF n, c
  <2> QED
    BY <2>1, <2>3, <2>4, <2>5, <2>6, <2>7, Zenon DEF LowestKnown
<1>5. CASE ~ (ops = <<>> \/ Told.gasLeft < left(l))
  <2>1. lowestGasIndex' = l /\ lowestSysOpIndex' = lowestSysOpIndex
    BY <1>5, Zenon
  <2>2. /\ l \in DOMAIN ops /\ \A p \in DOMAIN ops : left(l) <= left(p)
        /\ \A p \in DOMAIN ops : p < l => left(l) < left(p)
        /\ lowestSysOpIndex \in Nat \ {0}
        /\ ops[l].op # "OP" => /\ lowestSysOpIndex \in DOMAIN systemOps
                               /\ systemOps[lowestSysOpIndex] = l
    BY <1>5, Zenon DEF LowestKnown
  <2>3. l \in DOMAIN ops' /\ ops'[l] = ops[l] /\ left(l) \in Nat /\ leftAfter(l) = left(l)
    BY <1>1, <1>3, <2>2
  <2>4. \A p \in DOMAIN ops' : p \in DOMAIN ops \/ p = n + 1
    BY <1>1
  <2>5. left(l) <= Told.gasLeft
    <3>1. ~ (Told.gasLeft < left(l))
      BY <1>5
    <3> HIDE DEF left
    <3> QED
      BY <1>3, <2>3, <3>1
  <2>6. \A p \in DOMAIN ops' : leftAfter(l) <= leftAfter(p)
    BY <1>3, <2>2, <2>3, <2>4, <2>5, Zenon
  <2>7. \A p \in DOMAIN ops' : p < l => leftAfter(l) < leftAfter(p)
    <3> TAKE p \in DOMAIN ops'
    <3>1. p = n + 1 => ~ (p < l)
      BY <1>1, <2>2
    <3> QED
      BY <1>3, <2>2, <2>3, <2>4, <3>1, Zenon
  <2>8. ASSUME ops'[l].op # "OP"
        PROVE  lowestSysOpIndex \in DOMAIN systemOps' /\ systemOps'[lowestSysOpIndex] = l
    <3>1. lowestSysOpIndex \in DOMAIN systemOps /\ systemOps[lowestSysOpIndex] = l
      BY <2>2, <2>3, <2>8, Zenon
    <3>2. CASE systemOps' = systemOps
      BY <3>1, <3>2, Zenon
    <3>3. CASE systemOps' = Append(systemOps, n + 1)
      <4>1. /\ Append(systemOps, n + 1) \in Seq(1..(n + 1)) /\ Len(Append(systemOps, n + 1)) = c + 1
            /\ \A i \in 1..c : Append(systemOps, n + 1)[i] = systemOps[i]
        <5>1. systemOps \in Seq(1..(n + 1)) /\ n + 1 \in 1..(n + 1)
          <6>1. \A i \in 1..c : systemOps[i] \in 1..n
            BY <1>1, <1>2, ElementOfSeq
          <6> QED
            BY <1>1, <1>2, <6>1
        <5> QED
          BY <5>1, AppendProperties
      <4>2. DOMAIN Append(systemOps, n + 1) = 1..(c + 1)
        BY <4>1, LenProperties
      <4> QED
        BY <1>2, <3>1, <3>3, <4>1, <4>2
    <3> QED
      BY <3>2, <3>3, Zenon
  <2> QED
    BY <2>1, <2>2, <2>3, <2>6, <2>7, <2>8, Zenon DEF LowestKnown
<1> QED
  BY <1>4, <1>5

(* and the way they took. *)
LEMMA WayGrows ==
  ASSUME ops \in Seq(Steps), ToldRight, ops' = Append(ops, Told), frame' = frame,
         NEW way, Way(way), Here = way[Len(ops) + 1]
  PROVE  \E next : Way(next)' /\ next[Len(ops') + 1] = After(Here)
<1> DEFINE n == Len(ops)
           longer == [p \in 1..(n + 2) |-> IF p = n + 2 THEN After(Here) ELSE way[p]]
<1>1. Told \in Steps
  BY Zenon DEF ToldRight
<1>2. /\ n \in Nat /\ DOMAIN ops = 1..n /\ Len(ops') = n + 1 /\ DOMAIN ops' = 1..(n + 1)
      /\ ops'[n + 1] = Told /\ \A p \in DOMAIN ops : ops'[p] = ops[p]
  BY <1>1, OpsGrow
<1>3. /\ DOMAIN way = 1..(n + 1) /\ way[1] = [outer |-> 1, inner |-> 0]
      /\ \A p \in DOMAIN ops :
           /\ way[p + 1] = After(way[p])
           /\ ops[p].op = OpAt(way[p]) /\ ops[p].fee = FeeAt(way[p])
           /\ ops[p].depth = IF way[p].inner = 0 THEN 0 ELSE 1
  BY Zenon DEF Way
<1>4. PICK next : /\ \A p \in 1..(n + 1) : next[p] = way[p]
                  /\ next[n + 2] = After(Here) /\ DOMAIN next = 1..(n + 2)
  <2>1. /\ \A p \in 1..(n + 1) : longer[p] = way[p]
        /\ longer[n + 2] = After(Here) /\ DOMAIN longer = 1..(n + 2)
    BY <1>2
  <2> HIDE DEF longer
  <2> QED
    BY <2>1
<1> HIDE DEF n
<1>5. \A w : OpAt(w)' = OpAt(w) /\ FeeAt(w)' = FeeAt(w) /\ After(w)' = After(w)
  BY Zenon DEF OpAt, FeeAt, After
<1>6. /\ Told.op = OpAt(Here) /\ Told.fee = FeeAt(Here)
      /\ Told.depth = IF Here.inner = 0 THEN 0 ELSE 1
  BY Zenon DEF ToldRight
<1>7. \A p \in DOMAIN ops' :
        /\ next[p + 1] = After(next[p])
        /\ ops'[p].op = OpAt(next[p]) /\ ops'[p].fee = FeeAt(next[p])
        /\ ops'[p].depth = IF next[p].inner = 0 THEN 0 ELSE 1
  <2> TAKE p \in DOMAIN ops'
  <2>1. CASE p = n + 1
    <3>1. p + 1 = n + 2 /\ next[p] = Here /\ ops'[p] = Told
      BY <1>2, <1>4, <2>1 DEF n
    <3> QED
      BY <1>4, <1>6, <3>1, Zenon
  <2>2. CASE p # n + 1
    <3>1. p \in DOMAIN ops /\ p \in 1..(n + 1) /\ p + 1 \in 1..(n + 1)
      BY <1>2, <2>2
    <3> QED
      BY <1>2, <1>3, <1>4, <3>1, Zenon
  <2> QED
    BY <2>1, <2>2
<1>8. Len(ops') + 1 = n + 2 /\ 1 \in 1..(n + 1)
  BY <1>2
<1>9. Way(next)'
  BY <1>3, <1>4, <1>5, <1>7, <1>8, Zenon DEF Way
<1> QED
  BY <1>4, <1>8, <1>9, Zenon
-----------------------------------------------------------------------------
(* The invariant holds at first. *)
LEMMA NothingLinked == Linked(<<>>) /\ Len(<<>>) = 0
<1>1. <<>> \in Seq(Steps) /\ Len(<<>>) = 0 /\ DOMAIN <<>> = {}
  OBVIOUS
<1> QED
  BY <1>1, Zenon DEF Linked, Chained, GivenBack, Nested, Falling

(* The machine begins where the way begins, and nothing was told. *)
LEMMA InitialInvariant ==
  ASSUME Init, Flat(frame)
  PROVE  FlatRuns
<1>1. frame \in Frames /\ GasLimit \in Nat
  BY GasAssumption DEF Init
<1>2. Len(frame) \in Nat
  BY <1>1, FrameIs
<1>3. context = Alone(1, GasLimit) /\ 1 \in 1..(Len(frame) + 1)
  <2>1. context = Alone(1, GasLimit)
    BY Zenon DEF Init, Outermost, Alone
  <2> QED
    BY <1>2, <2>1
<1>4. Standing
  BY <1>1, <1>3, Zenon DEF Standing, StandingAt
<1>5. ToldRight
  BY <1>1, <1>4, ToldIs
<1>6. context.depth = 0 /\ Here = [outer |-> 1, inner |-> 0]
  BY <1>1, <1>3, AloneIs
<1>7. /\ ops = <<>> /\ systemOps = <<>> /\ gasEstimate = NoEstimate /\ sent = FALSE
      /\ outcome = "running" /\ gasLimit = GasLimit
  BY Zenon DEF Init
<1>8. Linked(Append(ops, Told))
  <2>1. Links(<<>>, Told)
    <3>1. Told \in Steps /\ Told.depth = 0 /\ (Told.op # "STOP" => Told.fee >= 1)
      BY <1>5, <1>6, Zenon DEF ToldRight
    <3> QED
      BY <3>1, NothingLinked, Zenon DEF Links
  <2> QED
    BY <1>7, <2>1, NothingLinked, LinkedGrows, Zenon
<1>9. CallerKept
  <2>1. context.depth # 1
    BY <1>6
  <2> QED
    BY <2>1 DEF CallerKept
<1>10. \E way : Way(way) /\ Here = way[Len(ops) + 1]
  <2> DEFINE way == [p \in 1..1 |-> [outer |-> 1, inner |-> 0]]
  <2>1. Len(ops) + 1 = 1 /\ DOMAIN ops = {}
    BY <1>7
  <2>2. DOMAIN way = 1..1 /\ way[1] = [outer |-> 1, inner |-> 0]
    OBVIOUS
  <2> HIDE DEF way
  <2>3. Way(way) /\ Here = way[Len(ops) + 1]
    BY <1>6, <2>1, <2>2, Zenon DEF Way
  <2> QED
    BY <2>3
<1>11. Indexed /\ LowestKnown /\ ops \in Seq(Steps)
  <2>1. DOMAIN ops = {} /\ DOMAIN systemOps = {} /\ systemOps \in Seq(DOMAIN ops)
        /\ ops \in Seq(Steps)
    BY <1>7
  <2> QED
    BY <1>7, <2>1, Zenon DEF Indexed, LowestKnown
<1>12. Watched
  BY <1>7, <1>8, <1>9, <1>10, Zenon DEF Watched
<1>13. gasLimit \in Int
  BY <1>1, <1>7
<1> QED
  BY <1>1, <1>4, <1>7, <1>11, <1>12, <1>13, Zenon DEF FlatRuns

(* It is right after a step as well. *)
LEMMA ToldIsNext == (frame \in Frames /\ Flat(frame) /\ Standing => ToldRight)'
BY ToldIs, PTL

(* A step of the run that is watched is told: it is linked, on the way, or the last. *)
LEMMA CollectStep ==
  ASSUME FlatRuns, Flat(frame), collect
  PROVE  FlatRuns'
<1>1. /\ frame \in Frames /\ ops \in Seq(Steps) /\ Indexed /\ LowestKnown /\ gasLimit \in Int
      /\ sent \in BOOLEAN /\ outcome = "running" /\ Standing /\ gasEstimate = NoEstimate
      /\ Linked(Append(ops, Told)) /\ CallerKept /\ sent = FALSE
  BY Zenon DEF FlatRuns, collect, Execute, Watched
<1>2. PICK way : Way(way) /\ Here = way[Len(ops) + 1]
  BY Zenon DEF FlatRuns, collect, Execute, Watched
<1>3. /\ Execute /\ ops' = Append(ops, Told) /\ frame' = frame /\ gasLimit' = gasLimit
      /\ gasEstimate' = gasEstimate /\ sent' = sent
      /\ systemOps' = IF Told.op = "OP" THEN systemOps ELSE Append(systemOps, Len(ops) + 1)
      /\ IF ops = <<>> \/ Told.gasLeft < ops[lowestGasIndex].gasLeft
           THEN lowestGasIndex' = Len(ops) + 1 /\ lowestSysOpIndex' = Len(systemOps) + 1
           ELSE UNCHANGED <<lowestGasIndex, lowestSysOpIndex>>
  BY Zenon DEF collect, Execute
<1>4. ToldRight
  BY <1>1, ToldIs
<1>5. Told \in Steps /\ Told.depth = context.depth
  BY <1>4, Zenon DEF ToldRight
<1>6. /\ Len(ops) \in Nat /\ Len(ops') = Len(ops) + 1 /\ ops' \in Seq(Steps) /\ ops' # <<>>
      /\ ops'[Len(ops')] = Told
  BY <1>1, <1>3, <1>5, OpsGrow
<1>7. Indexed' /\ LowestKnown'
  BY <1>1, <1>3, <1>5, IndexGrows, LowestGrows, Zenon
<1>8. PICK next : Way(next)' /\ next[Len(ops') + 1] = After(Here)
  BY <1>1, <1>2, <1>3, <1>4, WayGrows, Zenon
<1>9. Goes
  BY <1>1, <1>3, ExecuteIs
<1>10. success' <=> Told.op = "STOP"
  BY <1>6, Zenon DEF success
<1>11. (sent' => gasEstimate' # NoEstimate) /\ gasEstimate' = NoEstimate
  BY <1>1, <1>3, Zenon
<1>12. CASE Operates \/ CallsOther \/ Returns
  <2>1. outcome' = "running" /\ StandingAt(context') /\ HereOf(context') = After(Here)
    BY <1>12, Zenon DEF Operates, CallsOther, Returns, Stepped
  <2>2. Standing'
    BY <1>3, <2>1, Zenon DEF Standing, StandingAt, Alone, Within, Context
  <2>3. ToldRight'
    <3>1. Flat(frame)'
      BY <1>3, Zenon
    <3>2. frame' \in Frames
      BY <1>1, <1>3, Zenon
    <3> QED
      BY <2>2, <3>1, <3>2, ToldIsNext, Zenon
  <2>4. Linked(Append(ops', Told')) /\ CallerKept'
    BY <1>1, <1>3, <1>4, <1>12, <2>3, TraceGrows, Zenon
  <2>5. Here' = next[Len(ops') + 1]
    BY <1>8, <2>1, Zenon DEF Here
  <2>6. Watched'
    BY <1>8, <2>1, <2>4, <2>5, Zenon DEF Watched
  <2> QED
    BY <1>1, <1>3, <1>6, <1>7, <1>11, <2>1, <2>2, <2>6, Zenon DEF FlatRuns
<1>13. CASE OutOfGas \/ Succeeds
  <2>1. /\ outcome' \in {"success", "outOfGas"}
        /\ (Told.op = "STOP" <=> outcome' = "success")
        /\ (Told.op = "STOP" => Told.depth = 0)
    BY <1>5, <1>13 DEF OutOfGas, Succeeds
  <2>2. outcome' # "running"
    BY <2>1
  <2>3. Linked(ops')
    BY <1>1, <1>3, Zenon
  <2>4. success' => ops'[Len(ops')].depth = 0
    BY <1>6, <1>10, <2>1, Zenon
  <2>5. Watched'
    BY <1>6, <1>8, <1>10, <2>1, <2>2, <2>3, <2>4, Zenon DEF Watched
  <2> QED
    BY <1>1, <1>3, <1>6, <1>7, <1>11, <2>1, <2>2, <2>5, Zenon DEF FlatRuns
<1> QED
  BY <1>9, <1>12, <1>13, Zenon DEF Goes
-----------------------------------------------------------------------------
(* What is known of the steps told stays. *)
LEMMA KnownStays ==
  ASSUME ops' = ops
  PROVE  /\ \A p : EndOf(p)' = EndOf(p)
         /\ \A p, g : Enough(p, g)' <=> Enough(p, g)
         /\ \A p, t : Near(p, t)' <=> Near(p, t)
         /\ \A p, g, k : Suffices(p, g, k)' <=> Suffices(p, g, k)
<1>1. \A p : EndOf(p)' = EndOf(p)
  BY Zenon DEF EndOf
<1>2. \A b : Cost(b)' = Cost(b)
  BY <1>1, Zenon DEF Cost
<1>3. \A p, g : Enough(p, g)' <=> Enough(p, g)
  BY <1>2, Zenon DEF Enough
<1>4. \A p, t : Near(p, t)' <=> Near(p, t)
  BY <1>3, Zenon DEF Near
<1>5. \A p, g, k : Suffices(p, g, k)' <=> Suffices(p, g, k)
  BY <1>1, <1>3, Zenon DEF Suffices
<1> QED
  BY <1>1, <1>3, <1>4, <1>5, Zenon

(* Nor does the way change that they took. *)
LEMMA WayStays ==
  ASSUME ops' = ops, frame' = frame
  PROVE  /\ \A way : Way(way)' <=> Way(way)
         /\ \A w : After(w)' = After(w)
<1>1. \A w : OpAt(w)' = OpAt(w) /\ FeeAt(w)' = FeeAt(w) /\ After(w)' = After(w)
  BY Zenon DEF OpAt, FeeAt, After
<1>2. \A way : Way(way)' <=> Way(way)
  BY <1>1, Zenon DEF Way
<1> QED
  BY <1>1, <1>2, Zenon

(* The estimate is near. *)
LEMMA EstimateStep ==
  ASSUME FlatRuns, Flat(frame), estimate
  PROVE  FlatRuns'
<1>1. /\ frame \in Frames /\ ops \in Seq(Steps) /\ Indexed /\ LowestKnown /\ gasLimit \in Int
      /\ outcome \in {"running", "success", "outOfGas"}
      /\ outcome # "running" /\ gasEstimate = NoEstimate /\ sent = FALSE
      /\ ops # <<>> /\ Linked(ops) /\ (\E way : Way(way))
      /\ (success => ops[Len(ops)].depth = 0)
  BY Zenon DEF FlatRuns, estimate, Watched
<1>2. /\ ops' = ops /\ systemOps' = systemOps /\ lowestGasIndex' = lowestGasIndex
      /\ lowestSysOpIndex' = lowestSysOpIndex /\ frame' = frame /\ gasLimit' = gasLimit
      /\ outcome' = outcome /\ sent' = sent
  BY DEF estimate, machine, steps
<1> DEFINE t == IF lowestGasIndex = Len(ops) THEN sumRange(1, Len(ops))
                ELSE IF lowestSysOpIndex > 1
                  THEN TotalAround(systemOps[lowestSysOpIndex], 1, Len(ops), getTotal[Len(ops)])
                ELSE getTotal[Len(ops)][1][Len(ops)]
<1>3. /\ ~success => gasEstimate' = gasLimit
      /\ success => gasEstimate' = t
  BY Zenon DEF estimate
<1>4. success => Near(1, t) /\ t \in Nat
  <2>1. ASSUME success PROVE Near(1, t)
    <3>1. Whole
      BY <1>1, <2>1, Zenon DEF Whole
    <3> QED
      BY <1>1, <3>1, EstimateIsNear, Zenon
  <2> HIDE DEF t
  <2> QED
    BY <2>1, Zenon DEF Near
<1> HIDE DEF t
<1>5. gasEstimate' \in Int
  <2>1. CASE success
    <3>1. gasEstimate' = t /\ t \in Nat
      BY <1>3, <1>4, <2>1, Zenon
    <3> QED
      BY <3>1
  <2>2. CASE ~success
    <3>1. gasEstimate' = gasLimit
      BY <1>3, <2>2, Zenon
    <3> QED
      BY <1>1, <3>1, Zenon
  <2> QED
    BY <2>1, <2>2, Zenon
<1>6. gasEstimate' # NoEstimate
  BY <1>5, EstimateAssumption, Zenon
<1>7. success' <=> success
  BY <1>2, Zenon DEF success
<1>8. ASSUME success'
      PROVE  /\ Linked(ops') /\ ops'[Len(ops')].depth = 0 /\ Near(1, gasEstimate)'
             /\ (\E way : Way(way)') /\ SentRuns'
  <2>1. Near(1, gasEstimate)'
    <3>1. Near(1, gasEstimate')
      BY <1>3, <1>4, <1>7, <1>8, Zenon
    <3> QED
      BY <1>2, <3>1, KnownStays, Zenon
  <2>2. \E way : Way(way)'
    BY <1>1, <1>2, WayStays, Zenon
  <2>3. SentRuns'
    BY <1>1, <1>2, Zenon DEF SentRuns
  <2> QED
    BY <1>1, <1>2, <1>7, <1>8, <2>1, <2>2, <2>3, Zenon
<1>9. Estimated'
  BY <1>8, Zenon DEF Estimated
<1>10. Indexed' /\ LowestKnown'
  <2>1. Indexed'
    BY <1>1, <1>2, Zenon DEF Indexed
  <2>2. LowestKnown'
    BY <1>1, <1>2, Zenon DEF LowestKnown
  <2> QED
    BY <2>1, <2>2
<1> QED
  BY <1>1, <1>2, <1>5, <1>6, <1>9, <1>10, Zenon DEF FlatRuns

(* What is common to the steps of the transaction that is sent. *)
LEMMA SentStep ==
  ASSUME FlatRuns, ops' = ops, systemOps' = systemOps, lowestGasIndex' = lowestGasIndex,
         lowestSysOpIndex' = lowestSysOpIndex, frame' = frame, gasEstimate' = gasEstimate,
         gasEstimate # NoEstimate, gasLimit' \in Int, sent' = TRUE,
         outcome' \in {"running", "success", "outOfGas"}, outcome' = "running" => Standing',
         success => SentRuns'
  PROVE  FlatRuns'
<1>1. Indexed' /\ LowestKnown'
  <2>1. Indexed /\ LowestKnown
    BY Zenon DEF FlatRuns
  <2>2. Indexed'
    BY <2>1, Zenon DEF Indexed
  <2>3. LowestKnown'
    BY <2>1, Zenon DEF LowestKnown
  <2> QED
    BY <2>2, <2>3
<1>2. success' <=> success
  BY Zenon DEF success
<1>3. Estimated
  BY Zenon DEF FlatRuns
<1>4. ASSUME success'
      PROVE  /\ Linked(ops') /\ ops'[Len(ops')].depth = 0 /\ Near(1, gasEstimate)'
             /\ (\E way : Way(way)') /\ SentRuns'
  <2>1. Linked(ops) /\ ops[Len(ops)].depth = 0 /\ Near(1, gasEstimate) /\ \E way : Way(way)
    BY <1>2, <1>3, <1>4, Zenon DEF Estimated
  <2>2. Near(1, gasEstimate)'
    BY <2>1, KnownStays, Zenon
  <2>3. \E way : Way(way)'
    BY <2>1, WayStays, Zenon
  <2> QED
    BY <1>2, <1>4, <2>1, <2>2, <2>3, Zenon
<1>5. Estimated'
  BY <1>4, Zenon DEF Estimated
<1>6. frame \in Frames /\ ops \in Seq(Steps) /\ (gasEstimate # NoEstimate => gasEstimate \in Int)
      /\ (ops # <<>> \/ gasEstimate = NoEstimate)
  BY Zenon DEF FlatRuns
<1> QED
  BY <1>1, <1>5, <1>6, Zenon DEF FlatRuns

(* The transaction starts as the run that was watched did. *)
LEMMA SendStep ==
  ASSUME FlatRuns, Flat(frame), send
  PROVE  FlatRuns'
<1>1. /\ frame \in Frames /\ ops \in Seq(Steps) /\ Indexed /\ gasEstimate # NoEstimate
      /\ gasEstimate \in Int /\ ops # <<>> /\ Estimated
  BY Zenon DEF FlatRuns, send
<1>2. /\ ops' = ops /\ systemOps' = systemOps /\ lowestGasIndex' = lowestGasIndex
      /\ lowestSysOpIndex' = lowestSysOpIndex /\ frame' = frame /\ gasEstimate' = gasEstimate
      /\ outcome' = "running" /\ sent' = TRUE
  BY DEF send, steps
<1>3. PICK g : g \in Nat /\ gasLimit' = g /\ context' = Outermost(g)
  <2>1. PICK margin \in Margins : /\ gasEstimate + margin >= 0 /\ gasLimit' = gasEstimate + margin
                                  /\ context' = Outermost(gasEstimate + margin)
    BY Zenon DEF send
  <2>2. gasEstimate + margin \in Nat
    BY <1>1, <2>1, GasAssumption
  <2> QED
    BY <2>1, <2>2, Zenon
<1>4. Len(frame) \in Nat /\ 1 \in 1..(Len(frame) + 1)
  <2>1. Len(frame) \in Nat
    BY <1>1, FrameIs
  <2> QED
    BY <2>1
<1>5. context' = Alone(1, g)
  BY <1>3, Zenon DEF Outermost, Alone
<1>6. /\ StandingAt(context') /\ HereOf(context') = [outer |-> 1, inner |-> 0]
      /\ KeptOf(context') = 0 /\ context'.gas = g
  <2>1. g \in Nat
    BY <1>3
  <2>2. /\ StandingAt(Alone(1, g)) /\ HereOf(Alone(1, g)) = [outer |-> 1, inner |-> 0]
        /\ KeptOf(Alone(1, g)) = 0 /\ Alone(1, g).gas = g
    BY <1>4, <2>1, AloneAt, Zenon
  <2> QED
    BY <1>5, <2>2, Zenon
<1>7. Standing'
  <2>1. frame' = frame /\ StandingAt(context')
    BY <1>2, <1>6
  <2> QED
    BY <2>1, Zenon DEF Standing, StandingAt, Alone, Within, Context
<1>8. ASSUME success
      PROVE  SentRuns'
  <2>1. Whole /\ \E way : Way(way)
    BY <1>1, <1>8, Zenon DEF Whole, Estimated
  <2>2. PICK way : Way(way)
    BY <2>1
  <2>3. 1 \in DOMAIN ops /\ ops[1].depth = 0
    BY <2>1, FirstIsOuter
  <2>4. way[1] = [outer |-> 1, inner |-> 0]
    BY <2>2, Zenon DEF Way
  <2>5. Way(way)' /\ Here' = way[1]
    BY <1>2, <1>6, <2>2, <2>4, WayStays, Zenon DEF Here
  <2>6. Suffices(1, context'.gas, Kept') <=> Enough(1, gasLimit')
    BY <1>3, <1>6, <2>3, Zenon DEF Suffices
  <2>7. Suffices(1, context.gas, Kept)' <=> Enough(1, gasLimit)'
    BY <1>2, <2>6, KnownStays, Zenon
  <2>8. 1 \in DOMAIN ops'
    BY <1>2, <2>3, Zenon
  <2>9. outcome' # "success" /\ outcome' # "outOfGas"
    BY <1>2
  <2> QED
    BY <2>5, <2>7, <2>8, <2>9, Zenon DEF SentRuns
<1>9. gasLimit' \in Int
  BY <1>3
<1>10. outcome' \in {"running", "success", "outOfGas"}
  BY <1>2
<1> QED
  BY <1>1, <1>2, <1>7, <1>8, <1>9, <1>10, SentStep, Zenon

(* And it goes on as that did while its gas is enough. *)
LEMMA RunStep ==
  ASSUME FlatRuns, Flat(frame), run
  PROVE  FlatRuns'
<1>1. /\ frame \in Frames /\ ops \in Seq(Steps) /\ Indexed /\ gasEstimate # NoEstimate
      /\ gasLimit \in Int /\ ops # <<>> /\ Estimated /\ outcome = "running" /\ Standing /\ sent
  BY Zenon DEF FlatRuns, run, Execute
<1>2. /\ ops' = ops /\ systemOps' = systemOps /\ lowestGasIndex' = lowestGasIndex
      /\ lowestSysOpIndex' = lowestSysOpIndex /\ frame' = frame /\ gasEstimate' = gasEstimate
      /\ gasLimit' = gasLimit /\ sent' = sent /\ Execute
  BY DEF run, steps, Execute
<1>3. sent' = TRUE
  BY <1>1, <1>2, Zenon DEF FlatRuns
<1>4. ToldRight
  BY <1>1, ToldIs
<1>5. Goes
  BY <1>1, <1>2, ExecuteIs
<1>6. /\ outcome' \in {"running", "success", "outOfGas"}
      /\ outcome' = "running" => StandingAt(context')
  BY <1>5 DEF Goes, OutOfGas, Operates, CallsOther, Returns, Succeeds, Stepped
<1>7. outcome' = "running" => Standing'
  BY <1>2, <1>6, Zenon DEF Standing, StandingAt, Alone, Within, Context
<1>8. ASSUME success
      PROVE  SentRuns'
  <2>1. Whole /\ SentRuns
    BY <1>1, <1>8, Zenon DEF Whole, Estimated
  <2>2. PICK way : Way(way) /\ \E p \in DOMAIN ops : /\ Here = way[p]
                            /\ (Suffices(p, context.gas, Kept) <=> Enough(1, gasLimit))
    BY <1>1, <2>1, Zenon DEF SentRuns
  <2>3. PICK p \in DOMAIN ops : /\ Here = way[p]
                                /\ (Suffices(p, context.gas, Kept) <=> Enough(1, gasLimit))
    BY <2>2
  <2>4. /\ way[p + 1] = After(Here)
        /\ ops[p].op = Told.op /\ ops[p].fee = Told.fee /\ ops[p].depth = Told.depth
    BY <1>4, <2>2, <2>3, Zenon DEF Way, ToldRight
  <2>5. Told \in Steps /\ Told.gasLeft = context.gas /\ Told.depth = context.depth /\ Kept \in Nat
    BY <1>4, Zenon DEF ToldRight
  <2>6. context.gas \in Nat /\ context.gas \in Int /\ Kept \in Int /\ Told.fee \in Nat
    <3>1. Told.gasLeft \in Nat /\ Told.fee \in Nat
      BY <2>5 DEF Steps
    <3> QED
      BY <2>5, <3>1
  <2>7. /\ Len(ops) \in Nat /\ DOMAIN ops = 1..Len(ops) /\ p \in Nat
        /\ ops[Len(ops)].op = "STOP" /\ ops[Len(ops)].depth = 0
    BY <2>1, <2>3, Typed
  <2>8. CASE OutOfGas
    <3>1. /\ outcome' = "outOfGas" /\ ops[p].op # "STOP" /\ context.gas < ops[p].fee
      BY <2>4, <2>8, Zenon DEF OutOfGas
    <3>2. ~Suffices(p, context.gas, Kept)
      BY <2>1, <2>6, <3>1, TooLittle, Zenon
    <3>3. ~Enough(1, gasLimit)'
      BY <1>2, <2>3, <3>2, KnownStays, Zenon
    <3>4. outcome' # "running" /\ outcome' # "success"
      BY <3>1
    <3> QED
      BY <3>3, <3>4, Zenon DEF SentRuns
  <2>9. CASE Succeeds
    <3>1. /\ outcome' = "success" /\ ops[p].op = "STOP" /\ ops[p].depth = 0
      BY <2>4, <2>5, <2>9, Zenon DEF Succeeds
    <3>2. Suffices(p, context.gas, Kept)
      BY <2>1, <2>6, <3>1, EndSuffices, Zenon
    <3>3. Enough(1, gasLimit)'
      BY <1>2, <2>3, <3>2, KnownStays, Zenon
    <3>4. outcome' # "running" /\ outcome' # "outOfGas"
      BY <3>1
    <3> QED
      BY <3>3, <3>4, Zenon DEF SentRuns
  <2>10. ASSUME outcome' = "running", HereOf(context') = After(Here), p + 1 \in DOMAIN ops,
                Suffices(p + 1, context'.gas, KeptOf(context')) <=> Suffices(p, context.gas, Kept)
         PROVE  SentRuns'
    <3>1. Way(way)' /\ Here' = way[p + 1]
      BY <1>2, <2>2, <2>4, <2>10, WayStays, Zenon DEF Here
    <3>2. Suffices(p + 1, context'.gas, Kept') <=> Enough(1, gasLimit')
      BY <1>2, <2>3, <2>10, Zenon DEF Kept
    <3>3. Suffices(p + 1, context.gas, Kept)' <=> Enough(1, gasLimit)'
      BY <1>2, <3>2, KnownStays, Zenon
    <3>4. p + 1 \in DOMAIN ops'
      BY <1>2, <2>10, Zenon
    <3>5. outcome' # "success" /\ outcome' # "outOfGas"
      BY <2>10
    <3> QED
      BY <3>1, <3>3, <3>4, <3>5, Zenon DEF SentRuns
  <2>11. ops[p].op # "STOP" \/ ops[p].depth # 0 => p + 1 \in DOMAIN ops
    <3>1. ops[p].op # "STOP" \/ ops[p].depth # 0 => p # Len(ops)
      BY <2>7, Zenon
    <3> QED
      BY <2>3, <2>7, <3>1
  <2>12. CASE Operates
    <3>1. /\ Told.op = "OP" /\ outcome' = "running" /\ HereOf(context') = After(Here)
          /\ context'.gas = context.gas - ops[p].fee /\ KeptOf(context') = Kept
      BY <2>4, <2>12, Zenon DEF Operates, Stepped
    <3>2. ops[p].op = "OP" /\ p + 1 \in DOMAIN ops
      BY <2>4, <2>11, <3>1
    <3>3. Suffices(p, context.gas, Kept) <=> Suffices(p + 1, context.gas - ops[p].fee, Kept)
      BY <2>1, <2>6, <3>2, OpGoesOn
    <3> QED
      BY <2>10, <3>1, <3>2, <3>3, Zenon
  <2>13. CASE CallsOther
    <3>1. /\ Told.op = "CALL" /\ outcome' = "running" /\ HereOf(context') = After(Here)
          /\ context'.gas = Passed(context.gas - ops[p].fee)
          /\ KeptOf(context') = context.gas - ops[p].fee - Passed(context.gas - ops[p].fee)
      BY <2>4, <2>13, Zenon DEF CallsOther, Stepped
    <3>2. ops[p].op = "CALL" /\ p + 1 \in DOMAIN ops
      BY <2>4, <2>11, <3>1
    <3>3. Suffices(p, context.gas, Kept) <=>
            Suffices(p + 1, Passed(context.gas - ops[p].fee),
                     context.gas - ops[p].fee - Passed(context.gas - ops[p].fee))
      BY <2>1, <2>6, <3>2, CallGoesOn, Zenon
    <3> QED
      BY <2>10, <3>1, <3>2, <3>3, Zenon
  <2>14. CASE Returns
    <3>1. /\ Told.op = "STOP" /\ context.depth = 1 /\ outcome' = "running"
          /\ HereOf(context') = After(Here)
          /\ context'.gas = Kept + context.gas /\ KeptOf(context') = 0
      BY <2>14, Zenon DEF Returns, Stepped
    <3>2. ops[p].op = "STOP" /\ p + 1 \in DOMAIN ops
      BY <2>4, <2>5, <2>11, <3>1
    <3>3. Suffices(p, context.gas, Kept) <=> Suffices(p + 1, Kept + context.gas, 0)
      BY <2>1, <2>5, <2>6, <3>2, ReturnGoesOn, Zenon
    <3> QED
      BY <2>10, <3>1, <3>2, <3>3, Zenon
  <2> QED
    BY <1>5, <2>8, <2>9, <2>12, <2>13, <2>14, Zenon DEF Goes
<1>9. gasLimit' \in Int
  BY <1>1, <1>2, Zenon
<1> QED
  BY <1>1, <1>2, <1>3, <1>6, <1>7, <1>8, <1>9, SentStep, Zenon
-----------------------------------------------------------------------------
(* A step of none of the variables. *)
LEMMA StutterStep ==
  ASSUME FlatRuns, Flat(frame), UNCHANGED vars
  PROVE  FlatRuns'
<1>1. /\ ops' = ops /\ systemOps' = systemOps /\ lowestGasIndex' = lowestGasIndex
      /\ lowestSysOpIndex' = lowestSysOpIndex /\ frame' = frame /\ gasLimit' = gasLimit
      /\ outcome' = outcome /\ sent' = sent /\ gasEstimate' = gasEstimate /\ context' = context
  BY DEF vars, machine, steps
<1>2. success' <=> success
  BY <1>1, Zenon DEF success
<1>3. Indexed' <=> Indexed
  BY <1>1, Zenon DEF Indexed
<1>4. LowestKnown' <=> LowestKnown
  BY <1>1, Zenon DEF LowestKnown
<1>5. Standing' <=> Standing
  BY <1>1, Zenon DEF Standing, StandingAt, Alone, Within, Context
<1>6. Told' = Told
  BY <1>1, Zenon DEF Told, AtEnd, Item
<1>7. Here' = Here /\ Kept' = Kept
  BY <1>1, Zenon DEF Here, HereOf, Kept, KeptOf
<1>8. Watched' <=> Watched
  <2>1. \A way : Way(way)' <=> Way(way)
    BY <1>1, WayStays
  <2>2. CallerKept' <=> CallerKept
    BY <1>1, <1>6, <1>7, Zenon DEF CallerKept
  <2> QED
    BY <1>1, <1>2, <1>6, <1>7, <2>1, <2>2, Zenon DEF Watched
<1>9. SentRuns' <=> SentRuns
  <2>1. \A way : Way(way)' <=> Way(way)
    BY <1>1, WayStays
  <2>2. Enough(1, gasLimit)' <=> Enough(1, gasLimit)
    BY <1>1, KnownStays, Zenon
  <2>3. \A p : Suffices(p, context.gas, Kept)' <=> Suffices(p, context.gas, Kept)
    BY <1>1, <1>7, KnownStays, Zenon
  <2> QED
    BY <1>1, <1>7, <2>1, <2>2, <2>3, Zenon DEF SentRuns
<1>10. Estimated' <=> Estimated
  <2>1. \A way : Way(way)' <=> Way(way)
    BY <1>1, WayStays
  <2>2. Near(1, gasEstimate)' <=> Near(1, gasEstimate)
    BY <1>1, KnownStays, Zenon
  <2> QED
    BY <1>1, <1>2, <1>9, <2>1, <2>2, Zenon DEF Estimated
<1> QED
  BY <1>1, <1>3, <1>4, <1>5, <1>8, <1>10, Zenon DEF FlatRuns

(* Every step keeps the invariant: what is run is never another frame. *)
LEMMA Inductive ==
  ASSUME IInv, [Next]_vars
  PROVE  IInv'
<1> SUFFICES ASSUME Flat(frame)' PROVE FlatRuns'
  BY Zenon DEF IInv
<1>1. frame' = frame
  BY DEF Next, collect, estimate, send, run, Execute, machine, steps, vars
<1>2. Flat(frame)
  <2>1. Flat(frame')
    OBVIOUS
  <2> QED
    BY <1>1, <2>1, Zenon
<1>3. FlatRuns
  BY <1>2, Zenon DEF IInv
<1> QED
  BY <1>2, <1>3, CollectStep, EstimateStep, SendStep, RunStep, StutterStep, Zenon DEF Next

(* The inductive invariant: what is told of a run of a contract whose calls call nothing is
   linked, its estimate is near to what is enough, and the transaction goes on while its gas is. *)
THEOREM Invariant == Spec => []IInv
<1>1. Init => IInv
  BY InitialInvariant, Zenon DEF IInv
<1>2. IInv /\ [Next]_vars => IInv'
  BY Inductive
<1> QED
  BY <1>1, <1>2, PTL DEF Spec

(* It says what the property does: more than the estimate is enough, and two less is not. *)
LEMMA NearlyEstimated ==
  ASSUME IInv
  PROVE  FlatCallsEstimated
<1> SUFFICES ASSUME gasEstimate # NoEstimate, Flat(frame), success
             PROVE  /\ gasEstimate # Throws
                    /\ sent /\ outcome = "success" => gasLimit >= gasEstimate - 1
                    /\ sent /\ outcome = "outOfGas" => gasLimit <= gasEstimate
  BY Zenon DEF FlatCallsEstimated
<1>1. /\ Near(1, gasEstimate) /\ SentRuns /\ gasEstimate \in Int /\ gasLimit \in Int
  BY Zenon DEF IInv, FlatRuns, Estimated
<1>2. gasEstimate # Throws
  BY <1>1, EstimateAssumption, Zenon
<1>3. /\ gasLimit > gasEstimate => Enough(1, gasLimit)
      /\ Enough(1, gasLimit) => gasLimit >= gasEstimate - 1
  BY <1>1, Zenon DEF Near
<1>4. sent /\ outcome = "success" => gasLimit >= gasEstimate - 1
  BY <1>1, <1>3, Zenon DEF SentRuns
<1>5. sent /\ outcome = "outOfGas" => ~(gasLimit > gasEstimate)
  BY <1>1, <1>3, Zenon DEF SentRuns
<1>6. ~(gasLimit > gasEstimate) => gasLimit <= gasEstimate
  BY <1>1
<1> QED
  BY <1>2, <1>4, <1>5, <1>6, Zenon

(* gasEstimation.js estimates a contract whose calls call nothing themselves, and a
   transaction succeeds with any gas above the estimate and runs out of it with two units
   less, whatever the contract does and however its calls follow each other. *)
THEOREM FlatEstimates == Spec => []FlatCallsEstimated
<1>1. IInv => FlatCallsEstimated
  BY NearlyEstimated
<1> QED
  BY <1>1, Invariant, PTL
=============================================================================
