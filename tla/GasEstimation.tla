----------------------------- MODULE GasEstimation -----------------------------
(***************************************************************************)
(* The estimate of utils/gasEstimation.js.  The virtual machine runs a     *)
(* transaction once, with much gas, and tells each of its steps; the       *)
(* estimate is worked out of the gas that was left at each.  A call is     *)
(* given all gas but a 64th, so that what a run uses is less than what it  *)
(* needs.  Then the transaction is sent, with a gas limit about the        *)
(* estimate.                                                               *)
(*                                                                         *)
(* The machine is external: a frame is the operations of one contract, and *)
(* a call in it has the frame of the contract called.  Every contract      *)
(* passes all its gas on and fails when a call of its own does.  Gas       *)
(* counts from where the execution starts; value transfers with their      *)
(* stipend, calls of accounts without code, and refunds are left out.      *)
(***************************************************************************)
EXTENDS Integers, Sequences, FiniteSetsExt

CONSTANTS
  Frames,      \* the frames a transaction may run, and those its calls run
  CallFee,     \* the fee of the CALL operation
  GasLimit,    \* the gas of the run that is watched
  Margins,     \* how far from the estimate the gas limit of the transaction may be
  NoEstimate,
  Throws       \* the estimate ends with a TypeError

Operation(fee) == [op |-> "OP", fee |-> fee, frame |-> <<>>]
Call(frame) == [op |-> "CALL", fee |-> CallFee, frame |-> frame]

(* No operation is free but the one that ends a contract, which is not among its frame's. *)
ASSUME FramesAssumption ==
  \A f \in Frames : f \in Seq([op : {"OP", "CALL"}, fee : Nat \ {0}, frame : Frames])
ASSUME GasAssumption == GasLimit \in Nat /\ Margins \subseteq Int
ASSUME EstimateAssumption == NoEstimate \notin Int /\ Throws \notin Int /\ Throws # NoEstimate

VARIABLES
  frame,               \* what the transaction runs
  gasLimit,            \* the gas of the run there is
  context,             \* the contract in execution
  outcome,             \* of the run: "running", "success" or "outOfGas"
  ops,                 \* the steps told
  systemOps,           \* the places in ops of the calls and terminators
  lowestGasIndex,      \* where the least gas was left first
  lowestSysOpIndex,    \* the place in systemOps of that step or of the next one there
  gasEstimate,
  sent                 \* the transaction was sent

machine == <<frame, gasLimit, context, outcome>>
steps == <<ops, systemOps, lowestGasIndex, lowestSysOpIndex>>
vars == <<machine, steps, gasEstimate, sent>>
-----------------------------------------------------------------------------
(* The machine. *)

(* The next operation of a contract, the gas it has, and the contract that called it. *)
Context(f, next, gas, depth, caller) ==
  [frame |-> f, next |-> next, gas |-> gas, depth |-> depth, caller |-> caller]
Outermost(gas) == Context(frame, 1, gas, 0, <<>>)

(* What a call is given of the gas that is left. *)
Passed(gas) == gas - gas \div 64

AtEnd == context.next \notin DOMAIN context.frame
Item == context.frame[context.next]
Rest == context.gas - Item.fee

(* The contract goes on with the operation after this one, or after a call of it. *)
Onward(gas) == Context(context.frame, context.next + 1, gas, context.depth, context.caller)
Returned ==
  LET c == context.caller IN Context(c.frame, c.next, c.gas + context.gas, c.depth, c.caller)

Ends(how) == outcome' = how /\ UNCHANGED context
GoesOn(c) == context' = c /\ UNCHANGED outcome

Execute ==
  /\ outcome = "running"
  /\ \/ ~AtEnd /\ Rest < 0 /\ Ends("outOfGas")
     \/ ~AtEnd /\ Rest >= 0 /\ Item.op = "OP" /\ GoesOn(Onward(Rest))
     \/ /\ ~AtEnd /\ Rest >= 0 /\ Item.op = "CALL"
        /\ GoesOn(Context(Item.frame, 1, Passed(Rest), context.depth + 1,
                          Onward(Rest - Passed(Rest))))
     \/ AtEnd /\ context.depth > 0 /\ GoesOn(Returned)
     \/ AtEnd /\ context.depth = 0 /\ Ends("success")
  /\ UNCHANGED <<frame, gasLimit>>

(* What is told of a step, before it is executed: the gas left and the fee. *)
Told ==
  IF AtEnd THEN [op |-> "STOP", depth |-> context.depth, fee |-> 0, gasLeft |-> context.gas]
  ELSE [op |-> Item.op, depth |-> context.depth, fee |-> Item.fee, gasLeft |-> context.gas]

Init ==
  /\ frame \in Frames
  /\ gasLimit = GasLimit /\ context = Outermost(GasLimit) /\ outcome = "running"
  /\ ops = <<>> /\ systemOps = <<>>
  /\ lowestGasIndex = 1 /\ lowestSysOpIndex = 1
  /\ gasEstimate = NoEstimate /\ sent = FALSE
-----------------------------------------------------------------------------
(* The operators work on the steps told.  Places count from 1. *)

sumRange(start, end) == ops[start].gasLeft - ops[end].gasLeft

Depth(k) == ops[systemOps[k]].depth

PositionOf(index) == CHOOSE k \in DOMAIN systemOps : systemOps[k] = index

(* From the last system operation before k, and up to the first one after it, that are
   less deep than a depth: the call around k, and the place after its last terminator. *)
Scope(k, depth) ==
  LET outer == {i \in DOMAIN systemOps : Depth(i) < depth}
      begin == Max({1} \cup {i \in outer : i <= k})
      end == Min({Len(systemOps) + 1} \cup {i \in outer : i >= k})
  IN  [begin |-> systemOps[begin], end |-> systemOps[end - 1] + 1]

findRootScope(k) == Scope(k, 1)
findParentScope(k) == Scope(k, Depth(k))

(* The last of the places with the least gas; 0, which is none, for an empty range. *)
findLowestIndex(start, stop) ==
  Max({0} \cup {i \in start..stop : \A j \in start..stop : ops[i].gasLeft <= ops[j].gasLeft})

(* A mutant: the 64th is taken of what is needed, not of what is given. *)
neededBefore6364_Of64(sum) == sum + sum \div 64

(* What is needed before the 64th is held back. *)
neededBefore6364(sum) == sum + sum \div 63

(* The loop from the scope around k out to the root scope.  A turn sets systemOpSum for the
   scope it leaves, to 0 where the 64th held back there does not pay for what follows. *)
Turn(loop, total) ==
  LET parent == loop.parent
      fee == ops[parent.begin].fee
      sum == sumRange(parent.begin, parent.end) - fee
      held == neededBefore6364(sum) - sum
      outer == findParentScope(loop.k + 1)
      above == sumRange(outer.begin + 1, parent.begin)
      costOfParentReturn ==
        sumRange(outer.end - 1, outer.end) + sumRange(outer.begin, outer.begin + 1)
          - ops[outer.begin].fee
      rest == total[parent.end][outer.end - 1]
  IN  [k |-> PositionOf(outer.end - 1), parent |-> outer,
       sum |-> IF rest = Throws THEN Throws
               ELSE IF held < rest + costOfParentReturn THEN 0
               ELSE neededBefore6364(sum) + fee + above]

AfterTurn(loop, root, total) ==
  IF loop.sum = Throws \/ root.begin = loop.parent.begin \/ root.end = loop.parent.end
    THEN loop ELSE Turn(loop, total)

(* A turn leaves a scope: there are no more than system operations. *)
systemOpSum(k, total) ==
  LET root == findRootScope(k)
      loop[n \in Nat] == IF n = 0 THEN [k |-> k, parent |-> findParentScope(k), sum |-> 0]
                         ELSE AfterTurn(loop[n - 1], root, total)
  IN  loop[Len(systemOps)].sum

(* The gas that a range of steps needs, given its lowest step and the totals of ranges. *)
TotalAround(lowest, start, stop, total) ==
  LET k == PositionOf(lowest)
      root == findRootScope(k)
      inner == systemOpSum(k, total)
      remaining == total[root.end][stop]
      fee == ops[root.begin].fee
      sum == IF inner = 0 THEN sumRange(root.begin, root.end) - fee ELSE inner
      held == neededBefore6364(sum) - sum
      most == neededBefore6364(sum) + fee + sumRange(start, root.begin)
  IN  IF \A i \in DOMAIN systemOps : systemOps[i] # lowest THEN Throws
      ELSE IF inner = Throws \/ remaining = Throws THEN Throws
      ELSE IF held > remaining THEN most
      ELSE most - held + remaining

Total(start, stop, total) ==
  LET lowest == findLowestIndex(start, stop)
  IN  IF lowest = stop THEN sumRange(start, stop) ELSE TotalAround(lowest, start, stop, total)

(* The totals of ranges, where getTotal calls itself n times at most, one within the other. *)
Totals(n, total) ==
  [start \in Nat |-> [stop \in Nat |-> IF n = 0 THEN Throws ELSE Total(start, stop, total)]]

getTotal[n \in Nat] == Totals(n, getTotal[n - 1])
-----------------------------------------------------------------------------
(* stepTracker's collect, called before each step of the run that is watched. *)
collect ==
  /\ gasEstimate = NoEstimate
  /\ Execute
  /\ IF ops = <<>> \/ Told.gasLeft < ops[lowestGasIndex].gasLeft
       THEN lowestGasIndex' = Len(ops) + 1 /\ lowestSysOpIndex' = Len(systemOps) + 1
       ELSE UNCHANGED <<lowestGasIndex, lowestSysOpIndex>>
  /\ systemOps' = IF Told.op = "OP" THEN systemOps ELSE Append(systemOps, Len(ops) + 1)
  /\ ops' = Append(ops, Told)
  /\ UNCHANGED <<gasEstimate, sent>>

(* runTx calls back.  The gas used is the estimate where the run failed, which uses it all,
   and where the last step has the least.  The place 1 in systemOps (the code's 0) stands
   for not known. *)
success == ops[Len(ops)].op = "STOP"

estimate ==
  /\ outcome # "running" /\ gasEstimate = NoEstimate
  /\ gasEstimate' =
       IF ~success THEN gasLimit
       ELSE IF lowestGasIndex = Len(ops) THEN sumRange(1, Len(ops))
       ELSE IF lowestSysOpIndex > 1
         THEN TotalAround(systemOps[lowestSysOpIndex], 1, Len(ops), getTotal[Len(ops)])
       ELSE getTotal[Len(ops)][1][Len(ops)]
  /\ UNCHANGED <<machine, steps, sent>>

(* The transaction is sent, and run. *)
send ==
  /\ gasEstimate \notin {NoEstimate, Throws} /\ ~sent
  /\ \E margin \in Margins :
       /\ gasEstimate + margin >= 0
       /\ gasLimit' = gasEstimate + margin /\ context' = Outermost(gasEstimate + margin)
  /\ outcome' = "running" /\ sent' = TRUE
  /\ UNCHANGED <<frame, steps, gasEstimate>>

run == sent /\ Execute /\ UNCHANGED <<steps, gasEstimate, sent>>

Next == collect \/ estimate \/ send \/ run

Spec == Init /\ [][Next]_vars
-----------------------------------------------------------------------------
(* Properties. *)

Calls(f) == {i \in DOMAIN f : f[i].op = "CALL"}
Flat(f) == \A i \in Calls(f) : Calls(f[i].frame) = {}

(* A contract whose calls call nothing themselves is estimated, and but for one unit of
   rounding to either side: with more gas than the estimate the transaction succeeds, and
   with two less it does not. *)
FlatCallsEstimated ==
  gasEstimate # NoEstimate /\ Flat(frame) /\ success =>
    /\ gasEstimate # Throws
    /\ sent /\ outcome = "success" => gasLimit >= gasEstimate - 1
    /\ sent /\ outcome = "outOfGas" => gasLimit <= gasEstimate

(* test/gas/gas.js:79: "Should estimate gas perfectly with SIP150 - recursive CALL"; the
   estimate of any contract is enough for it. *)
EstimateSuffices ==
  gasEstimate # NoEstimate /\ success =>
    gasEstimate # Throws /\ (sent /\ outcome = "outOfGas" => gasLimit < gasEstimate)
=============================================================================
