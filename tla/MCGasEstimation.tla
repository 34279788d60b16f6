---------------------------- MODULE MCGasEstimation ----------------------------
(***************************************************************************)
(* Small instances of GasEstimation: all frames of up to three operations  *)
(* with calls of up to three operations, and all of up to two with calls   *)
(* of calls.  Three calls in a row whose needs all but meet come with the  *)
(* former: there the rounding shows, and the estimate is one too low.      *)
(***************************************************************************)
EXTENDS GasEstimation

CONSTANT Fees

RECURSIVE FramesOf(_, _)
FramesOf(nesting, length) ==
  LET operations == {Operation(fee) : fee \in Fees}
                      \cup (IF nesting = 0 THEN {} ELSE {Call(f) : f \in FramesOf(nesting - 1, length)})
  IN  UNION {[1..n -> operations] : n \in 0..length}

Tight == {<<Operation(3330241)>>, <<Operation(51346)>>, <<Operation(113)>>}

MCFlat == FramesOf(1, 3) \cup Tight \cup [1..3 -> {Call(f) : f \in Tight}]
MCNested == FramesOf(2, 2)
MCMargins == -2..1
=============================================================================
