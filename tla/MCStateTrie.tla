----------------------------- MODULE MCStateTrie -----------------------------
(* Any two reads under way can be exchanged. *)
EXTENDS StateTrie, TLC

Symmetry == Permutations(Calls)
=============================================================================
