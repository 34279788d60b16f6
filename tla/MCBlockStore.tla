---------------------------- MODULE MCBlockStore ----------------------------
(* A small instance of BlockStore: the blocks are interchangeable. *)
EXTENDS BlockStore, TLC

Symmetry == Permutations(Blocks)
=============================================================================
