--------------------------- MODULE MCCApiBuffers ----------------------------
(***************************************************************************)
(* Two callers on a heap of four blocks: a chunk takes three, so that two  *)
(* chunks in work exhaust it and malloc fails.                             *)
(***************************************************************************)
EXTENDS CApiBuffers, TLC

BlockSymmetry == Permutations(Blocks)
=============================================================================
