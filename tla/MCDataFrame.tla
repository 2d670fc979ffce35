---------------------------- MODULE MCDataFrame -----------------------------
(***************************************************************************)
(* Instances of DataFrame for TLC.                                         *)
(***************************************************************************)
EXTENDS DataFrame, TLC

Contents == Permutations(Batches)
=============================================================================
