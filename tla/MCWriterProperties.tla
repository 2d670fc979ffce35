------------------------- MODULE MCWriterProperties -------------------------
(***************************************************************************)
(* Instances of WriterProperties for TLC.                                  *)
(***************************************************************************)
EXTENDS WriterProperties, TLC

Pools == Permutations(Properties) \cup Permutations(Paths)
=============================================================================
