------------------------ MODULE MCParquetReadOptions ------------------------
(***************************************************************************)
(* Instances of ParquetReadOptions for TLC.                                *)
(***************************************************************************)
EXTENDS ParquetReadOptions, TLC

CONSTANTS nullable, required

MCNameAndType == [c \in Columns |-> IF c = required THEN nullable ELSE c]

Pools == Permutations(Buffers) \cup Permutations(Tables)
=============================================================================
