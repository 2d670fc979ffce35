---------------------------- MODULE MCReadOptions ----------------------------
(***************************************************************************)
(* Instances of ReadOptions for TLC.                                       *)
(***************************************************************************)
EXTENDS ReadOptions, TLC

CONSTANTS nullable, required

(* Partition columns keep the name and the type of a field and forget      *)
(* whether it is nullable.                                                 *)
MCNameAndType == [f \in Fields |-> IF f = required THEN nullable ELSE f]

(* A boolean, a tab and the last character next to the default comma, and  *)
(* numbers that a usize of 1024 values holds or does not; 2 and -1 are out *)
(* of range.                                                               *)
MCValues ==
    [p \in Properties |->
        IF p = "has-header" THEN {0, 1, 2}
        ELSE IF p = "delimiter" THEN {-1, 9, 127}
        ELSE {0, 1000, 1024}]

Pools == Permutations(Schemas) \cup Permutations(Buffers)
=============================================================================
