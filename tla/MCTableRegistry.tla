-------------------------- MODULE MCTableRegistry ---------------------------
(***************************************************************************)
(* An instance of TableRegistry for TLC.                                   *)
(***************************************************************************)
EXTENDS TableRegistry, TLC

CONSTANTS data, qualified, other, t1, t2

MCResolve == [n \in Names |-> IF n = other THEN t2 ELSE t1]

Objects == Permutations(Batches)
=============================================================================
