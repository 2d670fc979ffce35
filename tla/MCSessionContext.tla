-------------------------- MODULE MCSessionContext --------------------------
(***************************************************************************)
(* Instances of SessionContext for TLC.                                    *)
(***************************************************************************)
EXTENDS SessionContext, TLC

CONSTANTS data, qualified, other, broken, t1, t2

(* "data" and "datafusion.public.data" name one table; "broken" is a name  *)
(* that is not UTF-8.  The first two may change places.                   *)
MCResolve ==
    [n \in Names |-> IF n = other THEN t2 ELSE t1]

Pools == Permutations(Batches) \cup Permutations(Structs)
            \cup Permutations(Providers) \cup Permutations(Frames)
            \cup Permutations({data, qualified})
=============================================================================
