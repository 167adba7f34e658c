--------------------------- MODULE MCRedisBuckets ---------------------------
(* Instances of RedisBuckets for TLC. *)
EXTENDS RedisBuckets, TLC

CONSTANTS c1, c2

(* Four units of capacity, two of which leak every second. *)
SmallTier == [Max |-> 4, Loss |-> 50]

(* A small charge, one above the capacity, and a credit. *)
MCAmounts == {1, 5, -5}

CallerSymmetry == Permutations(Callers)
=============================================================================
