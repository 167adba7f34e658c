------------------------------- MODULE MCPool -------------------------------
(* Instances of Pool for TLC: two workers. *)
EXTENDS Pool, TLC

CONSTANTS w1, w2

WorkerSymmetry == Permutations({w1, w2})
=============================================================================
