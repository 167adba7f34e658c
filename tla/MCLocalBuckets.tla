--------------------------- MODULE MCLocalBuckets ---------------------------
(* Instances of LocalBuckets for TLC. *)
EXTENDS LocalBuckets, TLC

CONSTANTS k1, k2, k3, w1, w2

(* The bucket of a counter the generation does not declare. *)
Undeclared == [Max |-> 0, Loss |-> 0]

(* The operator changes the leak of one counter and keeps its capacity,    *)
(* and withdraws another counter, which a third generation declares again. *)
Slow == (k1 :> [Max |-> 4, Loss |-> 50]) @@ (k2 :> [Max |-> 2, Loss |-> 100])
            @@ (k3 :> [Max |-> 2, Loss |-> 50])
Fast == (k1 :> [Max |-> 4, Loss |-> 100]) @@ (k2 :> [Max |-> 2, Loss |-> 100])
            @@ (k3 :> Undeclared)
FastAll == [Fast EXCEPT ![k3] = Slow[k3]]

Faster == << Slow, Fast, FastAll >>
Slower == << Fast, Slow >>

(* A charge beyond the capacity, and a negative one: the per of a measure  *)
(* rule and the value of a note may be below zero.  A message charges one  *)
(* bucket, reads one, does both, or charges more buckets than the ledger   *)
(* may hold.                                                               *)
Charge(S, n) == [k \in S |-> n]
MCMessages ==
    {[sums |-> Charge({k}, n), reads |-> {}] : k \in {k1, k3}, n \in {-1, 5}}
    \union {[sums |-> Charge({}, 0), reads |-> {k}] : k \in {k1, k3}}
    \union {[sums |-> Charge({k1}, 5), reads |-> {k3}],
            [sums |-> Charge(Keys, 5), reads |-> {}]}

(* The workers are alike, and they are never compared or ordered. *)
Alike == Permutations(Calls)
=============================================================================
