-------------------------------- MODULE Tiers --------------------------------
(***************************************************************************)
(* The arithmetic of internal/buckets/buckets.go, in whole units and whole *)
(* seconds: a tier is [Max |-> capacity, Loss |-> percent of the capacity  *)
(* that leaks per second].  The code computes in float64; WholeTier says   *)
(* which tiers the integers represent exactly.                             *)
(***************************************************************************)
EXTENDS Integers

Tier == [Max : Nat, Loss : 0..100]

Enabled(t) == t.Max > 0 /\ t.Loss > 0

ratePerSec(t) == (t.Loss * t.Max) \div 100

(* Mutant: keys live twice as long as a full bucket needs to drain. *)
lifetimeTwice(t) == IF Enabled(t) THEN 200 \div t.Loss ELSE 0

(* Redis is told to drop a key after this many seconds. *)
lifetime(t) == IF Enabled(t) THEN 100 \div t.Loss ELSE 0

WholeTier(t) ==
    /\ t \in Tier
    /\ Enabled(t) => (t.Loss * t.Max) % 100 = 0 /\ 100 % t.Loss = 0

clamp(v, lo, hi) == IF v < lo THEN lo ELSE IF v > hi THEN hi ELSE v

(* What is stored for a bucket is its level plus all that has leaked since *)
(* the epoch, so that it need not be rewritten as time passes.             *)
Stored(t, now, level) == ratePerSec(t) * now + level

Effective(t, now, stored) == stored - ratePerSec(t) * now
=============================================================================
