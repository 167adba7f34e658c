----------------------------- MODULE LeakyBucket -----------------------------
(***************************************************************************)
(* What the stores of internal/buckets promise: every bucket has a level   *)
(* between 0 and its capacity that leaks at a constant rate, every second, *)
(* a charge is added to it and cut to that range, and nothing else raises  *)
(* it.  A charge counts as of the moment its call read the clock: it has   *)
(* leaked since.  A store may forget a bucket (eviction, expiry), which    *)
(* empties it.                                                             *)
(***************************************************************************)
EXTENDS Tiers

CONSTANTS
    Keys,       \* the buckets
    tierOf      \* tierOf[k]: the tier of bucket k

VARIABLES
    now,        \* the clock
    level,      \* level[k]: the level of bucket k
    age,        \* how many seconds ago the last message read the clock
    charged,    \* what it charged: a function on some buckets
    reported    \* the levels it was told: a function on some buckets

vars == << now, level, age, charged, reported >>

Cap(k, v) == clamp(v, 0, tierOf[k].Max)

Leaked(k, seconds) == ratePerSec(tierOf[k]) * seconds

Init ==
    /\ level = [k \in Keys |-> 0]
    /\ age = 0
    /\ DOMAIN charged = {} /\ DOMAIN reported = {}

(* What bucket k may have held some seconds ago, if nothing but the leak   *)
(* has happened since.                                                     *)
Earlier(k, seconds) ==
    IF level[k] > 0 THEN {Cap(k, level[k] + Leaked(k, seconds))}
    ELSE 0..Cap(k, Leaked(k, seconds))

(* Bucket k at one message: a charge is added to what the bucket held when *)
(* the clock was read, the message is told the sum, which has leaked since *)
(* then, and the bucket may be forgotten.                                  *)
Handled(k) ==
    \E old \in Earlier(k, age') :
       LET told == IF k \in DOMAIN charged' THEN Cap(k, old + charged'[k]) ELSE old
       IN  /\ k \in DOMAIN reported' => reported'[k] = told
           /\ level'[k] \in {0, IF k \in DOMAIN charged' THEN Cap(k, told - Leaked(k, age'))
                                ELSE level[k]}

(* One message, or none. *)
Apply ==
    /\ age' \in 0..now
    /\ DOMAIN level' = Keys
    /\ \A k \in Keys : Handled(k)
    /\ UNCHANGED now

(* A second passes. *)
Leak ==
    /\ now' = now + 1
    /\ level' = [k \in Keys |-> Cap(k, level[k] - Leaked(k, 1))]
    /\ age' = 0 /\ DOMAIN charged' = {} /\ DOMAIN reported' = {}

Next == Apply \/ Leak

Spec == Init /\ [][Next]_vars
=============================================================================
