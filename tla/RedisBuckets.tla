---------------------------- MODULE RedisBuckets ----------------------------
(***************************************************************************)
(* The shared bucket store of internal/buckets/buckets.go: applyRedis for  *)
(* one bucket, by several calls at once (pool workers of one or of several *)
(* inspectors), command by command.  A pipeline is not a transaction: the  *)
(* commands of other calls run between its commands, the key may expire    *)
(* between any two, and the call may lose its connection or time out at    *)
(* any of them, with the commands already sent still to run.               *)
(*                                                                         *)
(* A message charges every bucket with its own commands, which touch no    *)
(* other key: one bucket shows what the calls do to each other.            *)
(***************************************************************************)
EXTENDS Tiers, FiniteSets

CONSTANTS
    Callers,    \* the calls of Apply that may run at once
    tier,       \* the tier of the bucket
    Amounts,    \* what a call may add to the bucket: a rule's per, or a value read
                \* from a header, may be below zero and then gives credit
    Start,      \* seconds since the epoch at the start
    MaxTime,    \* the clock stops there (bound)
    MaxCalls,   \* how many calls are made (bound)
    MaxFaults,  \* how many of them fail (bound)
    Nil         \* no key, no value

Rate == ratePerSec(tier)

(* The last conjunct: what a call adds is less than all that has leaked    *)
(* since the epoch, the 1st of January 2024.                               *)
ASSUME RedisAssumption ==
    /\ IsFiniteSet(Callers)
    /\ WholeTier(tier) /\ Enabled(tier)
    /\ Amounts \subseteq Int
    /\ Nil \notin Int
    /\ Start \in Nat /\ MaxTime \in Nat /\ MaxCalls \in Nat /\ MaxFaults \in Nat
    /\ \A a \in Amounts : a <= Rate * Start

Forever == -1   \* a key without a time to live

VARIABLES
    now,        \* the clock of Redis and of the inspectors
    val,        \* the value under the key, Nil when there is no key
    expires,    \* when the key expires
    pc,         \* pc[c]: the next command or step of call c
    at,         \* at[c]: the now of call c, taken when it began
    delta,      \* delta[c]: sums[ref], Nil for a call that only reads
    raw,        \* raw[c]: what Redis returned, Nil when it had no key
    heard,      \* heard[c]: the call still waits for its results
    reported,   \* reported[c]: the level it returned, Nil for none or an error
    calls, faults,      \* how many so far
    ideal,      \* the exact level: every charge counted when it runs, every
                \* credit but those a correction under way may undo (history)
    touched     \* when the last command that writes ran (history)

vars == << now, val, expires, pc, at, delta, raw, heard, reported, calls, faults,
           ideal, touched >>

Init ==
    /\ now = Start
    /\ val = Nil
    /\ expires = Forever
    /\ pc = [c \in Callers |-> "idle"]
    /\ at = [c \in Callers |-> Nil]
    /\ delta = [c \in Callers |-> Nil]
    /\ raw = [c \in Callers |-> Nil]
    /\ heard = [c \in Callers |-> TRUE]
    /\ reported = [c \in Callers |-> Nil]
    /\ calls = 0
    /\ faults = 0
    /\ ideal = 0
    /\ touched = Start
-----------------------------------------------------------------------------
GoOn(c, step) == pc' = [pc EXCEPT ![c] = step] /\ UNCHANGED << at, raw, heard >>

(* The call is over and its local variables are gone. *)
Over(c) ==
    /\ pc' = [pc EXCEPT ![c] = "idle"]
    /\ at' = [at EXCEPT ![c] = Nil]
    /\ raw' = [raw EXCEPT ![c] = Nil]
    /\ heard' = [heard EXCEPT ![c] = TRUE]

(* Redis: SET with a time to live. *)
Set(v, ttl) ==
    /\ val' = v
    /\ expires' = now + ttl
    /\ touched' = now

(* Apply begins: a charge or a read. *)
Begin(c, d) ==
    /\ pc[c] = "idle"
    /\ calls < MaxCalls
    /\ calls' = calls + 1
    /\ at' = [at EXCEPT ![c] = now]
    /\ delta' = [delta EXCEPT ![c] = d]
    /\ reported' = [reported EXCEPT ![c] = Nil]
    /\ pc' = [pc EXCEPT ![c] = IF d = Nil THEN "get" ELSE "setnx"]
    /\ UNCHANGED << now, val, expires, raw, heard, faults, ideal, touched >>

(* Mutant: the base is laid down at the capacity. *)
SetNXFull(c) ==
    /\ pc[c] = "setnx"
    /\ \/ val = Nil /\ Set(Stored(tier, at[c], tier.Max), lifetime(tier))
       \/ val # Nil /\ UNCHANGED << val, expires, touched >>
    /\ GoOn(c, "incr")
    /\ UNCHANGED << now, delta, reported, calls, faults, ideal >>

SetNX(c) ==
    /\ pc[c] = "setnx"
    /\ \/ val = Nil /\ Set(Stored(tier, at[c], 0), lifetime(tier))
       \/ val # Nil /\ UNCHANGED << val, expires, touched >>
    /\ GoOn(c, "incr")
    /\ UNCHANGED << now, delta, reported, calls, faults, ideal >>

(* The level a call makes of the value it was given. *)
eff(c) == Effective(tier, at[c], raw[c])

Charged(c) == delta[c] # Nil

(* The bucket had leaked dry before this charge. *)
Drained(c) == Charged(c) /\ eff(c) < delta[c]

(* Whether the stored value has to be corrected by a second pipeline. *)
NeedsFix(c) == raw[c] # Nil /\ Charged(c) /\ (Drained(c) \/ eff(c) > tier.Max)

(* Another call has run its INCRBYFLOAT and its SET is still to come: the  *)
(* SET does not know of what call c writes now.                            *)
Overlapped(c) == \E o \in Callers \ {c} : NeedsFix(o)

(* The exact level after the charge of call c. *)
afterCharge(c) ==
    CASE delta[c] >= 0                    -> ideal + delta[c]
      [] delta[c] < 0 /\ Overlapped(c)    -> ideal
      [] delta[c] < 0 /\ ~Overlapped(c)   -> IF ideal + delta[c] > 0 THEN ideal + delta[c] ELSE 0

(* A key that expired since SETNX is made anew, from zero and without a    *)
(* time to live.                                                           *)
IncrByFloat(c) ==
    /\ pc[c] = "incr"
    /\ val' = (IF val = Nil THEN 0 ELSE val) + delta[c]
    /\ raw' = [raw EXCEPT ![c] = val']
    /\ expires' = IF val = Nil THEN Forever ELSE expires
    /\ touched' = now
    /\ ideal' = afterCharge(c)
    /\ pc' = [pc EXCEPT ![c] = "pexpire"]
    /\ UNCHANGED << now, at, delta, heard, reported, calls, faults >>

(* The last command of the pipeline: its results reach the call, if it     *)
(* still waits for them.                                                   *)
PipelineEnds(c) ==
    \/ heard[c] /\ GoOn(c, "settle")
    \/ ~heard[c] /\ Over(c)

PExpire(c) ==
    /\ pc[c] = "pexpire"
    /\ \/ val # Nil /\ expires' = now + lifetime(tier) /\ touched' = now
       \/ val = Nil /\ UNCHANGED << expires, touched >>
    /\ PipelineEnds(c)
    /\ UNCHANGED << now, val, delta, reported, calls, faults, ideal >>

Get(c) ==
    /\ pc[c] = "get"
    /\ \/ /\ heard[c]
          /\ raw' = [raw EXCEPT ![c] = val]
          /\ pc' = [pc EXCEPT ![c] = "settle"]
          /\ UNCHANGED << at, heard >>
       \/ ~heard[c] /\ Over(c)
    /\ UNCHANGED << now, val, expires, delta, reported, calls, faults, ideal, touched >>
-----------------------------------------------------------------------------
(* Mutant: a charge to a dry bucket is lost in its debt. *)
settledForgets(c) ==
    CASE raw[c] = Nil -> 0
      [] raw[c] # Nil -> clamp(eff(c), 0, tier.Max)

(* Mutant: the level is not cut to the capacity. *)
settledUncut(c) ==
    CASE raw[c] = Nil                -> 0
      [] raw[c] # Nil /\ Drained(c)  -> delta[c]
      [] raw[c] # Nil /\ ~Drained(c) -> eff(c)

settled(c) ==
    CASE raw[c] = Nil                -> 0
      [] raw[c] # Nil /\ Drained(c)  -> clamp(delta[c], 0, tier.Max)
      [] raw[c] # Nil /\ ~Drained(c) -> clamp(eff(c), 0, tier.Max)

Settle(c) ==
    /\ pc[c] = "settle"
    /\ \/ /\ NeedsFix(c)
          /\ GoOn(c, "fix")
          /\ UNCHANGED reported
       \/ /\ ~NeedsFix(c)
          /\ Over(c)
          /\ reported' = [reported EXCEPT ![c] = settled(c)]
    /\ UNCHANGED << now, val, expires, delta, calls, faults, ideal, touched >>

(* The second pipeline: SET, whatever has been written in between. *)
Fix(c) ==
    /\ pc[c] = "fix"
    /\ Set(Stored(tier, at[c], settled(c)), lifetime(tier))
    /\ reported' = [reported EXCEPT ![c] = IF heard[c] THEN settled(c) ELSE Nil]
    /\ Over(c)
    /\ UNCHANGED << now, delta, calls, faults, ideal >>
-----------------------------------------------------------------------------
InPipeline(c) == pc[c] \in {"setnx", "incr", "pexpire", "get", "fix"}

(* Exec fails and the commands that have not run never do. *)
ConnectionLost(c) ==
    /\ InPipeline(c)
    /\ faults < MaxFaults
    /\ faults' = faults + 1
    /\ Over(c)
    /\ UNCHANGED << now, val, expires, delta, reported, calls, ideal, touched >>

(* The context's deadline passes: Apply returns the error, Redis goes on   *)
(* with the pipeline it was sent.                                          *)
TimedOut(c) ==
    /\ InPipeline(c) /\ heard[c]
    /\ faults < MaxFaults
    /\ faults' = faults + 1
    /\ heard' = [heard EXCEPT ![c] = FALSE]
    /\ UNCHANGED << now, val, expires, pc, at, delta, raw, reported, calls, ideal, touched >>

(* A second passes and Redis drops what has expired. *)
Tick ==
    /\ now < MaxTime
    /\ now' = now + 1
    /\ ideal' = IF ideal > Rate THEN ideal - Rate ELSE 0
    /\ val' = IF expires = now + 1 THEN Nil ELSE val
    /\ expires' = IF expires = now + 1 THEN Forever ELSE expires
    /\ UNCHANGED << pc, at, delta, raw, heard, reported, calls, faults, touched >>

(* All calls made and time out: nothing more is observed. *)
Terminated ==
    /\ now = MaxTime /\ calls = MaxCalls
    /\ \A c \in Callers : pc[c] = "idle"
    /\ UNCHANGED vars

Step(c) ==
    \/ SetNX(c) \/ IncrByFloat(c) \/ PExpire(c) \/ Get(c) \/ Settle(c) \/ Fix(c)
    \/ ConnectionLost(c) \/ TimedOut(c)

Next ==
    \/ \E c \in Callers : \E d \in Amounts \union {Nil} : Begin(c, d)
    \/ \E c \in Callers : Step(c)
    \/ Tick
    \/ Terminated

Spec == Init /\ [][Next]_vars
-----------------------------------------------------------------------------
(* The type invariant. *)
TypeOK ==
    /\ now \in Nat
    /\ val \in Int \union {Nil}
    /\ expires \in Nat \union {Forever}
    /\ pc \in [Callers -> {"idle", "setnx", "incr", "pexpire", "get", "settle", "fix"}]
    /\ at \in [Callers -> Nat \union {Nil}]
    /\ delta \in [Callers -> Amounts \union {Nil}]
    /\ raw \in [Callers -> Int \union {Nil}]
    /\ heard \in [Callers -> BOOLEAN]
    /\ reported \in [Callers -> 0..tier.Max \union {Nil}]
    /\ calls \in 0..MaxCalls
    /\ faults \in 0..MaxFaults
    /\ ideal \in Nat
    /\ touched \in Nat

(* A subject is never held for more than it did: whatever calls overlap,   *)
(* fail or come late, the level Redis keeps for it is at most the exact    *)
(* one, in which every charge counts once, from the moment it ran.  The    *)
(* corrections (SET) overwrite: they may lose a charge, or undo a credit,  *)
(* that ran between the INCRBYFLOAT of their call and themselves, but they *)
(* bring no charge back and undo no credit that ran before or after.       *)
NeverOvercounts == val # Nil => Effective(tier, now, val) <= ideal

(* A call that charges and succeeds is told a level that holds its own     *)
(* charge in full, up to the capacity, however the key was drained, made   *)
(* anew or overwritten.                                                    *)
OwnChargeSeen ==
    \A c \in Callers :
       pc[c] = "idle" /\ reported[c] # Nil /\ Charged(c)
       => reported[c] >= clamp(delta[c], 0, tier.Max)

(* profiles/_shared/counters.yaml:9: "A quiet subject returns to zero in   *)
(* 100/loss seconds", after calls that failed half-way too: a level above  *)
(* the capacity whose correction was lost, a key left without a time to    *)
(* live.                                                                   *)
QuietReturnsToZero ==
    (\A c \in Callers : pc[c] = "idle") /\ now >= touched + 100 \div tier.Loss
    => val = Nil \/ Effective(tier, now, val) <= 0
=============================================================================
