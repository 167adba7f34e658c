---------------------------- MODULE LocalBuckets ----------------------------
(***************************************************************************)
(* The in-memory bucket store of internal/buckets/buckets.go, used when no *)
(* Redis is configured.  A message takes the tiers of the snapshot in      *)
(* force when its inspection begins, reads the clock when it calls Apply,  *)
(* and changes the ledger later, in one critical section of ledger.mu      *)
(* (applyLocal), with the eviction that bounds the ledger.  Until then     *)
(* generations come into force, time passes and other messages go first.   *)
(***************************************************************************)
EXTENDS Tiers, Sequences, FiniteSets, Functions

CONSTANTS
    Keys,           \* bucket references (counter, axis and subject)
    Deployed,       \* the generations, in the order they come into force:
                    \* Deployed[g][k] is the tier of bucket k in generation g
    Calls,          \* the workers that may be inspecting a message each
    Messages,       \* what messages may do: [sums |-> what they add to which
                    \* buckets, reads |-> which others they read]
    Max,            \* ledger.max
    Start,          \* seconds since the epoch when the process starts
    MaxTime         \* the clock stops there (bound)

ASSUME LocalAssumption ==
    /\ IsFiniteSet(Keys)
    /\ Len(Deployed) \in Nat \ {0} /\ DOMAIN Deployed = 1..Len(Deployed)
    /\ \A g \in DOMAIN Deployed : \A k \in Keys : WholeTier(Deployed[g][k])
    /\ \A x \in Messages : /\ DOMAIN x.sums \subseteq Keys /\ x.reads \subseteq Keys
                           /\ \A k \in DOMAIN x.sums : x.sums[k] \in Int
    /\ Max \in Nat
    /\ Start \in Nat /\ MaxTime \in Nat /\ Start <= MaxTime

VARIABLES
    now,        \* the clock
    gen,        \* the generation in force
    pc,         \* pc[c]: "idle", "begun" (has its snapshot) or "timed" (in Apply)
    of,         \* of[c]: the generation of the snapshot that call c works with
    at,         \* at[c]: the clock as call c read it
    m,          \* ledger.m: the stored values
    last,       \* the last Apply of this moment: its charges and what it returned
    touched     \* touched[k]: the clock reading of bucket k's last charge (history)

calls == << pc, of, at >>
vars == << now, gen, calls, m, last, touched >>

(* No Apply has just happened. *)
Nothing == [gen |-> 1, age |-> 0, charged |-> << >>, reported |-> << >>]

Init ==
    /\ now = Start
    /\ gen = 1
    /\ pc = [c \in Calls |-> "idle"]
    /\ of = [c \in Calls |-> 1]
    /\ at = [c \in Calls |-> Start]
    /\ m = << >>
    /\ last = Nothing
    /\ touched = [k \in Keys |-> Start]
-----------------------------------------------------------------------------
(* What is read of bucket k with tier t at time s. *)
levelBy(t, s, k) ==
    IF k \in DOMAIN m THEN clamp(Effective(t, s, m[k]), 0, t.Max) ELSE 0

(* The tiers that call c works with. *)
tiers(c) == Deployed[of[c]]

(* refUnion: the references of charges and reads whose tier is enabled. *)
refUnion(c, sums, reads) == {k \in DOMAIN sums \union reads : Enabled(tiers(c)[k])}

(* The level before this message's own charge. *)
before(c, k) == levelBy(tiers(c)[k], at[c], k)

(* Mutant: the charge is added without cutting it to the capacity. *)
afterUncut(c, sums, k) ==
    IF k \in DOMAIN sums THEN before(c, k) + sums[k] ELSE before(c, k)

after(c, sums, k) ==
    IF k \in DOMAIN sums THEN clamp(before(c, k) + sums[k], 0, tiers(c)[k].Max)
    ELSE before(c, k)

(* Mutant: the level is stored as if the clock had been read under the lock. *)
storeLate(c, sums, refs) ==
    LET paid == refs \intersect DOMAIN sums
        drained == {k \in (refs \intersect DOMAIN m) \ paid : after(c, sums, k) <= 0}
    IN  [k \in (DOMAIN m \union paid) \ drained |->
            IF k \in paid THEN Stored(tiers(c)[k], now, after(c, sums, k)) ELSE m[k]]

(* Mutant: a charged bucket keeps its old base. *)
storeStale(c, sums, refs) ==
    LET paid == refs \intersect DOMAIN sums
        drained == {k \in (refs \intersect DOMAIN m) \ paid : after(c, sums, k) <= 0}
    IN  [k \in (DOMAIN m \union paid) \ drained |->
            IF k \in paid /\ k \notin DOMAIN m THEN Stored(tiers(c)[k], at[c], after(c, sums, k))
            ELSE IF k \in paid THEN m[k] + sums[k]
            ELSE m[k]]

(* Charged buckets are written; a bucket read and found empty is dropped. *)
store(c, sums, refs) ==
    LET paid == refs \intersect DOMAIN sums
        drained == {k \in (refs \intersect DOMAIN m) \ paid : after(c, sums, k) <= 0}
    IN  [k \in (DOMAIN m \union paid) \ drained |->
            IF k \in paid THEN Stored(tiers(c)[k], at[c], after(c, sums, k)) ELSE m[k]]

(* Mutant: the ledger is cut one entry late. *)
keptLate(ks) == IF Cardinality(ks) > Max + 1 THEN Max \div 2 ELSE Cardinality(ks)

(* How many entries the eviction loop leaves: it deletes in map order,     *)
(* that is in any order, until half of Max is left.                        *)
kept(ks) == IF Cardinality(ks) > Max THEN Max \div 2 ELSE Cardinality(ks)
-----------------------------------------------------------------------------
(* handler.inspect takes the snapshot in force; headers are loaded and     *)
(* addresses looked up before it comes to Apply.                           *)
Snapshot(c) ==
    /\ pc[c] = "idle"
    /\ pc' = [pc EXCEPT ![c] = "begun"]
    /\ of' = [of EXCEPT ![c] = gen]
    /\ last' = Nothing
    /\ UNCHANGED << now, gen, at, m, touched >>

(* Apply reads the clock before it waits for the lock. *)
ReadClock(c) ==
    /\ pc[c] = "begun"
    /\ pc' = [pc EXCEPT ![c] = "timed"]
    /\ at' = [at EXCEPT ![c] = now]
    /\ last' = Nothing
    /\ UNCHANGED << now, gen, of, m, touched >>

(* The rest of Apply for one message: the sums of its charges per          *)
(* reference, and the references it only reads.                            *)
Apply(c, sums, reads) ==
    LET refs == refUnion(c, sums, reads)
        full == store(c, sums, refs)
        paid == refs \intersect DOMAIN sums
    IN  /\ pc[c] = "timed"
        /\ pc' = [pc EXCEPT ![c] = "idle"]
        /\ of' = [of EXCEPT ![c] = 1] /\ at' = [at EXCEPT ![c] = Start]
        /\ \/ refs = {} /\ last' = Nothing /\ UNCHANGED << m, touched >>
           \/ /\ refs # {}
              /\ last' = [gen |-> of[c], age |-> now - at[c],
                          charged |-> Restrict(sums, paid),
                          reported |-> [k \in refs |-> after(c, sums, k)]]
              /\ \E ks \in SUBSET DOMAIN full :
                    /\ Cardinality(ks) = kept(DOMAIN full)
                    /\ m' = Restrict(full, ks)
              /\ touched' = [k \in Keys |-> IF k \in paid THEN at[c] ELSE touched[k]]
        /\ UNCHANGED << now, gen >>

(* The next generation is in force for the messages that begin from now. *)
Reload ==
    /\ gen < Len(Deployed)
    /\ gen' = gen + 1
    /\ last' = Nothing
    /\ UNCHANGED << now, calls, m, touched >>

Tick ==
    /\ now < MaxTime
    /\ now' = now + 1
    /\ last' = Nothing
    /\ UNCHANGED << gen, calls, m, touched >>

Next ==
    \/ \E c \in Calls : Snapshot(c) \/ ReadClock(c)
    \/ \E c \in Calls, x \in Messages : Apply(c, x.sums, x.reads)
    \/ Reload
    \/ Tick

Spec == Init /\ [][Next]_vars
-----------------------------------------------------------------------------
(* The type invariant: clocks and generations that calls have read are not *)
(* of the future, and the levels returned are within the capacities of the *)
(* call's own generation.                                                  *)
TypeOK ==
    /\ now \in Start..MaxTime
    /\ gen \in 1..Len(Deployed)
    /\ pc \in [Calls -> {"idle", "begun", "timed"}]
    /\ of \in [Calls -> 1..gen]
    /\ at \in [Calls -> Start..now]
    /\ DOMAIN m \subseteq Keys /\ \A k \in DOMAIN m : m[k] \in Int
    /\ last.gen \in 1..gen /\ last.age \in 0..(now - Start)
    /\ DOMAIN last.charged \subseteq Keys /\ DOMAIN last.reported \subseteq Keys
    /\ \A k \in DOMAIN last.reported : last.reported[k] \in 0..Deployed[last.gen][k].Max
    /\ touched \in [Keys -> Start..now]

(* The ledger never holds more than Max entries once Apply returns, with   *)
(* however many buckets a single message charges.                          *)
LedgerBound == Cardinality(DOMAIN m) <= Max

(* profiles/_shared/counters.yaml:9: "A quiet subject returns to zero in   *)
(* 100/loss seconds": a bucket not charged for that long, by the tier in   *)
(* force, is empty, whatever calls in flight wrote by an earlier tier.     *)
QuietReturnsToZero ==
    \A k \in Keys :
       LET t == Deployed[gen][k]
       IN  Enabled(t) /\ now >= touched[k] + 100 \div t.Loss => levelBy(t, now, k) = 0

(* The tiers that generations give bucket k, where they declare it. *)
Declared(k) == {t \in {Deployed[g][k] : g \in DOMAIN Deployed} : Enabled(t)}

(* The buckets whose capacity and leak no generation changes; one may be   *)
(* withdrawn and declared again.                                           *)
Steady == {k \in Keys : \E t \in Declared(k) : Declared(k) = {t}}

tierOf == [k \in Steady |-> CHOOSE t \in Declared(k) : TRUE]

(* The refinement mapping: the level a steady bucket has now, and what the *)
(* last message charged and was told of the steady buckets.                *)
level == [k \in Steady |-> levelBy(tierOf[k], now, k)]
charged == Restrict(last.charged, Steady \intersect DOMAIN last.charged)
reported == Restrict(last.reported, Steady \intersect DOMAIN last.reported)

Ideal == INSTANCE LeakyBucket WITH Keys <- Steady, tierOf <- tierOf, now <- now,
    level <- level, age <- last.age, charged <- charged, reported <- reported

(* For the steady buckets the ledger is a leaky bucket: stored bases,      *)
(* lazily dropped entries, evictions, reloads, calls of an older           *)
(* generation and clock readings that come late never raise a level, and   *)
(* every charge counts in full as of the time its call read.               *)
IsLeakyBucket == Ideal!Spec
=============================================================================
