----------------------------- MODULE LocalProofs -----------------------------
(***************************************************************************)
(* Theorems about LocalBuckets, for any buckets, generations, calls,       *)
(* messages and ledger limit.                                              *)
(***************************************************************************)
EXTENDS LocalBuckets, Lemmas, FiniteSetTheorems

(* The fields of a tier. *)
LEMMA TierFields == ASSUME NEW t \in Tier PROVE t.Max \in Nat /\ t.Loss \in Nat
<1>1. t.Max \in Nat /\ t.Loss \in 0..100
  BY DEF Tier
<1>2. \A n \in 0..100 : n \in Nat
  OBVIOUS
<1> QED
  BY <1>1, <1>2

(* The tiers of every generation are whole. *)
LEMMA TierFacts ==
  ASSUME NEW g \in 1..Len(Deployed), NEW k \in Keys
  PROVE  /\ WholeTier(Deployed[g][k]) /\ Deployed[g][k] \in Tier
         /\ Deployed[g][k].Max \in Nat /\ Deployed[g][k].Loss \in Nat
         /\ ratePerSec(Deployed[g][k]) \in Nat
<1>1. WholeTier(Deployed[g][k]) /\ Deployed[g][k] \in Tier
  BY LocalAssumption DEF WholeTier
<1>2. Deployed[g][k].Max \in Nat /\ Deployed[g][k].Loss \in Nat
  BY <1>1, TierFields
<1>3. ratePerSec(Deployed[g][k]) \in Nat
  BY <1>1, RateType
<1> QED
  BY <1>1, <1>2, <1>3

(* The clock, and what calls have read of it and of the generations. *)
LEMMA ClockFacts ==
  ASSUME TypeOK
  PROVE  /\ now \in Nat /\ Start \in Nat /\ Start <= now
         /\ gen \in 1..Len(Deployed) /\ gen \in Nat
         /\ \A c \in Calls : /\ of[c] \in 1..gen /\ of[c] \in 1..Len(Deployed)
                             /\ at[c] \in Nat /\ Start <= at[c] /\ at[c] <= now
         /\ \A k \in Keys : touched[k] \in Nat /\ touched[k] <= now
<1>1. now \in Nat /\ Start \in Nat /\ Start <= now
  BY LocalAssumption DEF TypeOK
<1>2. Len(Deployed) \in Nat
  BY LocalAssumption
<1>3. gen \in 1..Len(Deployed) /\ gen \in Nat
  BY <1>2 DEF TypeOK
<1>4. of \in [Calls -> 1..gen] /\ at \in [Calls -> Start..now] /\ touched \in [Keys -> Start..now]
  BY DEF TypeOK
<1> QED
  BY <1>1, <1>2, <1>3, <1>4

(* So the tiers a call works with are whole. *)
LEMMA CallTier ==
  ASSUME TypeOK, NEW c \in Calls, NEW k \in Keys
  PROVE  /\ WholeTier(tiers(c)[k]) /\ tiers(c)[k] \in Tier
         /\ tiers(c)[k].Max \in Nat /\ tiers(c)[k].Loss \in Nat
         /\ ratePerSec(tiers(c)[k]) \in Nat
  BY TierFacts, ClockFacts DEF tiers

(* What has leaked by some moment. *)
LEMMA LeakedType == ASSUME NEW t \in Tier, NEW s \in Nat PROVE ratePerSec(t) * s \in Nat
<1>1. ratePerSec(t) \in Nat /\ \A m1, m2 \in Nat : m1 * m2 \in Nat
  BY RateType
<1> QED
  BY <1>1

(* The level of a bucket is in its range. *)
LEMMA LevelType ==
  ASSUME TypeOK, NEW k \in Keys, NEW t \in Tier, NEW s \in Nat
  PROVE  levelBy(t, s, k) \in 0..t.Max /\ levelBy(t, s, k) \in Int
<1>0. t.Max \in Nat
  BY DEF Tier
<1>1. CASE k \in DOMAIN m
  <2>1. m[k] \in Int
    BY <1>1 DEF TypeOK
  <2>2. Effective(t, s, m[k]) \in Int
    BY <2>1, LeakedType DEF Effective
  <2>3. levelBy(t, s, k) \in 0..t.Max
    BY <1>0, <1>1, <2>2, ClampFacts DEF levelBy
  <2> QED
    BY <1>0, <2>3
<1>2. CASE k \notin DOMAIN m
  BY <1>0, <1>2 DEF levelBy
<1> QED
  BY <1>1, <1>2

(* What one message may do. *)
Message(sums, reads) ==
    DOMAIN sums \subseteq Keys /\ reads \subseteq Keys /\ \A k \in DOMAIN sums : sums[k] \in Int

(* So is the level after a charge. *)
LEMMA AfterType ==
  ASSUME TypeOK, NEW sums, NEW reads, Message(sums, reads), NEW c \in Calls, NEW k \in Keys
  PROVE  after(c, sums, k) \in 0..tiers(c)[k].Max /\ after(c, sums, k) \in Int
<1>1. before(c, k) \in 0..tiers(c)[k].Max /\ before(c, k) \in Int /\ tiers(c)[k].Max \in Nat
  BY LevelType, CallTier, ClockFacts DEF before
<1>2. CASE k \in DOMAIN sums
  <2>1. before(c, k) + sums[k] \in Int
    BY <1>1, <1>2 DEF Message
  <2>2. after(c, sums, k) \in 0..tiers(c)[k].Max
    BY <1>1, <1>2, <2>1, ClampFacts DEF after
  <2> QED
    BY <1>1, <2>2
<1>3. CASE k \notin DOMAIN sums
  BY <1>1, <1>3 DEF after
<1> QED
  BY <1>2, <1>3

(* What Apply leaves of the ledger: charged entries are rewritten, the     *)
(* others are as they were or gone.                                        *)
LEMMA ApplyLedger ==
  ASSUME TypeOK, LedgerBound, NEW c \in Calls, NEW sums, NEW reads, Message(sums, reads),
         Apply(c, sums, reads)
  PROVE  LET paid == refUnion(c, sums, reads) \intersect DOMAIN sums
         IN  /\ refUnion(c, sums, reads) \subseteq Keys
             /\ DOMAIN m' \subseteq DOMAIN m \union paid
             /\ \A k \in DOMAIN m' :
                   m'[k] = IF k \in paid THEN Stored(tiers(c)[k], at[c], after(c, sums, k))
                           ELSE m[k]
             /\ \A k \in Keys : touched'[k] = IF k \in paid THEN at[c] ELSE touched[k]
             /\ touched' \in [Keys -> Start..now]
             /\ Cardinality(DOMAIN m') <= Max
<1> DEFINE refs == refUnion(c, sums, reads)
           full == store(c, sums, refs)
           paid == refs \intersect DOMAIN sums
<1>1. refs \subseteq Keys
  BY DEF refUnion, Message
<1>2. CASE refs = {}
  <2>1. UNCHANGED << m, touched >>
    BY <1>2 DEF Apply
  <2> QED
    BY <1>1, <1>2, <2>1 DEF LedgerBound, TypeOK
<1>3. CASE refs # {}
  <2>1. DOMAIN full \subseteq DOMAIN m \union paid
    BY DEF store
  <2>2. \A k \in DOMAIN full :
           full[k] = IF k \in paid THEN Stored(tiers(c)[k], at[c], after(c, sums, k)) ELSE m[k]
    BY DEF store
  <2>3. PICK ks \in SUBSET DOMAIN full :
           Cardinality(ks) = kept(DOMAIN full) /\ m' = Restrict(full, ks)
    BY <1>3 DEF Apply
  <2>4. touched' = [k \in Keys |-> IF k \in paid THEN at[c] ELSE touched[k]]
    BY <1>3 DEF Apply
  <2>5. touched' \in [Keys -> Start..now]
    BY <2>4 DEF TypeOK
  <2> HIDE DEF full
  <2>6. DOMAIN m' = ks /\ \A k \in ks : m'[k] = full[k]
    BY <2>3 DEF Restrict
  <2>7. Cardinality(ks) <= Max
    <3>1. DOMAIN full \subseteq Keys
      BY <1>1, <2>1 DEF TypeOK
    <3>2. Cardinality(DOMAIN full) \in Nat
      BY <3>1, LocalAssumption, FS_Subset, FS_CardinalityType
    <3>3. \A n \in Nat : n \div 2 <= n
      OBVIOUS
    <3> QED
      BY <2>3, <3>2, <3>3, LocalAssumption DEF kept
  <2> QED
    BY <1>1, <2>1, <2>2, <2>4, <2>5, <2>6, <2>7
<1> QED
  BY <1>2, <1>3
-----------------------------------------------------------------------------
(* The first generation starts with an empty ledger. *)
LEMMA InitLocal == Init => TypeOK /\ LedgerBound
<1> SUFFICES ASSUME Init PROVE TypeOK /\ LedgerBound
  OBVIOUS
<1>1. Len(Deployed) \in Nat \ {0} /\ Start \in Nat /\ MaxTime \in Nat /\ Start <= MaxTime
  BY LocalAssumption
<1>2. gen \in 1..Len(Deployed) /\ 1 \in 1..gen /\ now \in Start..MaxTime /\ 0 \in 0..(now - Start)
  BY <1>1 DEF Init
<1>3. DOMAIN m = {} /\ Cardinality(DOMAIN m) <= Max
  BY FS_EmptySet, LocalAssumption DEF Init
<1>4. /\ last.gen = 1 /\ last.age = 0
      /\ DOMAIN last.charged = {} /\ DOMAIN last.reported = {}
  BY DEF Init, Nothing
<1>5. /\ pc \in [Calls -> {"idle", "begun", "timed"}]
      /\ of \in [Calls -> 1..gen] /\ at \in [Calls -> Start..now]
      /\ touched \in [Keys -> Start..now]
  BY <1>1, <1>2 DEF Init
<1> QED
  BY <1>2, <1>3, <1>4, <1>5 DEF TypeOK, LedgerBound

(* Beginnings of intervals. *)
LEMMA FirstOf == \A a, b \in Nat : a <= b => a \in a..b /\ 0 \in 0..(b - a)
  OBVIOUS

(* What a step that ends no call leaves of the last message. *)
LEMMA NothingFacts ==
  ASSUME TypeOK, last' = Nothing, now' \in Nat, Start <= now', gen' \in Nat, 1 <= gen'
  PROVE  /\ last'.gen \in 1..gen' /\ last'.age \in 0..(now' - Start)
         /\ DOMAIN last'.charged = {} /\ DOMAIN last'.reported = {}
<1>1. /\ last'.gen = 1 /\ last'.age = 0
      /\ DOMAIN last'.charged = {} /\ DOMAIN last'.reported = {}
  BY DEF Nothing
<1>2. Start \in Nat
  BY LocalAssumption
<1>3. 1 \in 1..gen'
  BY FirstOf
<1>4. 0 \in 0..(now' - Start)
  BY <1>2, FirstOf
<1> QED
  BY <1>1, <1>3, <1>4

(* Every step keeps the types and the bound on the ledger. *)
LEMMA NextLocal == TypeOK /\ LedgerBound /\ [Next]_vars => TypeOK' /\ LedgerBound'
<1> SUFFICES ASSUME TypeOK, LedgerBound, [Next]_vars PROVE TypeOK' /\ LedgerBound'
  OBVIOUS
<1>0. /\ now \in Nat /\ Start \in Nat /\ Start <= now /\ gen \in Nat /\ 1 <= gen
      /\ Len(Deployed) \in Nat /\ MaxTime \in Nat
  BY ClockFacts, LocalAssumption
<1>1. ASSUME NEW c \in Calls, Snapshot(c) PROVE TypeOK' /\ LedgerBound'
  <2>1. gen \in 1..gen /\ UNCHANGED << now, gen, at, m, touched >> /\ last' = Nothing
    BY <1>0, <1>1 DEF Snapshot
  <2>2. pc' \in [Calls -> {"idle", "begun", "timed"}] /\ of' \in [Calls -> 1..gen]
    BY <1>1, <2>1 DEF Snapshot, TypeOK
  <2>3. /\ last'.gen \in 1..gen' /\ last'.age \in 0..(now' - Start)
        /\ DOMAIN last'.charged = {} /\ DOMAIN last'.reported = {}
    BY <1>0, <2>1, NothingFacts
  <2> QED
    BY <2>1, <2>2, <2>3 DEF TypeOK, LedgerBound
<1>2. ASSUME NEW c \in Calls, ReadClock(c) PROVE TypeOK' /\ LedgerBound'
  <2>1. now \in Start..now /\ UNCHANGED << now, gen, of, m, touched >> /\ last' = Nothing
    BY <1>0, <1>2 DEF ReadClock
  <2>2. pc' \in [Calls -> {"idle", "begun", "timed"}] /\ at' \in [Calls -> Start..now]
    BY <1>2, <2>1 DEF ReadClock, TypeOK
  <2>3. /\ last'.gen \in 1..gen' /\ last'.age \in 0..(now' - Start)
        /\ DOMAIN last'.charged = {} /\ DOMAIN last'.reported = {}
    BY <1>0, <2>1, NothingFacts
  <2> QED
    BY <2>1, <2>2, <2>3 DEF TypeOK, LedgerBound
<1>3. ASSUME NEW c \in Calls, NEW x \in Messages, Apply(c, x.sums, x.reads)
      PROVE  TypeOK' /\ LedgerBound'
  <2> DEFINE refs == refUnion(c, x.sums, x.reads)
             paid == refs \intersect DOMAIN x.sums
  <2>1. Message(x.sums, x.reads)
    BY LocalAssumption DEF Message
  <2>2. /\ refs \subseteq Keys
        /\ DOMAIN m' \subseteq DOMAIN m \union paid
        /\ \A k \in DOMAIN m' :
              m'[k] = IF k \in paid THEN Stored(tiers(c)[k], at[c], after(c, x.sums, k))
                      ELSE m[k]
        /\ touched' \in [Keys -> Start..now]
        /\ Cardinality(DOMAIN m') <= Max
    BY <1>3, <2>1, ApplyLedger
  <2>3. \A k \in DOMAIN m' : m'[k] \in Int
    <3> SUFFICES ASSUME NEW k \in DOMAIN m' PROVE m'[k] \in Int
      OBVIOUS
    <3>1. k \in Keys
      BY <2>2 DEF TypeOK
    <3>2. Stored(tiers(c)[k], at[c], after(c, x.sums, k)) \in Int
      <4>1. after(c, x.sums, k) \in Int
        BY <2>1, <3>1, AfterType
      <4>2. ratePerSec(tiers(c)[k]) * at[c] \in Nat
        BY <3>1, LeakedType, CallTier, ClockFacts
      <4> QED
        BY <4>1, <4>2 DEF Stored
    <3> QED
      BY <2>2, <3>2 DEF TypeOK
  <2>4. UNCHANGED << now, gen >>
    BY <1>3 DEF Apply
  <2>5. /\ pc' \in [Calls -> {"idle", "begun", "timed"}]
        /\ of' \in [Calls -> 1..gen] /\ at' \in [Calls -> Start..now]
    <3>1. 1 \in 1..gen /\ Start \in Start..now
      BY <1>0, FirstOf
    <3> QED
      BY <1>3, <3>1 DEF Apply, TypeOK
  <2>6. /\ last'.gen \in 1..gen' /\ last'.age \in 0..(now' - Start)
        /\ DOMAIN last'.charged \subseteq Keys /\ DOMAIN last'.reported \subseteq Keys
        /\ \A k \in DOMAIN last'.reported :
              last'.reported[k] \in 0..Deployed[last'.gen][k].Max
    <3>1. CASE refs = {}
      <4>1. last' = Nothing
        BY <1>3, <3>1 DEF Apply
      <4>2. /\ last'.gen \in 1..gen' /\ last'.age \in 0..(now' - Start)
            /\ DOMAIN last'.charged = {} /\ DOMAIN last'.reported = {}
        BY <1>0, <2>4, <4>1, NothingFacts
      <4> QED
        BY <4>2
    <3>2. CASE refs # {}
      <4>1. last' = [gen |-> of[c], age |-> now - at[c],
                     charged |-> Restrict(x.sums, paid),
                     reported |-> [k \in refs |-> after(c, x.sums, k)]]
        BY <1>3, <3>2 DEF Apply
      <4>2. /\ last'.gen = of[c] /\ last'.age = now - at[c]
            /\ DOMAIN last'.charged = paid /\ DOMAIN last'.reported = refs
            /\ \A k \in refs : last'.reported[k] = after(c, x.sums, k)
        BY <4>1 DEF Restrict
      <4>3. of[c] \in 1..gen /\ now - at[c] \in 0..(now - Start)
        BY <1>0, ClockFacts
      <4>4. \A k \in refs : after(c, x.sums, k) \in 0..Deployed[of[c]][k].Max
        BY <2>1, <2>2, AfterType DEF tiers
      <4> QED
        BY <2>2, <2>4, <4>2, <4>3, <4>4
    <3> QED
      BY <3>1, <3>2
  <2>7. DOMAIN m' \subseteq Keys
    BY <2>2 DEF TypeOK
  <2> QED
    BY <2>2, <2>3, <2>4, <2>5, <2>6, <2>7 DEF TypeOK, LedgerBound
<1>4. CASE Reload
  <2>1. gen' = gen + 1 /\ gen' \in 1..Len(Deployed) /\ UNCHANGED << now, calls, m, touched >>
        /\ last' = Nothing
    BY <1>0, <1>4 DEF Reload
  <2>2. 1..gen \subseteq 1..gen' /\ gen' \in Nat /\ 1 <= gen'
    BY <1>0, <2>1
  <2>3. of' \in [Calls -> 1..gen']
    <3>1. of \in [Calls -> 1..gen] /\ of' = of
      BY <2>1 DEF TypeOK, calls
    <3> QED
      BY <2>2, <3>1
  <2>4. /\ last'.gen \in 1..gen' /\ last'.age \in 0..(now' - Start)
        /\ DOMAIN last'.charged = {} /\ DOMAIN last'.reported = {}
    BY <1>0, <2>1, <2>2, NothingFacts
  <2> QED
    BY <2>1, <2>3, <2>4 DEF TypeOK, LedgerBound, calls
<1>5. CASE Tick
  <2>1. now' = now + 1 /\ now' \in Start..MaxTime /\ UNCHANGED << gen, calls, m, touched >>
        /\ last' = Nothing
    BY <1>0, <1>5 DEF Tick
  <2>2. Start..now \subseteq Start..now' /\ now' \in Nat /\ Start <= now'
    BY <1>0, <2>1
  <2>3. at' \in [Calls -> Start..now'] /\ touched' \in [Keys -> Start..now']
    <3>1. at \in [Calls -> Start..now] /\ touched \in [Keys -> Start..now]
          /\ at' = at /\ touched' = touched
      BY <2>1 DEF TypeOK, calls
    <3> QED
      BY <2>2, <3>1
  <2>4. /\ last'.gen \in 1..gen' /\ last'.age \in 0..(now' - Start)
        /\ DOMAIN last'.charged = {} /\ DOMAIN last'.reported = {}
    BY <1>0, <2>1, <2>2, NothingFacts
  <2> QED
    BY <2>1, <2>3, <2>4 DEF TypeOK, LedgerBound, calls
<1>6. CASE UNCHANGED vars
  BY <1>6 DEF vars, calls, TypeOK, LedgerBound
<1> QED
  BY <1>1, <1>2, <1>3, <1>4, <1>5, <1>6 DEF Next

(* applyLocal keeps its types: every level it returns is between 0 and the *)
(* capacity of its bucket in the generation its call works with.           *)
THEOREM LocalTypeCorrect == Spec => []TypeOK
  BY InitLocal, NextLocal, PTL DEF Spec

(* The ledger stays within its limit, however many buckets one message     *)
(* charges and whatever the generations are.                               *)
THEOREM LedgerIsBounded == Spec => []LedgerBound
  BY InitLocal, NextLocal, PTL DEF Spec
-----------------------------------------------------------------------------
(* What is stored for bucket k is at most what a full bucket would have    *)
(* stored at its last charge, by the tier that generation g gives it.      *)
StoredBy(g, k) ==
    /\ Enabled(Deployed[g][k])
    /\ m[k] <= Stored(Deployed[g][k], touched[k], Deployed[g][k].Max)

(* It is so by the tier of some generation that has come into force.       *)
StoredBound == \A k \in DOMAIN m : \E g \in 1..gen : StoredBy(g, k)

(* An entry that was not touched, with more generations than before. *)
LEMMA StoredStays ==
  ASSUME StoredBound, gen \in Nat, gen' \in Nat, gen <= gen',
         NEW k \in DOMAIN m, m'[k] = m[k], touched'[k] = touched[k]
  PROVE  \E g \in 1..gen' : StoredBy(g, k)'
<1>1. PICK g \in 1..gen : StoredBy(g, k)
  BY DEF StoredBound
<1>2. StoredBy(g, k)'
  BY <1>1 DEF StoredBy
<1>3. g \in 1..gen'
  OBVIOUS
<1> QED
  BY <1>2, <1>3

(* Every step keeps what is stored within the bound. *)
LEMMA NextStoredBound ==
  TypeOK /\ LedgerBound /\ StoredBound /\ [Next]_vars => StoredBound'
<1> SUFFICES ASSUME TypeOK, LedgerBound, StoredBound, [Next]_vars PROVE StoredBound'
  OBVIOUS
<1>0. gen \in Nat
  BY ClockFacts
<1>1. ASSUME gen' \in Nat, gen <= gen', UNCHANGED << m, touched >> PROVE StoredBound'
  <2> SUFFICES ASSUME NEW k \in DOMAIN m' PROVE \E g \in 1..gen' : StoredBy(g, k)'
    BY DEF StoredBound
  <2>1. k \in DOMAIN m /\ m'[k] = m[k] /\ touched'[k] = touched[k]
    BY <1>1
  <2> QED
    BY <1>0, <1>1, <2>1, StoredStays
<1>2. ASSUME NEW c \in Calls, NEW x \in Messages, Apply(c, x.sums, x.reads)
      PROVE  StoredBound'
  <2> DEFINE refs == refUnion(c, x.sums, x.reads)
             paid == refs \intersect DOMAIN x.sums
  <2>1. Message(x.sums, x.reads)
    BY LocalAssumption DEF Message
  <2>2. /\ refs \subseteq Keys
        /\ DOMAIN m' \subseteq DOMAIN m \union paid
        /\ \A k \in DOMAIN m' :
              m'[k] = IF k \in paid THEN Stored(tiers(c)[k], at[c], after(c, x.sums, k))
                      ELSE m[k]
        /\ \A k \in Keys : touched'[k] = IF k \in paid THEN at[c] ELSE touched[k]
    BY <1>2, <2>1, ApplyLedger
  <2>3. gen' = gen
    BY <1>2 DEF Apply
  <2> SUFFICES ASSUME NEW k \in DOMAIN m' PROVE \E g \in 1..gen' : StoredBy(g, k)'
    BY DEF StoredBound
  <2>4. k \in Keys
    BY <2>2 DEF TypeOK
  <2>5. CASE k \in paid
    <3> DEFINE r == ratePerSec(tiers(c)[k])
    <3>1. m'[k] = r * at[c] + after(c, x.sums, k) /\ touched'[k] = at[c]
      BY <2>2, <2>4, <2>5 DEF Stored
    <3>2. /\ after(c, x.sums, k) \in 0..tiers(c)[k].Max /\ after(c, x.sums, k) \in Int
          /\ tiers(c)[k].Max \in Nat
      BY <2>1, <2>4, AfterType, CallTier
    <3>3. r * at[c] \in Nat
      BY <2>4, LeakedType, CallTier, ClockFacts
    <3>4. m'[k] <= r * at[c] + tiers(c)[k].Max
      <4> HIDE DEF r
      <4> QED
        BY <3>1, <3>2, <3>3
    <3>5. PICK g \in 1..gen : g = of[c]
      BY ClockFacts
    <3>6. Enabled(Deployed[g][k])
      BY <2>5, <3>5 DEF refUnion, tiers
    <3>7. m'[k] <= Stored(Deployed[g][k], touched'[k], Deployed[g][k].Max)
      BY <3>1, <3>4, <3>5 DEF Stored, tiers
    <3>8. StoredBy(g, k)'
      BY <3>6, <3>7 DEF StoredBy
    <3> QED
      BY <2>3, <3>5, <3>8
  <2>6. CASE k \notin paid
    <3>1. k \in DOMAIN m /\ m'[k] = m[k] /\ touched'[k] = touched[k]
      BY <2>2, <2>4, <2>6
    <3> QED
      BY <1>0, <2>3, <3>1, StoredStays
  <2> QED
    BY <2>5, <2>6
<1>3. ASSUME NEW c \in Calls, Snapshot(c) \/ ReadClock(c) PROVE StoredBound'
  BY <1>0, <1>1, <1>3 DEF Snapshot, ReadClock
<1>4. CASE Reload
  <2>1. gen' = gen + 1 /\ UNCHANGED << m, touched >>
    BY <1>4 DEF Reload
  <2> QED
    BY <1>0, <1>1, <2>1
<1>5. CASE Tick
  BY <1>0, <1>1, <1>5 DEF Tick
<1>6. CASE UNCHANGED vars
  BY <1>0, <1>1, <1>6 DEF vars
<1> QED
  BY <1>2, <1>3, <1>4, <1>5, <1>6 DEF Next

(* Nothing is stored at the start. *)
LEMMA InitStoredBound == Init => StoredBound
  BY DEF Init, StoredBound

(* What is stored stays within the bound. *)
LEMMA StoredInvariant == Spec => [](TypeOK /\ StoredBound)
  BY InitLocal, NextLocal, InitStoredBound, NextStoredBound, PTL DEF Spec

(* No generation slows the leak of a bucket or changes its capacity; it    *)
(* may withdraw the counter, and a later one declare it again.             *)
Quicker ==
    \A k \in Keys, f, g \in DOMAIN Deployed :
       f <= g /\ Enabled(Deployed[f][k]) /\ Enabled(Deployed[g][k])
       => Deployed[f][k].Max = Deployed[g][k].Max /\ Deployed[f][k].Loss <= Deployed[g][k].Loss

(* A bucket that was not charged for 100/loss seconds is empty, when no    *)
(* generation slows its leak or changes its capacity, although calls of    *)
(* older generations go on writing by their tiers.                         *)
THEOREM QuietIsEmpty == ASSUME Quicker PROVE Spec => []QuietReturnsToZero
<1>1. TypeOK /\ StoredBound => QuietReturnsToZero
  <2> DEFINE t(k) == Deployed[gen][k]
  <2> SUFFICES ASSUME TypeOK, StoredBound, NEW k \in Keys, Enabled(t(k)),
                      now >= touched[k] + 100 \div t(k).Loss
               PROVE  levelBy(t(k), now, k) = 0
    BY DEF QuietReturnsToZero
  <2>1. CASE k \notin DOMAIN m
    BY <2>1 DEF levelBy
  <2>2. CASE k \in DOMAIN m
    <3> DEFINE r == ratePerSec(t(k))
               life == lifetime(t(k))
               top == t(k).Max
    <3>0. gen \in 1..Len(Deployed) /\ gen \in Nat /\ Len(Deployed) \in Nat
      BY ClockFacts, LocalAssumption
    <3>1. WholeTier(t(k)) /\ t(k) \in Tier /\ r \in Nat /\ top \in Nat
      BY <3>0, TierFacts
    <3>2. life = 100 \div t(k).Loss /\ life \in Nat /\ r * life = top
      BY <3>1, DrainTime
    <3>3. touched[k] \in Nat /\ now \in Nat
      BY ClockFacts
    <3>4. PICK g \in 1..gen : StoredBy(g, k)
      BY <2>2 DEF StoredBound
    <3>5. g \in 1..Len(Deployed) /\ g <= gen /\ g \in DOMAIN Deployed /\ gen \in DOMAIN Deployed
      BY <3>0, LocalAssumption
    <3>6. Deployed[g][k].Max = top /\ Deployed[g][k].Loss <= t(k).Loss
      BY <3>4, <3>5 DEF Quicker, StoredBy
    <3>7. Deployed[g][k] \in Tier /\ ratePerSec(Deployed[g][k]) \in Nat
      BY <3>5, TierFacts
    <3>8. ratePerSec(Deployed[g][k]) <= r
      BY <3>1, <3>6, <3>7, RateMono
    <3>9. m[k] \in Int /\ m[k] <= ratePerSec(Deployed[g][k]) * touched[k] + top
      BY <2>2, <3>4, <3>6 DEF TypeOK, StoredBy, Stored
    <3>10. touched[k] * ratePerSec(Deployed[g][k]) <= touched[k] * r
      BY <3>1, <3>3, <3>7, <3>8, MulMono
    <3>11. /\ ratePerSec(Deployed[g][k]) * touched[k] = touched[k] * ratePerSec(Deployed[g][k])
           /\ r * touched[k] = touched[k] * r
           /\ ratePerSec(Deployed[g][k]) * touched[k] \in Nat /\ r * touched[k] \in Nat
      BY <3>1, <3>3, <3>7
    <3>12. touched[k] + life \in Nat /\ touched[k] + life <= now
      BY <3>2, <3>3
    <3>13. r * (touched[k] + life) <= r * now /\ r * now \in Nat
      BY <3>1, <3>3, <3>12, MulMono
    <3>14. r * (touched[k] + life) = r * touched[k] + top
      BY <3>1, <3>2, <3>3
    <3>15. m[k] <= r * touched[k] + top
      <4> HIDE DEF r, top
      <4> QED
        BY <3>1, <3>9, <3>10, <3>11
    <3>16. m[k] - r * now \in Int /\ m[k] - r * now <= 0
      <4> HIDE DEF r, life, top
      <4> QED
        BY <3>1, <3>9, <3>11, <3>13, <3>14, <3>15
    <3>17. levelBy(t(k), now, k) = clamp(m[k] - r * now, 0, top)
      BY <2>2 DEF levelBy, Effective
    <3>18. clamp(m[k] - r * now, 0, top) = 0
      <4> HIDE DEF r, top
      <4> QED
        BY <3>1, <3>16, ClampFacts
    <3> QED
      BY <3>17, <3>18
  <2> QED
    BY <2>1, <2>2
<1> QED
  BY <1>1, StoredInvariant, PTL
-----------------------------------------------------------------------------
(* The two modules agree about the arithmetic. *)
LEMMA SameArithmetic ==
  /\ \A t : Ideal!ratePerSec(t) = ratePerSec(t)
  /\ \A v, lo, hi : Ideal!clamp(v, lo, hi) = clamp(v, lo, hi)
  BY DEF ratePerSec, Ideal!ratePerSec, clamp, Ideal!clamp

(* A steady bucket has the same tier wherever it is declared. *)
LEMMA SteadyTier ==
  ASSUME NEW k \in Steady
  PROVE  /\ k \in Keys
         /\ tierOf[k] \in Tier /\ tierOf[k].Max \in Nat /\ ratePerSec(tierOf[k]) \in Nat
         /\ \A g \in 1..Len(Deployed) : Enabled(Deployed[g][k]) => Deployed[g][k] = tierOf[k]
<1>1. k \in Keys
  BY DEF Steady
<1>2. PICK t \in Declared(k) : Declared(k) = {t}
  BY DEF Steady
<1>3. tierOf[k] = CHOOSE u \in Declared(k) : TRUE
  BY DEF tierOf
<1>4. tierOf[k] = t
  BY <1>2, <1>3
<1>5. PICK g \in 1..Len(Deployed) : t = Deployed[g][k]
  BY <1>2, LocalAssumption DEF Declared
<1>6. tierOf[k] \in Tier /\ tierOf[k].Max \in Nat /\ ratePerSec(tierOf[k]) \in Nat
  BY <1>1, <1>4, <1>5, TierFacts
<1>7. ASSUME NEW h \in 1..Len(Deployed), Enabled(Deployed[h][k]) PROVE Deployed[h][k] = tierOf[k]
  <2>1. Deployed[h][k] \in Declared(k)
    BY <1>7, LocalAssumption DEF Declared
  <2> QED
    BY <1>2, <1>4, <2>1
<1> QED
  BY <1>1, <1>6, <1>7

(* What is stored for a steady bucket is at most what a full one would     *)
(* have stored by now.                                                     *)
LEMMA NotOverfull ==
  ASSUME TypeOK, StoredBound, NEW k \in Steady, k \in DOMAIN m
  PROVE  /\ m[k] \in Int
         /\ m[k] - ratePerSec(tierOf[k]) * now \in Int
         /\ m[k] - ratePerSec(tierOf[k]) * now <= tierOf[k].Max
<1> DEFINE r == ratePerSec(tierOf[k])
           top == tierOf[k].Max
<1>1. k \in Keys /\ r \in Nat /\ top \in Nat
  BY SteadyTier
<1>2. PICK g \in 1..gen : StoredBy(g, k)
  BY DEF StoredBound
<1>3. gen \in 1..Len(Deployed) /\ gen \in Nat /\ Len(Deployed) \in Nat
  BY ClockFacts, LocalAssumption
<1>4. Deployed[g][k] = tierOf[k]
  BY <1>2, <1>3, SteadyTier DEF StoredBy
<1>5. m[k] \in Int /\ m[k] <= r * touched[k] + top
  BY <1>2, <1>4 DEF TypeOK, StoredBy, Stored
<1>6. touched[k] \in Nat /\ now \in Nat /\ touched[k] <= now
  BY <1>1, ClockFacts
<1>7. r * touched[k] \in Nat /\ r * now \in Nat /\ r * touched[k] <= r * now
  BY <1>1, <1>6, MulMono
<1> HIDE DEF r, top
<1>8. m[k] - r * now \in Int /\ m[k] - r * now <= top
  BY <1>1, <1>5, <1>7
<1> QED
  BY <1>5, <1>8 DEF r, top

(* The ledger starts as a set of empty buckets. *)
LEMMA LeakyInit == Init => Ideal!Init
<1> SUFFICES ASSUME Init PROVE Ideal!Init
  OBVIOUS
<1>1. DOMAIN m = {} /\ last.age = 0 /\ DOMAIN last.charged = {} /\ DOMAIN last.reported = {}
  BY DEF Init, Nothing
<1>2. level = [k \in Steady |-> 0]
  BY <1>1 DEF level, levelBy
<1>3. DOMAIN charged = {} /\ DOMAIN reported = {}
  BY <1>1 DEF charged, reported, Restrict
<1> QED
  BY <1>1, <1>2, <1>3 DEF Ideal!Init

(* What an earlier clock reading makes of a level, by cases. *)
LEMMA Reread ==
  \A top, leak \in Nat : \A x \in Int :
     x <= top => IF clamp(x, 0, top) > 0
                 THEN clamp(x + leak, 0, top) = clamp(clamp(x, 0, top) + leak, 0, top)
                 ELSE clamp(x + leak, 0, top) \in 0..clamp(leak, 0, top)
  BY DEF clamp

(* The range of a level begins with zero. *)
LEMMA FromZero == \A hi, v \in Nat : 0 \in 0..clamp(v, 0, hi)
  BY DEF clamp

(* Cutting before the leak or after it is the same. *)
LEMMA LeakOnce ==
  \A top, leak \in Nat : \A x \in Int :
     x <= top => clamp(x - leak, 0, top) = clamp(clamp(x, 0, top) - leak, 0, top)
  BY DEF clamp

(* What has leaked in two stretches of time has leaked in both together. *)
LEMMA LeakSplit ==
  ASSUME NEW r \in Nat, NEW s \in Nat, NEW t \in Nat, s <= t
  PROVE  t - s \in Nat /\ r * s \in Nat /\ r * t \in Nat /\ r * (t - s) \in Nat
         /\ r * t = r * s + r * (t - s)
<1>1. PICK d \in Nat : t = s + d
  <2>1. t - s \in Nat /\ t = s + (t - s)
    OBVIOUS
  <2> QED
    BY <2>1
<1>2. r * t = r * s + r * d /\ t - s = d
  BY <1>1
<1>3. r * s \in Nat /\ r * d \in Nat
  OBVIOUS
<1> QED
  BY <1>2, <1>3

(* What a call reads with its own clock is what the bucket may have held   *)
(* then.                                                                   *)
LEMMA EarlierReading ==
  ASSUME TypeOK, StoredBound, NEW k \in Steady, NEW s \in Nat, s <= now
  PROVE  levelBy(tierOf[k], s, k) \in Ideal!Earlier(k, now - s)
<1> DEFINE r == ratePerSec(tierOf[k])
           top == tierOf[k].Max
           old == levelBy(tierOf[k], s, k)
<1>1. r \in Nat /\ top \in Nat
  BY SteadyTier
<1>2. now \in Nat
  BY ClockFacts
<1>3. now - s \in Nat /\ r * s \in Nat /\ r * now \in Nat /\ r * (now - s) \in Nat
      /\ r * now = r * s + r * (now - s)
  BY <1>1, <1>2, LeakSplit
<1>4. level[k] = levelBy(tierOf[k], now, k)
  BY DEF level
<1>5. Ideal!Earlier(k, now - s)
        = IF level[k] > 0 THEN {clamp(level[k] + r * (now - s), 0, top)}
          ELSE 0..clamp(r * (now - s), 0, top)
  BY SameArithmetic DEF Ideal!Earlier, Ideal!Cap, Ideal!Leaked
<1>6. CASE k \in DOMAIN m
  <2> DEFINE x == m[k] - r * now
  <2>1. m[k] \in Int /\ x \in Int /\ x <= top
    BY <1>6, NotOverfull
  <2>2. level[k] = clamp(x, 0, top)
    BY <1>4, <1>6 DEF levelBy, Effective
  <2>3. m[k] - r * s = x + r * (now - s)
    <3> HIDE DEF r
    <3> QED
      BY <1>3, <2>1
  <2>4. old = clamp(x + r * (now - s), 0, top)
    BY <1>6, <2>3 DEF levelBy, Effective
  <2> HIDE DEF r, top, x, old
  <2>5. IF clamp(x, 0, top) > 0
        THEN clamp(x + r * (now - s), 0, top) = clamp(clamp(x, 0, top) + r * (now - s), 0, top)
        ELSE clamp(x + r * (now - s), 0, top) \in 0..clamp(r * (now - s), 0, top)
    BY <1>1, <1>3, <2>1, Reread
  <2>6. old \in Ideal!Earlier(k, now - s)
    BY <1>5, <2>2, <2>4, <2>5
  <2> QED
    BY <2>6 DEF old
<1>7. CASE k \notin DOMAIN m
  <2>1. old = 0 /\ level[k] = 0
    BY <1>4, <1>7 DEF levelBy
  <2> HIDE DEF r, top, old
  <2>2. 0 \in 0..clamp(r * (now - s), 0, top)
    BY <1>1, <1>3, FromZero
  <2>3. ~(level[k] > 0)
    BY <2>1
  <2>4. Ideal!Earlier(k, now - s) = 0..clamp(r * (now - s), 0, top)
    BY <1>5, <2>3
  <2>5. old \in Ideal!Earlier(k, now - s)
    BY <2>1, <2>2, <2>4
  <2> QED
    BY <2>5 DEF old
<1> QED
  BY <1>6, <1>7

(* A step that touches neither the ledger nor the clock. *)
LEMMA LeakyStill ==
  ASSUME TypeOK, StoredBound, UNCHANGED << now, m >>, last' = Nothing
  PROVE  Ideal!Apply
<1>1. now \in Nat /\ now - now = 0
  BY ClockFacts
<1>2. last'.age = 0 /\ DOMAIN last'.charged = {} /\ DOMAIN last'.reported = {}
  BY DEF Nothing
<1>3. DOMAIN charged' = {} /\ DOMAIN reported' = {}
  BY <1>2 DEF charged, reported, Restrict
<1>4. level' = level /\ DOMAIN level = Steady
  BY DEF level, levelBy
<1>5. ASSUME NEW k \in Steady PROVE Ideal!Handled(k)
  <2>1. levelBy(tierOf[k], now, k) \in Ideal!Earlier(k, 0)
    <3>1. levelBy(tierOf[k], now, k) \in Ideal!Earlier(k, now - now)
      BY <1>1, EarlierReading
    <3> QED
      BY <1>1, <3>1
  <2>2. level'[k] \in {0, level[k]}
    BY <1>4
  <2> QED
    BY <1>2, <1>3, <2>1, <2>2 DEF Ideal!Handled
<1>6. 0 \in 0..now
  BY <1>1
<1> QED
  BY <1>2, <1>4, <1>5, <1>6 DEF Ideal!Apply

(* One message charges, caps and evicts. *)
LEMMA LeakyApply ==
  ASSUME TypeOK, LedgerBound, StoredBound, NEW c \in Calls, NEW x \in Messages,
         Apply(c, x.sums, x.reads), refUnion(c, x.sums, x.reads) # {}
  PROVE  Ideal!Apply
<1> DEFINE refs == refUnion(c, x.sums, x.reads)
           paid == refs \intersect DOMAIN x.sums
           s == at[c]
<1>1. Message(x.sums, x.reads)
  BY LocalAssumption DEF Message
<1>2. /\ refs \subseteq Keys
      /\ DOMAIN m' \subseteq DOMAIN m \union paid
      /\ \A k \in DOMAIN m' :
            m'[k] = IF k \in paid THEN Stored(tiers(c)[k], s, after(c, x.sums, k)) ELSE m[k]
  BY <1>1, ApplyLedger
<1>3. /\ UNCHANGED now
      /\ last' = [gen |-> of[c], age |-> now - s, charged |-> Restrict(x.sums, paid),
                  reported |-> [k \in refs |-> after(c, x.sums, k)]]
  BY DEF Apply
<1>4. /\ last'.age = now - s
      /\ DOMAIN last'.charged = paid /\ \A k \in paid : last'.charged[k] = x.sums[k]
      /\ DOMAIN last'.reported = refs /\ \A k \in refs : last'.reported[k] = after(c, x.sums, k)
  BY <1>3 DEF Restrict
<1>5. /\ DOMAIN charged' = Steady \intersect paid
      /\ \A k \in Steady \intersect paid : charged'[k] = x.sums[k]
  BY <1>4 DEF charged, Restrict
<1>6. /\ DOMAIN reported' = Steady \intersect refs
      /\ \A k \in Steady \intersect refs : reported'[k] = after(c, x.sums, k)
  BY <1>4 DEF reported, Restrict
<1>7. s \in Nat /\ now \in Nat /\ s <= now /\ Start \in Nat /\ of[c] \in 1..Len(Deployed)
  BY ClockFacts
<1>8. ASSUME NEW k \in Steady PROVE Ideal!Handled(k)
  <2> DEFINE r == ratePerSec(tierOf[k])
             top == tierOf[k].Max
             old == levelBy(tierOf[k], s, k)
             told == IF k \in paid THEN clamp(old + x.sums[k], 0, top) ELSE old
             then == IF k \in paid THEN clamp(told - r * (now - s), 0, top) ELSE level[k]
  <2>1. k \in Keys /\ r \in Nat /\ top \in Nat /\ tierOf[k] \in Tier
    BY SteadyTier
  <2>2. k \in refs => tiers(c)[k] = tierOf[k]
    BY <1>7, SteadyTier DEF refUnion, tiers
  <2>3. old \in Ideal!Earlier(k, last'.age)
    BY <1>4, <1>7, EarlierReading
  <2>4. k \in refs => after(c, x.sums, k) = told
    BY <2>2 DEF after, before
  <2>5. level'[k] \in {0, then}
    <3>0. level'[k] = levelBy(tierOf[k], now, k)'
      BY DEF level
    <3>1. CASE k \notin DOMAIN m'
      BY <3>0, <3>1 DEF levelBy
    <3>2. CASE k \in DOMAIN m' /\ k \notin paid
      <4>1. k \in DOMAIN m /\ m'[k] = m[k]
        BY <1>2, <3>2
      <4>2. level'[k] = level[k]
        BY <1>3, <3>0, <3>2, <4>1 DEF level, levelBy
      <4> QED
        BY <3>2, <4>2
    <3>3. CASE k \in DOMAIN m' /\ k \in paid
      <4>1. m'[k] = r * s + told
        BY <1>2, <2>2, <2>4, <3>3 DEF Stored
      <4>2. told \in Int
        <5>1. after(c, x.sums, k) \in Int
          BY <1>1, <2>1, AfterType
        <5> QED
          BY <2>4, <3>3, <5>1
      <4>3. /\ r * s \in Nat /\ r * now \in Nat /\ r * (now - s) \in Nat
            /\ r * now = r * s + r * (now - s)
        BY <1>7, <2>1, LeakSplit
      <4>4. m'[k] - r * now = told - r * (now - s)
        <5> HIDE DEF r, told
        <5> QED
          BY <4>1, <4>2, <4>3
      <4>5. level'[k] = clamp(m'[k] - r * now, 0, top)
        BY <1>3, <3>0, <3>3 DEF levelBy, Effective
      <4> QED
        BY <3>3, <4>4, <4>5
    <3> QED
      BY <3>1, <3>2, <3>3
  <2>6. k \in DOMAIN charged' <=> k \in paid
    BY <1>5
  <2>7. k \in paid => charged'[k] = x.sums[k]
    BY <1>5
  <2>8. k \in DOMAIN reported' => reported'[k] = told
    BY <1>6, <2>4
  <2>9. told = IF k \in DOMAIN charged' THEN Ideal!Cap(k, old + charged'[k]) ELSE old
    BY <2>6, <2>7, SameArithmetic DEF Ideal!Cap
  <2>10. then = IF k \in DOMAIN charged' THEN Ideal!Cap(k, told - Ideal!Leaked(k, last'.age))
                ELSE level[k]
    BY <1>4, <2>6, SameArithmetic DEF Ideal!Cap, Ideal!Leaked
  <2> HIDE DEF told, then, old
  <2> QED
    BY <2>3, <2>5, <2>8, <2>9, <2>10 DEF Ideal!Handled
<1>9. last'.age \in 0..now
  BY <1>4, <1>7
<1>10. DOMAIN level' = Steady
  BY DEF level
<1> QED
  BY <1>3, <1>8, <1>9, <1>10 DEF Ideal!Apply

(* A second that passes leaks a second's worth from every steady bucket. *)
LEMMA LeakyTick == ASSUME TypeOK, StoredBound, Tick PROVE Ideal!Leak
<1>1. now' = now + 1 /\ UNCHANGED m /\ last' = Nothing /\ now \in Nat
  BY ClockFacts DEF Tick
<1>2. last'.age = 0 /\ DOMAIN last'.charged = {} /\ DOMAIN last'.reported = {}
  BY <1>1 DEF Nothing
<1>3. DOMAIN charged' = {} /\ DOMAIN reported' = {}
  BY <1>2 DEF charged, reported, Restrict
<1>4. ASSUME NEW k \in Steady
      PROVE  level'[k] = Ideal!Cap(k, level[k] - Ideal!Leaked(k, 1))
  <2> DEFINE r == ratePerSec(tierOf[k])
             top == tierOf[k].Max
  <2>1. r \in Nat /\ top \in Nat /\ r * 1 = r /\ r * now \in Nat /\ r * (now + 1) = r * now + r
    <3>1. r \in Nat /\ top \in Nat
      BY SteadyTier
    <3> HIDE DEF r, top
    <3> QED
      BY <1>1, <3>1
  <2>2. level[k] = levelBy(tierOf[k], now, k) /\ level'[k] = levelBy(tierOf[k], now, k)'
    BY DEF level
  <2>3. level'[k] = clamp(level[k] - r, 0, top)
    <3>1. CASE k \notin DOMAIN m
      <4>1. level[k] = 0 /\ level'[k] = 0
        BY <1>1, <2>2, <3>1 DEF levelBy
      <4>2. clamp(0 - r, 0, top) = 0
        <5> HIDE DEF r, top
        <5> QED
          BY <2>1, ClampFacts
      <4> QED
        BY <4>1, <4>2
    <3>2. CASE k \in DOMAIN m
      <4> DEFINE y == m[k] - r * now
      <4>1. m[k] \in Int /\ y \in Int /\ y <= top
        BY <3>2, NotOverfull
      <4>2. m[k] - r * (now + 1) = y - r
        <5> HIDE DEF r
        <5> QED
          BY <2>1, <4>1
      <4>3. level[k] = clamp(y, 0, top) /\ level'[k] = clamp(y - r, 0, top)
        BY <1>1, <2>2, <3>2, <4>2 DEF levelBy, Effective
      <4> HIDE DEF r, top, y
      <4> QED
        BY <2>1, <4>1, <4>3, LeakOnce
    <3> QED
      BY <3>1, <3>2
  <2> QED
    BY <2>1, <2>3, SameArithmetic DEF Ideal!Cap, Ideal!Leaked
<1>5. level' = [k \in Steady |-> Ideal!Cap(k, level[k] - Ideal!Leaked(k, 1))]
  BY <1>4 DEF level
<1> QED
  BY <1>1, <1>2, <1>3, <1>5 DEF Ideal!Leak

(* For the buckets whose tier no generation changes the in-memory store    *)
(* implements the leaky bucket, whatever messages are in flight, however   *)
(* old their clock readings and their generations are, and whatever is     *)
(* evicted: a level leaks every second, a charge counts in full as of its  *)
(* clock reading, and nothing else raises a level.                         *)
THEOREM LedgerLeaks == Spec => IsLeakyBucket
<1>1. TypeOK /\ LedgerBound /\ StoredBound /\ [Next]_vars => [Ideal!Next]_(Ideal!vars)
  <2> SUFFICES ASSUME TypeOK, LedgerBound, StoredBound, [Next]_vars
               PROVE  [Ideal!Next]_(Ideal!vars)
    OBVIOUS
  <2>1. ASSUME NEW c \in Calls, NEW x \in Messages, Apply(c, x.sums, x.reads)
        PROVE  Ideal!Next
    <3>1. CASE refUnion(c, x.sums, x.reads) = {}
      <4>1. UNCHANGED << now, m >> /\ last' = Nothing
        BY <2>1, <3>1 DEF Apply
      <4> QED
        BY <4>1, LeakyStill DEF Ideal!Next
    <3>2. CASE refUnion(c, x.sums, x.reads) # {}
      BY <2>1, <3>2, LeakyApply DEF Ideal!Next
    <3> QED
      BY <3>1, <3>2
  <2>2. ASSUME NEW c \in Calls, Snapshot(c) \/ ReadClock(c) PROVE Ideal!Next
    <3>1. UNCHANGED << now, m >> /\ last' = Nothing
      BY <2>2 DEF Snapshot, ReadClock
    <3> QED
      BY <3>1, LeakyStill DEF Ideal!Next
  <2>3. CASE Reload
    <3>1. UNCHANGED << now, m >> /\ last' = Nothing
      BY <2>3 DEF Reload
    <3> QED
      BY <3>1, LeakyStill DEF Ideal!Next
  <2>4. CASE Tick
    BY <2>4, LeakyTick DEF Ideal!Next
  <2>5. CASE UNCHANGED vars
    BY <2>5 DEF vars, Ideal!vars, level, levelBy, charged, reported
  <2> QED
    BY <2>1, <2>2, <2>3, <2>4, <2>5 DEF Next
<1>2. Spec => [](TypeOK /\ LedgerBound /\ StoredBound)
  BY InitLocal, NextLocal, InitStoredBound, NextStoredBound, PTL DEF Spec
<1> QED
  BY <1>1, <1>2, LeakyInit, PTL DEF Spec, IsLeakyBucket, Ideal!Spec
=============================================================================
