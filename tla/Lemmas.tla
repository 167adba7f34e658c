------------------------------- MODULE Lemmas -------------------------------
(***************************************************************************)
(* What several of the proofs need: induction and recursion over the       *)
(* prefixes of a loop, sums over a finite set, and the arithmetic of a     *)
(* tier.                                                                   *)
(***************************************************************************)
EXTENDS Tiers, FiniteSetTheorems, WellFoundedInduction, TLAPS

(***************************************************************************)
(* A loop over a sequence is a function defined by recursion over the      *)
(* length of the prefix it has seen.  What it computes is shown by         *)
(* induction, in its least-element form.                                   *)
(***************************************************************************)
(* A set of naturals that is not empty has a least element. *)
LEMMA LeastNat ==
  ASSUME NEW S, S \subseteq Nat, S # {}
  PROVE  \E m \in S : \A k \in S : m <= k
<1>1. IsWellFoundedOn(OpToRel(<, Nat), Nat)
  BY NatLessThanWellFounded
<1>2. PICK m \in S : \A k \in S : ~(<< k, m >> \in OpToRel(<, Nat))
  BY <1>1, WFMin, Zenon
<1>3. \A k \in S : ~(k < m)
  BY <1>2 DEF OpToRel
<1> QED
  BY <1>3

(* Induction up to n: a set that has 0 and the successors has them all. *)
LEMMA UpTo ==
  ASSUME NEW n \in Nat, NEW S, 0 \in S, \A k \in 1..n : k - 1 \in S => k \in S
  PROVE  \A k \in 0..n : k \in S
<1> SUFFICES ASSUME NEW j \in 0..n, j \notin S PROVE FALSE
  OBVIOUS
<1> DEFINE T == {k \in 0..n : k \notin S}
<1>1. T \subseteq Nat /\ T # {} /\ \A k \in T : k \in 0..n /\ k \notin S
  OBVIOUS
<1> HIDE DEF T
<1>2. PICK m \in T : \A k \in T : m <= k
  BY <1>1, LeastNat
<1>3. m \in 1..n /\ m - 1 \in 0..n /\ ~(m <= m - 1)
  BY <1>1, <1>2
<1>4. m - 1 \notin T
  BY <1>2, <1>3
<1> QED
  BY <1>1, <1>2, <1>3, <1>4 DEF T

(* The results of a loop of n rounds after each of them. *)
Loop(f, n, D, base, step) ==
    f \in [0..n -> D] /\ f[0] = base /\ \A i \in 1..n : f[i] = step[i][f[i - 1]]

(* It has them. *)
LEMMA PrefixRecursion ==
  ASSUME NEW n \in Nat, NEW D, NEW base \in D, NEW step \in [1..n -> [D -> D]]
  PROVE  \E f : Loop(f, n, D, base, step)
<1> DEFINE Good(k, f) == f[0] = base /\ \A i \in 1..k : f[i] = step[i][f[i - 1]]
           S == {k \in 0..n : \E f \in [0..k -> D] : Good(k, f)}
<1>1. 0 \in S
  <2> DEFINE g == [i \in 0..0 |-> base]
  <2>1. g \in [0..0 -> D] /\ Good(0, g)
    OBVIOUS
  <2> HIDE DEF g, Good
  <2> QED
    BY <2>1
<1>2. ASSUME NEW k \in 1..n, k - 1 \in S PROVE k \in S
  <2>1. PICK f \in [0..(k - 1) -> D] : Good(k - 1, f)
    BY <1>2
  <2> DEFINE last == step[k][f[k - 1]]
             g == [i \in 0..k |-> IF i = k THEN last ELSE f[i]]
  <2>2. \A i \in 0..k : i # k => i \in 0..(k - 1)
    OBVIOUS
  <2>3. last \in D
    <3>1. f[k - 1] \in D
      BY <2>1
    <3>2. step[k] \in [D -> D]
      OBVIOUS
    <3> QED
      BY <3>1, <3>2
  <2>4. g \in [0..k -> D]
    BY <2>1, <2>2, <2>3
  <2>5. Good(k, g)
    <3>1. g[0] = base
      BY <2>1
    <3>2. ASSUME NEW i \in 1..k PROVE g[i] = step[i][g[i - 1]]
      <4>1. g[i - 1] = f[i - 1]
        OBVIOUS
      <4>2. i = k => g[i] = last
        OBVIOUS
      <4>3. i # k => g[i] = f[i] /\ f[i] = step[i][f[i - 1]]
        BY <2>1
      <4> HIDE DEF g
      <4> QED
        BY <4>1, <4>2, <4>3
    <3> QED
      BY <3>1, <3>2
  <2> HIDE DEF g, last, Good
  <2>6. \E h \in [0..k -> D] : Good(k, h)
    BY <2>4, <2>5, Zenon
  <2> QED
    BY <2>6
<1>3. n \in S
  <2>1. \A k \in 1..n : k - 1 \in S => k \in S
    BY <1>2
  <2> HIDE DEF S
  <2>2. \A k \in 0..n : k \in S
    BY <1>1, <2>1, UpTo
  <2> QED
    BY <2>2
<1>4. PICK f \in [0..n -> D] : Good(n, f)
  BY <1>3
<1> QED
  BY <1>4 DEF Loop
-----------------------------------------------------------------------------
(* A sum over the elements of a set, one picked after the other.           *)
Summed(f, S, w) ==
    f = [s \in SUBSET S |-> IF s = {} THEN 0
                            ELSE LET x == CHOOSE x \in s : TRUE IN w[x] + f[s \ {x}]]

(* The rest of a finite set is smaller. *)
LEMMA RestIsSmaller ==
  ASSUME NEW S, IsFiniteSet(S), NEW s \in SUBSET S, NEW k \in Nat, Cardinality(s) <= k, s # {},
         NEW x \in s
  PROVE  /\ s \ {x} \in SUBSET S /\ k # 0
         /\ Cardinality(s \ {x}) <= k - 1
<1>1. IsFiniteSet(s) /\ Cardinality(s) \in Nat
  BY FS_Subset, FS_CardinalityType
<1>2. Cardinality(s) # 0
  BY <1>1, FS_EmptySet
<1>3. Cardinality(s \ {x}) = Cardinality(s) - 1
  BY <1>1, FS_RemoveElement
<1> QED
  BY <1>1, <1>2, <1>3

(* A finite set has its sum, and the sum of integers is an integer. *)
LEMMA SumOfIntegers ==
  ASSUME NEW S, IsFiniteSet(S), NEW w \in [S -> Int]
  PROVE  /\ \E f : Summed(f, S, w)
         /\ \A f : Summed(f, S, w) => f[S] \in Int
<1> DEFINE pick(s) == CHOOSE x \in s : TRUE
           n == Cardinality(S)
           Eq(f, s) == f[s] = IF s = {} THEN 0 ELSE w[pick(s)] + f[s \ {pick(s)}]
           Good(k, f) == \A s \in SUBSET S : Cardinality(s) <= k => Eq(f, s)
           G == {k \in 0..n : \E f \in [SUBSET S -> Int] : Good(k, f)}
<1>0. /\ n \in Nat
      /\ \A s \in SUBSET S : IsFiniteSet(s) /\ Cardinality(s) \in Nat /\ Cardinality(s) <= n
  BY FS_Subset, FS_CardinalityType
<1>1. \A s \in SUBSET S : s # {} => pick(s) \in s /\ w[pick(s)] \in Int
  OBVIOUS
<1>2. \A s \in SUBSET S : Cardinality(s) <= 0 => s = {}
  BY <1>0, FS_EmptySet
<1> HIDE DEF n, pick
<1>3. 0 \in G
  <2> DEFINE g == [s \in SUBSET S |-> 0]
  <2>1. g \in [SUBSET S -> Int] /\ Good(0, g)
    BY <1>2
  <2> HIDE DEF g, Good
  <2> QED
    BY <1>0, <2>1
<1>4. ASSUME NEW k \in 1..n, k - 1 \in G PROVE k \in G
  <2>1. PICK f \in [SUBSET S -> Int] : Good(k - 1, f)
    BY <1>4
  <2> DEFINE g == [s \in SUBSET S |-> IF Cardinality(s) <= k - 1 THEN f[s]
                                      ELSE w[pick(s)] + f[s \ {pick(s)}]]
  <2>2. ASSUME NEW s \in SUBSET S, s # {}
        PROVE  s \ {pick(s)} \in SUBSET S /\ f[s \ {pick(s)}] \in Int /\ w[pick(s)] \in Int
    BY <1>1, <2>1, <2>2
  <2>3. \A s \in SUBSET S : ~(Cardinality(s) <= k - 1) => s # {}
    BY <1>0, FS_EmptySet
  <2>4. g \in [SUBSET S -> Int]
    BY <2>1, <2>2, <2>3
  <2>5. ASSUME NEW s \in SUBSET S, Cardinality(s) <= k PROVE Eq(g, s)
    <3>1. CASE s = {}
      <4>1. Cardinality(s) <= k - 1
        BY <1>0, <3>1, FS_EmptySet
      <4>2. g[s] = f[s] /\ f[s] = 0
        BY <2>1, <3>1, <4>1
      <4> QED
        BY <3>1, <4>2
    <3>2. CASE s # {}
      <4> DEFINE r == s \ {pick(s)}
      <4>1. r \in SUBSET S /\ Cardinality(r) <= k - 1
        BY <1>1, <2>5, <3>2, RestIsSmaller
      <4>2. g[r] = f[r]
        BY <4>1
      <4>3. g[s] = w[pick(s)] + f[r]
        <5>1. CASE Cardinality(s) <= k - 1
          BY <2>1, <3>2, <5>1
        <5>2. CASE ~(Cardinality(s) <= k - 1)
          BY <5>2
        <5> QED
          BY <5>1, <5>2
      <4> HIDE DEF g
      <4> QED
        BY <3>2, <4>2, <4>3
    <3> QED
      BY <3>1, <3>2
  <2>6. Good(k, g)
    BY <2>5
  <2> HIDE DEF g, Good
  <2>7. \E h \in [SUBSET S -> Int] : Good(k, h)
    BY <2>4, <2>6
  <2> QED
    BY <1>0, <2>7
<1>5. n \in G
  <2>1. \A k \in 1..n : k - 1 \in G => k \in G
    BY <1>4
  <2> HIDE DEF G
  <2>2. \A k \in 0..n : k \in G
    BY <1>0, <1>3, <2>1, UpTo
  <2> QED
    BY <1>0, <2>2
<1>6. PICK f \in [SUBSET S -> Int] : Good(n, f)
  BY <1>5
<1>7. \A s \in SUBSET S : Eq(f, s)
  BY <1>0, <1>6
<1>8. Summed(f, S, w)
  BY <1>6, <1>7 DEF Summed, pick
<1>9. ASSUME NEW h, Summed(h, S, w) PROVE h[S] \in Int
  <2> DEFINE I == {k \in 0..n : \A s \in SUBSET S : Cardinality(s) <= k => h[s] \in Int}
  <2>1. \A s \in SUBSET S : h[s] = IF s = {} THEN 0 ELSE w[pick(s)] + h[s \ {pick(s)}]
    BY <1>9 DEF Summed, pick
  <2>2. h[{}] = 0
    <3>1. {} \in SUBSET S
      OBVIOUS
    <3> QED
      BY <1>9, <3>1 DEF Summed
  <2>3. 0 \in I
    BY <1>0, <1>2, <2>2
  <2>4. ASSUME NEW k \in 1..n, k - 1 \in I PROVE k \in I
    <3>1. ASSUME NEW s \in SUBSET S, Cardinality(s) <= k, s # {} PROVE h[s] \in Int
      <4>1. s \ {pick(s)} \in SUBSET S /\ Cardinality(s \ {pick(s)}) <= k - 1
        BY <1>1, <3>1, RestIsSmaller
      <4>2. h[s \ {pick(s)}] \in Int /\ w[pick(s)] \in Int
        BY <1>1, <2>4, <3>1, <4>1
      <4>3. h[s] = w[pick(s)] + h[s \ {pick(s)}]
        BY <2>1, <3>1, Zenon
      <4> QED
        BY <4>2, <4>3
    <3>2. ASSUME NEW s \in SUBSET S, Cardinality(s) <= k PROVE h[s] \in Int
      <4>1. CASE s = {}
        BY <2>2, <4>1
      <4>2. CASE s # {}
        BY <3>1, <3>2, <4>2
      <4> QED
        BY <4>1, <4>2
    <3>3. k \in 0..n
      BY <1>0
    <3> QED
      BY <3>2, <3>3
  <2>5. \A k \in 0..n : k \in I
    <3>1. \A k \in 1..n : k - 1 \in I => k \in I
      BY <2>4
    <3> HIDE DEF I
    <3> QED
      BY <1>0, <2>3, <3>1, UpTo
  <2> QED
    BY <1>0, <2>5
<1> QED
  BY <1>8, <1>9
-----------------------------------------------------------------------------
(***************************************************************************)
(* The arithmetic of a tier, for the proofs about both bucket stores.      *)
(***************************************************************************)
(* A product of naturals grows with its second factor. *)
LEMMA MulMono ==
  ASSUME NEW r \in Nat, NEW a \in Nat, NEW b \in Nat, a <= b
  PROVE  r * a \in Nat /\ r * b \in Nat /\ r * a <= r * b
<1>1. PICK d \in Nat : b = a + d
  <2>1. b - a \in Nat /\ b = a + (b - a)
    OBVIOUS
  <2> QED
    BY <2>1
<1>2. r * b = r * a + r * d
  BY <1>1
<1>3. r * a \in Nat /\ r * d \in Nat
  OBVIOUS
<1> QED
  BY <1>2, <1>3

(* A bucket leaks a natural number of units a second. *)
LEMMA RateType == ASSUME NEW t \in Tier PROVE ratePerSec(t) \in Nat
<1>1. t.Loss \in Nat /\ t.Max \in Nat
  BY DEF Tier
<1>2. t.Loss * t.Max \in Nat
  BY <1>1
<1>3. \A n \in Nat : n \div 100 \in Nat
  OBVIOUS
<1> QED
  BY <1>2, <1>3 DEF ratePerSec

(* Of two buckets of one size, the one with the larger loss leaks faster. *)
LEMMA RateMono ==
  ASSUME NEW s \in Tier, NEW t \in Tier, s.Max = t.Max, s.Loss <= t.Loss
  PROVE  ratePerSec(s) <= ratePerSec(t)
<1>1. s.Loss \in Nat /\ t.Loss \in Nat /\ t.Max \in Nat
  BY DEF Tier
<1>2. t.Max * s.Loss \in Nat /\ t.Max * t.Loss \in Nat /\ t.Max * s.Loss <= t.Max * t.Loss
  BY <1>1, MulMono
<1>3. s.Loss * s.Max = t.Max * s.Loss /\ t.Loss * t.Max = t.Max * t.Loss
  BY <1>1
<1>4. \A m, n \in Nat : m <= n => m \div 100 <= n \div 100
  OBVIOUS
<1> QED
  BY <1>2, <1>3, <1>4 DEF ratePerSec

(* An enabled bucket is told to live for 100/loss seconds, at least one,   *)
(* and loses its whole capacity in that time.                              *)
LEMMA DrainTime ==
  ASSUME NEW t, WholeTier(t), Enabled(t)
  PROVE  /\ lifetime(t) = 100 \div t.Loss
         /\ lifetime(t) \in Nat /\ lifetime(t) > 0
         /\ ratePerSec(t) * lifetime(t) = t.Max
<1>1. t.Max \in Nat /\ t.Loss \in 1..100
  BY DEF WholeTier, Tier, Enabled
<1>2. \A l \in 1..100 : 100 \div l \in Nat /\ 100 \div l > 0
  OBVIOUS
<1>3. lifetime(t) = 100 \div t.Loss
  BY DEF lifetime
<1> DEFINE q == 100 \div t.Loss
           p == t.Loss * t.Max
           r == p \div 100
<1>4. q \in Nat /\ q > 0
  BY <1>1, <1>2
<1>5. t.Loss * q = 100
  <2>1. \A l \in 1..100 : 100 % l = 0 => l * (100 \div l) = 100
    OBVIOUS
  <2> QED
    BY <1>1, <2>1 DEF WholeTier
<1>6. p \in Nat /\ r \in Nat /\ 100 * r = p
  <2>1. p \in Nat
    BY <1>1
  <2>2. \A n \in Nat : n % 100 = 0 => n \div 100 \in Nat /\ 100 * (n \div 100) = n
    OBVIOUS
  <2> QED
    BY <2>1, <2>2 DEF WholeTier
<1>7. t.Loss * (q * r) = t.Loss * t.Max
  <2>1. \A l, m, n \in Nat : (l * m) * n = l * (m * n)
    OBVIOUS
  <2>2. (t.Loss * q) * r = t.Loss * (q * r)
    BY <1>1, <1>4, <1>6, <2>1
  <2> QED
    BY <1>5, <1>6, <2>2
<1>8. q * r = t.Max
  <2>1. q * r \in Nat
    BY <1>4, <1>6
  <2>2. \A l \in 1..100 : \A m, n \in Nat : l * m = l * n => m = n
    OBVIOUS
  <2> HIDE DEF q, r
  <2> QED
    BY <1>1, <1>7, <2>1, <2>2
<1>9. r * q = q * r
  BY <1>4, <1>6
<1> QED
  BY <1>2, <1>1, <1>3, <1>8, <1>9 DEF ratePerSec

(* What clamp returns. *)
LEMMA ClampFacts ==
  \A hi \in Nat : \A v \in Int :
     /\ clamp(v, 0, hi) \in 0..hi
     /\ v \in 0..hi => clamp(v, 0, hi) = v
     /\ v <= 0 => clamp(v, 0, hi) = 0
     /\ v >= hi => clamp(v, 0, hi) = hi
     /\ \A u \in Int : u <= v => clamp(u, 0, hi) <= clamp(v, 0, hi)
  BY DEF clamp
=============================================================================
