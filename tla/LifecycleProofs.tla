--------------------------- MODULE LifecycleProofs ---------------------------
(***************************************************************************)
(* Theorems about Lifecycle and the audit sink in it, for every number of  *)
(* goroutines, messages and events, every batch limit and backlog.         *)
(***************************************************************************)
EXTENDS Lifecycle, Lemmas, SequenceTheorems

(***************************************************************************)
(* What the two loops of the sink compute, sizeOf and groupBySubject.      *)
(***************************************************************************)
Sized(items, f) ==
    f = [i \in 0..Len(items) |-> IF i = 0 THEN 0 ELSE f[i - 1] + SizeOf[items[i]]]

SizedTo(items, f, m) ==
    \A i \in 0..m : f[i] = IF i = 0 THEN 0 ELSE f[i - 1] + SizeOf[items[i]]

(* The loop of sizeOf has a result for every prefix. *)
LEMMA SizedExists ==
  ASSUME NEW items \in Seq(1..Events)
  PROVE  \E f \in [0..Len(items) -> Nat] : Sized(items, f)
<1> DEFINE n == Len(items)
<1>1. n \in Nat /\ \A i \in 1..n : items[i] \in 1..Events /\ SizeOf[items[i]] \in Nat
  BY SinkAssumption
<1> DEFINE step == [i \in 1..n |-> [a \in Nat |-> a + SizeOf[items[i]]]]
<1> HIDE DEF n
<1>2. step \in [1..n -> [Nat -> Nat]]
  BY <1>1
<1>3. \A a \in Nat, i \in 1..n : step[i][a] = a + SizeOf[items[i]]
  OBVIOUS
<1> HIDE DEF step
<1>4. \E f : Loop(f, n, Nat, 0, step)
  <2>1. 0 \in Nat
    OBVIOUS
  <2> QED
    BY <1>1, <1>2, <2>1, PrefixRecursion, Zenon
<1>5. PICK f \in [0..n -> Nat] : f[0] = 0 /\ \A i \in 1..n : f[i] = step[i][f[i - 1]]
  BY <1>4 DEF Loop
<1>6. ASSUME NEW i \in 1..n PROVE f[i] = f[i - 1] + SizeOf[items[i]]
  <2>1. f[i - 1] \in Nat
    BY <1>1, <1>5
  <2> QED
    BY <1>3, <1>5, <2>1
<1>7. \A i \in 0..n : f[i] = IF i = 0 THEN 0 ELSE f[i - 1] + SizeOf[items[i]]
  BY <1>1, <1>5, <1>6
<1>8. f = [i \in 0..n |-> IF i = 0 THEN 0 ELSE f[i - 1] + SizeOf[items[i]]]
  BY <1>5, <1>7
<1> QED
  BY <1>5, <1>8 DEF Sized, n

(* There is one such result. *)
LEMMA SizedUnique ==
  ASSUME NEW items \in Seq(1..Events), NEW f, NEW g, Sized(items, f),
         NEW m \in 0..Len(items), SizedTo(items, g, m)
  PROVE  f[m] = g[m]
<1> DEFINE S == {k \in 0..m : f[k] = g[k]}
<1>0. /\ m \in Nat /\ Len(items) \in Nat
      /\ \A i \in 0..Len(items) : f[i] = IF i = 0 THEN 0 ELSE f[i - 1] + SizeOf[items[i]]
      /\ \A i \in 0..m : g[i] = IF i = 0 THEN 0 ELSE g[i - 1] + SizeOf[items[i]]
  BY DEF Sized, SizedTo
<1>1. 0 \in S
  BY <1>0
<1>2. \A k \in 1..m : k - 1 \in S => k \in S
  BY <1>0
<1> HIDE DEF S
<1>3. \A k \in 0..m : k \in S
  BY <1>0, <1>1, <1>2, UpTo
<1>4. m \in S
  BY <1>0, <1>3
<1> QED
  BY <1>4 DEF S

(* What sizeOf computes: nothing for no items, and an item more for an     *)
(* item more.                                                              *)
LEMMA SizeOfFacts ==
  /\ sizeOf(<< >>) = 0
  /\ \A items \in Seq(1..Events) :
        /\ sizeOf(items) \in Nat
        /\ \A e \in 1..Events : sizeOf(Append(items, e)) = sizeOf(items) + SizeOf[e]
<1>1. ASSUME NEW items \in Seq(1..Events)
      PROVE  \E f \in [0..Len(items) -> Nat] : Sized(items, f) /\ sizeOf(items) = f[Len(items)]
  <2> DEFINE F == CHOOSE f : Sized(items, f)
  <2>1. PICK g \in [0..Len(items) -> Nat] : Sized(items, g)
    BY SizedExists
  <2>2. Sized(items, F)
    BY <2>1
  <2>3. sizeOf(items) = F[Len(items)]
    BY DEF sizeOf, Sized
  <2>4. F \in [0..Len(items) -> Nat]
    <3>1. \A m \in 0..Len(items) : F[m] = g[m]
      <4> SUFFICES ASSUME NEW m \in 0..Len(items) PROVE F[m] = g[m]
        OBVIOUS
      <4>1. SizedTo(items, g, m)
        BY <2>1 DEF Sized, SizedTo
      <4> HIDE DEF F
      <4> QED
        BY <2>2, <4>1, SizedUnique
    <3>2. F = [i \in 0..Len(items) |-> F[i]]
      <4> HIDE DEF F
      <4> QED
        BY <2>2 DEF Sized
    <3> HIDE DEF F
    <3> QED
      BY <3>1, <3>2
  <2> HIDE DEF F
  <2> QED
    BY <2>2, <2>3, <2>4
<1>2. sizeOf(<< >>) = 0
  <2>1. << >> \in Seq(1..Events) /\ Len(<< >>) = 0
    OBVIOUS
  <2>2. PICK f \in [0..0 -> Nat] : Sized(<< >>, f) /\ sizeOf(<< >>) = f[0]
    BY <1>1, <2>1
  <2> QED
    BY <2>1, <2>2 DEF Sized
<1>3. ASSUME NEW items \in Seq(1..Events), NEW e \in 1..Events
      PROVE  sizeOf(Append(items, e)) = sizeOf(items) + SizeOf[e]
  <2> DEFINE more == Append(items, e)
             n == Len(items)
  <2>1. /\ more \in Seq(1..Events) /\ Len(more) = n + 1 /\ n \in Nat
        /\ more[n + 1] = e /\ \A i \in 1..n : more[i] = items[i]
    OBVIOUS
  <2>2. PICK f \in [0..n -> Nat] : Sized(items, f) /\ sizeOf(items) = f[n]
    BY <1>1
  <2>3. PICK g \in [0..Len(more) -> Nat] : Sized(more, g) /\ sizeOf(more) = g[Len(more)]
    BY <1>1, <2>1
  <2> HIDE DEF more
  <2>4. \A i \in 0..(n + 1) : g[i] = IF i = 0 THEN 0 ELSE g[i - 1] + SizeOf[more[i]]
    BY <2>1, <2>3 DEF Sized
  <2>5. SizedTo(items, g, n) /\ n \in 0..Len(items)
    BY <2>1, <2>4 DEF SizedTo
  <2>6. f[n] = g[n]
    BY <2>2, <2>5, SizedUnique
  <2>7. g[n + 1] = g[n] + SizeOf[e]
    <3>1. n + 1 \in 0..(n + 1) /\ n + 1 # 0 /\ (n + 1) - 1 = n
      BY <2>1
    <3>2. g[n + 1] = g[(n + 1) - 1] + SizeOf[more[n + 1]]
      BY <2>4, <3>1
    <3> QED
      BY <2>1, <3>1, <3>2
  <2> QED
    BY <2>1, <2>2, <2>3, <2>6, <2>7 DEF more
<1> QED
  BY <1>1, <1>2, <1>3

Elements(s) == {s[i] : i \in 1..Len(s)}

Rising(s) == \A i, j \in 1..Len(s) : i < j => s[i] < s[j]

(* One item more at the end. *)
LEMMA AppendFacts ==
  ASSUME NEW s \in Seq(1..Events), NEW e \in 1..Events
  PROVE  /\ Append(s, e) \in Seq(1..Events)
         /\ Append(s, e) # << >>
         /\ Elements(Append(s, e)) = Elements(s) \union {e}
         /\ Rising(s) /\ (\A x \in Elements(s) : x < e) => Rising(Append(s, e))
<1> DEFINE t == Append(s, e)
<1>1. /\ t \in Seq(1..Events) /\ Len(t) = Len(s) + 1 /\ Len(s) \in Nat
      /\ \A i \in 1..Len(s) : t[i] = s[i]
      /\ t[Len(s) + 1] = e
  OBVIOUS
<1>2. t # << >>
  OBVIOUS
<1> HIDE DEF t
<1>3. Elements(t) = Elements(s) \union {e}
  <2>1. \A i \in 1..(Len(s) + 1) : i = Len(s) + 1 \/ i \in 1..Len(s)
    BY <1>1
  <2>2. Len(s) + 1 \in 1..(Len(s) + 1) /\ \A i \in 1..Len(s) : i \in 1..(Len(s) + 1)
    BY <1>1
  <2> QED
    BY <1>1, <2>1, <2>2 DEF Elements
<1>4. ASSUME Rising(s), \A x \in Elements(s) : x < e PROVE Rising(t)
  <2>1. \A i \in 1..Len(s) : s[i] < e
    BY <1>4 DEF Elements
  <2> QED
    BY <1>1, <1>4, <2>1 DEF Rising
<1> QED
  BY <1>1, <1>2, <1>3, <1>4 DEF t

GroupedTo(items, S, f, k) ==
    \A i \in 0..k : f[i] = IF i = 0 THEN << >>
                           ELSE IF items[i] \in S THEN Append(f[i - 1], items[i]) ELSE f[i - 1]

(* The loop of groupBySubject has a result for every prefix. *)
LEMMA GroupedExists ==
  ASSUME NEW items \in Seq(1..Events), NEW S
  PROVE  \E f \in [0..Len(items) -> Seq(1..Events)] : GroupedTo(items, S, f, Len(items))
<1> DEFINE n == Len(items)
           Q == Seq(1..Events)
<1>0. n \in Nat /\ \A i \in 1..n : items[i] \in 1..Events
  BY SinkAssumption
<1>1. << >> \in Q
  OBVIOUS
<1>2. \A p \in Q : \A e \in 1..Events : Append(p, e) \in Q
  OBVIOUS
<1> HIDE DEF n, Q
<1> DEFINE step == [i \in 1..n |-> [p \in Q |-> IF items[i] \in S THEN Append(p, items[i]) ELSE p]]
<1>3. step \in [1..n -> [Q -> Q]]
  BY <1>0, <1>1, <1>2
<1>4. \A p \in Q, i \in 1..n :
         step[i][p] = IF items[i] \in S THEN Append(p, items[i]) ELSE p
  OBVIOUS
<1> HIDE DEF step
<1>9. \E f : Loop(f, n, Q, << >>, step)
  BY <1>0, <1>1, <1>3, PrefixRecursion, Zenon
<1>5. PICK f \in [0..n -> Q] : f[0] = << >> /\ \A i \in 1..n : f[i] = step[i][f[i - 1]]
  BY <1>9 DEF Loop
<1>6. ASSUME NEW i \in 1..n
      PROVE  f[i] = IF items[i] \in S THEN Append(f[i - 1], items[i]) ELSE f[i - 1]
  <2>1. f[i - 1] \in Q
    BY <1>0, <1>5
  <2> QED
    BY <1>4, <1>5, <2>1
<1>7. GroupedTo(items, S, f, n)
  <2>1. \A i \in 0..n : i = 0 \/ i \in 1..n
    BY <1>0
  <2>2. ASSUME NEW i \in 0..n
        PROVE  f[i] = IF i = 0 THEN << >>
                      ELSE IF items[i] \in S THEN Append(f[i - 1], items[i]) ELSE f[i - 1]
    <3>1. CASE i = 0
      BY <1>5, <3>1
    <3>2. CASE i \in 1..n
      <4>1. i # 0
        BY <1>0, <3>2
      <4> QED
        BY <1>6, <3>2, <4>1
    <3> QED
      BY <2>1, <3>1, <3>2
  <2> QED
    BY <2>2 DEF GroupedTo
<1>8. \E g \in [0..n -> Q] : GroupedTo(items, S, g, n)
  BY <1>5, <1>7
<1> QED
  BY <1>8 DEF n, Q

(* What groupBySubject computes: the items of S, all of them and nothing   *)
(* else, in the order they had.                                            *)
LEMMA GroupFacts ==
  ASSUME NEW items \in Seq(1..Events), NEW S
  PROVE  /\ groupBy(items, S) \in Seq(1..Events)
         /\ Elements(groupBy(items, S)) = Elements(items) \intersect S
         /\ Rising(items) => Rising(groupBy(items, S))
<1> DEFINE n == Len(items)
           F == CHOOSE f : f = [i \in 0..n |->
                                  IF i = 0 THEN << >>
                                  ELSE IF items[i] \in S THEN Append(f[i - 1], items[i])
                                       ELSE f[i - 1]]
           First(k) == {items[i] : i \in 1..k}
           T == {k \in 0..n : /\ F[k] \in Seq(1..Events)
                              /\ Elements(F[k]) = First(k) \intersect S
                              /\ Rising(items) => Rising(F[k])}
<1>0. n \in Nat /\ \A i \in 1..n : items[i] \in 1..Events /\ items[i] \in Nat
  BY SinkAssumption
<1>a. groupBy(items, S) = F[n]
  BY DEF groupBy
<1>b. GroupedTo(items, S, F, n)
  <2>1. PICK g \in [0..n -> Seq(1..Events)] : GroupedTo(items, S, g, n)
    BY GroupedExists
  <2>2. g = [i \in 0..n |-> IF i = 0 THEN << >>
                            ELSE IF items[i] \in S THEN Append(g[i - 1], items[i])
                                 ELSE g[i - 1]]
    BY <2>1 DEF GroupedTo
  <2>3. F = [i \in 0..n |-> IF i = 0 THEN << >>
                            ELSE IF items[i] \in S THEN Append(F[i - 1], items[i])
                                 ELSE F[i - 1]]
    BY <2>2
  <2> HIDE DEF F
  <2> QED
    BY <2>3 DEF GroupedTo
<1> HIDE DEF F
<1>1. 0 \in T
  <2>1. F[0] = << >> /\ Len(<< >>) = 0 /\ 1..0 = {} /\ 0 \in 0..n
    BY <1>0, <1>b DEF GroupedTo
  <2>2. Elements(<< >>) = {} /\ Rising(<< >>) /\ << >> \in Seq(1..Events) /\ First(0) = {}
    BY <2>1 DEF Elements, Rising
  <2> QED
    BY <2>1, <2>2
<1>2. ASSUME NEW k \in 1..n, k - 1 \in T PROVE k \in T
  <2>0. k \in 0..n /\ k # 0 /\ k - 1 \in Nat /\ items[k] \in 1..Events
    BY <1>0
  <2>1. First(k) = First(k - 1) \union {items[k]}
    <3>1. \A i \in 1..k : i = k \/ i \in 1..(k - 1)
      BY <2>0
    <3>2. \A i \in 1..(k - 1) : i \in 1..k
      BY <2>0
    <3>3. k \in 1..k
      BY <2>0
    <3> QED
      BY <3>1, <3>2, <3>3
  <2>2. CASE items[k] \in S
    <3> DEFINE p == F[k - 1]
               e == items[k]
    <3>1. F[k] = Append(p, e) /\ p \in Seq(1..Events) /\ Elements(p) = First(k - 1) \intersect S
          /\ (Rising(items) => Rising(p))
      BY <1>b, <1>2, <2>0, <2>2 DEF GroupedTo
    <3>2. Rising(items) => \A x \in First(k - 1) : x < e
      <4>1. \A i \in 1..(k - 1) : i \in 1..n /\ i < k
        BY <2>0
      <4> QED
        BY <1>0, <4>1 DEF Rising
    <3> HIDE DEF p, e, First
    <3>3. e \in 1..Events
      BY <2>0 DEF e
    <3>4. /\ Append(p, e) \in Seq(1..Events)
          /\ Elements(Append(p, e)) = Elements(p) \union {e}
          /\ Rising(p) /\ (\A x \in Elements(p) : x < e) => Rising(Append(p, e))
      BY <3>1, <3>3, AppendFacts
    <3> QED
      BY <2>0, <2>1, <2>2, <3>1, <3>2, <3>4 DEF e
  <2>3. CASE items[k] \notin S
    <3>1. F[k] = F[k - 1]
      BY <1>b, <2>0, <2>3 DEF GroupedTo
    <3> QED
      BY <1>2, <2>0, <2>1, <2>3, <3>1
  <2> QED
    BY <2>2, <2>3
<1>3. \A k \in 1..n : k - 1 \in T => k \in T
  BY <1>2
<1> HIDE DEF T
<1>4. \A k \in 0..n : k \in T
  BY <1>0, <1>1, <1>3, UpTo
<1>5. n \in T
  BY <1>0, <1>4
<1> QED
  BY <1>a, <1>5 DEF T, Elements
(* The elements of a sequence, by their indices. *)
LEMMA ToSetIs ==
  ASSUME NEW X, NEW s \in Seq(X)
  PROVE  ToSet(s) = Elements(s) /\ Elements(s) \subseteq X
<1>1. DOMAIN s = 1..Len(s) /\ \A i \in 1..Len(s) : s[i] \in X
  OBVIOUS
<1> QED
  BY <1>1 DEF ToSet, Elements

(* A piece cut out of a sequence. *)
LEMMA CutFacts ==
  ASSUME NEW s \in Seq(1..Events), NEW a \in Nat, NEW b \in Nat,
         1 <= a, a <= b + 1, b <= Len(s)
  PROVE  /\ SubSeq(s, a, b) \in Seq(1..Events)
         /\ Len(SubSeq(s, a, b)) = b - a + 1
         /\ \A i \in 1..(b - a + 1) : SubSeq(s, a, b)[i] = s[a + i - 1]
         /\ Elements(SubSeq(s, a, b)) = {s[i] : i \in a..b}
         /\ Rising(s) => Rising(SubSeq(s, a, b))
<1> DEFINE c == SubSeq(s, a, b)
<1>0. Len(s) \in Nat /\ \A i \in a..b : s[i] \in 1..Events
  <2> HIDE DEF c
  <2>1. Len(s) \in Nat /\ \A i \in 1..Len(s) : s[i] \in 1..Events
    BY SinkAssumption
  <2>2. a..b \subseteq 1..Len(s)
    BY <2>1
  <2> QED
    BY <2>1, <2>2
<1>1. c \in Seq(1..Events) /\ Len(c) = b - a + 1
  <2>1. c \in Seq(1..Events) /\ Len(c) = IF a <= b THEN b - a + 1 ELSE 0
    BY <1>0, SubSeqProperties
  <2> QED
    BY <2>1
<1>2. \A i \in 1..(b - a + 1) : c[i] = s[a + i - 1]
  BY <1>0, SubSeqProperties
<1> HIDE DEF c
<1>3. Elements(c) = {s[i] : i \in a..b}
  <2>1. \A i \in 1..(b - a + 1) : a + i - 1 \in a..b
    OBVIOUS
  <2>2. \A i \in a..b : i - a + 1 \in 1..(b - a + 1) /\ a + (i - a + 1) - 1 = i
    OBVIOUS
  <2>3. \A i \in a..b : c[i - a + 1] = s[i]
    BY <1>2, <2>2
  <2>4. \A x : x \in Elements(c) => x \in {s[i] : i \in a..b}
    BY <1>1, <1>2, <2>1 DEF Elements
  <2>5. \A i \in a..b : s[i] \in Elements(c)
    BY <1>1, <2>2, <2>3 DEF Elements
  <2> QED
    BY <2>4, <2>5
<1>4. ASSUME Rising(s) PROVE Rising(c)
  <2> SUFFICES ASSUME NEW i \in 1..Len(c), NEW j \in 1..Len(c), i < j PROVE c[i] < c[j]
    BY DEF Rising
  <2>1. a + i - 1 \in 1..Len(s) /\ a + j - 1 \in 1..Len(s) /\ a + i - 1 < a + j - 1
    BY <1>0, <1>1
  <2> QED
    BY <1>1, <1>2, <1>4, <2>1 DEF Rising
<1> QED
  BY <1>1, <1>2, <1>3, <1>4 DEF c

(* keepLast drops the oldest of what is too much, and never everything. *)
LEMMA KeepLastFacts ==
  ASSUME NEW s \in Seq(1..Events), s # << >>
  PROVE  /\ keepLast(s) \in Seq(1..Events)
         /\ keepLast(s) # << >> /\ Len(keepLast(s)) <= maxPending
         /\ Elements(keepLast(s)) \subseteq Elements(s)
         /\ Rising(s) => Rising(keepLast(s))
<1>0. Len(s) \in Nat /\ maxPending \in Nat /\ maxPending > 0
  BY SinkAssumption
<1>1. CASE Len(s) > maxPending
  <2> DEFINE a == Len(s) - maxPending + 1
  <2>1. a \in Nat /\ 1 <= a /\ a <= Len(s) + 1 /\ Len(s) - a + 1 = maxPending
    BY <1>0, <1>1
  <2>2. keepLast(s) = SubSeq(s, a, Len(s))
    BY <1>1 DEF keepLast
  <2>3. a..Len(s) \subseteq 1..Len(s)
    BY <1>0, <2>1
  <2> HIDE DEF a
  <2>4. /\ SubSeq(s, a, Len(s)) \in Seq(1..Events)
        /\ Len(SubSeq(s, a, Len(s))) = maxPending
        /\ Elements(SubSeq(s, a, Len(s))) = {s[i] : i \in a..Len(s)}
        /\ Rising(s) => Rising(SubSeq(s, a, Len(s)))
    BY <1>0, <2>1, CutFacts
  <2>5. SubSeq(s, a, Len(s)) # << >>
    <3>1. Len(<< >>) = 0
      OBVIOUS
    <3>2. Len(SubSeq(s, a, Len(s))) = maxPending
      BY <2>4
    <3>3. \A r : r = << >> => Len(r) # maxPending
      BY <1>0, <3>1
    <3> QED
      BY <3>2, <3>3, Zenon
  <2>6. Elements(SubSeq(s, a, Len(s))) \subseteq Elements(s)
    BY <2>3, <2>4 DEF Elements
  <2> QED
    BY <1>0, <2>2, <2>4, <2>5, <2>6
<1>2. CASE ~(Len(s) > maxPending)
  BY <1>0, <1>2 DEF keepLast
<1> QED
  BY <1>1, <1>2

(* One sequence after another. *)
LEMMA ConcatFacts ==
  ASSUME NEW s \in Seq(1..Events), NEW t \in Seq(1..Events)
  PROVE  /\ s \o t \in Seq(1..Events)
         /\ Elements(s \o t) = Elements(s) \union Elements(t)
         /\ Rising(s) /\ Rising(t) /\ (\A e \in Elements(s), f \in Elements(t) : e < f)
               => Rising(s \o t)
<1> DEFINE c == s \o t
           n == Len(s)
           m == Len(t)
<1>1. /\ c \in Seq(1..Events) /\ Len(c) = n + m /\ n \in Nat /\ m \in Nat
      /\ \A i \in 1..n : c[i] = s[i]
      /\ \A i \in 1..m : c[n + i] = t[i]
  OBVIOUS
<1> HIDE DEF c
<1>2. \A i \in 1..(n + m) : i \in 1..n \/ (i - n \in 1..m /\ n + (i - n) = i)
  BY <1>1
<1>3. \A i \in 1..n : i \in 1..(n + m)
  BY <1>1
<1>4. \A i \in 1..m : n + i \in 1..(n + m)
  BY <1>1
<1>5. Elements(c) = Elements(s) \union Elements(t)
  <2>1. \A i \in 1..(n + m) : c[i] \in Elements(s) \union Elements(t)
    <3> SUFFICES ASSUME NEW i \in 1..(n + m) PROVE c[i] \in Elements(s) \union Elements(t)
      OBVIOUS
    <3>1. CASE i \in 1..n
      BY <1>1, <3>1 DEF Elements
    <3>2. CASE i - n \in 1..m /\ n + (i - n) = i
      <4>1. c[n + (i - n)] = t[i - n]
        BY <1>1, <3>2
      <4> QED
        BY <3>2, <4>1 DEF Elements
    <3> QED
      BY <1>2, <3>1, <3>2
  <2>2. \A i \in 1..n : s[i] \in Elements(c)
    BY <1>1, <1>3 DEF Elements
  <2>3. \A i \in 1..m : t[i] \in Elements(c)
    <3> SUFFICES ASSUME NEW i \in 1..m PROVE t[i] \in Elements(c)
      OBVIOUS
    <3>1. c[n + i] = t[i] /\ n + i \in 1..Len(c)
      BY <1>1, <1>4
    <3> QED
      BY <3>1 DEF Elements
  <2> QED
    BY <1>1, <2>1, <2>2, <2>3 DEF Elements
<1>6. ASSUME Rising(s), Rising(t), \A e \in Elements(s), f \in Elements(t) : e < f
      PROVE  Rising(c)
  <2> SUFFICES ASSUME NEW i \in 1..(n + m), NEW j \in 1..(n + m), i < j PROVE c[i] < c[j]
    BY <1>1 DEF Rising
  <2>1. CASE j \in 1..n
    <3>1. i \in 1..n
      BY <2>1
    <3> QED
      BY <1>1, <1>6, <2>1, <3>1 DEF Rising
  <2>2. CASE i \in 1..n /\ j - n \in 1..m /\ n + (j - n) = j
    <3>1. c[i] = s[i] /\ c[n + (j - n)] = t[j - n]
      BY <1>1, <2>2
    <3>2. s[i] \in Elements(s) /\ t[j - n] \in Elements(t)
      BY <2>2 DEF Elements
    <3> QED
      BY <1>6, <2>2, <3>1, <3>2
  <2>3. CASE i - n \in 1..m /\ n + (i - n) = i /\ j - n \in 1..m /\ n + (j - n) = j
    <3>1. c[n + (i - n)] = t[i - n] /\ c[n + (j - n)] = t[j - n] /\ i - n < j - n
      BY <1>1, <2>3
    <3> QED
      BY <1>6, <2>3, <3>1 DEF Rising
  <2> QED
    BY <1>2, <2>1, <2>2, <2>3
<1> QED
  BY <1>1, <1>5, <1>6 DEF c
-----------------------------------------------------------------------------
(***************************************************************************)
(* The sink.  Its steps are those of AuditSink, in whatever process it     *)
(* runs.  Events are numbered as they are added, so that what is pending,  *)
(* being published and published is ordered by number; SinkInv says how    *)
(* the three lie to each other.                                            *)
(***************************************************************************)
SinkType ==
    /\ added \in Nat /\ added <= Events
    /\ pending \in Seq(1..Events)
    /\ size \in Nat
    /\ dropped \subseteq 1..Events
    /\ kicking \subseteq Adders
    /\ wake \in BOOLEAN
    /\ loop \in {"select", "flush", "publish", "done"}
    /\ stopping \in BOOLEAN
    /\ take \in Seq(1..Events)
    /\ sent \in [Subjects -> Seq(1..Events)]
    /\ failed \subseteq 1..Events
    /\ closing \in {"open", "waiting", "returned"}

(* Where the goroutine of the sink is, and what it has in its hands. *)
SinkShape ==
    /\ loop = "publish" <=> take # << >>
    /\ stopping => closing # "open" /\ loop # "select"
    /\ loop = "done" => stopping

Ordered ==
    /\ Rising(pending) /\ Rising(take)
    /\ \A e \in Elements(pending) : e <= added
    /\ \A e \in Elements(take) : e <= added
    /\ \A e \in Elements(take), f \in Elements(pending) : e < f
    /\ \A s \in Subjects :
          /\ Rising(sent[s])
          /\ \A e \in Elements(sent[s]) :
                /\ SubjectOf[e] = s
                /\ e <= added
                /\ \A f \in Elements(pending) : e < f
                /\ \A f \in Elements(take) : SubjectOf[f] = s => e < f

SinkInv == SinkType /\ SinkShape /\ Ordered /\ Accounted /\ KickNotLost

(* Elements, for the sequences of the sink. *)
LEMMA SinkSets ==
  ASSUME SinkType
  PROVE  /\ ToSet(pending) = Elements(pending) /\ Elements(pending) \subseteq 1..Events
         /\ ToSet(take) = Elements(take) /\ Elements(take) \subseteq 1..Events
         /\ \A s \in Subjects : /\ ToSet(sent[s]) = Elements(sent[s])
                                /\ Elements(sent[s]) \subseteq 1..Events
<1>1. /\ pending \in Seq(1..Events) /\ take \in Seq(1..Events)
      /\ \A s \in Subjects : sent[s] \in Seq(1..Events)
  BY DEF SinkType
<1> QED
  BY <1>1, ToSetIs

(* A new event is the last, and no event is older than what keepLast drops. *)
LEMMA AddKeeps ==
  ASSUME SinkInv, NEW a \in Adders, Add(a)
  PROVE  SinkInv'
<1> DEFINE e == added + 1
           all == Append(pending, e)
           kept == keepLast(all)
           n == IF kept = all THEN size + SizeOf[e] ELSE sizeOf(kept)
<1>1. /\ added < Events /\ added' = e /\ pending' = kept /\ size' = n
      /\ dropped' = dropped \union (ToSet(all) \ ToSet(kept))
      /\ kicking' = IF Full(kept, n) THEN kicking \union {a} ELSE kicking
      /\ UNCHANGED << wake, loop, stopping, take, sent, failed, closing >>
  BY DEF Add
<1>2. /\ added \in Nat /\ Events \in Nat /\ e \in 1..Events /\ SizeOf[e] \in Nat
      /\ pending \in Seq(1..Events) /\ size \in Nat
  BY <1>1, SinkAssumption DEF SinkInv, SinkType
<1>3. /\ all \in Seq(1..Events) /\ all # << >>
      /\ Elements(all) = Elements(pending) \union {e}
      /\ Rising(all)
      /\ sizeOf(all) = sizeOf(pending) + SizeOf[e]
  <2>1. Rising(pending) /\ \A x \in Elements(pending) : x < e
    <3>1. \A x \in Elements(pending) : x <= added /\ x \in 1..Events
      BY SinkSets DEF SinkInv, Ordered
    <3> QED
      BY <1>2, <3>1 DEF SinkInv, Ordered
  <2> HIDE DEF e
  <2> QED
    BY <1>2, <2>1, AppendFacts, SizeOfFacts
<1> HIDE DEF all
<1>4. /\ kept \in Seq(1..Events) /\ kept # << >> /\ Len(kept) <= maxPending
      /\ Elements(kept) \subseteq Elements(all)
      /\ Rising(kept)
  BY <1>3, KeepLastFacts
<1>5. n = sizeOf(kept) /\ n \in Nat
  BY <1>2, <1>3, <1>4, SizeOfFacts DEF SinkInv, Accounted
<1>6. /\ ToSet(all) = Elements(all) /\ ToSet(kept) = Elements(kept)
      /\ Elements(all) \subseteq 1..Events /\ Elements(kept) \subseteq 1..Events
  BY <1>3, <1>4, ToSetIs
<1> HIDE DEF kept, n
<1>7. SinkType'
  <2>1. added' \in Nat /\ added' <= Events
    BY <1>1, <1>2
  <2>2. dropped' \subseteq 1..Events /\ kicking' \subseteq Adders
    BY <1>1, <1>6 DEF SinkInv, SinkType
  <2> HIDE DEF e
  <2> QED
    BY <1>1, <1>4, <1>5, <2>1, <2>2 DEF SinkInv, SinkType
<1>8. SinkShape'
  BY <1>1 DEF SinkInv, SinkShape
<1>9. Ordered'
  <2>1. \A x \in Elements(pending') : x \in Elements(pending) \/ x = e
    BY <1>1, <1>3, <1>4
  <2>2. /\ \A x \in Elements(pending) : x <= added /\ x \in Nat
        /\ \A x \in Elements(take) : x <= added /\ x \in Nat
        /\ \A s \in Subjects : \A x \in Elements(sent[s]) : x <= added /\ x \in Nat
    BY SinkSets, SinkAssumption DEF SinkInv, Ordered
  <2>3. Rising(pending') /\ UNCHANGED << take, sent >>
    BY <1>1, <1>4
  <2>4. \A x \in Elements(take) : x <= added' /\ x < e
    BY <1>1, <1>2, <2>2
  <2>5. \A s \in Subjects : \A x \in Elements(sent[s]) : x <= added' /\ x < e
    <3>1. \A x \in Nat : x <= added => x <= added' /\ x < e
      BY <1>1, <1>2
    <3> HIDE DEF e
    <3> QED
      BY <2>2, <3>1
  <2>6. \A x \in Elements(pending') : x <= added'
    BY <1>1, <1>2, <2>1, <2>2
  <2> HIDE DEF e
  <2> QED
    BY <2>1, <2>3, <2>4, <2>5, <2>6 DEF SinkInv, Ordered
<1>10. Accounted'
  <2>1. 1..added' = (1..added) \union {e}
    BY <1>1, <1>2
  <2>2. ToSet(pending) = Elements(pending)
    BY SinkSets DEF SinkInv
  <2> HIDE DEF e
  <2> QED
    BY <1>1, <1>3, <1>4, <1>5, <1>6, <2>1, <2>2 DEF SinkInv, Accounted
<1>11. KickNotLost'
  <2> HIDE DEF e
  <2> QED
    BY <1>1 DEF SinkInv, KickNotLost
<1> QED
  BY <1>7, <1>8, <1>9, <1>10, <1>11 DEF SinkInv

(* A sequence of events that is not empty has a first one. *)
LEMMA FirstOf ==
  ASSUME NEW s \in Seq(1..Events), s # << >>
  PROVE  Len(s) \in Nat /\ Len(s) >= 1 /\ \A i \in 1..Len(s) : s[i] \in 1..Events /\ s[i] \in Nat
<1>1. Len(s) \in Nat /\ Len(s) >= 1
  OBVIOUS
<1> QED
  BY <1>1, SinkAssumption

(* A batch is the oldest part of what is pending. *)
LEMMA FlushTakeKeeps ==
  ASSUME SinkInv, FlushTake
  PROVE  SinkInv'
<1> DEFINE m == Len(pending)
           n == IF m > maxItems THEN maxItems ELSE m
           head == SubSeq(pending, 1, n)
           tail == SubSeq(pending, n + 1, m)
<1>1. /\ loop = "flush" /\ pending # << >> /\ take' = head /\ pending' = tail
      /\ size' = sizeOf(tail) /\ loop' = "publish"
      /\ UNCHANGED << added, dropped, kicking, wake, stopping, sent, failed, closing >>
  BY DEF FlushTake
<1>2. take = << >>
  BY <1>1 DEF SinkInv, SinkShape
<1>3. /\ pending \in Seq(1..Events) /\ m \in Nat /\ n \in Nat /\ 1 <= n /\ n <= m
      /\ \A i \in 1..m : pending[i] \in Nat
  <2>1. pending \in Seq(1..Events) /\ m \in Nat /\ m >= 1 /\ \A i \in 1..m : pending[i] \in Nat
    BY <1>1, FirstOf DEF SinkInv, SinkType
  <2> QED
    BY <2>1, SinkAssumption
<1> HIDE DEF n, m
<1>4. /\ head \in Seq(1..Events) /\ Len(head) = n
      /\ Elements(head) = {pending[i] : i \in 1..n} /\ Rising(head)
  BY <1>3, CutFacts DEF SinkInv, Ordered, m
<1>5. /\ tail \in Seq(1..Events) /\ Len(tail) = m - n
      /\ Elements(tail) = {pending[i] : i \in (n + 1)..m} /\ Rising(tail)
  BY <1>3, CutFacts DEF SinkInv, Ordered, m
<1> HIDE DEF head, tail
<1>6. Elements(pending) = Elements(head) \union Elements(tail)
  <2>1. \A i \in 1..m : i \in 1..n \/ i \in (n + 1)..m
    BY <1>3
  <2>2. \A i \in 1..n : i \in 1..m
    BY <1>3
  <2>3. \A i \in (n + 1)..m : i \in 1..m
    BY <1>3
  <2>4. Elements(pending) = {pending[i] : i \in 1..m}
    BY DEF Elements, m
  <2> QED
    BY <1>4, <1>5, <2>1, <2>2, <2>3, <2>4
<1>7. \A x \in Elements(head), y \in Elements(tail) : x < y
  <2>1. \A i \in 1..n, j \in (n + 1)..m : i \in 1..m /\ j \in 1..m /\ i < j
    BY <1>3
  <2>2. \A i \in 1..n, j \in (n + 1)..m : pending[i] < pending[j]
    BY <2>1 DEF SinkInv, Ordered, Rising, m
  <2> QED
    BY <1>4, <1>5, <2>2
<1>8. head # << >>
  <2>1. \A r : r = << >> => Len(r) = 0
    OBVIOUS
  <2> QED
    BY <1>3, <1>4, <2>1
<1>9. sizeOf(tail) \in Nat /\ Len(tail) <= maxPending
  <2>1. m <= maxPending /\ maxPending \in Nat
    BY SinkAssumption DEF SinkInv, Accounted, m
  <2> QED
    BY <1>3, <1>5, <2>1, SizeOfFacts
<1>10. SinkType'
  BY <1>1, <1>4, <1>5, <1>9 DEF SinkInv, SinkType
<1>11. SinkShape'
  BY <1>1, <1>8 DEF SinkInv, SinkShape
<1>12. Ordered'
  <2>1. Elements(take) = {}
    BY <1>2 DEF Elements
  <2> QED
    BY <1>1, <1>4, <1>5, <1>6, <1>7, <2>1 DEF SinkInv, Ordered
<1>13. Accounted'
  <2>1. /\ ToSet(pending) = Elements(pending) /\ ToSet(take) = {}
        /\ ToSet(head) = Elements(head) /\ ToSet(tail) = Elements(tail)
    <3>1. Elements(take) = {}
      BY <1>2 DEF Elements
    <3> QED
      BY <1>4, <1>5, <3>1, SinkSets, ToSetIs DEF SinkInv
  <2> QED
    BY <1>1, <1>6, <1>9, <2>1 DEF SinkInv, Accounted
<1>14. KickNotLost'
  BY <1>1 DEF KickNotLost
<1> QED
  BY <1>10, <1>11, <1>12, <1>13, <1>14 DEF SinkInv

(* A message goes out, or is lost, with the events of one subject. *)
LEMMA SendKeeps ==
  ASSUME SinkInv, Send
  PROVE  SinkInv'
<1> DEFINE s == SubjectOf[take[1]]
           mine == groupBy(take, OnSubject(s))
           rest == groupBy(take, 1..Events \ OnSubject(s))
<1>1. /\ loop = "publish" /\ take' = rest
      /\ loop' = IF rest = << >> THEN "flush" ELSE "publish"
      /\ \/ sent' = [sent EXCEPT ![s] = @ \o mine] /\ UNCHANGED failed
         \/ failed' = failed \union ToSet(mine) /\ UNCHANGED sent
      /\ UNCHANGED << added, pending, size, dropped, kicking, wake, stopping, closing >>
  BY DEF Send, AfterSend
<1>2. take \in Seq(1..Events) /\ take # << >> /\ Rising(take)
  BY <1>1 DEF SinkInv, SinkType, SinkShape, Ordered
<1>3. s \in Subjects
  <2>1. take[1] \in 1..Events
    BY <1>2, FirstOf
  <2> QED
    BY <2>1 DEF Subjects
<1> HIDE DEF s
<1>4. /\ mine \in Seq(1..Events) /\ Rising(mine)
      /\ Elements(mine) = Elements(take) \intersect OnSubject(s)
      /\ rest \in Seq(1..Events) /\ Rising(rest)
      /\ Elements(rest) = Elements(take) \intersect (1..Events \ OnSubject(s))
  BY <1>2, GroupFacts
<1> HIDE DEF mine, rest
<1>5. /\ Elements(take) \subseteq 1..Events /\ ToSet(take) = Elements(take)
      /\ ToSet(mine) = Elements(mine) /\ ToSet(rest) = Elements(rest)
      /\ ToSet(sent[s]) = Elements(sent[s])
      /\ sent[s] \in Seq(1..Events) /\ sent \in [Subjects -> Seq(1..Events)]
  BY <1>3, <1>4, SinkSets, ToSetIs DEF SinkInv, SinkType
<1>6. Elements(take) = Elements(mine) \union Elements(rest)
  BY <1>4, <1>5
<1>7. \A e \in Elements(mine) : e \in Elements(take) /\ SubjectOf[e] = s
  BY <1>4 DEF OnSubject
<1>8. \A e \in Elements(rest) : e \in Elements(take) /\ SubjectOf[e] # s
  BY <1>4 DEF OnSubject
<1>9. SinkShape' /\ KickNotLost'
  BY <1>1 DEF SinkInv, SinkShape, KickNotLost
<1>10. CASE sent' = [sent EXCEPT ![s] = @ \o mine] /\ UNCHANGED failed
  <2>1. /\ sent'[s] = sent[s] \o mine
        /\ \A r \in Subjects : r # s => sent'[r] = sent[r]
    BY <1>3, <1>5, <1>10
  <2>2. \A e \in Elements(sent[s]), f \in Elements(mine) : e < f
    BY <1>3, <1>7 DEF SinkInv, Ordered
  <2>3. /\ sent'[s] \in Seq(1..Events)
        /\ Elements(sent'[s]) = Elements(sent[s]) \union Elements(mine)
        /\ Rising(sent'[s])
    BY <1>3, <1>4, <1>5, <2>1, <2>2, ConcatFacts DEF SinkInv, Ordered
  <2>4. SinkType'
    <3>1. sent' \in [Subjects -> Seq(1..Events)]
      BY <1>3, <1>5, <1>10, <2>1, <2>3
    <3> QED
      BY <1>1, <1>4, <1>10, <3>1 DEF SinkInv, SinkType
  <2>5. Ordered'
    <3>1. \A r \in Subjects :
             /\ Rising(sent'[r])
             /\ \A e \in Elements(sent'[r]) :
                   /\ SubjectOf[e] = r
                   /\ e <= added
                   /\ \A f \in Elements(pending) : e < f
                   /\ \A f \in Elements(rest) : SubjectOf[f] = r => e < f
      <4> SUFFICES ASSUME NEW r \in Subjects
                   PROVE  /\ Rising(sent'[r])
                          /\ \A e \in Elements(sent'[r]) :
                                /\ SubjectOf[e] = r
                                /\ e <= added
                                /\ \A f \in Elements(pending) : e < f
                                /\ \A f \in Elements(rest) : SubjectOf[f] = r => e < f
        OBVIOUS
      <4>1. CASE r = s
        BY <1>7, <1>8, <2>3, <4>1 DEF SinkInv, Ordered
      <4>2. CASE r # s
        BY <1>8, <2>1, <4>2 DEF SinkInv, Ordered
      <4> QED
        BY <4>1, <4>2
    <3> QED
      BY <1>1, <1>4, <1>8, <3>1 DEF SinkInv, Ordered
  <2>6. Accounted'
    <3>1. UNION {ToSet(sent'[r]) : r \in Subjects}
             = Elements(mine) \union UNION {ToSet(sent[r]) : r \in Subjects}
      <4>1. ToSet(sent'[s]) = ToSet(sent[s]) \union Elements(mine)
        BY <1>5, <2>3, ToSetIs
      <4>2. \A r \in Subjects : r # s => ToSet(sent'[r]) = ToSet(sent[r])
        BY <2>1
      <4> DEFINE before == UNION {ToSet(sent[r]) : r \in Subjects}
                 after == UNION {ToSet(sent'[r]) : r \in Subjects}
                 got == Elements(mine)
      <4>3. \A x : x \in before <=> \E r \in Subjects : x \in ToSet(sent[r])
        OBVIOUS
      <4>4. \A x : x \in after <=> \E r \in Subjects : x \in ToSet(sent'[r])
        OBVIOUS
      <4>5. ToSet(sent'[s]) = ToSet(sent[s]) \union got
        BY <4>1
      <4> HIDE DEF before, after, got
      <4>6. ASSUME NEW x \in after PROVE x \in got \union before
        <5>1. PICK r \in Subjects : x \in ToSet(sent'[r])
          BY <4>4, <4>6
        <5>2. CASE r = s
          BY <4>3, <4>5, <5>1, <5>2
        <5>3. CASE r # s
          BY <4>2, <4>3, <5>1, <5>3
        <5> QED
          BY <5>2, <5>3
      <4>7. ASSUME NEW x \in before PROVE x \in after
        <5>1. PICK r \in Subjects : x \in ToSet(sent[r])
          BY <4>3, <4>7
        <5>2. x \in ToSet(sent'[r])
          BY <4>2, <4>5, <5>1
        <5> QED
          BY <4>4, <5>2
      <4>8. ASSUME NEW x \in got PROVE x \in after
        BY <1>3, <4>4, <4>5, <4>8
      <4>9. after = got \union before
        BY <4>6, <4>7, <4>8
      <4> QED
        BY <4>9 DEF before, after, got
    <3> DEFINE P == UNION {ToSet(sent[r]) : r \in Subjects}
    <3>2. /\ Len(pending) <= maxPending /\ size = sizeOf(pending)
          /\ 1..added = ToSet(pending) \union ToSet(take) \union dropped \union failed \union P
      BY DEF SinkInv, Accounted
    <3>3. UNION {ToSet(sent'[r]) : r \in Subjects} = P \union Elements(mine)
      BY <3>1
    <3> HIDE DEF P
    <3>4. 1..added = ToSet(pending) \union Elements(rest) \union dropped \union failed
                        \union (P \union Elements(mine))
      BY <1>5, <1>6, <3>2
    <3>5. take' = rest /\ ToSet(rest) = Elements(rest)
      BY <1>1, <1>5
    <3> QED
      BY <1>1, <1>10, <3>2, <3>3, <3>4, <3>5 DEF Accounted
  <2> QED
    BY <1>9, <2>4, <2>5, <2>6 DEF SinkInv
<1>11. CASE failed' = failed \union ToSet(mine) /\ UNCHANGED sent
  <2>1. SinkType'
    BY <1>1, <1>4, <1>5, <1>6, <1>11 DEF SinkInv, SinkType
  <2>2. Ordered'
    BY <1>1, <1>4, <1>8, <1>11 DEF SinkInv, Ordered
  <2>3. Accounted'
    BY <1>1, <1>5, <1>6, <1>11 DEF SinkInv, Accounted
  <2> QED
    BY <1>9, <2>1, <2>2, <2>3 DEF SinkInv
<1> QED
  BY <1>1, <1>10, <1>11

(* Every step of the sink keeps its invariant. *)
LEMMA SinkNext == SinkInv /\ [Next]_vars => SinkInv'
<1> SUFFICES ASSUME SinkInv, [Next]_vars PROVE SinkInv'
  OBVIOUS
<1>1. ASSUME UNCHANGED << added, pending, size, dropped, take, sent, failed >>,
             SinkType', SinkShape', KickNotLost'
      PROVE  SinkInv'
  BY <1>1 DEF SinkInv, Ordered, Accounted
<1>2. ASSUME NEW a \in Adders, Kick(a) PROVE SinkInv'
  BY <1>1, <1>2 DEF Kick, SinkInv, SinkType, SinkShape, KickNotLost
<1>3. CASE LoopWake \/ LoopTick \/ LoopStop
  BY <1>1, <1>3 DEF LoopWake, LoopTick, LoopStop, SinkInv, SinkType, SinkShape, KickNotLost
<1>4. CASE FlushEmpty
  <2>1. ~Full(pending, size)
    <3>1. size = 0 /\ Len(pending) = 0
      BY <1>4, SizeOfFacts DEF FlushEmpty, SinkInv, Accounted
    <3> QED
      BY <3>1, SinkAssumption DEF Full
  <2> QED
    BY <1>1, <1>4, <2>1 DEF FlushEmpty, FlushEnds, SinkInv, SinkType, SinkShape, KickNotLost
<1>5. CASE CloseStop \/ CloseReturn
  BY <1>1, <1>5 DEF CloseStop, CloseReturn, SinkInv, SinkType, SinkShape, KickNotLost
<1>6. CASE UNCHANGED vars
  BY <1>1, <1>6 DEF vars, SinkInv, SinkType, SinkShape, KickNotLost
<1> QED
  BY <1>2, <1>3, <1>4, <1>5, <1>6, AddKeeps, FlushTakeKeeps, SendKeeps
     DEF Next, LoopStep, Terminated

(* A new sink is in order. *)
LEMMA SinkInit == Init => SinkInv
<1> SUFFICES ASSUME Init PROVE SinkInv
  OBVIOUS
<1>1. Elements(<< >>) = {} /\ ToSet(<< >>) = {} /\ Rising(<< >>) /\ Len(<< >>) = 0
  <2>1. Len(<< >>) = 0 /\ 1..0 = {} /\ << >> \in Seq(1..Events)
    OBVIOUS
  <2>2. Elements(<< >>) = {} /\ Rising(<< >>)
    BY <2>1 DEF Elements, Rising
  <2> QED
    BY <2>1, <2>2, ToSetIs
<1>2. SinkType
  <2>1. << >> \in Seq(1..Events) /\ 0 \in Nat /\ 0 <= Events
    BY SinkAssumption
  <2>2. sent \in [Subjects -> Seq(1..Events)]
    BY <2>1 DEF Init
  <2> QED
    BY <2>1, <2>2 DEF Init, SinkType
<1>3. SinkShape
  BY DEF Init, SinkShape
<1>4. Ordered
  BY <1>1 DEF Init, Ordered
<1>5. Accounted
  <2>1. UNION {ToSet(sent[s]) : s \in Subjects} = {}
    BY <1>1 DEF Init
  <2>2. 1..0 = {} /\ 0 <= maxPending
    BY SinkAssumption
  <2> QED
    BY <1>1, <2>1, <2>2, SizeOfFacts DEF Init, Accounted
<1>6. KickNotLost
  BY <1>1, SinkAssumption DEF Init, KickNotLost, Full
<1> QED
  BY <1>2, <1>3, <1>4, <1>5, <1>6 DEF SinkInv

(***************************************************************************)
(* The sink in its process.  A step of the process is a step of the sink,  *)
(* or leaves the sink alone: what holds of the sink by itself holds there. *)
(***************************************************************************)
LEMMA SinkInLife ==
  ASSUME SinkInv, [LifeNext]_lifeVars
  PROVE  SinkInv'
<1>1. ASSUME NEW g \in Adders, TakeStep(g) \/ GoroutineStep(g)
      PROVE  [Next]_vars
  BY <1>1 DEF TakeStep, Pop, TakeExpired, GoroutineStep, Respond, Audit, SinkStep, Leave, Next
<1>2. ASSUME MainStep
      PROVE  [Next]_vars
  BY <1>2 DEF MainStep, Drain, PoolClose, PoolClosed, SinkClose, SinkClosed, Exit, Next
<1>3. ASSUME Arrive \/ BusStep \/ SinkStep(LoopStep) \/ Signal
      PROVE  [Next]_vars
  BY <1>3 DEF Arrive, BusStep, Receive, SubmitQueued, SubmitShed, SinkStep, Signal, Next
<1>4. ASSUME UNCHANGED lifeVars
      PROVE  [Next]_vars
  BY <1>4 DEF lifeVars
<1>5. [Next]_vars
  BY <1>1, <1>2, <1>3, <1>4 DEF LifeNext, Running
<1> QED
  BY <1>5, SinkNext

(* The sink keeps its invariant for as long as the process lives.          *)
THEOREM SinkKeepsBooks == LifeSpec => []SinkInv
<1>1. LifeInit => SinkInv
  BY SinkInit DEF LifeInit
<1>2. SinkInv /\ [LifeNext]_lifeVars => SinkInv'
  BY SinkInLife
<1> QED
  BY <1>1, <1>2, PTL DEF LifeSpec

(* What is published on one subject is in the order it was added, and none *)
(* of it twice, however batches are cut and grouped while others add.      *)
THEOREM PublishedInOrder == LifeSpec => []InOrder
<1>1. SinkInv => InOrder
  <2> SUFFICES ASSUME SinkInv, NEW s \in Subjects
               PROVE  /\ \A i, j \in 1..Len(sent[s]) : i < j => sent[s][i] < sent[s][j]
                      /\ \A i \in 1..Len(sent[s]) : SubjectOf[sent[s][i]] = s
    BY DEF InOrder
  <2>1. Rising(sent[s]) /\ \A e \in Elements(sent[s]) : SubjectOf[e] = s
    BY DEF SinkInv, Ordered
  <2> QED
    BY <2>1 DEF Rising, Elements
<1> QED
  BY <1>1, SinkKeepsBooks, PTL

(* No event vanishes: each that was added is pending, being published,     *)
(* published, counted as dropped or logged as failed.                      *)
THEOREM NothingVanishes == LifeSpec => []Accounted
<1>1. SinkInv => Accounted
  BY DEF SinkInv
<1> QED
  BY <1>1, SinkKeepsBooks, PTL

(* The kick that gives up on a full channel is not lost: a full batch is   *)
(* always about to be flushed.                                             *)
THEOREM KickArrives == LifeSpec => []KickNotLost
<1>1. SinkInv => KickNotLost
  BY DEF SinkInv
<1> QED
  BY <1>1, SinkKeepsBooks, PTL
-----------------------------------------------------------------------------
(***************************************************************************)
(* The order of the shutdown.  Who has left has nothing in its hands and   *)
(* left because the pool was closing; main is past a stage only when       *)
(* everyone it waited for has left; so the sink ends after the last event  *)
(* of the pool's goroutines.                                               *)
(***************************************************************************)
FlowType ==
    /\ main \in {"serving", "signalled", "drained", "closingPool", "poolClosed",
                 "closingSink", "sinkClosed", "exited"}
    /\ arrived \in Nat /\ arrived <= Messages
    /\ inbox \in Seq(1..Messages)
    /\ queue \subseteq 1..Messages
    /\ submitting \in 0..Messages
    /\ hold \in [Adders -> SUBSET (1..Messages)]
    /\ at \in [Adders -> {"idle", "audit", "gone"}]

(* An accepted message is queued or in someone's hands.                    *)
Held == \A m \in accepted : m \in queue \/ \E g \in Adders : m \in hold[g]

LeftInOrder ==
    \A g \in Adders :
       at[g] = "gone" => /\ g \in PoolGoroutines
                         /\ hold[g] = {}
                         /\ closed
                         /\ g \in Workers => queue = {}

Staged ==
    /\ main \in {"poolClosed", "closingSink", "sinkClosed", "exited"} =>
          \A g \in PoolGoroutines : at[g] = "gone"
    /\ closing # "open" => main \in {"closingSink", "sinkClosed", "exited"}
    /\ main \in {"sinkClosed", "exited"} => loop = "done"

OwedInSink ==
    /\ owed \subseteq ToSet(pending) \union ToSet(take)
    /\ loop = "done" => owed = {}

FlowInv == FlowType /\ Held /\ LeftInOrder /\ Staged /\ OwedInSink

(* What goroutine g takes or answers, hand and queue together.             *)
LEMMA HeldAfter ==
  ASSUME FlowType, Held, NEW g \in Adders, NEW given, hold[g] = {},
         hold' = [hold EXCEPT ![g] = given],
         \A m \in accepted' : m \in accepted \/ m \in queue' \/ m \in given,
         \A m \in queue : m \in queue' \/ m \in given
  PROVE  Held'
<1>1. /\ hold'[g] = given
      /\ \A h \in Adders : h # g => hold'[h] = hold[h]
  BY DEF FlowType
<1> SUFFICES ASSUME NEW m \in accepted'
             PROVE  m \in queue' \/ \E h \in Adders : m \in hold'[h]
  BY DEF Held
<1>2. CASE m \in queue' \/ m \in given
  BY <1>1, <1>2
<1>3. CASE m \in accepted
  <2>1. CASE m \in queue
    BY <1>1, <2>1
  <2>2. CASE \E h \in Adders : m \in hold[h]
    BY <1>1, <2>2
  <2> QED
    BY <1>3, <2>1, <2>2 DEF Held
<1> QED
  BY <1>2, <1>3

(* The steps that take messages out of the queue.                          *)
LEMMA TakeKeeps ==
  ASSUME FlowInv, NEW g \in Adders, TakeStep(g)
  PROVE  FlowInv'
<1>1. PICK taken \in SUBSET queue :
         /\ Free(g)
         /\ queue' = queue \ taken
         /\ hold' = [hold EXCEPT ![g] = taken]
         /\ UNCHANGED << vars, main, arrived, inbox, submitting, at, accepted, owed >>
  BY DEF TakeStep, Pop, TakeExpired
<1>2. at[g] = "idle" /\ hold[g] = {}
  BY <1>1 DEF Free
<1>3. FlowType'
  BY <1>1 DEF FlowInv, FlowType
<1>4. Held'
  BY <1>1, <1>2, HeldAfter DEF FlowInv
<1>5. LeftInOrder'
  <2>1. \A h \in Adders : at[h] = "gone" => hold'[h] = hold[h]
    BY <1>1, <1>2 DEF FlowInv, FlowType
  <2> QED
    BY <1>1, <2>1 DEF FlowInv, LeftInOrder, closed, PoolGoroutines
<1>6. Staged' /\ OwedInSink'
  BY <1>1 DEF FlowInv, Staged, OwedInSink, vars, PoolGoroutines
<1> QED
  BY <1>3, <1>4, <1>5, <1>6 DEF FlowInv

(* The steps of the bus goroutine.                                         *)
LEMMA BusKeeps ==
  ASSUME FlowInv, BusStep
  PROVE  FlowInv'
<1>0. Bus \in Adders /\ Messages \in Nat
  BY LifecycleAssumption
<1>1. /\ at[Bus] = "idle" /\ hold[Bus] = {}
      /\ UNCHANGED << vars, main, arrived, at, owed >>
  BY DEF BusStep, Receive, SubmitQueued, SubmitShed, Free
<1>2. Staged' /\ OwedInSink'
  BY <1>1 DEF FlowInv, Staged, OwedInSink, vars, PoolGoroutines
<1>3. CASE Receive
  <2>1. /\ UNCHANGED << queue, accepted >>
        /\ inbox # << >> /\ inbox' = Tail(inbox)
        /\ \/ UNCHANGED << submitting, hold >>
           \/ hold' = [hold EXCEPT ![Bus] = {Head(inbox)}] /\ UNCHANGED submitting
           \/ submitting' = Head(inbox) /\ UNCHANGED hold
    BY <1>3 DEF Receive
  <2>2. Head(inbox) \in 1..Messages /\ Tail(inbox) \in Seq(1..Messages)
    <3>1. inbox \in Seq(1..Messages) /\ inbox # << >>
      BY <2>1 DEF FlowInv, FlowType
    <3> QED
      BY <1>0, <3>1
  <2>3. FlowType'
    BY <1>0, <1>1, <2>1, <2>2 DEF FlowInv, FlowType
  <2>4. Held'
    <3>1. CASE UNCHANGED hold
      BY <2>1, <3>1 DEF FlowInv, Held
    <3>2. CASE hold' = [hold EXCEPT ![Bus] = {Head(inbox)}]
      BY <1>0, <1>1, <2>1, <3>2, HeldAfter DEF FlowInv
    <3> QED
      BY <2>1, <3>1, <3>2
  <2>5. LeftInOrder'
    <3>1. \A h \in Adders : at[h] = "gone" => hold'[h] = hold[h]
      BY <1>0, <1>1, <2>1 DEF FlowInv, FlowType
    <3> QED
      BY <1>1, <2>1, <3>1 DEF FlowInv, LeftInOrder, closed, PoolGoroutines
  <2> QED
    BY <1>2, <2>3, <2>4, <2>5 DEF FlowInv
<1>4. CASE SubmitQueued
  <2>1. /\ submitting # 0 /\ ~closed
        /\ queue' = queue \union {submitting}
        /\ accepted' = accepted \union {submitting}
        /\ submitting' = 0
        /\ UNCHANGED << inbox, hold >>
    BY <1>4 DEF SubmitQueued
  <2>2. FlowType'
    BY <1>0, <1>1, <2>1 DEF FlowInv, FlowType
  <2>3. Held'
    BY <2>1 DEF FlowInv, Held
  <2>4. LeftInOrder'
    BY <1>1, <2>1 DEF FlowInv, LeftInOrder, closed, PoolGoroutines
  <2> QED
    BY <1>2, <2>2, <2>3, <2>4 DEF FlowInv
<1>5. CASE SubmitShed
  <2>1. /\ submitting # 0
        /\ hold' = [hold EXCEPT ![Bus] = {submitting}]
        /\ submitting' = 0
        /\ UNCHANGED << inbox, queue, accepted >>
    BY <1>5 DEF SubmitShed
  <2>2. FlowType'
    BY <1>0, <1>1, <2>1 DEF FlowInv, FlowType
  <2>3. Held'
    BY <1>0, <1>1, <2>1, HeldAfter DEF FlowInv
  <2>4. LeftInOrder'
    <3>1. \A h \in Adders : at[h] = "gone" => hold'[h] = hold[h]
      BY <1>0, <1>1, <2>1 DEF FlowInv, FlowType
    <3> QED
      BY <1>1, <2>1, <3>1 DEF FlowInv, LeftInOrder, closed, PoolGoroutines
  <2> QED
    BY <1>2, <2>2, <2>3, <2>4 DEF FlowInv
<1> QED
  BY <1>3, <1>4, <1>5 DEF BusStep

(* The steps of one goroutine that answers messages.                       *)
LEMMA GoroutineKeeps ==
  ASSUME SinkInv, FlowInv, NEW g \in Adders, GoroutineStep(g)
  PROVE  FlowInv'
<1>1. ASSUME NEW m \in hold[g], Respond(g, m)
      PROVE  FlowInv'
  <2>1. /\ at[g] = "idle"
        /\ hold' = [hold EXCEPT ![g] = @ \ {m}]
        /\ accepted' = accepted \ {m}
        /\ at' = [at EXCEPT ![g] = "audit"] \/ UNCHANGED at
        /\ UNCHANGED << vars, main, arrived, inbox, queue, submitting, owed >>
    BY <1>1 DEF Respond
  <2>2. /\ hold'[g] = hold[g] \ {m} /\ at'[g] # "gone"
        /\ \A h \in Adders : h # g => hold'[h] = hold[h] /\ at'[h] = at[h]
    BY <2>1 DEF FlowInv, FlowType
  <2>3. FlowType'
    <3>1. hold' \in [Adders -> SUBSET (1..Messages)]
      BY <2>1, <2>2 DEF FlowInv, FlowType
    <3>2. at' \in [Adders -> {"idle", "audit", "gone"}]
      BY <2>1 DEF FlowInv, FlowType
    <3> QED
      BY <2>1, <3>1, <3>2 DEF FlowInv, FlowType
  <2>4. Held'
    <3> SUFFICES ASSUME NEW k \in accepted \ {m}
                 PROVE  k \in queue \/ \E h \in Adders : k \in hold'[h]
      BY <2>1 DEF Held
    <3>1. CASE \E h \in Adders : k \in hold[h]
      BY <2>2, <3>1
    <3> QED
      BY <3>1 DEF FlowInv, Held
  <2>5. LeftInOrder'
    BY <2>1, <2>2 DEF FlowInv, LeftInOrder, closed, PoolGoroutines
  <2>6. Staged'
    <3>1. \A h \in PoolGoroutines : at[h] = "gone" => at'[h] = "gone"
      BY <2>1, <2>2, LifecycleAssumption DEF PoolGoroutines
    <3> QED
      BY <2>1, <3>1 DEF FlowInv, Staged, vars, PoolGoroutines
  <2>7. OwedInSink'
    BY <2>1 DEF FlowInv, OwedInSink, vars
  <2> QED
    BY <2>3, <2>4, <2>5, <2>6, <2>7 DEF FlowInv
<1>2. ASSUME Audit(g)
      PROVE  FlowInv'
  <2>1. /\ at[g] = "audit"
        /\ at' = [at EXCEPT ![g] = "idle"]
        /\ owed' = InSink(IF g = Bus THEN owed ELSE owed \union {added'})
        /\ UNCHANGED << main, arrived, inbox, queue, submitting, hold, accepted >>
        /\ UNCHANGED << loop, stopping, take, closing >>
    BY <1>2 DEF Audit, Add
  <2>2. /\ at'[g] = "idle"
        /\ \A h \in Adders : h # g => at'[h] = at[h]
    BY <2>1 DEF FlowInv, FlowType
  <2>3. FlowType'
    BY <2>1 DEF FlowInv, FlowType
  <2>4. Held'
    BY <2>1 DEF FlowInv, Held
  <2>5. LeftInOrder'
    BY <2>1, <2>2 DEF FlowInv, LeftInOrder, closed, PoolGoroutines
  <2>6. Staged'
    <3>1. \A h \in PoolGoroutines : at[h] = "gone" => at'[h] = "gone"
      BY <2>1, <2>2, LifecycleAssumption DEF PoolGoroutines
    <3> QED
      BY <2>1, <3>1 DEF FlowInv, Staged, PoolGoroutines
  <2>7. OwedInSink'
    <3>1. owed' \subseteq ToSet(pending') \union ToSet(take')
      BY <2>1 DEF InSink
    <3>2. ASSUME loop = "done"
          PROVE  g = Bus /\ owed = {}
      <4>1. \A h \in PoolGoroutines : at[h] = "gone"
        BY <3>2 DEF SinkInv, SinkShape, FlowInv, Staged
      <4>2. g \notin PoolGoroutines
        BY <2>1, <4>1
      <4> QED
        BY <3>2, <4>2, LifecycleAssumption DEF PoolGoroutines, FlowInv, OwedInSink
    <3> QED
      BY <2>1, <3>1, <3>2 DEF OwedInSink, InSink
  <2> QED
    BY <2>3, <2>4, <2>5, <2>6, <2>7 DEF FlowInv
<1>3. ASSUME SinkStep(Kick(g))
      PROVE  FlowInv'
  <2>1. /\ owed' = InSink(owed)
        /\ UNCHANGED << main, arrived, inbox, queue, submitting, hold, at, accepted >>
        /\ UNCHANGED << loop, closing >>
    BY <1>3 DEF SinkStep, Kick
  <2>2. FlowType' /\ Held' /\ LeftInOrder' /\ Staged'
    BY <2>1 DEF FlowInv, FlowType, Held, LeftInOrder, Staged, closed, PoolGoroutines
  <2>3. OwedInSink'
    BY <2>1 DEF FlowInv, OwedInSink, InSink
  <2> QED
    BY <2>2, <2>3 DEF FlowInv
<1>4. ASSUME Leave(g)
      PROVE  FlowInv'
  <2>1. /\ g \in PoolGoroutines /\ hold[g] = {} /\ closed
        /\ g \in Workers => queue = {}
        /\ at' = [at EXCEPT ![g] = "gone"]
        /\ UNCHANGED << vars, main, arrived, inbox, queue, submitting, hold, accepted, owed >>
    BY <1>4 DEF Leave, Free
  <2>2. /\ at'[g] = "gone"
        /\ \A h \in Adders : h # g => at'[h] = at[h]
    BY <2>1 DEF FlowInv, FlowType
  <2>3. FlowType'
    BY <2>1 DEF FlowInv, FlowType
  <2>4. Held' /\ OwedInSink'
    BY <2>1 DEF FlowInv, Held, OwedInSink, vars
  <2>5. LeftInOrder'
    BY <2>1, <2>2 DEF FlowInv, LeftInOrder, closed, PoolGoroutines
  <2>6. Staged'
    <3>1. \A h \in PoolGoroutines : at[h] = "gone" => at'[h] = "gone"
      BY <2>1, <2>2, LifecycleAssumption DEF PoolGoroutines
    <3> QED
      BY <2>1, <3>1 DEF FlowInv, Staged, vars, PoolGoroutines
  <2> QED
    BY <2>3, <2>4, <2>5, <2>6 DEF FlowInv
<1> QED
  BY <1>1, <1>2, <1>3, <1>4 DEF GoroutineStep

(* The steps of the sink's goroutine.                                      *)
LEMMA LoopKeeps ==
  ASSUME SinkInv, FlowInv, SinkStep(LoopStep)
  PROVE  FlowInv'
<1>1. /\ LoopStep
      /\ owed' = InSink(owed)
      /\ UNCHANGED << main, arrived, inbox, queue, submitting, hold, at, accepted >>
  BY DEF SinkStep
<1>2. UNCHANGED closing /\ loop # "done"
  BY <1>1 DEF LoopStep, LoopWake, LoopTick, LoopStop, FlushEmpty, FlushTake, Send
<1>3. loop' = "done" => FlushEmpty
  BY <1>1 DEF LoopStep, LoopWake, LoopTick, LoopStop, FlushTake, Send, AfterSend
<1>4. FlowType' /\ Held' /\ LeftInOrder'
  BY <1>1 DEF FlowInv, FlowType, Held, LeftInOrder, closed, PoolGoroutines
<1>5. Staged'
  BY <1>1, <1>2 DEF FlowInv, Staged, PoolGoroutines
<1>6. OwedInSink'
  <2>1. owed' \subseteq ToSet(pending') \union ToSet(take')
    BY <1>1 DEF InSink
  <2>2. ASSUME FlushEmpty
        PROVE  owed' = {}
    <3>1. pending' = << >> /\ take' = << >>
      BY <2>2 DEF FlushEmpty, SinkInv, SinkShape
    <3>2. ToSet(<< >>) = {}
      <4>1. Elements(<< >>) = {} /\ << >> \in Seq(1..Events)
        BY DEF Elements
      <4> QED
        BY <4>1, ToSetIs
    <3> QED
      BY <2>1, <3>1, <3>2
  <2> QED
    BY <1>3, <2>1, <2>2 DEF OwedInSink
<1> QED
  BY <1>4, <1>5, <1>6 DEF FlowInv

(* The steps of main.                                                      *)
LEMMA MainKeeps ==
  ASSUME FlowInv, MainStep \/ Signal
  PROVE  FlowInv'
<1>1. /\ UNCHANGED << arrived, inbox, queue, submitting, hold, at, accepted, owed >>
      /\ UNCHANGED << pending, take, loop >>
  BY DEF MainStep, Drain, PoolClose, PoolClosed, SinkClose, SinkClosed, Exit, Signal, OnlyMain,
         CloseStop, CloseReturn, vars
<1>2. FlowType'
  BY <1>1 DEF FlowInv, FlowType, MainStep, Drain, PoolClose, PoolClosed, SinkClose, SinkClosed,
              Exit, Signal, MainGoes
<1>3. Held' /\ OwedInSink'
  BY <1>1 DEF FlowInv, Held, OwedInSink
<1>4. LeftInOrder'
  <2>1. closed => closed'
    BY DEF closed, MainStep, Drain, PoolClose, PoolClosed, SinkClose, SinkClosed, Exit, Signal,
           MainGoes
  <2> QED
    BY <1>1, <2>1 DEF FlowInv, LeftInOrder, PoolGoroutines
<1>5. Staged'
  <2>1. CASE Signal \/ Drain \/ PoolClose
    BY <1>1, <2>1 DEF FlowInv, Staged, Signal, Drain, PoolClose, MainGoes, vars, PoolGoroutines
  <2>2. CASE PoolClosed
    BY <1>1, <2>2 DEF FlowInv, Staged, PoolClosed, MainGoes, vars, PoolGoroutines
  <2>3. CASE SinkClose \/ SinkClosed
    BY <1>1, <2>3 DEF FlowInv, Staged, SinkClose, SinkClosed, MainGoes, CloseStop, CloseReturn,
                      PoolGoroutines
  <2>4. CASE Exit
    BY <1>1, <2>4 DEF FlowInv, Staged, Exit, MainGoes, vars, PoolGoroutines
  <2> QED
    BY <2>1, <2>2, <2>3, <2>4 DEF MainStep
<1> QED
  BY <1>2, <1>3, <1>4, <1>5 DEF FlowInv

(* The shutdown keeps its order for as long as the process lives.          *)
LEMMA FlowKeeps == LifeSpec => []FlowInv
<1>1. LifeInit => FlowInv
  <2> SUFFICES ASSUME LifeInit PROVE FlowInv
    OBVIOUS
  <2>1. FlowType
    BY LifecycleAssumption DEF LifeInit, FlowType
  <2>2. Held /\ LeftInOrder /\ Staged /\ OwedInSink
    BY DEF LifeInit, Init, Held, LeftInOrder, Staged, OwedInSink
  <2> QED
    BY <2>1, <2>2 DEF FlowInv
<1>2. SinkInv /\ FlowInv /\ [LifeNext]_lifeVars => FlowInv'
  <2> SUFFICES ASSUME SinkInv, FlowInv, [LifeNext]_lifeVars PROVE FlowInv'
    OBVIOUS
  <2>1. CASE Arrive
    <3>1. /\ arrived < Messages /\ arrived' = arrived + 1
          /\ inbox' = IF Len(inbox) < PendingLimit THEN Append(inbox, arrived + 1) ELSE inbox
          /\ UNCHANGED << vars, main, queue, submitting, hold, at, accepted, owed >>
      BY <2>1 DEF Arrive
    <3>2. inbox' \in Seq(1..Messages) /\ arrived' \in Nat /\ arrived' <= Messages
      <4>1. /\ inbox \in Seq(1..Messages) /\ arrived \in Nat /\ Messages \in Nat
        BY LifecycleAssumption DEF FlowInv, FlowType
      <4>2. arrived' \in Nat /\ arrived' <= Messages /\ arrived + 1 \in 1..Messages
        BY <3>1, <4>1
      <4>3. Append(inbox, arrived + 1) \in Seq(1..Messages)
        BY <4>1, <4>2
      <4> QED
        BY <3>1, <4>1, <4>2, <4>3
    <3>3. FlowType'
      BY <3>1, <3>2 DEF FlowInv, FlowType
    <3>4. Held' /\ LeftInOrder' /\ Staged' /\ OwedInSink'
      BY <3>1 DEF FlowInv, Held, LeftInOrder, Staged, OwedInSink, closed, PoolGoroutines, vars
    <3> QED
      BY <3>3, <3>4 DEF FlowInv
  <2>2. CASE UNCHANGED lifeVars
    BY <2>2 DEF lifeVars, flow, vars, FlowInv, FlowType, Held, LeftInOrder, Staged, OwedInSink,
                closed, PoolGoroutines
  <2> QED
    BY <2>1, <2>2, BusKeeps, TakeKeeps, GoroutineKeeps, LoopKeeps, MainKeeps
       DEF LifeNext, Running
<1> QED
  BY <1>1, <1>2, SinkKeepsBooks, PTL DEF LifeSpec

(* A message the pool accepted is answered before the process exits, but   *)
(* for an expired one that the bus goroutine itself has in its hands.      *)
THEOREM AcceptedIsAnswered == LifeSpec => []AcceptedAnswered
<1>1. FlowInv => AcceptedAnswered
  <2> SUFFICES ASSUME FlowInv, main = "exited", NEW m \in accepted
               PROVE  m \in hold[Bus]
    BY DEF AcceptedAnswered
  <2>1. \A g \in PoolGoroutines : g \in Adders /\ at[g] = "gone"
    BY LifecycleAssumption DEF FlowInv, Staged, PoolGoroutines
  <2>2. \A g \in PoolGoroutines : hold[g] = {}
    BY <2>1 DEF FlowInv, LeftInOrder
  <2>3. queue = {}
    BY <2>1, LifecycleAssumption DEF FlowInv, LeftInOrder, PoolGoroutines
  <2>4. PICK g \in Adders : m \in hold[g]
    BY <2>3 DEF FlowInv, Held
  <2> QED
    BY <2>2, <2>4, LifecycleAssumption DEF PoolGoroutines
<1> QED
  BY <1>1, FlowKeeps, PTL

(* The events of the pool's goroutines have left the sink when the process *)
(* exits.                                                                  *)
THEOREM AuditsAreKept == LifeSpec => []AuditsKept
<1>1. FlowInv => AuditsKept
  BY DEF FlowInv, Staged, OwedInSink, AuditsKept
<1> QED
  BY <1>1, FlowKeeps, PTL

=============================================================================
