--------------------------- MODULE ExchangeProofs ---------------------------
(***************************************************************************)
(* Theorems about Exchange, for any counters files and profiles that are   *)
(* offered, any clients, any messages and any contents of the buffer       *)
(* store.                                                                  *)
(***************************************************************************)
EXTENDS Exchange, FiniteSetTheorems, TLAPS

L == INSTANCE Lemmas

(***************************************************************************)
(* What validation leaves to be read and charged: buckets that have a      *)
(* tier, each counter by one of measures and notes.                        *)
(***************************************************************************)
LEMMA AxesHaveTiers ==
  ASSUME NEW c, NEW counter, NEW axis \in AxesOf(c, counter)
  PROVE  << counter, axis >> \in Kinds(c)
BY DEF AxesOf, Kinds, Declares

(* What the rules and the outcomes of a phase ask for. *)
LEMMA AskedHasTier ==
  ASSUME NEW c, NEW rules, NEW outcomes, JudgesDeclared(rules, c), OutcomesDeclared(outcomes, c)
  PROVE  JudgeRefs(rules) \union LevelRefs(outcomes) \subseteq Kinds(c)
<1>1. ASSUME NEW r \in ToSet(rules) PROVE << r.counter, r.axis >> \in Kinds(c)
  BY AxesHaveTiers DEF JudgesDeclared, HasAxis
<1>2. ASSUME NEW o \in ToSet(outcomes), OnBucket(o)
      PROVE  << BucketOf(o).counter, BucketOf(o).axis >> \in Kinds(c)
  BY <1>2, AxesHaveTiers DEF OutcomesDeclared, HasAxis
<1> QED
  BY <1>1, <1>2 DEF JudgeRefs, LevelRefs

(* A level is read only where it was asked for and the subject is known. *)
LEMMA ReadsAreAsked ==
  ASSUME NEW refs, NEW keys, NEW c, NEW x \in Reads(refs, keys, c)
  PROVE  x[1] \in refs /\ key(keys, c, x[1]) # {}
BY DEF Reads

(* The charges of values and notes, one by one. *)
IsValueCharge(ch, values, keys, c) ==
    \E v \in values : \E axis \in v.axes : \E k \in key(keys, c, << v.counter, axis >>) :
       ch = [by |-> "measure", rule |-> v.rule, kind |-> << v.counter, axis >>, key |-> k,
             add |-> v.add]

IsNoteCharge(ch, notes, keys, c) ==
    \E n \in notes : \E k \in key(keys, c, n.kind) :
       ch = [by |-> "note", rule |-> n.rule, kind |-> n.kind, key |-> k,
             add |-> NoteAmount(c, n.kind)]

(* The charges of values are these, and no others. *)
LEMMA ChargesOfValues ==
  ASSUME NEW values, NEW keys, NEW c, NEW ch
  PROVE  ch \in ValueCharges(values, keys, c) <=> IsValueCharge(ch, values, keys, c)
<1> DEFINE rec(v, axis, k) == [by |-> "measure", rule |-> v.rule, kind |-> << v.counter, axis >>,
                               key |-> k, add |-> v.add]
           one(v, axis) == {rec(v, axis, k) : k \in key(keys, c, << v.counter, axis >>)}
           all(v) == UNION {one(v, axis) : axis \in v.axes}
<1>1. ValueCharges(values, keys, c) = UNION {all(v) : v \in values}
  BY DEF ValueCharges
<1>2. ASSUME NEW v, NEW axis
      PROVE  ch \in one(v, axis) <=> \E k \in key(keys, c, << v.counter, axis >>) : ch = rec(v, axis, k)
  OBVIOUS
<1> HIDE DEF one
<1>3. ASSUME NEW v PROVE ch \in all(v) <=> \E axis \in v.axes : ch \in one(v, axis)
  OBVIOUS
<1> HIDE DEF all
<1>4. ch \in UNION {all(v) : v \in values} <=> \E v \in values : ch \in all(v)
  OBVIOUS
<1>5. ch \in ValueCharges(values, keys, c) <=>
         \E v \in values : \E axis \in v.axes : \E k \in key(keys, c, << v.counter, axis >>) :
            ch = rec(v, axis, k)
  BY <1>1, <1>2, <1>3, <1>4, Zenon
<1> QED
  BY <1>5, Zenon DEF IsValueCharge

(* The charges of notes are these, and no others. *)
LEMMA ChargesOfNotes ==
  ASSUME NEW notes, NEW keys, NEW c, NEW ch
  PROVE  ch \in noteCharges(notes, keys, c) <=> IsNoteCharge(ch, notes, keys, c)
BY DEF noteCharges, IsNoteCharge

(* What measures charge: counters that measures fill, on axes they have. *)
LEMMA MeasuredIsLawful ==
  ASSUME NEW c, NEW rules, MeasuresDeclared(rules, c), NEW in, NEW keys,
         NEW values, values = Run(rules, c, in), NEW ch, ch \in ValueCharges(values, keys, c)
  PROVE  /\ ch.kind \in Kinds(c) /\ ch.by = "measure" /\ Fill(c, ch.kind[1]) = "measure"
         /\ key(keys, c, ch.kind) # {}
<1>1. PICK v, axis :
         /\ v \in values /\ axis \in v.axes /\ ch.kind = << v.counter, axis >> /\ ch.by = "measure"
         /\ key(keys, c, << v.counter, axis >>) # {}
  <2>1. IsValueCharge(ch, values, keys, c)
    BY ChargesOfValues, Zenon
  <2> QED
    <3>1. PICK v, axis :
             v \in values /\ axis \in v.axes /\ \E k \in key(keys, c, << v.counter, axis >>) :
                ch = [by |-> "measure", rule |-> v.rule, kind |-> << v.counter, axis >>,
                      key |-> k, add |-> v.add]
      BY <2>1, Zenon DEF IsValueCharge
    <3>2. PICK k \in key(keys, c, << v.counter, axis >>) :
             ch = [by |-> "measure", rule |-> v.rule, kind |-> << v.counter, axis >>,
                   key |-> k, add |-> v.add]
      BY <3>1, Zenon
    <3> QED
      BY <3>1, <3>2
<1>2. PICK i \in DOMAIN rules : v.counter = rules[i].counter /\ v.axes = AxesOfRule(rules[i], c)
  BY <1>1 DEF Run
<1>3. /\ Fill(c, rules[i].counter) = "measure"
      /\ rules[i].axes \subseteq AxesOf(c, rules[i].counter)
  BY DEF MeasuresDeclared, ToSet
<1>4. axis \in AxesOf(c, v.counter)
  BY <1>1, <1>2, <1>3 DEF AxesOfRule
<1> QED
  BY <1>1, <1>2, <1>3, <1>4, AxesHaveTiers

(* What notes charge: counters that notes fill, on axes they have. *)
LEMMA NotedIsLawful ==
  ASSUME NEW g, NotesDeclared(g.profile.prior, g.counters), NEW scopes, NEW keys,
         NEW ch \in noteCharges(Notes(g, scopes), keys, g.counters)
  PROVE  /\ ch.kind \in Kinds(g.counters) /\ ch.by = "note"
         /\ Fill(g.counters, ch.kind[1]) = "note"
         /\ key(keys, g.counters, ch.kind) # {}
<1>1. PICK n \in Notes(g, scopes) :
         ch.kind = n.kind /\ ch.by = "note" /\ key(keys, g.counters, n.kind) # {}
  <2>1. ch \in noteCharges(Notes(g, scopes), keys, g.counters)
    OBVIOUS
  <2>2. IsNoteCharge(ch, Notes(g, scopes), keys, g.counters)
    BY <2>1, ChargesOfNotes, Zenon
  <2> QED
    BY <2>2 DEF IsNoteCharge
<1>2. PICK i, scope, axis :
         /\ i \in DOMAIN g.profile.prior
         /\ axis \in NoteAxes(g.counters, g.profile.prior[i].counter, scope)
         /\ "note" \in g.profile.prior[i].accept
         /\ n.kind = << g.profile.prior[i].counter, axis >>
  <2>1. \E i \in DOMAIN g.profile.prior : \E scope \in scopes :
           \E axis \in NoteAxes(g.counters, g.profile.prior[i].counter, scope) :
              "note" \in g.profile.prior[i].accept /\ n.kind = << g.profile.prior[i].counter, axis >>
    BY <1>1 DEF Notes
  <2> QED
    BY <2>1
<1>3. Fill(g.counters, g.profile.prior[i].counter) = "note"
  BY <1>2 DEF NotesDeclared, ToSet
<1>4. axis \in AxesOf(g.counters, g.profile.prior[i].counter)
  BY <1>2 DEF NoteAxes
<1> QED
  BY <1>1, <1>2, <1>3, <1>4, AxesHaveTiers

(* Without a connection there is no subject on its axis. *)
LEMMA NoConnection ==
  ASSUME NEW refs, NEW c, NEW w, NEW headers, NEW sessions, NEW ref, ref[2] = "conn"
  PROVE  key(subjectsOf(refs, c, w, headers, sessions, ""), c, ref) = {}
<1> DEFINE keys == subjectsOf(refs, c, w, headers, sessions, "")
<1>1. "conn" \notin DOMAIN keys.byAxis
  BY DEF subjectsOf
<1> HIDE DEF keys
<1>2. key(keys, c, ref) = {keys.byAxis[a] : a \in DOMAIN keys.byAxis \intersect {ref[2]}}
  BY DEF key
<1>3. DOMAIN keys.byAxis \intersect {ref[2]} = {}
  BY <1>1
<1>4. key(keys, c, ref) = {}
  BY <1>2, <1>3
<1> QED
  BY <1>4 DEF keys
-----------------------------------------------------------------------------
(***************************************************************************)
(* The loader: what is read together is as if it were loaded by itself.    *)
(***************************************************************************)
(* What is read together is in a store. *)
LEMMA BatchIsStored ==
  ASSUME NEW locs, Len(locs) \in Nat
  PROVE  Batch(locs) \in Seq({i \in 1..Len(locs) : Stored(locs[i])})
<1> DEFINE n == Len(locs)
           Q == Seq({i \in 1..n : Stored(locs[i])})
           next(at, i) == IF Joins(locs, at, i) THEN Append(at, i) ELSE at
           Batched(f) == f = [i \in 0..n |-> IF i = 0 THEN << >>
                              ELSE IF Joins(locs, f[i - 1], i) THEN Append(f[i - 1], i)
                                   ELSE f[i - 1]]
           F == CHOOSE f : Batched(f)
<1>1. << >> \in Q
  OBVIOUS
<1>2. ASSUME NEW i \in 1..n, NEW at \in Q PROVE next(at, i) \in Q
  BY DEF Joins
<1> HIDE DEF Q
<1>3. \E f : Batched(f)
  <2> DEFINE step == [i \in 1..n |-> [at \in Q |-> next(at, i)]]
  <2> HIDE DEF next, n
  <2>1. step \in [1..n -> [Q -> Q]]
    BY <1>2
  <2>2. \A at \in Q, i \in 1..n : step[i][at] = next(at, i)
    OBVIOUS
  <2> HIDE DEF step
  <2>3. n \in Nat
    BY DEF n
  <2>4. \E f : L!Loop(f, n, Q, << >>, step)
    BY <1>1, <2>1, <2>3, L!PrefixRecursion, Zenon
  <2>5. PICK f \in [0..n -> Q] : f[0] = << >> /\ \A i \in 1..n : f[i] = step[i][f[i - 1]]
    BY <2>4 DEF L!Loop
  <2>6. ASSUME NEW i \in 0..n
        PROVE  f[i] = IF i = 0 THEN << >>
                      ELSE IF Joins(locs, f[i - 1], i) THEN Append(f[i - 1], i) ELSE f[i - 1]
    <3>1. CASE i = 0
      BY <2>5, <3>1
    <3>2. CASE i # 0
      <4>1. i \in 1..n /\ f[i - 1] \in Q
        BY <2>3, <2>5, <3>2
      <4>2. f[i] = next(f[i - 1], i)
        BY <2>2, <2>5, <4>1
      <4> QED
        BY <3>2, <4>2 DEF next
    <3> QED
      BY <3>1, <3>2
  <2> QED
    BY <2>5, <2>6
<1>4. Batched(F)
  BY <1>3
<1>5. Batch(locs) = F[n]
  BY DEF Batch
<1> HIDE DEF F
<1>6. F[0] = << >> /\ \A i \in 1..n : F[i] = next(F[i - 1], i)
  <2>1. \A i \in 0..n : F[i] = IF i = 0 THEN << >>
                               ELSE IF Joins(locs, F[i - 1], i) THEN Append(F[i - 1], i)
                                    ELSE F[i - 1]
    BY <1>4
  <2>2. 0 \in 0..n /\ \A i \in 1..n : i \in 0..n /\ i # 0
    OBVIOUS
  <2> QED
    BY <2>1, <2>2
<1> DEFINE S == {i \in 0..n : F[i] \in Q}
<1>7. 0 \in S
  BY <1>1, <1>6
<1>8. \A i \in 1..n : i - 1 \in S => i \in S
  BY <1>2, <1>6
<1> HIDE DEF S
<1>9. \A i \in 0..n : i \in S
  BY <1>7, <1>8, L!UpTo
<1> QED
  BY <1>5, <1>9 DEF S, Q

(* What is read together is as if it were loaded by itself. *)
LEMMA LoadsAlike ==
  ASSUME NEW st, NEW locs, Len(locs) \in Nat, DOMAIN locs = 1..Len(locs), NEW i \in DOMAIN locs,
         \A l, k \in locs[i] : l = k
  PROVE  LoadMany(st, locs)[i] = Load(st, locs[i])
<1> DEFINE at == Batch(locs)
           raws == GetMany(st, [n \in DOMAIN at |-> The(locs[at[n]]).key])
           place == CHOOSE n \in DOMAIN at : at[n] = i
<1>1. at \in Seq({j \in 1..Len(locs) : Stored(locs[j])})
  BY BatchIsStored
<1>2. LoadMany(st, locs)[i] = IF st.configured /\ Len(at) >= 2 /\ Contains(at, i)
                              THEN BatchLoad(st, locs[i], raws[place]) ELSE Load(st, locs[i])
  BY DEF LoadMany
<1> HIDE DEF at
<1>3. ASSUME st.configured, Contains(at, i)
      PROVE  BatchLoad(st, locs[i], raws[place]) = Load(st, locs[i])
  <2>1. PICK n \in DOMAIN at : at[n] = i
    BY <1>1, <1>3 DEF Contains
  <2>2. place \in DOMAIN at /\ at[place] = i
    BY <2>1
  <2>3. Stored(locs[i])
    BY <1>1, <2>2
  <2>4. PICK l : /\ locs[i] = {l} /\ The(locs[i]) = l
                /\ l.unavailable = "" /\ l.driver # ""
    <3>1. PICK l \in locs[i] : l.unavailable = "" /\ l.driver # ""
      BY <2>3 DEF Stored
    <3>2. locs[i] = {l}
      BY <3>1
    <3> QED
      BY <3>1, <3>2 DEF The
  <2>5. raws[place] = IF l.key \in DOMAIN st.blobs THEN {st.blobs[l.key]} ELSE {}
    BY <2>2, <2>4 DEF GetMany
  <2>6. \A b : The({b}) = b
    BY DEF The
  <2> HIDE DEF raws, place
  <2>7. BatchLoad(st, locs[i], raws[place]) = LoadFrom(st, l)
    BY <1>3, <2>4, <2>5, <2>6 DEF BatchLoad, LoadFrom, Has
  <2>8. Load(st, locs[i]) = LoadFrom(st, l)
    BY <2>3, <2>4 DEF Load
  <2> QED
    BY <2>7, <2>8
<1> QED
  BY <1>2, <1>3

(* The length of a sequence that is given element by element. *)
LEMMA LengthIs ==
  ASSUME NEW s, NEW n \in Nat, s = [i \in 1..n |-> s[i]]
  PROVE  Len(s) = n
<1>1. s \in [1..n -> {s[i] : i \in 1..n}]
  OBVIOUS
<1>2. s \in Seq({s[i] : i \in 1..n})
  BY <1>1
<1> QED
  BY <1>2

(* A sequence of one. *)
LEMMA SingleIs ==
  ASSUME NEW s, NEW a, s = << a >>
  PROVE  Len(s) = 1 /\ DOMAIN s = 1..1 /\ s[1] = a
OBVIOUS

(* The locators of a response, and those of a frame. *)
LEMMA ResponseLoads ==
  ASSUME NEW st, NEW a, NEW b, NEW d, NEW wanted \in BOOLEAN,
         \A loc \in {a, b, d} : \A l, k \in loc : l = k,
         NEW got, got = LoadMany(st, << a, b >> \o (IF wanted THEN << d >> ELSE << >>))
  PROVE  /\ got[1] = Load(st, a) /\ got[2] = Load(st, b)
         /\ wanted => got[3] = Load(st, d)
<1> DEFINE locs == << a, b >> \o (IF wanted THEN << d >> ELSE << >>)
<1>2. /\ Len(locs) \in Nat /\ DOMAIN locs = 1..Len(locs)
      /\ locs[1] = a /\ locs[2] = b /\ 1 \in DOMAIN locs /\ 2 \in DOMAIN locs
      /\ wanted => locs[3] = d /\ 3 \in DOMAIN locs
  <2>1. CASE wanted
    <3>1. locs = << a, b >> \o << d >>
      BY <2>1
    <3>2. Len(locs) = 3 /\ DOMAIN locs = 1..3 /\ locs[1] = a /\ locs[2] = b /\ locs[3] = d
      BY <3>1
    <3> QED
      BY <3>2
  <2>2. CASE ~wanted
    <3>1. locs = << a, b >>
      BY <2>2
    <3> QED
      BY <2>2, <3>1
  <2> QED
    BY <2>1, <2>2
<1> HIDE DEF locs
<1>3. \A i \in DOMAIN locs : (\A l, k \in locs[i] : l = k) => LoadMany(st, locs)[i] = Load(st, locs[i])
  BY <1>2, LoadsAlike
<1> QED
  BY <1>2, <1>3 DEF locs

(* A frame may want either, both or none of its two locators. *)
LEMMA FrameLoads ==
  ASSUME NEW st, NEW a, NEW b, NEW first \in BOOLEAN, NEW second \in BOOLEAN,
         \A loc \in {a, b} : \A l, k \in loc : l = k,
         NEW got, got = LoadMany(st, (IF first THEN << a >> ELSE << >>)
                                        \o (IF second THEN << b >> ELSE << >>))
  PROVE  /\ first => got[1] = Load(st, a)
         /\ second => got[Len(got)] = Load(st, b)
<1> DEFINE locs == (IF first THEN << a >> ELSE << >>) \o (IF second THEN << b >> ELSE << >>)
           n == (IF first THEN 1 ELSE 0) + (IF second THEN 1 ELSE 0)
<1>2. /\ n \in Nat /\ Len(locs) = n /\ DOMAIN locs = 1..n
      /\ first => locs[1] = a /\ 1 \in 1..n
      /\ second => locs[n] = b /\ n \in 1..n
  <2>1. CASE first /\ second
    <3>1. locs = << a >> \o << b >> /\ n = 2
      BY <2>1
    <3>2. Len(locs) = 2 /\ DOMAIN locs = 1..2 /\ locs[1] = a /\ locs[2] = b
      BY <3>1
    <3> QED
      BY <3>1, <3>2
  <2>2. CASE first /\ ~second
    <3>1. locs = << a >> /\ n = 1
      BY <2>2
    <3>2. Len(locs) = 1 /\ DOMAIN locs = 1..1 /\ locs[1] = a
      BY <3>1, SingleIs
    <3> QED
      BY <2>2, <3>1, <3>2
  <2>3. CASE ~first /\ second
    <3>1. locs = << b >> /\ n = 1
      BY <2>3
    <3>2. Len(locs) = 1 /\ DOMAIN locs = 1..1 /\ locs[1] = b
      BY <3>1, SingleIs
    <3> QED
      BY <2>3, <3>1, <3>2
  <2>4. CASE ~first /\ ~second
    <3>1. locs = << >> /\ n = 0
      BY <2>4
    <3>2. Len(locs) = 0 /\ DOMAIN locs = 1..0
      BY <3>1
    <3> QED
      BY <2>4, <3>1, <3>2
  <2> QED
    BY <2>1, <2>2, <2>3, <2>4
<1> HIDE DEF locs, n
<1>3. \A i \in DOMAIN locs : (\A l, k \in locs[i] : l = k) => LoadMany(st, locs)[i] = Load(st, locs[i])
  BY <1>2, LoadsAlike
<1>4. Len(got) = n
  <2>1. got = [i \in 1..n |-> got[i]]
    <3>1. LoadMany(st, locs) = [i \in DOMAIN locs |-> LoadMany(st, locs)[i]]
      BY DEF LoadMany
    <3>2. got = LoadMany(st, locs)
      BY DEF locs
    <3> QED
      BY <1>2, <3>1, <3>2
  <2>2. n \in Nat
    BY <1>2
  <2> QED
    BY <2>1, <2>2, LengthIs
<1>5. got = LoadMany(st, locs) /\ \A loc \in {a, b} : \A l, k \in loc : l = k
  BY DEF locs
<1> QED
  BY <1>2, <1>3, <1>4, <1>5
-----------------------------------------------------------------------------
(***************************************************************************)
(* Subjects and charges: what is looked up and measured together is as if  *)
(* every rule and every note were alone.                                   *)
(***************************************************************************)
(* A rule measures the same in two inputs that do not differ in what it    *)
(* looks at.                                                               *)
LEMMA RunsAlike ==
  ASSUME NEW c, NEW rules, NEW in1, NEW in2, in1.size = in2.size,
         needsBody(rules) => in1.hits = in2.hits,
         \A i \in DOMAIN rules :
            /\ rules[i].source \in {"const", "size_kb", "bytes", "regex_count"}
            /\ Applies(rules[i], in1) <=> Applies(rules[i], in2)
  PROVE  Run(rules, c, in1) = Run(rules, c, in2)
<1>1. ASSUME NEW i \in DOMAIN rules PROVE extract(rules[i], in1) = extract(rules[i], in2)
  BY DEF extract, needsBody, ToSet
<1> QED
  BY <1>1 DEF Run

(* The subject on an axis, found in these headers and sessions. *)
SourceOf(c, ref) == IF ref[2] = "sess" THEN Cookie(SessCookie(c, ref[1])) ELSE UserFrom(c, ref[1])

WhoseAddress(client, conn, axis) ==
    CASE axis = "conn" -> {ConnKey(id) : id \in {conn} \ {""}}
      [] OTHER ->
           IF client.ip = "" THEN {}
           ELSE CASE axis = "ip"         -> {IPKey(client.ip)}
                  [] axis = "asn_net"    -> {NetKey(n) : n \in {client.network} \ {""}}
                  [] axis = "asn_router" -> {RouterKey(n) : n \in {client.router} \ {""}}

Whose(c, client, headers, sessions, conn, ref) ==
    IF ref[2] \in {"sess", "user"}
    THEN {subjectHash(v) : v \in {SourceValue(SourceOf(c, ref), headers, sessions)} \ {""}}
    ELSE WhoseAddress(client, conn, ref[2])

(* subjectsOf looks up what is asked for together as if it were alone. *)
LEMMA KeyIsSubject ==
  ASSUME NEW refs, NEW c, NEW client, NEW headers, NEW sessions, NEW conn, NEW ref \in refs,
         ref[2] \in KnownAxes, ref[2] = "user" => UserFrom(c, ref[1]) # NoFrom
  PROVE  key(subjectsOf(refs, c, client, headers, sessions, conn), c, ref)
            = Whose(c, client, headers, sessions, conn, ref)
<1> DEFINE keys == subjectsOf(refs, c, client, headers, sessions, conn)
           found == {s \in Sources(refs, c) : SourceValue(s, headers, sessions) # ""}
           src == SourceOf(c, ref)
           known == {axis \in {r[2] : r \in refs} \ {"sess", "user"} :
                        CASE axis = "ip"         -> client.ip # ""
                          [] axis = "asn_net"    -> client.ip # "" /\ client.network # ""
                          [] axis = "asn_router" -> client.ip # "" /\ client.router # ""
                          [] OTHER               -> conn # ""}
           keyOn(axis) == CASE axis = "ip"         -> IPKey(client.ip)
                            [] axis = "asn_net"    -> NetKey(client.network)
                            [] axis = "asn_router" -> RouterKey(client.router)
                            [] OTHER               -> ConnKey(conn)
<1>1. /\ keys.bySource = [s \in found |-> subjectHash(SourceValue(s, headers, sessions))]
      /\ keys.byAxis = [axis \in known |-> keyOn(axis)]
  BY DEF subjectsOf
<1> SUFFICES key(keys, c, ref) = Whose(c, client, headers, sessions, conn, ref)
  OBVIOUS
<1> HIDE DEF keys, found, known, keyOn
<1>2. CASE ref[2] \in {"sess", "user"}
  <2>1. src \in Sources(refs, c)
    BY <1>2 DEF Sources, SourceOf
  <2>2. src \in found <=> SourceValue(src, headers, sessions) # ""
    BY <2>1 DEF found
  <2>3. key(keys, c, ref) = {keys.bySource[s] : s \in DOMAIN keys.bySource \intersect {src}}
    BY <1>2 DEF key, SourceOf
  <2>4. DOMAIN keys.bySource = found
    BY <1>1
  <2>5. Whose(c, client, headers, sessions, conn, ref)
           = {subjectHash(v) : v \in {SourceValue(src, headers, sessions)} \ {""}}
    BY <1>2 DEF Whose
  <2> HIDE DEF src
  <2>6. CASE src \in found
    <3>1. key(keys, c, ref) = {keys.bySource[src]}
      BY <2>3, <2>4, <2>6
    <3>2. keys.bySource[src] = subjectHash(SourceValue(src, headers, sessions))
      BY <1>1, <2>6
    <3> QED
      BY <2>2, <2>5, <2>6, <3>1, <3>2
  <2>7. CASE src \notin found
    BY <2>2, <2>3, <2>4, <2>5, <2>7
  <2> QED
    BY <2>6, <2>7
<1>3. CASE ref[2] \notin {"sess", "user"}
  <2>1. key(keys, c, ref) = {keys.byAxis[a] : a \in DOMAIN keys.byAxis \intersect {ref[2]}}
    BY <1>3 DEF key
  <2>2. DOMAIN keys.byAxis = known
    BY <1>1
  <2>3. ref[2] \in {"ip", "asn_net", "asn_router", "conn"}
    BY <1>3 DEF KnownAxes
  <2>4. ref[2] \in {r[2] : r \in refs} \ {"sess", "user"}
    BY <1>3
  <2>5. ref[2] \in known <=> CASE ref[2] = "ip"         -> client.ip # ""
                               [] ref[2] = "asn_net"    -> client.ip # "" /\ client.network # ""
                               [] ref[2] = "asn_router" -> client.ip # "" /\ client.router # ""
                               [] OTHER                 -> conn # ""
    BY <2>4 DEF known
  <2>6. CASE ref[2] \in known
    <3>1. key(keys, c, ref) = {keyOn(ref[2])}
      BY <1>1, <2>1, <2>2, <2>6
    <3>2. Whose(c, client, headers, sessions, conn, ref) = {keyOn(ref[2])}
      BY <2>3, <2>5, <2>6 DEF Whose, WhoseAddress, keyOn
    <3> QED
      BY <3>1, <3>2
  <2>7. CASE ref[2] \notin known
    <3>1. key(keys, c, ref) = {}
      BY <2>1, <2>2, <2>7
    <3>2. Whose(c, client, headers, sessions, conn, ref) = {}
      BY <2>3, <2>5, <2>7 DEF Whose, WhoseAddress
    <3> QED
      BY <3>1, <3>2
  <2> QED
    BY <2>6, <2>7
<1> QED
  BY <1>2, <1>3

(* What a valid counters file says of a bucket. *)
LEMMA KindsAreValid ==
  ASSUME NEW c, ValidCounters(c), NEW ref \in Kinds(c)
  PROVE  /\ ref[2] \in KnownAxes
         /\ ref[2] = "user" => UserFrom(c, ref[1]) # NoFrom /\ SplitFrom(UserFrom(c, ref[1]))
<1>1. PICK name \in DOMAIN c.counters : ref \in {name} \X AxesOf(c, name)
  BY DEF Kinds
<1>2. ref[1] = name /\ ref[2] \in DOMAIN c.counters[name].axes
  BY <1>1 DEF AxesOf, Declares
<1>3. ValidCounter(c, name)
  BY DEF ValidCounters
<1>4. ValidFrom(c.from) /\ ValidFrom(c.counters[name].from)
  BY <1>3 DEF ValidCounters, ValidCounter
<1> QED
  BY <1>2, <1>3, <1>4 DEF ValidCounter, ValidFrom, UserFrom

(* Headers that are not wanted do not matter. *)
LEMMA HeadersUnwanted ==
  ASSUME NEW c, ValidCounters(c), NEW refs, ~hasConfigurable(refs, c), NEW ref \in refs,
         ref \in Kinds(c), NEW client, NEW headers, NEW others, NEW sessions, NEW conn
  PROVE  Whose(c, client, headers, sessions, conn, ref)
            = Whose(c, client, others, sessions, conn, ref)
<1>1. CASE ref[2] = "user"
  <2>1. SplitFrom(UserFrom(c, ref[1])) /\ ~WantsHeaders(UserFrom(c, ref[1]))
    BY <1>1, KindsAreValid DEF hasConfigurable
  <2>2. SourceOf(c, ref).kind = "session"
    BY <1>1, <2>1 DEF SplitFrom, WantsHeaders, SourceOf
  <2>3. SourceValue(SourceOf(c, ref), headers, sessions) = SourceValue(SourceOf(c, ref), others, sessions)
    BY <2>2 DEF SourceValue
  <2> QED
    BY <1>1, <2>3 DEF Whose
<1>2. CASE ref[2] # "user"
  <2>1. ref[2] # "sess"
    BY DEF hasConfigurable
  <2> QED
    BY <1>2, <2>1 DEF Whose
<1> QED
  BY <1>1, <1>2

(* The buckets of notes have a tier. *)
LEMMA NotesHaveTiers ==
  ASSUME NEW g, NEW scopes
  PROVE  NoteRefs(Notes(g, scopes)) \subseteq Kinds(g.counters)
<1> SUFFICES ASSUME NEW n \in Notes(g, scopes) PROVE n.kind \in Kinds(g.counters)
  BY DEF NoteRefs
<1>1. \E i \in DOMAIN g.profile.prior : \E scope \in scopes :
         \E axis \in NoteAxes(g.counters, g.profile.prior[i].counter, scope) :
            n.kind = << g.profile.prior[i].counter, axis >>
  BY DEF Notes
<1> QED
  BY <1>1, AxesHaveTiers DEF NoteAxes

(* The buckets of values are among those the rules may charge, which have  *)
(* a tier.                                                                 *)
LEMMA ValuesHaveTiers ==
  ASSUME NEW c, NEW rules, NEW in
  PROVE  /\ ValueRefs(Run(rules, c, in)) \subseteq MeasureRefs(rules, c)
         /\ MeasuresDeclared(rules, c) => MeasureRefs(rules, c) \subseteq Kinds(c)
<1>1. ASSUME NEW v \in Run(rules, c, in), NEW axis \in v.axes
      PROVE  << v.counter, axis >> \in MeasureRefs(rules, c)
  <2>1. PICK i \in DOMAIN rules : v.counter = rules[i].counter /\ v.axes = AxesOfRule(rules[i], c)
    BY DEF Run
  <2>2. rules[i] \in ToSet(rules)
    BY DEF ToSet
  <2> QED
    BY <2>1, <2>2 DEF MeasureRefs
<1>2. ASSUME MeasuresDeclared(rules, c), NEW r \in ToSet(rules), NEW axis \in AxesOfRule(r, c)
      PROVE  << r.counter, axis >> \in Kinds(c)
  <2>1. axis \in AxesOf(c, r.counter)
    BY <1>2 DEF MeasuresDeclared, AxesOfRule
  <2> QED
    BY <2>1, AxesHaveTiers
<1> QED
  BY <1>1, <1>2 DEF ValueRefs, MeasureRefs

(* The headers and the connection that a message's subjects are found in. *)
OwnHeaders(x) == HeadersOf(Load(x.st, RequestHeaders(x.phase, x.msg)))
ConnOf(x) == IF x.phase = "frame" THEN x.msg.conn ELSE ""

Found(keys, refs, c, client, x) ==
    \A ref \in refs : key(keys, c, ref) = SubjectOf(c, client, x, ref)

(* The subject of a message, by where it is found. *)
LEMMA SubjectIs ==
  ASSUME NEW c, NEW client, NEW x, NEW ref
  PROVE  SubjectOf(c, client, x, ref)
            = Whose(c, client, OwnHeaders(x), x.msg.sessions, ConnOf(x), ref)
<1> DEFINE value == SourceValue(SourceOf(c, ref), OwnHeaders(x), x.msg.sessions)
<1>1. CASE ref[2] \in {"sess", "user"}
  <2>1. SubjectOf(c, client, x, ref) = {subjectHash(v) : v \in {value} \ {""}}
    BY <1>1 DEF SubjectOf, SourceOf, OwnHeaders, RequestHeaders
  <2> QED
    BY <1>1, <2>1 DEF Whose
<1>2. CASE ref[2] \notin {"sess", "user"}
  <2>1. CASE ref[2] = "conn"
    <3>1. SubjectOf(c, client, x, ref) = {ConnKey(id) : id \in {ConnOf(x)} \ {""}}
      BY <2>1 DEF SubjectOf, ConnOf
    <3> QED
      BY <2>1, <3>1 DEF Whose, WhoseAddress
  <2>2. CASE ref[2] # "conn"
    <3> DEFINE address ==
                 IF client.ip = "" THEN {}
                 ELSE CASE ref[2] = "ip"         -> {IPKey(client.ip)}
                        [] ref[2] = "asn_net"    -> {NetKey(n) : n \in {client.network} \ {""}}
                        [] ref[2] = "asn_router" -> {RouterKey(n) : n \in {client.router} \ {""}}
    <3>1. SubjectOf(c, client, x, ref) = address
      BY <1>2, <2>2 DEF SubjectOf
    <3>2. Whose(c, client, OwnHeaders(x), x.msg.sessions, ConnOf(x), ref) = address
      BY <1>2, <2>2 DEF Whose, WhoseAddress
    <3> HIDE DEF address
    <3> QED
      BY <3>1, <3>2
  <2> QED
    BY <2>1, <2>2
<1> QED
  BY <1>1, <1>2

(* The keys that are looked up together are the subjects of the message. *)
LEMMA KeysFound ==
  ASSUME NEW c, ValidCounters(c), NEW client, NEW x, NEW refs, refs \subseteq Kinds(c),
         NEW headers, hasConfigurable(refs, c) => headers = OwnHeaders(x)
  PROVE  Found(subjectsOf(refs, c, client, headers, x.msg.sessions, ConnOf(x)), refs, c, client, x)
<1> SUFFICES ASSUME NEW ref \in refs
             PROVE  key(subjectsOf(refs, c, client, headers, x.msg.sessions, ConnOf(x)), c, ref)
                       = SubjectOf(c, client, x, ref)
  BY DEF Found
<1>1. ref \in refs /\ ref \in Kinds(c) /\ ref[2] \in KnownAxes /\ (ref[2] = "user" => UserFrom(c, ref[1]) # NoFrom)
  BY KindsAreValid
<1>2. key(subjectsOf(refs, c, client, headers, x.msg.sessions, ConnOf(x)), c, ref)
         = Whose(c, client, headers, x.msg.sessions, ConnOf(x), ref)
  BY <1>1, KeyIsSubject
<1>3. Whose(c, client, headers, x.msg.sessions, ConnOf(x), ref)
         = Whose(c, client, OwnHeaders(x), x.msg.sessions, ConnOf(x), ref)
  <2>1. CASE hasConfigurable(refs, c)
    BY <2>1
  <2>2. CASE ~hasConfigurable(refs, c)
    BY <1>1, <2>2, HeadersUnwanted, Zenon
  <2> QED
    BY <2>1, <2>2
<1> QED
  BY <1>2, <1>3, SubjectIs, Zenon

(* What is due, one by one. *)
IsDueValue(ch, g, client, x) ==
    \E v \in ValuesOf(g, x) : \E axis \in v.axes :
       \E k \in SubjectOf(g.counters, client, x, << v.counter, axis >>) :
          ch = [by |-> "measure", rule |-> v.rule, kind |-> << v.counter, axis >>, key |-> k,
                add |-> v.add]

IsDueNote(ch, g, client, x) ==
    \E n \in Notes(g, x.msg.scopes) : \E k \in SubjectOf(g.counters, client, x, n.kind) :
       ch = [by |-> "note", rule |-> n.rule, kind |-> n.kind, key |-> k,
             add |-> NoteAmount(g.counters, n.kind)]

(* What is due is these charges, and no others. *)
LEMMA DueOneByOne ==
  ASSUME NEW g, NEW client, NEW x, NEW ch
  PROVE  ch \in Due(g, client, x) <=> IsDueValue(ch, g, client, x) \/ IsDueNote(ch, g, client, x)
<1> DEFINE of(ref) == SubjectOf(g.counters, client, x, ref)
           rec(v, axis, k) == [by |-> "measure", rule |-> v.rule, kind |-> << v.counter, axis >>,
                               key |-> k, add |-> v.add]
           one(v, axis) == {rec(v, axis, k) : k \in of(<< v.counter, axis >>)}
           all(v) == UNION {one(v, axis) : axis \in v.axes}
           nrec(n, k) == [by |-> "note", rule |-> n.rule, kind |-> n.kind, key |-> k,
                          add |-> NoteAmount(g.counters, n.kind)]
           noted(n) == {nrec(n, k) : k \in of(n.kind)}
           values == UNION {all(v) : v \in ValuesOf(g, x)}
           notes == UNION {noted(n) : n \in Notes(g, x.msg.scopes)}
<1>1. Due(g, client, x) = values \union notes
  BY DEF Due
<1>2. ASSUME NEW v, NEW axis
      PROVE  ch \in one(v, axis) <=> \E k \in of(<< v.counter, axis >>) : ch = rec(v, axis, k)
  OBVIOUS
<1>3. ASSUME NEW n
      PROVE  ch \in noted(n) <=> \E k \in of(n.kind) : ch = nrec(n, k)
  OBVIOUS
<1> HIDE DEF one, noted
<1>4. ASSUME NEW v PROVE ch \in all(v) <=> \E axis \in v.axes : ch \in one(v, axis)
  OBVIOUS
<1> HIDE DEF all
<1>5. ch \in values <=> \E v \in ValuesOf(g, x) : ch \in all(v)
  OBVIOUS
<1>6. ch \in notes <=> \E n \in Notes(g, x.msg.scopes) : ch \in noted(n)
  OBVIOUS
<1> HIDE DEF values, notes
<1>7. ch \in values <=> IsDueValue(ch, g, client, x)
  <2>1. ch \in values <=>
           \E v \in ValuesOf(g, x) : \E axis \in v.axes : \E k \in of(<< v.counter, axis >>) :
              ch = rec(v, axis, k)
    BY <1>2, <1>4, <1>5, Zenon
  <2> QED
    BY <2>1, Zenon DEF IsDueValue
<1>8. ch \in notes <=> IsDueNote(ch, g, client, x)
  <2>1. ch \in notes <=>
           \E n \in Notes(g, x.msg.scopes) : \E k \in of(n.kind) : ch = nrec(n, k)
    BY <1>3, <1>6, Zenon
  <2> QED
    BY <2>1, Zenon DEF IsDueNote
<1> QED
  BY <1>1, <1>7, <1>8

(* Charging the subjects that are found is charging in full. *)
LEMMA ChargesAreDue ==
  ASSUME NEW g, NEW client, NEW x, NEW keys,
         Found(keys, ValueRefs(ValuesOf(g, x)) \union NoteRefs(Notes(g, x.msg.scopes)),
               g.counters, client, x)
  PROVE  ValueCharges(ValuesOf(g, x), keys, g.counters)
            \union noteCharges(Notes(g, x.msg.scopes), keys, g.counters)
            = Due(g, client, x)
<1> DEFINE c == g.counters
           values == ValuesOf(g, x)
           notes == Notes(g, x.msg.scopes)
<1>1. ASSUME NEW v \in values, NEW axis \in v.axes
      PROVE  key(keys, c, << v.counter, axis >>) = SubjectOf(c, client, x, << v.counter, axis >>)
  BY DEF Found, ValueRefs
<1>2. ASSUME NEW n \in notes PROVE key(keys, c, n.kind) = SubjectOf(c, client, x, n.kind)
  BY DEF Found, NoteRefs
<1>3. ASSUME NEW ch PROVE IsValueCharge(ch, values, keys, c) <=> IsDueValue(ch, g, client, x)
  BY <1>1, Zenon DEF IsValueCharge, IsDueValue
<1>4. ASSUME NEW ch PROVE IsNoteCharge(ch, notes, keys, c) <=> IsDueNote(ch, g, client, x)
  BY <1>2, Zenon DEF IsNoteCharge, IsDueNote
<1>5. ASSUME NEW ch
      PROVE  ch \in ValueCharges(values, keys, c) \union noteCharges(notes, keys, c)
                <=> ch \in Due(g, client, x)
  <2>1. ch \in ValueCharges(values, keys, c) <=> IsDueValue(ch, g, client, x)
    BY <1>3, ChargesOfValues, Zenon
  <2>2. ch \in noteCharges(notes, keys, c) <=> IsDueNote(ch, g, client, x)
    BY <1>4, ChargesOfNotes, Zenon
  <2> QED
    BY <2>1, <2>2, DueOneByOne
<1> QED
  BY <1>5
-----------------------------------------------------------------------------
(***************************************************************************)
(* What a step does: a generation is offered, the next phase begins, or a  *)
(* message is answered that read and charged lawfully.                     *)
(***************************************************************************)
(* What is in force was accepted: nothing is checked after that. *)
Vetted ==
    /\ ValidCounters(snap.counters)
    /\ Validate(snap.profile)
    /\ ValidateAgainst(snap.profile, snap.counters)

Lawful(phase, reads, charges) ==
    /\ \A r \in reads : r[1] \in Kinds(snap.counters)
    /\ \A ch \in charges : /\ ch.kind \in Kinds(snap.counters)
                          /\ ch.by = Fill(snap.counters, ch.kind[1])
    /\ phase # "frame" => /\ \A r \in reads : r[1][2] # "conn"
                         /\ \A ch \in charges : ch.kind[2] # "conn"

(* Read and charged for its own subjects: nothing that is not due, and all *)
(* that is due unless the answer is an error.                              *)
Concerns(x, phase, m, st) == x.phase = phase /\ x.msg = m /\ x.st = st

InFull(phase, m, st, code, reads, charges) ==
    \A x : Concerns(x, phase, m, st) =>
       /\ \A r \in reads : r[2] \in SubjectOf(snap.counters, who, x, r[1])
       /\ charges \subseteq Due(snap, who, x)
       /\ code = "OK" => charges = Due(snap, who, x)

Handled(phase, m, st, code, reads, charges) ==
    /\ stage = phase /\ m \in Messages(phase) /\ st \in Stores
    /\ Answer(phase, m, st, code, reads, charges)
    /\ Lawful(phase, reads, charges)
    /\ InFull(phase, m, st, code, reads, charges)

Handles ==
    \E phase \in Phases : \E m, st, code, reads, charges :
       Handled(phase, m, st, code, reads, charges)

(* A message that is turned away reads and charges nothing, lawfully. *)
LEMMA NothingHandles ==
  ASSUME NEW phase \in Phases, NEW m \in Messages(phase), NEW st \in Stores, NEW code,
         code # "OK", stage = phase, Nothing(phase, m, st, code)
  PROVE  Handles
<1>1. Lawful(phase, {}, {})
  BY DEF Lawful
<1>2. InFull(phase, m, st, code, {}, {})
  BY DEF InFull
<1>3. Handled(phase, m, st, code, {}, {})
  BY <1>1, <1>2 DEF Nothing, Handled
<1> QED
  BY <1>3 DEF Handles

(* The keys have no connection; the charges go to known subjects, each by  *)
(* whoever fills its counter.                                              *)
Unconnected(keys, c) == \A ref : ref[2] = "conn" => key(keys, c, ref) = {}

Sound(charges, keys, c) ==
    \A ch \in charges : /\ ch.kind \in Kinds(c) /\ ch.by = Fill(c, ch.kind[1])
                        /\ key(keys, c, ch.kind) # {}

(* Buckets.Apply is lawful with what is sound, even when it fails. *)
LEMMA ApplyHandles ==
  ASSUME NEW phase \in Phases, NEW m \in Messages(phase), NEW st \in Stores, NEW keys,
         NEW asked, NEW reads, NEW charges, InFull(phase, m, st, "OK", reads, charges),
         stage = phase, asked \subseteq Kinds(snap.counters),
         phase = "frame" \/ Unconnected(keys, snap.counters),
         Sound(charges, keys, snap.counters),
         reads \in {{}, Reads(asked, keys, snap.counters)},
         Apply(phase, m, st, reads, charges)
  PROVE  Handles
<1> DEFINE c == snap.counters
<1>1. \A r \in reads : r[1] \in asked /\ key(keys, c, r[1]) # {}
  BY ReadsAreAsked
<1>2. Lawful(phase, reads, charges) /\ Lawful(phase, {}, charges)
  BY <1>1 DEF Lawful, Unconnected, Sound
<1>3. InFull(phase, m, st, "BUCKETS", {}, charges)
  BY DEF InFull
<1>4. CASE Answer(phase, m, st, "OK", reads, charges)
  <2>1. Handled(phase, m, st, "OK", reads, charges)
    BY <1>2, <1>4 DEF Handled
  <2> QED
    BY <2>1 DEF Handles
<1>5. CASE Answer(phase, m, st, "BUCKETS", {}, charges)
  <2>1. Handled(phase, m, st, "BUCKETS", {}, charges)
    BY <1>2, <1>3, <1>5 DEF Handled
  <2> QED
    BY <2>1 DEF Handles
<1> QED
  BY <1>4, <1>5 DEF Apply

(* A locator of a message is one or none. *)
LEMMA OneLocator ==
  ASSUME NEW phase \in Phases, NEW m \in Messages(phase)
  PROVE  \A loc \in {m.store.headers, m.store.body, m.requestStore.headers} :
            \A l, k \in loc : l = k
BY MessagesAssumption DEF Locators

(* What is read is a bucket of a subject of the message. *)
LEMMA ReadsAreSubjects ==
  ASSUME NEW asked, NEW refs, asked \subseteq refs, NEW keys, NEW c, NEW client, NEW x,
         Found(keys, refs, c, client, x), NEW r \in Reads(asked, keys, c)
  PROVE  r[2] \in SubjectOf(c, client, x, r[1])
<1>1. \E ref \in asked : \E k \in key(keys, c, ref) : r = << ref, k >>
  BY DEF Reads
<1> QED
  BY <1>1 DEF Found

(* handler.judge reads and charges lawfully, and all that is due. *)
LEMMA JudgeHandles ==
  ASSUME Vetted, NEW m \in Messages("request"), NEW st \in Stores, Judge(m, st)
  PROVE  Handles
<1> DEFINE c == snap.counters
           p == snap.profile
           asked == JudgeRefs(p.request.judge) \union LevelRefs(p.request.outcomes)
           notes == Notes(snap, m.scopes)
           refs == asked \union NoteRefs(notes)
           body == IF hasConfigurable(refs, c) THEN Load(st, m.store.headers) ELSE NoBody("")
           keys == subjectsOf(refs, c, who, HeadersOf(body), m.sessions, "")
           charges == noteCharges(notes, keys, c)
<1>1. /\ stage = "request" /\ "request" \in Phases /\ p.mode # "off"
      /\ \/ \E code : code # "OK" /\ Nothing("request", m, st, code)
         \/ Apply("request", m, st, Reads(asked, keys, c), charges)
  BY DEF Judge, Inspected, TakesPart, Phases
<1>2. /\ JudgesDeclared(p.request.judge, c) /\ OutcomesDeclared(p.request.outcomes, c)
      /\ NotesDeclared(p.prior, c)
  BY <1>1 DEF Vetted, ValidateAgainst
<1>3. asked \subseteq Kinds(c)
  BY <1>2, AskedHasTier
<1>4. Unconnected(keys, c)
  BY NoConnection DEF Unconnected
<1>5. Sound(charges, keys, c)
  BY <1>2, NotedIsLawful DEF Sound
<1> HIDE DEF asked, keys, charges
<1>8. InFull("request", m, st, "OK", Reads(asked, keys, c), charges)
  <2> SUFFICES ASSUME NEW x, Concerns(x, "request", m, st)
               PROVE  /\ \A r \in Reads(asked, keys, c) : r[2] \in SubjectOf(c, who, x, r[1])
                      /\ charges = Due(snap, who, x)
    BY DEF InFull
  <2>1. x.phase = "request" /\ x.msg = m /\ x.st = st
    BY DEF Concerns
  <2>2. refs \subseteq Kinds(c) /\ ValidCounters(c)
    BY <1>3, NotesHaveTiers DEF Vetted
  <2>3. hasConfigurable(refs, c) => HeadersOf(body) = OwnHeaders(x)
    BY <2>1 DEF OwnHeaders, RequestHeaders
  <2>4. ConnOf(x) = "" /\ x.msg.sessions = m.sessions
    BY <2>1 DEF ConnOf
  <2> DEFINE headers == HeadersOf(body)
  <2> HIDE DEF notes, body, headers, refs
  <2>5. Found(keys, refs, c, who, x)
    <3>1. hasConfigurable(refs, c) => headers = OwnHeaders(x)
      BY <2>3 DEF headers
    <3>2. Found(subjectsOf(refs, c, who, headers, x.msg.sessions, ConnOf(x)), refs, c, who, x)
      BY <2>2, <3>1, KeysFound
    <3> QED
      BY <2>4, <3>2 DEF headers, keys
  <2>6. \A r \in Reads(asked, keys, c) : r[2] \in SubjectOf(c, who, x, r[1])
    BY <2>5, ReadsAreSubjects DEF refs
  <2>7. ValuesOf(snap, x) = {} /\ Notes(snap, x.msg.scopes) = notes
    BY <2>1 DEF ValuesOf, notes
  <2>8. Found(keys, ValueRefs({}) \union NoteRefs(notes), c, who, x)
    BY <2>5 DEF Found, refs, ValueRefs
  <2>9. ValueCharges({}, keys, c) \union noteCharges(notes, keys, c) = Due(snap, who, x)
    BY <2>7, <2>8, ChargesAreDue
  <2>10. ValueCharges({}, keys, c) = {}
    BY DEF ValueCharges
  <2>11. charges = Due(snap, who, x)
    BY <2>9, <2>10 DEF charges
  <2> QED
    BY <2>6, <2>11
<1>6. CASE \E code : code # "OK" /\ Nothing("request", m, st, code)
  BY <1>1, <1>6, NothingHandles
<1>7. CASE Apply("request", m, st, Reads(asked, keys, c), charges)
  <2>1. Reads(asked, keys, c) \in {{}, Reads(asked, keys, c)}
    OBVIOUS
  <2>2. m \in Messages("request") /\ st \in Stores
    OBVIOUS
  <2> QED
    BY <1>1, <1>3, <1>4, <1>5, <1>7, <1>8, <2>1, <2>2, ApplyHandles, Zenon
<1> QED
  BY <1>1, <1>6, <1>7

(* Validation knows every source. *)
LEMMA SourcesAreKnown ==
  ASSUME NEW p, Validate(p), p.mode # "off"
  PROVE  /\ \A i \in DOMAIN p.response.measure :
              p.response.measure[i].source \in {"const", "size_kb", "bytes", "regex_count"}
         /\ \A i \in DOMAIN p.frame.measure :
              p.frame.measure[i].source \in {"const", "size_kb", "bytes", "regex_count"}
<1>1. /\ \A m \in ToSet(p.response.measure) : validateMeasure(m, FALSE)
      /\ \A m \in ToSet(p.frame.measure) : validateMeasure(m, TRUE)
  BY DEF Validate
<1>2. /\ \A i \in DOMAIN p.response.measure : p.response.measure[i] \in ToSet(p.response.measure)
      /\ \A i \in DOMAIN p.frame.measure : p.frame.measure[i] \in ToSet(p.frame.measure)
  BY DEF ToSet
<1> QED
  BY <1>1, <1>2 DEF validateMeasure

(* handler.measure charges lawfully, and all that is due. *)
LEMMA MeasureHandles ==
  ASSUME Vetted, NEW m \in Messages("response"), NEW st \in Stores, Measure(m, st)
  PROVE  Handles
<1> DEFINE c == snap.counters
           rules == snap.profile.response.measure
           locs == << m.store.headers, m.requestStore.headers >>
                      \o (IF needsBody(rules) THEN << m.store.body >> ELSE << >>)
           got == LoadMany(st, locs)
           in == [frame |-> FALSE, method |-> m.method, status |-> m.status,
                  size |-> SizeOf(m.store.body), contentType |-> ContentType(HeadersOf(got[1])),
                  hits |-> IF needsBody(rules) THEN HitsOf(got[3]) ELSE << >>]
           values == Run(rules, c, in)
           notes == Notes(snap, m.scopes)
           refs == ValueRefs(values) \union NoteRefs(notes)
           keys == subjectsOf(refs, c, who, HeadersOf(got[2]), m.sessions, "")
           measured == ValueCharges(values, keys, c)
           noted == noteCharges(notes, keys, c)
<1>1. /\ stage = "response" /\ "response" \in Phases /\ snap.profile.mode # "off"
      /\ \/ \E code : code # "OK" /\ Nothing("response", m, st, code)
         \/ values = {} /\ notes = {} /\ Nothing("response", m, st, "OK")
         \/ Apply("response", m, st, {}, measured \union noted)
  BY DEF Measure, Inspected, TakesPart, Phases
<1>2. MeasuresDeclared(rules, c) /\ NotesDeclared(snap.profile.prior, c)
  BY <1>1 DEF Vetted, ValidateAgainst
<1>3. Unconnected(keys, c)
  BY NoConnection DEF Unconnected
<1> HIDE DEF got, in, keys, notes
<1>4. Sound(measured, keys, c)
  BY <1>2, MeasuredIsLawful DEF Sound
<1>5. Sound(noted, keys, c)
  BY <1>2, NotedIsLawful DEF Sound, notes
<1> HIDE DEF measured, noted
<1>6. Sound(measured \union noted, keys, c)
  BY <1>4, <1>5 DEF Sound
<1>9. \A x : Concerns(x, "response", m, st) => measured \union noted = Due(snap, who, x)
  <2> SUFFICES ASSUME NEW x, Concerns(x, "response", m, st)
               PROVE  measured \union noted = Due(snap, who, x)
    OBVIOUS
  <2>1. x.phase = "response" /\ x.msg = m /\ x.st = st
    BY DEF Concerns
  <2>2. /\ got[1] = Load(st, m.store.headers) /\ got[2] = Load(st, m.requestStore.headers)
        /\ needsBody(rules) => got[3] = Load(st, m.store.body)
    <3>1. "response" \in Phases /\ needsBody(rules) \in BOOLEAN
      BY DEF Phases, needsBody
    <3>2. \A loc \in {m.store.headers, m.requestStore.headers, m.store.body} :
             \A l, k \in loc : l = k
      BY <3>1, OneLocator
    <3> QED
      BY <3>1, <3>2, ResponseLoads DEF got
  <2>3. values = ValuesOf(snap, x)
    <3> DEFINE full == [frame |-> FALSE, method |-> m.method, status |-> m.status,
                        direction |-> m.direction, opcode |-> m.opcode,
                        size |-> SizeOf(m.store.body),
                        contentType |-> ContentType(HeadersOf(Load(st, m.store.headers))),
                        hits |-> HitsOf(Load(st, m.store.body))]
    <3>1. ValuesOf(snap, x) = Run(rules, c, full)
      BY <2>1 DEF ValuesOf
    <3>2. /\ in.frame = FALSE /\ full.frame = FALSE /\ in.method = full.method
          /\ in.status = full.status /\ in.contentType = full.contentType /\ in.size = full.size
          /\ needsBody(rules) => in.hits = full.hits
      BY <2>2 DEF in
    <3> HIDE DEF full
    <3>3. \A r : Applies(r, in) <=> Applies(r, full)
      BY <3>2 DEF Applies, Matches
    <3>4. \A i \in DOMAIN rules :
             rules[i].source \in {"const", "size_kb", "bytes", "regex_count"}
      BY <1>1, SourcesAreKnown DEF Vetted
    <3>5. Run(rules, c, in) = Run(rules, c, full)
      BY <3>2, <3>3, <3>4, RunsAlike
    <3> QED
      BY <3>1, <3>5
  <2>4. refs \subseteq Kinds(c) /\ ValidCounters(c)
    BY <1>2, ValuesHaveTiers, NotesHaveTiers DEF Vetted, notes
  <2>5. HeadersOf(got[2]) = OwnHeaders(x)
    BY <2>1, <2>2 DEF OwnHeaders, RequestHeaders
  <2>6. Found(keys, refs, c, who, x)
    <3>1. ConnOf(x) = "" /\ x.msg.sessions = m.sessions
      BY <2>1 DEF ConnOf
    <3> DEFINE headers == HeadersOf(got[2])
    <3> HIDE DEF values, refs
    <3>2. headers = OwnHeaders(x)
      BY <2>5
    <3> HIDE DEF headers
    <3>3. Found(subjectsOf(refs, c, who, headers, x.msg.sessions, ConnOf(x)), refs, c, who, x)
      BY <2>4, <3>2, KeysFound
    <3> QED
      BY <3>1, <3>3 DEF keys, headers, refs
  <2>7. notes = Notes(snap, x.msg.scopes)
    BY <2>1 DEF notes
  <2> HIDE DEF values
  <2>8. ValueCharges(values, keys, c) \union noteCharges(notes, keys, c) = Due(snap, who, x)
    BY <2>3, <2>6, <2>7, ChargesAreDue
  <2> QED
    BY <2>8 DEF measured, noted
<1>10. InFull("response", m, st, "OK", {}, measured \union noted)
  BY <1>9 DEF InFull
<1>7. CASE \E code : code # "OK" /\ Nothing("response", m, st, code)
  BY <1>1, <1>7, NothingHandles
<1>8. CASE Apply("response", m, st, {}, measured \union noted)
  <2>1. {} \in {{}, Reads({}, keys, c)} /\ {} \subseteq Kinds(c)
    OBVIOUS
  <2>2. m \in Messages("response") /\ st \in Stores
    OBVIOUS
  <2> QED
    BY <1>1, <1>3, <1>6, <1>8, <1>10, <2>1, <2>2, ApplyHandles, Zenon
<1>11. CASE values = {} /\ notes = {} /\ Nothing("response", m, st, "OK")
  <2>1. measured \union noted = {}
    BY <1>11 DEF measured, noted, ValueCharges, noteCharges
  <2>2. Lawful("response", {}, {})
    BY DEF Lawful
  <2>3. Handled("response", m, st, "OK", {}, {})
    BY <1>1, <1>10, <1>11, <2>1, <2>2 DEF Handled, Nothing
  <2> QED
    BY <1>1, <2>3 DEF Handles
<1> QED
  BY <1>1, <1>7, <1>8, <1>11

(* handler.frame reads and charges lawfully, and all that is due. *)
LEMMA FrameHandles ==
  ASSUME Vetted, NEW m \in Messages("frame"), NEW st \in Stores, Frame(m, st)
  PROVE  Handles
<1> DEFINE c == snap.counters
           p == snap.profile
           rules == p.frame.measure
           asked == JudgeRefs(p.frame.judge) \union LevelRefs(p.frame.outcomes)
           notes == Notes(snap, m.scopes)
           refs == asked \union NoteRefs(notes) \union MeasureRefs(rules, c)
           wantHeaders == hasConfigurable(refs, c)
           locs == (IF wantHeaders THEN << m.requestStore.headers >> ELSE << >>)
                      \o (IF needsBody(rules) THEN << m.store.body >> ELSE << >>)
           got == LoadMany(st, locs)
           in == [frame |-> TRUE, direction |-> m.direction, opcode |-> m.opcode,
                  size |-> SizeOf(m.store.body),
                  hits |-> IF needsBody(rules) THEN HitsOf(got[Len(got)]) ELSE << >>]
           values == Run(rules, c, in)
           keys == subjectsOf(refs, c, who, IF wantHeaders THEN HeadersOf(got[1]) ELSE << >>,
                              m.sessions, m.conn)
           measured == ValueCharges(values, keys, c)
           noted == noteCharges(notes, keys, c)
<1>1. /\ stage = "frame" /\ "frame" \in Phases /\ p.mode # "off"
      /\ \/ \E code : code # "OK" /\ Nothing("frame", m, st, code)
         \/ Apply("frame", m, st, Reads(asked, keys, c), measured \union noted)
  BY DEF Frame, Inspected, TakesPart, Phases
<1>2. /\ MeasuresDeclared(rules, c) /\ NotesDeclared(p.prior, c)
      /\ JudgesDeclared(p.frame.judge, c) /\ OutcomesDeclared(p.frame.outcomes, c)
  BY <1>1 DEF Vetted, ValidateAgainst
<1>3. asked \subseteq Kinds(c)
  BY <1>2, AskedHasTier
<1> HIDE DEF got, in, keys, notes, asked
<1>4. Sound(measured, keys, c)
  BY <1>2, MeasuredIsLawful DEF Sound
<1>5. Sound(noted, keys, c)
  BY <1>2, NotedIsLawful DEF Sound, notes
<1> HIDE DEF measured, noted
<1>6. Sound(measured \union noted, keys, c)
  BY <1>4, <1>5 DEF Sound
<1>9. InFull("frame", m, st, "OK", Reads(asked, keys, c), measured \union noted)
  <2> SUFFICES ASSUME NEW x, Concerns(x, "frame", m, st)
               PROVE  /\ \A r \in Reads(asked, keys, c) : r[2] \in SubjectOf(c, who, x, r[1])
                      /\ measured \union noted = Due(snap, who, x)
    BY DEF InFull
  <2>1. x.phase = "frame" /\ x.msg = m /\ x.st = st
    BY DEF Concerns
  <2>2. /\ wantHeaders => got[1] = Load(st, m.requestStore.headers)
        /\ needsBody(rules) => got[Len(got)] = Load(st, m.store.body)
    <3>1. "frame" \in Phases /\ needsBody(rules) \in BOOLEAN /\ wantHeaders \in BOOLEAN
      BY DEF Phases, needsBody, hasConfigurable
    <3>2. \A loc \in {m.requestStore.headers, m.store.body} : \A l, k \in loc : l = k
      BY <3>1, OneLocator
    <3> HIDE DEF wantHeaders
    <3> QED
      BY <3>1, <3>2, FrameLoads DEF got
  <2>3. values = ValuesOf(snap, x)
    <3> DEFINE full == [frame |-> TRUE, method |-> m.method, status |-> m.status,
                        direction |-> m.direction, opcode |-> m.opcode,
                        size |-> SizeOf(m.store.body),
                        contentType |-> ContentType(HeadersOf(Load(st, m.store.headers))),
                        hits |-> HitsOf(Load(st, m.store.body))]
    <3>1. ValuesOf(snap, x) = Run(rules, c, full)
      BY <2>1 DEF ValuesOf
    <3>2. /\ in.frame = TRUE /\ full.frame = TRUE /\ in.direction = full.direction
          /\ in.opcode = full.opcode /\ in.size = full.size
          /\ needsBody(rules) => in.hits = full.hits
      BY <2>2 DEF in
    <3> HIDE DEF full
    <3>3. \A r : Applies(r, in) <=> Applies(r, full)
      BY <3>2 DEF Applies, MatchesFrame
    <3>4. \A i \in DOMAIN rules :
             rules[i].source \in {"const", "size_kb", "bytes", "regex_count"}
      BY <1>1, SourcesAreKnown DEF Vetted
    <3>5. Run(rules, c, in) = Run(rules, c, full)
      BY <3>2, <3>3, <3>4, RunsAlike
    <3> QED
      BY <3>1, <3>5
  <2>4. /\ refs \subseteq Kinds(c) /\ ValidCounters(c) /\ asked \subseteq refs
        /\ ValueRefs(values) \union NoteRefs(notes) \subseteq refs
    BY <1>2, <1>3, ValuesHaveTiers, NotesHaveTiers DEF Vetted, notes
  <2> DEFINE headers == IF wantHeaders THEN HeadersOf(got[1]) ELSE << >>
  <2>5. hasConfigurable(refs, c) => headers = OwnHeaders(x)
    BY <2>1, <2>2 DEF OwnHeaders, RequestHeaders
  <2>6. ConnOf(x) = m.conn /\ x.msg.sessions = m.sessions
    BY <2>1 DEF ConnOf
  <2>7. keys = subjectsOf(refs, c, who, headers, x.msg.sessions, ConnOf(x))
    BY <2>6 DEF keys
  <2> HIDE DEF values, refs, headers, wantHeaders
  <2>8. Found(keys, refs, c, who, x)
    BY <2>4, <2>5, <2>7, KeysFound
  <2>9. \A r \in Reads(asked, keys, c) : r[2] \in SubjectOf(c, who, x, r[1])
    BY <2>4, <2>8, ReadsAreSubjects
  <2>10. Found(keys, ValueRefs(values) \union NoteRefs(notes), c, who, x)
    BY <2>4, <2>8 DEF Found
  <2>11. notes = Notes(snap, x.msg.scopes)
    BY <2>1 DEF notes
  <2>12. ValueCharges(values, keys, c) \union noteCharges(notes, keys, c) = Due(snap, who, x)
    BY <2>3, <2>10, <2>11, ChargesAreDue
  <2> QED
    BY <2>9, <2>12 DEF measured, noted
<1>7. CASE \E code : code # "OK" /\ Nothing("frame", m, st, code)
  BY <1>1, <1>7, NothingHandles
<1>8. CASE Apply("frame", m, st, Reads(asked, keys, c), measured \union noted)
  <2>1. Reads(asked, keys, c) \in {{}, Reads(asked, keys, c)}
    OBVIOUS
  <2>2. m \in Messages("frame") /\ st \in Stores
    OBVIOUS
  <2> QED
    BY <1>1, <1>3, <1>6, <1>8, <1>9, <2>1, <2>2, ApplyHandles, Zenon
<1> QED
  BY <1>1, <1>7, <1>8

(* The steps of an exchange, by what they do. *)
LEMMA Moves ==
  ASSUME Vetted, [Next]_vars
  PROVE  Handles \/ Proceed \/ (\E g \in Candidates : Reload(g)) \/ UNCHANGED vars
<1>1. ASSUME NEW phase \in Phases, NEW m \in Incoming(phase), NEW st \in Stores,
             Refused(phase, m, st) \/ Unknown(phase, m, st) \/ Pass(phase, m, st)
      PROVE  Handles
  <2>1. stage = phase /\ m \in Messages(phase)
        /\ \E code : code # "OK" /\ Nothing(phase, m, st, code)
    BY <1>1 DEF Refused, Unknown, Pass, Inspected, Incoming
  <2> QED
    BY <2>1, NothingHandles
<1>2. /\ \A m \in Incoming("request"), st \in Stores : Judge(m, st) => Handles
      /\ \A m \in Incoming("response"), st \in Stores : Measure(m, st) => Handles
      /\ \A m \in Incoming("frame"), st \in Stores : Frame(m, st) => Handles
  BY JudgeHandles, MeasureHandles, FrameHandles DEF Incoming
<1>3. CASE Done
  BY <1>3 DEF Done
<1> QED
  BY <1>1, <1>2, <1>3 DEF Next
-----------------------------------------------------------------------------
(* A message is only in last until the next one may come. *)
Fresh == stage \in Phases => last = Blank

(* Charges under the counters in force were made by whoever fills them. *)
Owned == \A f \in filled : f[2] = Fill(snap.counters, f[1][1])

(* A generation is in force only when it was accepted as a whole. *)
LEMMA VettedKept ==
  ASSUME Vetted, [Next]_vars
  PROVE  Vetted'
<1>1. ASSUME NEW g, Reload(g) PROVE Vetted'
  BY <1>1 DEF Reload, Vetted, Accepted, InForce
<1>2. CASE Handles
  BY <1>2 DEF Handles, Handled, Answer, Vetted
<1>3. CASE Proceed \/ UNCHANGED vars
  BY <1>3 DEF Proceed, Vetted, vars
<1> QED
  BY <1>1, <1>2, <1>3, Moves

(* A charge is made by whoever fills its counter under these counters. *)
LEMMA OwnedKept ==
  ASSUME Vetted, Owned, [Next]_vars
  PROVE  Owned'
<1>1. ASSUME NEW g, Reload(g) PROVE Owned'
  BY <1>1 DEF Reload, Owned
<1>2. ASSUME NEW phase, NEW m, NEW st, NEW code, NEW reads, NEW charges,
             Answer(phase, m, st, code, reads, charges), Lawful(phase, reads, charges)
      PROVE  Owned'
  <2>1. snap' = snap /\ filled' = filled \union {<< ch.kind, ch.by >> : ch \in charges}
    BY <1>2 DEF Answer
  <2>2. \A ch \in charges : ch.by = Fill(snap.counters, ch.kind[1])
    BY <1>2 DEF Lawful
  <2> QED
    BY <2>1, <2>2 DEF Owned
<1>3. CASE Proceed \/ UNCHANGED vars
  BY <1>3 DEF Proceed, Owned, vars
<1> QED
  BY <1>1, <1>2, <1>3, Moves DEF Handles, Handled

(* The generation loaded at start was accepted, and nothing is charged     *)
(* yet.                                                                    *)
LEMMA VettedAtStart ==
  ASSUME Init
  PROVE  Vetted /\ Owned /\ Fresh
BY ExchangeAssumption DEF Init, Vetted, Accepted, InForce, Owned, Fresh

(* A counter has one owner: measures and notes never charge the same one   *)
(* under one counters file, whichever of the profiles made for it were in  *)
(* force meanwhile (Counter.Fill).                                         *)
THEOREM CountersHaveOneOwner == Spec => []OneOwner
<1>1. Init => Vetted /\ Owned
  BY VettedAtStart
<1>2. Vetted /\ Owned /\ [Next]_vars => (Vetted /\ Owned)'
  BY VettedKept, OwnedKept
<1>3. Owned => OneOwner
  BY DEF Owned, OneOwner
<1> QED
  BY <1>1, <1>2, <1>3, PTL DEF Spec
-----------------------------------------------------------------------------
(***************************************************************************)
(* What is in force can be run.                                            *)
(***************************************************************************)
(* Every verb takes an axis. *)
LEMMA VerbsTakeAxes ==
  ASSUME NEW do \in DOMAIN outcomeVerbs
  PROVE  outcomeVerbs[do] # {}
BY DEF outcomeVerbs, controlVerbs, auditVerbs

(* An outcome that passed validation asks for an axis that its verb takes. *)
LEMMA AsksAnAxis ==
  ASSUME NEW o, validateOutcomeAsk(o)
  PROVE  Axis(o) \in outcomeVerbs[o.do]
<1>1. o.do \in DOMAIN outcomeVerbs
  BY DEF validateOutcomeAsk
<1>2. CASE o.apply # ""
  BY <1>2 DEF validateOutcomeAsk, Axis
<1>3. CASE o.apply = "" /\ o.do \in auditVerbs
  <2>1. outcomeVerbs[o.do] = {"request", "response"}
    BY <1>3 DEF outcomeVerbs, auditVerbs, controlVerbs
  <2> QED
    BY <1>3, <2>1 DEF Axis
<1>4. CASE o.apply = "" /\ o.do \notin auditVerbs
  <2>1. Cardinality(outcomeVerbs[o.do]) = 1
    BY <1>4 DEF validateOutcomeAsk
  <2>2. Axis(o) = CHOOSE axis \in outcomeVerbs[o.do] : TRUE
    BY <1>1, <1>4, <2>1 DEF Axis
  <2> QED
    BY <1>1, <2>2, VerbsTakeAxes
<1> QED
  BY <1>2, <1>3, <1>4

(* A profile that passed validation has all its rules ready to run. *)
LEMMA ValidatedRuns ==
  ASSUME NEW p, Validate(p)
  PROVE  /\ p.mode # "off" =>
              \A m \in ToSet(p.response.measure) \union ToSet(p.frame.measure) : Compiles(m)
         /\ \A o \in ToSet(p.request.outcomes) \union ToSet(p.frame.outcomes) :
              o.do # "" => Axis(o) \in outcomeVerbs[o.do]
<1>1. ASSUME p.mode # "off", NEW m \in ToSet(p.response.measure) \union ToSet(p.frame.measure)
      PROVE  Compiles(m)
  BY <1>1 DEF Validate, validateMeasure
<1>2. ASSUME NEW o \in ToSet(p.request.outcomes) \union ToSet(p.frame.outcomes), o.do # ""
      PROVE  Axis(o) \in outcomeVerbs[o.do]
  BY <1>2, AsksAnAxis DEF Validate, validateOutcome
<1> QED
  BY <1>1, <1>2

(* What the last message touched was lawful, and still is. *)
Touched == last = Blank \/ Lawful(last.phase, last.reads, last.charges)

(* What the last message touched stays lawful while it is in last. *)
LEMMA TouchedKept ==
  ASSUME Vetted, Fresh, Touched, [Next]_vars
  PROVE  (Fresh /\ Touched)'
<1>1. ASSUME NEW g, Reload(g) PROVE (Fresh /\ Touched)'
  BY <1>1 DEF Reload, Fresh, Touched
<1>2. ASSUME NEW phase \in Phases, NEW m, NEW st, NEW code, NEW reads, NEW charges,
             Answer(phase, m, st, code, reads, charges), Lawful(phase, reads, charges)
      PROVE  (Fresh /\ Touched)'
  <2>1. /\ last' = [phase |-> phase, msg |-> m, st |-> st, code |-> code, reads |-> reads,
                    charges |-> charges]
        /\ snap' = snap /\ stage' \in {"passed", "done"}
    BY <1>2 DEF Answer
  <2>2. Lawful(phase, reads, charges)'
    BY <1>2, <2>1 DEF Lawful
  <2> QED
    BY <2>1, <2>2 DEF Fresh, Touched, Phases
<1>3. CASE Proceed
  BY <1>3 DEF Proceed, Fresh, Touched
<1>4. CASE UNCHANGED vars
  BY <1>4 DEF vars, Fresh, Touched, Lawful
<1> QED
  BY <1>1, <1>2, <1>3, <1>4, Moves DEF Handles, Handled

(* What is in force can be run.  Every bucket the last message read or     *)
(* charged has a tier in the counters it was handled with, a connection's  *)
(* only in a frame; every rule that looks into a body has its expression   *)
(* compiled, and every ask goes to an axis its verb takes.                 *)
THEOREM AcceptedRuns == Spec => []InForceRuns
<1>1. Init => Vetted /\ Fresh /\ Touched
  BY VettedAtStart DEF Init, Touched
<1>2. Vetted /\ Fresh /\ Touched /\ [Next]_vars => (Vetted /\ Fresh /\ Touched)'
  BY VettedKept, TouchedKept
<1>3. Vetted /\ Touched => InForceRuns
  <2> SUFFICES ASSUME Vetted, Touched PROVE InForceRuns
    OBVIOUS
  <2> DEFINE touched == {r[1] : r \in last.reads} \union {ch.kind : ch \in last.charges}
  <2>1. /\ touched \subseteq Kinds(snap.counters)
        /\ (\E k \in touched : k[2] = "conn") => last.phase = "frame"
    <3>1. CASE last = Blank
      BY <3>1 DEF Blank
    <3>2. CASE Lawful(last.phase, last.reads, last.charges)
      BY <3>2 DEF Lawful
    <3> QED
      BY <3>1, <3>2 DEF Touched
  <2>2. Validate(snap.profile)
    BY DEF Vetted
  <2> QED
    BY <2>1, <2>2, ValidatedRuns DEF InForceRuns
<1> QED
  BY <1>1, <1>2, <1>3, PTL DEF Spec
-----------------------------------------------------------------------------
(***************************************************************************)
(* What is charged, and to whom.                                           *)
(***************************************************************************)
(* A message that is answered without an error has charged all it should   *)
(* and nothing else: every rule that applies and every note, on every axis *)
(* on which the message has a subject, whatever else was missing, loaded   *)
(* in the same batch, or not asked for by any other rule.                  *)
THEOREM EveryChargeIsMade == Spec => []ChargedInFull
<1>0. Blank.code # "OK"
  BY DEF Blank
<1>1. Init => Vetted /\ Fresh /\ ChargedInFull
  BY <1>0, VettedAtStart DEF Init, ChargedInFull
<1>2. ASSUME Vetted, Fresh, ChargedInFull, [Next]_vars
      PROVE  (Fresh /\ ChargedInFull)'
  <2>1. ASSUME NEW g, Reload(g) PROVE (Fresh /\ ChargedInFull)'
    BY <1>0, <1>2, <2>1 DEF Reload, Fresh, ChargedInFull
  <2>2. ASSUME NEW phase \in Phases, NEW m, NEW st, NEW code, NEW reads, NEW charges,
               Handled(phase, m, st, code, reads, charges)
        PROVE  (Fresh /\ ChargedInFull)'
    <3>1. /\ last' = [phase |-> phase, msg |-> m, st |-> st, code |-> code, reads |-> reads,
                      charges |-> charges]
          /\ snap' = snap /\ who' = who /\ stage' \in {"passed", "done"}
      BY <2>2 DEF Handled, Answer
    <3>2. Concerns(last', phase, m, st) /\ last'.code = code /\ last'.charges = charges
      BY <3>1 DEF Concerns
    <3>3. code = "OK" => charges = Due(snap, who, last')
      BY <2>2, <3>2 DEF Handled, InFull
    <3> QED
      BY <3>1, <3>2, <3>3 DEF Fresh, Phases, ChargedInFull
  <2>3. CASE Proceed
    BY <1>0, <2>3 DEF Proceed, Fresh, ChargedInFull
  <2>4. CASE UNCHANGED vars
    BY <1>2, <2>4 DEF vars, Fresh, ChargedInFull
  <2> QED
    BY <1>2, <2>1, <2>2, <2>3, <2>4, Moves DEF Handles
<1> QED
  BY <1>1, <1>2, VettedKept, PTL DEF Spec
-----------------------------------------------------------------------------
(***************************************************************************)
(* Who was judged is who is charged: the messages of one exchange may have *)
(* a subject or none, but not two that differ.                             *)
(***************************************************************************)
(* In no headers nothing is found. *)
LEMMA NothingInNoHeaders ==
  ASSUME NEW name
  PROVE  cookieValue(<< >>, name) = "" /\ headerValue(<< >>, name) = ""
BY DEF cookieValue, headerValue, FirstOf

(* The session that is used, by whatever order they are listed in. *)
Fitting(s, field) == s.verified /\ Field(s, field) # ""

IsBest(s, sessions, field) ==
    s \in sessions /\ Fitting(s, field)
    /\ \A t \in sessions : Fitting(t, field) => s.rank <= t.rank

(* sessionValue is the field of a verified session of the least rank. *)
LEMMA BestIsUsed ==
  ASSUME NEW S, \A s \in S : s.rank \in Nat, NEW sessions \in Seq(S), NEW field
  PROVE  \/ /\ sessionValue(sessions, field) = ""
            /\ \A s \in ToSet(sessions) : ~Fitting(s, field)
         \/ \E s : /\ IsBest(s, ToSet(sessions), field)
                   /\ sessionValue(sessions, field) = Field(s, field)
<1> DEFINE fit == {i \in DOMAIN sessions : sessions[i].verified /\ Field(sessions[i], field) # ""}
           best == {i \in fit : \A j \in fit : sessions[i].rank <= sessions[j].rank}
<1>1. sessionValue(sessions, field)
         = IF fit = {} THEN "" ELSE Field(sessions[Min(best)], field)
  BY DEF sessionValue
<1>2. /\ DOMAIN sessions \subseteq Nat
      /\ \A i \in DOMAIN sessions : sessions[i] \in S
      /\ ToSet(sessions) = {sessions[i] : i \in DOMAIN sessions}
  BY DEF ToSet
<1>3. /\ fit \subseteq DOMAIN sessions
      /\ \A i \in DOMAIN sessions : i \in fit <=> Fitting(sessions[i], field)
  BY DEF Fitting
<1>4. best \subseteq fit /\ \A i \in best : \A j \in fit : sessions[i].rank <= sessions[j].rank
  OBVIOUS
<1>5. ASSUME fit # {} PROVE best # {}
  <2> DEFINE ranks == {sessions[i].rank : i \in fit}
  <2>1. ranks \subseteq Nat /\ ranks # {}
    BY <1>2, <1>3, <1>5
  <2>2. PICK r \in ranks : \A q \in ranks : r <= q
    BY <2>1, L!LeastNat
  <2>3. PICK i \in fit : sessions[i].rank = r
    OBVIOUS
  <2>4. \A j \in fit : sessions[j].rank \in ranks
    OBVIOUS
  <2> QED
    BY <2>2, <2>3, <2>4
<1> HIDE DEF fit, best
<1>6. CASE fit = {}
  <2>1. \A s \in ToSet(sessions) : ~Fitting(s, field)
    BY <1>2, <1>3, <1>6
  <2> QED
    BY <1>1, <1>6, <2>1
<1>7. CASE fit # {}
  <2>1. best # {} /\ best \subseteq Nat
    BY <1>2, <1>3, <1>4, <1>5, <1>7
  <2>2. PICK n \in best : \A k \in best : n <= k
    BY <2>1, L!LeastNat
  <2>3. Min(best) \in best
    BY <2>2 DEF Min
  <2> DEFINE s == sessions[Min(best)]
  <2>4. s \in ToSet(sessions) /\ Fitting(s, field)
    BY <1>2, <1>3, <1>4, <2>3
  <2>5. \A t \in ToSet(sessions) : Fitting(t, field) => s.rank <= t.rank
    BY <1>2, <1>3, <1>4, <2>3
  <2> QED
    BY <1>1, <1>7, <2>4, <2>5 DEF IsBest
<1> QED
  BY <1>6, <1>7

Ranked(sessions) ==
    \A s, t \in sessions : s.rank \in Nat /\ (s.rank = t.rank => s = t)

(* Two numbers, each at most the other. *)
LEMMA AtMostEachOther == \A a, b \in Nat : a <= b /\ b <= a => a = b
OBVIOUS

(* The order in which sessions are listed does not decide which is used.   *)
LEMMA OrderDoesNotMatter ==
  ASSUME NEW S, Ranked(S),
         NEW first \in Seq(S), NEW second \in Seq(S), ToSet(first) \in {S, {}},
         ToSet(second) \in {S, {}}, NEW field,
         sessionValue(first, field) # "", sessionValue(second, field) # ""
  PROVE  sessionValue(first, field) = sessionValue(second, field)
<1>0. \A s, t \in S : s.rank \in Nat /\ (s.rank = t.rank => s = t)
  BY DEF Ranked
<1>1. PICK s : IsBest(s, ToSet(first), field) /\ sessionValue(first, field) = Field(s, field)
  BY <1>0, BestIsUsed
<1>2. PICK t : IsBest(t, ToSet(second), field) /\ sessionValue(second, field) = Field(t, field)
  BY <1>0, BestIsUsed
<1>3. ToSet(first) = S /\ ToSet(second) = S
  BY <1>1, <1>2 DEF IsBest
<1>4. s \in S /\ t \in S /\ s.rank <= t.rank /\ t.rank <= s.rank
  BY <1>1, <1>2, <1>3 DEF IsBest
<1>5. s.rank \in Nat /\ t.rank \in Nat
  BY <1>0, <1>4
<1>7. s.rank = t.rank
  BY <1>4, <1>5, AtMostEachOther, Zenon
<1> QED
  BY <1>0, <1>1, <1>2, <1>4, <1>7

(* Two messages of an exchange have the same subject, if both have one. *)
InExchange(x) ==
    /\ x.phase \in Phases /\ x.msg \in Messages(x.phase)
    /\ \E configured \in BOOLEAN : x.st \in StoresWhen(configured)

KnownSource(src) == src.kind \in {"cookie", "header", "session"}

ValueIn(src, x) == SourceValue(src, OwnHeaders(x), x.msg.sessions)

SourcesAgree(x, y) ==
    \A src : KnownSource(src) /\ ValueIn(src, x) # "" /\ ValueIn(src, y) # ""
                => ValueIn(src, x) = ValueIn(src, y)

(* A source has one value in all the messages of an exchange that have it. *)
LEMMA SameSource ==
  ASSUME NEW H, NEW S, OneExchange(H, S), NEW x, NEW y, InExchange(x), InExchange(y)
  PROVE  SourcesAgree(x, y)
<1> SUFFICES ASSUME NEW src, KnownSource(src), ValueIn(src, x) # "",
                    ValueIn(src, y) # ""
             PROVE  ValueIn(src, x) = ValueIn(src, y)
  BY DEF SourcesAgree
<1>1. /\ OwnHeaders(x) \in {H, << >>} /\ OwnHeaders(y) \in {H, << >>}
      /\ x.msg.sessions \in Seq(S) /\ ToSet(x.msg.sessions) \in {S, {}}
      /\ y.msg.sessions \in Seq(S) /\ ToSet(y.msg.sessions) \in {S, {}}
  BY DEF InExchange, OneExchange, OwnHeaders
<1>2. CASE src.kind = "session"
  <2>1. \A headers, sessions : SourceValue(src, headers, sessions) = sessionValue(sessions, src.name)
    BY <1>2 DEF SourceValue
  <2>2. Ranked(S)
    BY DEF OneExchange, Ranked
  <2> DEFINE first == x.msg.sessions
             second == y.msg.sessions
  <2>3. /\ first \in Seq(S) /\ ToSet(first) \in {S, {}}
        /\ second \in Seq(S) /\ ToSet(second) \in {S, {}}
    BY <1>1
  <2>4. sessionValue(first, src.name) # "" /\ sessionValue(second, src.name) # ""
    BY <2>1 DEF ValueIn
  <2> HIDE DEF first, second, ValueIn
  <2>5. sessionValue(first, src.name) = sessionValue(second, src.name)
    BY <2>2, <2>3, <2>4, OrderDoesNotMatter
  <2> QED
    BY <2>1, <2>5 DEF first, second, ValueIn
<1>3. CASE src.kind = "cookie"
  <2>1. \A headers, sessions : SourceValue(src, headers, sessions) = cookieValue(headers, src.name)
    BY <1>3 DEF SourceValue
  <2> QED
    BY <1>1, <2>1, NothingInNoHeaders DEF ValueIn
<1>4. CASE src.kind = "header"
  <2>1. \A headers, sessions : SourceValue(src, headers, sessions) = headerValue(headers, src.name)
    BY <1>4 DEF SourceValue
  <2> QED
    BY <1>1, <2>1, NothingInNoHeaders DEF ValueIn
<1> QED
  BY <1>2, <1>3, <1>4 DEF KnownSource

(* Two messages of an exchange do not have different subjects on an axis. *)
LEMMA SameSubject ==
  ASSUME NEW H, NEW S, OneExchange(H, S), NEW x, NEW y, InExchange(x), InExchange(y),
         x.phase = "request", NEW c, ValidCounters(c), NEW client, NEW ref \in Kinds(c),
         NEW j \in SubjectOf(c, client, x, ref), NEW k \in SubjectOf(c, client, y, ref)
  PROVE  j = k
<1>0. SourcesAgree(x, y)
  BY SameSource
<1>1. /\ j \in Whose(c, client, OwnHeaders(x), x.msg.sessions, ConnOf(x), ref)
      /\ k \in Whose(c, client, OwnHeaders(y), y.msg.sessions, ConnOf(y), ref)
  <2>1. j \in SubjectOf(c, client, x, ref) /\ k \in SubjectOf(c, client, y, ref)
    OBVIOUS
  <2> QED
    BY <2>1, SubjectIs
<1>2. /\ ref[2] \in KnownAxes
      /\ ref[2] = "user" => SplitFrom(UserFrom(c, ref[1]))
  BY KindsAreValid
<1>3. CASE ref[2] \in {"sess", "user"}
  <2> DEFINE src == SourceOf(c, ref)
             v == SourceValue(src, OwnHeaders(x), x.msg.sessions)
             w == SourceValue(src, OwnHeaders(y), y.msg.sessions)
  <2>1. v # "" /\ w # "" /\ j = subjectHash(v) /\ k = subjectHash(w)
    BY <1>1, <1>3 DEF Whose
  <2>2. KnownSource(src)
    BY <1>2, <1>3 DEF KnownSource, SourceOf, SplitFrom, Cookie
  <2> HIDE DEF src
  <2>3. ValueIn(src, x) # "" /\ ValueIn(src, y) # ""
    BY <2>1 DEF ValueIn
  <2>4. ValueIn(src, x) = ValueIn(src, y)
    BY <1>0, <2>2, <2>3 DEF SourcesAgree
  <2>5. v = w
    BY <2>4 DEF ValueIn
  <2> QED
    BY <2>1, <2>5
<1>4. CASE ref[2] \notin {"sess", "user"}
  <2>1. j \in WhoseAddress(client, "", ref[2]) /\ k \in WhoseAddress(client, ConnOf(y), ref[2])
    BY <1>1, <1>4 DEF Whose, ConnOf
  <2>2. ref[2] # "conn"
    BY <2>1 DEF WhoseAddress
  <2>3. \/ ref[2] = "ip" /\ j = IPKey(client.ip) /\ k = IPKey(client.ip)
        \/ ref[2] = "asn_net" /\ j = NetKey(client.network) /\ k = NetKey(client.network)
        \/ ref[2] = "asn_router" /\ j = RouterKey(client.router) /\ k = RouterKey(client.router)
    <3>1. ref[2] \in {"ip", "asn_net", "asn_router"}
      BY <1>2, <1>4, <2>2 DEF KnownAxes
    <3>2. CASE ref[2] = "ip"
      BY <2>1, <3>2 DEF WhoseAddress
    <3>3. CASE ref[2] = "asn_net"
      BY <2>1, <3>3 DEF WhoseAddress
    <3>4. CASE ref[2] = "asn_router"
      BY <2>1, <3>4 DEF WhoseAddress
    <3> QED
      BY <3>1, <3>2, <3>3, <3>4
  <2> QED
    BY <2>3
<1> QED
  BY <1>3, <1>4

(* What is due is due to a subject of the message. *)
LEMMA DueToSubjects ==
  ASSUME NEW g, NEW client, NEW x, NEW ch \in Due(g, client, x)
  PROVE  ch.key \in SubjectOf(g.counters, client, x, ch.kind)
<1>1. ch \in Due(g, client, x)
  OBVIOUS
<1>2. IsDueValue(ch, g, client, x) \/ IsDueNote(ch, g, client, x)
  BY <1>1, DueOneByOne, Zenon
<1>3. CASE IsDueValue(ch, g, client, x)
  BY <1>3 DEF IsDueValue
<1>4. CASE IsDueNote(ch, g, client, x)
  BY <1>4 DEF IsDueNote
<1> QED
  BY <1>2, <1>3, <1>4

(* Whoever was judged under the counters in force was a subject of a       *)
(* request of this exchange; what was charged last was due to the message. *)
RequestOf(j, c, client) ==
    \E x : /\ InExchange(x) /\ x.phase = "request"
          /\ j[2] \in SubjectOf(c, client, x, j[1])

Traced ==
    /\ store \in BOOLEAN
    /\ \A j \in judged : /\ j[1] \in Kinds(snap.counters)
                         /\ RequestOf(j, snap.counters, who)
    /\ last = Blank \/ (InExchange(last) /\ last.charges \subseteq Due(snap, who, last))

(* Each step leaves the judged and the charged traceable to their          *)
(* messages.                                                               *)
LEMMA TracedKept ==
  ASSUME Vetted, Fresh, Traced, [Next]_vars
  PROVE  (Fresh /\ Traced)'
<1>1. ASSUME NEW g, Reload(g) PROVE (Fresh /\ Traced)'
  BY <1>1 DEF Reload, Fresh, Traced, wiring
<1>2. ASSUME NEW phase \in Phases, NEW m, NEW st, NEW code, NEW reads, NEW charges,
             Handled(phase, m, st, code, reads, charges)
      PROVE  (Fresh /\ Traced)'
  <2>1. /\ last' = [phase |-> phase, msg |-> m, st |-> st, code |-> code, reads |-> reads,
                    charges |-> charges]
        /\ snap' = snap /\ who' = who /\ store' = store /\ stage' \in {"passed", "done"}
        /\ judged' = IF phase = "request" THEN judged \union reads ELSE judged
    BY <1>2 DEF Handled, Answer, wiring
  <2>2. Concerns(last', phase, m, st) /\ last'.charges = charges /\ last'.phase = phase
    BY <2>1 DEF Concerns
  <2>3. InExchange(last')
    <3>1. last'.phase = phase /\ last'.msg = m /\ last'.st = st
      BY <2>1
    <3>2. m \in Messages(phase) /\ st \in StoresWhen(store)
      BY <1>2 DEF Handled, Stores
    <3> QED
      BY <3>1, <3>2 DEF InExchange, Traced
  <2>4. /\ \A r \in reads : r[2] \in SubjectOf(snap.counters, who, last', r[1])
        /\ charges \subseteq Due(snap, who, last')
    BY <1>2, <2>2 DEF Handled, InFull
  <2>5. \A r \in reads : r[1] \in Kinds(snap.counters)
    BY <1>2 DEF Handled, Lawful
  <2>6. ASSUME phase = "request", NEW r \in reads PROVE RequestOf(r, snap.counters, who)
    BY <2>2, <2>3, <2>4, <2>6 DEF RequestOf
  <2>7. \A j \in judged' : j[1] \in Kinds(snap.counters) /\ RequestOf(j, snap.counters, who)
    BY <2>1, <2>5, <2>6 DEF Traced
  <2>8. InExchange(last') /\ last'.charges \subseteq Due(snap, who, last')
    BY <2>2, <2>3, <2>4
  <2>9. Traced'
    BY <2>1, <2>7, <2>8 DEF Traced
  <2> QED
    BY <2>1, <2>9 DEF Fresh, Phases
<1>3. CASE Proceed
  BY <1>3 DEF Proceed, Fresh, Traced, wiring
<1>4. CASE UNCHANGED vars
  BY <1>4 DEF vars, Fresh, Traced, wiring
<1> QED
  BY <1>1, <1>2, <1>3, <1>4, Moves DEF Handles

(* Who was judged is who is charged: the subject whose bucket the request  *)
(* was judged by is the one its response, or a frame, charges under the    *)
(* same counters, although it is found from another locator and the        *)
(* sessions may be listed in another order.                                *)
THEOREM WhoIsJudgedIsCharged ==
  ASSUME NEW H, NEW S, OneExchange(H, S)
  PROVE  Spec => []JudgedIsCharged
<1>1. Init => Vetted /\ Fresh /\ Traced
  BY VettedAtStart DEF Init, Traced
<1>2. Vetted /\ Fresh /\ Traced /\ [Next]_vars => (Vetted /\ Fresh /\ Traced)'
  BY VettedKept, TracedKept
<1>3. Vetted /\ Traced => JudgedIsCharged
  <2> SUFFICES ASSUME Vetted, Traced, NEW j \in judged, NEW ch \in last.charges,
                      last.phase # "request", ch.kind = j[1]
               PROVE  ch.key = j[2]
    BY DEF JudgedIsCharged
  <2>1. last # Blank
    <3>1. ch \in last.charges
      OBVIOUS
    <3>2. Blank.charges = {}
      BY DEF Blank
    <3> QED
      BY <3>1, <3>2
  <2>2. InExchange(last) /\ ch.key \in SubjectOf(snap.counters, who, last, j[1])
    BY <2>1, DueToSubjects DEF Traced
  <2>3. j[1] \in Kinds(snap.counters) /\ ValidCounters(snap.counters)
    BY DEF Traced, Vetted
  <2>4. PICK x : /\ InExchange(x) /\ x.phase = "request"
                /\ j[2] \in SubjectOf(snap.counters, who, x, j[1])
    BY DEF Traced, RequestOf
  <2> QED
    BY <2>2, <2>3, <2>4, SameSubject
<1> QED
  BY <1>1, <1>2, <1>3, PTL DEF Spec
=============================================================================
