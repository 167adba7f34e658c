----------------------------- MODULE RedisProofs -----------------------------
(***************************************************************************)
(* Theorems about RedisBuckets, for every tier, any set of calls that      *)
(* overlap and fail, and any amounts below what has leaked since the       *)
(* epoch.                                                                  *)
(***************************************************************************)
EXTENDS RedisBuckets, Lemmas, FiniteSetTheorems, TLAPS

(* The constants of the bucket: it holds something, it leaks, and a key    *)
(* lives for at least a second.                                            *)
LEMMA TierFacts ==
  /\ tier.Max \in Nat /\ tier.Max > 0
  /\ Rate \in Nat
  /\ lifetime(tier) \in Nat /\ lifetime(tier) > 0
  /\ lifetime(tier) = 100 \div tier.Loss
<1>1. tier \in Tier /\ tier.Max \in Nat /\ tier.Max > 0
  BY RedisAssumption DEF WholeTier, Tier, Enabled
<1> QED
  BY <1>1, RedisAssumption, RateType, DrainTime DEF Rate
-----------------------------------------------------------------------------
(* What a call has in hand at each of its steps. *)
Control(c) ==
    /\ pc[c] # "idle" => at[c] \in Nat /\ at[c] <= now
    /\ pc[c] \in {"idle", "setnx", "incr", "get"} => raw[c] = Nil
    /\ pc[c] \in {"setnx", "incr", "pexpire"} => Charged(c)
    /\ pc[c] = "get" => ~Charged(c)
    /\ pc[c] \in {"pexpire", "settle"} /\ Charged(c) => raw[c] # Nil
    /\ pc[c] = "fix" => NeedsFix(c)

(* The exact level as it would be stored: it does not fall as time passes. *)
Exact == Rate * now + ideal

(* What is stored, and what a correction under way is going to store, is   *)
(* at most that.                                                           *)
Bounded ==
    /\ val # Nil => val <= Exact
    /\ \A c \in Callers : NeedsFix(c) => Stored(tier, at[c], settled(c)) <= Exact

(* A call that charged was told at least its own charge. *)
ToldOwn ==
    \A c \in Callers :
       reported[c] # Nil /\ Charged(c) => reported[c] >= clamp(delta[c], 0, tier.Max)

RedisInv ==
    /\ TypeOK
    /\ now >= Start
    /\ \A c \in Callers : Control(c)
    /\ Bounded
    /\ ToldOwn

(* A call starts from, and leaves, no correction behind. *)
LEMMA InitRedis == Init => RedisInv
<1> SUFFICES ASSUME Init PROVE RedisInv
  OBVIOUS
<1> USE RedisAssumption
<1>1. TypeOK
  BY DEF Init, TypeOK, Forever
<1>2. \A c \in Callers : Control(c) /\ ~NeedsFix(c)
  BY DEF Init, Control, NeedsFix
<1> QED
  BY <1>1, <1>2 DEF Init, RedisInv, Bounded, ToldOwn

(* What a call makes of its raw value is a level, and one that holds its   *)
(* own charge.                                                             *)
LEMMA SettledFacts ==
  ASSUME TypeOK, NEW c \in Callers, Control(c), pc[c] \in {"settle", "fix"}
  PROVE  /\ settled(c) \in 0..tier.Max
         /\ Charged(c) => settled(c) >= clamp(delta[c], 0, tier.Max)
<1>1. delta[c] # Nil => delta[c] \in Int
  BY RedisAssumption DEF TypeOK
<1>2. raw[c] # Nil => raw[c] \in Int /\ eff(c) \in Int
  <2> SUFFICES ASSUME raw[c] # Nil PROVE raw[c] \in Int /\ eff(c) \in Int
    OBVIOUS
  <2>1. raw[c] \in Int /\ at[c] \in Nat
    BY DEF TypeOK, Control
  <2> QED
    BY <2>1, TierFacts DEF eff, Effective, Rate
<1>3. CASE raw[c] = Nil
  BY <1>3, TierFacts DEF settled, Control, NeedsFix
<1>4. CASE raw[c] # Nil /\ Drained(c)
  <2>1. delta[c] \in Int
    BY <1>4, <1>1 DEF Drained, Charged
  <2>2. settled(c) = clamp(delta[c], 0, tier.Max)
    BY <1>4 DEF settled
  <2> QED
    BY <2>1, <2>2, TierFacts DEF clamp
<1>5. CASE raw[c] # Nil /\ ~Drained(c)
  <2>1. settled(c) = clamp(eff(c), 0, tier.Max)
    BY <1>5 DEF settled
  <2>2. Charged(c) => delta[c] \in Int /\ delta[c] <= eff(c)
    BY <1>5, <1>1, <1>2 DEF Drained, Charged
  <2> QED
    BY <2>1, <2>2, <1>2, <1>5, TierFacts DEF clamp
<1> QED
  BY <1>3, <1>4, <1>5

(* A charge moves the exact level by no less than its amount. *)
LEMMA ChargeFacts ==
  ASSUME TypeOK, NEW c \in Callers, Charged(c)
  PROVE  /\ afterCharge(c) \in Nat
         /\ afterCharge(c) >= ideal + delta[c]
         /\ delta[c] >= 0 \/ Overlapped(c) => afterCharge(c) >= ideal
<1>1. delta[c] \in Int /\ ideal \in Nat
  BY RedisAssumption DEF TypeOK, Charged
<1>2. CASE delta[c] >= 0
  BY <1>1, <1>2 DEF afterCharge
<1>3. CASE delta[c] < 0 /\ Overlapped(c)
  BY <1>1, <1>3 DEF afterCharge
<1>4. CASE delta[c] < 0 /\ ~Overlapped(c)
  BY <1>1, <1>4 DEF afterCharge
<1> QED
  BY <1>1, <1>2, <1>3, <1>4

(* Every step keeps the types. *)
LEMMA NextRedisType == RedisInv /\ [Next]_vars => TypeOK' /\ now' >= Start
<1> SUFFICES ASSUME RedisInv, [Next]_vars PROVE TypeOK' /\ now' >= Start
  OBVIOUS
<1>a. TypeOK /\ now >= Start /\ \A c \in Callers : Control(c)
  BY DEF RedisInv
<1>b. now + lifetime(tier) \in Nat /\ now + 1 \in Nat
  BY <1>a, TierFacts DEF TypeOK
<1> USE <1>a, RedisAssumption DEF TypeOK
<1>1. ASSUME NEW c \in Callers, NEW d \in Amounts \union {Nil}, Begin(c, d)
      PROVE  TypeOK' /\ now' >= Start
  BY <1>1 DEF Begin
<1>2. ASSUME NEW c \in Callers, SetNX(c) PROVE TypeOK' /\ now' >= Start
  <2>1. Stored(tier, at[c], 0) \in Int
    BY <1>2, TierFacts DEF SetNX, Stored, Control, Rate
  <2> QED
    BY <1>2, <1>b, <2>1 DEF SetNX, Set, GoOn
<1>3. ASSUME NEW c \in Callers, IncrByFloat(c) PROVE TypeOK' /\ now' >= Start
  <2>1. Charged(c)
    BY <1>3 DEF IncrByFloat, Control
  <2>2. delta[c] \in Int
    BY <2>1 DEF Charged
  <2>3. val' \in Int
    BY <1>3, <2>2 DEF IncrByFloat
  <2>4. ideal' \in Nat
    BY <1>3, <2>1, ChargeFacts DEF IncrByFloat
  <2> QED
    BY <1>3, <2>3, <2>4 DEF IncrByFloat
<1>4. ASSUME NEW c \in Callers, PExpire(c) PROVE TypeOK' /\ now' >= Start
  BY <1>4, <1>b DEF PExpire, PipelineEnds, GoOn, Over
<1>5. ASSUME NEW c \in Callers, Get(c) PROVE TypeOK' /\ now' >= Start
  <2>1. CASE heard[c] /\ raw' = [raw EXCEPT ![c] = val]
                      /\ pc' = [pc EXCEPT ![c] = "settle"] /\ UNCHANGED << at, heard >>
    BY <2>1, <1>5 DEF Get
  <2>2. CASE Over(c)
    BY <2>2, <1>5 DEF Get, Over
  <2> QED
    BY <2>1, <2>2, <1>5 DEF Get
<1>6. ASSUME NEW c \in Callers, Settle(c) PROVE TypeOK' /\ now' >= Start
  <2>1. settled(c) \in 0..tier.Max
    BY <1>6, SettledFacts DEF Settle
  <2>2. CASE GoOn(c, "fix") /\ UNCHANGED reported
    BY <2>2, <1>6 DEF Settle, GoOn
  <2>3. CASE Over(c) /\ reported' = [reported EXCEPT ![c] = settled(c)]
    BY <2>1, <2>3, <1>6 DEF Settle, Over
  <2> QED
    BY <2>2, <2>3, <1>6 DEF Settle
<1>7. ASSUME NEW c \in Callers, Fix(c) PROVE TypeOK' /\ now' >= Start
  <2>1. settled(c) \in 0..tier.Max
    BY <1>7, SettledFacts DEF Fix
  <2>2. Stored(tier, at[c], settled(c)) \in Int
    BY <1>7, <2>1, TierFacts DEF Fix, Stored, Control, Rate
  <2> QED
    BY <1>7, <1>b, <2>1, <2>2 DEF Fix, Set, Over
<1>8. ASSUME NEW c \in Callers, ConnectionLost(c) PROVE TypeOK' /\ now' >= Start
  BY <1>8 DEF ConnectionLost, Over
<1>9. ASSUME NEW c \in Callers, TimedOut(c) PROVE TypeOK' /\ now' >= Start
  BY <1>9 DEF TimedOut
<1>10. CASE Tick
  BY <1>10, TierFacts DEF Tick
<1>11. CASE UNCHANGED vars
  BY <1>11 DEF vars
<1> QED
  BY <1>1, <1>2, <1>3, <1>4, <1>5, <1>6, <1>7, <1>8, <1>9, <1>10, <1>11
     DEF Next, Step, Terminated

(* What a call has in hand stays as it is while others move. *)
LEMMA OthersControl ==
  ASSUME NEW o \in Callers, Control(o), now \in Nat, now' \in Nat, now' >= now,
         at'[o] = at[o], raw'[o] = raw[o], delta'[o] = delta[o], pc'[o] = pc[o]
  PROVE  Control(o)' /\ (NeedsFix(o)' <=> NeedsFix(o)) /\ settled(o)' = settled(o)
<1>1. (NeedsFix(o)' <=> NeedsFix(o)) /\ settled(o)' = settled(o) /\ (Charged(o)' <=> Charged(o))
  BY DEF NeedsFix, settled, Charged, Drained, eff
<1> QED
  BY <1>1 DEF Control

(* Every step of a call moves it to where it has what it needs. *)
LEMMA NextControl == RedisInv /\ [Next]_vars => \A c \in Callers : Control(c)'
<1> SUFFICES ASSUME RedisInv, [Next]_vars, NEW o \in Callers PROVE Control(o)'
  OBVIOUS
<1>a. TypeOK /\ Control(o)
  BY DEF RedisInv
<1>b. now \in Nat /\ now' \in Nat /\ now' >= now
  <2>1. UNCHANGED now \/ now' = now + 1
    BY DEF Next, Step, Begin, SetNX, IncrByFloat, PExpire, Get, Settle, Fix, ConnectionLost,
           TimedOut, Tick, Terminated, vars
  <2> QED
    BY <2>1, <1>a DEF TypeOK
<1>c. CASE at'[o] = at[o] /\ raw'[o] = raw[o] /\ delta'[o] = delta[o] /\ pc'[o] = pc[o]
  BY <1>c, <1>a, <1>b, OthersControl
<1> USE <1>a, <1>b, RedisAssumption DEF TypeOK
<1>1. ASSUME NEW c \in Callers, NEW d \in Amounts \union {Nil}, Begin(c, d)
      PROVE  Control(o)'
  <2>1. CASE o = c
    BY <1>1, <2>1 DEF Begin, Control, Charged, NeedsFix
  <2> QED
    BY <1>1, <2>1, <1>c DEF Begin
<1>2. ASSUME NEW c \in Callers, SetNX(c) PROVE Control(o)'
  <2>1. CASE o = c
    BY <1>2, <2>1 DEF SetNX, GoOn, Control, Charged, NeedsFix
  <2> QED
    BY <1>2, <2>1, <1>c DEF SetNX, GoOn
<1>3. ASSUME NEW c \in Callers, IncrByFloat(c) PROVE Control(o)'
  <2>1. CASE o = c
    <3>1. delta[c] \in Int
      BY <1>3, <2>1 DEF IncrByFloat, Control, Charged
    <3>2. val' \in Int
      BY <1>3, <3>1 DEF IncrByFloat
    <3> QED
      BY <1>3, <2>1, <3>2 DEF IncrByFloat, Control, Charged, NeedsFix
  <2> QED
    BY <1>3, <2>1, <1>c DEF IncrByFloat
<1>4. ASSUME NEW c \in Callers, PExpire(c) PROVE Control(o)'
  <2>1. CASE o = c
    <3>1. CASE GoOn(c, "settle")
      BY <1>4, <2>1, <3>1 DEF PExpire, GoOn, Control, Charged, NeedsFix
    <3>2. CASE Over(c)
      BY <1>4, <2>1, <3>2 DEF PExpire, Over, Control, Charged, NeedsFix
    <3> QED
      BY <1>4, <3>1, <3>2 DEF PExpire, PipelineEnds
  <2> QED
    BY <1>4, <2>1, <1>c DEF PExpire, PipelineEnds, GoOn, Over
<1>5. ASSUME NEW c \in Callers, Get(c) PROVE Control(o)'
  <2>1. CASE o = c
    <3>1. CASE raw' = [raw EXCEPT ![c] = val] /\ pc' = [pc EXCEPT ![c] = "settle"]
               /\ UNCHANGED << at, heard >>
      BY <1>5, <2>1, <3>1 DEF Get, Control, Charged, NeedsFix
    <3>2. CASE Over(c)
      BY <1>5, <2>1, <3>2 DEF Get, Over, Control, Charged, NeedsFix
    <3> QED
      BY <1>5, <3>1, <3>2 DEF Get
  <2> QED
    BY <1>5, <2>1, <1>c DEF Get, Over
<1>6. ASSUME NEW c \in Callers, Settle(c) PROVE Control(o)'
  <2>1. CASE o = c
    <3>1. CASE NeedsFix(c) /\ GoOn(c, "fix")
      BY <1>6, <2>1, <3>1 DEF Settle, GoOn, Control, Charged, NeedsFix, Drained, eff
    <3>2. CASE Over(c)
      BY <1>6, <2>1, <3>2 DEF Settle, Over, Control, Charged, NeedsFix
    <3> QED
      BY <1>6, <3>1, <3>2 DEF Settle
  <2> QED
    BY <1>6, <2>1, <1>c DEF Settle, GoOn, Over
<1>7. ASSUME NEW c \in Callers, Fix(c) PROVE Control(o)'
  <2>1. CASE o = c
    BY <1>7, <2>1 DEF Fix, Over, Control, Charged, NeedsFix
  <2> QED
    BY <1>7, <2>1, <1>c DEF Fix, Over
<1>8. ASSUME NEW c \in Callers, ConnectionLost(c) PROVE Control(o)'
  <2>1. CASE o = c
    BY <1>8, <2>1 DEF ConnectionLost, Over, Control, Charged, NeedsFix
  <2> QED
    BY <1>8, <2>1, <1>c DEF ConnectionLost, Over
<1>9. ASSUME NEW c \in Callers, TimedOut(c) PROVE Control(o)'
  BY <1>9, <1>c DEF TimedOut
<1>10. CASE Tick
  BY <1>10, <1>c DEF Tick
<1>11. CASE UNCHANGED vars
  BY <1>11, <1>c DEF vars
<1> QED
  BY <1>1, <1>2, <1>3, <1>4, <1>5, <1>6, <1>7, <1>8, <1>9, <1>10, <1>11
     DEF Next, Step, Terminated

(* All that leaked until a call began has leaked by now. *)
LEMMA ExactFacts ==
  ASSUME TypeOK, now >= Start
  PROVE  /\ Exact \in Nat /\ Rate * now \in Nat
         /\ Rate * now <= Exact
         /\ \A a \in Nat : a <= now => Rate * a \in Nat /\ Rate * a <= Rate * now
         /\ \A a \in Amounts : a <= Rate * now
<1>1. now \in Nat /\ ideal \in Nat /\ Start \in Nat /\ Rate \in Nat /\ Amounts \subseteq Int
  BY RedisAssumption, TierFacts DEF TypeOK
<1>2. \A a \in Nat : a <= now => Rate * a \in Nat /\ Rate * a <= Rate * now
  BY <1>1, MulMono
<1>3. Rate * now \in Nat
  BY <1>1, <1>2
<1>4. \A a \in Amounts : a <= Rate * now
  BY <1>1, <1>2, <1>3, RedisAssumption
<1> QED
  BY <1>1, <1>2, <1>3, <1>4 DEF Exact

(* The exact level as stored does not fall by a step other than a credit   *)
(* that no correction overlaps.                                            *)
LEMMA ExactGrows ==
  ASSUME RedisInv, [Next]_vars, TypeOK'
  PROVE  Exact' >= Exact \/ \E c \in Callers : IncrByFloat(c) /\ ~Overlapped(c) /\ delta[c] < 0
<1>a. now \in Nat /\ ideal \in Nat /\ ideal' \in Nat /\ Rate \in Nat
  BY TierFacts DEF RedisInv, TypeOK
<1>c. Rate * now \in Nat
  BY ExactFacts DEF RedisInv
<1>b. ASSUME UNCHANGED << now, ideal >> PROVE Exact' >= Exact
  BY <1>a, <1>b DEF Exact
<1>1. CASE Tick
  <2>1. now' = now + 1 /\ ideal' = IF ideal > Rate THEN ideal - Rate ELSE 0
    BY <1>1 DEF Tick
  <2>2. Rate * (now + 1) = Rate * now + Rate
    BY <1>a
  <2> QED
    BY <1>a, <2>1, <2>2 DEF Exact
<1>2. ASSUME NEW c \in Callers, IncrByFloat(c), Overlapped(c) \/ ~(delta[c] < 0)
      PROVE  Exact' >= Exact
  <2>1. Charged(c) /\ TypeOK
    BY <1>2 DEF RedisInv, IncrByFloat, Control
  <2>2. delta[c] \in Int
    BY <2>1, RedisAssumption DEF TypeOK, Charged
  <2>3. ideal' >= ideal /\ now' = now
    BY <1>2, <2>1, <2>2, ChargeFacts DEF IncrByFloat
  <2>4. ideal \in Nat /\ ideal' \in Nat
    BY <1>a
  <2>5. Rate * now + ideal' >= Rate * now + ideal
    BY <1>c, <2>3, <2>4
  <2> QED
    BY <2>3, <2>5 DEF Exact
<1>3. CASE UNCHANGED << now, ideal >>
  BY <1>b, <1>3
<1> QED
  BY <1>1, <1>2, <1>3
     DEF Next, Step, Begin, SetNX, PExpire, Get, Settle, Fix, ConnectionLost, TimedOut,
         Terminated, vars

(* The corrections under way stay below the exact level: a step that       *)
(* lowers it finds none.                                                   *)
LEMMA FixesBounded ==
  ASSUME RedisInv, [Next]_vars, TypeOK', NEW o \in Callers,
         at'[o] = at[o], raw'[o] = raw[o], delta'[o] = delta[o]
  PROVE  NeedsFix(o)' => Stored(tier, at'[o], settled(o)') <= Exact'
<1> SUFFICES ASSUME NeedsFix(o)' PROVE Stored(tier, at'[o], settled(o)') <= Exact'
  OBVIOUS
<1>1. NeedsFix(o) /\ settled(o)' = settled(o)
  BY DEF NeedsFix, settled, Charged, Drained, eff
<1>2. Stored(tier, at[o], settled(o)) <= Exact
  BY <1>1 DEF RedisInv, Bounded
<1>3. Stored(tier, at[o], settled(o)) \in Int
  <2>1. Control(o) /\ TypeOK
    BY DEF RedisInv
  <2>2. at[o] \in Nat /\ raw[o] \in Int /\ delta[o] \in Int /\ tier.Max \in Nat /\ Rate \in Nat
    BY <1>1, <2>1, TierFacts, RedisAssumption DEF TypeOK, Control, NeedsFix, Charged
  <2>3. Rate * at[o] \in Int
    BY <2>2
  <2>4. settled(o) \in Int
    <3>1. eff(o) \in Int
      BY <2>2, <2>3 DEF eff, Effective, Rate
    <3>2. clamp(eff(o), 0, tier.Max) \in Int /\ clamp(delta[o], 0, tier.Max) \in Int
      BY <3>1, <2>2 DEF clamp
    <3> QED
      BY <1>1, <3>2 DEF settled, NeedsFix
  <2> QED
    BY <2>3, <2>4 DEF Stored, Rate
<1>4. Exact \in Int /\ Exact' \in Int
  <2>1. now \in Nat /\ now' \in Nat /\ ideal \in Nat /\ ideal' \in Nat /\ Rate \in Nat
    BY TierFacts DEF RedisInv, TypeOK
  <2>2. Rate * now \in Int /\ Rate * now' \in Int
    BY <2>1
  <2> QED
    BY <2>1, <2>2 DEF Exact
<1>5. CASE Exact' >= Exact
  BY <1>1, <1>2, <1>3, <1>4, <1>5
<1>6. ASSUME NEW c \in Callers, IncrByFloat(c), ~Overlapped(c) PROVE FALSE
  <2>1. o # c
    <3>1. raw[c] = Nil
      BY <1>6 DEF RedisInv, IncrByFloat, Control
    <3> QED
      BY <3>1, <1>1 DEF NeedsFix
  <2> QED
    BY <2>1, <1>1, <1>6 DEF Overlapped
<1> QED
  BY <1>5, <1>6, ExactGrows

(* What Redis keeps stays below the exact level. *)
LEMMA NextBounded == RedisInv /\ [Next]_vars => Bounded'
<1> SUFFICES ASSUME RedisInv, [Next]_vars PROVE Bounded'
  OBVIOUS
<1>a. TypeOK /\ now >= Start /\ Bounded /\ \A c \in Callers : Control(c)
  BY DEF RedisInv
<1>b. TypeOK' /\ now' >= Start
  BY NextRedisType
<1>c. Exact \in Nat /\ Exact' \in Nat /\ Rate * now \in Nat /\ Rate * now <= Exact
  <2>1. ideal' \in Nat
    BY <1>b DEF TypeOK
  <2>2. Rate * now' \in Nat
    <3>1. now' \in Nat /\ Rate \in Nat /\ \A r, n \in Nat : r * n \in Nat
      BY <1>b, TierFacts DEF TypeOK
    <3> QED
      BY <3>1
  <2>3. Exact' = Rate * now' + ideal'
    BY DEF Exact
  <2>4. Rate * now' + ideal' \in Nat
    BY <2>1, <2>2
  <2>5. Exact' \in Nat
    BY <2>3, <2>4
  <2> QED
    BY <1>a, <2>5, ExactFacts
<1>d. ASSUME UNCHANGED val, Exact' >= Exact PROVE (val # Nil => val <= Exact)'
  <2>1. val # Nil => val \in Int
    BY <1>a DEF TypeOK
  <2> QED
    BY <1>a, <1>c, <1>d, <2>1 DEF Bounded
<1>e. ASSUME NEW c \in Callers, Over(c) PROVE ~NeedsFix(c)'
  BY <1>a, <1>e DEF Over, TypeOK, NeedsFix
<1>f. ASSUME NEW o \in Callers, at'[o] = at[o], raw'[o] = raw[o], delta'[o] = delta[o]
      PROVE  (NeedsFix(o) => Stored(tier, at[o], settled(o)) <= Exact)'
  BY <1>b, <1>f, FixesBounded
<1>1. ASSUME NEW c \in Callers, NEW d \in Amounts \union {Nil}, Begin(c, d)
      PROVE  Bounded'
  <2>1. ~NeedsFix(c)'
    BY <1>1, <1>a DEF Begin, NeedsFix, Control
  <2>2. Exact' = Exact /\ UNCHANGED val
    BY <1>1 DEF Begin, Exact
  <2>3. \A o \in Callers \ {c} : at'[o] = at[o] /\ raw'[o] = raw[o] /\ delta'[o] = delta[o]
    BY <1>1, <1>a DEF Begin, TypeOK
  <2> QED
    BY <1>c, <1>d, <1>f, <2>1, <2>2, <2>3 DEF Bounded
<1>2. ASSUME NEW c \in Callers, SetNX(c) PROVE Bounded'
  <2>1. Exact' = Exact
    BY <1>2 DEF SetNX, Exact
  <2>2. UNCHANGED << at, raw, delta >>
    BY <1>2 DEF SetNX, GoOn
  <2>3. (val # Nil => val <= Exact)'
    <3>1. CASE UNCHANGED val
      BY <1>c, <1>d, <2>1, <3>1
    <3>2. CASE val' = Stored(tier, at[c], 0)
      <4>1. at[c] \in Nat /\ at[c] <= now
        BY <1>2, <1>a DEF SetNX, Control
      <4>2. Rate * at[c] \in Nat /\ Rate * at[c] <= Rate * now
        BY <4>1, <1>a, ExactFacts
      <4>3. val' = Rate * at[c]
        BY <3>2, <4>2 DEF Stored, Rate
      <4> QED
        BY <1>c, <2>1, <4>2, <4>3
    <3> QED
      BY <1>2, <3>1, <3>2 DEF SetNX, Set
  <2> QED
    BY <1>f, <2>2, <2>3 DEF Bounded
<1>3. ASSUME NEW c \in Callers, IncrByFloat(c) PROVE Bounded'
  <2>1. Charged(c) /\ at[c] \in Nat /\ at[c] <= now
    BY <1>3, <1>a DEF IncrByFloat, Control
  <2>2. delta[c] \in Int /\ delta[c] \in Amounts
    BY <2>1, <1>a, RedisAssumption DEF TypeOK, Charged
  <2>3. Exact' >= Exact + delta[c]
    <3>1. ideal' >= ideal + delta[c] /\ now' = now
      BY <1>3, <1>a, <2>1, ChargeFacts DEF IncrByFloat
    <3>2. ideal' \in Nat /\ ideal \in Nat
      BY <1>a, <1>b DEF TypeOK
    <3>3. Rate * now + ideal' >= Rate * now + ideal + delta[c]
      BY <1>c, <2>2, <3>1, <3>2
    <3> QED
      BY <3>1, <3>3 DEF Exact
  <2>4. Rate * now <= Exact'
    <3>1. now' = now /\ ideal' \in Nat
      BY <1>3, <1>b DEF IncrByFloat, TypeOK
    <3> QED
      BY <3>1, <1>c DEF Exact
  <2>5. val' \in Int /\ val' <= Exact'
    <3>1. CASE val = Nil
      <4>1. val' = delta[c]
        BY <1>3, <2>2, <3>1 DEF IncrByFloat
      <4>2. delta[c] <= Rate * now
        BY <1>a, <2>2, ExactFacts
      <4> QED
        BY <1>c, <2>2, <2>4, <4>1, <4>2
    <3>2. CASE val # Nil
      <4>1. val \in Int /\ val' = val + delta[c] /\ val <= Exact
        BY <1>3, <1>a, <3>2 DEF IncrByFloat, TypeOK, Bounded
      <4> QED
        BY <1>c, <2>2, <2>3, <4>1
    <3> QED
      BY <3>1, <3>2
  <2>6. at'[c] = at[c] /\ delta'[c] = delta[c] /\ raw'[c] = val'
    BY <1>3, <1>a DEF IncrByFloat, TypeOK
  <2>7. Rate * at[c] \in Nat /\ Rate * at[c] <= Rate * now
    BY <1>a, <2>1, ExactFacts
  <2>8. (NeedsFix(c) => Stored(tier, at[c], settled(c)) <= Exact)'
    <3> SUFFICES ASSUME NeedsFix(c)' PROVE Rate * at[c] + settled(c)' <= Exact'
      BY <2>6 DEF Stored, Rate
    <3> DEFINE level == val' - Rate * at[c]
    <3>1. eff(c)' = level /\ level \in Int
      BY <2>5, <2>6, <2>7 DEF eff, Effective, Rate
    <3>2. CASE Drained(c)'
      <4>1. settled(c)' = clamp(delta[c], 0, tier.Max)
        BY <2>6, <3>2 DEF settled, NeedsFix
      <4>2. CASE delta[c] < 0
        <5>1. settled(c)' = 0
          BY <4>1, <4>2, TierFacts DEF clamp
        <5> QED
          BY <1>c, <2>4, <2>7, <5>1
      <4>3. CASE delta[c] >= 0
        <5>1. settled(c)' \in Nat /\ settled(c)' <= delta[c]
          BY <4>1, <4>3, <2>2, TierFacts DEF clamp
        <5>2. Rate * at[c] + delta[c] <= Exact + delta[c]
          BY <1>c, <2>2, <2>7
        <5> QED
          BY <1>c, <2>2, <2>3, <2>7, <5>1, <5>2
      <4> QED
        BY <2>2, <4>2, <4>3
    <3>3. CASE ~Drained(c)'
      <4>1. level > tier.Max
        BY <3>1, <3>3 DEF NeedsFix
      <4>2. settled(c)' = tier.Max
        BY <3>1, <3>3, <4>1, TierFacts DEF settled, NeedsFix, clamp
      <4>3. Rate * at[c] + tier.Max <= val'
        BY <4>1, <2>5, <2>7, TierFacts
      <4> QED
        BY <1>c, <2>5, <2>7, <4>2, <4>3, TierFacts
    <3> QED
      BY <3>2, <3>3
  <2>9. \A o \in Callers \ {c} : at'[o] = at[o] /\ raw'[o] = raw[o] /\ delta'[o] = delta[o]
    BY <1>3, <1>a DEF IncrByFloat, TypeOK
  <2> QED
    BY <1>f, <2>5, <2>8, <2>9 DEF Bounded
<1>4. ASSUME NEW c \in Callers, Over(c), UNCHANGED << now, ideal, delta >>,
             (val # Nil => val <= Exact)'
      PROVE  Bounded'
  <2>1. \A o \in Callers \ {c} : at'[o] = at[o] /\ raw'[o] = raw[o] /\ delta'[o] = delta[o]
    BY <1>4, <1>a DEF Over, TypeOK
  <2> QED
    BY <1>e, <1>f, <1>4, <2>1 DEF Bounded
<1>5. ASSUME NEW c \in Callers, PExpire(c) PROVE Bounded'
  <2>1. (val # Nil => val <= Exact)' /\ UNCHANGED << now, ideal, delta >>
    BY <1>5, <1>c, <1>d DEF PExpire, Exact
  <2> QED
    BY <1>5, <1>4, <1>f, <2>1 DEF PExpire, PipelineEnds, GoOn, Bounded
<1>6. ASSUME NEW c \in Callers, Get(c) PROVE Bounded'
  <2>1. (val # Nil => val <= Exact)' /\ UNCHANGED << now, ideal, delta >>
    BY <1>6, <1>c, <1>d DEF Get, Exact
  <2>2. CASE raw' = [raw EXCEPT ![c] = val] /\ UNCHANGED << at, heard >>
    <3>1. ~NeedsFix(c)'
      BY <1>6, <1>a, <2>1 DEF Get, Control, NeedsFix, Charged
    <3>2. \A o \in Callers \ {c} : at'[o] = at[o] /\ raw'[o] = raw[o] /\ delta'[o] = delta[o]
      BY <1>a, <2>1, <2>2 DEF TypeOK
    <3> QED
      BY <1>f, <2>1, <3>1, <3>2 DEF Bounded
  <2> QED
    BY <1>6, <1>4, <2>1, <2>2 DEF Get
<1>7. ASSUME NEW c \in Callers, Settle(c) PROVE Bounded'
  <2>1. (val # Nil => val <= Exact)' /\ UNCHANGED << now, ideal, delta >>
    BY <1>7, <1>c, <1>d DEF Settle, Exact
  <2> QED
    BY <1>7, <1>4, <1>f, <2>1 DEF Settle, GoOn, Bounded
<1>8. ASSUME NEW c \in Callers, Fix(c) PROVE Bounded'
  <2>1. NeedsFix(c) /\ val' = Stored(tier, at[c], settled(c))
    BY <1>8, <1>a DEF Fix, Set, Control
  <2>2. Exact' = Exact /\ Over(c) /\ UNCHANGED << now, ideal, delta >>
    BY <1>8 DEF Fix, Exact
  <2>3. (val # Nil => val <= Exact)'
    BY <1>a, <2>1, <2>2 DEF Bounded
  <2> QED
    BY <1>4, <2>2, <2>3
<1>9. ASSUME NEW c \in Callers, ConnectionLost(c) PROVE Bounded'
  <2>1. (val # Nil => val <= Exact)' /\ UNCHANGED << now, ideal, delta >>
    BY <1>9, <1>c, <1>d DEF ConnectionLost, Exact
  <2> QED
    BY <1>9, <1>4, <2>1 DEF ConnectionLost
<1>10. ASSUME UNCHANGED << at, raw, delta, val, now, ideal >> PROVE Bounded'
  <2>1. Exact' = Exact
    BY <1>10 DEF Exact
  <2> QED
    BY <1>10, <1>c, <1>d, <1>f, <2>1 DEF Bounded
<1>11. CASE Tick
  <2>1. Exact' >= Exact
    BY <1>b, <1>11, ExactGrows DEF Tick, IncrByFloat
  <2>2. (val # Nil => val <= Exact)'
    BY <1>11, <1>d, <2>1 DEF Tick
  <2> QED
    BY <1>11, <1>f, <2>2 DEF Tick, Bounded
<1> QED
  BY <1>1, <1>2, <1>3, <1>5, <1>6, <1>7, <1>8, <1>9, <1>10, <1>11
     DEF Next, Step, TimedOut, Terminated, vars

(* A call is told its own charge. *)
LEMMA NextToldOwn == RedisInv /\ [Next]_vars => ToldOwn'
<1> SUFFICES ASSUME RedisInv, [Next]_vars, NEW o \in Callers,
                    reported'[o] # Nil, Charged(o)'
             PROVE  reported'[o] >= clamp(delta'[o], 0, tier.Max)
  BY DEF ToldOwn
<1>a. TypeOK /\ ToldOwn /\ \A c \in Callers : Control(c)
  BY DEF RedisInv
<1>1. CASE reported'[o] = reported[o] /\ delta'[o] = delta[o]
  BY <1>1, <1>a DEF ToldOwn, Charged
<1>2. ASSUME NEW c \in Callers, NEW d \in Amounts \union {Nil}, Begin(c, d)
      PROVE  reported'[o] >= clamp(delta'[o], 0, tier.Max)
  <2>1. o # c
    BY <1>2, <1>a DEF Begin, TypeOK
  <2> QED
    BY <2>1, <1>1, <1>2, <1>a DEF Begin, TypeOK
<1>3. ASSUME NEW c \in Callers, Settle(c) \/ Fix(c)
      PROVE  reported'[o] >= clamp(delta'[o], 0, tier.Max)
  <2>1. UNCHANGED delta
    BY <1>3 DEF Settle, Fix
  <2>2. CASE o = c /\ reported'[o] # reported[o]
    <3>1. reported'[o] = settled(o)
      BY <1>3, <2>2, <1>a DEF Settle, Fix, TypeOK
    <3>2. pc[o] \in {"settle", "fix"} /\ Charged(o)
      BY <1>3, <2>1, <2>2 DEF Settle, Fix, Charged
    <3> QED
      BY <2>1, <3>1, <3>2, <1>a, SettledFacts
  <2>3. CASE o # c
    BY <1>1, <1>3, <1>a, <2>1, <2>3 DEF Settle, Fix, TypeOK
  <2> QED
    BY <1>1, <2>1, <2>2, <2>3
<1> QED
  BY <1>1, <1>2, <1>3
     DEF Next, Step, SetNX, IncrByFloat, PExpire, Get, ConnectionLost, TimedOut, Tick,
         Terminated, vars

(* The inductive invariant holds in every behaviour. *)
LEMMA RedisInvariant == Spec => []RedisInv
<1>1. RedisInv /\ [Next]_vars => RedisInv'
  BY NextRedisType, NextControl, NextBounded, NextToldOwn DEF RedisInv
<1> QED
  BY <1>1, InitRedis, PTL DEF Spec
-----------------------------------------------------------------------------
(* The state of the store and of the calls keeps its types; in particular  *)
(* every level that applyRedis returns is between 0 and the capacity.      *)
THEOREM RedisTypeCorrect == Spec => []TypeOK
<1>1. RedisInv => TypeOK
  BY DEF RedisInv
<1> QED
  BY <1>1, RedisInvariant, PTL

(* No interleaving of pipelines, expiries, lost connections and time-outs  *)
(* makes Redis hold a subject for more than it did.                        *)
THEOREM NoOvercount == Spec => []NeverOvercounts
<1>1. RedisInv => NeverOvercounts
  <2> SUFFICES ASSUME RedisInv, val # Nil PROVE val - ratePerSec(tier) * now <= ideal
    BY DEF NeverOvercounts, Effective
  <2>1. val \in Int /\ ideal \in Nat /\ Rate * now \in Nat
    BY ExactFacts DEF RedisInv, TypeOK
  <2>2. val <= Rate * now + ideal
    BY DEF RedisInv, Bounded, Exact
  <2>3. val - Rate * now <= ideal
    BY <2>1, <2>2
  <2> QED
    BY <2>3 DEF Rate
<1> QED
  BY <1>1, RedisInvariant, PTL

(* A call of Apply that charges and succeeds is told a level that holds    *)
(* its own charge, whatever other calls and expiries do to the key.        *)
THEOREM ChargeIsSeen == Spec => []OwnChargeSeen
<1>1. RedisInv => OwnChargeSeen
  BY DEF RedisInv, ToldOwn, OwnChargeSeen
<1> QED
  BY <1>1, RedisInvariant, PTL
-----------------------------------------------------------------------------
(* A key with a time to live is gone when the bucket, left alone since     *)
(* the last write, has drained.                                            *)
Living ==
    /\ touched <= now
    /\ val # Nil /\ expires # Forever =>
          now < expires /\ expires <= touched + lifetime(tier)

(* The calls that have charged and not yet renewed the time to live. *)
Sending == {c \in Callers : pc[c] = "pexpire"}

(* A key without a time to live holds no more than the charges of calls    *)
(* that are about to give it one, or that failed before they did.          *)
Orphaned(A) ==
    val # Nil /\ expires = Forever => val <= A * (faults + Cardinality(Sending))

(* Sets of calls have a cardinality. *)
LEMMA SendingFinite == IsFiniteSet(Sending) /\ Cardinality(Sending) \in Nat
  BY RedisAssumption, FS_Subset, FS_CardinalityType DEF Sending

(* The calls between their charge and the renewal, after a step of one. *)
LEMMA SendingSteps ==
  ASSUME NEW c \in Callers, \A o \in Callers \ {c} : pc'[o] = pc[o]
  PROVE  /\ pc[c] # "pexpire" /\ pc'[c] # "pexpire" => Sending' = Sending
         /\ pc[c] # "pexpire" /\ pc'[c] = "pexpire"
            => Cardinality(Sending') = Cardinality(Sending) + 1
         /\ pc[c] = "pexpire" /\ pc'[c] # "pexpire"
            => Cardinality(Sending') = Cardinality(Sending) - 1
<1>1. ASSUME pc[c] # "pexpire", pc'[c] # "pexpire" PROVE Sending' = Sending
  BY <1>1 DEF Sending
<1>2. ASSUME pc[c] # "pexpire", pc'[c] = "pexpire"
      PROVE  Cardinality(Sending') = Cardinality(Sending) + 1
  <2>1. Sending' = Sending \union {c} /\ c \notin Sending
    BY <1>2 DEF Sending
  <2> QED
    BY <2>1, SendingFinite, FS_AddElement
<1>3. ASSUME pc[c] = "pexpire", pc'[c] # "pexpire"
      PROVE  Cardinality(Sending') = Cardinality(Sending) - 1
  <2>1. Sending' = Sending \ {c} /\ c \in Sending
    BY <1>3 DEF Sending
  <2> QED
    BY <2>1, SendingFinite, FS_RemoveElement
<1> QED
  BY <1>1, <1>2, <1>3

(* Every write renews the time to live, or finds none. *)
LEMMA NextLiving == RedisInv /\ Living /\ [Next]_vars => Living'
<1> SUFFICES ASSUME RedisInv, Living, [Next]_vars PROVE Living'
  OBVIOUS
<1>a. now \in Nat /\ touched \in Nat /\ touched <= now /\ expires \in Nat \union {-1}
      /\ lifetime(tier) \in Nat /\ lifetime(tier) > 0
  BY TierFacts DEF RedisInv, TypeOK, Living, Forever
<1> USE <1>a DEF Forever
<1>1. ASSUME NEW v, UNCHANGED now, Set(v, lifetime(tier)) PROVE Living'
  BY <1>1 DEF Set, Living
<1>2. CASE UNCHANGED << now, val, expires, touched >>
  BY <1>2 DEF Living
<1>3. ASSUME NEW c \in Callers, SetNX(c) PROVE Living'
  BY <1>1, <1>2, <1>3 DEF SetNX
<1>4. ASSUME NEW c \in Callers, IncrByFloat(c) PROVE Living'
  BY <1>4 DEF IncrByFloat, Living
<1>5. ASSUME NEW c \in Callers, PExpire(c) PROVE Living'
  BY <1>5 DEF PExpire, Living
<1>6. ASSUME NEW c \in Callers, Fix(c) PROVE Living'
  BY <1>1, <1>6 DEF Fix
<1>7. CASE Tick
  BY <1>7 DEF Tick, Living
<1> QED
  BY <1>2, <1>3, <1>4, <1>5, <1>6, <1>7
     DEF Next, Step, Begin, Get, Settle, ConnectionLost, TimedOut, Terminated, vars

(* What a key without a time to live can hold. *)
LEMMA NextOrphaned ==
  ASSUME NEW A \in Nat, \A a \in Amounts : a <= A
  PROVE  RedisInv /\ Orphaned(A) /\ [Next]_vars => Orphaned(A)'
<1> SUFFICES ASSUME RedisInv, Orphaned(A), [Next]_vars PROVE Orphaned(A)'
  OBVIOUS
<1> DEFINE n == Cardinality(Sending)
           k == faults + n
<1>a. TypeOK /\ \A c \in Callers : Control(c)
  BY DEF RedisInv
<1>b. faults \in Nat /\ n \in Nat /\ k \in Nat
  BY <1>a, SendingFinite DEF TypeOK
<1>c. n' \in Nat
  BY RedisAssumption, FS_Subset, FS_CardinalityType DEF Sending
<1>d. now + lifetime(tier) # Forever
  BY <1>a, TierFacts DEF TypeOK, Forever
<1>e. ASSUME UNCHANGED << val, expires >>, k' \in Nat, k' >= k PROVE Orphaned(A)'
  <2> SUFFICES ASSUME val # Nil, expires = Forever PROVE val <= A * k'
    BY <1>e DEF Orphaned
  <2>1. val \in Int /\ val <= A * k
    BY <1>a DEF TypeOK, Orphaned
  <2>2. A * k \in Nat /\ A * k' \in Nat /\ A * k <= A * k'
    BY <1>b, <1>e, MulMono
  <2> HIDE DEF k
  <2> QED
    BY <2>1, <2>2
<1>f. ASSUME val' = Nil \/ expires' = now + lifetime(tier) PROVE Orphaned(A)'
  BY <1>d, <1>f DEF Orphaned
<1>1. ASSUME NEW c \in Callers, NEW d \in Amounts \union {Nil}, Begin(c, d)
      PROVE  Orphaned(A)'
  <2>1. Sending' = Sending
    <3>1. pc[c] # "pexpire" /\ pc'[c] # "pexpire" /\ \A o \in Callers \ {c} : pc'[o] = pc[o]
      BY <1>1, <1>a DEF Begin, TypeOK
    <3> QED
      BY <3>1, SendingSteps
  <2> QED
    BY <1>1, <1>b, <1>e, <2>1 DEF Begin
<1>2. ASSUME NEW c \in Callers, SetNX(c) PROVE Orphaned(A)'
  <2>1. Sending' = Sending
    <3>1. pc[c] # "pexpire" /\ pc'[c] # "pexpire" /\ \A o \in Callers \ {c} : pc'[o] = pc[o]
      BY <1>2, <1>a DEF SetNX, GoOn, TypeOK
    <3> QED
      BY <3>1, SendingSteps
  <2> QED
    BY <1>2, <1>b, <1>e, <1>f, <2>1 DEF SetNX, Set
<1>3. ASSUME NEW c \in Callers, IncrByFloat(c) PROVE Orphaned(A)'
  <2> SUFFICES ASSUME expires' = Forever PROVE val' <= A * k'
    BY DEF Orphaned
  <2>1. k' = k + 1
    <3>1. pc[c] # "pexpire" /\ pc'[c] = "pexpire" /\ \A o \in Callers \ {c} : pc'[o] = pc[o]
      BY <1>3, <1>a DEF IncrByFloat, TypeOK
    <3>2. n' = n + 1 /\ faults' = faults
      BY <1>3, <3>1, SendingSteps DEF IncrByFloat
    <3> QED
      BY <1>b, <3>2
  <2>2. delta[c] \in Int /\ delta[c] <= A
    BY <1>3, <1>a, RedisAssumption DEF IncrByFloat, Control, Charged, TypeOK
  <2>3. A * k \in Nat /\ A * (k + 1) = A * k + A
    BY <1>b
  <2>4. val' <= A * k + A
    <3>1. CASE val = Nil
      <4>1. val' = delta[c]
        BY <1>3, <2>2, <3>1 DEF IncrByFloat
      <4> HIDE DEF k
      <4> QED
        BY <2>2, <2>3, <4>1
    <3>2. CASE val # Nil
      <4>1. val \in Int /\ val <= A * k /\ val' = val + delta[c]
        BY <1>3, <1>a, <3>2 DEF IncrByFloat, TypeOK, Orphaned
      <4> HIDE DEF k
      <4> QED
        BY <2>2, <2>3, <4>1
    <3> QED
      BY <3>1, <3>2
  <2> HIDE DEF k
  <2> QED
    BY <2>1, <2>3, <2>4
<1>4. ASSUME NEW c \in Callers, PExpire(c) PROVE Orphaned(A)'
  BY <1>4, <1>f DEF PExpire
<1>5. ASSUME NEW c \in Callers, Get(c) \/ Settle(c) PROVE Orphaned(A)'
  <2>1. Sending' = Sending
    <3>1. pc[c] # "pexpire" /\ pc'[c] # "pexpire" /\ \A o \in Callers \ {c} : pc'[o] = pc[o]
      BY <1>5, <1>a DEF Get, Settle, GoOn, Over, TypeOK
    <3> QED
      BY <3>1, SendingSteps
  <2> QED
    BY <1>5, <1>b, <1>e, <2>1 DEF Get, Settle
<1>6. ASSUME NEW c \in Callers, Fix(c) PROVE Orphaned(A)'
  BY <1>6, <1>f DEF Fix, Set
<1>7. ASSUME NEW c \in Callers, ConnectionLost(c) PROVE Orphaned(A)'
  <2>1. n' = n \/ n' = n - 1
    <3>1. pc'[c] # "pexpire" /\ \A o \in Callers \ {c} : pc'[o] = pc[o]
      BY <1>7, <1>a DEF ConnectionLost, Over, TypeOK
    <3> QED
      BY <3>1, SendingSteps
  <2>2. faults' = faults + 1 /\ UNCHANGED << val, expires >>
    BY <1>7 DEF ConnectionLost
  <2> QED
    BY <1>b, <1>c, <1>e, <2>1, <2>2
<1>8. CASE UNCHANGED << pc, val, expires >> /\ (faults' = faults \/ faults' = faults + 1)
  <2>1. n' = n
    BY <1>8 DEF Sending
  <2> QED
    BY <1>b, <1>e, <1>8, <2>1
<1>9. CASE Tick
  BY <1>8, <1>9, <1>f DEF Tick
<1> QED
  BY <1>1, <1>2, <1>3, <1>4, <1>5, <1>6, <1>7, <1>8, <1>9
     DEF Next, Step, TimedOut, Terminated, vars

(* A quiet subject returns to zero in the time the configuration promises, *)
(* after calls that lost their connection half-way too, provided that what *)
(* the lost calls charged, all of it together, is below what has leaked    *)
(* since the epoch: that much a key they leave without a time to live may  *)
(* hold.                                                                   *)
THEOREM QuietIsEmpty ==
  ASSUME NEW A \in Nat, \A a \in Amounts : a <= A, A * MaxFaults <= Rate * Start
  PROVE  Spec => []QuietReturnsToZero
<1>1. Init => Living /\ Orphaned(A)
  BY RedisAssumption DEF Init, Living, Orphaned
<1>2. RedisInv /\ Living /\ Orphaned(A) => QuietReturnsToZero
  <2> SUFFICES ASSUME RedisInv, Living, Orphaned(A), \A c \in Callers : pc[c] = "idle",
                      now >= touched + 100 \div tier.Loss, val # Nil
               PROVE  val - ratePerSec(tier) * now <= 0
    BY DEF QuietReturnsToZero, Effective
  <2>1. expires = Forever
    <3>1. lifetime(tier) = 100 \div tier.Loss /\ lifetime(tier) \in Nat
      BY TierFacts
    <3>2. now \in Nat /\ touched \in Nat /\ now >= touched + lifetime(tier)
          /\ expires \in Nat \union {Forever}
      BY <3>1 DEF RedisInv, TypeOK
    <3> QED
      BY <3>1, <3>2 DEF Living
  <2>2. Sending = {}
    BY DEF Sending
  <2>3. val \in Int /\ faults \in Nat /\ faults <= MaxFaults /\ MaxFaults \in Nat
    BY RedisAssumption DEF RedisInv, TypeOK
  <2>4. val <= A * faults
    BY <2>1, <2>2, <2>3, FS_EmptySet DEF Orphaned
  <2>5. A * faults \in Nat /\ A * MaxFaults \in Nat /\ A * faults <= A * MaxFaults
    BY <2>3, MulMono
  <2>6. Start \in Nat /\ Start <= now /\ now \in Nat /\ Rate \in Nat
    BY RedisAssumption, TierFacts DEF RedisInv, TypeOK
  <2>7. Rate * Start \in Nat /\ Rate * now \in Nat /\ Rate * Start <= Rate * now
    BY <2>6, MulMono
  <2>8. val \in Int
    BY <2>3
  <2>9. val - Rate * now <= 0
    BY <2>4, <2>5, <2>7, <2>8
  <2> QED
    BY <2>9 DEF Rate
<1>3. RedisInv /\ Living /\ Orphaned(A) /\ [Next]_vars => Living' /\ Orphaned(A)'
  BY NextLiving, NextOrphaned
<1> QED
  BY <1>1, <1>2, <1>3, RedisInvariant, PTL DEF Spec
=============================================================================
