---------------------------- MODULE InspectProofs ----------------------------
(***************************************************************************)
(* Theorems about Inspect, for every set of profiles, actions and counters,*)
(* any number of rules, recorded actions, reloads and failures.            *)
(***************************************************************************)
EXTENDS Inspect, Lemmas, SequenceTheorems

Stages == {"request", "response", "frame"}
Recorded == [act : Actions, recorded : Stages \union {""}]

(***************************************************************************)
(* What a step does to the histories: it records an action, or it handles  *)
(* a message of one phase, which may charge notes and may settle the phase,*)
(* or it leaves them alone.                                                *)
(***************************************************************************)
Charges(phase) == TakesPart(phase) /\ \E levels : Charge(phase, levels)

Settles(phase) ==
    \/ ~TakesPart(phase) /\ UNCHANGED noted /\ Settled(phase, NoLevels)
    \/ TakesPart(phase) /\ \E levels : Charge(phase, levels) /\ Settled(phase, levels)

Handles(phase) ==
    /\ stage = phase /\ Onward(phase)
    /\ UNCHANGED << profile, prior >>
    /\ \/ UNCHANGED << noted, settled >>
       \/ Charges(phase) /\ UNCHANGED settled
       \/ Settles(phase)

Records ==
    /\ stage \in Stages
    /\ \E e \in Recorded :
          /\ stage = "request" => phaseOf(e.recorded) = "request"
          /\ prior' = Append(prior, e)
    /\ UNCHANGED << profile, stage, noted, settled >>

Rests == profile' \in Profiles \union {profile} /\ UNCHANGED << stage, prior, noted, settled >>

(* Where the variables are.  No theorem is about this alone. *)
InspectType ==
    /\ profile \in Profiles
    /\ stage \in Stages \union {"done"}
    /\ prior \in Seq(Recorded)

(* Every step is one of the three. *)
LEMMA Moves ==
  ASSUME InspectType, [Next]_vars
  PROVE  Records \/ Rests \/ \E phase \in Stages : Handles(phase)
<1> USE DEF Stages
<1>1. CASE \E a \in Actions : Record(a)
  <2>1. PICK a \in Actions, r \in {stage} \union (IF stage = "request" THEN {""} ELSE {}) :
            /\ prior' = Append(prior, [act |-> a, recorded |-> r])
            /\ stage # "done" /\ UNCHANGED << profile, stage, noted, settled >>
    BY <1>1 DEF Record
  <2> DEFINE e == [act |-> a, recorded |-> r]
  <2>2. stage \in Stages
    BY <2>1 DEF InspectType
  <2>3. e \in Recorded /\ e.recorded = r
    BY <2>2 DEF Recorded
  <2>4. stage = "request" => phaseOf(r) = "request"
    BY DEF phaseOf
  <2> HIDE DEF e
  <2> QED
    BY <2>1, <2>2, <2>3, <2>4 DEF Records, e
<1>2. CASE Reload
  BY <1>2 DEF Reload, Rests
<1>3. ASSUME NEW phase \in Stages, Pass(phase) PROVE Handles(phase)
  BY <1>3 DEF Pass, Reply, Handles, Settles
<1>4. ASSUME NEW phase \in Stages, Refused(phase) PROVE Handles(phase)
  BY <1>4 DEF Refused, Reply, Handles
<1>5. ASSUME NEW phase \in Stages, NEW o, NEW d, Shed(phase, o, d) PROVE Handles(phase)
  BY <1>5 DEF Shed, Reply, Handles
<1>6. ASSUME NEW phase \in Stages, NEW levels, Unavailable(phase, levels) PROVE Handles(phase)
  BY <1>6 DEF Unavailable, Reply, Handles, Charges
<1>7. CASE JudgeSkipped
  BY <1>7 DEF JudgeSkipped, Reply, Handles
<1>8. ASSUME NEW phase \in Stages, NEW levels, NEW fill, Judge(phase, levels, fill)
      PROVE  Handles(phase)
  BY <1>8 DEF Judge, Reply, Handles, Settles
<1>9. ASSUME NEW phase \in Stages, NEW levels, NEW fill, ListsFail(phase, levels, fill)
      PROVE  Handles(phase)
  BY <1>9 DEF ListsFail, Reply, Handles, Charges
<1>10. ASSUME NEW levels, FrameSkipped(levels) PROVE Handles("frame")
  BY <1>10 DEF FrameSkipped, Reply, Handles, Settles
<1>11. ASSUME NEW levels, Measure(levels) PROVE Handles("response")
  BY <1>11 DEF Measure, Reply, Handles, Settles
<1>12. CASE Done \/ UNCHANGED vars
  BY <1>12 DEF Done, vars, Rests
<1> QED
  BY <1>1, <1>2, <1>3, <1>4, <1>5, <1>6, <1>7, <1>8, <1>9, <1>10, <1>11, <1>12 DEF Next

(* What is recorded is added at the end. *)
LEMMA Appended ==
  ASSUME InspectType, Records
  PROVE  /\ prior' \in Seq(Recorded)
         /\ Len(prior) \in Nat /\ Len(prior') = Len(prior) + 1
         /\ \A i \in 1..Len(prior) : prior'[i] = prior[i]
         /\ stage = "request" => phaseOf(prior'[Len(prior')].recorded) = "request"
<1>1. PICK e \in Recorded : /\ stage = "request" => phaseOf(e.recorded) = "request"
                           /\ prior' = Append(prior, e)
  BY DEF Records
<1>2. prior \in Seq(Recorded)
  BY DEF InspectType
<1> HIDE DEF Recorded
<1>3. /\ prior' \in Seq(Recorded)
      /\ Len(prior) \in Nat /\ Len(prior') = Len(prior) + 1
      /\ \A i \in 1..Len(prior) : prior'[i] = prior[i]
      /\ prior'[Len(prior')] = e
  BY <1>1, <1>2
<1> QED
  BY <1>1, <1>3

(* Every step keeps the types of what the proofs need typed. *)
LEMMA TypeKept ==
  ASSUME InspectType, [Next]_vars
  PROVE  InspectType'
<1>1. CASE Records
  BY <1>1, Appended DEF Records, InspectType
<1>2. CASE Rests
  BY <1>2 DEF Rests, InspectType
<1>3. CASE \E phase \in Stages : Handles(phase)
  BY <1>3 DEF Handles, Onward, InspectType, Stages
<1> QED
  BY <1>1, <1>2, <1>3, Moves
-----------------------------------------------------------------------------
(***************************************************************************)
(* A note is charged once.  The phase a note was charged in says which     *)
(* phase it was recorded in and whether the profile judged requests: a     *)
(* note of the request phase is left to the response phase exactly when    *)
(* it did not.                                                             *)
(***************************************************************************)
History ==
    \A n \in noted :
       /\ n.note.act \in 1..Len(prior)
       /\ n.phase = "request"  => n.judged = TRUE /\ phaseOf(prior[n.note.act].recorded) = "request"
       /\ n.phase = "response" => \/ phaseOf(prior[n.note.act].recorded) = "response"
                                 \/ n.judged = FALSE

(* What a note to be charged says of the action it is for. *)
LEMMA NotesFacts ==
  ASSUME InspectType, NEW p, NEW phase, NEW n \in Notes(p, phase)
  PROVE  /\ n.act \in 1..Len(prior)
         /\ chargeHere(prior[n.act].recorded, phase, p.request)
<1>1. PICK x \in Taken(p, "note") : /\ chargeHere(prior[x[1]].recorded, phase, p.request)
                                    /\ n.act = x[1]
  BY DEF Notes
<1>2. x[1] \in DOMAIN prior
  BY <1>1 DEF Taken
<1> QED
  BY <1>1, <1>2 DEF InspectType

(* What is charged in addition when a message is handled. *)
LEMMA ChargeFacts ==
  ASSUME InspectType, NEW phase, NEW levels, Charge(phase, levels), NEW n \in noted', n \notin noted
  PROVE  /\ n.phase = phase /\ n.judged = profile.request
         /\ n.note.act \in 1..Len(prior)
         /\ chargeHere(prior[n.note.act].recorded, phase, profile.request)
<1>1. PICK m \in Notes(profile, phase) :
          n = [note |-> m, phase |-> phase, judged |-> profile.request]
  BY DEF Charge
<1>2. /\ m.act \in 1..Len(prior)
      /\ chargeHere(prior[m.act].recorded, phase, profile.request)
  BY <1>1, NotesFacts
<1> QED
  BY <1>1, <1>2

(* Every step keeps what the history says of the phase of a charge. *)
LEMMA HistoryKept ==
  ASSUME InspectType, History, [Next]_vars
  PROVE  History'
<1>1. CASE Records
  <2>1. /\ noted' = noted /\ Len(prior) \in Nat /\ Len(prior') = Len(prior) + 1
        /\ \A i \in 1..Len(prior) : prior'[i] = prior[i]
    BY <1>1, Appended DEF Records
  <2>2. \A i \in 1..Len(prior) : i \in 1..Len(prior')
    BY <2>1
  <2> QED
    BY <2>1, <2>2 DEF History
<1>2. CASE Rests
  BY <1>2 DEF Rests, History
<1>3. ASSUME NEW phase \in Stages, Handles(phase) PROVE History'
  <2>1. prior' = prior
    BY <1>3 DEF Handles
  <2>2. CASE noted' = noted
    BY <2>1, <2>2 DEF History
  <2>3. ASSUME TakesPart(phase), NEW levels, Charge(phase, levels) PROVE History'
    <3>1. SUFFICES ASSUME NEW n \in noted', n \notin noted
                   PROVE  /\ n.note.act \in 1..Len(prior)
                          /\ n.phase = "request"
                                => n.judged = TRUE /\ phaseOf(prior[n.note.act].recorded) = "request"
                          /\ n.phase = "response" => \/ phaseOf(prior[n.note.act].recorded) = "response"
                                                    \/ n.judged = FALSE
      BY <2>1 DEF History
    <3>2. /\ n.phase = phase /\ n.judged = profile.request
          /\ n.note.act \in 1..Len(prior)
          /\ chargeHere(prior[n.note.act].recorded, phase, profile.request)
      BY <2>3, <3>1, ChargeFacts
    <3>3. profile.request \in BOOLEAN
      BY InspectAssumption DEF InspectType
    <3>4. phase = "request" => profile.request
      BY <2>3 DEF TakesPart, enabled
    <3> QED
      BY <3>2, <3>3, <3>4 DEF chargeHere
  <2> QED
    BY <1>3, <2>2, <2>3 DEF Handles, Charges, Settles
<1> QED
  BY <1>1, <1>2, <1>3, Moves

(* The types hold at the start. *)
LEMMA TypeStarts ==
  ASSUME Init
  PROVE  InspectType
BY DEF Init, InspectType, Stages

(* A note is charged once for an exchange although the response phase sees *)
(* the notes of the request phase again (chargeHere), whatever generations *)
(* come into force between the two and whichever messages fail.            *)
THEOREM ChargedOnce == Spec => []NoteOnce
<1>1. Init => InspectType /\ History
  BY TypeStarts DEF Init, History
<1>2. InspectType /\ History /\ [Next]_vars => (InspectType /\ History)'
  BY TypeKept, HistoryKept
<1>3. History => NoteOnce
  <2> SUFFICES ASSUME History, NEW a \in noted, NEW b \in noted,
                      a.note = b.note, a.phase = "request", b.phase = "response"
               PROVE  a.judged # b.judged
    BY DEF NoteOnce
  <2>1. a.judged = TRUE /\ phaseOf(prior[a.note.act].recorded) = "request"
    BY DEF History
  <2>2. phaseOf(prior[b.note.act].recorded) = "response" \/ b.judged = FALSE
    BY DEF History
  <2> QED
    BY <2>1, <2>2
<1> QED
  BY <1>1, <1>2, <1>3, PTL DEF Spec
-----------------------------------------------------------------------------
(***************************************************************************)
(* A note is not lost.  What each phase saw of the actions only grows, so  *)
(* what the request phase saw the response phase sees too; and a phase     *)
(* that is settled has charged what was its own to charge: the request     *)
(* phase when the profile judges requests, else the response phase.        *)
(***************************************************************************)
(* Of the first actions, every note of the request phase that a rule of    *)
(* the profile takes is charged on every axis that had a subject.          *)
ChargedFor(saw, p, levels) ==
    \A i \in 1..saw, j \in DOMAIN p.prior :
       LET a == prior[i].act
           r == p.prior[j]
       IN  phaseOf(prior[i].recorded) = "request" /\ a.do = "note" /\ Takes(r, a) /\ a.value # 0 =>
              \A axis \in NoteAxes(r.counter, a.scope) :
                 \/ levels[<< r.counter, axis >>] = NoSubject
                 \/ \E n \in noted : n.note.act = i /\ n.note.rule = j /\ n.note.axis = axis

(* Until the request is answered, all that is recorded is of its phase. *)
Early ==
    stage = "request" =>
       settled = {} /\ \A i \in 1..Len(prior) : phaseOf(prior[i].recorded) = "request"

Seen ==
    \A s \in settled :
       /\ s.saw \in 0..Len(prior)
       /\ s.phase = "request" => \A i \in 1..s.saw : phaseOf(prior[i].recorded) = "request"
       /\ \A t \in settled : s.phase = "request" /\ t.phase = "response" => s.saw <= t.saw

Owed ==
    \A s \in settled :
       s.profile.mode # "off" =>
          /\ s.phase = "request" /\ s.profile.request
                => ChargedFor(s.saw, s.profile, s.levels)
          /\ s.phase = "response" /\ s.profile.response /\ ~s.profile.request
                => ChargedFor(s.saw, s.profile, s.levels)

Kept == Early /\ Seen /\ Owed

(* What was charged stays charged while actions are added. *)
LEMMA StaysCharged ==
  ASSUME NEW saw, NEW p, NEW levels, ChargedFor(saw, p, levels),
         noted \subseteq noted', \A i \in 1..saw : prior'[i] = prior[i]
  PROVE  ChargedFor(saw, p, levels)'
BY DEF ChargedFor, Takes, NoteAxes

(* A message that is handled charges all that is its own. *)
LEMMA ChargesItsOwn ==
  ASSUME InspectType, NEW phase, NEW levels, Charge(phase, levels),
         UNCHANGED << profile, prior >>, chargeHere("request", phase, profile.request)
  PROVE  ChargedFor(Len(prior), profile, levels)'
<1>0. \A i \in 1..Len(prior) : i \in DOMAIN prior
  BY DEF InspectType
<1> SUFFICES ASSUME NEW i \in 1..Len(prior), NEW j \in DOMAIN profile.prior,
                    phaseOf(prior[i].recorded) = "request", prior[i].act.do = "note",
                    Takes(profile.prior[j], prior[i].act), prior[i].act.value # 0,
                    NEW axis \in NoteAxes(profile.prior[j].counter, prior[i].act.scope),
                    levels[<< profile.prior[j].counter, axis >>] # NoSubject
             PROVE  \E n \in noted' : n.note.act = i /\ n.note.rule = j /\ n.note.axis = axis
  BY DEF ChargedFor, Takes, NoteAxes
<1> DEFINE m == [act |-> i, rule |-> j, counter |-> profile.prior[j].counter, axis |-> axis]
<1>1. << i, j >> \in Taken(profile, "note")
  BY <1>0 DEF Taken
<1>2. m \in Notes(profile, phase)
  <2> DEFINE X == {y \in Taken(profile, "note") :
                     /\ chargeHere(prior[y[1]].recorded, phase, profile.request)
                     /\ prior[y[1]].act.value # 0}
             F(x) == {[act |-> x[1], rule |-> x[2], counter |-> profile.prior[x[2]].counter,
                       axis |-> b] :
                         b \in NoteAxes(profile.prior[x[2]].counter, prior[x[1]].act.scope)}
  <2>1. << i, j >> \in X
    <3>1. chargeHere(prior[i].recorded, phase, profile.request)
      BY DEF chargeHere, phaseOf
    <3> QED
      BY <1>1, <3>1
  <2>2. m \in F(<< i, j >>)
    OBVIOUS
  <2>3. Notes(profile, phase) = UNION {F(x) : x \in X}
    BY DEF Notes
  <2> HIDE DEF m, F, X
  <2> QED
    BY <2>1, <2>2, <2>3
<1>3. levels[<< m.counter, m.axis >>] # NoSubject
  OBVIOUS
<1>4. [note |-> m, phase |-> phase, judged |-> profile.request] \in noted'
  <2> HIDE DEF m
  <2> QED
    BY <1>2, <1>3 DEF Charge
<1>5. /\ [note |-> m, phase |-> phase, judged |-> profile.request].note = m
      /\ m.act = i /\ m.rule = j /\ m.axis = axis
  OBVIOUS
<1> HIDE DEF m
<1> QED
  BY <1>4, <1>5

(* What no step undoes. *)
LEMMA HistoryGrows ==
  ASSUME InspectType, [Next]_vars
  PROVE  /\ noted \subseteq noted'
         /\ Len(prior) \in Nat /\ Len(prior') \in Nat /\ Len(prior) <= Len(prior')
         /\ \A i \in 1..Len(prior) : prior'[i] = prior[i]
<1>0. Len(prior) \in Nat
  BY DEF InspectType
<1>1. CASE Records
  BY <1>0, <1>1, Appended DEF Records
<1>2. CASE Rests
  BY <1>0, <1>2 DEF Rests
<1>3. ASSUME NEW phase \in Stages, Handles(phase)
      PROVE  prior' = prior /\ noted \subseteq noted'
  BY <1>3 DEF Handles, Charges, Settles, Charge
<1> QED
  BY <1>0, <1>1, <1>2, <1>3, Moves

(* Every step keeps what is known of notes that are early, seen or owed. *)
LEMMA KeptKept ==
  ASSUME InspectType, Kept, [Next]_vars
  PROVE  Kept'
<1>0. /\ noted \subseteq noted'
      /\ Len(prior) \in Nat /\ Len(prior') \in Nat /\ Len(prior) <= Len(prior')
      /\ \A i \in 1..Len(prior) : prior'[i] = prior[i]
  BY HistoryGrows
<1>1. \A s \in settled : s.saw \in 0..Len(prior) /\ \A i \in 1..s.saw : prior'[i] = prior[i]
  <2>1. \A s \in settled : s.saw \in 0..Len(prior)
    BY DEF Kept, Seen
  <2> QED
    BY <1>0, <2>1
<1>2. ASSUME NEW s \in settled, s.profile.mode # "off"
      PROVE  /\ s.phase = "request" /\ s.profile.request
                  => ChargedFor(s.saw, s.profile, s.levels)'
             /\ s.phase = "response" /\ s.profile.response /\ ~s.profile.request
                  => ChargedFor(s.saw, s.profile, s.levels)'
  <2>1. ASSUME ChargedFor(s.saw, s.profile, s.levels)
        PROVE  ChargedFor(s.saw, s.profile, s.levels)'
    BY <1>0, <1>1, <2>1, StaysCharged
  <2> QED
    BY <1>2, <2>1 DEF Kept, Owed
<1>3. ASSUME settled' = settled PROVE Seen' /\ Owed'
  <2>1. Seen'
    <3>1. ASSUME NEW s \in settled
          PROVE  /\ s.saw \in 0..Len(prior')
                 /\ s.phase = "request" => \A i \in 1..s.saw : phaseOf(prior'[i].recorded) = "request"
      BY <1>0, <1>1 DEF Kept, Seen
    <3> QED
      BY <1>3, <3>1 DEF Kept, Seen
  <2>2. Owed'
    BY <1>2, <1>3 DEF Owed
  <2> QED
    BY <2>1, <2>2
<1>4. CASE Records
  <2>1. Early'
    <3> SUFFICES ASSUME stage = "request"
                 PROVE  settled' = {} /\ \A i \in 1..Len(prior') :
                                           phaseOf(prior'[i].recorded) = "request"
      BY <1>4 DEF Records, Early
    <3>1. settled = {} /\ \A i \in 1..Len(prior) : phaseOf(prior[i].recorded) = "request"
      BY DEF Kept, Early
    <3>2. /\ Len(prior') = Len(prior) + 1
          /\ phaseOf(prior'[Len(prior')].recorded) = "request"
      BY <1>4, Appended
    <3>3. ASSUME NEW i \in 1..Len(prior') PROVE phaseOf(prior'[i].recorded) = "request"
      <4>1. CASE i \in 1..Len(prior)
        BY <1>0, <3>1, <4>1
      <4>2. CASE i = Len(prior')
        BY <3>2, <4>2
      <4> QED
        BY <1>0, <3>2, <4>1, <4>2
    <3> QED
      BY <1>4, <3>1, <3>3 DEF Records
  <2> QED
    BY <1>3, <1>4, <2>1 DEF Records, Kept
<1>5. CASE Rests
  BY <1>3, <1>5 DEF Rests, Kept, Early
<1>6. ASSUME NEW phase \in Stages, Handles(phase) PROVE Kept'
  <2>1. Early' /\ prior' = prior /\ profile' = profile /\ stage = phase
    BY <1>6 DEF Handles, Onward, Early
  <2>2. CASE settled' = settled
    BY <1>3, <2>1, <2>2 DEF Kept
  <2>3. ASSUME NEW levels, Settled(phase, levels),
               \/ ~TakesPart(phase)
               \/ TakesPart(phase) /\ Charge(phase, levels)
        PROVE  Kept'
    <3> DEFINE e == [phase |-> phase, profile |-> profile, levels |-> levels, saw |-> Len(prior)]
    <3>1. settled' = settled \union {e}
      BY <2>3 DEF Settled
    <3>2. e.phase = phase /\ e.profile = profile /\ e.levels = levels /\ e.saw = Len(prior)
      OBVIOUS
    <3> HIDE DEF e
    <3>3. phase = "request" => settled = {} /\ \A i \in 1..Len(prior) : phaseOf(prior[i].recorded) = "request"
      BY <2>1 DEF Kept, Early
    <3>4. Seen'
      <4>1. ASSUME NEW s \in settled'
            PROVE  /\ s.saw \in 0..Len(prior)
                   /\ s.phase = "request" => \A i \in 1..s.saw : phaseOf(prior[i].recorded) = "request"
        BY <1>0, <3>1, <3>2, <3>3, <4>1 DEF Kept, Seen
      <4>2. ASSUME NEW s \in settled', NEW t \in settled', s.phase = "request", t.phase = "response"
            PROVE  s.saw <= t.saw
        <5>1. CASE s \in settled /\ t \in settled
          BY <4>2, <5>1 DEF Kept, Seen
        <5>2. CASE s \in settled /\ t = e
          BY <1>0, <1>1, <3>2, <5>2
        <5>3. CASE s = e
          BY <3>1, <3>2, <3>3, <4>2, <5>3
        <5> QED
          BY <3>1, <5>1, <5>2, <5>3
      <4> QED
        BY <2>1, <4>1, <4>2 DEF Seen
    <3>5. ASSUME \/ phase = "request" /\ profile.request
                 \/ phase = "response" /\ profile.response /\ ~profile.request,
                 profile.mode # "off"
          PROVE  ChargedFor(Len(prior), profile, levels)'
      <4>1. TakesPart(phase) /\ Charge(phase, levels)
        BY <2>3, <3>5 DEF TakesPart, enabled
      <4>2. chargeHere("request", phase, profile.request)
        BY <3>5 DEF chargeHere, phaseOf
      <4> QED
        BY <2>1, <4>1, <4>2, ChargesItsOwn
    <3>6. Owed'
      <4> SUFFICES ASSUME NEW s \in settled', s.profile.mode # "off",
                          \/ s.phase = "request" /\ s.profile.request
                          \/ s.phase = "response" /\ s.profile.response /\ ~s.profile.request
                   PROVE  ChargedFor(s.saw, s.profile, s.levels)'
        BY DEF Owed
      <4>1. CASE s \in settled
        BY <1>2, <4>1
      <4>2. CASE s = e
        <5>1. ChargedFor(Len(prior), profile, levels)'
          BY <3>2, <3>5, <4>2
        <5>2. s.saw = Len(prior)' /\ s.profile = profile' /\ s.levels = levels
          BY <2>1, <3>2, <4>2
        <5> QED
          BY <5>1, <5>2
      <4> QED
        BY <3>1, <4>1, <4>2
    <3> QED
      BY <2>1, <3>4, <3>6 DEF Kept
  <2> QED
    BY <1>6, <2>2, <2>3 DEF Handles, Charges, Settles
<1> QED
  BY <1>4, <1>5, <1>6, Moves

(* A note the request phase saw is not lost: when both phases were handled *)
(* without an error under one profile that measures responses, every rule  *)
(* that takes the note has charged it on every axis that had a subject     *)
(* (EvaluatePrior, chargeHere): in the phase that judges, or else in the   *)
(* response phase, which sees what was recorded before it.                 *)
THEOREM NoNoteIsLost == Spec => []NoteKept
<1>1. Init => InspectType /\ Kept
  BY TypeStarts DEF Init, Kept, Early, Seen, Owed
<1>2. InspectType /\ Kept /\ [Next]_vars => (InspectType /\ Kept)'
  BY TypeKept, KeptKept
<1>3. InspectType /\ Kept => NoteKept
  <2> SUFFICES ASSUME InspectType, Kept, NEW s \in settled, NEW t \in settled,
                      s.phase = "request", t.phase = "response", s.profile = t.profile,
                      s.profile.mode # "off", s.profile.response
               PROVE  \A i \in 1..s.saw, j \in DOMAIN s.profile.prior :
                         LET a == prior[i].act
                             r == s.profile.prior[j]
                             levels == IF s.profile.request THEN s.levels ELSE t.levels
                         IN  a.do = "note" /\ Takes(r, a) /\ a.value # 0 =>
                                \A axis \in NoteAxes(r.counter, a.scope) :
                                   \/ levels[<< r.counter, axis >>] = NoSubject
                                   \/ \E n \in noted :
                                         n.note.act = i /\ n.note.rule = j /\ n.note.axis = axis
    BY DEF NoteKept
  <2>1. /\ s.saw \in 0..Len(prior) /\ t.saw \in 0..Len(prior) /\ s.saw <= t.saw
        /\ \A i \in 1..s.saw : phaseOf(prior[i].recorded) = "request"
    BY DEF Kept, Seen
  <2>2. \A i \in 1..s.saw : i \in 1..t.saw
    BY <2>1
  <2>3. CASE s.profile.request
    <3>1. ChargedFor(s.saw, s.profile, s.levels)
      BY <2>3 DEF Kept, Owed
    <3> QED
      BY <2>1, <2>3, <3>1 DEF ChargedFor
  <2>4. CASE ~s.profile.request
    <3>1. ChargedFor(t.saw, s.profile, t.levels)
      BY <2>4 DEF Kept, Owed
    <3> QED
      BY <2>1, <2>2, <2>4, <3>1 DEF ChargedFor
  <2> QED
    BY <2>3, <2>4
<1> QED
  BY <1>1, <1>2, <1>3, PTL DEF Spec
-----------------------------------------------------------------------------
(***************************************************************************)
(* What is answered.  The last message is judged by the rules in one step, *)
(* Judge; every other answer is an error, a skip or an allow without rules.*)
(***************************************************************************)
Unruled ==
    \/ last.phase = "response" \/ last.reply = Error \/ last.skip
    \/ last.profile.mode = "off" \/ ~enabled(last.profile, last.phase)

Rules(phase, levels, fill) ==
    /\ TakesPart(phase) /\ phase \in {"request", "frame"}
    /\ last' = [phase |-> phase, profile |-> profile, skip |-> Skip(profile),
                percent |-> Percent(profile), fill |-> fill, levels |-> levels,
                reply |-> Ruling(profile, phase, levels, Percent(profile)),
                fired |-> Firing(profile, phase, levels, Percent(profile), fill)]

(* The last message is answered by the rules, or its answer has no ruling. *)
LEMMA Answers ==
  ASSUME [Next]_vars
  PROVE  \/ UNCHANGED last \/ Unruled'
         \/ \E phase, levels, fill : Rules(phase, levels, fill)
<1>1. CASE \E a \in Actions : Record(a)
  BY <1>1 DEF Record
<1>2. CASE Reload
  BY <1>2 DEF Reload
<1>3. ASSUME NEW phase, NEW levels, NEW fill, NEW reply, NEW fired,
             Reply(phase, levels, fill, reply, fired)
      PROVE  /\ last'.phase = phase /\ last'.profile = profile /\ last'.reply = reply
             /\ last'.skip = Skip(profile)
  BY <1>3 DEF Reply
<1>4. ASSUME NEW phase, Pass(phase) PROVE Unruled'
  BY <1>3, <1>4 DEF Pass, Unruled, TakesPart, enabled
<1>5. ASSUME NEW phase, \/ Refused(phase) \/ \E o, d : Shed(phase, o, d)
                        \/ \E levels : Unavailable(phase, levels)
      PROVE  Unruled'
  <2>1. CASE Refused(phase)
    BY <1>3, <2>1 DEF Refused, Unruled
  <2>2. ASSUME NEW o, NEW d, Shed(phase, o, d) PROVE Unruled'
    BY <1>3, <2>2 DEF Shed, Unruled
  <2>3. ASSUME NEW levels, Unavailable(phase, levels) PROVE Unruled'
    BY <1>3, <2>3 DEF Unavailable, Unruled
  <2> QED
    BY <1>5, <2>1, <2>2, <2>3
<1>6. CASE JudgeSkipped
  <2>1. Skip(profile) /\ Reply("request", NoLevels, 0, Allowed, {})
    BY <1>6 DEF JudgeSkipped, SkipsRequest
  <2>2. last'.skip = Skip(profile)
    BY <1>3, <2>1
  <2> QED
    BY <2>1, <2>2 DEF Unruled
<1>7. ASSUME NEW phase \in {"request", "frame"}, NEW levels, NEW fill, Judge(phase, levels, fill)
      PROVE  Rules(phase, levels, fill)
  BY <1>7 DEF Judge, Reply, Rules
<1>8. ASSUME NEW phase, NEW levels, NEW fill, ListsFail(phase, levels, fill) PROVE Unruled'
  <2>1. PICK written : Reply(phase, NoLevels, 0, Error, written)
    BY <1>8 DEF ListsFail
  <2> QED
    BY <1>3, <2>1 DEF Unruled
<1>9. ASSUME NEW levels, FrameSkipped(levels) PROVE Unruled'
  <2>1. Skip(profile) /\ Reply("frame", levels, 0, Allowed, {})
    BY <1>9 DEF FrameSkipped
  <2>2. last'.skip = Skip(profile)
    BY <1>3, <2>1
  <2> QED
    BY <2>1, <2>2 DEF Unruled
<1>10. ASSUME NEW levels, Measure(levels) PROVE Unruled'
  BY <1>3, <1>10 DEF Measure, Unruled
<1>11. CASE Done \/ UNCHANGED vars
  BY <1>11 DEF Done, vars
<1> QED
  BY <1>1, <1>2, <1>4, <1>5, <1>6, <1>7, <1>8, <1>9, <1>10, <1>11 DEF Next
-----------------------------------------------------------------------------
(***************************************************************************)
(* The verdict does not depend on the order of the rules.  The decision    *)
(* after the first i rules is the strongest of those among them that       *)
(* fired, which the loop keeps from rule to rule.                          *)
(***************************************************************************)
Decisions ==
    {x \in [verdict : {"allow", "score", "deny"}, score : 0..100] :
        x.verdict = "allow" => x.score = 0}

Hit(rules, levels, i) == {j \in 1..i : Fires(rules[j], levels)}

Strongest(d, rules, levels, i) ==
    LET hit == Hit(rules, levels, i)
        deny == \E j \in hit : rules[j].action = "deny"
    IN  /\ d \in Decisions
        /\ d.verdict = IF deny THEN "deny" ELSE IF hit # {} THEN "score" ELSE "allow"
        /\ d.verdict = "score" => /\ \E j \in hit : rules[j].score = d.score
                                 /\ \A j \in hit : rules[j].score <= d.score

(* What rules, decisions and fills are made of. *)
LEMMA Parts ==
  /\ \A r \in JudgeRules :
        r.action \in {"deny", "score"} /\ r.score \in 0..100 /\ r.score \in Int
  /\ \A d \in Decisions :
        d.verdict \in {"allow", "score", "deny"} /\ d.score \in 0..100 /\ d.score \in Int
BY DEF JudgeRules, Decisions

(* One rule that fires: a deny is final, and of two scores the higher counts. *)
LEMMA TakeIs ==
  ASSUME NEW d \in Decisions, NEW r \in JudgeRules, NEW e, e = take(d, r)
  PROVE  /\ e \in Decisions
         /\ r.action = "deny" \/ d.verdict = "deny" => e.verdict = "deny"
         /\ r.action # "deny" /\ d.verdict # "deny" =>
               /\ e.verdict = "score" /\ r.score <= e.score
               /\ d.verdict = "score" => d.score <= e.score
               /\ \/ e.score = r.score
                  \/ d.verdict = "score" /\ e.score = d.score
<1>1. /\ d.verdict \in {"allow", "score", "deny"} /\ d.score \in 0..100
      /\ r.action \in {"deny", "score"} /\ r.score \in 0..100
  BY Parts
<1>2. CASE r.action = "deny"
  <2>1. e = [verdict |-> "deny", score |-> 0]
    BY <1>2 DEF take
  <2> QED
    BY <1>2, <2>1 DEF Decisions
<1>3. CASE r.action # "deny" /\ d.verdict = "deny"
  BY <1>3 DEF take
<1>4. CASE r.action # "deny" /\ d.verdict # "deny"
  <2>1. e = IF d.verdict # "score" \/ r.score > d.score
            THEN [verdict |-> "score", score |-> r.score] ELSE d
    BY <1>4 DEF take
  <2>2. CASE d.verdict # "score" \/ r.score > d.score
    <3>1. e = [verdict |-> "score", score |-> r.score]
      BY <2>1, <2>2
    <3>2. e \in Decisions /\ e.verdict = "score" /\ e.score = r.score
      BY <1>1, <3>1 DEF Decisions
    <3> HIDE DEF Decisions
    <3> QED
      BY <1>1, <1>4, <2>2, <3>2
  <2>3. CASE ~(d.verdict # "score" \/ r.score > d.score)
    BY <1>1, <1>4, <2>1, <2>3
  <2> QED
    BY <2>2, <2>3
<1> QED
  BY <1>2, <1>3, <1>4

(* One rule more: of the decision so far and the rule the stronger counts. *)
LEMMA TakeFacts ==
  ASSUME NEW rules \in Seq(JudgeRules), NEW levels, NEW i \in 1..Len(rules), NEW d,
         Strongest(d, rules, levels, i - 1)
  PROVE  Strongest(IF Fires(rules[i], levels) THEN take(d, rules[i]) ELSE d, rules, levels, i)
<1> DEFINE old == Hit(rules, levels, i - 1)
           new == Hit(rules, levels, i)
           sc == [j \in 1..i |-> rules[j].score]
           deny == {j \in 1..i : rules[j].action = "deny"}
           e == IF Fires(rules[i], levels) THEN take(d, rules[i]) ELSE d
<1>1. rules[i] \in JudgeRules /\ \A j \in 1..i : rules[j] \in JudgeRules
  OBVIOUS
<1>2. \A j \in 1..i : sc[j] \in Int
  <2> SUFFICES ASSUME NEW j \in 1..i PROVE sc[j] \in Int
    OBVIOUS
  <2>1. rules[j] \in JudgeRules /\ sc[j] = rules[j].score
    BY <1>1
  <2>2. rules[j].score \in Int
    BY <2>1, Parts, Zenon
  <2> QED
    BY <2>1, <2>2, Zenon
<1>3. new = IF Fires(rules[i], levels) THEN old \union {i} ELSE old
  <2>1. 1..i = (1..(i - 1)) \union {i}
    OBVIOUS
  <2> QED
    BY <2>1 DEF Hit
<1>4. \A j \in old : j \in 1..i
  BY DEF Hit
<1>5. /\ d \in Decisions
      /\ d.verdict = IF \E j \in old : j \in deny THEN "deny" ELSE IF old # {} THEN "score" ELSE "allow"
      /\ d.verdict = "score" => (\E j \in old : sc[j] = d.score) /\ \A j \in old : sc[j] <= d.score
  BY <1>4 DEF Strongest
<1>6. Fires(rules[i], levels) =>
        /\ e \in Decisions
        /\ i \in deny \/ d.verdict = "deny" => e.verdict = "deny"
        /\ i \notin deny /\ d.verdict # "deny" =>
              /\ e.verdict = "score" /\ sc[i] <= e.score
              /\ d.verdict = "score" => d.score <= e.score
              /\ e.score = sc[i] \/ (d.verdict = "score" /\ e.score = d.score)
  <2> SUFFICES ASSUME Fires(rules[i], levels)
               PROVE  /\ take(d, rules[i]) \in Decisions
                      /\ rules[i].action = "deny" \/ d.verdict = "deny"
                            => take(d, rules[i]).verdict = "deny"
                      /\ rules[i].action # "deny" /\ d.verdict # "deny" =>
                            /\ take(d, rules[i]).verdict = "score"
                            /\ rules[i].score <= take(d, rules[i]).score
                            /\ d.verdict = "score" => d.score <= take(d, rules[i]).score
                            /\ \/ take(d, rules[i]).score = rules[i].score
                               \/ d.verdict = "score" /\ take(d, rules[i]).score = d.score
    OBVIOUS
  <2> QED
    BY <1>1, <1>5, TakeIs
<1>7. ~Fires(rules[i], levels) => e = d
  OBVIOUS
<1>8. \A x \in Decisions : x.score \in Int
  BY Parts, Zenon
<1>12. \A j \in new : j \in 1..i
  BY DEF Hit
<1> SUFFICES /\ e \in Decisions
             /\ e.verdict = IF \E j \in new : j \in deny THEN "deny"
                            ELSE IF new # {} THEN "score" ELSE "allow"
             /\ e.verdict = "score" => (\E j \in new : sc[j] = e.score) /\ \A j \in new : sc[j] <= e.score
  BY <1>12 DEF Strongest
<1> HIDE DEF old, new, sc, deny, e
<1>9. CASE ~Fires(rules[i], levels)
  BY <1>3, <1>5, <1>7, <1>9
<1>10. CASE Fires(rules[i], levels) /\ (i \in deny \/ d.verdict = "deny")
  <2>1. \E j \in new : j \in deny
    BY <1>3, <1>5, <1>10
  <2>2. e \in Decisions /\ e.verdict = "deny"
    BY <1>6, <1>10
  <2> QED
    BY <2>1, <2>2
<1>11. CASE Fires(rules[i], levels) /\ i \notin deny /\ d.verdict # "deny"
  <2>1. new = old \union {i} /\ ~(\E j \in new : j \in deny)
    BY <1>3, <1>5, <1>11
  <2>2. /\ e \in Decisions /\ e.verdict = "score" /\ sc[i] <= e.score
        /\ d.verdict = "score" => d.score <= e.score
        /\ e.score = sc[i] \/ (d.verdict = "score" /\ e.score = d.score)
    BY <1>6, <1>11
  <2>3. \E j \in new : sc[j] = e.score
    BY <1>5, <2>1, <2>2
  <2>4. ASSUME NEW j \in old PROVE sc[j] <= e.score
    <3>1. d.verdict = "score" /\ sc[j] <= d.score /\ d.score <= e.score
      BY <1>5, <1>11, <2>2
    <3> QED
      BY <1>2, <1>4, <1>5, <1>8, <2>2, <3>1
  <2> QED
    BY <2>1, <2>2, <2>3, <2>4
<1> QED
  BY <1>9, <1>10, <1>11

(* What the loop of judge computes. *)
LEMMA JudgeFacts ==
  ASSUME NEW rules \in Seq(JudgeRules), NEW levels
  PROVE  Strongest(judge(rules, levels), rules, levels, Len(rules))
<1> DEFINE n == Len(rules)
           next(d, i) == IF Fires(rules[i], levels) THEN take(d, rules[i]) ELSE d
           Judged1(f) == f = [i \in 0..n |-> IF i = 0 THEN Allowed
                              ELSE IF Fires(rules[i], levels) THEN take(f[i - 1], rules[i])
                                   ELSE f[i - 1]]
           F == CHOOSE f : Judged1(f)
<1>0. n \in Nat /\ \A i \in 1..n : rules[i] \in JudgeRules
  OBVIOUS
<1>1. Allowed \in Decisions
  BY DEF Allowed, Decisions
<1>2. ASSUME NEW i \in 1..n, NEW d \in Decisions PROVE next(d, i) \in Decisions
  <2>1. take(d, rules[i]) \in Decisions
    BY <1>0, TakeIs
  <2> QED
    BY <2>1
<1>3. \E f : Judged1(f)
  <2> DEFINE step == [i \in 1..n |-> [d \in Decisions |-> next(d, i)]]
  <2> HIDE DEF next, n
  <2>1. step \in [1..n -> [Decisions -> Decisions]]
    BY <1>2
  <2>2. \A d \in Decisions, i \in 1..n : step[i][d] = next(d, i)
    OBVIOUS
  <2> HIDE DEF step
  <2>3. \E f : Loop(f, n, Decisions, Allowed, step)
    BY <1>0, <1>1, <2>1, PrefixRecursion, Zenon
  <2>4. PICK f \in [0..n -> Decisions] : f[0] = Allowed /\ \A i \in 1..n : f[i] = step[i][f[i - 1]]
    BY <2>3 DEF Loop
  <2>5. ASSUME NEW i \in 0..n
        PROVE  f[i] = IF i = 0 THEN Allowed
                      ELSE IF Fires(rules[i], levels) THEN take(f[i - 1], rules[i]) ELSE f[i - 1]
    <3>1. CASE i = 0
      BY <2>4, <3>1
    <3>2. CASE i # 0
      <4>1. i \in 1..n /\ f[i - 1] \in Decisions
        BY <1>0, <2>4, <3>2
      <4>2. f[i] = next(f[i - 1], i)
        BY <2>2, <2>4, <4>1
      <4> QED
        BY <3>2, <4>2 DEF next
    <3> QED
      BY <3>1, <3>2
  <2> QED
    BY <2>4, <2>5
<1>4. Judged1(F)
  BY <1>3
<1>5. judge(rules, levels) = F[n]
  BY DEF judge
<1> HIDE DEF F
<1>6. /\ F[0] = Allowed
      /\ \A i \in 1..n : F[i] = next(F[i - 1], i)
  BY <1>0, <1>4
<1> DEFINE S == {i \in 0..n : Strongest(F[i], rules, levels, i)}
<1>7. 0 \in S
  <2>1. Hit(rules, levels, 0) = {}
    BY DEF Hit
  <2> QED
    BY <1>0, <1>1, <1>6, <2>1 DEF Strongest, Allowed
<1>8. ASSUME NEW i \in 1..n, i - 1 \in S PROVE i \in S
  <2>1. Strongest(next(F[i - 1], i), rules, levels, i)
    BY <1>8, TakeFacts
  <2> QED
    BY <1>0, <1>6, <2>1
<1>9. n \in S
  <2>1. \A i \in 1..n : i - 1 \in S => i \in S
    BY <1>8
  <2> HIDE DEF S, n
  <2>2. \A i \in 0..n : i \in S
    BY <1>0, <1>7, <2>1, UpTo
  <2> QED
    BY <1>0, <2>2
<1> QED
  BY <1>5, <1>9
-----------------------------------------------------------------------------
(***************************************************************************)
(* A threshold scales the score without changing its order or leaving      *)
(* 0..100, whatever the actions add up to.                                 *)
(***************************************************************************)
LEMMA DeltaIsInt == \A v \in -100..900 : v \in Int
OBVIOUS

(* What is asked of a profile's scores is clamped to -100 and 900. *)
LEMMA PercentIs ==
  ASSUME InspectType, NEW p \in Profiles
  PROVE  Percent(p) \in -100..900
<1> DEFINE S == Taken(p, "threshold")
           w == [x \in S |-> prior[x[1]].act.delta]
           it(f) == [s \in SUBSET S |->
                       IF s = {} THEN 0
                       ELSE LET x == CHOOSE x \in s : TRUE IN prior[x[1]].act.delta + f[s \ {x}]]
           F == CHOOSE f : f = it(f)
<1>1. S \subseteq (DOMAIN prior) \X (DOMAIN p.prior)
  BY DEF Taken
<1>2. IsFiniteSet(S)
  <2>1. IsFiniteSet(DOMAIN prior)
    <3>1. DOMAIN prior = 1..Len(prior) /\ Len(prior) \in Nat
      BY DEF InspectType
    <3> QED
      BY <3>1, FS_Interval
  <2>2. IsFiniteSet(DOMAIN p.prior)
    BY InspectAssumption
  <2> QED
    BY <1>1, <2>1, <2>2, FS_Product, FS_Subset
<1>3. \A x \in S : prior[x[1]].act.delta \in Int
  <2> SUFFICES ASSUME NEW x \in S PROVE prior[x[1]].act.delta \in Int
    OBVIOUS
  <2>1. x[1] \in DOMAIN prior
    BY <1>1
  <2>2. prior[x[1]] \in Recorded
    BY <2>1 DEF InspectType
  <2>3. prior[x[1]].act \in Actions
    BY <2>2 DEF Recorded
  <2>4. \A a \in Actions : a.delta \in -100..900
    BY InspectAssumption
  <2>5. prior[x[1]].act.delta \in -100..900
    BY <2>3, <2>4
  <2> QED
    BY <2>5, DeltaIsInt, Zenon
<1>4. w \in [S -> Int]
  BY <1>3
<1> HIDE DEF S
<1>5. ASSUME NEW f PROVE Summed(f, S, w) <=> f = it(f)
  <2>1. \A s \in SUBSET S : s # {} => (CHOOSE x \in s : TRUE) \in S
    OBVIOUS
  <2> QED
    BY <2>1 DEF Summed
<1> HIDE DEF w
<1>6. (\E f : Summed(f, S, w)) /\ \A f : Summed(f, S, w) => f[S] \in Int
  BY <1>2, <1>4, SumOfIntegers, Zenon
<1> HIDE DEF it
<1>11. \E f : f = it(f)
  <2>1. PICK f : Summed(f, S, w)
    BY <1>6, Zenon
  <2>2. f = it(f)
    BY <1>5, <2>1, Zenon
  <2> QED
    BY <2>2, Zenon
<1>7. F = it(F)
  BY <1>11, Zenon
<1>8. F[S] \in Int
  BY <1>5, <1>6, <1>7, Zenon
<1>9. MapThenSumSet(LAMBDA x : prior[x[1]].act.delta, S) = F[S]
  BY DEF MapThenSumSet, MapThenFoldSet, it
<1> HIDE DEF F
<1>10. Percent(p) = Clamp(F[S], -100, 900)
  BY <1>9 DEF Percent, S
<1> QED
  BY <1>8, <1>10 DEF Clamp

(* A scaled score is a score, and the greater one stays the greater. *)
LEMMA ScaleFacts ==
  ASSUME NEW pc \in -100..900, NEW s \in 0..100, NEW t \in 0..100, s <= t
  PROVE  /\ ScaleScore(s, pc) \in 0..100
         /\ ScaleScore(s, pc) <= ScaleScore(t, pc)
<1> DEFINE r == 100 + pc
           half(a) == IF << a, pc >> \in HalvesUp THEN 100 ELSE 99
           q(a) == (2 * a * r + half(a)) \div 200
<1>2. ASSUME NEW a \in Int PROVE Min({a, 100}) = IF a <= 100 THEN a ELSE 100
  BY DEF Min
<1>3. /\ 2 * s * r \in Nat /\ 2 * t * r \in Nat /\ 2 * s * r <= 2 * t * r
  <2>1. r \in Nat /\ 2 * s \in Nat /\ 2 * t \in Nat /\ 2 * s <= 2 * t
    OBVIOUS
  <2>2. r * (2 * s) \in Nat /\ r * (2 * t) \in Nat /\ r * (2 * s) <= r * (2 * t)
    BY <2>1, MulMono
  <2> QED
    BY <2>2
<1>4. q(s) \in Nat /\ q(t) \in Nat /\ q(s) <= q(t)
  BY <1>3
<1>6. /\ Max({s, 0}) = s /\ Max({t, 0}) = t
      /\ Min({q(s), 100}) = IF q(s) <= 100 THEN q(s) ELSE 100
      /\ Min({q(t), 100}) = IF q(t) <= 100 THEN q(t) ELSE 100
  <2>1. q(s) \in Int /\ q(t) \in Int
    BY <1>4
  <2>2. Max({s, 0}) = s
    BY DEF Max
  <2>5. Max({t, 0}) = t
    BY DEF Max
  <2> HIDE DEF q
  <2>3. Min({q(s), 100}) = IF q(s) <= 100 THEN q(s) ELSE 100
    BY <1>2, <2>1, Zenon
  <2>4. Min({q(t), 100}) = IF q(t) <= 100 THEN q(t) ELSE 100
    BY <1>2, <2>1, Zenon
  <2> QED
    BY <2>2, <2>3, <2>4, <2>5, Zenon
<1>5. /\ ScaleScore(s, pc) = IF pc = 0 \/ s <= 0 THEN s ELSE IF q(s) <= 100 THEN q(s) ELSE 100
      /\ ScaleScore(t, pc) = IF pc = 0 \/ t <= 0 THEN t ELSE IF q(t) <= 100 THEN q(t) ELSE 100
  BY <1>6 DEF ScaleScore
<1> HIDE DEF q, r
<1> QED
  BY <1>4, <1>5

(* A scaled score is a score. *)
LEMMA ScaleRange ==
  ASSUME NEW pc \in -100..900, NEW s \in 0..100
  PROVE  ScaleScore(s, pc) \in 0..100
<1>1. s <= s
  OBVIOUS
<1>2. pc \in -100..900 /\ s \in 0..100
  OBVIOUS
<1> QED
  BY <1>1, <1>2, ScaleFacts, Zenon

(* A reply is the strongest of the rules that fired, scaled. *)
StrongestOf(rules, levels, pc, reply) ==
    LET fired == {r \in ToSet(rules) : Fires(r, levels)}
        deny == \E r \in fired : r.action = "deny"
        scores == {r.score : r \in fired}
    IN  /\ reply.verdict = (IF deny THEN "deny" ELSE IF fired # {} THEN "score" ELSE "allow")
        /\ reply.verdict = "score" =>
              /\ reply.score \in 0..100
              /\ \A s \in scores : ScaleScore(s, pc) <= reply.score
              /\ \E s \in scores : ScaleScore(s, pc) = reply.score

(* The answer of a profile that enforces. *)
LEMMA AnswerIsStrongest ==
  ASSUME NEW rules \in Seq(JudgeRules), NEW levels, NEW pc \in -100..900,
         NEW reply, reply.verdict = judge(rules, levels).verdict,
         judge(rules, levels).verdict = "score"
            => reply.score = ScaleScore(judge(rules, levels).score, pc)
  PROVE  StrongestOf(rules, levels, pc, reply)
<1> DEFINE d == judge(rules, levels)
           hit == Hit(rules, levels, Len(rules))
           fired == {r \in ToSet(rules) : Fires(r, levels)}
<1>0. pc \in -100..900
  OBVIOUS
<1>1. /\ d \in Decisions
      /\ d.verdict = IF \E j \in hit : rules[j].action = "deny" THEN "deny"
                     ELSE IF hit # {} THEN "score" ELSE "allow"
      /\ d.verdict = "score" => /\ \E j \in hit : rules[j].score = d.score
                               /\ \A j \in hit : rules[j].score <= d.score
  BY JudgeFacts DEF Strongest
<1>2. /\ \A j \in hit : rules[j] \in fired
      /\ \A r \in fired : r \in JudgeRules /\ \E j \in hit : r = rules[j]
  BY DEF Hit, ToSet
<1>3. d.verdict \in {"allow", "score", "deny"} /\ d.score \in 0..100
  BY <1>1, Parts
<1>4. /\ reply.verdict = d.verdict
      /\ d.verdict = "score" => reply.score = ScaleScore(d.score, pc)
  OBVIOUS
<1> HIDE DEF d, hit, fired
<1>5. reply.verdict = IF \E r \in fired : r.action = "deny" THEN "deny"
                      ELSE IF fired # {} THEN "score" ELSE "allow"
  <2>1. (\E j \in hit : rules[j].action = "deny") <=> \E r \in fired : r.action = "deny"
    BY <1>2, Zenon
  <2>2. hit # {} <=> fired # {}
    BY <1>2, Zenon
  <2> QED
    BY <1>1, <1>4, <2>1, <2>2
<1>6. ASSUME reply.verdict = "score"
      PROVE  /\ reply.score \in 0..100
             /\ \A r \in fired : ScaleScore(r.score, pc) <= reply.score
             /\ \E r \in fired : ScaleScore(r.score, pc) = reply.score
  <2>1. d.verdict = "score" /\ reply.score = ScaleScore(d.score, pc)
    BY <1>4, <1>6
  <2>2. d.score \in 0..100
    BY <1>3
  <2>3. reply.score \in 0..100
    <3>1. ScaleScore(d.score, pc) \in 0..100
      BY <1>0, <2>2, ScaleRange, Zenon
    <3> QED
      BY <2>1, <3>1, Zenon
  <2>4. ASSUME NEW r \in fired PROVE ScaleScore(r.score, pc) <= reply.score
    <3>1. PICK j \in hit : r = rules[j]
      BY <1>2, Zenon
    <3>2. r.score <= d.score
      BY <1>1, <2>1, <3>1, Zenon
    <3>3. r.score \in 0..100
      BY <1>2, Parts, Zenon
    <3>4. ScaleScore(r.score, pc) <= ScaleScore(d.score, pc)
      BY <1>0, <2>2, <3>2, <3>3, ScaleFacts, Zenon
    <3> QED
      BY <2>1, <3>4, Zenon
  <2>5. \E r \in fired : ScaleScore(r.score, pc) = reply.score
    <3>1. PICK j \in hit : rules[j].score = d.score
      BY <1>1, <2>1, Zenon
    <3> QED
      BY <1>2, <2>1, <3>1, Zenon
  <2> QED
    BY <2>3, <2>4, <2>5, Zenon
<1>7. ASSUME NEW s PROVE s \in {r.score : r \in fired} <=> \E r \in fired : s = r.score
  OBVIOUS
<1>8. /\ reply.verdict = IF \E r \in fired : r.action = "deny" THEN "deny"
                         ELSE IF fired # {} THEN "score" ELSE "allow"
      /\ reply.verdict = "score" =>
            /\ reply.score \in 0..100
            /\ \A s \in {r.score : r \in fired} : ScaleScore(s, pc) <= reply.score
            /\ \E s \in {r.score : r \in fired} : ScaleScore(s, pc) = reply.score
  BY <1>5, <1>6, <1>7, Zenon
<1> QED
  BY <1>8, Zenon DEF fired, StrongestOf

(* The verdict does not depend on the order of the rules: deny when any    *)
(* rule that fired denies, else the highest score that fired, scaled and   *)
(* in 0..100, else allow.                                                  *)
THEOREM StrongestWins == Spec => []VerdictIsStrongest
<1>1. Init => InspectType /\ VerdictIsStrongest
  BY TypeStarts DEF Init, Blank, VerdictIsStrongest, Judged
<1>2. InspectType /\ VerdictIsStrongest /\ [Next]_vars => InspectType' /\ VerdictIsStrongest'
  <2> SUFFICES ASSUME InspectType, VerdictIsStrongest, [Next]_vars
               PROVE  InspectType' /\ VerdictIsStrongest'
    OBVIOUS
  <2>1. InspectType'
    BY Moves, TypeKept
  <2> SUFFICES VerdictIsStrongest'
    BY <2>1
  <2>2. CASE UNCHANGED last
    BY <2>2 DEF VerdictIsStrongest, Judged
  <2>3. CASE Unruled'
    BY <2>3 DEF VerdictIsStrongest, Judged, Unruled
  <2>4. ASSUME NEW phase, NEW levels, NEW fill, Rules(phase, levels, fill),
               last'.profile.mode = "enforce"
        PROVE  VerdictIsStrongest'
    <3> DEFINE rules == RulesOf(profile, phase)
    <3>1. /\ last'.phase = phase /\ last'.profile = profile /\ last'.levels = levels
          /\ last'.percent = Percent(profile)
          /\ last'.reply = Ruling(profile, phase, levels, Percent(profile))
      BY <2>4 DEF Rules
    <3>2. rules \in Seq(JudgeRules)
      BY <2>4, <3>1, InspectAssumption DEF InspectType, RulesOf
    <3>3. Percent(profile) \in -100..900
      BY PercentIs DEF InspectType
    <3>4. /\ last'.reply.verdict = judge(rules, levels).verdict
          /\ judge(rules, levels).verdict = "score"
                => last'.reply.score = ScaleScore(judge(rules, levels).score, Percent(profile))
      <4>1. profile.mode # "observe"
        BY <2>4, <3>1
      <4> QED
        BY <3>1, <4>1 DEF Ruling, Decided, Observed, Scaled, scaled
    <3>5. /\ RulesOf(last'.profile, last'.phase) = rules
      BY <3>1
    <3> HIDE DEF rules
    <3>6. StrongestOf(rules, levels, Percent(profile), last'.reply)
      BY <3>2, <3>3, <3>4, AnswerIsStrongest, Zenon
    <3> QED
      BY <3>1, <3>5, <3>6 DEF VerdictIsStrongest, StrongestOf
  <2>5. (last'.profile.mode # "enforce") => VerdictIsStrongest'
    BY DEF VerdictIsStrongest
  <2> QED
    BY <2>1, <2>2, <2>3, <2>4, <2>5, Answers
<1> QED
  BY <1>1, <1>2, PTL DEF Spec
-----------------------------------------------------------------------------
(***************************************************************************)
(* Observe mode.  A decision that is not given is kept as the one that     *)
(* would be; both ways lead to the same verdict and score for Fire.        *)
(***************************************************************************)
LEMMA WouldIsWill ==
  ASSUME NEW d \in Decisions, NEW pc
  PROVE  /\ WouldBe(Scaled(Observed("observe", d), pc))
               = WouldBe(Scaled(Observed("enforce", d), pc))
         /\ Scaled(Observed("observe", d), pc).verdict = "allow"
         /\ Scaled(Observed("observe", d), pc).score = 0
<1> DEFINE o == Observed("observe", d)
           e == Observed("enforce", d)
<1>1. d.verdict \in {"allow", "score", "deny"} /\ (d.verdict = "allow" => d.score = 0)
  BY DEF Decisions
<1>2. e = [verdict |-> d.verdict, score |-> d.score, wouldVerdict |-> "none", wouldScore |-> 0]
  BY DEF Observed
<1>3. CASE d.verdict = "allow"
  <2>1. o = e
    BY <1>3 DEF Observed
  <2>2. Scaled(e, pc).verdict = "allow" /\ Scaled(e, pc).score = 0
    <3> HIDE DEF e
    <3> QED
      BY <1>1, <1>2, <1>3 DEF Scaled, scaled
  <2> QED
    BY <2>1, <2>2
<1>4. CASE d.verdict # "allow"
  <2>1. o = [verdict |-> "allow", score |-> 0, wouldVerdict |-> d.verdict, wouldScore |-> d.score]
    BY <1>4 DEF Observed
  <2> DEFINE s == scaled(d.verdict, d.score, pc)
  <2> HIDE DEF o, e
  <2>2. Scaled(o, pc) = [verdict |-> "allow", score |-> 0, wouldVerdict |-> d.verdict,
                         wouldScore |-> s]
    BY <2>1 DEF Scaled, scaled
  <2>3. Scaled(e, pc) = [verdict |-> d.verdict, score |-> s, wouldVerdict |-> "none",
                         wouldScore |-> 0]
    BY <1>2 DEF Scaled, scaled
  <2> HIDE DEF s
  <2>4. WouldBe(Scaled(o, pc)) = [verdict |-> d.verdict, score |-> s]
    BY <1>1, <2>2 DEF WouldBe
  <2>5. WouldBe(Scaled(e, pc)) = [verdict |-> d.verdict, score |-> s]
    BY <2>3 DEF WouldBe
  <2> QED
    BY <2>2, <2>4, <2>5 DEF o, e
<1> QED
  BY <1>3, <1>4

(* Observe mode rehearses: it allows, and fires exactly the outcomes that  *)
(* the same handling of the same message fires when the profile enforces   *)
(* (COUNTER_OBSERVE): the same phase, recorded actions, levels and queue.  *)
THEOREM RehearsalIsTrue == Spec => []ObserveRehearses
<1>1. Init => InspectType /\ ObserveRehearses
  BY TypeStarts DEF Init, Blank, ObserveRehearses, Judged
<1>2. InspectType /\ ObserveRehearses /\ [Next]_vars => InspectType' /\ ObserveRehearses'
  <2> SUFFICES ASSUME InspectType, ObserveRehearses, [Next]_vars
               PROVE  ObserveRehearses'
    BY Moves, TypeKept
  <2>1. CASE UNCHANGED last
    BY <2>1 DEF ObserveRehearses, Judged
  <2>2. CASE Unruled'
    BY <2>2 DEF ObserveRehearses, Judged, Unruled
  <2>3. ASSUME NEW phase, NEW levels, NEW fill, Rules(phase, levels, fill),
               profile.mode = "observe"
        PROVE  ObserveRehearses'
    <3> DEFINE pc == Percent(profile)
               strict == [profile EXCEPT !.mode = "enforce"]
               d == judge(RulesOf(profile, phase), levels)
    <3>1. /\ last'.phase = phase /\ last'.profile = profile /\ last'.levels = levels
          /\ last'.percent = pc /\ last'.fill = fill
          /\ last'.reply = Ruling(profile, phase, levels, pc)
          /\ last'.fired = Firing(profile, phase, levels, pc, fill)
      BY <2>3 DEF Rules
    <3>2. /\ strict.mode = "enforce"
          /\ RulesOf(strict, phase) = RulesOf(profile, phase)
          /\ OutcomesOf(strict, phase) = OutcomesOf(profile, phase)
      <4>1. DOMAIN profile = ProfileFields
        BY InspectAssumption DEF InspectType
      <4> QED
        BY <4>1 DEF ProfileFields, RulesOf, OutcomesOf
    <3>3. d \in Decisions
      <4>1. RulesOf(profile, phase) \in Seq(JudgeRules)
        BY <2>3, InspectAssumption DEF InspectType, RulesOf
      <4> QED
        BY <4>1, JudgeFacts DEF Strongest
    <3>4. /\ Decided(profile, phase, levels, pc) = Scaled(Observed("observe", d), pc)
          /\ Decided(strict, phase, levels, pc) = Scaled(Observed("enforce", d), pc)
      BY <2>3, <3>2 DEF Decided
    <3> HIDE DEF pc, strict, d
    <3>5. WouldBe(Decided(profile, phase, levels, pc)) = WouldBe(Decided(strict, phase, levels, pc))
      BY <3>3, <3>4, WouldIsWill
    <3>6. Ruling(profile, phase, levels, pc) = Allowed
      BY <3>3, <3>4, WouldIsWill DEF Ruling, Allowed
    <3>7. ASSUME NEW out
          PROVE  Fire(out, Decided(profile, phase, levels, pc), levels)
                    = Fire(out, Decided(strict, phase, levels, pc), levels)
      BY <3>5 DEF Fire
    <3>8. Firing(profile, phase, levels, pc, fill) = Firing(strict, phase, levels, pc, fill)
      BY <3>2, <3>7 DEF Firing
    <3>9. /\ last'.reply = Allowed
          /\ last'.fired = Firing([last'.profile EXCEPT !.mode = "enforce"], last'.phase,
                                  last'.levels, last'.percent, last'.fill)
      BY <3>1, <3>6, <3>8 DEF strict
    <3> QED
      BY <3>9 DEF ObserveRehearses
  <2>4. CASE last'.profile.mode # "observe"
    BY <2>4 DEF ObserveRehearses
  <2>5. ASSUME NEW phase, NEW levels, NEW fill, Rules(phase, levels, fill)
        PROVE  last'.profile = profile
    BY <2>5 DEF Rules
  <2> QED
    BY <2>1, <2>2, <2>3, <2>4, <2>5, Answers
<1> QED
  BY <1>1, <1>2, PTL DEF Spec
=============================================================================
