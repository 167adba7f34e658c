------------------------------ MODULE Inspect ------------------------------
(***************************************************************************)
(* What the inspector does with the messages of one exchange: the handler  *)
(* (cmd/inspector/handler.go, frame.go) and the decisions it takes         *)
(* (internal/decide).  An exchange is judged in the request phase and      *)
(* measured in the response phase, or in a frame after an upgrade;         *)
(* meanwhile other inspectors record actions for it, some of them notes    *)
(* that charge buckets, and a new profile generation may come into force   *)
(* between any two messages.  A message is handled with one snapshot.      *)
(*                                                                         *)
(* The bucket store is an input here: it answers with any levels, or an    *)
(* error.                                                                  *)
(***************************************************************************)
EXTENDS Integers, Sequences, SequencesExt, FiniteSetsExt

CONSTANTS
    Profiles,       \* the profile of the route in the generations that may come
    Actions,        \* the actions other inspectors may record
    Axes,           \* Axes[counter]: the axes it declares
    Percents,       \* the levels a bucket may have
    Fills,          \* how full the queue may be
    HalvesUp,       \* score, percent: where the float of an exact half rounds up
    MaxActions, MaxReloads, MaxFaults   \* bounds

NoSubject == -1
Refs == UNION {{c} \X Axes[c] : c \in DOMAIN Axes}
JudgeRules == [ref : Refs, at : 0..100, action : {"deny", "score"}, score : 0..100]

ProfileFields == {"mode", "request", "response", "frame", "requestJudge", "requestOutcomes",
                  "frameJudge", "frameOutcomes", "prior"}

(* The rules of a profile in force were validated, unless it is off. *)
ASSUME InspectAssumption ==
    /\ \A p \in Profiles :
          /\ DOMAIN p = ProfileFields
          /\ p.request \in BOOLEAN /\ IsFiniteSet(DOMAIN p.prior)
          /\ p.mode # "off" => /\ p.requestJudge \in Seq(JudgeRules)
                              /\ p.frameJudge \in Seq(JudgeRules)
    /\ Percents \subseteq 0..100 /\ Fills \subseteq 0..100
    /\ \A a \in Actions : a.delta \in -100..900
    /\ HalvesUp \subseteq (0..100) \X (-100..900)
    /\ MaxActions \in Nat /\ MaxReloads \in Nat /\ MaxFaults \in Nat

VARIABLES
    profile,    \* the profile in the snapshot in force
    stage,      \* the phase the exchange is in: request, response, frame or done
    prior,      \* the actions recorded so far, with the phase they were recorded in
    last,       \* the last message handled: its inputs and its reply
    noted,      \* the notes charged: action, rule, axis, phase (history)
    settled,    \* the phases handled without an error: profile, levels, actions seen (history)
    reloads, faults

vars == << profile, stage, prior, last, noted, settled, reloads, faults >>

Clamp(v, lo, hi) == IF v < lo THEN lo ELSE IF v > hi THEN hi ELSE v
-----------------------------------------------------------------------------
(* PriorRule.Accepts, WantsAxis, WantsCode and the sender: no axis or code *)
(* given is any.                                                           *)
Takes(r, a) ==
    /\ r.from = a.from
    /\ a.do \in r.accept
    /\ r.apply = {} \/ a.scope \in r.apply
    /\ r.codes = {} \/ a.code \in r.codes
    /\ a.do = "note" => a.counter \in {r.counter, "any"}

(* An action recorded without a phase was recorded in the request phase. *)
phaseOf(recorded) == IF recorded = "" THEN "request" ELSE recorded

(* Mutant: a note is charged wherever it is seen. *)
chargeAnywhere(recorded, phase, requestEnabled) == TRUE

(* Mutant: a note is charged in its own phase only. *)
chargeOwnPhase(recorded, phase, requestEnabled) == phaseOf(recorded) = phase

(* A note of the request phase is charged there, or in the response phase  *)
(* when the profile does not take part in the request phase.               *)
chargeHere(recorded, phase, requestEnabled) ==
    \/ phaseOf(recorded) = phase
    \/ phase = "response" /\ phaseOf(recorded) = "request" /\ ~requestEnabled

(* The pairs of an action and a rule that takes it. *)
Taken(p, do) ==
    {x \in (DOMAIN prior) \X (DOMAIN p.prior) :
        prior[x[1]].act.do = do /\ Takes(p.prior[x[2]], prior[x[1]].act)}

Skip(p) == Taken(p, "skip") # {}

Percent(p) ==
    Clamp(MapThenSumSet(LAMBDA x : prior[x[1]].act.delta, Taken(p, "threshold")), -100, 900)

NoteAxes(counter, scope) ==
    Axes[counter] \intersect (CASE scope = "ip"      -> {"ip"}
                                [] scope = "asn"     -> {"asn_net", "asn_router"}
                                [] scope = "session" -> {"sess"}
                                [] OTHER             -> {})

(* EvaluatePrior, the notes: what is to be charged in this phase.  Their   *)
(* value is a percentage of the capacity; a zero charges nothing.          *)
Notes(p, phase) ==
    UNION {{[act |-> x[1], rule |-> x[2], counter |-> p.prior[x[2]].counter, axis |-> axis] :
               axis \in NoteAxes(p.prior[x[2]].counter, prior[x[1]].act.scope)} :
           x \in {y \in Taken(p, "note") :
                     /\ chargeHere(prior[y[1]].recorded, phase, p.request)
                     /\ prior[y[1]].act.value # 0}}
-----------------------------------------------------------------------------
Allowed == [verdict |-> "allow", score |-> 0]

(* Mutant: the last score wins. *)
takeLastScore(d, r) ==
    CASE r.action = "deny"                          -> [verdict |-> "deny", score |-> 0]
      [] r.action # "deny" /\ d.verdict = "deny"    -> d
      [] r.action # "deny" /\ d.verdict # "deny"    -> [verdict |-> "score", score |-> r.score]

(* One rule that fired: deny is final, of the scores the highest counts. *)
take(d, r) ==
    CASE r.action = "deny"                          -> [verdict |-> "deny", score |-> 0]
      [] r.action # "deny" /\ d.verdict = "deny"    -> d
      [] r.action # "deny" /\ d.verdict # "deny"    ->
            IF d.verdict # "score" \/ r.score > d.score
            THEN [verdict |-> "score", score |-> r.score] ELSE d

(* A rule without a subject is silent. *)
Fires(r, levels) == levels[r.ref] # NoSubject /\ levels[r.ref] >= r.at

(* The decision after the first i rules. *)
judge(rules, levels) ==
    LET d[i \in 0..Len(rules)] ==
            IF i = 0 THEN Allowed
            ELSE IF Fires(rules[i], levels) THEN take(d[i - 1], rules[i]) ELSE d[i - 1]
    IN  d[Len(rules)]

(* math.Round of score * (1 + percent / 100), for a percent not below -100. *)
(* The product is a float: an exact half may come out a little less, and   *)
(* is rounded down then; nothing else is near enough to a half.            *)
ScaleScore(score, percent) ==
    LET half == IF << score, percent >> \in HalvesUp THEN 100 ELSE 99
    IN  IF percent = 0 \/ score <= 0 THEN Max({score, 0})
        ELSE Min({(2 * score * (100 + percent) + half) \div 200, 100})

(* In observe mode the verdict is allow whatever the rules say, and what   *)
(* it would be is kept beside it.                                          *)
Observed(mode, d) ==
    IF mode = "observe" /\ d.verdict # "allow"
    THEN [verdict |-> "allow", score |-> 0, wouldVerdict |-> d.verdict, wouldScore |-> d.score]
    ELSE [verdict |-> d.verdict, score |-> d.score, wouldVerdict |-> "none", wouldScore |-> 0]

scaled(verdict, score, percent) ==
    IF verdict = "score" THEN ScaleScore(score, percent) ELSE score

(* Mutant: only the score that is given is scaled. *)
ScaledGiven(d, percent) == [d EXCEPT !.score = scaled(d.verdict, d.score, percent)]

(* The handler scales the score that is given and the one that would be. *)
Scaled(d, percent) ==
    [verdict |-> d.verdict, score |-> scaled(d.verdict, d.score, percent),
     wouldVerdict |-> d.wouldVerdict,
     wouldScore |-> scaled(d.wouldVerdict, d.wouldScore, percent)]

(* Fire goes by the verdict that would be given, when there is one. *)
WouldBe(d) ==
    IF d.wouldVerdict # "none" THEN [verdict |-> d.wouldVerdict, score |-> d.wouldScore]
    ELSE [verdict |-> d.verdict, score |-> d.score]

Matches(o, d) ==
    CASE o.on \in {"allow", "deny"} -> d.verdict = o.on
      [] o.on = "score"             -> /\ d.verdict = "score"
                                       /\ CASE o.cmp = "eq"    -> d.score = o.at
                                            [] o.cmp = "below" -> d.score < o.at
                                            [] OTHER           -> d.score >= o.at
      [] OTHER                      -> FALSE

MatchesLevel(o, levels) ==
    /\ levels[o.ref] # NoSubject
    /\ IF o.cmp = "below" THEN levels[o.ref] < o.at ELSE levels[o.ref] >= o.at

(* The client's address is known: the axes made from it have a subject. *)
Addressed(levels) == \A r \in Refs : r[2] = "ip" => levels[r] # NoSubject

(* An ask goes to another inspector; a list entry needs an address. *)
CanAct(o, addressed) == o.asks \/ addressed

(* decide.Fire: the outcomes that fire, by their place in the profile. *)
Fire(outcomes, d, levels) ==
    {i \in DOMAIN outcomes :
        /\ IF outcomes[i].on = "level" THEN MatchesLevel(outcomes[i], levels)
           ELSE Matches(outcomes[i], WouldBe(d))
        /\ CanAct(outcomes[i], Addressed(levels))}

(* overload.Fires: a threshold of 100 is for shed messages alone. *)
OverloadFires(at, fill, shed) == shed \/ (at < 100 /\ fill >= at)

(* The outcomes of a full queue that fire. *)
FireOverload(outcomes, fill, shed, addressed) ==
    {i \in DOMAIN outcomes :
        /\ outcomes[i].on = "overload"
        /\ OverloadFires(outcomes[i].at, fill, shed)
        /\ CanAct(outcomes[i], addressed)}
-----------------------------------------------------------------------------
NoLevels == [r \in Refs |-> NoSubject]

Blank == [phase |-> "none", profile |-> 0, skip |-> FALSE, percent |-> 0, fill |-> 0,
          levels |-> NoLevels, reply |-> Allowed, fired |-> {}]

Init ==
    /\ profile \in Profiles
    /\ stage = "request"
    /\ prior = << >>
    /\ last = Blank
    /\ noted = {}
    /\ settled = {}
    /\ reloads = 0 /\ faults = 0

(* Another inspector records an action for the exchange; the request phase *)
(* need not be named.                                                      *)
Record(a) ==
    /\ stage # "done"
    /\ Len(prior) < MaxActions
    /\ \E recorded \in {stage} \union (IF stage = "request" THEN {""} ELSE {}) :
          prior' = Append(prior, [act |-> a, recorded |-> recorded])
    /\ UNCHANGED << profile, stage, last, noted, settled, reloads, faults >>

(* A new generation comes into force. *)
Reload ==
    /\ stage # "done"
    /\ reloads < MaxReloads
    /\ reloads' = reloads + 1
    /\ profile' \in Profiles \ {profile}
    /\ UNCHANGED << stage, prior, last, noted, settled, faults >>

(* The exchange goes on to its response, or to a frame. *)
Onward(phase) ==
    IF phase = "request" THEN stage' \in {"response", "frame"} ELSE stage' = "done"

Reply(phase, levels, fill, reply, fired) ==
    /\ last' = [phase |-> phase, profile |-> profile, skip |-> Skip(profile),
                percent |-> Percent(profile), fill |-> fill, levels |-> levels,
                reply |-> reply, fired |-> fired]
    /\ Onward(phase)
    /\ UNCHANGED << profile, prior, reloads >>

Error == [verdict |-> "error", score |-> 0]

enabled(p, phase) ==
    CASE phase = "request"  -> p.request
      [] phase = "response" -> p.response
      [] phase = "frame"    -> p.frame

TakesPart(phase) == profile.mode # "off" /\ enabled(profile, phase)

Settled(phase, levels) ==
    settled' = settled \union {[phase |-> phase, profile |-> profile, levels |-> levels,
                                saw |-> Len(prior)]}

(* The profile is off, or off for this phase: allow, and nothing is done. *)
Pass(phase) ==
    /\ stage = phase
    /\ ~TakesPart(phase)
    /\ Settled(phase, NoLevels)
    /\ Reply(phase, NoLevels, 0, Allowed, {})
    /\ UNCHANGED << noted, faults >>

Fault == faults < MaxFaults /\ faults' = faults + 1

(* handler.receive rejects the message (malformed, another version of the  *)
(* schema), or the snapshot has no such profile.                           *)
Refused(phase) ==
    /\ stage = phase
    /\ Fault
    /\ Reply(phase, NoLevels, 0, Error, {})
    /\ UNCHANGED << noted, settled >>

(* The message is shed: nothing is charged.  Only a full queue counts as   *)
(* overload, and only in the request phase; then all overload outcomes     *)
(* fire.                                                                   *)
Shed(phase, overloaded, addressed) ==
    /\ stage = phase
    /\ Fault
    /\ Reply(phase, NoLevels, 0, Error,
             IF overloaded /\ phase = "request" /\ profile.mode # "off"
             THEN FireOverload(profile.requestOutcomes, 100, TRUE, addressed) ELSE {})
    /\ UNCHANGED << noted, settled >>

(* A skip asked for in the request phase: nothing is read and no note is   *)
(* charged.                                                                *)
SkipsRequest(phase) == phase = "request" /\ Skip(profile)

JudgeSkipped ==
    /\ stage = "request"
    /\ TakesPart("request")
    /\ SkipsRequest("request")
    /\ Reply("request", NoLevels, 0, Allowed, {})
    /\ UNCHANGED << noted, settled, faults >>

(* The notes of this phase whose subject is known. *)
Charge(phase, levels) ==
    noted' = noted \union
        {[note |-> n, phase |-> phase, judged |-> profile.request] :
            n \in {m \in Notes(profile, phase) : levels[<< m.counter, m.axis >>] # NoSubject}}

(* The resolver, the store of headers and bodies or the buckets cannot be  *)
(* reached: the reply is an error.  The charges may have been made when it *)
(* is the buckets, and have not in the other cases.                        *)
Unavailable(phase, levels) ==
    /\ stage = phase
    /\ TakesPart(phase)
    /\ ~SkipsRequest(phase)
    /\ Fault
    /\ Charge(phase, levels) \/ UNCHANGED noted
    /\ Reply(phase, NoLevels, 0, Error, {})
    /\ UNCHANGED settled

RulesOf(p, phase) == IF phase = "request" THEN p.requestJudge ELSE p.frameJudge
OutcomesOf(p, phase) == IF phase = "request" THEN p.requestOutcomes ELSE p.frameOutcomes

(* What the rules of a profile decide on the levels, scaled. *)
Decided(p, phase, levels, percent) ==
    Scaled(Observed(p.mode, judge(RulesOf(p, phase), levels)), percent)

(* The verdict of a request or a frame ... *)
Ruling(p, phase, levels, percent) ==
    LET d == Decided(p, phase, levels, percent)
    IN  [verdict |-> d.verdict, score |-> d.score]

(* ... and the outcomes it fires, those of a full queue for requests only. *)
Firing(p, phase, levels, percent, fill) ==
    LET out == OutcomesOf(p, phase)
    IN  Fire(out, Decided(p, phase, levels, percent), levels)
           \union (IF phase = "request" THEN FireOverload(out, fill, FALSE, Addressed(levels))
                   ELSE {})

(* handler.judge and handler.frame: notes are charged, the rules judge the *)
(* levels, and the outcomes fire.                                          *)
Judge(phase, levels, fill) ==
    /\ stage = phase
    /\ TakesPart(phase)
    /\ ~Skip(profile)
    /\ Charge(phase, levels)
    /\ Settled(phase, levels)
    /\ Reply(phase, levels, fill, Ruling(profile, phase, levels, Percent(profile)),
             Firing(profile, phase, levels, Percent(profile), fill))
    /\ UNCHANGED faults

(* writeLists cannot resolve the networks of some entries: the others are  *)
(* written, the asks are gone with the reply they were in.                 *)
ListsFail(phase, levels, fill) ==
    LET entries == {i \in Firing(profile, phase, levels, Percent(profile), fill) :
                       ~OutcomesOf(profile, phase)[i].asks}
    IN  /\ stage = phase
        /\ TakesPart(phase)
        /\ ~Skip(profile)
        /\ Fault
        /\ Charge(phase, levels)
        /\ \E written \in SUBSET entries :
              written # entries /\ Reply(phase, NoLevels, 0, Error, written)
        /\ UNCHANGED settled

(* handler.frame measures and charges before it looks for a skip. *)
FrameSkipped(levels) ==
    /\ stage = "frame"
    /\ TakesPart("frame")
    /\ Skip(profile)
    /\ Charge("frame", levels)
    /\ Settled("frame", levels)
    /\ Reply("frame", levels, 0, Allowed, {})
    /\ UNCHANGED faults

(* handler.measure: the response's charges, and the notes; a skip does not *)
(* count.                                                                  *)
Measure(levels) ==
    /\ stage = "response"
    /\ TakesPart("response")
    /\ Charge("response", levels)
    /\ Settled("response", levels)
    /\ Reply("response", levels, 0, Allowed, {})
    /\ UNCHANGED faults

Levels == [Refs -> Percents \union {NoSubject}]

Done == stage = "done" /\ UNCHANGED vars

Next ==
    \/ \E a \in Actions : Record(a)
    \/ Reload
    \/ \E phase \in {"request", "response", "frame"} :
          \/ Pass(phase)
          \/ Refused(phase)
          \/ \E overloaded, addressed \in BOOLEAN : Shed(phase, overloaded, addressed)
          \/ \E levels \in Levels : Unavailable(phase, levels)
    \/ JudgeSkipped
    \/ \E phase \in {"request", "frame"}, levels \in Levels :
          \E fill \in IF phase = "request" THEN Fills ELSE {0} :
             Judge(phase, levels, fill) \/ ListsFail(phase, levels, fill)
    \/ \E levels \in Levels : FrameSkipped(levels) \/ Measure(levels)
    \/ Done

Spec == Init /\ [][Next]_vars
-----------------------------------------------------------------------------
(* The last message was judged by the rules of its profile. *)
Judged ==
    /\ last.phase \in {"request", "frame"} /\ enabled(last.profile, last.phase)
    /\ last.reply # Error /\ ~last.skip

(* The verdict does not depend on the order of the rules: deny when any    *)
(* rule that fired denies, else the highest score that fired, scaled and   *)
(* in 0..100 (so that WithScore never refuses it), else allow.             *)
VerdictIsStrongest ==
    Judged /\ last.profile.mode = "enforce" =>
        LET fired == {r \in ToSet(RulesOf(last.profile, last.phase)) : Fires(r, last.levels)}
            deny == \E r \in fired : r.action = "deny"
            scores == {r.score : r \in fired}
        IN  /\ last.reply.verdict = (IF deny THEN "deny" ELSE IF fired # {} THEN "score"
                                     ELSE "allow")
            /\ last.reply.verdict = "score" =>
                  /\ last.reply.score \in 0..100
                  /\ \A s \in scores : ScaleScore(s, last.percent) <= last.reply.score
                  /\ \E s \in scores : ScaleScore(s, last.percent) = last.reply.score

(* Observe mode rehearses: it allows, and fires exactly the outcomes that  *)
(* the same handling of the same message fires when the profile enforces   *)
(* (COUNTER_OBSERVE): the same phase, recorded actions, levels and queue.  *)
ObserveRehearses ==
    Judged /\ last.profile.mode = "observe" =>
        /\ last.reply = Allowed
        /\ last.fired = Firing([last.profile EXCEPT !.mode = "enforce"], last.phase,
                               last.levels, last.percent, last.fill)

(* A note is charged once for an exchange although the response phase sees *)
(* the notes of the request phase again: both phases charge it only when   *)
(* they were handled under generations that disagree on the request phase. *)
NoteOnce ==
    \A a, b \in noted :
       a.note = b.note /\ a.phase = "request" /\ b.phase = "response" => a.judged # b.judged

(* A note the request phase saw is not lost: when both phases were handled *)
(* without an error under one profile that measures responses, every rule  *)
(* that takes the note has charged it, on every axis that had a subject.   *)
(* A request that was skipped does not count: JudgeSkipped settles nothing *)
(* and charges nothing, and the response leaves a note of the request to   *)
(* the request phase, so that its notes are lost.                          *)
NoteKept ==
    \A s, t \in settled :
       /\ s.phase = "request" /\ t.phase = "response"
       /\ s.profile = t.profile /\ s.profile.mode # "off" /\ s.profile.response
       => \A i \in 1..s.saw, j \in DOMAIN s.profile.prior :
             LET a == prior[i].act
                 r == s.profile.prior[j]
                 levels == IF s.profile.request THEN s.levels ELSE t.levels
             IN  a.do = "note" /\ Takes(r, a) /\ a.value # 0 =>
                    \A axis \in NoteAxes(r.counter, a.scope) :
                       \/ levels[<< r.counter, axis >>] = NoSubject
                       \/ \E n \in noted :
                             n.note.act = i /\ n.note.rule = j /\ n.note.axis = axis
=============================================================================
