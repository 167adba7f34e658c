------------------------------- MODULE Schema -------------------------------
(***************************************************************************)
(* The counters file and the profile: what they declare, and what is       *)
(* rejected before it may come into force (internal/config/counters.go,    *)
(* profile.go).  Operators only; Exchange uses them.                       *)
(*                                                                         *)
(* An optional value is a set with at most one element.  A text that is    *)
(* absent is the empty string, as in the code; Garbled stands for any text *)
(* that the pattern of its field (a name, a code, a method, a marker, a    *)
(* regular expression) refuses.                                            *)
(***************************************************************************)
EXTENDS Integers, Sequences, FiniteSets, SequencesExt

Garbled == "?"
WellFormed(text) == text # Garbled

KnownAxes == {"ip", "asn_net", "asn_router", "sess", "user", "conn"}
-----------------------------------------------------------------------------
(* counters.go.  c.counters[name] has the axes of a counter with their     *)
(* tiers, who fills it, and its own session cookie and user source; the    *)
(* shared ones are c.cookie and c.from.                                    *)

NoFrom == [kind |-> "", name |-> ""]

SplitFrom(from) ==
    /\ from.name # ""
    /\ \/ from.kind \in {"cookie", "header"}
       \/ from.kind = "session" /\ from.name \in {"user", "sid"}

WantsHeaders(from) == SplitFrom(from) /\ from.kind \in {"cookie", "header"}

(* ParseCounters: the default of the session cookie. *)
ParseCounters(c) == IF c.cookie = "" THEN [c EXCEPT !.cookie = "waf_cid"] ELSE c

Declares(c, counter) == counter \in DOMAIN c.counters

SessCookie(c, counter) ==
    IF Declares(c, counter) /\ c.counters[counter].cookie # "" THEN c.counters[counter].cookie
    ELSE c.cookie

UserFrom(c, counter) ==
    IF Declares(c, counter) /\ c.counters[counter].from # NoFrom THEN c.counters[counter].from
    ELSE c.from

AxesOf(c, counter) == IF Declares(c, counter) THEN DOMAIN c.counters[counter].axes ELSE {}

HasAxis(c, counter, axis) == axis \in AxesOf(c, counter)

Fill(c, counter) ==
    IF Declares(c, counter) /\ c.counters[counter].fill = "note" THEN "note" ELSE "measure"

NoteAxes(c, counter, scope) ==
    AxesOf(c, counter) \intersect (CASE scope = "ip"      -> {"ip"}
                                     [] scope = "asn"     -> {"asn_net", "asn_router"}
                                     [] scope = "session" -> {"sess"}
                                     [] OTHER             -> {})

(* Counters.Tiers: the tiers by kind. *)
Kinds(c) == UNION {{name} \X AxesOf(c, name) : name \in DOMAIN c.counters}
Tier(c, kind) == c.counters[kind[1]].axes[kind[2]]

ValidFrom(from) == from = NoFrom \/ SplitFrom(from)

ValidCounter(c, name) ==
    LET cnt == c.counters[name]
    IN  /\ WellFormed(name)
        /\ cnt.fill \in {"", "measure", "note"}
        /\ DOMAIN cnt.axes # {}
        /\ \A axis \in DOMAIN cnt.axes :
              /\ axis \in KnownAxes
              /\ cnt.axes[axis].Max > 0
              /\ cnt.axes[axis].Loss \in 1..100
              /\ axis = "user" => UserFrom(c, name) # NoFrom
        /\ ValidFrom(cnt.from)

ValidCounters(c) ==
    /\ DOMAIN c.counters # {}
    /\ \A name \in DOMAIN c.counters : ValidCounter(c, name)
    /\ ValidFrom(c.from)
-----------------------------------------------------------------------------
(* profile.go: outcomes that ask another inspector. *)

controlVerbs == {"active", "passive", "off", "vote"}
auditVerbs == {"audit", "archive"}
recordVerbs == auditVerbs \union {"mark", "score"}

(* The axes each verb takes. *)
outcomeVerbs ==
    [do \in {"challenge", "threshold", "skip", "mutate", "reauth", "note", "mark", "score"}
               \union controlVerbs \union auditVerbs |->
        CASE do = "reauth"         -> {"session"}
          [] do = "note"           -> {"request", "ip", "asn", "session"}
          [] do \in controlVerbs   -> {"request", "conn"}
          [] do \in auditVerbs     -> {"request", "response"}
          [] OTHER                 -> {"request"}]

(* Outcome.Axis: what is written, or the one the verb implies. *)
Axis(o) ==
    IF o.apply # "" THEN o.apply
    ELSE IF o.do \in auditVerbs THEN "request"
    ELSE IF o.do \in DOMAIN outcomeVerbs /\ Cardinality(outcomeVerbs[o.do]) = 1
         THEN CHOOSE axis \in outcomeVerbs[o.do] : TRUE
    ELSE ""

checkPhaseAsk(do, phase, apply) ==
    phase # "" =>
        /\ do \in controlVerbs
        /\ phase \in {"request", "response", "frame"}
        /\ apply = "conn" => phase = "frame"

Within(value, lo, hi) == \A v \in value : v \in lo..hi
NonZero(value) == \E v \in value : v # 0

(* CheckArchiveWhen: allow and deny, each once. *)
CheckArchiveWhen(when) ==
    IsInjective(when) /\ ToSet(when) \subseteq {"allow", "deny"}

(* The fields that belong to some verbs only.  o.objects has the specs of  *)
(* those of headers, args and body that are given.                         *)
ValidExtras(o) ==
    /\ o.counter # "" => o.do = "note" /\ WellFormed(o.counter)
    /\ IF o.do = "mutate" THEN o.group # "" /\ WellFormed(o.group) /\ o.set \in {"on", "off"}
       ELSE o.group = "" /\ (o.set # "" => o.do \in auditVerbs)
    /\ IF o.do = "mark" THEN o.marker # "" /\ WellFormed(o.marker) ELSE o.marker = ""
    /\ o.do \in recordVerbs => o.to \in {"", "*"}
    /\ IF o.do \in auditVerbs
       THEN /\ o.set \in {"on", "off"}
            /\ o.set = "off" => o.ttl = 0 /\ o.when = << >> /\ DOMAIN o.objects = {}
            /\ o.do = "audit" => o.ttl = 0 /\ o.when = << >>
            /\ CheckArchiveWhen(o.when)
            /\ o.apply = "response" => "args" \notin DOMAIN o.objects
            /\ \A name \in DOMAIN o.objects : WellFormed(o.objects[name])
       ELSE o.when = << >> /\ DOMAIN o.objects = {}

validateOutcomeAsk(o) ==
    /\ o.on = "deny" => o.do \in recordVerbs
    /\ o.do \in DOMAIN outcomeVerbs
    /\ o.apply # "" => o.apply \in outcomeVerbs[o.do]
    /\ o.apply = "" => Cardinality(outcomeVerbs[o.do]) = 1 \/ o.do \in auditVerbs
    /\ o.do \in controlVerbs => o.to # ""
    /\ checkPhaseAsk(o.do, o.phase, Axis(o))
    /\ Within(o.delta, -100, 900) /\ Within(o.value, -100, 100)
    /\ o.do = "threshold" => NonZero(o.delta)
    /\ o.do \in {"note", "score"} => NonZero(o.value)
    /\ ValidExtras(o)

(* When an outcome fires: the condition it may be given. *)
ValidCondition(section, o) ==
    /\ o.on \in {"deny", "allow", "score", "level", "overload"}
    /\ o.on \in {"deny", "allow"} => o.at = {} /\ ~o.below /\ ~o.eq
    /\ o.on = "score" => o.at # {} /\ Within(o.at, 0, 100) /\ ~(o.below /\ o.eq)
    /\ o.on = "level" => /\ \E i \in o.if : i.counter # "" /\ i.axis \in KnownAxes
                         /\ o.at # {} /\ Within(o.at, 0, 100) /\ ~o.eq
    /\ o.on = "overload" => /\ section = "request"
                            /\ Within(o.at, 25, 100) /\ ~o.below /\ ~o.eq
    /\ o.if # {} => o.on = "level"

validateOutcome(section, o) ==
    /\ ValidCondition(section, o)
    /\ WellFormed(o.code)
    /\ ~(o.do # "" /\ o.list # "")
    /\ IF o.do # ""
       THEN /\ validateOutcomeAsk(o)
            /\ o.apply = "conn" => section = "frame"
            /\ o.apply = "response" => section # "frame"
       ELSE /\ o.list # "" /\ WellFormed(o.list)
            /\ o.write \in {"", "addr", "net", "net_all", "asn"}
            /\ o.ttl > 0
-----------------------------------------------------------------------------
(* profile.go: prior rules, judge rules and measure rules. *)

validatePrior(r) ==
    /\ r.from \notin {"", "*"}
    /\ r.accept # {} /\ r.accept \subseteq {"threshold", "skip", "note"}
    /\ r.apply \subseteq {"request", "ip", "asn", "session"}
    /\ "request" \in r.apply => r.accept \intersect {"threshold", "skip"} # {}
    /\ r.apply \intersect {"ip", "asn", "session"} # {} => "note" \in r.accept
    /\ IF "note" \in r.accept THEN r.counter # "" /\ WellFormed(r.counter) ELSE r.counter = ""

validateJudge(r, frame) ==
    /\ r.counter # ""
    /\ r.axis \in KnownAxes
    /\ r.axis = "conn" => frame
    /\ r.at \in 0..100
    /\ r.action \in {"deny", "score"}
    /\ r.action = "deny" => r.score = 0
    /\ r.action = "score" => r.score \in 1..100
    /\ WellFormed(r.code)

validateJudges(rules, denyResponse, frame) ==
    /\ \A r \in ToSet(rules) : validateJudge(r, frame)
    /\ (\E r \in ToSet(rules) : r.action = "deny") => denyResponse # ""

Weight(m) == IF m.per = {} THEN 1 ELSE CHOOSE v \in m.per : TRUE

(* validateMeasure compiles the regular expression on the way. *)
Compiles(m) == m.source = "regex_count" => m.regex # "" /\ WellFormed(m.regex)

validateMeasure(m, frame) ==
    /\ m.counter # ""
    /\ m.source \in {"const", "size_kb", "bytes", "regex_count"}
    /\ m.source # "regex_count" => m.regex = ""
    /\ Compiles(m)
    /\ Weight(m) # 0
    /\ m.axes \subseteq KnownAxes
    /\ "conn" \in m.axes => frame
    /\ IF frame
       THEN /\ m.if.status = {} /\ m.if.types = {} /\ m.if.methods = {}
            /\ m.if.direction \subseteq {"c2s", "s2c"}
            /\ m.if.opcode \subseteq {"text", "binary", "continuation"}
       ELSE /\ m.if.direction = {} /\ m.if.opcode = {}
            /\ \A meth \in m.if.methods : WellFormed(meth)
            /\ m.if.status \subseteq 100..599

(* Profile.Validate: a profile that is off is not looked at any further. *)
Validate(p) ==
    /\ p.mode \in {"enforce", "observe", "off"}
    /\ \A r \in ToSet(p.prior) : validatePrior(r)
    /\ \A o \in ToSet(p.request.outcomes) : validateOutcome("request", o)
    /\ \A o \in ToSet(p.frame.outcomes) : validateOutcome("frame", o)
    /\ p.mode # "off" =>
          /\ p.request.enabled \/ p.response.enabled \/ p.frame.enabled
          /\ validateJudges(p.request.judge, p.request.denyResponse, FALSE)
          /\ validateJudges(p.frame.judge, p.frame.denyResponse, TRUE)
          /\ \A m \in ToSet(p.response.measure) : validateMeasure(m, FALSE)
          /\ \A m \in ToSet(p.frame.measure) : validateMeasure(m, TRUE)
-----------------------------------------------------------------------------
OnBucket(o) == o.on = "level" /\ o.if # {}
BucketOf(o) == CHOOSE i \in o.if : TRUE

(* Mutant: the counter is declared, on whatever axes. *)
JudgesDeclaredAnyAxis(rules, c) == \A r \in ToSet(rules) : Declares(c, r.counter)

(* ValidateAgainst, part by part: what judges and outcomes refer to, ...   *)
JudgesDeclared(rules, c) == \A r \in ToSet(rules) : HasAxis(c, r.counter, r.axis)

OutcomesDeclared(outcomes, c) ==
    \A o \in ToSet(outcomes) : OnBucket(o) => HasAxis(c, BucketOf(o).counter, BucketOf(o).axis)

(* Mutant: any declared counter may be measured. *)
MeasuresDeclaredOnly(rules, c) ==
    \A m \in ToSet(rules) : Declares(c, m.counter) /\ m.axes \subseteq AxesOf(c, m.counter)

(* ... what measures fill ... *)
MeasuresDeclared(rules, c) ==
    \A m \in ToSet(rules) :
       /\ Declares(c, m.counter)
       /\ Fill(c, m.counter) = "measure"
       /\ m.axes \subseteq AxesOf(c, m.counter)

(* ... and what notes fill. *)
NotesDeclared(rules, c) ==
    \A r \in ToSet(rules) :
       "note" \in r.accept =>
          /\ Declares(c, r.counter)
          /\ Fill(c, r.counter) = "note"
          /\ \E scope \in {"ip", "asn", "session"} : NoteAxes(c, r.counter, scope) # {}

ValidateAgainst(p, c) ==
    p.mode # "off" =>
        /\ JudgesDeclared(p.request.judge, c)
        /\ MeasuresDeclared(p.response.measure, c)
        /\ OutcomesDeclared(p.request.outcomes, c)
        /\ JudgesDeclared(p.frame.judge, c)
        /\ MeasuresDeclared(p.frame.measure, c)
        /\ OutcomesDeclared(p.frame.outcomes, c)
        /\ NotesDeclared(p.prior, c)
=============================================================================
