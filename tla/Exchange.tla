------------------------------ MODULE Exchange ------------------------------
(***************************************************************************)
(* One exchange from its inputs to its buckets: which subjects a message   *)
(* belongs to, what is loaded for it, what is read and what is charged     *)
(* (cmd/inspector/handler.go, frame.go), under generations of counters and *)
(* profile that passed the validation of Schema.  It composes Schema,      *)
(* Loader, Subjects and Measures.  Inspect has the other half, what is     *)
(* decided from the levels; the arithmetic of a charge is in LocalBuckets  *)
(* and RedisBuckets.                                                       *)
(***************************************************************************)
EXTENDS Subjects, Measures, Loader

CONSTANTS
    First,          \* the generation loaded at start: counters and profile
    Candidates,     \* the generations that may be offered later
    Clients,        \* who may be at the other end: ip, network, router
    Blobs,          \* what nginx puts into the buffer store, by key
    Outages,        \* what the buffer store may lack: keys that expired, or all
    Messages(_),    \* the messages of a phase
    Percentage,     \* what a note asks for, in percent of the capacity
    MaxReloads

VARIABLES
    resolver, store,    \* is there a resolver, a buffer store (process configuration)
    snap,               \* the generation in force
    who,                \* the client
    stage,              \* the phase that is next; passed or done when a message was answered
    last,               \* the last message and what was done with it
    judged,             \* whom the request was judged by: << ref, key >> (history)
    filled,             \* who charged what under these counters: << kind, owner >> (history)
    reloads

vars == << resolver, store, snap, who, stage, last, judged, filled, reloads >>
wiring == << resolver, store >>

(* A profile of the route is read with the counters file of its generation. *)
Accepted(g) ==
    LET c == ParseCounters(g.counters)
    IN  ValidCounters(c) /\ Validate(g.profile) /\ ValidateAgainst(g.profile, c)

InForce(g) == [counters |-> ParseCounters(g.counters), profile |-> g.profile]

ASSUME ExchangeAssumption == Accepted(First) /\ MaxReloads \in Nat /\ Percentage \in Int
-----------------------------------------------------------------------------
Phases == {"request", "response", "frame"}

(* A locator is a pointer: there is one or none. *)
Locators(m) == {m.store.headers, m.store.body, m.requestStore.headers}

ASSUME MessagesAssumption ==
    \A phase \in Phases : \A m \in Messages(phase) : \A loc \in Locators(m) :
       \A l, k \in loc : l = k

Blank == [phase |-> "none", msg |-> << >>, st |-> << >>, code |-> "", reads |-> {},
          charges |-> {}]

Init ==
    /\ resolver \in BOOLEAN /\ store \in BOOLEAN
    /\ snap = InForce(First)
    /\ who \in Clients
    /\ stage = "request"
    /\ last = Blank
    /\ judged = {} /\ filled = {}
    /\ reloads = 0

(* A generation is offered: in force when it is valid, else left aside.    *)
(* The histories are of one counters file.                                 *)
Reload(g) ==
    /\ stage \in Phases
    /\ reloads < MaxReloads
    /\ reloads' = reloads + 1
    /\ snap' = IF Accepted(g) THEN InForce(g) ELSE snap
    /\ IF snap'.counters = snap.counters THEN UNCHANGED << judged, filled >>
       ELSE judged' = {} /\ filled' = {}
    /\ UNCHANGED << wiring, who, stage, last >>
-----------------------------------------------------------------------------
(* EvaluatePrior, as far as it matters here: a note with one of the scopes *)
(* is charged on the axes of the counter its rule names.                   *)
Notes(g, scopes) ==
    UNION {{[rule |-> i, kind |-> << g.profile.prior[i].counter, axis >>] :
               axis \in UNION {NoteAxes(g.counters, g.profile.prior[i].counter, scope) :
                                 scope \in scopes}} :
           i \in {j \in DOMAIN g.profile.prior : "note" \in g.profile.prior[j].accept}}

JudgeRefs(rules) == {<< r.counter, r.axis >> : r \in ToSet(rules)}

LevelRefs(outcomes) ==
    {<< BucketOf(o).counter, BucketOf(o).axis >> : o \in {q \in ToSet(outcomes) : OnBucket(q)}}

(* handler.frame: everything that its measure rules may charge. *)
MeasureRefs(rules, c) ==
    UNION {{<< r.counter, axis >> : axis \in AxesOfRule(r, c)} : r \in ToSet(rules)}

NoteRefs(notes) == {n.kind : n \in notes}

ValueRefs(values) == UNION {{<< v.counter, axis >> : axis \in v.axes} : v \in values}

needsBody(rules) == \E r \in ToSet(rules) : r.source = "regex_count"

(* A blob of headers that is not an array of pairs is no headers. *)
HeadersOf(body) == IF Available(body) /\ body.data # NoBlob THEN body.data.pairs ELSE << >>
HitsOf(body) == IF body.data # NoBlob THEN body.data.hits ELSE << >>
SizeOf(loc) == IF loc = {} THEN 0 ELSE The(loc).size

(* The value of the first content-type header, read as the type it is. *)
ContentType(headers) ==
    LET found == SelectSeq(headers, LAMBDA h : h.name = "content-type")
    IN  IF found = << >> THEN NoType ELSE Head(found).value

(* The known subjects of the refs, and the charges of values and notes. *)
Reads(refs, keys, c) == UNION {{<< r, k >> : k \in key(keys, c, r)} : r \in refs}

ValueCharges(values, keys, c) ==
    UNION {UNION {{[by |-> "measure", rule |-> v.rule, kind |-> << v.counter, axis >>, key |-> k,
                    add |-> v.add] : k \in key(keys, c, << v.counter, axis >>)} : axis \in v.axes} :
           v \in values}

NoteAmount(c, kind) == (Percentage * Unit * Tier(c, kind).Max) \div 100

noteCharges(notes, keys, c) ==
    UNION {{[by |-> "note", rule |-> n.rule, kind |-> n.kind, key |-> k,
             add |-> NoteAmount(c, n.kind)] : k \in key(keys, c, n.kind)} : n \in notes}
-----------------------------------------------------------------------------
enabled(p, phase) ==
    CASE phase = "request"  -> p.request.enabled
      [] phase = "response" -> p.response.enabled
      [] phase = "frame"    -> p.frame.enabled

TakesPart(phase) == snap.profile.mode # "off" /\ enabled(snap.profile, phase)

(* The buffer store as it may be when the message is handled. *)
StoresWhen(configured) ==
    IF configured THEN {[configured |-> TRUE, up |-> "all" \notin lack,
                    blobs |-> [k \in DOMAIN Blobs \ lack |-> Blobs[k]]] : lack \in Outages}
    ELSE {[configured |-> FALSE]}

Stores == StoresWhen(store)

(* The request is passed on: its response is next, or, after an upgrade, a *)
(* frame.                                                                  *)
Proceed ==
    /\ stage = "passed"
    /\ stage' \in {"response", "frame"}
    /\ last' = Blank
    /\ UNCHANGED << wiring, snap, who, judged, filled, reloads >>

(* The message is answered: OK, or the short name of the reason. *)
Answer(phase, m, st, code, reads, charges) ==
    /\ last' = [phase |-> phase, msg |-> m, st |-> st, code |-> code, reads |-> reads,
                charges |-> charges]
    /\ stage' = IF phase = "request" THEN "passed" ELSE "done"
    /\ filled' = filled \union {<< ch.kind, ch.by >> : ch \in charges}
    /\ judged' = IF phase = "request" THEN judged \union reads ELSE judged
    /\ UNCHANGED << wiring, snap, who, reloads >>

Nothing(phase, m, st, code) == Answer(phase, m, st, code, {}, {})

Wellformed(m) ==
    Addressable(m.store.headers) /\ Addressable(m.store.body) /\ Addressable(m.requestStore.headers)

(* protocol.Parse refuses the message. *)
Refused(phase, m, st) ==
    /\ stage = phase
    /\ ~Wellformed(m)
    /\ Nothing(phase, m, st, "MALFORMED")

(* Snapshot.Profile: a route that names no profile has the default one,    *)
(* which is the only one here.                                             *)
Routed(m) == m.route \in {"", "default"}

Unknown(phase, m, st) ==
    /\ stage = phase
    /\ Wellformed(m)
    /\ ~Routed(m)
    /\ Nothing(phase, m, st, "PROFILE")

(* The message is for the phase that is next, and has a profile. *)
Inspected(phase, m) == stage = phase /\ Wellformed(m) /\ Routed(m)

(* The profile is off, or for this phase. *)
Pass(phase, m, st) ==
    /\ Inspected(phase, m)
    /\ ~TakesPart(phase)
    /\ Nothing(phase, m, st, "OFF")

(* Buckets.Apply with what it is given; it may fail when some or all of    *)
(* the charges are made, and then the answer is an error.                  *)
Apply(phase, m, st, reads, charges) ==
    \/ Answer(phase, m, st, "OK", reads, charges)
    \/ Answer(phase, m, st, "BUCKETS", {}, charges)

(* handler.judge: the request's own headers, when a session or user must   *)
(* be known.                                                               *)
Judge(m, st) ==
    LET c == snap.counters
        p == snap.profile
        asked == JudgeRefs(p.request.judge) \union LevelRefs(p.request.outcomes)
        notes == Notes(snap, m.scopes)
        refs == asked \union NoteRefs(notes)
        body == IF hasConfigurable(refs, c) THEN Load(st, m.store.headers) ELSE NoBody("")
        keys == subjectsOf(refs, c, who, HeadersOf(body), m.sessions, "")
    IN  /\ Inspected("request", m)
        /\ TakesPart("request")
        /\ IF m.skip THEN Nothing("request", m, st, "SKIPPED")
           ELSE IF needsResolver(refs) /\ ~resolver
           THEN Nothing("request", m, st, "GEO")
           ELSE IF Failed(body) THEN Nothing("request", m, st, "STORE")
           ELSE Apply("request", m, st, Reads(asked, keys, c), noteCharges(notes, keys, c))

(* handler.measure: headers of the response for its type, of the request   *)
(* for the subjects, and the body when a rule looks into it.               *)
Measure(m, st) ==
    LET c == snap.counters
        rules == snap.profile.response.measure
        locs == << m.store.headers, m.requestStore.headers >>
                   \o (IF needsBody(rules) THEN << m.store.body >> ELSE << >>)
        got == LoadMany(st, locs)
        in == [frame |-> FALSE, method |-> m.method, status |-> m.status,
               size |-> SizeOf(m.store.body), contentType |-> ContentType(HeadersOf(got[1])),
               hits |-> IF needsBody(rules) THEN HitsOf(got[3]) ELSE << >>]
        values == Run(rules, c, in)
        notes == Notes(snap, m.scopes)
        refs == ValueRefs(values) \union NoteRefs(notes)
        keys == subjectsOf(refs, c, who, HeadersOf(got[2]), m.sessions, "")
    IN  /\ Inspected("response", m)
        /\ TakesPart("response")
        /\ IF \E i \in DOMAIN got : Failed(got[i])
           THEN Nothing("response", m, st, "STORE")
           ELSE IF values = {} /\ notes = {} THEN Nothing("response", m, st, "OK")
           ELSE IF needsResolver(refs) /\ ~resolver
           THEN Nothing("response", m, st, "GEO")
           ELSE Apply("response", m, st, {}, ValueCharges(values, keys, c)
                                               \union noteCharges(notes, keys, c))

(* handler.frame: the payload of the frame, and the headers of the request *)
(* that opened the connection.                                             *)
Frame(m, st) ==
    LET c == snap.counters
        p == snap.profile
        rules == p.frame.measure
        asked == JudgeRefs(p.frame.judge) \union LevelRefs(p.frame.outcomes)
        notes == Notes(snap, m.scopes)
        refs == asked \union NoteRefs(notes) \union MeasureRefs(rules, c)
        wantHeaders == hasConfigurable(refs, c)
        locs == (IF wantHeaders THEN << m.requestStore.headers >> ELSE << >>)
                   \o (IF needsBody(rules) THEN << m.store.body >> ELSE << >>)
        got == LoadMany(st, locs)
        in == [frame |-> TRUE, direction |-> m.direction, opcode |-> m.opcode,
               size |-> SizeOf(m.store.body),
               hits |-> IF needsBody(rules) THEN HitsOf(got[Len(got)]) ELSE << >>]
        values == Run(rules, c, in)
        keys == subjectsOf(refs, c, who, IF wantHeaders THEN HeadersOf(got[1]) ELSE << >>,
                           m.sessions, m.conn)
    IN  /\ Inspected("frame", m)
        /\ TakesPart("frame")
        /\ IF needsResolver(refs) /\ ~resolver
           THEN Nothing("frame", m, st, "GEO")
           ELSE IF \E i \in DOMAIN got : Failed(got[i])
           THEN Nothing("frame", m, st, "STORE")
           ELSE Apply("frame", m, st, Reads(asked, keys, c),
                      ValueCharges(values, keys, c) \union noteCharges(notes, keys, c))

(* The messages that may come now. *)
Incoming(phase) == IF stage = phase THEN Messages(phase) ELSE {}

Done == stage = "done" /\ UNCHANGED vars

Next ==
    \/ \E g \in Candidates : Reload(g)
    \/ Proceed
    \/ \E phase \in Phases : \E m \in Incoming(phase), st \in Stores :
          Refused(phase, m, st) \/ Unknown(phase, m, st) \/ Pass(phase, m, st)
    \/ \E m \in Incoming("request"), st \in Stores : Judge(m, st)
    \/ \E m \in Incoming("response"), st \in Stores : Measure(m, st)
    \/ \E m \in Incoming("frame"), st \in Stores : Frame(m, st)
    \/ Done

Spec == Init /\ [][Next]_vars
-----------------------------------------------------------------------------
(* What is in force can be run.  Every bucket the last message read or     *)
(* charged has a tier in the counters it was handled with (without one a   *)
(* charge is dropped and a level reads zero, so that its rule never fires, *)
(* and nobody is told); a connection's only in a frame.  Every rule that   *)
(* looks into a body has its expression compiled, and every ask goes to an *)
(* axis its verb takes: the handler checks neither again.                  *)
InForceRuns ==
    LET p == snap.profile
        touched == {r[1] : r \in last.reads} \union {ch.kind : ch \in last.charges}
    IN  /\ touched \subseteq Kinds(snap.counters)
        /\ (\E k \in touched : k[2] = "conn") => last.phase = "frame"
        /\ p.mode # "off" =>
              \A m \in ToSet(p.response.measure) \union ToSet(p.frame.measure) : Compiles(m)
        /\ \A o \in ToSet(p.request.outcomes) \union ToSet(p.frame.outcomes) :
              o.do # "" => Axis(o) \in outcomeVerbs[o.do]

(* A counter has one owner: measures and notes never charge the same one   *)
(* under one counters file, whichever of the profiles made for it were in  *)
(* force meanwhile (Counter.Fill).                                         *)
OneOwner == \A f, g \in filled : f[1][1] = g[1][1] => f[2] = g[2]

(* Who was judged is who is charged: the subject whose bucket the request  *)
(* was judged by is the one its response, or a frame, charges under the    *)
(* same counters, although it is found from another locator and the        *)
(* sessions may be listed in another order.                                *)
JudgedIsCharged ==
    \A j \in judged, ch \in last.charges :
       last.phase # "request" /\ ch.kind = j[1]
          => ch.key = j[2]

(* Where the headers of the request are, for a message of each phase. *)
RequestHeaders(phase, m) ==
    IF phase = "request" THEN m.store.headers ELSE m.requestStore.headers

(* What the messages of one exchange have in common: all that can load the *)
(* headers of the request load the same ones, and those that list sessions *)
(* list the same ones, at most one of each inspector and source.           *)
OneExchange(headers, sessions) ==
    /\ \A s, t \in sessions : s.rank \in Nat /\ (s.rank = t.rank => s = t)
    /\ \A phase \in Phases : \A m \in Messages(phase) :
          /\ m.sessions \in Seq(sessions) /\ ToSet(m.sessions) \in {sessions, {}}
          /\ \A configured \in BOOLEAN : \A st \in StoresWhen(configured) :
                HeadersOf(Load(st, RequestHeaders(phase, m))) \in {headers, << >>}

(* The subject of a message on an axis, found without detours.  The        *)
(* message is as in last: its phase, what it says, and the buffer store.   *)
SubjectOf(c, client, x, ref) ==
    LET headers == HeadersOf(Load(x.st, RequestHeaders(x.phase, x.msg)))
        src == IF ref[2] = "sess" THEN Cookie(SessCookie(c, ref[1])) ELSE UserFrom(c, ref[1])
        value == SourceValue(src, headers, x.msg.sessions)
    IN  CASE ref[2] \in {"sess", "user"} -> {subjectHash(v) : v \in {value} \ {""}}
          [] ref[2] = "conn" -> {ConnKey(id) : id \in IF x.phase = "frame"
                                                      THEN {x.msg.conn} \ {""} ELSE {}}
          [] OTHER ->
               IF client.ip = "" THEN {}
               ELSE CASE ref[2] = "ip"         -> {IPKey(client.ip)}
                      [] ref[2] = "asn_net"    -> {NetKey(n) : n \in {client.network} \ {""}}
                      [] ref[2] = "asn_router" -> {RouterKey(n) : n \in {client.router} \ {""}}

(* The values a message should measure, each object loaded by itself. *)
ValuesOf(g, x) ==
    LET m == x.msg
        in == [frame |-> x.phase = "frame", method |-> m.method, status |-> m.status,
               direction |-> m.direction, opcode |-> m.opcode, size |-> SizeOf(m.store.body),
               contentType |-> ContentType(HeadersOf(Load(x.st, m.store.headers))),
               hits |-> HitsOf(Load(x.st, m.store.body))]
    IN  IF x.phase = "request" THEN {}
        ELSE Run(IF x.phase = "frame" THEN g.profile.frame.measure ELSE g.profile.response.measure,
                 g.counters, in)

(* What a message should be charged: values and notes, to its subjects. *)
Due(g, client, x) ==
    LET c == g.counters
        of(ref) == SubjectOf(c, client, x, ref)
    IN  (UNION {UNION {{[by |-> "measure", rule |-> v.rule, kind |-> << v.counter, axis >>,
                         key |-> k, add |-> v.add] : k \in of(<< v.counter, axis >>)} :
                       axis \in v.axes} : v \in ValuesOf(g, x)})
          \union (UNION {{[by |-> "note", rule |-> n.rule, kind |-> n.kind, key |-> k,
                           add |-> NoteAmount(c, n.kind)] : k \in of(n.kind)} :
                         n \in Notes(g, x.msg.scopes)})

(* A message that is answered without an error has charged all it should   *)
(* and nothing else: every rule that applies and every note, on every axis *)
(* on which the message has a subject, whatever else was missing, loaded   *)
(* in the same batch, or not asked for by any other rule.                  *)
ChargedInFull == last.code = "OK" => last.charges = Due(snap, who, last)
=============================================================================
