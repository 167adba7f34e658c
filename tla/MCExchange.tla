----------------------------- MODULE MCExchange -----------------------------
(* An instance of Exchange for TLC: one generation at start, and those one  *)
(* change away from it, of which most are refused.                          *)
EXTENDS Exchange

Tiered(axes) == [axis \in axes |-> [Max |-> 10, Loss |-> 5]]

CounterOf(axes, fill, cookie, from) ==
    [axes |-> Tiered(axes), fill |-> fill, cookie |-> cookie, from |-> from]

SessionUser == [kind |-> "session", name |-> "user"]
HeaderUser == [kind |-> "header", name |-> "x-user"]

MCCounters ==
    [counters |-> [hits |-> CounterOf({"ip", "sess", "user"}, "", "", NoFrom),
                   marks |-> CounterOf({"ip", "sess"}, "note", "own_cid", NoFrom),
                   frames |-> CounterOf({"conn", "user"}, "measure", "", HeaderUser)],
     cookie |-> "", from |-> SessionUser]

JudgeOf(counter, axis, action, score) ==
    [counter |-> counter, axis |-> axis, at |-> 50, action |-> action, score |-> score, code |-> ""]

NoMatch == [status |-> {}, types |-> {}, methods |-> {}, direction |-> {}, opcode |-> {}]

MeasureOf(if, source, regex, counter, axes) ==
    [if |-> if, source |-> source, regex |-> regex, per |-> {}, counter |-> counter, axes |-> axes]

PriorOf(accept, apply, counter) ==
    [from |-> "gate", accept |-> accept, apply |-> apply, counter |-> counter]

NoOutcome ==
    [on |-> "deny", at |-> {}, below |-> FALSE, eq |-> FALSE, if |-> {}, to |-> "", do |-> "",
     apply |-> "", phase |-> "", delta |-> {}, value |-> {}, counter |-> "", group |-> "",
     set |-> "", objects |-> << >>, when |-> << >>, marker |-> "", list |-> "", write |-> "",
     ttl |-> 0, code |-> ""]

Level(counter, axis) ==
    [NoOutcome EXCEPT !.on = "level", !.at = {50}, !.if = {[counter |-> counter, axis |-> axis]},
                      !.do = "mark", !.marker = "seen"]
Ask(do) == [NoOutcome EXCEPT !.on = "allow", !.do = do]
Ban == [NoOutcome EXCEPT !.list = "bans", !.ttl = 60]
Archive == [Ask("archive") EXCEPT !.set = "on", !.ttl = 9, !.when = << "deny" >>]

MCProfile ==
    [mode |-> "enforce",
     prior |-> << PriorOf({"note", "skip"}, {}, "marks") >>,
     request |-> [enabled |-> TRUE, denyResponse |-> "blocked",
                  outcomes |-> << Level("marks", "ip"), Ban >>,
                  judge |-> << JudgeOf("hits", "user", "deny", 0),
                               JudgeOf("marks", "sess", "score", 30) >>],
     response |-> [enabled |-> TRUE,
                   measure |-> << MeasureOf([NoMatch EXCEPT !.types = {"text/html", "+json"}],
                                            "const", "", "hits", {}),
                                  MeasureOf(NoMatch, "regex_count", "re", "hits", {"user"}),
                                  MeasureOf([NoMatch EXCEPT !.status = {500}], "size_kb", "",
                                            "hits", {"ip"}) >>],
     frame |-> [enabled |-> TRUE, denyResponse |-> "blocked", outcomes |-> << >>,
                judge |-> << JudgeOf("frames", "conn", "deny", 0) >>,
                measure |-> << MeasureOf([NoMatch EXCEPT !.direction = {"c2s"}], "bytes", "",
                                         "frames", {}),
                               MeasureOf(NoMatch, "regex_count", "re", "hits", {"sess"}) >>]]

MCFirst == [counters |-> MCCounters, profile |-> MCProfile]

(* Other counters files, and what is wrong with them. *)
CounterFiles ==
    LET with(c) == [MCCounters EXCEPT !.counters.hits = c]
    IN  {with(CounterOf({"ip", "sess", "user", "asn_net"}, "", "", NoFrom)),
         with(CounterOf({"ip", "sess", "user", "asn_router"}, "measure", "own_cid", HeaderUser)),
         with(CounterOf({"ip", "user"}, "", "", [kind |-> "cookie", name |-> "own_cid"])),
         with(CounterOf({"ip", "sess", "user"}, "note", "", NoFrom)),
         with(CounterOf({"ip"}, "", "", NoFrom)),
         with(CounterOf({}, "", "", NoFrom)),
         with(CounterOf({"ip", "realm"}, "", "", NoFrom)),
         with(CounterOf({"ip", "user"}, "both", "", NoFrom)),
         with(CounterOf({"ip", "user"}, "", "", [kind |-> "session", name |-> "age"])),
         [MCCounters EXCEPT !.counters.marks.axes = Tiered({"ip", "sess", "asn_router"})],
         [MCCounters EXCEPT !.counters.marks.fill = ""],
         [MCCounters EXCEPT !.counters.hits.axes["ip"].Max = 0],
         [MCCounters EXCEPT !.counters.hits.axes["ip"].Loss = 101],
         [MCCounters EXCEPT !.from = NoFrom],
         [MCCounters EXCEPT !.counters = << >>]}

Judges == {JudgeOf("hits", "asn_net", "deny", 0), JudgeOf("hits", "conn", "deny", 0),
           JudgeOf("none", "ip", "deny", 0), JudgeOf("hits", "realm", "deny", 0),
           JudgeOf("hits", "ip", "score", 0), JudgeOf("hits", "ip", "deny", 5),
           JudgeOf("hits", "ip", "allow", 0), [JudgeOf("hits", "ip", "deny", 0) EXCEPT !.at = 101],
           JudgeOf("hits", "sess", "score", 100)}

Outcomes ==
    {Level("hits", "sess"), Level("hits", "conn"), Level("none", "ip"),
     [Level("hits", "ip") EXCEPT !.eq = TRUE], [Level("hits", "ip") EXCEPT !.on = "score"],
     [Ask("vote") EXCEPT !.on = "overload", !.at = {24}, !.to = "gate", !.apply = "request"],
     [Ask("vote") EXCEPT !.on = "overload", !.to = "gate", !.apply = "request",
                    !.phase = "response"],
     [Ask("vote") EXCEPT !.to = "gate"], [Ask("off") EXCEPT !.to = "gate", !.apply = "conn"],
     [Ask("off") EXCEPT !.to = "gate", !.apply = "conn", !.phase = "frame"],
     [Ask("active") EXCEPT !.apply = "request"], Ask("ban"), Ask("note"), Ask("reauth"),
     Ask("threshold"),
     [Ask("skip") EXCEPT !.apply = "ip"], [Ask("skip") EXCEPT !.on = "deny"],
     [Ask("note") EXCEPT !.apply = "ip", !.value = {5}, !.counter = "marks"],
     [Ask("score") EXCEPT !.value = {101}], [Ask("mutate") EXCEPT !.group = "g", !.set = "up"],
     [Ask("mark") EXCEPT !.marker = Garbled], [Ask("mark") EXCEPT !.marker = "m", !.on = "deny"],
     Archive, [Archive EXCEPT !.when = << "deny", "deny" >>], [Archive EXCEPT !.do = "audit"],
     [Archive EXCEPT !.apply = "response", !.objects = [args |-> "on"]],
     [Archive EXCEPT !.apply = "response", !.objects = [body |-> "on"]],
     [Ban EXCEPT !.ttl = 0], [Ban EXCEPT !.write = "all"], [Ban EXCEPT !.do = "skip"], NoOutcome}

Measured == {MeasureOf(NoMatch, "const", "", "marks", {}),
             MeasureOf(NoMatch, "const", "", "hits", {"asn_net"}),
             MeasureOf(NoMatch, "const", "", "none", {}),
             MeasureOf(NoMatch, "regex_count", Garbled, "hits", {}),
             MeasureOf(NoMatch, "const", "re", "hits", {}),
             MeasureOf(NoMatch, "time", "", "hits", {}),
             [MeasureOf(NoMatch, "bytes", "", "hits", {}) EXCEPT !.per = {0}],
             [MeasureOf(NoMatch, "bytes", "", "hits", {"sess"}) EXCEPT !.per = {-2}],
             MeasureOf([NoMatch EXCEPT !.opcode = {"text"}], "const", "", "hits", {"ip"}),
             MeasureOf([NoMatch EXCEPT !.methods = {"GET"}], "const", "", "hits", {"ip"}),
             MeasureOf(NoMatch, "const", "", "frames", {"conn"})}

Priors == {PriorOf({"note"}, {}, "hits"), PriorOf({"note"}, {}, "none"),
           PriorOf({"note"}, {}, "frames"), PriorOf({}, {}, ""), PriorOf({"skip"}, {"ip"}, ""),
           PriorOf({"note"}, {"request"}, "marks"),
           PriorOf({"reauth"}, {}, ""), PriorOf({"skip"}, {}, "marks"),
           [PriorOf({"skip"}, {}, "") EXCEPT !.from = "*"], PriorOf({"threshold"}, {"request"}, "")}

ProfileFiles ==
    {[MCProfile EXCEPT !.request.judge = Append(@, r)] : r \in Judges}
      \union {[MCProfile EXCEPT !.frame.judge = Append(@, r)] : r \in Judges}
      \union {[MCProfile EXCEPT !.request.outcomes = Append(@, o)] : o \in Outcomes}
      \union {[MCProfile EXCEPT !.frame.outcomes = Append(@, o)] : o \in Outcomes}
      \union {[MCProfile EXCEPT !.response.measure = Append(@, m)] : m \in Measured}
      \union {[MCProfile EXCEPT !.frame.measure = Append(@, m)] : m \in Measured}
      \union {[MCProfile EXCEPT !.prior = Append(@, r)] : r \in Priors}
      \union {[MCProfile EXCEPT !.mode = "off",
                                !.response.measure = << MeasureOf(NoMatch, "x", "", "", {}) >>],
              [MCProfile EXCEPT !.mode = "observe", !.request.enabled = FALSE],
              [MCProfile EXCEPT !.request.denyResponse = ""],
              [MCProfile EXCEPT !.mode = "on"],
              [MCProfile EXCEPT !.response.enabled = FALSE, !.frame.enabled = FALSE,
                                !.request.enabled = FALSE]}

MCCandidates ==
    {[counters |-> c, profile |-> MCProfile] : c \in CounterFiles}
      \union {[counters |-> MCCounters, profile |-> p] : p \in ProfileFiles}

MCClients == {[ip |-> "a", network |-> "n", router |-> "r"],
              [ip |-> "a", network |-> "n", router |-> ""],
              [ip |-> "", network |-> "", router |-> ""]}
-----------------------------------------------------------------------------
MCBlobs ==
    [req |-> [digest |-> "dreq", hits |-> << >>,
              pairs |-> << [name |-> "cookie",
                            value |-> << << "other", "z" >>, << "waf_cid", "" >> >>],
                           [name |-> "x-user", value |-> "ann"],
                           [name |-> "cookie",
                            value |-> << << "own_cid", "o" >>, << "waf_cid", "c" >> >>] >>],
     rsp |-> [digest |-> "drsp", hits |-> << >>,
              pairs |-> << [name |-> "x-user", value |-> "bob"],
                           [name |-> "content-type",
                            value |-> [type |-> "application/ld+json", suffix |-> "+json"]] >>],
     body |-> [digest |-> "dbody", hits |-> [re |-> 2], pairs |-> << >>]]

In(blob, digest, size) ==
    [Locator("", "redis", "main", blob) EXCEPT !.sha = digest, !.size = size]

(* What may be the matter with a locator, and what is not. *)
Variants(l) ==
    {{}, {Locator("too_large", "", "", "")}, {Locator("", "", "", "")},
     {[l EXCEPT !.store = "spare"]}, {[l EXCEPT !.driver = "file"]}, {[l EXCEPT !.enc = TRUE]},
     {[l EXCEPT !.sha = "other"]}, {[l EXCEPT !.sha = "other", !.truncated = TRUE]},
     {[l EXCEPT !.sha = "other", !.processed = MCBlobs[l.key].digest]},
     {[l EXCEPT !.unavailable = "too_large"]}}

SessionOf(rank, user, verified) ==
    [rank |-> rank, user |-> user, id |-> "s", verified |-> verified]

Sessions == << SessionOf(3, "eve", FALSE), SessionOf(2, "bob", TRUE), SessionOf(1, "ann", TRUE) >>

Plain(headers, requestHeaders, body) ==
    [store |-> [headers |-> headers, body |-> body], requestStore |-> [headers |-> requestHeaders],
     sessions |-> Sessions, status |-> 200, method |-> "GET", direction |-> "c2s",
     opcode |-> "text",
     scopes |-> {}, skip |-> FALSE, conn |-> "k", route |-> ""]

MCMessages(phase) ==
    LET req == In("req", "dreq", 7)
        rsp == In("rsp", "drsp", 7)
        body == In("body", "dbody", 3)
        plain == CASE phase = "request"  -> Plain({req}, {}, {})
                   [] phase = "response" -> Plain({rsp}, {req}, {body})
                   [] phase = "frame"    -> Plain({}, {req}, {body})
        headers == IF phase = "request" THEN Variants(req)
                   ELSE IF phase = "response" THEN Variants(rsp) ELSE {}
        requestHeaders == IF phase = "request" THEN {} ELSE Variants(req)
        bodies == IF phase = "request" THEN {} ELSE Variants(body)
    IN  {plain, [plain EXCEPT !.route = "gone"], [plain EXCEPT !.sessions = Reverse(@)],
         [plain EXCEPT !.scopes = {"session", "ip", "asn"}],
         [plain EXCEPT !.sessions = << >>, !.scopes = {"session"}]}
           \union {[plain EXCEPT !.store.headers = l] : l \in headers}
           \union {[plain EXCEPT !.requestStore.headers = l] : l \in requestHeaders}
           \union {[plain EXCEPT !.store.body = l] : l \in bodies}
           \union (CASE phase = "request"  -> {[plain EXCEPT !.skip = TRUE]}
                     [] phase = "response" -> {[plain EXCEPT !.status = 500, !.method = "POST"]}
                     [] phase = "frame"    -> {[plain EXCEPT !.conn = ""],
                                               [plain EXCEPT !.direction = "s2c"]})

ASSUME MCOneExchange == OneExchange(MCBlobs.req.pairs, ToSet(Sessions))
=============================================================================
