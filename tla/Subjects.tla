------------------------------ MODULE Subjects ------------------------------
(***************************************************************************)
(* Whom a bucket is about: the address, network, router, connection,       *)
(* session or user that a message belongs to on each axis                  *)
(* (cmd/inspector/subjects.go).  Operators only; Exchange uses them.       *)
(*                                                                         *)
(* A ref is << counter, axis >>.  A header is a record with a name and a   *)
(* value; the value of a cookie header is the sequence of its cookies, as  *)
(* << name, value >>.  Names compare without regard to case; here they are *)
(* in lower case.                                                          *)
(***************************************************************************)
EXTENDS Schema, FiniteSetsExt

(* The key of a subject on an axis, or of a source of subjects: an address *)
(* is made a network of one, networks and routers are as the resolver      *)
(* names them, a connection is prefixed, and what a client sends is        *)
(* hashed.                                                                 *)
IPKey(ip) == [host |-> ip]
NetKey(network) == [network |-> network]
RouterKey(router) == [router |-> router]
ConnKey(conn) == [conn |-> conn]
subjectHash(value) == [hash |-> value]

Cookie(name) == [kind |-> "cookie", name |-> name]

needsResolver(refs) == \E r \in refs : r[2] \in {"asn_net", "asn_router"}

hasConfigurable(refs, c) ==
    \E r \in refs : r[2] = "sess" \/ (r[2] = "user" /\ WantsHeaders(UserFrom(c, r[1])))

(* The value of the first element of s that passes, "" when none does. *)
FirstOf(s, Test(_), Value(_)) ==
    LET found == {i \in DOMAIN s : Test(s[i])}
    IN  IF found = {} THEN "" ELSE Value(s[Min(found)])

headerValue(headers, name) ==
    FirstOf(headers, LAMBDA h : h.name = name, LAMBDA h : h.value)

(* cookieFrom: the first cookie of that name in one header, ... *)
cookieFrom(line, name) == FirstOf(line, LAMBDA p : p[1] = name, LAMBDA p : p[2])

(* ... and the first header where it is not empty. *)
cookieValue(headers, name) ==
    FirstOf(headers, LAMBDA h : h.name = "cookie" /\ cookieFrom(h.value, name) # "",
            LAMBDA h : cookieFrom(h.value, name))

Field(s, field) == IF field = "user" THEN s.user ELSE s.id

(* Mutant: the first session that is verified. *)
sessionValueFirst(sessions, field) ==
    FirstOf(sessions, LAMBDA s : s.verified /\ Field(s, field) # "", LAMBDA s : Field(s, field))

(* Of the verified sessions that have the field, the one whose inspector   *)
(* and source are the least; the first one listed, when it is given twice. *)
sessionValue(sessions, field) ==
    LET fit == {i \in DOMAIN sessions : sessions[i].verified /\ Field(sessions[i], field) # ""}
        best == {i \in fit : \A j \in fit : sessions[i].rank <= sessions[j].rank}
    IN  IF fit = {} THEN "" ELSE Field(sessions[Min(best)], field)

(* The sources the refs ask for. *)
Sources(refs, c) ==
    {Cookie(SessCookie(c, r[1])) : r \in {q \in refs : q[2] = "sess"}}
        \union ({UserFrom(c, r[1]) : r \in {q \in refs : q[2] = "user"}} \ {NoFrom})

SourceValue(src, headers, sessions) ==
    CASE src.kind = "cookie"  -> cookieValue(headers, src.name)
      [] src.kind = "header"  -> headerValue(headers, src.name)
      [] src.kind = "session" -> sessionValue(sessions, src.name)

(* handler.subjectsOf: the keys that are known, by axis and by source, of  *)
(* the axes and sources the refs ask for.  who has the address, and the    *)
(* network and router the resolver finds for it; "" is none.               *)
subjectsOf(refs, c, who, headers, sessions, conn) ==
    LET axes == {r[2] : r \in refs}
        known == {axis \in axes \ {"sess", "user"} :
                     CASE axis = "ip"         -> who.ip # ""
                       [] axis = "asn_net"    -> who.ip # "" /\ who.network # ""
                       [] axis = "asn_router" -> who.ip # "" /\ who.router # ""
                       [] OTHER               -> conn # ""}
    IN  [byAxis |-> [axis \in known |->
                        CASE axis = "ip"         -> IPKey(who.ip)
                          [] axis = "asn_net"    -> NetKey(who.network)
                          [] axis = "asn_router" -> RouterKey(who.router)
                          [] OTHER               -> ConnKey(conn)],
         bySource |-> [src \in {s \in Sources(refs, c) : SourceValue(s, headers, sessions) # ""} |->
                          subjectHash(SourceValue(src, headers, sessions))]]

(* subjectKeys.key: the key of a counter on an axis, as a set. *)
key(keys, c, ref) ==
    CASE ref[2] = "sess" -> {keys.bySource[s] : s \in DOMAIN keys.bySource
                                                        \intersect {Cookie(SessCookie(c, ref[1]))}}
      [] ref[2] = "user" -> {keys.bySource[s] : s \in DOMAIN keys.bySource
                                                        \intersect {UserFrom(c, ref[1])}}
      [] OTHER           -> {keys.byAxis[a] : a \in DOMAIN keys.byAxis \intersect {ref[2]}}
=============================================================================
