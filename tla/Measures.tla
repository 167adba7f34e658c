------------------------------ MODULE Measures ------------------------------
(***************************************************************************)
(* What a response or a frame adds to the counters (internal/measure, and  *)
(* the rules' conditions in internal/config/profile.go).  Operators only;  *)
(* Exchange uses them.                                                     *)
(*                                                                         *)
(* in is a measure.Input.  A content type is a record: the type itself,    *)
(* and its suffix (as +json); parameters are cut off.  Amounts are in      *)
(* 1024ths, so that those made from a size are whole.                      *)
(***************************************************************************)
EXTENDS Schema

Unit == 1024
NoType == [type |-> "", suffix |-> ""]

(* A condition that is not given holds. *)
Unasked(want, got) == want = {} \/ got \in want

typeAllowed(want, ct) == Unasked(want, ct.type) \/ ct.suffix \in want

Matches(if, in) ==
    /\ Unasked(if.status, in.status)
    /\ Unasked(if.methods, in.method)
    /\ typeAllowed(if.types, in.contentType)

MatchesFrame(if, in) == Unasked(if.direction, in.direction) /\ Unasked(if.opcode, in.opcode)

(* in.hits[regex] is how often the regular expression is found in the body *)
(* that was loaded; nothing is found where no body was.                    *)
extract(r, in) ==
    CASE r.source = "const"       -> Unit
      [] r.source = "size_kb"     -> IF in.size > 0 THEN in.size ELSE 0
      [] r.source = "bytes"       -> IF in.size > 0 THEN in.size * Unit ELSE 0
      [] r.source = "regex_count" -> IF r.regex \in DOMAIN in.hits THEN in.hits[r.regex] * Unit
                                     ELSE 0

AxesOfRule(r, c) == IF r.axes = {} THEN AxesOf(c, r.counter) ELSE r.axes

Applies(r, in) == IF in.frame THEN MatchesFrame(r.if, in) ELSE Matches(r.if, in)

(* measure.Run: a value for each rule that applies and finds something. *)
Run(rules, c, in) ==
    {[rule |-> i, counter |-> rules[i].counter, axes |-> AxesOfRule(rules[i], c),
      add |-> extract(rules[i], in) * Weight(rules[i])] :
        i \in {j \in DOMAIN rules : Applies(rules[j], in) /\ extract(rules[j], in) # 0}}
=============================================================================
