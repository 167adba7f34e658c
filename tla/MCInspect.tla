----------------------------- MODULE MCInspect -----------------------------
(* Instances of Inspect for TLC. *)
EXTENDS Inspect

(* One counter on the address and one on the session. *)
MCAxes == [objects |-> {"ip"}, marks |-> {"sess"}]
Ip == << "objects", "ip" >>
Sess == << "marks", "sess" >>

(* A high score first, then a deny, then a low score: no rule order helps. *)
Rules == << [ref |-> Ip, at |-> 50, action |-> "score", score |-> 60],
            [ref |-> Sess, at |-> 100, action |-> "deny", score |-> 0],
            [ref |-> Sess, at |-> 50, action |-> "score", score |-> 30] >>

(* Verdict outcomes put the client on a list, the others ask a neighbour. *)
Outcome(on, cmp, at) ==
    [on |-> on, cmp |-> cmp, at |-> at, ref |-> Ip, asks |-> on \in {"level", "overload"}]

Outcomes == << Outcome("deny", "from", 0), Outcome("score", "from", 50),
               Outcome("score", "below", 50), Outcome("score", "eq", 0),
               Outcome("allow", "from", 0), Outcome("level", "from", 50),
               Outcome("level", "below", 50), Outcome("overload", "from", 50),
               Outcome("overload", "from", 100) >>

(* Notes and thresholds are taken from one neighbour, a skip from another. *)
PriorRules == << [from |-> "ip", accept |-> {"note", "threshold"}, apply |-> {}, codes |-> {},
                  counter |-> "marks"],
                 [from |-> "gate", accept |-> {"skip"}, apply |-> {"request"}, codes |-> {"ok"},
                  counter |-> "none"] >>

Profile(mode, request, response, frame) ==
    [mode |-> mode, request |-> request, response |-> response, frame |-> frame,
     requestJudge |-> Rules, requestOutcomes |-> Outcomes,
     frameJudge |-> Rules, frameOutcomes |-> SubSeq(Outcomes, 1, 7), prior |-> PriorRules]

MCProfiles == {Profile("enforce", TRUE, TRUE, TRUE), Profile("observe", TRUE, TRUE, TRUE),
               Profile("enforce", FALSE, TRUE, FALSE), Profile("off", TRUE, TRUE, TRUE)}

Action(from, do, scope, code, delta, value) ==
    [from |-> from, do |-> do, scope |-> scope, code |-> code, delta |-> delta,
     value |-> value, counter |-> "any"]

MCActions == {Action("ip", "note", "session", "seen", 0, 50),
              Action("ip", "threshold", "request", "low", -100, 0),
              Action("ip", "threshold", "request", "high", 900, 0),
              Action("gate", "skip", "request", "ok", 0, 0)}
=============================================================================
