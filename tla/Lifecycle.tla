----------------------------- MODULE Lifecycle -----------------------------
(***************************************************************************)
(* One process from its first message to its exit: the bus goroutine, the  *)
(* pool's workers and its sweeper answer messages and add their audit      *)
(* events (handler.go), and on a signal main drains the subscription,      *)
(* closes the pool, the sink and the connection, in this order (main.go).  *)
(* The sink is AuditSink, action for action; the pool is reduced to who    *)
(* holds which message (Pool has its queue, clock and wake-ups).           *)
(*                                                                         *)
(* Drain does not wait: the bus goroutine goes on with what the client has *)
(* buffered while main closes everything behind it.                        *)
(***************************************************************************)
EXTENDS AuditSink

CONSTANTS
    Workers, Bus, Sweeper,  \* the goroutines that answer messages
    Messages,       \* how many arrive: they are 1..Messages (bound)
    Depth,          \* cfg.QueueDepth
    PendingLimit    \* what SetPendingLimits allows (QueueDepth + Workers + 2)

ASSUME LifecycleAssumption ==
    /\ Adders = Workers \union {Bus, Sweeper}
    /\ Workers # {} /\ Bus \notin Workers /\ Sweeper \notin Workers /\ Bus # Sweeper
    /\ Messages \in Nat /\ Messages <= Events
    /\ Depth \in Nat \ {0} /\ PendingLimit \in Nat \ {0}

VARIABLES
    main,       \* where main is
    arrived,    \* how many messages reached the client
    inbox,      \* the messages the client has buffered for the subscription
    queue,      \* Pool.q, as a set: who is first does not matter here
    submitting, \* the message the bus goroutine is in Submit with, 0 for none
    hold,       \* hold[g]: the messages goroutine g has taken and must answer
    at,         \* at[g]: "idle", "audit" (answered, its event still to add) or "gone"
    accepted,   \* the messages the pool accepted that are not answered yet (history)
    owed        \* the events of the pool's goroutines that are in the sink (history)

flow == << main, arrived, inbox, queue, submitting, hold, at, accepted, owed >>
lifeVars == << vars, flow >>

PoolGoroutines == Workers \union {Sweeper}

LifeInit ==
    /\ Init
    /\ main = "serving"
    /\ arrived = 0
    /\ inbox = << >>
    /\ queue = {}
    /\ submitting = 0
    /\ hold = [g \in Adders |-> {}]
    /\ at = [g \in Adders |-> "idle"]
    /\ accepted = {}
    /\ owed = {}
-----------------------------------------------------------------------------
draining == main # "serving" /\ main # "signalled"

(* pool.Close has begun. *)
closed == main \in {"closingPool", "poolClosed", "closingSink", "sinkClosed", "exited"}

(* Goroutine g is between two messages. *)
Free(g) == at[g] = "idle" /\ hold[g] = {} /\ g \notin kicking

(* A message reaches the client: over its limit it is dropped. *)
Arrive ==
    /\ ~draining
    /\ arrived < Messages
    /\ arrived' = arrived + 1
    /\ inbox' = IF Len(inbox) < PendingLimit THEN Append(inbox, arrived + 1) ELSE inbox
    /\ UNCHANGED << vars, main, queue, submitting, hold, at, accepted, owed >>

(* receive: a release is dropped, what cannot be parsed, has another       *)
(* version or an unknown phase is answered here, the rest is submitted.    *)
Receive ==
    LET m == Head(inbox)
    IN  /\ Free(Bus) /\ submitting = 0
        /\ inbox # << >>
        /\ inbox' = Tail(inbox)
        /\ \/ UNCHANGED << submitting, hold >>
           \/ hold' = [hold EXCEPT ![Bus] = {m}] /\ UNCHANGED submitting
           \/ submitting' = m /\ UNCHANGED hold
        /\ UNCHANGED << vars, main, arrived, queue, at, accepted, owed >>

(* Submit: there is room. *)
SubmitQueued ==
    /\ Free(Bus) /\ submitting # 0
    /\ ~closed
    /\ Cardinality(queue) < Depth
    /\ queue' = queue \union {submitting}
    /\ accepted' = accepted \union {submitting}
    /\ submitting' = 0
    /\ UNCHANGED << vars, main, arrived, inbox, hold, at, owed >>

(* Submit: too late, no room, or the pool is closed: the bus goroutine     *)
(* answers itself.                                                         *)
SubmitShed ==
    /\ Free(Bus) /\ submitting # 0
    /\ hold' = [hold EXCEPT ![Bus] = {submitting}]
    /\ submitting' = 0
    /\ UNCHANGED << vars, main, arrived, inbox, queue, at, accepted, owed >>

(* takeExpiredLocked, by the sweeper until it is stopped or by the bus     *)
(* goroutine in Submit: whoever took an expired task answers it.           *)
TakeExpired(g, dead) ==
    /\ Free(g)
    /\ g = Bus => submitting # 0
    /\ dead # {}
    /\ queue' = queue \ dead
    /\ hold' = [hold EXCEPT ![g] = dead]
    /\ UNCHANGED << vars, main, arrived, inbox, submitting, at, accepted, owed >>

(* pop, with the expired tasks it finds on the way. *)
Pop(w, taken) ==
    /\ Free(w)
    /\ taken # {}
    /\ queue' = queue \ taken
    /\ hold' = [hold EXCEPT ![w] = taken]
    /\ UNCHANGED << vars, main, arrived, inbox, submitting, at, accepted, owed >>

(* Mutant: the sweeper is not told to stop. *)
LeaveUnlessSweeper(g) ==
    /\ g \in Workers
    /\ Free(g)
    /\ closed
    /\ queue = {}
    /\ at' = [at EXCEPT ![g] = "gone"]
    /\ UNCHANGED << vars, main, arrived, inbox, queue, submitting, hold, accepted, owed >>

(* pop returns false once the pool is closed and its queue is empty; the   *)
(* sweeper leaves at its next select.                                      *)
Leave(g) ==
    /\ g \in PoolGoroutines
    /\ Free(g)
    /\ closed
    /\ g \in Workers => queue = {}
    /\ at' = [at EXCEPT ![g] = "gone"]
    /\ UNCHANGED << vars, main, arrived, inbox, queue, submitting, hold, accepted, owed >>
-----------------------------------------------------------------------------
(* Those of a set of events that the sink still has after a step. *)
InSink(es) == es \intersect (ToSet(pending') \union ToSet(take'))

(* send: the answer goes out, then the event is added.  The fallback after *)
(* a panic or a parse error, and a request without an audit subject, add   *)
(* none.                                                                   *)
Respond(g, m) ==
    /\ at[g] = "idle" /\ g \notin kicking
    /\ m \in hold[g]
    /\ hold' = [hold EXCEPT ![g] = @ \ {m}]
    /\ accepted' = accepted \ {m}
    /\ at' = [at EXCEPT ![g] = "audit"] \/ UNCHANGED at
    /\ UNCHANGED << vars, main, arrived, inbox, queue, submitting, owed >>

Audit(g) ==
    /\ at[g] = "audit"
    /\ Add(g)
    /\ at' = [at EXCEPT ![g] = "idle"]
    /\ owed' = InSink(IF g = Bus THEN owed ELSE owed \union {added'})
    /\ UNCHANGED << main, arrived, inbox, queue, submitting, hold, accepted >>
-----------------------------------------------------------------------------
MainGoes(from, to) == main = from /\ main' = to

OnlyMain == UNCHANGED << arrived, inbox, queue, submitting, hold, at, accepted, owed >>

Signal == MainGoes("serving", "signalled") /\ OnlyMain /\ UNCHANGED vars

Drain == MainGoes("signalled", "drained") /\ OnlyMain /\ UNCHANGED vars

PoolClose == MainGoes("drained", "closingPool") /\ OnlyMain /\ UNCHANGED vars

(* Mutant: pool.Close does not wait for its goroutines. *)
PoolClosedAtOnce == MainGoes("closingPool", "poolClosed") /\ OnlyMain /\ UNCHANGED vars

(* wg.Wait. *)
PoolClosed ==
    /\ MainGoes("closingPool", "poolClosed")
    /\ \A g \in PoolGoroutines : at[g] = "gone"
    /\ OnlyMain /\ UNCHANGED vars

SinkClose == MainGoes("poolClosed", "closingSink") /\ CloseStop /\ OnlyMain

SinkClosed == MainGoes("closingSink", "sinkClosed") /\ CloseReturn /\ OnlyMain

(* run returns: the connection is closed and the process is gone. *)
Exit == MainGoes("sinkClosed", "exited") /\ OnlyMain /\ UNCHANGED vars

MainStep == Drain \/ PoolClose \/ PoolClosed \/ SinkClose \/ SinkClosed \/ Exit

SinkStep(A) ==
    /\ A
    /\ owed' = InSink(owed)
    /\ UNCHANGED << main, arrived, inbox, queue, submitting, hold, at, accepted >>

GoroutineStep(g) ==
    \/ \E m \in hold[g] : Respond(g, m)
    \/ Audit(g)
    \/ SinkStep(Kick(g))
    \/ Leave(g)

TakeStep(g) ==
    \E taken \in SUBSET queue :
       \/ g \in Workers /\ Pop(g, taken)
       \/ g \notin Workers /\ TakeExpired(g, taken)

BusStep == Receive \/ SubmitQueued \/ SubmitShed

Running ==
    \/ Arrive
    \/ BusStep
    \/ \E g \in Adders : TakeStep(g) \/ GoroutineStep(g)
    \/ SinkStep(LoopStep)
    \/ Signal
    \/ MainStep

LifeNext ==
    \/ main # "exited" /\ Running
    \/ main = "exited" /\ UNCHANGED lifeVars

(* Every goroutine goes on, an inspection ends (its context has a          *)
(* deadline); nothing makes messages come, a task expire or a signal be    *)
(* sent.                                                                   *)
LifeSpec ==
    /\ LifeInit /\ [][LifeNext]_lifeVars
    /\ WF_lifeVars(BusStep /\ main # "exited")
    /\ WF_lifeVars(SinkStep(LoopStep) /\ main # "exited")
    /\ WF_lifeVars(MainStep)
    /\ \A g \in Adders : WF_lifeVars(GoroutineStep(g) /\ main # "exited")
    /\ \A w \in Workers : WF_lifeVars(TakeStep(w) /\ main # "exited")
-----------------------------------------------------------------------------
(* A message the pool accepted has been answered when the process exits,   *)
(* although Drain does not wait and the bus goroutine goes on submitting   *)
(* while the pool closes.  The one exception is a task that the bus        *)
(* goroutine itself has taken out as expired: no one waits for it.         *)
AcceptedAnswered == main = "exited" => accepted \subseteq hold[Bus]

(* The events of what the workers and the sweeper answered are not left in *)
(* the sink when the process exits: they were published, dropped over the  *)
(* limit, or their publish failed.  (The bus goroutine may add an event    *)
(* after the last flush.)                                                  *)
AuditsKept == main = "exited" => owed = {}

(* A signal ends the process: main waits for the pool's goroutines and the *)
(* sink's, none of which waits for main, the bus goroutine or each other.  *)
Exits == main = "signalled" ~> main = "exited"
=============================================================================
