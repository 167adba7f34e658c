-------------------------------- MODULE Pool --------------------------------
(***************************************************************************)
(* The worker pool of internal/queue/queue.go: a bounded FIFO of tasks     *)
(* with deadlines, filled by Submit and emptied by the workers, by the     *)
(* sweeper and by whoever finds expired tasks in it.                       *)
(*                                                                         *)
(* Threads: the submitter (the one goroutine in which the bus client calls *)
(* handler.receive, hence Submit), the workers, the sweeper, the timer     *)
(* callbacks that Submit arms in "wait" mode, and main, which closes the   *)
(* pool.  A critical section of Pool.mu is one step; what a thread does    *)
(* outside the lock is a step of its own, so tasks taken out of the queue  *)
(* sit in a thread's hands while the other threads go on.                  *)
(*                                                                         *)
(* Tasks are numbered in the order the submitter takes them off the bus.   *)
(* Only that one thread appends, so the slice Pool.q is always in          *)
(* increasing order: it is modelled by the set of its elements, its head   *)
(* being the oldest one.                                                   *)
(***************************************************************************)
EXTENDS Integers, FiniteSets, Sequences

CONSTANTS
    NumTasks,       \* how many messages arrive (bound)
    Workers,        \* the worker goroutines
    Submitter,      \* the goroutine that calls Submit
    Sweeper,        \* the goroutine that runs sweep
    Depth,          \* queue_max as configured
    Full,           \* queue_full: "wait", or anything else for "drop"
    Deadlines,      \* the deadline_ms a message may carry
    Reserve,        \* reserve_ms
    MinBudget,      \* min_budget_ms
    LastArrival,    \* no message arrives later (bound)
    MaxTime         \* the clock stops there (bound)

Threads == Workers \union {Submitter, Sweeper}

Tasks == 1..NumTasks

ASSUME PoolAssumption ==
    /\ NumTasks \in Nat
    /\ IsFiniteSet(Workers)
    /\ Workers # {}
    /\ Submitter \notin Workers
    /\ Sweeper \notin Workers
    /\ Submitter # Sweeper
    /\ Depth \in Int
    /\ Deadlines \subseteq Nat
    /\ Reserve \in Nat
    /\ MinBudget \in Nat
    /\ LastArrival \in Nat
    /\ MaxTime \in Nat

(* New replaces a depth below 1 by 1. *)
depth == IF Depth < 1 THEN 1 ELSE Depth

Inspected == "INSPECTED"
QueueLimit == "COUNTER_QUEUE_LIMIT"
DeadlineExceeded == "COUNTER_DEADLINE_EXCEEDED"
Reasons == {Inspected, QueueLimit, DeadlineExceeded}

VARIABLES
    now,        \* the clock, in milliseconds
    next,       \* the number of the next message
    deadline,   \* deadline[t]: Task.Req.DeadlineMS
    enqueued,   \* enqueued[t]: Task.enqueued
    fill,       \* fill[t]: Task.Fill
    q,          \* Pool.q
    waiters,    \* the threads asleep in Pool.cond.Wait
    pc,         \* pc[th]: what thread th does next
    dead,       \* dead[th]: expired tasks th took and has not yet answered
    resume,     \* resume[th]: where th goes on once they are answered
    cur,        \* cur[w]: the task worker w popped, 0 for nil
    timer,      \* timer[t]: the wait timer of task t's Submit
    main,       \* how far main is in Close: this is also Pool.stop and Pool.closed
    answers,    \* answers[t]: the reasons t was answered with, in order
    Accepted, Shed, Expired     \* the pool's counters

vars == << now, next, deadline, enqueued, fill, q, waiters, pc,
           dead, resume, cur, timer, main, answers, Accepted, Shed, Expired >>

(* Everything but the fields named by each group below. *)
messages == << next, deadline, enqueued >>
counters == << Accepted, Shed, Expired >>

Init ==
    /\ now = 0
    /\ next = 1
    /\ deadline = [t \in Tasks |-> 0]
    /\ enqueued = [t \in Tasks |-> 0]
    /\ fill = [t \in Tasks |-> 0]
    /\ q = {}
    /\ waiters = {}
    /\ pc = [th \in Threads |-> CASE th = Submitter -> "idle"
                                  [] th = Sweeper -> "select"
                                  [] OTHER -> "pop"]
    /\ dead = [th \in Threads |-> {}]
    /\ resume = [th \in Threads |-> "idle"]
    /\ cur = [w \in Workers |-> 0]
    /\ timer = [t \in Tasks |-> "off"]
    /\ main = "serving"
    /\ answers = [t \in Tasks |-> << >>]
    /\ Accepted = 0
    /\ Shed = 0
    /\ Expired = 0

(* Close closes the channel Pool.stop first, then sets Pool.closed. *)
stop == main # "serving"
closed == main \in {"waiting", "returned"}
-----------------------------------------------------------------------------
(* leftAt: what remains of t's deadline for the work itself. *)
leftAt(t) == deadline[t] - (now - enqueued[t]) - Reserve

Late(t) == leftAt(t) < MinBudget

(* takeExpiredLocked takes these out of the queue ... *)
ExpiredTasks == {t \in q : Late(t)}

(* ... and wakes every sleeper when there are any. *)
WakeOnExpired(asleep) == IF ExpiredTasks = {} THEN asleep ELSE {}

(* The handler's answer leaves for the sender of t. *)
Answered(t, reason) == answers' = [answers EXCEPT ![t] = Append(@, reason)]

(* expire: the counter and the handler's answer.  The queue is not held. *)
expire(t) ==
    /\ Answered(t, DeadlineExceeded)
    /\ Expired' = Expired + 1
    /\ UNCHANGED << Accepted, Shed >>

shedLimit(t) ==
    /\ Answered(t, QueueLimit)
    /\ Shed' = Shed + 1
    /\ UNCHANGED << Accepted, Expired >>

(* Mutant: fill with the arriving task counted in, and no cap. *)
fillCountingSelf == ((Cardinality(q) + 1) * 100) \div depth

fillLocked ==
    IF Cardinality(q) >= depth THEN 100 ELSE (Cardinality(q) * 100) \div depth

(* cond.Signal wakes one sleeper, whichever; nobody when all are awake. *)
Signal(asleep) ==
    \/ asleep = {} /\ waiters' = {}
    \/ \E th \in asleep : waiters' = asleep \ {th}

(* Mutant: the append does not signal. *)
enqueueSilently(t) ==
    /\ q' = q \union {t}
    /\ Accepted' = Accepted + 1
    /\ UNCHANGED << Shed, Expired, answers, waiters >>

enqueueLocked(t) ==
    /\ q' = q \union {t}
    /\ Accepted' = Accepted + 1
    /\ Signal(waiters)
    /\ UNCHANGED << Shed, Expired, answers >>

(* Thread th holds the expired tasks d; it answers them before going on to *)
(* pcAfter.                                                                *)
HoldDead(th, d, pcAfter) ==
    /\ dead' = [dead EXCEPT ![th] = d]
    /\ resume' = [resume EXCEPT ![th] = pcAfter]
    /\ pc' = [pc EXCEPT ![th] = IF d = {} THEN pcAfter ELSE "reply"]

(* replyDead: one task of the list, the oldest first. *)
ReplyDead(th) ==
    /\ pc[th] = "reply"
    /\ \E t \in dead[th] :
          /\ \A u \in dead[th] : t <= u
          /\ expire(t)
          /\ dead' = [dead EXCEPT ![th] = @ \ {t}]
          /\ pc' = [pc EXCEPT ![th] = IF dead[th] = {t} THEN resume[th] ELSE "reply"]
    /\ UNCHANGED << now, messages, fill, q, main, waiters, resume, cur, timer >>
-----------------------------------------------------------------------------
(* The task whose Submit call is running. *)
Current == next - 1

GoOn(th, pcNext) == pc' = [pc EXCEPT ![th] = pcNext]

(* Submit begins: the bus hands over the next message. *)
Receive ==
    /\ pc[Submitter] = "idle"
    /\ next <= NumTasks
    /\ now <= LastArrival
    /\ \E d \in Deadlines : deadline' = [deadline EXCEPT ![next] = d]
    /\ enqueued' = [enqueued EXCEPT ![next] = now]
    /\ next' = next + 1
    /\ GoOn(Submitter, "check")
    /\ UNCHANGED << now, fill, q, main, waiters, dead, resume, cur, timer,
                    answers, counters >>

(* The first test of Submit: too little of the deadline is left. *)
SubmitLate ==
    /\ pc[Submitter] = "check"
    /\ Late(Current)
    /\ expire(Current)
    /\ GoOn(Submitter, "idle")
    /\ UNCHANGED << now, messages, fill, q, main, waiters, dead, resume, cur, timer >>

SubmitInTime ==
    /\ pc[Submitter] = "check"
    /\ ~Late(Current)
    /\ GoOn(Submitter, "collect")
    /\ UNCHANGED << now, messages, fill, q, main, waiters, dead, resume, cur, timer,
                    answers, counters >>

(* Submit's collectExpired, before it takes the lock for its own task. *)
SubmitCollect ==
    /\ pc[Submitter] = "collect"
    /\ q' = q \ ExpiredTasks
    /\ waiters' = WakeOnExpired(waiters)
    /\ HoldDead(Submitter, ExpiredTasks, "admit")
    /\ UNCHANGED << now, messages, fill, main, cur, timer, answers, counters >>

SubmitClosed ==
    /\ pc[Submitter] = "admit"
    /\ closed
    /\ expire(Current)
    /\ GoOn(Submitter, "idle")
    /\ UNCHANGED << now, messages, fill, q, main, waiters, dead, resume, cur, timer >>

(* The part of Submit that every task reaching an open pool passes. *)
Admit ==
    /\ pc[Submitter] = "admit"
    /\ ~closed
    /\ fill' = [fill EXCEPT ![Current] = fillLocked]

SubmitRoom ==
    /\ Admit
    /\ Cardinality(q) < depth
    /\ enqueueLocked(Current)
    /\ GoOn(Submitter, "idle")
    /\ UNCHANGED << now, messages, main, dead, resume, cur, timer >>

SubmitShed ==
    /\ Admit
    /\ Cardinality(q) >= depth
    /\ Full # "wait"
    /\ shedLimit(Current)
    /\ GoOn(Submitter, "idle")
    /\ UNCHANGED << now, messages, q, main, waiters, dead, resume, cur, timer >>

(* submitWaitLocked on a task that became late since the first test. *)
SubmitWaitLate ==
    /\ Admit
    /\ Cardinality(q) >= depth
    /\ Full = "wait"
    /\ Late(Current)
    /\ expire(Current)
    /\ GoOn(Submitter, "idle")
    /\ UNCHANGED << now, messages, q, main, waiters, dead, resume, cur, timer >>

(* The body of submitWaitLocked's loop: answer what has expired outside    *)
(* the lock and look again, or sleep.                                      *)
WaitBody ==
    \/ /\ ExpiredTasks # {}
       /\ q' = q \ ExpiredTasks
       /\ waiters' = {}
       /\ HoldDead(Submitter, ExpiredTasks, "wait")
    \/ /\ ExpiredTasks = {}
       /\ waiters' = waiters \union {Submitter}
       /\ GoOn(Submitter, "wait")
       /\ UNCHANGED << q, dead, resume >>

(* submitWaitLocked arms its timer and, still in Submit's critical         *)
(* section, goes through its loop for the first time.                      *)
SubmitWait ==
    /\ Admit
    /\ Cardinality(q) >= depth
    /\ Full = "wait"
    /\ ~Late(Current)
    /\ timer' = [timer EXCEPT ![Current] = "armed"]
    /\ WaitBody
    /\ UNCHANGED << now, messages, main, cur, answers, counters >>

(* The submitter has the lock again, woken or back from replyDead. *)
Rewait == pc[Submitter] = "wait" /\ Submitter \notin waiters

TimedOut == timer[Current] = "fired"

WaitAgain ==
    /\ Rewait
    /\ Cardinality(q) >= depth /\ ~TimedOut /\ ~closed
    /\ WaitBody
    /\ UNCHANGED << now, messages, fill, main, cur, timer, answers, counters >>

(* timer.Stop: a callback that has already started is not recalled. *)
TimerStop ==
    timer' = [timer EXCEPT ![Current] = IF @ = "armed" THEN "off" ELSE @]

(* Mutant: a wakeup is taken for room. *)
WaitRoomUnchecked ==
    /\ Rewait
    /\ ~closed
    /\ TimerStop
    /\ enqueueLocked(Current)
    /\ GoOn(Submitter, "idle")
    /\ UNCHANGED << now, messages, fill, main, dead, resume, cur >>

WaitRoom ==
    /\ Rewait
    /\ ~closed
    /\ Cardinality(q) < depth
    /\ TimerStop
    /\ enqueueLocked(Current)
    /\ GoOn(Submitter, "idle")
    /\ UNCHANGED << now, messages, fill, main, dead, resume, cur >>

WaitGivesUp ==
    /\ Rewait
    /\ closed \/ (TimedOut /\ Cardinality(q) >= depth)
    /\ TimerStop
    /\ expire(Current)
    /\ GoOn(Submitter, "idle")
    /\ UNCHANGED << now, messages, fill, q, main, waiters, dead, resume, cur >>

(* Mutant: the timer is armed with too short a duration. *)
TimerStartEarly(t) ==
    /\ timer[t] = "armed"
    /\ timer' = [timer EXCEPT ![t] = "running"]
    /\ UNCHANGED << now, messages, fill, q, main, waiters, pc, dead, resume, cur,
                    answers, counters >>

(* AfterFunc(left, ...): left is 0 when the callback starts ... *)
TimerStart(t) ==
    /\ timer[t] = "armed"
    /\ leftAt(t) <= 0
    /\ timer' = [timer EXCEPT ![t] = "running"]
    /\ UNCHANGED << now, messages, fill, q, main, waiters, pc, dead, resume, cur,
                    answers, counters >>

(* ... and it needs the lock to set timedOut and wake everybody. *)
TimerFire(t) ==
    /\ timer[t] = "running"
    /\ timer' = [timer EXCEPT ![t] = "fired"]
    /\ waiters' = {}
    /\ UNCHANGED << now, messages, fill, q, main, pc, dead, resume, cur,
                    answers, counters >>
-----------------------------------------------------------------------------
(* pop, by a worker that has the lock. *)
Popping(w) == pc[w] = "pop" /\ w \notin waiters

(* Mutant: taking a task does not tell the submitter of the room. *)
PopTaskSilent(w) ==
    /\ Popping(w)
    /\ \E t \in q \ ExpiredTasks :
          /\ \A u \in q \ ExpiredTasks : t <= u
          /\ q' = (q \ ExpiredTasks) \ {t}
          /\ cur' = [cur EXCEPT ![w] = t]
    /\ waiters' = WakeOnExpired(waiters)
    /\ HoldDead(w, ExpiredTasks, "budget")
    /\ UNCHANGED << now, messages, fill, main, timer, answers, counters >>

PopTask(w) ==
    /\ Popping(w)
    /\ \E t \in q \ ExpiredTasks :
          /\ \A u \in q \ ExpiredTasks : t <= u
          /\ q' = (q \ ExpiredTasks) \ {t}
          /\ cur' = [cur EXCEPT ![w] = t]
    /\ waiters' = {}
    /\ HoldDead(w, ExpiredTasks, "budget")
    /\ UNCHANGED << now, messages, fill, main, timer, answers, counters >>

(* Mutant: a worker leaves as soon as the pool is closed. *)
PopClosedEarly(w) ==
    /\ Popping(w)
    /\ closed
    /\ GoOn(w, "done")
    /\ UNCHANGED << now, messages, fill, q, main, waiters, dead, resume, cur, timer,
                    answers, counters >>

(* ok is false: the pool is closed and nothing is left to run. *)
PopClosed(w) ==
    /\ Popping(w)
    /\ closed
    /\ q = ExpiredTasks
    /\ q' = {}
    /\ waiters' = WakeOnExpired(waiters)
    /\ HoldDead(w, ExpiredTasks, "done")
    /\ UNCHANGED << now, messages, fill, main, cur, timer, answers, counters >>

(* Nothing but expired tasks: they are answered before looking again. *)
PopDead(w) ==
    /\ Popping(w)
    /\ ~closed
    /\ q # {} /\ q = ExpiredTasks
    /\ q' = {}
    /\ waiters' = {}
    /\ HoldDead(w, ExpiredTasks, "pop")
    /\ UNCHANGED << now, messages, fill, main, cur, timer, answers, counters >>

PopWait(w) ==
    /\ Popping(w)
    /\ ~closed
    /\ q = {}
    /\ waiters' = waiters \union {w}
    /\ UNCHANGED << now, messages, fill, q, main, pc, dead, resume, cur, timer,
                    answers, counters >>

(* Mutant: budget counts the expiry and so does the answer. *)
BudgetLateCountedTwice(w) ==
    /\ pc[w] = "budget"
    /\ Late(cur[w])
    /\ Answered(cur[w], DeadlineExceeded)
    /\ Expired' = Expired + 2
    /\ cur' = [cur EXCEPT ![w] = 0]
    /\ GoOn(w, "pop")
    /\ UNCHANGED << now, messages, fill, q, main, waiters, dead, resume, timer,
                    Accepted, Shed >>

(* budget: the last look at the clock before the work. *)
BudgetLate(w) ==
    /\ pc[w] = "budget"
    /\ Late(cur[w])
    /\ expire(cur[w])
    /\ cur' = [cur EXCEPT ![w] = 0]
    /\ GoOn(w, "pop")
    /\ UNCHANGED << now, messages, fill, q, main, waiters, dead, resume, timer >>

BudgetInTime(w) ==
    /\ pc[w] = "budget"
    /\ ~Late(cur[w])
    /\ GoOn(w, "handle")
    /\ UNCHANGED << now, messages, fill, q, main, waiters, dead, resume, cur, timer,
                    answers, counters >>

(* The handler inspects the message, answers and returns. *)
Handle(w) ==
    /\ pc[w] = "handle"
    /\ Answered(cur[w], Inspected)
    /\ cur' = [cur EXCEPT ![w] = 0]
    /\ GoOn(w, "pop")
    /\ UNCHANGED << now, messages, fill, q, main, waiters, dead, resume, timer, counters >>
-----------------------------------------------------------------------------
(* Mutant: the swept tasks stay in the queue. *)
SweepTickKeeps ==
    /\ pc[Sweeper] = "select"
    /\ ExpiredTasks # {}
    /\ waiters' = {}
    /\ HoldDead(Sweeper, ExpiredTasks, "select")
    /\ UNCHANGED << now, messages, fill, q, main, cur, timer, answers, counters >>

(* sweep: a tick that finds nothing expired changes nothing. *)
SweepTick ==
    /\ pc[Sweeper] = "select"
    /\ ExpiredTasks # {}
    /\ q' = q \ ExpiredTasks
    /\ waiters' = {}
    /\ HoldDead(Sweeper, ExpiredTasks, "select")
    /\ UNCHANGED << now, messages, fill, main, cur, timer, answers, counters >>

(* Mutant: the sweeper leaves its loop after a tick. *)
SweepStopEarly ==
    /\ pc[Sweeper] = "select"
    /\ GoOn(Sweeper, "done")
    /\ UNCHANGED << now, messages, fill, q, main, waiters, dead, resume, cur, timer,
                    answers, counters >>

SweepStop ==
    /\ pc[Sweeper] = "select"
    /\ stop
    /\ GoOn(Sweeper, "done")
    /\ UNCHANGED << now, messages, fill, q, main, waiters, dead, resume, cur, timer,
                    answers, counters >>

(* Close: stop the sweeper, close the queue, wait for the goroutines. *)
CloseStop ==
    /\ main = "serving"
    /\ main' = "stopping"
    /\ UNCHANGED << now, messages, fill, q, waiters, pc, dead, resume, cur, timer,
                    answers, counters >>

(* Mutant: closing wakes nobody. *)
CloseQueueSilent ==
    /\ main = "stopping"
    /\ main' = "waiting"
    /\ UNCHANGED << now, messages, fill, q, waiters, pc, dead, resume, cur, timer,
                    answers, counters >>

CloseQueue ==
    /\ main = "stopping"
    /\ waiters' = {}
    /\ main' = "waiting"
    /\ UNCHANGED << now, messages, fill, q, pc, dead, resume, cur, timer,
                    answers, counters >>

CloseReturn ==
    /\ main = "waiting"
    /\ \A th \in Threads \ {Submitter} : pc[th] = "done"
    /\ main' = "returned"
    /\ UNCHANGED << now, messages, fill, q, waiters, pc, dead, resume, cur,
                    timer, answers, counters >>

Tick ==
    /\ now < MaxTime
    /\ now' = now + 1
    /\ UNCHANGED << messages, fill, q, main, waiters, pc, dead, resume, cur, timer,
                    answers, counters >>

(* Closed, every message answered: the program goes on to exit. *)
Terminated ==
    /\ main = "returned"
    /\ pc[Submitter] = "idle"
    /\ UNCHANGED vars
-----------------------------------------------------------------------------
(* What the submitter does inside Submit. *)
SubmitterStep ==
    \/ SubmitLate \/ SubmitInTime \/ SubmitCollect \/ SubmitClosed
    \/ SubmitRoom \/ SubmitShed \/ SubmitWaitLate \/ SubmitWait
    \/ WaitAgain \/ WaitRoom \/ WaitGivesUp
    \/ ReplyDead(Submitter)

(* What a worker does by itself, the handler's inspection left aside. *)
WorkerStep(w) ==
    \/ PopTask(w) \/ PopClosed(w) \/ PopDead(w) \/ PopWait(w)
    \/ BudgetLate(w) \/ BudgetInTime(w)
    \/ ReplyDead(w)

SweeperStep == SweepTick \/ SweepStop \/ ReplyDead(Sweeper)

TimerStep(t) == TimerStart(t) \/ TimerFire(t)

CloseStep == CloseQueue \/ CloseReturn

Next ==
    \/ Receive \/ SubmitterStep
    \/ \E w \in Workers : WorkerStep(w) \/ Handle(w)
    \/ SweeperStep
    \/ \E t \in Tasks : TimerStep(t)
    \/ CloseStop \/ CloseStep
    \/ Tick
    \/ Terminated

(* Goroutines are scheduled; sync.Mutex hands over to a starving waiter.   *)
(* Nothing makes messages arrive or main close the pool.                   *)
Scheduling ==
    /\ WF_vars(SubmitterStep)
    /\ \A w \in Workers : WF_vars(WorkerStep(w))
    /\ WF_vars(SweeperStep)
    /\ \A t \in Tasks : WF_vars(TimerStep(t))
    /\ WF_vars(CloseStep)

(* Every inspection ends (its context has a deadline); time may stand      *)
(* still.                                                                  *)
Spec ==
    /\ Init /\ [][Next]_vars
    /\ Scheduling
    /\ \A w \in Workers : WF_vars(Handle(w))

(* An inspection may hang for ever, but the clock goes on. *)
SpecHang ==
    /\ Init /\ [][Next]_vars
    /\ Scheduling
    /\ WF_vars(Tick)
-----------------------------------------------------------------------------
PCs == {"idle", "check", "collect", "admit", "wait", "reply", "select", "pop",
        "budget", "handle", "done"}

(* The type invariant. *)
TypeOK ==
    /\ now \in Nat
    /\ next \in 1..(NumTasks + 1)
    /\ deadline \in [Tasks -> Nat]
    /\ enqueued \in [Tasks -> Nat]
    /\ fill \in [Tasks -> 0..100]
    /\ q \subseteq Tasks
    /\ waiters \subseteq Threads
    /\ pc \in [Threads -> PCs]
    /\ dead \in [Threads -> SUBSET Tasks]
    /\ resume \in [Threads -> PCs]
    /\ cur \in [Workers -> {0} \union Tasks]
    /\ timer \in [Tasks -> {"off", "armed", "running", "fired"}]
    /\ main \in {"serving", "stopping", "waiting", "returned"}
    /\ answers \in [Tasks -> Seq(Reasons)]
    /\ Accepted \in Nat /\ Shed \in Nat /\ Expired \in Nat

(* Submit holds t itself: it has neither enqueued nor answered it. *)
Submitting(t) == t = Current /\ pc[Submitter] # "idle"

(* Thread th has task t in its hands. *)
InHand(th, t) ==
    \/ t \in dead[th]
    \/ th \in Workers /\ cur[th] = t
    \/ th = Submitter /\ Submitting(t)

(* Every message handed to Submit is in exactly one place: in the queue,   *)
(* in the hands of one thread, or answered, and answered once.  Expired    *)
(* tasks are taken out of the queue by four different threads, the task    *)
(* that waits for room is released on three different conditions, and each *)
(* of them answers outside the lock.                                       *)
ExactlyOnce ==
    \A t \in Tasks :
       /\ Len(answers[t]) <= 1
       /\ t >= next => answers[t] = << >>
       /\ t \in q => /\ t < next
                     /\ answers[t] = << >>
                     /\ \A th \in Threads : ~InHand(th, t)
       /\ \A th \in Threads :
             InHand(th, t) => /\ t < next
                              /\ answers[t] = << >>
                              /\ \A o \in Threads : InHand(o, t) => o = th
       /\ t < next => \/ answers[t] # << >>
                      \/ t \in q
                      \/ \E th \in Threads : InHand(th, t)

(* The queue never holds more than queue_max tasks, although the submitter *)
(* tests for room, lets go of the lock and tests again.                    *)
QueueBound == Cardinality(q) <= depth

(* No lost wakeup: while a worker sleeps, at least as many workers are on  *)
(* their way to pop as there are tasks in the queue.  enqueueLocked only   *)
(* signals one sleeper of the condition the submitter may sleep on too.    *)
NoLostWakeup ==
    (waiters \intersect Workers # {}) =>
        Cardinality({w \in Workers : Popping(w)}) >= Cardinality(q)

(* The submitter sleeps only for as long as there is a reason to: the      *)
(* queue is full, the pool open and the timer still to fire.               *)
SleepsForAReason ==
    Submitter \in waiters =>
        /\ Cardinality(q) >= depth
        /\ ~closed
        /\ pc[Submitter] = "wait"
        /\ timer[Current] \in {"armed", "running"}

(* When Close returns, the queue is empty and every task that is not       *)
(* answered is in the hands of the submitter: its own message, or expired  *)
(* tasks it took out of the queue.  Close waits for the workers and the    *)
(* sweeper, not for the bus client's goroutine.                            *)
CloseDrains ==
    main = "returned" =>
        /\ q = {}
        /\ \A t \in Tasks : t < next /\ ~InHand(Submitter, t) => answers[t] # << >>

(* The counters account for every message handed to Submit.  As the tasks  *)
(* have it, it is inspected, shed, expired, queued or in somebody's hands, *)
(* and counted once.  As Submit has it, a call that has returned accepted  *)
(* its message, shed it or let it expire; what expires later, out of the   *)
(* queue, is counted as accepted and as expired.                           *)
Balanced ==
    next - 1 =   Cardinality({t \in Tasks : answers[t] = << Inspected >>})
               + Shed + Expired + Cardinality(q)
               + Cardinality({t \in Tasks : \E th \in Threads : InHand(th, t)})

Submitted == IF pc[Submitter] = "idle" THEN next - 1 ELSE next - 2

Conservation ==
    /\ Balanced
    /\ Accepted + Shed <= Submitted
    /\ Submitted <= Accepted + Shed + Expired

(* A task is answered COUNTER_DEADLINE_EXCEEDED only when too little of    *)
(* its own deadline is left or the pool is closed: no other task's timer,  *)
(* wakeup or expiry is charged to it.                                      *)
NoPrematureExpiry ==
    [][\A t \in Tasks :
          answers'[t] # answers[t] /\ Len(answers'[t]) > 0
             /\ answers'[t][Len(answers'[t])] = DeadlineExceeded
          => Late(t) \/ leftAt(t) <= 0 \/ closed]_vars

(* Close returns once it is called. *)
CloseReturns == main # "serving" ~> main = "returned"

(* inspector.conf on queue_full wait: "wait for room until deadline_ms".   *)
(* Even when the workers are stuck in the handler for ever, a message is   *)
(* answered unless its own inspection has begun: the sweeper and the wait  *)
(* timer see to it for as long as main does not close the pool.            *)
AnsweredOrInspected ==
    \A t \in Tasks :
       t < next ~> \/ answers[t] # << >>
                   \/ \E w \in Workers : pc[w] = "handle" /\ cur[w] = t
                   \/ stop

(* The pool implements Answering: the refinement mapping. *)
status ==
    [t \in Tasks |-> IF answers[t] # << >> THEN answers[t][1]
                     ELSE IF t < next THEN "pending" ELSE "new"]

Promise == INSTANCE Answering WITH NumTasks <- NumTasks, Reasons <- Reasons, status <- status

(* Every message handed to Submit gets one answer, with one reason, in the *)
(* end.                                                                    *)
ImplementsAnswering == Promise!Spec
=============================================================================
