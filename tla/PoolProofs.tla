----------------------------- MODULE PoolProofs -----------------------------
(***************************************************************************)
(* Theorems about Pool, for every number of messages, workers, queue       *)
(* depth, mode, deadline and clock bound.                                  *)
(***************************************************************************)
EXTENDS Pool, FiniteSetTheorems, TLAPS

(* Integer division by the depth keeps a fill below 100. *)
LEMMA FillRange ==
  ASSUME NEW n \in Nat, NEW d \in Nat, d > 0, n < d
  PROVE  (n * 100) \div d \in 0..100
<1> DEFINE k == (n * 100) \div d
<1>1. k \in Int /\ n * 100 = d * k + ((n * 100) % d) /\ (n * 100) % d \in 0..(d - 1)
  OBVIOUS
<1>2. k >= 0
  OBVIOUS
<1>3. k <= 100
  <2>1. SUFFICES ASSUME k >= 101 PROVE FALSE
    BY <1>1
  <2>2. d * k >= d * 101
    BY <1>1, <2>1
  <2>3. QED
    BY <1>1, <2>2
<1> QED
  BY <1>1, <1>2, <1>3

(* New never makes a pool without room. *)
LEMMA DepthPositive == depth \in Nat /\ depth > 0
  BY PoolAssumption DEF depth

(* Sets of tasks have a cardinality. *)
LEMMA TasksFinite == /\ IsFiniteSet(Tasks)
                     /\ \A S \in SUBSET Tasks : IsFiniteSet(S) /\ Cardinality(S) \in Nat
<1>1. IsFiniteSet(Tasks)
  BY PoolAssumption, FS_Interval DEF Tasks
<1>2. QED
  BY <1>1, FS_Subset, FS_CardinalityType

(* The three answers are reasons. *)
LEMMA ReasonsAre ==
    Inspected \in Reasons /\ QueueLimit \in Reasons /\ DeadlineExceeded \in Reasons
  BY DEF Reasons

(* fillLocked is a percentage. *)
LEMMA FillType == ASSUME TypeOK PROVE fillLocked \in 0..100
<1>1. Cardinality(q) \in Nat
  BY TasksFinite DEF TypeOK
<1>2. QED
  BY <1>1, FillRange, DepthPositive DEF fillLocked
-----------------------------------------------------------------------------
(* The control state of each thread, and what it holds in each state. *)
Shape ==
    /\ pc[Submitter] \in {"idle", "check", "collect", "admit", "wait", "reply"}
    /\ pc[Submitter] # "idle" => next > 1
    /\ pc[Submitter] = "reply" => resume[Submitter] \in {"admit", "wait"}
    /\ pc[Sweeper] \in {"select", "reply", "done"}
    /\ pc[Sweeper] = "reply" => resume[Sweeper] = "select"
    /\ \A w \in Workers :
          /\ pc[w] \in {"pop", "reply", "budget", "handle", "done"}
          /\ pc[w] = "reply" => resume[w] \in {"pop", "budget", "done"}
          /\ cur[w] # 0 <=> \/ pc[w] \in {"budget", "handle"}
                            \/ pc[w] = "reply" /\ resume[w] = "budget"
    /\ \A th \in Threads : dead[th] # {} <=> pc[th] = "reply"

(* A new pool is well formed. *)
LEMMA InitShape == Init => TypeOK /\ Shape
<1> SUFFICES ASSUME Init PROVE TypeOK /\ Shape
  OBVIOUS
<1>1. /\ pc \in [Threads -> PCs]
      /\ pc[Submitter] = "idle"
      /\ pc[Sweeper] = "select"
      /\ \A w \in Workers : pc[w] = "pop"
  BY PoolAssumption DEF Init, Threads, PCs
<1>2. TypeOK
  BY <1>1, PoolAssumption DEF Init, TypeOK, Threads, PCs, Tasks
<1>3. Shape
  BY <1>1, PoolAssumption DEF Init, Shape, Threads
<1> QED
  BY <1>2, <1>3

(* A thread holds only tasks that exist. *)
LEMMA HeldTasks ==
  ASSUME TypeOK, Shape
  PROVE  /\ pc[Submitter] # "idle" => Current \in Tasks /\ Current = next - 1
         /\ \A w \in Workers : pc[w] \in {"budget", "handle"} => cur[w] \in Tasks
  BY PoolAssumption DEF TypeOK, Shape, Current, Tasks

USE DEF messages, counters

(* Every step keeps the types. *)
LEMMA NextType == TypeOK /\ Shape /\ [Next]_vars => TypeOK'
<1> SUFFICES ASSUME TypeOK, Shape, [Next]_vars PROVE TypeOK'
  OBVIOUS
<1>a. pc[Submitter] # "idle" => Current \in Tasks
  BY HeldTasks
<1>b. \A w \in Workers : pc[w] \in {"budget", "handle"} => cur[w] \in Tasks
  BY HeldTasks
<1>c. fillLocked \in 0..100
  BY FillType
<1> USE <1>a, <1>b, PoolAssumption, ReasonsAre DEF TypeOK, Threads, PCs, closed, stop
<1>1. CASE Receive
  BY <1>1 DEF Receive, GoOn, Tasks
<1>2. CASE SubmitLate
  BY <1>2 DEF SubmitLate, GoOn, expire, Answered
<1>3. CASE SubmitInTime
  BY <1>3 DEF SubmitInTime, GoOn
<1>4. CASE SubmitCollect
  BY <1>4 DEF SubmitCollect, HoldDead, WakeOnExpired, ExpiredTasks
<1>5. CASE SubmitClosed
  BY <1>5 DEF SubmitClosed, GoOn, expire, Answered
<1>6. CASE SubmitRoom
  BY <1>6, <1>c DEF SubmitRoom, Admit, enqueueLocked, Signal, GoOn
<1>7. CASE SubmitShed
  BY <1>7, <1>c DEF SubmitShed, Admit, shedLimit, Answered, GoOn
<1>8. CASE SubmitWaitLate
  BY <1>8, <1>c DEF SubmitWaitLate, Admit, expire, Answered, GoOn
<1>9. CASE SubmitWait
  BY <1>9, <1>c DEF SubmitWait, Admit, WaitBody, HoldDead, ExpiredTasks, GoOn
<1>10. CASE WaitAgain
  BY <1>10 DEF WaitAgain, Rewait, WaitBody, HoldDead, ExpiredTasks, GoOn
<1>11. CASE WaitRoom
  BY <1>11 DEF WaitRoom, Rewait, TimerStop, enqueueLocked, Signal, GoOn
<1>12. CASE WaitGivesUp
  BY <1>12 DEF WaitGivesUp, Rewait, TimerStop, expire, Answered, GoOn
<1>13. ASSUME NEW th \in Threads, ReplyDead(th) PROVE TypeOK'
  BY <1>13 DEF ReplyDead, expire, Answered
<1>14. ASSUME NEW w \in Workers, PopTask(w) PROVE TypeOK'
  BY <1>14 DEF PopTask, Popping, HoldDead, ExpiredTasks
<1>15. ASSUME NEW w \in Workers, PopClosed(w) PROVE TypeOK'
  BY <1>15 DEF PopClosed, Popping, HoldDead, ExpiredTasks, WakeOnExpired
<1>16. ASSUME NEW w \in Workers, PopDead(w) PROVE TypeOK'
  BY <1>16 DEF PopDead, Popping, HoldDead, ExpiredTasks
<1>17. ASSUME NEW w \in Workers, PopWait(w) PROVE TypeOK'
  BY <1>17 DEF PopWait, Popping
<1>18. ASSUME NEW w \in Workers, BudgetLate(w) PROVE TypeOK'
  <2>1. cur[w] \in Tasks
    BY <1>18 DEF BudgetLate
  <2>2. answers' \in [Tasks -> Seq(Reasons)]
    BY <2>1, <1>18 DEF BudgetLate, expire, Answered
  <2> QED
    BY <1>18, <2>1, <2>2 DEF BudgetLate, expire, GoOn
<1>19. ASSUME NEW w \in Workers, BudgetInTime(w) PROVE TypeOK'
  BY <1>19 DEF BudgetInTime, GoOn
<1>20. ASSUME NEW w \in Workers, Handle(w) PROVE TypeOK'
  BY <1>20 DEF Handle, Answered, GoOn
<1>21. CASE SweepTick
  BY <1>21 DEF SweepTick, HoldDead, ExpiredTasks
<1>22. CASE SweepStop
  BY <1>22 DEF SweepStop, GoOn
<1>23. ASSUME NEW t \in Tasks, TimerStart(t) PROVE TypeOK'
  BY <1>23 DEF TimerStart
<1>24. ASSUME NEW t \in Tasks, TimerFire(t) PROVE TypeOK'
  BY <1>24 DEF TimerFire
<1>25. CASE CloseStop
  BY <1>25 DEF CloseStop
<1>26. CASE CloseQueue
  BY <1>26 DEF CloseQueue
<1>27. CASE CloseReturn
  BY <1>27 DEF CloseReturn
<1>28. CASE Tick
  BY <1>28 DEF Tick
<1>29. CASE UNCHANGED vars
  BY <1>29 DEF vars
<1> QED
  BY <1>1, <1>2, <1>3, <1>4, <1>5, <1>6, <1>7, <1>8, <1>9, <1>10, <1>11, <1>12, <1>13, <1>14, <1>15, <1>16, <1>17, <1>18, <1>19, <1>20, <1>21, <1>22, <1>23, <1>24, <1>25, <1>26, <1>27, <1>28, <1>29
     DEF Next, SubmitterStep, WorkerStep, SweeperStep, TimerStep, CloseStep, Terminated

(* Every step keeps the control states. *)
LEMMA NextShape == TypeOK /\ Shape /\ [Next]_vars => Shape'
<1> SUFFICES ASSUME TypeOK, Shape, [Next]_vars PROVE Shape'
  OBVIOUS
<1> USE PoolAssumption DEF TypeOK, Shape, Threads
<1>1. CASE Receive
  BY <1>1 DEF Receive, GoOn
<1>2. CASE SubmitLate
  BY <1>2 DEF SubmitLate, GoOn, expire, Answered
<1>3. CASE SubmitInTime
  BY <1>3 DEF SubmitInTime, GoOn
<1>4. CASE SubmitCollect
  BY <1>4 DEF SubmitCollect, HoldDead, WakeOnExpired, ExpiredTasks
<1>5. CASE SubmitClosed
  BY <1>5 DEF SubmitClosed, GoOn, expire, Answered
<1>6. CASE SubmitRoom
  BY <1>6 DEF SubmitRoom, Admit, enqueueLocked, Signal, GoOn
<1>7. CASE SubmitShed
  BY <1>7 DEF SubmitShed, Admit, shedLimit, Answered, GoOn
<1>8. CASE SubmitWaitLate
  BY <1>8 DEF SubmitWaitLate, Admit, expire, Answered, GoOn
<1>9. CASE SubmitWait
  <2>1. CASE ExpiredTasks = {}
    <3>1. /\ pc' = [pc EXCEPT ![Submitter] = "wait"]
          /\ UNCHANGED << next, cur, dead, resume >>
          /\ pc[Submitter] = "admit"
      BY <1>9, <2>1 DEF SubmitWait, Admit, WaitBody, GoOn
    <3> QED
      BY <3>1
  <2>2. CASE ExpiredTasks # {}
    <3>1. /\ pc' = [pc EXCEPT ![Submitter] = "reply"]
          /\ dead' = [dead EXCEPT ![Submitter] = ExpiredTasks]
          /\ resume' = [resume EXCEPT ![Submitter] = "wait"]
          /\ UNCHANGED << next, cur >>
          /\ pc[Submitter] = "admit"
      BY <1>9, <2>2 DEF SubmitWait, Admit, WaitBody, HoldDead
    <3> QED
      BY <2>2, <3>1
  <2> QED
    BY <2>1, <2>2
<1>10. CASE WaitAgain
  BY <1>10 DEF WaitAgain, Rewait, WaitBody, HoldDead, ExpiredTasks, GoOn
<1>11. CASE WaitRoom
  BY <1>11 DEF WaitRoom, Rewait, TimerStop, enqueueLocked, Signal, GoOn
<1>12. CASE WaitGivesUp
  BY <1>12 DEF WaitGivesUp, Rewait, TimerStop, expire, Answered, GoOn
<1>13. ASSUME NEW th \in Threads, ReplyDead(th) PROVE Shape'
  BY <1>13 DEF ReplyDead, expire, Answered
<1>14. ASSUME NEW w \in Workers, PopTask(w) PROVE Shape'
  BY <1>14 DEF PopTask, Popping, HoldDead, ExpiredTasks, Tasks
<1>15. ASSUME NEW w \in Workers, PopClosed(w) PROVE Shape'
  BY <1>15 DEF PopClosed, Popping, HoldDead, ExpiredTasks, WakeOnExpired
<1>16. ASSUME NEW w \in Workers, PopDead(w) PROVE Shape'
  BY <1>16 DEF PopDead, Popping, HoldDead, ExpiredTasks
<1>17. ASSUME NEW w \in Workers, PopWait(w) PROVE Shape'
  BY <1>17 DEF PopWait, Popping
<1>18. ASSUME NEW w \in Workers, BudgetLate(w) PROVE Shape'
  BY <1>18 DEF BudgetLate, expire, Answered, GoOn
<1>19. ASSUME NEW w \in Workers, BudgetInTime(w) PROVE Shape'
  BY <1>19 DEF BudgetInTime, GoOn
<1>20. ASSUME NEW w \in Workers, Handle(w) PROVE Shape'
  BY <1>20 DEF Handle, Answered, GoOn
<1>21. CASE SweepTick
  BY <1>21 DEF SweepTick, HoldDead, ExpiredTasks
<1>22. CASE SweepStop
  BY <1>22 DEF SweepStop, GoOn
<1>23. ASSUME NEW t \in Tasks, TimerStart(t) PROVE Shape'
  BY <1>23 DEF TimerStart
<1>24. ASSUME NEW t \in Tasks, TimerFire(t) PROVE Shape'
  BY <1>24 DEF TimerFire
<1>25. CASE CloseStop
  BY <1>25 DEF CloseStop
<1>26. CASE CloseQueue
  BY <1>26 DEF CloseQueue
<1>27. CASE CloseReturn
  BY <1>27 DEF CloseReturn
<1>28. CASE Tick
  BY <1>28 DEF Tick
<1>29. CASE UNCHANGED vars
  BY <1>29 DEF vars
<1> QED
  BY <1>1, <1>2, <1>3, <1>4, <1>5, <1>6, <1>7, <1>8, <1>9, <1>10, <1>11, <1>12, <1>13, <1>14, <1>15, <1>16, <1>17, <1>18, <1>19, <1>20, <1>21, <1>22, <1>23, <1>24, <1>25, <1>26, <1>27, <1>28, <1>29
     DEF Next, SubmitterStep, WorkerStep, SweeperStep, TimerStep, CloseStep, Terminated

(* Type correctness of the pool: no sequence of steps leaves the types,    *)
(* and Task.Fill stays a percentage whatever the depth.                    *)
THEOREM TypeCorrect == Spec => []TypeOK
<1>1. Init => TypeOK /\ Shape
  BY InitShape
<1>2. TypeOK /\ Shape /\ [Next]_vars => TypeOK' /\ Shape'
  BY NextType, NextShape
<1>3. QED
  BY <1>1, <1>2, PTL DEF Spec
-----------------------------------------------------------------------------
(***************************************************************************)
(* ExactlyOnce.  Seen from the tasks, an action does one of four things:   *)
(* it takes tasks out of the queue into a thread's hands (none of them,    *)
(* for most actions), brings a new task, answers a task out of a thread's  *)
(* hands, or puts the submitter's task into the queue.  Each of the four   *)
(* preserves ExactlyOnce; then every action is shown to be one of them.    *)
(***************************************************************************)
Take(th, S) ==
    /\ S \subseteq q
    /\ q' = q \ S
    /\ UNCHANGED << answers, next >>
    /\ \A o \in Threads, t \in Tasks :
          InHand(o, t)' <=> InHand(o, t) \/ (o = th /\ t \in S)

Bring ==
    /\ next' = next + 1
    /\ UNCHANGED << answers, q >>
    /\ \A o \in Threads, t \in Tasks :
          InHand(o, t)' <=> InHand(o, t) \/ (o = Submitter /\ t = next)

AnswerOut(th, t, reason) ==
    /\ InHand(th, t)
    /\ answers' = [answers EXCEPT ![t] = Append(@, reason)]
    /\ UNCHANGED << next, q >>
    /\ \A o \in Threads, u \in Tasks :
          InHand(o, u)' <=> InHand(o, u) /\ ~(o = th /\ u = t)

PutIn(t) ==
    /\ InHand(Submitter, t)
    /\ q' = q \union {t}
    /\ UNCHANGED << answers, next >>
    /\ \A o \in Threads, u \in Tasks :
          InHand(o, u)' <=> InHand(o, u) /\ ~(o = Submitter /\ u = t)

(* An answer of the pool's own is counted, under its reason; the handler's *)
(* is not.                                                                 *)
Counted(reason) ==
    /\ Shed' = IF reason = QueueLimit THEN Shed + 1 ELSE Shed
    /\ Expired' = IF reason = DeadlineExceeded THEN Expired + 1 ELSE Expired

Uncounted == UNCHANGED << Shed, Expired >>

Moves ==
    \/ Uncounted /\ \E th \in Threads : \E S \in SUBSET q : Take(th, S)
    \/ Uncounted /\ Bring /\ next <= NumTasks
    \/ \E th \in Threads, t \in Tasks, reason \in Reasons :
          AnswerOut(th, t, reason) /\ Counted(reason)
    \/ Uncounted /\ \E t \in Tasks : PutIn(t)

(* Tasks out of the queue and into the hands of one thread. *)
LEMMA TakeKeeps ==
  ASSUME TypeOK, ExactlyOnce, NEW th \in Threads, NEW S, Take(th, S)
  PROVE  ExactlyOnce'
  BY DEF Take, ExactlyOnce, TypeOK

(* A new message in the hands of the submitter. *)
LEMMA BringKeeps ==
  ASSUME TypeOK, ExactlyOnce, Bring, next <= NumTasks
  PROVE  ExactlyOnce'
<1>1. next \in Tasks /\ Submitter \in Threads /\ Tasks \subseteq Nat
  BY PoolAssumption DEF TypeOK, Tasks, Threads
<1> QED
  BY <1>1 DEF Bring, ExactlyOnce, TypeOK

(* A task answered out of the hands that held it. *)
LEMMA AnswerOutKeeps ==
  ASSUME TypeOK, ExactlyOnce, NEW th \in Threads, NEW t \in Tasks, NEW reason \in Reasons,
         AnswerOut(th, t, reason)
  PROVE  ExactlyOnce'
<1>1. answers[t] = << >>
  BY DEF AnswerOut, ExactlyOnce
<1>2. answers'[t] = << reason >> /\ Len(answers'[t]) = 1 /\ answers'[t] # << >>
  BY <1>1 DEF AnswerOut, TypeOK
<1>3. \A u \in Tasks : u # t => answers'[u] = answers[u]
  BY DEF AnswerOut, TypeOK
<1>4. /\ UNCHANGED << next, q >>
      /\ InHand(th, t)
      /\ \A o \in Threads, u \in Tasks :
            InHand(o, u)' <=> InHand(o, u) /\ ~(o = th /\ u = t)
  BY DEF AnswerOut
<1>5. t < next /\ t \notin q /\ \A o \in Threads : InHand(o, t) => o = th
  BY <1>4 DEF ExactlyOnce
<1>6. ~(t >= next)
  BY <1>5 DEF TypeOK, Tasks
<1>7. \A u \in Tasks, o \in Threads : u # t => (InHand(o, u)' <=> InHand(o, u))
  BY <1>4
<1>8. \A o \in Threads : ~InHand(o, t)'
  BY <1>4, <1>5
<1>9. next' = next /\ q' = q
  BY <1>4
<1> SUFFICES ASSUME NEW u \in Tasks
             PROVE  /\ Len(answers'[u]) <= 1
                    /\ u >= next' => answers'[u] = << >>
                    /\ u \in q' => /\ u < next'
                                   /\ answers'[u] = << >>
                                   /\ \A o \in Threads : ~InHand(o, u)'
                    /\ \A o \in Threads :
                          InHand(o, u)' => /\ u < next'
                                           /\ answers'[u] = << >>
                                           /\ \A p \in Threads : InHand(p, u)' => p = o
                    /\ u < next' => \/ answers'[u] # << >>
                                    \/ u \in q'
                                    \/ \E o \in Threads : InHand(o, u)'
  BY DEF ExactlyOnce
<1>10. CASE u = t
  <2>1. \A o \in Threads : ~InHand(o, u)'
    BY <1>8, <1>10
  <2>2. Len(answers'[u]) = 1 /\ answers'[u] # << >>
    BY <1>2, <1>10
  <2>3. u \notin q' /\ ~(u >= next')
    BY <1>5, <1>6, <1>9, <1>10
  <2> QED
    BY <2>1, <2>2, <2>3
<1>11. CASE u # t
  <2>1. answers'[u] = answers[u] /\ \A o \in Threads : InHand(o, u)' <=> InHand(o, u)
    BY <1>3, <1>7, <1>11
  <2> QED
    BY <2>1, <1>9 DEF ExactlyOnce
<1> QED
  BY <1>10, <1>11

(* The task of the submitter into the queue. *)
LEMMA PutInKeeps ==
  ASSUME TypeOK, ExactlyOnce, NEW t \in Tasks, PutIn(t)
  PROVE  ExactlyOnce'
  BY PoolAssumption DEF PutIn, ExactlyOnce, TypeOK, Threads

(* Whichever of the four it is. *)
LEMMA MovesKeep ==
  ASSUME TypeOK, ExactlyOnce, Moves
  PROVE  ExactlyOnce'
  BY TakeKeeps, BringKeeps, AnswerOutKeeps, PutInKeeps DEF Moves

(* The three reasons differ. *)
LEMMA ReasonsDiffer ==
    Inspected # QueueLimit /\ Inspected # DeadlineExceeded /\ QueueLimit # DeadlineExceeded
  BY DEF Inspected, QueueLimit, DeadlineExceeded

(* What a thread holds, it holds once. *)
HoldOnce ==
    /\ \A w \in Workers : cur[w] \notin dead[w]
    /\ pc[Submitter] # "idle" => Current \notin dead[Submitter]

PoolInv == TypeOK /\ Shape /\ ExactlyOnce /\ HoldOnce

(* In a new pool there is nothing to hold. *)
LEMMA InitOnce == Init => ExactlyOnce /\ HoldOnce
<1> SUFFICES ASSUME Init PROVE ExactlyOnce /\ HoldOnce
  OBVIOUS
<1>1. pc[Submitter] = "idle" /\ next = 1 /\ q = {} /\ Tasks \subseteq Nat \ {0}
  BY PoolAssumption DEF Init, Threads, Tasks
<1>2. \A th \in Threads, t \in Tasks : ~InHand(th, t)
  BY <1>1, PoolAssumption DEF Init, InHand, Submitting, Threads
<1>3. \A t \in Tasks : answers[t] = << >> /\ t >= next
  BY <1>1 DEF Init
<1>4. ExactlyOnce
  <2> SUFFICES ASSUME NEW t \in Tasks
               PROVE  /\ Len(answers[t]) <= 1
                      /\ answers[t] = << >>
                      /\ t \notin q
                      /\ ~(t < next)
                      /\ \A th \in Threads : ~InHand(th, t)
    BY Zenon DEF ExactlyOnce
  <2>1. Len(<< >>) = 0
    OBVIOUS
  <2>2. t \in Nat /\ next = 1 /\ t >= next
    BY <1>1, <1>3
  <2>3. ~(t < next)
    BY <2>2
  <2>4. Len(answers[t]) <= 1
    BY <1>3, <2>1
  <2> QED
    BY <1>1, <1>2, <1>3, <2>3, <2>4
<1>5. HoldOnce
  BY <1>1 DEF Init, HoldOnce, Threads
<1> QED
  BY <1>4, <1>5

(* What the submitter's own task is, while Submit runs. *)
LEMMA SubmitterHolds ==
  ASSUME PoolInv, pc[Submitter] # "idle"
  PROVE  /\ Current \in Tasks
         /\ InHand(Submitter, Current)
         /\ Current \notin dead[Submitter]
         /\ Current \notin q
         /\ Submitter \in Threads
         /\ Submitter \notin Workers
<1>1. Current \in Tasks
  BY HeldTasks DEF PoolInv
<1>2. Submitter \in Threads /\ Submitter \notin Workers
  BY PoolAssumption DEF Threads
<1>3. InHand(Submitter, Current)
  BY DEF InHand, Submitting
<1> QED
  BY <1>1, <1>2, <1>3 DEF PoolInv, HoldOnce, ExactlyOnce

(* The answer out of Submit: SubmitLate and its like. *)
LEMMA SubmitAnswers ==
  ASSUME PoolInv, NEW reason \in Reasons,
         pc[Submitter] # "idle",
         pc' = [pc EXCEPT ![Submitter] = "idle"],
         Answered(Current, reason), Counted(reason),
         UNCHANGED << next, q, dead, cur >>
  PROVE  Moves /\ HoldOnce'
<1>1. AnswerOut(Submitter, Current, reason)
  <2>1. pc'[Submitter] = "idle"
    BY SubmitterHolds DEF PoolInv, TypeOK
  <2>2. Current' = Current
    BY DEF Current
  <2>3. ASSUME NEW o \in Threads, NEW u \in Tasks
        PROVE  InHand(o, u)' <=> InHand(o, u) /\ ~(o = Submitter /\ u = Current)
    BY <2>1, <2>2, SubmitterHolds DEF InHand, Submitting
  <2> QED
    BY <2>3, SubmitterHolds DEF AnswerOut, Answered
<1>2. Moves
  BY <1>1, SubmitterHolds DEF Moves
<1>3. HoldOnce'
  <2>1. pc'[Submitter] = "idle"
    BY SubmitterHolds DEF PoolInv, TypeOK
  <2> QED
    BY <2>1 DEF PoolInv, HoldOnce
<1> QED
  BY <1>2, <1>3

(* The submitter appends its task: SubmitRoom and WaitRoom. *)
LEMMA SubmitEnqueues ==
  ASSUME PoolInv,
         pc[Submitter] # "idle",
         pc' = [pc EXCEPT ![Submitter] = "idle"],
         q' = q \union {Current},
         UNCHANGED << next, answers, dead, cur >>, Uncounted
  PROVE  Moves /\ HoldOnce'
<1>1. pc'[Submitter] = "idle" /\ Current' = Current
  BY SubmitterHolds DEF PoolInv, TypeOK, Current
<1>2. ASSUME NEW o \in Threads, NEW u \in Tasks
      PROVE  InHand(o, u)' <=> InHand(o, u) /\ ~(o = Submitter /\ u = Current)
  BY <1>1, SubmitterHolds DEF InHand, Submitting
<1>3. PutIn(Current)
  BY <1>2, SubmitterHolds DEF PutIn
<1>4. Moves
  BY <1>3, SubmitterHolds DEF Moves
<1>5. HoldOnce'
  BY <1>1 DEF PoolInv, HoldOnce
<1> QED
  BY <1>4, <1>5

(* A worker answers the task it popped: BudgetLate and Handle. *)
LEMMA WorkerAnswers ==
  ASSUME PoolInv, NEW w \in Workers, NEW reason \in Reasons,
         pc[w] \in {"budget", "handle"},
         pc' = [pc EXCEPT ![w] = "pop"],
         Answered(cur[w], reason), Counted(reason),
         cur' = [cur EXCEPT ![w] = 0],
         UNCHANGED << next, q, dead >>
  PROVE  Moves /\ HoldOnce'
<1>1. cur[w] \in Tasks /\ w \in Threads /\ w # Submitter /\ 0 \notin Tasks
  BY HeldTasks, PoolAssumption DEF PoolInv, Threads, Tasks
<1>2. /\ pc'[Submitter] = pc[Submitter]
      /\ Current' = Current
      /\ cur'[w] = 0
      /\ \A v \in Workers : v # w => cur'[v] = cur[v]
      /\ cur[w] \notin dead[w]
  BY <1>1, PoolAssumption DEF PoolInv, TypeOK, Current, HoldOnce, Threads
<1>3. InHand(w, cur[w])
  BY DEF InHand
<1>4. \A o \in Threads : InHand(o, cur[w]) => o = w
  BY <1>1, <1>3 DEF PoolInv, ExactlyOnce
<1>5. ASSUME NEW o \in Threads, NEW u \in Tasks
      PROVE  InHand(o, u)' <=> InHand(o, u) /\ ~(o = w /\ u = cur[w])
  BY <1>1, <1>2 DEF InHand, Submitting
<1>6. AnswerOut(w, cur[w], reason)
  BY <1>3, <1>5 DEF AnswerOut, Answered
<1>7. Moves
  BY <1>1, <1>6 DEF Moves
<1>8. HoldOnce'
  <2>1. dead[w] \subseteq Tasks
    BY <1>1 DEF PoolInv, TypeOK
  <2> QED
    BY <1>1, <1>2, <2>1 DEF PoolInv, HoldOnce
<1> QED
  BY <1>7, <1>8

(* Nothing changes hands. *)
LEMMA Quiet ==
  ASSUME PoolInv,
         pc'[Submitter] = "idle" <=> pc[Submitter] = "idle",
         UNCHANGED << next, q, answers, dead, cur >>, Uncounted
  PROVE  Moves /\ HoldOnce'
<1>1. Current' = Current
  BY DEF Current
<1>2. ASSUME NEW o \in Threads, NEW u \in Tasks
      PROVE  InHand(o, u)' <=> InHand(o, u)
  BY <1>1 DEF InHand, Submitting
<1>3. Take(Submitter, {})
  BY <1>2 DEF Take
<1>4. Moves
  BY <1>3 DEF Moves, Threads
<1>5. HoldOnce'
  BY <1>1 DEF PoolInv, HoldOnce
<1> QED
  BY <1>4, <1>5

(* A thread takes the expired tasks out of the queue: takeExpiredLocked. *)
LEMMA TakesExpired ==
  ASSUME PoolInv, NEW th \in Threads,
         pc[th] # "reply",
         pc'[Submitter] = "idle" <=> pc[Submitter] = "idle",
         q' = q \ ExpiredTasks,
         dead' = [dead EXCEPT ![th] = ExpiredTasks],
         UNCHANGED << next, answers, cur >>, Uncounted
  PROVE  Moves /\ HoldOnce'
<1>1. Current' = Current
  BY DEF Current
<1>2. /\ dead[th] = {}
      /\ dead'[th] = ExpiredTasks
      /\ \A o \in Threads : o # th => dead'[o] = dead[o]
  BY DEF PoolInv, Shape, TypeOK
<1>3. ASSUME NEW o \in Threads, NEW u \in Tasks
      PROVE  InHand(o, u)' <=> InHand(o, u) \/ (o = th /\ u \in ExpiredTasks)
  BY <1>1, <1>2 DEF InHand, Submitting
<1>4. ExpiredTasks \subseteq q
  BY DEF ExpiredTasks
<1>5. Take(th, ExpiredTasks)
  BY <1>3, <1>4 DEF Take
<1>6. Moves
  BY <1>4, <1>5 DEF Moves
<1>7. pc[Submitter] # "idle" => Current \notin q
  BY SubmitterHolds
<1>8. \A w \in Workers : cur[w] \notin q
  <2> SUFFICES ASSUME NEW w \in Workers, cur[w] \in q PROVE FALSE
    OBVIOUS
  <2>1. InHand(w, cur[w]) /\ w \in Threads /\ cur[w] \in Tasks
    BY DEF InHand, Threads, PoolInv, TypeOK
  <2> QED
    BY <2>1 DEF PoolInv, ExactlyOnce
<1>9. HoldOnce'
  BY <1>1, <1>2, <1>4, <1>7, <1>8 DEF PoolInv, HoldOnce, Threads
<1> QED
  BY <1>6, <1>9

(* A worker pops a task, and takes the expired ones with it. *)
LEMMA PopTaskKeeps ==
  ASSUME PoolInv, NEW w \in Workers, PopTask(w)
  PROVE  Moves /\ HoldOnce'
<1>1. PICK t \in q \ ExpiredTasks :
         /\ q' = (q \ ExpiredTasks) \ {t}
         /\ cur' = [cur EXCEPT ![w] = t]
  BY DEF PopTask
<1>2. /\ pc[w] = "pop"
      /\ UNCHANGED << next, answers >>
      /\ dead' = [dead EXCEPT ![w] = ExpiredTasks]
      /\ w \in Threads /\ w # Submitter
  BY PoolAssumption DEF PopTask, Popping, HoldDead, Threads
<1>3. pc'[Submitter] = pc[Submitter] /\ Current' = Current
  BY <1>2, PoolAssumption DEF PopTask, HoldDead, PoolInv, TypeOK, Current, Threads
<1>4. /\ dead[w] = {}
      /\ cur[w] = 0
      /\ dead'[w] = ExpiredTasks
      /\ cur'[w] = t
      /\ \A o \in Threads : o # w => dead'[o] = dead[o]
      /\ \A v \in Workers : v # w => cur'[v] = cur[v]
      /\ 0 \notin Tasks
  BY <1>1, <1>2 DEF PoolInv, Shape, TypeOK, Tasks
<1>5. ASSUME NEW o \in Threads, NEW u \in Tasks
      PROVE  InHand(o, u)' <=> InHand(o, u) \/ (o = w /\ u \in ExpiredTasks \union {t})
  BY <1>2, <1>3, <1>4 DEF InHand, Submitting
<1>6. Take(w, ExpiredTasks \union {t})
  <2>1. ExpiredTasks \union {t} \subseteq q /\ q' = q \ (ExpiredTasks \union {t})
    BY <1>1 DEF ExpiredTasks
  <2> QED
    BY <1>2, <1>5, <2>1 DEF Take
<1>7. Moves
  <2>1. ExpiredTasks \union {t} \subseteq q /\ Uncounted
    BY <1>1 DEF ExpiredTasks, PopTask, Uncounted
  <2> QED
    BY <1>2, <1>6, <2>1 DEF Moves
<1>8. HoldOnce'
  BY <1>1, <1>2, <1>3, <1>4 DEF PoolInv, HoldOnce, Threads
<1> QED
  BY <1>7, <1>8

(* A thread answers the oldest of the expired tasks it took. *)
LEMMA ReplyDeadKeeps ==
  ASSUME PoolInv, NEW th \in Threads, ReplyDead(th)
  PROVE  Moves /\ HoldOnce'
<1>1. PICK t \in dead[th] :
         /\ Answered(t, DeadlineExceeded)
         /\ dead' = [dead EXCEPT ![th] = @ \ {t}]
         /\ pc' = [pc EXCEPT ![th] = IF dead[th] = {t} THEN resume[th] ELSE "reply"]
  BY DEF ReplyDead, expire
<1>2. pc[th] = "reply" /\ UNCHANGED << next, q, cur >>
  BY DEF ReplyDead
<1>3. t \in Tasks /\ InHand(th, t) /\ DeadlineExceeded \in Reasons
  BY ReasonsAre DEF PoolInv, TypeOK, InHand
<1>4. pc'[Submitter] = "idle" <=> pc[Submitter] = "idle"
  <2>1. CASE th = Submitter
    BY <1>1, <1>2, <2>1 DEF PoolInv, Shape, TypeOK
  <2>2. CASE th # Submitter
    BY <1>1, <2>2, PoolAssumption DEF PoolInv, TypeOK, Threads
  <2> QED
    BY <2>1, <2>2
<1>5. Current' = Current
  BY <1>2 DEF Current
<1>6. dead'[th] = dead[th] \ {t} /\ \A o \in Threads : o # th => dead'[o] = dead[o]
  BY <1>1 DEF PoolInv, TypeOK
<1>7. /\ th \in Workers => cur[th] # t
      /\ th = Submitter /\ pc[Submitter] # "idle" => t # Current
  BY DEF PoolInv, HoldOnce
<1>8. ASSUME NEW o \in Threads, NEW u \in Tasks
      PROVE  InHand(o, u)' <=> InHand(o, u) /\ ~(o = th /\ u = t)
  BY <1>2, <1>4, <1>5, <1>6, <1>7 DEF InHand, Submitting
<1>9. AnswerOut(th, t, DeadlineExceeded)
  BY <1>1, <1>2, <1>3, <1>8 DEF AnswerOut, Answered
<1>10. Moves
  <2>1. Counted(DeadlineExceeded)
    BY ReasonsDiffer DEF ReplyDead, expire, Counted
  <2> QED
    BY <1>3, <1>9, <2>1 DEF Moves
<1>11. HoldOnce'
  BY <1>2, <1>4, <1>5, <1>6, PoolAssumption DEF PoolInv, HoldOnce, Threads
<1> QED
  BY <1>10, <1>11

(* The bus hands over the next message. *)
LEMMA ReceiveKeeps ==
  ASSUME PoolInv, Receive
  PROVE  Moves /\ HoldOnce'
<1>1. /\ pc[Submitter] = "idle" /\ pc' = [pc EXCEPT ![Submitter] = "check"]
      /\ next <= NumTasks /\ next' = next + 1
      /\ UNCHANGED << q, answers, dead, cur >>
  BY DEF Receive, GoOn
<1>2. /\ Submitter \in Threads
      /\ pc'[Submitter] = "check"
      /\ next \in Nat
      /\ dead[Submitter] = {}
      /\ Current' = next
  <2>1. Submitter \in Threads
    BY DEF Threads
  <2>2. next \in Nat /\ pc'[Submitter] = "check"
    BY <1>1, <2>1, PoolAssumption DEF PoolInv, TypeOK
  <2>3. dead[Submitter] = {}
    BY <1>1, <2>1 DEF PoolInv, Shape
  <2>4. Current' = next
    BY <1>1, <2>2 DEF Current
  <2> QED
    BY <2>1, <2>2, <2>3, <2>4
<1>3. ASSUME NEW o \in Threads, NEW u \in Tasks
      PROVE  InHand(o, u)' <=> InHand(o, u) \/ (o = Submitter /\ u = next)
  BY <1>1, <1>2 DEF InHand, Submitting
<1>4. Bring
  BY <1>1, <1>3 DEF Bring
<1>5. Moves
  BY <1>1, <1>4 DEF Moves, Receive, Uncounted
<1>6. HoldOnce'
  BY <1>1, <1>2 DEF PoolInv, HoldOnce
<1> QED
  BY <1>5, <1>6

(* Every action is one of the four. *)
LEMMA NextMoves == PoolInv /\ [Next]_vars => Moves /\ HoldOnce'
<1> SUFFICES ASSUME PoolInv, [Next]_vars PROVE Moves /\ HoldOnce'
  OBVIOUS
<1>0. Submitter \in Threads /\ Sweeper \in Threads /\ Submitter # Sweeper
      /\ Workers \subseteq Threads /\ Submitter \notin Workers
  BY PoolAssumption DEF Threads
<1>1. CASE Receive
  BY <1>1, ReceiveKeeps
<1>2. CASE SubmitLate
  BY <1>2, SubmitAnswers, ReasonsAre, ReasonsDiffer DEF SubmitLate, expire, Counted, GoOn
<1>3. CASE SubmitInTime
  <2>1. pc' = [pc EXCEPT ![Submitter] = "collect"] /\ pc[Submitter] = "check"
    BY <1>3 DEF SubmitInTime, GoOn
  <2>2. pc'[Submitter] = "collect"
    BY <1>0, <2>1 DEF PoolInv, TypeOK
  <2> QED
    BY <1>3, <2>1, <2>2, Quiet DEF SubmitInTime, Uncounted
<1>4. CASE SubmitCollect
  <2>1. pc[Submitter] = "collect" /\ pc'[Submitter] # "idle"
    BY <1>0, <1>4 DEF SubmitCollect, HoldDead, PoolInv, TypeOK
  <2> QED
    BY <1>0, <1>4, <2>1, TakesExpired DEF SubmitCollect, HoldDead, Uncounted
<1>5. CASE SubmitClosed
  BY <1>5, SubmitAnswers, ReasonsAre, ReasonsDiffer DEF SubmitClosed, expire, Counted, GoOn
<1>6. CASE SubmitRoom
  BY <1>6, SubmitEnqueues DEF SubmitRoom, Admit, enqueueLocked, Uncounted, GoOn
<1>7. CASE SubmitShed
  BY <1>7, SubmitAnswers, ReasonsAre, ReasonsDiffer DEF SubmitShed, Admit, shedLimit, Counted, GoOn
<1>8. CASE SubmitWaitLate
  BY <1>8, SubmitAnswers, ReasonsAre, ReasonsDiffer DEF SubmitWaitLate, Admit, expire, Counted, GoOn
<1>9. ASSUME pc[Submitter] \in {"admit", "wait"}, WaitBody, UNCHANGED << next, answers, cur >>,
             Uncounted
      PROVE  Moves /\ HoldOnce'
  <2>1. CASE ExpiredTasks # {}
    <3>1. /\ q' = q \ ExpiredTasks
          /\ dead' = [dead EXCEPT ![Submitter] = ExpiredTasks]
          /\ pc' = [pc EXCEPT ![Submitter] = "reply"]
      BY <1>9, <2>1 DEF WaitBody, HoldDead
    <3>2. pc'[Submitter] = "reply"
      BY <1>0, <3>1 DEF PoolInv, TypeOK
    <3> QED
      BY <1>0, <1>9, <3>1, <3>2, TakesExpired
  <2>2. CASE ExpiredTasks = {}
    <3>1. pc' = [pc EXCEPT ![Submitter] = "wait"] /\ UNCHANGED << q, dead >>
      BY <1>9, <2>2 DEF WaitBody, GoOn
    <3>2. pc'[Submitter] = "wait"
      BY <1>0, <3>1 DEF PoolInv, TypeOK
    <3> QED
      BY <1>9, <3>1, <3>2, Quiet
  <2> QED
    BY <2>1, <2>2
<1>10. CASE SubmitWait
  BY <1>9, <1>10 DEF SubmitWait, Admit, Uncounted
<1>11. CASE WaitAgain
  BY <1>9, <1>11 DEF WaitAgain, Rewait, Uncounted
<1>12. CASE WaitRoom
  BY <1>12, SubmitEnqueues DEF WaitRoom, Rewait, enqueueLocked, Uncounted, GoOn
<1>13. CASE WaitGivesUp
  BY <1>13, SubmitAnswers, ReasonsAre, ReasonsDiffer DEF WaitGivesUp, Rewait, expire, Counted, GoOn
<1>14. ASSUME NEW th \in Threads, ReplyDead(th) PROVE Moves /\ HoldOnce'
  BY <1>14, ReplyDeadKeeps
<1>15. ASSUME NEW w \in Workers, PopTask(w) PROVE Moves /\ HoldOnce'
  BY <1>15, PopTaskKeeps
<1>16. ASSUME NEW w \in Workers, PopClosed(w) \/ PopDead(w) PROVE Moves /\ HoldOnce'
  <2>1. /\ pc[w] = "pop"
        /\ q' = q \ ExpiredTasks
        /\ dead' = [dead EXCEPT ![w] = ExpiredTasks]
        /\ UNCHANGED << next, answers, cur >> /\ Uncounted
    BY <1>16 DEF PopClosed, PopDead, Popping, HoldDead, Uncounted
  <2>2. pc'[Submitter] = pc[Submitter]
    BY <1>0, <1>16 DEF PopClosed, PopDead, HoldDead, PoolInv, TypeOK
  <2> QED
    BY <1>0, <2>1, <2>2, TakesExpired
<1>17. ASSUME NEW w \in Workers, PopWait(w) PROVE Moves /\ HoldOnce'
  BY <1>17, Quiet DEF PopWait, Uncounted
<1>18. ASSUME NEW w \in Workers, BudgetLate(w) PROVE Moves /\ HoldOnce'
  BY <1>18, WorkerAnswers, ReasonsAre, ReasonsDiffer DEF BudgetLate, expire, Counted, GoOn
<1>19. ASSUME NEW w \in Workers, BudgetInTime(w) PROVE Moves /\ HoldOnce'
  <2>1. pc'[Submitter] = pc[Submitter]
    BY <1>0, <1>19 DEF BudgetInTime, GoOn, PoolInv, TypeOK
  <2> QED
    BY <1>19, <2>1, Quiet DEF BudgetInTime, Uncounted
<1>20. ASSUME NEW w \in Workers, Handle(w) PROVE Moves /\ HoldOnce'
  BY <1>20, WorkerAnswers, ReasonsAre, ReasonsDiffer DEF Handle, Counted, GoOn
<1>21. CASE SweepTick
  <2>1. pc'[Submitter] = pc[Submitter]
    BY <1>0, <1>21 DEF SweepTick, HoldDead, PoolInv, TypeOK
  <2> QED
    BY <1>0, <1>21, <2>1, TakesExpired DEF SweepTick, HoldDead, Uncounted
<1>22. CASE SweepStop
  <2>1. pc'[Submitter] = pc[Submitter]
    BY <1>0, <1>22 DEF SweepStop, GoOn, PoolInv, TypeOK
  <2> QED
    BY <1>22, <2>1, Quiet DEF SweepStop, Uncounted
<1>23. ASSUME NEW t \in Tasks, TimerStep(t) PROVE Moves /\ HoldOnce'
  BY <1>23, Quiet DEF TimerStep, TimerStart, TimerFire, Uncounted
<1>24. CASE CloseStop
  BY <1>24, Quiet DEF CloseStop, Uncounted
<1>25. CASE CloseStep
  BY <1>25, Quiet DEF CloseStep, CloseQueue, CloseReturn, Uncounted
<1>26. CASE Tick
  BY <1>26, Quiet DEF Tick, Uncounted
<1>27. CASE UNCHANGED vars
  BY <1>27, Quiet DEF vars, Uncounted
<1> QED
  BY <1>0, <1>1, <1>2, <1>3, <1>4, <1>5, <1>6, <1>7, <1>8, <1>10, <1>11, <1>12, <1>13,
     <1>14, <1>15, <1>16, <1>17, <1>18, <1>19, <1>20, <1>21, <1>22, <1>23, <1>24, <1>25,
     <1>26, <1>27
     DEF Next, SubmitterStep, WorkerStep, SweeperStep, Terminated

(* The inductive step. *)
LEMMA NextInv == PoolInv /\ [Next]_vars => PoolInv'
  BY NextType, NextShape, NextMoves, MovesKeep DEF PoolInv

(* PoolInv is inductive, so it holds throughout. *)
LEMMA PoolInvariant == Spec => []PoolInv
<1>1. Init => PoolInv
  BY InitShape, InitOnce DEF PoolInv
<1>2. QED
  BY <1>1, NextInv, PTL DEF Spec

(* Every message handed to Submit is in one place, or answered, once. *)
THEOREM AnsweredOnce == Spec => []ExactlyOnce
<1>1. PoolInv => ExactlyOnce
  BY DEF PoolInv
<1>2. QED
  BY <1>1, PoolInvariant, PTL
-----------------------------------------------------------------------------
(***************************************************************************)
(* What follows from the four moves alone: the pool refines Answering, and *)
(* its counters add up.                                                    *)
(***************************************************************************)
(* What the answers of a task are, before and after one of them. *)
LEMMA FirstAnswer ==
  ASSUME PoolInv, NEW th \in Threads, NEW t \in Tasks, NEW reason \in Reasons,
         AnswerOut(th, t, reason)
  PROVE  /\ answers[t] = << >> /\ t < next
         /\ answers'[t] = << reason >>
         /\ \A u \in Tasks : u # t => answers'[u] = answers[u]
<1>1. answers[t] = << >> /\ t < next
  BY DEF AnswerOut, PoolInv, ExactlyOnce
<1>2. answers'[t] = << reason >>
  BY <1>1 DEF AnswerOut, PoolInv, TypeOK
<1> QED
  BY <1>1, <1>2 DEF AnswerOut, PoolInv, TypeOK

(* A move is a step of Answering, or none. *)
LEMMA MovesRefine ==
  ASSUME PoolInv, Moves
  PROVE  [Promise!Next]_status
<1> USE DEF Promise!Tasks, Tasks
<1>0. /\ \A t \in Tasks : status[t] = IF answers[t] # << >> THEN answers[t][1]
                                      ELSE IF t < next THEN "pending" ELSE "new"
      /\ status = [t \in Tasks |-> status[t]]
      /\ \A t \in Tasks : status'[t] = IF answers'[t] # << >> THEN answers'[t][1]
                                       ELSE IF t < next' THEN "pending" ELSE "new"
      /\ status' = [t \in Tasks |-> status'[t]]
  BY DEF status
<1>a. "pending" # "new" /\ "new" \notin Reasons
  BY DEF Reasons, Inspected, QueueLimit, DeadlineExceeded
<1>b. \A t \in Tasks : answers[t] # << >> => answers[t][1] \in Reasons
  <2> SUFFICES ASSUME NEW t \in Tasks, answers[t] # << >> PROVE answers[t][1] \in Reasons
    OBVIOUS
  <2>1. answers[t] \in Seq(Reasons)
    BY DEF PoolInv, TypeOK
  <2>2. Len(answers[t]) >= 1
    BY <2>1
  <2> QED
    BY <2>1, <2>2
<1>1. ASSUME UNCHANGED << answers, next >> PROVE status' = status
  BY <1>1 DEF status
<1>2. CASE Bring /\ next <= NumTasks
  <2>1. next \in Tasks /\ next \in Nat /\ next' = next + 1 /\ answers' = answers
    BY <1>2 DEF Bring, PoolInv, TypeOK
  <2>2. answers[next] = << >>
    BY <2>1 DEF PoolInv, ExactlyOnce
  <2>3. status[next] = "new" /\ status'[next] = "pending"
    BY <1>0, <2>1, <2>2
  <2>4. \A u \in Tasks : u # next => status'[u] = status[u]
    BY <1>0, <2>1
  <2>5. \A u \in Tasks : u < next => status[u] # "new"
    BY <1>0, <1>a, <1>b
  <2>6. status' = [status EXCEPT ![next] = "pending"]
    BY <1>0, <2>3, <2>4, Zenon
  <2>7. Promise!Receive(next)
    BY <2>3, <2>5, <2>6 DEF Promise!Receive
  <2> QED
    BY <2>1, <2>7 DEF Promise!Next
<1>3. ASSUME NEW th \in Threads, NEW t \in Tasks, NEW reason \in Reasons,
             AnswerOut(th, t, reason)
      PROVE  Promise!Next
  <2>1. /\ answers[t] = << >> /\ t < next
        /\ answers'[t] = << reason >>
        /\ \A u \in Tasks : u # t => answers'[u] = answers[u]
    BY <1>3, FirstAnswer
  <2>2. << reason >> # << >> /\ << reason >>[1] = reason /\ next' = next
    BY <1>3 DEF AnswerOut
  <2>3. status[t] = "pending" /\ status'[t] = reason
    BY <1>0, <2>1, <2>2
  <2>4. \A u \in Tasks : u # t => status'[u] = status[u]
    BY <1>0, <2>1, <2>2
  <2>5. status' = [status EXCEPT ![t] = reason]
    BY <1>0, <2>3, <2>4, Zenon
  <2>6. Promise!Answer(t)
    BY <2>3, <2>5 DEF Promise!Answer
  <2> QED
    BY <2>6 DEF Promise!Next
<1> QED
  BY <1>1, <1>2, <1>3 DEF Moves, Take, PutIn

(* The pool implements the safety part of Answering: messages are received *)
(* in order, and each is answered once, with one reason, out of its        *)
(* pending state.  (That the answer comes at all is left to TLC.)          *)
THEOREM RefinesAnswering == Spec => Promise!Init /\ [][Promise!Next]_status
<1>1. Init => Promise!Init
  BY DEF Init, Promise!Init, status, Promise!Tasks, Tasks
<1>2. PoolInv /\ [Next]_vars => [Promise!Next]_status
  BY NextMoves, MovesRefine
<1>3. QED
  BY <1>1, <1>2, PoolInvariant, PTL DEF Spec
-----------------------------------------------------------------------------
InspectedTasks == {t \in Tasks : answers[t] = << Inspected >>}
InHandTasks == {t \in Tasks : \E th \in Threads : InHand(th, t)}

(* What Conservation counts are finite sets of tasks. *)
LEMMA CountedSets ==
  ASSUME TypeOK
  PROVE  /\ IsFiniteSet(q) /\ Cardinality(q) \in Nat
         /\ IsFiniteSet(InspectedTasks) /\ Cardinality(InspectedTasks) \in Nat
         /\ IsFiniteSet(InHandTasks) /\ Cardinality(InHandTasks) \in Nat
<1>1. InspectedTasks \subseteq Tasks /\ InHandTasks \subseteq Tasks /\ q \subseteq Tasks
  BY DEF InspectedTasks, InHandTasks, TypeOK
<1> QED
  BY <1>1, TasksFinite

(* One element more, one element less. *)
LEMMA OneMore ==
  ASSUME NEW S, IsFiniteSet(S), NEW x, x \notin S
  PROVE  Cardinality(S \union {x}) = Cardinality(S) + 1
  BY FS_AddElement

(* A set is one more than the set without one of its elements. *)
LEMMA OneLess ==
  ASSUME NEW S, IsFiniteSet(S), NEW x \in S
  PROVE  Cardinality(S \ {x}) + 1 = Cardinality(S)
<1>1. IsFiniteSet(S \ {x}) /\ Cardinality(S \ {x}) \in Nat
  BY FS_Subset, FS_CardinalityType
<1>2. (S \ {x}) \union {x} = S
  OBVIOUS
<1> QED
  BY <1>1, <1>2, OneMore

(* Whole sets that change places. *)
LEMMA MoveOver ==
  ASSUME NEW A, NEW B, NEW S, IsFiniteSet(A), IsFiniteSet(B), S \subseteq A, A \cap B = {}
  PROVE  Cardinality(A \ S) + Cardinality(B \union S) = Cardinality(A) + Cardinality(B)
<1>1. IsFiniteSet(S) /\ IsFiniteSet(A \ S)
  BY FS_Subset
<1>2. /\ Cardinality(S) \in Nat /\ Cardinality(A \ S) \in Nat
      /\ Cardinality(B) \in Nat /\ Cardinality(A) \in Nat
  BY <1>1, FS_CardinalityType
<1>3. Cardinality(A) = Cardinality(A \ S) + Cardinality(S)
  <2>1. A = (A \ S) \union S /\ (A \ S) \cap S = {}
    OBVIOUS
  <2>2. Cardinality((A \ S) \union S) = Cardinality(A \ S) + Cardinality(S) - Cardinality((A \ S) \cap S)
    BY <1>1, FS_Union
  <2>3. Cardinality((A \ S) \union S) = Cardinality(A) /\ Cardinality((A \ S) \cap S) = 0
    BY <2>1, FS_EmptySet
  <2> QED
    BY <1>2, <2>2, <2>3
<1>4. Cardinality(B \union S) = Cardinality(B) + Cardinality(S)
  <2>1. B \cap S = {}
    OBVIOUS
  <2>2. Cardinality(B \union S) = Cardinality(B) + Cardinality(S) - Cardinality(B \cap S)
    BY <1>1, FS_Union
  <2> QED
    BY <1>2, <2>1, <2>2, FS_EmptySet
<1> QED
  BY <1>2, <1>3, <1>4

(* A move leaves the balance as it is. *)
LEMMA MovesBalance ==
  ASSUME PoolInv, Balanced, Moves
  PROVE  Balanced'
<1> DEFINE i == Cardinality(InspectedTasks)
           h == Cardinality(InHandTasks)
           c == Cardinality(q)
<1>a. /\ IsFiniteSet(q) /\ IsFiniteSet(InspectedTasks) /\ IsFiniteSet(InHandTasks)
      /\ c \in Nat /\ i \in Nat /\ h \in Nat
      /\ Shed \in Nat /\ Expired \in Nat /\ next \in Nat
  BY CountedSets, PoolAssumption DEF PoolInv, TypeOK
<1>b. next - 1 = i + Shed + Expired + c + h
  BY DEF Balanced, InspectedTasks, InHandTasks
<1>c. SUFFICES next' - 1 = Cardinality(InspectedTasks') + Shed' + Expired'
                           + Cardinality(q') + Cardinality(InHandTasks')
  BY DEF Balanced, InspectedTasks, InHandTasks
<1>1. ASSUME NEW th \in Threads, NEW S \in SUBSET q, Take(th, S), Uncounted
      PROVE  next' - 1 = Cardinality(InspectedTasks') + Shed' + Expired'
                         + Cardinality(q') + Cardinality(InHandTasks')
  <2>1. InspectedTasks' = InspectedTasks /\ q' = q \ S /\ next' = next
    BY <1>1 DEF InspectedTasks, Take
  <2>2. InHandTasks' = InHandTasks \union S
    <3>1. S \subseteq Tasks
      BY DEF PoolInv, TypeOK
    <3> QED
      BY <1>1, <3>1 DEF InHandTasks, Take
  <2>3. q \cap InHandTasks = {}
    BY DEF InHandTasks, PoolInv, ExactlyOnce
  <2>4. Cardinality(q \ S) + Cardinality(InHandTasks \union S) = c + h
    BY <1>a, <2>3, MoveOver
  <2>5. Cardinality(q \ S) \in Nat /\ Cardinality(InHandTasks \union S) \in Nat
    <3>1. q \ S \subseteq Tasks /\ InHandTasks \union S \subseteq Tasks
      BY DEF PoolInv, TypeOK, InHandTasks
    <3> QED
      BY <3>1, TasksFinite
  <2> HIDE DEF i, h, c
  <2> QED
    BY <1>a, <1>b, <1>1, <2>1, <2>2, <2>4, <2>5 DEF Uncounted, i
<1>2. ASSUME Bring, next <= NumTasks, Uncounted
      PROVE  next' - 1 = Cardinality(InspectedTasks') + Shed' + Expired'
                         + Cardinality(q') + Cardinality(InHandTasks')
  <2>1. InspectedTasks' = InspectedTasks /\ q' = q /\ next' = next + 1
    BY <1>2 DEF InspectedTasks, Bring
  <2>2. next \in Tasks /\ Submitter \in Threads
    BY <1>2, PoolAssumption DEF PoolInv, TypeOK, Tasks, Threads
  <2>3. InHandTasks' = InHandTasks \union {next}
    BY <1>2, <2>2 DEF InHandTasks, Bring
  <2>4. next \notin InHandTasks
    BY <1>a DEF InHandTasks, PoolInv, ExactlyOnce
  <2>5. Cardinality(InHandTasks') = h + 1
    BY <1>a, <2>3, <2>4, OneMore
  <2> HIDE DEF h
  <2> QED
    BY <1>a, <1>b, <1>2, <2>1, <2>5 DEF Uncounted
<1>3. ASSUME NEW th \in Threads, NEW t \in Tasks, NEW reason \in Reasons,
             AnswerOut(th, t, reason), Counted(reason)
      PROVE  next' - 1 = Cardinality(InspectedTasks') + Shed' + Expired'
                         + Cardinality(q') + Cardinality(InHandTasks')
  <2>1. q' = q /\ next' = next /\ InHand(th, t)
    BY <1>3 DEF AnswerOut
  <2>2. /\ answers[t] = << >>
        /\ answers'[t] = << reason >>
        /\ \A u \in Tasks : u # t => answers'[u] = answers[u]
    BY <1>3, FirstAnswer
  <2>3. InHandTasks' = InHandTasks \ {t}
    <3>1. \A o \in Threads : InHand(o, t) => o = th
      BY <2>1 DEF PoolInv, ExactlyOnce
    <3>2. \A o \in Threads, u \in Tasks : InHand(o, u)' <=> InHand(o, u) /\ ~(o = th /\ u = t)
      BY <1>3 DEF AnswerOut
    <3> QED
      BY <3>1, <3>2 DEF InHandTasks
  <2>4. t \in InHandTasks
    BY <2>1 DEF InHandTasks
  <2>5. h = Cardinality(InHandTasks') + 1 /\ Cardinality(InHandTasks') \in Nat
    <3>1. InHandTasks \ {t} \subseteq Tasks
      BY DEF InHandTasks
    <3> QED
      BY <1>a, <2>3, <2>4, <3>1, OneLess, TasksFinite
  <2>6. CASE reason = Inspected
    <3>1. InspectedTasks' = InspectedTasks \union {t}
      <4>1. \A u \in Tasks : u \in InspectedTasks' <=> u = t \/ u \in InspectedTasks
        BY <2>2, <2>6 DEF InspectedTasks
      <4> QED
        BY <4>1 DEF InspectedTasks
    <3>2. t \notin InspectedTasks
      <4>1. << >> # << Inspected >>
        OBVIOUS
      <4> QED
        BY <2>2, <4>1 DEF InspectedTasks
    <3>3. Cardinality(InspectedTasks') = i + 1
      BY <1>a, <3>1, <3>2, OneMore
    <3>4. Shed' = Shed /\ Expired' = Expired
      BY <1>3, <2>6, ReasonsDiffer DEF Counted
    <3> HIDE DEF i, h
    <3> QED
      BY <1>a, <1>b, <2>1, <2>5, <3>3, <3>4
  <2>7. CASE reason # Inspected
    <3>1. << reason >> # << Inspected >> /\ << >> # << Inspected >>
      BY <2>7
    <3>2. InspectedTasks' = InspectedTasks
      BY <2>2, <3>1 DEF InspectedTasks
    <3>3. Cardinality(InspectedTasks') = i /\ Cardinality(q') = c
      BY <2>1, <3>2
    <3> HIDE DEF i, h, c
    <3>4. CASE reason = QueueLimit
      <4>1. Shed' = Shed + 1 /\ Expired' = Expired
        BY <1>3, <3>4, ReasonsDiffer DEF Counted
      <4> QED
        BY <1>a, <1>b, <2>1, <2>5, <3>3, <4>1
    <3>5. CASE reason = DeadlineExceeded
      <4>1. Shed' = Shed /\ Expired' = Expired + 1
        BY <1>3, <3>5, ReasonsDiffer DEF Counted
      <4> QED
        BY <1>a, <1>b, <2>1, <2>5, <3>3, <4>1
    <3> QED
      BY <2>7, <3>4, <3>5 DEF Reasons
  <2> QED
    BY <2>6, <2>7
<1>4. ASSUME NEW t \in Tasks, PutIn(t), Uncounted
      PROVE  next' - 1 = Cardinality(InspectedTasks') + Shed' + Expired'
                         + Cardinality(q') + Cardinality(InHandTasks')
  <2>1. /\ InspectedTasks' = InspectedTasks /\ q' = q \union {t} /\ next' = next
        /\ InHand(Submitter, t) /\ Submitter \in Threads
    BY <1>4 DEF InspectedTasks, PutIn, Threads
  <2>2. InHandTasks' = InHandTasks \ {t}
    <3>1. \A o \in Threads : InHand(o, t) => o = Submitter
      BY <2>1 DEF PoolInv, ExactlyOnce
    <3>2. \A o \in Threads, u \in Tasks :
             InHand(o, u)' <=> InHand(o, u) /\ ~(o = Submitter /\ u = t)
      BY <1>4 DEF PutIn
    <3> QED
      BY <3>1, <3>2 DEF InHandTasks
  <2>3. t \in InHandTasks /\ t \notin q
    BY <2>1 DEF InHandTasks, PoolInv, ExactlyOnce
  <2>4. h = Cardinality(InHandTasks') + 1 /\ Cardinality(InHandTasks') \in Nat
    <3>1. InHandTasks \ {t} \subseteq Tasks
      BY DEF InHandTasks
    <3> QED
      BY <1>a, <2>2, <2>3, <3>1, OneLess, TasksFinite
  <2>5. Cardinality(q') = c + 1
    BY <1>a, <2>1, <2>3, OneMore
  <2> HIDE DEF h, c
  <2> QED
    BY <1>a, <1>b, <1>4, <2>1, <2>4, <2>5 DEF Uncounted
<1> QED
  BY <1>1, <1>2, <1>3, <1>4 DEF Moves

(* What has become of the calls of Submit that have returned.              *)
Booked == Accepted + Shed <= Submitted /\ Submitted <= Accepted + Shed + Expired

(* A call of Submit ends with one of the three counters; what expires      *)
(* outside one only adds to Expired.                                       *)
LEMMA BookedNext ==
  ASSUME TypeOK, Shape, Booked, [Next]_vars
  PROVE  Booked'
<1>a. /\ Accepted \in Nat /\ Shed \in Nat /\ Expired \in Nat /\ next \in Nat
      /\ Submitted \in Int
  BY PoolAssumption DEF TypeOK, Submitted
<1>b. /\ DOMAIN pc = Threads /\ Submitter \in Threads /\ Sweeper \in Threads
      /\ Sweeper # Submitter
      /\ \A w \in Workers : w \in Threads /\ w # Submitter
  BY PoolAssumption DEF TypeOK, Threads
<1>1. ASSUME UNCHANGED << next, Accepted, Shed >>, Expired' = Expired \/ Expired' = Expired + 1,
             pc'[Submitter] = "idle" <=> pc[Submitter] = "idle"
      PROVE  Booked'
  <2>1. Submitted' = Submitted
    BY <1>1 DEF Submitted
  <2> QED
    BY <1>1, <1>a, <2>1 DEF Booked
<1>2. ASSUME pc[Submitter] # "idle", pc'[Submitter] = "idle", UNCHANGED next,
             \/ Accepted' = Accepted + 1 /\ UNCHANGED << Shed, Expired >>
             \/ Shed' = Shed + 1 /\ UNCHANGED << Accepted, Expired >>
             \/ Expired' = Expired + 1 /\ UNCHANGED << Accepted, Shed >>
      PROVE  Booked'
  <2>1. Submitted' = Submitted + 1
    BY <1>2, <1>a DEF Submitted
  <2> QED
    BY <1>2, <1>a, <2>1 DEF Booked
<1>3. CASE Receive
  <2>1. /\ pc[Submitter] = "idle" /\ pc'[Submitter] = "check" /\ next' = next + 1
        /\ UNCHANGED << Accepted, Shed, Expired >>
    BY <1>3, <1>b DEF Receive, GoOn
  <2>2. Submitted' = Submitted
    BY <1>a, <2>1 DEF Submitted
  <2> QED
    BY <2>1, <2>2 DEF Booked
<1>4. CASE SubmitLate \/ SubmitClosed \/ SubmitWaitLate \/ WaitGivesUp
  <2>1. /\ pc[Submitter] # "idle" /\ pc'[Submitter] = "idle" /\ UNCHANGED next
        /\ Expired' = Expired + 1 /\ UNCHANGED << Accepted, Shed >>
    BY <1>4, <1>b DEF SubmitLate, SubmitClosed, SubmitWaitLate, Admit, WaitGivesUp, Rewait, expire,
                      GoOn
  <2> QED
    BY <1>2, <2>1
<1>5. CASE SubmitRoom \/ WaitRoom
  <2>1. /\ pc[Submitter] # "idle" /\ pc'[Submitter] = "idle" /\ UNCHANGED next
        /\ Accepted' = Accepted + 1 /\ UNCHANGED << Shed, Expired >>
    BY <1>5, <1>b DEF SubmitRoom, Admit, WaitRoom, Rewait, enqueueLocked, GoOn
  <2> QED
    BY <1>2, <2>1
<1>6. CASE SubmitShed
  <2>1. /\ pc[Submitter] # "idle" /\ pc'[Submitter] = "idle" /\ UNCHANGED next
        /\ Shed' = Shed + 1 /\ UNCHANGED << Accepted, Expired >>
    BY <1>6, <1>b DEF SubmitShed, Admit, shedLimit, GoOn
  <2> QED
    BY <1>2, <2>1
<1>7. CASE SubmitInTime \/ SubmitCollect
  <2>1. /\ pc[Submitter] # "idle" /\ pc'[Submitter] # "idle"
        /\ UNCHANGED << next, Accepted, Shed, Expired >>
    BY <1>7, <1>b DEF SubmitInTime, SubmitCollect, HoldDead, GoOn
  <2> QED
    BY <1>1, <2>1
<1>8. CASE SubmitWait \/ WaitAgain
  <2>1. /\ pc[Submitter] # "idle" /\ pc'[Submitter] # "idle"
        /\ UNCHANGED << next, Accepted, Shed, Expired >>
    BY <1>8, <1>b DEF SubmitWait, Admit, WaitAgain, Rewait, WaitBody, HoldDead, GoOn
  <2> QED
    BY <1>1, <2>1
<1>9. ASSUME NEW th \in Threads, ReplyDead(th)
      PROVE  Booked'
  <2>1. /\ UNCHANGED << next, Accepted, Shed >> /\ Expired' = Expired + 1
    BY <1>9 DEF ReplyDead, expire
  <2>2. pc'[Submitter] = "idle" <=> pc[Submitter] = "idle"
    <3>1. CASE th = Submitter
      <4>1. pc[Submitter] = "reply" /\ resume[Submitter] \in {"admit", "wait"}
        BY <1>9, <3>1 DEF ReplyDead, Shape
      <4>2. pc'[Submitter] \in {"reply", resume[Submitter]}
        BY <1>9, <1>b, <3>1 DEF ReplyDead
      <4> QED
        BY <4>1, <4>2
    <3>2. CASE th # Submitter
      BY <1>9, <1>b, <3>2 DEF ReplyDead
    <3> QED
      BY <3>1, <3>2
  <2> QED
    BY <1>1, <2>1, <2>2
<1>10. ASSUME NEW w \in Workers,
              \/ PopTask(w) \/ PopClosed(w) \/ PopDead(w) \/ PopWait(w)
              \/ BudgetLate(w) \/ BudgetInTime(w) \/ Handle(w)
       PROVE  Booked'
  <2>1. /\ UNCHANGED << next, Accepted, Shed >> /\ (Expired' = Expired \/ Expired' = Expired + 1)
        /\ pc'[Submitter] = pc[Submitter]
    BY <1>10, <1>b DEF PopTask, PopClosed, PopDead, PopWait, BudgetLate, BudgetInTime, Handle,
                       expire, HoldDead, GoOn
  <2> QED
    BY <1>1, <2>1
<1>11. CASE SweepTick \/ SweepStop
  <2>1. /\ UNCHANGED << next, Accepted, Shed, Expired >> /\ pc'[Submitter] = pc[Submitter]
    BY <1>11, <1>b DEF SweepTick, SweepStop, HoldDead, GoOn
  <2> QED
    BY <1>1, <2>1
<1>12. CASE \/ \E t \in Tasks : TimerStep(t)
            \/ CloseStop \/ CloseStep \/ Tick \/ Terminated \/ UNCHANGED vars
  <2>1. UNCHANGED << next, Accepted, Shed, Expired, pc >>
    BY <1>12 DEF TimerStep, TimerStart, TimerFire, CloseStop, CloseStep, CloseQueue, CloseReturn,
                 Tick, Terminated, vars
  <2> QED
    BY <1>1, <2>1
<1> QED
  BY <1>3, <1>4, <1>5, <1>6, <1>7, <1>8, <1>9, <1>10, <1>11, <1>12, <1>b
     DEF Next, SubmitterStep, WorkerStep, SweeperStep

(* The counters account for every message throughout: as inspected, shed,  *)
(* expired, queued or held, counted once; and as accepted, shed or expired *)
(* when its Submit returned.                                               *)
THEOREM CountersAddUp == Spec => []Conservation
<1>1. Init => PoolInv /\ Balanced /\ Booked
  <2> SUFFICES ASSUME Init PROVE Balanced /\ Booked
    BY InitShape, InitOnce DEF PoolInv
  <2>1. q = {} /\ next = 1 /\ Accepted = 0 /\ Shed = 0 /\ Expired = 0
    BY DEF Init
  <2>2. \A t \in Tasks : answers[t] = << >> /\ \A th \in Threads : ~InHand(th, t)
    <3>1. ExactlyOnce
      BY InitOnce
    <3>2. \A t \in Tasks : answers[t] = << >> /\ ~(t < next)
      BY <2>1 DEF Init, Tasks
    <3> QED
      BY <3>1, <3>2 DEF ExactlyOnce
  <2>3. << >> # << Inspected >>
    OBVIOUS
  <2>4. /\ {t \in Tasks : answers[t] = << Inspected >>} = {}
        /\ {t \in Tasks : \E th \in Threads : InHand(th, t)} = {}
    BY <2>2, <2>3
  <2>5. Balanced
    BY <2>1, <2>4, FS_EmptySet DEF Balanced
  <2>6. pc[Submitter] = "idle"
    BY PoolAssumption DEF Init, Threads
  <2>7. Booked
    BY <2>1, <2>6 DEF Booked, Submitted
  <2> QED
    BY <2>5, <2>7
<1>2. PoolInv /\ Balanced /\ Booked /\ [Next]_vars => PoolInv' /\ Balanced' /\ Booked'
  BY NextInv, NextMoves, MovesBalance, BookedNext DEF PoolInv
<1>3. Balanced /\ Booked => Conservation
  BY DEF Conservation, Booked
<1>4. QED
  BY <1>1, <1>2, <1>3, PTL DEF Spec
-----------------------------------------------------------------------------
(***************************************************************************)
(* NoPrematureExpiry.  A task may sit in a thread's hands, or its timer's  *)
(* callback may wait for the lock, long after the clock was read.  What    *)
(* was overdue then is overdue still, because what is left of a deadline   *)
(* only shrinks; Overdue says so.                                          *)
(***************************************************************************)
Ringing == {"running", "fired"}

Overdue ==
    /\ \A th \in Threads : \A t \in dead[th] : Late(t)
    /\ \A t \in Tasks : timer[t] \in Ringing => leftAt(t) <= 0
    /\ \A t \in Tasks : timer[t] # "off" => t < next

(* Time passes: nothing gains time once it is received. *)
LEMMA Aging ==
  ASSUME PoolInv, [Next]_vars
  PROVE  \A t \in Tasks : t < next => leftAt(t)' <= leftAt(t) /\ t < next'
<1> SUFFICES ASSUME NEW t \in Tasks, t < next PROVE leftAt(t)' <= leftAt(t) /\ t < next'
  OBVIOUS
<1>0. /\ now \in Nat /\ next \in Nat /\ deadline[t] \in Nat /\ enqueued[t] \in Nat /\ t \in Nat
      /\ deadline \in [Tasks -> Nat] /\ enqueued \in [Tasks -> Nat] /\ Reserve \in Nat
  BY PoolAssumption DEF PoolInv, TypeOK, Tasks
<1>1. CASE Receive
  <2>1. deadline'[t] = deadline[t] /\ enqueued'[t] = enqueued[t] /\ now' = now /\ next' = next + 1
    BY <1>0, <1>1 DEF Receive
  <2> QED
    BY <1>0, <2>1 DEF leftAt
<1>2. CASE UNCHANGED messages /\ (now' = now \/ now' = now + 1)
  BY <1>0, <1>2 DEF leftAt
<1>3. CASE SubmitterStep
  BY <1>2, <1>3 DEF SubmitterStep, SubmitLate, SubmitInTime, SubmitCollect, SubmitClosed, SubmitRoom,
     SubmitShed, SubmitWaitLate, SubmitWait, WaitAgain, WaitRoom, WaitGivesUp, ReplyDead
<1>4. ASSUME NEW w \in Workers, WorkerStep(w) \/ Handle(w)
      PROVE  UNCHANGED messages /\ now' = now
  BY <1>4 DEF WorkerStep, PopTask, PopClosed, PopDead, PopWait, BudgetLate, BudgetInTime,
     ReplyDead, Handle
<1>5. CASE SweeperStep
  BY <1>2, <1>5 DEF SweeperStep, SweepTick, SweepStop, ReplyDead
<1>6. ASSUME NEW u \in Tasks, TimerStep(u)
      PROVE  UNCHANGED messages /\ now' = now
  BY <1>6 DEF TimerStep, TimerStart, TimerFire
<1>7. CASE CloseStop \/ CloseStep
  BY <1>2, <1>7 DEF CloseStop, CloseStep, CloseQueue, CloseReturn
<1>8. CASE Tick
  BY <1>2, <1>8 DEF Tick
<1>9. CASE UNCHANGED vars
  BY <1>2, <1>9 DEF vars
<1> QED
  BY <1>1, <1>2, <1>3, <1>4, <1>5, <1>6, <1>7, <1>8, <1>9 DEF Next, Terminated

(* Only expired tasks are added to what a thread has to answer. *)
LEMMA DeadGrows ==
  ASSUME PoolInv, [Next]_vars
  PROVE  \A th \in Threads : dead'[th] \subseteq dead[th] \union ExpiredTasks
<1>0. dead \in [Threads -> SUBSET Tasks] /\ Workers \subseteq Threads
      /\ Submitter \in Threads /\ Sweeper \in Threads
  BY DEF PoolInv, TypeOK, Threads
<1>1. CASE dead' = dead
  BY <1>1
<1>2. ASSUME NEW o \in Threads, dead' = [dead EXCEPT ![o] = ExpiredTasks]
      PROVE  \A th \in Threads : dead'[th] \subseteq dead[th] \union ExpiredTasks
  BY <1>0, <1>2
<1>3. ASSUME NEW o \in Threads, ReplyDead(o)
      PROVE  \A th \in Threads : dead'[th] \subseteq dead[th] \union ExpiredTasks
  BY <1>0, <1>3 DEF ReplyDead
<1>4. CASE Receive
  BY <1>1, <1>4 DEF Receive
<1>5. CASE SubmitterStep
  <2>1. CASE ReplyDead(Submitter)
    BY <1>0, <1>3, <2>1
  <2>2. CASE SubmitLate \/ SubmitInTime \/ SubmitClosed \/ SubmitRoom \/ SubmitShed
             \/ SubmitWaitLate \/ WaitRoom \/ WaitGivesUp
    BY <1>1, <2>2 DEF SubmitLate, SubmitInTime, SubmitClosed, SubmitRoom, SubmitShed,
       SubmitWaitLate, WaitRoom, WaitGivesUp
  <2>3. CASE SubmitCollect
    BY <1>0, <1>2, <2>3 DEF SubmitCollect, HoldDead
  <2>4. CASE SubmitWait \/ WaitAgain
    <3>1. WaitBody
      BY <2>4 DEF SubmitWait, WaitAgain
    <3>2. dead' = dead \/ dead' = [dead EXCEPT ![Submitter] = ExpiredTasks]
      BY <3>1 DEF WaitBody, HoldDead
    <3> QED
      BY <1>0, <1>1, <1>2, <3>2
  <2> QED
    BY <1>5, <2>1, <2>2, <2>3, <2>4 DEF SubmitterStep
<1>6. ASSUME NEW w \in Workers, WorkerStep(w) \/ Handle(w)
      PROVE  \A th \in Threads : dead'[th] \subseteq dead[th] \union ExpiredTasks
  <2>1. CASE ReplyDead(w)
    BY <1>0, <1>3, <2>1
  <2>2. CASE PopWait(w) \/ BudgetLate(w) \/ BudgetInTime(w) \/ Handle(w)
    BY <1>1, <2>2 DEF PopWait, BudgetLate, BudgetInTime, Handle
  <2>3. CASE PopTask(w) \/ PopClosed(w) \/ PopDead(w)
    BY <1>0, <1>2, <2>3 DEF PopTask, PopClosed, PopDead, HoldDead
  <2> QED
    BY <1>6, <2>1, <2>2, <2>3 DEF WorkerStep
<1>7. CASE SweeperStep
  BY <1>0, <1>1, <1>2, <1>3, <1>7 DEF SweeperStep, SweepTick, SweepStop, HoldDead
<1>8. ASSUME NEW u \in Tasks, TimerStep(u) PROVE dead' = dead
  BY <1>8 DEF TimerStep, TimerStart, TimerFire
<1>9. CASE CloseStop \/ CloseStep \/ Tick \/ UNCHANGED vars
  BY <1>1, <1>9 DEF CloseStop, CloseStep, CloseQueue, CloseReturn, Tick, vars
<1> QED
  BY <1>1, <1>4, <1>5, <1>6, <1>7, <1>8, <1>9 DEF Next, Terminated

(* A timer rings only when its own task has no time left, and only for a   *)
(* task that Submit has received.                                          *)
LEMMA TimersRing ==
  ASSUME PoolInv, [Next]_vars
  PROVE  \A t \in Tasks :
            /\ timer'[t] \in Ringing => timer[t] \in Ringing \/ leftAt(t) <= 0
            /\ timer'[t] # "off" => timer[t] # "off" \/ t < next
<1> DEFINE P == \A t \in Tasks :
                   /\ timer'[t] \in Ringing => timer[t] \in Ringing \/ leftAt(t) <= 0
                   /\ timer'[t] # "off" => timer[t] # "off" \/ t < next
<1>0. /\ timer \in [Tasks -> {"off", "armed", "running", "fired"}]
      /\ next \in Nat
      /\ pc[Submitter] # "idle" => Current \in Tasks /\ Current < next
  BY HeldTasks, PoolAssumption DEF PoolInv, TypeOK, Current
<1>1. CASE timer' = timer
  BY <1>1
<1>2. CASE TimerStop /\ pc[Submitter] # "idle"
  BY <1>0, <1>2 DEF TimerStop, Ringing
<1>3. CASE SubmitterStep
  <2>1. CASE WaitRoom \/ WaitGivesUp
    BY <1>2, <2>1 DEF WaitRoom, WaitGivesUp, Rewait
  <2>2. CASE SubmitWait
    <3>1. pc[Submitter] = "admit" /\ timer' = [timer EXCEPT ![Current] = "armed"]
      BY <2>2 DEF SubmitWait, Admit
    <3> QED
      BY <1>0, <3>1 DEF Ringing
  <2>3. CASE ~(WaitRoom \/ WaitGivesUp \/ SubmitWait)
    BY <1>1, <1>3, <2>3 DEF SubmitterStep, SubmitLate, SubmitInTime, SubmitCollect, SubmitClosed,
       SubmitRoom, SubmitShed, SubmitWaitLate, WaitAgain, ReplyDead
  <2> QED
    BY <2>1, <2>2, <2>3
<1>4. ASSUME NEW w \in Workers, WorkerStep(w) \/ Handle(w) PROVE timer' = timer
  BY <1>4 DEF WorkerStep, PopTask, PopClosed, PopDead, PopWait, BudgetLate, BudgetInTime,
     ReplyDead, Handle
<1>5. ASSUME NEW u \in Tasks, TimerStep(u) PROVE P
  <2>1. CASE TimerStart(u)
    BY <1>0, <2>1 DEF TimerStart, Ringing
  <2>2. CASE TimerFire(u)
    BY <1>0, <2>2 DEF TimerFire, Ringing
  <2> QED
    BY <1>5, <2>1, <2>2 DEF TimerStep
<1>6. CASE Receive \/ SweeperStep \/ CloseStop \/ CloseStep \/ Tick \/ UNCHANGED vars
  BY <1>1, <1>6 DEF Receive, SweeperStep, SweepTick, SweepStop, ReplyDead, CloseStop, CloseStep,
     CloseQueue, CloseReturn, Tick, vars
<1> QED
  BY <1>1, <1>3, <1>4, <1>5, <1>6 DEF Next, Terminated

(* What is overdue stays overdue. *)
LEMMA NextOverdue == PoolInv /\ Overdue /\ [Next]_vars => Overdue'
<1> SUFFICES ASSUME PoolInv, Overdue, [Next]_vars PROVE Overdue'
  OBVIOUS
<1>0. \A t \in Tasks : leftAt(t) \in Int /\ leftAt(t)' \in Int
  <2>1. TypeOK'
    BY NextType DEF PoolInv
  <2>2. \A t \in Tasks : /\ deadline[t] \in Nat /\ enqueued[t] \in Nat /\ now \in Nat
                         /\ deadline'[t] \in Nat /\ enqueued'[t] \in Nat /\ now' \in Nat
    BY <2>1 DEF PoolInv, TypeOK
  <2> QED
    BY <2>2, PoolAssumption DEF leftAt
<1>1. \A t \in Tasks : t < next => leftAt(t)' <= leftAt(t) /\ t < next'
  BY Aging
<1>2. ASSUME NEW th \in Threads, NEW t \in dead'[th] PROVE Late(t)'
  <2>1. t \in dead[th] \union ExpiredTasks
    BY <1>2, DeadGrows
  <2>2. t \in Tasks /\ t < next
    <3>1. CASE t \in dead[th]
      <4>1. InHand(th, t) /\ t \in Tasks
        BY <3>1 DEF InHand, PoolInv, TypeOK
      <4> QED
        BY <4>1 DEF PoolInv, ExactlyOnce
    <3>2. CASE t \in ExpiredTasks
      BY <3>2 DEF ExpiredTasks, PoolInv, TypeOK, ExactlyOnce
    <3> QED
      BY <2>1, <3>1, <3>2
  <2>3. leftAt(t) < MinBudget
    BY <2>1 DEF Overdue, Late, ExpiredTasks
  <2> QED
    BY <1>0, <1>1, <2>2, <2>3, PoolAssumption DEF Late
<1>3. ASSUME NEW t \in Tasks, timer'[t] \in Ringing PROVE leftAt(t)' <= 0
  <2>1. leftAt(t) <= 0
    BY <1>3, TimersRing DEF Overdue
  <2>2. t < next
    BY <1>3, TimersRing DEF Overdue, Ringing
  <2> QED
    BY <1>0, <1>1, <2>1, <2>2
<1>4. ASSUME NEW t \in Tasks, timer'[t] # "off" PROVE t < next'
  BY <1>1, <1>4, TimersRing DEF Overdue
<1> QED
  BY <1>2, <1>3, <1>4 DEF Overdue

(* A task is told that its deadline is exceeded only when it is, or when   *)
(* the pool is closed, whoever answers and however late.                   *)
LEMMA ExpiryIsDue ==
  ASSUME PoolInv, Overdue, [Next]_vars, NEW t \in Tasks, answers'[t] # answers[t],
         Len(answers'[t]) > 0, answers'[t][Len(answers'[t])] = DeadlineExceeded
  PROVE  Late(t) \/ leftAt(t) <= 0 \/ closed
<1>0. answers \in [Tasks -> Seq(Reasons)]
  BY DEF PoolInv, TypeOK
<1>1. ASSUME NEW u \in Tasks, expire(u) PROVE t = u
  BY <1>0, <1>1 DEF expire, Answered
<1>2. ASSUME NEW u \in Tasks, NEW reason \in Reasons, Answered(u, reason), reason # DeadlineExceeded
      PROVE  FALSE
  <2>1. t = u
    BY <1>0, <1>2 DEF Answered
  <2>2. answers'[t] = Append(answers[t], reason) /\ answers[t] \in Seq(Reasons)
    BY <1>0, <1>2, <2>1 DEF Answered
  <2>3. answers'[t][Len(answers'[t])] = reason
    BY <2>2
  <2> QED
    BY <1>2, <2>3
<1>3. pc[Submitter] # "idle" => Current \in Tasks
  BY HeldTasks DEF PoolInv
<1>4. ASSUME NEW th \in Threads, ReplyDead(th) PROVE Late(t)
  <2>1. PICK u \in dead[th] : expire(u)
    BY <1>4 DEF ReplyDead
  <2>2. u \in Tasks
    BY DEF PoolInv, TypeOK
  <2> QED
    BY <1>1, <2>1, <2>2 DEF Overdue
<1>5. CASE SubmitLate \/ SubmitWaitLate
  BY <1>1, <1>3, <1>5 DEF SubmitLate, SubmitWaitLate, Admit
<1>6. CASE SubmitClosed
  BY <1>6 DEF SubmitClosed
<1>7. CASE SubmitShed
  BY <1>2, <1>3, <1>7, ReasonsAre, ReasonsDiffer DEF SubmitShed, Admit, shedLimit
<1>8. CASE WaitGivesUp
  <2>1. pc[Submitter] = "wait" /\ expire(Current) /\ (closed \/ timer[Current] = "fired")
    BY <1>8 DEF WaitGivesUp, Rewait, TimedOut
  <2> QED
    BY <1>1, <1>3, <2>1 DEF Overdue, Ringing
<1>9. ASSUME NEW w \in Workers, BudgetLate(w) PROVE Late(t)
  <2>1. cur[w] \in Tasks
    BY <1>9, HeldTasks DEF BudgetLate, PoolInv
  <2> QED
    BY <1>1, <1>9, <2>1 DEF BudgetLate
<1>10. ASSUME NEW w \in Workers, Handle(w) PROVE FALSE
  <2>1. cur[w] \in Tasks
    BY <1>10, HeldTasks DEF Handle, PoolInv
  <2> QED
    BY <1>2, <1>10, <2>1, ReasonsAre, ReasonsDiffer DEF Handle
<1>11. ASSUME UNCHANGED answers PROVE FALSE
  BY <1>11
<1>12. CASE SubmitInTime \/ SubmitCollect \/ SubmitRoom \/ SubmitWait \/ WaitAgain \/ WaitRoom
  BY <1>11, <1>12 DEF SubmitInTime, SubmitCollect, SubmitRoom, SubmitWait, WaitAgain, WaitRoom,
     enqueueLocked
<1>13. ASSUME NEW w \in Workers,
              PopTask(w) \/ PopClosed(w) \/ PopDead(w) \/ PopWait(w) \/ BudgetInTime(w)
       PROVE  FALSE
  BY <1>11, <1>13 DEF PopTask, PopClosed, PopDead, PopWait, BudgetInTime
<1>14. ASSUME NEW u \in Tasks, TimerStep(u) PROVE FALSE
  BY <1>11, <1>14 DEF TimerStep, TimerStart, TimerFire
<1>15. CASE Receive \/ SweepTick \/ SweepStop \/ CloseStop \/ CloseStep \/ Tick \/ UNCHANGED vars
  BY <1>11, <1>15 DEF Receive, SweepTick, SweepStop, CloseStop, CloseStep, CloseQueue,
     CloseReturn, Tick, vars
<1> QED
  BY <1>4, <1>5, <1>6, <1>7, <1>8, <1>9, <1>10, <1>12, <1>13, <1>14, <1>15
     DEF Next, SubmitterStep, WorkerStep, SweeperStep, Terminated, Threads

(* No other task's timer, wakeup or expiry is ever charged to a task.      *)
THEOREM ExpiryNotPremature == Spec => NoPrematureExpiry
<1>1. Init => PoolInv /\ Overdue
  <2>1. Init => Overdue
    BY DEF Init, Overdue, Ringing
  <2> QED
    BY <2>1, InitShape, InitOnce DEF PoolInv
<1>2. PoolInv /\ Overdue /\ [Next]_vars => PoolInv' /\ Overdue'
  BY NextInv, NextOverdue
<1>3. PoolInv /\ Overdue /\ [Next]_vars =>
        [\A t \in Tasks :
            answers'[t] # answers[t] /\ Len(answers'[t]) > 0
               /\ answers'[t][Len(answers'[t])] = DeadlineExceeded
            => Late(t) \/ leftAt(t) <= 0 \/ closed]_vars
  BY ExpiryIsDue
<1>4. QED
  BY <1>1, <1>2, <1>3, PTL DEF Spec, NoPrematureExpiry
-----------------------------------------------------------------------------
(***************************************************************************)
(* Sleeping and waking.  Awake adds to what the two properties say what    *)
(* makes them inductive: who may sleep, that nobody sleeps in a closed     *)
(* pool, and that a worker leaves only a closed and emptied one.           *)
(***************************************************************************)
Leaving(w) == pc[w] = "done" \/ (pc[w] = "reply" /\ resume[w] = "done")

Awake ==
    /\ Sweeper \notin waiters
    /\ \A w \in Workers : w \in waiters => pc[w] = "pop"
    /\ closed => waiters = {}
    /\ \A w \in Workers : Leaving(w) => closed /\ q = {}
    /\ main = "returned" => \A th \in Threads \ {Submitter} : pc[th] = "done"

Ready == {w \in Workers : Popping(w)}

WakeInv == Awake /\ QueueBound /\ NoLostWakeup /\ SleepsForAReason

(* The workers on their way to pop can be counted. *)
LEMMA ReadyFinite ==
    /\ IsFiniteSet(Workers)
    /\ IsFiniteSet(Ready) /\ Cardinality(Ready) \in Nat
<1>1. IsFiniteSet(Workers) /\ Ready \subseteq Workers
  BY PoolAssumption DEF Ready
<1> QED
  BY <1>1, FS_Subset, FS_CardinalityType

(* In a new pool nobody sleeps. *)
LEMMA InitWake == Init => WakeInv
<1> SUFFICES ASSUME Init PROVE WakeInv
  OBVIOUS
<1>1. waiters = {} /\ q = {} /\ main = "serving"
  BY DEF Init
<1>2. \A w \in Workers : pc[w] = "pop"
  BY PoolAssumption DEF Init, Threads
<1>3. Awake
  BY <1>1, <1>2 DEF Awake, closed, Leaving
<1>4. QueueBound
  BY <1>1, FS_EmptySet, DepthPositive DEF QueueBound
<1> QED
  BY <1>1, <1>3, <1>4 DEF WakeInv, NoLostWakeup, SleepsForAReason

(* A queue that only loses tasks keeps its bound. *)
LEMMA BoundKeeps ==
  ASSUME TypeOK, QueueBound, q' \subseteq q
  PROVE  QueueBound' /\ Cardinality(q') <= Cardinality(q)
<1>1. IsFiniteSet(q) /\ Cardinality(q) \in Nat /\ Cardinality(q') \in Nat
      /\ Cardinality(q') <= Cardinality(q)
  BY TasksFinite, FS_Subset, FS_CardinalityType DEF TypeOK
<1> QED
  BY <1>1, DepthPositive DEF QueueBound, depth

(* A step that appends one task to a queue with room keeps the bound. *)
LEMMA BoundAdds ==
  ASSUME TypeOK, Cardinality(q) < depth, NEW t, t \notin q, q' = q \union {t}
  PROVE  QueueBound' /\ Cardinality(q') = Cardinality(q) + 1
<1>1. IsFiniteSet(q) /\ Cardinality(q) \in Nat
  BY TasksFinite DEF TypeOK
<1>2. Cardinality(q') = Cardinality(q) + 1
  BY <1>1, FS_AddElement
<1> QED
  BY <1>1, <1>2, DepthPositive DEF QueueBound, depth

(* Threads stay on their way out, and only they: main is not yet back, or  *)
(* was already.                                                            *)
StillLeaving ==
    /\ \A w \in Workers : Leaving(w)' => Leaving(w)
    /\ \A th \in Threads \ {Submitter} : pc[th] = "done" => pc'[th] = "done"

(* A step that broadcasts and adds nothing to the queue. *)
LEMMA Broadcasts ==
  ASSUME PoolInv, WakeInv, StillLeaving,
         waiters' = {}, q' \subseteq q,
         main' = main \/ main' = "waiting"
  PROVE  WakeInv'
<1>1. closed => closed'
  BY DEF closed
<1>2. Awake'
  <2>1. \A w \in Workers : Leaving(w)' => closed' /\ q' = {}
    BY <1>1 DEF StillLeaving, WakeInv, Awake
  <2>2. main' = "returned" => \A th \in Threads \ {Submitter} : pc'[th] = "done"
    BY DEF StillLeaving, WakeInv, Awake
  <2> QED
    BY <2>1, <2>2 DEF Awake
<1>3. QueueBound'
  BY BoundKeeps DEF PoolInv, WakeInv
<1> QED
  BY <1>2, <1>3 DEF WakeInv, NoLostWakeup, SleepsForAReason

(* A step that touches neither the sleepers nor the queue. *)
LEMMA Steady ==
  ASSUME PoolInv, WakeInv, StillLeaving,
         UNCHANGED << waiters, q, next >>,
         main' = main \/ (main = "serving" /\ main' = "stopping"),
         \A w \in Workers : pc[w] = "pop" => pc'[w] = "pop",
         Submitter \in waiters =>
            /\ pc'[Submitter] = pc[Submitter]
            /\ timer'[Current] \in {"armed", "running"}
  PROVE  WakeInv'
<1>1. closed <=> closed'
  BY DEF closed
<1>2. Awake'
  <2>1. \A w \in Workers : Leaving(w)' => closed' /\ q' = {}
    BY <1>1 DEF StillLeaving, WakeInv, Awake
  <2>2. main' = "returned" => \A th \in Threads \ {Submitter} : pc'[th] = "done"
    BY DEF StillLeaving, WakeInv, Awake
  <2>3. /\ Sweeper \notin waiters'
        /\ \A w \in Workers : w \in waiters' => pc'[w] = "pop"
        /\ closed' => waiters' = {}
    BY <1>1 DEF WakeInv, Awake
  <2> QED
    BY <2>1, <2>2, <2>3 DEF Awake
<1>3. QueueBound'
  BY BoundKeeps DEF PoolInv, WakeInv
<1>4. NoLostWakeup'
  <2>1. Ready \subseteq Ready'
    BY DEF Ready, Popping
  <2>2. IsFiniteSet(Ready') /\ Cardinality(Ready') \in Nat
    <3>1. Ready' \subseteq Workers
      BY DEF Ready
    <3> QED
      BY <3>1, ReadyFinite, FS_Subset, FS_CardinalityType
  <2>3. Cardinality(Ready) <= Cardinality(Ready')
    BY <2>1, <2>2, FS_Subset
  <2>4. Cardinality(q) \in Nat /\ Cardinality(Ready) \in Nat
    BY TasksFinite, ReadyFinite DEF PoolInv, TypeOK
  <2>5. waiters \intersect Workers # {} => Cardinality(Ready) >= Cardinality(q)
    BY DEF WakeInv, NoLostWakeup, Ready
  <2>6. waiters' \intersect Workers # {} => Cardinality(Ready') >= Cardinality(q')
    BY <2>2, <2>3, <2>4, <2>5
  <2> QED
    BY <2>6 DEF NoLostWakeup, Ready
<1>5. SleepsForAReason'
  <2>1. Current' = Current
    BY DEF Current
  <2> QED
    BY <1>1, <2>1 DEF WakeInv, SleepsForAReason
<1> QED
  BY <1>2, <1>3, <1>4, <1>5 DEF WakeInv

(* The submitter appends its task and signals one sleeping worker. *)
LEMMA EnqueueWakes ==
  ASSUME PoolInv, WakeInv, StillLeaving,
         pc[Submitter] # "idle", Submitter \notin waiters,
         ~closed, Cardinality(q) < depth,
         q' = q \union {Current}, Signal(waiters),
         UNCHANGED main,
         \A w \in Workers : pc'[w] = pc[w]
  PROVE  WakeInv'
<1>1. ~closed'
  BY DEF closed
<1>2. waiters' \subseteq waiters
  BY DEF Signal
<1>3. \A w \in Workers : w \in waiters => pc[w] = "pop"
  BY DEF WakeInv, Awake
<1>4. Awake'
  <2>1. \A w \in Workers : Leaving(w)' => closed' /\ q' = {}
    BY DEF StillLeaving, WakeInv, Awake
  <2>2. main' = "returned" => \A th \in Threads \ {Submitter} : pc'[th] = "done"
    BY DEF StillLeaving, WakeInv, Awake
  <2>3. /\ Sweeper \notin waiters'
        /\ \A w \in Workers : w \in waiters' => pc'[w] = "pop"
    BY <1>2, <1>3 DEF WakeInv, Awake
  <2> QED
    BY <1>1, <2>1, <2>2, <2>3 DEF Awake
<1>5. Current \notin q
  BY SubmitterHolds
<1>6. QueueBound' /\ Cardinality(q') = Cardinality(q) + 1
  BY <1>5, BoundAdds DEF PoolInv
<1>7. NoLostWakeup'
  <2> SUFFICES ASSUME waiters' \intersect Workers # {}
               PROVE  Cardinality(Ready') >= Cardinality(q')
    BY DEF NoLostWakeup, Ready
  <2>1. PICK th \in waiters : waiters' = waiters \ {th}
    BY DEF Signal
  <2>2. th \in Workers /\ pc[th] = "pop"
    BY <2>1, <1>3 DEF PoolInv, TypeOK, Threads, WakeInv, Awake
  <2>3. th \notin Ready /\ Ready' = Ready \union {th}
    BY <2>1, <2>2 DEF Ready, Popping
  <2>4. Cardinality(Ready') = Cardinality(Ready) + 1
    BY <2>3, ReadyFinite, FS_AddElement
  <2>5. Cardinality(Ready) >= Cardinality(q)
    BY <1>2 DEF WakeInv, NoLostWakeup, Ready
  <2>6. Cardinality(q) \in Nat /\ Cardinality(Ready) \in Nat
    BY TasksFinite, ReadyFinite DEF PoolInv, TypeOK
  <2> QED
    BY <2>4, <2>5, <2>6, <1>6
<1>8. SleepsForAReason'
  BY <1>2 DEF SleepsForAReason
<1> QED
  BY <1>4, <1>6, <1>7, <1>8 DEF WakeInv

(* A step of the submitter leaves the other threads where they are. *)
LEMMA SubmitterAlone ==
  ASSUME PoolInv, NEW x, pc' = [pc EXCEPT ![Submitter] = x],
         \A th \in Threads \ {Submitter} : resume'[th] = resume[th]
  PROVE  StillLeaving /\ \A w \in Workers : pc'[w] = pc[w]
<1>1. \A th \in Threads \ {Submitter} : pc'[th] = pc[th]
  BY DEF PoolInv, TypeOK
<1>2. Workers \subseteq Threads \ {Submitter}
  BY PoolAssumption DEF Threads
<1> QED
  BY <1>1, <1>2 DEF StillLeaving, Leaving

(* While Submit waits for room, its timer has been armed. *)
Waiting == pc[Submitter] = "wait" \/ (pc[Submitter] = "reply" /\ resume[Submitter] = "wait")

TimerSet == Waiting => timer[Current] # "off"

(* While the submitter waits for room its timer is set. *)
LEMMA NextTimerSet == PoolInv /\ TimerSet /\ [Next]_vars => TimerSet'
<1> SUFFICES ASSUME PoolInv, TimerSet, [Next]_vars PROVE TimerSet'
  OBVIOUS
<1>0. /\ Submitter \in Threads /\ Sweeper \in Threads /\ Submitter # Sweeper
      /\ Workers \subseteq Threads /\ Submitter \notin Workers
      /\ pc \in [Threads -> PCs] /\ resume \in [Threads -> PCs]
      /\ timer \in [Tasks -> {"off", "armed", "running", "fired"}]
  BY PoolAssumption DEF Threads, PoolInv, TypeOK
<1>1. ASSUME pc'[Submitter] = pc[Submitter], resume'[Submitter] = resume[Submitter],
             next' = next, timer' = timer
      PROVE  TimerSet'
  BY <1>1 DEF TimerSet, Waiting, Current
<1>2. ASSUME NEW x, x \notin {"wait", "reply"}, pc' = [pc EXCEPT ![Submitter] = x]
      PROVE  TimerSet'
  BY <1>0, <1>2 DEF TimerSet, Waiting
<1>3. CASE Receive \/ SubmitLate \/ SubmitInTime \/ SubmitClosed \/ SubmitRoom \/ SubmitShed
           \/ SubmitWaitLate \/ WaitRoom \/ WaitGivesUp
  BY <1>2, <1>3 DEF Receive, SubmitLate, SubmitInTime, SubmitClosed, SubmitRoom, SubmitShed,
     SubmitWaitLate, WaitRoom, WaitGivesUp, GoOn
<1>4. CASE SubmitCollect
  BY <1>0, <1>4 DEF SubmitCollect, HoldDead, TimerSet, Waiting
<1>5. CASE SubmitWait
  <2>1. Current \in Tasks /\ Current' = Current
    BY <1>5, SubmitterHolds DEF SubmitWait, Admit, Current
  <2> QED
    BY <1>0, <1>5, <2>1 DEF SubmitWait, TimerSet
<1>6. CASE WaitAgain
  <2>1. Waiting /\ Current' = Current /\ timer' = timer
    BY <1>6 DEF WaitAgain, Rewait, Waiting, Current
  <2> QED
    BY <2>1 DEF TimerSet
<1>7. CASE ReplyDead(Submitter)
  <2>1. /\ UNCHANGED << next, timer, resume >>
        /\ pc[Submitter] = "reply"
        /\ pc'[Submitter] = resume[Submitter] \/ pc'[Submitter] = "reply"
    BY <1>0, <1>7 DEF ReplyDead
  <2> QED
    BY <2>1 DEF TimerSet, Waiting, Current
<1>8. ASSUME NEW th \in Threads, th # Submitter, ReplyDead(th) PROVE TimerSet'
  BY <1>0, <1>1, <1>8 DEF ReplyDead
<1>9. ASSUME NEW w \in Workers,
             PopTask(w) \/ PopClosed(w) \/ PopDead(w) \/ PopWait(w)
      PROVE  TimerSet'
  BY <1>0, <1>1, <1>9 DEF PopTask, PopClosed, PopDead, PopWait, HoldDead
<1>10. ASSUME NEW w \in Workers, BudgetLate(w) \/ BudgetInTime(w) \/ Handle(w)
       PROVE  TimerSet'
  BY <1>0, <1>1, <1>10 DEF BudgetLate, BudgetInTime, Handle, GoOn
<1>11. CASE SweepTick \/ SweepStop
  BY <1>0, <1>1, <1>11 DEF SweepTick, SweepStop, HoldDead, GoOn
<1>12. ASSUME NEW t \in Tasks, TimerStep(t) PROVE TimerSet'
  <2>1. UNCHANGED << pc, resume, next >> /\ Current' = Current
    BY <1>12 DEF TimerStep, TimerStart, TimerFire, Current
  <2>2. PICK x \in {"running", "fired"} : timer' = [timer EXCEPT ![t] = x]
    BY <1>12 DEF TimerStep, TimerStart, TimerFire
  <2>3. timer[Current] # "off" => timer'[Current] # "off"
    BY <1>0, <2>2
  <2> QED
    BY <2>1, <2>3 DEF TimerSet, Waiting
<1>13. CASE CloseStop \/ CloseStep \/ Tick
  BY <1>1, <1>13 DEF CloseStop, CloseStep, CloseQueue, CloseReturn, Tick
<1>14. CASE UNCHANGED vars
  BY <1>1, <1>14 DEF vars
<1> QED
  BY <1>0, <1>3, <1>4, <1>5, <1>6, <1>7, <1>8, <1>9, <1>10, <1>11, <1>12, <1>13, <1>14
     DEF Next, SubmitterStep, WorkerStep, SweeperStep, Terminated

(* Every step keeps the sleepers accounted for: one case per action. *)
LEMMA NextWake == PoolInv /\ TimerSet /\ WakeInv /\ [Next]_vars => WakeInv'
<1> SUFFICES ASSUME PoolInv, TimerSet, WakeInv, [Next]_vars PROVE WakeInv'
  OBVIOUS
<1>0. /\ Submitter \in Threads /\ Sweeper \in Threads /\ Submitter # Sweeper
      /\ Workers \subseteq Threads /\ Submitter \notin Workers /\ Sweeper \notin Workers
  BY PoolAssumption DEF Threads
<1>a. pc[Submitter] # "wait" => Submitter \notin waiters
  BY DEF WakeInv, SleepsForAReason
<1>b. ExpiredTasks \subseteq q
  BY DEF ExpiredTasks
<1>c. /\ pc \in [Threads -> PCs] /\ resume \in [Threads -> PCs]
      /\ timer \in [Tasks -> {"off", "armed", "running", "fired"}]
  BY DEF PoolInv, TypeOK
<1>d. Submitter \in waiters => timer[Current] \in {"armed", "running"}
  BY DEF WakeInv, SleepsForAReason
<1>1. CASE Receive
  <2>1. StillLeaving /\ \A w \in Workers : pc'[w] = pc[w]
    BY <1>1, SubmitterAlone DEF Receive, GoOn
  <2>2. Submitter \notin waiters
    BY <1>1, <1>a DEF Receive
  <2>3. UNCHANGED << waiters, q, main, timer >>
    BY <1>1 DEF Receive
  <2>4. Awake' /\ QueueBound' /\ NoLostWakeup'
    <3>1. Ready' = Ready
      BY <2>1, <2>3 DEF Ready, Popping
    <3>2. NoLostWakeup'
      BY <3>1, <2>3 DEF WakeInv, NoLostWakeup, Ready
    <3>3. Awake'
      BY <2>1, <2>3 DEF WakeInv, Awake, closed, StillLeaving
    <3> QED
      BY <2>3, <3>2, <3>3 DEF WakeInv, QueueBound
  <2> QED
    BY <2>2, <2>3, <2>4 DEF WakeInv, SleepsForAReason
<1>2. ASSUME NEW x, pc' = [pc EXCEPT ![Submitter] = x], Submitter \notin waiters,
             UNCHANGED << waiters, q, next, main, resume >>
      PROVE  WakeInv'
  <2>1. StillLeaving /\ \A w \in Workers : pc'[w] = pc[w]
    BY <1>0, <1>2, SubmitterAlone
  <2> QED
    BY <1>2, <2>1, Steady
<1>3. CASE SubmitLate
  BY <1>2, <1>3, <1>a DEF SubmitLate, GoOn
<1>4. CASE SubmitInTime
  BY <1>2, <1>4, <1>a DEF SubmitInTime, GoOn
<1>5. CASE SubmitClosed
  BY <1>2, <1>5, <1>a DEF SubmitClosed, GoOn
<1>6. CASE SubmitShed
  BY <1>2, <1>6, <1>a DEF SubmitShed, Admit, GoOn
<1>7. CASE SubmitWaitLate
  BY <1>2, <1>7, <1>a DEF SubmitWaitLate, Admit, GoOn
<1>8. CASE WaitGivesUp
  BY <1>2, <1>8 DEF WaitGivesUp, Rewait, GoOn
<1>9. ASSUME NEW th \in Threads, NEW x, pc[th] # "reply", pc[th] # "done", x # "done",
             HoldDead(th, ExpiredTasks, x), q' = q \ ExpiredTasks, waiters' = {},
             UNCHANGED main
      PROVE  WakeInv'
  <2>1. /\ \A o \in Threads : o # th => pc'[o] = pc[o] /\ resume'[o] = resume[o]
        /\ resume'[th] = x
        /\ pc'[th] = IF ExpiredTasks = {} THEN x ELSE "reply"
    BY <1>9, <1>c DEF HoldDead
  <2>2. StillLeaving
    BY <1>0, <1>9, <2>1 DEF StillLeaving, Leaving
  <2> QED
    BY <1>9, <1>b, <2>2, Broadcasts
<1>10. CASE SubmitCollect
  <2>1. CASE ExpiredTasks = {}
    <3>1. /\ pc' = [pc EXCEPT ![Submitter] = "admit"]
          /\ pc[Submitter] = "collect"
          /\ UNCHANGED << waiters, q, next, main >>
          /\ resume' = [resume EXCEPT ![Submitter] = "admit"]
      BY <1>10, <2>1 DEF SubmitCollect, HoldDead, WakeOnExpired
    <3>2. StillLeaving /\ \A w \in Workers : pc'[w] = pc[w]
      BY <1>c, <3>1, SubmitterAlone
    <3> QED
      BY <1>a, <3>1, <3>2, Steady
  <2>2. CASE ExpiredTasks # {}
    BY <1>0, <1>9, <1>10, <2>2 DEF SubmitCollect, WakeOnExpired
  <2> QED
    BY <2>1, <2>2
<1>11. CASE SubmitRoom
  <2>1. StillLeaving /\ \A w \in Workers : pc'[w] = pc[w]
    BY <1>11, SubmitterAlone DEF SubmitRoom, GoOn
  <2> QED
    BY <1>11, <1>a, <2>1, EnqueueWakes DEF SubmitRoom, Admit, enqueueLocked
<1>12. CASE WaitRoom
  <2>1. StillLeaving /\ \A w \in Workers : pc'[w] = pc[w]
    BY <1>12, SubmitterAlone DEF WaitRoom, GoOn
  <2> QED
    BY <1>12, <2>1, EnqueueWakes DEF WaitRoom, Rewait, enqueueLocked
<1>13. ASSUME pc[Submitter] \in {"admit", "wait"}, Submitter \notin waiters,
              Cardinality(q) >= depth, ~closed, timer'[Current] \in {"armed", "running"},
              WaitBody, UNCHANGED << next, main >>
       PROVE  WakeInv'
  <2>1. CASE ExpiredTasks # {}
    BY <1>0, <1>9, <1>13, <2>1 DEF WaitBody
  <2>2. CASE ExpiredTasks = {}
    <3>1. /\ waiters' = waiters \union {Submitter}
          /\ pc' = [pc EXCEPT ![Submitter] = "wait"]
          /\ UNCHANGED << q, resume >>
      BY <1>13, <2>2 DEF WaitBody, GoOn
    <3>2. StillLeaving /\ \A w \in Workers : pc'[w] = pc[w]
      BY <1>0, <3>1, SubmitterAlone
    <3>3. ~closed' /\ pc'[Submitter] = "wait" /\ Current' = Current
      BY <1>0, <1>13, <1>c, <3>1 DEF closed, Current
    <3>4. SleepsForAReason'
      BY <1>13, <3>1, <3>3 DEF SleepsForAReason
    <3>5. QueueBound'
      BY <3>1 DEF QueueBound, WakeInv
    <3>6. NoLostWakeup'
      <4>1. Ready' = Ready
        BY <1>0, <3>1, <3>2 DEF Ready, Popping
      <4>2. waiters' \intersect Workers = waiters \intersect Workers
        BY <1>0, <3>1
      <4> QED
        BY <3>1, <4>1, <4>2 DEF WakeInv, NoLostWakeup, Ready
    <3>7. Awake'
      <4>1. \A w \in Workers : w \in waiters' => pc'[w] = "pop"
        BY <1>0, <3>1, <3>2 DEF WakeInv, Awake
      <4>2. \A w \in Workers : Leaving(w)' => closed' /\ q' = {}
        BY <1>13, <3>2 DEF StillLeaving, WakeInv, Awake
      <4>3. main' # "returned" /\ Sweeper \notin waiters'
        BY <1>0, <1>13, <3>1 DEF WakeInv, Awake, closed
      <4> QED
        BY <3>3, <4>1, <4>2, <4>3 DEF Awake
    <3> QED
      BY <3>4, <3>5, <3>6, <3>7 DEF WakeInv
  <2> QED
    BY <2>1, <2>2
<1>14. CASE SubmitWait
  <2>1. Current \in Tasks
    BY <1>14, SubmitterHolds DEF SubmitWait, Admit
  <2>2. timer'[Current] = "armed"
    BY <1>14, <1>c, <2>1 DEF SubmitWait
  <2> QED
    BY <1>13, <1>14, <1>a, <2>2 DEF SubmitWait, Admit
<1>15. CASE WaitAgain
  <2>1. Current \in Tasks /\ pc[Submitter] = "wait"
    BY <1>15, SubmitterHolds DEF WaitAgain, Rewait
  <2>2. timer[Current] \in {"armed", "running"}
    BY <1>15, <1>c, <2>1 DEF WaitAgain, TimedOut, TimerSet, Waiting
  <2> QED
    BY <1>13, <1>15, <2>1, <2>2 DEF WaitAgain, Rewait
<1>16. ASSUME NEW th \in Threads, ReplyDead(th) PROVE WakeInv'
  <2>1. PICK x \in PCs : pc' = [pc EXCEPT ![th] = x] /\ (x = "reply" \/ x = resume[th])
    <3>1. resume[th] \in PCs /\ "reply" \in PCs
      BY <1>c DEF PCs
    <3>2. PICK t \in dead[th] :
             pc' = [pc EXCEPT ![th] = IF dead[th] = {t} THEN resume[th] ELSE "reply"]
      BY <1>16 DEF ReplyDead
    <3>3. CASE dead[th] = {t}
      BY <3>1, <3>2, <3>3
    <3>4. CASE dead[th] # {t}
      BY <3>1, <3>2, <3>4
    <3> QED
      BY <3>3, <3>4
  <2>2. pc[th] = "reply" /\ UNCHANGED << waiters, q, next, main, resume, timer >>
    BY <1>16 DEF ReplyDead
  <2>3. \A o \in Threads : o # th => pc'[o] = pc[o]
    BY <1>c, <2>1
  <2>4. pc'[th] = x
    BY <1>c, <2>1
  <2>5. StillLeaving
    BY <1>0, <2>1, <2>2, <2>3, <2>4 DEF StillLeaving, Leaving
  <2>6. \A w \in Workers : pc[w] = "pop" => pc'[w] = "pop"
    BY <1>0, <2>2, <2>3
  <2>7. Submitter \in waiters => th # Submitter
    BY <1>a, <2>2
  <2> QED
    BY <1>0, <1>d, <2>2, <2>3, <2>5, <2>6, <2>7, Steady
<1>17. ASSUME NEW w \in Workers, NEW t \in q \ ExpiredTasks, PopTask(w),
              q' = (q \ ExpiredTasks) \ {t}
       PROVE  WakeInv'
  <2>1. pc[w] = "pop" /\ waiters' = {} /\ main' = main /\ HoldDead(w, ExpiredTasks, "budget")
    BY <1>17 DEF PopTask, Popping
  <2>2. /\ \A o \in Threads : o # w => pc'[o] = pc[o] /\ resume'[o] = resume[o]
        /\ resume'[w] = "budget"
        /\ pc'[w] = IF ExpiredTasks = {} THEN "budget" ELSE "reply"
    BY <1>0, <1>c, <2>1 DEF HoldDead
  <2>3. StillLeaving
    BY <1>0, <2>1, <2>2 DEF StillLeaving, Leaving
  <2> QED
    BY <1>17, <2>1, <2>3, Broadcasts
<1>18. ASSUME NEW w \in Workers, PopClosed(w) PROVE WakeInv'
  <2>1. /\ pc[w] = "pop" /\ q' = {} /\ closed /\ main' = main
        /\ HoldDead(w, ExpiredTasks, "done") /\ waiters' = WakeOnExpired(waiters)
    BY <1>18 DEF PopClosed, Popping
  <2>2. waiters' = {} /\ waiters = {}
    BY <2>1 DEF WakeInv, Awake, WakeOnExpired
  <2>3. /\ \A o \in Threads : o # w => pc'[o] = pc[o] /\ resume'[o] = resume[o]
    BY <1>0, <1>c, <2>1 DEF HoldDead
  <2>4. Awake'
    <3>1. closed'
      BY <2>1 DEF closed
    <3>2. main' # "returned"
      BY <1>0, <2>1 DEF WakeInv, Awake
    <3> QED
      BY <2>1, <2>2, <3>1, <3>2 DEF Awake
  <2>5. QueueBound'
    BY <2>1, BoundKeeps DEF PoolInv, WakeInv
  <2> QED
    BY <2>2, <2>4, <2>5 DEF WakeInv, NoLostWakeup, SleepsForAReason
<1>19. ASSUME NEW w \in Workers, PopDead(w) PROVE WakeInv'
  <2>1. /\ pc[w] = "pop" /\ waiters' = {} /\ main' = main /\ q' = q \ ExpiredTasks
        /\ HoldDead(w, ExpiredTasks, "pop")
    BY <1>19 DEF PopDead, Popping
  <2> QED
    BY <1>0, <1>9, <2>1
<1>20. ASSUME NEW w \in Workers, PopWait(w) PROVE WakeInv'
  <2>1. /\ pc[w] = "pop" /\ ~closed /\ q = {} /\ waiters' = waiters \union {w}
        /\ UNCHANGED << q, pc, resume, main, timer, next >>
    BY <1>20 DEF PopWait, Popping
  <2>2. Cardinality(q') = 0
    BY <2>1, FS_EmptySet
  <2>3. IsFiniteSet(Ready') /\ Cardinality(Ready') \in Nat
    <3>1. Ready' \subseteq Workers
      BY DEF Ready
    <3> QED
      BY <3>1, ReadyFinite, FS_Subset, FS_CardinalityType
  <2>4. NoLostWakeup'
    BY <2>2, <2>3 DEF NoLostWakeup, Ready
  <2>5. SleepsForAReason'
    BY <1>0, <2>1 DEF WakeInv, SleepsForAReason, closed, Current
  <2>6. Awake'
    BY <1>0, <2>1 DEF WakeInv, Awake, closed, Leaving
  <2> QED
    BY <2>1, <2>4, <2>5, <2>6 DEF WakeInv, QueueBound
<1>21. ASSUME NEW th \in Threads, NEW x, th # Submitter,
              pc' = [pc EXCEPT ![th] = x], pc[th] \notin {"pop", "done"},
              th \in Workers => x # "done" /\ pc[th] # "reply" /\ x # "reply",
              UNCHANGED << waiters, q, next, main, resume, timer >>
       PROVE  WakeInv'
  <2>1. /\ \A o \in Threads : o # th => pc'[o] = pc[o]
        /\ pc'[th] = x
    BY <1>c, <1>21
  <2>2. StillLeaving
    BY <1>0, <1>21, <2>1 DEF StillLeaving, Leaving
  <2> QED
    BY <1>0, <1>d, <1>21, <2>1, <2>2, Steady
<1>22. ASSUME NEW w \in Workers, BudgetLate(w) \/ BudgetInTime(w) \/ Handle(w) PROVE WakeInv'
  BY <1>0, <1>21, <1>22 DEF BudgetLate, BudgetInTime, Handle, GoOn
<1>23. CASE SweepTick
  BY <1>0, <1>9, <1>23 DEF SweepTick
<1>24. CASE SweepStop
  BY <1>0, <1>21, <1>24 DEF SweepStop, GoOn
<1>25. ASSUME UNCHANGED << pc, resume >> PROVE StillLeaving
  BY <1>25 DEF StillLeaving, Leaving
<1>26. ASSUME NEW t \in Tasks, TimerStart(t) PROVE WakeInv'
  <2>1. UNCHANGED << waiters, q, next, main, pc, resume >>
    BY <1>26 DEF TimerStart
  <2>2. Submitter \in waiters => timer'[Current] \in {"armed", "running"}
    BY <1>26, <1>c, <1>d DEF TimerStart
  <2> QED
    BY <1>25, <2>1, <2>2, Steady
<1>27. ASSUME NEW t \in Tasks, TimerFire(t) PROVE WakeInv'
  BY <1>25, <1>27, Broadcasts DEF TimerFire
<1>28. CASE CloseStop
  BY <1>25, <1>28, <1>d, Steady DEF CloseStop
<1>29. CASE CloseQueue
  BY <1>25, <1>29, Broadcasts DEF CloseQueue
<1>30. CASE CloseReturn
  <2>1. /\ UNCHANGED << waiters, q, next, pc, resume, timer >>
        /\ main = "waiting" /\ main' = "returned"
        /\ \A th \in Threads \ {Submitter} : pc[th] = "done"
    BY <1>30 DEF CloseReturn
  <2>2. closed /\ closed'
    BY <2>1 DEF closed
  <2>3. waiters = {}
    BY <2>2 DEF WakeInv, Awake
  <2>4. Awake'
    BY <2>1, <2>2, <2>3 DEF WakeInv, Awake, Leaving
  <2> QED
    BY <2>1, <2>3, <2>4 DEF WakeInv, NoLostWakeup, SleepsForAReason, QueueBound
<1>31. CASE Tick
  BY <1>25, <1>31, <1>d, Steady DEF Tick
<1>32. CASE UNCHANGED vars
  BY <1>25, <1>32, <1>d, Steady DEF vars
<1>33. ASSUME NEW w \in Workers, PopTask(w) PROVE WakeInv'
  BY <1>17, <1>33 DEF PopTask
<1> QED
  BY <1>0, <1>1, <1>3, <1>4, <1>5, <1>6, <1>7, <1>8, <1>10, <1>11, <1>12, <1>14, <1>15, <1>16,
     <1>18, <1>19, <1>20, <1>22, <1>23, <1>24, <1>26, <1>27, <1>28, <1>29, <1>30, <1>31, <1>32,
     <1>33
     DEF Next, SubmitterStep, WorkerStep, SweeperStep, TimerStep, CloseStep, Terminated

(* The wakeup invariant, next to the one it rests on, holds throughout. *)
LEMMA WakeInvariant == Spec => [](PoolInv /\ WakeInv)
<1>1. Init => PoolInv /\ TimerSet /\ WakeInv
  <2>1. Init => TimerSet
    BY PoolAssumption DEF Init, TimerSet, Waiting, Threads
  <2> QED
    BY <2>1, InitShape, InitOnce, InitWake DEF PoolInv
<1>2. QED
  BY <1>1, NextInv, NextTimerSet, NextWake, PTL DEF Spec

(* The queue never outgrows queue_max. *)
THEOREM BoundedQueue == Spec => []QueueBound
<1>1. WakeInv => QueueBound
  BY DEF WakeInv
<1>2. QED
  BY <1>1, WakeInvariant, PTL

(* No task waits beside a worker that nobody wakes, for any number of      *)
(* workers, although the condition variable is shared with the submitter   *)
(* and an append signals one sleeper only.                                 *)
THEOREM WakeupsNotLost == Spec => []NoLostWakeup
<1>1. WakeInv => NoLostWakeup
  BY DEF WakeInv
<1>2. QED
  BY <1>1, WakeInvariant, PTL

(* The submitter never sleeps beside a queue with room, in a closed pool   *)
(* or after its timer.                                                     *)
THEOREM SubmitterNotStranded == Spec => []SleepsForAReason
<1>1. WakeInv => SleepsForAReason
  BY DEF WakeInv
<1>2. QED
  BY <1>1, WakeInvariant, PTL

(* After Close every accepted task is answered, but for what the submitter *)
(* holds.                                                                  *)
THEOREM ClosedPoolIsDrained == Spec => []CloseDrains
<1>1. PoolInv /\ WakeInv => CloseDrains
  <2> SUFFICES ASSUME PoolInv, WakeInv, main = "returned"
               PROVE  /\ q = {}
                      /\ \A t \in Tasks :
                            t < next /\ ~InHand(Submitter, t) => answers[t] # << >>
    BY DEF CloseDrains
  <2>1. \A th \in Threads \ {Submitter} : pc[th] = "done"
    BY DEF WakeInv, Awake
  <2>2. Workers \subseteq Threads \ {Submitter}
    BY PoolAssumption DEF Threads
  <2>3. q = {}
    BY <2>1, <2>2, PoolAssumption DEF WakeInv, Awake, Leaving
  <2>4. \A th \in Threads \ {Submitter}, t \in Tasks : ~InHand(th, t)
    <3>1. \A th \in Threads \ {Submitter} : dead[th] = {}
      BY <2>1 DEF PoolInv, Shape
    <3>2. \A w \in Workers : cur[w] = 0
      BY <2>1, <2>2 DEF PoolInv, Shape
    <3>3. 0 \notin Tasks
      BY DEF Tasks
    <3> QED
      BY <3>1, <3>2, <3>3 DEF InHand
  <2> QED
    BY <2>3, <2>4 DEF PoolInv, ExactlyOnce
<1>2. QED
  BY <1>1, WakeInvariant, PTL
=============================================================================
