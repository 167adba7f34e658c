----------------------------- MODULE AuditSink -----------------------------
(***************************************************************************)
(* The audit sink of internal/audit/sink.go: pool workers and the bus      *)
(* goroutine add events, a goroutine of its own publishes them in batches, *)
(* on a ticker or when kicked, and Close flushes what is left.  Events are *)
(* numbered in the order they are added.  Here the sink is by itself;      *)
(* Lifecycle runs it in its process.                                       *)
(***************************************************************************)
EXTENDS Naturals, Sequences, FiniteSets, SequencesExt

CONSTANTS
    Adders,         \* the goroutines that call Add
    Events,         \* how many events are added: they are 1..Events (bound)
    SubjectOf,      \* SubjectOf[e]: the audit subject of event e
    SizeOf,         \* SizeOf[e]: the bytes it takes in an envelope
    maxItems, maxSize, maxPending,
    MaxFailures     \* how many publishes fail (bound)

ASSUME SinkAssumption ==
    /\ Events \in Nat
    /\ DOMAIN SubjectOf = 1..Events
    /\ SizeOf \in [1..Events -> Nat]
    /\ maxItems \in Nat \ {0} /\ maxSize \in Nat \ {0} /\ maxPending \in Nat \ {0}
    /\ MaxFailures \in Nat

VARIABLES
    added,      \* how many events were added so far
    pending,    \* Sink.pending
    size,       \* Sink.size
    dropped,    \* the events that Sink.dropped counts
    kicking,    \* the adders that found the batch full and are about to kick
    wake,       \* whether the channel wake holds its one token
    loop,       \* where the sink's goroutine is
    stopping,   \* whether its flush is the last one
    take,       \* the events it is publishing
    sent,       \* sent[s]: the events published on subject s, in order
    failed,     \* the events of publishes that failed
    closing     \* Close: "open", "waiting" or "returned"

vars == << added, pending, size, dropped, kicking, wake, loop, stopping, take, sent, failed,
           closing >>

Subjects == {SubjectOf[e] : e \in 1..Events}

(* sizeOf: a loop over the items. *)
sizeOf(items) ==
    LET n[i \in 0..Len(items)] == IF i = 0 THEN 0 ELSE n[i - 1] + SizeOf[items[i]]
    IN  n[Len(items)]

Init ==
    /\ added = 0
    /\ pending = << >> /\ size = 0
    /\ dropped = {}
    /\ kicking = {}
    /\ wake = FALSE
    /\ loop = "select" /\ stopping = FALSE
    /\ take = << >>
    /\ sent = [s \in Subjects |-> << >>]
    /\ failed = {}
    /\ closing = "open"
-----------------------------------------------------------------------------
Full(items, n) == Len(items) >= maxItems \/ n >= maxSize

(* Over the limit, the oldest events go. *)
keepLast(items) ==
    IF Len(items) > maxPending THEN SubSeq(items, Len(items) - maxPending + 1, Len(items))
    ELSE items

(* Add, under Sink.mu. *)
Add(a) ==
    LET e == added + 1
        all == Append(pending, e)
        kept == keepLast(all)
        n == IF kept = all THEN size + SizeOf[e] ELSE sizeOf(kept)
    IN  /\ a \notin kicking
        /\ added < Events
        /\ added' = e
        /\ pending' = kept
        /\ size' = n
        /\ dropped' = dropped \union (ToSet(all) \ ToSet(kept))
        /\ kicking' = IF Full(kept, n) THEN kicking \union {a} ELSE kicking
        /\ UNCHANGED << wake, loop, stopping, take, sent, failed, closing >>

(* kick, after the unlock: it never blocks, one token is enough. *)
Kick(a) ==
    /\ a \in kicking
    /\ kicking' = kicking \ {a}
    /\ wake' = TRUE
    /\ UNCHANGED << added, pending, size, dropped, loop, stopping, take, sent, failed, closing >>
-----------------------------------------------------------------------------
(* loop: the select, which picks among the ready cases at random. *)
LoopWake ==
    /\ loop = "select" /\ wake
    /\ wake' = FALSE
    /\ loop' = "flush"
    /\ UNCHANGED << added, pending, size, dropped, kicking, stopping, take, sent, failed,
                    closing >>

(* Mutant: the ticker flushes full batches only. *)
LoopTickFull ==
    /\ loop = "select" /\ Full(pending, size)
    /\ loop' = "flush"
    /\ UNCHANGED << added, pending, size, dropped, kicking, wake, stopping, take, sent, failed,
                    closing >>

(* A tick that finds nothing pending changes nothing. *)
LoopTick ==
    /\ loop = "select" /\ pending # << >>
    /\ loop' = "flush"
    /\ UNCHANGED << added, pending, size, dropped, kicking, wake, stopping, take, sent, failed,
                    closing >>

(* Mutant: the loop ends without a last flush. *)
LoopStopAtOnce ==
    /\ loop = "select" /\ closing # "open"
    /\ loop' = "done"
    /\ UNCHANGED << added, pending, size, dropped, kicking, wake, stopping, take, sent, failed,
                    closing >>

LoopStop ==
    /\ loop = "select" /\ closing # "open"
    /\ stopping' = TRUE
    /\ loop' = "flush"
    /\ UNCHANGED << added, pending, size, dropped, kicking, wake, take, sent, failed, closing >>

FlushEnds == loop' = IF stopping THEN "done" ELSE "select"

FlushEmpty ==
    /\ loop = "flush" /\ pending = << >>
    /\ FlushEnds
    /\ UNCHANGED << added, pending, size, dropped, kicking, wake, stopping, take, sent, failed,
                    closing >>

(* Mutant: the newest events are taken first. *)
FlushTakeNewest ==
    LET n == IF Len(pending) > maxItems THEN Len(pending) - maxItems ELSE 0
    IN  /\ loop = "flush" /\ pending # << >>
        /\ take' = SubSeq(pending, n + 1, Len(pending))
        /\ pending' = SubSeq(pending, 1, n)
        /\ size' = sizeOf(pending')
        /\ loop' = "publish"
        /\ UNCHANGED << added, dropped, kicking, wake, stopping, sent, failed, closing >>

(* Mutant: what does not fit into the batch is cleared with it. *)
FlushTakeAndClear ==
    LET n == IF Len(pending) > maxItems THEN maxItems ELSE Len(pending)
    IN  /\ loop = "flush" /\ pending # << >>
        /\ take' = SubSeq(pending, 1, n)
        /\ pending' = << >>
        /\ size' = 0
        /\ loop' = "publish"
        /\ UNCHANGED << added, dropped, kicking, wake, stopping, sent, failed, closing >>

(* One batch is taken out under the lock and published outside it. *)
FlushTake ==
    LET n == IF Len(pending) > maxItems THEN maxItems ELSE Len(pending)
    IN  /\ loop = "flush" /\ pending # << >>
        /\ take' = SubSeq(pending, 1, n)
        /\ pending' = SubSeq(pending, n + 1, Len(pending))
        /\ size' = sizeOf(pending')
        /\ loop' = "publish"
        /\ UNCHANGED << added, dropped, kicking, wake, stopping, sent, failed, closing >>

(* Mutant: a flush publishes one batch and no more. *)
AfterSendOnce(rest) ==
    IF rest # << >> THEN loop' = "publish"
    ELSE loop' = IF stopping THEN "done" ELSE "select"

(* flush goes on until it finds nothing pending. *)
AfterSend(rest) == loop' = IF rest = << >> THEN "flush" ELSE "publish"

(* The loop of groupBySubject: the items that are in S, in their order. *)
groupBy(items, S) ==
    LET g[i \in 0..Len(items)] ==
          IF i = 0 THEN << >>
          ELSE IF items[i] \in S THEN Append(g[i - 1], items[i]) ELSE g[i - 1]
    IN  g[Len(items)]

OnSubject(s) == {e \in 1..Events : SubjectOf[e] = s}

(* publish: one message per subject, in the order of their first events.   *)
(* A publish that fails loses its events.                                  *)
Send ==
    LET s == SubjectOf[take[1]]
        mine == groupBy(take, OnSubject(s))
        rest == groupBy(take, 1..Events \ OnSubject(s))
    IN  /\ loop = "publish"
        /\ take' = rest
        /\ AfterSend(rest)
        /\ \/ sent' = [sent EXCEPT ![s] = @ \o mine] /\ UNCHANGED failed
           \/ /\ Cardinality(failed) < MaxFailures
              /\ failed' = failed \union ToSet(mine)
              /\ UNCHANGED sent
        /\ UNCHANGED << added, pending, size, dropped, kicking, wake, stopping, closing >>
-----------------------------------------------------------------------------
CloseStop ==
    /\ closing = "open"
    /\ closing' = "waiting"
    /\ UNCHANGED << added, pending, size, dropped, kicking, wake, loop, stopping, take, sent,
                    failed >>

CloseReturn ==
    /\ closing = "waiting" /\ loop = "done"
    /\ closing' = "returned"
    /\ UNCHANGED << added, pending, size, dropped, kicking, wake, loop, stopping, take, sent,
                    failed >>

(* Closed and nothing more to add: the process exits. *)
Terminated ==
    /\ closing = "returned" /\ added = Events /\ kicking = {}
    /\ UNCHANGED vars

LoopStep == LoopWake \/ LoopTick \/ LoopStop \/ FlushEmpty \/ FlushTake \/ Send

Next ==
    \/ \E a \in Adders : Add(a) \/ Kick(a)
    \/ LoopStep
    \/ CloseStop \/ CloseReturn
    \/ Terminated

(* The sink's goroutine runs and its ticker ticks; adders go on once they  *)
(* have begun.  Nothing makes events come or main close the sink.          *)
Spec ==
    /\ Init /\ [][Next]_vars
    /\ WF_vars(LoopStep) /\ WF_vars(CloseReturn)
    /\ \A a \in Adders : WF_vars(Kick(a))
-----------------------------------------------------------------------------
(* The events published on one subject are in the order they were added,   *)
(* none twice, and each on its own subject: batches are cut, grouped by    *)
(* subject and published while others add.                                 *)
InOrder ==
    \A s \in Subjects :
       /\ \A i, j \in 1..Len(sent[s]) : i < j => sent[s][i] < sent[s][j]
       /\ \A i \in 1..Len(sent[s]) : SubjectOf[sent[s][i]] = s

(* Every event added is somewhere: published, pending, being published,    *)
(* counted as dropped, or logged as failed; and the backlog keeps to its   *)
(* limit, and to the size that is counted for it.                          *)
Accounted ==
    /\ Len(pending) <= maxPending /\ size = sizeOf(pending)
    /\ 1..added = ToSet(pending) \union ToSet(take) \union dropped \union failed
                     \union UNION {ToSet(sent[s]) : s \in Subjects}

(* A full batch is never left for the ticker: the kick is on its way, in   *)
(* the channel, or the goroutine is flushing, although kick gives up when  *)
(* the channel is full.                                                    *)
KickNotLost ==
    Full(pending, size) /\ loop # "done" => \/ kicking # {}
                                            \/ wake
                                            \/ loop \in {"flush", "publish"}

(* What was added does not stay in the sink: as long as it is not closed   *)
(* it runs empty again and again, a batch that is never full included.     *)
Flows == []<>(pending = << >> \/ closing # "open")
=============================================================================
