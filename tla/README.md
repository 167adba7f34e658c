# A TLA+ model of placitum-counter

placitum-counter is an inspector of a web application firewall. It receives
messages about HTTP exchanges over a bus (NATS), charges leaky buckets with what
clients take away, judges requests by the levels of those buckets, and answers
with a verdict. This directory models its core in TLA+, checks it with TLC and
proves with TLAPS, for every value of the constants that the assumptions of
section 5 allow, all the safety properties that hold: of the pool, the bucket
stores, the generations, the process with its audit sink and both halves of the
handler.

## 1. Inventory

| Component | Source | State | Operations | Hard because |
| --- | --- | --- | --- | --- |
| worker pool | `internal/queue/queue.go` | the queue, a condition variable, three counters, tasks in the hands of goroutines | `Submit`, `pop`, `work`, `sweep`, wait timers, `Close` | one submitter, N workers, a sweeper, timer callbacks and `main` share a lock and one `sync.Cond`; deadlines pass at any time |
| buckets in memory | `internal/buckets/buckets.go` `applyLocal` | `ledger.m`: level + rate * epoch per key | `Apply`, eviction | the stored value depends on the leak in force; messages in flight keep their snapshot's tiers and a clock read before the lock; eviction in map order |
| buckets in Redis | same, `applyRedis` | a value with a time to live per key | pipelines SETNX / INCRBYFLOAT / PEXPIRE, GET, SET | pipelines are not transactions; keys expire; calls fail half-way and late |
| profile store | `internal/config/profiles.go` | `dir`, `cur` (snapshot + fingerprint) | `LoadProfiles`, `Reload` (ticker), `ReloadFrom` | file-by-file reads race directory swaps and each other |
| desired generation | `internal/desired/desired.go` | the data directory, `Applied` | `Watch`, `Apply`, `Bootstrap` | a sequence of renames, each of which may fail or be cut by a crash |
| handler | `cmd/inspector/handler.go`, `frame.go`, `lists.go` | none between messages: it takes one snapshot per message | `receive`, `inspect`, `judge`, `measure`, `frame`, list writes, `send` | phases of one exchange see different generations, overlapping recorded actions and other locators |
| subjects | `cmd/inspector/subjects.go` | none | `subjectsOf`, `key`, search of cookies, headers and sessions | found anew in every message, from other places in every phase |
| measure rules | `internal/measure` | none | `Run`, `extract` | conditions, default axes and weights |
| snapshot loader | `internal/body` | none (a Redis client) | `Load`, `LoadMany`, `finish` | batches with holes; absent, unavailable and faulty are three things |
| schema | `internal/config/profile.go`, `counters.go` | none | `Validate`, `ValidateAgainst`, `Counters.validate` | nothing is checked again once a generation is in force |
| decisions | `internal/decide`, `internal/overload` | none | `judge`, `Fire`, `FireOverload`, `EvaluatePrior`, `ScaleScore` | order independence, observe mode, bounds of scaled scores |
| audit sink | `internal/audit/sink.go` | `pending`, `size`, `dropped`, a wake token | `Add`, `kick`, `loop`, `flush`, `Close` | adders, a ticker and Close race one goroutine |
| start and shutdown | `cmd/inspector/main.go` | the subscription, what the client has buffered | load, bootstrap, signal, `Drain`, `pool.Close`, `auditSink.Close` | `Drain` does not wait: the bus goroutine outlives what it uses |
| log level | `internal/desired/settings.go` | the level in force | `Settings.apply` | set after the report of a manifest |
| audit event, process configuration, heartbeat, probe | see `PROJECT.json` | none that outlives a message | formatting, parsing, I/O | not modelled |

How they interact: the bus client's goroutine calls `receive`, which answers
broken messages itself and hands the others to `Pool.Submit`. A worker (or
whoever sheds or expires the task) calls `handler.evaluate`, which takes the
current snapshot from the profile store, loads headers and bodies from the
buffer store, finds the subjects, calls the buckets with the tiers of that
snapshot, decides, publishes the reply and adds an event to the audit
sink. The ticker and the desired watcher replace the snapshot meanwhile.
At shutdown `main` drains the subscription, closes the pool, then the sink.

What makes each part correct is stated as the properties in section 4; the
hazards they answer are listed in `PROJECT.json`, each at its line.

## 2. Modules

| Module | Models | Uses |
| --- | --- | --- |
| `Answering` | what the pool promises: each message gets one answer, in the end | |
| `Pool` | `queue.go` | instantiates `Answering` under a refinement mapping |
| `Tiers` | tier arithmetic: rate, lifetime, clamp, stored and effective values | |
| `LeakyBucket` | what a bucket store promises of a bucket whose tier stays | `Tiers` |
| `LocalBuckets` | `Apply` and `applyLocal` by calls in flight under changing tiers | `Tiers`, instantiates `LeakyBucket` |
| `RedisBuckets` | `applyRedis`, several calls on one bucket | `Tiers` |
| `Generations` | `profiles.go` and `desired.go` together over one disk | |
| `AuditSink` | `sink.go` | |
| `Lifecycle` | one process from its first message to its exit (`main.go`, `receive`, `send`, who holds which message) | extends `AuditSink` |
| `Inspect` | the handler's decisions, one exchange: what is judged, answered and fired | |
| `Schema` | `counters.go` and `profile.go`: declarations and validation, as operators | |
| `Subjects` | `subjects.go`, as operators | extends `Schema` |
| `Measures` | `measure.go` and the rules' conditions, as operators | extends `Schema` |
| `Loader` | `body.go`, `redis.go` and the locators of `protocol.go`, as operators | |
| `Exchange` | the handler's inputs, one exchange: what is loaded, whose buckets are read, what is charged | extends `Subjects`, `Measures`, `Loader` |
| `MC...` | values of the constants for TLC | the module of that name |
| `Lemmas` | what several proofs need: induction along a loop, sums over finite sets, the arithmetic of a tier | extends `Tiers` |
| `PoolProofs`, `LocalProofs`, `RedisProofs`, `GenerationsProofs`, `LifecycleProofs`, `InspectProofs`, `ExchangeProofs` | theorems about the module of that name (`AuditSink` included in `Lifecycle`; `Schema`, `Subjects`, `Measures` and `Loader` in `Exchange`) | extend it, most also use `Lemmas` |

How state and actions correspond to the code:

* **Pool.** A critical section of `Pool.mu` is one action; what happens outside
  the lock is another. `pc[th]` is the place of a goroutine, `dead[th]` the
  expired tasks it took and has yet to answer, `cur[w]` the task a worker
  popped, `waiters` the goroutines in `cond.Wait` (`Signal` wakes any one of
  them, a woken one has to get the lock before it looks at the queue).
  `SubmitLate` to `SubmitWait` are the returns of `Submit`, `WaitAgain`,
  `WaitRoom` and `WaitGivesUp` those of the loop in `submitWaitLocked`,
  `TimerStart` and `TimerFire` the two halves of its timer's callback.
  Only one goroutine calls `Submit` (a subscription runs its callbacks one
  after the other), so the slice is in the order of arrival and is modelled by
  its set of task numbers. `Close` appears as its three steps. Answering a
  message that expired is one step; the inspection of a message is a step that
  may take any time, or for ever in `SpecHang`.
* **LocalBuckets.** A call goes through three steps: `Snapshot` (`inspect` takes the
  generation in force), `ReadClock` (`Store.Apply` reads the clock) and `Apply`,
  the critical section of `ledger.mu`, whose parts `refUnion`, `before`, `after`,
  `store` and `kept` are in the order of the code. Between them other calls run,
  time passes and generations come into force: `of[c]` and `at[c]` are what call c
  still works with, and `Reload` only changes what later calls take. `last` has the
  last call's input and result; `touched` is history.
* **RedisBuckets.** One bucket, several calls. Each command is an action; `at` is
  the `now` a call took when it began, so a late command works with an old
  clock reading. `ConnectionLost` drops the rest of a pipeline, `TimedOut`
  leaves it running with nobody listening. `ideal` is history: the level with
  every charge counted when it runs.
* **Generations.** A directory maps its files to versions (content, stamp). Two
  files stand for a tree: the shared counters and the default profile that is
  validated against them (`Fits`). The applier and the ticker execute the same
  `Store.read`, file by file, then `fingerprint`, file by file, then the
  unconditional store. `Promote`, `Discard`, `Restore` and the others are the
  system calls of `desired.Apply`, any of which may fail; `Crash` loses all but
  the disk and the bus. An apply ends in three steps: `Prune` removes `.prev`, `Report`
  tells the heartbeat, `ApplySettings` sets the log level of its settings. History:
  `good` is the manifest last served from the data directory, `called` the level
  that the reported manifests call for, `kept` what a crash met (the manifest
  reported as applied, at any moment, and the one that was being applied, if any),
  `spoilt` whether a system call failed in the apply last begun, and `unrestored`
  whether a parked directory could not be put back since the last success.
* **AuditSink.** `Add` is the critical section, `Kick` the send after it; the
  loop's select, each batch taken by `flush` and each message sent are steps.
  `sizeOf` and `groupBy` are the loops of `sizeOf` and `groupBySubject`, as
  functions of how many items were looked at.
* **Lifecycle.** `AuditSink` is run action for action; the goroutines that add
  events are the bus goroutine, the workers and the sweeper. The pool is reduced
  to its queue and to who holds which message (`hold`): wake-ups and the clock
  are in `Pool`. `Arrive` to `SubmitShed` are the bus goroutine, `TakeExpired`,
  `Pop` and `Leave` the pool's, `Respond` and `Audit` the two halves of `send`,
  `Signal` to `Exit` the statements of `run` after `waitForSignal`. `accepted`
  and `owed` are history.
* **Inspect.** One exchange goes from its request to a response or a frame.
  Between any two messages other inspectors record actions and a generation may
  change. The levels the buckets return, and which references have a subject at
  all, are inputs. `Pass`, `Refused`, `Shed`, `JudgeSkipped`, `FrameSkipped`,
  `Unavailable`, `ListsFail`, `Judge` and `Measure` are the ways a message ends.
  `judge` is the loop over the rules, as a function of how many were looked at;
  what validation guarantees about rules and amounts (`JudgeRules`, the range of
  `delta`) is assumed of the profiles and actions that are given. A decision
  carries, as in the code, both what is given and what would be: `Observed` withholds
  the verdict, `Scaled` scales either score, `WouldBe` is what the outcomes go by.
  `Decided`, `Ruling` and `Firing` are the handler's use of them for a profile, so
  that a message can be evaluated again under the same profile in another mode.
* **Exchange.** The other half of the handler. A generation is a counters file
  and a profile as records; one that is offered comes into force when `Schema`
  accepts it. `Judge`, `Measure` and `Frame` collect the references of their
  phase, load what they need, find the keys and hand reads and charges to the
  buckets, with the early returns in the order of the code; `Refused`,
  `Unknown` and `Pass` end a message before that. `last` has the last message
  and what was done with it, `judged` and `filled` are history. Whether there is
  a resolver and a buffer store is chosen at the start, which keys the store has
  at every message.

## 3. Abstractions

Task payloads, subjects, file contents and codes are model values; logging,
audit details, JSON and YAML are left out. Time is counted in whole units
(milliseconds in `Pool`, seconds in the buckets). `float64` is replaced by
integers for tiers whose rate and lifetime are whole (`WholeTier`), so rounding
is not covered; in `Exchange` amounts are in 1024ths. `ScaleScore` rounds a
product of floats: an exact half may come out a little less and is rounded down
then (50 with 15 percent more is 57.4999... and rounds to 57), so `HalvesUp` says
for which scores and percentages it is rounded up, and the theorems hold for any
choice. The wall clock does not go back. `RemoveAll` does not fail in
`Generations`. In `Exchange` what is charged is a set with one note per rule and
axis: two notes that one rule charges to one bucket, or an axis that a rule lists
twice, are not counted separately. `Inspect` and `Exchange` follow one frame of a
connection. In `Schema` a text is well-formed or `Garbled`
(the patterns are not spelled out), YAML decoding has happened, defaults
included, and durations are seconds. In `Subjects` hashing is injective, in
`Measures` a body says how often an expression is found in it, and in `Loader` an
encrypted object cannot be read, as `main` configures no source of keys.

In `RedisBuckets` the exact level (`ideal`) counts every charge and credit when
its INCRBYFLOAT runs, with one exception: a credit that runs between the
INCRBYFLOAT and the SET of another call that will correct the bucket may be
undone by that SET, and `ideal` does not count it. `NeverOvercounts` then says
that this is all a correction can do to a subject's disadvantage.

## 4. Runs

All bounds are CONSTANTS of the cfg. Deadlock is checked except in `GenApply`,
where the process may rest for good with nothing left to publish.

| Run | Shows | Bounds and why they are enough |
| --- | --- | --- |
| `PoolWait` | `TypeOK`, `ExactlyOnce`, `QueueBound`, `Conservation`, `SleepsForAReason`, `NoPrematureExpiry` in wait mode | depth 1, so that the submitter waits; two waits in a row and `MinBudget` 0 (which `config.go` accepts), so that a timer whose callback has started outlives its own wait and wakes the next waiter (`WaitAgain`) |
| `PoolAnswers` | `ImplementsAnswering` (refinement with liveness), `CloseReturns`, `NoLostWakeup`, `CloseDrains` in drop mode | 3 messages, 2 workers, depth 1: the queue is full with both workers busy or asleep, tasks expire in it and are shed; fair scheduling |
| `PoolHang` | `AnsweredOrInspected` when inspections may hang | `SpecHang`: no fairness for the handler, a clock that goes on |
| `LocalBuckets` | `TypeOK`, `LedgerBound`, `QuietReturnsToZero`, `IsLeakyBucket` | 3 buckets, a ledger of 2, 2 calls in flight, charges beyond the capacity and below zero, three generations: one reload makes a leak faster and withdraws a counter, the next declares it again; 2 seconds, as long as a slow bucket takes to drain. Two of the buckets are steady |
| `LocalSlower` | **violation** of `QuietReturnsToZero` after a reload to a slower leak | as above, with one reload in the other direction |
| `RedisBuckets` | `TypeOK`, `NeverOvercounts`, `OwnChargeSeen`, `QuietReturnsToZero` | 3 calls, 2 at a time, with a charge, one above the capacity and a credit; time for a key to expire between the commands of one call; one fault |
| `GenApply` | `AppliedIsServed`, `LiveMatchesReport`, `SurvivesRestart`, `LastGoodKept` | 3 publications among valid, invalid and garbled manifests with and without a log level, 2 crashes, 2 failing system calls, no ticker (`reload_every` 0) |
| `GenTicker` | `ServesValid`, `Converges` | ticker and applier, 2 publications among manifests that validate or do not, an edit of the image's directory, a crash, one failing system call: the same manifest published again after it is tried again |
| `GenStale` | **violation** of `HotReload` | 2 manifests, no crash, no failure |
| `Lifecycle` | `AcceptedAnswered`, `AuditsKept`, `Accounted`, `InOrder`, `KickNotLost`, `Exits`, `Flows` | 4 messages, one worker, a queue of 1, a client buffer of 2: the bus goroutine, the worker and the sweeper answer at once and one after the other; 4 events on 2 subjects, one of them a batch by its size, batches of 2, a backlog of 3, one failing publish; a signal at any time |
| `Inspect` | `VerdictIsStrongest`, `ObserveRehearses`, `NoteOnce`, `NoteKept` | four profiles: enforcing, observing, measuring responses only, off; 2 recorded actions (two that scale by up to ninefold or to nothing among them), levels below, at and above the rules' thresholds, a queue half full, one reload, one failure |
| `Exchange` | `InForceRuns`, `OneOwner`, `JudgedIsCharged`, `ChargedInFull` | 132 generations one change away from the first, most of them refused, each offered before the request or before what follows it; every defect of every locator, a missing key, a store that is down or absent, sessions in two orders, clients without address or router |

Every property has a mutant in `PROJECT.json`: a plausible bug in a definition
that models code, under which TLC finds that property violated.

### What the two violations are

* `LocalSlower`. The stored value is `level + rate * epoch`. A reader with
  another rate subtracts another multiple of the seconds since 2024. After a
  reload from 100 to 50 percent loss per second every bucket touched before it
  reads as full and stays so for as long as the process keeps the entry. A message in
  flight over a reload in the other direction does the same for a moment: it reads
  by the slower leak what others have stored by the faster one.
  `profiles/_shared/counters.yaml:9` says "A quiet subject returns to zero in
  100/loss seconds". The Redis store has the same representation.
* `GenStale`. `read` takes the fingerprint after the contents. The ticker reads
  the old tree, a manifest swaps the directory and stores the new snapshot, the
  ticker fingerprints the new tree and stores the old contents under it. Every
  later tick finds the fingerprint unchanged; the old generation is served
  while the heartbeat reports the new one.

### Refinements

* `Pool!Promise == INSTANCE Answering WITH status <- ...`: a message is new,
  pending or answered; `ImplementsAnswering` is its specification, liveness
  included.
* `LocalBuckets!Ideal == INSTANCE LeakyBucket WITH ...`: the levels now of the steady
  buckets, whose capacity and leak no generation changes (it may withdraw the
  counter); `IsLeakyBucket` is its specification. The clock forces the leak: every
  second takes the same off every level. A charge counts in full as of the moment its
  call read the clock, and has leaked since; a bucket may be forgotten; nothing else
  changes a level. For the other buckets this is false (see `LocalSlower`).

### Fairness

* `Pool`: weak fairness of each goroutine's own steps (Go schedules runnable
  goroutines, and `sync.Mutex` hands over to a waiter that starves), of timers
  and of `Close` once called. In `Spec` an inspection ends, because
  its context has a deadline; `SpecHang` does without and instead lets the clock
  go on. Nothing makes messages arrive or `main` close the pool.
* `Generations`: the applier, the ticker and the start of a process that is down
  (a container is restarted). Nothing makes a controller publish.
* `Lifecycle`: the bus goroutine while it has messages, each goroutine of the
  pool with what it holds, the sink's goroutine with its ticker, and `main` once
  it has been signalled. Nothing makes messages come, tasks expire or a signal
  be sent.
* The other modules have safety properties only.

## 5. Theorems

Seven modules prove properties of the modules they are named after, for every
value of the constants that the named assumptions allow. `PROJECT.json` lists the
theorems. An assumption is what the code guarantees: `config.go` refuses limits
below one and no workers at all, goroutines, bucket keys and calls at one time
are finitely many, time starts at a natural number, validation bounds what a
profile in force may say, a locator is a pointer (there is one or none).

### Pool

Under `PoolAssumption`, for every number of messages, set of workers, depth,
mode, deadline, reserve and clock bound: `TypeCorrect`, `AnsweredOnce`,
`BoundedQueue`, `WakeupsNotLost`, `SubmitterNotStranded`, `ClosedPoolIsDrained`,
`CountersAddUp` (`Conservation`), `ExpiryNotPremature` and `RefinesAnswering`:
the pool starts as `Answering` does, and each of its steps is one of `Answering`
or leaves `status` alone.

The argument. `ExactlyOnce` alone is not inductive: it must be known which
control states hold what. `Shape` says so (a worker holds a popped task exactly
while it is between `pop` and its answer, a thread holds expired tasks exactly
while it answers them) and `HoldOnce` that the hands of two threads are
disjoint. `PoolInv == TypeOK /\ Shape /\ ExactlyOnce /\ HoldOnce` is inductive:
seen from the tasks, every action takes tasks out of the queue into one
thread's hands, brings a new task, answers one, or puts the submitter's into
the queue, and four lemmas show that each of these keeps `ExactlyOnce`. The
refinement and the counters follow the same four moves: each is a step of
`Answering`, and each moves as many tasks out of one of the sets that
`Conservation` counts as it moves into another. The other half of `Conservation`
(`Booked`) bounds the counter of accepted messages from both sides: every call of
`Submit` that has returned accepted its message, shed it or found it expired.
For the wakeups, `Awake` adds who may sleep, that nobody sleeps in a closed pool and that a
worker leaves only a closed and emptied one, and `TimerSet` that a waiting
submitter has armed its timer. `WakeInv == Awake /\ QueueBound /\ NoLostWakeup
/\ SleepsForAReason` is then inductive relative to `PoolInv`; the one step that
is not immediate is `enqueueLocked`, which adds one task and wakes one thread:
a submitter that appends is not asleep, so the thread it wakes is a worker.
`CloseDrains` follows from both invariants.

### Buckets in memory

For any number of calls in flight, any messages and any generations,
`LocalTypeCorrect` (every level `applyLocal` returns is in 0..capacity) and
`LedgerIsBounded` hold, and `LedgerLeaks` (`IsLeakyBucket`, the whole refinement)
for the steady buckets: a bucket with one tier stores the same moment whoever
charges it, so that calls of older generations and late clock readings do no harm.
`QuietIsEmpty` is about all buckets and needs `Quicker`, a condition on the
generations deployed: none slows a leak or changes a capacity other than to zero. That
hypothesis is not a convenience: `LocalSlower` shows the property violated without
it, and the instance of the passing run satisfies it. Its invariant is
`StoredBound`: what is stored for a bucket is at most what a full bucket would have
stored at its last charge, by the tier of some generation that has been in force.
That tier leaks no faster than the one in force, so the bucket has drained in time.

### Buckets in Redis

`RedisTypeCorrect`, `NoOvercount`, `ChargeIsSeen` and `QuietIsEmpty`, for any
finite set of callers and any number of calls and faults. `RedisInv` has the
exact level as it would be stored (`Exact == Rate * now + ideal`), which never
falls as time passes, and `Bounded`: what is stored, and what every correction
under way is about to store, is at most that. `Control` says what a call has in
hand at each of its steps. For `QuietIsEmpty`, `Living` says that a key with a
time to live is gone by the time it has drained, and `Orphaned` bounds a key
without one by the charges of the calls that have yet to renew it or failed
before they did. Hence the hypothesis `A * MaxFaults <= Rate * Start`: what all
lost calls charge is below what the bucket has leaked since the epoch. Without it
the property is false: a key that lost calls leave without a time to live keeps
what they charged, and reads as a level until the leak since the epoch exceeds it.
With an epoch in 2024 that is tens of millions of seconds' worth of leak.

### Generations

`ServedIsValid`, `ReportMatchesDisk`, `LastGoodIsKept`, `ReportSurvivesRestart`
and `ReportedIsServed`, for any manifests, edits, crashes and failed system
calls. `Checked` says that, past the validation, a reader has a pair that
fits, whatever the other one does to the directory meanwhile. The disk is only
written by the applier, so that it reads undisturbed (`Undisturbed`); `Tidy`,
`LastGood` and `Reported` say where the last good tree and the reported manifest
are at each step of `Apply`: `.prev` has what was live before until the manifest
is known to be good or is taken back, and when the applier rests the reported
manifest is live unless `unrestored` is set. `Survivor` says what of that a crash
leaves on the disk for the next start. `ReportedIsServed` rests on `ServedInv`
and `LevelInv` (the level is what was called for, but between `Report` and
`ApplySettings`). It assumes `~Ticking` (`reload_every` 0): with the ticker
`AppliedIsServed` is false, which is what `GenStale` shows.

### The process and the audit sink

`SinkKeepsBooks` has the invariant of the sink: events are numbered as they are
added, what is published on a subject comes before what is in the batch, and that
before what is pending (`Ordered`), `Accounted` and `KickNotLost`.
`PublishedInOrder`, `NothingVanishes` and `KickArrives` follow. They rest on
lemmas about the loops of the sink: `sizeOf` adds up, `groupBy` returns the items
of one subject, all of them, in their order, and `keepLast` drops the oldest.
The steps of the process either are steps of the sink or leave it alone.
`AcceptedIsAnswered` and `AuditsAreKept` rest on `FlowInv`: an accepted message
is queued or in someone's hands; a goroutine that left has nothing in its hands
and left because the pool was closing; `main` is past a stage only when everyone
it waits for has left (`Staged`); an owed event is in the sink (`OwedInSink`).

### The handler's decisions

* `ChargedOnce` (`NoteOnce`), from `History`: every note in the history was
  recorded in a phase that `chargeHere` admits under the profile it was charged
  with.
* `NoNoteIsLost` (`NoteKept`), from `Kept`: what a settled phase saw is still
  there, in the same place, and what was its own to charge has been charged; the
  response phase owes what the request phase left.
* `RehearsalIsTrue` (`ObserveRehearses`) compares what observe mode fired with the
  evaluation of the same message under the same profile in enforce mode, which
  goes another way: its verdict is given, scaled as such and handed to the outcomes
  itself. The lemma `WouldIsWill` shows that both lead to the same verdict and score.
* `StrongestWins` (`VerdictIsStrongest`), by induction along the loop of `judge`:
  the decision after the first i rules is the strongest of those among them that
  fired (`Strongest`). `PercentIs` shows that the sum of the thresholds is clamped,
  whatever is recorded; `ScaleFacts` that scaling is monotonic and stays in 0..100.

### The handler's inputs

For any counters files and profiles, valid or not, any clients, messages and
contents of the buffer store:

* `CountersHaveOneOwner` (`OneOwner`), from `Owned`: under the counters in force
  each charge was made by whoever fills its counter. What charges is what
  `ValidateAgainst` admitted (`MeasuredIsLawful`, `NotedIsLawful`), and the
  histories end with their counters file.
* `AcceptedRuns` (`InForceRuns`), from `Vetted` (what is in force was accepted as a
  whole), `Touched` (what the last message touched has a tier, and a connection's
  bucket only in a frame) and `Fresh` (a message is only in `last` until the next
  may come, so a reload does not put its buckets under other counters).
* `EveryChargeIsMade` (`ChargedInFull`). Three detours have to come to the same as
  the direct way of `Due`: objects loaded in one batch are as if loaded alone
  (`LoadsAlike`, with induction along the loop of `LoadMany` for what is in a
  batch); subjects looked up for all references at once are those of each
  (`KeyIsSubject`), also where the headers were not loaded because no reference
  wants them (`HeadersUnwanted`, `KeysFound`); and values are those of all rules
  although fields that no rule looks at were left empty (`RunsAlike`). What
  validation says is needed here too: a `user` axis without a source, or a rule with
  an unknown source, would break the second and the third.
* `WhoIsJudgedIsCharged` (`JudgedIsCharged`), from `Traced`: whoever was judged was
  a subject of a request of the exchange, and what was charged last was due to the
  message it is charged for. It needs the messages to be of one exchange
  (`OneExchange`): those that can load the request's headers load the same, and
  those that list sessions list the same set, in which no two have the same inspector
  and source. `MCExchange` asserts that of the instance. Without the last part it would be
  false: `sessionValue` then prefers the first one listed, so that the order
  decides (`OrderDoesNotMatter`).

All four go through one lemma (`Moves`): a step offers a generation, begins the
next phase, or answers a message with reads and charges that are `Lawful` and
`InFull`; one lemma for each handler shows the latter.

### How loops are handled

The provers cannot instantiate the induction theorems of the library, which have
an operator as their parameter. `Lemmas` states induction along a loop with a
set instead (`UpTo`: a set that has 0, and i with i - 1, has every i up to n),
derives from it that the recursive function of a loop exists (`PrefixRecursion`)
and what a sum over a finite set is (`SumOfIntegers`); the theorems about loops
above cite these.

### Only model-checked

* Liveness: `ImplementsAnswering` beyond its steps, `CloseReturns`,
  `AnsweredOrInspected`, `Converges`, `Exits`, `Flows`. They need
  fairness and ENABLED, which the prover does not handle.
* What the two runs that expect a violation check: `QuietReturnsToZero` after a
  reload to a slower leak, and `HotReload`, do not hold.

## 6. Not modelled, and why

* `config.go`, `file.go`, `logship.go`: the environment and `inspector.conf` are
  parsed once, at start, without state; the values are the CONSTANTS.
* JSON and YAML decoding, the patterns of names, codes and markers, durations.
* `audit.Build`, the details in audit events, log lines, the heartbeat,
  `cmd/probe`: they report and keep nothing.
* The profile `_probe` that a generation without one borrows from the image
  directory, and more than one profile per generation: each is validated and
  served by itself.
* The bus, Redis and the network directory are external: messages may be lost
  before they reach the client and over its limit (`Arrive`), Redis may lose
  keys, calls and connections, the directory finds a network and router or not.

Observations that no property states:

* `Drain` and `Close` do not wait for the bus goroutine: what the client has
  buffered, a task that `Submit` took out as expired, and the events of both may
  be lost when the process exits. `AcceptedAnswered` and `AuditsKept` say exactly
  which.
* After a crash between park and the end of `Apply`, or a rename that fails in its
  recovery, the last good tree is in `.prev` only;
  `Bootstrap` does not look there, and the next manifest, a rejected one
  included, removes it. `LastGoodKept` has this one exception, and
  `SurvivesRestart` names the start on the image's profiles that it leads to.
* Without a network directory every message that refers to an `asn_net` or
  `asn_router` axis is answered with an error, whatever its other axes
  (`handler.go:189`, `458`, `frame.go:86`); `INSTALL.md:30` says that an empty
  address "keeps the `asn_net` and `asn_router` axes silent, the others work".
* `INSTALL.md:14` says that without the internal Redis "evaluation answers
  `verdict: error`"; the process counts in memory (`main.go:147`).
* `handler.measure` loads the headers of request and response whether or not a
  rule or axis needs them (`handler.go:393`), so a buffer store that is down or
  not configured fails every response; `INSTALL.md:15` asks for it only "for the
  `sess` and `user` axes and body rules".
* An outcome with `on: level` in the request section may name the axis `conn`
  (`profile.go:443`), although a judge rule may not; it never fires.
* A message in flight over a reload to a faster leak applies the tiers of its own
  snapshot (`handler.go:229`): it reads a nearly empty bucket that others charged
  by the new tiers as full, is judged by that, and writes the full level back.
* A skip in the request phase also drops the notes of that phase, whereas a frame
  charges before it skips; `NoteKept` names this as its exception.
* A correcting SET may lose a concurrent charge or undo a concurrent credit.

## 7. Plan

Done: the pool, both bucket stores, the generations, the process with its sink,
both halves of the handler, and the schema, subjects, measures and loader they
use, with proofs of every safety property that the passing runs check. Next:

1. Safety parts of the liveness arguments, as theorems: for each thread of the pool
   that holds something, the action that lets it go on is not blocked by another
   thread (a statement about guards, without ENABLED).
2. A bound, in place of `Quicker`, on how long a reload to a slower leak, or a message
   in flight over one to a faster leak, can keep a bucket in memory full.
