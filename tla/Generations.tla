---------------------------- MODULE Generations ----------------------------
(***************************************************************************)
(* Profile generations: config.Store (internal/config/profiles.go), which  *)
(* serves a snapshot of a directory and re-reads the directory on a ticker *)
(* when its fingerprint changes, and internal/desired/desired.go, which    *)
(* writes the manifests that arrive over the bus into the data directory   *)
(* and switches the store over to it.  Both run at the same time, file by  *)
(* file, over the same directories; the process may crash anywhere.        *)
(*                                                                         *)
(* A directory is a function from the files it holds to their versions, a  *)
(* version a content and a stamp (size and modification time).  Two files  *)
(* stand for a tree: the shared counters and the default profile, which is *)
(* validated against them.                                                 *)
(***************************************************************************)
EXTENDS Naturals, Sequences, SequencesExt

CONSTANTS
    Manifests,      \* the manifests a controller may publish: their contents
    Malformed,      \* those of them that Parse rejects
    Image,          \* the content of the profiles in the image
    Edits,          \* the contents an operator may put into the image's directory
    Fits,           \* pairs << counters, profile >> of contents that validate
    LevelOf,        \* LevelOf[m]: the log level in manifest m's settings, None for none
    Ticking,        \* whether reload_every is positive: the ticker runs
    MaxPublish, MaxEdits, MaxCrashes, MaxFaults     \* bounds

None == "none"

Contents == Manifests \union Edits \union {Image}

ASSUME GenerationsAssumption ==
    /\ Malformed \subseteq Manifests
    /\ Image \notin Manifests /\ None \notin Manifests
    /\ Fits \subseteq Contents \X Contents
    /\ << Image, Image >> \in Fits
    /\ DOMAIN LevelOf = Manifests
    /\ Ticking \in BOOLEAN
    /\ MaxPublish \in Nat /\ MaxEdits \in Nat /\ MaxCrashes \in Nat /\ MaxFaults \in Nat

Files == {"counters", "profile"}

VARIABLES
    disk,       \* disk[d]: the files of directory d: base, live or prev
    stamp,      \* the last stamp given to a file
    kv,         \* the manifests published so far, in order
    edits,      \* edits of the base directory so far
    seen,       \* how many of kv the watcher has been given
    dir,        \* Store.dir: "base" or "live"
    cur,        \* Store.cur: the snapshot that is served
    level,      \* the log level: Env, from the environment, or one of a manifest
    applied,    \* Applied: the manifest last applied, and how the last one went
    pc,         \* pc[th]: where the applier and the ticker are
    got,        \* got[th]: the snapshot thread th is reading
    rdir,       \* rdir[th]: the directory it reads it from
    want,       \* applier: the manifest it applies
    lived,      \* applier: whether there was a live directory
    back,       \* applier: Store.dir before ReloadFrom changed it
    restoring,  \* applier: whether it reloads the directory it put back
    crashes, faults,    \* so far
    spoilt,     \* whether a system call failed in the apply last begun (history)
    unrestored, \* whether a parked directory could not be put back, since the last
                \* manifest that was reported as applied (history)
    good,       \* the manifest last served from the data directory (history)
    called,     \* the level the manifests reported as applied call for (history)
    kept        \* what the last crash met: the manifest reported as applied, and
                \* the one that was being applied (history)

published == << kv, edits >>
memory == << dir, cur, level, applied >>
local == << want, lived, back, restoring >>
reading == << got, rdir >>
failures == << faults, spoilt >>
record == << crashes, good, called, kept >>
history == << failures, unrestored, record >>
vars == << disk, stamp, published, seen, memory, pc, reading, local, history >>

Applier == "applier"
Ticker == "ticker"
Threads == {Applier, Ticker}

Absent == << >>
Env == "env"
NoPrint == [f \in Files |-> 0]
Nothing == [counters |-> None, profile |-> None, fp |-> NoPrint]

(* A tree written at once, with one stamp. *)
Tree(m, n) == [f \in Files |-> [content |-> m, stamp |-> n]]

(* What reading a whole directory undisturbed gives. *)
Loadable(t) == DOMAIN t = Files /\ << t["counters"].content, t["profile"].content >> \in Fits
Content(t) == << t["counters"].content, t["profile"].content >>
Served == << cur.counters, cur.profile >>
SnapshotOf(t) == [counters |-> t["counters"].content, profile |-> t["profile"].content,
                  fp |-> [f \in Files |-> t[f].stamp]]

Init ==
    /\ disk = [base |-> Tree(Image, 1), live |-> Absent, prev |-> Absent]
    /\ stamp = 1
    /\ kv = << >> /\ edits = 0 /\ seen = 0
    /\ dir = "base"
    /\ cur = Nothing
    /\ level = Env
    /\ applied = [hash |-> None, apply |-> None]
    /\ pc = [th \in Threads |-> "down"]
    /\ got = [th \in Threads |-> Nothing]
    /\ rdir = [th \in Threads |-> "base"]
    /\ want = None /\ lived = FALSE /\ back = "base" /\ restoring = FALSE
    /\ crashes = 0 /\ faults = 0 /\ spoilt = FALSE /\ unrestored = FALSE
    /\ good = None /\ called = Env /\ kept = [hash |-> None, next |-> None]
-----------------------------------------------------------------------------
(* The world: a controller publishes, an operator edits a file in place. *)
Publish(m) ==
    /\ Len(kv) < MaxPublish
    /\ kv' = Append(kv, m)
    /\ UNCHANGED << disk, stamp, edits, seen, memory, pc, reading, local, history >>

EditBase(f, c) ==
    /\ edits < MaxEdits
    /\ edits' = edits + 1
    /\ stamp' = stamp + 1
    /\ disk' = [disk EXCEPT !.base[f] = [content |-> c, stamp |-> stamp + 1]]
    /\ UNCHANGED << kv, seen, memory, pc, reading, local, history >>
-----------------------------------------------------------------------------
(* Mutant: the applied generation is not looked for. *)
BootstrapNothing ==
    /\ dir' = "base"
    /\ cur' = SnapshotOf(disk.base)

(* LoadProfiles from the image's directory, then Bootstrap from the data   *)
(* directory if what it holds can be used.                                 *)
Bootstrap ==
    \/ Loadable(disk.live) /\ dir' = "live" /\ cur' = SnapshotOf(disk.live)
    \/ ~Loadable(disk.live) /\ dir' = "base" /\ cur' = SnapshotOf(disk.base)

(* Mutant: the watcher is given changes only. *)
KVWatchUpdatesOnly == seen' = Len(kv)

(* The bus watcher begins with the last value published, if there is one. *)
KVWatch == seen' = IF kv = << >> THEN 0 ELSE Len(kv) - 1

(* The process comes up; nothing runs beside it until it is done.  With an *)
(* image directory that cannot be loaded it does not come up.              *)
Start ==
    /\ \A th \in Threads : pc[th] = "down"
    /\ Loadable(disk.base)
    /\ Bootstrap
    /\ KVWatch
    /\ pc' = [th \in Threads |-> IF th = Ticker /\ ~Ticking THEN "off" ELSE "idle"]
    /\ good' = IF dir' = "live" THEN cur'.profile ELSE good
    /\ UNCHANGED << disk, stamp, published, level, applied, reading, local, failures, unrestored,
                    crashes, called, kept >>

(* Memory is lost, the disk keeps whatever was done. *)
Crash ==
    /\ pc[Applier] # "down"
    /\ crashes < MaxCrashes
    /\ crashes' = crashes + 1
    /\ kept' = [hash |-> applied.hash, next |-> want]
    /\ spoilt' = FALSE /\ called' = Env
    /\ pc' = [th \in Threads |-> "down"]
    /\ dir' = "base" /\ cur' = Nothing
    /\ level' = Env
    /\ applied' = [hash |-> None, apply |-> None]
    /\ got' = [th \in Threads |-> Nothing]
    /\ rdir' = [th \in Threads |-> "base"]
    /\ want' = None /\ lived' = FALSE /\ back' = "base" /\ restoring' = FALSE
    /\ UNCHANGED << disk, stamp, published, seen, faults, unrestored, good >>
-----------------------------------------------------------------------------
(* Store.read, by either thread. *)
GoOn(th, step) == pc' = [pc EXCEPT ![th] = step]

ReadFrom(th, d) ==
    /\ rdir' = [rdir EXCEPT ![th] = d]
    /\ got' = [got EXCEPT ![th] = Nothing]

(* An error in read: Reload gives up, ReloadFrom first puts the directory  *)
(* back to what it was.                                                    *)
ReadError(th) ==
    /\ \/ th = Ticker /\ GoOn(th, "idle") /\ UNCHANGED dir
       \/ th = Applier /\ dir' = back /\ GoOn(th, IF restoring THEN "failed" ELSE "discard")
    /\ got' = [got EXCEPT ![th] = Nothing]
    /\ UNCHANGED << disk, stamp, published, seen, cur, level, applied, rdir, local, history >>

ReadDir(th) == disk[rdir[th]]

ReadCounters(th) ==
    /\ pc[th] = "counters"
    /\ \/ /\ "counters" \notin DOMAIN ReadDir(th)
          /\ ReadError(th)
       \/ /\ "counters" \in DOMAIN ReadDir(th)
          /\ got' = [got EXCEPT ![th].counters = ReadDir(th)["counters"].content]
          /\ GoOn(th, "profile")
          /\ UNCHANGED << disk, stamp, published, seen, memory, rdir, local, history >>

(* Mutant: the profile is validated against the counters in force. *)
ValidatesAgainstCurrent(th) ==
    /\ "profile" \in DOMAIN ReadDir(th)
    /\ << cur.counters, ReadDir(th)["profile"].content >> \in Fits

(* The default profile is there and refers to declared counters only. *)
Validates(th) ==
    /\ "profile" \in DOMAIN ReadDir(th)
    /\ << got[th].counters, ReadDir(th)["profile"].content >> \in Fits

ReadProfile(th) ==
    /\ pc[th] = "profile"
    /\ \/ ~Validates(th) /\ ReadError(th)
       \/ /\ Validates(th)
          /\ got' = [got EXCEPT ![th].profile = ReadDir(th)["profile"].content]
          /\ GoOn(th, "walk1")
          /\ UNCHANGED << disk, stamp, published, seen, memory, rdir, local, history >>

(* fingerprint: a walk over the files, in order of their names.  A file    *)
(* that goes away during the walk is an error or goes unnoticed; a missing *)
(* directory is an error.                                                  *)
Walk(th, f, from, to) ==
    /\ pc[th] = from
    /\ \/ /\ f \notin DOMAIN ReadDir(th)
          /\ ReadError(th)
       \/ /\ f \notin DOMAIN ReadDir(th) /\ ReadDir(th) # Absent
          /\ GoOn(th, to)
          /\ UNCHANGED << disk, stamp, published, seen, memory, reading, local, history >>
       \/ /\ f \in DOMAIN ReadDir(th)
          /\ got' = [got EXCEPT ![th].fp[f] = ReadDir(th)[f].stamp]
          /\ GoOn(th, to)
          /\ UNCHANGED << disk, stamp, published, seen, memory, rdir, local, history >>

Fingerprint(th) == Walk(th, "counters", "walk1", "walk2") \/ Walk(th, "profile", "walk2", "store")

StoreSnapshot(th) ==
    /\ pc[th] = "store"
    /\ cur' = got[th]
    /\ got' = [got EXCEPT ![th] = Nothing]
    /\ GoOn(th, IF th = Ticker THEN "idle" ELSE IF restoring THEN "failed" ELSE "prune")
    /\ UNCHANGED << disk, stamp, published, seen, dir, level, applied, rdir, local, history >>

Read(th) == ReadCounters(th) \/ ReadProfile(th) \/ Fingerprint(th) \/ StoreSnapshot(th)
-----------------------------------------------------------------------------
(* Store.Reload, at a tick: the fingerprint first, and a read when it      *)
(* differs from that of the snapshot in force.                             *)
TickStart ==
    /\ pc[Ticker] = "idle"
    /\ ReadFrom(Ticker, dir)
    /\ GoOn(Ticker, "check1")
    /\ UNCHANGED << disk, stamp, published, seen, memory, local, history >>

Check ==
    \/ Walk(Ticker, "counters", "check1", "check2")
    \/ Walk(Ticker, "profile", "check2", "compare")

Compare ==
    /\ pc[Ticker] = "compare"
    /\ \/ got[Ticker].fp = cur.fp /\ GoOn(Ticker, "idle") /\ UNCHANGED rdir
       \/ /\ got[Ticker].fp # cur.fp
          /\ rdir' = [rdir EXCEPT ![Ticker] = dir]
          /\ GoOn(Ticker, "counters")
    /\ got' = [got EXCEPT ![Ticker] = Nothing]
    /\ UNCHANGED << disk, stamp, published, seen, memory, local, history >>

TickerStep == TickStart \/ Check \/ Compare \/ Read(Ticker)
-----------------------------------------------------------------------------
(* desired.Watch: the next value of the key.  What Parse rejects and what  *)
(* is in force already is skipped.                                         *)
Skipped(m) == m \in Malformed \/ applied = [hash |-> m, apply |-> "ok"]

Deliver ==
    /\ pc[Applier] = "idle"
    /\ seen < Len(kv)
    /\ seen' = seen + 1
    /\ spoilt' = FALSE
    /\ LET m == kv[seen + 1]
       IN  \/ Skipped(m) /\ UNCHANGED << want, pc >>
           \/ ~Skipped(m) /\ want' = m /\ GoOn(Applier, "stage")
    /\ UNCHANGED << disk, stamp, published, memory, reading, lived, back, restoring, faults,
                    unrestored, record >>

(* The system call fails (bounded). *)
Fault == faults < MaxFaults /\ faults' = faults + 1 /\ spoilt' = TRUE

ApplierGoesOn(step) ==
    /\ GoOn(Applier, step)
    /\ UNCHANGED << stamp, published, seen, memory, reading, want, back, restoring, unrestored,
                    record >>

(* desired.Apply: the tree is written to .next, which nobody reads. *)
Stage ==
    /\ pc[Applier] = "stage"
    /\ \/ Fault /\ ApplierGoesOn("failed")
       \/ ApplierGoesOn("dropPrev") /\ UNCHANGED failures
    /\ UNCHANGED << disk, lived >>

DropPrev ==
    /\ pc[Applier] = "dropPrev"
    /\ disk' = [disk EXCEPT !.prev = Absent]
    /\ ApplierGoesOn("park")
    /\ UNCHANGED << lived, failures >>

(* Mutant: the live directory is removed, not parked. *)
ParkNothing ==
    /\ pc[Applier] = "park"
    /\ lived' = (disk.live # Absent)
    /\ disk' = [disk EXCEPT !.live = Absent]
    /\ ApplierGoesOn("promote")
    /\ UNCHANGED failures

Park ==
    /\ pc[Applier] = "park"
    /\ \/ /\ disk.live = Absent
          /\ lived' = FALSE
          /\ ApplierGoesOn("promote")
          /\ UNCHANGED << disk, failures >>
       \/ /\ disk.live # Absent
          /\ disk' = [disk EXCEPT !.prev = disk.live, !.live = Absent]
          /\ lived' = TRUE
          /\ ApplierGoesOn("promote")
          /\ UNCHANGED failures
       \/ /\ disk.live # Absent /\ Fault
          /\ ApplierGoesOn("failed")
          /\ UNCHANGED << disk, lived >>

(* Rename .next over; if that fails, the parked directory is put back,     *)
(* unless that fails too.                                                  *)
Promote ==
    /\ pc[Applier] = "promote"
    /\ \/ /\ stamp' = stamp + 1
          /\ disk' = [disk EXCEPT !.live = Tree(want, stamp + 1)]
          /\ GoOn(Applier, "reload")
          /\ UNCHANGED << failures, unrestored >>
       \/ /\ Fault
          /\ \/ /\ lived
                /\ disk' = [disk EXCEPT !.live = disk.prev, !.prev = Absent]
                /\ UNCHANGED unrestored
             \/ UNCHANGED disk /\ unrestored' = (unrestored \/ lived)
          /\ GoOn(Applier, "failed")
          /\ UNCHANGED stamp
    /\ UNCHANGED << published, seen, memory, reading, local, record >>

(* ReloadFrom(live): the directory is switched before it is read. *)
ReloadFrom ==
    /\ pc[Applier] = "reload"
    /\ back' = dir
    /\ dir' = "live"
    /\ ReadFrom(Applier, "live")
    /\ GoOn(Applier, "counters")
    /\ UNCHANGED << disk, stamp, published, seen, cur, level, applied, want, lived, restoring,
                    history >>

(* RemoveAll(live) of a rejected tree, file by file. *)
Discard ==
    /\ pc[Applier] = "discard"
    /\ \/ /\ disk.live # Absent
          /\ \E f \in DOMAIN disk.live :
                disk' = [disk EXCEPT !.live = [g \in DOMAIN disk.live \ {f} |-> disk.live[g]]]
          /\ ApplierGoesOn("discard")
       \/ disk.live = Absent /\ ApplierGoesOn("restore") /\ UNCHANGED disk
    /\ UNCHANGED << lived, failures >>

(* Mutant: the rejected tree is removed, the parked one not put back. *)
RestoreNothing ==
    /\ pc[Applier] = "restore"
    /\ GoOn(Applier, "failed")
    /\ UNCHANGED << disk, stamp, published, seen, memory, reading, local, history >>

Restore ==
    /\ pc[Applier] = "restore"
    /\ \/ /\ lived
          /\ disk' = [disk EXCEPT !.live = disk.prev, !.prev = Absent]
          /\ restoring' = TRUE
          /\ GoOn(Applier, "reload")
          /\ UNCHANGED << failures, unrestored >>
       \/ /\ \/ lived /\ Fault /\ unrestored' = TRUE
             \/ ~lived /\ UNCHANGED << failures, unrestored >>
          /\ GoOn(Applier, "failed")
          /\ UNCHANGED << disk, restoring >>
    /\ UNCHANGED << stamp, published, seen, memory, reading, want, lived, back, record >>

(* Mutant: a failure is reported under the manifest that failed. *)
FailedUnderNewHash ==
    /\ pc[Applier] = "failed"
    /\ applied' = [hash |-> want, apply |-> "apply_failed"]
    /\ restoring' = FALSE /\ want' = None /\ lived' = FALSE
    /\ GoOn(Applier, "idle")
    /\ UNCHANGED << disk, stamp, published, seen, dir, cur, level, reading, back, history >>

(* The report of a failure keeps the hash and revision in force. *)
Failed ==
    /\ pc[Applier] = "failed"
    /\ applied' = [applied EXCEPT !.apply = "apply_failed"]
    /\ restoring' = FALSE /\ want' = None /\ lived' = FALSE
    /\ GoOn(Applier, "idle")
    /\ UNCHANGED << disk, stamp, published, seen, dir, cur, level, reading, back, history >>

(* The end of Apply: the parked directory is no longer needed. *)
Prune ==
    /\ pc[Applier] = "prune"
    /\ disk' = [disk EXCEPT !.prev = Absent]
    /\ good' = want
    /\ GoOn(Applier, "report")
    /\ UNCHANGED << stamp, published, seen, memory, reading, local, failures, unrestored, crashes,
                    called, kept >>

(* A manifest without settings leaves the level alone. *)
levelOr(m, l) == IF LevelOf[m] = None THEN l ELSE LevelOf[m]

(* Applied.set: the heartbeat reports the manifest from here on. *)
Report ==
    /\ pc[Applier] = "report"
    /\ applied' = [hash |-> want, apply |-> "ok"]
    /\ called' = levelOr(want, called)
    /\ unrestored' = FALSE
    /\ GoOn(Applier, "settings")
    /\ UNCHANGED << disk, stamp, published, seen, dir, cur, level, reading, local, failures,
                    crashes, good, kept >>

(* Settings.apply, after the report. *)
ApplySettings ==
    /\ pc[Applier] = "settings"
    /\ level' = levelOr(want, level)
    /\ want' = None /\ lived' = FALSE
    /\ GoOn(Applier, "idle")
    /\ UNCHANGED << disk, stamp, published, seen, dir, cur, applied, reading, back, restoring,
                    history >>

ApplierStep ==
    \/ Deliver \/ Stage \/ DropPrev \/ Park \/ Promote \/ ReloadFrom \/ Read(Applier)
    \/ Discard \/ Restore \/ Failed \/ Prune \/ Report \/ ApplySettings

Next ==
    \/ \E m \in Manifests : Publish(m)
    \/ \E f \in Files, c \in Edits : EditBase(f, c)
    \/ Start \/ Crash
    \/ TickerStep
    \/ ApplierStep

(* The goroutines run and the ticker ticks; a process that went down is    *)
(* started again.  Nothing makes a controller publish or an operator edit. *)
Spec ==
    /\ Init /\ [][Next]_vars
    /\ WF_vars(Start) /\ WF_vars(TickerStep) /\ WF_vars(ApplierStep)
-----------------------------------------------------------------------------
(* profiles/_shared/counters.yaml:4: "a reference to an undeclared counter *)
(* rejects the whole generation": whatever swaps, edits, failures and      *)
(* crashes meet the readers, the counters and the profile that are served  *)
(* together have been validated together.                                  *)
ServesValid == cur # Nothing => Served \in Fits

(* Directory tree t holds manifest m, all of it. *)
Whole(t, m) == DOMAIN t = Files /\ Content(t) = << m, m >>

(* When the applier rests, the manifest the heartbeat reports is the one   *)
(* on disk, also after one that was rejected, or that some system call     *)
(* kept from being written.  Only where the parked directory could not be  *)
(* put back there is none, and then the report says that an apply failed.  *)
LiveMatchesReport ==
    pc[Applier] = "idle" /\ applied.hash # None
    => \/ Whole(disk.live, applied.hash)
       \/ unrestored /\ applied.apply = "apply_failed" /\ disk.live = Absent

(* Without the ticker, what the heartbeat reports is what is served, as a  *)
(* whole, at every step of an apply, whatever failed: another manifest is  *)
(* served only from the moment it is stored to the report of it, and the   *)
(* level in force is what the manifests reported call for, but for the     *)
(* moment between the report and the settings.                             *)
AppliedIsServed ==
    /\ applied.hash # None =>
          Served = IF pc[Applier] \in {"prune", "report"} THEN << want, want >>
                   ELSE << applied.hash, applied.hash >>
    /\ pc[Applier] # "settings" => level = called

(* The directories below the data directory that hold manifest m whole. *)
Copies(m) == {d \in {"live", "prev"} : Whole(disk[d], m)}

(* The generation last served from the data directory is not destroyed     *)
(* before another one takes its place, whatever is rejected, fails or      *)
(* crashes on the way.  One case is left: where a crash between park and   *)
(* the end of Apply, or a rename that fails in the recovery, has left it   *)
(* in .prev only, the next manifest removes it, and Bootstrap does not     *)
(* look there.                                                             *)
LastGoodKept ==
    [][good # None /\ Copies(good) # {} /\ good' = good
       => \/ Copies(good)' # {}
          \/ pc[Applier] = "dropPrev" /\ ~Loadable(disk.live)]_vars

(* Wherever the process goes down, when it comes up again it serves the    *)
(* manifest that was reported as applied then, or, if the crash came in an *)
(* apply, the one that was being applied.  Two cases are left, in which    *)
(* Bootstrap finds nothing to load: a crash in an apply while the          *)
(* manifest reported was parked in .prev, or a parked directory that could *)
(* not be put back.                                                        *)
SurvivesRestart ==
    [][pc[Applier] = "down" /\ pc'[Applier] # "down" /\ kept.hash # None
       => \/ Served' = << kept.hash, kept.hash >>
          \/ kept.next # None /\ Served' = << kept.next, kept.next >>
          \/ ~Loadable(disk.live) /\ kept.next # None /\ Copies(kept.hash) = {"prev"}
          \/ ~Loadable(disk.live) /\ unrestored]_vars

(* The last manifest published is applied in the end, if it is valid,      *)
(* whatever came before it and wherever the process crashed, unless a      *)
(* system call failed while that very one was applied: published again, it *)
(* is tried again.                                                         *)
Converges ==
    <>[](kv # << >> /\ << Last(kv), Last(kv) >> \in Fits /\ Last(kv) \notin Malformed
         => \/ spoilt
            \/ applied = [hash |-> Last(kv), apply |-> "ok"] /\ Whole(disk.live, Last(kv)))

(* README.md:54 "hot reload", INSTALL.md:38 "how often to check the        *)
(* profile directory": once the directory no longer changes, what it holds *)
(* is served.                                                              *)
HotReload == <>[](Loadable(disk[dir]) => Served = Content(disk[dir]))
=============================================================================
