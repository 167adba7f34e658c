-------------------------- MODULE GenerationsProofs --------------------------
(***************************************************************************)
(* Theorems about Generations, for every set of manifests and edits, every *)
(* relation of what validates with what, and any number of publications,   *)
(* edits, crashes and failed system calls.                                 *)
(***************************************************************************)
EXTENDS Generations, TLAPS

Dirs == {"base", "live", "prev"}
Entry == [content : Contents, stamp : Nat]
Trees == UNION {[D -> Entry] : D \in SUBSET Files}
Known == Contents \union {None}
Snapshots == [counters : Known, profile : Known, fp : [Files -> Nat]]

Reads == {"counters", "profile", "walk1", "walk2", "store"}
Loads == Reads \union {"reload"}
Resting == {"idle", "stage", "dropPrev", "park"}
Ending == {"prune", "report", "settings"}

(* Where the variables are.  No theorem is about this alone. *)
GenType ==
    /\ disk \in [Dirs -> Trees] /\ DOMAIN disk["base"] = Files
    /\ stamp \in Nat
    /\ kv \in Seq(Manifests) /\ seen \in Nat
    /\ cur \in Snapshots
    /\ applied \in [hash : Manifests \union {None}, apply : {None, "ok", "apply_failed"}]
    /\ pc \in [Threads -> {"down", "off", "check1", "check2", "compare", "promote", "discard",
                           "restore", "failed"} \union Loads \union Resting \union Ending]
    /\ pc[Applier] \notin {"off", "check1", "check2", "compare"}
    /\ pc[Ticker] \in {"down", "off", "idle", "check1", "check2", "compare"} \union Reads
    /\ pc[Applier] = "down" <=> pc[Ticker] = "down"
    /\ got \in [Threads -> Snapshots]
    /\ rdir \in [Threads -> Dirs]
    /\ dir \in Dirs /\ back \in Dirs
    /\ want \in Manifests \union {None}
    /\ pc[Applier] \notin {"down", "idle", "failed"} => want \in Manifests
    /\ lived \in BOOLEAN /\ restoring \in BOOLEAN
    /\ unrestored \in BOOLEAN
-----------------------------------------------------------------------------
Uniform(t) == \A f, g \in DOMAIN t : t[f].content = t[g].content

(* What a tree of the data directory can be, and what is made of one.      *)
LEMMA TreeFacts ==
  /\ Absent \in Trees /\ DOMAIN Absent = {} /\ ~Loadable(Absent) /\ Uniform(Absent)
  /\ \A m : ~Whole(Absent, m)
  /\ \A m \in Contents, n \in Nat :
        /\ Tree(m, n) \in Trees
        /\ Whole(Tree(m, n), m)
        /\ Uniform(Tree(m, n))
  /\ \A t \in Trees : \A f :
        /\ [g \in DOMAIN t \ {f} |-> t[g]] \in Trees
        /\ Uniform(t) => Uniform([g \in DOMAIN t \ {f} |-> t[g]])
  /\ \A t \in Trees : Uniform(t) /\ Loadable(t) => Whole(t, t["profile"].content)
  /\ \A t, m : Whole(t, m) => /\ Loadable(t) <=> << m, m >> \in Fits
                              /\ DOMAIN t = Files
                              /\ t["counters"].content = m
                              /\ t["profile"].content = m
<1>1. DOMAIN Absent = {}
  BY DEF Absent
<1>2. Absent \in [{} -> Entry]
  BY DEF Absent
<1>3. Absent \in Trees
  BY <1>2 DEF Trees
<1>4. ~Loadable(Absent) /\ Uniform(Absent) /\ \A m : ~Whole(Absent, m)
  BY <1>1 DEF Loadable, Uniform, Whole, Files
<1>5. ASSUME NEW m \in Contents, NEW n \in Nat
      PROVE  /\ Tree(m, n) \in Trees
             /\ Whole(Tree(m, n), m)
             /\ Uniform(Tree(m, n))
  <2>1. Tree(m, n) \in [Files -> Entry]
    BY DEF Tree, Entry
  <2>2. Tree(m, n) \in Trees
    BY <2>1 DEF Trees
  <2>3. Whole(Tree(m, n), m)
    BY DEF Whole, Tree, Content, Files
  <2>4. Uniform(Tree(m, n))
    BY DEF Uniform, Tree
  <2> QED
    BY <2>2, <2>3, <2>4
<1>6. ASSUME NEW t \in Trees, NEW f
      PROVE  /\ [g \in DOMAIN t \ {f} |-> t[g]] \in Trees
             /\ Uniform(t) => Uniform([g \in DOMAIN t \ {f} |-> t[g]])
  <2>1. PICK D \in SUBSET Files : t \in [D -> Entry]
    BY DEF Trees
  <2>2. [g \in DOMAIN t \ {f} |-> t[g]] \in [D \ {f} -> Entry]
    BY <2>1
  <2>3. [g \in DOMAIN t \ {f} |-> t[g]] \in Trees
    BY <2>2 DEF Trees
  <2> QED
    BY <2>3 DEF Uniform
<1>7. ASSUME NEW t \in Trees, Uniform(t), Loadable(t)
      PROVE  Whole(t, t["profile"].content)
  BY <1>7 DEF Uniform, Loadable, Whole, Content, Files
<1>8. ASSUME NEW t, NEW m, Whole(t, m)
      PROVE  /\ Loadable(t) <=> << m, m >> \in Fits
             /\ DOMAIN t = Files
             /\ t["counters"].content = m
             /\ t["profile"].content = m
  BY <1>8 DEF Whole, Loadable, Content
<1> QED
  BY <1>1, <1>3, <1>4, <1>5, <1>6, <1>7, <1>8

(* What reading a tree can give. *)
LEMMA EntryFacts ==
  ASSUME NEW t \in Trees
  PROVE  /\ \A f \in DOMAIN t : /\ f \in Files
                                /\ t[f].content \in Contents
                                /\ t[f].stamp \in Nat
         /\ DOMAIN t = Files => SnapshotOf(t) \in Snapshots
<1>1. PICK D \in SUBSET Files : t \in [D -> Entry]
  BY DEF Trees
<1>2. \A f \in DOMAIN t : f \in Files /\ t[f].content \in Contents /\ t[f].stamp \in Nat
  BY <1>1 DEF Entry
<1>3. ASSUME DOMAIN t = Files
      PROVE  SnapshotOf(t) \in Snapshots
  BY <1>2, <1>3 DEF SnapshotOf, Snapshots, Known, Files
<1> QED
  BY <1>2, <1>3
-----------------------------------------------------------------------------
(* A step of read, by either thread.                                       *)
LEMMA ReadType ==
  ASSUME GenType, NEW th \in Threads, Read(th)
  PROVE  GenType'
<1>1. pc[th] \in Reads /\ rdir[th] \in Dirs /\ disk[rdir[th]] \in Trees
  BY DEF Read, ReadCounters, ReadProfile, Fingerprint, Walk, StoreSnapshot, GenType, Reads
<1>2. Nothing \in Snapshots
  BY DEF Nothing, NoPrint, Snapshots, Known
<1>9. got \in [Threads -> Snapshots]
  BY DEF GenType
<1>3. ASSUME ReadError(th)
      PROVE  GenType'
  <2>1. CASE th = Ticker
    BY <1>1, <1>2, <1>3, <2>1
       DEF ReadError, GoOn, GenType, Threads, Applier, Ticker, Loads, Reads, Resting, Ending, published,
           local, history, record
  <2>2. CASE th = Applier
    BY <1>1, <1>2, <1>3, <2>2
       DEF ReadError, GoOn, GenType, Threads, Applier, Ticker, Loads, Reads, Resting, Ending, published,
           local, history, record
  <2> QED
    BY <2>1, <2>2 DEF Threads
<1>4. ASSUME NEW step \in Reads, GoOn(th, step), got' \in [Threads -> Snapshots],
             UNCHANGED << disk, stamp, published, seen, memory, rdir, local, history >>
      PROVE  GenType'
  BY <1>1, <1>4 DEF GoOn, GenType, Threads, Applier, Ticker, Loads, Reads, Resting, Ending, published,
                    memory, local, history, record
<1>5. ASSUME ReadCounters(th), ~ReadError(th)
      PROVE  GenType'
  <2>1. disk[rdir[th]]["counters"].content \in Known
    BY <1>1, <1>5, EntryFacts DEF ReadCounters, ReadDir, Known
  <2>2. got' \in [Threads -> Snapshots]
    <3>1. got' = [got EXCEPT ![th].counters = disk[rdir[th]]["counters"].content]
      BY <1>5 DEF ReadCounters, ReadDir
    <3> QED
      BY <1>9, <2>1, <3>1 DEF Snapshots
  <2> QED
    BY <1>4, <1>5, <2>2 DEF ReadCounters, Reads
<1>6. ASSUME ReadProfile(th), ~ReadError(th)
      PROVE  GenType'
  <2>1. disk[rdir[th]]["profile"].content \in Known
    BY <1>1, <1>6, EntryFacts DEF ReadProfile, Validates, ReadDir, Known
  <2>2. got' \in [Threads -> Snapshots]
    <3>1. got' = [got EXCEPT ![th].profile = disk[rdir[th]]["profile"].content]
      BY <1>6 DEF ReadProfile, ReadDir
    <3> QED
      BY <1>9, <2>1, <3>1 DEF Snapshots
  <2> QED
    BY <1>4, <1>6, <2>2 DEF ReadProfile, Reads
<1>7. ASSUME NEW f \in Files, NEW from, NEW to \in Reads, Walk(th, f, from, to), ~ReadError(th)
      PROVE  GenType'
  <2>1. CASE UNCHANGED reading
    BY <1>4, <1>7, <2>1 DEF Walk, reading, GenType
  <2>2. CASE f \in DOMAIN ReadDir(th)
    <3>1. disk[rdir[th]][f].stamp \in Nat
      BY <1>1, <2>2, EntryFacts DEF ReadDir
    <3>2. got' \in [Threads -> Snapshots]
      <4>1. got' = [got EXCEPT ![th].fp[f] = disk[rdir[th]][f].stamp]
        BY <1>7, <2>2 DEF Walk, ReadDir
      <4> QED
        BY <1>9, <3>1, <4>1 DEF Snapshots
    <3> QED
      BY <1>4, <1>7, <2>2, <3>2 DEF Walk
  <2> QED
    BY <1>7, <2>1, <2>2 DEF Walk
<1>8. ASSUME StoreSnapshot(th)
      PROVE  GenType'
  <2>1. CASE th = Ticker
    BY <1>1, <1>2, <1>8, <2>1
       DEF StoreSnapshot, GoOn, GenType, Threads, Applier, Ticker, Loads, Reads, Resting, Ending,
           published, local, history, record
  <2>2. CASE th = Applier
    BY <1>1, <1>2, <1>8, <2>2
       DEF StoreSnapshot, GoOn, GenType, Threads, Applier, Ticker, Loads, Reads, Resting, Ending,
           published, local, history, record
  <2> QED
    BY <2>1, <2>2 DEF Threads
<1> QED
  BY <1>3, <1>5, <1>6, <1>7, <1>8 DEF Read, Fingerprint, Reads, Files

(* The steps of the world and of the process as a whole.                   *)
LEMMA WorldType ==
  ASSUME GenType,
         \/ \E m \in Manifests : Publish(m)
         \/ \E f \in Files, c \in Edits : EditBase(f, c)
         \/ Start \/ Crash
  PROVE  GenType'
<1>1. ASSUME NEW m \in Manifests, Publish(m) PROVE GenType'
  <2>1. kv' \in Seq(Manifests)
    BY <1>1 DEF Publish, GenType
  <2> QED
    BY <1>1, <2>1 DEF Publish, GenType, memory, reading, local, history, record
<1>2. ASSUME NEW f \in Files, NEW c \in Edits, EditBase(f, c) PROVE GenType'
  <2> DEFINE e == [content |-> c, stamp |-> stamp + 1]
  <2>1. e \in Entry /\ stamp + 1 \in Nat
    BY DEF Entry, Contents, GenType
  <2>2. disk["base"] \in [Files -> Entry]
    BY DEF Trees, Dirs, GenType
  <2>3. [disk["base"] EXCEPT ![f] = e] \in [Files -> Entry]
    BY <2>1, <2>2
  <2>4. [disk["base"] EXCEPT ![f] = e] \in Trees
    BY <2>3 DEF Trees
  <2>5. disk' = [disk EXCEPT !["base"] = [disk["base"] EXCEPT ![f] = e]]
    BY <1>2 DEF EditBase
  <2>6. disk' \in [Dirs -> Trees] /\ DOMAIN disk'["base"] = Files
    BY <2>3, <2>4, <2>5 DEF GenType, Dirs
  <2> QED
    BY <1>2, <2>1, <2>6 DEF EditBase, GenType, memory, reading, local, history, record
<1>3. CASE Start
  <2>1. cur' \in Snapshots /\ dir' \in Dirs
    <3>1. disk["live"] \in Trees /\ disk["base"] \in Trees
      BY DEF GenType, Dirs
    <3>2. /\ Loadable(disk["live"]) => SnapshotOf(disk["live"]) \in Snapshots
          /\ SnapshotOf(disk["base"]) \in Snapshots
      BY <3>1, EntryFacts DEF Loadable, GenType
    <3> QED
      BY <1>3, <3>2 DEF Start, Bootstrap, Dirs
  <2>2. seen' \in Nat
    <3>1. kv \in Seq(Manifests)
      BY DEF GenType
    <3>2. kv # << >> => Len(kv) - 1 \in Nat
      BY <3>1
    <3> QED
      BY <1>3, <3>2 DEF Start, KVWatch
  <2>3. /\ pc' = [th \in Threads |-> IF th = Ticker /\ ~Ticking THEN "off" ELSE "idle"]
        /\ UNCHANGED << disk, stamp, kv, applied, got, rdir, want, lived, back, restoring, unrestored >>
    BY <1>3 DEF Start, published, reading, local
  <2>4. pc'[Applier] = "idle" /\ pc'[Ticker] \in {"off", "idle"} /\ pc' \in [Threads -> {"off", "idle"}]
    BY <2>3 DEF Threads, Applier, Ticker
  <2> QED
    BY <2>1, <2>2, <2>3, <2>4 DEF GenType, Resting, Loads, Reads
<1>4. CASE Crash
  <2>1. Nothing \in Snapshots
    BY DEF Nothing, NoPrint, Snapshots, Known
  <2>2. /\ pc' = [th \in Threads |-> "down"]
        /\ pc'[Applier] = "down" /\ pc'[Ticker] = "down"
    BY <1>4 DEF Crash, Threads
  <2>3. got' \in [Threads -> Snapshots] /\ rdir' \in [Threads -> Dirs] /\ dir' \in Dirs
    BY <1>4, <2>1 DEF Crash, Dirs
  <2>4. applied' \in [hash : Manifests \union {None}, apply : {None, "ok", "apply_failed"}]
    BY <1>4 DEF Crash
  <2>5. /\ cur' = Nothing /\ want' = None /\ lived' = FALSE /\ back' = "base" /\ restoring' = FALSE
        /\ UNCHANGED << disk, stamp, kv, seen, unrestored >>
    BY <1>4 DEF Crash, published
  <2> QED
    BY <2>1, <2>2, <2>3, <2>4, <2>5 DEF GenType, Dirs
<1> QED
  BY <1>1, <1>2, <1>3, <1>4

(* The steps of the ticker before it reads.                                *)
LEMMA TickerType ==
  ASSUME GenType, TickStart \/ Check \/ Compare
  PROVE  GenType'
<1>1. Nothing \in Snapshots /\ got \in [Threads -> Snapshots] /\ Ticker \in Threads
  BY DEF Nothing, NoPrint, Snapshots, Known, GenType, Threads
<1>2. /\ UNCHANGED << disk, stamp, kv, seen, cur, applied, want, lived, back, restoring, unrestored,
                      dir >>
      /\ pc[Ticker] \in {"idle", "check1", "check2", "compare"}
      /\ \E step \in {"idle", "check1", "check2", "compare", "counters"} : GoOn(Ticker, step)
  BY DEF TickStart, Check, Walk, Compare, ReadError, published, memory, local, history, record, Ticker,
         Applier
<1>3. got' \in [Threads -> Snapshots] /\ rdir' \in [Threads -> Dirs]
  <2>1. CASE TickStart \/ Compare
    BY <1>1, <2>1 DEF TickStart, Compare, ReadFrom, GenType
  <2>2. ASSUME NEW f \in Files, NEW from, NEW to, Walk(Ticker, f, from, to)
        PROVE  got' \in [Threads -> Snapshots] /\ rdir' \in [Threads -> Dirs]
    <3>1. CASE ReadError(Ticker) \/ UNCHANGED reading
      BY <1>1, <3>1 DEF ReadError, reading, GenType
    <3>2. CASE ~ReadError(Ticker) /\ f \in DOMAIN ReadDir(Ticker)
      <4>1. /\ got' = [got EXCEPT ![Ticker].fp[f] = disk[rdir[Ticker]][f].stamp]
            /\ UNCHANGED rdir
        BY <2>2, <3>2 DEF Walk, ReadDir
      <4>2. disk[rdir[Ticker]][f].stamp \in Nat
        BY <1>1, <3>2, EntryFacts DEF ReadDir, GenType
      <4> QED
        BY <1>1, <4>1, <4>2 DEF Snapshots, GenType
    <3> QED
      BY <2>2, <3>1, <3>2 DEF Walk
  <2> QED
    BY <2>1, <2>2 DEF Check, Files
<1>4. /\ pc'[Ticker] \in {"idle", "check1", "check2", "compare"} \union Reads
      /\ pc'[Applier] = pc[Applier]
      /\ pc' \in [Threads -> {"down", "off", "check1", "check2", "compare", "promote", "discard",
                           "restore", "failed"} \union Loads \union Resting \union Ending]
  BY <1>2 DEF GoOn, GenType, Threads, Applier, Ticker, Reads, Loads, Resting, Ending
<1> QED
  BY <1>2, <1>3, <1>4 DEF GenType, Reads

(* A step of the applier that moves on from one place to another and       *)
(* touches neither the ticker nor what is read.                            *)
LEMMA ApplierType ==
  ASSUME GenType,
         \/ Deliver \/ Stage \/ DropPrev \/ Park \/ Promote \/ ReloadFrom
         \/ Discard \/ Restore \/ Failed \/ Prune \/ Report \/ ApplySettings
  PROVE  GenType'
<1> DEFINE Steps == {"idle", "stage", "dropPrev", "park", "promote", "reload", "counters",
                     "discard", "restore", "failed", "report", "settings"}
<1>1. /\ pc[Applier] \notin {"down", "off"}
      /\ \/ UNCHANGED pc
         \/ \E step \in Steps : GoOn(Applier, step)
      /\ pc'[Applier] \notin {"down", "off", "check1", "check2", "compare"}
      /\ pc'[Ticker] = pc[Ticker]
      /\ pc' \in [Threads -> {"down", "off", "check1", "check2", "compare", "promote", "discard",
                              "restore", "failed"} \union Loads \union Resting \union Ending]
  <2>1. /\ pc[Applier] \notin {"down", "off"}
        /\ \/ UNCHANGED pc
           \/ \E step \in Steps : GoOn(Applier, step)
    BY DEF Deliver, Stage, DropPrev, Park, Promote, ReloadFrom, Discard, Restore, Failed, Prune,
           Report, ApplySettings, ApplierGoesOn
  <2>2. UNCHANGED pc \/ \E step \in Steps : pc' = [pc EXCEPT ![Applier] = step]
    BY <2>1 DEF GoOn
  <2> HIDE DEF Steps
  <2>3. Steps \subseteq Loads \union Resting \union Ending
                        \union {"promote", "discard", "restore", "failed"}
    BY DEF Steps, Loads, Reads, Resting, Ending
  <2>4. \A step \in Steps : step \notin {"down", "off", "check1", "check2", "compare"}
    BY DEF Steps
  <2> QED
    BY <2>1, <2>2, <2>3, <2>4 DEF GenType, Threads, Applier, Ticker
<1> HIDE DEF Steps
<1>2. ASSUME disk' \in [Dirs -> Trees], DOMAIN disk'["base"] = Files, stamp' \in Nat,
             seen' \in Nat, want' \in Manifests \union {None},
             pc'[Applier] \notin {"down", "idle", "failed"} => want' \in Manifests,
             lived' \in BOOLEAN, restoring' \in BOOLEAN, unrestored' \in BOOLEAN,
             dir' \in Dirs, back' \in Dirs,
             applied' \in [hash : Manifests \union {None}, apply : {None, "ok", "apply_failed"}],
             got' \in [Threads -> Snapshots], rdir' \in [Threads -> Dirs],
             UNCHANGED << kv, cur >>
      PROVE  GenType'
  BY <1>1, <1>2 DEF GenType
<1>3. /\ pc[Applier] \notin {"idle", "failed", "down"} => want \in Manifests
      /\ pc \in [Threads -> {pc[Applier], pc[Ticker]}]
  BY DEF GenType, Threads
<1>13. /\ disk \in [Dirs -> Trees] /\ disk["live"] \in Trees /\ disk["prev"] \in Trees
       /\ Absent \in Trees /\ unrestored \in BOOLEAN
       /\ lived \in BOOLEAN /\ restoring \in BOOLEAN
  BY TreeFacts DEF GenType, Dirs
<1>14. ASSUME NEW live \in Trees, NEW prev \in Trees,
              \/ disk' = [disk EXCEPT !["live"] = live, !["prev"] = prev]
              \/ disk' = [disk EXCEPT !["prev"] = prev, !["live"] = live]
              \/ disk' = [disk EXCEPT !["live"] = live]
              \/ disk' = [disk EXCEPT !["prev"] = prev]
              \/ disk' = disk
       PROVE  disk' \in [Dirs -> Trees] /\ disk'["base"] = disk["base"]
  BY <1>13, <1>14 DEF Dirs
<1>4. CASE Deliver
  <2>1. seen + 1 \in 1..Len(kv) /\ kv[seen + 1] \in Manifests
    <3>1. seen < Len(kv) /\ kv \in Seq(Manifests) /\ seen \in Nat
      BY <1>4 DEF Deliver, GenType
    <3> QED
      BY <3>1
  <2>2. /\ seen' = seen + 1
        /\ \/ UNCHANGED << want, pc >> /\ pc[Applier] = "idle"
           \/ want' = kv[seen + 1]
        /\ UNCHANGED << disk, stamp, kv, dir, cur, applied, got, rdir, lived, back, restoring,
                        unrestored >>
    BY <1>4 DEF Deliver, published, memory, reading, history, record
  <2> QED
    BY <1>2, <2>1, <2>2 DEF GenType
<1>5. CASE Stage
  <2>1. /\ unrestored' \in BOOLEAN
        /\ UNCHANGED << disk, stamp, kv, seen, dir, cur, applied, got, rdir, want, lived, back,
                        restoring >>
    BY <1>5 DEF Stage, ApplierGoesOn, published, memory, reading, GenType
  <2>2. pc[Applier] = "stage"
    BY <1>5 DEF Stage
  <2> QED
    BY <1>2, <1>3, <2>1, <2>2 DEF GenType
<1>6. CASE DropPrev \/ Park
  <2>1. /\ unrestored' \in BOOLEAN /\ lived' \in BOOLEAN
        /\ UNCHANGED << stamp, kv, seen, dir, cur, applied, got, rdir, want, back, restoring >>
    BY <1>6, <1>13 DEF DropPrev, Park, ApplierGoesOn, published, memory, reading
  <2>2. pc[Applier] \in {"dropPrev", "park"}
    BY <1>6 DEF DropPrev, Park
  <2>3. disk' \in [Dirs -> Trees] /\ disk'["base"] = disk["base"]
    BY <1>6, <1>13, <1>14 DEF DropPrev, Park
  <2> QED
    BY <1>2, <1>3, <2>1, <2>2, <2>3 DEF GenType
<1>7. CASE Promote
  <2>1. pc[Applier] = "promote" /\ want \in Manifests /\ stamp + 1 \in Nat
    BY <1>3, <1>7 DEF Promote, GenType
  <2>2. Tree(want, stamp + 1) \in Trees
    BY <2>1, TreeFacts DEF Contents
  <2>3. /\ unrestored' \in BOOLEAN /\ stamp' \in Nat
    BY <1>7, <1>13, <2>1 DEF Promote, GenType
  <2>5. disk' \in [Dirs -> Trees] /\ disk'["base"] = disk["base"]
    BY <1>7, <1>13, <1>14, <2>2 DEF Promote
  <2>4. UNCHANGED << kv, seen, dir, cur, applied, got, rdir, want, lived, back, restoring >>
    BY <1>7 DEF Promote, published, memory, reading, local
  <2> QED
    BY <1>2, <2>1, <2>3, <2>4, <2>5 DEF GenType
<1>8. CASE ReloadFrom
  <2>1. Nothing \in Snapshots
    BY DEF Nothing, NoPrint, Snapshots, Known
  <2>2. /\ pc[Applier] = "reload"
        /\ back' = dir /\ dir' = "live"
        /\ rdir' = [rdir EXCEPT ![Applier] = "live"]
        /\ got' = [got EXCEPT ![Applier] = Nothing]
        /\ UNCHANGED << disk, stamp, kv, seen, cur, applied, want, lived, restoring, unrestored >>
    BY <1>8 DEF ReloadFrom, ReadFrom, published, history, record
  <2>3. back' \in Dirs /\ dir' \in Dirs /\ rdir' \in [Threads -> Dirs] /\ got' \in [Threads -> Snapshots]
    BY <2>1, <2>2 DEF GenType, Dirs
  <2> QED
    BY <1>2, <1>3, <2>2, <2>3 DEF GenType
<1>9. CASE Discard
  <2>1. /\ pc[Applier] = "discard"
        /\ UNCHANGED << stamp, kv, seen, dir, cur, applied, got, rdir, want, lived, back,
                        restoring, unrestored >>
    BY <1>9 DEF Discard, ApplierGoesOn, published, memory, reading
  <2>2. disk' \in [Dirs -> Trees] /\ disk'["base"] = disk["base"]
    <3>1. CASE disk["live"] = Absent
      BY <1>9, <1>13, <1>14, <3>1 DEF Discard
    <3>2. ASSUME NEW f, disk' = [disk EXCEPT !["live"] =
                                   [g \in DOMAIN disk["live"] \ {f} |-> disk["live"][g]]]
          PROVE  disk' \in [Dirs -> Trees] /\ disk'["base"] = disk["base"]
      <4> DEFINE less == [g \in DOMAIN disk["live"] \ {f} |-> disk["live"][g]]
      <4>1. less \in Trees
        BY <1>13, TreeFacts
      <4> HIDE DEF less
      <4>2. disk' = [disk EXCEPT !["live"] = less]
        BY <3>2 DEF less
      <4> QED
        BY <1>13, <1>14, <4>1, <4>2
    <3> QED
      BY <1>9, <3>1, <3>2 DEF Discard
  <2> QED
    BY <1>2, <1>3, <2>1, <2>2 DEF GenType
<1>10. CASE Restore
  <2>1. /\ pc[Applier] = "restore"
        /\ UNCHANGED << stamp, kv, seen, dir, cur, applied, got, rdir, want, lived, back >>
    BY <1>10 DEF Restore, published, memory, reading
  <2>3. restoring' \in BOOLEAN /\ unrestored' \in BOOLEAN
    BY <1>10, <1>13 DEF Restore
  <2>2. disk' \in [Dirs -> Trees] /\ disk'["base"] = disk["base"]
    BY <1>10, <1>13, <1>14 DEF Restore
  <2> QED
    BY <1>2, <1>3, <2>1, <2>2, <2>3 DEF GenType
<1>11. CASE Failed
  <2>1. /\ pc' = [pc EXCEPT ![Applier] = "idle"]
        /\ applied' = [applied EXCEPT !.apply = "apply_failed"]
        /\ want' = None /\ lived' = FALSE /\ restoring' = FALSE
        /\ UNCHANGED << disk, stamp, kv, seen, dir, cur, got, rdir, back, unrestored >>
    BY <1>11 DEF Failed, GoOn, published, reading, history, record
  <2>2. pc'[Applier] = "idle"
    BY <2>1 DEF GenType, Threads
  <2>3. applied' \in [hash : Manifests \union {None}, apply : {None, "ok", "apply_failed"}]
    BY <2>1 DEF GenType
  <2> QED
    BY <1>2, <2>1, <2>2, <2>3 DEF GenType
<1>12. CASE Prune
  <2>1. /\ pc[Applier] = "prune"
        /\ disk' = [disk EXCEPT !["prev"] = Absent]
        /\ UNCHANGED << stamp, kv, seen, dir, cur, applied, got, rdir, want, lived, back,
                        restoring, unrestored >>
    BY <1>12 DEF Prune, published, memory, reading, local
  <2>2. disk' \in [Dirs -> Trees] /\ disk'["base"] = disk["base"]
    BY <2>1, TreeFacts DEF GenType, Dirs
  <2> QED
    BY <1>2, <1>3, <2>1, <2>2 DEF GenType
<1>15. CASE Report
  <2>1. /\ pc[Applier] = "report"
        /\ applied' = [hash |-> want, apply |-> "ok"] /\ unrestored' = FALSE
        /\ UNCHANGED << disk, stamp, kv, seen, dir, cur, got, rdir, want, lived, back, restoring >>
    BY <1>15 DEF Report, published, reading, local
  <2>2. applied' \in [hash : Manifests \union {None}, apply : {None, "ok", "apply_failed"}]
    BY <2>1 DEF GenType
  <2> QED
    BY <1>2, <1>3, <2>1, <2>2 DEF GenType
<1>16. CASE ApplySettings
  <2>1. /\ pc' = [pc EXCEPT ![Applier] = "idle"]
        /\ want' = None /\ lived' = FALSE
        /\ UNCHANGED << disk, stamp, kv, seen, dir, cur, applied, got, rdir, back, restoring,
                        unrestored >>
    BY <1>16 DEF ApplySettings, GoOn, published, reading, history
  <2>2. pc'[Applier] = "idle"
    BY <2>1 DEF GenType, Threads
  <2> QED
    BY <1>2, <2>1, <2>2 DEF GenType
<1> QED
  BY <1>4, <1>5, <1>6, <1>7, <1>8, <1>9, <1>10, <1>11, <1>12, <1>15, <1>16

(* Every step keeps the types. *)
LEMMA TypeNext ==
  ASSUME GenType, [Next]_vars
  PROVE  GenType'
<1>1. CASE UNCHANGED vars
  BY <1>1 DEF vars, published, memory, reading, local, history, record, GenType
<1>2. Applier \in Threads /\ Ticker \in Threads
  BY DEF Threads
<1> QED
  BY <1>1, <1>2, WorldType, TickerType, ApplierType, ReadType DEF Next, TickerStep, ApplierStep

(* The types hold at the start. *)
LEMMA TypeInit == Init => GenType
<1> SUFFICES ASSUME Init PROVE GenType
  OBVIOUS
<1>1. Tree(Image, 1) \in Trees /\ DOMAIN Tree(Image, 1) = Files
  <2>1. Image \in Contents /\ 1 \in Nat
    BY DEF Contents
  <2>2. Tree(Image, 1) \in Trees
    BY <2>1, TreeFacts
  <2> QED
    BY <2>2 DEF Tree
<1>2. disk \in [Dirs -> Trees] /\ DOMAIN disk["base"] = Files
  <2>1. Dirs = {"base", "live", "prev"} /\ Absent \in Trees
    BY TreeFacts DEF Dirs
  <2> HIDE DEF Dirs
  <2> QED
    BY <1>1, <2>1 DEF Init
<1>3. Nothing \in Snapshots
  BY DEF Nothing, NoPrint, Snapshots, Known
<1>4. cur \in Snapshots /\ got \in [Threads -> Snapshots] /\ rdir \in [Threads -> Dirs]
  BY <1>3 DEF Init, Dirs
<1>5. /\ pc \in [Threads -> {"down"}]
      /\ pc[Applier] = "down" /\ pc[Ticker] = "down"
  BY DEF Init, Threads
<1> QED
  <2>1. /\ stamp \in Nat /\ kv \in Seq(Manifests) /\ seen \in Nat
        /\ dir \in Dirs /\ back \in Dirs
    BY DEF Init, Dirs
  <2>2. /\ applied \in [hash : Manifests \union {None}, apply : {None, "ok", "apply_failed"}]
        /\ want \in Manifests \union {None} /\ lived \in BOOLEAN /\ restoring \in BOOLEAN
        /\ unrestored \in BOOLEAN
    BY DEF Init
  <2>3. /\ pc \in [Threads -> {"down", "off", "check1", "check2", "compare", "promote",
                              "discard", "restore", "failed"} \union Loads
                              \union Resting \union Ending]
        /\ pc[Applier] \notin {"off", "check1", "check2", "compare"}
        /\ pc[Ticker] \in {"down", "off", "idle", "check1", "check2", "compare"} \union Reads
        /\ pc[Applier] = "down" <=> pc[Ticker] = "down"
        /\ pc[Applier] \notin {"down", "idle", "failed"} => want \in Manifests
    BY <1>5
  <2> QED
    BY <1>2, <1>4, <2>1, <2>2, <2>3 DEF GenType

(***************************************************************************)
(* What is served was validated as a whole: from the profile on, a thread  *)
(* that reads has a pair that fits, whatever the other one does to the     *)
(* directory it reads.                                                     *)
(***************************************************************************)
Checked ==
    \A th \in Threads :
       pc[th] \in {"walk1", "walk2", "store"} => << got[th].counters, got[th].profile >> \in Fits

(* A step of read keeps to pairs that fit. *)
LEMMA ReadChecks ==
  ASSUME GenType, Checked, ServesValid, NEW th \in Threads, Read(th)
  PROVE  Checked' /\ ServesValid'
<1>1. got \in [Threads -> Snapshots] /\ DOMAIN pc = Threads
  BY DEF GenType
<1>2. /\ got \in [Threads -> Snapshots] /\ got[th] \in Snapshots
      /\ \A s \in Snapshots : \A n : [s EXCEPT !.fp = n].counters = s.counters
                                  /\ [s EXCEPT !.fp = n].profile = s.profile
  BY <1>1 DEF Snapshots
<1>3. ASSUME NEW step, GoOn(th, step),
             \A u \in Threads : u # th => got'[u] = got[u],
             step \in {"walk1", "walk2", "store"} =>
                << got'[th].counters, got'[th].profile >> \in Fits
      PROVE  Checked'
  BY <1>1, <1>3 DEF Checked, GoOn
<1>4. ASSUME ReadError(th)
      PROVE  Checked' /\ ServesValid'
  <2>1. /\ UNCHANGED cur
        /\ \A u \in Threads : u # th => got'[u] = got[u]
        /\ \E step \in {"idle", "failed", "discard"} : GoOn(th, step)
    BY <1>1, <1>4 DEF ReadError
  <2> QED
    BY <1>3, <2>1 DEF ServesValid, Served
<1>5. ASSUME ReadCounters(th), ~ReadError(th)
      PROVE  Checked' /\ ServesValid'
  <2>1. /\ GoOn(th, "profile") /\ UNCHANGED cur
        /\ \A u \in Threads : u # th => got'[u] = got[u]
    BY <1>1, <1>5 DEF ReadCounters, memory
  <2> QED
    BY <1>3, <2>1 DEF ServesValid, Served
<1>6. ASSUME ReadProfile(th), ~ReadError(th)
      PROVE  Checked' /\ ServesValid'
  <2>1. /\ Validates(th) /\ GoOn(th, "walk1") /\ UNCHANGED cur
        /\ got' = [got EXCEPT ![th].profile = disk[rdir[th]]["profile"].content]
    BY <1>6 DEF ReadProfile, ReadDir, memory
  <2>2. << got[th].counters, disk[rdir[th]]["profile"].content >> \in Fits
    BY <2>1 DEF Validates, ReadDir
  <2>3. /\ got'[th].counters = got[th].counters
        /\ got'[th].profile = disk[rdir[th]]["profile"].content
        /\ \A u \in Threads : u # th => got'[u] = got[u]
    BY <1>1, <1>2, <2>1 DEF Snapshots
  <2> QED
    BY <1>3, <2>1, <2>2, <2>3 DEF ServesValid, Served
<1>7. ASSUME NEW f \in Files, NEW from \in {"walk1", "walk2"}, NEW to, Walk(th, f, from, to), ~ReadError(th)
      PROVE  Checked' /\ ServesValid'
  <2>1. pc[th] = from /\ GoOn(th, to) /\ UNCHANGED cur
    BY <1>7 DEF Walk, memory
  <2>2. << got[th].counters, got[th].profile >> \in Fits
    BY <2>1 DEF Checked
  <2>3. /\ got'[th].counters = got[th].counters /\ got'[th].profile = got[th].profile
        /\ \A u \in Threads : u # th => got'[u] = got[u]
    BY <1>1, <1>2, <1>7 DEF Walk, reading, Snapshots
  <2> QED
    BY <1>3, <2>1, <2>2, <2>3 DEF ServesValid, Served
<1>8. ASSUME StoreSnapshot(th)
      PROVE  Checked' /\ ServesValid'
  <2>1. /\ pc[th] = "store" /\ cur' = got[th]
        /\ \A u \in Threads : u # th => got'[u] = got[u]
        /\ \E step \in {"idle", "failed", "prune"} : GoOn(th, step)
    BY <1>1, <1>8 DEF StoreSnapshot
  <2>2. << got[th].counters, got[th].profile >> \in Fits
    BY <2>1 DEF Checked
  <2> QED
    BY <1>3, <2>1, <2>2 DEF ServesValid, Served
<1> QED
  BY <1>4, <1>5, <1>6, <1>7, <1>8 DEF Read, Fingerprint, Files

(* Every step keeps a pair that was checked, or is served, one that fits. *)
LEMMA ChecksNext ==
  ASSUME GenType, Checked, ServesValid, [Next]_vars
  PROVE  Checked' /\ ServesValid'
<1>1. ASSUME NEW th \in Threads, NEW step, step \notin {"walk1", "walk2", "store"}, GoOn(th, step),
             \A u \in Threads : u # th => got'[u] = got[u], UNCHANGED cur
      PROVE  Checked' /\ ServesValid'
  BY <1>1 DEF GenType, Checked, GoOn, ServesValid, Served
<1>2. ASSUME UNCHANGED << pc, got, cur >>
      PROVE  Checked' /\ ServesValid'
  BY <1>2 DEF Checked, ServesValid, Served
<1>3. CASE Start
  <2>1. /\ \A th \in Threads : pc'[th] \in {"off", "idle"}
        /\ \/ Loadable(disk["live"]) /\ cur' = SnapshotOf(disk["live"])
           \/ Loadable(disk["base"]) /\ cur' = SnapshotOf(disk["base"])
    BY <1>3 DEF Start, Bootstrap
  <2>2. Checked'
    BY <2>1 DEF Checked
  <2>3. ServesValid'
    BY <2>1 DEF ServesValid, Served, Loadable, SnapshotOf
  <2> QED
    BY <2>2, <2>3
<1>4. CASE Crash
  <2>1. cur' = Nothing /\ \A th \in Threads : pc'[th] = "down"
    BY <1>4 DEF Crash
  <2> QED
    BY <2>1 DEF Checked, ServesValid
<1>5. CASE TickStart \/ Check \/ Compare
  <2>1. Ticker \in Threads /\ got \in [Threads -> Snapshots]
    BY DEF GenType, Threads
  <2>2. /\ UNCHANGED cur
        /\ \E step \in {"idle", "check1", "check2", "compare", "counters"} : GoOn(Ticker, step)
    BY <1>5 DEF TickStart, Check, Walk, Compare, ReadError, memory, Ticker, Applier
  <2>3. \A u \in Threads : u # Ticker => got'[u] = got[u]
    BY <1>5, <2>1 DEF TickStart, ReadFrom, Check, Walk, Compare, ReadError, reading
  <2> QED
    BY <1>1, <2>1, <2>2, <2>3
<1>6. CASE \/ Deliver \/ Stage \/ DropPrev \/ Park \/ Promote \/ ReloadFrom
           \/ Discard \/ Restore \/ Failed \/ Prune \/ Report \/ ApplySettings
  <2>1. Applier \in Threads /\ got \in [Threads -> Snapshots]
    BY DEF GenType, Threads
  <2>2. /\ UNCHANGED cur
        /\ \/ UNCHANGED pc
           \/ \E step \in {"idle", "stage", "dropPrev", "park", "promote", "reload", "counters",
                           "discard", "restore", "failed", "report", "settings"} :
                 GoOn(Applier, step)
    BY <1>6 DEF Deliver, Stage, DropPrev, Park, Promote, ReloadFrom, Discard, Restore, Failed,
                Prune, Report, ApplySettings, ApplierGoesOn, memory
  <2>3. /\ \A u \in Threads : u # Applier => got'[u] = got[u]
        /\ UNCHANGED pc => UNCHANGED got
    BY <1>6, <2>1 DEF Deliver, Stage, DropPrev, Park, Promote, ReloadFrom, ReadFrom, Discard,
                      Restore, Failed, Prune, Report, ApplySettings, ApplierGoesOn, GoOn,
                      reading, GenType
  <2> QED
    BY <1>1, <1>2, <2>1, <2>2, <2>3
<1>7. CASE UNCHANGED vars
  BY <1>2, <1>7 DEF vars, memory, reading
<1>8. ASSUME \/ \E m \in Manifests : Publish(m)
             \/ \E f \in Files, c \in Edits : EditBase(f, c)
      PROVE  Checked' /\ ServesValid'
  BY <1>2, <1>8 DEF Publish, EditBase, memory, reading
<1>9. Applier \in Threads /\ Ticker \in Threads
  BY DEF Threads
<1> QED
  BY <1>3, <1>4, <1>5, <1>6, <1>7, <1>8, <1>9, ReadChecks DEF Next, TickerStep, ApplierStep

(* The counters and the profile that are served were validated together,   *)
(* for any swaps, edits, failures and crashes that meet the readers.       *)
THEOREM ServedIsValid == Spec => []ServesValid
<1>1. Init => GenType /\ Checked /\ ServesValid
  <2>1. Init => Checked /\ ServesValid
    BY DEF Init, Checked, ServesValid
  <2> QED
    BY <2>1, TypeInit
<1>2. GenType /\ Checked /\ ServesValid /\ [Next]_vars => (GenType /\ Checked /\ ServesValid)'
  BY TypeNext, ChecksNext
<1> QED
  BY <1>1, <1>2, PTL DEF Spec

-----------------------------------------------------------------------------
(***************************************************************************)
(* The data directory.  Only the applier writes it, so that it reads it    *)
(* undisturbed; what it has parked in .prev while it tries a manifest is   *)
(* what was in live before, and a tree is only taken away once it has been *)
(* rejected or another one has taken its place.                            *)
(***************************************************************************)
(* It is trying a manifest, not yet or no longer taking it back.           *)
Trying ==
    \/ pc[Applier] \in {"promote", "discard", "restore"}
    \/ pc[Applier] \in Loads /\ ~restoring

Tidy ==
    /\ Uniform(disk.live) /\ Uniform(disk.prev)
    /\ pc[Applier] = "park" => disk.prev = Absent
    /\ pc[Applier] \in {"promote", "restore"} => disk.live = Absent
    /\ pc[Applier] \in Loads /\ ~restoring => Whole(disk.live, want)
    /\ pc[Applier] \in Ending => Whole(disk.live, want) /\ << want, want >> \in Fits
    /\ pc[Applier] = "discard" => /\ \A f \in DOMAIN disk.live : disk.live[f].content = want
                                  /\ << want, want >> \notin Fits
    /\ restoring => pc[Applier] \in Loads \union {"failed"}

(* What the applier has read so far is what is there.                      *)
Undisturbed ==
    /\ pc[Applier] \in Reads => rdir[Applier] = "live"
    /\ pc[Applier] = "profile" => got[Applier].counters = disk.live["counters"].content
    /\ pc[Applier] \in {"walk1", "walk2", "store"} =>
          Content(disk.live) = << got[Applier].counters, got[Applier].profile >>

(* Where the generation last served from the data directory is.            *)
LastGood ==
    /\ good # None => << good, good >> \in Fits
    /\ pc[Applier] \in Resting \union {"failed", "report", "settings"} /\ Loadable(disk.live) =>
          Content(disk.live) = << good, good >>
    /\ Trying /\ lived /\ Loadable(disk.prev) => Content(disk.prev) = << good, good >>
    /\ restoring /\ Loadable(disk.live) => Content(disk.live) = << good, good >>

(* Where the manifest reported at the last crash is: live, or replaced by  *)
(* the one that was being applied, or not where Bootstrap looks.           *)
Survivor ==
    \/ Whole(disk.live, kept.hash) /\ << kept.hash, kept.hash >> \in Fits
    \/ kept.next # None /\ Whole(disk.live, kept.next) /\ << kept.next, kept.next >> \in Fits
    \/ /\ ~Loadable(disk.live) /\ kept.next # None
       /\ Whole(disk.prev, kept.hash) /\ ~Whole(disk.live, kept.hash)
    \/ ~Loadable(disk.live) /\ unrestored

(* Where the manifest reported as applied is.                              *)
Reported ==
    /\ pc[Applier] = "down" => applied.hash = None /\ (kept.hash # None => Survivor)
    /\ pc[Applier] = "settings" => applied.hash = want /\ applied.apply = "ok"
    /\ applied.hash # None =>
          /\ << applied.hash, applied.hash >> \in Fits /\ applied.apply # None
          /\ pc[Applier] \in Resting \union {"failed"} =>
                (disk.live = Absent /\ unrestored) \/ Whole(disk.live, applied.hash)
          /\ pc[Applier] \in Resting /\ applied.apply = "ok" => Whole(disk.live, applied.hash)
          /\ Trying => IF lived THEN Whole(disk.prev, applied.hash) ELSE unrestored
          /\ restoring => Whole(disk.live, applied.hash)

DiskInv == Tidy /\ Undisturbed /\ LastGood /\ Reported

(* A step that touches none of it.                                         *)
LEMMA DiskFrame ==
  ASSUME DiskInv,
         disk'["live"] = disk["live"], disk'["prev"] = disk["prev"],
         pc'[Applier] = pc[Applier], got'[Applier] = got[Applier],
         rdir'[Applier] = rdir[Applier],
         UNCHANGED << want, lived, restoring, applied, good, kept, unrestored >>
  PROVE  DiskInv'
<1>1. Trying' <=> Trying
  BY DEF Trying
<1>2. Tidy' /\ Undisturbed'
  BY DEF DiskInv, Tidy, Undisturbed
<1>3. LastGood' /\ Reported'
  BY <1>1 DEF DiskInv, LastGood, Reported, Survivor
<1> QED
  BY <1>2, <1>3 DEF DiskInv

(* Neither the ticker nor the world write the data directory.              *)
LEMMA OthersKeepDisk ==
  ASSUME GenType, DiskInv,
         \/ TickerStep
         \/ \E m \in Manifests : Publish(m)
         \/ \E f \in Files, c \in Edits : EditBase(f, c)
  PROVE  DiskInv'
<1>0. /\ Applier # Ticker /\ Applier \in Threads /\ Ticker \in Threads
      /\ DOMAIN pc = Threads /\ DOMAIN got = Threads /\ DOMAIN rdir = Threads
      /\ disk \in [Dirs -> Trees]
  BY DEF Threads, Applier, Ticker, GenType
<1>2. ASSUME NEW f \in Files, NEW c \in Edits, EditBase(f, c)
      PROVE  DiskInv'
  <2>1. disk'["live"] = disk["live"] /\ disk'["prev"] = disk["prev"]
    BY <1>0, <1>2 DEF EditBase, Dirs
  <2> QED
    BY <1>2, <2>1, DiskFrame DEF EditBase, memory, reading, local, history, record
<1>3. ASSUME NEW m \in Manifests, Publish(m)
      PROVE  DiskInv'
  BY <1>3, DiskFrame DEF Publish, memory, reading, local, history, record
<1>4. CASE TickerStep
  <2>1. UNCHANGED << disk, want, lived, restoring, applied, good, kept, unrestored >>
    BY <1>0, <1>4 DEF TickerStep, TickStart, Check, Walk, Compare, ReadError, Read, ReadCounters,
             ReadProfile, Fingerprint, StoreSnapshot, memory, local, history, record
  <2>2. \E step : GoOn(Ticker, step)
    BY <1>0, <1>4 DEF TickerStep, TickStart, Check, Walk, Compare, ReadError, Read, ReadCounters,
                ReadProfile, Fingerprint, StoreSnapshot
  <2>3. got'[Applier] = got[Applier] /\ rdir'[Applier] = rdir[Applier]
    BY <1>0, <1>4 DEF TickerStep, TickStart, ReadFrom, Check, Walk, Compare, ReadError, Read,
                      ReadCounters, ReadProfile, Fingerprint, StoreSnapshot, reading
  <2>4. pc'[Applier] = pc[Applier]
    BY <1>0, <2>2 DEF GoOn
  <2> QED
    BY <2>1, <2>3, <2>4, DiskFrame
<1> QED
  BY <1>2, <1>3, <1>4

(* Wherever the applier is, what a crash leaves can be served again, but   *)
(* for the two cases of Survivor.                                          *)
LEMMA CrashSurvived ==
  ASSUME GenType, DiskInv, pc[Applier] # "down", applied.hash # None
  PROVE  LET h == applied.hash IN
         \/ Whole(disk.live, h) /\ << h, h >> \in Fits
         \/ want # None /\ Whole(disk.live, want) /\ << want, want >> \in Fits
         \/ /\ ~Loadable(disk.live) /\ want # None
            /\ Whole(disk.prev, h) /\ ~Whole(disk.live, h)
         \/ ~Loadable(disk.live) /\ unrestored
<1> DEFINE h == applied.hash
           L == disk["live"]
<1>1. << h, h >> \in Fits /\ L \in Trees
  BY DEF DiskInv, Reported, GenType, Dirs
<1>2. ~Loadable(Absent)
  BY TreeFacts
<1>3. Whole(L, h) => Loadable(L)
  BY <1>1, TreeFacts
<1>4. CASE pc[Applier] \in Resting \union {"failed"}
  BY <1>1, <1>2, <1>4 DEF DiskInv, Reported
<1>5. CASE pc[Applier] \in Ending
  <2>1. Whole(L, want) /\ << want, want >> \in Fits
    BY <1>5 DEF DiskInv, Tidy
  <2>2. want # None
    BY <1>5, GenerationsAssumption DEF GenType, Ending
  <2> QED
    BY <2>1, <2>2
<1>6. CASE Trying
  <2>1. want # None
    BY <1>6, GenerationsAssumption DEF GenType, Trying, Loads, Reads
  <2>2. \/ ~Loadable(L)
        \/ Whole(L, want) /\ << want, want >> \in Fits
    <3>1. CASE pc[Applier] \in {"promote", "restore"}
      BY <1>2, <3>1 DEF DiskInv, Tidy
    <3>2. CASE pc[Applier] = "discard"
      <4>1. Uniform(L) /\ << want, want >> \notin Fits /\ \A f \in DOMAIN L : L[f].content = want
        BY <3>2 DEF DiskInv, Tidy
      <4>2. ~Loadable(L)
        BY <4>1 DEF Loadable, Files
      <4> QED
        BY <4>2
    <3>3. CASE pc[Applier] \in Loads /\ ~restoring
      <4>1. Whole(L, want)
        BY <3>3 DEF DiskInv, Tidy
      <4>2. Loadable(L) <=> << want, want >> \in Fits
        BY <4>1, TreeFacts
      <4> QED
        BY <4>1, <4>2
    <3> QED
      BY <1>6, <3>1, <3>2, <3>3 DEF Trying
  <2>3. IF lived THEN Whole(disk["prev"], h) ELSE unrestored
    BY <1>6 DEF DiskInv, Reported
  <2> QED
    BY <1>3, <2>1, <2>2, <2>3
<1>7. CASE restoring
  BY <1>1, <1>7 DEF DiskInv, Reported
<1>8. \/ pc[Applier] \in Resting \union {"failed"} \/ pc[Applier] \in Ending
      \/ Trying \/ restoring
  BY DEF GenType, Threads, Trying, Resting, Ending, Loads, Reads
<1> QED
  BY <1>4, <1>5, <1>6, <1>7, <1>8

(* The process comes up, or goes down.                                     *)
LEMMA RestartKeepsDisk ==
  ASSUME GenType, DiskInv, Start \/ Crash
  PROVE  DiskInv'
<1>0. disk["live"] \in Trees /\ Applier \in Threads /\ Applier # Ticker
  BY DEF GenType, Dirs, Threads, Applier, Ticker
<1>1. CASE Start
  <2>1. /\ pc[Applier] = "down" /\ pc'[Applier] = "idle"
        /\ UNCHANGED << disk, got, rdir, want, lived, restoring, applied, unrestored, kept >>
    BY <1>0, <1>1 DEF Start, reading, local
  <2>2. ~restoring /\ applied.hash = None /\ ~Trying'
    BY <2>1 DEF DiskInv, Tidy, Reported, Trying, Loads, Reads
  <2>3. /\ Loadable(disk["live"]) => good' = disk["live"]["profile"].content
        /\ ~Loadable(disk["live"]) => good' = good
    BY <1>1 DEF Start, Bootstrap, SnapshotOf
  <2>4. Loadable(disk["live"]) => Whole(disk["live"], disk["live"]["profile"].content)
    BY <1>0, TreeFacts DEF DiskInv, Tidy
  <2>5. Tidy' /\ Undisturbed'
    BY <2>1, <2>2 DEF DiskInv, Tidy, Undisturbed, Loads, Reads, Ending
  <2>6. LastGood'
    BY <2>1, <2>2, <2>3, <2>4 DEF DiskInv, LastGood, Loadable, Whole, Content
  <2>7. Reported'
    BY <2>1, <2>2 DEF DiskInv, Reported
  <2> QED
    BY <2>5, <2>6, <2>7 DEF DiskInv
<1>2. CASE Crash
  <2>1. /\ pc[Applier] # "down" /\ pc'[Applier] = "down" /\ ~restoring' /\ applied'.hash = None
        /\ kept' = [hash |-> applied.hash, next |-> want]
        /\ UNCHANGED << disk, good, unrestored >>
    BY <1>0, <1>2 DEF Crash
  <2>2. ~Trying'
    BY <2>1 DEF Trying, Loads, Reads
  <2>3. Tidy' /\ Undisturbed'
    BY <2>1 DEF DiskInv, Tidy, Undisturbed, Loads, Reads, Ending
  <2>4. LastGood'
    BY <2>1, <2>2 DEF DiskInv, LastGood, Resting
  <2>5. applied.hash # None => Survivor'
    BY <2>1, CrashSurvived DEF Survivor
  <2>6. Reported'
    BY <2>1, <2>2, <2>5 DEF Reported, Resting
  <2> QED
    BY <2>3, <2>4, <2>6 DEF DiskInv
<1> QED
  BY <1>1, <1>2

(* The applier reads: a tree of a manifest that fits is not rejected, and  *)
(* one that was read to the end fits.                                      *)
LEMMA ReadKeepsDisk ==
  ASSUME GenType, Checked, DiskInv, Read(Applier)
  PROVE  DiskInv'
<1> DEFINE L == disk["live"]
           G == got[Applier]
           Rest == UNCHANGED << disk, rdir, want, lived, restoring, applied, good, kept, unrestored >>
<1>0. /\ Applier \in Threads /\ Applier # Ticker
      /\ DOMAIN pc = Threads /\ got \in [Threads -> Snapshots] /\ G \in Snapshots
  BY DEF GenType, Threads, Applier, Ticker
<1>1. /\ pc[Applier] \in Reads /\ pc[Applier] \in Loads
      /\ pc[Applier] \notin {"promote", "discard", "restore", "failed", "down", "report",
                             "settings"}
      /\ pc[Applier] \notin Resting /\ pc[Applier] \notin Ending
      /\ ReadDir(Applier) = L
  <2>1. pc[Applier] \in Reads
    BY DEF Read, ReadCounters, ReadProfile, Fingerprint, Walk, StoreSnapshot, Reads
  <2>2. rdir[Applier] = "live"
    BY <2>1 DEF DiskInv, Undisturbed
  <2> QED
    BY <2>1, <2>2 DEF Reads, Loads, Resting, Ending, ReadDir
<1> HIDE DEF L, G
<1>2. ASSUME NEW step \in Reads, pc'[Applier] = step, Rest,
             step = "profile" => got'[Applier].counters = L["counters"].content,
             step \in {"walk1", "walk2", "store"} =>
                Content(L) = << got'[Applier].counters, got'[Applier].profile >>
      PROVE  DiskInv'
  <2>1. /\ step \in Loads /\ step \notin {"promote", "discard", "restore", "failed", "down", "park",
                                          "report", "settings"}
        /\ step \notin Resting /\ step \notin Ending
    BY DEF Reads, Loads, Resting, Ending
  <2>2. Trying <=> Trying'
    BY <1>1, <1>2, <2>1 DEF Trying
  <2>3. Tidy'
    BY <1>1, <1>2, <2>1 DEF DiskInv, Tidy
  <2>4. Undisturbed'
    BY <1>1, <1>2, <2>1 DEF DiskInv, Undisturbed, L
  <2>5. LastGood'
    BY <1>1, <1>2, <2>1, <2>2 DEF DiskInv, LastGood
  <2>6. Reported'
    BY <1>1, <1>2, <2>1, <2>2 DEF DiskInv, Reported
  <2> QED
    BY <2>3, <2>4, <2>5, <2>6 DEF DiskInv
<1>3. ASSUME ReadError(Applier), << want, want >> \in Fits => restoring
      PROVE  DiskInv'
  <2>1. /\ Rest
        /\ pc'[Applier] = IF restoring THEN "failed" ELSE "discard"
    BY <1>0, <1>3 DEF ReadError, GoOn, local, history, record
  <2>2. CASE restoring
    <3>1. pc'[Applier] = "failed" /\ ~Trying' /\ restoring'
      BY <2>1, <2>2 DEF Trying
    <3>2. Tidy' /\ Undisturbed'
      BY <2>1, <2>2, <3>1 DEF DiskInv, Tidy, Undisturbed, Loads, Reads, Ending
    <3>3. LastGood'
      BY <2>1, <2>2, <3>1 DEF DiskInv, LastGood, Resting
    <3>4. Reported'
      BY <2>1, <2>2, <3>1 DEF DiskInv, Reported, Resting
    <3> QED
      BY <3>2, <3>3, <3>4 DEF DiskInv
  <2>3. CASE ~restoring
    <3>1. pc'[Applier] = "discard" /\ Trying /\ Trying' /\ ~restoring'
      BY <1>1, <2>1, <2>3 DEF Trying
    <3>2. Whole(L, want)
      BY <1>1, <2>3 DEF DiskInv, Tidy, L
    <3>3. \A f \in DOMAIN L : L[f].content = want
      <4>1. DOMAIN L = Files /\ L["counters"].content = want /\ L["profile"].content = want
        BY <3>2, TreeFacts
      <4> QED
        BY <4>1 DEF Files
    <3>4. Tidy' /\ Undisturbed'
      BY <1>3, <2>1, <2>3, <3>1, <3>3 DEF DiskInv, Tidy, Undisturbed, Loads, Reads, Ending, L
    <3>5. LastGood'
      BY <2>1, <2>3, <3>1 DEF DiskInv, LastGood, Resting
    <3>6. Reported'
      BY <2>1, <2>3, <3>1 DEF DiskInv, Reported, Resting
    <3> QED
      BY <3>4, <3>5, <3>6 DEF DiskInv
  <2> QED
    BY <2>2, <2>3
<1>4. ~restoring => Whole(L, want)
  BY <1>1 DEF DiskInv, Tidy, L
<1>5. ~restoring => /\ DOMAIN L = Files
                    /\ L["counters"].content = want /\ L["profile"].content = want
  BY <1>4, TreeFacts
<1>6. CASE ReadCounters(Applier)
  <2>1. CASE "counters" \notin DOMAIN L
    <3>1. ReadError(Applier)
      BY <1>1, <1>6, <2>1 DEF ReadCounters
    <3>2. restoring
      BY <1>5, <2>1 DEF Files
    <3> QED
      BY <1>3, <3>1, <3>2
  <2>2. CASE "counters" \in DOMAIN L
    <3>1. /\ got' = [got EXCEPT ![Applier].counters = L["counters"].content]
          /\ GoOn(Applier, "profile")
          /\ Rest
      BY <1>1, <1>6, <2>2 DEF ReadCounters, memory, local, history, record
    <3>2. pc'[Applier] = "profile" /\ got'[Applier].counters = L["counters"].content
      BY <1>0, <3>1 DEF GoOn, Snapshots, G
    <3> QED
      BY <1>2, <3>1, <3>2 DEF Reads
  <2> QED
    BY <2>1, <2>2
<1>7. CASE ReadProfile(Applier)
  <2>0. pc[Applier] = "profile" /\ G.counters = L["counters"].content
    BY <1>7 DEF ReadProfile, DiskInv, Undisturbed, G, L
  <2>1. CASE ~Validates(Applier)
    <3>1. ReadError(Applier)
      BY <1>7, <2>1 DEF ReadProfile
    <3>2. << want, want >> \in Fits => restoring
      BY <1>1, <1>5, <2>0, <2>1 DEF Validates, Files, G
    <3> QED
      BY <1>3, <3>1, <3>2
  <2>2. CASE Validates(Applier)
    <3>1. /\ got' = [got EXCEPT ![Applier].profile = L["profile"].content]
          /\ GoOn(Applier, "walk1")
          /\ Rest
      BY <1>1, <1>7, <2>2 DEF ReadProfile, memory, local, history, record
    <3>2. /\ pc'[Applier] = "walk1"
          /\ got'[Applier].counters = G.counters
          /\ got'[Applier].profile = L["profile"].content
      BY <1>0, <3>1 DEF GoOn, Snapshots, G
    <3> QED
      BY <1>2, <2>0, <3>1, <3>2 DEF Reads, Content
  <2> QED
    BY <2>1, <2>2
<1>8. ASSUME NEW f \in Files, NEW from \in {"walk1", "walk2"}, NEW to \in {"walk2", "store"},
             Walk(Applier, f, from, to)
      PROVE  DiskInv'
  <2>0. pc[Applier] = from /\ Content(L) = << G.counters, G.profile >>
    BY <1>8 DEF Walk, DiskInv, Undisturbed, G, L
  <2>1. CASE f \notin DOMAIN L /\ ReadError(Applier)
    BY <1>3, <1>5, <2>1
  <2>2. CASE ~(f \notin DOMAIN L /\ ReadError(Applier))
    <3>1. /\ GoOn(Applier, to)
          /\ \/ UNCHANGED got
             \/ got' = [got EXCEPT ![Applier].fp[f] = L[f].stamp]
          /\ Rest
      BY <1>1, <1>8, <2>2 DEF Walk, memory, local, history, record, reading
    <3>2. /\ pc'[Applier] = to
          /\ got'[Applier].counters = G.counters /\ got'[Applier].profile = G.profile
      BY <1>0, <3>1 DEF GoOn, Snapshots, G
    <3> QED
      BY <1>2, <2>0, <3>1, <3>2 DEF Reads
  <2> QED
    BY <2>1, <2>2
<1>9. CASE StoreSnapshot(Applier)
  <2>1. /\ Rest
        /\ pc'[Applier] = IF restoring THEN "failed" ELSE "prune"
    BY <1>0, <1>9 DEF StoreSnapshot, GoOn, local, history, record
  <2>2. Content(L) = << G.counters, G.profile >> /\ << G.counters, G.profile >> \in Fits
    BY <1>0, <1>9 DEF StoreSnapshot, DiskInv, Undisturbed, Checked, G, L
  <2>3. ~Trying'
    BY <2>1 DEF Trying, Loads, Reads
  <2>4. ~restoring => << want, want >> \in Fits
    BY <1>4, <2>2 DEF Whole
  <2>5. Tidy' /\ Undisturbed'
    BY <1>1, <1>4, <2>1, <2>4 DEF DiskInv, Tidy, Undisturbed, Loads, Reads, Ending, L
  <2>6. LastGood' /\ Reported'
    BY <1>1, <2>1, <2>3 DEF DiskInv, LastGood, Reported, Resting
  <2> QED
    BY <2>5, <2>6 DEF DiskInv
<1> QED
  BY <1>6, <1>7, <1>8, <1>9 DEF Read, Fingerprint, Files

(* The applier's other steps.                                              *)
LEMMA ApplyKeepsDisk ==
  ASSUME GenType, DiskInv,
         \/ Deliver \/ Stage \/ DropPrev \/ Park \/ Promote \/ ReloadFrom
         \/ Discard \/ Restore \/ Failed \/ Prune \/ Report \/ ApplySettings
  PROVE  DiskInv'
<1> DEFINE L == disk["live"]
           P == disk["prev"]
<1>0. /\ Applier \in Threads /\ DOMAIN pc = Threads /\ DOMAIN rdir = Threads
      /\ disk \in [Dirs -> Trees] /\ L \in Trees /\ P \in Trees /\ unrestored \in BOOLEAN
      /\ applied \in [hash : Manifests \union {None}, apply : {None, "ok", "apply_failed"}]
      /\ lived \in BOOLEAN
  BY DEF GenType, Threads, Dirs
<1>a. /\ ~Loadable(Absent) /\ Uniform(Absent) /\ DOMAIN Absent = {}
      /\ \A m : ~Whole(Absent, m)
  BY TreeFacts
<1>1. CASE Deliver
  <2>1. /\ pc[Applier] = "idle"
        /\ UNCHANGED << disk, lived, restoring, applied, good, kept, unrestored >>
        /\ pc'[Applier] \in {"idle", "stage"}
    BY <1>0, <1>1 DEF Deliver, GoOn, memory, history, record
  <2>2. ~restoring /\ ~Trying'
    BY <2>1 DEF DiskInv, Tidy, Trying, Loads, Reads
  <2>3. Tidy' /\ Undisturbed'
    BY <2>1, <2>2 DEF DiskInv, Tidy, Undisturbed, Loads, Reads, Ending
  <2>4. LastGood' /\ Reported'
    BY <2>1, <2>2 DEF DiskInv, LastGood, Reported, Resting
  <2> QED
    BY <2>3, <2>4 DEF DiskInv
<1>2. CASE Stage
  <2>1. /\ pc[Applier] = "stage"
        /\ pc'[Applier] \in {"dropPrev", "failed"}
        /\ UNCHANGED << disk, want, lived, restoring, applied, good, kept, unrestored >>
    BY <1>0, <1>2 DEF Stage, ApplierGoesOn, GoOn, memory, record
  <2>2. ~restoring /\ ~Trying'
    BY <2>1 DEF DiskInv, Tidy, Trying, Loads, Reads
  <2>3. Tidy' /\ Undisturbed'
    BY <2>1, <2>2 DEF DiskInv, Tidy, Undisturbed, Loads, Reads, Ending
  <2>4. LastGood' /\ Reported'
    BY <2>1, <2>2 DEF DiskInv, LastGood, Reported, Resting
  <2> QED
    BY <2>3, <2>4 DEF DiskInv
<1>3. CASE DropPrev
  <2>1. /\ pc[Applier] = "dropPrev" /\ pc'[Applier] = "park"
        /\ disk'["prev"] = Absent /\ disk'["live"] = L
        /\ UNCHANGED << want, lived, restoring, applied, good, kept, unrestored >>
    BY <1>0, <1>3 DEF DropPrev, ApplierGoesOn, GoOn, memory, record, Dirs
  <2>2. ~restoring /\ ~Trying'
    BY <2>1 DEF DiskInv, Tidy, Trying, Loads, Reads
  <2>3. Tidy' /\ Undisturbed'
    BY <1>a, <2>1, <2>2 DEF DiskInv, Tidy, Undisturbed, Loads, Reads, Ending
  <2>4. LastGood' /\ Reported'
    BY <2>1, <2>2 DEF DiskInv, LastGood, Reported, Resting
  <2> QED
    BY <2>3, <2>4 DEF DiskInv
<1>4. CASE Park
  <2>0. pc[Applier] = "park" /\ P = Absent /\ ~restoring
    BY <1>4 DEF Park, DiskInv, Tidy, Loads, Reads
  <2>1. UNCHANGED << want, restoring, applied, good, kept, unrestored >>
    BY <1>4 DEF Park, ApplierGoesOn, memory, record
  <2>2. CASE pc'[Applier] = "failed"
    <3>1. UNCHANGED << disk, lived >>
      BY <1>0, <1>4, <2>2 DEF Park, ApplierGoesOn, GoOn
    <3>2. ~Trying'
      BY <2>2 DEF Trying, Loads, Reads
    <3>3. Tidy' /\ Undisturbed'
      BY <2>0, <2>1, <2>2, <3>1 DEF DiskInv, Tidy, Undisturbed, Loads, Reads, Ending
    <3>4. LastGood' /\ Reported'
      BY <2>0, <2>1, <2>2, <3>1, <3>2 DEF DiskInv, LastGood, Reported, Resting
    <3> QED
      BY <3>3, <3>4 DEF DiskInv
  <2>3. CASE pc'[Applier] # "failed"
    <3>1. /\ pc'[Applier] = "promote"
          /\ disk'["live"] = Absent /\ disk'["prev"] = L
          /\ lived' <=> L # Absent
      BY <1>0, <1>4, <2>0, <2>3 DEF Park, ApplierGoesOn, GoOn, Dirs
    <3>2. Tidy' /\ Undisturbed'
      BY <1>a, <2>0, <2>1, <3>1 DEF DiskInv, Tidy, Undisturbed, Loads, Reads, Ending
    <3>3. LastGood'
      BY <1>a, <2>0, <2>1, <3>1 DEF DiskInv, LastGood, Resting
    <3>4. Reported'
      BY <1>a, <2>0, <2>1, <3>1 DEF DiskInv, Reported, Resting
    <3> QED
      BY <3>2, <3>3, <3>4 DEF DiskInv
  <2> QED
    BY <2>2, <2>3
<1>5. CASE Promote
  <2>0. pc[Applier] = "promote" /\ L = Absent /\ ~restoring /\ Trying
    BY <1>5 DEF Promote, DiskInv, Tidy, Loads, Reads, Trying
  <2>1. UNCHANGED << want, lived, restoring, applied, good, kept >>
    BY <1>5 DEF Promote, memory, local, record
  <2>2. CASE pc'[Applier] = "reload"
    <3>1. disk'["live"] = Tree(want, stamp + 1) /\ disk'["prev"] = P /\ UNCHANGED unrestored
      BY <1>0, <1>5, <2>2 DEF Promote, GoOn, Dirs
    <3>2. Whole(disk'["live"], want) /\ Uniform(disk'["live"])
      <4>1. want \in Contents /\ stamp + 1 \in Nat
        BY <2>0 DEF GenType, Contents
      <4> QED
        BY <3>1, <4>1, TreeFacts
    <3>3. Trying'
      BY <2>0, <2>1, <2>2 DEF Trying, Loads
    <3>4. Tidy' /\ Undisturbed'
      BY <2>0, <2>1, <2>2, <3>1, <3>2 DEF DiskInv, Tidy, Undisturbed, Loads, Reads, Ending
    <3>5. LastGood' /\ Reported'
      BY <2>0, <2>1, <2>2, <3>1, <3>3 DEF DiskInv, LastGood, Reported, Resting
    <3> QED
      BY <3>4, <3>5 DEF DiskInv
  <2>3. CASE pc'[Applier] # "reload"
    <3>1. /\ pc'[Applier] = "failed"
          /\ \/ lived /\ disk'["live"] = P /\ disk'["prev"] = Absent /\ UNCHANGED unrestored
             \/ UNCHANGED disk /\ (unrestored' <=> unrestored \/ lived)
      BY <1>0, <1>5, <2>3 DEF Promote, GoOn, Dirs
    <3>2. ~Trying'
      BY <3>1 DEF Trying, Loads, Reads
    <3>3. Tidy' /\ Undisturbed'
      BY <1>a, <2>0, <2>1, <3>1 DEF DiskInv, Tidy, Undisturbed, Loads, Reads, Ending
    <3>4. LastGood'
      BY <1>a, <2>0, <2>1, <3>1, <3>2 DEF DiskInv, LastGood, Resting
    <3>5. Reported'
      BY <1>a, <2>0, <2>1, <3>1, <3>2 DEF DiskInv, Reported, Resting
    <3> QED
      BY <3>3, <3>4, <3>5 DEF DiskInv
  <2> QED
    BY <2>2, <2>3
<1>6. CASE ReloadFrom
  <2>1. /\ pc[Applier] = "reload" /\ pc'[Applier] = "counters"
        /\ rdir'[Applier] = "live"
        /\ UNCHANGED << disk, want, lived, restoring, applied, good, kept, unrestored >>
    BY <1>0, <1>6 DEF ReloadFrom, ReadFrom, GoOn, history, record
  <2>2. Trying <=> Trying'
    BY <2>1 DEF Trying, Loads, Reads
  <2>3. Tidy' /\ Undisturbed'
    BY <2>1 DEF DiskInv, Tidy, Undisturbed, Loads, Reads, Ending
  <2>4. LastGood' /\ Reported'
    BY <2>1, <2>2 DEF DiskInv, LastGood, Reported, Resting
  <2> QED
    BY <2>3, <2>4 DEF DiskInv
<1>7. CASE Discard
  <2>0. /\ pc[Applier] = "discard" /\ ~restoring /\ Trying
        /\ UNCHANGED << want, lived, restoring, applied, good, kept, unrestored >>
    BY <1>7 DEF Discard, DiskInv, Tidy, Loads, Reads, Trying, ApplierGoesOn, memory, record
  <2>1. CASE L = Absent
    <3>1. pc'[Applier] = "restore" /\ UNCHANGED disk
      BY <1>0, <1>7, <2>1 DEF Discard, ApplierGoesOn, GoOn
    <3>2. Trying'
      BY <3>1 DEF Trying
    <3>3. Tidy' /\ Undisturbed'
      BY <2>0, <2>1, <3>1 DEF DiskInv, Tidy, Undisturbed, Loads, Reads, Ending
    <3>4. LastGood' /\ Reported'
      BY <2>0, <3>1, <3>2 DEF DiskInv, LastGood, Reported, Resting
    <3> QED
      BY <3>3, <3>4 DEF DiskInv
  <2>2. CASE L # Absent
    <3>1. PICK f : /\ disk' = [disk EXCEPT !["live"] = [g \in DOMAIN L \ {f} |-> L[g]]]
                   /\ pc'[Applier] = "discard"
      BY <1>0, <1>7, <2>2 DEF Discard, ApplierGoesOn, GoOn
    <3> DEFINE less == [g \in DOMAIN L \ {f} |-> L[g]]
    <3>2. Uniform(less) /\ \A g \in DOMAIN less : less[g].content = want
      <4>1. Uniform(L) /\ \A g \in DOMAIN L : L[g].content = want
        BY <2>0 DEF DiskInv, Tidy
      <4>2. Uniform(less)
        BY <1>0, <4>1, TreeFacts
      <4> QED
        BY <4>1, <4>2
    <3> HIDE DEF less
    <3>3. disk'["live"] = less /\ disk'["prev"] = P
      BY <1>0, <3>1 DEF less, Dirs
    <3>4. Trying'
      BY <3>1 DEF Trying
    <3>5. Tidy' /\ Undisturbed'
      BY <2>0, <3>1, <3>2, <3>3 DEF DiskInv, Tidy, Undisturbed, Loads, Reads, Ending
    <3>6. LastGood' /\ Reported'
      BY <2>0, <3>1, <3>3, <3>4 DEF DiskInv, LastGood, Reported, Resting
    <3> QED
      BY <3>5, <3>6 DEF DiskInv
  <2> QED
    BY <2>1, <2>2
<1>8. CASE Restore
  <2>0. /\ pc[Applier] = "restore" /\ L = Absent /\ ~restoring /\ Trying
        /\ UNCHANGED << want, lived, applied, good, kept >>
    BY <1>8 DEF Restore, DiskInv, Tidy, Loads, Reads, Trying, memory, record
  <2>1. CASE pc'[Applier] = "reload"
    <3>1. /\ lived /\ restoring' /\ disk'["live"] = P /\ disk'["prev"] = Absent
          /\ UNCHANGED unrestored
      BY <1>0, <1>8, <2>1 DEF Restore, GoOn, Dirs
    <3>2. ~Trying'
      BY <2>1, <3>1 DEF Trying
    <3>3. Tidy' /\ Undisturbed'
      BY <1>a, <2>0, <2>1, <3>1 DEF DiskInv, Tidy, Undisturbed, Loads, Reads, Ending
    <3>4. LastGood' /\ Reported'
      BY <2>0, <2>1, <3>1, <3>2 DEF DiskInv, LastGood, Reported, Resting
    <3> QED
      BY <3>3, <3>4 DEF DiskInv
  <2>2. CASE pc'[Applier] # "reload"
    <3>1. /\ pc'[Applier] = "failed" /\ UNCHANGED << disk, restoring >>
          /\ (lived /\ unrestored') \/ (~lived /\ UNCHANGED unrestored)
      BY <1>0, <1>8, <2>2 DEF Restore, GoOn
    <3>2. ~Trying'
      BY <3>1 DEF Trying, Loads, Reads
    <3>3. Tidy' /\ Undisturbed'
      BY <2>0, <3>1 DEF DiskInv, Tidy, Undisturbed, Loads, Reads, Ending
    <3>4. LastGood' /\ Reported'
      BY <1>a, <2>0, <3>1, <3>2 DEF DiskInv, LastGood, Reported, Resting
    <3> QED
      BY <3>3, <3>4 DEF DiskInv
  <2> QED
    BY <2>1, <2>2
<1>9. CASE Failed
  <2>1. /\ pc[Applier] = "failed" /\ pc'[Applier] = "idle"
        /\ ~restoring' /\ applied'.hash = applied.hash /\ applied'.apply = "apply_failed"
        /\ UNCHANGED << disk, good, kept, unrestored >>
    BY <1>0, <1>9 DEF Failed, GoOn, history, record
  <2>2. ~Trying'
    BY <2>1 DEF Trying, Loads, Reads
  <2>3. Tidy' /\ Undisturbed'
    BY <2>1 DEF DiskInv, Tidy, Undisturbed, Loads, Reads, Ending
  <2>4. LastGood' /\ Reported'
    BY <2>1, <2>2 DEF DiskInv, LastGood, Reported, Resting, None
  <2> QED
    BY <2>3, <2>4 DEF DiskInv
<1>10. CASE Prune
  <2>1. /\ pc[Applier] = "prune" /\ pc'[Applier] = "report"
        /\ disk'["live"] = L /\ disk'["prev"] = Absent /\ good' = want
        /\ UNCHANGED << applied, want, restoring, kept, unrestored >>
    BY <1>0, <1>10 DEF Prune, GoOn, Dirs, memory, local
  <2>2. ~Trying' /\ ~restoring /\ Whole(L, want) /\ << want, want >> \in Fits
    BY <2>1 DEF Trying, Loads, Reads, DiskInv, Tidy, Ending
  <2>3. Tidy' /\ Undisturbed'
    BY <1>a, <2>1, <2>2 DEF DiskInv, Tidy, Undisturbed, Loads, Reads, Ending
  <2>4. LastGood'
    BY <2>1, <2>2 DEF LastGood, Resting, Whole
  <2>5. Reported'
    BY <2>1, <2>2 DEF DiskInv, Reported, Resting
  <2> QED
    BY <2>3, <2>4, <2>5 DEF DiskInv
<1>11. CASE Report
  <2>1. /\ pc[Applier] = "report" /\ pc'[Applier] = "settings"
        /\ applied'.hash = want /\ applied'.apply = "ok"
        /\ UNCHANGED << disk, want, lived, restoring, good, kept >>
    BY <1>0, <1>11 DEF Report, GoOn, local
  <2>2. ~Trying' /\ ~restoring /\ Whole(L, want) /\ << want, want >> \in Fits
    BY <2>1 DEF Trying, Loads, Reads, DiskInv, Tidy, Ending
  <2>3. Tidy' /\ Undisturbed'
    BY <2>1, <2>2 DEF DiskInv, Tidy, Undisturbed, Loads, Reads, Ending
  <2>4. LastGood'
    BY <2>1, <2>2 DEF DiskInv, LastGood, Resting
  <2>5. Reported'
    BY <2>1, <2>2 DEF Reported, Resting, None
  <2> QED
    BY <2>3, <2>4, <2>5 DEF DiskInv
<1>12. CASE ApplySettings
  <2>1. /\ pc[Applier] = "settings" /\ pc'[Applier] = "idle"
        /\ UNCHANGED << disk, applied, restoring, good, kept, unrestored >>
    BY <1>0, <1>12 DEF ApplySettings, GoOn, history, record
  <2>2. ~Trying' /\ ~restoring /\ Whole(L, want) /\ << want, want >> \in Fits
    BY <2>1 DEF Trying, Loads, Reads, DiskInv, Tidy, Ending
  <2>3. Tidy' /\ Undisturbed'
    BY <2>1, <2>2 DEF DiskInv, Tidy, Undisturbed, Loads, Reads, Ending
  <2>4. LastGood'
    BY <2>1, <2>2 DEF DiskInv, LastGood, Resting
  <2>5. Reported'
    BY <2>1, <2>2 DEF DiskInv, Reported, Resting
  <2> QED
    BY <2>3, <2>4, <2>5 DEF DiskInv
<1> QED
  BY <1>1, <1>2, <1>3, <1>4, <1>5, <1>6, <1>7, <1>8, <1>9, <1>10, <1>11, <1>12

GenInv == GenType /\ Checked /\ ServesValid /\ DiskInv

(* The inductive invariant holds at the start. *)
LEMMA GenInvInit == Init => GenInv
<1> SUFFICES ASSUME Init PROVE GenInv
  OBVIOUS
<1>1. GenType /\ Checked /\ ServesValid
  BY TypeInit DEF Init, Checked, ServesValid
<1>2. /\ disk["live"] = Absent /\ disk["prev"] = Absent
      /\ pc[Applier] = "down" /\ ~restoring /\ good = None /\ kept.hash = None
      /\ applied.hash = None
  BY DEF Init, Threads
<1>3. ~Trying
  BY <1>2 DEF Trying, Loads, Reads
<1>4. DiskInv
  BY <1>2, <1>3, TreeFacts
     DEF DiskInv, Tidy, Undisturbed, LastGood, Reported, Loads, Reads, Resting, Ending
<1> QED
  BY <1>1, <1>4 DEF GenInv

(* Every step keeps the inductive invariant. *)
LEMMA GenInvNext ==
  ASSUME GenInv, [Next]_vars
  PROVE  GenInv'
<1>1. GenType' /\ Checked' /\ ServesValid'
  BY TypeNext, ChecksNext DEF GenInv
<1>2. CASE UNCHANGED vars
  BY <1>1, <1>2, DiskFrame DEF GenInv, vars, memory, reading, local, history, record
<1>3. CASE Next
  BY <1>1, <1>3, OthersKeepDisk, RestartKeepsDisk, ReadKeepsDisk, ApplyKeepsDisk
     DEF GenInv, Next, ApplierStep
<1> QED
  BY <1>2, <1>3

(* The inductive invariant holds in every behaviour, with the ticker or    *)
(* without.                                                                *)
LEMMA GenInvHolds == Spec => []GenInv
<1>1. GenInv /\ [Next]_vars => GenInv'
  BY GenInvNext
<1> QED
  BY <1>1, GenInvInit, PTL DEF Spec

(* When the applier rests, the manifest the heartbeat reports is the one   *)
(* on disk, also after one that was rejected, or that any system call kept *)
(* from being written; unless it could not be put back.                    *)
THEOREM ReportMatchesDisk == Spec => []LiveMatchesReport
<1>1. GenInv => LiveMatchesReport
  <2> SUFFICES ASSUME GenInv, pc[Applier] = "idle", applied.hash # None
               PROVE  \/ Whole(disk.live, applied.hash)
                      \/ unrestored /\ applied.apply = "apply_failed" /\ disk.live = Absent
    BY DEF LiveMatchesReport
  <2>1. /\ (disk.live = Absent /\ unrestored) \/ Whole(disk.live, applied.hash)
        /\ applied.apply = "ok" => Whole(disk.live, applied.hash)
    BY DEF GenInv, DiskInv, Reported, Resting
  <2>2. applied.apply \in {"ok", "apply_failed"}
    BY DEF GenInv, GenType, DiskInv, Reported
  <2> QED
    BY <2>1, <2>2
<1> QED
  BY <1>1, GenInvHolds, PTL

(* The generation last served from the data directory is not destroyed     *)
(* before another one takes its place.                                     *)
THEOREM LastGoodIsKept == Spec => LastGoodKept
<1> DEFINE Body == good # None /\ Copies(good) # {} /\ good' = good
                   => \/ Copies(good)' # {}
                      \/ pc[Applier] = "dropPrev" /\ ~Loadable(disk.live)
           L == disk["live"]
           P == disk["prev"]
<1>1. GenInv /\ [Next]_vars => [Body]_vars
  <2> SUFFICES ASSUME GenInv, Next, good # None, Copies(good) # {}, good' = good,
                      ~(pc[Applier] = "dropPrev" /\ ~Loadable(disk.live))
               PROVE  Copies(good)' # {}
    OBVIOUS
  <2>0. /\ disk \in [Dirs -> Trees] /\ L \in Trees /\ Applier \in Threads /\ DOMAIN pc = Threads
        /\ << good, good >> \in Fits
    BY DEF GenInv, GenType, Dirs, Threads, DiskInv, LastGood
  <2>1. Whole(L, good) \/ Whole(P, good)
    BY DEF Copies, Whole
  <2>2. SUFFICES Whole(disk'["live"], good) \/ Whole(disk'["prev"], good)
    BY DEF Copies, Whole
  <2>3. CASE disk'["live"] = L /\ disk'["prev"] = P
    BY <2>1, <2>3
  <2>4. \/ disk'["live"] = L /\ disk'["prev"] = P
        \/ DropPrev \/ Park \/ Promote \/ Discard \/ Restore \/ Prune
    <3>1. ASSUME NEW th, Read(th) PROVE UNCHANGED disk
      BY <3>1 DEF Read, ReadCounters, ReadProfile, Fingerprint, Walk, ReadError, StoreSnapshot
    <3>2. TickStart \/ Check \/ Compare => UNCHANGED disk
      BY DEF TickStart, Check, Walk, Compare, ReadError
    <3>3. Deliver \/ Stage \/ ReloadFrom \/ Failed \/ Report \/ ApplySettings => UNCHANGED disk
      BY DEF Deliver, Stage, ReloadFrom, Failed, Report, ApplySettings
    <3>4. Start \/ Crash \/ (\E m \in Manifests : Publish(m)) => UNCHANGED disk
      BY DEF Start, Crash, Publish
    <3>5. ASSUME NEW f \in Files, NEW c \in Edits, EditBase(f, c)
          PROVE  disk'["live"] = L /\ disk'["prev"] = P
      BY <2>0, <3>5 DEF EditBase, Dirs
    <3> QED
      BY <3>1, <3>2, <3>3, <3>4, <3>5 DEF Next, TickerStep, ApplierStep
  <2>5. CASE DropPrev
    <3>1. pc[Applier] = "dropPrev" /\ disk'["live"] = L
      BY <2>0, <2>5 DEF DropPrev, Dirs
    <3>2. Loadable(L)
      BY <3>1
    <3> QED
      BY <3>1, <3>2 DEF GenInv, DiskInv, LastGood, Resting, Whole, Loadable
  <2>6. CASE Park
    <3>1. P = Absent
      BY <2>6 DEF Park, GenInv, DiskInv, Tidy
    <3>2. Whole(L, good)
      BY <2>1, <3>1, TreeFacts
    <3>3. disk'["prev"] = L \/ disk'["live"] = L
      BY <2>0, <2>6 DEF Park, Dirs
    <3> QED
      BY <3>2, <3>3
  <2>7. CASE Promote \/ Restore
    <3>1. L = Absent
      BY <2>7 DEF Promote, Restore, GenInv, DiskInv, Tidy
    <3>2. Whole(P, good)
      BY <2>1, <3>1, TreeFacts
    <3>3. disk'["prev"] = P \/ disk'["live"] = P
      BY <2>0, <2>7 DEF Promote, Restore, Dirs
    <3> QED
      BY <3>2, <3>3
  <2>8. CASE Discard
    <3>1. /\ \A f \in DOMAIN L : L[f].content = want
          /\ << want, want >> \notin Fits
      BY <2>8 DEF Discard, GenInv, DiskInv, Tidy
    <3>2. ~Whole(L, good)
      <4> SUFFICES ASSUME Whole(L, good) PROVE FALSE
        OBVIOUS
      <4>1. DOMAIN L = Files /\ L["counters"].content = good
        BY TreeFacts
      <4>2. good = want
        BY <3>1, <4>1 DEF Files
      <4> QED
        BY <2>0, <3>1, <4>2
    <3>3. disk'["prev"] = P
      BY <2>0, <2>8 DEF Discard, Dirs
    <3> QED
      BY <2>1, <3>2, <3>3
  <2>9. CASE Prune
    <3>1. Whole(L, want) /\ good' = want /\ disk'["live"] = L
      BY <2>0, <2>9 DEF Prune, GenInv, DiskInv, Tidy, Dirs, Ending
    <3> QED
      BY <3>1
  <2> QED
    BY <2>3, <2>4, <2>5, <2>6, <2>7, <2>8, <2>9
<1> QED
  BY <1>1, GenInvHolds, PTL DEF Spec, LastGoodKept

(* Wherever the process goes down, when it comes up again it serves the    *)
(* manifest that was reported as applied then, or the one that was being   *)
(* applied, but for the two cases in which Bootstrap finds nothing.        *)
THEOREM ReportSurvivesRestart == Spec => SurvivesRestart
<1> DEFINE Body ==
      pc[Applier] = "down" /\ pc'[Applier] # "down" /\ kept.hash # None
      => \/ Served' = << kept.hash, kept.hash >>
         \/ kept.next # None /\ Served' = << kept.next, kept.next >>
         \/ ~Loadable(disk.live) /\ kept.next # None /\ Copies(kept.hash) = {"prev"}
         \/ ~Loadable(disk.live) /\ unrestored
           L == disk["live"]
<1>1. GenInv /\ [Next]_vars => [Body]_vars
  <2> SUFFICES ASSUME GenInv, Next, pc[Applier] = "down", pc'[Applier] # "down", kept.hash # None
               PROVE  Body
    OBVIOUS
  <2>0. Applier \in Threads /\ Ticker \in Threads /\ Applier # Ticker /\ DOMAIN pc = Threads
    BY DEF Threads, Applier, Ticker, GenInv, GenType
  <2>1. Start
    <3>1. ~ApplierStep
      BY DEF ApplierStep, Deliver, Stage, DropPrev, Park, Promote, ReloadFrom, Discard, Restore,
             Failed, Prune, Report, ApplySettings, Read, ReadCounters, ReadProfile, Fingerprint,
             Walk, StoreSnapshot
    <3>2. pc[Ticker] = "down"
      BY DEF GenInv, GenType
    <3>3. ~TickerStep
      BY <3>2 DEF TickerStep, TickStart, Check, Walk, Compare, Read, ReadCounters, ReadProfile,
                  Fingerprint, StoreSnapshot
    <3> QED
      BY <3>1, <3>3 DEF Next, Publish, EditBase, Crash
  <2>2. Survivor
    BY DEF GenInv, DiskInv, Reported
  <2>3. ASSUME NEW m, Whole(L, m), << m, m >> \in Fits
        PROVE  Served' = << m, m >>
    <3>1. Loadable(L)
      BY <2>3, TreeFacts
    <3>2. cur' = SnapshotOf(L)
      BY <2>1, <3>1 DEF Start, Bootstrap
    <3> QED
      BY <2>3, <3>2 DEF Served, SnapshotOf, Whole, Content
  <2>4. ASSUME NEW m, Whole(disk["prev"], m), ~Whole(L, m)
        PROVE  Copies(m) = {"prev"}
    BY <2>4 DEF Copies
  <2> QED
    BY <2>2, <2>3, <2>4 DEF Survivor
<1> QED
  BY <1>1, GenInvHolds, PTL DEF Spec, SurvivesRestart
-----------------------------------------------------------------------------
(***************************************************************************)
(* Without the ticker only the applier replaces what is served, and only   *)
(* with what it has read: a manifest that is reported right after, or the  *)
(* one in force, put back.                                                 *)
(***************************************************************************)
ServedInv ==
    /\ pc[Ticker] \in {"down", "off"}
    /\ pc[Applier] \in {"prune", "report"} => Served = << want, want >>
    /\ applied.hash # None /\ pc[Applier] \notin {"prune", "report"} =>
          Served = << applied.hash, applied.hash >>

(* The level in force is what the manifests reported call for, or will be  *)
(* once the settings of the last one are applied.                          *)
LevelInv ==
    IF pc[Applier] = "settings" THEN called = levelOr(want, level) ELSE level = called

(* Every step keeps the level with what is reported, ticker or not.        *)
LEMMA LevelNext ==
  ASSUME GenType, LevelInv, [Next]_vars
  PROVE  LevelInv'
<1>0. Applier \in Threads /\ Ticker \in Threads /\ Applier # Ticker /\ DOMAIN pc = Threads
  BY DEF Threads, Applier, Ticker, GenType
<1>1. ASSUME UNCHANGED << level, called >>, pc[Applier] # "settings", pc'[Applier] # "settings"
      PROVE  LevelInv'
  BY <1>1 DEF LevelInv
<1>2. ASSUME UNCHANGED << level, called, want >>, pc'[Applier] = pc[Applier]
      PROVE  LevelInv'
  BY <1>2 DEF LevelInv, levelOr
<1>3. CASE UNCHANGED vars
  BY <1>2, <1>3 DEF vars, memory, local, history, record
<1>4. ASSUME \/ \E m \in Manifests : Publish(m)
             \/ \E f \in Files, c \in Edits : EditBase(f, c)
      PROVE  LevelInv'
  BY <1>2, <1>4 DEF Publish, EditBase, memory, local, history, record
<1>5. CASE Start
  <2>1. UNCHANGED << level, called >> /\ pc[Applier] = "down" /\ pc'[Applier] = "idle"
    BY <1>0, <1>5 DEF Start
  <2> QED
    BY <1>1, <2>1
<1>6. CASE Crash
  BY <1>0, <1>6 DEF Crash, LevelInv
<1>7. CASE TickerStep
  <2>1. UNCHANGED << level, called, want >>
    BY <1>0, <1>7 DEF TickerStep, TickStart, Check, Walk, Compare, ReadError, Read, ReadCounters,
             ReadProfile, Fingerprint, StoreSnapshot, memory, local, history, record
  <2>2. \E step : GoOn(Ticker, step)
    BY <1>0, <1>7 DEF TickerStep, TickStart, Check, Walk, Compare, ReadError, Read, ReadCounters,
                ReadProfile, Fingerprint, StoreSnapshot
  <2> QED
    BY <1>0, <1>2, <2>1, <2>2 DEF GoOn
<1>8. CASE Read(Applier)
  <2>1. /\ UNCHANGED << level, called >> /\ pc[Applier] \in Reads
        /\ \E step \in Reads \union {"failed", "discard", "prune"} : GoOn(Applier, step)
    BY <1>0, <1>8 DEF Read, ReadCounters, ReadProfile, Fingerprint, Walk, ReadError, StoreSnapshot,
                      memory, history, record, Reads
  <2> QED
    BY <1>0, <1>1, <2>1 DEF GoOn, Reads
<1>9. CASE \/ Deliver \/ Stage \/ DropPrev \/ Park \/ Promote \/ ReloadFrom
           \/ Discard \/ Restore \/ Failed \/ Prune
  <2>1. /\ UNCHANGED << level, called >> /\ pc[Applier] # "settings"
        /\ \/ UNCHANGED pc
           \/ \E step \in {"idle", "stage", "dropPrev", "park", "promote", "reload", "counters",
                           "discard", "restore", "failed", "report"} : GoOn(Applier, step)
    BY <1>0, <1>9 DEF Deliver, Stage, DropPrev, Park, Promote, ReloadFrom, Discard, Restore,
                      Failed, Prune, ApplierGoesOn, memory, history, record
  <2> QED
    BY <1>0, <1>1, <2>1 DEF GoOn
<1>10. CASE Report
  <2>1. /\ pc[Applier] = "report" /\ pc'[Applier] = "settings"
        /\ called' = levelOr(want, called) /\ UNCHANGED << level, want >>
    BY <1>0, <1>10 DEF Report, GoOn, local
  <2> QED
    BY <2>1 DEF LevelInv, levelOr
<1>11. CASE ApplySettings
  <2>1. /\ pc[Applier] = "settings" /\ pc'[Applier] = "idle"
        /\ level' = levelOr(want, level) /\ UNCHANGED called
    BY <1>0, <1>11 DEF ApplySettings, GoOn, history, record
  <2> QED
    BY <2>1 DEF LevelInv
<1> QED
  BY <1>3, <1>4, <1>5, <1>6, <1>7, <1>8, <1>9, <1>10, <1>11 DEF Next, ApplierStep

(* Without a ticker, every step keeps what is served with what is          *)
(* reported.                                                               *)
LEMMA ServedNext ==
  ASSUME ~Ticking, GenInv, ServedInv, [Next]_vars
  PROVE  ServedInv'
<1>0. /\ Applier \in Threads /\ Ticker \in Threads /\ Applier # Ticker /\ DOMAIN pc = Threads
      /\ applied \in [hash : Manifests \union {None}, apply : {None, "ok", "apply_failed"}]
  BY DEF Threads, Applier, Ticker, GenInv, GenType
<1>1. ASSUME UNCHANGED cur, applied'.hash = applied.hash, pc'[Ticker] = pc[Ticker],
             pc[Applier] \notin {"prune", "report"}, pc'[Applier] \notin {"prune", "report"}
      PROVE  ServedInv'
  BY <1>1 DEF ServedInv, Served
<1>2. CASE UNCHANGED vars
  BY <1>2 DEF vars, memory, local, ServedInv, Served
<1>3. ASSUME \/ \E m \in Manifests : Publish(m)
             \/ \E f \in Files, c \in Edits : EditBase(f, c)
      PROVE  ServedInv'
  BY <1>3 DEF Publish, EditBase, memory, local, ServedInv, Served
<1>4. CASE Start
  <2>1. /\ applied.hash = None /\ UNCHANGED applied
        /\ pc'[Applier] = "idle" /\ pc'[Ticker] = "off"
    BY <1>0, <1>4 DEF Start, GenInv, DiskInv, Reported
  <2> QED
    BY <2>1 DEF ServedInv
<1>5. CASE Crash
  BY <1>0, <1>5 DEF Crash, ServedInv
<1>6. ~TickerStep
  BY DEF ServedInv, TickerStep, TickStart, Check, Walk, Compare, Read, ReadCounters, ReadProfile,
         Fingerprint, StoreSnapshot
<1>7. CASE Read(Applier)
  <2>1. CASE StoreSnapshot(Applier)
    <3>1. /\ pc[Applier] = "store"
          /\ cur' = got[Applier] /\ UNCHANGED << applied, want, disk >>
          /\ pc'[Ticker] = pc[Ticker]
          /\ pc'[Applier] = IF restoring THEN "failed" ELSE "prune"
      BY <1>0, <2>1 DEF StoreSnapshot, GoOn, local
    <3>2. Content(disk["live"]) = << got[Applier].counters, got[Applier].profile >>
      BY <3>1 DEF GenInv, DiskInv, Undisturbed
    <3>3. ~restoring => Whole(disk["live"], want)
      BY <3>1 DEF GenInv, DiskInv, Tidy, Loads, Reads
    <3>4. restoring /\ applied.hash # None => Whole(disk["live"], applied.hash)
      BY DEF GenInv, DiskInv, Reported
    <3>5. Served' = Content(disk["live"])
      BY <3>1, <3>2 DEF Served
    <3> QED
      BY <3>1, <3>3, <3>4, <3>5 DEF ServedInv, Whole
  <2>2. CASE ~StoreSnapshot(Applier)
    <3>1. /\ pc[Applier] \in Reads
          /\ UNCHANGED << cur, applied >>
          /\ \E step \in {"profile", "walk1", "walk2", "store", "failed", "discard"} :
                GoOn(Applier, step)
      BY <1>0, <1>7, <2>2 DEF Read, ReadCounters, ReadProfile, Fingerprint, Walk, ReadError,
                              memory, Reads
    <3>2. /\ pc[Applier] \notin {"prune", "report"} /\ pc'[Applier] \notin {"prune", "report"}
          /\ pc'[Ticker] = pc[Ticker]
      BY <1>0, <3>1 DEF GoOn, Reads
    <3> QED
      BY <1>1, <3>1, <3>2
  <2> QED
    BY <2>1, <2>2
<1>8. CASE \/ Deliver \/ Stage \/ DropPrev \/ Park \/ Promote \/ ReloadFrom
           \/ Discard \/ Restore \/ Failed \/ ApplySettings
  <2>1. /\ pc[Applier] \notin {"prune", "report"}
        /\ UNCHANGED cur /\ applied'.hash = applied.hash
        /\ \/ UNCHANGED pc
           \/ \E step \in {"idle", "stage", "dropPrev", "park", "promote", "reload", "counters",
                           "discard", "restore", "failed"} : GoOn(Applier, step)
    BY <1>0, <1>8 DEF Deliver, Stage, DropPrev, Park, Promote, ReloadFrom, Discard, Restore,
                      Failed, ApplySettings, ApplierGoesOn, memory
  <2>2. pc'[Applier] \notin {"prune", "report"} /\ pc'[Ticker] = pc[Ticker]
    BY <1>0, <2>1 DEF GoOn
  <2> QED
    BY <1>1, <2>1, <2>2
<1>9. CASE Prune
  <2>1. /\ pc[Applier] = "prune" /\ pc'[Applier] = "report" /\ pc'[Ticker] = pc[Ticker]
        /\ UNCHANGED << cur, applied, want >>
    BY <1>0, <1>9 DEF Prune, GoOn, memory, local
  <2> QED
    BY <2>1 DEF ServedInv, Served
<1>10. CASE Report
  <2>1. /\ pc[Applier] = "report" /\ pc'[Applier] = "settings" /\ pc'[Ticker] = pc[Ticker]
        /\ applied'.hash = want /\ UNCHANGED << cur, want >>
    BY <1>0, <1>10 DEF Report, GoOn, local
  <2> QED
    BY <2>1 DEF ServedInv, Served
<1> QED
  BY <1>2, <1>3, <1>4, <1>5, <1>6, <1>7, <1>8, <1>9, <1>10 DEF Next, ApplierStep

(* Without the ticker, what the heartbeat reports is what is served, as a  *)
(* whole, at every step of an apply, whatever failed, and the level in     *)
(* force is what the manifests reported call for.                          *)
THEOREM ReportedIsServed ==
  ASSUME ~Ticking
  PROVE  Spec => []AppliedIsServed
<1>1. Init => ServedInv /\ LevelInv
  BY DEF Init, ServedInv, LevelInv, Threads
<1>2. GenInv /\ ServedInv /\ LevelInv /\ [Next]_vars => ServedInv' /\ LevelInv'
  BY ServedNext, LevelNext DEF GenInv
<1>3. ServedInv /\ LevelInv => AppliedIsServed
  BY DEF ServedInv, LevelInv, AppliedIsServed
<1> QED
  BY <1>1, <1>2, <1>3, GenInvHolds, PTL DEF Spec

=============================================================================
