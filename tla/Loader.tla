------------------------------- MODULE Loader -------------------------------
(***************************************************************************)
(* Headers and bodies are not in a message: the message has locators, and  *)
(* the inspector loads what they name from the buffer store                *)
(* (internal/body, and the locators of internal/protocol).  Operators      *)
(* only; Exchange uses them.                                               *)
(*                                                                         *)
(* A locator is a set with at most one record.  A store is a record:       *)
(* configured, up (it answers), and blobs, a function of its keys.  A blob *)
(* is a record with a digest.                                              *)
(***************************************************************************)
EXTENDS Integers, Sequences, SequencesExt

Locator(unavailable, driver, store, key) ==
    [unavailable |-> unavailable, driver |-> driver, store |-> store, key |-> key,
     enc |-> FALSE, sha |-> "", processed |-> "", truncated |-> FALSE, size |-> 0]

(* Locator.validate, on receipt: an address is whole, and not given along  *)
(* with the reason why there is none.                                      *)
Addressable(loc) ==
    \A l \in loc : /\ l.unavailable # "" => l.driver = "" /\ l.key = ""
                   /\ (l.driver = "") <=> (l.key = "")

NoBlob == [digest |-> "none"]

(* A body that was loaded, is not there, or could not be loaded: only the  *)
(* last is a fault.                                                        *)
NoBody(unavailable) == [data |-> NoBlob, unavailable |-> unavailable, fault |-> FALSE]
Faulty(unavailable) == [data |-> NoBlob, unavailable |-> unavailable, fault |-> TRUE]
Loaded(blob) == [data |-> blob, unavailable |-> "", fault |-> FALSE]

Available(body) == body.unavailable = ""
Failed(body) == body.fault

(* What the digest must be: of a part of the object it cannot be checked   *)
(* unless the digest is of that part.                                      *)
Wanted(l) == IF l.processed # "" THEN l.processed ELSE IF l.truncated THEN "" ELSE l.sha

(* There is no source of keys, so nothing that is encrypted can be read. *)
finish(l, blob) ==
    IF l.enc THEN Faulty("decrypt_failed")
    ELSE IF Wanted(l) \notin {"", blob.digest} THEN Faulty("digest_mismatch")
    ELSE Loaded(blob)

Has(st, l) == st.up /\ l.key \in DOMAIN st.blobs

(* Loader.Load over RedisStore.Get, where a key that is not there is an    *)
(* error as well.                                                          *)
LoadFrom(st, l) ==
    IF ~st.configured THEN Faulty("store_unconfigured")
    ELSE IF l.driver # "redis" THEN Faulty("unknown_driver")
    ELSE IF ~Has(st, l) THEN Faulty("store_error")
    ELSE finish(l, st.blobs[l.key])

Stored(loc) == \E l \in loc : l.unavailable = "" /\ l.driver # ""

The(loc) == CHOOSE l \in loc : TRUE

Load(st, loc) ==
    IF loc = {} THEN NoBody("")
    ELSE IF The(loc).unavailable # "" THEN NoBody(The(loc).unavailable)
    ELSE IF Stored(loc) THEN LoadFrom(st, The(loc))
    ELSE NoBody("")

(* A locator joins the batch when it is in the store of the first one that *)
(* is in a store; at has the places of those that are read together.       *)
Joins(locs, at, i) ==
    /\ Stored(locs[i])
    /\ at # << >> => /\ The(locs[i]).driver = The(locs[Head(at)]).driver
                     /\ The(locs[i]).store = The(locs[Head(at)]).store

Batch(locs) ==
    LET at[i \in 0..Len(locs)] ==
            IF i = 0 THEN << >>
            ELSE IF Joins(locs, at[i - 1], i) THEN Append(at[i - 1], i) ELSE at[i - 1]
    IN  at[Len(locs)]

(* RedisStore.GetMany: MGET answers in the order of the keys, nil for one  *)
(* that is not there.                                                      *)
GetMany(st, keys) ==
    [n \in DOMAIN keys |-> IF keys[n] \in DOMAIN st.blobs THEN {st.blobs[keys[n]]} ELSE {}]

BatchLoad(st, loc, raw) ==
    IF The(loc).driver # "redis" THEN Faulty("unknown_driver")
    ELSE IF ~st.up \/ raw = {} THEN Faulty("store_error")
    ELSE finish(The(loc), The(raw))

(* Mutant: a body of the batch goes to its rank in the batch. *)
LoadManyByRank(st, locs) ==
    LET at == Batch(locs)
        raws == GetMany(st, [n \in DOMAIN at |-> The(locs[at[n]]).key])
    IN  [i \in DOMAIN locs |->
            IF st.configured /\ Len(at) >= 2 /\ i \in DOMAIN at
            THEN BatchLoad(st, locs[at[i]], raws[i]) ELSE Load(st, locs[i])]

(* Loader.LoadMany: one round trip when two or more are in one store. *)
LoadMany(st, locs) ==
    LET at == Batch(locs)
        raws == GetMany(st, [n \in DOMAIN at |-> The(locs[at[n]]).key])
    IN  [i \in DOMAIN locs |->
            IF st.configured /\ Len(at) >= 2 /\ Contains(at, i)
            THEN BatchLoad(st, locs[i], raws[CHOOSE n \in DOMAIN at : at[n] = i])
            ELSE Load(st, locs[i])]
=============================================================================
