----------------------------- MODULE ConfigFile -----------------------------
(***************************************************************************)
(* internal/config: the configuration file and the advisory lock beside it. *)
(* "yubitouch configure" and "yubitouch age" rewrite the file under the      *)
(* exclusive lock, the hardware session helper reads it under the shared    *)
(* one, and an editor knows nothing of locks.  Each writer is a process of  *)
(* its own and may be killed at any point: its lock then goes with it.      *)
(*                                                                         *)
(* A configuration is its age target (serial and slot) and the public key   *)
(* cached for it; a key is named by the target it was read from, or Foreign  *)
(* if it was put there by hand.  Every write makes another file, or another  *)
(* modification time: a generation.                                         *)
(***************************************************************************)
EXTENDS Naturals

CONSTANTS
  Configurers,  \* processes that run "yubitouch configure", once each
  Cachers,      \* processes that run "yubitouch age", once each
  Editors,      \* programs that rewrite the file in place, once each
  Targets,      \* serials and slots a configuration may name
  NoKey, Foreign, NoOne

Writers == Configurers \cup Cachers \cup Editors

ASSUME WritersAssumption ==
  Configurers \cap Cachers = {} /\ Editors \cap (Configurers \cup Cachers) = {}
ASSUME NothingAssumption == NoOne \notin Writers /\ NoKey \notin Targets \cup {Foreign} /\ Foreign \notin Targets

VARIABLES
  file,       \* the configuration on disk: its generation, its author, whether it is whole
  shared,     \* the helper holds the lock shared
  exclusive,  \* the writer that holds it exclusively
  writer,     \* where each writer is
  copy,       \* the configuration a writer has loaded under the lock
  probed      \* the target whose public key a cacher has read from the card

configVars == <<file, shared, exclusive, writer, copy, probed>>

InitConfig(cast) ==
  /\ \E t \in Targets : \E k \in {t, NoKey} :
       file = [gen |-> 0, by |-> NoOne, target |-> t, key |-> k, whole |-> TRUE]
  /\ shared = FALSE /\ exclusive = NoOne
  /\ writer = [w \in Writers |-> IF w \in cast THEN "idle" ELSE "over"]
  /\ copy   = [w \in Writers |-> file]
  /\ probed = [w \in Cachers |-> NoKey]

-----------------------------------------------------------------------------

At(w, from, to) == writer[w] = from /\ writer' = [writer EXCEPT ![w] = to]

\* A process ends, and the kernel drops the lock it may hold.
Ends(w) ==
  /\ writer' = [writer EXCEPT ![w] = "over"]
  /\ exclusive' = IF exclusive = w THEN NoOne ELSE exclusive

Begin(w) ==
  /\ w \in Configurers
  /\ At(w, "idle", "waiting")
  /\ UNCHANGED <<file, shared, exclusive, copy, probed>>

\* "yubitouch age" loads the file without the lock; with no key in its cache
\* it asks the card for the key of the target it has found there.
Consult(w) ==
  /\ w \in Cachers /\ writer[w] = "idle"
  /\ IF file.whole /\ file.key = NoKey
       THEN /\ At(w, "idle", "waiting")
            /\ probed' = [probed EXCEPT ![w] = file.target]
            /\ UNCHANGED exclusive
       ELSE Ends(w) /\ UNCHANGED probed
  /\ UNCHANGED <<file, shared, copy>>

LockUnchecked(w) ==  \* seeded bug: the lock keeps nobody out
  /\ At(w, "waiting", "locked")
  /\ exclusive' = w
  /\ UNCHANGED <<file, shared, copy, probed>>

\* acquireConfigLock: the lock file is opened and locked.  A probe that failed
\* or a lock file that cannot be used end the writer (Killed).
Lock(w) ==
  /\ At(w, "waiting", "locked")
  /\ exclusive = NoOne /\ ~shared
  /\ exclusive' = w
  /\ UNCHANGED <<file, shared, copy, probed>>

\* Seeded bug: the target is not compared with the one the key was read for.
LoadableWithoutTarget(w) == file.whole /\ (w \in Cachers => file.key = NoKey)

\* LoadForConfigure takes any file that parses; CacheAgePublicKey only one that
\* still names the target the key was read for and has no key yet.
Loadable(w) ==
  file.whole /\ (w \in Cachers => file.target = probed[w] /\ file.key = NoKey)

LoadOnce(w) ==
  /\ writer[w] = "locked"
  /\ IF Loadable(w)
       THEN /\ At(w, "locked", "loaded")
            /\ copy' = [copy EXCEPT ![w] = file]
            /\ UNCHANGED exclusive
       ELSE Ends(w) /\ UNCHANGED copy
  /\ UNCHANGED <<file, shared, probed>>

\* The environment of "configure" may name another target, which empties the
\* cache; the cacher fills it.
Revisions(w) ==
  IF w \in Cachers THEN {[copy[w] EXCEPT !.key = probed[w]]}
  ELSE {copy[w]} \cup {[copy[w] EXCEPT !.target = t, !.key = NoKey] : t \in Targets \ {copy[w].target}}

\* saveUnlocked: the file is written aside and renamed, or nothing happens, and
\* the lock is released.
Save(w) ==
  /\ writer[w] = "loaded"
  /\ \E new \in Revisions(w) : file' = [new EXCEPT !.gen = file.gen + 1, !.by = w]
  /\ Ends(w)
  /\ UNCHANGED <<shared, copy, probed>>

\* An editor writes in place, without the lock: the file is not whole between.
\* It leaves no key, or one of its own.
Edit(w) ==
  /\ w \in Editors
  /\ \/ /\ At(w, "idle", "editing")
        /\ file' = [file EXCEPT !.gen = @ + 1, !.by = w, !.whole = FALSE]
     \/ /\ At(w, "editing", "over")
        /\ \E t \in Targets, k \in {NoKey, Foreign} :
             file' = [gen |-> file.gen + 1, by |-> w, target |-> t, key |-> k, whole |-> TRUE]
  /\ UNCHANGED <<shared, exclusive, copy, probed>>

\* A writer is killed, or gives up on an error.
Killed(w) ==
  /\ writer[w] \notin {"idle", "over"}
  /\ Ends(w)
  /\ UNCHANGED <<file, shared, copy, probed>>

\* What a writer does once it waits for the lock.
Works(w) == Lock(w) \/ LoadOnce(w) \/ Save(w)

Write(w) == Begin(w) \/ Consult(w) \/ Works(w) \/ Edit(w) \/ Killed(w)

-----------------------------------------------------------------------------
(* The reader's side.                                                      *)

\* AcquireSharedLock; there is one hardware session helper at a time.
LockShared == exclusive = NoOne /\ shared' = TRUE

\* inspectConfigSnapshot: the binding of the file is its generation.  It fails
\* on a file that changes under it, which is another generation afterwards.
Unchanged(gen) == file.gen = gen

-----------------------------------------------------------------------------

ByEditor == file.by \in Editors

\* A writer that is about to save has loaded what is on disk: no update of
\* another supported writer is lost.
NoLostUpdate ==
  \A w \in Writers : writer[w] = "loaded" => file.gen = copy[w].gen \/ ByEditor

\* A cached public key that was read from a card was read from the configured
\* target, whatever ran while the card was being read.
KeyFits(conf) == conf.key \in {NoKey, Foreign, conf.target}
KeyFitsTarget == file.whole => KeyFits(file)
=============================================================================
