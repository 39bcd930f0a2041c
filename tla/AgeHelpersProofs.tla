-------------------------- MODULE AgeHelpersProofs --------------------------
(***************************************************************************)
(* Theorems about AgeHelpers, for any writers, targets and requests: what   *)
(* the lock of the configuration is for.                                   *)
(***************************************************************************)
EXTENDS AgeHelpers, TLAPS

Fields == {"gen", "by", "target", "key", "whole"}

\* A configuration is a record with a generation.
IsConfig(c) == DOMAIN c = Fields /\ c.gen \in Nat

Shapes ==
  /\ IsConfig(file)
  /\ DOMAIN writer = Writers /\ DOMAIN copy = Writers /\ DOMAIN probed = Cachers
  /\ \A w \in Writers : IsConfig(copy[w])
  /\ DOMAIN helper = {"pc", "req", "seen", "conf", "bound", "session", "logins", "pinOf", "keys"}
  /\ DOMAIN resolver = {"at", "conf", "answer"}

\* The lock excludes: the helper and a writer, and two writers.
Excluded ==
  /\ shared => exclusive = NoOne
  /\ \A w \in Writers : writer[w] \in {"locked", "loaded"} => exclusive = w

\* What a writer has loaded makes whatever it saves fit.
CopyFits ==
  \A w \in Writers : writer[w] = "loaded" =>
    /\ KeyFits(copy[w])
    /\ w \in Cachers => copy[w].target = probed[w]

ConfigInv == Shapes /\ Excluded /\ CopyFits /\ NoLostUpdate /\ KeyFitsTarget

\* A session loads the configuration once, and before it does it has no
\* resolver, no PIN and no card; afterwards everything it has is of the
\* generation it is bound to.
Unbound ==
  /\ helper.pc \in {"idle", "lock", "load", "loading", "gone"}
  /\ resolver.at = "none" /\ resolver.answer = NoOne
  /\ helper.session = "none" /\ helper.logins = 0

SessionInv ==
  Session =>
    /\ helper.bound = NoGen => Unbound
    /\ helper.bound # NoGen => helper.conf.gen = helper.bound
    /\ helper.pc \in {"load", "loading"} => helper.bound = NoGen
    /\ helper.pc = "loading" => helper.conf.gen \in Nat
    /\ resolver.at \in {"none", "starting", "loading", "prompting"} => resolver.answer = NoOne
    /\ resolver.at = "prompting" \/ resolver.answer = "pin" => resolver.conf.gen = helper.bound
    /\ helper.session # "authed" /\ helper.pc # "gone" => helper.logins = 0
    /\ helper.pc \in {"open", "pin", "login"} => helper.session # "authed"
    /\ helper.pc = "login" => helper.pinOf = helper.bound

\* A resolver of a helper that is not a session does not exist.
NoneElse == ~Session => resolver.at = "none"

IInv == ConfigInv /\ SessionInv /\ NoneElse /\ DerivesAsConfigured /\ PinFitsTheSession
-----------------------------------------------------------------------------
(* Everyone's steps, by what they leave alone.                             *)

ConfigAlone == UNCHANGED <<file, exclusive, writer, copy, probed, mode>>
HelperAlone == UNCHANGED <<mode, helper, resolver>>

LEMMA InitIInv == Init => IInv
  <1> SUFFICES ASSUME Init PROVE IInv
    OBVIOUS
  <1>1. PICK cast \in Casts[mode] : InitConfig(cast)
    BY DEF Init, InitHelper
  <1>2. PICK t \in Targets, k \in Targets \cup {NoKey} :
          k \in {t, NoKey} /\ file = [gen |-> 0, by |-> NoOne, target |-> t, key |-> k, whole |-> TRUE]
    BY <1>1 DEF InitConfig
  <1>3. /\ shared = FALSE
        /\ writer = [w \in Writers |-> IF w \in cast THEN "idle" ELSE "over"]
        /\ copy   = [w \in Writers |-> file]
        /\ probed = [w \in Cachers |-> NoKey]
    BY <1>1 DEF InitConfig
  <1>4. /\ helper = [pc |-> "idle", req |-> NoOne, seen |-> {}, conf |-> [file EXCEPT !.gen = NoGen],
                     bound |-> NoGen, session |-> "none", logins |-> 0, pinOf |-> NoGen, keys |-> {}]
        /\ resolver = [at |-> "none", conf |-> helper.conf, answer |-> NoOne]
    BY DEF Init, InitHelper
  <1>5. Shapes
    BY <1>2, <1>3, <1>4 DEF Shapes, IsConfig, Fields
  <1>6. Excluded /\ CopyFits /\ NoLostUpdate /\ KeyFitsTarget
    BY <1>2, <1>3 DEF Excluded, CopyFits, NoLostUpdate, KeyFitsTarget, KeyFits
  <1>7. /\ helper.pc = "idle" /\ helper.bound = NoGen /\ helper.session = "none" /\ helper.logins = 0
        /\ resolver.at = "none" /\ resolver.answer = NoOne
    BY <1>4
  <1>8. SessionInv /\ NoneElse /\ DerivesAsConfigured /\ PinFitsTheSession
    BY <1>7, AnswersAssumption DEF SessionInv, Unbound, NoneElse, DerivesAsConfigured, PinFitsTheSession
  <1> QED
    BY <1>5, <1>6, <1>8 DEF IInv, ConfigInv

-----------------------------------------------------------------------------
(* The writers of the configuration.                                       *)

\* A writer that is about to save has the lock to itself.
LEMMA SaverIsAlone ==
  ASSUME Excluded, NEW w \in Writers, writer[w] = "loaded"
  PROVE  ~shared /\ \A v \in Writers : writer[v] = "loaded" => v = w
  BY NothingAssumption DEF Excluded

\* What is saved is a configuration whose key fits.
LEMMA RevisionsFit ==
  ASSUME ConfigInv, NEW w \in Writers, writer[w] = "loaded", NEW new \in Revisions(w)
  PROVE  DOMAIN new = Fields /\ KeyFits(new)
  <1>1. DOMAIN copy[w] = Fields /\ KeyFits(copy[w])
    BY DEF ConfigInv, Shapes, IsConfig, CopyFits, KeyFits
  <1>2. CASE w \in Cachers
    <2>1. new = [copy[w] EXCEPT !.key = probed[w]] /\ copy[w].target = probed[w]
      BY <1>2 DEF Revisions, ConfigInv, CopyFits, KeyFits
    <2> QED
      BY <1>1, <2>1 DEF Fields, KeyFits
  <1>3. CASE w \notin Cachers
    <2>1. CASE new = copy[w]
      BY <1>1, <2>1
    <2>2. ASSUME NEW t \in Targets, new = [copy[w] EXCEPT !.target = t, !.key = NoKey]
          PROVE  DOMAIN new = Fields /\ KeyFits(new)
      BY <1>1, <2>2 DEF Fields, KeyFits
    <2> QED
      BY <1>3, <2>1, <2>2 DEF Revisions
  <1> QED
    BY <1>2, <1>3

\* What an editor leaves bears its name, and no key of another target.
LEMMA EditsAreSigned ==
  ASSUME Shapes, NEW w \in Writers, Edit(w)
  PROVE  w \in Editors /\ IsConfig(file)' /\ file'.by = w /\ KeyFitsTarget'
  <1>1. CASE file' = [file EXCEPT !.gen = @ + 1, !.by = w, !.whole = FALSE]
    BY <1>1 DEF Edit, IsConfig, Fields, KeyFitsTarget, KeyFits, Shapes
  <1>2. ASSUME NEW t \in Targets, NEW k \in {NoKey, Foreign},
               file' = [gen |-> file.gen + 1, by |-> w, target |-> t, key |-> k, whole |-> TRUE]
        PROVE  IsConfig(file)' /\ file'.by = w /\ KeyFitsTarget'
    BY <1>2 DEF IsConfig, Fields, KeyFitsTarget, KeyFits, Shapes
  <1> QED
    BY <1>1, <1>2 DEF Edit

LEMMA WritersKeepConfigInv ==
  ASSUME ConfigInv, NEW w \in Writers, Write(w), UNCHANGED <<helper, resolver>>
  PROVE  ConfigInv'
  <1> USE DEF ConfigInv
  <1>1. CASE Begin(w)
    BY <1>1 DEF Begin, At, Shapes, Excluded, CopyFits, NoLostUpdate, KeyFitsTarget, KeyFits, ByEditor
  <1>2. CASE Consult(w)
    BY <1>2 DEF Consult, At, Ends, Shapes, Excluded, CopyFits, NoLostUpdate, KeyFitsTarget, KeyFits, ByEditor
  <1>3. CASE Lock(w)
    BY <1>3, NothingAssumption DEF Lock, At, Shapes, Excluded, CopyFits, NoLostUpdate, KeyFitsTarget, KeyFits, ByEditor
  <1>4. CASE LoadOnce(w)
    BY <1>4 DEF LoadOnce, Loadable, At, Ends, Shapes, Excluded, CopyFits, NoLostUpdate, KeyFitsTarget, KeyFits, ByEditor
  <1>5. CASE Save(w)
    <2>1. PICK new \in Revisions(w) : file' = [new EXCEPT !.gen = file.gen + 1, !.by = w]
      BY <1>5 DEF Save
    <2>2. DOMAIN new = Fields /\ KeyFits(new)
      BY <1>5, RevisionsFit DEF Save
    <2>3. /\ writer' = [writer EXCEPT ![w] = "over"]
          /\ exclusive' = IF exclusive = w THEN NoOne ELSE exclusive
          /\ UNCHANGED <<shared, copy, probed>>
      BY <1>5 DEF Save, Ends
    <2>4. \A v \in Writers : writer'[v] # "loaded"
      BY <1>5, <2>3, SaverIsAlone DEF Save, Shapes
    <2>5. IsConfig(file)'
      BY <2>1, <2>2 DEF IsConfig, Fields, Shapes
    <2>6. KeyFitsTarget'
      BY <2>1, <2>2 DEF KeyFitsTarget, KeyFits, Fields
    <2>7. Shapes'
      BY <2>3, <2>5 DEF Shapes, IsConfig
    <2>8. Excluded' /\ CopyFits' /\ NoLostUpdate'
      BY <1>5, <2>3, <2>4, NothingAssumption DEF Save, Excluded, CopyFits, KeyFits, NoLostUpdate, Shapes
    <2> QED
      BY <2>6, <2>7, <2>8
  <1>6. CASE Edit(w)
    <2>1. PICK at \in {"idle", "editing"}, next \in {"editing", "over"} : At(w, at, next)
      BY <1>6 DEF Edit
    <2>2. /\ w \in Editors
          /\ UNCHANGED <<shared, exclusive, copy, probed>>
      BY <1>6 DEF Edit
    <2>3. IsConfig(file)' /\ file'.by = w /\ KeyFitsTarget'
      BY <1>6, EditsAreSigned
    <2>4. NoLostUpdate'
      BY <2>2, <2>3 DEF NoLostUpdate, ByEditor
    <2>5. Shapes'
      BY <2>1, <2>2, <2>3 DEF Shapes, At, IsConfig
    <2>6. Excluded' /\ CopyFits'
      BY <2>1, <2>2 DEF Shapes, At, Excluded, CopyFits, KeyFits
    <2> QED
      BY <2>3, <2>4, <2>5, <2>6
  <1>7. CASE Killed(w)
    BY <1>7 DEF Killed, Ends, Shapes, Excluded, CopyFits, NoLostUpdate, KeyFitsTarget, KeyFits, ByEditor
  <1> QED
    BY <1>1, <1>2, <1>3, <1>4, <1>5, <1>6, <1>7 DEF Write, Works

LEMMA WritersKeepIInv ==
  ASSUME IInv, NEW w \in Writers, Writing(w)
  PROVE  IInv'
  <1>1. Write(w) /\ UNCHANGED <<mode, helper, resolver>>
    BY DEF Writing, helperVars
  <1>2. ConfigInv'
    BY <1>1, WritersKeepConfigInv DEF IInv
  <1>3. SessionInv' /\ NoneElse' /\ PinFitsTheSession'
    BY <1>1 DEF IInv, SessionInv, Unbound, NoneElse, PinFitsTheSession, Session
  <1>4. shared' = shared
    BY <1>1 DEF Write, Works, Begin, Consult, Lock, LoadOnce, Save, Edit, Killed
  <1>5. DerivesAsConfigured'
    <2>1. CASE Save(w)
      <3>1. ~shared
        BY <2>1, SaverIsAlone DEF Save, IInv, ConfigInv
      <3>2. ~(Session /\ helper.pc = "derive")
        BY <3>1 DEF IInv, DerivesAsConfigured
      <3> QED
        BY <1>1, <3>2 DEF DerivesAsConfigured, Session
    <2>2. CASE Edit(w)
      <3>1. w \in Editors /\ file'.by = w
        BY <2>2, EditsAreSigned DEF IInv, ConfigInv
      <3> QED
        BY <1>1, <1>4, <3>1 DEF IInv, DerivesAsConfigured, Session, ByEditor
    <2>3. CASE file' = file
      BY <1>1, <1>4, <2>3 DEF IInv, DerivesAsConfigured, Session, ByEditor
    <2> QED
      BY <1>1, <2>1, <2>2, <2>3 DEF Write, Works, Begin, Consult, Lock, LoadOnce, Killed
  <1> QED
    BY <1>2, <1>3, <1>5 DEF IInv

-----------------------------------------------------------------------------
(* The helper and its resolver, and those who kill them.                   *)

\* The lock of a helper is granted when it is free, and no step of a helper
\* touches the configuration.
LEMMA ConfigLeftAlone ==
  ASSUME ConfigInv, ConfigAlone, shared' => shared \/ exclusive = NoOne,
         DOMAIN helper' = DOMAIN helper, DOMAIN resolver' = DOMAIN resolver
  PROVE  ConfigInv'
  BY DEF ConfigInv, ConfigAlone, Shapes, IsConfig, Excluded, CopyFits, NoLostUpdate, KeyFitsTarget, KeyFits, ByEditor

\* A process that ends takes its session with it; its resolver stays, or goes.
LEMMA DeadIsFine ==
  ASSUME IInv, ConfigAlone, NEW end, Dies(end),
         resolver' = resolver \/ (ResolverRuns /\ resolver' = [resolver EXCEPT !.at = "gone"])
  PROVE  IInv'
  <1>1. /\ DOMAIN helper' = DOMAIN helper /\ DOMAIN resolver' = DOMAIN resolver /\ ~shared'
        /\ helper'.pc = "gone" /\ helper'.session = "none"
        /\ helper'.bound = helper.bound /\ helper'.conf = helper.conf /\ helper'.pinOf = helper.pinOf
        /\ helper'.logins = helper.logins
        /\ resolver'.conf = resolver.conf /\ resolver'.answer = resolver.answer
        /\ resolver'.at = resolver.at \/ (resolver.at # "none" /\ resolver'.at = "gone")
    BY DEF Dies, IInv, ConfigInv, Shapes, ResolverRuns
  <1>2. ConfigInv'
    BY <1>1, ConfigLeftAlone DEF IInv
  <1>3. NoneElse' /\ DerivesAsConfigured' /\ PinFitsTheSession'
    BY <1>1 DEF ConfigAlone, IInv, NoneElse, DerivesAsConfigured, PinFitsTheSession, Session
  <1>4. SessionInv'
    BY <1>1 DEF ConfigAlone, IInv, SessionInv, Unbound, Session
  <1> QED
    BY <1>2, <1>3, <1>4 DEF IInv

\* A step of the helper that leaves the locks, or takes one that is free, keeps
\* what has been said of the configuration.
LEMMA HelperLeavesConfig ==
  ASSUME IInv, World, shared' => shared \/ exclusive = NoOne,
         DOMAIN helper' = DOMAIN helper, DOMAIN resolver' = DOMAIN resolver
  PROVE  ConfigInv'
  BY ConfigLeftAlone DEF IInv, World, ConfigAlone

\* Before the session is bound.
LEMMA LoadingKeepsIInv ==
  ASSUME IInv, ReadRequest \/ TakeLock \/ Load \/ Loaded
  PROVE  IInv'
  <1> USE DEF IInv
  <1>0. ASSUME Exit \/ \E r : RefuseOf(r) PROVE IInv'
    BY <1>0, DeadIsFine DEF Exit, RefuseOf, World, ConfigAlone
  <1>1. CASE ReadRequest /\ ~Exit /\ ~Refuse /\ ~RefuseOf(Head(down).req)
    <2>1. /\ Live("idle") /\ World /\ UNCHANGED <<shared, resolver>>
          /\ \E r, seen : helper' = [helper EXCEPT !.pc = IF Session THEN "lock" ELSE "load",
                                        !.req = r, !.seen = seen]
      BY <1>1 DEF ReadRequest, GivesUp
    <2>2. /\ DOMAIN helper' = DOMAIN helper /\ helper'.pc = IF Session THEN "lock" ELSE "load"
          /\ helper'.bound = helper.bound /\ helper'.conf = helper.conf /\ helper'.pinOf = helper.pinOf
          /\ helper'.logins = helper.logins /\ helper'.session = helper.session
      BY <2>1 DEF ConfigInv, Shapes
    <2>3. ConfigInv'
      BY <2>1, <2>2, HelperLeavesConfig
    <2>4. SessionInv' /\ NoneElse' /\ DerivesAsConfigured' /\ PinFitsTheSession'
      BY <2>1, <2>2 DEF World, Live, SessionInv, Unbound, NoneElse, DerivesAsConfigured, PinFitsTheSession, Session
    <2> QED
      BY <2>3, <2>4
  <1>2. CASE TakeLock
    <2>1. /\ Live("lock") /\ World /\ UNCHANGED resolver /\ exclusive = NoOne
          /\ helper' = [helper EXCEPT !.pc = IF helper.bound = NoGen THEN "load" ELSE "check"]
      BY <1>2 DEF TakeLock, Go, LockShared
    <2>2. /\ DOMAIN helper' = DOMAIN helper
          /\ helper'.pc = IF helper.bound = NoGen THEN "load" ELSE "check"
          /\ helper'.bound = helper.bound /\ helper'.conf = helper.conf /\ helper'.pinOf = helper.pinOf
          /\ helper'.logins = helper.logins /\ helper'.session = helper.session
      BY <2>1 DEF ConfigInv, Shapes
    <2>3. ConfigInv'
      BY <2>1, <2>2, HelperLeavesConfig
    <2>4. SessionInv' /\ NoneElse' /\ DerivesAsConfigured' /\ PinFitsTheSession'
      BY <2>1, <2>2 DEF World, Live, SessionInv, Unbound, NoneElse, DerivesAsConfigured, PinFitsTheSession, Session
    <2> QED
      BY <2>3, <2>4
  <1>3. CASE Load
    <2>1. /\ Live("load") /\ World /\ UNCHANGED <<shared, resolver>>
          /\ helper' = [helper EXCEPT !.pc = "loading", !.conf = file]
      BY <1>3 DEF Load, Rest
    <2>2. /\ DOMAIN helper' = DOMAIN helper
          /\ helper'.pc = "loading" /\ helper'.bound = helper.bound /\ helper'.conf = file
          /\ helper'.pinOf = helper.pinOf /\ helper'.logins = helper.logins /\ helper'.session = helper.session
          /\ file.gen \in Nat
      BY <2>1 DEF ConfigInv, Shapes, IsConfig
    <2>3. ConfigInv'
      BY <2>1, <2>2, HelperLeavesConfig
    <2>4. SessionInv' /\ NoneElse' /\ DerivesAsConfigured' /\ PinFitsTheSession'
      BY <2>1, <2>2 DEF World, Live, SessionInv, Unbound, NoneElse, DerivesAsConfigured, PinFitsTheSession, Session
    <2> QED
      BY <2>3, <2>4
  <1>4. CASE Loaded /\ ~Refuse
    <2>1. /\ Live("loading") /\ World /\ UNCHANGED <<shared, resolver>>
          /\ helper' = [helper EXCEPT !.pc = "check", !.bound = helper.conf.gen]
      BY <1>4 DEF Loaded, Rest
    <2>2. /\ DOMAIN helper' = DOMAIN helper
          /\ helper'.pc = "check" /\ helper'.bound = helper.conf.gen /\ helper'.conf = helper.conf
          /\ helper'.pinOf = helper.pinOf /\ helper'.logins = helper.logins /\ helper'.session = helper.session
      BY <2>1 DEF ConfigInv, Shapes
    <2>3. ConfigInv'
      BY <2>1, <2>2, HelperLeavesConfig
    <2>4. SessionInv' /\ NoneElse' /\ DerivesAsConfigured' /\ PinFitsTheSession'
      BY <2>1, <2>2, NoGenAssumption, AnswersAssumption
      DEF World, Live, SessionInv, Unbound, NoneElse, DerivesAsConfigured, PinFitsTheSession, Session
    <2> QED
      BY <2>3, <2>4
  <1> QED
    BY <1>0, <1>1, <1>2, <1>3, <1>4 DEF Refuse, GivesUp

\* What a step at a place where the session is bound comes to, if it leaves the
\* binding alone.
Bound(to, session, logins, pinOf) ==
  /\ helper.pc \notin {"idle", "lock", "load", "loading", "gone"}
  /\ DOMAIN helper' = DOMAIN helper
  /\ helper'.pc = to /\ helper'.session = session /\ helper'.logins = logins /\ helper'.pinOf = pinOf
  /\ helper'.bound = helper.bound /\ helper'.conf = helper.conf

\* To any place but the ones that say something of the session.
LEMMA PlainStep ==
  ASSUME IInv, World, resolver' = resolver, ~shared' \/ shared' = shared,
         NEW to \in {"idle", "gone", "validate", "touch", "await", "relock", "recover", "probe", "check"},
         Bound(to, helper.session, helper.logins, helper.pinOf) \/ (to = "gone" /\ Bound(to, "none", helper.logins, helper.pinOf))
  PROVE  IInv'
  <1>1. ConfigInv'
    BY HelperLeavesConfig DEF Bound
  <1>2. SessionInv' /\ NoneElse' /\ DerivesAsConfigured' /\ PinFitsTheSession'
    BY DEF Bound, IInv, World, SessionInv, Unbound, NoneElse, DerivesAsConfigured, PinFitsTheSession, Session
  <1> QED
    BY <1>1, <1>2 DEF IInv

\* The steps that open the card, find the PIN and try it.
LEMMA OpeningKeepsIInv ==
  ASSUME IInv, Check \/ Open \/ ResolvePIN \/ StartResolver \/ TakePIN \/ Login
  PROVE  IInv'
  <1> USE DEF IInv
  <1>0. ASSUME Refuse PROVE IInv'
    BY <1>0, DeadIsFine DEF Refuse, RefuseOf, World, ConfigAlone
  <1>1. CASE Check /\ ~Refuse
    <2>1. World /\ UNCHANGED <<shared, resolver>>
          /\ Bound(FirstStep, helper.session, helper.logins, helper.pinOf) /\ helper.pc = "check"
      BY <1>1 DEF Check, Live, Go, Rest, Bound, ConfigInv, Shapes
    <2>2. ConfigInv'
      BY <2>1, HelperLeavesConfig DEF Bound
    <2>3. Session => FirstStep = IF helper.session = "none" THEN "open" ELSE "validate"
      BY DEF FirstStep, Session
    <2>4. SessionInv' /\ NoneElse' /\ DerivesAsConfigured' /\ PinFitsTheSession'
      BY <2>1, <2>3 DEF Bound, World, SessionInv, Unbound, NoneElse, DerivesAsConfigured, PinFitsTheSession, Session
    <2> QED
      BY <2>2, <2>4
  <1>2. CASE Open
    <2>1. World /\ UNCHANGED <<shared, resolver>> /\ helper.pc = "open"
          /\ Bound(IF Session THEN "pin" ELSE "login", "open", helper.logins, helper.pinOf)
      BY <1>2 DEF Open, Live, OpenSession, After, PathAlone, PathInSession, Rest, Bound, ConfigInv, Shapes
    <2>2. ConfigInv'
      BY <2>1, HelperLeavesConfig DEF Bound
    <2>3. SessionInv' /\ NoneElse' /\ DerivesAsConfigured' /\ PinFitsTheSession'
      BY <2>1 DEF Bound, World, SessionInv, Unbound, NoneElse, DerivesAsConfigured, PinFitsTheSession, Session
    <2> QED
      BY <2>2, <2>3
  <1>3. CASE ResolvePIN
    <2>1. World /\ UNCHANGED <<shared, resolver>> /\ ~Session
          /\ Bound("open", helper.session, helper.logins, helper.conf.gen)
      BY <1>3 DEF ResolvePIN, Live, Rest, Bound, ConfigInv, Shapes, Session
    <2>2. ConfigInv'
      BY <2>1, HelperLeavesConfig DEF Bound
    <2>3. SessionInv' /\ NoneElse' /\ DerivesAsConfigured' /\ PinFitsTheSession'
      BY <2>1 DEF Bound, World, SessionInv, Unbound, NoneElse, DerivesAsConfigured, PinFitsTheSession, Session
    <2> QED
      BY <2>2, <2>3
  <1>4. CASE StartResolver
    <2>1. /\ World /\ UNCHANGED <<shared, helper>> /\ helper.pc = "pin" /\ Session
          /\ DOMAIN resolver' = DOMAIN resolver /\ resolver.at = "none" /\ resolver'.at = "starting"
          /\ resolver'.answer = resolver.answer /\ resolver'.conf = resolver.conf
      BY <1>4 DEF StartResolver, Live, ConfigInv, Shapes
    <2>2. ConfigInv'
      BY <2>1, HelperLeavesConfig
    <2>3. SessionInv' /\ NoneElse' /\ DerivesAsConfigured' /\ PinFitsTheSession'
      BY <2>1 DEF World, SessionInv, Unbound, NoneElse, DerivesAsConfigured, PinFitsTheSession, Session
    <2> QED
      BY <2>2, <2>3
  <1>5. CASE TakePIN /\ ~Refuse
    <2>1. World /\ UNCHANGED <<shared, resolver>> /\ helper.pc = "pin" /\ resolver.answer = "pin"
          /\ Bound("login", helper.session, helper.logins, resolver.conf.gen)
      BY <1>5 DEF TakePIN, Live, Rest, Bound, ConfigInv, Shapes
    <2>2. ConfigInv'
      BY <2>1, HelperLeavesConfig DEF Bound
    <2>3. SessionInv' /\ NoneElse' /\ DerivesAsConfigured' /\ PinFitsTheSession'
      BY <2>1 DEF Bound, World, SessionInv, Unbound, NoneElse, DerivesAsConfigured, PinFitsTheSession, Session
    <2> QED
      BY <2>2, <2>3
  <1>6. CASE Login /\ ~Refuse
    <2>1. World /\ UNCHANGED <<shared, resolver>> /\ helper.pc = "login"
          /\ Bound(IF Session THEN "validate" ELSE "touch", "authed", helper.logins + 1, helper.pinOf)
      BY <1>6 DEF Login, Live, LoggedIn, After, PathAlone, PathInSession, Rest, Bound, ConfigInv, Shapes
    <2>2. ConfigInv'
      BY <2>1, HelperLeavesConfig DEF Bound
    <2>3. SessionInv' /\ NoneElse' /\ DerivesAsConfigured' /\ PinFitsTheSession'
      BY <2>1 DEF Bound, World, SessionInv, Unbound, NoneElse, DerivesAsConfigured, PinFitsTheSession, Session
    <2> QED
      BY <2>2, <2>3
  <1> QED
    BY <1>0, <1>1, <1>2, <1>3, <1>4, <1>5, <1>6

\* The steps of an authenticated session, and those that need none.
LEMMA ServingKeepsIInv ==
  ASSUME IInv, Validate \/ ReadyForTouch \/ AwaitContinue \/ Relock \/ Derive \/ Recover \/ Probe
  PROVE  IInv'
  <1> USE DEF IInv
  <1>0. ASSUME Refuse \/ Exit PROVE IInv'
    BY <1>0, DeadIsFine DEF Refuse, RefuseOf, Exit, World, ConfigAlone
  <1>1. CASE Validate /\ ~Refuse
    <2>1. World /\ UNCHANGED <<shared, resolver>>
          /\ Bound("touch", helper.session, helper.logins, helper.pinOf)
      BY <1>1 DEF Validate, Live, Validated, Bound, ConfigInv, Shapes
    <2> QED
      BY <2>1, PlainStep
  <1>2. CASE ReadyForTouch /\ ~Refuse
    <2>1. World /\ resolver' = resolver /\ ~shared'
          /\ Bound("await", helper.session, helper.logins, helper.pinOf)
      BY <1>2 DEF ReadyForTouch, Prompt, Live, Bound, ConfigInv, Shapes
    <2> QED
      BY <2>1, PlainStep
  <1>3. CASE AwaitContinue /\ ~Exit /\ ~Refuse
    <2>1. World /\ UNCHANGED <<shared, resolver>>
          /\ Bound(IF Session THEN "relock" ELSE "derive", helper.session, helper.logins, helper.pinOf)
      BY <1>3 DEF AwaitContinue, GivesUp, Live, Bound, ConfigInv, Shapes
    <2>2. CASE Session
      BY <2>1, <2>2, PlainStep
    <2>3. CASE ~Session
      <3>1. ConfigInv'
        BY <2>1, HelperLeavesConfig DEF Bound
      <3>2. SessionInv' /\ NoneElse' /\ DerivesAsConfigured' /\ PinFitsTheSession'
        BY <2>1, <2>3 DEF Bound, World, SessionInv, NoneElse, DerivesAsConfigured, PinFitsTheSession, Session
      <3> QED
        BY <3>1, <3>2
    <2> QED
      BY <2>2, <2>3
  <1>4. CASE Relock /\ ~Refuse
    <2>1. /\ World /\ resolver' = resolver /\ exclusive = NoOne /\ shared' = TRUE
          /\ Bound("derive", helper.session, helper.logins, helper.pinOf)
          /\ file.gen = helper.bound
      BY <1>4 DEF Relock, Relocked, LockShared, Go, Live, Unchanged, Bound, ConfigInv, Shapes
    <2>2. ConfigInv'
      BY <2>1, HelperLeavesConfig DEF Bound
    <2>3. SessionInv' /\ NoneElse' /\ DerivesAsConfigured' /\ PinFitsTheSession'
      BY <2>1 DEF Bound, World, SessionInv, Unbound, NoneElse, DerivesAsConfigured, PinFitsTheSession, Session
    <2> QED
      BY <2>2, <2>3
  <1>5. CASE Derive /\ ~Refuse
    <2>1. /\ World /\ resolver' = resolver /\ ~shared'
          /\ IF Session THEN Bound("idle", helper.session, helper.logins, helper.pinOf)
                        ELSE Bound("gone", "none", helper.logins, helper.pinOf)
      BY <1>5 DEF Derive, Answers, Derived, Live, Bound, ConfigInv, Shapes
    <2> QED
      BY <2>1, PlainStep
  <1>6. CASE Recover \/ Probe
    <2>1. /\ World /\ UNCHANGED <<shared, resolver>>
          /\ Bound("gone", helper.session, helper.logins, helper.pinOf)
      BY <1>6 DEF Recover, Probe, Answers, Probed, Live, Bound, ConfigInv, Shapes
    <2> QED
      BY <2>1, PlainStep
  <1> QED
    BY <1>0, <1>1, <1>2, <1>3, <1>4, <1>5, <1>6

\* The resolver's own steps.
LEMMA ResolverKeepsIInv ==
  ASSUME IInv, ResolverLoads \/ ResolverChecks \/ UserAnswers \/ ResolverExits \/ ResolverDies
  PROVE  IInv'
  <1> USE DEF IInv
  <1>1. /\ World /\ UNCHANGED <<shared, helper>> /\ resolver.at # "none"
        /\ DOMAIN resolver' = DOMAIN resolver /\ resolver'.at # "none"
    BY DEF ResolverLoads, ResolverChecks, UserAnswers, ResolverExits, ResolverDies, ResolverRuns,
           RestOfHelper, ConfigInv, Shapes
  <1>2. ConfigInv' /\ DerivesAsConfigured'
    BY <1>1, HelperLeavesConfig DEF World, DerivesAsConfigured, Session, ByEditor
  <1>3. Session /\ helper.bound # NoGen
    BY <1>1 DEF NoneElse, SessionInv, Unbound
  <1>4. /\ resolver'.at \in {"none", "starting", "loading", "prompting"} => resolver'.answer = NoOne
        /\ resolver'.at = "prompting" \/ resolver'.answer = "pin" => resolver'.conf.gen = helper.bound
    <2>1. CASE ResolverLoads
      BY <2>1, <1>3, AnswersAssumption DEF ResolverLoads, SessionInv, ConfigInv, Shapes
    <2>2. CASE ResolverChecks
      BY <2>2, <1>3, AnswersAssumption DEF ResolverChecks, SessionInv, ConfigInv, Shapes
    <2>3. CASE UserAnswers
      BY <2>3, <1>3, AnswersAssumption DEF UserAnswers, SessionInv, ConfigInv, Shapes
    <2>4. CASE ResolverExits
      BY <2>4, <1>3, AnswersAssumption DEF ResolverExits, SessionInv, ConfigInv, Shapes
    <2>5. CASE ResolverDies
      BY <2>5, <1>3, AnswersAssumption DEF ResolverDies, ResolverRuns, SessionInv, ConfigInv, Shapes
    <2> QED
      BY <2>1, <2>2, <2>3, <2>4, <2>5
  <1>5. SessionInv' /\ NoneElse' /\ PinFitsTheSession'
    BY <1>1, <1>3, <1>4 DEF World, SessionInv, Unbound, NoneElse, PinFitsTheSession, Session
  <1> QED
    BY <1>2, <1>5

\* A process group that is killed.
LEMMA KillsKeepIInv ==
  ASSUME IInv, ConfigAlone, NEW end, GroupDies(end)
  PROVE  IInv'
  BY DeadIsFine DEF GroupDies

LEMMA HelperNextKeepsIInv ==
  ASSUME IInv, HelperNext
  PROVE  IInv'
  <1>1. CASE ReadRequest \/ TakeLock \/ Load \/ Loaded
    BY <1>1, LoadingKeepsIInv
  <1>2. CASE Check \/ Open \/ ResolvePIN \/ StartResolver \/ TakePIN \/ Login
    BY <1>2, OpeningKeepsIInv
  <1>3. CASE Validate \/ ReadyForTouch \/ AwaitContinue \/ Relock \/ Derive \/ Recover \/ Probe
    BY <1>3, ServingKeepsIInv
  <1>4. CASE ResolverStep \/ UserAnswers \/ ResolverDies \/ ResolverWatch
    BY <1>4, ResolverKeepsIInv DEF ResolverStep, ResolverWatch
  <1>5. CASE EndOfInput \/ Crashes \/ Fails
    BY <1>5, DeadIsFine DEF EndOfInput, GivesUp, Crashes, Fails, Exit, Refuse, RefuseOf, World, ConfigAlone
  <1>6. CASE ParentWatch
    BY <1>6, KillsKeepIInv DEF ParentWatch, World, ConfigAlone
  <1> QED
    BY <1>1, <1>2, <1>3, <1>4, <1>5, <1>6 DEF HelperNext, HelperStep, UserStep

-----------------------------------------------------------------------------
(* Everybody else, and the theorems.                                       *)

\* Steps that touch neither the configuration nor what a helper has.
LEMMA OthersKeepIInv ==
  ASSUME IInv, UNCHANGED <<configVars, mode, helper, resolver>>
  PROVE  IInv'
  BY DEF IInv, ConfigInv, Shapes, IsConfig, Excluded, CopyFits, NoLostUpdate, KeyFitsTarget, KeyFits, ByEditor,
         SessionInv, Unbound, NoneElse, DerivesAsConfigured, PinFitsTheSession, Session, configVars

LEMMA StepKeepsIInv ==
  ASSUME IInv, [Next]_vars
  PROVE  IInv'
  <1>1. CASE (\E r \in Requests : Ask(r)) \/ TakeFrame \/ GoAhead
    BY <1>1, OthersKeepIInv DEF Ask, TakeFrame, GoAhead, SessionFrame, OfHelper, ConfigFrame, configVars
  <1>2. CASE StopHelper
    BY <1>2, KillsKeepIInv DEF StopHelper, SessionFrame, ConfigFrame, ConfigAlone
  <1>3. CASE Start \/ StartProbe
    BY <1>3, OthersKeepIInv DEF Start, StartProbe, Launch, RunnerFrame, ConfigFrame, configVars
  <1>4. CASE Exchange
    <2>1. CASE ExchangeKills
      BY <2>1, KillsKeepIInv DEF ExchangeKills, RunnerFrame, ConfigFrame, ConfigAlone
    <2>2. CASE (\E r \in Requests : ExchangeWrites(r)) \/ ExchangeReads \/ ExchangeEnds \/ ExchangeJudges \/ ProbeJudges
      BY <2>2, OthersKeepIInv
      DEF ExchangeWrites, ExchangeReads, ExchangeEnds, ExchangeJudges, ProbeJudges, Judges, RunnerFrame, ConfigFrame, OfHelper,
          ByRunner, configVars
    <2> QED
      BY <1>4, <2>1, <2>2 DEF Exchange
  <1>5. CASE WatchContext \/ ContextEnds \/ Wait \/ CancelCurrent \/ Cancel \/ CancelReturns
    BY <1>5, OthersKeepIInv
    DEF WatchContext, ContextEnds, Wait, CancelCurrent, Cancel, CancelReturns, RunnerFrame, ConfigFrame,
        OfHelper, ByRunner, configVars
  <1>6. CASE HelperSide
    BY <1>6, HelperNextKeepsIInv DEF HelperSide
  <1>7. CASE DaemonDies
    BY <1>7, OthersKeepIInv DEF DaemonDies
  <1>8. CASE \E w \in Writers : Writing(w)
    BY <1>8, WritersKeepIInv
  <1>9. CASE UNCHANGED vars
    BY <1>9, OthersKeepIInv DEF vars, helperVars
  <1> QED
    BY <1>1, <1>2, <1>3, <1>4, <1>5, <1>6, <1>7, <1>8, <1>9 DEF Next

THEOREM Inductive == Spec => []IInv
  <1>1. Init => IInv
    BY InitIInv
  <1>2. IInv /\ [Next]_vars => IInv'
    BY StepKeepsIInv
  <1> QED
    BY <1>1, <1>2, PTL DEF Spec

\* No update of a supported writer is lost: Configure and CacheAgePublicKey save
\* what they have loaded under the lock (config.go:209, :238).
THEOREM UpdatesAreKept == Spec => []NoLostUpdate
  <1>1. IInv => NoLostUpdate
    BY DEF IInv, ConfigInv
  <1> QED
    BY <1>1, Inductive, PTL

\* The public key in the configuration is the configured target's (config.go:245).
THEOREM CachedKeyFits == Spec => []KeyFitsTarget
  <1>1. IInv => KeyFitsTarget
    BY DEF IInv, ConfigInv
  <1> QED
    BY <1>1, Inductive, PTL

\* A session derives under the lock and under the configuration it is bound to
\* (hardware_session_helper.go:324).
THEOREM BindingHolds == Spec => []DerivesAsConfigured
  <1>1. IInv => DerivesAsConfigured
    BY DEF IInv
  <1> QED
    BY <1>1, Inductive, PTL

\* One PIN for a session, of the configuration it is bound to
\* (hardware_session_helper.go:249, :535).
THEOREM OnePinFits == Spec => []PinFitsTheSession
  <1>1. IInv => PinFitsTheSession
    BY DEF IInv
  <1> QED
    BY <1>1, Inductive, PTL

-----------------------------------------------------------------------------
(* Nothing is left running.                                                *)

\* How far a one-shot call has come: without an exchange there is no process,
\* and after it the process has been reaped.
CallInv ==
  ~Session =>
    /\ caller = "idle" => exchange = "none"
    /\ exchange = "none" => life = "none"
    /\ exchange = "done" => life = "reaped"
    /\ caller = "over" => ~Running
    /\ ready \in {NoOne, "ok"} \/ (ready = "error" /\ exchange = "done")
    /\ canceler # "idle" => preCanceled /\ mode # "probe"
    /\ canceler \in {"canceling", "joining"} => exchange # "none"
    /\ canceler = "over" => ~Running

\* Only a live helper takes steps, and its process is not reaped by them.
LEMMA HelperLives ==
  ASSUME HelperNext
  PROVE  life' = life \/ (life = "live" /\ life' \in {"live", "dead"})
  BY DEF HelperNext, HelperStep, ResolverStep, UserStep, ReadRequest, EndOfInput, TakeLock, Load, Loaded,
         Check, Open, StartResolver, TakePIN, Login, Validate, ReadyForTouch, AwaitContinue, Relock, Relocked,
         ResolverLoads, ResolverChecks, ResolverExits, ResolvePIN, Derive, Recover, Probe, UserAnswers, Fails,
         Crashes, ResolverDies, ResolverWatch, ParentWatch, GroupDies, Refuse, RefuseOf, Exit, GivesUp, Dies,
         Rest, RestOfHelper, Prompt, Answers, Live, Go

LEMMA HelperNextKeepsCall ==
  ASSUME CallInv, HelperSide
  PROVE  CallInv'
  <1>1. /\ mode' = mode /\ UNCHANGED <<exchange, runnerVars>>
        /\ life' = life \/ (life = "live" /\ life' \in {"live", "dead"})
    BY HelperLives
    DEF HelperSide, HelperNext, HelperStep, ResolverStep, UserStep, ReadRequest, EndOfInput, TakeLock, Load,
        Loaded, Check, Open, StartResolver, TakePIN, Login, Validate, ReadyForTouch, AwaitContinue, Relock,
        Relocked, ResolverLoads, ResolverChecks, ResolverExits, ResolvePIN, Derive, Recover, Probe, UserAnswers,
        Fails, Crashes, ResolverDies, ResolverWatch, ParentWatch, Refuse, RefuseOf, Exit, GivesUp, Rest,
        RestOfHelper, Prompt, Answers, World
  <1> QED
    BY <1>1 DEF CallInv, Running, Session, runnerVars

LEMMA StepKeepsCall ==
  ASSUME CallInv, [Next]_vars
  PROVE  CallInv'
  <1>1. CASE (\E r \in Requests : Ask(r)) \/ TakeFrame \/ GoAhead \/ StopHelper
    BY <1>1 DEF Ask, TakeFrame, GoAhead, StopHelper, SessionFrame, ConfigFrame, Session, CallInv
  <1>2. CASE Start \/ StartProbe
    BY <1>2 DEF Start, StartProbe, Launch, Startable, RunnerFrame, ConfigFrame, CallInv, Running, Session
  <1>3. CASE Exchange
    BY <1>3
    DEF Exchange, ExchangeWrites, ExchangeReads, ExchangeEnds, ExchangeKills, ExchangeJudges, ProbeJudges, Judges,
        Moves, RunnerFrame, ConfigFrame, OfHelper, ByRunner, runnerVars, GroupDies, Dies, CallInv, Running, Session
  <1>4. CASE WatchContext \/ ContextEnds \/ Wait \/ CancelCurrent \/ Cancel \/ CancelReturns
    BY <1>4
    DEF WatchContext, ContextEnds, Wait, WaitReady, ContinueAndWait, WaitResult, Calls, CancelCurrent, Cancel,
        CancelReturns, RunnerFrame, ConfigFrame, OfHelper, ByRunner, runnerVars, CallInv, Running, Session
  <1>5. CASE HelperSide
    BY <1>5, HelperNextKeepsCall
  <1>6. CASE DaemonDies \/ (\E w \in Writers : Writing(w)) \/ UNCHANGED vars
    BY <1>6 DEF DaemonDies, Writing, vars, helperVars, runnerVars, CallInv, Running, Session
  <1> QED
    BY <1>1, <1>2, <1>3, <1>4, <1>5, <1>6 DEF Next

\* A one-shot helper does not outlive its call, however that ends (runner.go:179,
\* :300).
THEOREM HelpersAreReaped == Spec => []NothingRunsOn
  <1>1. Init => CallInv
    BY DEF Init, InitHelper, CallInv, Running, Session
  <1>2. CallInv /\ [Next]_vars => CallInv'
    BY StepKeepsCall
  <1>3. CallInv => NothingRunsOn
    BY AnswersAssumption DEF CallInv, NothingRunsOn, Running
  <1> QED
    BY <1>1, <1>2, <1>3, PTL DEF Spec
=============================================================================
