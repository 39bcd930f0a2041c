---------------------------- MODULE HelperProcess ----------------------------
(***************************************************************************)
(* internal/agehelper and internal/ageprobe: the process the daemon starts  *)
(* to unwrap an age file key or to look for the card, in one of its modes:  *)
(* the persistent hardware session, which keeps the card authenticated      *)
(* between requests; or one request by hardware, by the recovery identity,  *)
(* or a probe.  The session resolves its PIN in a process of its own.  What *)
(* is done to the card is internal/agehardware.                             *)
(*                                                                         *)
(* An inspection of the configuration and the frame or the card access that *)
(* follows it are one step, except where the lock is released in between:   *)
(* only an editor can come between the others, and the properties excuse it.*)
(***************************************************************************)
EXTENDS ConfigFile, Sequences, FiniteSets

CONSTANTS
  Requests,
  Modes,        \* of "session", "hardware", "recovery", "probe"
  Casts,        \* bound: the groups of writers a helper meets, for each mode
  NoGen,        \* no generation of the configuration
  ReplayLimit   \* request identifiers one session accepts

ASSUME ModesAssumption == Modes \subseteq {"session", "hardware", "recovery", "probe"}
ASSUME ReplayAssumption == ReplayLimit \in Nat
ASSUME NoGenAssumption == NoGen \notin Nat
ASSUME AnswersAssumption == NoOne \notin {"pin", "refused", "ok", "error", "key"}

VARIABLES
  mode,
  daemon,    \* alive or dead: the parent of the helper
  pipes,     \* the daemon's ends of the pipes are open or closed
  down, up,  \* the frames in the two pipes
  life,      \* the process is not started, live, dead or reaped
  helper,    \* what it does and has
  resolver   \* its PIN resolver: where it is, what it has loaded, what it answers

helperVars == <<mode, daemon, pipes, down, up, life, helper, resolver>>

InitHelper ==
  /\ mode \in Modes
  /\ \E cast \in Casts[mode] : InitConfig(cast)
  /\ daemon = "alive" /\ pipes = "open" /\ down = <<>> /\ up = <<>>
  /\ life = IF mode = "session" THEN "live" ELSE "none"
  /\ helper = [pc      |-> "idle",
               req     |-> NoOne,                    \* the request it serves
               seen    |-> {},                       \* the identifiers it has accepted
               conf    |-> [file EXCEPT !.gen = NoGen],  \* the configuration it has loaded
               bound   |-> NoGen,                    \* the generation it is bound to
               session |-> "none",                   \* of PKCS#11: open, authed
               logins  |-> 0,                        \* PINs it has tried
               pinOf   |-> NoGen,                    \* the generation the PIN was found under
               keys    |-> {}]                       \* the requests it has answered
  /\ resolver = [at |-> "none", conf |-> helper.conf, answer |-> NoOne]

\* Every frame of a session carries the identifiers of its session and its
\* request, and is refused by a reader that expects others.
Frame(kind, r) == [kind |-> kind, req |-> r]

Session == mode = "session"
Live(at) == life = "live" /\ helper.pc = at
ResolverRuns == resolver.at \in {"starting", "loading", "prompting", "answered"}

World == UNCHANGED <<file, exclusive, writer, copy, probed, mode, daemon, pipes>>
Rest  == World /\ UNCHANGED <<shared, down, up, life, resolver>>

-----------------------------------------------------------------------------
(* The ends of the process.  Whatever it held goes with it: the lock, and   *)
(* with Session.Close or without it the authentication of the card.         *)

Dies(end) ==
  /\ life' = end /\ shared' = FALSE
  /\ helper' = [helper EXCEPT !.pc = "gone", !.session = "none"]

\* The early or the last result names a class of error, and the process exits:
\* every failure does, so that nothing of it is ever used again.
RefuseOf(r) == Dies("dead") /\ up' = Append(up, Frame("refused", r)) /\ World /\ UNCHANGED <<down, resolver>>

Refuse == RefuseOf(helper.req)

Exit == Dies("dead") /\ World /\ UNCHANGED <<down, up, resolver>>

\* A session that loses its parent's word exits without one of its own.
GivesUp == IF Session THEN Exit ELSE Refuse

\* The process group is killed, the resolver with it.
GroupDies(end) ==
  /\ Dies(end)
  /\ resolver' = IF ResolverRuns THEN [resolver EXCEPT !.at = "gone"] ELSE resolver

\* Any call may fail: a lock, a read, PKCS#11, 1Password, the user.
Working == {"lock", "load", "loading", "check", "open", "pin", "login", "validate", "touch",
            "relock", "derive", "recover", "probe"}

Fails == life = "live" /\ helper.pc \in Working /\ ~ResolverRuns /\ Refuse

\* A crash leaves the resolver behind, for its own watch to end it.
Crashes == life = "live" /\ Exit

-----------------------------------------------------------------------------
(* Requests and the configuration they run under.                          *)

Go(from, to) == Live(from) /\ helper' = [helper EXCEPT !.pc = to]

\* requestReplayGuard.accept
Accepted(r) == r \notin helper.seen /\ Cardinality(helper.seen) < ReplayLimit

ReadRequest ==
  /\ Live("idle") /\ down # <<>>
  /\ LET f == Head(down) IN
     IF f.kind # "request" THEN GivesUp
     ELSE IF Accepted(f.req)
       THEN /\ helper' = [helper EXCEPT !.pc = IF Session THEN "lock" ELSE "load",
                                        !.req = f.req, !.seen = @ \cup {f.req}]
            /\ down' = Tail(down)
            /\ World /\ UNCHANGED <<shared, up, life, resolver>>
       ELSE RefuseOf(f.req)

\* The end of its input ends the process, between requests and before a continue.
EndOfInput ==
  /\ life = "live" /\ helper.pc \in {"idle", "await"}
  /\ down = <<>> /\ pipes = "closed"
  /\ GivesUp

TakeLock ==
  /\ Go("lock", IF helper.bound = NoGen THEN "load" ELSE "check")
  /\ LockShared
  /\ World /\ UNCHANGED <<down, up, life, resolver>>

\* The first request of a session loads the configuration; so does a helper
\* that serves one request only, without the lock.
Load ==
  /\ Live("load")
  /\ helper' = [helper EXCEPT !.pc = "loading", !.conf = file]
  /\ Rest

\* Seeded bug: the file is not inspected again after it was loaded.
LoadedUnstably ==
  /\ Live("loading")
  /\ IF helper.conf.whole /\ helper.conf.key # NoKey
       THEN helper' = [helper EXCEPT !.pc = "check", !.bound = file.gen] /\ Rest
       ELSE Refuse

\* loadStableConfigSnapshot: a session is bound to the generation it has loaded,
\* which must still be there.  Only a configuration with a cached public key can
\* be served.
Loaded ==
  /\ Live("loading")
  /\ IF helper.conf.whole /\ helper.conf.key # NoKey /\ (Session => Unchanged(helper.conf.gen))
       THEN helper' = [helper EXCEPT !.pc = "check", !.bound = helper.conf.gen] /\ Rest
       ELSE Refuse

\* Where each mode turns to the card, or to 1Password.
FirstStep ==
  CASE mode = "recovery" -> "recover"
    [] mode = "probe"    -> "probe"
    [] mode = "hardware" -> "pin"
    [] Session           -> IF helper.session = "none" THEN "open" ELSE "validate"

\* The request is for the configured key (or Fails), its parent is still there
\* (but a probe leaves that to ParentWatch), and a retained session is bound to
\* what is on disk.
Check ==
  /\ Live("check")
  /\ IF (daemon = "alive" \/ mode = "probe") /\ (helper.session = "none" \/ Unchanged(helper.bound))
       THEN Go("check", FirstStep) /\ Rest
       ELSE Refuse

-----------------------------------------------------------------------------
(* internal/agehardware: Backend.OpenSession and the methods of Session.    *)
(* Each may fail (Fails, and for Login below), and PKCS#11 state goes with  *)
(* the process.                                                            *)

\* Backend.derive goes through the session's methods in one call ...
PathAlone == [open |-> "login", login |-> "touch"]

\* ... and a retained session is asked for its PIN, and validated, in between.
PathInSession == [open |-> "pin", login |-> "validate"]

After(step) == IF Session THEN PathInSession[step] ELSE PathAlone[step]

\* The module is initialized, the token found, its public key compared.
OpenSession == [helper EXCEPT !.pc = After("open"), !.session = "open"]

\* One PIN, which consumes one of the card's few tries; then the private key and
\* its touch and PIN policies.
LoggedIn == [helper EXCEPT !.pc = After("login"), !.session = "authed", !.logins = @ + 1]

\* The session is still authenticated, with the same token and keys.
Validated == [helper EXCEPT !.pc = "touch"]

\* One ECDH operation, which waits for a touch, and the file key unwrapped with
\* it.  A session keeps its state for the next request.
Derived ==
  [helper EXCEPT !.pc = IF Session THEN "idle" ELSE "gone",
                 !.session = IF Session THEN @ ELSE "none",
                 !.keys = @ \cup {helper.req}]

\* The target is looked for, and its public key compared, without a login.
Probed == [helper EXCEPT !.pc = "gone", !.keys = @ \cup {helper.req}]

-----------------------------------------------------------------------------
(* The hardware path.                                                      *)

Open == Live("open") /\ helper' = OpenSession /\ Rest

\* The PIN prompt of a one-shot helper is in the process itself.
ResolvePIN ==
  /\ Live("pin") /\ mode = "hardware"
  /\ helper' = [helper EXCEPT !.pc = "open", !.pinOf = helper.conf.gen]
  /\ Rest

\* resolvePINWithProcess starts the resolver ...
StartResolver ==
  /\ Live("pin") /\ Session /\ resolver.at = "none"
  /\ resolver' = [resolver EXCEPT !.at = "starting"]
  /\ World /\ UNCHANGED <<shared, down, up, life, helper>>

\* ... and takes what it has answered once it has been waited for.
TakePIN ==
  /\ Live("pin") /\ resolver.at = "gone"
  /\ IF resolver.answer = "pin"
       THEN helper' = [helper EXCEPT !.pc = "login", !.pinOf = resolver.conf.gen] /\ Rest
       ELSE Refuse

\* Another inspection, and the PIN is tried; a wrong one is a failure.
Login ==
  /\ Live("login")
  /\ IF Session => Unchanged(helper.bound) THEN helper' = LoggedIn /\ Rest ELSE Refuse

\* Session.Validate and one more inspection, session_ready.
Validate ==
  /\ Live("validate")
  /\ IF Unchanged(helper.bound) /\ pipes = "open"
       THEN /\ helper' = Validated /\ up' = Append(up, Frame("ready", helper.req))
            /\ World /\ UNCHANGED <<shared, down, life, resolver>>
       ELSE Refuse

Prompt(to) ==
  /\ helper' = [helper EXCEPT !.pc = to] /\ up' = Append(up, Frame("touch", helper.req))
  /\ shared' = FALSE
  /\ World /\ UNCHANGED <<down, life, resolver>>

ReadyAndGo == Live("touch") /\ Prompt("relock")  \* seeded bug: no continue is awaited

\* The parent and the configuration once more, ready_for_touch; the lock is
\* released while the user is asked.  The one-shot helper is ready at once.
ReadyForTouch ==
  /\ Live("touch")
  /\ IF pipes = "open" /\ (Session => daemon = "alive" /\ Unchanged(helper.bound))
       THEN Prompt("await")
       ELSE Refuse

\* The continue frame of this request, from a parent that is still there.
AwaitContinue ==
  /\ Live("await") /\ down # <<>>
  /\ IF Head(down) = Frame("continue", helper.req) /\ daemon = "alive"
       THEN /\ helper' = [helper EXCEPT !.pc = IF Session THEN "relock" ELSE "derive"]
            /\ down' = Tail(down)
            /\ World /\ UNCHANGED <<shared, up, life, resolver>>
       ELSE GivesUp

Relocked ==
  /\ LockShared /\ Go("relock", "derive")
  /\ World /\ UNCHANGED <<down, up, life, resolver>>

RelockBlindly == Live("relock") /\ Relocked  \* seeded bug: nothing is inspected

\* The lock is taken again and the configuration inspected for the last time.
Relock ==
  /\ Live("relock") /\ exclusive = NoOne
  /\ IF Unchanged(helper.bound) THEN Relocked ELSE Refuse

\* The result frame; the lock is released.
Answers(with) ==
  /\ helper' = with
  /\ life' = IF with.pc = "gone" THEN "dead" ELSE "live"
  /\ up' = Append(up, Frame("key", helper.req))
  /\ World /\ UNCHANGED <<down, resolver>>

DeriveUnderLock ==  \* seeded bug: the lock is kept between requests
  /\ Live("derive") /\ Answers(Derived) /\ UNCHANGED shared

\* A key that cannot be written is a failure.
Derive ==
  /\ Live("derive")
  /\ IF pipes = "open" THEN Answers(Derived) /\ shared' = FALSE ELSE Refuse

\* executeRecovery: the identity from 1Password, compared and used at once.
Recover ==
  /\ Live("recover") /\ pipes = "open"
  /\ Answers([helper EXCEPT !.pc = "gone", !.keys = @ \cup {helper.req}])
  /\ UNCHANGED shared

\* ageprobe's helper, for the configured target only.
Probe ==
  /\ Live("probe") /\ pipes = "open"
  /\ Answers(Probed)
  /\ UNCHANGED shared

-----------------------------------------------------------------------------
(* The PIN resolver process: a snapshot of its own, which must be what the  *)
(* helper is bound to, its parent, then the prompt.                         *)

RestOfHelper == World /\ UNCHANGED <<shared, down, up, life, helper>>

ResolverLoads ==
  /\ resolver.at = "starting"
  /\ resolver' = [resolver EXCEPT !.at = "loading", !.conf = file]
  /\ RestOfHelper

ResolverChecks ==
  /\ resolver.at = "loading"
  /\ resolver' =
       IF /\ resolver.conf.whole /\ Unchanged(resolver.conf.gen)
          /\ resolver.conf.gen = helper.bound /\ life = "live"
         THEN [resolver EXCEPT !.at = "prompting"]
         ELSE [resolver EXCEPT !.at = "answered", !.answer = "refused"]
  /\ RestOfHelper

UserAnswers ==
  /\ resolver.at = "prompting"
  /\ \E answer \in {"pin", "refused"} : resolver' = [resolver EXCEPT !.at = "answered", !.answer = answer]
  /\ RestOfHelper

ResolverExits ==
  /\ resolver.at = "answered"
  /\ resolver' = [resolver EXCEPT !.at = "gone"]
  /\ RestOfHelper

ResolverDies ==
  /\ ResolverRuns
  /\ resolver' = [resolver EXCEPT !.at = "gone", !.answer = NoOne]
  /\ RestOfHelper

-----------------------------------------------------------------------------
(* The pipes that tell a process of the end of its parent.                 *)

ResolverWatch == life # "live" /\ ResolverDies

WatchesNothing == FALSE  \* seeded bug

ParentWatch ==
  /\ daemon = "dead" /\ life = "live"
  /\ GroupDies("dead") /\ World /\ UNCHANGED <<down, up>>

-----------------------------------------------------------------------------

HelperStep ==
  \/ ReadRequest \/ EndOfInput \/ TakeLock \/ Load \/ Loaded \/ Check \/ Open \/ StartResolver
  \/ TakePIN \/ Login \/ Validate \/ ReadyForTouch \/ AwaitContinue \/ Relock

ResolverStep == ResolverLoads \/ ResolverChecks \/ ResolverExits

\* What takes the time of the user, of 1Password or of the card.
UserStep == ResolvePIN \/ Derive \/ Recover \/ Probe \/ UserAnswers

HelperNext ==
  \/ HelperStep \/ ResolverStep \/ UserStep
  \/ Fails \/ Crashes \/ ResolverDies \/ ResolverWatch \/ ParentWatch
=============================================================================
