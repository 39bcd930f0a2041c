----------------------------- MODULE AgeHelpers -----------------------------
(***************************************************************************)
(* The helper processes with those who start them, and the configuration    *)
(* they share with its writers.  The parent of a session is the hardware    *)
(* manager (HardwareManager has its insides; here it is what it does to the *)
(* pipes and the process).  The parent of a one-shot helper is the Runner   *)
(* of agehelper/runner.go: a caller, the exchange and watchContext          *)
(* goroutines, and a canceler; or that of ageprobe/runner.go, which has the *)
(* same goroutines, no ready frame and no canceler.  The daemon itself may   *)
(* die at any moment, once; the kernel then closes its ends of the pipes.   *)
(***************************************************************************)
EXTENDS HelperProcess

VARIABLES
  exchange,     \* where the exchange of the call is
  asked,        \* the requests that have been written, in their order
  caller,       \* one-shot: who calls Start, WaitReady, ContinueAndWait
  canceler,     \* one-shot: who calls CancelCurrent
  preCanceled,  \* one-shot: Runner.preCanceled
  ctx,          \* one-shot: the call's context is live or over
  ready,        \* one-shot: what WaitReady returns
  response,     \* one-shot: the terminal response that has been read
  reply         \* one-shot: what the call returns

runnerVars == <<caller, canceler, preCanceled, ctx, ready, response, reply>>
vars == <<configVars, helperVars, exchange, asked, runnerVars>>

TypeOK ==
  /\ life \in {"none", "live", "dead", "reaped"} /\ daemon \in {"alive", "dead"}
  /\ pipes \in {"open", "closed"} /\ asked \in Seq(Requests)
  /\ exchange \in {"none", "first", "second", "armed", "result", "write", "eof", "kill", "judge", "done"}
  /\ resolver.at \in {"none", "starting", "loading", "prompting", "answered", "gone"}
  /\ helper.pc \in Working \cup {"idle", "await", "gone"}
  /\ helper.session \in {"none", "open", "authed"} /\ helper.keys \subseteq Requests
  /\ writer \in [Writers -> {"idle", "waiting", "locked", "loaded", "editing", "over"}]
  /\ exclusive \in Configurers \cup Cachers \cup {NoOne} /\ shared \in BOOLEAN

Init ==
  /\ InitHelper
  /\ exchange = "none" /\ asked = <<>>
  /\ caller = "idle" /\ canceler = "idle" /\ preCanceled = FALSE
  /\ ctx = "live" /\ ready = NoOne /\ response = NoOne /\ reply = NoOne

Parent == daemon = "alive"
ConfigFrame == UNCHANGED <<file, exclusive, writer, copy, probed, mode, daemon>>
OfHelper == UNCHANGED <<shared, life, helper, resolver>>

Moves(from, to) == exchange = from /\ exchange' = to

-----------------------------------------------------------------------------
(* The parent of a session: HardwareManager's calls, one after the other.  *)

SessionFrame == Parent /\ Session /\ ConfigFrame /\ UNCHANGED runnerVars

\* Start; a helper serves so many requests.
Ask(r) ==
  /\ SessionFrame /\ OfHelper
  /\ Moves("none", "first") /\ pipes = "open"
  /\ r \notin {asked[i] : i \in 1..Len(asked)} /\ Len(asked) < ReplayLimit
  /\ asked' = Append(asked, r)
  /\ down' = Append(down, Frame("request", r))
  /\ UNCHANGED <<pipes, up>>

Expected(kind) == up # <<>> /\ Head(up) = Frame(kind, asked[Len(asked)])

\* HardwareCall.exchange: the frames of a call come in their order; anything else
\* is an error (StopHelper).  A key needs the continuation identifier, which the
\* helper only learns with the continue frame.
TakeFrame ==
  /\ SessionFrame /\ OfHelper
  /\ \/ Expected("ready") /\ Moves("first", "second")
     \/ Expected("touch") /\ Moves("second", "armed")
     \/ Expected("key")   /\ Moves("result", "none")
  /\ up' = Tail(up)
  /\ UNCHANGED <<pipes, down, asked>>

\* HardwareCall.Wait, once the user is prompted.
GoAhead ==
  /\ SessionFrame /\ OfHelper
  /\ Moves("armed", "result")
  /\ down' = Append(down, Frame("continue", asked[Len(asked)]))
  /\ UNCHANGED <<pipes, up, asked>>

\* hardwareProcess.stop, for a timeout, a cancelation, a wrong frame, the end of
\* the helper or an invalidation: pipes closed, group killed, process reaped.
StopHelper ==
  /\ SessionFrame
  /\ life # "reaped" /\ GroupDies("reaped")
  /\ pipes' = "closed" /\ down' = <<>> /\ up' = <<>> /\ exchange' = "done"
  /\ UNCHANGED asked

-----------------------------------------------------------------------------
(* The one-shot Runner and its Call.                                       *)

RunnerFrame == Parent /\ ~Session /\ ConfigFrame
ByRunner == UNCHANGED <<down, up, asked>> /\ OfHelper

Running == exchange \notin {"none", "done"}

StartAnyway == ctx = "live"  \* seeded bug: a cancelation before Start is forgotten

Startable == ctx = "live" /\ ~preCanceled

\* The process is started, and its goroutines with it; or the start fails.
Launch(allowed) ==
  /\ RunnerFrame /\ caller = "idle"
  /\ \/ /\ allowed
        /\ caller' = "started" /\ exchange' = "write" /\ life' = "live"
        /\ UNCHANGED <<ctx, reply>>
     \/ caller' = "over" /\ reply' = "error" /\ ctx' = "over" /\ UNCHANGED <<exchange, life>>
  /\ UNCHANGED <<shared, helper, resolver, pipes, down, up, asked, canceler, preCanceled, ready, response>>

\* Runner.Start of agehelper, under its mutex; Runner.run of ageprobe has no
\* cancelation but its context's.
Start == mode # "probe" /\ Launch(Startable)
StartProbe == mode = "probe" /\ Launch(ctx = "live")

\* Call.exchange: the request is written, and the input closed.
ExchangeWrites(r) ==
  /\ RunnerFrame /\ OfHelper
  /\ IF pipes = "open" /\ life = "live"
       THEN Moves("write", "first") /\ down' = <<Frame("request", r)>> /\ asked' = <<r>>
       ELSE Moves("write", "kill") /\ UNCHANGED <<down, asked>>
  /\ UNCHANGED <<pipes, up, runnerVars>>

NothingToRead == pipes = "closed" \/ (up = <<>> /\ life # "live")

\* The first frame may say that the hardware helper is ready; a second one then
\* follows, and any other frame is the terminal response.
ExchangeReads ==
  /\ RunnerFrame /\ OfHelper
  /\ exchange \in {"first", "second"}
  /\ \/ /\ NothingToRead
        /\ exchange' = "kill"
        /\ UNCHANGED <<up, ready, response>>
     \/ /\ pipes = "open" /\ up # <<>> /\ up' = Tail(up)
        /\ IF exchange = "first" /\ mode = "hardware" /\ Head(up).kind = "touch"
             THEN exchange' = "second" /\ ready' = "ok" /\ UNCHANGED response
             ELSE exchange' = "eof" /\ response' = Head(up).kind /\ UNCHANGED ready
  /\ UNCHANGED <<pipes, down, asked, caller, canceler, preCanceled, ctx, reply>>

\* ensureEOF: nothing may follow.
ExchangeEnds ==
  /\ RunnerFrame /\ ByRunner
  /\ Moves("eof", "kill")
  /\ NothingToRead \/ up # <<>>
  /\ response' = IF pipes = "open" /\ up = <<>> THEN response ELSE NoOne
  /\ UNCHANGED <<pipes, caller, canceler, preCanceled, ctx, ready, reply>>

\* closePipes, and the process group is killed.
ExchangeKills ==
  /\ RunnerFrame
  /\ Moves("kill", "judge") /\ pipes' = "closed"
  /\ GroupDies("dead")
  /\ UNCHANGED <<down, up, asked, runnerVars>>

\* cmd.Wait, which may tell of an error; a key counts if the context is not over ...
Judges(counts) ==
  /\ RunnerFrame
  /\ Moves("judge", "done") /\ life' = "reaped" /\ ctx' = "over"
  /\ response' \in {"error"} \cup (IF ctx = "live" /\ counts THEN {response} \cap {"key"} ELSE {})
  /\ UNCHANGED <<shared, helper, resolver, pipes, down, up, asked, caller, canceler, preCanceled, reply>>

\* ... and, from a hardware helper, if it has been ready.
ExchangeJudges ==
  /\ mode # "probe"
  /\ Judges(mode = "hardware" => ready = "ok")
  /\ ready' = IF ready = NoOne /\ mode = "hardware" THEN "error" ELSE ready

ProbeJudges == mode = "probe" /\ Judges(TRUE) /\ UNCHANGED ready

WatchContext ==
  /\ RunnerFrame /\ ByRunner
  /\ ctx = "over" /\ Running /\ pipes = "open"
  /\ pipes' = "closed"
  /\ UNCHANGED <<exchange, runnerVars>>

\* The request's context, or its timeout.
ContextEnds ==
  /\ RunnerFrame /\ ByRunner
  /\ ctx = "live" /\ ctx' = "over"
  /\ UNCHANGED <<pipes, exchange, caller, canceler, preCanceled, ready, response, reply>>

Calls(from, to) == caller = from /\ caller' = to

\* WaitReady; ContinueAndWait sends the continue signal, or closes the pipes if
\* they are closed already; waitResult.
WaitReady ==
  /\ mode = "hardware" /\ ready # NoOne
  /\ IF ready = "ok" THEN Calls("started", "ready") /\ UNCHANGED reply
                     ELSE Calls("started", "over") /\ reply' = "error"
  /\ UNCHANGED down

ContinueAndWait ==
  /\ Calls("ready", "waiting")
  /\ down' = IF pipes = "open" THEN Append(down, Frame("continue", asked[1])) ELSE down
  /\ UNCHANGED reply

WaitResult ==
  /\ Calls(IF mode = "hardware" THEN "waiting" ELSE "started", "over")
  /\ exchange = "done"
  /\ reply' = response
  /\ UNCHANGED down

Wait ==
  /\ RunnerFrame /\ OfHelper
  /\ WaitReady \/ ContinueAndWait \/ WaitResult
  /\ UNCHANGED <<exchange, pipes, up, asked, canceler, preCanceled, ctx, ready, response>>

\* CancelCurrent takes the active call, if any ...
CancelCurrent ==
  /\ RunnerFrame /\ ByRunner
  /\ mode # "probe" /\ canceler = "idle" /\ preCanceled' = TRUE
  /\ canceler' = IF Running THEN "canceling" ELSE "over"
  /\ UNCHANGED <<exchange, pipes, caller, ctx, ready, response, reply>>

\* ... and Call.Cancel ends its context, closes the pipes and waits for its end.
Cancel ==
  /\ RunnerFrame /\ ByRunner
  /\ canceler = "canceling" /\ canceler' = "joining"
  /\ ctx' = "over" /\ pipes' = "closed"
  /\ UNCHANGED <<exchange, caller, preCanceled, ready, response, reply>>

CancelReturns ==
  /\ RunnerFrame /\ ByRunner
  /\ canceler = "joining" /\ exchange = "done" /\ canceler' = "over"
  /\ UNCHANGED <<exchange, pipes, caller, preCanceled, ctx, ready, response, reply>>

Exchange ==
  \/ \E r \in Requests : ExchangeWrites(r)
  \/ ExchangeReads \/ ExchangeEnds \/ ExchangeKills \/ ExchangeJudges \/ ProbeJudges

-----------------------------------------------------------------------------
(* Everybody.                                                              *)

DaemonDies ==
  /\ daemon = "alive" /\ daemon' = "dead" /\ pipes' = "closed"
  /\ UNCHANGED <<configVars, mode, down, up, life, helper, resolver, exchange, asked, runnerVars>>

Writing(w) == Write(w) /\ UNCHANGED <<helperVars, exchange, asked, runnerVars>>

HelperSide == HelperNext /\ UNCHANGED <<exchange, asked, runnerVars>>

Next ==
  \/ \E r \in Requests : Ask(r)
  \/ TakeFrame \/ GoAhead \/ StopHelper
  \/ Start \/ StartProbe \/ Exchange \/ WatchContext \/ ContextEnds \/ Wait
  \/ CancelCurrent \/ Cancel \/ CancelReturns
  \/ HelperSide \/ DaemonDies
  \/ \E w \in Writers : Writing(w)

Spec == Init /\ [][Next]_vars

\* Every process and goroutine that can go on does; timeouts come; the kernel
\* grants a lock that is free.  Nobody has to ask, to answer a prompt, to touch
\* the key, to fail or to die.
FairSpec ==
  /\ Spec
  /\ WF_vars(HelperStep /\ UNCHANGED <<exchange, asked, runnerVars>>)
  /\ WF_vars(ResolverStep /\ UNCHANGED <<exchange, asked, runnerVars>>)
  /\ WF_vars(ResolverWatch /\ UNCHANGED <<exchange, asked, runnerVars>>)
  /\ WF_vars(ParentWatch /\ UNCHANGED <<exchange, asked, runnerVars>>)
  /\ WF_vars(exchange # "none" /\ StopHelper)
  /\ WF_vars(Exchange) /\ WF_vars(WatchContext) /\ WF_vars(Running /\ ContextEnds)
  /\ WF_vars(Cancel) /\ WF_vars(CancelReturns)
  /\ \A w \in Writers : WF_vars(Works(w) /\ UNCHANGED <<helperVars, exchange, asked, runnerVars>>)
-----------------------------------------------------------------------------
(* What a helper promises (HelperContract), and how it shows.              *)

TouchesTheCard == mode \in {"session", "hardware"}

\* A hardware helper is preparing once the request is on its way, armed once its
\* ready frame is, and deriving once the continue frame is.
Phase ==
  IF life \in {"dead", "reaped"} THEN "gone"
  ELSE IF ~TouchesTheCard THEN "idle"
  ELSE IF helper.pc = "idle" /\ down = <<>> THEN "idle"
  ELSE IF helper.pc = "await" /\ down = <<>> THEN "armed"
  ELSE IF helper.pc \in {"await", "relock", "derive"} THEN "deriving"
  ELSE "preparing"

Serving ==
  IF Phase \in {"idle", "gone"} THEN NoOne
  ELSE IF helper.pc = "idle" THEN Head(down).req ELSE helper.req

Contract == INSTANCE HelperContract WITH
  phase <- Phase, request <- Serving, given <- IF TouchesTheCard THEN helper.keys ELSE {}

\* The helper processes keep the contract that HardwareManager and Runner take
\* for granted: whatever happens, no key without a ready frame and a continue
\* frame for that very request, one request at a time and each at most once
\* (docs/age-reference.md, hardware_session_helper.go:114).
KeepsTheContract == Contract!Spec

-----------------------------------------------------------------------------
(* Properties.                                                             *)

\* When a session touches the card it holds the configuration's lock, and the
\* configuration is the one its PIN and its target came from, unless an editor
\* that knows of no lock has been at it (hardware_session_helper.go:324).
DerivesAsConfigured ==
  Session /\ helper.pc = "derive" => shared /\ (file.gen = helper.bound \/ ByEditor)

\* The user is asked for the PIN of the configuration the helper is bound to, and
\* an authenticated session has used one PIN, of the configuration its target
\* came from (hardware_session_helper.go:249, :535).
PinFitsTheSession ==
  /\ resolver.at = "prompting" => resolver.conf.gen = helper.bound
  /\ Session /\ helper.session = "authed" =>
       /\ helper.pinOf = helper.bound /\ helper.conf.gen = helper.bound
       /\ helper.logins = 1

\* A one-shot helper does not survive the return of its call, of a failed
\* WaitReady or of a CancelCurrent, whatever their order (runner.go:179, :300).
NothingRunsOn ==
  ~Session /\ (caller = "over" \/ ready = "error" \/ canceler = "over") => life \in {"none", "reaped"}

\* A writer that waits for the lock gets it, although the helper keeps it while
\* the user is asked for the PIN (config.go:317).
WriterGetsItsTurn == \A w \in Writers : writer[w] = "waiting" ~> writer[w] = "over"

\* The end of the daemon ends the helper, and the end of the helper its resolver,
\* by whichever way; a daemon that stays ends every one-shot exchange, and then
\* the cancelation that waits for it (parentwatch/watch.go:47,
\* resolver_parent_watch.go:18, runner.go:300).
EveryHelperEnds ==
  /\ daemon = "dead" ~> life # "live"
  /\ life # "live" ~> ~ResolverRuns
  /\ Running /\ ~Session ~> exchange = "done" \/ daemon = "dead"
  /\ canceler \in {"canceling", "joining"} ~> canceler = "over" \/ daemon = "dead"
=============================================================================
