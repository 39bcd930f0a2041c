-------------------------- MODULE HardwareManager --------------------------
(***************************************************************************)
(* internal/agehelper/hardware_session_manager.go: the manager of the one  *)
(* persistent, authenticated helper process that unwraps age file keys on  *)
(* the YubiKey.  A request calls Start, WaitReady and Wait; each started    *)
(* call has an exchange goroutine and a context watcher, each helper a      *)
(* reader; Invalidate, Close and CancelCurrent come from other goroutines   *)
(* at any time.  A helper is named by the request that launched it, for a   *)
(* Start launches at most one.                                              *)
(*                                                                         *)
(* Start holds both mutexes of the manager throughout, invalidate holds     *)
(* lifecycle throughout; the other regions under mu are single steps.       *)
(***************************************************************************)
EXTENDS Naturals, FiniteSets

CONSTANTS
  Requests,      \* each calls Start once
  Outsiders,     \* goroutines that invalidate, close or cancel, once each
  Casts,         \* bound: the groups of requests and outsiders that meet
  RequestLimit,  \* requests one helper may serve
  NoOne

ASSUME CastsAssumption == Casts \subseteq SUBSET (Requests \cup Outsiders)
ASSUME LimitAssumption == RequestLimit \in Nat \ {0}
ASSUME NoOneAssumption == NoOne \notin Requests \cup Outsiders
ASSUME AnswersAssumption == NoOne \notin {"ok", "error", "key"}
ASSUME OutsidersAssumption == Requests \cap Outsiders = {}

VARIABLES
  lifecycle, mu,  \* who holds the mutex
  process,        \* m.process
  active,         \* m.active
  closed, poisoned,
  \* per request
  caller,         \* where it is in Start, WaitReady and Wait
  ctx,            \* its callCtx is live or over
  proc,           \* the helper of its call
  exchange,       \* where the exchange goroutine is
  watch,          \* where the watchContext goroutine is
  ready,          \* what WaitReady will return
  verdict,        \* what the exchange has left for Wait
  reply,          \* what the request was given in the end
  \* per helper
  life,           \* not launched, live, being stopped, reaped or left over
  reader,         \* where the readResponses goroutine is
  delivery,       \* the call registered for responses
  phase,          \* what the helper process is doing
  frame,          \* the response in its pipe or in its reader
  completed,      \* completedRequests
  \* per outsider
  outsider,       \* where it is
  taken           \* the helper and the call it has taken out

managerVars == <<lifecycle, mu, process, active, closed, poisoned>>
callVars    == <<proc, exchange, watch, ready, verdict>>
helperVars  == <<life, reader, delivery, phase, frame, completed>>
outVars     == <<outsider, taken>>
vars == <<managerVars, caller, ctx, reply, callVars, helperVars, outVars>>

TypeOK ==
  /\ lifecycle \in Requests \cup Outsiders \cup {NoOne} /\ mu \in Requests \cup {NoOne}
  /\ process \in Requests \cup {NoOne} /\ active \in Requests \cup {NoOne}
  /\ closed \in BOOLEAN /\ poisoned \in BOOLEAN
  /\ caller \in [Requests -> {"idle", "retire", "launch", "register", "abandon", "started",
                              "ready", "waiting", "stopping", "over"}]
  /\ ctx \in [Requests -> {"live", "over"}]
  /\ proc \in [Requests -> Requests \cup {NoOne}]
  /\ exchange \in [Requests -> {"none", "write", "prepare", "result", "failing", "joining",
                                "finishing", "done"}]
  /\ watch \in [Requests -> {"none", "watching", "stopping", "done"}]
  /\ ready \in [Requests -> {NoOne, "ok", "error"}]
  /\ verdict \in [Requests -> {NoOne, "key", "error"}]
  /\ reply \in [Requests -> {NoOne, "key", "error"}]
  /\ life \in [Requests -> {"none", "live", "stopping", "reaped", "leftover"}]
  /\ reader \in [Requests -> {"none", "reading", "stopping", "gone"}]
  /\ delivery \in [Requests -> Requests \cup {NoOne}]
  /\ phase \in [Requests -> {"idle", "preparing", "armed", "deriving"}]
  /\ frame \in [Requests -> {NoOne, "ready", "key", "refused"}]
  /\ completed \in [Requests -> Nat]
  /\ outsider \in [Outsiders -> {"idle", "invalidate", "reaping", "canceling", "cancel",
                                  "canceled", "over"}]
  /\ taken \in [Outsiders -> [process : Requests \cup {NoOne}, call : Requests \cup {NoOne}]]

Init ==
  /\ lifecycle = NoOne /\ mu = NoOne
  /\ process = NoOne /\ active = NoOne
  /\ closed = FALSE /\ poisoned = FALSE
  /\ ctx       = [r \in Requests |-> "live"]
  /\ proc      = [r \in Requests |-> NoOne]
  /\ exchange  = [r \in Requests |-> "none"]
  /\ watch     = [r \in Requests |-> "none"]
  /\ ready     = [r \in Requests |-> NoOne]
  /\ verdict   = [r \in Requests |-> NoOne]
  /\ reply     = [r \in Requests |-> NoOne]
  /\ life      = [h \in Requests |-> "none"]
  /\ reader    = [h \in Requests |-> "none"]
  /\ delivery  = [h \in Requests |-> NoOne]
  /\ phase     = [h \in Requests |-> "idle"]
  /\ frame     = [h \in Requests |-> NoOne]
  /\ completed = [h \in Requests |-> 0]
  /\ \E cast \in Casts :
       /\ caller   = [r \in Requests |-> IF r \in cast THEN "idle" ELSE "over"]
       /\ outsider = [o \in Outsiders |-> IF o \in cast THEN "idle" ELSE "over"]
  /\ taken     = [o \in Outsiders |-> [process |-> NoOne, call |-> NoOne]]

-----------------------------------------------------------------------------
(* hardwareProcess.stop: the first caller closes the pipes, kills the       *)
(* process group and waits for it; the others wait for the first.           *)

Stopped(h) == life[h] \in {"reaped", "leftover"}

Stop(h) == life' = [life EXCEPT ![h] = IF @ = "live" THEN "stopping" ELSE @]

\* cmd.Wait, then up to two seconds for the group to be gone: "leftover" when
\* a process of it is still there, which is what stopErr says from then on.
StopEnds(h) ==
  /\ life[h] = "stopping"
  /\ \E end \in {"reaped", "leftover"} : life' = [life EXCEPT ![h] = end]
  /\ UNCHANGED <<managerVars, caller, ctx, reply, callVars, reader, delivery, phase, frame,
                 completed, outVars>>

-----------------------------------------------------------------------------
(* Start.                                                                  *)

At(r, from, to) == caller[r] = from /\ caller' = [caller EXCEPT ![r] = to]

Unlock == lifecycle' = NoOne /\ mu' = NoOne

\* Start returns an error: the request is over.
StartFails(r, from) ==
  /\ At(r, from, "over")
  /\ reply' = [reply EXCEPT ![r] = "error"]
  /\ Unlock

Refuse(r) == closed \/ poisoned \/ active # NoOne \/ ctx[r] = "over"

Retainable(h) == ~Stopped(h) /\ completed[h] < RequestLimit

\* Both mutexes, the checks, and the choice between the retained helper and a
\* new one.
StartLocks(r) ==
  /\ caller[r] = "idle"
  /\ lifecycle = NoOne /\ mu = NoOne
  /\ IF Refuse(r)
       THEN StartFails(r, "idle") /\ UNCHANGED <<process, life>>
       ELSE /\ lifecycle' = r /\ mu' = r
            /\ \/ /\ process = NoOne
                  /\ At(r, "idle", "launch")
                  /\ UNCHANGED <<process, life>>
               \/ /\ process # NoOne
                  /\ Retainable(process)
                  /\ At(r, "idle", "register")
                  /\ UNCHANGED <<process, life>>
               \/ /\ process # NoOne
                  /\ ~Retainable(process)
                  /\ At(r, "idle", "retire")
                  /\ process' = NoOne
                  /\ Stop(process)
            /\ UNCHANGED reply
  /\ proc' = [proc EXCEPT ![r] = IF Refuse(r) THEN NoOne ELSE process]
  /\ UNCHANGED <<active, closed, poisoned, ctx, exchange, watch, ready, verdict, reader,
                 delivery, phase, frame, completed, outVars>>

\* Seeded bug: the error of the stop is ignored.
RetireAnyway(r) ==
  /\ caller[r] = "retire" /\ Stopped(proc[r])
  /\ At(r, "retire", "launch")
  /\ UNCHANGED <<managerVars, reply, ctx, callVars, helperVars, outVars>>

\* The old helper is gone, or could not be reaped.
Retire(r) ==
  /\ caller[r] = "retire" /\ Stopped(proc[r])
  /\ IF life[proc[r]] = "leftover"
       THEN StartFails(r, "retire") /\ poisoned' = TRUE
       ELSE At(r, "retire", "launch") /\ UNCHANGED <<reply, lifecycle, mu, poisoned>>
  /\ UNCHANGED <<process, active, closed, ctx, callVars, helperVars, outVars>>

\* launchProcess and the go statement of its reader.
Launch(r) ==
  \/ /\ ctx[r] = "live"
     /\ At(r, "launch", "register")
     /\ process' = r
     /\ proc' = [proc EXCEPT ![r] = r]
     /\ life' = [life EXCEPT ![r] = "live"]
     /\ reader' = [reader EXCEPT ![r] = "reading"]
     /\ UNCHANGED <<lifecycle, mu, reply, active, closed, poisoned, ctx, exchange, watch, ready,
                    verdict, delivery, phase, frame, completed, outVars>>
  \/ /\ StartFails(r, "launch")
     /\ UNCHANGED <<process, active, closed, poisoned, ctx, callVars, helperVars, outVars>>

\* The last checks of the context, and register.  A canceled Start stops the
\* helper it launched and leaves a retained one alone; one that cannot
\* register stops its helper either way.
Register(r) ==
  LET h == proc[r] IN
  \/ /\ ctx[r] = "over" /\ h # r
     /\ StartFails(r, "register")
     /\ UNCHANGED <<process, active, closed, poisoned, ctx, callVars, helperVars, outVars>>
  \/ /\ At(r, "register", "abandon")
     /\ (ctx[r] = "over" /\ h = r) \/ Stopped(h) \/ delivery[h] # NoOne
     /\ process' = NoOne
     /\ Stop(h)
     /\ UNCHANGED <<lifecycle, mu, reply, active, closed, poisoned, ctx, callVars, reader,
                    delivery, phase, frame, completed, outVars>>
  \/ /\ At(r, "register", "started")
     /\ ctx[r] = "live" /\ ~Stopped(h) /\ delivery[h] = NoOne
     /\ delivery' = [delivery EXCEPT ![h] = r]
     /\ active' = r
     /\ exchange' = [exchange EXCEPT ![r] = "write"]
     /\ watch' = [watch EXCEPT ![r] = "watching"]
     /\ Unlock
     /\ UNCHANGED <<process, closed, poisoned, reply, ctx, proc, ready, verdict, life, reader,
                    phase, frame, completed, outVars>>

Abandon(r) ==
  /\ StartFails(r, "abandon")
  /\ Stopped(proc[r])
  /\ poisoned' = (poisoned \/ life[proc[r]] = "leftover")
  /\ UNCHANGED <<process, active, closed, ctx, callVars, helperVars, outVars>>

-----------------------------------------------------------------------------
(* WaitReady and Wait.                                                     *)

WaitReady(r) ==
  /\ ready[r] # NoOne
  /\ IF ready[r] = "ok" THEN At(r, "started", "ready") /\ UNCHANGED reply
                        ELSE At(r, "started", "over") /\ reply' = [reply EXCEPT ![r] = "error"]
  /\ UNCHANGED <<managerVars, ctx, callVars, helperVars, outVars>>

\* Wait sends the continue frame, and stops a helper that cannot take it.
Continue(r) ==
  LET h == proc[r] IN
  /\ \/ /\ At(r, "ready", "waiting")
        /\ life[h] = "live"
        /\ phase' = [phase EXCEPT ![h] = IF @ = "armed" THEN "deriving" ELSE @]
        /\ UNCHANGED life
     \/ /\ At(r, "ready", "stopping")
        /\ Stop(h)
        /\ UNCHANGED phase
  /\ UNCHANGED <<managerVars, ctx, reply, callVars, reader, delivery, frame, completed, outVars>>

\* ... and returns what the exchange has left, unless continue failed.
WaitReturns(r) ==
  /\ exchange[r] = "done"
  /\ \/ /\ At(r, "waiting", "over")
        /\ reply' = [reply EXCEPT ![r] = verdict[r]]
     \/ /\ At(r, "stopping", "over")
        /\ Stopped(proc[r])
        /\ reply' = [reply EXCEPT ![r] = "error"]
  /\ UNCHANGED <<managerVars, ctx, callVars, helperVars, outVars>>

\* A request canceled between the two never calls Wait.
Skip(r) ==
  /\ ctx[r] = "over"
  /\ At(r, "ready", "over")
  /\ reply' = [reply EXCEPT ![r] = "error"]
  /\ UNCHANGED <<managerVars, ctx, callVars, helperVars, outVars>>

\* The request's own context ends: a timeout or a cancellation.
ContextEnds(r) ==
  /\ caller[r] # "over" /\ ctx[r] = "live"
  /\ ctx' = [ctx EXCEPT ![r] = "over"]
  /\ UNCHANGED <<managerVars, caller, reply, callVars, helperVars, outVars>>

-----------------------------------------------------------------------------
(* The exchange and watcher goroutines of a call.                          *)

Goto(r, from, to) == exchange[r] = from /\ exchange' = [exchange EXCEPT ![r] = to]

\* finishFailure begins by stopping the helper.
Fail(r, from) == Goto(r, from, "failing") /\ Stop(proc[r])

WriteRequest(r) ==
  LET h == proc[r] IN
  /\ \/ /\ Goto(r, "write", "prepare")
        /\ ctx[r] = "live" /\ life[h] = "live"
        /\ phase' = [phase EXCEPT ![h] = "preparing"]
        /\ UNCHANGED life
     \/ Fail(r, "write") /\ UNCHANGED phase
  /\ UNCHANGED <<managerVars, caller, ctx, reply, proc, watch, ready, verdict, reader, delivery,
                 frame, completed, outVars>>

\* setReady: the first outcome counts.
SetReadyOnSuccess(r, outcome) ==  \* seeded bug
  ready' = [ready EXCEPT ![r] = IF @ = NoOne /\ outcome = "ok" THEN outcome ELSE @]

SetReady(r, outcome) ==
  ready' = [ready EXCEPT ![r] = IF @ = NoOne THEN outcome ELSE @]

\* nextFrame: a response, the end of the helper or of the context, whichever
\* the select picks.  The two frames before the touch are one here.
TakeFrame(r) ==
  LET h == proc[r] IN
  /\ exchange[r] \in {"prepare", "result"}
  /\ frame[h] # NoOne /\ reader[h] = "reading"
  /\ frame' = [frame EXCEPT ![h] = NoOne]
  /\ \/ /\ frame[h] = "ready" /\ Goto(r, "prepare", "result")
        /\ SetReady(r, "ok")
        /\ UNCHANGED <<life, verdict>>
     \/ /\ frame[h] = "key" /\ ctx[r] = "live" /\ Goto(r, "result", "joining")
        /\ verdict' = [verdict EXCEPT ![r] = "key"]
        /\ UNCHANGED <<life, ready>>
     \/ /\ frame[h] = "refused" /\ Fail(r, "prepare")
        /\ UNCHANGED <<ready, verdict>>
     \/ /\ frame[h] = "refused" \/ ctx[r] = "over"
        /\ Fail(r, "result")
        /\ UNCHANGED <<ready, verdict>>
  /\ UNCHANGED <<managerVars, caller, ctx, reply, proc, watch, reader, delivery, phase,
                 completed, outVars>>

NoFrame(r) ==
  /\ exchange[r] \in {"prepare", "result"}
  /\ Stopped(proc[r]) \/ ctx[r] = "over"
  /\ Fail(r, "prepare") \/ Fail(r, "result")
  /\ UNCHANGED <<managerVars, caller, ctx, reply, proc, watch, ready, verdict, reader, delivery,
                 phase, frame, completed, outVars>>

\* Seeded bugs: the helper is not waited for; the other mutex is taken.
FailedEarly(r) ==
  /\ Goto(r, "failing", "joining")
  /\ verdict' = [verdict EXCEPT ![r] = "error"]
  /\ UNCHANGED <<managerVars, caller, ctx, reply, proc, watch, ready, helperVars, outVars>>
FailedUnderLifecycle(r) ==
  /\ Goto(r, "failing", "joining")
  /\ Stopped(proc[r]) /\ lifecycle = NoOne
  /\ poisoned' = (poisoned \/ life[proc[r]] = "leftover")
  /\ verdict' = [verdict EXCEPT ![r] = "error"]
  /\ UNCHANGED <<lifecycle, mu, process, active, closed, caller, ctx, reply, proc, watch, ready,
                 helperVars, outVars>>

\* The rest of finishFailure: poison the manager under mu when the helper is
\* left over.
Failed(r) ==
  /\ Goto(r, "failing", "joining")
  /\ Stopped(proc[r])
  /\ life[proc[r]] = "leftover" => mu = NoOne
  /\ poisoned' = (poisoned \/ life[proc[r]] = "leftover")
  /\ verdict' = [verdict EXCEPT ![r] = "error"]
  /\ UNCHANGED <<lifecycle, mu, process, active, closed, caller, ctx, reply, proc, watch, ready,
                 helperVars, outVars>>

\* finish joins the watcher, ends the context ...
Join(r) ==
  /\ watch[r] = "done"
  /\ Goto(r, "joining", "finishing")
  /\ ctx' = [ctx EXCEPT ![r] = "over"]
  /\ UNCHANGED <<managerVars, caller, reply, proc, watch, ready, verdict, helperVars, outVars>>

\* ... and leaves the manager, with the helper retained after a success.
ManagerFinish(r) ==
  LET h == proc[r] IN
  /\ mu = NoOne
  /\ Goto(r, "finishing", "done")
  /\ delivery' = [delivery EXCEPT ![h] = IF @ = r THEN NoOne ELSE @]
  /\ active' = IF active = r THEN NoOne ELSE active
  /\ IF verdict[r] = "key"
       THEN /\ completed' = [completed EXCEPT ![h] = @ + 1]
            /\ UNCHANGED <<process, ready>>
       ELSE /\ process' = IF process = h THEN NoOne ELSE process
            /\ SetReady(r, "error")
            /\ UNCHANGED completed
  /\ UNCHANGED <<lifecycle, mu, closed, poisoned, caller, ctx, reply, proc, watch, verdict, life,
                 reader, phase, frame, outVars>>

Exchange(r) ==
  \/ WriteRequest(r) \/ TakeFrame(r) \/ NoFrame(r) \/ Failed(r) \/ Join(r) \/ ManagerFinish(r)

\* watchContext; joining closes watchStop.
Watch(r) ==
  /\ \/ /\ watch[r] = "watching" /\ ctx[r] = "over"
        /\ watch' = [watch EXCEPT ![r] = "stopping"]
        /\ Stop(proc[r])
     \/ /\ \/ watch[r] = "watching" /\ exchange[r] = "joining"
           \/ watch[r] = "stopping" /\ Stopped(proc[r])
        /\ watch' = [watch EXCEPT ![r] = "done"]
        /\ UNCHANGED life
  /\ UNCHANGED <<managerVars, caller, ctx, reply, proc, exchange, ready, verdict, reader,
                 delivery, phase, frame, completed, outVars>>

-----------------------------------------------------------------------------
(* The helper process, as the manager sees it, and its reader.             *)

Answer(h, from, to, frames) ==
  /\ phase[h] = from
  /\ phase' = [phase EXCEPT ![h] = to]
  /\ \E f \in frames : frame' = [frame EXCEPT ![h] = f]

HelperAnswers(h) ==
  /\ life[h] = "live" /\ reader[h] = "reading" /\ frame[h] = NoOne
  /\ \/ Answer(h, "preparing", "armed", {"ready", "refused"})
     \/ Answer(h, "deriving", "idle", {"key", "refused"})
  /\ UNCHANGED <<managerVars, caller, ctx, reply, callVars, life, reader, delivery, completed,
                 outVars>>

\* readResponses ends: the helper has exited, the pipe is closed under it, or
\* the response in hand has nobody left to take it.
ReaderEnds(h) ==
  /\ reader[h] = "reading"
  /\ reader' = [reader EXCEPT ![h] = "stopping"]
  /\ Stop(h)
  /\ UNCHANGED <<managerVars, caller, ctx, reply, callVars, delivery, phase, frame, completed,
                 outVars>>

\* Seeded bug: whatever the manager retains is forgotten.
ProcessExitedBlindly(h) ==
  /\ reader[h] = "stopping" /\ Stopped(h) /\ mu = NoOne
  /\ reader' = [reader EXCEPT ![h] = "gone"]
  /\ process' = NoOne
  /\ poisoned' = (poisoned \/ life[h] = "leftover")
  /\ UNCHANGED <<lifecycle, mu, active, closed, caller, ctx, reply, callVars, life, delivery,
                 phase, frame, completed, outVars>>

\* processExited.
ProcessExited(h) ==
  /\ reader[h] = "stopping" /\ Stopped(h) /\ mu = NoOne
  /\ reader' = [reader EXCEPT ![h] = "gone"]
  /\ process' = IF process = h THEN NoOne ELSE process
  /\ poisoned' = (poisoned \/ life[h] = "leftover")
  /\ UNCHANGED <<lifecycle, mu, active, closed, caller, ctx, reply, callVars, life, delivery,
                 phase, frame, completed, outVars>>

-----------------------------------------------------------------------------
(* Invalidate, Close and CancelCurrent.                                    *)

Turn(o, from, to) == outsider[o] = from /\ outsider' = [outsider EXCEPT ![o] = to]

\* The device watcher, a probe of another request, the cancelCall of this one
\* or the shutdown takes out the helper and the call there are ...
Invalidate(o, closeManager) ==
  /\ lifecycle = NoOne /\ mu = NoOne
  /\ Turn(o, "idle", "invalidate")
  /\ lifecycle' = o
  /\ closed' = (closed \/ closeManager)
  /\ taken' = [taken EXCEPT ![o] = [process |-> process, call |-> active]]
  /\ process' = NoOne
  /\ UNCHANGED <<mu, active, poisoned, caller, ctx, reply, callVars, helperVars>>

\* ... ends the context of the call, stops the helper ...
Reap(o) ==
  /\ Turn(o, "invalidate", "reaping")
  /\ ctx' = [r \in Requests |-> IF r = taken[o].call THEN "over" ELSE ctx[r]]
  /\ IF taken[o].process = NoOne THEN UNCHANGED life ELSE Stop(taken[o].process)
  /\ UNCHANGED <<managerVars, caller, reply, callVars, reader, delivery, phase, frame, completed,
                 taken>>

\* Seeded bug: only the call is waited for.
InvalidateReturnsAtOnce(o) ==
  /\ taken[o].call # NoOne => exchange[taken[o].call] = "done"
  /\ mu = NoOne
  /\ Turn(o, "reaping", "over")
  /\ lifecycle' = NoOne
  /\ UNCHANGED <<mu, process, active, closed, poisoned, caller, ctx, reply, callVars, helperVars,
                 taken>>

\* ... and waits for both.
InvalidateReturns(o) ==
  LET h == taken[o].process IN
  /\ h # NoOne => Stopped(h)
  /\ taken[o].call # NoOne => exchange[taken[o].call] = "done"
  /\ mu = NoOne
  /\ Turn(o, "reaping", "over")
  /\ poisoned' = (poisoned \/ (h # NoOne /\ life[h] = "leftover"))
  /\ lifecycle' = NoOne
  /\ UNCHANGED <<mu, process, active, closed, caller, ctx, reply, callVars, helperVars, taken>>

\* HardwareManager.CancelCurrent and HardwareCall.Cancel, without lifecycle.
CancelCurrent(o) ==
  /\ mu = NoOne /\ active # NoOne
  /\ Turn(o, "idle", "canceling")
  /\ taken' = [taken EXCEPT ![o] = [process |-> proc[active], call |-> active]]
  /\ UNCHANGED <<managerVars, caller, ctx, reply, callVars, helperVars>>

\* The look at c.done, and what follows it: by then the call may be done and
\* its retained helper serve the next one.
Cancel(o) ==
  /\ \/ /\ Turn(o, "canceling", "cancel")
        /\ exchange[taken[o].call] # "done"
        /\ UNCHANGED <<ctx, life>>
     \/ /\ Turn(o, "canceling", "over")
        /\ exchange[taken[o].call] = "done"
        /\ UNCHANGED <<ctx, life>>
     \/ /\ Turn(o, "cancel", "canceled")
        /\ ctx' = [ctx EXCEPT ![taken[o].call] = "over"]
        /\ Stop(taken[o].process)
     \/ /\ Turn(o, "canceled", "over")
        /\ Stopped(taken[o].process) /\ exchange[taken[o].call] = "done"
        /\ UNCHANGED <<ctx, life>>
  /\ UNCHANGED <<managerVars, caller, reply, callVars, reader, delivery, phase, frame, completed,
                 taken>>

-----------------------------------------------------------------------------

\* Every request has been answered and nobody is left: only the model stops.
AllOver ==
  /\ \A r \in Requests : caller[r] = "over" /\ exchange[r] \in {"none", "done"}
  /\ \A h \in Requests : reader[h] \in {"none", "gone"}
  /\ \A o \in Outsiders : outsider[o] = "over"
  /\ UNCHANGED vars

\* The rest of a request that has begun.
Proceed(r) ==
  \/ Retire(r) \/ Launch(r) \/ Register(r) \/ Abandon(r)
  \/ WaitReady(r) \/ Continue(r) \/ WaitReturns(r)

Reader(h) == ReaderEnds(h) \/ ProcessExited(h)
Return(o) == Reap(o) \/ InvalidateReturns(o) \/ Cancel(o)

Next ==
  \/ \E r \in Requests :
       \/ StartLocks(r) \/ Proceed(r) \/ Skip(r) \/ ContextEnds(r) \/ Exchange(r) \/ Watch(r)
       \/ StopEnds(r) \/ HelperAnswers(r) \/ Reader(r)
  \/ \E o \in Outsiders :
       (\E closeManager \in BOOLEAN : Invalidate(o, closeManager)) \/ CancelCurrent(o) \/ Return(o)
  \/ AllOver

\* What a request and the helper it launched do without anybody's help: the
\* goroutines run, a stop takes at most two seconds after the kill, the timeout
\* of a call is armed.  A helper need not answer, nor exit by itself.
Advance(r) ==
  \/ Proceed(r) \/ Exchange(r) \/ Watch(r) \/ (caller[r] # "idle" /\ ContextEnds(r))
  \/ StopEnds(r) \/ (life[r] # "live" /\ Reader(r))

Fairness ==
  (\A r \in Requests : WF_vars(Advance(r))) /\ (\A o \in Outsiders : WF_vars(Return(o)))

Spec == Init /\ [][Next]_vars
FairSpec == Spec /\ Fairness

-----------------------------------------------------------------------------
(* Properties.                                                             *)

Running(h) == life[h] \in {"live", "stopping"}

\* The manager owns at most one helper, one that is being killed included, and
\* launches none while processes of an earlier one may still hold the device;
\* and none at all once Close has returned.
OneHelper ==
  \A h \in Requests : Running(h) =>
    /\ \A g \in Requests \ {h} : life[g] \in {"none", "reaped"}
    /\ closed => lifecycle # NoOne

\* "Early failures are returned only after the failed helper has been killed
\* and reaped"; nor is any later failure known before the helper is gone.  So a
\* helper whose call failed, was canceled or timed out never serves another.
FailureMeansReaped ==
  \A r \in Requests : verdict[r] = "error" \/ ready[r] = "error" => Stopped(proc[r])

\* When Invalidate or Close returns, no call is active and no helper runs;
\* and unless it reports an error none was left over, ever.
InvalidateReaps ==
  [][\A o \in Outsiders :
       InvalidateReturns(o) =>
         /\ active' = NoOne /\ \A h \in Requests : ~Running(h)
         /\ ~poisoned' => \A h \in Requests : life[h] # "leftover"]_vars

\* A helper that still runs is the one the manager would find and stop: none is
\* lost to it, except to whoever is at this moment waiting for its end.
NoHelperIsLost ==
  \A h \in Requests :
    life[h] = "live" =>
      process = h \/ \E o \in Outsiders : outsider[o] = "invalidate" /\ taken[o].process = h

\* Every started request is answered, even if its helper is mute.
EveryRequestEnds ==
  \A r \in Requests : caller[r] \in {"retire", "launch", "register", "started"} ~> caller[r] = "over"

\* Invalidate, which waits for the call and its helper while it keeps Start
\* out, always returns, and so does CancelCurrent.
OutsidersReturn ==
  \A o \in Outsiders : outsider[o] \in {"invalidate", "canceling"} ~> outsider[o] = "over"
=============================================================================
