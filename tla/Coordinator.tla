---------------------------- MODULE Coordinator ----------------------------
(***************************************************************************)
(* internal/signing/coordinator.go: the one gate every PIV operation goes  *)
(* through.  A request is one call of RunCancelableFor.  Its caller takes   *)
(* the only token of the semaphore, registers itself as the active         *)
(* request and starts a worker goroutine; the worker initializes the       *)
(* provider, asks for the touch, runs the call and gives the token back.   *)
(* The caller waits for the worker's result or for its own context, and    *)
(* may return long before the worker has finished.                         *)
(*                                                                         *)
(* One step is what runs between two points at which another goroutine can *)
(* intervene: a channel operation, a lock region, a call that may block.   *)
(***************************************************************************)
EXTENDS Naturals, Sequences, FiniteSetsExt

CONSTANTS
  Requests,     \* calls of RunCancelableFor; each request is run once
  SSHRequests,  \* those whose initializer is the backend manager
  NumSinks,     \* length of the ui.MultiSink the coordinator publishes to
  NoOne         \* no request, no result

ASSUME RequestsAssumption == IsFiniteSet(Requests) /\ NoOne \notin Requests
ASSUME NoOneAssumption ==
  NoOne \notin {"ok", "error", "deadline", "success", "failure", "timeout", "canceled"}
ASSUME SSHAssumption == SSHRequests \subseteq Requests
ASSUME SinksAssumption == NumSinks \in Nat

VARIABLES
  semaphore,   \* tokens in the channel of capacity 1
  caller,      \* where the calling goroutine of each request is
  worker,      \* where the worker goroutine of each request is
  ctx,         \* why requestCtx ended first: Err() is DeadlineExceeded after
               \* "timeout", Canceled after "canceled" or when the client "left"
  result,      \* the content of the result channel
  verdict,     \* the outcome the caller reports
  canceled,    \* cancelCall has run
  gate,        \* who holds requestEvents.mu
  terminal,    \* requestEvents.terminal
  stage,       \* how many sinks have handled the event of the gate's holder
  id,          \* the request ID beginActive handed out
  activeNext, activeID,
  activeStop,  \* whose cancel function activeStop is
  claimed,     \* the request whose cancel function Cancel took out
  log,         \* what each sink has handled, in order
  invalid      \* the backend manager must unload its provider

callerVars == <<semaphore, caller, verdict, canceled>>
activeVars == <<id, activeNext, activeID, activeStop>>
eventVars  == <<gate, terminal, stage, log>>
vars == <<callerVars, worker, ctx, result, activeVars, claimed, eventVars, invalid>>

Sinks    == 1 .. NumSinks
Progress == {"initializing", "waiting"}
Outcomes == {"success", "failure", "timeout", "canceled"}
Events   == [request : Requests, type : Progress \cup Outcomes]

TypeOK ==
  /\ semaphore \in 0 .. 1
  /\ caller \in [Requests -> {"idle", "acquire", "begin", "select", "cancelling",
                              "terminal", "publishing", "ending", "returned"}]
  /\ worker \in [Requests -> {"none", "initialize", "initializing", "ensure", "prompt",
                              "prompting", "granted", "call", "normalize", "release", "done"}]
  /\ ctx \in [Requests -> {"live", "timeout", "canceled", "left"}]
  /\ result \in [Requests -> {NoOne, "ok", "error", "deadline", "canceled"}]
  /\ verdict \in [Requests -> Outcomes \cup {NoOne}]
  /\ canceled \in [Requests -> BOOLEAN]
  /\ gate \in [Requests -> {"free", "worker", "caller"}]
  /\ terminal \in [Requests -> BOOLEAN]
  /\ stage \in [Requests -> 0 .. NumSinks]
  /\ id \in [Requests -> Nat]
  /\ activeNext \in Nat /\ activeID \in Nat
  /\ activeStop \in Requests \cup {NoOne}
  /\ claimed \in Requests \cup {NoOne}
  /\ log \in [Sinks -> Seq(Events)]
  /\ invalid \in BOOLEAN

Init ==
  /\ semaphore = 0
  /\ caller   = [r \in Requests |-> "idle"]
  /\ worker   = [r \in Requests |-> "none"]
  /\ ctx      = [r \in Requests |-> "live"]
  /\ result   = [r \in Requests |-> NoOne]
  /\ verdict  = [r \in Requests |-> NoOne]
  /\ canceled = [r \in Requests |-> FALSE]
  /\ gate     = [r \in Requests |-> "free"]
  /\ terminal = [r \in Requests |-> FALSE]
  /\ stage    = [r \in Requests |-> 0]
  /\ id       = [r \in Requests |-> 0]
  /\ activeNext = 0 /\ activeID = 0 /\ activeStop = NoOne
  /\ claimed = NoOne
  /\ log = [s \in Sinks |-> <<>>]
  /\ invalid = FALSE

-----------------------------------------------------------------------------
(* The event gate, requestEvents.                                          *)

\* The event whoever holds r's gate is publishing.
Event(r) ==
  [request |-> r,
   type |-> IF gate[r] = "caller" THEN verdict[r]
            ELSE IF worker[r] = "initializing" THEN "initializing" ELSE "waiting"]

Lock(r, who) ==
  /\ gate[r] = "free"
  /\ gate'  = [gate EXCEPT ![r] = who]
  /\ stage' = [stage EXCEPT ![r] = 0]

\* publish: the sinks one after the other.  The gate of r stays locked; other
\* requests publish in between.  (LastEvent, which only tests call, is left out.)
Publish(r) ==
  /\ gate[r] # "free" /\ stage[r] < NumSinks
  /\ stage' = [stage EXCEPT ![r] = @ + 1]
  /\ log' = [log EXCEPT ![stage[r] + 1] = Append(@, Event(r))]
  /\ UNCHANGED <<callerVars, worker, ctx, result, activeVars, claimed, gate, terminal, invalid>>

Published(r, who) ==
  /\ gate[r] = who /\ stage[r] = NumSinks
  /\ gate' = [gate EXCEPT ![r] = "free"]

-----------------------------------------------------------------------------
(* The worker goroutine.                                                   *)

Goto(r, from, to) == worker[r] = from /\ worker' = [worker EXCEPT ![r] = to]

\* context.Context.Err as an error the worker reports.
ContextErr(r) ==
  CASE ctx[r] = "live" -> "ok" [] ctx[r] = "timeout" -> "deadline" [] OTHER -> "canceled"

Report(r, from, e) ==
  /\ Goto(r, from, "release")
  /\ result' = [result EXCEPT ![r] = e]

\* Seeded bug: progress is published whatever has happened.
ProgressStepUnchecked(r, from, to) ==
  /\ Goto(r, from, to)
  /\ Lock(r, "worker")
  /\ UNCHANGED <<result, terminal, log>>

\* publishProgress: under the gate, dropped once a terminal event was
\* published or the context is done.
ProgressStep(r, from, to) ==
  \/ /\ ~terminal[r] /\ ctx[r] = "live"
     /\ Goto(r, from, to)
     /\ Lock(r, "worker")
     /\ UNCHANGED <<result, terminal, log>>
  \/ /\ terminal[r] \/ ctx[r] # "live"
     /\ gate[r] = "free"
     /\ Report(r, from, ContextErr(r))
     /\ UNCHANGED eventVars

WorkerUnchanged == UNCHANGED <<callerVars, ctx, activeVars, claimed>>

Initialize(r) ==
  /\ \/ ProgressStep(r, "initialize", "initializing")
     \/ /\ Published(r, "worker") /\ Goto(r, "initializing", "ensure")
        /\ UNCHANGED <<result, terminal, stage, log>>
  /\ WorkerUnchanged /\ UNCHANGED invalid

\* initializer.Ensure.  The errors it can return: its own, a deadline of its
\* own or of the context, the cancellation of the context.  The backend
\* manager first unloads an invalidated provider, whatever comes of it.
Ensure(r) ==
  /\ \/ /\ ctx[r] = "live"
        /\ Goto(r, "ensure", "prompt")
        /\ UNCHANGED result
     \/ \E e \in {"error", "deadline"} \cup (IF ctx[r] = "live" THEN {} ELSE {ContextErr(r)}) :
          Report(r, "ensure", e)
  /\ invalid' = (invalid /\ r \notin SSHRequests)
  /\ WorkerUnchanged /\ UNCHANGED eventVars

Prompt(r) ==
  /\ \/ ProgressStep(r, "prompt", "prompting")
     \/ /\ Published(r, "worker") /\ Goto(r, "prompting", "granted")
        /\ UNCHANGED <<result, terminal, stage, log>>
  /\ WorkerUnchanged /\ UNCHANGED invalid

\* The last look at the context before the touch-gated call.
Grant(r) ==
  /\ IF ctx[r] = "live" THEN Goto(r, "granted", "call") /\ UNCHANGED result
                        ELSE Report(r, "granted", ContextErr(r))
  /\ WorkerUnchanged /\ UNCHANGED <<eventVars, invalid>>

\* The errors call returns: whatever the backend or the helper failed with,
\* and context.Canceled of an age call whose cancelCall has run.
CallErrors(r) == {"error"} \cup (IF r \notin SSHRequests /\ canceled[r] THEN {"canceled"} ELSE {})

CallReturns(r) ==
  /\ \/ Report(r, "call", "ok")
     \/ \E e \in CallErrors(r) :
          IF r \in SSHRequests THEN Goto(r, "call", "normalize") /\ UNCHANGED result
                               ELSE Report(r, "call", e)
  /\ WorkerUnchanged /\ UNCHANGED <<eventVars, invalid>>

\* NormalizeSignFailure, which only rewords the error, then Invalidate.
FailSigning(r) ==
  /\ Report(r, "normalize", "error")
  /\ invalid' = TRUE
  /\ WorkerUnchanged /\ UNCHANGED eventVars

\* The deferred receive from the semaphore.
Release(r) ==
  /\ Goto(r, "release", "done")
  /\ semaphore' = semaphore - 1
  /\ UNCHANGED <<caller, verdict, canceled, ctx, result, activeVars, claimed, eventVars, invalid>>

\* Every worker step the code itself drives; the call ends when it ends.
Work(r) ==
  \/ Initialize(r) \/ Ensure(r) \/ Prompt(r) \/ Grant(r) \/ FailSigning(r) \/ Release(r)

-----------------------------------------------------------------------------
(* The calling goroutine.                                                  *)

At(r, from, to) == caller[r] = from /\ caller' = [caller EXCEPT ![r] = to]

CallerUnchanged == UNCHANGED <<claimed, invalid>>

Arrive(r) ==
  /\ At(r, "idle", "acquire")
  /\ UNCHANGED <<semaphore, verdict, canceled, worker, ctx, result, activeVars, eventVars>>
  /\ CallerUnchanged

\* select between the semaphore and ctx.Done: with both ready, either.
Acquire(r) ==
  /\ At(r, "acquire", "begin")
  /\ semaphore < 1
  /\ semaphore' = semaphore + 1
  /\ UNCHANGED <<verdict, canceled, worker, ctx, result, activeVars, eventVars>>
  /\ CallerUnchanged

ContextVerdict(r) == IF ctx[r] = "timeout" THEN "timeout" ELSE "canceled"

GiveUp(r) ==
  /\ At(r, "acquire", "returned")
  /\ ctx[r] # "live"
  /\ verdict' = [verdict EXCEPT ![r] = ContextVerdict(r)]
  /\ UNCHANGED <<semaphore, canceled, worker, ctx, result, activeVars, eventVars>>
  /\ CallerUnchanged

\* beginActive, and the go statement that starts the worker.
Begin(r) ==
  /\ At(r, "begin", "select")
  /\ activeNext' = activeNext + 1
  /\ activeID' = activeNext'
  /\ activeStop' = r
  /\ id' = [id EXCEPT ![r] = activeNext']
  /\ worker' = [worker EXCEPT ![r] = "initialize"]
  /\ UNCHANGED <<semaphore, verdict, canceled, ctx, result, eventVars>>
  /\ CallerUnchanged

\* The result arm of the caller's select.
TakeResult(r) ==
  /\ result[r] # NoOne
  /\ IF result[r] \in {"deadline", "canceled"} \/ ctx[r] # "live"
       THEN /\ At(r, "select", "cancelling")
            /\ verdict' = [verdict EXCEPT ![r] = IF result[r] = "deadline" THEN "timeout" ELSE NoOne]
       ELSE /\ At(r, "select", "terminal")
            /\ verdict' = [verdict EXCEPT ![r] = IF result[r] = "ok" THEN "success" ELSE "failure"]
  /\ UNCHANGED <<semaphore, canceled, worker, ctx, result, activeVars, eventVars>>
  /\ CallerUnchanged

\* Seeded bug: the caller waits for its worker.
TakeDoneLate(r) ==
  /\ ctx[r] # "live" /\ worker[r] = "done"
  /\ At(r, "select", "cancelling")
  /\ UNCHANGED <<semaphore, verdict, canceled, worker, ctx, result, activeVars, eventVars>>
  /\ CallerUnchanged

\* The context arm.
TakeDone(r) ==
  /\ ctx[r] # "live"
  /\ At(r, "select", "cancelling")
  /\ UNCHANGED <<semaphore, verdict, canceled, worker, ctx, result, activeVars, eventVars>>
  /\ CallerUnchanged

\* Seeded bug: cancelCall is not called.
CancelOperationSilently(r) ==
  /\ At(r, "cancelling", "terminal")
  /\ verdict' = [verdict EXCEPT ![r] = IF @ = NoOne THEN ContextVerdict(r) ELSE @]
  /\ UNCHANGED <<semaphore, canceled, worker, ctx, result, activeVars, eventVars>>
  /\ CallerUnchanged

\* cancelOperation, then finishContext unless the verdict is settled.
CancelOperation(r) ==
  /\ At(r, "cancelling", "terminal")
  /\ canceled' = [canceled EXCEPT ![r] = TRUE]
  /\ verdict' = [verdict EXCEPT ![r] = IF @ = NoOne THEN ContextVerdict(r) ELSE @]
  /\ UNCHANGED <<semaphore, worker, ctx, result, activeVars, eventVars>>
  /\ CallerUnchanged

\* Seeded bug: an outcome is dropped, like progress, when the context is done.
PublishTerminalIfLive(r) ==
  /\ \/ /\ ~terminal[r] /\ ctx[r] = "live"
        /\ At(r, "terminal", "publishing")
        /\ Lock(r, "caller")
        /\ terminal' = [terminal EXCEPT ![r] = TRUE]
     \/ /\ ctx[r] # "live"
        /\ At(r, "terminal", "ending")
        /\ UNCHANGED <<gate, stage, terminal>>
     \/ /\ At(r, "publishing", "ending")
        /\ Published(r, "caller")
        /\ UNCHANGED <<terminal, stage>>
  /\ UNCHANGED <<semaphore, verdict, canceled, worker, ctx, result, activeVars, log>>
  /\ CallerUnchanged

\* publishTerminal.
PublishTerminal(r) ==
  \/ /\ ~terminal[r]
     /\ At(r, "terminal", "publishing")
     /\ Lock(r, "caller")
     /\ terminal' = [terminal EXCEPT ![r] = TRUE]
     /\ UNCHANGED <<semaphore, verdict, canceled, worker, ctx, result, activeVars, log>>
     /\ CallerUnchanged
  \/ /\ At(r, "publishing", "ending")
     /\ Published(r, "caller")
     /\ UNCHANGED <<semaphore, verdict, canceled, worker, ctx, result, activeVars, terminal, stage, log>>
     /\ CallerUnchanged

\* Seeded bug: the caller, not the worker, gives the token back.
EndAndRelease(r) ==
  /\ At(r, "ending", "returned")
  /\ semaphore' = 0
  /\ ctx' = [ctx EXCEPT ![r] = IF @ = "live" THEN "canceled" ELSE @]
  /\ IF activeID = id[r] THEN activeID' = 0 /\ activeStop' = NoOne
                         ELSE UNCHANGED <<activeID, activeStop>>
  /\ UNCHANGED <<verdict, canceled, worker, result, id, activeNext, eventVars>>
  /\ CallerUnchanged

\* The deferred cancelRequest and endActive; then the call returns.
End(r) ==
  /\ At(r, "ending", "returned")
  /\ ctx' = [ctx EXCEPT ![r] = IF @ = "live" THEN "canceled" ELSE @]
  /\ IF activeID = id[r] THEN activeID' = 0 /\ activeStop' = NoOne
                         ELSE UNCHANGED <<activeID, activeStop>>
  /\ UNCHANGED <<semaphore, verdict, canceled, worker, result, id, activeNext, eventVars>>
  /\ CallerUnchanged

Proceed(r) ==
  \/ Acquire(r) \/ GiveUp(r) \/ Begin(r) \/ TakeResult(r) \/ TakeDone(r)
  \/ CancelOperation(r) \/ PublishTerminal(r) \/ End(r)

-----------------------------------------------------------------------------
(* What ends a request from outside.                                       *)

Running(r) == caller[r] \notin {"idle", "returned"}

Finish(r, why) ==
  /\ ctx[r] = "live"
  /\ ctx' = [ctx EXCEPT ![r] = why]
  /\ UNCHANGED <<callerVars, worker, result, activeVars, eventVars, invalid>>

\* sign_timeout runs out: it counts from the call, the wait included.
Deadline(r) == Running(r) /\ Finish(r, "timeout") /\ UNCHANGED claimed

\* The client disconnects, or its service is stopped.
ClientCancel(r) == Running(r) /\ Finish(r, "left") /\ UNCHANGED claimed

\* Seeded bug: whoever is active is canceled.
CancelAny(i) ==
  /\ claimed = NoOne
  /\ activeID # 0
  /\ claimed' = activeStop
  /\ activeID' = 0 /\ activeStop' = NoOne
  /\ UNCHANGED <<callerVars, worker, ctx, result, id, activeNext, eventVars, invalid>>

\* Cancel(i) under activeMu, from the thread that watches the cancel button or
\* from CancelCurrent with the ID it has read: only the active request with
\* that very ID is taken.
Cancel(i) ==
  /\ claimed = NoOne
  /\ activeID = i
  /\ claimed' = activeStop
  /\ activeID' = 0 /\ activeStop' = NoOne
  /\ UNCHANGED <<callerVars, worker, ctx, result, id, activeNext, eventVars, invalid>>

\* ... and outside it, its cancel function is called.
FireCancel ==
  /\ claimed # NoOne
  /\ claimed' = NoOne
  /\ ctx' = [ctx EXCEPT ![claimed] = IF @ = "live" THEN "canceled" ELSE @]
  /\ UNCHANGED <<callerVars, worker, result, activeVars, eventVars, invalid>>

\* All requests are over: the model stops here, the daemon does not.
AllOver ==
  /\ claimed = NoOne
  /\ \A r \in Requests : caller[r] = "returned" /\ worker[r] \in {"none", "done"}
  /\ UNCHANGED vars

RequestStep(r) ==
  \/ Arrive(r) \/ Proceed(r) \/ Work(r) \/ CallReturns(r) \/ Publish(r)
  \/ Deadline(r) \/ ClientCancel(r)

Next ==
  \/ \E r \in Requests : RequestStep(r)
  \/ \E i \in 1 .. Cardinality(Requests) : Cancel(i)
  \/ FireCancel
  \/ AllOver

\* The Go scheduler never leaves a request alone whose goroutines can run, and
\* its timeout is always armed (config rejects sign_timeout <= 0).  Nobody has
\* to cancel, and a call need not return.
Fairness == \A r \in Requests : WF_vars(Proceed(r) \/ Work(r) \/ Publish(r) \/ Deadline(r))

Spec == Init /\ [][Next]_vars
FairSpec == Spec /\ Fairness

-----------------------------------------------------------------------------
(* Properties.                                                             *)

\* The token belongs to r: taken by its caller, given back by its worker.
Holds(r) == caller[r] = "begin" \/ worker[r] \notin {"none", "done"}

\* At most one request is anywhere between taking the token and the end of
\* its worker, whatever has become of its caller in the meantime: "the
\* semaphore remains held until call returns, even if the caller times out".
OneOperation == \A r, q \in Requests : Holds(r) /\ Holds(q) => r = q

\* Once a terminal event has won the gate no worker of that request is
\* publishing: a delayed "waiting for touch" cannot follow the cancellation.
NoLateProgress == \A r \in Requests : terminal[r] => gate[r] # "worker"

\* Where the events of r are in the log of a sink.
Told(s, r) == {i \in 1 .. Len(log[s]) : log[s][i].request = r}

\* By the time the call returns every sink has been told exactly the outcome
\* the caller gets, and a request that never got the token is not heard of.
OutcomeIsPublished ==
  \A r \in Requests : caller[r] = "returned" =>
    \A s \in Sinks :
      IF id[r] = 0 THEN Told(s, r) = {}
      ELSE Told(s, r) # {} /\ log[s][Max(Told(s, r))].type = verdict[r]

\* A PIV call that outlives its request has been told to stop: its caller
\* closed the backend connection or invalidated the helper first.
NoOrphanedCall ==
  \A r \in Requests :
    worker[r] = "call" /\ caller[r] \in {"publishing", "ending", "returned"} => canceled[r]

\* No SSH signature is asked for, and no touch prompted, before the backend
\* manager has seen to the provider that an earlier, failed signature
\* invalidated (it ignores a failure of the unloading itself).
FreshProvider ==
  \A r \in SSHRequests : worker[r] \in {"prompt", "prompting", "granted", "call"} => ~invalid

\* The cancel function Cancel takes out is the one of the request it was
\* asked to cancel: a stale ID never ends the next request.
CancelHitsItsTarget ==
  [][\A i \in 1 .. Cardinality(Requests), r \in Requests :
       Cancel(i) /\ claimed' = r => id[r] = i]_vars

\* The promise of internal/signing, and how its state is read off this one.
\* A request is admitted when it takes the token, its operation is over when
\* the worker reports, and it is told the outcome when its call returns.
Admitted(r) == caller[r] = "begin" \/ id[r] # 0
AnyOf(S) == IF S = {} THEN NoOne ELSE CHOOSE r \in S : TRUE
Holders == {r \in Requests : Holds(r)}
GateHolder == AnyOf(Holders)
GateOp ==
  [r \in Requests |->
    IF ~Admitted(r) THEN "waiting"
    ELSE IF result[r] = NoOne THEN "running" ELSE IF result[r] = "ok" THEN "ok" ELSE "failed"]
GateTold == [r \in Requests |-> IF caller[r] = "returned" THEN verdict[r] ELSE NoOne]

Gate == INSTANCE TouchGate WITH holder <- GateHolder, op <- GateOp, told <- GateTold

\* The coordinator keeps the promise, step by step.
KeepsThePromise == Gate!GateSpec

\* What the first sink is told, as the abstract stream of TouchEvents.
StreamPhase ==
  [r \in Requests |->
    IF Told(1, r) = {} THEN "quiet"
    ELSE LET type == log[1][Max(Told(1, r))].type IN IF type \in Outcomes THEN "over" ELSE type]
StreamHolder ==
  AnyOf({r \in Requests : Holds(r) /\ \E i \in Told(1, r) : log[1][i].type = "initializing"})

Stream ==
  INSTANCE TouchEvents WITH holder <- StreamHolder, phase <- StreamPhase, stream <- log[1]

\* Whatever the goroutines do, a sink sees a stream TouchEvents allows: in
\* particular no progress of one request while another occupies the device.
SinkSeesTheStream == Stream!EventsSpec

\* Every request returns: even if the device never answers, its worker hangs in
\* the call, and those of the requests before it do too.
EveryRequestReturns == \A r \in Requests : caller[r] = "acquire" ~> caller[r] = "returned"

\* The token comes back if a call returns once cancelCall has closed its backend
\* connection or killed its helper: a request that gives up stops its call, so
\* that the worker ends and the next request can begin.
TokenComesBack ==
  (\A r \in Requests : []<>~(worker[r] = "call" /\ canceled[r]))
  => \A r \in Requests : Holds(r) ~> ~Holds(r)
=============================================================================
