------------------------ MODULE CoordinatorProofs ------------------------
(***************************************************************************)
(* Theorems about Coordinator, for any number of requests and sinks, and   *)
(* about the state file as its first sink.                                 *)
(***************************************************************************)
EXTENDS SigningStatus, TLAPS

\* How far a request's own goroutines have come, read off its caller, its
\* worker, its gate and its results.
Started(r) == caller[r] \notin {"idle", "acquire", "begin"}

LinkedRequest(r) ==
  /\ ~Started(r) => worker[r] = "none" /\ id[r] = 0 /\ verdict[r] = NoOne
  /\ Started(r) /\ id[r] = 0 => caller[r] = "returned"
  /\ id[r] = 0 <=> worker[r] = "none"
  /\ gate[r] = "worker" <=> worker[r] \in {"initializing", "prompting"}
  /\ gate[r] = "caller" <=> caller[r] = "publishing"
  /\ caller[r] \in {"publishing", "ending"} => terminal[r]
  /\ terminal[r] => caller[r] \in {"publishing", "ending", "returned"}
  /\ caller[r] \in {"terminal", "publishing", "ending", "returned"} => verdict[r] # NoOne
  /\ result[r] # NoOne <=> worker[r] \in {"release", "done"}

Linked == \A r \in Requests : LinkedRequest(r)

\* Nobody holds a free token, and nobody else holds a taken one.
TokenInv ==
  /\ \A r \in Requests : Holds(r) => semaphore = 1
  /\ OneOperation

\* A caller that has left its select with no result in hand has canceled.
StopInv ==
  \A r \in Requests :
    caller[r] \in {"terminal", "publishing", "ending", "returned"} =>
      canceled[r] \/ result[r] # NoOne \/ worker[r] = "none"

\* What the caller reports, against what the worker left in the channel.
VerdictInv ==
  \A r \in Requests :
    /\ verdict[r] = "success" => result[r] = "ok"
    /\ verdict[r] = "failure" => result[r] = "error"

\* The registered cancel function belongs to the registered ID.
ActiveInv == activeStop # NoOne => id[activeStop] = activeID

IInv ==
  TypeOK /\ Linked /\ TokenInv /\ NoLateProgress /\ StopInv /\ VerdictInv /\ ActiveInv
  /\ FreshProvider

-----------------------------------------------------------------------------
(* Each part of the inductive invariant, preserved by every step.          *)

\* What the steps of a worker that still holds the token have in common.
WorkerStep(r) ==
  /\ worker[r] \notin {"none", "release", "done"}
  /\ \E w \in {"initializing", "ensure", "prompt", "prompting", "granted", "call",
               "normalize", "release"} :
       /\ worker' = [worker EXCEPT ![r] = w]
       /\ w # "release" => result' = result
       /\ w = "release" =>
            \E e \in {"ok", "error", "deadline", "canceled"} :
              result' = [result EXCEPT ![r] = e]
       /\ r \in SSHRequests /\ w = "prompt" => ~invalid'
       /\ w \in {"prompting", "granted", "call"} =>
            worker[r] \in {"prompt", "prompting", "granted"}
       /\ w = "initializing" => worker[r] = "initialize"
       /\ \/ /\ w \in {"initializing", "prompting"} /\ ~terminal[r]
             /\ gate[r] = "free" /\ gate' = [gate EXCEPT ![r] = "worker"]
          \/ /\ w \in {"ensure", "granted"}
             /\ gate[r] = "worker" /\ gate' = [gate EXCEPT ![r] = "free"]
          \/ /\ w \notin {"initializing", "prompting", "ensure", "granted"}
             /\ worker[r] \notin {"initializing", "prompting"}
             /\ gate' = gate
  /\ stage' = stage \/ stage' = [stage EXCEPT ![r] = 0]
  /\ invalid' \in BOOLEAN
  /\ invalid' => invalid \/ worker[r] = "normalize"
  /\ UNCHANGED <<callerVars, ctx, activeVars, claimed, terminal, log>>

LEMMA WorkerSteps ==
  ASSUME TypeOK, NEW r \in Requests,
         \/ Initialize(r) \/ Ensure(r) \/ Prompt(r) \/ Grant(r)
         \/ CallReturns(r) \/ FailSigning(r)
  PROVE  WorkerStep(r)
<1> USE DEF WorkerStep, Goto, Report, WorkerUnchanged, ContextErr, TypeOK, eventVars
<1>1. CASE Initialize(r)
  BY <1>1 DEF Initialize, ProgressStep, Lock, Published
<1>2. CASE Ensure(r)
  BY <1>2 DEF Ensure
<1>3. CASE Prompt(r)
  BY <1>3 DEF Prompt, ProgressStep, Lock, Published
<1>4. CASE Grant(r)
  BY <1>4 DEF Grant
<1>5. CASE CallReturns(r)
  BY <1>5 DEF CallReturns, CallErrors
<1>6. CASE FailSigning(r)
  BY <1>6 DEF FailSigning
<1> QED
  BY <1>1, <1>2, <1>3, <1>4, <1>5, <1>6

\* Whoever holds a gate has an event to publish.
LEMMA EventIsTyped ==
  ASSUME TypeOK, Linked, NEW r \in Requests, gate[r] # "free"
  PROVE  Event(r) \in Events
BY NoOneAssumption DEF TypeOK, Linked, LinkedRequest, Event, Events, Progress

\* The token count stays in range because only its holder gives it back, and
\* the events are typed because a caller publishes a settled verdict.
LEMMA TypePreserved ==
  ASSUME TypeOK, Linked, TokenInv, [Next]_vars
  PROVE  TypeOK'
<1> USE DEF TypeOK, callerVars, activeVars, eventVars
<1>1. ASSUME NEW r \in Requests, Proceed(r) \/ Arrive(r)
      PROVE  TypeOK'
  <2> USE DEF At, CallerUnchanged, ContextVerdict, Outcomes
  <2>1. CASE Arrive(r) \/ TakeDone(r)
    <3>1. CASE Arrive(r)
      BY <3>1 DEF Arrive
    <3>2. CASE TakeDone(r)
      BY <3>2 DEF TakeDone
    <3> QED
      BY <2>1, <3>1, <3>2
  <2>7. CASE Acquire(r)
    BY <2>7 DEF Acquire
  <2>2. CASE GiveUp(r) \/ TakeResult(r)
    <3>1. verdict' \in [Requests -> Outcomes \cup {NoOne}]
      BY <2>2 DEF GiveUp, TakeResult
    <3>2. \E c \in {"returned", "cancelling", "terminal"} : caller' = [caller EXCEPT ![r] = c]
      BY <2>2 DEF GiveUp, TakeResult
    <3> QED
      BY <2>2, <3>1, <3>2 DEF GiveUp, TakeResult
  <2>3. CASE Begin(r)
    BY <2>3 DEF Begin
  <2>4. CASE CancelOperation(r)
    <3>1. \E v \in Outcomes \cup {NoOne} : verdict' = [verdict EXCEPT ![r] = v]
      BY <2>4 DEF CancelOperation
    <3> QED
      BY <2>4, <3>1 DEF CancelOperation
  <2>5. CASE PublishTerminal(r)
    <3>1. \E c \in {"publishing", "ending"}, g \in {"free", "caller"} :
            caller' = [caller EXCEPT ![r] = c] /\ gate' = [gate EXCEPT ![r] = g]
      BY <2>5 DEF PublishTerminal, Lock, Published
    <3>2. UNCHANGED <<semaphore, verdict, canceled, worker, ctx, result, activeVars, log, claimed, invalid>>
      BY <2>5 DEF PublishTerminal
    <3>3. stage' \in [Requests -> 0 .. NumSinks]
      <4>1. stage' = stage \/ stage' = [stage EXCEPT ![r] = 0]
        BY <2>5 DEF PublishTerminal, Lock
      <4>2. 0 \in 0 .. NumSinks
        BY SinksAssumption
      <4> QED
        BY <4>1, <4>2
    <3>4. terminal' \in [Requests -> BOOLEAN]
      BY <2>5 DEF PublishTerminal
    <3>5. gate' \in [Requests -> {"free", "worker", "caller"}]
      BY <3>1
    <3>6. caller' \in [Requests -> {"idle", "acquire", "begin", "select", "cancelling", "terminal",
                                   "publishing", "ending", "returned"}]
      BY <3>1
    <3> QED
      BY <3>2, <3>3, <3>4, <3>5, <3>6
  <2>6. CASE End(r)
    BY <2>6 DEF End
  <2> QED
    BY <1>1, <2>1, <2>2, <2>3, <2>4, <2>5, <2>6, <2>7 DEF Proceed
<1>3. ASSUME NEW r \in Requests, WorkerStep(r)
      PROVE  TypeOK'
  <2>1. worker' \in [Requests -> {"none", "initialize", "initializing", "ensure", "prompt",
                     "prompting", "granted", "call", "normalize", "release", "done"}]
    BY <1>3 DEF WorkerStep
  <2>2. result' \in [Requests -> {NoOne, "ok", "error", "deadline", "canceled"}]
    <3>1. \/ result' = result
          \/ \E e \in {"ok", "error", "deadline", "canceled"} : result' = [result EXCEPT ![r] = e]
      BY <1>3 DEF WorkerStep
    <3> QED
      BY <3>1
  <2>3. gate' \in [Requests -> {"free", "worker", "caller"}]
    <3>1. gate' = gate \/ \E g \in {"free", "worker"} : gate' = [gate EXCEPT ![r] = g]
      BY <1>3 DEF WorkerStep
    <3> QED
      BY <3>1
  <2>4. stage' \in [Requests -> 0 .. NumSinks]
    <3>1. stage' = stage \/ stage' = [stage EXCEPT ![r] = 0]
      BY <1>3 DEF WorkerStep
    <3>2. 0 \in 0 .. NumSinks
      BY SinksAssumption
    <3> QED
      BY <3>1, <3>2
  <2> QED
    BY <1>3, <2>1, <2>2, <2>3, <2>4 DEF WorkerStep
<1>4. ASSUME NEW r \in Requests, Release(r)
      PROVE  TypeOK'
  <2>1. semaphore = 1
    BY <1>4 DEF Release, Goto, TokenInv, Holds
  <2> QED
    BY <1>4, <2>1 DEF Release, Goto
<1>5. ASSUME NEW r \in Requests, Publish(r)
      PROVE  TypeOK'
  <2>1. Event(r) \in Events
    BY <1>5, EventIsTyped DEF Publish
  <2>2. stage[r] + 1 \in Sinks
    BY <1>5, SinksAssumption DEF Publish, Sinks
  <2>3. log' \in [Sinks -> Seq(Events)]
    <3>1. Append(log[stage[r] + 1], Event(r)) \in Seq(Events)
      BY <2>1, <2>2
    <3> QED
      BY <1>5, <3>1 DEF Publish
  <2>4. stage' \in [Requests -> 0 .. NumSinks]
    BY <1>5, SinksAssumption DEF Publish
  <2> QED
    BY <1>5, <2>3, <2>4 DEF Publish
<1>6. ASSUME NEW r \in Requests, Deadline(r) \/ ClientCancel(r)
      PROVE  TypeOK'
  <2>1. \E why \in {"timeout", "left"} :
          /\ ctx' = [ctx EXCEPT ![r] = why] /\ UNCHANGED claimed
          /\ UNCHANGED <<callerVars, worker, result, activeVars, eventVars, invalid>>
    BY <1>6 DEF Deadline, ClientCancel, Finish
  <2>2. ctx' \in [Requests -> {"live", "timeout", "canceled", "left"}]
    BY <2>1
  <2> QED
    BY <2>1, <2>2
<1>7. ASSUME NEW i \in 1 .. Cardinality(Requests), Cancel(i)
      PROVE  TypeOK'
  BY <1>7 DEF Cancel
<1>8. CASE FireCancel \/ UNCHANGED vars
  <2>1. CASE FireCancel
    BY <2>1 DEF FireCancel
  <2>2. CASE UNCHANGED vars
    BY <2>2 DEF vars
  <2> QED
    BY <1>8, <2>1, <2>2
<1> QED
  BY <1>1, <1>3, <1>4, <1>5, <1>6, <1>7, <1>8, WorkerSteps
     DEF Next, RequestStep, Work, AllOver

\* Caller, worker, gate and result of one request stay in step.
LEMMA LinkedPreserved ==
  ASSUME TypeOK, Linked, [Next]_vars
  PROVE  Linked'
<1> USE RequestsAssumption, NoOneAssumption, SSHAssumption, SinksAssumption
        DEF TypeOK, Events, Outcomes, Progress, Sinks, Linked, LinkedRequest, Started,
            callerVars, activeVars, eventVars
<1>1. ASSUME NEW r \in Requests, Arrive(r) \/ Proceed(r)
      PROVE  Linked'
  BY <1>1 DEF Arrive, Proceed, Acquire, GiveUp, Begin, TakeResult, TakeDone,
              CancelOperation, PublishTerminal, End, At, CallerUnchanged,
              ContextVerdict, Lock, Published
<1>2. ASSUME NEW r \in Requests, WorkerStep(r) \/ Release(r)
      PROVE  Linked'
  <2>1. CASE WorkerStep(r)
    <3>1. UNCHANGED <<caller, id, verdict, terminal>>
      BY <2>1 DEF WorkerStep
    <3>2. ASSUME NEW q \in Requests, q # r
          PROVE  LinkedRequest(q)'
      <4>1. worker'[q] = worker[q] /\ gate'[q] = gate[q] /\ result'[q] = result[q]
        BY <2>1, <3>2 DEF WorkerStep
      <4> QED
        BY <3>1, <4>1
    <3>3. LinkedRequest(r)'
      BY <2>1, <3>1 DEF WorkerStep
    <3> QED
      BY <3>2, <3>3
  <2>2. CASE Release(r)
    BY <2>2 DEF Release, Goto
  <2> QED
    BY <1>2, <2>1, <2>2
<1>3. ASSUME NEW r \in Requests, Publish(r) \/ Deadline(r) \/ ClientCancel(r)
      PROVE  Linked'
  BY <1>3 DEF Publish, Deadline, ClientCancel, Event, Running, Finish
<1>4. ASSUME NEW i \in 1 .. Cardinality(Requests), Cancel(i)
      PROVE  Linked'
  BY <1>4 DEF Cancel
<1>5. CASE FireCancel \/ UNCHANGED vars
  BY <1>5 DEF FireCancel, vars
<1> QED
  BY <1>1, <1>2, <1>3, <1>4, <1>5, WorkerSteps DEF Next, RequestStep, Work, AllOver

\* Acquire finds nobody holding the token, Release leaves nobody behind.
LEMMA TokenPreserved ==
  ASSUME TypeOK, Linked, TokenInv, [Next]_vars
  PROVE  TokenInv'
<1> USE DEF TypeOK, TokenInv, OneOperation, Holds, callerVars, activeVars, eventVars
<1>1. ASSUME NEW r \in Requests, Acquire(r)
      PROVE  TokenInv'
  <2>1. semaphore = 0 /\ semaphore' = 1 /\ \A q \in Requests : ~Holds(q)
    BY <1>1 DEF Acquire
  <2>2. \A q \in Requests : Holds(q)' => q = r
    BY <1>1, <2>1 DEF Acquire, At
  <2> QED
    BY <2>1, <2>2
<1>2. ASSUME NEW r \in Requests, Release(r)
      PROVE  TokenInv'
  <2>1. caller[r] # "begin"
    BY <1>2 DEF Release, Goto, Linked, LinkedRequest, Started
  <2>2. \A q \in Requests : ~Holds(q)'
    BY <1>2, <2>1 DEF Release, Goto
  <2> QED
    BY <2>2
<1>3. ASSUME NEW r \in Requests,
             \/ Arrive(r) \/ GiveUp(r) \/ Begin(r) \/ TakeResult(r) \/ TakeDone(r)
             \/ CancelOperation(r) \/ PublishTerminal(r) \/ End(r)
      PROVE  TokenInv'
  <2>1. semaphore' = semaphore
    BY <1>3 DEF Arrive, GiveUp, Begin, TakeResult, TakeDone, CancelOperation,
                PublishTerminal, End
  <2>2. \A q \in Requests : Holds(q)' => Holds(q)
    BY <1>3 DEF Arrive, GiveUp, Begin, TakeResult, TakeDone, CancelOperation,
                PublishTerminal, End, At
  <2> QED
    BY <2>1, <2>2
<1>4. ASSUME NEW r \in Requests, WorkerStep(r)
      PROVE  TokenInv'
  <2>1. \A q \in Requests : Holds(q)' => Holds(q)
    BY <1>4 DEF WorkerStep
  <2> QED
    BY <1>4, <2>1 DEF WorkerStep
<1>5. ASSUME NEW r \in Requests, Publish(r) \/ Deadline(r) \/ ClientCancel(r)
      PROVE  TokenInv'
  BY <1>5 DEF Publish, Deadline, ClientCancel, Finish
<1>6. ASSUME NEW i \in 1 .. Cardinality(Requests), Cancel(i)
      PROVE  TokenInv'
  BY <1>6 DEF Cancel
<1>7. CASE FireCancel \/ UNCHANGED vars
  BY <1>7 DEF FireCancel, vars
<1> QED
  BY <1>1, <1>2, <1>3, <1>4, <1>5, <1>6, <1>7, WorkerSteps
     DEF Next, RequestStep, Proceed, Work, AllOver

\* A worker only takes the gate while no outcome has been published.
LEMMA GatePreserved ==
  ASSUME TypeOK, Linked, NoLateProgress, [Next]_vars
  PROVE  NoLateProgress'
<1> USE RequestsAssumption, NoOneAssumption, SSHAssumption, SinksAssumption
        DEF TypeOK, Events, Outcomes, Progress, Sinks, callerVars, activeVars,
            eventVars, Linked, LinkedRequest, Started, NoLateProgress
<1>1. ASSUME NEW r \in Requests, Arrive(r) \/ Proceed(r)
      PROVE  NoLateProgress'
  BY <1>1 DEF Arrive, Proceed, Acquire, GiveUp, Begin, TakeResult, TakeDone,
              CancelOperation, PublishTerminal, End, At, CallerUnchanged,
              ContextVerdict, Lock, Published
<1>2. ASSUME NEW r \in Requests, WorkerStep(r) \/ Release(r)
      PROVE  NoLateProgress'
  BY <1>2 DEF WorkerStep, Release, Goto
<1>3. ASSUME NEW r \in Requests, Publish(r) \/ Deadline(r) \/ ClientCancel(r)
      PROVE  NoLateProgress'
  BY <1>3 DEF Publish, Deadline, ClientCancel, Event, Running, Finish
<1>4. ASSUME NEW i \in 1 .. Cardinality(Requests), Cancel(i)
      PROVE  NoLateProgress'
  BY <1>4 DEF Cancel
<1>5. CASE FireCancel \/ UNCHANGED vars
  BY <1>5 DEF FireCancel, vars
<1> QED
  BY <1>1, <1>2, <1>3, <1>4, <1>5, WorkerSteps DEF Next, RequestStep, Work, AllOver

\* A caller reaches its outcome with a result or by way of cancelOperation.
LEMMA StopPreserved ==
  ASSUME TypeOK, Linked, StopInv, [Next]_vars
  PROVE  StopInv'
<1> USE RequestsAssumption, NoOneAssumption, SSHAssumption, SinksAssumption
        DEF TypeOK, Events, Outcomes, Progress, Sinks, callerVars, activeVars,
            eventVars, Linked, LinkedRequest, Started, StopInv
<1>1. ASSUME NEW r \in Requests, Arrive(r) \/ Proceed(r)
      PROVE  StopInv'
  BY <1>1 DEF Arrive, Proceed, Acquire, GiveUp, Begin, TakeResult, TakeDone,
              CancelOperation, PublishTerminal, End, At, CallerUnchanged,
              ContextVerdict, Lock, Published
<1>2. ASSUME NEW r \in Requests, WorkerStep(r) \/ Release(r)
      PROVE  StopInv'
  BY <1>2 DEF WorkerStep, Release, Goto
<1>3. ASSUME NEW r \in Requests, Publish(r) \/ Deadline(r) \/ ClientCancel(r)
      PROVE  StopInv'
  BY <1>3 DEF Publish, Deadline, ClientCancel, Event, Running, Finish
<1>4. ASSUME NEW i \in 1 .. Cardinality(Requests), Cancel(i)
      PROVE  StopInv'
  BY <1>4 DEF Cancel
<1>5. CASE FireCancel \/ UNCHANGED vars
  BY <1>5 DEF FireCancel, vars
<1> QED
  BY <1>1, <1>2, <1>3, <1>4, <1>5, WorkerSteps DEF Next, RequestStep, Work, AllOver

\* A result, once in the channel, stays; only TakeResult reads success off it.
LEMMA VerdictPreserved ==
  ASSUME TypeOK, Linked, VerdictInv, [Next]_vars
  PROVE  VerdictInv'
<1> USE RequestsAssumption, NoOneAssumption, SSHAssumption, SinksAssumption
        DEF TypeOK, Events, Outcomes, Progress, Sinks, callerVars, activeVars,
            eventVars, Linked, LinkedRequest, Started, VerdictInv
<1>1. ASSUME NEW r \in Requests, Arrive(r) \/ Proceed(r)
      PROVE  VerdictInv'
  BY <1>1 DEF Arrive, Proceed, Acquire, GiveUp, Begin, TakeResult, TakeDone,
              CancelOperation, PublishTerminal, End, At, CallerUnchanged,
              ContextVerdict, Lock, Published
<1>2. ASSUME NEW r \in Requests, WorkerStep(r) \/ Release(r)
      PROVE  VerdictInv'
  BY <1>2 DEF WorkerStep, Release, Goto
<1>3. ASSUME NEW r \in Requests, Publish(r) \/ Deadline(r) \/ ClientCancel(r)
      PROVE  VerdictInv'
  BY <1>3 DEF Publish, Deadline, ClientCancel, Event, Running, Finish
<1>4. ASSUME NEW i \in 1 .. Cardinality(Requests), Cancel(i)
      PROVE  VerdictInv'
  BY <1>4 DEF Cancel
<1>5. CASE FireCancel \/ UNCHANGED vars
  BY <1>5 DEF FireCancel, vars
<1> QED
  BY <1>1, <1>2, <1>3, <1>4, <1>5, WorkerSteps DEF Next, RequestStep, Work, AllOver

\* beginActive, endActive and Cancel replace ID and cancel function together.
LEMMA ActivePreserved ==
  ASSUME TypeOK, Linked, ActiveInv, [Next]_vars
  PROVE  ActiveInv'
<1> USE RequestsAssumption, NoOneAssumption, SSHAssumption, SinksAssumption
        DEF TypeOK, Events, Outcomes, Progress, Sinks, callerVars, activeVars,
            eventVars, Linked, LinkedRequest, Started, ActiveInv
<1>1. ASSUME NEW r \in Requests, Arrive(r) \/ Proceed(r)
      PROVE  ActiveInv'
  BY <1>1 DEF Arrive, Proceed, Acquire, GiveUp, Begin, TakeResult, TakeDone,
              CancelOperation, PublishTerminal, End, At, CallerUnchanged,
              ContextVerdict, Lock, Published
<1>2. ASSUME NEW r \in Requests, WorkerStep(r) \/ Release(r)
      PROVE  ActiveInv'
  BY <1>2 DEF WorkerStep, Release, Goto
<1>3. ASSUME NEW r \in Requests, Publish(r) \/ Deadline(r) \/ ClientCancel(r)
      PROVE  ActiveInv'
  BY <1>3 DEF Publish, Deadline, ClientCancel, Event, Running, Finish
<1>4. ASSUME NEW i \in 1 .. Cardinality(Requests), Cancel(i)
      PROVE  ActiveInv'
  BY <1>4 DEF Cancel
<1>5. CASE FireCancel \/ UNCHANGED vars
  BY <1>5 DEF FireCancel, vars
<1> QED
  BY <1>1, <1>2, <1>3, <1>4, <1>5, WorkerSteps DEF Next, RequestStep, Work, AllOver

\* Only the holder of the token can invalidate, and every SSH request comes
\* through Ensure, which reloads, before it asks for its touch.
LEMMA FreshPreserved ==
  ASSUME TypeOK, Linked, TokenInv, FreshProvider, [Next]_vars
  PROVE  FreshProvider'
<1> USE DEF TypeOK, FreshProvider, callerVars, activeVars, eventVars
<1>1. ASSUME NEW r \in Requests, Begin(r)
      PROVE  FreshProvider'
  BY <1>1 DEF Begin, CallerUnchanged
<1>2. ASSUME NEW r \in Requests,
             \/ Arrive(r) \/ Acquire(r) \/ GiveUp(r) \/ TakeResult(r) \/ TakeDone(r)
             \/ CancelOperation(r) \/ PublishTerminal(r) \/ End(r)
      PROVE  FreshProvider'
  BY <1>2 DEF Arrive, Acquire, GiveUp, TakeResult, TakeDone, CancelOperation,
              PublishTerminal, End, CallerUnchanged
<1>3. ASSUME NEW r \in Requests, WorkerStep(r), NEW q \in SSHRequests,
             worker'[q] \in {"prompt", "prompting", "granted", "call"}
      PROVE  ~invalid'
  <2>1. CASE q = r
    <3>1. worker'[r] = "prompt" => ~invalid'
      BY <1>3, <2>1, SSHAssumption DEF WorkerStep
    <3>2. worker'[r] # "prompt" => worker[r] \in {"prompt", "prompting", "granted"}
      BY <1>3, <2>1, SSHAssumption DEF WorkerStep
    <3> QED
      BY <1>3, <2>1, <3>1, <3>2, SSHAssumption DEF WorkerStep
  <2>2. CASE q # r
    <3>1. worker[q] = worker'[q] /\ Holds(q) /\ Holds(r)
      BY <1>3, <2>2, SSHAssumption DEF WorkerStep, Holds
    <3> QED
      BY <2>2, <3>1, SSHAssumption DEF TokenInv, OneOperation
  <2> QED
    BY <2>1, <2>2
<1>4. ASSUME NEW r \in Requests, Release(r)
      PROVE  FreshProvider'
  BY <1>4, SSHAssumption DEF Release, Goto
<1>5. ASSUME NEW r \in Requests, Publish(r) \/ Deadline(r) \/ ClientCancel(r)
      PROVE  FreshProvider'
  BY <1>5 DEF Publish, Deadline, ClientCancel, Finish
<1>6. ASSUME NEW i \in 1 .. Cardinality(Requests), Cancel(i)
      PROVE  FreshProvider'
  BY <1>6 DEF Cancel
<1>7. CASE FireCancel \/ UNCHANGED vars
  BY <1>7 DEF FireCancel, vars
<1>8. ASSUME NEW r \in Requests, WorkerStep(r)
      PROVE  FreshProvider'
  BY <1>3, <1>8
<1> QED
  BY <1>1, <1>2, <1>4, <1>5, <1>6, <1>7, <1>8, WorkerSteps
     DEF Next, RequestStep, Proceed, Work, AllOver

-----------------------------------------------------------------------------
(* The inductive invariant, and what follows from it.                      *)

LEMMA InitEstablishesIInv == Init => IInv
<1> SUFFICES ASSUME Init
             PROVE  IInv
  OBVIOUS
<1> USE NoOneAssumption, SSHAssumption, SinksAssumption DEF Init
<1>1. TypeOK
  <2>1. log \in [Sinks -> Seq(Events)]
    OBVIOUS
  <2>2. stage \in [Requests -> 0 .. NumSinks]
    OBVIOUS
  <2>3. semaphore \in 0 .. 1 /\ activeNext \in Nat /\ activeID \in Nat /\ id \in [Requests -> Nat]
    OBVIOUS
  <2> HIDE DEF Init
  <2>4. /\ canceled = [r \in Requests |-> FALSE] /\ terminal = [r \in Requests |-> FALSE]
        /\ invalid = FALSE /\ activeStop = NoOne /\ claimed = NoOne
    BY DEF Init
  <2>5. /\ caller = [r \in Requests |-> "idle"] /\ worker = [r \in Requests |-> "none"]
        /\ ctx = [r \in Requests |-> "live"] /\ gate = [r \in Requests |-> "free"]
        /\ result = [r \in Requests |-> NoOne] /\ verdict = [r \in Requests |-> NoOne]
    BY DEF Init
  <2> QED
    BY <2>1, <2>2, <2>3, <2>4, <2>5 DEF TypeOK
<1>2. Linked /\ TokenInv
  BY DEF Linked, LinkedRequest, Started, TokenInv, OneOperation, Holds
<1>3. NoLateProgress /\ StopInv /\ VerdictInv /\ ActiveInv /\ FreshProvider
  BY DEF NoLateProgress, StopInv, VerdictInv, ActiveInv, FreshProvider
<1> QED
  BY <1>1, <1>2, <1>3 DEF IInv

LEMMA StepPreservesIInv == IInv /\ [Next]_vars => IInv'
BY TypePreserved, LinkedPreserved, TokenPreserved, GatePreserved, StopPreserved,
   VerdictPreserved, ActivePreserved, FreshPreserved DEF IInv

LEMMA Invariance == Spec => []IInv
BY InitEstablishesIInv, StepPreservesIInv, PTL DEF Spec

\* The state of every execution is well typed, for any number of requests
\* and sinks.
THEOREM Typing == Spec => []TypeOK
<1>1. IInv => TypeOK
  BY DEF IInv
<1> QED
  BY <1>1, Invariance, PTL

\* One operation at a time on the token, from the moment its caller takes
\* the token until its worker gives it back.
THEOREM MutualExclusion == Spec => []OneOperation
<1>1. IInv => OneOperation
  BY DEF IInv, TokenInv
<1> QED
  BY <1>1, Invariance, PTL

\* Progress never follows an outcome through the event gate of a request.
THEOREM ProgressEnds == Spec => []NoLateProgress
<1>1. IInv => NoLateProgress
  BY DEF IInv
<1> QED
  BY <1>1, Invariance, PTL

\* An invalidated provider is reloaded before anyone signs with it.
THEOREM ProviderIsFresh == Spec => []FreshProvider
<1>1. IInv => FreshProvider
  BY DEF IInv
<1> QED
  BY <1>1, Invariance, PTL

\* A call that outlives its request has been told to stop.
THEOREM CallsAreCanceled == Spec => []NoOrphanedCall
<1>1. IInv => NoOrphanedCall
  BY DEF IInv, NoOrphanedCall, StopInv, Linked, LinkedRequest
<1> QED
  BY <1>1, Invariance, PTL

\* Cancel(i) only ever takes the cancel function of the request with ID i.
THEOREM CancelIsPrecise == Spec => CancelHitsItsTarget
<1>1. ASSUME IInv, NEW i \in 1 .. Cardinality(Requests), NEW r \in Requests,
             Cancel(i), claimed' = r
      PROVE  id[r] = i
  BY <1>1, RequestsAssumption DEF IInv, ActiveInv, Cancel
<1>2. IInv /\ [Next]_vars =>
        [\A i \in 1 .. Cardinality(Requests), r \in Requests :
           Cancel(i) /\ claimed' = r => id[r] = i]_vars
  BY <1>1
<1> QED
  BY <1>2, Invariance, PTL DEF Spec, CancelHitsItsTarget

-----------------------------------------------------------------------------
(* Coordinator implements TouchGate.                                       *)

\* The element of a singleton.
LEMMA AnyOfOne ==
  ASSUME NEW r, NEW S, S = {r}
  PROVE  AnyOf(S) = r
BY DEF AnyOf

\* Every step of a request that TouchGate does not see.
Unseen ==
  /\ \A q \in Requests : Holds(q)' <=> Holds(q)
  /\ \A q \in Requests : Admitted(q)' <=> Admitted(q)
  /\ \A q \in Requests : caller'[q] = "returned" <=> caller[q] = "returned"
  /\ \A q \in Requests : caller[q] = "returned" => verdict'[q] = verdict[q]
  /\ result' = result

\* Such a step leaves the mapped variables alone.
LEMMA UnseenIsStutter ==
  ASSUME Unseen
  PROVE  UNCHANGED <<GateHolder, GateOp, GateTold>>
<1>1. Holders' = Holders
  BY DEF Unseen, Holders, Holds
<1>2. GateHolder' = GateHolder
  BY <1>1 DEF GateHolder, AnyOf
<1>3. GateOp' = GateOp
  BY DEF Unseen, GateOp
<1>4. GateTold' = GateTold
  BY DEF Unseen, GateTold
<1> QED
  BY <1>2, <1>3, <1>4

\* Whoever holds the token is the mapped holder.
LEMMA HolderOf ==
  ASSUME TokenInv, NEW r \in Requests, Holds(r)
  PROVE  GateHolder = r
<1>1. Holders = {r}
  BY DEF TokenInv, OneOperation, Holders
<1> QED
  BY <1>1, AnyOfOne DEF GateHolder

\* Taking the token admits the request.
LEMMA AcquireAdmits ==
  ASSUME IInv, IInv', NEW r \in Requests, Acquire(r)
  PROVE  Gate!Admit(r)
<1> USE DEF IInv, TypeOK, TokenInv, Linked, LinkedRequest, Started, Acquire, At
<1>1. \A q \in Requests : ~Holds(q)
  OBVIOUS
<1>2. GateHolder = NoOne
  BY <1>1 DEF GateHolder, Holders, AnyOf
<1>3. \A q \in Requests : Holds(q)' <=> q = r
  <2>1. /\ caller' = [caller EXCEPT ![r] = "begin"] /\ worker' = worker
        /\ DOMAIN caller = Requests
    OBVIOUS
  <2> HIDE DEF IInv, TypeOK, TokenInv, Linked, LinkedRequest, Started, Acquire, At
  <2> QED
    BY <1>1, <2>1 DEF Holds
<1>4. GateHolder' = r
  <2> HIDE DEF IInv, TypeOK, TokenInv, Linked, LinkedRequest, Started, Acquire, At
  <2>1. Holders' = {r}
    BY <1>3 DEF Holders
  <2> QED
    BY <2>1, AnyOfOne DEF GateHolder
<1>5. GateOp[r] = "waiting" /\ GateTold[r] = NoOne
  BY DEF GateOp, GateTold, Admitted
<1>6. result[r] = NoOne
  BY NoOneAssumption
<1>7. GateOp' = [GateOp EXCEPT ![r] = "running"]
  BY <1>6 DEF GateOp, Admitted, activeVars
<1>8. GateTold' = GateTold
  BY DEF GateTold
<1> QED
  BY <1>2, <1>4, <1>5, <1>7, <1>8 DEF Gate!Admit

\* Filling the result channel completes the operation.
LEMMA WorkerCompletes ==
  ASSUME IInv, IInv', NEW r \in Requests, WorkerStep(r)
  PROVE  Unseen \/ Gate!Complete(r)
<1> USE DEF IInv, TypeOK, Linked, LinkedRequest, WorkerStep, callerVars, activeVars
<1>1. \A q \in Requests : Holds(q)' <=> Holds(q)
  BY DEF Holds
<1>2. \A q \in Requests : Admitted(q)' <=> Admitted(q)
  BY DEF Admitted
<1>3. CASE result' = result
  BY <1>1, <1>2, <1>3 DEF Unseen
<1>4. ASSUME NEW e \in {"ok", "error", "deadline", "canceled"},
             result' = [result EXCEPT ![r] = e]
      PROVE  Gate!Complete(r)
  <2>1. Holders' = Holders
    BY DEF Holders, Holds
  <2>2. GateHolder' = GateHolder
    BY <2>1 DEF GateHolder, AnyOf
  <2>3. Admitted(r) /\ result[r] = NoOne
    BY DEF Admitted
  <2>4. GateOp[r] = "running"
    BY <2>3 DEF GateOp
  <2>5. e # NoOne
    BY NoOneAssumption
  <2>6. GateOp' = [GateOp EXCEPT ![r] = IF e = "ok" THEN "ok" ELSE "failed"]
    BY <1>4, <2>3, <2>5 DEF GateOp, Admitted
  <2>7. GateTold' = GateTold
    BY DEF GateTold
  <2> QED
    BY <2>2, <2>4, <2>6, <2>7 DEF Gate!Complete
<1> QED
  BY <1>3, <1>4

\* Giving the token back vacates the device.
LEMMA ReleaseVacates ==
  ASSUME IInv, IInv', NEW r \in Requests, Release(r)
  PROVE  Gate!Vacate(r)
<1> USE DEF IInv, TypeOK, Linked, LinkedRequest, Started, Release, Goto, activeVars
<1>1. Holds(r) /\ caller[r] # "begin"
  BY DEF Holds
<1>2. GateHolder = r
  BY <1>1, HolderOf
<1>3. Holders' = {}
  BY <1>1 DEF Holds, Holders, TokenInv, OneOperation
<1>4. GateHolder' = NoOne
  BY <1>3 DEF GateHolder, AnyOf
<1>5. GateOp[r] # "running"
  BY DEF GateOp, Admitted
<1>6. GateOp' = GateOp /\ GateTold' = GateTold
  BY DEF GateOp, GateTold, Admitted
<1> QED
  BY <1>2, <1>4, <1>5, <1>6 DEF Gate!Vacate

\* The return of the call tells the request its outcome.
LEMMA ReturnTells ==
  ASSUME IInv, IInv', NEW r \in Requests, GiveUp(r) \/ End(r)
  PROVE  \E outcome \in {"success", "failure", "timeout", "canceled"} : Gate!Tell(r, outcome)
<1> USE DEF IInv, TypeOK, Linked, LinkedRequest, Started, GiveUp, End, At
<1>0. /\ caller[r] \notin {"begin", "returned"} /\ caller' = [caller EXCEPT ![r] = "returned"]
      /\ DOMAIN caller = Requests /\ worker' = worker
  OBVIOUS
<1>1. \A q \in Requests : Holds(q)' <=> Holds(q)
  BY ONLY <1>0 DEF Holds
<1>2. GateHolder' = GateHolder
  <2>1. Holders' = Holders
    BY ONLY <1>1 DEF Holders, Holds
  <2> QED
    BY ONLY <2>1 DEF GateHolder, AnyOf
<1>3. GateOp' = GateOp
  BY DEF GateOp, Admitted, activeVars
<1>4. verdict'[r] \in Outcomes
  <2>1. CASE GiveUp(r)
    BY <2>1 DEF ContextVerdict, Outcomes
  <2>2. CASE End(r)
    BY <2>2 DEF Outcomes
  <2> QED
    BY <2>1, <2>2
<1>5. GateTold[r] = NoOne /\ GateTold' = [GateTold EXCEPT ![r] = verdict'[r]]
  <2>1. \A q \in Requests \ {r} : verdict'[q] = verdict[q]
    OBVIOUS
  <2> QED
    BY ONLY <1>0, <2>1, r \in Requests DEF GateTold
<1>6. Gate!MayTell(r, verdict'[r])
  <2>1. CASE GiveUp(r)
    BY <2>1 DEF ContextVerdict, Gate!MayTell
  <2>2. CASE End(r)
    <3>1. Admitted(r) /\ verdict'[r] = verdict[r]
      BY <2>2 DEF Admitted
    <3>2. /\ verdict[r] = "success" => GateOp[r] = "ok"
          /\ verdict[r] = "failure" => GateOp[r] = "failed"
      BY <3>1, NoOneAssumption DEF GateOp, VerdictInv
    <3> QED
      BY <1>4, <3>1, <3>2 DEF Gate!MayTell, Outcomes
  <2> QED
    BY <2>1, <2>2
<1> QED
  BY <1>2, <1>3, <1>4, <1>5, <1>6 DEF Gate!Tell, Outcomes

\* All other steps of a request are stutters.
LEMMA OthersAreUnseen ==
  ASSUME IInv, IInv', NEW r \in Requests,
         \/ Arrive(r) \/ Begin(r) \/ TakeResult(r) \/ TakeDone(r) \/ CancelOperation(r)
         \/ PublishTerminal(r) \/ Publish(r) \/ Deadline(r) \/ ClientCancel(r)
  PROVE  Unseen
<1> USE DEF IInv, TypeOK, Unseen, Holds, Admitted, callerVars, activeVars, At
<1>1. CASE Begin(r)
  BY <1>1 DEF Begin
<1>2. CASE Arrive(r) \/ TakeResult(r) \/ TakeDone(r) \/ CancelOperation(r) \/ PublishTerminal(r)
  BY <1>2 DEF Arrive, TakeResult, TakeDone, CancelOperation, PublishTerminal
<1>3. CASE Publish(r) \/ Deadline(r) \/ ClientCancel(r)
  BY <1>3 DEF Publish, Deadline, ClientCancel, Finish
<1> QED
  BY <1>1, <1>2, <1>3

LEMMA GateBegins == Init => Gate!GateInit
<1> SUFFICES ASSUME Init PROVE Gate!GateInit
  OBVIOUS
<1>1. Holders = {}
  BY DEF Init, Holders, Holds
<1>2. GateHolder = NoOne
  BY <1>1 DEF GateHolder, AnyOf
<1> QED
  BY <1>2 DEF Init, Gate!GateInit, GateOp, GateTold, Admitted

\* Every step of the coordinator is one of the gate, or a stutter.
LEMMA GateStep == IInv /\ IInv' /\ [Next]_vars => [Gate!GateNext]_(Gate!gateVars)
<1> SUFFICES ASSUME IInv, IInv', [Next]_vars
             PROVE  Unseen \/ Gate!GateNext
  BY UnseenIsStutter DEF Gate!gateVars
<1>1. ASSUME NEW r \in Requests, RequestStep(r)
      PROVE  Unseen \/ Gate!GateNext
  <2>1. CASE Acquire(r)
    BY <2>1, AcquireAdmits DEF Gate!GateNext
  <2>2. CASE GiveUp(r) \/ End(r)
    BY <2>2, ReturnTells DEF Gate!GateNext
  <2>3. CASE WorkerStep(r)
    BY <2>3, WorkerCompletes DEF Gate!GateNext
  <2>4. CASE Release(r)
    BY <2>4, ReleaseVacates DEF Gate!GateNext
  <2> QED
    BY <1>1, <2>1, <2>2, <2>3, <2>4, OthersAreUnseen, WorkerSteps
       DEF RequestStep, Proceed, Work, IInv
<1>2. ASSUME NEW i \in 1 .. Cardinality(Requests), Cancel(i)
      PROVE  Unseen
  BY <1>2 DEF Cancel, Unseen, Holds, Admitted, callerVars
<1>3. CASE FireCancel \/ UNCHANGED vars
  BY <1>3 DEF FireCancel, vars, Unseen, Holds, Admitted, callerVars, activeVars
<1> QED
  BY <1>1, <1>2, <1>3 DEF Next, AllOver

\* The coordinator keeps the promise of TouchGate: whatever its goroutines
\* do, one operation at a time occupies the device, and every request is told
\* one outcome, success only of an operation that succeeded.
THEOREM ImplementsTouchGate == Spec => KeepsThePromise
BY GateBegins, GateStep, Invariance, PTL DEF Spec, KeepsThePromise, Gate!GateSpec

-----------------------------------------------------------------------------
(* What the sinks have been told.  The log of a sink holds, of one request, *)
(* nothing, its initializing, then its waiting, and last its outcome; how   *)
(* far it is follows from the worker, the gate and the caller.              *)

Open(s, r) == \A i \in Told(s, r) : log[s][i].type \notin Outcomes

Closed(s, r) ==
  \E i \in Told(s, r) : log[s][i].type = verdict[r] /\ \A j \in Told(s, r) : j =< i

Begun(s, r) == Told(s, r) # {} /\ \A i \in Told(s, r) : log[s][i].type = "initializing"

Asked(s, r) ==
  \E i \in Told(s, r) :
    log[s][i].type = "waiting" /\ \A j \in Told(s, r) : j =< i \/ log[s][j].type \in Outcomes

LogOf(s, r) ==
  /\ id[r] = 0 => Told(s, r) = {}
  /\ ~terminal[r] => Open(s, r)
  /\ caller[r] = "publishing" => IF s =< stage[r] THEN Closed(s, r) ELSE Open(s, r)
  /\ caller[r] \in {"ending", "returned"} /\ id[r] # 0 => Closed(s, r)
  /\ worker[r] = "initialize" /\ ~terminal[r] => Told(s, r) = {}
  /\ worker[r] = "initializing" => IF s =< stage[r] THEN Begun(s, r) ELSE Told(s, r) = {}
  /\ worker[r] \in {"ensure", "prompt"} /\ ~terminal[r] => Begun(s, r)
  /\ worker[r] = "prompting" => IF s =< stage[r] THEN Asked(s, r) ELSE Begun(s, r)
  /\ worker[r] \in {"granted", "call"} \/ result[r] = "ok" => Asked(s, r)

LogInv == \A s \in Sinks, r \in Requests : LogOf(s, r)

\* A caller leaves its select with a result in the channel or a context that is done.
DoneInv ==
  \A r \in Requests :
    caller[r] \in {"cancelling", "terminal", "publishing", "ending", "returned"} =>
      ctx[r] # "live" \/ result[r] # NoOne

LEMMA DonePreserved ==
  ASSUME IInv, DoneInv, [Next]_vars
  PROVE  DoneInv'
<1> USE NoOneAssumption DEF IInv, TypeOK, DoneInv, callerVars, activeVars, eventVars
<1>1. ASSUME NEW r \in Requests, Arrive(r) \/ Acquire(r) \/ Begin(r) \/ CancelOperation(r)
      PROVE  DoneInv'
  BY <1>1 DEF Arrive, Acquire, Begin, CancelOperation, At
<1>2. ASSUME NEW r \in Requests, GiveUp(r) \/ TakeResult(r) \/ TakeDone(r)
      PROVE  DoneInv'
  BY <1>2 DEF GiveUp, TakeResult, TakeDone, At
<1>3. ASSUME NEW r \in Requests, PublishTerminal(r) \/ End(r)
      PROVE  DoneInv'
  BY <1>3 DEF PublishTerminal, End, At
<1>4. ASSUME NEW r \in Requests, WorkerStep(r)
      PROVE  DoneInv'
  BY <1>4 DEF WorkerStep
<1>5. ASSUME NEW r \in Requests, Release(r) \/ Publish(r) \/ Deadline(r) \/ ClientCancel(r)
      PROVE  DoneInv'
  BY <1>5 DEF Release, Publish, Deadline, ClientCancel, Finish
<1>6. ASSUME NEW i \in 1 .. Cardinality(Requests), Cancel(i)
      PROVE  DoneInv'
  BY <1>6 DEF Cancel
<1>7. CASE FireCancel \/ UNCHANGED vars
  BY <1>7 DEF FireCancel, vars
<1> QED
  BY <1>1, <1>2, <1>3, <1>4, <1>5, <1>6, <1>7, WorkerSteps
     DEF Next, RequestStep, Proceed, Work, AllOver

\* What sink s has of q when nothing was appended for q.
LEMMA SameTold ==
  ASSUME NEW s, NEW q, Told(s, q)' = Told(s, q),
         \A i \in Told(s, q) : log'[s][i] = log[s][i]
  PROVE  /\ Open(s, q)' <=> Open(s, q)
         /\ Begun(s, q)' <=> Begun(s, q)
         /\ Asked(s, q)' <=> Asked(s, q)
         /\ verdict'[q] = verdict[q] => (Closed(s, q)' <=> Closed(s, q))
BY DEF Open, Begun, Asked, Closed

\* A request that does nothing keeps what its sinks know.
LEMMA StillLog ==
  ASSUME NEW s, NEW q, LogOf(s, q), Told(s, q)' = Told(s, q),
         \A i \in Told(s, q) : log'[s][i] = log[s][i],
         /\ caller'[q] = caller[q] /\ worker'[q] = worker[q] /\ terminal'[q] = terminal[q]
         /\ stage'[q] = stage[q] /\ id'[q] = id[q] /\ verdict'[q] = verdict[q]
         /\ result'[q] = result[q]
  PROVE  LogOf(s, q)'
BY SameTold DEF LogOf

LEMMA QuietTold ==
  ASSUME log' = log, NEW s, NEW q
  PROVE  Told(s, q)' = Told(s, q) /\ \A i \in Told(s, q) : log'[s][i] = log[s][i]
BY DEF Told

\* The steps that publish nothing.
LEMMA QuietLog ==
  ASSUME IInv, DoneInv, LogInv, NEW r \in Requests, NEW s \in Sinks,
         \/ Arrive(r) \/ Proceed(r) \/ Work(r) \/ CallReturns(r)
  PROVE  log' = log /\ LogOf(s, r)'
<1> USE DEF IInv, TypeOK, callerVars, activeVars, eventVars
<1>1. log' = log
  BY DEF Arrive, Proceed, Acquire, GiveUp, Begin, TakeResult, TakeDone, CancelOperation,
         PublishTerminal, End, Work, Initialize, Ensure, Prompt, Grant, FailSigning, Release,
         CallReturns, ProgressStep, WorkerUnchanged
<1>2. Told(s, r)' = Told(s, r) /\ \A i \in Told(s, r) : log'[s][i] = log[s][i]
  BY <1>1, QuietTold
<1>3. /\ Open(s, r)' <=> Open(s, r)
      /\ Begun(s, r)' <=> Begun(s, r)
      /\ Asked(s, r)' <=> Asked(s, r)
      /\ verdict'[r] = verdict[r] => (Closed(s, r)' <=> Closed(s, r))
  BY <1>2, SameTold
<1>4. LogOf(s, r) /\ LinkedRequest(r) /\ (terminal[r] => gate[r] # "worker")
  BY DEF LogInv, Linked, NoLateProgress
<1>5. s \in 1 .. NumSinks /\ NumSinks \in Nat /\ stage[r] \in 0 .. NumSinks /\ s =< NumSinks /\ ~(s =< 0)
  BY SinksAssumption DEF Sinks
<1> USE <1>1, <1>2, <1>3, <1>4, <1>5 DEF LogOf, LinkedRequest, Started
<1>6. CASE Arrive(r) \/ Acquire(r) \/ TakeDone(r)
  BY <1>6 DEF Arrive, Acquire, TakeDone, At
<1>7. CASE GiveUp(r) \/ CancelOperation(r) \/ TakeResult(r)
  BY <1>7 DEF GiveUp, CancelOperation, TakeResult, At
<1>8. CASE Begin(r)
  BY <1>8 DEF Begin, At
<1>9. CASE PublishTerminal(r)
  BY <1>9 DEF PublishTerminal, At, Lock, Published
<1>10. CASE End(r)
  BY <1>10 DEF End, At
<1>11. CASE Initialize(r)
  <2>1. UNCHANGED <<caller, id, verdict, terminal>>
    BY <1>11 DEF Initialize, ProgressStep, WorkerUnchanged
  <2>2. CASE Goto(r, "initialize", "initializing") /\ Lock(r, "worker") /\ ~terminal[r] /\ result' = result
    BY <2>1, <2>2 DEF Goto, Lock
  <2>3. CASE /\ worker[r] = "initialize" /\ worker' = [worker EXCEPT ![r] = "release"]
             /\ result' = [result EXCEPT ![r] = ContextErr(r)] /\ UNCHANGED stage
             /\ terminal[r] \/ ctx[r] # "live"
    <3>1. ctx[r] # "live"
      BY <2>3 DEF DoneInv
    <3>2. result'[r] # "ok"
      BY <2>3, <3>1 DEF ContextErr
    <3> QED
      BY <2>1, <2>3, <3>2
  <2>4. CASE Goto(r, "initializing", "ensure") /\ Published(r, "worker") /\ UNCHANGED <<result, stage>>
    BY <2>1, <2>4 DEF Goto, Published
  <2> QED
    BY <1>11, <2>2, <2>3, <2>4 DEF Initialize, ProgressStep, Report, Goto
<1>12. CASE Ensure(r)
  BY <1>12, NoOneAssumption DEF Ensure, Goto, Report, ContextErr, WorkerUnchanged
<1>13. CASE Prompt(r)
  <2>1. UNCHANGED <<caller, id, verdict, terminal>>
    BY <1>13 DEF Prompt, ProgressStep, WorkerUnchanged
  <2>2. CASE Goto(r, "prompt", "prompting") /\ Lock(r, "worker") /\ ~terminal[r] /\ result' = result
    BY <2>1, <2>2 DEF Goto, Lock
  <2>3. CASE /\ worker[r] = "prompt" /\ worker' = [worker EXCEPT ![r] = "release"]
             /\ result' = [result EXCEPT ![r] = ContextErr(r)] /\ UNCHANGED stage
             /\ terminal[r] \/ ctx[r] # "live"
    <3>1. ctx[r] # "live"
      BY <2>3 DEF DoneInv
    <3>2. result'[r] # "ok"
      BY <2>3, <3>1 DEF ContextErr
    <3> QED
      BY <2>1, <2>3, <3>2
  <2>4. CASE Goto(r, "prompting", "granted") /\ Published(r, "worker") /\ UNCHANGED <<result, stage>>
    BY <2>1, <2>4 DEF Goto, Published
  <2> QED
    BY <1>13, <2>2, <2>3, <2>4 DEF Prompt, ProgressStep, Report, Goto
<1>14. CASE Grant(r)
  BY <1>14, NoOneAssumption DEF Grant, Goto, Report, ContextErr, WorkerUnchanged
<1>15. CASE CallReturns(r)
  BY <1>15, NoOneAssumption DEF CallReturns, CallErrors, Goto, Report, WorkerUnchanged
<1>16. CASE FailSigning(r) \/ Release(r)
  BY <1>16, NoOneAssumption DEF FailSigning, Release, Goto, Report, WorkerUnchanged
<1> QED
  BY <1>6, <1>7, <1>8, <1>9, <1>10, <1>11, <1>12, <1>13, <1>14, <1>15, <1>16 DEF Proceed, Work

\* One more event at the end, at position n, of the log of the sink t.
AppendedAt(r, t, n) ==
  /\ t = stage[r] + 1 /\ t \in Sinks /\ n \in Nat
  /\ \A s \in Sinks \ {t} : log'[s] = log[s]
  /\ \A q : Told(t, q)' = IF q = r THEN Told(t, r) \cup {n} ELSE Told(t, q)
  /\ \A q : \A i \in Told(t, q) : i \in Nat /\ i < n /\ log'[t][i] = log[t][i]
  /\ log'[t][n] = Event(r)

LEMMA Appended ==
  ASSUME IInv, NEW r \in Requests, Publish(r)
  PROVE  \E t, n : AppendedAt(r, t, n)
<1>0. PICK t, n : t = stage[r] + 1 /\ n = Len(log[t]) + 1
  OBVIOUS
<1>1. t \in Sinks /\ t \in DOMAIN log
  BY <1>0, SinksAssumption DEF IInv, TypeOK, Publish, Sinks
<1>2. log[t] \in Seq(Events) /\ log' = [log EXCEPT ![t] = Append(log[t], Event(r))]
  BY <1>0, <1>1 DEF IInv, TypeOK, Publish
<1>3. Event(r) \in Events
  BY EventIsTyped DEF IInv, Publish
<1>4. log'[t] = Append(log[t], Event(r)) /\ \A s \in Sinks \ {t} : log'[s] = log[s]
  BY <1>1, <1>2 DEF IInv, TypeOK
<1> HIDE DEF Events
<1>5. /\ n \in Nat /\ Len(log'[t]) = n /\ log'[t][n] = Event(r)
      /\ \A i \in 1 .. Len(log[t]) : i \in Nat /\ i < n /\ log'[t][i] = log[t][i]
      /\ \A i : i \in 1 .. n <=> i \in 1 .. Len(log[t]) \/ i = n
  BY <1>0, <1>2, <1>3, <1>4
<1>6. Event(r).request = r
  BY DEF Event
<1>7. \A q : \A i \in Told(t, q) : i \in Nat /\ i < n /\ log'[t][i] = log[t][i]
  BY <1>5 DEF Told
<1>8. ASSUME NEW q
      PROVE  Told(t, q)' = IF q = r THEN Told(t, r) \cup {n} ELSE Told(t, q)
  BY <1>5, <1>6 DEF Told
<1>9. AppendedAt(r, t, n)
  BY <1>0, <1>1, <1>4, <1>5, <1>7, <1>8 DEF AppendedAt
<1> QED
  BY <1>9

\* The event of r reaches the next sink.
LEMMA NextSinkHears ==
  ASSUME IInv, LogInv, NEW r \in Requests, Publish(r), NEW t, NEW n, AppendedAt(r, t, n)
  PROVE  LogOf(t, r)'
<1>1. /\ t = stage[r] + 1 /\ t \in Sinks /\ n \in Nat /\ Told(t, r)' = Told(t, r) \cup {n} /\ log'[t][n] = Event(r)
      /\ \A i \in Told(t, r) : i \in Nat /\ i < n /\ log'[t][i] = log[t][i]
  BY DEF AppendedAt
<1>2. /\ UNCHANGED <<caller, worker, terminal, id, verdict, result, gate>>
      /\ gate[r] \in {"worker", "caller"} /\ stage[r] \in Nat /\ stage'[r] = t
  BY <1>1 DEF Publish, IInv, TypeOK, callerVars, activeVars
<1>3. LogOf(t, r) /\ LinkedRequest(r) /\ (terminal[r] => gate[r] # "worker")
  BY <1>1 DEF LogInv, IInv, Linked, NoLateProgress
<1>4. ~(t =< stage[r]) /\ t =< stage'[r]
  BY <1>1, <1>2
<1>5. CASE gate[r] = "caller"
  <2>1. /\ caller[r] = "publishing" /\ worker[r] \notin {"initializing", "prompting"}
        /\ terminal[r] /\ id[r] # 0 /\ verdict[r] \in Outcomes
    BY <1>3, <1>5 DEF LinkedRequest, Started, IInv, TypeOK
  <2>2. Event(r).type = verdict[r]
    BY <1>5 DEF Event
  <2>3. Closed(t, r)'
    BY <1>1, <1>2, <2>2 DEF Closed
  <2>4. Asked(t, r) => Asked(t, r)'
    BY <1>1, <2>1, <2>2 DEF Asked
  <2> QED
    BY <1>2, <1>3, <1>4, <2>1, <2>3, <2>4 DEF LogOf
<1>6. CASE gate[r] = "worker"
  <2>1. /\ ~terminal[r] /\ worker[r] \in {"initializing", "prompting"} /\ caller[r] # "publishing"
        /\ id[r] # 0 /\ caller[r] # "ending" /\ result[r] # "ok"
    BY <1>3, <1>6, NoOneAssumption DEF LinkedRequest, IInv, TypeOK
  <2>2. Event(r).type = IF worker[r] = "initializing" THEN "initializing" ELSE "waiting"
    BY <1>6 DEF Event
  <2>3. Open(t, r) /\ Open(t, r)'
    BY <1>1, <1>3, <2>1, <2>2 DEF LogOf, Open, Outcomes
  <2>4. caller[r] # "returned"
    <3>1. caller[r] = "returned" => Closed(t, r) /\ verdict[r] \in Outcomes
      BY <1>3, <2>1 DEF LogOf, LinkedRequest, IInv, TypeOK
    <3> QED
      BY <2>3, <3>1 DEF Open, Closed
  <2>5. CASE worker[r] = "initializing"
    <3>1. Told(t, r) = {}
      BY <1>3, <1>4, <2>5 DEF LogOf
    <3>2. Begun(t, r)'
      BY <1>1, <2>2, <2>5, <3>1 DEF Begun
    <3> QED
      BY <1>2, <1>4, <2>1, <2>3, <2>4, <2>5, <3>2 DEF LogOf
  <2>6. CASE worker[r] = "prompting"
    <3>1. Asked(t, r)'
      BY <1>1, <2>2, <2>6 DEF Asked
    <3> QED
      BY <1>2, <1>4, <2>1, <2>3, <2>4, <2>6, <3>1 DEF LogOf
  <2> QED
    BY <2>1, <2>5, <2>6
<1> QED
  BY <1>2, <1>5, <1>6

LEMMA PublishLog ==
  ASSUME IInv, LogInv, NEW r \in Requests, Publish(r), NEW s \in Sinks, NEW q \in Requests
  PROVE  LogOf(s, q)'
<1>0. PICK t, n : AppendedAt(r, t, n)
  BY Appended
<1>1. /\ t = stage[r] + 1 /\ t \in Sinks /\ \A z \in Sinks \ {t} : log'[z] = log[z]
      /\ \A z : z # r => Told(t, z)' = Told(t, z)
      /\ \A z : \A i \in Told(t, z) : log'[t][i] = log[t][i]
  BY <1>0 DEF AppendedAt
<1>2. LogOf(t, r)'
  BY <1>0, NextSinkHears
<1>3. /\ UNCHANGED <<caller, worker, terminal, id, verdict, result>>
      /\ stage' = [stage EXCEPT ![r] = t] /\ stage \in [Requests -> 0 .. NumSinks]
  BY <1>1 DEF Publish, IInv, TypeOK, callerVars, activeVars
<1>4. CASE q = r /\ s = t
  BY <1>2, <1>4
<1>5. CASE ~(q = r /\ s = t)
  <2>1. Told(s, q)' = Told(s, q) /\ \A i \in Told(s, q) : log'[s][i] = log[s][i]
    <3>1. CASE s # t
      BY <1>1, <3>1 DEF Told
    <3>2. CASE s = t /\ q # r
      BY <1>1, <3>2
    <3> QED
      BY <1>5, <3>1, <3>2
  <2>2. LogOf(s, q)
    BY DEF LogInv
  <2>3. CASE q # r
    BY <1>3, <2>1, <2>2, <2>3, StillLog
  <2>4. CASE q = r /\ s # t
    <3>1. s =< stage'[r] <=> s =< stage[r]
      BY <1>1, <1>3, <2>4, SinksAssumption DEF Sinks
    <3>2. /\ Open(s, q)' <=> Open(s, q)
          /\ Begun(s, q)' <=> Begun(s, q)
          /\ Asked(s, q)' <=> Asked(s, q)
          /\ Closed(s, q)' <=> Closed(s, q)
      BY <1>3, <2>1, SameTold
    <3> QED
      BY <1>3, <2>1, <2>2, <2>4, <3>1, <3>2 DEF LogOf
  <2> QED
    BY <1>5, <2>3, <2>4
<1> QED
  BY <1>4, <1>5

\* A request's step leaves all that belongs to another request alone.
LEMMA OthersStill ==
  ASSUME IInv, NEW r \in Requests, NEW q \in Requests \ {r},
         \/ Arrive(r) \/ Proceed(r) \/ Work(r) \/ CallReturns(r)
  PROVE  /\ caller'[q] = caller[q] /\ worker'[q] = worker[q] /\ terminal'[q] = terminal[q]
         /\ stage'[q] = stage[q] /\ id'[q] = id[q] /\ verdict'[q] = verdict[q]
         /\ result'[q] = result[q]
<1> USE DEF IInv, TypeOK, callerVars, activeVars, eventVars
<1>1. CASE Arrive(r) \/ Proceed(r)
  BY <1>1 DEF Arrive, Proceed, Acquire, GiveUp, Begin, TakeResult, TakeDone, CancelOperation,
              PublishTerminal, End, At, Lock
<1>2. CASE WorkerStep(r)
  BY <1>2 DEF WorkerStep
<1>3. CASE Release(r)
  BY <1>3 DEF Release, Goto
<1> QED
  BY <1>1, <1>2, <1>3, WorkerSteps DEF Work

LEMMA LogPreserved ==
  ASSUME IInv, DoneInv, LogInv, [Next]_vars
  PROVE  LogInv'
<1> SUFFICES ASSUME NEW s \in Sinks, NEW q \in Requests
             PROVE  LogOf(s, q)'
  BY DEF LogInv, Sinks
<1>0. LogOf(s, q)
  BY DEF LogInv
<1>1. ASSUME NEW r \in Requests, Arrive(r) \/ Proceed(r) \/ Work(r) \/ CallReturns(r)
      PROVE  LogOf(s, q)'
  <2>1. log' = log /\ LogOf(s, r)'
    BY <1>1, QuietLog
  <2>2. CASE q # r
    BY <1>0, <1>1, <2>1, <2>2, QuietTold, OthersStill, StillLog
  <2> QED
    BY <2>1, <2>2
<1>2. ASSUME NEW r \in Requests, Publish(r)
      PROVE  LogOf(s, q)'
  BY <1>2, PublishLog
<1>3. ASSUME UNCHANGED <<caller, worker, terminal, stage, id, verdict, result, log>>
      PROVE  LogOf(s, q)'
  BY <1>0, <1>3, QuietTold, StillLog
<1>4. ASSUME NEW r \in Requests, Deadline(r) \/ ClientCancel(r)
      PROVE  LogOf(s, q)'
  BY <1>3, <1>4 DEF Deadline, ClientCancel, Finish, callerVars, activeVars, eventVars
<1>5. ASSUME NEW i \in 1 .. Cardinality(Requests), Cancel(i)
      PROVE  LogOf(s, q)'
  BY <1>3, <1>5 DEF Cancel, callerVars, eventVars
<1>6. CASE FireCancel \/ UNCHANGED vars
  BY <1>3, <1>6 DEF FireCancel, vars, callerVars, activeVars, eventVars
<1> QED
  BY <1>1, <1>2, <1>4, <1>5, <1>6 DEF Next, RequestStep, AllOver

LInv == IInv /\ DoneInv /\ LogInv

LEMMA LInvInit == Init => LInv
<1> SUFFICES ASSUME Init PROVE DoneInv /\ LogInv
  BY InitEstablishesIInv DEF LInv
<1>1. DoneInv
  BY DEF Init, DoneInv
<1>2. \A s \in Sinks, r \in Requests : Told(s, r) = {}
  BY DEF Init, Told
<1>3. ASSUME NEW s \in Sinks, NEW r \in Requests PROVE LogOf(s, r)
  <2>1. Told(s, r) = {}
    BY <1>2
  <2>2. /\ caller[r] = "idle" /\ worker[r] = "none" /\ id[r] = 0 /\ result[r] = NoOne
    BY DEF Init
  <2> QED
    BY <2>1, <2>2, NoOneAssumption DEF LogOf, Open
<1> QED
  BY <1>1, <1>3 DEF LogInv

LEMMA LInvNext == LInv /\ [Next]_vars => LInv'
BY StepPreservesIInv, DonePreserved, LogPreserved DEF LInv

LEMMA LInvariance == Spec => []LInv
BY LInvInit, LInvNext, PTL DEF Spec

\* The last position of a set.
LEMMA LastIs ==
  ASSUME NEW I, I \subseteq Nat, NEW i \in I, \A j \in I : j =< i
  PROVE  Max(I) = i
<1>1. \A y \in I : i >= y
  OBVIOUS
<1>2. Max(I) \in I /\ \A y \in I : Max(I) >= y
  BY <1>1 DEF Max
<1>3. Max(I) \in Nat /\ Max(I) >= i /\ i >= Max(I)
  BY <1>1, <1>2
<1> QED
  BY <1>3

LEMMA LogTellsOutcome == LInv => OutcomeIsPublished
<1> SUFFICES ASSUME LInv, NEW r \in Requests, caller[r] = "returned", NEW s \in Sinks
             PROVE  IF id[r] = 0 THEN Told(s, r) = {}
                    ELSE Told(s, r) # {} /\ log[s][Max(Told(s, r))].type = verdict[r]
  BY DEF OutcomeIsPublished
<1>1. LogOf(s, r)
  BY DEF LInv, LogInv
<1>2. CASE id[r] # 0
  <2>1. PICK i \in Told(s, r) : log[s][i].type = verdict[r] /\ \A j \in Told(s, r) : j =< i
    BY <1>1, <1>2 DEF LogOf, Closed
  <2>2. Told(s, r) \subseteq Nat
    BY DEF Told
  <2>3. Max(Told(s, r)) = i
    BY <2>1, <2>2, LastIs
  <2> QED
    BY <1>2, <2>1, <2>3
<1> QED
  BY <1>1, <1>2 DEF LogOf

\* Once its call has returned, every sink has been told of a request's outcome
\* exactly what its caller gets, last of all, and nothing of a request that
\* never had the token (requestEvents.publishTerminal).
THEOREM OutcomePublished == Spec => []OutcomeIsPublished
BY LogTellsOutcome, LInvariance, PTL

\* Whatever was in the state file before, and whatever signs later without
\* writing to it, test-sign reads there why its own signature failed, unless
\* another one has written to it since test-sign began (Store.Handle,
\* lastSignFailureClass): the last event that is not old is its own outcome.
THEOREM LoneFailureClassified ==
  ASSUME NumSinks >= 1
  PROVE  Spec => []LoneFailureIsClassified
<1>1. LInv => LoneFailureIsClassified
  <2> SUFFICES ASSUME LInv, NEW r \in SSHRequests, NEW since \in StartedAt(r),
                      TestSignReads(r), Alone(r, since)
               PROVE  LastSignFailureClass(since) = IF id[r] = 0 THEN "none" ELSE verdict[r]
    BY DEF LoneFailureIsClassified
  <2>1. r \in Requests /\ 1 \in Sinks
    BY SSHAssumption, SinksAssumption DEF Sinks
  <2>2. LogOf(1, r) /\ verdict[r] \in Outcomes \ {"success"} /\ caller[r] = "returned"
    BY <2>1 DEF LInv, LogInv, IInv, Linked, LinkedRequest, TypeOK, TestSignReads
  <2>3. /\ since \in Nat /\ \A i \in Told(1, r) : i \in Nat /\ i > since
        /\ \A j \in StoreEvents : j \in Nat /\ (j \in Told(1, r) \/ j =< since)
    BY DEF StartedAt, Alone, StoreEvents, Told
  <2>4. CASE id[r] = 0
    <3>1. LastSignBefore(since)
      BY <2>2, <2>3, <2>4 DEF LogOf, LastSignBefore
    <3> QED
      BY <2>4, <3>1 DEF LastSignFailureClass
  <2>5. CASE id[r] # 0
    <3>1. PICK i \in Told(1, r) : log[1][i].type = verdict[r] /\ \A j \in Told(1, r) : j =< i
      BY <2>2, <2>5 DEF LogOf, Closed
    <3>2. i \in Nat /\ i > since /\ \A j \in StoreEvents : j \in Nat /\ j =< i
      BY <2>3, <3>1
    <3>3. i \in StoreEvents
      BY DEF StoreEvents, Told
    <3>4. Max(StoreEvents) = i
      BY <3>2, <3>3, LastIs
    <3>5. ~LastSignBefore(since)
      BY <2>3, <3>2, <3>3 DEF LastSignBefore
    <3>6. LastSignEvent = verdict[r]
      BY <3>1, <3>3, <3>4 DEF LastSignEvent
    <3> QED
      BY <2>2, <2>5, <3>5, <3>6 DEF LastSignFailureClass, Failures, Outcomes
  <2> QED
    BY <2>4, <2>5
<1> QED
  BY <1>1, LInvariance, PTL

-----------------------------------------------------------------------------
(* The first sink's stream against the abstract one of TouchEvents.         *)

\* What a sink has of a request has a last event.
HasLast(r) == Told(1, r) # {} => \E i \in Told(1, r) : \A j \in Told(1, r) : j =< i

LastInv == \A r \in Requests : HasLast(r)

\* Sink 1 has heard that r is being initialized.
Heard(r) == \E i \in Told(1, r) : log[1][i].type = "initializing"

\* What the abstract stream depends on has not changed.
StreamStill ==
  /\ log'[1] = log[1]
  /\ \A q \in Requests : (Holds(q) /\ Heard(q))' <=> (Holds(q) /\ Heard(q))

SInv == LInv /\ LastInv

LEMMA LastPreserved ==
  ASSUME LInv, LastInv, [Next]_vars
  PROVE  LastInv'
<1>1. ASSUME log'[1] = log[1] PROVE LastInv'
  <2>1. \A r \in Requests : Told(1, r)' = Told(1, r)
    BY <1>1 DEF Told
  <2>2. \A r \in Requests : HasLast(r)' <=> HasLast(r)
    BY <2>1 DEF HasLast
  <2> QED
    BY <2>2 DEF LastInv
<1>2. ASSUME NEW r \in Requests, Publish(r) PROVE LastInv'
  <2>1. PICK t, n : AppendedAt(r, t, n)
    BY <1>2, Appended DEF LInv
  <2>2. CASE t # 1
    <3>1. log'[1] = log[1]
      <4>1. CASE 1 \in Sinks
        BY <2>1, <2>2, <4>1 DEF AppendedAt
      <4>2. CASE 1 \notin Sinks
        BY <2>1, <4>2, SinksAssumption DEF AppendedAt, Sinks
      <4> QED
        BY <4>1, <4>2
    <3> QED
      BY <1>1, <3>1
  <2>3. CASE t = 1
    <3>1. \A q : Told(1, q)' = IF q = r THEN Told(1, r) \cup {n} ELSE Told(1, q)
      BY <2>1, <2>3 DEF AppendedAt
    <3>2. n \in Nat /\ \A q : \A i \in Told(1, q) : i \in Nat /\ i < n
      BY <2>1, <2>3 DEF AppendedAt
    <3> QED
      BY <3>1, <3>2 DEF LastInv, HasLast
  <2> QED
    BY <2>2, <2>3
<1>3. ASSUME NEW r \in Requests, Arrive(r) \/ Proceed(r) \/ Work(r) \/ CallReturns(r)
      PROVE  log' = log
  BY <1>3 DEF Arrive, Proceed, Acquire, GiveUp, Begin, TakeResult, TakeDone, CancelOperation,
              PublishTerminal, End, Work, Initialize, Ensure, Prompt, Grant, FailSigning, Release,
              CallReturns, ProgressStep, WorkerUnchanged, eventVars
<1>4. ASSUME NEW r \in Requests, Deadline(r) \/ ClientCancel(r) PROVE log' = log
  BY <1>4 DEF Deadline, ClientCancel, Finish, eventVars
<1>5. ASSUME NEW i \in 1 .. Cardinality(Requests), Cancel(i) PROVE log' = log
  BY <1>5 DEF Cancel, eventVars
<1>6. CASE FireCancel \/ UNCHANGED vars
  BY <1>1, <1>6 DEF FireCancel, vars, eventVars
<1> QED
  BY <1>1, <1>2, <1>3, <1>4, <1>5, <1>6 DEF Next, RequestStep, AllOver

LEMMA SInvariance ==
  ASSUME NumSinks >= 1
  PROVE  Spec => []SInv
<1>1. Init => SInv
  <2> SUFFICES ASSUME Init PROVE LastInv
    BY LInvInit DEF SInv
  <2>1. log[1] = <<>>
    BY SinksAssumption DEF Init, Sinks
  <2> QED
    BY <2>1 DEF LastInv, HasLast, Told
<1>2. SInv /\ [Next]_vars => SInv'
  BY LInvNext, LastPreserved DEF SInv
<1> QED
  BY <1>1, <1>2, PTL DEF Spec

\* The holders of the token the sink has heard of: one at most.
Known == {q \in Requests : Holds(q) /\ Heard(q)}

LEMMA StreamHolderIsKnown ==
  StreamHolder = AnyOf(Known) /\ StreamHolder' = AnyOf(Known)'
BY DEF StreamHolder, Known, Heard

LEMMA StillStream ==
  ASSUME StreamStill
  PROVE  UNCHANGED Stream!streamVars
<1>1. \A q : Told(1, q)' = Told(1, q)
  BY DEF StreamStill, Told
<1>2. StreamPhase' = StreamPhase
  BY <1>1 DEF StreamStill, StreamPhase
<1>3. StreamHolder' = StreamHolder
  <2>1. Known' = Known
    BY DEF StreamStill, Known
  <2>2. AnyOf(Known)' = AnyOf(Known)
    BY <2>1 DEF AnyOf
  <2> QED
    BY <2>2, StreamHolderIsKnown
<1> QED
  BY <1>2, <1>3 DEF Stream!streamVars, StreamStill

\* Who occupies the device, for the sink: the holder of the token it has heard of.
LEMMA StreamHolderIs ==
  ASSUME OneOperation, NEW r \in Requests, Holds(r)
  PROVE  StreamHolder = IF Heard(r) THEN r ELSE NoOne
<1>1. {q \in Requests : Holds(q) /\ Heard(q)} = IF Heard(r) THEN {r} ELSE {}
  BY DEF OneOperation
<1> QED
  BY <1>1, AnyOfOne DEF StreamHolder, Heard, AnyOf

\* How far the sink has heard of a request.
LEMMA PhaseIs ==
  ASSUME NumSinks >= 1, TypeOK, LastInv, NEW r \in Requests
  PROVE  /\ Told(1, r) = {} => StreamPhase[r] = "quiet"
         /\ Begun(1, r) => StreamPhase[r] = "initializing"
         /\ Asked(1, r) /\ Open(1, r) => StreamPhase[r] = "waiting"
         /\ Open(1, r) => StreamPhase[r] # "over"
<1>1. CASE Told(1, r) = {}
  BY <1>1 DEF StreamPhase, Begun, Asked
<1>2. CASE Told(1, r) # {}
  <2>1. PICK i \in Told(1, r) : \A j \in Told(1, r) : j =< i
    BY <1>2 DEF LastInv, HasLast
  <2>2. Told(1, r) \subseteq Nat
    BY DEF Told
  <2>3. Max(Told(1, r)) = i
    BY <2>1, <2>2, LastIs
  <2>4. StreamPhase[r] = IF log[1][i].type \in Outcomes THEN "over" ELSE log[1][i].type
    BY <1>2, <2>3 DEF StreamPhase
  <2>5. Begun(1, r) => StreamPhase[r] = "initializing"
    BY <2>4 DEF Begun, Outcomes
  <2>6. Open(1, r) => log[1][i].type \notin Outcomes
    BY DEF Open
  <2>7. Asked(1, r) /\ Open(1, r) => log[1][i].type = "waiting"
    <3> SUFFICES ASSUME Asked(1, r), Open(1, r) PROVE log[1][i].type = "waiting"
      OBVIOUS
    <3>1. PICK k \in Told(1, r) :
            log[1][k].type = "waiting" /\ \A j \in Told(1, r) : j =< k \/ log[1][j].type \in Outcomes
      BY DEF Asked
    <3>2. i = k
      BY <2>1, <2>2, <2>6, <3>1
    <3> QED
      BY <3>1, <3>2
  <2>8. log[1][i].type # "over"
    <3>1. log[1] \in Seq(Events) /\ i \in 1 .. Len(log[1])
      BY <2>1, SinksAssumption DEF TypeOK, Sinks, Told
    <3>2. log[1][i] \in Events
      BY <3>1
    <3> QED
      BY <3>2 DEF Events, Progress, Outcomes
  <2> QED
    BY <1>2, <2>4, <2>5, <2>6, <2>7, <2>8
<1> QED
  BY <1>1, <1>2

\* The first sink is told of an event of r.
LEMMA FirstSinkHears ==
  ASSUME NumSinks >= 1, SInv, NEW r \in Requests, Publish(r), NEW n, AppendedAt(r, 1, n)
  PROVE  /\ log'[1] = Append(log[1], [request |-> r, type |-> Event(r).type])
         /\ StreamPhase' = [StreamPhase EXCEPT ![r] =
                              IF Event(r).type \in Outcomes THEN "over" ELSE Event(r).type]
         /\ \A q \in Requests : Holds(q)' <=> Holds(q)
         /\ \A q \in Requests \ {r} : Heard(q)' <=> Heard(q)
         /\ Heard(r)' <=> Heard(r) \/ Event(r).type = "initializing"
<1>1. /\ \A q : Told(1, q)' = IF q = r THEN Told(1, r) \cup {n} ELSE Told(1, q)
      /\ \A q : \A i \in Told(1, q) : i \in Nat /\ i < n /\ log'[1][i] = log[1][i]
      /\ log'[1][n] = Event(r) /\ n \in Nat /\ stage[r] + 1 = 1
  BY DEF AppendedAt
<1>2. log'[1] = Append(log[1], [request |-> r, type |-> Event(r).type])
  <2>1. log' = [log EXCEPT ![stage[r] + 1] = Append(@, Event(r))]
    BY DEF Publish
  <2>2. log'[1] = Append(log[1], Event(r))
    <3>1. 1 \in DOMAIN log
      BY SinksAssumption DEF SInv, LInv, IInv, TypeOK, Sinks
    <3> QED
      BY <1>1, <2>1, <3>1
  <2> QED
    BY <2>2 DEF Event
<1>3. \A q \in Requests : Holds(q)' <=> Holds(q)
  BY DEF Publish, Holds, callerVars
<1>4. /\ \A q \in Requests \ {r} : Heard(q)' <=> Heard(q)
      /\ Heard(r)' <=> Heard(r) \/ Event(r).type = "initializing"
  BY <1>1 DEF Heard
<1>5. Max(Told(1, r) \cup {n}) = n
  <2>1. Told(1, r) \cup {n} \subseteq Nat /\ \A j \in Told(1, r) \cup {n} : j =< n
    BY <1>1
  <2> QED
    BY <2>1, LastIs
<1>6. \A q \in Requests \ {r} : StreamPhase'[q] = StreamPhase[q]
  <2> SUFFICES ASSUME NEW q \in Requests \ {r} PROVE StreamPhase'[q] = StreamPhase[q]
    OBVIOUS
  <2>1. Told(1, q)' = Told(1, q)
    BY <1>1
  <2>2. Told(1, q) # {} => log'[1][Max(Told(1, q))].type = log[1][Max(Told(1, q))].type
    <3> SUFFICES ASSUME Told(1, q) # {} PROVE Max(Told(1, q)) \in Told(1, q)
      BY <1>1
    <3>1. PICK i \in Told(1, q) : \A j \in Told(1, q) : j =< i
      BY DEF SInv, LastInv, HasLast
    <3>2. Told(1, q) \subseteq Nat
      BY DEF Told
    <3> QED
      BY <3>1, <3>2, LastIs
  <2> QED
    BY <2>1, <2>2 DEF StreamPhase
<1>7. StreamPhase'[r] = IF Event(r).type \in Outcomes THEN "over" ELSE Event(r).type
  <2>1. Told(1, r)' = Told(1, r) \cup {n} /\ Told(1, r)' # {}
    BY <1>1
  <2> QED
    BY <1>1, <1>5, <2>1 DEF StreamPhase
<1>8. StreamPhase' = [StreamPhase EXCEPT ![r] =
                        IF Event(r).type \in Outcomes THEN "over" ELSE Event(r).type]
  BY <1>6, <1>7 DEF StreamPhase
<1> QED
  BY <1>2, <1>3, <1>4, <1>8

\* What the first sink is told is a step of the abstract stream.
LEMMA FirstEventIsAllowed ==
  ASSUME NumSinks >= 1, SInv, SInv', NEW r \in Requests, Publish(r),
         NEW n, AppendedAt(r, 1, n)
  PROVE  Stream!EventsStep(r)
<1> USE DEF SInv, LInv
<1>1. stage[r] = 0 /\ 1 \in Sinks /\ gate[r] \in {"worker", "caller"} /\ stage[r] \in Nat
  BY SinksAssumption DEF AppendedAt, Publish, IInv, TypeOK, Sinks
<1>2. LogOf(1, r) /\ LinkedRequest(r) /\ (terminal[r] => gate[r] # "worker") /\ TypeOK /\ OneOperation
  BY <1>1 DEF LogInv, IInv, Linked, NoLateProgress, TokenInv
<1>3. ~(1 =< stage[r])
  BY <1>1
<1> DEFINE E == Event(r).type
<1>4. /\ Stream!Hear(r, E)
      /\ StreamPhase' = [StreamPhase EXCEPT ![r] = IF E \in Outcomes THEN "over" ELSE E]
      /\ \A q \in Requests : Holds(q)' <=> Holds(q)
      /\ \A q \in Requests \ {r} : Heard(q)' <=> Heard(q)
      /\ Heard(r)' <=> Heard(r) \/ E = "initializing"
  BY FirstSinkHears DEF Stream!Hear
<1>5. /\ Told(1, r) = {} => StreamPhase[r] = "quiet"
      /\ Begun(1, r) => StreamPhase[r] = "initializing"
      /\ Asked(1, r) /\ Open(1, r) => StreamPhase[r] = "waiting"
      /\ Open(1, r) => StreamPhase[r] # "over"
  BY <1>2, PhaseIs
<1>6. E # "initializing" => StreamHolder' = StreamHolder
  <2> SUFFICES ASSUME E # "initializing" PROVE StreamHolder' = StreamHolder
    OBVIOUS
  <2>1. Known' = Known
    BY <1>4 DEF Known
  <2>2. AnyOf(Known)' = AnyOf(Known)
    BY <2>1 DEF AnyOf
  <2> QED
    BY <2>2, StreamHolderIsKnown
<1>7. CASE gate[r] = "caller"
  <2>1. /\ caller[r] = "publishing" /\ E = verdict[r] /\ verdict[r] \in Outcomes
    BY <1>2, <1>7 DEF LinkedRequest, TypeOK, Event
  <2>2. Open(1, r)
    BY <1>2, <1>3, <2>1 DEF LogOf
  <2>3. E = "success" => StreamPhase[r] = "waiting"
    <3>1. verdict[r] = "success" => result[r] = "ok"
      BY DEF IInv, VerdictInv
    <3> QED
      BY <1>2, <1>5, <2>1, <2>2, <3>1 DEF LogOf
  <2>4. StreamHolder' = StreamHolder
    BY <1>6, <2>1 DEF Outcomes
  <2>5. Stream!Concludes(r, E)
    BY <1>4, <1>5, <2>1, <2>2, <2>3, <2>4 DEF Stream!Concludes
  <2> QED
    BY <2>1, <2>5 DEF Stream!EventsStep, Stream!Verdicts, Outcomes
<1>8. CASE gate[r] = "worker"
  <2>1. worker[r] \in {"initializing", "prompting"} /\ Holds(r)
    BY <1>2, <1>8 DEF LinkedRequest, Holds
  <2>2. OneOperation' /\ Holds(r)'
    BY <1>4, <2>1 DEF IInv, TokenInv
  <2>3. StreamHolder = IF Heard(r) THEN r ELSE NoOne
    BY <1>2, <2>1, StreamHolderIs
  <2>4. CASE worker[r] = "initializing"
    <3>1. E = "initializing" /\ Told(1, r) = {}
      BY <1>2, <1>3, <1>8, <2>4 DEF LogOf, Event
    <3>2. StreamHolder = NoOne
      BY <2>3, <3>1 DEF Heard
    <3>3. StreamHolder' = r
      <4>1. {q \in Requests : Holds(q) /\ Heard(q)}' = {r}
        BY <1>4, <2>2, <3>1 DEF OneOperation
      <4> QED
        BY <4>1, AnyOfOne DEF StreamHolder, Heard
    <3>4. Stream!BeginsToInitialize(r)
      BY <1>4, <1>5, <3>1, <3>2, <3>3 DEF Stream!BeginsToInitialize, Outcomes
    <3> QED
      BY <3>4 DEF Stream!EventsStep
  <2>5. CASE worker[r] = "prompting"
    <3>1. E = "waiting" /\ Begun(1, r)
      BY <1>2, <1>3, <1>8, <2>5 DEF LogOf, Event
    <3>2. StreamHolder = r
      BY <2>3, <3>1 DEF Begun, Heard
    <3>3. Stream!AsksForTouch(r)
      BY <1>4, <1>5, <1>6, <3>1, <3>2 DEF Stream!AsksForTouch, Outcomes
    <3> QED
      BY <3>3 DEF Stream!EventsStep
  <2> QED
    BY <2>1, <2>4, <2>5
<1> QED
  BY <1>1, <1>7, <1>8

\* The token is given back: whoever the sink has heard of leaves the device.
LEMMA ReleaseLeaves ==
  ASSUME SInv, NEW r \in Requests, Release(r)
  PROVE  Stream!LeavesDevice(r) \/ StreamStill
<1>1. /\ log' = log /\ caller' = caller /\ worker' = [worker EXCEPT ![r] = "done"]
      /\ worker[r] = "release" /\ OneOperation /\ worker \in [Requests -> {"none", "initialize",
           "initializing", "ensure", "prompt", "prompting", "granted", "call", "normalize",
           "release", "done"}]
      /\ caller[r] # "begin"
  BY DEF Release, Goto, eventVars, SInv, LInv, IInv, TokenInv, TypeOK, Linked, LinkedRequest, Started
<1>2. \A q : Told(1, q)' = Told(1, q)
  BY <1>1 DEF Told
<1>3. \A q : Heard(q)' <=> Heard(q)
  BY <1>1, <1>2 DEF Heard
<1>4. \A q \in Requests : ~Holds(q)'
  BY <1>1 DEF Holds, OneOperation
<1>5. StreamHolder = IF Heard(r) THEN r ELSE NoOne
  <2>1. Holds(r)
    BY <1>1 DEF Holds
  <2> QED
    BY <1>1, <2>1, StreamHolderIs
<1>6. CASE Heard(r)
  <2>1. StreamHolder' = NoOne
    <3>1. {q \in Requests : Holds(q) /\ Heard(q)}' = {}
      BY <1>4
    <3> QED
      BY <3>1 DEF StreamHolder, Heard, AnyOf
  <2>2. StreamPhase' = StreamPhase
    BY <1>1, <1>2 DEF StreamPhase
  <2> QED
    BY <1>1, <1>5, <1>6, <2>1, <2>2 DEF Stream!LeavesDevice
<1>7. CASE ~Heard(r)
  BY <1>1, <1>3, <1>4, <1>7 DEF StreamStill, Holds, OneOperation
<1> QED
  BY <1>6, <1>7

\* The steps that the stream does not see.
LEMMA OthersAreSilent ==
  ASSUME NumSinks >= 1, SInv, SInv', log'[1] = log[1],
         \/ \A q \in Requests : Holds(q)' <=> Holds(q)
         \/ \E r \in Requests : Acquire(r)
  PROVE  StreamStill
<1>1. \A q : Told(1, q)' = Told(1, q)
  BY DEF Told
<1>2. \A q : Heard(q)' <=> Heard(q)
  BY <1>1 DEF Heard
<1>3. CASE \A q \in Requests : Holds(q)' <=> Holds(q)
  BY <1>2, <1>3 DEF StreamStill
<1>4. ASSUME NEW r \in Requests, Acquire(r) PROVE StreamStill
  <2>1. caller[r] = "acquire" /\ caller' = [caller EXCEPT ![r] = "begin"] /\ worker' = worker
    BY <1>4 DEF Acquire, At
  <2>2. LogOf(1, r) /\ LinkedRequest(r)
    BY SinksAssumption DEF SInv, LInv, LogInv, IInv, Linked, Sinks
  <2>3. ~Heard(r)
    BY <2>1, <2>2 DEF LogOf, LinkedRequest, Started, Heard
  <2>4. \A q \in Requests \ {r} : Holds(q)' <=> Holds(q)
    BY <2>1 DEF Holds
  <2> QED
    BY <1>2, <2>3, <2>4 DEF StreamStill
<1> QED
  BY <1>3, <1>4

\* Whatever the goroutines of the requests do, what the first sink is told is
\* a stream TouchEvents allows: one initializing, one waiting and one outcome of
\* each request in that order, and progress only of the one that holds the token
\* (requestEvents.publishProgress, publishTerminal).
THEOREM FirstSinkSeesTheStream ==
  ASSUME NumSinks >= 1
  PROVE  Spec => SinkSeesTheStream
<1>1. Init => Stream!EventsInit
  <2> SUFFICES ASSUME Init PROVE Stream!EventsInit
    OBVIOUS
  <2>1. log[1] = <<>>
    BY SinksAssumption DEF Init, Sinks
  <2>2. \A r : Told(1, r) = {}
    BY <2>1 DEF Told
  <2>3. \A r \in Requests : ~Holds(r)
    BY DEF Init, Holds
  <2> QED
    BY <2>1, <2>2, <2>3 DEF Stream!EventsInit, StreamPhase, StreamHolder, AnyOf
<1>2. SInv /\ SInv' /\ [Next]_vars => [\E r \in Requests : Stream!EventsStep(r)]_(Stream!streamVars)
  <2> SUFFICES ASSUME SInv, SInv', [Next]_vars
               PROVE  StreamStill \/ \E r \in Requests : Stream!EventsStep(r)
    BY StillStream
  <2>0. IInv /\ IInv' /\ TypeOK
    BY DEF SInv, LInv, IInv
  <2>1. ASSUME NEW r \in Requests, Publish(r)
        PROVE  StreamStill \/ Stream!EventsStep(r)
    <3>1. PICK t, n : AppendedAt(r, t, n)
      BY <2>0, <2>1, Appended
    <3>2. CASE t = 1
      BY <2>1, <3>1, <3>2, FirstEventIsAllowed
    <3>3. CASE t # 1
      <4>1. log'[1] = log[1]
        BY <3>1, <3>3, SinksAssumption DEF AppendedAt, Sinks
      <4>2. \A q \in Requests : Holds(q)' <=> Holds(q)
        BY <2>1 DEF Publish, Holds, callerVars
      <4> QED
        BY <4>1, <4>2, OthersAreSilent
    <3> QED
      BY <3>2, <3>3
  <2>2. ASSUME NEW r \in Requests, Release(r)
        PROVE  StreamStill \/ Stream!EventsStep(r)
    BY <2>2, ReleaseLeaves DEF Stream!EventsStep
  <2>3. ASSUME NEW r \in Requests, Acquire(r)
        PROVE  StreamStill
    BY <2>3, OthersAreSilent DEF Acquire, eventVars
  <2>4. ASSUME NEW r \in Requests, WorkerStep(r)
        PROVE  StreamStill
    <3>1. \A q \in Requests : Holds(q)' <=> Holds(q)
      BY <2>0, <2>4 DEF WorkerStep, Holds, callerVars, TypeOK
    <3> QED
      BY <2>4, <3>1, OthersAreSilent DEF WorkerStep
  <2>5. ASSUME NEW r \in Requests,
               \/ Arrive(r) \/ Begin(r) \/ TakeResult(r) \/ TakeDone(r) \/ CancelOperation(r)
               \/ PublishTerminal(r) \/ Deadline(r) \/ ClientCancel(r) \/ GiveUp(r) \/ End(r)
        PROVE  StreamStill
    <3>1. log' = log
      BY <2>5 DEF Arrive, Begin, TakeResult, TakeDone, CancelOperation, PublishTerminal,
                  Deadline, ClientCancel, Finish, GiveUp, End, eventVars
    <3>2. CASE GiveUp(r) \/ End(r)
      BY <2>0, <3>1, <3>2, OthersAreSilent DEF GiveUp, End, At, Holds, TypeOK
    <3>3. CASE ~(GiveUp(r) \/ End(r))
      <4>1. Unseen
        BY <2>0, <2>5, <3>3, OthersAreUnseen
      <4> QED
        BY <3>1, <4>1, OthersAreSilent DEF Unseen
    <3> QED
      BY <3>2, <3>3
  <2>6. ASSUME NEW i \in 1 .. Cardinality(Requests), Cancel(i)
        PROVE  StreamStill
    BY <2>6, OthersAreSilent DEF Cancel, Holds, callerVars, eventVars
  <2>7. CASE FireCancel \/ UNCHANGED vars
    BY <2>7, OthersAreSilent DEF FireCancel, vars, Holds, callerVars, eventVars
  <2> QED
    BY <2>0, <2>1, <2>2, <2>3, <2>4, <2>5, <2>6, <2>7, WorkerSteps
       DEF Next, RequestStep, Proceed, Work, AllOver
<1> QED
  BY <1>1, <1>2, SInvariance, PTL DEF Spec, SinkSeesTheStream, Stream!EventsSpec
=========================================================================
