-------------------------- MODULE AgeServiceProofs --------------------------
(***************************************************************************)
(* Theorems about AgeService, for any number of requests, connections and  *)
(* sinks.  What is proved of Coordinator holds here as well: the service    *)
(* adds steps that only begin requests and end their contexts.             *)
(***************************************************************************)
EXTENDS AgeService, CoordinatorProofs, FiniteSetTheorems

\* What the device has been to the request, against what its probes found.
AwayOf(r) ==
  /\ found[r] # NoOne => handler[r] \in Probes
  /\ handler[r] \in Probes /\ (device = "absent" \/ found[r] = "absent") => handler[r] \in absence[r]
  /\ handler[r] \in {"interval", "probe2"} => "probe1" \in absence[r]
  /\ handler[r] = "recovery" => Probes \subseteq absence[r]

AwayInv == \A r \in AgeRequests : AwayOf(r)

\* The worker of r has got its helper, the caller of r its outcome.
Served  == {"prompt", "prompting", "granted", "call", "release", "done"}
Settled == {"terminal", "publishing", "ending", "returned"}

\* The request the helper was last used for has not failed.
EarnedOf(r) ==
  /\ worker[r] \in Served /\ result[r] # "error"
  /\ caller[r] \in Settled => verdict[r] = "success"

EarnedInv == \A r \in AgeRequests : session = r => EarnedOf(r)

AInv == LInv /\ ServiceTypeOK /\ AwayInv /\ EarnedInv

-----------------------------------------------------------------------------
(* The steps of the service, as the coordinator sees them.                  *)

LEMMA CoordinatorSees ==
  ASSUME ServiceNext
  PROVE  \/ UNCHANGED ageVars
         \/ UNCHANGED vars /\ Invalidate
         \/ \E r \in AgeRequests : Arrive(r) /\ UNCHANGED helperVars
         \/ \E S, why : why \in {"timeout", "left"} /\ EndContexts(S, why)
         \/ CoordinatorStep
<1>1. ASSUME NEW r \in AgeRequests, Serve(r)
      PROVE  \/ UNCHANGED ageVars
             \/ UNCHANGED vars /\ Invalidate
             \/ Arrive(r) /\ UNCHANGED helperVars
             \/ \E S, why : why \in {"timeout", "left"} /\ EndContexts(S, why)
  <2>1. CASE \/ Accept(r) \/ RejectBusy(r) \/ RefuseRequest(r) \/ ReadRequest(r) \/ Respond(r)
             \/ Decline(r) \/ ProbeReads(r) \/ WaitInterval(r) \/ UnwrapHardware(r) \/ UnwrapRecovery(r)
    BY <2>1 DEF Accept, RejectBusy, RefuseRequest, ReadRequest, Respond, Decline, ProbeReads,
                WaitInterval, UnwrapHardware, UnwrapRecovery, ServerFrame
  <2>2. CASE RequestEnds(r)
    BY <2>2 DEF RequestEnds
  <2>3. CASE ProbeReturns(r)
    BY <2>3 DEF ProbeReturns, ProbeInVain, ProbeConnected, ProbeDistrusted
  <2> QED
    BY <1>1, <2>1, <2>2, <2>3 DEF Serve
<1>2. CASE Plug \/ ServeReturns \/ ServiceOver
  BY <1>2 DEF Plug, ServeReturns, ServiceOver, ServerFrame, allVars
<1>3. CASE Coordinate \/ WatcherInvalidates
  BY <1>3 DEF Coordinate, WatcherInvalidates, DeviceInvalidates
<1>4. CASE Shutdown
  BY <1>4 DEF Shutdown
<1> QED
  BY <1>1, <1>2, <1>3, <1>4 DEF ServiceNext

\* The end of contexts disturbs nothing the coordinator relies on.
LEMMA EndContextsKeeps ==
  ASSUME LInv, NEW S, NEW why \in {"timeout", "left"}, EndContexts(S, why)
  PROVE  LInv' /\ Unseen
<1>1. UNCHANGED <<semaphore, caller, verdict, canceled, worker, result, id, activeNext, activeID,
                  activeStop, claimed, gate, terminal, stage, log, invalid>>
  BY DEF EndContexts, callerVars, activeVars, eventVars
<1>2. \A r \in Requests : ctx'[r] = ctx[r] \/ ctx'[r] = why
  BY DEF EndContexts
<1>3. ctx' \in [Requests -> {"live", "timeout", "canceled", "left"}]
  BY DEF EndContexts, LInv, IInv, TypeOK
<1>4. TypeOK'
  BY <1>1, <1>3 DEF LInv, IInv, TypeOK
<1>5. /\ Linked' /\ TokenInv' /\ NoLateProgress' /\ StopInv' /\ VerdictInv' /\ ActiveInv' /\ FreshProvider'
  BY <1>1 DEF LInv, IInv, Linked, LinkedRequest, Started, TokenInv, OneOperation, Holds, NoLateProgress,
              StopInv, VerdictInv, ActiveInv, FreshProvider
<1>6. DoneInv'
  BY <1>1, <1>2 DEF LInv, DoneInv
<1>7. LogInv'
  <2>1. \A s \in Sinks, r \in Requests : LogOf(s, r)'
    BY <1>1, QuietTold, StillLog DEF LInv, LogInv
  <2> QED
    BY <2>1 DEF LogInv, Sinks
<1>8. Unseen
  BY <1>1 DEF Unseen, Holds, Admitted
<1> QED
  BY <1>4, <1>5, <1>6, <1>7, <1>8 DEF LInv, IInv

LEMMA CoordinatorKept ==
  ASSUME LInv, [ServiceNext]_allVars
  PROVE  LInv' /\ ([Next]_vars \/ Unseen)
<1>1. [Next]_vars => LInv'
  BY LInvNext
<1>2. CASE UNCHANGED vars
  BY <1>1, <1>2
<1>3. ASSUME NEW r \in AgeRequests, Arrive(r) PROVE Next
  BY <1>3 DEF AgeRequests, Next, RequestStep
<1>4. CASE CoordinatorStep
  BY <1>1, <1>4 DEF CoordinatorStep
<1> QED
  BY <1>1, <1>2, <1>3, <1>4, CoordinatorSees, EndContextsKeeps DEF ageVars, allVars

-----------------------------------------------------------------------------
(* Types, and the limit on the connections that are served.                *)

Places == Unwrapping \cup {"queued", "refusing", "reading", "closed"}

PlaceTyped ==
  /\ limit \in Limits /\ server \in {"serving", "stopping", "stopped"}
  /\ handler \in [AgeRequests -> Places]
  /\ found \in [AgeRequests -> {"connected", "absent", "unclear", NoOne}]
  /\ device \in {"connected", "absent"}
  /\ absence \in [AgeRequests -> SUBSET Probes]

OverTyped == over \in [AgeRequests -> BOOLEAN]

HelperTyped == killed \subseteq AgeRequests /\ session \in AgeRequests \cup {NoOne}

RoomInv == Cardinality(Handlers) =< limit

LEMMA ServiceParts ==
  /\ ServiceTypeOK <=> TypeOK /\ PlaceTyped /\ OverTyped /\ HelperTyped /\ RoomInv
  /\ ServiceTypeOK' <=> TypeOK' /\ PlaceTyped' /\ OverTyped' /\ HelperTyped' /\ RoomInv'
BY DEF ServiceTypeOK, PlaceTyped, OverTyped, HelperTyped, RoomInv, Places

LEMMA PlaceTypedNext ==
  ASSUME PlaceTyped, ServiceNext
  PROVE  PlaceTyped'
<1> USE DEF PlaceTyped, serviceVars, Unwrapping, Places, Probes
<1>1. ASSUME NEW r \in AgeRequests, Serve(r) PROVE PlaceTyped'
  <2>1. CASE Accept(r) \/ RejectBusy(r) \/ RefuseRequest(r) \/ Respond(r)
    BY <2>1 DEF Accept, RejectBusy, RefuseRequest, Respond, ServerFrame, Go, Accepted
  <2>2. CASE ReadRequest(r)
    BY <2>2 DEF ReadRequest, Go, Away
  <2>3. CASE RequestEnds(r)
    BY <2>3 DEF RequestEnds, EndContexts
  <2>4. CASE Decline(r) \/ UnwrapHardware(r) \/ UnwrapRecovery(r)
    BY <2>4 DEF Decline, UnwrapHardware, UnwrapRecovery, Return, Go, ServiceFrame
  <2>5. CASE ProbeReads(r)
    BY <2>5 DEF ProbeReads, ServiceFrame
  <2>6. CASE ProbeReturns(r)
    BY <2>6 DEF ProbeReturns, ProbeInVain, ProbeConnected, ProbeDistrusted, Return, Go, ServiceFrame
  <2>7. CASE WaitInterval(r)
    BY <2>7 DEF WaitInterval, Return, Go, Away, ServiceFrame
  <2> QED
    BY <1>1, <2>1, <2>2, <2>3, <2>4, <2>5, <2>6, <2>7 DEF Serve
<1>2. CASE Plug
  BY <1>2 DEF Plug, Away
<1>3. CASE Shutdown
  BY <1>3 DEF Shutdown, EndContexts, Accepted
<1>4. CASE Coordinate \/ WatcherInvalidates \/ ServeReturns \/ ServiceOver
  BY <1>4 DEF Coordinate, WatcherInvalidates, ServeReturns, ServiceOver, ServerFrame, allVars
<1> QED
  BY <1>1, <1>2, <1>3, <1>4 DEF ServiceNext

LEMMA OverTypedNext ==
  ASSUME OverTyped, ServiceNext
  PROVE  OverTyped'
<1> USE DEF OverTyped, serviceVars
<1>0. ASSUME UNCHANGED over PROVE OverTyped'
  BY <1>0
<1>1. ASSUME NEW S, NEW why, EndContexts(S, why) PROVE OverTyped'
  <2>1. \A r \in AgeRequests : (over[r] \/ r \in S) \in BOOLEAN
    OBVIOUS
  <2> QED
    BY <1>1, <2>1 DEF EndContexts
<1>2. ASSUME NEW r \in AgeRequests, Serve(r) PROVE OverTyped'
  <2>1. CASE Accept(r) \/ RejectBusy(r) \/ RefuseRequest(r) \/ Respond(r) \/ ProbeReads(r)
    BY <1>0, <2>1 DEF Accept, RejectBusy, RefuseRequest, Respond, ServerFrame, ProbeReads
  <2>2. CASE ReadRequest(r)
    <3>1. (server # "serving") \in BOOLEAN
      OBVIOUS
    <3> QED
      BY <2>2, <3>1 DEF ReadRequest
  <2>3. CASE RequestEnds(r)
    BY <1>1, <2>3 DEF RequestEnds
  <2>4. CASE Decline(r) \/ UnwrapHardware(r) \/ UnwrapRecovery(r) \/ WaitInterval(r)
    BY <2>4 DEF Decline, UnwrapHardware, UnwrapRecovery, WaitInterval, Return
  <2>5. CASE ProbeReturns(r)
    BY <2>5 DEF ProbeReturns, ProbeInVain, ProbeConnected, ProbeDistrusted, Return
  <2> QED
    BY <1>2, <2>1, <2>2, <2>3, <2>4, <2>5 DEF Serve
<1>3. CASE Shutdown
  BY <1>1, <1>3 DEF Shutdown
<1>4. CASE Plug \/ Coordinate \/ WatcherInvalidates \/ ServeReturns \/ ServiceOver
  BY <1>0, <1>4 DEF Plug, Coordinate, WatcherInvalidates, ServeReturns, ServiceOver, ServerFrame, allVars
<1> QED
  BY <1>2, <1>3, <1>4 DEF ServiceNext

LEMMA HelperTypedNext ==
  ASSUME HelperTyped, ServiceNext
  PROVE  HelperTyped'
<1>1. ASSUME Invalidate PROVE HelperTyped'
  BY <1>1 DEF HelperTyped, Invalidate, ActiveCalls
<1>2. CASE CoordinatorStep
  BY <1>1, <1>2 DEF CoordinatorStep, HelperTyped, NextSessions, Leaves
<1>3. ASSUME NEW S, NEW why, EndContexts(S, why) PROVE HelperTyped'
  BY <1>3 DEF EndContexts, helperVars, HelperTyped
<1> QED
  BY <1>1, <1>2, <1>3, CoordinatorSees DEF ageVars, helperVars, HelperTyped

\* One more connection is only served while there is room.
LEMMA RoomPreserved ==
  ASSUME PlaceTyped, RoomInv, ServiceNext
  PROVE  RoomInv'
<1> USE DEF PlaceTyped, Unwrapping, Probes, Places
<1>0. limit' = limit /\ limit \in Nat
  BY LimitsAssumption DEF ServiceNext, Serve, Accept, RejectBusy, RefuseRequest, Respond, ServerFrame,
     ReadRequest, RequestEnds, EndContexts, Decline, UnwrapHardware, UnwrapRecovery, ServiceFrame,
     ProbeReads, ProbeReturns, WaitInterval, Plug, Shutdown, Coordinate, WatcherInvalidates,
     ServeReturns, ServiceOver, allVars, serviceVars
<1>1. IsFiniteSet(Handlers) /\ Cardinality(Handlers) \in Nat
  <2>1. IsFiniteSet(Requests) /\ Handlers \in SUBSET Requests
    BY RequestsAssumption DEF Handlers, AgeRequests
  <2> QED
    BY <2>1, FS_Subset, FS_CardinalityType
<1>2. ASSUME Handlers' \subseteq Handlers PROVE RoomInv'
  <2>1. Cardinality(Handlers') =< Cardinality(Handlers) /\ Cardinality(Handlers') \in Nat
    BY <1>1, <1>2, FS_Subset, FS_CardinalityType
  <2> QED
    BY <1>0, <1>1, <2>1 DEF RoomInv
<1>3. ASSUME NEW r \in AgeRequests, Handlers' \subseteq Handlers \cup {r},
             Cardinality(Handlers) < limit
      PROVE  RoomInv'
  <2>1. /\ IsFiniteSet(Handlers \cup {r})
        /\ Cardinality(Handlers \cup {r}) =< Cardinality(Handlers) + 1
    <3>1. /\ IsFiniteSet(Handlers \cup {r})
          /\ Cardinality(Handlers \cup {r}) =
               IF r \in Handlers THEN Cardinality(Handlers) ELSE Cardinality(Handlers) + 1
      BY <1>1, FS_AddElement, Zenon
    <3> QED
      BY <1>1, <3>1
  <2>2. /\ Cardinality(Handlers') =< Cardinality(Handlers \cup {r})
        /\ Cardinality(Handlers') \in Nat /\ Cardinality(Handlers \cup {r}) \in Nat
    BY <1>3, <2>1, FS_Subset, FS_CardinalityType
  <2> QED
    BY <1>0, <1>1, <1>3, <2>1, <2>2 DEF RoomInv
<1>4. ASSUME NEW r \in AgeRequests, Accept(r) PROVE RoomInv'
  <2>1. CASE Cardinality(Handlers) < limit
    BY <1>3, <1>4, <2>1 DEF Accept, Go, Accepted, Handlers
  <2>2. CASE ~(Cardinality(Handlers) < limit)
    BY <1>2, <1>4, <2>2 DEF Accept, Go, Accepted, Handlers
  <2> QED
    BY <2>1, <2>2
<1>5. CASE Shutdown
  <2>1. PICK late \in {NoOne} \cup AgeRequests :
          handler' = [r \in AgeRequests |-> IF handler[r] # "queued" THEN handler[r]
                                           ELSE IF r = late THEN Accepted ELSE "closed"]
    BY <1>5 DEF Shutdown
  <2>2. CASE Cardinality(Handlers) < limit /\ late \in AgeRequests
    BY <1>3, <2>1, <2>2 DEF Handlers
  <2>3. CASE ~(Cardinality(Handlers) < limit) \/ late \notin AgeRequests
    BY <1>2, <2>1, <2>3 DEF Handlers, Accepted
  <2> QED
    BY <2>2, <2>3
<1>6. ASSUME NEW r \in AgeRequests, Serve(r), ~Accept(r) PROVE RoomInv'
  <2>1. \/ handler' = handler
        \/ /\ handler[r] \notin {"queued", "refusing", "closed"}
           /\ \E to \in Places : handler' = [handler EXCEPT ![r] = to]
        \/ handler' = [handler EXCEPT ![r] = "closed"]
    BY <1>6 DEF Serve, RejectBusy, RefuseRequest, ReadRequest, RequestEnds, Respond, Decline,
       ProbeReads, ProbeReturns, ProbeInVain, ProbeConnected, ProbeDistrusted, WaitInterval,
       UnwrapHardware, UnwrapRecovery, Return, Go
  <2> QED
    BY <1>2, <1>6, <2>1 DEF Handlers
<1>7. CASE Plug \/ Coordinate \/ WatcherInvalidates \/ ServeReturns \/ ServiceOver
  <2>1. handler' = handler
    BY <1>7 DEF Plug, Coordinate, WatcherInvalidates, ServeReturns, ServiceOver, serviceVars, allVars
  <2> QED
    BY <1>2, <2>1 DEF Handlers
<1> QED
  BY <1>4, <1>5, <1>6, <1>7 DEF ServiceNext

-----------------------------------------------------------------------------
(* The recovery path.                                                      *)

LEMMA AwayPreserved ==
  ASSUME PlaceTyped, AwayInv, ServiceNext
  PROVE  AwayInv'
<1> USE FoundAssumption DEF PlaceTyped, AwayInv, AwayOf, Unwrapping, Probes, Places
<1>1. ASSUME UNCHANGED <<handler, found, device, absence>> PROVE AwayInv'
  BY <1>1
<1>2. ASSUME NEW r \in AgeRequests, Serve(r) PROVE AwayInv'
  <2>1. CASE Accept(r) \/ RejectBusy(r) \/ RefuseRequest(r) \/ Respond(r)
    BY <2>1 DEF Accept, RejectBusy, RefuseRequest, Respond, ServerFrame, Go, Accepted
  <2>2. CASE ReadRequest(r)
    BY <2>2 DEF ReadRequest, Go, Away
  <2>3. CASE RequestEnds(r)
    BY <1>1, <2>3 DEF RequestEnds, EndContexts
  <2>4. CASE Decline(r) \/ UnwrapHardware(r) \/ UnwrapRecovery(r)
    BY <2>4 DEF Decline, UnwrapHardware, UnwrapRecovery, Return, Go, ServiceFrame
  <2>5. CASE ProbeReads(r)
    BY <2>5 DEF ProbeReads, ServiceFrame
  <2>6. CASE ProbeReturns(r)
    BY <2>6 DEF ProbeReturns, ProbeInVain, ProbeConnected, ProbeDistrusted, Return, Go, ServiceFrame
  <2>7. CASE WaitInterval(r)
    BY <2>7 DEF WaitInterval, Return, Go, Away, ServiceFrame
  <2> QED
    BY <1>2, <2>1, <2>2, <2>3, <2>4, <2>5, <2>6, <2>7 DEF Serve
<1>3. CASE Plug
  BY <1>3 DEF Plug, Away
<1>4. CASE Shutdown
  BY <1>4 DEF Shutdown, EndContexts, Accepted
<1>5. CASE Coordinate \/ WatcherInvalidates \/ ServeReturns \/ ServiceOver
  BY <1>1, <1>5 DEF Coordinate, WatcherInvalidates, ServeReturns, ServiceOver, ServerFrame, allVars,
                    serviceVars
<1> QED
  BY <1>2, <1>3, <1>4, <1>5 DEF ServiceNext

-----------------------------------------------------------------------------
(* The retained session.                                                   *)

\* What a step of the coordinator may do to a request that has got its helper.
StaysEarned(r) ==
  /\ worker'[r] \in Served
  /\ caller'[r] \in Settled => verdict'[r] = "success"
  /\ result'[r] = "error" =>
       /\ worker[r] = "call" /\ worker'[r] = "release"
       /\ \A q \in Requests \ {r} : worker'[q] = worker[q]

\* ... and does, if it does not cancel it.
LEMMA EarnedStep ==
  ASSUME IInv, DoneInv, NEW r \in AgeRequests, EarnedOf(r), Next, ~CancelOperation(r)
  PROVE  StaysEarned(r)
<1> USE NoOneAssumption DEF IInv, TypeOK, EarnedOf, Served, Settled, callerVars, activeVars, eventVars,
           StaysEarned
<1>0. r \in Requests /\ r \notin SSHRequests /\ LinkedRequest(r)
  BY DEF AgeRequests, Linked
<1>1. ASSUME NEW q \in Requests \ {r}, Arrive(q) \/ Proceed(q) \/ Work(q) \/ CallReturns(q)
      PROVE  StaysEarned(r)
  BY <1>0, <1>1, OthersStill
<1>2. ASSUME NEW q \in Requests, Publish(q) \/ Deadline(q) \/ ClientCancel(q)
      PROVE  StaysEarned(r)
  BY <1>2 DEF Publish, Deadline, ClientCancel, Finish
<1>3. ASSUME NEW i, Cancel(i) PROVE StaysEarned(r)
  BY <1>3 DEF Cancel
<1>4. CASE FireCancel \/ AllOver
  BY <1>4 DEF FireCancel, AllOver, vars
<1>5. CASE Arrive(r) \/ Acquire(r) \/ GiveUp(r) \/ Begin(r)
  BY <1>0, <1>5 DEF Arrive, Acquire, GiveUp, Begin, At, LinkedRequest, Started
<1>6. CASE TakeResult(r) \/ TakeDone(r) \/ PublishTerminal(r) \/ End(r)
  BY <1>0, <1>6 DEF TakeResult, TakeDone, PublishTerminal, End, At
<1>7. CASE Initialize(r) \/ Ensure(r) \/ FailSigning(r)
  BY <1>0, <1>7 DEF Initialize, Ensure, FailSigning, ProgressStep, Goto, Report
<1>8. CASE Prompt(r) \/ Grant(r)
  BY <1>0, <1>8 DEF Prompt, Grant, ProgressStep, Goto, Report, ContextErr, WorkerUnchanged
<1>9. CASE CallReturns(r)
  <2>1. /\ worker[r] = "call" /\ worker' = [worker EXCEPT ![r] = "release"]
        /\ UNCHANGED <<caller, verdict>>
    BY <1>0, <1>9 DEF CallReturns, Goto, Report, WorkerUnchanged
  <2> QED
    BY <1>0, <2>1
<1>10. CASE Release(r)
  BY <1>0, <1>10 DEF Release, Goto
<1> HIDE DEF IInv, TypeOK, EarnedOf, Served, Settled, callerVars, activeVars, eventVars, StaysEarned
<1>11. ASSUME NEW q \in Requests, RequestStep(q) PROVE StaysEarned(r)
  <2>1. CASE q = r
    BY <1>2, <1>5, <1>6, <1>7, <1>8, <1>9, <1>10, <1>11, <2>1 DEF RequestStep, Proceed, Work
  <2>2. CASE q # r
    BY <1>1, <1>2, <1>11, <2>2 DEF RequestStep
  <2> QED
    BY <2>1, <2>2
<1> QED
  BY <1>3, <1>4, <1>11 DEF Next

\* Only a request whose context is live gets its helper.
LEMMA EnsureIsLive ==
  ASSUME IInv, NEW r \in Requests, Next, worker[r] = "ensure", worker'[r] = "prompt"
  PROVE  ctx'[r] = "live" /\ result'[r] = result[r]
<1> USE DEF IInv, TypeOK, callerVars, activeVars, eventVars
<1>1. ASSUME NEW q \in Requests \ {r}, Arrive(q) \/ Proceed(q) \/ Work(q) \/ CallReturns(q)
      PROVE  worker'[r] = worker[r]
  BY <1>1, OthersStill
<1>2. ASSUME NEW q \in Requests, Publish(q) \/ Deadline(q) \/ ClientCancel(q)
      PROVE  worker' = worker
  BY <1>2 DEF Publish, Deadline, ClientCancel, Finish
<1>3. ASSUME NEW i, Cancel(i) PROVE worker' = worker
  BY <1>3 DEF Cancel
<1>4. CASE FireCancel \/ AllOver
  BY <1>4 DEF FireCancel, AllOver, vars
<1>5. CASE Arrive(r) \/ Proceed(r)
  BY <1>5 DEF Arrive, Proceed, Acquire, GiveUp, Begin, TakeResult, TakeDone, CancelOperation,
              PublishTerminal, End
<1>6. CASE Ensure(r)
  BY <1>6 DEF Ensure, Goto, Report, WorkerUnchanged
<1>7. CASE Initialize(r) \/ Prompt(r) \/ Grant(r) \/ FailSigning(r) \/ Release(r) \/ CallReturns(r)
  BY <1>7 DEF Initialize, Prompt, Grant, FailSigning, Release, CallReturns, ProgressStep, Goto, Report
<1> QED
  BY <1>1, <1>2, <1>3, <1>4, <1>5, <1>6, <1>7 DEF Next, RequestStep, Work

LEMMA EarnedByCoordinator ==
  ASSUME IInv, DoneInv, IInv', DoneInv', EarnedInv, CoordinatorStep
  PROVE  EarnedInv'
<1> SUFFICES ASSUME NEW r \in AgeRequests, session' = r
             PROVE  EarnedOf(r)'
  BY DEF EarnedInv, AgeRequests
<1>0. r \in Requests /\ r # NoOne /\ Next
  BY RequestsAssumption DEF AgeRequests, CoordinatorStep
<1>1. Canceling = {} /\ session' \in NextSessions /\ ~CancelOperation(r)
  BY <1>0 DEF CoordinatorStep, Invalidate, Canceling
<1>2. CASE r \in Leaves("ensure", "prompt")
  <2>1. ctx'[r] = "live" /\ worker'[r] = "prompt"
    BY <1>0, <1>2, EnsureIsLive DEF Leaves
  <2>2. result'[r] = NoOne
    BY <1>0, <2>1 DEF IInv, Linked, LinkedRequest
  <2>3. caller'[r] \notin Settled
    BY <1>0, <2>1, <2>2 DEF DoneInv, Settled
  <2> QED
    BY <2>1, <2>2, <2>3, NoOneAssumption DEF EarnedOf, Served
<1>3. CASE r \notin Leaves("ensure", "prompt")
  <2>1. /\ session = r
        /\ \/ Leaves("ensure", "release") # {}
           \/ \A q \in Leaves("call", "release") : result'[q] = "ok"
    BY <1>0, <1>1, <1>3 DEF NextSessions
  <2>2. EarnedOf(r)
    BY <2>1 DEF EarnedInv
  <2>3. /\ worker'[r] \in Served
        /\ caller'[r] \in Settled => verdict'[r] = "success"
        /\ result'[r] = "error" =>
             /\ worker[r] = "call" /\ worker'[r] = "release"
             /\ \A q \in Requests \ {r} : worker'[q] = worker[q]
    BY <1>0, <1>1, <2>2, EarnedStep DEF StaysEarned
  <2>4. result'[r] # "error"
    BY <2>1, <2>3 DEF Leaves, AgeRequests
  <2> QED
    BY <2>3, <2>4 DEF EarnedOf
<1> QED
  BY <1>2, <1>3

LEMMA EarnedPreserved ==
  ASSUME IInv, DoneInv, IInv', DoneInv', EarnedInv, ServiceNext
  PROVE  EarnedInv'
<1>1. CASE UNCHANGED ageVars
  BY <1>1 DEF ageVars, vars, callerVars, helperVars, EarnedInv, EarnedOf
<1>2. CASE Invalidate
  BY <1>2, RequestsAssumption DEF Invalidate, EarnedInv, AgeRequests
<1>3. ASSUME NEW S, NEW why, EndContexts(S, why) PROVE EarnedInv'
  BY <1>3 DEF EndContexts, callerVars, helperVars, EarnedInv, EarnedOf
<1>4. ASSUME NEW r \in AgeRequests, Arrive(r), UNCHANGED helperVars PROVE EarnedInv'
  <2>1. /\ UNCHANGED <<session, worker, result, verdict>>
        /\ \A q \in AgeRequests : caller'[q] \in Settled => caller[q] \in Settled
    BY <1>4 DEF Arrive, At, helperVars, IInv, TypeOK, Settled, AgeRequests
  <2> QED
    BY <2>1 DEF EarnedInv, EarnedOf
<1> QED
  BY <1>1, <1>2, <1>3, <1>4, CoordinatorSees, EarnedByCoordinator

-----------------------------------------------------------------------------
LEMMA AInvInit == ServiceInit => AInv
<1> SUFFICES ASSUME ServiceInit PROVE AInv
  OBVIOUS
<1>1. LInv /\ TypeOK
  BY LInvInit DEF ServiceInit, AgeInit, LInv, IInv
<1>2. PlaceTyped /\ OverTyped /\ HelperTyped /\ AwayInv /\ EarnedInv
  BY FoundAssumption, RequestsAssumption
     DEF ServiceInit, AgeInit, PlaceTyped, OverTyped, HelperTyped, AwayInv, AwayOf, EarnedInv, Places,
         Unwrapping, Probes, AgeRequests
<1>3. RoomInv
  <2>1. Handlers = {}
    BY DEF ServiceInit, Handlers, Unwrapping, Probes
  <2>2. limit \in Nat
    BY LimitsAssumption DEF ServiceInit
  <2> QED
    BY <2>1, <2>2, FS_EmptySet DEF RoomInv
<1> QED
  BY <1>1, <1>2, <1>3, ServiceParts DEF AInv

LEMMA AInvNext == AInv /\ [ServiceNext]_allVars => AInv'
<1> SUFFICES ASSUME AInv, [ServiceNext]_allVars PROVE AInv'
  OBVIOUS
<1>1. LInv' /\ TypeOK' /\ IInv /\ DoneInv /\ IInv' /\ DoneInv'
  BY CoordinatorKept DEF AInv, LInv, IInv
<1>2. CASE ServiceNext
  BY <1>1, <1>2, ServiceParts, PlaceTypedNext, OverTypedNext, HelperTypedNext, RoomPreserved,
     AwayPreserved, EarnedPreserved DEF AInv
<1>3. CASE UNCHANGED allVars
  <2>1. PlaceTyped' /\ OverTyped' /\ HelperTyped' /\ RoomInv'
    BY <1>3, ServiceParts DEF AInv, allVars, ageVars, helperVars, serviceVars, PlaceTyped, OverTyped,
                              HelperTyped, RoomInv, Handlers
  <2>2. AwayInv' /\ EarnedInv'
    BY <1>3 DEF AInv, allVars, ageVars, helperVars, serviceVars, vars, callerVars, AwayInv, AwayOf,
                EarnedInv, EarnedOf
  <2> QED
    BY <1>1, <2>1, <2>2, ServiceParts DEF AInv
<1> QED
  BY <1>2, <1>3

LEMMA AInvariance == ServiceSpec => []AInv
BY AInvInit, AInvNext, PTL DEF ServiceSpec

\* No more age connections are served at once than Server.MaxConcurrent, whatever
\* is accepted while the server shuts down; and all variables stay in their types.
THEOREM ServiceTyping == ServiceSpec => []ServiceTypeOK
<1>1. AInv => ServiceTypeOK
  BY DEF AInv
<1> QED
  BY <1>1, AInvariance, PTL

\* What the service adds to the coordinator (contexts that end together, requests
\* it begins) leaves the device to one operation at a time (RunCancelableFor).
THEOREM ServiceMutualExclusion == ServiceSpec => []OneOperation
<1>1. AInv => OneOperation
  BY DEF AInv, LInv, IInv, TokenInv
<1> QED
  BY <1>1, AInvariance, PTL

\* The coordinator keeps the promise of TouchGate under the age service too, where
\* contexts end from outside and requests begin only after two probes: one operation
\* at a time, one outcome per request, success only of one that succeeded.
THEOREM ServiceKeepsThePromise == ServiceSpec => KeepsThePromise
<1>1. ServiceInit => Gate!GateInit
  BY GateBegins DEF ServiceInit, AgeInit
<1>2. AInv /\ [ServiceNext]_allVars => [Gate!GateNext]_(Gate!gateVars)
  <2> SUFFICES ASSUME AInv, [ServiceNext]_allVars PROVE [Gate!GateNext]_(Gate!gateVars)
    OBVIOUS
  <2>1. IInv /\ IInv' /\ ([Next]_vars \/ Unseen)
    BY CoordinatorKept DEF AInv, LInv
  <2>2. CASE Unseen
    BY <2>2, UnseenIsStutter DEF Gate!gateVars
  <2> QED
    BY <2>1, <2>2, GateStep
<1> QED
  BY <1>1, <1>2, AInvariance, PTL DEF ServiceSpec, KeepsThePromise, Gate!GateSpec

\* The daemon's sinks are told the outcome of every age request too, when its
\* connection, its timeout or the shutdown ends it (requestEvents.publishTerminal).
THEOREM ServiceOutcomePublished == ServiceSpec => []OutcomeIsPublished
<1>1. AInv => OutcomeIsPublished
  BY LogTellsOutcome DEF AInv
<1> QED
  BY <1>1, AInvariance, PTL

\* A request reaches its recovery key only if the device was away during two
\* probes: neither a probe that failed nor a device that came back in between
\* leads there (Service.Unwrap, probeDevice).
THEOREM RecoveryNeedsAbsence == ServiceSpec => []RecoveryWasAway
<1>1. AInv => RecoveryWasAway
  <2> SUFFICES ASSUME AInv, NEW r \in AgeRequests, handler[r] = "recovery"
               PROVE  absence[r] = Probes
    BY DEF RecoveryWasAway
  <2>1. Probes \subseteq absence[r] /\ absence[r] \subseteq Probes
    BY DEF AInv, AwayInv, AwayOf, ServiceTypeOK
  <2> QED
    BY <2>1
<1> QED
  BY <1>1, AInvariance, PTL

\* A helper that stays for the next request was last used for one that was told
\* success, whatever raced with its result (ageRunner.CancelCurrent,
\* unwrapHardware).
THEOREM RetainedIsEarned == ServiceSpec => []SessionIsEarned
<1>1. AInv => SessionIsEarned
  BY DEF AInv, EarnedInv, EarnedOf, Settled, SessionIsEarned
<1> QED
  BY <1>1, AInvariance, PTL

\* A helper call is ended by its own cancelation, by the watcher, by a failed probe
\* whose client still waits, or by a cancelation that comes too late, and by nothing
\* else: a request that gives up ends no call but its own (Service.Unwrap's look at
\* its context before it invalidates; cancelOperation while its worker still holds
\* the token).
THEOREM GivingUpIsPrivate == ServiceSpec => GivingUpSparesOthers
<1> DEFINE Justified(r) == \/ CancelOperation(r) \/ WatcherInvalidates
                          \/ \E q \in AgeRequests : ProbeFails(q) \/ CanceledLate(q)
<1>1. ASSUME AInv, NEW q \in AgeRequests, Serve(q), killed' # killed
      PROVE  ProbeFails(q)
  <2>1. CASE ProbeReturns(q)
    <3>1. ProbeDistrusted(q) /\ handler[q] \in Probes
      BY <1>1, <2>1 DEF ProbeReturns, ProbeInVain, ProbeConnected, ageVars, helperVars
    <3>2. \E to \in {"returning", "interval", "recovery"} : Go(q, handler[q], to)
      BY <3>1 DEF ProbeDistrusted, Return, Go
    <3>3. handler'[q] # handler[q]
      BY <1>1, <3>1, <3>2 DEF AInv, ServiceTypeOK, Go, Probes
    <3> QED
      BY <3>1, <3>3 DEF ProbeDistrusted, ProbeFails
  <2>2. CASE RequestEnds(q)
    BY <1>1, <2>2 DEF RequestEnds, EndContexts, helperVars
  <2>3. CASE \/ Accept(q) \/ RejectBusy(q) \/ RefuseRequest(q) \/ ReadRequest(q) \/ Respond(q)
             \/ Decline(q) \/ ProbeReads(q) \/ WaitInterval(q) \/ UnwrapHardware(q) \/ UnwrapRecovery(q)
    BY <1>1, <2>3 DEF Accept, RejectBusy, RefuseRequest, ReadRequest, Respond, ServerFrame, Decline,
       ProbeReads, WaitInterval, UnwrapHardware, UnwrapRecovery, ageVars, helperVars
  <2> QED
    BY <1>1, <2>1, <2>2, <2>3 DEF Serve
<1>2. ASSUME AInv, NEW q \in AgeRequests, CancelOperation(q), worker[q] # "done"
      PROVE  ActiveCalls \subseteq {q}
  <2>1. /\ caller[q] = "cancelling" /\ q \in Requests
        /\ LinkedRequest(q) /\ OneOperation
    BY <1>2 DEF CancelOperation, At, AInv, LInv, IInv, TypeOK, AgeRequests, Linked, TokenInv
  <2>2. Holds(q)
    BY <1>2, <2>1 DEF Holds, LinkedRequest, Started
  <2> QED
    BY <2>1, <2>2 DEF ActiveCalls, AgeRequests, OneOperation, Holds
<1>3. ASSUME AInv, CoordinatorStep, NEW r \in killed' \ killed
      PROVE  Justified(r)
  <2>1. Canceling # {} /\ r \in ActiveCalls
    BY <1>3 DEF CoordinatorStep, Invalidate
  <2>2. PICK q \in AgeRequests : CancelOperation(q)
    BY <2>1 DEF Canceling
  <2>3. CASE worker[q] = "done"
    BY <2>2, <2>3 DEF CanceledLate
  <2>4. CASE worker[q] # "done"
    BY <1>2, <1>3, <2>1, <2>2, <2>4
  <2> QED
    BY <2>3, <2>4
<1>4. AInv /\ [ServiceNext]_allVars =>
        [\A r \in killed' \ killed :
           \/ CancelOperation(r) \/ WatcherInvalidates
           \/ \E q \in AgeRequests : ProbeFails(q) \/ CanceledLate(q)]_allVars
  <2> SUFFICES ASSUME AInv, ServiceNext, NEW r \in killed' \ killed PROVE Justified(r)
    OBVIOUS
  <2>1. ASSUME NEW q \in AgeRequests, Serve(q) PROVE Justified(r)
    BY <1>1, <2>1
  <2>2. CASE Coordinate
    BY <1>3, <2>2 DEF Coordinate
  <2>3. CASE Plug \/ Shutdown \/ ServeReturns \/ ServiceOver
    BY <2>3 DEF Plug, Shutdown, EndContexts, ServeReturns, ServerFrame, ServiceOver, allVars, ageVars, helperVars
  <2> QED
    BY <2>1, <2>2, <2>3 DEF ServiceNext
<1> QED
  BY <1>4, AInvariance, PTL DEF ServiceSpec, GivingUpSparesOthers
=============================================================================
