------------------------ MODULE HardwareManagerProofs ------------------------
(***************************************************************************)
(* Theorems about HardwareManager, for any numbers of requests and         *)
(* outsiders and any request limit: one helper at a time, none that is     *)
(* lost to the manager, and none that outlives an invalidation.            *)
(***************************************************************************)
EXTENDS HardwareManager, TLAPS

Shapes ==
  /\ DOMAIN caller = Requests /\ DOMAIN ctx = Requests /\ DOMAIN proc = Requests
  /\ DOMAIN exchange = Requests /\ DOMAIN ready = Requests /\ DOMAIN verdict = Requests
  /\ DOMAIN life = Requests
  /\ DOMAIN outsider = Outsiders /\ DOMAIN taken = Outsiders
  /\ process \in Requests \cup {NoOne} /\ active \in Requests \cup {NoOne}

\* A request that is inside Start, and an outsider inside invalidate.
Starting(r) == caller[r] \in {"retire", "launch", "register", "abandon"}
Reaping(o)  == outsider[o] \in {"invalidate", "reaping"}

\* They have lifecycle to themselves; a Start has mu as well, so that nobody
\* poisons the manager under it.
Locks ==
  /\ \A r \in Requests : Starting(r) => lifecycle = r /\ mu = r /\ ~closed /\ ~poisoned
  /\ \A o \in Outsiders : Reaping(o) => lifecycle = o

\* What the manager retains meanwhile.
Retained ==
  /\ \A r \in Requests : caller[r] \in {"retire", "launch", "abandon"} => process = NoOne
  /\ \A r \in Requests : caller[r] = "register" => process = proc[r] /\ proc[r] \in Requests
  /\ \A o \in Outsiders : Reaping(o) => process = NoOne
  /\ closed => process = NoOne

\* A request has a call, and the call a helper, once it is registered; how the call
\* ended is known before it is joined, and a helper that is left over by then has
\* poisoned the manager.
CallShape(r) ==
  /\ life[r] \in {"none", "live", "stopping", "reaped", "leftover"}
  /\ caller[r] = "idle" \/ Starting(r) => exchange[r] = "none"
  /\ exchange[r] = "none" => verdict[r] = NoOne /\ ready[r] = NoOne
  /\ exchange[r] # "none" => proc[r] \in Requests
  /\ caller[r] \in {"idle", "retire", "launch"} => life[r] = "none"
  /\ exchange[r] \in {"joining", "finishing", "done"} => verdict[r] \in {"key", "error"}
  /\ verdict[r] = "error" /\ life[proc[r]] = "leftover" => poisoned

Calls == \A r \in Requests : CallShape(r)

\* The active call goes on, and is the one an invalidation waits for.
Active ==
  /\ active # NoOne => exchange[active] \notin {"none", "done"}
  /\ \A o \in Outsiders : Reaping(o) => active \in {NoOne, taken[o].call}

\* A helper is held by the manager, by a Start that ends it, or by an invalidation.
Held(h) ==
  \/ process = h
  \/ \E r \in Requests : caller[r] \in {"retire", "abandon"} /\ proc[r] = h
  \/ \E o \in Outsiders : Reaping(o) /\ taken[o].process = h

\* Whatever is left of a helper is held, or has poisoned the manager.
Unclean(h) == life[h] \in {"live", "stopping", "leftover"}
Accounted == \A h \in Requests : Unclean(h) => Held(h) \/ (life[h] = "leftover" /\ poisoned)
Single    == \A g, h \in Requests : Unclean(g) /\ Unclean(h) => g = h

IInv ==
  /\ Shapes /\ Locks /\ Retained /\ Calls /\ Active /\ Accounted /\ Single
  /\ FailureMeansReaped /\ NoHelperIsLost

-----------------------------------------------------------------------------
(* Most steps belong to a call that has begun, to a helper or to a canceler. *)

\* A helper is stopped, and its end comes; nothing else happens to its life.
Ages ==
  \A h \in Requests :
    \/ life'[h] = life[h]
    \/ life[h] = "live" /\ life'[h] = "stopping"
    \/ life[h] = "stopping" /\ life'[h] \in {"reaped", "leftover"}

OfCall(r) ==
  \/ WaitReady(r) \/ Continue(r) \/ WaitReturns(r) \/ Skip(r) \/ ContextEnds(r)
  \/ WriteRequest(r) \/ TakeFrame(r) \/ NoFrame(r) \/ Join(r) \/ Watch(r)
  \/ StopEnds(r) \/ HelperAnswers(r) \/ ReaderEnds(r)

OfCanceler(o) == CancelCurrent(o) \/ Cancel(o)

\* What they leave as it was.
Quiet ==
  /\ Shapes' /\ Ages
  /\ UNCHANGED <<lifecycle, mu, process, active, closed, poisoned, proc>>
  /\ \A r \in Requests :
       /\ \/ caller'[r] = caller[r]
          \/ /\ caller[r] # "idle" /\ ~Starting(r)
             /\ caller'[r] \notin {"idle", "retire", "launch", "register", "abandon"}
       /\ \/ exchange'[r] = exchange[r]
          \/ exchange[r] \notin {"none", "done"} /\ exchange'[r] \notin {"none", "done"}
       /\ verdict'[r] = verdict[r] \/ (exchange[r] # "none" /\ verdict'[r] = "key")
       /\ ready'[r] = ready[r] \/ (exchange[r] # "none" /\ ready'[r] = "ok")
       /\ exchange'[r] \in {"joining", "finishing", "done"} =>
            exchange[r] \in {"joining", "finishing", "done"} \/ verdict'[r] = "key"
  /\ \A r \in Requests :
       exchange[r] \in {"joining", "finishing", "done"} => verdict'[r] = verdict[r]
  /\ \A o \in Outsiders :
       \/ outsider'[o] = outsider[o] /\ (Reaping(o) => taken'[o] = taken[o])
       \/ ~Reaping(o) /\ outsider'[o] \notin {"invalidate", "reaping"}

\* Stopping a helper is no more than a step in its life.
LEMMA StoppingAges ==
  ASSUME Shapes, NEW h, Stop(h) \/ life' = life
  PROVE  Ages /\ DOMAIN life' = Requests
  BY DEF Stop, Ages, Shapes

LEMMA CallsAreQuiet ==
  ASSUME IInv, NEW r \in Requests, OfCall(r)
  PROVE  Quiet
  <1> USE DEF IInv, Shapes, managerVars, callVars, helperVars, outVars
  <1>1. CASE WaitReady(r) \/ WaitReturns(r) \/ Skip(r)
    BY <1>1 DEF WaitReady, WaitReturns, Skip, At, Quiet, Ages, Starting
  <1>2. CASE Continue(r)
    <2>1. Ages /\ DOMAIN life' = Requests
      BY <1>2, StoppingAges DEF Continue
    <2> QED
      BY <1>2, <2>1 DEF Continue, At, Quiet, Starting
  <1>3. CASE ContextEnds(r) \/ HelperAnswers(r) \/ Join(r)
    BY <1>3 DEF ContextEnds, HelperAnswers, Join, Goto, Quiet, Ages
  <1>4. CASE WriteRequest(r) \/ NoFrame(r)
    <2>1. Ages /\ DOMAIN life' = Requests
      BY <1>4, StoppingAges DEF WriteRequest, NoFrame, Fail
    <2> QED
      BY <1>4, <2>1 DEF WriteRequest, NoFrame, Fail, Goto, Quiet
  <1>5. CASE TakeFrame(r)
    <2>1. Ages /\ DOMAIN life' = Requests
      BY <1>5, StoppingAges DEF TakeFrame, Fail
    <2> QED
      BY <1>5, <2>1 DEF TakeFrame, Fail, Goto, SetReady, Quiet
  <1>6. CASE Watch(r) \/ ReaderEnds(r)
    <2>1. Ages /\ DOMAIN life' = Requests
      BY <1>6, StoppingAges DEF Watch, ReaderEnds
    <2> QED
      BY <1>6, <2>1 DEF Watch, ReaderEnds, Quiet
  <1>7. CASE StopEnds(r)
    BY <1>7 DEF StopEnds, Quiet, Ages
  <1> QED
    BY <1>1, <1>2, <1>3, <1>4, <1>5, <1>6, <1>7 DEF OfCall

LEMMA CancelersAreQuiet ==
  ASSUME IInv, NEW o \in Outsiders, OfCanceler(o)
  PROVE  Quiet
  <1> USE DEF IInv, Shapes, managerVars, callVars, helperVars, outVars
  <1>1. CASE CancelCurrent(o)
    BY <1>1 DEF CancelCurrent, Turn, Quiet, Ages, Reaping
  <1>2. CASE Cancel(o)
    <2>1. Ages /\ DOMAIN life' = Requests
      BY <1>2, StoppingAges DEF Cancel
    <2> QED
      BY <1>2, <2>1 DEF Cancel, Turn, Quiet, Reaping
  <1> QED
    BY <1>1, <1>2 DEF OfCanceler

LEMMA QuietKeepsIInv ==
  ASSUME IInv, Quiet
  PROVE  IInv'
  <1> USE DEF IInv, Quiet, Shapes
  <1>1. Locks' /\ Retained'
    BY DEF Locks, Retained, Starting, Reaping
  <1>2. ASSUME NEW r \in Requests PROVE CallShape(r)' /\ (verdict'[r] = "error" \/ ready'[r] = "error" => Stopped(proc[r])')
    <2>1. CallShape(r) /\ (verdict[r] = "error" \/ ready[r] = "error" => Stopped(proc[r]))
      BY DEF Calls, FailureMeansReaped
    <2>2. verdict'[r] = "error" => verdict[r] = "error"
      OBVIOUS
    <2>3. ready'[r] = "error" => ready[r] = "error"
      OBVIOUS
    <2>4. verdict[r] = "error" \/ ready[r] = "error" => proc[r] \in Requests /\ life'[proc[r]] = life[proc[r]]
      BY <2>1, AnswersAssumption DEF CallShape, Ages, Stopped
    <2> QED
      BY <2>1, <2>2, <2>3, <2>4 DEF CallShape, Starting, Stopped, Ages
  <1>3. Calls' /\ FailureMeansReaped'
    BY <1>2 DEF Calls, FailureMeansReaped
  <1>4. Active'
    BY DEF Active, Reaping
  <1>5. Accounted' /\ Single' /\ NoHelperIsLost'
    BY DEF Accounted, Single, Unclean, Held, NoHelperIsLost, Reaping, Ages, Starting
  <1> QED
    BY <1>1, <1>3, <1>4, <1>5

-----------------------------------------------------------------------------
(* Start.                                                                  *)

\* Only one holds lifecycle.
LEMMA OneHolder ==
  ASSUME IInv
  PROVE  /\ \A q, r \in Requests : Starting(q) /\ Starting(r) => q = r
         /\ \A o, p \in Outsiders : Reaping(o) /\ Reaping(p) => o = p
         /\ \A r \in Requests, o \in Outsiders : Starting(r) => ~Reaping(o)
         /\ lifecycle = NoOne => (\A r \in Requests : ~Starting(r)) /\ (\A o \in Outsiders : ~Reaping(o))
         /\ mu = NoOne => \A r \in Requests : ~Starting(r)
  BY NoOneAssumption, OutsidersAssumption DEF IInv, Locks

LEMMA StartLocksKeepsIInv ==
  ASSUME IInv, NEW r \in Requests, StartLocks(r)
  PROVE  IInv'
  <1> USE DEF IInv, Shapes, managerVars, callVars, helperVars, outVars
  <1>1. /\ lifecycle = NoOne /\ mu = NoOne /\ caller[r] = "idle"
        /\ \A q \in Requests : ~Starting(q)
        /\ \A o \in Outsiders : ~Reaping(o)
    BY OneHolder DEF StartLocks
  <1>2. /\ Ages /\ Shapes'
        /\ proc' = [proc EXCEPT ![r] = IF Refuse(r) THEN NoOne ELSE process]
        /\ UNCHANGED <<active, closed, poisoned, exchange, ready, verdict, outVars>>
        /\ \A q \in Requests \ {r} : caller'[q] = caller[q]
    <2>1. Ages /\ DOMAIN life' = Requests
      BY StoppingAges DEF StartLocks
    <2> QED
      BY <2>1 DEF StartLocks, StartFails, At, Unlock
  <1>3. \/ /\ caller'[r] = "over" /\ lifecycle' = NoOne /\ mu' = NoOne /\ UNCHANGED <<process, life>>
        \/ /\ ~closed /\ ~poisoned /\ lifecycle' = r /\ mu' = r /\ proc'[r] = process
           /\ \/ caller'[r] = "launch" /\ process = NoOne /\ UNCHANGED <<process, life>>
              \/ caller'[r] = "register" /\ process # NoOne /\ UNCHANGED <<process, life>>
              \/ caller'[r] = "retire" /\ process # NoOne /\ process' = NoOne /\ Stop(process)
    BY DEF StartLocks, StartFails, At, Unlock, Refuse
  <1>4. Locks' /\ Retained'
    BY <1>1, <1>2, <1>3 DEF Locks, Retained, Starting, Reaping
  <1>5. ASSUME NEW q \in Requests
        PROVE  CallShape(q)' /\ (verdict'[q] = "error" \/ ready'[q] = "error" => Stopped(proc[q])')
    <2>1. CallShape(q) /\ (verdict[q] = "error" \/ ready[q] = "error" => Stopped(proc[q]))
      BY DEF Calls, FailureMeansReaped
    <2>2. CASE q # r
      <3>1. verdict[q] = "error" \/ ready[q] = "error" => proc[q] \in Requests /\ life'[proc[q]] = life[proc[q]]
        BY <1>2, <2>1, AnswersAssumption DEF CallShape, Ages, Stopped
      <3> QED
        BY <1>2, <2>1, <2>2, <3>1 DEF CallShape, Starting, Stopped, Ages
    <2>3. CASE q = r
      BY <1>1, <1>2, <1>3, <2>1, <2>3, AnswersAssumption DEF CallShape, Starting, Stopped, Ages
    <2> QED
      BY <2>2, <2>3
  <1>6. Active'
    BY <1>1, <1>2 DEF Active, Reaping
  <1>7. Accounted' /\ Single' /\ NoHelperIsLost'
    BY <1>1, <1>2, <1>3 DEF Accounted, Single, Unclean, Held, NoHelperIsLost, Reaping, Ages, Starting, Stop
  <1> QED
    BY <1>2, <1>4, <1>5, <1>6, <1>7 DEF Calls, FailureMeansReaped

\* The end of a helper that Start has stopped, or of a Start that finds one in
\* order: nothing but a helper left over needs to be remembered.
LEMMA StartEndsKeepsIInv ==
  ASSUME IInv, NEW r \in Requests, Starting(r),
         UNCHANGED <<process, active, closed, callVars, life, outVars>>, ctx' = ctx,
         DOMAIN caller' = Requests, \A q \in Requests \ {r} : caller'[q] = caller[q],
         poisoned => poisoned', caller[r] \in {"retire", "abandon"} => life[proc[r]] # "leftover" \/ poisoned',
         caller[r] \in {"retire", "abandon"} => Stopped(proc[r]),
         \/ caller'[r] = "over" /\ lifecycle' = NoOne /\ mu' = NoOne
         \/ caller[r] = "retire" /\ caller'[r] = "launch" /\ lifecycle' = lifecycle /\ mu' = mu /\ poisoned' = poisoned
  PROVE  IInv'
  <1> USE DEF IInv, Shapes, callVars, outVars
  <1>1. /\ \A q \in Requests \ {r} : ~Starting(q)
        /\ \A o \in Outsiders : ~Reaping(o)
    BY OneHolder
  <1>2. Locks' /\ Retained'
    BY <1>1 DEF Locks, Retained, Starting, Reaping
  <1>3. Calls' /\ FailureMeansReaped'
    BY <1>1 DEF Calls, CallShape, FailureMeansReaped, Stopped, Starting
  <1>4. Active' /\ Single' /\ NoHelperIsLost'
    BY <1>1 DEF Active, Reaping, Single, Unclean, NoHelperIsLost
  <1>5. Accounted'
    BY <1>1 DEF Accounted, Unclean, Held, Reaping, Starting, Stopped
  <1> QED
    BY <1>2, <1>3, <1>4, <1>5

\* A new helper finds nothing left of any other.
LEMMA LaunchKeepsIInv ==
  ASSUME IInv, NEW r \in Requests, Launch(r)
  PROVE  IInv'
  <1> USE DEF IInv, Shapes, managerVars, callVars, helperVars, outVars
  <1>0. Starting(r) /\ caller[r] = "launch"
    BY DEF Launch, StartFails, At, Starting
  <1>1. /\ \A q \in Requests \ {r} : ~Starting(q)
        /\ \A o \in Outsiders : ~Reaping(o)
    BY <1>0, OneHolder
  <1>2. process = NoOne /\ lifecycle = r /\ mu = r /\ ~closed /\ ~poisoned /\ exchange[r] = "none" /\ life[r] = "none"
    BY <1>0 DEF Retained, Locks, Calls, CallShape
  <1>3. \A h \in Requests : ~Unclean(h)
    BY <1>0, <1>1, <1>2, NoOneAssumption DEF Accounted, Held, Starting
  <1>4. CASE StartFails(r, "launch") /\ UNCHANGED <<process, active, closed, poisoned, ctx, callVars, helperVars, outVars>>
    BY <1>0, <1>4, StartEndsKeepsIInv DEF StartFails, At, Unlock
  <1>5. CASE /\ caller' = [caller EXCEPT ![r] = "register"] /\ process' = r
             /\ proc' = [proc EXCEPT ![r] = r] /\ life' = [life EXCEPT ![r] = "live"]
             /\ UNCHANGED <<lifecycle, mu, active, closed, poisoned, ctx, exchange, watch, ready, verdict, outVars>>
    <2>1. Shapes'
      BY <1>5
    <2>2. Locks' /\ Retained'
      BY <1>1, <1>2, <1>5 DEF Locks, Retained, Starting, Reaping
    <2>3. ASSUME NEW q \in Requests
          PROVE  CallShape(q)' /\ (verdict'[q] = "error" \/ ready'[q] = "error" => Stopped(proc[q])')
      <3>1. CallShape(q) /\ (verdict[q] = "error" \/ ready[q] = "error" => Stopped(proc[q]))
        BY DEF Calls, FailureMeansReaped
      <3>2. CASE q # r
        <4>1. verdict[q] = "error" \/ ready[q] = "error" => proc[q] \in Requests /\ life'[proc[q]] = life[proc[q]]
          BY <1>2, <1>5, <3>1, AnswersAssumption DEF CallShape, Stopped
        <4> QED
          BY <1>5, <3>1, <3>2, <4>1 DEF CallShape, Starting, Stopped
      <3>3. CASE q = r
        BY <1>2, <1>5, <3>1, <3>3, AnswersAssumption DEF CallShape, Starting, Stopped
      <3> QED
        BY <3>2, <3>3
    <2>4. Active'
      BY <1>1, <1>5 DEF Active, Reaping
    <2>5. Accounted' /\ Single' /\ NoHelperIsLost'
      BY <1>3, <1>5 DEF Accounted, Single, Unclean, Held, NoHelperIsLost
    <2> QED
      BY <2>1, <2>2, <2>3, <2>4, <2>5 DEF Calls, FailureMeansReaped
  <1> QED
    BY <1>4, <1>5 DEF Launch, At

LEMMA RegisterKeepsIInv ==
  ASSUME IInv, NEW r \in Requests, Register(r)
  PROVE  IInv'
  <1> USE DEF IInv, Shapes, managerVars, callVars, helperVars, outVars
  <1>0. Starting(r) /\ caller[r] = "register"
    BY DEF Register, StartFails, At, Starting
  <1>1. /\ \A q \in Requests \ {r} : ~Starting(q)
        /\ \A o \in Outsiders : ~Reaping(o)
    BY <1>0, OneHolder
  <1>2. /\ process = proc[r] /\ proc[r] \in Requests /\ lifecycle = r /\ mu = r /\ ~closed /\ ~poisoned
        /\ exchange[r] = "none" /\ verdict[r] = NoOne /\ ready[r] = NoOne
    BY <1>0 DEF Retained, Locks, Calls, CallShape
  <1>3. CASE StartFails(r, "register") /\ UNCHANGED <<process, active, closed, poisoned, ctx, callVars, helperVars, outVars>>
    BY <1>0, <1>3, StartEndsKeepsIInv DEF StartFails, At, Unlock
  <1>4. CASE /\ caller' = [caller EXCEPT ![r] = "abandon"] /\ process' = NoOne /\ Stop(proc[r])
             /\ UNCHANGED <<lifecycle, mu, active, closed, poisoned, ctx, callVars, outVars>>
    <2>1. Shapes' /\ Ages
      BY <1>4, StoppingAges
    <2>2. Locks' /\ Retained'
      BY <1>1, <1>2, <1>4 DEF Locks, Retained, Starting, Reaping
    <2>3. ASSUME NEW q \in Requests
          PROVE  CallShape(q)' /\ (verdict'[q] = "error" \/ ready'[q] = "error" => Stopped(proc[q])')
      <3>1. CallShape(q) /\ (verdict[q] = "error" \/ ready[q] = "error" => Stopped(proc[q]))
        BY DEF Calls, FailureMeansReaped
      <3>2. verdict[q] = "error" \/ ready[q] = "error" => proc[q] \in Requests /\ life'[proc[q]] = life[proc[q]]
        BY <2>1, <3>1, AnswersAssumption DEF CallShape, Stopped, Ages
      <3> QED
        BY <1>2, <1>4, <2>1, <3>1, <3>2 DEF CallShape, Starting, Stopped, Ages
    <2>4. Active'
      BY <1>1, <1>4 DEF Active, Reaping
    <2>5. Accounted' /\ Single' /\ NoHelperIsLost'
      BY <1>1, <1>2, <1>4, <2>1 DEF Accounted, Single, Unclean, Held, NoHelperIsLost, Ages, Stop, Starting, Reaping
    <2> QED
      BY <2>1, <2>2, <2>3, <2>4, <2>5 DEF Calls, FailureMeansReaped
  <1>5. CASE /\ caller' = [caller EXCEPT ![r] = "started"] /\ active' = r
             /\ exchange' = [exchange EXCEPT ![r] = "write"] /\ lifecycle' = NoOne /\ mu' = NoOne
             /\ UNCHANGED <<process, closed, poisoned, ctx, proc, ready, verdict, life, outVars>>
    <2>1. Shapes'
      BY <1>5
    <2>2. Locks' /\ Retained'
      BY <1>1, <1>2, <1>5 DEF Locks, Retained, Starting, Reaping
    <2>3. Calls' /\ FailureMeansReaped'
      BY <1>1, <1>2, <1>5 DEF Calls, CallShape, FailureMeansReaped, Stopped, Starting
    <2>4. Active'
      BY <1>1, <1>5 DEF Active, Reaping
    <2>5. Accounted' /\ Single' /\ NoHelperIsLost'
      BY <1>1, <1>2, <1>5 DEF Accounted, Single, Unclean, Held, NoHelperIsLost, Starting, Reaping
    <2> QED
      BY <2>1, <2>2, <2>3, <2>4, <2>5
  <1> QED
    BY <1>3, <1>4, <1>5 DEF Register, At, Unlock

LEMMA StartKeepsIInv ==
  ASSUME IInv, NEW r \in Requests, StartLocks(r) \/ Retire(r) \/ Launch(r) \/ Register(r) \/ Abandon(r)
  PROVE  IInv'
  <1>1. CASE StartLocks(r) \/ Launch(r) \/ Register(r)
    BY <1>1, StartLocksKeepsIInv, LaunchKeepsIInv, RegisterKeepsIInv
  <1>2. CASE Retire(r)
    <2>1. /\ caller[r] = "retire" /\ Stopped(proc[r]) /\ \A q \in Requests \ {r} : caller'[q] = caller[q]
          /\ DOMAIN caller' = Requests /\ (poisoned => poisoned') /\ (life[proc[r]] # "leftover" \/ poisoned')
          /\ UNCHANGED <<process, active, closed, callVars, life, outVars>> /\ ctx' = ctx
          /\ \/ caller'[r] = "over" /\ lifecycle' = NoOne /\ mu' = NoOne
             \/ caller'[r] = "launch" /\ lifecycle' = lifecycle /\ mu' = mu /\ poisoned' = poisoned
      BY <1>2 DEF Retire, StartFails, At, Unlock, IInv, Shapes, helperVars
    <2> QED
      BY <2>1, StartEndsKeepsIInv DEF Starting
  <1>3. CASE Abandon(r)
    <2>1. /\ caller[r] = "abandon" /\ Stopped(proc[r]) /\ \A q \in Requests \ {r} : caller'[q] = caller[q]
          /\ DOMAIN caller' = Requests /\ (poisoned => poisoned') /\ (life[proc[r]] # "leftover" \/ poisoned')
          /\ UNCHANGED <<process, active, closed, callVars, life, outVars>> /\ ctx' = ctx
          /\ caller'[r] = "over" /\ lifecycle' = NoOne /\ mu' = NoOne
      BY <1>3 DEF Abandon, StartFails, At, Unlock, IInv, Shapes, helperVars
    <2> QED
      BY <2>1, StartEndsKeepsIInv DEF Starting
  <1> QED
    BY <1>1, <1>2, <1>3

-----------------------------------------------------------------------------
(* The end of a call and of a helper, and invalidations.                   *)

\* A failure is known once the helper is gone; what is left over poisons.
LEMMA FailedKeepsIInv ==
  ASSUME IInv, NEW r \in Requests, Failed(r)
  PROVE  IInv'
  <1> USE DEF IInv, Shapes, managerVars, callVars, helperVars, outVars
  <1>1. /\ exchange[r] = "failing" /\ exchange' = [exchange EXCEPT ![r] = "joining"]
        /\ verdict' = [verdict EXCEPT ![r] = "error"] /\ Stopped(proc[r])
        /\ life[proc[r]] = "leftover" => mu = NoOne
        /\ poisoned' = (poisoned \/ life[proc[r]] = "leftover")
        /\ UNCHANGED <<lifecycle, mu, process, active, closed, caller, ctx, proc, ready, life, outVars>>
    BY DEF Failed, Goto
  <1>2. Locks' /\ Retained'
    BY <1>1, OneHolder DEF Locks, Retained, Starting, Reaping
  <1>3. Calls' /\ FailureMeansReaped'
    BY <1>1 DEF Calls, CallShape, FailureMeansReaped, Stopped, Starting
  <1>4. Active' /\ Single' /\ NoHelperIsLost'
    BY <1>1 DEF Active, Unclean, Single, NoHelperIsLost, Reaping
  <1>5. Accounted'
    <2>1. \A h \in Requests : (Held(h) <=> Held(h)') /\ (Unclean(h) <=> Unclean(h)')
      BY <1>1 DEF Held, Unclean, Reaping
    <2> QED
      BY <1>1, <2>1 DEF Accounted
  <1> QED
    BY <1>1, <1>2, <1>3, <1>4, <1>5

\* A call that has failed leaves the manager with its helper, which is gone.
LEMMA ManagerFinishKeepsIInv ==
  ASSUME IInv, NEW r \in Requests, ManagerFinish(r)
  PROVE  IInv'
  <1> USE DEF IInv, Shapes, managerVars, callVars, outVars
  <1>1. /\ mu = NoOne /\ exchange[r] = "finishing" /\ exchange' = [exchange EXCEPT ![r] = "done"]
        /\ active' = (IF active = r THEN NoOne ELSE active)
        /\ UNCHANGED <<lifecycle, mu, closed, poisoned, caller, ctx, proc, verdict, life, outVars>>
    BY DEF ManagerFinish, Goto
  <1>2. \/ process' = process /\ ready' = ready
        \/ /\ verdict[r] # "key" /\ process' = (IF process = proc[r] THEN NoOne ELSE process)
           /\ ready' = [ready EXCEPT ![r] = IF @ = NoOne THEN "error" ELSE @]
    BY DEF ManagerFinish, SetReady
  <1>3. \A q \in Requests : ~Starting(q)
    BY <1>1, OneHolder
  <1>4. proc[r] \in Requests /\ (verdict[r] # "key" => verdict[r] = "error")
    BY <1>1 DEF Calls, CallShape
  <1>5. process' # process => process = proc[r] /\ process' = NoOne /\ Stopped(proc[r]) /\ (life[proc[r]] = "leftover" => poisoned)
    BY <1>2, <1>4 DEF FailureMeansReaped, Calls, CallShape
  <1>6. Locks' /\ Retained'
    BY <1>1, <1>3, <1>5 DEF Locks, Retained, Starting, Reaping
  <1>7. Calls' /\ FailureMeansReaped'
    <2> SUFFICES ASSUME NEW q \in Requests
                 PROVE  CallShape(q)' /\ (verdict'[q] = "error" \/ ready'[q] = "error" => Stopped(proc[q])')
      BY DEF Calls, FailureMeansReaped
    <2>1. CallShape(q) /\ (verdict[q] = "error" \/ ready[q] = "error" => Stopped(proc[q]))
      BY DEF Calls, FailureMeansReaped
    <2>2. exchange[q] # "none" \/ ready'[q] = ready[q]
      BY <1>1, <1>2
    <2>3. ready'[q] = "error" => ready[q] = "error" \/ verdict[q] = "error"
      BY <1>2, <1>4
    <2> QED
      BY <1>1, <2>1, <2>2, <2>3 DEF CallShape, Starting, Stopped
  <1>8. Active'
    BY <1>1, NoOneAssumption DEF Active, Reaping
  <1>9. Accounted' /\ Single' /\ NoHelperIsLost'
    <2>1. ASSUME NEW h \in Requests, Held(h)
          PROVE  Held(h)' \/ (Stopped(h) /\ (life[h] = "leftover" => poisoned))
      BY <1>1, <1>5, <2>1 DEF Held, Reaping
    <2>2. Accounted'
      BY <1>1, <2>1 DEF Accounted, Unclean, Stopped
    <2>3. NoHelperIsLost'
      BY <1>1, <1>5 DEF NoHelperIsLost, Stopped
    <2> QED
      BY <1>1, <2>2, <2>3 DEF Single, Unclean
  <1>10. Shapes'
    BY <1>1, <1>2
  <1> QED
    BY <1>6, <1>7, <1>8, <1>9, <1>10

LEMMA ProcessExitedKeepsIInv ==
  ASSUME IInv, NEW h \in Requests, ProcessExited(h)
  PROVE  IInv'
  <1> USE DEF IInv, Shapes, managerVars, callVars, outVars
  <1>1. /\ mu = NoOne /\ Stopped(h) /\ process' = (IF process = h THEN NoOne ELSE process)
        /\ poisoned' = (poisoned \/ life[h] = "leftover")
        /\ UNCHANGED <<lifecycle, mu, active, closed, caller, ctx, callVars, life, outVars>>
    BY DEF ProcessExited
  <1>2. \A q \in Requests : ~Starting(q)
    BY <1>1, OneHolder
  <1>3. Locks' /\ Retained' /\ Active'
    BY <1>1, <1>2 DEF Locks, Retained, Active, Starting, Reaping
  <1>4. Calls' /\ FailureMeansReaped'
    BY <1>1 DEF Calls, CallShape, FailureMeansReaped, Stopped, Starting
  <1>5. Accounted' /\ Single' /\ NoHelperIsLost'
    <2>1. ASSUME NEW g \in Requests, Held(g)
          PROVE  Held(g)' \/ (Stopped(g) /\ (life[g] = "leftover" => poisoned'))
      BY <1>1, <2>1 DEF Held, Reaping
    <2>2. Accounted'
      BY <1>1, <2>1 DEF Accounted, Unclean, Stopped
    <2>3. NoHelperIsLost'
      BY <1>1 DEF NoHelperIsLost, Stopped
    <2> QED
      BY <1>1, <2>2, <2>3 DEF Single, Unclean
  <1> QED
    BY <1>1, <1>3, <1>4, <1>5

\* An invalidation takes the helper over from the manager.
LEMMA InvalidateKeepsIInv ==
  ASSUME IInv, NEW o \in Outsiders, NEW closeManager \in BOOLEAN, Invalidate(o, closeManager)
  PROVE  IInv'
  <1> USE DEF IInv, Shapes, managerVars, callVars, helperVars
  <1>1. /\ lifecycle = NoOne /\ lifecycle' = o /\ closed' = (closed \/ closeManager) /\ process' = NoOne
        /\ outsider[o] = "idle" /\ outsider' = [outsider EXCEPT ![o] = "invalidate"]
        /\ taken' = [taken EXCEPT ![o] = [process |-> process, call |-> active]]
        /\ UNCHANGED <<mu, active, poisoned, caller, ctx, callVars, life>>
    BY DEF Invalidate, Turn
  <1>2. /\ \A q \in Requests : ~Starting(q)
        /\ \A p \in Outsiders : ~Reaping(p)
        /\ taken'[o].process = process /\ taken'[o].call = active
    BY <1>1, OneHolder
  <1>3. Locks' /\ Retained' /\ Active'
    BY <1>1, <1>2 DEF Locks, Retained, Active, Starting, Reaping
  <1>4. Calls' /\ FailureMeansReaped'
    BY <1>1 DEF Calls, CallShape, FailureMeansReaped, Stopped, Starting
  <1>5. Accounted' /\ Single' /\ NoHelperIsLost'
    BY <1>1, <1>2 DEF Accounted, Unclean, Held, Single, NoHelperIsLost, Reaping, Starting
  <1> QED
    BY <1>1, <1>3, <1>4, <1>5

LEMMA ReapKeepsIInv ==
  ASSUME IInv, NEW o \in Outsiders, Reap(o)
  PROVE  IInv'
  <1> USE DEF IInv, Shapes, managerVars, callVars
  <1>1. /\ outsider[o] = "invalidate" /\ outsider' = [outsider EXCEPT ![o] = "reaping"] /\ taken' = taken
        /\ IF taken[o].process = NoOne THEN life' = life ELSE Stop(taken[o].process)
        /\ DOMAIN ctx' = Requests
        /\ UNCHANGED <<lifecycle, mu, process, active, closed, poisoned, caller, callVars>>
    BY DEF Reap, Turn
  <1>2. Ages /\ DOMAIN life' = Requests
    BY <1>1, StoppingAges
  <1>3. Locks' /\ Retained' /\ Active'
    BY <1>1 DEF Locks, Retained, Active, Starting, Reaping
  <1>4. Calls' /\ FailureMeansReaped'
    <2> SUFFICES ASSUME NEW q \in Requests
                 PROVE  CallShape(q)' /\ (verdict'[q] = "error" \/ ready'[q] = "error" => Stopped(proc[q])')
      BY DEF Calls, FailureMeansReaped
    <2>1. CallShape(q) /\ (verdict[q] = "error" \/ ready[q] = "error" => Stopped(proc[q]))
      BY DEF Calls, FailureMeansReaped
    <2>2. verdict[q] = "error" \/ ready[q] = "error" => proc[q] \in Requests /\ life'[proc[q]] = life[proc[q]]
      BY <1>2, <2>1, AnswersAssumption DEF CallShape, Stopped, Ages
    <2> QED
      BY <1>1, <1>2, <2>1, <2>2 DEF CallShape, Starting, Stopped, Ages
  <1>5. Accounted' /\ Single' /\ NoHelperIsLost'
    BY <1>1, <1>2, NoOneAssumption DEF Accounted, Unclean, Held, Single, NoHelperIsLost, Reaping, Ages, Stop, Starting
  <1> QED
    BY <1>1, <1>2, <1>3, <1>4, <1>5

\* An invalidation that returns leaves no call and no helper behind.
LEMMA InvalidationsReap ==
  ASSUME IInv, NEW o \in Outsiders, InvalidateReturns(o)
  PROVE  /\ active' = NoOne /\ \A h \in Requests : ~Running(h)
         /\ ~poisoned' => \A h \in Requests : life[h] # "leftover"
  <1>1. /\ outsider[o] = "reaping" /\ active' = active
        /\ taken[o].process # NoOne => Stopped(taken[o].process)
        /\ taken[o].call # NoOne => exchange[taken[o].call] = "done"
        /\ poisoned' = (poisoned \/ (taken[o].process # NoOne /\ life[taken[o].process] = "leftover"))
    BY DEF InvalidateReturns, Turn
  <1>2. /\ \A q \in Requests : ~Starting(q)
        /\ \A p \in Outsiders : Reaping(p) => p = o
    BY <1>1, OneHolder DEF Reaping
  <1>3. process = NoOne /\ active = NoOne
    BY <1>1 DEF IInv, Retained, Active, Reaping
  <1>4. \A h \in Requests : Held(h) => taken[o].process = h /\ Stopped(h)
    BY <1>1, <1>2, <1>3, NoOneAssumption DEF Held, Starting
  <1> QED
    BY <1>1, <1>3, <1>4, NoOneAssumption DEF IInv, Accounted, Unclean, Running, Stopped

LEMMA InvalidateReturnsKeepsIInv ==
  ASSUME IInv, NEW o \in Outsiders, InvalidateReturns(o)
  PROVE  IInv'
  <1> USE DEF IInv, Shapes, managerVars, callVars, helperVars
  <1>1. /\ outsider[o] = "reaping" /\ outsider' = [outsider EXCEPT ![o] = "over"]
        /\ mu = NoOne /\ lifecycle' = NoOne /\ (poisoned => poisoned')
        /\ UNCHANGED <<mu, process, active, closed, caller, ctx, callVars, life, taken>>
    BY DEF InvalidateReturns, Turn
  <1>2. /\ \A q \in Requests : ~Starting(q)
        /\ \A p \in Outsiders : Reaping(p) => p = o
    BY <1>1, OneHolder DEF Reaping
  <1>3. Locks' /\ Retained' /\ Active'
    BY <1>1, <1>2 DEF Locks, Retained, Active, Starting, Reaping
  <1>4. Calls' /\ FailureMeansReaped'
    BY <1>1 DEF Calls, CallShape, FailureMeansReaped, Stopped, Starting
  <1>5. Accounted'
    BY <1>1, InvalidationsReap DEF Accounted, Unclean, Running
  <1>6. Single' /\ NoHelperIsLost'
    BY <1>1 DEF Single, Unclean, NoHelperIsLost
  <1> QED
    BY <1>1, <1>3, <1>4, <1>5, <1>6

-----------------------------------------------------------------------------
(* Every step, and the theorems.                                           *)

LEMMA InitIInv == Init => IInv
  <1> SUFFICES ASSUME Init PROVE IInv
    OBVIOUS
  <1>1. Shapes /\ ~closed /\ process = NoOne /\ active = NoOne
    BY DEF Init, Shapes
  <1>2. \A r \in Requests : /\ caller[r] \in {"idle", "over"} /\ exchange[r] = "none" /\ life[r] = "none"
                            /\ verdict[r] = NoOne /\ ready[r] = NoOne
    BY DEF Init
  <1>3. \A o \in Outsiders : outsider[o] \in {"idle", "over"}
    BY DEF Init
  <1> QED
    BY <1>1, <1>2, <1>3, AnswersAssumption
    DEF IInv, Locks, Retained, Calls, CallShape, Active, Accounted, Unclean, Single, FailureMeansReaped,
        NoHelperIsLost, Starting, Reaping

LEMMA StepKeepsIInv ==
  ASSUME IInv, [Next]_vars
  PROVE  IInv'
  <1>1. ASSUME NEW r \in Requests, StartLocks(r) \/ Retire(r) \/ Launch(r) \/ Register(r) \/ Abandon(r)
        PROVE  IInv'
    BY <1>1, StartKeepsIInv
  <1>2. ASSUME NEW r \in Requests, OfCall(r)
        PROVE  IInv'
    BY <1>2, CallsAreQuiet, QuietKeepsIInv
  <1>3. ASSUME NEW r \in Requests, Failed(r) \/ ManagerFinish(r) \/ ProcessExited(r)
        PROVE  IInv'
    BY <1>3, FailedKeepsIInv, ManagerFinishKeepsIInv, ProcessExitedKeepsIInv
  <1>4. ASSUME NEW o \in Outsiders, OfCanceler(o)
        PROVE  IInv'
    BY <1>4, CancelersAreQuiet, QuietKeepsIInv
  <1>5. ASSUME NEW o \in Outsiders, (\E c \in BOOLEAN : Invalidate(o, c)) \/ Reap(o) \/ InvalidateReturns(o)
        PROVE  IInv'
    BY <1>5, InvalidateKeepsIInv, ReapKeepsIInv, InvalidateReturnsKeepsIInv
  <1>6. CASE UNCHANGED vars
    <2>1. Quiet
      BY <1>6 DEF vars, managerVars, callVars, helperVars, outVars, IInv, Shapes, Quiet, Ages
    <2> QED
      BY <2>1, QuietKeepsIInv
  <1> QED
    BY <1>1, <1>2, <1>3, <1>4, <1>5, <1>6
    DEF Next, Proceed, Exchange, Reader, Return, AllOver, OfCall, OfCanceler

\* What the manager retains, who ends what it retained before, and what is left of
\* every helper.
THEOREM Inductive == Spec => []IInv
  <1>1. IInv /\ [Next]_vars => IInv'
    BY StepKeepsIInv
  <1> QED
    BY <1>1, InitIInv, PTL DEF Spec

\* There is one helper at a time, one that is being killed included, none while an
\* earlier one may still be there, and none after a Close
\* (hardware_session_manager.go:97, :131, :238).
THEOREM OneHelperAtATime == Spec => []OneHelper
  <1>1. IInv => OneHelper
    <2> SUFFICES ASSUME IInv, NEW h \in Requests, Running(h)
                 PROVE  /\ \A g \in Requests \ {h} : ~Unclean(g)
                        /\ closed => lifecycle # NoOne
      <3>1. IInv => \A g \in Requests : Unclean(g) \/ life[g] \in {"none", "reaped"}
        BY DEF IInv, Calls, CallShape, Unclean
      <3> QED
        BY <3>1 DEF OneHelper
    <2>1. Unclean(h)
      BY DEF Running, Unclean
    <2>2. \A g \in Requests \ {h} : ~Unclean(g)
      BY <2>1 DEF IInv, Single
    <2>3. Held(h)
      BY <2>1 DEF IInv, Accounted, Running
    <2>4. closed => lifecycle # NoOne
      BY <2>3, OneHolder, NoOneAssumption DEF IInv, Retained, Held, Starting
    <2> QED
      BY <2>2, <2>4
  <1> QED
    BY <1>1, Inductive, PTL

\* No failure is known to the caller before the helper is gone
\* (hardware_session_manager.go:554).
THEOREM FailuresAreReaped == Spec => []FailureMeansReaped
  <1>1. IInv => FailureMeansReaped
    BY DEF IInv
  <1> QED
    BY <1>1, Inductive, PTL

\* A live helper is the one the manager would find, or about to be stopped
\* (hardware_session_manager.go:326).
THEOREM NothingIsLost == Spec => []NoHelperIsLost
  <1>1. IInv => NoHelperIsLost
    BY DEF IInv
  <1> QED
    BY <1>1, Inductive, PTL

\* An invalidation, or a Close, that returns leaves no call and no helper behind,
\* and tells of every process it could not end (hardware_session_manager.go:234).
THEOREM InvalidationIsThorough == Spec => InvalidateReaps
  <1>1. IInv /\ [Next]_vars =>
          [\A o \in Outsiders :
             InvalidateReturns(o) =>
               /\ active' = NoOne /\ \A h \in Requests : ~Running(h)
               /\ ~poisoned' => \A h \in Requests : life[h] # "leftover"]_vars
    BY InvalidationsReap
  <1> QED
    BY <1>1, Inductive, PTL DEF Spec, InvalidateReaps
==============================================================================
