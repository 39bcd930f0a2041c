---------------------------- MODULE AgeDecrypt ----------------------------
(***************************************************************************)
(* internal/ageservice/service.go (unwrapHardware) and the ageRunner and   *)
(* session watcher of internal/daemon: age requests on the coordinator     *)
(* share one hardware helper.  Of the helper this module keeps what        *)
(* HardwareManager shows: Invalidate reaps it together with whatever call   *)
(* is active (InvalidateReaps), such a call yields no key, and a call that  *)
(* fails takes its helper with it (FailureMeansReaped).                     *)
(***************************************************************************)
EXTENDS Coordinator

VARIABLES
  killed,  \* requests whose call on the helper an Invalidate has ended, until
           \* their worker reports it
  session  \* the request that was last served by the helper there is

helperVars == <<killed, session>>
ageVars == <<vars, helperVars>>

AgeRequests == Requests \ SSHRequests

\* Start has returned to the worker of r and Wait has not.
ActiveCalls ==
  {r \in AgeRequests : worker[r] \in {"prompt", "prompting", "granted", "call"}}

AgeInit == Init /\ killed = {} /\ session = NoOne

Invalidate == killed' = killed \cup ActiveCalls /\ session' = NoOne

\* Seeded bug: a cancellation that finds no call of its own to end leaves the
\* helper alone.
CancelingActive == {r \in ActiveCalls : CancelOperation(r)}

\* cancelCall is ageRunner.CancelCurrent, which invalidates the manager with
\* no regard to the call that is active.
Canceling == {r \in AgeRequests : CancelOperation(r)}

\* Start and WaitReady, or their failure, which may leave an earlier helper or
\* none; a call that fails.
Leaves(from, to) == {r \in AgeRequests : worker[r] = from /\ worker'[r] = to}
NextSessions ==
  IF Leaves("ensure", "prompt") # {} THEN Leaves("ensure", "prompt")
  ELSE IF Leaves("ensure", "release") # {} THEN {session, NoOne}
  ELSE {IF \E r \in Leaves("call", "release") : result'[r] # "ok" THEN NoOne ELSE session}

CoordinatorStep ==
  /\ Next
  /\ \A r \in killed : result[r] = NoOne => result'[r] # "ok"
  /\ IF Canceling # {} THEN Invalidate
     ELSE killed' = {r \in killed : result'[r] = NoOne} /\ session' \in NextSessions

\* The watcher of device events invalidates too.
DeviceInvalidates ==
  /\ ActiveCalls # {} \/ session # NoOne
  /\ Invalidate
  /\ UNCHANGED vars

AgeNext == CoordinatorStep \/ DeviceInvalidates
AgeSpec == AgeInit /\ [][AgeNext]_ageVars

-----------------------------------------------------------------------------
(* Properties.                                                             *)

\* README.md:755: a cancellation does not cancel other queued or later requests.
\* Here: cancelOperation of one request ends no other request's helper call.
CancelSparesOthers ==
  [][\A r \in AgeRequests : CancelOperation(r) => ActiveCalls \subseteq {r}]_ageVars

\* A helper is only retained for the next request if the request it last served
\* was told success (docs/age-reference.md:185): whatever races with the result,
\* a canceled or timed out request leaves no authenticated session behind.
SessionIsEarned ==
  \A r \in AgeRequests : session = r /\ caller[r] = "returned" => verdict[r] = "success"
=============================================================================
