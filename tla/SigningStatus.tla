--------------------------- MODULE SigningStatus ---------------------------
(***************************************************************************)
(* internal/state/state.go and the reader of it in internal/command: the   *)
(* state file as the first sink of the coordinator, and test-sign, which   *)
(* learns why its own signature failed from whatever event the file holds  *)
(* by the time it looks.  The agent protocol itself only says "failure".   *)
(*                                                                         *)
(* Any signature may be one that test-sign has asked for, and it may have   *)
(* begun at any moment before.  A moment is how many events the file has    *)
(* seen by then (an event is stamped a moment before it is written).  A     *)
(* write of the file that fails, which Store.Handle ignores, is left out.   *)
(***************************************************************************)
EXTENDS Coordinator

\* Where the events are that Store.Handle does not ignore as those of age operations.
StoreEvents == {i \in 1 .. Len(log[1]) : log[1][i].request \in SSHRequests}

\* What LastSignEvent holds, and whether LastSignAt, its time, is before a moment.
LastSignEvent == IF StoreEvents = {} THEN NoOne ELSE log[1][Max(StoreEvents)].type
LastSignBefore(since) == \A i \in StoreEvents : i =< since

Failures == {"failure", "timeout", "canceled"}

\* Seeded bug: the age of the event is not looked at.
LastSignFailureClassStale(since) == IF LastSignEvent \in Failures THEN LastSignEvent ELSE "none"

\* lastSignFailureClass: an event that is old, or no failure, leaves the class empty.
LastSignFailureClass(since) ==
  IF ~LastSignBefore(since) /\ LastSignEvent \in Failures THEN LastSignEvent ELSE "none"

\* test-sign, still connected, has got SSH_AGENT_FAILURE.  It may read the file
\* in any later state.
TestSignReads(r) ==
  caller[r] = "returned" /\ verdict[r] # "success" /\ ctx[r] # "left"

\* signStartedAt: a moment before the first event of its request.
StartedAt(r) == {since \in 0 .. Len(log[1]) : \A i \in Told(1, r) : i > since}

-----------------------------------------------------------------------------
(* Properties.                                                             *)

\* No other signature has written to the file after that moment.
Alone(r, since) == \A q \in SSHRequests \ {r} : \A i \in Told(1, q) : i =< since

\* Unless another signature has written to the file since it began, test-sign
\* reads why its own failed, and nothing if that never got its turn: neither
\* what an earlier one has left there nor one that is still at the device is
\* taken for its own (command.go:635).
LoneFailureIsClassified ==
  \A r \in SSHRequests : \A since \in StartedAt(r) :
    TestSignReads(r) /\ Alone(r, since) =>
      LastSignFailureClass(since) = IF id[r] = 0 THEN "none" ELSE verdict[r]
=============================================================================
