---------------------------- MODULE TouchEvents ----------------------------
(***************************************************************************)
(* What a sink of the signing coordinator sees: for every request at most  *)
(* one initializing, one waiting and one outcome, in that order; progress  *)
(* only of the one request that occupies the device.  The outcome of a     *)
(* request may come late, after the next request has made progress.        *)
(* Coordinator implements this specification for each of its sinks, and    *)
(* TouchPanel is the panel that lives on such a stream.                    *)
(***************************************************************************)
EXTENDS Sequences

CONSTANTS Requests, NoOne

ASSUME EventsAssumption == NoOne \notin Requests

VARIABLES
  holder,  \* the request that occupies the device and has been heard of
  phase,   \* what has been heard of each request
  stream   \* the events, in the order the sink handled them

streamVars == <<holder, phase, stream>>

Verdicts == {"success", "failure", "timeout", "canceled"}

EventsInit ==
  /\ holder = NoOne
  /\ phase  = [r \in Requests |-> "quiet"]
  /\ stream = <<>>

Hear(r, type) == stream' = Append(stream, [request |-> r, type |-> type])

BeginsToInitialize(r) ==
  /\ Hear(r, "initializing")
  /\ holder = NoOne /\ phase[r] = "quiet"
  /\ holder' = r
  /\ phase' = [phase EXCEPT ![r] = "initializing"]

AsksForTouch(r) ==
  /\ Hear(r, "waiting")
  /\ holder = r /\ phase[r] = "initializing"
  /\ phase' = [phase EXCEPT ![r] = "waiting"]
  /\ UNCHANGED holder

LeavesDevice(r) ==
  /\ UNCHANGED stream
  /\ holder = r
  /\ holder' = NoOne
  /\ UNCHANGED phase

Concludes(r, verdict) ==
  /\ Hear(r, verdict)
  /\ phase[r] # "over"
  /\ verdict = "success" => phase[r] = "waiting"
  /\ phase' = [phase EXCEPT ![r] = "over"]
  /\ UNCHANGED holder

EventsStep(r) ==
  \/ BeginsToInitialize(r) \/ AsksForTouch(r) \/ LeavesDevice(r)
  \/ \E verdict \in Verdicts : Concludes(r, verdict)

EventsSpec == EventsInit /\ [][\E r \in Requests : EventsStep(r)]_streamVars
=============================================================================
