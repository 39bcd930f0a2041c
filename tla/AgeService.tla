----------------------------- MODULE AgeService -----------------------------
(***************************************************************************)
(* internal/ageipc/server.go and internal/ageservice/service.go: the age   *)
(* plugin's connections, one request each, from the accept loop through    *)
(* the probes of the device to the hardware path (AgeDecrypt, on the same   *)
(* coordinator as the SSH requests) or the recovery path (a one-shot       *)
(* helper, agehelper/runner.go, outside of the coordinator), and back to    *)
(* the one answer.                                                          *)
(***************************************************************************)
EXTENDS AgeDecrypt

CONSTANT Limits  \* values of Server.MaxConcurrent

ASSUME LimitsAssumption == Limits \subseteq Nat \ {0}
ASSUME FoundAssumption == NoOne \notin {"connected", "absent", "unclear"}

VARIABLES
  limit,    \* Server.MaxConcurrent
  server,   \* the accept loop
  handler,  \* where the goroutine that serves each age connection is
  over,     \* the request's context has ended
  found,    \* what the probe under way has found
  device,   \* the target YubiKey
  absence   \* history: the probes during which it was away

serviceVars == <<limit, server, handler, over, found, device, absence>>
allVars == <<ageVars, serviceVars>>

Probes == {"probe1", "probe2"}
Unwrapping == Probes \cup {"interval", "hardware", "recovery", "returning"}
Handlers == {r \in AgeRequests : handler[r] \in Unwrapping \cup {"reading"}}

\* Service.Unwrap has been called and has not returned.
Unwraps(r) == handler[r] \in Unwrapping \ {"returning"}

ServiceTypeOK ==
  /\ TypeOK
  /\ killed \subseteq AgeRequests /\ session \in AgeRequests \cup {NoOne}
  /\ limit \in Limits /\ server \in {"serving", "stopping", "stopped"}
  /\ handler \in [AgeRequests -> Unwrapping \cup {"queued", "refusing", "reading", "closed"}]
  /\ over \in [AgeRequests -> BOOLEAN]
  /\ found \in [AgeRequests -> {"connected", "absent", "unclear", NoOne}]
  /\ device \in {"connected", "absent"}
  /\ absence \in [AgeRequests -> SUBSET Probes]
  /\ Cardinality(Handlers) =< limit

ServiceInit ==
  /\ AgeInit
  /\ limit \in Limits /\ server = "serving"
  /\ handler = [r \in AgeRequests |-> "queued"] /\ over = [r \in AgeRequests |-> FALSE]
  /\ found = [r \in AgeRequests |-> NoOne]
  /\ device \in {"connected", "absent"} /\ absence = [r \in AgeRequests |-> {}]

Go(r, from, to) == handler[r] = from /\ handler' = [handler EXCEPT ![r] = to]

\* The probe during which the device is away, if any.
Away(at, d) == IF at \in Probes /\ d = "absent" THEN {at} ELSE {}

-----------------------------------------------------------------------------
(* Server.Serve.                                                           *)

ServerFrame == UNCHANGED <<ageVars, limit, over, found, device, absence>>

\* A client may connect at any time before it is accepted; "queued" stands for
\* both.  A connection over the limit is refused by the accept loop itself, which
\* takes no other one meanwhile.
Accepting == \A r \in AgeRequests : handler[r] # "refusing"

Accepted == IF Cardinality(Handlers) < limit THEN "reading" ELSE "refusing"

Accept(r) ==
  /\ server = "serving" /\ Accepting /\ Go(r, "queued", Accepted)
  /\ ServerFrame /\ UNCHANGED server

\* rejectBusy, in bounded time.
RejectBusy(r) == Go(r, "refusing", "closed") /\ ServerFrame /\ UNCHANGED server

\* An unauthorized peer, a bad frame, trailing data, a read timeout; the client
\* or the server has closed the connection.
RefuseRequest(r) == Go(r, "reading", "closed") /\ ServerFrame /\ UNCHANGED server

\* The request's context, which ends with the server's.
ReadRequest(r) ==
  /\ Go(r, "reading", "probe1")
  /\ over' = [over EXCEPT ![r] = server # "serving"]
  /\ absence' = [absence EXCEPT ![r] = Away("probe1", device)]
  /\ UNCHANGED <<ageVars, limit, server, found, device>>

\* The end of a request's context is the end of the one the coordinator derives
\* from it.
EndContexts(S, why) ==
  /\ over' = [r \in AgeRequests |-> over[r] \/ r \in S]
  /\ ctx'  = [r \in Requests |-> IF r \in S /\ Running(r) /\ ctx[r] = "live" THEN why ELSE ctx[r]]
  /\ UNCHANGED <<callerVars, worker, result, activeVars, claimed, eventVars, invalid, helperVars>>
  /\ UNCHANGED <<limit, found, device, absence>>

\* RequestTimeout, and what watchDisconnect sees.
RequestEnds(r) ==
  /\ Unwraps(r) /\ ~over[r]
  /\ \E why \in {"timeout", "left"} : EndContexts({r}, why)
  /\ UNCHANGED <<server, handler>>

\* The end of serveConn: one answer, or none to a client that has gone.
Respond(r) == Go(r, "returning", "closed") /\ ServerFrame /\ UNCHANGED server

\* The server's context ends, and with it every request's; the listener and all
\* connections are closed, but for one that is accepted too late to be listed.
Shutdown ==
  /\ server = "serving" /\ server' = "stopping"
  /\ \E late \in {NoOne} \cup (IF Accepting THEN AgeRequests ELSE {}) :
       handler' = [r \in AgeRequests |-> IF handler[r] # "queued" THEN handler[r]
                                        ELSE IF r = late THEN Accepted ELSE "closed"]
  /\ EndContexts({r \in AgeRequests : Unwraps(r)}, "left")

ServeReturns ==
  /\ server = "stopping" /\ Handlers = {} /\ Accepting
  /\ server' = "stopped"
  /\ ServerFrame /\ UNCHANGED handler

-----------------------------------------------------------------------------
(* Service.Unwrap.                                                         *)

ServiceFrame == UNCHANGED <<limit, server, device>>

\* Unwrap returns a file key or an error class.  What has become of its context
\* now only tells which answer there is.
Return(r, from) ==
  /\ Go(r, from, "returning")
  /\ over' = [over EXCEPT ![r] = FALSE] /\ absence' = [absence EXCEPT ![r] = {}]

\* validateRequest fails, or the context is over before the first probe.
Decline(r) ==
  /\ found[r] = NoOne /\ Return(r, "probe1")
  /\ ServiceFrame /\ UNCHANGED <<ageVars, found>>

\* The probe helper looks at the device; or it fails, or is timed out.
ProbeReads(r) ==
  /\ handler[r] \in Probes /\ found[r] = NoOne
  /\ \E f \in {device, "unclear"} : found' = [found EXCEPT ![r] = f]
  /\ ServiceFrame /\ UNCHANGED <<ageVars, handler, over, absence>>

\* Seeded bug: a probe that was cut short invalidates like any that failed.
ProbeInVainDistrusted(r) ==
  /\ over[r] /\ Return(r, handler[r])
  /\ IF found[r] = "connected" THEN UNCHANGED ageVars ELSE Invalidate /\ UNCHANGED vars

\* The result of a probe whose caller has gone is ignored.
ProbeInVain(r) == over[r] /\ Return(r, handler[r]) /\ UNCHANGED ageVars

\* The hardware path: RunCancelableFor.
ProbeConnected(r) ==
  /\ ~over[r] /\ found[r] = "connected"
  /\ Go(r, handler[r], "hardware") /\ Arrive(r)
  /\ absence' = [absence EXCEPT ![r] = {}]
  /\ UNCHANGED <<helperVars, over>>

\* Seeded bug: a first probe without an answer counts as an absence.
ProbeDistrustedOnce(r) ==
  /\ ~over[r] /\ found[r] \in {"absent", "unclear"}
  /\ Invalidate /\ UNCHANGED vars
  /\ \/ Return(r, handler[r])
     \/ /\ found[r] = "absent" \/ handler[r] = "probe1"
        /\ UNCHANGED <<over, absence>>
        /\ Go(r, "probe1", "interval") \/ Go(r, "probe2", "recovery")

\* Anything else invalidates the hardware session first, which may fail, and
\* without a matching recovery stanza two absences are an error as well.  (A
\* context that ends after the look at it changes nothing of the rest of this step.)
ProbeDistrusted(r) ==
  /\ ~over[r] /\ found[r] \in {"absent", "unclear"}
  /\ Invalidate /\ UNCHANGED vars
  /\ \/ Return(r, handler[r])
     \/ /\ found[r] = "absent" /\ UNCHANGED <<over, absence>>
        /\ Go(r, "probe1", "interval") \/ Go(r, "probe2", "recovery")

ProbeReturns(r) ==
  /\ handler[r] \in Probes /\ found[r] # NoOne
  /\ ProbeInVain(r) \/ ProbeConnected(r) \/ ProbeDistrusted(r)
  /\ found' = [found EXCEPT ![r] = NoOne]
  /\ ServiceFrame

\* waitContext, for the probe interval.
WaitInterval(r) ==
  /\ \/ /\ Go(r, "interval", "probe2") /\ UNCHANGED over
        /\ absence' = [absence EXCEPT ![r] = @ \cup Away("probe2", device)]
     \/ over[r] /\ Return(r, "interval")
  /\ ServiceFrame /\ UNCHANGED <<ageVars, found>>

UnwrapHardware(r) ==
  /\ caller[r] = "returned" /\ Return(r, "hardware")
  /\ ServiceFrame /\ UNCHANGED <<ageVars, found>>

\* unwrapRecovery: a helper of its own, which is killed with the context.
UnwrapRecovery(r) ==
  /\ Return(r, "recovery")
  /\ ServiceFrame /\ UNCHANGED <<ageVars, found>>

Serve(r) ==
  \/ Accept(r) \/ RejectBusy(r) \/ RefuseRequest(r) \/ ReadRequest(r) \/ RequestEnds(r) \/ Respond(r)
  \/ Decline(r) \/ ProbeReads(r) \/ ProbeReturns(r) \/ WaitInterval(r)
  \/ UnwrapHardware(r) \/ UnwrapRecovery(r)

-----------------------------------------------------------------------------
(* The device and the coordinator.                                         *)

Plug ==
  /\ device' = IF device = "absent" THEN "connected" ELSE "absent"
  /\ absence' = [r \in AgeRequests |-> absence[r] \cup Away(handler[r], device')]
  /\ UNCHANGED <<ageVars, limit, server, handler, over, found>>

\* Of its own accord the coordinator neither takes up an age request nor learns
\* that its client has gone.
Coordinate ==
  /\ CoordinatorStep
  /\ \A r \in AgeRequests :
       (caller'[r] # "idle" => caller[r] # "idle") /\ (ctx'[r] = "left" => ctx[r] = "left")
  /\ UNCHANGED serviceVars

WatcherInvalidates == DeviceInvalidates /\ UNCHANGED serviceVars

ServiceOver ==
  /\ \A r \in AgeRequests : handler[r] = "closed"
  /\ UNCHANGED allVars

ServiceNext ==
  \/ \E r \in AgeRequests : Serve(r)
  \/ Plug \/ Coordinate \/ WatcherInvalidates
  \/ Shutdown \/ ServeReturns
  \/ ServiceOver

ServiceSpec == ServiceInit /\ [][ServiceNext]_allVars

-----------------------------------------------------------------------------
(* Properties.                                                             *)

\* The recovery path is only taken if the device was away during two probes
\* with the interval between them (docs/age-reference.md:189): neither a probe
\* that failed nor a contact that was lost for a moment leads there.
RecoveryWasAway == \A r \in AgeRequests : handler[r] = "recovery" => absence[r] = Probes

\* What may end a helper call that another request waits for: its own cancelation,
\* the watcher of devices, a probe without a trusted answer whose client still waits
\* for it (service.go:246), and a cancelation that comes too late to be of any use
\* (AgeDecrypt).
ProbeFails(q) ==
  /\ handler[q] \in Probes /\ ~over[q] /\ found[q] \in {"absent", "unclear"}
  /\ handler'[q] # handler[q]
CanceledLate(q) == CancelOperation(q) /\ worker[q] = "done"

\* Nothing else does: not a request that gives up while it probes, waits between
\* its probes, queues at the coordinator or is served, not a probe that finds the
\* device, not the end of a connection (service.go:239, service_test.go:694).
GivingUpSparesOthers ==
  [][\A r \in killed' \ killed :
       \/ CancelOperation(r) \/ WatcherInvalidates
       \/ \E q \in AgeRequests : ProbeFails(q) \/ CanceledLate(q)]_allVars
=============================================================================
