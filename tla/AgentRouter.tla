---------------------------- MODULE AgentRouter ----------------------------
(***************************************************************************)
(* internal/agentroute (router.go, guard.go) and the part of               *)
(* internal/daemon that starts and stops it: the public agent socket is a  *)
(* symbolic link the daemon points at its own PIV agent or, while no       *)
(* YubiKey is present, at the 1Password agent.  The link, the route guard  *)
(* and the configuration outlive the process, which may be killed between  *)
(* any two steps; `card' and `probeErr' are what the IOKit monitor has      *)
(* cached, whose changes reach the router through coalescing channels.     *)
(*                                                                         *)
(* One setRoute is a step: what it shows to others is one rename.          *)
(***************************************************************************)
EXTENDS Naturals, FiniteSets

CONSTANTS
  Fallbacks,      \* paths a fallback agent may listen at
  NoPath,
  DebounceCount,  \* Options.DebounceCount
  Depth,          \* bound: notifications on their way to the router's channel
  MaxFaults       \* bound: file system calls that fail

ASSUME PathsAssumption == NoPath \notin Fallbacks /\ {"piv", "missing", "none"} \cap Fallbacks = {}
ASSUME BoundsAssumption == DebounceCount \in Nat \ {0, 1} /\ Depth \in Nat \ {0} /\ MaxFaults \in Nat

VARIABLES
  \* on disk
  link,      \* where the public path points, or "missing"
  guard,     \* the fallback route-guard.json names, NoPath, or "none" without the file
  conf,      \* the configuration file
  piv,       \* what is at the path of the PIV socket
  health,    \* the agent at the configured fallback path
  \* the monitor
  card, probeErr, upstream, event, closed,
  \* the daemon
  pc, ctx, cfg, guardReady, exit,
  \* the router
  router, zeroCount, snapshot, retry, failed,
  \* history and bounds
  waited,    \* a retry timer has fired since the first of the last successive zero probes
  calm,      \* a retry timer has fired since the last removal of the YubiKey
  lost,      \* the guard of this configuration was deleted by someone else
  faults

disk    == <<link, guard, conf, piv, health>>
monitor == <<card, probeErr, upstream, event, closed>>
process == <<pc, ctx, cfg, guardReady, exit>>
loop    == <<router, zeroCount, snapshot, retry, failed>>
history == <<waited, calm, lost, faults>>
vars == <<disk, monitor, process, loop, history>>

Configs == {c \in [enabled : BOOLEAN, socket : Fallbacks \cup {NoPath}] :
              c.enabled => c.socket # NoPath}
Broken == [enabled |-> FALSE, socket |-> "broken"]  \* does not parse
NoSnapshot == [route |-> "none", probe |-> "none"]

TypeOK ==
  /\ link \in Fallbacks \cup {"piv", "missing"}
  /\ guard \in Fallbacks \cup {NoPath, "none"}
  /\ conf \in Configs \cup {Broken}
  /\ piv \in {"sound", "missing", "unsafe"} /\ health \in {"good", "foul", "unsafe"}
  /\ card \in BOOLEAN /\ probeErr \in BOOLEAN /\ event \in BOOLEAN /\ closed \in BOOLEAN
  /\ upstream \in 0..Depth
  /\ pc \in {"down", "guarded", "loaded", "cleared", "listening", "withdrawn", "ready", "recorded",
             "failing", "running", "stopping", "closing"}
  /\ ctx \in {"live", "canceled"} /\ cfg \in Configs /\ guardReady \in BOOLEAN
  /\ exit \in {"none", "ok", "error", "config"}
  /\ router \in {"idle", "start", "select", "inspecting", "recheck", "drain", "publish", "event",
                 "done", "ended"}
  /\ zeroCount \in 0..DebounceCount
  /\ snapshot \in [route : {"none", "piv", "1password", "piv_fail_closed"},
                   probe : {"none", "not_checked", "connected", "not_detected", "unavailable"}]
  /\ retry \in BOOLEAN /\ failed \in BOOLEAN
  /\ waited \in {"no", "zero", "yes"} /\ calm \in BOOLEAN /\ lost \in BOOLEAN
  /\ faults \in 0..MaxFaults

-----------------------------------------------------------------------------
(* The file system.  An outcome is where the link ends up, whether the call *)
(* returns an error, and the faults it took; the error paths are outcomes.  *)

Outcome(l, e, f) == [link |-> l, err |-> e, faults |-> f]

\* Links to anything else are refused.
Managed(l) == l \in {"piv", "missing", cfg.socket}

\* The rename may fail, and may have happened when the directory sync fails.
AtomicRoute(l, target) ==
  {Outcome(target, FALSE, 0), Outcome(l, TRUE, 1), Outcome(target, TRUE, 1)}

RemoveRecordedFallback(l, fallback) ==
  IF l = fallback THEN {Outcome("missing", FALSE, 0), Outcome(l, TRUE, 1)}
                  ELSE {Outcome(l, FALSE, 0)}

\* Seeded bug: only a link to the configured fallback is withdrawn.
WithdrawConfigured(l, fallback) ==
  {Outcome(l, TRUE, 1)} \cup
  IF fallback \notin Fallbacks \/ l # cfg.socket THEN {Outcome(l, FALSE, 0)} ELSE AtomicRoute(l, "piv")

\* failClosedGuard and FailClosedBeforeStart: only a link to the fallback
\* named is touched.
Withdraw(l, fallback) ==
  {Outcome(l, TRUE, 1)} \cup
  IF fallback \notin Fallbacks \/ l # fallback THEN {Outcome(l, FALSE, 0)}
  ELSE IF piv = "unsafe" THEN RemoveRecordedFallback(l, fallback)
  ELSE AtomicRoute(l, "piv")

\* A setRoute that publishes `route' after the outcome o, or nothing.
Published(o, route) == [link |-> o.link, err |-> o.err, faults |-> o.faults, route |-> route]

\* Seeded bug: the error is lost on the way.
AfterForgets(o, outcomes) == {Outcome(x.link, FALSE, o.faults + x.faults) : x \in outcomes}

\* What follows a step that failed, in the same call.
After(o, outcomes) == {Outcome(x.link, TRUE, o.faults + x.faults) : x \in outcomes}

ClosedRoutes(l, route) ==
  LET tried == IF piv = "sound" /\ Managed(l) THEN AtomicRoute(l, "piv") ELSE {Outcome(l, TRUE, 0)}
  IN  {Published(o, route) : o \in {x \in tried : ~x.err}}
      \cup {Published(o, "none") :
              o \in UNION {After(x, RemoveRecordedFallback(x.link, cfg.socket)) :
                             x \in {y \in tried : y.err}}}

\* A failure of the guard or of the rename goes back to the PIV route.
Retreat(o) == {[x EXCEPT !.err = TRUE, !.faults = @ + o.faults] :
                 x \in ClosedRoutes(o.link, "piv_fail_closed")}

ValidateGuard == guard = cfg.socket

FallbackRoutes(l) ==
  IF ~cfg.enabled \/ ~guardReady \/ health = "unsafe"
  THEN {Published(Outcome(l, TRUE, 0), "none")}
  ELSE IF ~ValidateGuard \/ ~Managed(l) THEN Retreat(Outcome(l, TRUE, 0))
  ELSE LET tried == AtomicRoute(l, cfg.socket)
       IN  {Published(o, "1password") : o \in {x \in tried : ~x.err}}
           \cup UNION {Retreat(o) : o \in {x \in tried : x.err}}

\* `cause': the caller has met an error of its own already.
SetRoute(route, probe, cause) ==
  \E o \in (IF route = "1password" THEN FallbackRoutes(link) ELSE ClosedRoutes(link, route)) :
    /\ faults + o.faults =< MaxFaults
    /\ faults' = faults + o.faults
    /\ link' = o.link
    /\ snapshot' = IF o.route = "none" THEN snapshot ELSE [route |-> o.route, probe |-> probe]
    /\ failed' = (o.err \/ cause)

KeepRoute == UNCHANGED <<link, snapshot, failed, faults>>

-----------------------------------------------------------------------------
(* Starting and stopping the daemon.                                        *)

Init ==
  /\ link \in {"missing", "piv"} /\ guard = "none" /\ conf \in Configs \cup {Broken}
  /\ piv = "missing" /\ health = "good"
  /\ card \in BOOLEAN /\ probeErr = FALSE /\ upstream = 0 /\ event = FALSE /\ closed = FALSE
  /\ pc = "down" /\ ctx = "live" /\ cfg = [enabled |-> FALSE, socket |-> NoPath]
  /\ guardReady = FALSE /\ exit = "none"
  /\ router = "idle" /\ zeroCount = 0 /\ snapshot = NoSnapshot
  /\ retry = FALSE /\ failed = FALSE
  /\ waited = "no" /\ calm = FALSE /\ lost = FALSE /\ faults = 0

\* One call that withdraws the route to `fallback': on to `next', or `out'.
Withdrawing(at, fallback, next, out) ==
  /\ pc = at
  /\ \E o \in Withdraw(link, fallback) :
       /\ faults + o.faults =< MaxFaults
       /\ faults' = faults + o.faults
       /\ link' = o.link
       /\ IF o.err THEN pc' = out /\ exit' = "error" ELSE pc' = next /\ UNCHANGED exit
  /\ UNCHANGED <<guard, conf, piv, health, monitor, ctx, cfg, guardReady, loop, waited, calm, lost>>

\* daemon.Run reads the guard before the configuration.
Start == Withdrawing("down", guard, "guarded", "down")

LoadConfig ==
  /\ pc = "guarded"
  /\ IF conf = Broken
     THEN pc' = "down" /\ exit' = "config" /\ UNCHANGED cfg
     ELSE pc' = "loaded" /\ exit' = "none" /\ cfg' = conf
  /\ UNCHANGED <<disk, monitor, ctx, guardReady, loop, history>>

FailClosedBeforeStart == Withdrawing("loaded", cfg.socket, "cleared", "down")

\* The monitor is started and the PIV agent listens.
Listen ==
  /\ pc = "cleared"
  /\ IF piv = "unsafe"
     THEN pc' = "down" /\ exit' = "error" /\ UNCHANGED piv
     ELSE pc' = "listening" /\ piv' = "sound" /\ UNCHANGED exit
  /\ UNCHANGED <<link, guard, conf, health, monitor, ctx, cfg, guardReady, loop, history>>

\* Router.Initialize.
ValidatePIV ==
  /\ pc = "listening" /\ piv # "sound"
  /\ pc' = "failing" /\ exit' = "error"
  /\ UNCHANGED <<disk, monitor, ctx, cfg, guardReady, loop, history>>

FailClosedFromGuard == piv = "sound" /\ Withdrawing("listening", guard, "withdrawn", "failing")

FailClosedAgain == Withdrawing("withdrawn", cfg.socket, "ready", "failing")

PersistGuard ==
  /\ pc = "ready"
  /\ \E renamed \in BOOLEAN, err \in BOOLEAN :
       /\ ~renamed => err
       /\ guard' = IF renamed THEN IF cfg.enabled THEN cfg.socket ELSE NoPath ELSE guard
       /\ lost' = (lost /\ (renamed => link \in Fallbacks))
       /\ faults' = faults + (IF err THEN 1 ELSE 0) /\ faults' =< MaxFaults
       /\ IF err THEN pc' = "failing" /\ exit' = "error" /\ UNCHANGED guardReady
                 ELSE pc' = "recorded" /\ guardReady' = TRUE /\ UNCHANGED exit
  /\ UNCHANGED <<link, conf, piv, health, monitor, ctx, cfg, loop, waited, calm>>

\* validatePublicPath refuses a link that is not managed.
RefusePath ==
  /\ pc = "recorded" /\ ~Managed(link)
  /\ pc' = "failing" /\ exit' = "error"
  /\ UNCHANGED <<disk, monitor, ctx, cfg, guardReady, loop, history>>

\* The last step of Initialize; then the daemon starts the router's goroutine.
PublishInitial ==
  /\ pc = "recorded" /\ Managed(link)
  /\ SetRoute("piv_fail_closed", "not_checked", FALSE)
  /\ IF failed' THEN pc' = "failing" /\ exit' = "error" /\ UNCHANGED router
                ELSE pc' = "running" /\ router' = "start" /\ UNCHANGED exit
  /\ UNCHANGED <<guard, conf, piv, health, monitor, ctx, cfg, guardReady, zeroCount, retry,
                 waited, calm, lost>>

\* The daemon's context ends, or a service of it fails.
Stop ==
  /\ pc = "running"
  /\ pc' = "stopping" /\ ctx' = "canceled"
  /\ UNCHANGED <<disk, monitor, cfg, guardReady, exit, loop, history>>

\* Router.FailClosed, after Router.Run has returned or Initialize has failed.
Impatient == pc \in {"failing", "stopping"}  \* seeded bug

RouterIsOver == pc = "failing" \/ (pc = "stopping" /\ router \in {"done", "ended"})

FailClosed ==
  /\ RouterIsOver
  /\ zeroCount' = 0
  /\ SetRoute("piv_fail_closed", "not_checked", FALSE)
  /\ exit' = IF failed' \/ pc = "failing" \/ router = "ended" THEN "error" ELSE "ok"
  /\ pc' = "closing"
  /\ UNCHANGED <<guard, conf, piv, health, monitor, ctx, cfg, guardReady, router, retry,
                 waited, calm, lost>>

\* What the process forgets when it ends.
Forget ==
  /\ pc' = "down" /\ ctx' = "live" /\ cfg' = [enabled |-> FALSE, socket |-> NoPath]
  /\ guardReady' = FALSE /\ router' = "idle" /\ zeroCount' = 0 /\ snapshot' = NoSnapshot
  /\ retry' = FALSE /\ failed' = FALSE
  /\ upstream' = 0 /\ event' = FALSE /\ closed' = FALSE /\ waited' = "no" /\ calm' = FALSE

\* The listeners close, which removes the PIV socket.
Close ==
  /\ pc = "closing"
  /\ Forget /\ piv' = "missing"
  /\ UNCHANGED <<link, guard, conf, health, card, probeErr, exit, lost, faults>>

Crash ==
  /\ pc # "down"
  /\ Forget /\ exit' = "none"
  /\ UNCHANGED <<disk, card, probeErr, lost, faults>>

-----------------------------------------------------------------------------
(* Router.Run and reconcileWithDebounce.                                    *)

Probe == IF ctx = "canceled" \/ probeErr THEN "error" ELSE IF card THEN "present" ELSE "absent"

\* Seeded bug: no retry after an error or without a YubiKey.
SettleForGood == router' = "select" /\ retry' = (snapshot'.probe = "unavailable")

\* The reconcile returns; the loop arms the retry timer on an error or when
\* the YubiKey is not there.
Settle ==
  /\ router' = "select"
  /\ retry' = (failed' \/ snapshot'.probe \in {"not_detected", "unavailable"})

Unavailable(cause) ==
  /\ zeroCount' = 0 /\ waited' = "no"
  /\ SetRoute("piv_fail_closed", "unavailable", cause) /\ Settle

Connected ==
  /\ zeroCount' = 0 /\ waited' = "no"
  /\ SetRoute("piv", "connected", FALSE) /\ Settle

NotDetected == SetRoute("piv_fail_closed", "not_detected", FALSE) /\ Settle

\* Seeded bug: every event counts.
CountAlways(advance) == IF zeroCount < DebounceCount THEN zeroCount + 1 ELSE zeroCount

NextZeroCount(advance) ==
  IF zeroCount = 0 THEN 1
  ELSE IF advance /\ zeroCount < DebounceCount THEN zeroCount + 1 ELSE zeroCount

Reconcile(advanceDebounce) ==
  \/ /\ ~cfg.enabled
     /\ zeroCount' = 0 /\ SetRoute("piv", "not_checked", FALSE) /\ Settle /\ UNCHANGED waited
  \/ cfg.enabled /\ Probe = "error" /\ Unavailable(FALSE)
  \/ cfg.enabled /\ Probe = "present" /\ Connected
  \/ /\ cfg.enabled /\ Probe = "absent"
     /\ zeroCount' = NextZeroCount(advanceDebounce)
     /\ waited' = IF waited = "no" THEN "zero"
                  ELSE IF advanceDebounce THEN "yes" ELSE waited
     /\ IF zeroCount' < DebounceCount THEN NotDetected
        ELSE router' = "inspecting" /\ retry' = FALSE /\ KeepRoute

RouterFrame == UNCHANGED <<guard, conf, piv, health, card, probeErr, upstream, closed, process, lost>>

Begin == router = "start" /\ Reconcile(FALSE) /\ RouterFrame /\ UNCHANGED <<event, calm>>

\* A receive from the channel of device events.
TakeEvent(at) == router = at /\ event /\ event' = FALSE /\ UNCHANGED calm
EventsClosed(at) == router = at /\ ~event /\ closed /\ UNCHANGED <<event, calm>>
NoEvent(at) == router = at /\ ~event /\ ~closed /\ UNCHANGED <<event, calm>>

DeviceEvent == TakeEvent("select") /\ Reconcile(FALSE) /\ RouterFrame

RetryTimer ==
  /\ router = "select" /\ retry
  /\ Reconcile(TRUE) /\ calm' = TRUE
  /\ RouterFrame /\ UNCHANGED event

RunEnds ==
  /\ router = "select" /\ ctx = "canceled"
  /\ router' = "done"
  /\ KeepRoute /\ RouterFrame /\ UNCHANGED <<event, zeroCount, retry, waited, calm>>

FailUnavailable ==
  /\ EventsClosed("select")
  /\ zeroCount' = 0 /\ waited' = "no"
  /\ SetRoute("piv_fail_closed", "unavailable", TRUE)
  /\ router' = "ended" /\ RouterFrame /\ UNCHANGED retry

\* inspectFallbackWhileWatching: the answer of the agent, an event, or the
\* end of the time allowed, which leaves a pending event alone.
InspectionAnswers ==
  /\ NoEvent("inspecting") /\ health = "good"
  /\ router' = "recheck"
  /\ KeepRoute /\ RouterFrame /\ UNCHANGED <<zeroCount, retry, waited>>

InspectionFails ==
  /\ router = "inspecting" /\ (health # "good" \/ ctx = "canceled")
  /\ NotDetected
  /\ RouterFrame /\ UNCHANGED <<event, calm, zeroCount, waited>>

Recheck ==
  /\ router = "recheck"
  /\ \/ Probe = "error" /\ Unavailable(FALSE)
     \/ Probe = "present" /\ Connected
     \/ /\ Probe = "absent"
        /\ router' = "drain" /\ KeepRoute /\ UNCHANGED <<zeroCount, retry, waited>>
  /\ RouterFrame /\ UNCHANGED <<event, calm>>

Drain ==
  /\ NoEvent("drain")
  /\ router' = "publish"
  /\ KeepRoute /\ RouterFrame /\ UNCHANGED <<zeroCount, retry, waited>>

\* Seeded bug: an event taken at the last moment is dropped.
InterruptedInVain ==
  /\ TakeEvent("inspecting") \/ TakeEvent("drain")
  /\ router' = IF router = "drain" THEN "publish" ELSE "event"
  /\ KeepRoute /\ RouterFrame /\ UNCHANGED <<zeroCount, retry, waited>>

Interrupted ==
  /\ TakeEvent("inspecting") \/ TakeEvent("drain")
  /\ router' = "event"
  /\ KeepRoute /\ RouterFrame /\ UNCHANGED <<zeroCount, retry, waited>>

InterruptedForGood ==
  /\ EventsClosed("inspecting") \/ EventsClosed("drain")
  /\ Unavailable(TRUE) /\ RouterFrame

ReconcileProbeEvent ==
  /\ router = "event"
  /\ \/ Probe = "error" /\ Unavailable(FALSE)
     \/ Probe = "present" /\ Connected
     \/ /\ Probe = "absent"
        /\ zeroCount' = (IF zeroCount = 0 THEN 1 ELSE zeroCount)
        /\ waited' = (IF waited = "no" THEN "zero" ELSE waited)
        /\ NotDetected
  /\ RouterFrame /\ UNCHANGED <<event, calm>>

PublishFallback ==
  /\ router = "publish"
  /\ SetRoute("1password", "not_detected", FALSE) /\ Settle
  /\ RouterFrame /\ UNCHANGED <<event, calm, zeroCount, waited>>

-----------------------------------------------------------------------------
(* The world: the device, the notifications, the files of others.           *)

Watching == pc \in {"listening", "withdrawn", "ready", "recorded", "failing", "running", "stopping"}

\* The monitor updates what it has cached, then signals.
Notify ==
  /\ upstream' = IF Watching /\ ~closed /\ upstream < Depth THEN upstream + 1 ELSE upstream
  /\ UNCHANGED <<disk, event, closed, process, loop, waited, lost, faults>>

Plug == card' = ~card /\ calm' = (calm /\ card') /\ UNCHANGED probeErr /\ Notify
Glitch == probeErr' = ~probeErr /\ UNCHANGED <<card, calm>> /\ Notify

\* fanOutDeviceEvents and the channel of capacity one.
Deliver ==
  /\ upstream > 0
  /\ upstream' = upstream - 1 /\ event' = TRUE
  /\ UNCHANGED <<disk, card, probeErr, closed, process, loop, history>>

Misfortune == faults < MaxFaults /\ faults' = faults + 1

StreamEnds ==
  /\ Watching /\ upstream = 0 /\ ~closed /\ Misfortune
  /\ closed' = TRUE
  /\ UNCHANGED <<disk, card, probeErr, upstream, event, process, loop, waited, calm, lost>>

EditConfig ==
  /\ conf' \in Configs \cup {Broken}
  /\ UNCHANGED <<link, guard, piv, health, monitor, process, loop, history>>

ChangeHealth ==
  /\ health' \in {"good", "foul", "unsafe"}
  /\ UNCHANGED <<link, guard, conf, piv, monitor, process, loop, history>>

BreakPIV ==
  /\ Misfortune /\ piv' \in {"missing", "unsafe"}
  /\ UNCHANGED <<link, guard, conf, health, monitor, process, loop, waited, calm, lost>>

RepairPIV ==
  /\ piv # "sound" /\ piv' = "sound"
  /\ UNCHANGED <<link, guard, conf, health, monitor, process, loop, history>>

LoseGuard ==
  /\ guard # "none" /\ Misfortune
  /\ guard' = "none" /\ lost' = TRUE
  /\ UNCHANGED <<link, conf, piv, health, monitor, process, loop, waited, calm>>

-----------------------------------------------------------------------------
RouterStep ==
  Begin \/ DeviceEvent \/ RetryTimer \/ RunEnds \/ FailUnavailable \/ InspectionAnswers
  \/ InspectionFails \/ Recheck \/ Drain \/ Interrupted \/ InterruptedForGood
  \/ ReconcileProbeEvent \/ PublishFallback

DaemonStep ==
  Start \/ LoadConfig \/ FailClosedBeforeStart \/ Listen \/ ValidatePIV \/ FailClosedFromGuard
  \/ FailClosedAgain \/ PersistGuard \/ RefusePath \/ PublishInitial \/ Stop \/ FailClosed \/ Close \/ Crash

World ==
  Plug \/ Glitch \/ Deliver \/ StreamEnds \/ EditConfig \/ ChangeHealth \/ BreakPIV \/ RepairPIV
  \/ LoseGuard

Next == RouterStep \/ DaemonStep \/ World

Spec == Init /\ [][Next]_vars

\* The result of a router that has ended makes app.Run return.
ServiceEnds == router = "ended" /\ Stop

\* The router's goroutine and timer and the goroutines that forward events
\* run, and the daemon does not outlive its router; nothing else makes the
\* device, the files or the daemon's life change.
FairSpec == Spec /\ WF_vars(RouterStep) /\ WF_vars(Deliver) /\ WF_vars(ServiceEnds)

-----------------------------------------------------------------------------
(* Properties.                                                              *)

\* Whenever the public path is a fallback agent, the guard on disk names that
\* very agent, through crashes, failed writes and edits of the configuration
\* (README.md:738, "before any 1Password route takes effect"): unless someone
\* else has deleted the guard.
GuardCoversTheLink == link \in Fallbacks => guard = link \/ lost

\* Once a start has passed the guard there is no fallback route until the
\* router publishes one itself, and a start that finds the configuration
\* broken leaves none (daemon.Run, FailClosedFromGuard).
StartWithdraws ==
  (pc \in {"guarded", "loaded", "cleared", "listening", "withdrawn", "ready", "recorded", "failing"}
     \/ (pc = "down" /\ exit = "config"))
  => link \notin Fallbacks \/ lost

\* While the router waits with the fallback published, no change of the
\* device is lost: a YubiKey that is back, or a monitor that fails, has a
\* notification on its way (the recheck and the drain before the publication).
NoMissedCard ==
  router = "select" /\ link \in Fallbacks /\ ~failed /\ (card \/ probeErr)
  => event \/ upstream > 0 \/ closed

\* The fallback is only published when the retry timer has separated two
\* successful probes that found no YubiKey, with none in between that found
\* one or failed (zeroCount; router_test.go:487, the buffered removal).
FallbackIsDebounced ==
  router = "select" /\ link \in Fallbacks /\ ~failed => waited = "yes"

\* A reconcile that ends well leaves what it reports: agent_route of the state
\* file is 1password exactly when the public path is the fallback agent.
ReportedRouteIsReal ==
  router = "select" /\ ~failed => (snapshot.route = "1password" <=> link \in Fallbacks)

\* A daemon that stopped without an error leaves no fallback route
\* (docs/verification.md:432): the router has ended before FailClosed runs.
StopLeavesNoFallback == pc \in {"closing", "down"} /\ exit = "ok" => link \notin Fallbacks

\* The README (731-733) has a removal event fail closed at once, and the
\* fallback only come back after the debounce: once the router has seen to
\* every notification, a published fallback has had a retry timer fire since
\* the last removal.
RemovalIsDebounced ==
  router = "select" /\ link \in Fallbacks /\ ~failed /\ ~event /\ upstream = 0 => calm

\* A YubiKey that stays gets the public path back to the PIV agent, if the
\* daemon stays and the monitor and the PIV socket end up sound.
CardWins ==
  <>[](pc = "running" /\ card /\ ~probeErr /\ piv = "sound") => <>[](link = "piv")

\* Without a YubiKey the fallback takes over in the end, if it and the rest stay sound.
FallbackComes ==
  <>[](/\ pc = "running" /\ cfg.enabled /\ ~card /\ ~probeErr /\ ~closed /\ health = "good"
       /\ guard = cfg.socket /\ piv = "sound")
  => <>[](link \in Fallbacks)
=============================================================================
