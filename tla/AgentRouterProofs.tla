------------------------- MODULE AgentRouterProofs -------------------------
(***************************************************************************)
(* What AgentRouter promises about the public path for any fallback paths, *)
(* debounce count and bounds: a fallback route is always covered by the    *)
(* guard on disk, a start withdraws it, a clean stop leaves none; it is    *)
(* published after the debounce, truthfully, and no card is missed then.   *)
(***************************************************************************)
EXTENDS AgentRouter, TLAPS

(* The file system operators: where they may leave the link.               *)

LEMMA RemoveLinks ==
  ASSUME NEW l, NEW f, NEW o \in RemoveRecordedFallback(l, f)
  PROVE  o.link \in {l, "missing"}
  BY DEF RemoveRecordedFallback, Outcome

LEMMA AtomicLinks ==
  ASSUME NEW l, NEW t, NEW o \in AtomicRoute(l, t)
  PROVE  o.link \in {l, t} /\ (~o.err => o.link = t)
  BY DEF AtomicRoute, Outcome

\* What is withdrawn without an error is not a link to the fallback named.
LEMMA WithdrawLinks ==
  ASSUME NEW l, NEW f, NEW o \in Withdraw(l, f)
  PROVE  /\ o.link \in {l, "piv", "missing"}
         /\ ~o.err /\ f \in Fallbacks => o.link # f
  <1>1. CASE o = Outcome(l, TRUE, 1)
    BY <1>1 DEF Outcome
  <1>2. CASE o # Outcome(l, TRUE, 1) /\ (f \notin Fallbacks \/ l # f)
    BY <1>2 DEF Withdraw, Outcome
  <1>3. CASE o # Outcome(l, TRUE, 1) /\ f \in Fallbacks /\ l = f /\ piv = "unsafe"
    <2>1. o \in RemoveRecordedFallback(l, f)
      BY <1>3 DEF Withdraw
    <2>2. o = Outcome("missing", FALSE, 0)
      BY <2>1, <1>3 DEF RemoveRecordedFallback
    <2> QED
      BY <2>2, PathsAssumption DEF Outcome
  <1>4. CASE o # Outcome(l, TRUE, 1) /\ f \in Fallbacks /\ l = f /\ piv # "unsafe"
    <2>1. o \in AtomicRoute(l, "piv")
      BY <1>4 DEF Withdraw
    <2> QED
      BY <2>1, AtomicLinks, PathsAssumption
  <1> QED
    BY <1>1, <1>2, <1>3, <1>4

\* The attempt to point the path at the PIV agent.
Tried(l) == IF piv = "sound" /\ Managed(l) THEN AtomicRoute(l, "piv") ELSE {Outcome(l, TRUE, 0)}

\* Either the rename succeeds, or what is left of the fallback is removed.
Splits(l, r, o) ==
  \/ \E x \in Tried(l) : ~x.err /\ o = Published(x, r)
  \/ \E x \in Tried(l) : \E y \in RemoveRecordedFallback(x.link, cfg.socket) :
       o = Published(Outcome(y.link, TRUE, x.faults + y.faults), "none")

LEMMA ClosedSplits ==
  ASSUME NEW l, NEW r, NEW o \in ClosedRoutes(l, r)
  PROVE  Splits(l, r, o)
  <1>1. CASE o \in {Published(x, r) : x \in {y \in Tried(l) : ~y.err}}
    BY <1>1 DEF Splits
  <1>2. CASE o \in {Published(z, "none") :
                      z \in UNION {After(x, RemoveRecordedFallback(x.link, cfg.socket)) :
                                      x \in {y \in Tried(l) : y.err}}}
    <2>1. PICK z \in UNION {After(x, RemoveRecordedFallback(x.link, cfg.socket)) :
                               x \in {y \in Tried(l) : y.err}} : o = Published(z, "none")
      BY <1>2
    <2>2. PICK x \in Tried(l) : z \in After(x, RemoveRecordedFallback(x.link, cfg.socket))
      BY <2>1
    <2>3. PICK y \in RemoveRecordedFallback(x.link, cfg.socket) :
            z = Outcome(y.link, TRUE, x.faults + y.faults)
      BY <2>2 DEF After
    <2> QED
      BY <2>1, <2>3 DEF Splits
  <1> QED
    BY <1>1, <1>2 DEF ClosedRoutes, Tried

LEMMA ClosedLinks ==
  ASSUME NEW l, NEW r, NEW o \in ClosedRoutes(l, r)
  PROVE  o.link \in {l, "piv", "missing"} /\ (~o.err => o.link = "piv")
  <1>1. ASSUME NEW x \in Tried(l)
        PROVE  x.link \in {l, "piv"} /\ (~x.err => x.link = "piv")
    <2>1. CASE x \in AtomicRoute(l, "piv")
      BY <2>1, AtomicLinks
    <2>2. CASE x = Outcome(l, TRUE, 0)
      BY <2>2 DEF Outcome
    <2> QED
      BY <2>1, <2>2 DEF Tried
  <1>2. CASE \E x \in Tried(l) : ~x.err /\ o = Published(x, r)
    <2>1. PICK x \in Tried(l) : ~x.err /\ o = Published(x, r)
      BY <1>2
    <2>2. x.link = "piv"
      BY <1>1, <2>1
    <2>3. o.link = x.link
      BY <2>1 DEF Published
    <2> QED
      BY <2>2, <2>3
  <1>3. CASE \E x \in Tried(l) : \E y \in RemoveRecordedFallback(x.link, cfg.socket) :
               o = Published(Outcome(y.link, TRUE, x.faults + y.faults), "none")
    <2>1. PICK x \in Tried(l) : \E y \in RemoveRecordedFallback(x.link, cfg.socket) :
               o = Published(Outcome(y.link, TRUE, x.faults + y.faults), "none")
      BY <1>3
    <2>2. PICK y \in RemoveRecordedFallback(x.link, cfg.socket) :
               o = Published(Outcome(y.link, TRUE, x.faults + y.faults), "none")
      BY <2>1
    <2>3. y.link \in {x.link, "missing"}
      BY RemoveLinks
    <2>4. o.link = y.link /\ o.err = TRUE
      BY <2>2 DEF Published, Outcome
    <2> QED
      BY <1>1, <2>3, <2>4
  <1>4. Splits(l, r, o)
    BY ClosedSplits
  <1> QED
    BY <1>2, <1>3, <1>4, Zenon DEF Splits

LEMMA RetreatLinks ==
  ASSUME NEW o, NEW x \in Retreat(o)
  PROVE  x.link \in {o.link, "piv", "missing"}
  <1>1. PICK y \in ClosedRoutes(o.link, "piv_fail_closed") :
          x = [y EXCEPT !.err = TRUE, !.faults = @ + o.faults]
    BY DEF Retreat
  <1>2. y.link \in {o.link, "piv", "missing"}
    BY ClosedLinks
  <1>3. x.link = y.link
    BY <1>1 DEF ClosedRoutes, Published, After, Outcome
  <1> QED
    BY <1>2, <1>3

\* A fallback route is only opened by a setRoute that found the guard in place.
LEMMA FallbackLinks ==
  ASSUME NEW l, NEW o \in FallbackRoutes(l)
  PROVE  o.link \in {l, "piv", "missing"} \/ (o.link = cfg.socket /\ guard = cfg.socket)
  <1>1. CASE ~cfg.enabled \/ ~guardReady \/ health = "unsafe"
    BY <1>1 DEF FallbackRoutes, Published, Outcome
  <1>2. CASE ~(~cfg.enabled \/ ~guardReady \/ health = "unsafe")
             /\ (~ValidateGuard \/ ~Managed(l))
    <2>1. o \in Retreat(Outcome(l, TRUE, 0))
      BY <1>2 DEF FallbackRoutes
    <2> QED
      BY <2>1, RetreatLinks DEF Outcome
  <1>3. CASE ~(~cfg.enabled \/ ~guardReady \/ health = "unsafe") /\ ValidateGuard /\ Managed(l)
    <2>1. \/ \E x \in AtomicRoute(l, cfg.socket) : o = Published(x, "1password")
          \/ \E x \in AtomicRoute(l, cfg.socket) : o \in Retreat(x)
      BY <1>3, Zenon DEF FallbackRoutes
    <2>2. CASE \E x \in AtomicRoute(l, cfg.socket) : o = Published(x, "1password")
      BY <2>2, <1>3, AtomicLinks DEF Published, ValidateGuard
    <2>3. CASE \E x \in AtomicRoute(l, cfg.socket) : o \in Retreat(x)
      BY <2>3, <1>3, AtomicLinks, RetreatLinks DEF ValidateGuard
    <2> QED
      BY <2>1, <2>2, <2>3
  <1> QED
    BY <1>1, <1>2, <1>3

LEMMA SetRouteLinks ==
  ASSUME NEW r, NEW p, NEW c, SetRoute(r, p, c)
  PROVE  /\ \/ link' \in {link, "piv", "missing"}
            \/ r = "1password" /\ link' = cfg.socket /\ guard = cfg.socket
         /\ r # "1password" /\ ~failed' => link' = "piv"
  <1>1. CASE r = "1password"
    BY <1>1, FallbackLinks DEF SetRoute
  <1>2. CASE r # "1password"
    BY <1>2, ClosedLinks DEF SetRoute
  <1> QED
    BY <1>1, <1>2

-----------------------------------------------------------------------------
(* A step of the router may publish a fallback, and only a guarded one.     *)

Running == router \notin {"idle", "done", "ended"}

LEMMA RouterLinks ==
  ASSUME RouterStep
  PROVE  /\ Running /\ UNCHANGED <<guard, lost, pc, exit>>
         /\ link' \in {link, "piv", "missing"} \/ (link' = cfg.socket /\ guard = cfg.socket)
  <1> DEFINE Goal == /\ Running /\ UNCHANGED <<guard, lost, pc, exit>>
                     /\ \/ link' \in {link, "piv", "missing"}
                        \/ link' = cfg.socket /\ guard = cfg.socket
  <1>1. ASSUME NEW r, NEW p, NEW c, SetRoute(r, p, c)
        PROVE  link' \in {link, "piv", "missing"} \/ (link' = cfg.socket /\ guard = cfg.socket)
    BY <1>1, SetRouteLinks
  <1>2. ASSUME NEW a, Reconcile(a)
        PROVE  link' \in {link, "piv", "missing"} \/ (link' = cfg.socket /\ guard = cfg.socket)
    <2>1. CASE SetRoute("piv", "not_checked", FALSE)
      BY <2>1, <1>1
    <2>2. CASE SetRoute("piv_fail_closed", "unavailable", FALSE)
      BY <2>2, <1>1
    <2>3. CASE SetRoute("piv", "connected", FALSE)
      BY <2>3, <1>1
    <2>4. CASE SetRoute("piv_fail_closed", "not_detected", FALSE)
      BY <2>4, <1>1
    <2>5. CASE KeepRoute
      BY <2>5 DEF KeepRoute
    <2> QED
      BY <1>2, <2>1, <2>2, <2>3, <2>4, <2>5 DEF Reconcile, Unavailable, Connected, NotDetected
  <1>3. ASSUME NEW c, Unavailable(c) \/ Connected \/ NotDetected
        PROVE  link' \in {link, "piv", "missing"} \/ (link' = cfg.socket /\ guard = cfg.socket)
    <2>1. CASE SetRoute("piv_fail_closed", "unavailable", c)
      BY <2>1, <1>1
    <2>2. CASE SetRoute("piv", "connected", FALSE)
      BY <2>2, <1>1
    <2>3. CASE SetRoute("piv_fail_closed", "not_detected", FALSE)
      BY <2>3, <1>1
    <2> QED
      BY <1>3, <2>1, <2>2, <2>3 DEF Unavailable, Connected, NotDetected
  <1>4. ASSUME KeepRoute PROVE link' \in {link, "piv", "missing"}
    BY <1>4 DEF KeepRoute
  <1> USE DEF RouterFrame, process, Running
  <1>5. CASE Begin
    BY <1>5, <1>2 DEF Begin
  <1>6. CASE DeviceEvent
    BY <1>6, <1>2 DEF DeviceEvent, TakeEvent
  <1>7. CASE RetryTimer
    BY <1>7, <1>2 DEF RetryTimer
  <1>8. CASE RunEnds
    BY <1>8, <1>4 DEF RunEnds
  <1>9. CASE FailUnavailable
    BY <1>9, <1>1 DEF FailUnavailable, EventsClosed
  <1>10. CASE InspectionAnswers
    BY <1>10, <1>4 DEF InspectionAnswers, NoEvent
  <1>11. CASE InspectionFails
    BY <1>11, <1>3 DEF InspectionFails
  <1>12. CASE Recheck
    BY <1>12, <1>3, <1>4 DEF Recheck
  <1>13. CASE Drain
    BY <1>13, <1>4 DEF Drain, NoEvent
  <1>14. CASE Interrupted
    BY <1>14, <1>4 DEF Interrupted, TakeEvent
  <1>15. CASE InterruptedForGood
    BY <1>15, <1>3 DEF InterruptedForGood, EventsClosed
  <1>16. CASE ReconcileProbeEvent
    BY <1>16, <1>3 DEF ReconcileProbeEvent
  <1>17. CASE PublishFallback
    BY <1>17, <1>1 DEF PublishFallback
  <1> QED
    BY <1>5, <1>6, <1>7, <1>8, <1>9, <1>10, <1>11, <1>12, <1>13, <1>14, <1>15, <1>16, <1>17
    DEF RouterStep

(* The three promises are inductive together: a start relies on the guard   *)
(* covering the link, recording a new guard on the start having withdrawn   *)
(* the old link.                                                            *)

ClosingInv == pc = "closing" => exit \in {"ok", "error"}

RouterInv == Running => pc \in {"running", "stopping"}

RInv == GuardCoversTheLink /\ StartWithdraws /\ StopLeavesNoFallback /\ ClosingInv /\ RouterInv

LEMMA RInvInit == Init => RInv
  BY PathsAssumption DEF Init, RInv, GuardCoversTheLink, StartWithdraws, StopLeavesNoFallback, ClosingInv,
                                RouterInv, Running

\* A withdrawal leaves the link alone or takes it off the fallbacks; one
\* without an error has taken it off the fallback named.
LEMMA WithdrawingKeeps ==
  ASSUME RInv, NEW at, NEW f, NEW next, NEW out, Withdrawing(at, f, next, out),
         at \in {"down", "loaded", "listening", "withdrawn"},
         at = "down" => f = guard /\ next = "guarded",
         next \in {"guarded", "cleared", "withdrawn", "ready"}, out \in {"down", "failing"},
         out = "failing" => at # "down"
  PROVE  RInv'
  <1>1. PICK o \in Withdraw(link, f) :
          /\ link' = o.link
          /\ IF o.err THEN pc' = out /\ exit' = "error" ELSE pc' = next /\ UNCHANGED exit
    BY DEF Withdrawing
  <1>2. link' \in {link, "piv", "missing"} /\ (~o.err /\ f \in Fallbacks => link' # f)
    BY <1>1, WithdrawLinks
  <1>3. guard' = guard /\ lost' = lost /\ pc = at
    BY DEF Withdrawing
  <1>4. link' \in Fallbacks => link' = link
    BY <1>2, PathsAssumption
  <1>5. GuardCoversTheLink'
    BY <1>3, <1>4 DEF RInv, GuardCoversTheLink
  <1>6. StartWithdraws'
    <2>1. CASE at = "down" /\ o.err
      BY <2>1, <1>1 DEF StartWithdraws
    <2>2. CASE at = "down" /\ ~o.err
      BY <2>2, <1>2, <1>3, <1>4, <1>5 DEF GuardCoversTheLink, StartWithdraws
    <2>3. CASE at # "down"
      BY <2>3, <1>3, <1>4 DEF RInv, StartWithdraws
    <2> QED
      BY <2>1, <2>2, <2>3
  <1>7. StopLeavesNoFallback'
    BY <1>1 DEF StopLeavesNoFallback
  <1>8. ClosingInv'
    BY <1>1 DEF ClosingInv
  <1>9. RouterInv'
    BY <1>3 DEF RInv, RouterInv, Running, Withdrawing, loop
  <1> QED
    BY <1>5, <1>6, <1>7, <1>8, <1>9 DEF RInv

LEMMA RInvNext == RInv /\ [Next]_vars => RInv'
  <1> SUFFICES ASSUME RInv, [Next]_vars PROVE RInv'
    OBVIOUS
  <1> USE DEF RInv, GuardCoversTheLink, StartWithdraws, StopLeavesNoFallback, ClosingInv, RouterInv,
              Running
  <1>1. CASE RouterStep
    BY <1>1, RouterLinks, PathsAssumption DEF Running
  <1>2. CASE Start
    BY <1>2, WithdrawingKeeps DEF Start
  <1>3. CASE LoadConfig
    BY <1>3 DEF LoadConfig, disk, history, loop
  <1>4. CASE FailClosedBeforeStart
    BY <1>4, WithdrawingKeeps DEF FailClosedBeforeStart
  <1>5. CASE Listen
    BY <1>5 DEF Listen, history, loop
  <1>6. CASE ValidatePIV
    BY <1>6 DEF ValidatePIV, disk, history, loop
  <1>7. CASE FailClosedFromGuard
    BY <1>7, WithdrawingKeeps DEF FailClosedFromGuard
  <1>8. CASE FailClosedAgain
    BY <1>8, WithdrawingKeeps DEF FailClosedAgain
  <1>9. CASE PersistGuard
    BY <1>9 DEF PersistGuard, loop
  <1>10. CASE RefusePath
    BY <1>10 DEF RefusePath, disk, history, loop
  <1>11. CASE PublishInitial
    <2>0. SetRoute("piv_fail_closed", "not_checked", FALSE)
      BY <1>11 DEF PublishInitial
    <2>1. link' \in {link, "piv", "missing"}
      <3> DEFINE r == "piv_fail_closed"
      <3>1. /\ \/ link' \in {link, "piv", "missing"}
               \/ r = "1password" /\ link' = cfg.socket /\ guard = cfg.socket
            /\ r # "1password" /\ ~failed' => link' = "piv"
        BY <2>0, SetRouteLinks, Zenon
      <3> QED
        BY <3>1
    <2> QED
      BY <2>1, <1>11, PathsAssumption DEF PublishInitial
  <1>12. CASE Stop
    BY <1>12 DEF Stop, disk, history, loop
  <1>13. CASE FailClosed
    <2>0. SetRoute("piv_fail_closed", "not_checked", FALSE)
      BY <1>13 DEF FailClosed
    <2>1. link' \in {link, "piv", "missing"} /\ (~failed' => link' = "piv")
      <3> DEFINE r == "piv_fail_closed"
      <3>1. /\ \/ link' \in {link, "piv", "missing"}
               \/ r = "1password" /\ link' = cfg.socket /\ guard = cfg.socket
            /\ r # "1password" /\ ~failed' => link' = "piv"
        BY <2>0, SetRouteLinks, Zenon
      <3> QED
        BY <3>1
    <2> QED
      BY <2>1, <1>13, PathsAssumption DEF FailClosed, RouterIsOver
  <1>14. CASE Close
    BY <1>14 DEF Close, Forget
  <1>15. CASE Crash
    BY <1>15 DEF Crash, Forget, disk
  <1>16. CASE Plug \/ Glitch
    BY <1>16 DEF Plug, Glitch, Notify, disk, process, loop
  <1>17. CASE Deliver \/ StreamEnds
    BY <1>17 DEF Deliver, StreamEnds, disk, process, loop, history
  <1>18. CASE EditConfig \/ ChangeHealth \/ BreakPIV \/ RepairPIV
    BY <1>18 DEF EditConfig, ChangeHealth, BreakPIV, RepairPIV, process, loop, history
  <1>19. CASE LoseGuard
    BY <1>19 DEF LoseGuard, process, loop
  <1>20. CASE UNCHANGED vars
    BY <1>20 DEF vars, disk, process, loop, history
  <1> QED
    BY <1>1, <1>2, <1>3, <1>4, <1>5, <1>6, <1>7, <1>8, <1>9, <1>10, <1>11, <1>12, <1>13, <1>14,
       <1>15, <1>16, <1>17, <1>18, <1>19, <1>20 DEF Next, DaemonStep, World

\* The guard on disk names the fallback agent the public path points at, in
\* every state, crashes and failed writes included (setRoute, persistGuard).
THEOREM GuardCovers == Spec => []GuardCoversTheLink
  <1>1. RInv => GuardCoversTheLink
    BY DEF RInv
  <1> QED
    BY <1>1, RInvInit, RInvNext, PTL DEF Spec

\* After the guard has been read no start leaves a fallback route, whatever
\* the configuration says and even when it does not parse (daemon.Run).
THEOREM StartsWithdraw == Spec => []StartWithdraws
  <1>1. RInv => StartWithdraws
    BY DEF RInv
  <1> QED
    BY <1>1, RInvInit, RInvNext, PTL DEF Spec

\* A daemon that stopped without an error leaves no fallback route (shutdownServices).
THEOREM StopsClosed == Spec => []StopLeavesNoFallback
  <1>1. RInv => StopLeavesNoFallback
    BY DEF RInv
  <1> QED
    BY <1>1, RInvInit, RInvNext, PTL DEF Spec
-----------------------------------------------------------------------------
(* Type correctness.  What a setRoute returns is typed, and tells what it   *)
(* has published.                                                           *)

OutcomeTyped(o) ==
  o.link \in Fallbacks \cup {"piv", "missing"} /\ o.err \in BOOLEAN /\ o.faults \in Nat

LEMMA PublishedFields ==
  ASSUME NEW x, NEW r
  PROVE  /\ Published(x, r).link = x.link /\ Published(x, r).err = x.err
         /\ Published(x, r).faults = x.faults /\ Published(x, r).route = r
  BY DEF Published

LEMMA OutcomesTyped ==
  ASSUME NEW l \in Fallbacks \cup {"piv", "missing"}, NEW e \in BOOLEAN, NEW f \in Nat
  PROVE  OutcomeTyped(Outcome(l, e, f)) /\ Outcome(l, e, f).err = e /\ Outcome(l, e, f).link = l
  BY DEF Outcome, OutcomeTyped

LEMMA AtomicTyped ==
  ASSUME NEW l \in Fallbacks \cup {"piv", "missing"}, NEW t \in Fallbacks \cup {"piv", "missing"},
         NEW x \in AtomicRoute(l, t)
  PROVE  OutcomeTyped(x) /\ (~x.err => x.link = t)
  <1>1. x = Outcome(t, FALSE, 0) \/ x = Outcome(l, TRUE, 1) \/ x = Outcome(t, TRUE, 1)
    BY DEF AtomicRoute
  <1>2. CASE x = Outcome(t, FALSE, 0)
    BY <1>2 DEF Outcome, OutcomeTyped
  <1>3. CASE x = Outcome(l, TRUE, 1)
    BY <1>3 DEF Outcome, OutcomeTyped
  <1>4. CASE x = Outcome(t, TRUE, 1)
    BY <1>4 DEF Outcome, OutcomeTyped
  <1> QED
    BY <1>1, <1>2, <1>3, <1>4

\* A closed route that is reported is on the path; nothing is reported of one
\* that could not be opened.
LEMMA ClosedReports ==
  ASSUME NEW l \in Fallbacks \cup {"piv", "missing"}, NEW r, NEW o \in ClosedRoutes(l, r)
  PROVE  /\ OutcomeTyped(o)
         /\ ~o.err => o.route = r
         /\ o.route \in {r, "none"}
  <1>1. ASSUME NEW x \in Tried(l) PROVE OutcomeTyped(x)
    <2>1. x \in AtomicRoute(l, "piv") \/ x = Outcome(l, TRUE, 0)
      BY DEF Tried
    <2>2. CASE x \in AtomicRoute(l, "piv")
      BY <2>2, AtomicTyped
    <2>3. CASE x = Outcome(l, TRUE, 0)
      BY <2>3, OutcomesTyped
    <2> QED
      BY <2>1, <2>2, <2>3
  <1>2. CASE \E x \in Tried(l) : ~x.err /\ o = Published(x, r)
    BY <1>1, <1>2, PublishedFields DEF OutcomeTyped
  <1>3. CASE \E x \in Tried(l) : \E y \in RemoveRecordedFallback(x.link, cfg.socket) :
               o = Published(Outcome(y.link, TRUE, x.faults + y.faults), "none")
    <2>1. PICK x \in Tried(l) : \E y \in RemoveRecordedFallback(x.link, cfg.socket) :
               o = Published(Outcome(y.link, TRUE, x.faults + y.faults), "none")
      BY <1>3
    <2>2. PICK y \in RemoveRecordedFallback(x.link, cfg.socket) :
               o = Published(Outcome(y.link, TRUE, x.faults + y.faults), "none")
      BY <2>1
    <2>3. OutcomeTyped(x)
      BY <1>1
    <2>4. y.link \in {x.link, "missing"} /\ y.faults \in {0, 1}
      BY DEF RemoveRecordedFallback, Outcome
    <2>5. y.link \in Fallbacks \cup {"piv", "missing"} /\ x.faults + y.faults \in Nat
      BY <2>3, <2>4 DEF OutcomeTyped
    <2>6. /\ o.link = y.link /\ o.err = TRUE /\ o.faults = x.faults + y.faults
          /\ o.route = "none"
      BY <2>2 DEF Published, Outcome
    <2> QED
      BY <2>5, <2>6 DEF OutcomeTyped
  <1>4. Splits(l, r, o)
    BY ClosedSplits
  <1> QED
    BY <1>2, <1>3, <1>4, Zenon DEF Splits

LEMMA RetreatReports ==
  ASSUME NEW o, OutcomeTyped(o), NEW x \in Retreat(o)
  PROVE  OutcomeTyped(x) /\ x.err /\ x.route \in {"piv_fail_closed", "none"}
  <1>1. PICK y \in ClosedRoutes(o.link, "piv_fail_closed") :
          x = [y EXCEPT !.err = TRUE, !.faults = @ + o.faults]
    BY DEF Retreat
  <1>2. /\ OutcomeTyped(y) /\ y.route \in {"piv_fail_closed", "none"}
        /\ OutcomeTyped(o)
    BY ClosedReports DEF OutcomeTyped
  <1>3. \E z, r : y = Published(z, r)
    BY Zenon DEF ClosedRoutes
  <1>4. x = [link |-> y.link, err |-> TRUE, faults |-> y.faults + o.faults, route |-> y.route]
    BY <1>1, <1>3 DEF Published
  <1> QED
    BY <1>2, <1>4 DEF OutcomeTyped

LEMMA FallbackReports ==
  ASSUME cfg \in Configs, NEW l \in Fallbacks \cup {"piv", "missing"}, NEW o \in FallbackRoutes(l)
  PROVE  /\ OutcomeTyped(o)
         /\ ~o.err => o.route = "1password" /\ o.link \in Fallbacks
         /\ o.route \in {"1password", "piv_fail_closed", "none"}
  <1>1. CASE ~cfg.enabled \/ ~guardReady \/ health = "unsafe"
    <2>1. o = Published(Outcome(l, TRUE, 0), "none")
      BY <1>1 DEF FallbackRoutes
    <2> QED
      BY <2>1 DEF Published, Outcome, OutcomeTyped
  <1>2. CASE ~(~cfg.enabled \/ ~guardReady \/ health = "unsafe")
             /\ (~ValidateGuard \/ ~Managed(l))
    <2>1. o \in Retreat(Outcome(l, TRUE, 0))
      BY <1>2 DEF FallbackRoutes
    <2>2. OutcomeTyped(Outcome(l, TRUE, 0))
      BY OutcomesTyped
    <2> QED
      BY <2>1, <2>2, RetreatReports
  <1>3. CASE ~(~cfg.enabled \/ ~guardReady \/ health = "unsafe") /\ ValidateGuard /\ Managed(l)
    <2>1. \/ \E x \in AtomicRoute(l, cfg.socket) : ~x.err /\ o = Published(x, "1password")
          \/ \E x \in AtomicRoute(l, cfg.socket) : o \in Retreat(x)
      BY <1>3, Zenon DEF FallbackRoutes
    <2>2. cfg.socket \in Fallbacks
      BY <1>3 DEF Configs
    <2>3. \A x \in AtomicRoute(l, cfg.socket) : OutcomeTyped(x) /\ (~x.err => x.link = cfg.socket)
      BY <2>2, AtomicTyped
    <2>4. CASE \E x \in AtomicRoute(l, cfg.socket) : ~x.err /\ o = Published(x, "1password")
      BY <2>2, <2>3, <2>4, PublishedFields DEF OutcomeTyped
    <2>5. CASE \E x \in AtomicRoute(l, cfg.socket) : o \in Retreat(x)
      BY <2>3, <2>5, RetreatReports
    <2> QED
      BY <2>1, <2>4, <2>5
  <1> QED
    BY <1>1, <1>2, <1>3

Routes == {"piv", "1password", "piv_fail_closed"}
Snapshots == [route : Routes \cup {"none"},
              probe : {"none", "not_checked", "connected", "not_detected", "unavailable"}]

\* A setRoute that succeeds reports the route it has opened.
LEMMA SetRouteReports ==
  ASSUME TypeOK, NEW r \in Routes, NEW p \in {"not_checked", "connected", "not_detected", "unavailable"},
         NEW c \in BOOLEAN, SetRoute(r, p, c)
  PROVE  /\ link' \in Fallbacks \cup {"piv", "missing"} /\ snapshot' \in Snapshots
         /\ failed' \in BOOLEAN /\ faults' \in 0 .. MaxFaults
         /\ ~failed' => snapshot'.route = r /\ (link' \in Fallbacks <=> r = "1password")
  <1>1. PICK o \in (IF r = "1password" THEN FallbackRoutes(link) ELSE ClosedRoutes(link, r)) :
          /\ faults + o.faults =< MaxFaults /\ faults' = faults + o.faults /\ link' = o.link
          /\ snapshot' = IF o.route = "none" THEN snapshot ELSE [route |-> o.route, probe |-> p]
          /\ failed' = (o.err \/ c)
    BY DEF SetRoute
  <1>2. link \in Fallbacks \cup {"piv", "missing"} /\ cfg \in Configs /\ snapshot \in Snapshots
        /\ faults \in 0 .. MaxFaults
    BY DEF TypeOK, Snapshots, Routes
  <1>3. /\ OutcomeTyped(o) /\ o.route \in Routes \cup {"none"}
        /\ ~o.err => o.route = r /\ (o.link \in Fallbacks <=> r = "1password")
    <2>1. CASE r = "1password"
      BY <1>1, <1>2, <2>1, FallbackReports DEF Routes
    <2>2. CASE r # "1password"
      BY <1>1, <1>2, <2>2, ClosedReports, ClosedLinks, PathsAssumption DEF Routes
    <2> QED
      BY <2>1, <2>2
  <1>4. snapshot' \in Snapshots
    BY <1>1, <1>2, <1>3 DEF Snapshots
  <1>5. faults' \in 0 .. MaxFaults
    BY <1>1, <1>2, <1>3, BoundsAssumption DEF OutcomeTyped
  <1>6. ~failed' => snapshot'.route = r /\ (link' \in Fallbacks <=> r = "1password")
    <2> SUFFICES ASSUME ~failed' PROVE snapshot'.route = r /\ (link' \in Fallbacks <=> r = "1password")
      OBVIOUS
    <2>1. ~o.err
      BY <1>1
    <2>2. o.route = r /\ o.route # "none"
      BY <1>3, <2>1 DEF Routes
    <2> QED
      BY <1>1, <1>3, <2>1, <2>2
  <1> QED
    BY <1>1, <1>3, <1>4, <1>5, <1>6 DEF OutcomeTyped

-----------------------------------------------------------------------------
(* The router's loop.  The counter is never ahead of what the retry timer   *)
(* has seen; what comes after the last probe is only reached with the       *)
(* counter at the debounce; and from the recheck on, a change of the device *)
(* has a notification on its way.                                           *)

DebounceInv == (zeroCount >= 1 => waited # "no") /\ (zeroCount >= 2 => waited = "yes")

FallbackShown == router = "select" /\ link \in Fallbacks /\ ~failed

CountedInv ==
  router \in {"inspecting", "recheck", "drain", "publish", "event"} \/ FallbackShown
  => zeroCount = DebounceCount

NotifiedInv ==
  (router \in {"drain", "publish"} \/ FallbackShown) /\ (card \/ probeErr)
  => event \/ upstream > 0 \/ closed

PublicTyped ==
  /\ link \in Fallbacks \cup {"piv", "missing"} /\ snapshot \in Snapshots
  /\ failed \in BOOLEAN /\ faults \in 0 .. MaxFaults

CountTyped ==
  /\ zeroCount \in 0 .. DebounceCount /\ waited \in {"no", "zero", "yes"}
  /\ retry \in BOOLEAN
  /\ router \in {"idle", "start", "select", "inspecting", "recheck", "drain", "publish", "event",
                 "done", "ended"}

RestTyped ==
  /\ guard \in Fallbacks \cup {NoPath, "none"}
  /\ conf \in Configs \cup {Broken}
  /\ piv \in {"sound", "missing", "unsafe"} /\ health \in {"good", "foul", "unsafe"}
  /\ card \in BOOLEAN /\ probeErr \in BOOLEAN /\ event \in BOOLEAN /\ closed \in BOOLEAN
  /\ upstream \in 0..Depth
  /\ pc \in {"down", "guarded", "loaded", "cleared", "listening", "withdrawn", "ready", "recorded",
             "failing", "running", "stopping", "closing"}
  /\ ctx \in {"live", "canceled"} /\ cfg \in Configs /\ guardReady \in BOOLEAN
  /\ exit \in {"none", "ok", "error", "config"}
  /\ calm \in BOOLEAN /\ lost \in BOOLEAN

LEMMA TypesSplit == TypeOK <=> PublicTyped /\ CountTyped /\ RestTyped
  BY DEF TypeOK, PublicTyped, CountTyped, RestTyped, Snapshots, Routes

LEMMA TypesJoin == ASSUME PublicTyped', CountTyped', RestTyped' PROVE TypeOK'
  BY DEF TypeOK, PublicTyped, CountTyped, RestTyped, Snapshots, Routes

LoopInv == DebounceInv /\ CountedInv /\ NotifiedInv /\ ReportedRouteIsReal

LoopKept == PublicTyped' /\ CountTyped' /\ LoopInv'

\* A reconcile that ends with a closed route reports it, and shows no fallback.
LEMMA ClosedSettles ==
  ASSUME TypeOK, NEW r \in {"piv", "piv_fail_closed"},
         NEW p \in {"not_checked", "connected", "not_detected", "unavailable"},
         NEW c \in BOOLEAN, SetRoute(r, p, c)
  PROVE  PublicTyped' /\ ReportedRouteIsReal' /\ ~FallbackShown'
  <1>1. r \in Routes /\ r # "1password"
    BY DEF Routes
  <1>2. /\ link' \in Fallbacks \cup {"piv", "missing"} /\ snapshot' \in Snapshots
        /\ failed' \in BOOLEAN /\ faults' \in 0 .. MaxFaults
        /\ ~failed' => snapshot'.route = r /\ (link' \in Fallbacks <=> r = "1password")
    BY <1>1, SetRouteReports
  <1> QED
    BY <1>1, <1>2 DEF PublicTyped, ReportedRouteIsReal, FallbackShown

\* The three ways a reconcile ends without a fallback.
LEMMA Settles ==
  ASSUME TypeOK, NEW c \in BOOLEAN, Unavailable(c) \/ Connected \/ NotDetected
  PROVE  /\ PublicTyped' /\ ReportedRouteIsReal' /\ ~FallbackShown'
         /\ router' = "select" /\ retry' \in BOOLEAN
         /\ (zeroCount' = 0 /\ waited' = "no") \/ NotDetected
  <1>1. CASE Unavailable(c)
    <2>1. SetRoute("piv_fail_closed", "unavailable", c)
      BY <1>1 DEF Unavailable
    <2>2. PublicTyped' /\ ReportedRouteIsReal' /\ ~FallbackShown'
      BY <2>1, ClosedSettles
    <2> QED
      BY <1>1, <2>2 DEF Unavailable, Settle
  <1>2. CASE Connected
    <2>1. SetRoute("piv", "connected", FALSE)
      BY <1>2 DEF Connected
    <2>2. PublicTyped' /\ ReportedRouteIsReal' /\ ~FallbackShown'
      BY <2>1, ClosedSettles
    <2> QED
      BY <1>2, <2>2 DEF Connected, Settle
  <1>3. CASE NotDetected
    <2>1. SetRoute("piv_fail_closed", "not_detected", FALSE)
      BY <1>3 DEF NotDetected
    <2>2. PublicTyped' /\ ReportedRouteIsReal' /\ ~FallbackShown'
      BY <2>1, ClosedSettles
    <2> QED
      BY <1>3, <2>2 DEF NotDetected, Settle
  <1> QED
    BY <1>1, <1>2, <1>3

\* Once settled, nothing of the loop is left to show but the counter.
LEMMA SettledKeeps ==
  ASSUME PublicTyped', ReportedRouteIsReal', ~FallbackShown', router' \in {"select", "ended"},
         retry' \in BOOLEAN, zeroCount' \in 0 .. DebounceCount, waited' \in {"no", "zero", "yes"},
         DebounceInv'
  PROVE  LoopKept
  BY DEF LoopKept, CountTyped, LoopInv, CountedInv, NotifiedInv

LEMMA ZeroCounts ==
  ASSUME zeroCount' = 0, waited' \in {"no", "zero", "yes"}
  PROVE  zeroCount' \in 0 .. DebounceCount /\ DebounceInv'
  BY BoundsAssumption DEF DebounceInv

LEMMA ReconcileKeeps ==
  ASSUME TypeOK, LoopInv, NEW a \in BOOLEAN, Reconcile(a)
  PROVE  LoopKept
  <1>0. zeroCount \in 0 .. DebounceCount /\ waited \in {"no", "zero", "yes"} /\ DebounceInv
    BY DEF TypeOK, LoopInv
  <1>1. CASE ~cfg.enabled
    <2>1. SetRoute("piv", "not_checked", FALSE) /\ Settle /\ zeroCount' = 0 /\ waited' = waited
      BY <1>1 DEF Reconcile
    <2>2. PublicTyped' /\ ReportedRouteIsReal' /\ ~FallbackShown'
      BY <2>1, ClosedSettles
    <2> QED
      BY <1>0, <2>1, <2>2, SettledKeeps, ZeroCounts DEF Settle
  <1>2. CASE Unavailable(FALSE) \/ Connected
    <2>1. zeroCount' = 0 /\ waited' = "no"
      BY <1>2 DEF Unavailable, Connected
    <2> QED
      BY <1>2, <2>1, Settles, SettledKeeps, ZeroCounts
  <1>3. CASE /\ zeroCount' = NextZeroCount(a)
             /\ waited' = IF waited = "no" THEN "zero" ELSE IF a THEN "yes" ELSE waited
             /\ IF zeroCount' < DebounceCount THEN NotDetected
                ELSE router' = "inspecting" /\ retry' = FALSE /\ KeepRoute
    <2>1. zeroCount' \in 0 .. DebounceCount /\ waited' \in {"no", "zero", "yes"} /\ DebounceInv'
      BY <1>0, <1>3, BoundsAssumption DEF NextZeroCount, DebounceInv
    <2>2. CASE zeroCount' < DebounceCount
      BY <1>3, <2>1, <2>2, Settles, SettledKeeps
    <2>3. CASE ~(zeroCount' < DebounceCount)
      <3>1. zeroCount' = DebounceCount /\ router' = "inspecting" /\ retry' = FALSE /\ KeepRoute
        BY <1>3, <2>1, <2>3, BoundsAssumption
      <3>2. PublicTyped'
        BY <3>1, TypesSplit DEF PublicTyped, KeepRoute
      <3> QED
        BY <2>1, <3>1, <3>2 DEF LoopKept, CountTyped, LoopInv, CountedInv, NotifiedInv,
                                FallbackShown, ReportedRouteIsReal
    <2> QED
      BY <2>2, <2>3
  <1> QED
    BY <1>1, <1>2, <1>3 DEF Reconcile

\* What a step of the router leaves alone.
LEMMA RestKeeps ==
  ASSUME TypeOK, RouterFrame, event' \in BOOLEAN, calm' \in BOOLEAN
  PROVE  RestTyped'
  BY TypesSplit DEF RestTyped, RouterFrame, process

LEMMA FrameKeeps == ASSUME RouterStep PROVE RouterFrame
  BY DEF RouterStep, Begin, DeviceEvent, RetryTimer, RunEnds, FailUnavailable, InspectionAnswers,
         InspectionFails, Recheck, Drain, Interrupted, InterruptedForGood, ReconcileProbeEvent,
         PublishFallback

LEMMA NoticesTyped ==
  ASSUME TypeOK, RouterStep
  PROVE  event' \in BOOLEAN /\ calm' \in BOOLEAN
  BY DEF TypeOK, RouterStep, Begin, DeviceEvent, RetryTimer, RunEnds, FailUnavailable,
         InspectionAnswers, InspectionFails, Recheck, Drain, Interrupted, InterruptedForGood,
         ReconcileProbeEvent, PublishFallback, TakeEvent, EventsClosed, NoEvent

LEMMA LoopKeeps ==
  ASSUME TypeOK, LoopInv, RouterStep
  PROVE  LoopKept
  <1>0. /\ zeroCount \in 0 .. DebounceCount /\ waited \in {"no", "zero", "yes"} /\ DebounceInv
        /\ retry \in BOOLEAN /\ PublicTyped
    BY TypesSplit DEF CountTyped, LoopInv
  <1> DEFINE Still == UNCHANGED <<link, snapshot, failed, faults, zeroCount, waited, retry>>
  <1>s. ASSUME Still, router' \in {"done", "recheck", "event", "drain", "publish"}
        PROVE  PublicTyped' /\ CountTyped' /\ DebounceInv' /\ ReportedRouteIsReal' /\ ~FallbackShown'
    BY <1>0, <1>s DEF PublicTyped, CountTyped, DebounceInv, ReportedRouteIsReal, FallbackShown
  <1>c. ASSUME NEW c \in BOOLEAN, Unavailable(c) \/ Connected
        PROVE  LoopKept
    <2>1. zeroCount' = 0 /\ waited' = "no"
      BY <1>c DEF Unavailable, Connected
    <2> QED
      BY <1>c, <2>1, Settles, SettledKeeps, ZeroCounts
  <1>n. ASSUME NotDetected, zeroCount' \in 0 .. DebounceCount,
               waited' \in {"no", "zero", "yes"}, DebounceInv'
        PROVE  LoopKept
    BY <1>n, Settles, SettledKeeps
  <1>1. CASE Begin \/ DeviceEvent \/ RetryTimer
    BY <1>1, ReconcileKeeps DEF Begin, DeviceEvent, RetryTimer
  <1>2. CASE RunEnds
    <2>1. Still /\ router' = "done"
      BY <1>2 DEF RunEnds, KeepRoute
    <2> QED
      BY <2>1, <1>s DEF LoopKept, LoopInv, CountedInv, NotifiedInv
  <1>3. CASE FailUnavailable
    <2>1. /\ SetRoute("piv_fail_closed", "unavailable", TRUE)
          /\ zeroCount' = 0 /\ waited' = "no" /\ router' = "ended" /\ retry' = retry
      BY <1>3 DEF FailUnavailable
    <2>2. PublicTyped' /\ ReportedRouteIsReal' /\ ~FallbackShown'
      BY <2>1, ClosedSettles
    <2> QED
      BY <1>0, <2>1, <2>2, SettledKeeps, ZeroCounts
  <1>4. CASE InspectionAnswers
    <2>1. Still /\ router' = "recheck" /\ router = "inspecting"
      BY <1>4 DEF InspectionAnswers, KeepRoute, NoEvent
    <2> QED
      BY <2>1, <1>s DEF LoopKept, LoopInv, CountedInv, NotifiedInv
  <1>5. CASE InspectionFails
    <2>1. NotDetected /\ zeroCount' = zeroCount /\ waited' = waited
      BY <1>5 DEF InspectionFails
    <2>2. DebounceInv'
      BY <1>0, <2>1 DEF DebounceInv
    <2> QED
      BY <1>0, <1>n, <2>1, <2>2
  <1>6. CASE Recheck
    <2>1. CASE Unavailable(FALSE) \/ Connected
      BY <2>1, <1>c
    <2>2. CASE /\ Probe = "absent" /\ router' = "drain" /\ KeepRoute
               /\ UNCHANGED <<zeroCount, retry, waited>>
      <3>1. Still /\ router = "recheck"
        BY <1>6, <2>2 DEF Recheck, KeepRoute
      <3>2. ~card' /\ ~probeErr'
        BY <1>6, <2>2 DEF Recheck, RouterFrame, Probe
      <3> QED
        BY <2>2, <3>1, <3>2, <1>s DEF LoopKept, LoopInv, CountedInv, NotifiedInv
    <2> QED
      BY <1>6, <2>1, <2>2 DEF Recheck
  <1>7. CASE Drain
    <2>1. /\ Still /\ router' = "publish" /\ router = "drain" /\ ~event /\ ~closed
          /\ UNCHANGED <<card, probeErr, upstream, event, closed>>
      BY <1>7 DEF Drain, KeepRoute, NoEvent, RouterFrame
    <2> QED
      BY <2>1, <1>s DEF LoopKept, LoopInv, CountedInv, NotifiedInv
  <1>8. CASE Interrupted
    <2>1. Still /\ router' = "event" /\ router \in {"inspecting", "drain"}
      BY <1>8 DEF Interrupted, KeepRoute, TakeEvent
    <2> QED
      BY <2>1, <1>s DEF LoopKept, LoopInv, CountedInv, NotifiedInv
  <1>9. CASE InterruptedForGood
    BY <1>9, <1>c DEF InterruptedForGood
  <1>10. CASE ReconcileProbeEvent
    <2>1. CASE Unavailable(FALSE) \/ Connected
      BY <2>1, <1>c
    <2>2. CASE /\ zeroCount' = (IF zeroCount = 0 THEN 1 ELSE zeroCount)
               /\ waited' = (IF waited = "no" THEN "zero" ELSE waited)
               /\ NotDetected
      <3>1. /\ zeroCount' \in 0 .. DebounceCount /\ waited' \in {"no", "zero", "yes"}
            /\ DebounceInv'
        BY <1>0, <2>2, BoundsAssumption DEF DebounceInv
      <3> QED
        BY <2>2, <3>1, <1>n
    <2> QED
      BY <1>10, <2>1, <2>2 DEF ReconcileProbeEvent
  <1>11. CASE PublishFallback
    <2>1. /\ SetRoute("1password", "not_detected", FALSE) /\ Settle /\ router = "publish"
          /\ UNCHANGED <<card, probeErr, upstream, event, closed, zeroCount, waited>>
      BY <1>11 DEF PublishFallback, RouterFrame
    <2>2. PublicTyped' /\ ReportedRouteIsReal'
      <3>1. /\ link' \in Fallbacks \cup {"piv", "missing"} /\ snapshot' \in Snapshots
            /\ failed' \in BOOLEAN /\ faults' \in 0 .. MaxFaults
            /\ ~failed' => snapshot'.route = "1password" /\ link' \in Fallbacks
        BY <2>1, SetRouteReports DEF Routes
      <3> QED
        BY <3>1 DEF PublicTyped, ReportedRouteIsReal
    <2>3. CountTyped'
      BY <1>0, <2>1 DEF CountTyped, Settle
    <2>4. DebounceInv'
      BY <1>0, <2>1 DEF DebounceInv
    <2>5. router' = "select"
      BY <2>1 DEF Settle
    <2> QED
      BY <2>1, <2>2, <2>3, <2>4, <2>5 DEF LoopKept, LoopInv, CountedInv, NotifiedInv
  <1> QED
    BY <1>1, <1>2, <1>3, <1>4, <1>5, <1>6, <1>7, <1>8, <1>9, <1>10, <1>11 DEF RouterStep

LEMMA RouterKeeps ==
  ASSUME TypeOK, LoopInv, RouterStep
  PROVE  TypeOK' /\ LoopInv'
  <1>1. LoopKept
    BY LoopKeeps
  <1>2. RestTyped'
    BY FrameKeeps, NoticesTyped, RestKeeps
  <1> QED
    BY <1>1, <1>2, TypesJoin DEF LoopKept

\* The daemon and the world: while a step runs that moves the link, the router
\* does not.
Resting == router \in {"idle", "start", "done", "ended"}

LEMMA RestingKeeps ==
  ASSUME Resting', DebounceInv'
  PROVE  LoopInv'
  BY DEF LoopInv, CountedInv, NotifiedInv, ReportedRouteIsReal, FallbackShown, Resting

LEMMA WithdrawTyped ==
  ASSUME NEW l, NEW f, NEW o \in Withdraw(l, f)
  PROVE  o.faults \in {0, 1}
  <1>1. \/ o = Outcome(l, TRUE, 1) \/ o = Outcome(l, FALSE, 0) \/ o = Outcome("missing", FALSE, 0)
        \/ o = Outcome("piv", FALSE, 0) \/ o = Outcome("piv", TRUE, 1)
    BY DEF Withdraw, RemoveRecordedFallback, AtomicRoute
  <1> QED
    BY <1>1 DEF Outcome

LEMMA WithdrawingTypes ==
  ASSUME TypeOK, RInv, LoopInv, NEW at, NEW f, NEW next, NEW out, Withdrawing(at, f, next, out),
         at \in {"down", "loaded", "listening", "withdrawn"},
         next \in {"guarded", "cleared", "withdrawn", "ready"}, out \in {"down", "failing"}
  PROVE  TypeOK' /\ LoopInv'
  <1>1. PICK o \in Withdraw(link, f) :
          /\ faults + o.faults =< MaxFaults /\ faults' = faults + o.faults /\ link' = o.link
          /\ IF o.err THEN pc' = out /\ exit' = "error" ELSE pc' = next /\ UNCHANGED exit
    BY DEF Withdrawing
  <1>2. link' \in Fallbacks \cup {"piv", "missing"}
    BY <1>1, WithdrawLinks DEF TypeOK
  <1>3. faults' \in 0 .. MaxFaults
    BY <1>1, WithdrawTyped, BoundsAssumption DEF TypeOK
  <1>4. TypeOK'
    BY <1>1, <1>2, <1>3 DEF TypeOK, Withdrawing, monitor, loop
  <1>5. Resting /\ Resting' /\ DebounceInv'
    BY DEF Withdrawing, RInv, RouterInv, Running, Resting, TypeOK, LoopInv, DebounceInv, loop
  <1> QED
    BY <1>4, <1>5, RestingKeeps

LEMMA DaemonKeeps ==
  ASSUME TypeOK, RInv, LoopInv, DaemonStep
  PROVE  TypeOK' /\ LoopInv'
  <1> USE DEF disk, monitor, process, loop, history
  <1>q. ASSUME UNCHANGED <<link, card, probeErr, upstream, event, closed, router, zeroCount,
                           snapshot, failed, waited>>
        PROVE  LoopInv'
    BY <1>q DEF LoopInv, DebounceInv, CountedInv, NotifiedInv, ReportedRouteIsReal, FallbackShown
  <1>f. ASSUME Forget PROVE LoopInv'
    BY <1>f, RestingKeeps DEF Forget, Resting, DebounceInv
  <1>1. CASE Start
    BY <1>1, WithdrawingTypes DEF Start
  <1>2. CASE LoadConfig
    BY <1>2, <1>q DEF LoadConfig, TypeOK
  <1>3. CASE FailClosedBeforeStart
    BY <1>3, WithdrawingTypes DEF FailClosedBeforeStart
  <1>4. CASE Listen
    BY <1>4, <1>q DEF Listen, TypeOK
  <1>5. CASE ValidatePIV \/ RefusePath \/ Stop
    BY <1>5, <1>q DEF ValidatePIV, RefusePath, Stop, TypeOK
  <1>6. CASE FailClosedFromGuard
    BY <1>6, WithdrawingTypes DEF FailClosedFromGuard
  <1>7. CASE FailClosedAgain
    BY <1>7, WithdrawingTypes DEF FailClosedAgain
  <1>8. CASE PersistGuard
    <2>1. guard' \in Fallbacks \cup {NoPath, "none"}
      BY <1>8 DEF PersistGuard, TypeOK, Configs
    <2>2. faults' \in 0 .. MaxFaults
      BY <1>8, BoundsAssumption DEF PersistGuard, TypeOK
    <2>3. lost' \in BOOLEAN /\ pc' \in {"failing", "recorded"} /\ guardReady' \in BOOLEAN
          /\ exit' \in {"error", exit}
      BY <1>8 DEF PersistGuard, TypeOK
    <2>4. TypeOK'
      BY <1>8, <2>1, <2>2, <2>3 DEF PersistGuard, TypeOK
    <2> QED
      BY <1>8, <1>q, <2>4 DEF PersistGuard
  <1>9. CASE PublishInitial
    <2>1. SetRoute("piv_fail_closed", "not_checked", FALSE)
      BY <1>9 DEF PublishInitial
    <2>2. PublicTyped'
      BY <2>1, ClosedSettles
    <2>3. Resting
      BY <1>9 DEF PublishInitial, RInv, RouterInv, Running, Resting, TypeOK
    <2>4. TypeOK'
      BY <1>9, <2>2 DEF PublishInitial, TypeOK, PublicTyped, Snapshots, Routes
    <2>5. Resting' /\ DebounceInv'
      BY <1>9, <2>3 DEF PublishInitial, Resting, LoopInv, DebounceInv
    <2> QED
      BY <2>4, <2>5, RestingKeeps
  <1>10. CASE FailClosed
    <2>1. SetRoute("piv_fail_closed", "not_checked", FALSE)
      BY <1>10 DEF FailClosed
    <2>2. PublicTyped'
      BY <2>1, ClosedSettles
    <2>3. Resting
      BY <1>10 DEF FailClosed, RouterIsOver, RInv, RouterInv, Running, Resting, TypeOK
    <2>4. zeroCount' \in 0 .. DebounceCount
      BY <1>10, BoundsAssumption DEF FailClosed
    <2>5. TypeOK'
      BY <1>10, <2>2, <2>4 DEF FailClosed, TypeOK, PublicTyped, Snapshots, Routes
    <2>6. Resting' /\ DebounceInv'
      BY <1>10, <2>3 DEF FailClosed, Resting, DebounceInv
    <2> QED
      BY <2>5, <2>6, RestingKeeps
  <1>11. ASSUME Forget, piv' \in {piv, "missing"}, exit' \in {exit, "none"},
                UNCHANGED <<link, guard, conf, health, card, probeErr, lost, faults>>
         PROVE  TypeOK'
    <2>1. [enabled |-> FALSE, socket |-> NoPath] \in Configs
      BY DEF Configs
    <2>2. zeroCount' \in 0 .. DebounceCount /\ upstream' \in 0 .. Depth
      BY <1>11, BoundsAssumption DEF Forget
    <2>3. RestTyped'
      <3>1. guard' = guard /\ conf' = conf /\ health' = health /\ card' = card /\ probeErr' = probeErr
            /\ lost' = lost
        BY <1>11
      <3>2. RestTyped
        BY TypesSplit
      <3>3. /\ event' \in BOOLEAN /\ closed' \in BOOLEAN /\ guardReady' \in BOOLEAN /\ calm' \in BOOLEAN
            /\ pc' = "down" /\ ctx' = "live" /\ cfg' \in Configs
        BY <1>11, <2>1 DEF Forget
      <3>4. /\ piv' \in {"sound", "missing", "unsafe"}
            /\ exit' \in {"none", "ok", "error", "config"}
        BY <1>11, <3>2 DEF RestTyped
      <3> QED
        BY <2>2, <3>1, <3>2, <3>3, <3>4 DEF RestTyped
    <2>4. CountTyped'
      BY <1>11, <2>2 DEF Forget, CountTyped
    <2>5. PublicTyped'
      BY <1>11, TypesSplit DEF Forget, PublicTyped, NoSnapshot, Snapshots
    <2> QED
      BY <2>3, <2>4, <2>5, TypesJoin
  <1>12. CASE Close
    BY <1>12, <1>11, <1>f DEF Close
  <1>13. CASE Crash
    BY <1>13, <1>11, <1>f DEF Crash
  <1> QED
    BY <1>1, <1>2, <1>3, <1>4, <1>5, <1>6, <1>7, <1>8, <1>9, <1>10, <1>12, <1>13 DEF DaemonStep

LEMMA WorldKeeps ==
  ASSUME TypeOK, RInv, LoopInv, World
  PROVE  TypeOK' /\ LoopInv'
  <1> USE DEF disk, monitor, process, loop, history
  <1>q. ASSUME UNCHANGED <<link, router, zeroCount, snapshot, failed, waited>>, NotifiedInv'
        PROVE  LoopInv'
    BY <1>q DEF LoopInv, DebounceInv, CountedInv, ReportedRouteIsReal, FallbackShown
  <1>1. CASE Plug \/ Glitch
    <2>1. upstream' \in 0 .. Depth
      BY <1>1, BoundsAssumption DEF Plug, Glitch, Notify, TypeOK
    <2>2. TypeOK'
      <3>1. RestTyped'
        <4>1. RestTyped
          BY TypesSplit
        <4>2. CASE Plug
          BY <4>1, <4>2, <2>1 DEF Plug, Notify, RestTyped
        <4>3. CASE Glitch
          BY <4>1, <4>3, <2>1 DEF Glitch, Notify, RestTyped
        <4> QED
          BY <1>1, <4>2, <4>3
      <3>2. PublicTyped' /\ CountTyped'
        BY <1>1, TypesSplit DEF Plug, Glitch, Notify, PublicTyped, CountTyped
      <3> QED
        BY <3>1, <3>2, TypesJoin
    <2>3. Running /\ ~closed => upstream' > 0
      <3>1. Running => Watching
        BY DEF RInv, RouterInv, Watching
      <3> QED
        BY <1>1, <3>1, BoundsAssumption DEF Plug, Glitch, Notify, TypeOK
    <2>4. NotifiedInv'
      BY <1>1, <2>3 DEF Plug, Glitch, Notify, NotifiedInv, FallbackShown, Running
    <2> QED
      BY <1>1, <2>2, <2>4, <1>q DEF Plug, Glitch, Notify
  <1>2. CASE Deliver
    <2>1. TypeOK'
      BY <1>2, BoundsAssumption DEF Deliver, TypeOK
    <2>2. NotifiedInv'
      BY <1>2 DEF Deliver, NotifiedInv
    <2> QED
      BY <1>2, <2>1, <2>2, <1>q DEF Deliver
  <1>3. CASE StreamEnds
    <2>1. TypeOK'
      BY <1>3, BoundsAssumption DEF StreamEnds, Misfortune, TypeOK
    <2>2. NotifiedInv'
      BY <1>3 DEF StreamEnds, NotifiedInv
    <2> QED
      BY <1>3, <2>1, <2>2, <1>q DEF StreamEnds
  <1>4. CASE EditConfig \/ ChangeHealth \/ RepairPIV
    <2>1. TypeOK'
      <3>1. RestTyped'
        BY <1>4, TypesSplit DEF EditConfig, ChangeHealth, RepairPIV, RestTyped
      <3>2. PublicTyped' /\ CountTyped'
        BY <1>4, TypesSplit DEF EditConfig, ChangeHealth, RepairPIV, PublicTyped, CountTyped
      <3> QED
        BY <3>1, <3>2, TypesJoin
    <2>2. NotifiedInv'
      BY <1>4 DEF EditConfig, ChangeHealth, RepairPIV, LoopInv, NotifiedInv, FallbackShown
    <2> QED
      BY <1>4, <2>1, <2>2, <1>q DEF EditConfig, ChangeHealth, RepairPIV
  <1>5. CASE BreakPIV \/ LoseGuard
    <2>1. TypeOK'
      <3>1. /\ guard' \in {guard, "none"} /\ piv' \in {piv, "missing", "unsafe"}
            /\ UNCHANGED <<conf, health, card, probeErr, event, closed, upstream, pc, ctx, cfg,
                           guardReady, exit, calm>>
        BY <1>5 DEF BreakPIV, LoseGuard
      <3>2. lost' \in BOOLEAN
        BY <1>5, Zenon DEF BreakPIV, LoseGuard, TypeOK
      <3>3. RestTyped'
        BY <3>1, <3>2, TypesSplit DEF RestTyped
      <3>4. PublicTyped' /\ CountTyped'
        BY <1>5, TypesSplit, BoundsAssumption
        DEF BreakPIV, LoseGuard, Misfortune, PublicTyped, CountTyped
      <3> QED
        BY <3>3, <3>4, TypesJoin
    <2>2. NotifiedInv'
      BY <1>5 DEF BreakPIV, LoseGuard, LoopInv, NotifiedInv, FallbackShown
    <2> QED
      BY <1>5, <2>1, <2>2, <1>q DEF BreakPIV, LoseGuard
  <1> QED
    BY <1>1, <1>2, <1>3, <1>4, <1>5 DEF World

FullInv == RInv /\ TypeOK /\ LoopInv

LEMMA FullInvInit == Init => FullInv
  <1> SUFFICES ASSUME Init PROVE TypeOK /\ LoopInv
    BY RInvInit DEF FullInv
  <1>1. [enabled |-> FALSE, socket |-> NoPath] \in Configs
    BY DEF Configs
  <1>2. TypeOK
    <2>0. /\ failed \in BOOLEAN /\ retry \in BOOLEAN /\ card \in BOOLEAN /\ probeErr \in BOOLEAN
          /\ event \in BOOLEAN /\ closed \in BOOLEAN /\ guardReady \in BOOLEAN /\ calm \in BOOLEAN
          /\ lost \in BOOLEAN
      BY Zenon DEF Init
    <2>1. PublicTyped
      <3>1. link \in {"missing", "piv"} /\ snapshot = NoSnapshot /\ faults = 0
        BY DEF Init
      <3> QED
        BY <2>0, <3>1, BoundsAssumption DEF PublicTyped, NoSnapshot, Snapshots
    <2>2. CountTyped
      <3>1. zeroCount = 0 /\ waited = "no" /\ router = "idle"
        BY DEF Init
      <3> QED
        BY <2>0, <3>1, BoundsAssumption DEF CountTyped
    <2>3. RestTyped
      <3>1. /\ guard = "none" /\ conf \in Configs \cup {Broken} /\ piv = "missing"
            /\ health = "good" /\ pc = "down" /\ ctx = "live" /\ exit = "none" /\ cfg \in Configs
            /\ upstream = 0
        BY <1>1 DEF Init
      <3> QED
        BY <2>0, <3>1, BoundsAssumption DEF RestTyped
    <2> QED
      BY <2>1, <2>2, <2>3, TypesSplit
  <1>3. LoopInv
    BY DEF Init, LoopInv, DebounceInv, CountedInv, NotifiedInv, ReportedRouteIsReal, FallbackShown
  <1> QED
    BY <1>2, <1>3

LEMMA FullInvNext == FullInv /\ [Next]_vars => FullInv'
  <1> SUFFICES ASSUME FullInv, [Next]_vars PROVE FullInv'
    OBVIOUS
  <1>1. RInv'
    BY RInvNext DEF FullInv
  <1>2. TypeOK' /\ LoopInv'
    <2>1. CASE RouterStep
      BY <2>1, RouterKeeps DEF FullInv
    <2>2. CASE DaemonStep
      BY <2>2, DaemonKeeps DEF FullInv
    <2>3. CASE World
      BY <2>3, WorldKeeps DEF FullInv
    <2>4. CASE UNCHANGED vars
      <3>1. TypeOK'
        BY <2>4 DEF FullInv, TypeOK, vars, disk, monitor, process, loop, history
      <3>2. LoopInv'
        BY <2>4 DEF FullInv, LoopInv, DebounceInv, CountedInv, NotifiedInv, ReportedRouteIsReal,
                    FallbackShown, vars, disk, monitor, process, loop, history
      <3> QED
        BY <3>1, <3>2
    <2> QED
      BY <2>1, <2>2, <2>3, <2>4 DEF Next
  <1> QED
    BY <1>1, <1>2 DEF FullInv

\* Every variable of the router, the daemon and the disk keeps to its values
\* (the fields of Router and the phases of daemon.Run).
THEOREM Typing == Spec => []TypeOK
  <1>1. FullInv => TypeOK
    BY DEF FullInv
  <1> QED
    BY <1>1, FullInvInit, FullInvNext, PTL DEF Spec

\* While the fallback is published, a YubiKey that is back or a monitor that
\* fails has a notification on its way to the router: the recheck after the
\* inspection and the drain before the publication leave no gap between them
\* (reconcileWithDebounce, drainDeviceEvent).
THEOREM NoCardMissed == Spec => []NoMissedCard
  <1>1. FullInv => NoMissedCard
    BY DEF FullInv, LoopInv, NotifiedInv, FallbackShown, NoMissedCard
  <1> QED
    BY <1>1, FullInvInit, FullInvNext, PTL DEF Spec

\* Whatever the debounce count, above one: a published fallback has had a retry
\* timer between two successive probes that found no YubiKey (zeroCount).
THEOREM FallbackDebounced == Spec => []FallbackIsDebounced
  <1>1. FullInv => FallbackIsDebounced
    BY BoundsAssumption
    DEF FullInv, TypeOK, LoopInv, DebounceInv, CountedInv, FallbackShown, FallbackIsDebounced
  <1> QED
    BY <1>1, FullInvInit, FullInvNext, PTL DEF Spec

\* A reconcile that ended well reports 1password exactly when the public path
\* is the fallback agent (setRoute's snapshot and its rename).
THEOREM ReportedRoute == Spec => []ReportedRouteIsReal
  <1>1. FullInv => ReportedRouteIsReal
    BY DEF FullInv, LoopInv
  <1> QED
    BY <1>1, FullInvInit, FullInvNext, PTL DEF Spec
=============================================================================
