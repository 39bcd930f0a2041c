----------------------------- MODULE TouchPanel -----------------------------
(***************************************************************************)
(* native/macos/yubitouch.m and internal/ui/app.go: the floating panel     *)
(* that asks for the touch, and its cancel button.  The panel lives on the *)
(* main thread.  Every event the coordinator hands to App.Handle becomes a *)
(* block on the main queue, run later and in order; the delayed hide of an *)
(* outcome and the click on the button run there too.  A goroutine polls   *)
(* the atomic the click writes and passes the request ID to                *)
(* Coordinator.Cancel.  The event stream is that of TouchEvents.           *)
(***************************************************************************)
EXTENDS TouchEvents, Naturals

VARIABLES
  drawn,      \* how many events of the stream the main thread has handled
  shows,      \* what the panel shows
  current,    \* YTCurrentRequestID
  generation, \* YTGeneration
  hides,      \* generations whose dispatch_after block is pending
  button,     \* the cancel button: hidden, enabled, or clicked (disabled)
  cancelID,   \* YTCancelRequestID
  passed,     \* the requests the poller has passed to Coordinator.Cancel
  running     \* NSApp runs and the poller's context is alive

panelVars == <<drawn, shows, current, generation, hides, button, cancelID, passed, running>>
vars == <<streamVars, panelVars>>

PanelTypeOK ==
  /\ drawn \in 0 .. Len(stream)
  /\ shows \in {"nothing", "waiting", "success", "failure"}
  /\ current \in Requests \cup {NoOne}
  /\ generation \in Nat /\ hides \subseteq 1 .. generation
  /\ button \in {"hidden", "enabled", "clicked"}
  /\ cancelID \in Requests \cup {NoOne}
  /\ passed \subseteq Requests
  /\ running \in BOOLEAN

Init ==
  /\ EventsInit
  /\ drawn = 0 /\ shows = "nothing" /\ current = NoOne
  /\ generation = 0 /\ hides = {}
  /\ button = "hidden" /\ cancelID = NoOne /\ passed = {}
  /\ running = TRUE

\* YTShow: every change of what is shown starts a new generation.
Show(what) == shows' = what /\ generation' = generation + 1

\* Seeded bug: the last click stays.
ShowWaitingOnly(r) ==
  /\ current' = r
  /\ Show("waiting")
  /\ button' = "enabled"
  /\ UNCHANGED <<hides, cancelID>>

\* The block of YTShowWaiting.
ShowWaiting(r) ==
  /\ current' = r
  /\ cancelID' = NoOne
  /\ Show("waiting")
  /\ button' = "enabled"
  /\ UNCHANGED hides

\* The blocks of YTShowSuccess and YTShowFailure, which end in YTHideAfter.
ShowOutcome(r, what) ==
  IF current # r
    THEN UNCHANGED <<shows, current, generation, hides, button, cancelID>>
    ELSE /\ cancelID' = NoOne
         /\ button' = "hidden"
         /\ Show(what)
         /\ hides' = hides \cup {generation'}
         /\ UNCHANGED current

\* Seeded bug: the panel of another request is taken down instead.
HideOthers(r) ==
  IF current = r
    THEN UNCHANGED <<shows, current, generation, hides, button, cancelID>>
    ELSE /\ current' = NoOne
         /\ cancelID' = NoOne
         /\ button' = "hidden"
         /\ shows' = "nothing"
         /\ UNCHANGED <<generation, hides>>

\* The block of YTHide.
Hide(r) ==
  IF current # r
    THEN UNCHANGED <<shows, current, generation, hides, button, cancelID>>
    ELSE /\ current' = NoOne
         /\ cancelID' = NoOne
         /\ button' = "hidden"
         /\ shows' = "nothing"
         /\ UNCHANGED <<generation, hides>>

\* App.Handle picks the block by the type of the event; initializing has none.
Draw(event) ==
  CASE event.type = "waiting" -> ShowWaiting(event.request)
    [] event.type = "success" -> ShowOutcome(event.request, "success")
    [] event.type \in {"failure", "timeout"} -> ShowOutcome(event.request, "failure")
    [] event.type = "canceled" -> Hide(event.request)
    [] OTHER -> UNCHANGED <<shows, current, generation, hides, button, cancelID>>

MainQueue ==
  /\ running /\ drawn < Len(stream)
  /\ drawn' = drawn + 1
  /\ Draw(stream[drawn'])
  /\ UNCHANGED <<streamVars, passed, running>>

\* Seeded bugs: the generation is not looked at; it is compared the wrong way.
HideAfterAlways(g) ==
  /\ running /\ g \in hides
  /\ hides' = hides \ {g}
  /\ current' = NoOne /\ shows' = "nothing"
  /\ UNCHANGED <<streamVars, drawn, generation, button, cancelID, passed, running>>
HideAfterOthers(g) ==
  /\ running /\ g \in hides
  /\ hides' = hides \ {g}
  /\ IF g # generation THEN current' = NoOne /\ shows' = "nothing"
                       ELSE UNCHANGED <<current, shows>>
  /\ UNCHANGED <<streamVars, drawn, generation, button, cancelID, passed, running>>

\* The dispatch_after block of YTHideAfter.
HideAfter(g) ==
  /\ running /\ g \in hides
  /\ hides' = hides \ {g}
  /\ IF g = generation THEN current' = NoOne /\ shows' = "nothing"
                       ELSE UNCHANGED <<current, shows>>
  /\ UNCHANGED <<streamVars, drawn, generation, button, cancelID, passed, running>>

\* cancelSigning.
Click ==
  /\ running /\ shows # "nothing" /\ button = "enabled"
  /\ cancelID' = current
  /\ button' = "clicked"
  /\ UNCHANGED <<streamVars, drawn, shows, current, generation, hides, passed, running>>

\* Seeded bug: the ID is cleared before it is read.
PollTooLate ==
  /\ running /\ cancelID # NoOne
  /\ cancelID' = NoOne
  /\ UNCHANGED <<streamVars, drawn, shows, current, generation, hides, button, passed, running>>

\* One tick of watchCancellation: atomic exchange, then Coordinator.Cancel.
Poll ==
  /\ running /\ cancelID # NoOne
  /\ passed' = passed \cup {cancelID}
  /\ cancelID' = NoOne
  /\ UNCHANGED <<streamVars, drawn, shows, current, generation, hides, button, running>>

\* YTStopApplication: Run's context is done or a service has failed.
StopApplication ==
  /\ running /\ running' = FALSE
  /\ current' = NoOne /\ cancelID' = NoOne
  /\ button' = "hidden" /\ shows' = "nothing"
  /\ UNCHANGED <<streamVars, drawn, generation, hides, passed>>

Panel == MainQueue \/ (\E g \in hides : HideAfter(g)) \/ Click \/ Poll \/ StopApplication
Event(r) == EventsStep(r) /\ UNCHANGED panelVars
Next == Panel \/ \E r \in Requests : Event(r)

\* The main thread runs its blocks and timers, the poller ticks, and every
\* request that has been heard of concludes (EveryRequestReturns).
Fairness ==
  /\ WF_vars(MainQueue) /\ WF_vars(\E g \in hides : HideAfter(g)) /\ WF_vars(Poll)
  /\ \A r \in Requests :
       WF_vars(phase[r] # "quiet" /\ (\E v \in Verdicts : Concludes(r, v)) /\ UNCHANGED panelVars)

Spec == Init /\ [][Next]_vars
FairSpec == Spec /\ Fairness

-----------------------------------------------------------------------------
(* Properties.                                                             *)

Undrawn == {stream[i] : i \in drawn + 1 .. Len(stream)}

\* A panel that asks for a touch does so for a request that is not over, or
\* whose outcome is still on its way through the main queue: the outcome of
\* one request never leaves the prompt of another behind.
PromptIsTruthful ==
  shows = "waiting" =>
    \/ phase[current] # "over"
    \/ \E e \in Undrawn : e.request = current /\ e.type \in Verdicts

\* While a request waits for its touch and the main thread has caught up, the
\* panel is up for that very request and can be canceled: no late outcome of
\* an earlier request and no earlier delayed hide has taken it down.
PromptIsShown ==
  \A r \in Requests :
    running /\ Undrawn = {} /\ holder = r /\ phase[r] = "waiting" =>
      shows = "waiting" /\ current = r /\ button \in {"enabled", "clicked"}

\* A click that has not been polled yet names the request the user sees, and
\* only a request whose prompt was on the panel is ever passed to Cancel.
ClickNamesWhatIsShown ==
  /\ cancelID # NoOne => shows = "waiting" /\ cancelID = current
  /\ \A r \in passed : \E i \in 1 .. drawn : stream[i] = [request |-> r, type |-> "waiting"]

\* A click is dropped without being passed on only when its request has left
\* the device or is over, or the daemon stops.
NoClickIsLost ==
  [][\A r \in Requests :
       cancelID = r /\ cancelID' # r /\ running' =>
         r \in passed' \/ holder # r \/ phase[r] = "over"]_vars

\* Every outcome on display goes away, by its own delayed hide, by the
\* next prompt or with the application.
OutcomeGoes == shows \in {"success", "failure"} ~> shows \in {"nothing", "waiting"}
=============================================================================
