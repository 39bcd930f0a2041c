-------------------------- MODULE TouchPanelProofs --------------------------
(***************************************************************************)
(* What the touch panel promises for any set of requests and any stream    *)
(* TouchEvents allows: its prompt is that of the request that waits, and a *)
(* click goes to the request the user sees.                                *)
(***************************************************************************)
EXTENDS TouchPanel, TLAPS

(* The stream.  A request is asked for its touch at most once, before its   *)
(* outcome; while it occupies the device, nobody is asked after it.         *)

Types == Verdicts \cup {"initializing", "waiting"}
Events == [request : Requests, type : Types]

Asks(e, r) == e.request = r /\ e.type = "waiting"
Ends(e, r) == e.request = r /\ e.type \in Verdicts

StreamTyped ==
  /\ holder \in Requests \cup {NoOne}
  /\ phase \in [Requests -> {"quiet", "initializing", "waiting", "over"}]
  /\ stream \in Seq(Events)

\* A request that has an outcome is over, and the other way round.
OverInv ==
  \A r \in Requests : phase[r] = "over" <=> \E i \in 1 .. Len(stream) : Ends(stream[i], r)

AskedInv ==
  \A r \in Requests : \A i \in 1 .. Len(stream) :
    Asks(stream[i], r) =>
      /\ phase[r] \in {"waiting", "over"}
      /\ \A j \in 1 .. Len(stream) :
           (Asks(stream[j], r) => j = i) /\ (Ends(stream[j], r) => j > i)

\* The request that waits on the device was asked last.
HolderInv ==
  \A r \in Requests :
    /\ holder = r => phase[r] # "quiet"
    /\ holder = r /\ phase[r] = "waiting" =>
         \E i \in 1 .. Len(stream) :
           /\ Asks(stream[i], r)
           /\ \A j \in 1 .. Len(stream) : stream[j].type = "waiting" => j =< i

StreamInv == StreamTyped /\ OverInv /\ AskedInv /\ HolderInv

(* The panel.  What it shows is decided by the events drawn so far.         *)

PanelTyped ==
  /\ drawn \in 0 .. Len(stream)
  /\ shows \in {"nothing", "waiting", "success", "failure"}
  /\ current \in Requests \cup {NoOne}
  /\ generation \in Nat /\ hides \subseteq 1 .. generation
  /\ button \in {"hidden", "enabled", "clicked"}
  /\ cancelID \in Requests \cup {NoOne}
  /\ passed \subseteq Requests
  /\ running \in BOOLEAN

\* A prompt belongs to a request that was asked and whose outcome is not drawn.
PromptInv ==
  shows = "waiting" =>
    /\ current \in Requests
    /\ \E i \in 1 .. drawn : Asks(stream[i], current)
    /\ \A i \in 1 .. drawn : ~Ends(stream[i], current)

\* The request asked last, unless its outcome is drawn, has the prompt.
UpInv ==
  running => \A r \in Requests : \A i \in 1 .. drawn :
    /\ Asks(stream[i], r)
    /\ \A j \in 1 .. drawn : (stream[j].type = "waiting" => j =< i) /\ ~Ends(stream[j], r)
    => shows = "waiting" /\ current = r /\ button \in {"enabled", "clicked"}

\* The delayed hide of the panel on display is that of an outcome.
HidesInv == generation \in hides => shows # "waiting"

ButtonInv ==
  /\ button = "enabled" => shows = "waiting"
  /\ cancelID # NoOne => shows = "waiting" /\ cancelID = current

PassedInv == \A r \in passed : \E i \in 1 .. drawn : Asks(stream[i], r)

PanelInv == PanelTyped /\ PromptInv /\ UpInv /\ HidesInv /\ ButtonInv /\ PassedInv

FullInv == StreamInv /\ PanelInv

-----------------------------------------------------------------------------
(* One more event at the end of the stream.                                 *)

Grown(e) ==
  /\ Len(stream) \in Nat /\ Len(stream') = Len(stream) + 1
  /\ \A i \in 1 .. Len(stream) : stream'[i] = stream[i]
  /\ stream'[Len(stream) + 1] = e

LEMMA Grows ==
  ASSUME StreamTyped, NEW r \in Requests, NEW type \in Types, Hear(r, type)
  PROVE  /\ stream' \in Seq(Events)
         /\ Grown([request |-> r, type |-> type])
  <1>1. [request |-> r, type |-> type] \in Events
    BY DEF Events
  <1> QED
    BY <1>1 DEF StreamTyped, Hear, Grown

\* Every event of the longer stream is one of the shorter or the new one.
LEMMA OldOrNew ==
  ASSUME NEW e, Grown(e), NEW i \in 1 .. Len(stream')
  PROVE  (i \in 1 .. Len(stream) /\ stream'[i] = stream[i]) \/ (i = Len(stream) + 1 /\ stream'[i] = e)
  BY DEF Grown

LEMMA OldStay ==
  ASSUME NEW e, Grown(e), NEW i \in 1 .. Len(stream)
  PROVE  i \in 1 .. Len(stream') /\ stream'[i] = stream[i] /\ i < Len(stream) + 1
  BY DEF Grown

LEMMA StreamInit == EventsInit => StreamInv
  BY EventsAssumption DEF EventsInit, StreamInv, StreamTyped, OverInv, AskedInv, HolderInv

LEMMA BeginsKeeps ==
  ASSUME StreamInv, NEW r \in Requests, BeginsToInitialize(r)
  PROVE  StreamInv'
  <1> DEFINE e == [request |-> r, type |-> "initializing"]
  <1>1. stream' \in Seq(Events) /\ Grown(e)
    BY Grows DEF StreamInv, BeginsToInitialize, Types
  <1>2. \A s : ~Asks(e, s) /\ ~Ends(e, s)
    BY DEF Asks, Ends, Verdicts
  <1>3. /\ holder = NoOne /\ phase[r] = "quiet" /\ holder' = r
        /\ phase' = [phase EXCEPT ![r] = "initializing"]
        /\ phase \in [Requests -> {"quiet", "initializing", "waiting", "over"}]
    BY DEF BeginsToInitialize, StreamInv, StreamTyped
  <1> HIDE DEF e
  <1>4. StreamTyped'
    BY <1>1, <1>3 DEF StreamTyped
  <1>5. OverInv'
    <2> SUFFICES ASSUME NEW s \in Requests
                 PROVE  phase'[s] = "over" <=> \E i \in 1 .. Len(stream') : Ends(stream'[i], s)
      BY DEF OverInv
    <2>1. phase[s] = "over" <=> \E i \in 1 .. Len(stream) : Ends(stream[i], s)
      BY DEF StreamInv, OverInv
    <2>2. phase'[s] = "over" <=> phase[s] = "over"
      BY <1>3
    <2> QED
      BY <1>1, <1>2, <2>1, <2>2, OldOrNew, OldStay
  <1>6. AskedInv'
    <2> SUFFICES ASSUME NEW s \in Requests, NEW i \in 1 .. Len(stream'), Asks(stream'[i], s)
                 PROVE  /\ phase'[s] \in {"waiting", "over"}
                        /\ \A j \in 1 .. Len(stream') :
                             (Asks(stream'[j], s) => j = i) /\ (Ends(stream'[j], s) => j > i)
      BY DEF AskedInv
    <2>1. i \in 1 .. Len(stream) /\ Asks(stream[i], s)
      BY <1>1, <1>2, OldOrNew
    <2>2. phase[s] \in {"waiting", "over"}
      BY <2>1 DEF StreamInv, AskedInv
    <2>3. phase'[s] = phase[s]
      BY <1>3, <2>2
    <2>4. \A j \in 1 .. Len(stream') :
            (Asks(stream'[j], s) => j = i) /\ (Ends(stream'[j], s) => j > i)
      BY <1>1, <1>2, <2>1, OldOrNew DEF StreamInv, AskedInv
    <2> QED
      BY <2>2, <2>3, <2>4
  <1>7. HolderInv'
    BY <1>3, EventsAssumption DEF HolderInv
  <1> QED
    BY <1>4, <1>5, <1>6, <1>7 DEF StreamInv

LEMMA AsksKeeps ==
  ASSUME StreamInv, NEW r \in Requests, AsksForTouch(r)
  PROVE  StreamInv'
  <1> DEFINE e == [request |-> r, type |-> "waiting"]
  <1>1. stream' \in Seq(Events) /\ Grown(e)
    BY Grows DEF StreamInv, AsksForTouch, Types
  <1>2. e.type = "waiting" /\ \A s : ~Ends(e, s) /\ (Asks(e, s) <=> s = r)
    BY DEF Asks, Ends, Verdicts
  <1>3. /\ holder = r /\ phase[r] = "initializing" /\ holder' = r
        /\ phase' = [phase EXCEPT ![r] = "waiting"]
        /\ phase \in [Requests -> {"quiet", "initializing", "waiting", "over"}]
    BY DEF AsksForTouch, StreamInv, StreamTyped
  <1> HIDE DEF e
  <1>4. StreamTyped'
    BY <1>1, <1>3 DEF StreamTyped, StreamInv
  <1>5. OverInv'
    <2> SUFFICES ASSUME NEW s \in Requests
                 PROVE  phase'[s] = "over" <=> \E i \in 1 .. Len(stream') : Ends(stream'[i], s)
      BY DEF OverInv
    <2>1. phase[s] = "over" <=> \E i \in 1 .. Len(stream) : Ends(stream[i], s)
      BY DEF StreamInv, OverInv
    <2>2. phase'[s] = "over" <=> phase[s] = "over"
      BY <1>3
    <2> QED
      BY <1>1, <1>2, <2>1, <2>2, OldOrNew, OldStay
  <1>6. \A i \in 1 .. Len(stream) : ~Asks(stream[i], r) /\ ~Ends(stream[i], r)
    BY <1>3 DEF StreamInv, AskedInv, OverInv
  <1>7. AskedInv'
    <2> SUFFICES ASSUME NEW s \in Requests, NEW i \in 1 .. Len(stream'), Asks(stream'[i], s)
                 PROVE  /\ phase'[s] \in {"waiting", "over"}
                        /\ \A j \in 1 .. Len(stream') :
                             (Asks(stream'[j], s) => j = i) /\ (Ends(stream'[j], s) => j > i)
      BY DEF AskedInv
    <2>1. CASE s = r
      <3>1. i = Len(stream) + 1
        BY <1>1, <1>6, <2>1, OldOrNew
      <3>2. phase'[s] = "waiting"
        BY <1>3, <2>1
      <3> QED
        BY <1>1, <1>2, <1>6, <2>1, <3>1, <3>2, OldOrNew
    <2>2. CASE s # r
      <3>1. i \in 1 .. Len(stream) /\ Asks(stream[i], s)
        BY <1>1, <1>2, <2>2, OldOrNew
      <3>2. phase'[s] \in {"waiting", "over"}
        BY <1>3, <2>2, <3>1 DEF StreamInv, AskedInv
      <3> QED
        BY <1>1, <1>2, <2>2, <3>1, <3>2, OldOrNew DEF StreamInv, AskedInv
    <2> QED
      BY <2>1, <2>2
  <1>8. HolderInv'
    <2>1. Asks(stream'[Len(stream) + 1], r) /\ Len(stream) + 1 \in 1 .. Len(stream')
      BY <1>1, <1>2 DEF Grown
    <2>2. \A j \in 1 .. Len(stream') : j =< Len(stream) + 1
      BY <1>1 DEF Grown
    <2> QED
      BY <1>3, <2>1, <2>2 DEF HolderInv
  <1> QED
    BY <1>4, <1>5, <1>7, <1>8 DEF StreamInv

LEMMA ConcludesKeeps ==
  ASSUME StreamInv, NEW r \in Requests, NEW v \in Verdicts, Concludes(r, v)
  PROVE  StreamInv'
  <1> DEFINE e == [request |-> r, type |-> v]
  <1>1. stream' \in Seq(Events) /\ Grown(e)
    BY Grows DEF StreamInv, Concludes, Types
  <1>2. e.type # "waiting" /\ \A s : ~Asks(e, s) /\ (Ends(e, s) <=> s = r)
    BY DEF Asks, Ends, Verdicts
  <1>3. /\ phase[r] # "over" /\ holder' = holder
        /\ phase' = [phase EXCEPT ![r] = "over"]
        /\ phase \in [Requests -> {"quiet", "initializing", "waiting", "over"}]
    BY DEF Concludes, StreamInv, StreamTyped
  <1> HIDE DEF e
  <1>4. StreamTyped'
    BY <1>1, <1>3 DEF StreamTyped, StreamInv
  <1>5. OverInv'
    <2> SUFFICES ASSUME NEW s \in Requests
                 PROVE  phase'[s] = "over" <=> \E i \in 1 .. Len(stream') : Ends(stream'[i], s)
      BY DEF OverInv
    <2>1. CASE s = r
      <3>1. Ends(stream'[Len(stream) + 1], r) /\ Len(stream) + 1 \in 1 .. Len(stream')
        BY <1>1, <1>2 DEF Grown
      <3> QED
        BY <1>3, <2>1, <3>1
    <2>2. CASE s # r
      <3>1. phase[s] = "over" <=> \E i \in 1 .. Len(stream) : Ends(stream[i], s)
        BY DEF StreamInv, OverInv
      <3>2. phase'[s] = "over" <=> phase[s] = "over"
        BY <1>3, <2>2
      <3> QED
        BY <1>1, <1>2, <2>2, <3>1, <3>2, OldOrNew, OldStay
    <2> QED
      BY <2>1, <2>2
  <1>6. AskedInv'
    <2> SUFFICES ASSUME NEW s \in Requests, NEW i \in 1 .. Len(stream'), Asks(stream'[i], s)
                 PROVE  /\ phase'[s] \in {"waiting", "over"}
                        /\ \A j \in 1 .. Len(stream') :
                             (Asks(stream'[j], s) => j = i) /\ (Ends(stream'[j], s) => j > i)
      BY DEF AskedInv
    <2>1. i \in 1 .. Len(stream) /\ Asks(stream[i], s) /\ i < Len(stream) + 1
      BY <1>1, <1>2, OldOrNew, OldStay
    <2>2. phase[s] \in {"waiting", "over"}
      BY <2>1 DEF StreamInv, AskedInv
    <2>3. phase'[s] \in {"waiting", "over"}
      BY <1>3, <2>2
    <2>4. \A j \in 1 .. Len(stream') :
            (Asks(stream'[j], s) => j = i) /\ (Ends(stream'[j], s) => j > i)
      BY <1>1, <1>2, <2>1, OldOrNew DEF StreamInv, AskedInv
    <2> QED
      BY <2>3, <2>4
  <1>7. HolderInv'
    <2> SUFFICES ASSUME NEW s \in Requests, holder' = s
                 PROVE  /\ phase'[s] # "quiet"
                        /\ phase'[s] = "waiting" =>
                             \E i \in 1 .. Len(stream') :
                               /\ Asks(stream'[i], s)
                               /\ \A j \in 1 .. Len(stream') : stream'[j].type = "waiting" => j =< i
      BY DEF HolderInv
    <2>1. phase[s] # "quiet"
      BY <1>3 DEF StreamInv, HolderInv
    <2>2. phase'[s] # "quiet"
      BY <1>3, <2>1
    <2>3. ASSUME phase'[s] = "waiting"
          PROVE  \E i \in 1 .. Len(stream') :
                   /\ Asks(stream'[i], s)
                   /\ \A j \in 1 .. Len(stream') : stream'[j].type = "waiting" => j =< i
      <3>1. phase[s] = "waiting" /\ holder = s
        BY <1>3, <2>3
      <3>2. PICK i \in 1 .. Len(stream) :
              Asks(stream[i], s) /\ \A j \in 1 .. Len(stream) : stream[j].type = "waiting" => j =< i
        BY <3>1 DEF StreamInv, HolderInv
      <3>3. i \in 1 .. Len(stream') /\ Asks(stream'[i], s)
        BY <1>1, <3>2, OldStay
      <3>4. \A j \in 1 .. Len(stream') : stream'[j].type = "waiting" => j =< i
        BY <1>1, <1>2, <3>2, OldOrNew
      <3> QED
        BY <3>3, <3>4
    <2> QED
      BY <2>2, <2>3
  <1> QED
    BY <1>4, <1>5, <1>6, <1>7 DEF StreamInv

LEMMA LeavesKeeps ==
  ASSUME StreamInv, NEW r \in Requests, LeavesDevice(r)
  PROVE  StreamInv'
  BY EventsAssumption
  DEF LeavesDevice, StreamInv, StreamTyped, OverInv, AskedInv, HolderInv

LEMMA StreamNext ==
  ASSUME StreamInv, NEW r \in Requests, EventsStep(r)
  PROVE  StreamInv'
  BY BeginsKeeps, AsksKeeps, ConcludesKeeps, LeavesKeeps DEF EventsStep

\* The events drawn stay what they are while the stream grows.
LEMMA StreamOnlyGrows ==
  ASSUME StreamInv, NEW r \in Requests, EventsStep(r)
  PROVE  /\ Len(stream) \in Nat /\ Len(stream') \in Nat /\ Len(stream') >= Len(stream)
         /\ \A i \in 1 .. Len(stream) : stream'[i] = stream[i]
  <1>1. ASSUME NEW type \in Types, Hear(r, type)
        PROVE  /\ Len(stream) \in Nat /\ Len(stream') \in Nat /\ Len(stream') >= Len(stream)
               /\ \A i \in 1 .. Len(stream) : stream'[i] = stream[i]
    <2>1. Grown([request |-> r, type |-> type])
      BY <1>1, Grows DEF StreamInv
    <2> QED
      BY <2>1 DEF Grown
  <1>2. CASE LeavesDevice(r)
    <2>1. stream' = stream
      BY <1>2 DEF LeavesDevice
    <2>2. Len(stream) \in Nat
      BY DEF StreamInv, StreamTyped
    <2> QED
      BY <2>1, <2>2
  <1>3. CASE BeginsToInitialize(r)
    BY <1>3, <1>1 DEF BeginsToInitialize, Types
  <1>4. CASE AsksForTouch(r)
    BY <1>4, <1>1 DEF AsksForTouch, Types
  <1>5. CASE \E v \in Verdicts : Concludes(r, v)
    BY <1>5, <1>1 DEF Concludes, Types
  <1> QED
    BY <1>2, <1>3, <1>4, <1>5 DEF EventsStep

-----------------------------------------------------------------------------
(* The panel.                                                               *)

LEMMA PanelInit == Init => PanelInv
  <1> SUFFICES ASSUME Init PROVE PanelInv
    OBVIOUS
  <1>1. Len(stream) = 0
    BY DEF Init, EventsInit
  <1>2. running \in BOOLEAN
    BY Zenon DEF Init
  <1> QED
    BY <1>1, <1>2
    DEF Init, PanelInv, PanelTyped, PromptInv, UpInv, HidesInv, ButtonInv, PassedInv

LEMMA EventKeepsPanel ==
  ASSUME StreamInv, PanelInv, NEW r \in Requests, Event(r)
  PROVE  PanelInv'
  <1>1. /\ Len(stream) \in Nat /\ Len(stream') \in Nat /\ Len(stream') >= Len(stream)
        /\ \A i \in 1 .. Len(stream) : stream'[i] = stream[i]
    BY StreamOnlyGrows DEF Event
  <1>2. UNCHANGED <<drawn, shows, current, generation, hides, button, cancelID, passed, running>>
    BY DEF Event, panelVars
  <1>3. \A i \in 1 .. drawn : stream'[i] = stream[i]
    BY <1>1 DEF PanelInv, PanelTyped
  <1>4. PanelTyped'
    BY <1>1, <1>2 DEF PanelInv, PanelTyped
  <1>5. PromptInv'
    BY <1>2, <1>3 DEF PanelInv, PromptInv
  <1>6. UpInv'
    BY <1>2, <1>3 DEF PanelInv, UpInv
  <1>7. HidesInv' /\ ButtonInv' /\ PassedInv'
    BY <1>2, <1>3 DEF PanelInv, HidesInv, ButtonInv, PassedInv
  <1> QED
    BY <1>4, <1>5, <1>6, <1>7 DEF PanelInv

\* The main thread takes one event off its queue.
LEMMA DrawsNext ==
  ASSUME StreamInv, PanelInv, MainQueue
  PROVE  /\ drawn \in Nat /\ drawn' = drawn + 1 /\ drawn' \in 1 .. Len(stream)
         /\ stream' = stream /\ phase' = phase /\ holder' = holder
         /\ passed' = passed /\ running' = running
         /\ stream[drawn'].request \in Requests /\ stream[drawn'].type \in Types
         /\ Draw(stream[drawn'])
         /\ \A i : i \in 1 .. drawn' <=> i \in 1 .. drawn \/ i = drawn'
  <1>1. Len(stream) \in Nat /\ drawn \in 0 .. Len(stream)
    BY DEF StreamInv, StreamTyped, PanelInv, PanelTyped
  <1>2. /\ drawn' = drawn + 1 /\ drawn < Len(stream) /\ Draw(stream[drawn'])
        /\ stream' = stream /\ phase' = phase /\ holder' = holder
        /\ passed' = passed /\ running' = running
    BY DEF MainQueue, streamVars
  <1>3. stream[drawn'] \in Events
    BY <1>1, <1>2 DEF StreamInv, StreamTyped
  <1> QED
    BY <1>1, <1>2, <1>3 DEF Events

\* An event of another request, or one that is not shown.
LEMMA OthersKeep ==
  ASSUME StreamInv, PanelInv, MainQueue, stream[drawn'].type # "waiting",
         ~Ends(stream[drawn'], current),
         UNCHANGED <<shows, current, generation, hides, button, cancelID>>
  PROVE  PanelInv'
  <1>1. /\ drawn \in Nat /\ drawn' = drawn + 1 /\ drawn' \in 1 .. Len(stream)
        /\ stream' = stream /\ passed' = passed /\ running' = running
        /\ \A i : i \in 1 .. drawn' <=> i \in 1 .. drawn \/ i = drawn'
    BY DrawsNext
  <1>2. PanelTyped'
    BY <1>1 DEF PanelInv, PanelTyped
  <1>3. PromptInv'
    BY <1>1 DEF PanelInv, PromptInv
  <1>4. UpInv'
    BY <1>1 DEF PanelInv, UpInv, Asks
  <1>5. HidesInv' /\ ButtonInv' /\ PassedInv'
    BY <1>1 DEF PanelInv, HidesInv, ButtonInv, PassedInv
  <1> QED
    BY <1>2, <1>3, <1>4, <1>5 DEF PanelInv

\* The outcome of the request on display takes its prompt down.
LEMMA OutcomeKeeps ==
  ASSUME StreamInv, PanelInv, MainQueue, Ends(stream[drawn'], current),
         shows' \in {"nothing", "success", "failure"}, current' \in {current, NoOne},
         button' = "hidden", cancelID' = NoOne,
         generation' \in {generation, generation + 1}, hides' \in {hides, hides \cup {generation'}},
         hides' = hides \/ generation' = generation + 1
  PROVE  PanelInv'
  <1>1. /\ drawn \in Nat /\ drawn' = drawn + 1 /\ drawn' \in 1 .. Len(stream)
        /\ stream' = stream /\ passed' = passed /\ running' = running
        /\ \A i : i \in 1 .. drawn' <=> i \in 1 .. drawn \/ i = drawn'
    BY DrawsNext
  <1>2. PanelTyped'
    <2>1. generation' \in Nat /\ hides' \subseteq 1 .. generation'
      BY DEF PanelInv, PanelTyped
    <2> QED
      BY <1>1, <2>1 DEF PanelInv, PanelTyped
  <1>3. PromptInv' /\ HidesInv' /\ ButtonInv'
    BY DEF PromptInv, HidesInv, ButtonInv
  <1>4. UpInv'
    <2> SUFFICES ASSUME running', NEW s \in Requests, NEW i \in 1 .. drawn', Asks(stream[i], s),
                        \A j \in 1 .. drawn' :
                          (stream[j].type = "waiting" => j =< i) /\ ~Ends(stream[j], s)
                 PROVE  FALSE
      BY <1>1 DEF UpInv
    <2>1. i \in 1 .. drawn
      BY <1>1 DEF Asks, Ends, Verdicts
    <2>2. current = s
      BY <1>1, <2>1 DEF PanelInv, UpInv
    <2> QED
      BY <1>1, <2>2
  <1>5. PassedInv'
    BY <1>1 DEF PanelInv, PassedInv
  <1> QED
    BY <1>2, <1>3, <1>4, <1>5 DEF PanelInv

LEMMA WaitingKeeps ==
  ASSUME StreamInv, PanelInv, MainQueue, stream[drawn'].type = "waiting"
  PROVE  PanelInv'
  <1> DEFINE r == stream[drawn'].request
  <1>1. /\ drawn \in Nat /\ drawn' = drawn + 1 /\ drawn' \in 1 .. Len(stream)
        /\ stream' = stream /\ passed' = passed /\ running' = running
        /\ r \in Requests /\ Draw(stream[drawn'])
        /\ \A i : i \in 1 .. drawn' <=> i \in 1 .. drawn \/ i = drawn'
    BY DrawsNext
  <1>2. /\ current' = r /\ cancelID' = NoOne /\ shows' = "waiting" /\ generation' = generation + 1
        /\ button' = "enabled" /\ hides' = hides
    BY <1>1 DEF Draw, ShowWaiting, Show
  <1>3. Asks(stream[drawn'], r)
    BY DEF Asks
  <1> HIDE DEF r
  <1>4. PanelTyped'
    <2>1. generation' \in Nat /\ hides' \subseteq 1 .. generation'
      BY <1>2 DEF PanelInv, PanelTyped
    <2> QED
      BY <1>1, <1>2, <2>1 DEF PanelInv, PanelTyped
  <1>5. PromptInv'
    <2>1. \A i \in 1 .. drawn' : ~Ends(stream[i], r)
      BY <1>1, <1>3 DEF StreamInv, AskedInv
    <2> QED
      BY <1>1, <1>2, <1>3, <2>1 DEF PromptInv
  <1>6. UpInv'
    <2> SUFFICES ASSUME running', NEW s \in Requests, NEW i \in 1 .. drawn', Asks(stream[i], s),
                        \A j \in 1 .. drawn' : stream[j].type = "waiting" => j =< i
                 PROVE  shows' = "waiting" /\ current' = s /\ button' \in {"enabled", "clicked"}
      BY <1>1 DEF UpInv
    <2>1. i = drawn'
      BY <1>1
    <2> QED
      BY <1>2, <2>1 DEF Asks, r
  <1>7. HidesInv' /\ ButtonInv'
    BY <1>2 DEF HidesInv, ButtonInv, PanelInv, PanelTyped
  <1>8. PassedInv'
    BY <1>1 DEF PanelInv, PassedInv
  <1> QED
    BY <1>4, <1>5, <1>6, <1>7, <1>8 DEF PanelInv

\* What App.Handle makes of each event.
LEMMA Drawings ==
  ASSUME NEW e, e.type \in Types, Draw(e), e.type # "waiting"
  PROVE  \/ /\ UNCHANGED <<shows, current, generation, hides, button, cancelID>>
            /\ ~Ends(e, current)
         \/ /\ Ends(e, current)
            /\ shows' \in {"nothing", "success", "failure"} /\ current' \in {current, NoOne}
            /\ button' = "hidden" /\ cancelID' = NoOne
            /\ generation' \in {generation, generation + 1}
            /\ hides' \in {hides, hides \cup {generation'}}
            /\ hides' = hides \/ generation' = generation + 1
  <1>1. CASE e.type = "success"
    BY <1>1 DEF Draw, ShowOutcome, Show, Ends, Verdicts
  <1>2. CASE e.type \in {"failure", "timeout"}
    BY <1>2 DEF Draw, ShowOutcome, Show, Ends, Verdicts
  <1>3. CASE e.type = "canceled"
    BY <1>3 DEF Draw, Hide, Ends, Verdicts
  <1>4. CASE e.type = "initializing"
    BY <1>4 DEF Draw, Ends, Verdicts
  <1> QED
    BY <1>1, <1>2, <1>3, <1>4 DEF Types, Verdicts

LEMMA QueueKeeps ==
  ASSUME StreamInv, PanelInv, MainQueue
  PROVE  PanelInv'
  <1>1. Draw(stream[drawn']) /\ stream[drawn'].type \in Types
    BY DrawsNext
  <1>2. CASE stream[drawn'].type = "waiting"
    BY <1>2, WaitingKeeps
  <1>3. CASE stream[drawn'].type # "waiting"
    BY <1>1, <1>3, Drawings, OthersKeep, OutcomeKeeps
  <1> QED
    BY <1>2, <1>3

LEMMA HideAfterKeeps ==
  ASSUME StreamInv, PanelInv, NEW g \in hides, HideAfter(g)
  PROVE  PanelInv'
  <1>1. /\ running /\ running' = running /\ hides' = hides \ {g}
        /\ UNCHANGED <<stream, drawn, generation, button, cancelID, passed>>
        /\ \/ g = generation /\ current' = NoOne /\ shows' = "nothing"
           \/ g # generation /\ UNCHANGED <<current, shows>>
    BY DEF HideAfter, streamVars
  <1>2. CASE g = generation
    <2>1. shows # "waiting" /\ button # "enabled" /\ cancelID = NoOne
      BY <1>2 DEF PanelInv, HidesInv, ButtonInv
    <2> QED
      BY <1>1, <1>2, <2>1
      DEF PanelInv, PanelTyped, PromptInv, UpInv, HidesInv, ButtonInv, PassedInv
  <1>3. CASE g # generation
    BY <1>1, <1>3
    DEF PanelInv, PanelTyped, PromptInv, UpInv, HidesInv, ButtonInv, PassedInv
  <1> QED
    BY <1>2, <1>3

LEMMA PanelKeeps ==
  ASSUME StreamInv, PanelInv, Panel
  PROVE  PanelInv'
  <1> USE DEF PanelInv, PanelTyped, PromptInv, UpInv, HidesInv, ButtonInv, PassedInv, streamVars
  <1>1. CASE Click
    BY <1>1 DEF Click
  <1>2. CASE Poll
    BY <1>2 DEF Poll
  <1>3. CASE StopApplication
    BY <1>3 DEF StopApplication
  <1> QED
    BY <1>1, <1>2, <1>3, QueueKeeps, HideAfterKeeps DEF Panel

LEMMA FullInvInit == Init => FullInv
  BY StreamInit, PanelInit DEF FullInv, Init

LEMMA FullInvNext == FullInv /\ [Next]_vars => FullInv'
  <1> SUFFICES ASSUME FullInv, [Next]_vars PROVE FullInv'
    OBVIOUS
  <1>1. CASE Panel
    <2>1. UNCHANGED streamVars
      BY <1>1 DEF Panel, MainQueue, HideAfter, Click, Poll, StopApplication
    <2>2. StreamInv'
      BY <2>1 DEF FullInv, streamVars, StreamInv, StreamTyped, OverInv, AskedInv, HolderInv
    <2> QED
      BY <1>1, <2>2, PanelKeeps DEF FullInv
  <1>2. CASE \E r \in Requests : Event(r)
    BY <1>2, StreamNext, EventKeepsPanel DEF FullInv, Event
  <1>3. CASE UNCHANGED vars
    BY <1>3 DEF vars, streamVars, panelVars, FullInv, StreamInv, StreamTyped, OverInv, AskedInv,
                HolderInv, PanelInv, PanelTyped, PromptInv, UpInv, HidesInv, ButtonInv, PassedInv
  <1> QED
    BY <1>1, <1>2, <1>3 DEF Next

-----------------------------------------------------------------------------
(* The theorems.                                                            *)

\* The panel's variables keep to their values, the stream to the events there are.
THEOREM PanelTyping == Spec => []PanelTypeOK
  <1>1. FullInv => PanelTypeOK
    BY DEF FullInv, PanelInv, PanelTyped, PanelTypeOK
  <1> QED
    BY <1>1, FullInvInit, FullInvNext, PTL DEF Spec

\* The panel asks for a touch only for a request that is not over, or whose
\* outcome is still in the main queue (YTShowWaiting, YTHide, YTShowFailure).
THEOREM PromptTruthful == Spec => []PromptIsTruthful
  <1>1. FullInv => PromptIsTruthful
    <2> SUFFICES ASSUME FullInv, shows = "waiting", phase[current] = "over"
                 PROVE  \E e \in Undrawn : e.request = current /\ e.type \in Verdicts
      BY DEF PromptIsTruthful
    <2>1. current \in Requests /\ \A i \in 1 .. drawn : ~Ends(stream[i], current)
      BY DEF FullInv, PanelInv, PromptInv
    <2>2. PICK i \in 1 .. Len(stream) : Ends(stream[i], current)
      BY <2>1 DEF FullInv, StreamInv, OverInv
    <2>3. i \in drawn + 1 .. Len(stream)
      BY <2>1, <2>2 DEF FullInv, PanelInv, PanelTyped, StreamInv, StreamTyped
    <2>4. stream[i] \in Undrawn
      BY <2>3 DEF Undrawn
    <2> QED
      BY <2>2, <2>4 DEF Ends
  <1> QED
    BY <1>1, FullInvInit, FullInvNext, PTL DEF Spec

\* Once the main thread has caught up, the request that waits on the device
\* has the panel and its cancel button: no outcome and no delayed hide of an
\* earlier request has taken it down (YTGeneration, YTCurrentRequestID).
THEOREM PromptShown == Spec => []PromptIsShown
  <1>1. FullInv => PromptIsShown
    <2> SUFFICES ASSUME FullInv, NEW r \in Requests, running, Undrawn = {}, holder = r,
                        phase[r] = "waiting"
                 PROVE  shows = "waiting" /\ current = r /\ button \in {"enabled", "clicked"}
      BY DEF PromptIsShown
    <2>1. Len(stream) \in Nat /\ drawn \in 0 .. Len(stream)
      BY DEF FullInv, StreamInv, StreamTyped, PanelInv, PanelTyped
    <2>2. drawn = Len(stream)
      <3> SUFFICES ASSUME drawn < Len(stream) PROVE FALSE
        BY <2>1
      <3>1. stream[drawn + 1] \in Undrawn
        BY <2>1 DEF Undrawn
      <3> QED
        BY <3>1
    <2>3. PICK i \in 1 .. Len(stream) :
            Asks(stream[i], r) /\ \A j \in 1 .. Len(stream) : stream[j].type = "waiting" => j =< i
      BY DEF FullInv, StreamInv, HolderInv
    <2>4. \A j \in 1 .. Len(stream) : ~Ends(stream[j], r)
      BY DEF FullInv, StreamInv, OverInv
    <2> QED
      BY <2>2, <2>3, <2>4 DEF FullInv, PanelInv, UpInv
  <1> QED
    BY <1>1, FullInvInit, FullInvNext, PTL DEF Spec

\* A click that waits for the poller names the request on display, and only a
\* request whose prompt was drawn is ever passed to Coordinator.Cancel.
THEOREM ClickNamesShown == Spec => []ClickNamesWhatIsShown
  <1>1. FullInv => ClickNamesWhatIsShown
    <2> SUFFICES ASSUME FullInv
                 PROVE  \A r \in passed :
                          \E i \in 1 .. drawn : stream[i] = [request |-> r, type |-> "waiting"]
      BY DEF ClickNamesWhatIsShown, FullInv, PanelInv, ButtonInv
    <2>1. ASSUME NEW r \in passed
          PROVE  \E i \in 1 .. drawn : stream[i] = [request |-> r, type |-> "waiting"]
      <3>1. PICK i \in 1 .. drawn : Asks(stream[i], r)
        BY DEF FullInv, PanelInv, PassedInv
      <3>2. i \in 1 .. Len(stream)
        BY DEF FullInv, StreamInv, StreamTyped, PanelInv, PanelTyped
      <3>3. stream[i] \in Events
        BY <3>2 DEF FullInv, StreamInv, StreamTyped
      <3> QED
        BY <3>1, <3>3 DEF Events, Asks
    <2> QED
      BY <2>1
  <1> QED
    BY <1>1, FullInvInit, FullInvNext, PTL DEF Spec

\* A click is only dropped when its request has left the device or is over, or
\* the application stops: the prompt that clears YTCancelRequestID is that of a
\* later request, never the same one again.
THEOREM NoClickLost == Spec => NoClickIsLost
  <1> DEFINE Lost(r) == /\ cancelID = r /\ cancelID' # r /\ running'
                        /\ ~(r \in passed' \/ holder # r \/ phase[r] = "over")
  <1>1. ASSUME FullInv, [Next]_vars, NEW r \in Requests, Lost(r) PROVE FALSE
    <2>1. shows = "waiting" /\ current = r
      BY <1>1, EventsAssumption DEF FullInv, PanelInv, ButtonInv
    <2>2. phase[r] = "waiting"
      <3>1. PICK i \in 1 .. drawn : Asks(stream[i], r)
        BY <1>1, <2>1 DEF FullInv, PanelInv, PromptInv
      <3>2. i \in 1 .. Len(stream)
        BY <1>1 DEF FullInv, StreamInv, StreamTyped, PanelInv, PanelTyped
      <3> QED
        BY <1>1, <3>1, <3>2 DEF FullInv, StreamInv, AskedInv
    <2>3. PICK i \in 1 .. Len(stream) :
            Asks(stream[i], r) /\ \A j \in 1 .. Len(stream) : stream[j].type = "waiting" => j =< i
      BY <1>1, <2>2 DEF FullInv, StreamInv, HolderInv
    <2>4. PICK k \in 1 .. drawn : Asks(stream[k], r)
      BY <1>1, <2>1 DEF FullInv, PanelInv, PromptInv
    <2>5. k = i
      BY <1>1, <2>3, <2>4 DEF FullInv, StreamInv, StreamTyped, AskedInv, PanelInv, PanelTyped
    <2>6. CASE MainQueue
      <3>1. /\ drawn \in Nat /\ drawn' = drawn + 1 /\ drawn' \in 1 .. Len(stream)
            /\ Draw(stream[drawn']) /\ stream[drawn'].type \in Types
        BY <1>1, <2>6, DrawsNext DEF FullInv
      <3>2. stream[drawn'].type # "waiting"
        BY <2>3, <2>5, <3>1
      <3>3. Ends(stream[drawn'], r)
        BY <1>1, <2>1, <3>1, <3>2, Drawings
      <3> QED
        BY <1>1, <3>1, <3>3 DEF FullInv, StreamInv, OverInv
    <2>7. CASE \E g \in hides : HideAfter(g)
      BY <1>1, <2>7 DEF HideAfter
    <2>8. CASE Click
      BY <1>1, <2>1, <2>8 DEF Click
    <2>9. CASE Poll
      BY <1>1, <2>9 DEF Poll
    <2>10. CASE StopApplication
      BY <1>1, <2>10 DEF StopApplication
    <2>11. CASE (\E s \in Requests : Event(s)) \/ UNCHANGED vars
      BY <1>1, <2>11 DEF Event, vars, panelVars
    <2> QED
      BY <1>1, <2>6, <2>7, <2>8, <2>9, <2>10, <2>11 DEF Next, Panel
  <1>2. FullInv /\ [Next]_vars =>
          [\A r \in Requests :
             cancelID = r /\ cancelID' # r /\ running' =>
               r \in passed' \/ holder # r \/ phase[r] = "over"]_vars
    BY <1>1
  <1> QED
    BY <1>2, FullInvInit, FullInvNext, PTL DEF Spec, NoClickIsLost
=============================================================================
