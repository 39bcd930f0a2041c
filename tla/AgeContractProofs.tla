-------------------------- MODULE AgeContractProofs --------------------------
(***************************************************************************)
(* The helper processes keep the contract, for any requests, writers and    *)
(* targets.  The heart of it is what may be in the pipes: a daemon and its  *)
(* helper that see one frame at a time agree on where they are.            *)
(***************************************************************************)
EXTENDS AgeHelpersProofs, SequenceTheorems

\* What a helper does before it is ready for a touch.
Preparing == {"lock", "load", "loading", "check", "open", "pin", "login", "validate"}

\* A helper that serves one request has no lock to take and nothing to retain.
PreparingAlone == Preparing \ {"lock", "validate"}

Current == asked[Len(asked)]

\* The states of a conversation between HardwareManager and a live session.
Silent     == down = <<>> /\ up = <<>>
Quiet      == helper.pc = "idle" /\ exchange = "none" /\ Silent
Requested  == helper.pc = "idle" /\ exchange = "first" /\ down = <<Frame("request", Current)>> /\ up = <<>>
Underway   == helper.pc \in Preparing /\ exchange = "first" /\ Silent
Announced  == helper.pc = "touch" /\ down = <<>> /\
                \/ exchange = "first" /\ up = <<Frame("ready", Current)>>
                \/ exchange = "second" /\ up = <<>>
Prompting  == helper.pc = "await" /\ down = <<>> /\
                \/ exchange = "first" /\ up = <<Frame("ready", Current), Frame("touch", Current)>>
                \/ exchange = "second" /\ up = <<Frame("touch", Current)>>
                \/ exchange = "armed" /\ up = <<>>
Continued  == helper.pc = "await" /\ exchange = "result" /\ down = <<Frame("continue", Current)>> /\ up = <<>>
Deriving   == helper.pc \in {"relock", "derive"} /\ exchange = "result" /\ Silent
Answered   == helper.pc = "idle" /\ exchange = "result" /\ down = <<>> /\ up = <<Frame("key", Current)>>

SessionTalk ==
  Session =>
    /\ life \in {"live", "dead", "reaped"} /\ asked \in Seq(Requests)
    /\ \A r \in helper.keys : \E i \in 1..Len(asked) : asked[i] = r
    /\ life = "live" =>
         /\ \/ Quiet \/ Requested \/ Underway \/ Announced \/ Prompting \/ Continued \/ Deriving \/ Answered
         /\ exchange # "none" => asked # <<>>
         /\ helper.pc # "idle" => helper.req = Current

\* The conversation of a one-shot hardware helper, whose continue frame comes from
\* the caller and not from the exchange.
OneShotTalk ==
  mode = "hardware" =>
    /\ life \in {"none", "live", "dead", "reaped"}
    /\ life = "none" => exchange = "none" /\ ready # "ok"
    /\ life \in {"none", "live"} =>
         /\ helper.keys = {}
         /\ life = "none" \/ exchange = "write" => helper.pc = "idle" /\ Silent
         /\ helper.pc \in PreparingAlone \cup {"idle", "touch", "await", "derive"}
         /\ helper.pc = "idle" => down = <<>> \/ \E r \in Requests : down = <<Frame("request", r)>>
         /\ helper.pc = "await" => down = <<>> \/ down = <<Frame("continue", asked[1])>>
         /\ helper.pc \notin {"idle", "await"} => down = <<>>
         /\ up # <<>> \/ ready = "ok" => helper.pc \in {"await", "derive"}
         /\ caller \in {"ready", "waiting"} => ready = "ok"
         /\ helper.pc = "derive" \/ (helper.pc = "await" /\ down # <<>>) => caller \notin {"started", "ready"}

Talk == SessionTalk /\ OneShotTalk

Given == IF TouchesTheCard THEN helper.keys ELSE {}
Kept  == [Contract!Next]_(Contract!contractVars)

-----------------------------------------------------------------------------
(* Steps that the contract does not see, and those that end a helper.      *)

LEMMA UnseenKeeps ==
  ASSUME UNCHANGED <<Phase, Serving, Given>>
  PROVE  Kept
  BY DEF Kept, Contract!contractVars, Given

LEMMA IdlingKeeps ==
  ASSUME Talk, UNCHANGED <<mode, life, helper, down, up, exchange, asked, caller, ready>>
  PROVE  Talk' /\ Kept
  <1>1. Talk'
    BY DEF Talk, SessionTalk, OneShotTalk, Session, Current, Silent, Quiet, Requested, Underway, Announced,
           Prompting, Continued, Deriving, Answered, Frame
  <1>2. UNCHANGED <<Phase, Serving, Given>>
    BY DEF Phase, Serving, Given, TouchesTheCard
  <1> QED
    BY <1>1, <1>2, UnseenKeeps

\* The end of a helper, which is for good.
LEMMA EndingKeeps ==
  ASSUME Talk, life # "none", life' \in {"dead", "reaped"}, helper'.keys = helper.keys, UNCHANGED <<mode, asked>>
  PROVE  Talk' /\ Kept
  <1>1. Talk'
    BY DEF Talk, SessionTalk, OneShotTalk, Session
  <1>2. Phase' = "gone" /\ Serving' = NoOne /\ Given' = Given
    BY DEF Phase, Serving, Given, TouchesTheCard
  <1>3. CASE Phase = "gone"
    <2>1. Serving = NoOne
      BY <1>3 DEF Serving
    <2> QED
      BY <1>1, <1>2, <1>3, <2>1, UnseenKeeps
  <1>4. CASE Phase # "gone"
    BY <1>1, <1>2, <1>4 DEF Kept, Contract!Next, Contract!End, Given
  <1> QED
    BY <1>3, <1>4

\* A probe and a recovery do nothing the contract speaks of.
LEMMA OffTheCardKeeps ==
  ASSUME ~TouchesTheCard, mode' = mode, life \in {"dead", "reaped"} => life' \in {"dead", "reaped"}
  PROVE  Talk' /\ Kept
  <1>1. Talk'
    BY DEF Talk, SessionTalk, OneShotTalk, Session, TouchesTheCard
  <1>2. Given = {} /\ Given' = {}
    BY DEF Given, TouchesTheCard
  <1>3. /\ Phase = IF life \in {"dead", "reaped"} THEN "gone" ELSE "idle"
        /\ Phase' = IF life' \in {"dead", "reaped"} THEN "gone" ELSE "idle"
    BY DEF Phase, TouchesTheCard
  <1>4. Serving = NoOne /\ Serving' = NoOne
    BY <1>3 DEF Serving
  <1>5. CASE Phase' = Phase
    BY <1>1, <1>2, <1>4, <1>5, UnseenKeeps
  <1>6. CASE Phase = "idle" /\ Phase' = "gone"
    BY <1>1, <1>2, <1>4, <1>6 DEF Kept, Contract!Next, Contract!End, Given
  <1> QED
    BY <1>3, <1>5, <1>6

-----------------------------------------------------------------------------
(* The helper's own steps.                                                 *)

\* Pipes hold two frames at most.
LEMMA Pipes ==
  ASSUME NEW a, NEW b
  PROVE  /\ Append(<<>>, b) = <<b>> /\ Append(<<a>>, b) = <<a, b>>
         /\ Tail(<<a>>) = <<>> /\ Tail(<<a, b>>) = <<b>>
         /\ Head(<<a>>) = a /\ Head(<<a, b>>) = a
         /\ <<a>> # <<>> /\ <<a, b>> # <<>>
  <1>1. Append(<<>>, b) = <<b>>
    OBVIOUS
  <1>2. Append(<<a>>, b) = <<a, b>>
    <2>1. <<a>> \in Seq({a, b}) /\ <<a, b>> \in Seq({a, b})
      OBVIOUS
    <2>2. /\ Append(<<a>>, b) \in Seq({a, b}) /\ Len(Append(<<a>>, b)) = 2
          /\ Append(<<a>>, b)[1] = a /\ Append(<<a>>, b)[2] = b
      BY <2>1, AppendProperties
    <2>3. Len(<<a, b>>) = 2 /\ <<a, b>>[1] = a /\ <<a, b>>[2] = b
      OBVIOUS
    <2>4. \A i \in 1..2 : Append(<<a>>, b)[i] = <<a, b>>[i]
      <3>1. \A i \in 1..2 : i = 1 \/ i = 2
        OBVIOUS
      <3> QED
        BY <2>2, <2>3, <3>1, Zenon
    <2> QED
      BY <2>1, <2>2, <2>3, <2>4, SeqEqual, Zenon
  <1>3. Tail(<<a>>) = <<>>
    OBVIOUS
  <1>4. Tail(<<a, b>>) = <<b>>
    OBVIOUS
  <1>5. Head(<<a>>) = a /\ Head(<<a, b>>) = a
    OBVIOUS
  <1>6. <<a>> # <<>> /\ <<a, b>> # <<>>
    OBVIOUS
  <1> QED
    BY <1>1, <1>2, <1>3, <1>4, <1>5, <1>6

LEMMA FramesDiffer ==
  ASSUME NEW k1, NEW k2, NEW r1, NEW r2, Frame(k1, r1) = Frame(k2, r2)
  PROVE  k1 = k2 /\ r1 = r2
  BY DEF Frame

\* What a conversation has come to, as far as the helper's place in it shows.
LEMMA WhereTheHelperIs ==
  ASSUME Talk, life = "live", TouchesTheCard
  PROVE  /\ helper.pc \in Preparing => down = <<>> /\ (Session => Underway)
         /\ helper.pc = "touch" => down = <<>> /\ (Session => Announced)
         /\ helper.pc = "await" /\ Session => Prompting \/ Continued
         /\ helper.pc \in {"relock", "derive"} => down = <<>> /\ (Session => Deriving)
         /\ helper.pc \notin {"recover", "probe", "gone"}
         /\ helper.pc = "idle" /\ down # <<>> /\ Session => Requested
         /\ Session => helper.pc = "idle" \/ helper.req = Current
         /\ ~Session => mode = "hardware" /\ helper.pc \notin {"lock", "validate", "relock"}
  BY DEF Talk, SessionTalk, OneShotTalk, TouchesTheCard, Session, Preparing, PreparingAlone, Silent, Quiet,
         Requested, Underway, Announced, Prompting, Continued, Deriving, Answered

LEMMA PreparingKeeps ==
  ASSUME Talk, TouchesTheCard, life = "live", helper.pc \in Preparing,
         IF Session THEN helper'.pc \in Preparing ELSE helper'.pc \in PreparingAlone \cup {"touch"},
         helper'.req = helper.req, helper'.keys = helper.keys,
         UNCHANGED <<mode, life, down, up, exchange, asked, caller, ready>>
  PROVE  Talk' /\ Kept
  <1>1. down = <<>> /\ (Session => Underway)
    BY WhereTheHelperIs
  <1>2. SessionTalk'
    BY <1>1 DEF Talk, SessionTalk, Session, Underway, Preparing, Silent, Current
  <1>3. OneShotTalk'
    BY <1>1 DEF Talk, OneShotTalk, Session, Preparing, PreparingAlone, Silent
  <1>4. UNCHANGED <<Phase, Serving, Given>>
    BY <1>1 DEF Phase, Serving, Given, TouchesTheCard, Preparing, PreparingAlone
  <1> QED
    BY <1>2, <1>3, <1>4, UnseenKeeps DEF Talk

CallAlone == UNCHANGED <<exchange, asked, runnerVars>>

HelperFields == {"pc", "req", "seen", "conf", "bound", "session", "logins", "pinOf", "keys"}

LEMMA ReadRequestKeeps ==
  ASSUME DOMAIN helper = HelperFields, Talk, TouchesTheCard, CallAlone, ReadRequest, life' = "live"
  PROVE  Talk' /\ Kept
  <1>1. /\ life = "live" /\ helper.pc = "idle" /\ down # <<>>
        /\ helper' = [helper EXCEPT !.pc = IF Session THEN "lock" ELSE "load",
                                    !.req = Head(down).req, !.seen = @ \cup {Head(down).req}]
        /\ down' = Tail(down)
        /\ UNCHANGED <<mode, up, life>>
    BY DEF ReadRequest, Live, GivesUp, Exit, Refuse, RefuseOf, Dies, World
  <1>2. /\ IF Session THEN helper'.pc \in Preparing ELSE helper'.pc \in PreparingAlone
        /\ helper'.req = Head(down).req /\ helper'.keys = helper.keys
    BY <1>1 DEF Preparing, PreparingAlone, HelperFields
  <1>3. Session => Requested
    BY <1>1, WhereTheHelperIs
  <1>4. Session => down' = <<>> /\ helper'.req = Current
    BY <1>1, <1>2, <1>3, Pipes DEF Requested, Frame
  <1>5. ~Session => down' = <<>>
    <2> SUFFICES ASSUME ~Session PROVE down' = <<>>
      OBVIOUS
    <2>1. PICK r \in Requests : down = <<Frame("request", r)>>
      BY <1>1 DEF Talk, OneShotTalk, TouchesTheCard, Session
    <2> QED
      BY <1>1, <2>1
  <1>6. SessionTalk'
    BY <1>1, <1>2, <1>3, <1>4
    DEF Talk, SessionTalk, Session, Requested, Underway, Preparing, Silent, Current, CallAlone
  <1>7. OneShotTalk'
    BY <1>1, <1>2, <1>5 DEF Talk, OneShotTalk, Session, Preparing, PreparingAlone, Silent, CallAlone, runnerVars
  <1>8. UNCHANGED <<Phase, Serving, Given>>
    BY <1>1, <1>2, <1>4, <1>5 DEF Phase, Serving, Given, TouchesTheCard, Preparing, PreparingAlone
  <1> QED
    BY <1>6, <1>7, <1>8, UnseenKeeps DEF Talk

\* The session's first frame changes nothing but the conversation.
LEMMA ValidateKeeps ==
  ASSUME DOMAIN helper = HelperFields, Talk, TouchesTheCard, CallAlone, Validate, life' = "live"
  PROVE  Talk' /\ Kept
  <1>1. /\ life = "live" /\ helper.pc = "validate" /\ helper' = [helper EXCEPT !.pc = "touch"]
        /\ up' = Append(up, Frame("ready", helper.req))
        /\ UNCHANGED <<mode, down, life>>
    BY DEF Validate, Validated, Live, Refuse, RefuseOf, Dies, World
  <1>2. helper'.pc = "touch" /\ helper'.req = helper.req /\ helper'.keys = helper.keys
    BY <1>1 DEF HelperFields
  <1>3. down = <<>> /\ Session /\ Underway /\ helper.req = Current
    BY <1>1, WhereTheHelperIs DEF Preparing
  <1>4. up' = <<Frame("ready", Current)>>
    BY <1>1, <1>3, Pipes DEF Underway, Silent
  <1>5. Announced' /\ Current' = Current
    BY <1>1, <1>2, <1>3, <1>4 DEF Announced, Underway, Current, CallAlone, Frame
  <1>6. Talk'
    BY <1>1, <1>2, <1>3, <1>5 DEF Talk, SessionTalk, OneShotTalk, Session, CallAlone, Underway
  <1>7. UNCHANGED <<Phase, Serving, Given>>
    BY <1>1, <1>2, <1>3 DEF Phase, Serving, Given, TouchesTheCard
  <1> QED
    BY <1>6, <1>7, UnseenKeeps

\* The user may be prompted: the contract's Ready.
LEMMA ReadyKeeps ==
  ASSUME DOMAIN helper = HelperFields, Talk, TouchesTheCard, CallAlone, ReadyForTouch, life' = "live"
  PROVE  Talk' /\ Kept
  <1>1. /\ life = "live" /\ helper.pc = "touch" /\ helper' = [helper EXCEPT !.pc = "await"]
        /\ up' = Append(up, Frame("touch", helper.req))
        /\ UNCHANGED <<mode, down, life>>
    BY DEF ReadyForTouch, Prompt, Live, Refuse, RefuseOf, Dies, World
  <1>2. helper'.pc = "await" /\ helper'.req = helper.req /\ helper'.keys = helper.keys
    BY <1>1 DEF HelperFields
  <1>3. down = <<>> /\ (Session => Announced /\ helper.req = Current) /\ Current' = Current
    BY <1>1, WhereTheHelperIs DEF CallAlone, Current
  <1>4. Session => Prompting'
    <2> SUFFICES ASSUME Session PROVE Prompting'
      OBVIOUS
    <2>1. CASE exchange = "first" /\ up = <<Frame("ready", Current)>>
      <3>1. up' = Append(<<Frame("ready", Current)>>, Frame("touch", Current))
        BY <1>1, <1>3, <2>1
      <3>2. up' = <<Frame("ready", Current), Frame("touch", Current)>>
        BY <3>1, Pipes, Zenon
      <3> QED
        BY <1>1, <1>2, <1>3, <2>1, <3>2 DEF Prompting, CallAlone, Frame
    <2>2. CASE exchange = "second" /\ up = <<>>
      <3>1. up' = <<Frame("touch", Current)>>
        BY <1>1, <1>3, <2>2, Pipes
      <3> QED
        BY <1>1, <1>2, <1>3, <2>2, <3>1 DEF Prompting, CallAlone, Frame
    <2> QED
      BY <1>3, <2>1, <2>2 DEF Announced
  <1>5. SessionTalk'
    BY <1>1, <1>2, <1>3, <1>4 DEF Talk, SessionTalk, Session, CallAlone, Announced
  <1>6. OneShotTalk'
    BY <1>1, <1>2, <1>3 DEF Talk, OneShotTalk, Session, CallAlone, runnerVars, Silent, PreparingAlone, Preparing
  <1>7. Contract!Ready
    BY <1>1, <1>2, <1>3 DEF Contract!Ready, Phase, Serving, TouchesTheCard
  <1> QED
    BY <1>5, <1>6, <1>7 DEF Talk, Kept, Contract!Next

\* A helper that goes on has read the continue frame of its own request.
LEMMA AwaitContinueKeeps ==
  ASSUME DOMAIN helper = HelperFields, Talk, TouchesTheCard, CallAlone, AwaitContinue, life' = "live"
  PROVE  Talk' /\ Kept
  <1>1. /\ life = "live" /\ helper.pc = "await" /\ down # <<>> /\ down' = Tail(down)
        /\ helper' = [helper EXCEPT !.pc = IF Session THEN "relock" ELSE "derive"]
        /\ UNCHANGED <<mode, up, life>>
    BY DEF AwaitContinue, Live, GivesUp, Exit, Refuse, RefuseOf, Dies, World
  <1>2. /\ helper'.pc = IF Session THEN "relock" ELSE "derive"
        /\ helper'.req = helper.req /\ helper'.keys = helper.keys
    BY <1>1 DEF HelperFields
  <1>3. Session => Continued /\ helper.req = Current
    BY <1>1, WhereTheHelperIs DEF Prompting
  <1>4. ~Session => down = <<Frame("continue", asked[1])>> /\ mode = "hardware" /\ caller \notin {"started", "ready"}
    BY <1>1, WhereTheHelperIs DEF Talk, OneShotTalk
  <1>5. down' = <<>>
    BY <1>1, <1>3, <1>4, Pipes DEF Continued
  <1>6. SessionTalk'
    BY <1>1, <1>2, <1>3, <1>5 DEF Talk, SessionTalk, Session, Continued, Deriving, Silent, Current, CallAlone
  <1>7. OneShotTalk'
    BY <1>1, <1>2, <1>4, <1>5 DEF Talk, OneShotTalk, Session, Silent, CallAlone, runnerVars
  <1>8. UNCHANGED <<Phase, Serving, Given>>
    BY <1>1, <1>2, <1>5 DEF Phase, Serving, Given, TouchesTheCard, Session
  <1> QED
    BY <1>6, <1>7, <1>8, UnseenKeeps DEF Talk

LEMMA RelockKeeps ==
  ASSUME DOMAIN helper = HelperFields, Talk, TouchesTheCard, CallAlone, Relock, life' = "live"
  PROVE  Talk' /\ Kept
  <1>1. /\ life = "live" /\ helper.pc = "relock" /\ helper' = [helper EXCEPT !.pc = "derive"]
        /\ UNCHANGED <<mode, down, up, life>>
    BY DEF Relock, Relocked, Live, Go, Refuse, RefuseOf, Dies, World
  <1>2. helper'.pc = "derive" /\ helper'.req = helper.req /\ helper'.keys = helper.keys
    BY <1>1 DEF HelperFields
  <1>3. Session /\ Deriving
    BY <1>1, WhereTheHelperIs
  <1>4. Talk'
    BY <1>1, <1>2, <1>3 DEF Talk, SessionTalk, OneShotTalk, Session, Deriving, Silent, Current, CallAlone
  <1>5. UNCHANGED <<Phase, Serving, Given>>
    BY <1>1, <1>2 DEF Phase, Serving, Given, TouchesTheCard, Session
  <1> QED
    BY <1>4, <1>5, UnseenKeeps

\* The key is handed over, and a one-shot helper is gone with it.
LEMMA DeriveKeeps ==
  ASSUME DOMAIN helper = HelperFields, Talk, TouchesTheCard, CallAlone, Derive, pipes = "open"
  PROVE  Talk' /\ Kept
  <1>1. /\ life = "live" /\ helper.pc = "derive" /\ helper' = Derived
        /\ life' = IF Derived.pc = "gone" THEN "dead" ELSE "live"
        /\ up' = Append(up, Frame("key", helper.req))
        /\ UNCHANGED <<mode, down>>
    BY DEF Derive, Answers, Live, World
  <1>2. /\ helper'.pc = IF Session THEN "idle" ELSE "gone"
        /\ life' = IF Session THEN "live" ELSE "dead"
        /\ helper'.req = helper.req /\ helper'.keys = helper.keys \cup {helper.req}
    BY <1>1 DEF Derived, HelperFields
  <1>3. down = <<>> /\ (Session => Deriving /\ helper.req = Current)
    BY <1>1, WhereTheHelperIs
  <1>4. Session => up' = <<Frame("key", Current)>>
    BY <1>1, <1>3, Pipes DEF Deriving, Silent
  <1>5. SessionTalk'
    <2> SUFFICES ASSUME Session PROVE SessionTalk'
      BY <1>1 DEF SessionTalk, Session
    <2>1. Answered' /\ Current' = Current
      BY <1>1, <1>2, <1>3, <1>4 DEF Answered, Deriving, Current, CallAlone, Frame
    <2>2. asked' = asked /\ asked \in Seq(Requests) /\ asked # <<>> /\ exchange' = exchange
      BY <1>1, <1>3 DEF CallAlone, Talk, SessionTalk, Deriving
    <2>3. \A r \in helper'.keys : \E k \in 1..Len(asked) : asked[k] = r
      <3>1. Len(asked) \in 1..Len(asked)
        BY <2>2
      <3> QED
        BY <1>1, <1>2, <1>3, <3>1 DEF Talk, SessionTalk, Current
    <2> QED
      BY <1>1, <1>2, <2>1, <2>2, <2>3 DEF SessionTalk, Session
  <1>6. OneShotTalk'
    BY <1>1, <1>2 DEF OneShotTalk, Session
  <1>7. Phase = "deriving" /\ Serving = helper.req /\ Serving' = NoOne
    BY <1>1, <1>2, <1>3 DEF Phase, Serving, TouchesTheCard, Session
  <1>8. Phase' = (IF Session THEN "idle" ELSE "gone") /\ Given' = Given \cup {Serving}
    BY <1>1, <1>2, <1>3, <1>7 DEF Phase, Given, TouchesTheCard, Session
  <1>9. Contract!Answer
    BY <1>7, <1>8 DEF Contract!Answer, Given
  <1> QED
    BY <1>5, <1>6, <1>9 DEF Talk, Kept, Contract!Next

\* No step of a helper but Derive adds a key.
LEMMA KeysAreDerived ==
  ASSUME DOMAIN helper = HelperFields, HelperNext, life' \in {"dead", "reaped"}, TouchesTheCard, Talk
  PROVE  helper'.keys = helper.keys \/ (Derive /\ pipes = "open")
  <1>1. CASE helper' = helper \/ (\E end : Dies(end))
    BY <1>1 DEF Dies, HelperFields
  <1>2. CASE Recover \/ Probe
    BY <1>2, WhereTheHelperIs DEF Recover, Probe, Live
  <1>3. CASE Derive
    BY <1>1, <1>3 DEF Derive, Refuse, RefuseOf
  <1>4. CASE life' = life
    BY <1>4, <1>1
    DEF HelperNext, HelperStep, ResolverStep, UserStep, ReadRequest, EndOfInput, TakeLock, Load, Loaded,
         Check, Open, StartResolver, TakePIN, Login, Validate, ReadyForTouch, AwaitContinue, Relock, Relocked,
         ResolverLoads, ResolverChecks, ResolverExits, ResolvePIN, Derive, Recover, Probe, UserAnswers, Fails,
         Crashes, ResolverDies, ResolverWatch, ParentWatch, GroupDies, Refuse, RefuseOf, Exit, GivesUp,
         Rest, RestOfHelper, Prompt, Live, Go, Answers
  <1>5. CASE life = "live" /\ ~Recover /\ ~Probe /\ ~Derive /\ (\A end : ~Dies(end))
    BY <1>5
    DEF HelperNext, HelperStep, ResolverStep, UserStep, ReadRequest, EndOfInput, TakeLock, Load, Loaded,
         Check, Open, StartResolver, TakePIN, Login, Validate, ReadyForTouch, AwaitContinue, Relock, Relocked,
         ResolverLoads, ResolverChecks, ResolverExits, ResolvePIN, UserAnswers, Fails,
         Crashes, ResolverDies, ResolverWatch, ParentWatch, GroupDies, Refuse, RefuseOf, Exit, GivesUp,
         Rest, RestOfHelper, Prompt, Live, Go
  <1> QED
    BY <1>1, <1>2, <1>3, <1>4, <1>5, HelperLives

\* The configuration, PKCS#11 and the resolver are not what the contract is about.
LEMMA UnheardStepsKeep ==
  ASSUME DOMAIN helper = HelperFields, Talk, TouchesTheCard, CallAlone, life' = "live",
         TakeLock \/ Load \/ Loaded \/ Check \/ Open \/ ResolvePIN \/ TakePIN \/ Login
  PROVE  Talk' /\ Kept
  <1>1. life = "live" /\ helper.pc \in Preparing /\ UNCHANGED <<mode, life, down, up>>
    BY DEF TakeLock, Load, Loaded, Check, Open, ResolvePIN, TakePIN, Login, Live, Go, Rest, World, Refuse,
           RefuseOf, Dies, Preparing
  <1>2. helper'.req = helper.req /\ helper'.keys = helper.keys
    BY DEF TakeLock, Load, Loaded, Check, Open, ResolvePIN, TakePIN, Login, Go, Refuse, RefuseOf, Dies,
           HelperFields, OpenSession, LoggedIn
  <1>3. Session => helper'.pc \in Preparing
    <2> SUFFICES ASSUME Session PROVE helper'.pc \in Preparing
      OBVIOUS
    <2>1. CASE Check
      <3>1. helper' = [helper EXCEPT !.pc = FirstStep]
        BY <2>1 DEF Check, Go, Refuse, RefuseOf, Dies
      <3>2. FirstStep \in {"open", "validate"}
        BY DEF FirstStep, Session
      <3> QED
        BY <3>1, <3>2 DEF HelperFields, Preparing
    <2>2. CASE TakeLock \/ Load \/ Loaded \/ Open \/ ResolvePIN \/ TakePIN \/ Login
      BY <2>2
      DEF TakeLock, Load, Loaded, Open, ResolvePIN, TakePIN, Login, Go, Refuse, RefuseOf, Dies, HelperFields,
          OpenSession, LoggedIn, After, PathInSession, Preparing
    <2> QED
      BY <2>1, <2>2
  <1>4. ~Session => helper'.pc \in PreparingAlone \cup {"touch"}
    <2> SUFFICES ASSUME mode = "hardware" PROVE helper'.pc \in PreparingAlone \cup {"touch"}
      BY <1>1, WhereTheHelperIs
    <2>1. CASE Check
      <3>1. helper' = [helper EXCEPT !.pc = FirstStep]
        BY <2>1 DEF Check, Go, Refuse, RefuseOf, Dies
      <3>2. FirstStep = "pin"
        BY DEF FirstStep, Session
      <3> QED
        BY <3>1, <3>2 DEF HelperFields, Preparing, PreparingAlone
    <2>2. CASE TakeLock
      BY <2>2, <1>1, WhereTheHelperIs DEF TakeLock, Go, Live, Session
    <2>3. CASE Load \/ Loaded \/ Open \/ ResolvePIN \/ TakePIN \/ Login
      BY <2>3
      DEF Load, Loaded, Open, ResolvePIN, TakePIN, Login, Go, Refuse, RefuseOf, Dies, HelperFields,
          OpenSession, LoggedIn, After, PathAlone, Preparing, PreparingAlone, Session
    <2> QED
      BY <2>1, <2>2, <2>3
  <1> QED
    BY <1>1, <1>2, <1>3, <1>4, PreparingKeeps DEF CallAlone, runnerVars

LEMMA HelperNextKeeps ==
  ASSUME IInv, Talk, HelperSide
  PROVE  Talk' /\ Kept
  <1>1. DOMAIN helper = HelperFields /\ CallAlone /\ HelperNext
    BY DEF IInv, ConfigInv, Shapes, HelperFields, HelperSide, CallAlone
  <1>2. /\ mode' = mode
        /\ life' = life \/ (life = "live" /\ life' \in {"live", "dead"})
    BY <1>1, HelperLives
    DEF HelperNext, HelperStep, ResolverStep, UserStep, ReadRequest, EndOfInput, TakeLock, Load,
        Loaded, Check, Open, StartResolver, TakePIN, Login, Validate, ReadyForTouch, AwaitContinue, Relock,
        Relocked, ResolverLoads, ResolverChecks, ResolverExits, ResolvePIN, Derive, Recover, Probe, UserAnswers,
        Fails, Crashes, ResolverDies, ResolverWatch, ParentWatch, Refuse, RefuseOf, Exit, GivesUp, Rest,
        RestOfHelper, Prompt, Answers, World
  <1>3. CASE ~TouchesTheCard
    BY <1>2, <1>3, OffTheCardKeeps
  <1>4. CASE TouchesTheCard /\ life' \in {"dead", "reaped"}
    <2>1. CASE Derive /\ pipes = "open"
      BY <1>1, <1>4, <2>1, DeriveKeeps
    <2>2. CASE helper'.keys = helper.keys
      BY <1>1, <1>2, <1>4, <2>2, EndingKeeps DEF CallAlone
    <2> QED
      BY <1>1, <1>4, <2>1, <2>2, KeysAreDerived
  <1>5. CASE StartResolver \/ ResolverLoads \/ ResolverChecks \/ ResolverExits \/ UserAnswers
             \/ ResolverDies \/ ResolverWatch
    BY <1>1, <1>5, IdlingKeeps
    DEF StartResolver, ResolverLoads, ResolverChecks, ResolverExits, UserAnswers, ResolverDies, ResolverWatch,
        RestOfHelper, World, CallAlone, runnerVars
  <1>6. CASE TouchesTheCard /\ life' \notin {"dead", "reaped"}
    <2>1. CASE ReadRequest \/ Validate \/ ReadyForTouch \/ AwaitContinue \/ Relock
      <3>1. life' = "live"
        BY <1>2, <1>6, <2>1
        DEF ReadRequest, Validate, ReadyForTouch, AwaitContinue, Relock, Relocked, Go, Live, Dies,
           Refuse, RefuseOf, GivesUp, Exit
      <3> QED
        BY <1>1, <1>6, <2>1, <3>1, ReadRequestKeeps, ValidateKeeps, ReadyKeeps, AwaitContinueKeeps, RelockKeeps
    <2>2. CASE TakeLock \/ Load \/ Loaded \/ Check \/ Open \/ ResolvePIN \/ TakePIN \/ Login
      <3>1. life' = "live"
        BY <1>2, <1>6, <2>2 DEF TakeLock, Load, Loaded, Check, Open, ResolvePIN, TakePIN, Login, Go, Live, Rest
      <3> QED
        BY <1>1, <1>6, <2>2, <3>1, UnheardStepsKeep
    <2>3. CASE Derive
      BY <1>1, <1>6, <2>3, DeriveKeeps DEF Derive, Refuse, RefuseOf, Dies
    <2>4. CASE Recover \/ Probe
      BY <1>6, <2>4, WhereTheHelperIs DEF Recover, Probe, Live
    <2>5. CASE EndOfInput \/ Fails \/ Crashes \/ ParentWatch
      BY <1>6, <2>5
      DEF EndOfInput, Fails, Crashes, ParentWatch, GroupDies, GivesUp, Exit, Refuse, RefuseOf, Dies
    <2> QED
      BY <1>1, <1>5, <2>1, <2>2, <2>3, <2>4, <2>5 DEF HelperNext, HelperStep, ResolverStep, UserStep
  <1> QED
    BY <1>3, <1>4, <1>6

-----------------------------------------------------------------------------
(* The parents.                                                            *)

\* A request that no one has asked before: the contract's Ask.
LEMMA AskKeeps ==
  ASSUME Talk, NEW r \in Requests, Ask(r)
  PROVE  Talk' /\ Kept
  <1>1. /\ Session /\ TouchesTheCard /\ UNCHANGED <<mode, life, helper, up>>
        /\ exchange = "none" /\ exchange' = "first"
        /\ \A i \in 1..Len(asked) : asked[i] # r
        /\ asked' = Append(asked, r) /\ down' = Append(down, Frame("request", r))
    BY DEF Ask, SessionFrame, ConfigFrame, OfHelper, Moves, Session, TouchesTheCard
  <1>2. asked \in Seq(Requests) /\ life # "none" /\ \A q \in helper.keys : \E i \in 1..Len(asked) : asked[i] = q
    BY <1>1 DEF Talk, SessionTalk
  <1>3. /\ asked' \in Seq(Requests) /\ asked' # <<>> /\ Current' = r
        /\ \A q \in helper.keys : \E i \in 1..Len(asked') : asked'[i] = q
    BY <1>1, <1>2 DEF Current
  <1>4. CASE life = "live"
    <2>1. Quiet
      BY <1>1, <1>4
      DEF Talk, SessionTalk, Quiet, Requested, Underway, Announced, Prompting, Continued, Deriving, Answered
    <2>2. down = <<>> /\ down' = <<Frame("request", r)>> /\ down' # <<>> /\ Head(down') = Frame("request", r)
      BY <1>1, <2>1, Pipes DEF Quiet, Silent
    <2>3. Requested'
      BY <1>1, <1>3, <2>1, <2>2 DEF Requested, Quiet, Silent, Frame
    <2>4. Talk'
      BY <1>1, <1>2, <1>3, <2>1, <2>3 DEF Talk, SessionTalk, OneShotTalk, Session, Quiet
    <2>5. Phase = "idle" /\ Phase' = "preparing" /\ Serving' = r /\ Given' = Given /\ Given = helper.keys
      BY <1>1, <1>4, <2>1, <2>2 DEF Phase, Serving, Given, TouchesTheCard, Quiet, Silent, Frame
    <2>6. Contract!Ask(r)
      BY <1>1, <1>2, <2>5 DEF Contract!Ask, Given
    <2> QED
      BY <2>4, <2>6 DEF Kept, Contract!Next
  <1>5. CASE life # "live"
    <2>1. Talk'
      BY <1>1, <1>2, <1>3, <1>5 DEF Talk, SessionTalk, OneShotTalk, Session
    <2>2. UNCHANGED <<Phase, Serving, Given>>
      <3>1. Given' = Given
        BY <1>1 DEF Given, TouchesTheCard
      <3>2. CASE life \in {"dead", "reaped"}
        BY <1>1, <3>1, <3>2 DEF Phase, Serving, TouchesTheCard
      <3> QED
        BY <1>1, <1>5, <3>2 DEF Talk, SessionTalk
    <2> QED
      BY <2>1, <2>2, UnseenKeeps
  <1> QED
    BY <1>4, <1>5

\* HardwareManager takes the frame that is due.
LEMMA TakeFrameKeeps ==
  ASSUME Talk, TakeFrame
  PROVE  Talk' /\ Kept
  <1>1. /\ Session /\ TouchesTheCard /\ UNCHANGED <<mode, life, helper, down, asked>> /\ up' = Tail(up)
        /\ Current' = Current
    BY DEF TakeFrame, SessionFrame, ConfigFrame, OfHelper, Session, TouchesTheCard, Current
  <1>2. UNCHANGED <<Phase, Serving, Given>>
    BY <1>1 DEF Phase, Serving, Given, TouchesTheCard
  <1>3. \/ up # <<>> /\ Head(up) = Frame("ready", Current) /\ exchange = "first"  /\ exchange' = "second"
        \/ up # <<>> /\ Head(up) = Frame("touch", Current) /\ exchange = "second" /\ exchange' = "armed"
        \/ up # <<>> /\ Head(up) = Frame("key", Current)   /\ exchange = "result" /\ exchange' = "none"
    BY DEF TakeFrame, Expected, Moves, Current
  <1>4. life = "live" => Announced' \/ Prompting' \/ Quiet'
    <2> SUFFICES ASSUME life = "live" PROVE Announced' \/ Prompting' \/ Quiet'
      OBVIOUS
    <2>1. CASE exchange = "first"
      <3>1. Announced \/ Prompting
        BY <1>1, <1>3, <2>1
        DEF Talk, SessionTalk, Quiet, Requested, Underway, Silent, Announced, Prompting, Continued,
            Deriving, Answered
      <3>2. CASE Announced
        <4>1. up' = <<>>
          BY <1>1, <2>1, <3>2, Pipes DEF Announced
        <4> QED
          BY <1>1, <1>3, <2>1, <3>2, <4>1 DEF Announced
      <3>3. CASE Prompting
        <4>0. up = <<Frame("ready", Current), Frame("touch", Current)>>
          BY <2>1, <3>3 DEF Prompting
        <4>1. up' = <<Frame("touch", Current)>>
          BY <1>1, <4>0, Pipes, Zenon
        <4> QED
          BY <1>1, <1>3, <2>1, <3>3, <4>1 DEF Prompting, Frame
      <3> QED
        BY <3>1, <3>2, <3>3
    <2>2. CASE exchange = "second"
      <3>1. Prompting
        BY <1>1, <1>3, <2>2
        DEF Talk, SessionTalk, Quiet, Requested, Underway, Silent, Announced, Prompting, Continued,
            Deriving, Answered
      <3>2. up' = <<>>
        BY <1>1, <2>2, <3>1, Pipes DEF Prompting
      <3> QED
        BY <1>1, <1>3, <2>2, <3>1, <3>2 DEF Prompting
    <2>3. CASE exchange = "result"
      <3>1. Answered
        BY <1>1, <1>3, <2>3
        DEF Talk, SessionTalk, Quiet, Requested, Underway, Silent, Announced, Prompting, Continued,
            Deriving, Answered
      <3>2. up' = <<>>
        BY <1>1, <3>1, Pipes DEF Answered
      <3> QED
        BY <1>1, <1>3, <2>3, <3>1, <3>2 DEF Answered, Quiet, Silent
    <2> QED
      BY <1>3, <2>1, <2>2, <2>3
  <1>5. exchange # "none" /\ (life = "live" => asked # <<>>)
    BY <1>1, <1>3 DEF Talk, SessionTalk
  <1>6. Talk'
    BY <1>1, <1>4, <1>5 DEF Talk, SessionTalk, OneShotTalk, Session
  <1> QED
    BY <1>2, <1>6, UnseenKeeps

\* The user has been prompted: the contract's Continue.
LEMMA GoAheadKeeps ==
  ASSUME Talk, GoAhead
  PROVE  Talk' /\ Kept
  <1>1. /\ Session /\ TouchesTheCard /\ UNCHANGED <<mode, life, helper, up, asked>>
        /\ exchange = "armed" /\ exchange' = "result" /\ Current' = Current
        /\ down' = Append(down, Frame("continue", Current))
    BY DEF GoAhead, SessionFrame, ConfigFrame, OfHelper, Session, TouchesTheCard, Current, Moves
  <1>2. CASE life = "live"
    <2>1. Prompting /\ down = <<>> /\ up = <<>>
      BY <1>1, <1>2
      DEF Talk, SessionTalk, Quiet, Requested, Underway, Silent, Announced, Prompting, Continued, Deriving,
          Answered
    <2>2. down' = <<Frame("continue", Current)>> /\ down' # <<>>
      BY <1>1, <2>1, Pipes
    <2>3. Continued'
      BY <1>1, <2>1, <2>2 DEF Continued, Prompting, Frame
    <2>4. Talk'
      BY <1>1, <1>2, <2>3 DEF Talk, SessionTalk, OneShotTalk, Session
    <2>5. Contract!Continue
      BY <1>1, <1>2, <2>1, <2>2 DEF Contract!Continue, Prompting, Phase, Serving, TouchesTheCard
    <2> QED
      BY <2>4, <2>5 DEF Kept, Contract!Next
  <1>3. CASE life # "live"
    <2>1. life \in {"dead", "reaped"}
      BY <1>1, <1>3 DEF Talk, SessionTalk
    <2> QED
      BY <1>1, <2>1, EndingKeeps
  <1> QED
    BY <1>2, <1>3

\* The call of a one-shot helper, whose process does not exist before it.
LEMMA StartKeeps ==
  ASSUME Talk, CallInv, Start \/ StartProbe
  PROVE  Talk' /\ Kept
  <1>1. /\ ~Session /\ mode' = mode /\ UNCHANGED <<helper, down, up, asked, ready>> /\ caller = "idle"
        /\ \/ caller' = "started" /\ exchange' = "write" /\ life' = "live"
           \/ caller' = "over" /\ UNCHANGED <<exchange, life>>
    BY DEF Start, StartProbe, Launch, RunnerFrame, ConfigFrame
  <1>2. exchange = "none" /\ life = "none"
    BY <1>1 DEF CallInv
  <1>3. CASE mode = "hardware"
    <2>1. helper.pc = "idle" /\ Silent /\ helper.keys = {} /\ ready # "ok"
      BY <1>2, <1>3 DEF Talk, OneShotTalk
    <2>2. Talk'
      BY <1>1, <1>2, <1>3, <2>1 DEF Talk, SessionTalk, OneShotTalk, Session, Silent
    <2>3. UNCHANGED <<Phase, Serving, Given>>
      BY <1>1, <1>2, <1>3, <2>1 DEF Phase, Serving, Given, TouchesTheCard, Silent
    <2> QED
      BY <2>2, <2>3, UnseenKeeps
  <1>4. CASE mode # "hardware"
    BY <1>1, <1>2, <1>4, OffTheCardKeeps DEF TouchesTheCard, Session
  <1> QED
    BY <1>3, <1>4

\* The only request of a one-shot helper.
LEMMA WritingKeeps ==
  ASSUME Talk, mode = "hardware", NEW r \in Requests, ExchangeWrites(r)
  PROVE  Talk' /\ Kept
  <1>1. /\ UNCHANGED <<mode, life, helper, up, caller, ready>> /\ exchange = "write" /\ life # "none"
        /\ \/ /\ life = "live" /\ exchange' = "first" /\ down' = <<Frame("request", r)>> /\ asked' = <<r>>
           \/ exchange' = "kill" /\ UNCHANGED <<down, asked>>
    BY DEF ExchangeWrites, RunnerFrame, ConfigFrame, OfHelper, Moves, runnerVars, Talk, OneShotTalk
  <1>2. CASE life = "live" /\ down' = <<Frame("request", r)>>
    <2>1. helper.pc = "idle" /\ Silent /\ helper.keys = {}
      BY <1>1, <1>2 DEF Talk, OneShotTalk
    <2>2. down' # <<>> /\ Head(down') = Frame("request", r)
      BY <1>2, Pipes
    <2>3. Talk'
      BY <1>1, <1>2, <2>1 DEF Talk, SessionTalk, OneShotTalk, Session, Silent
    <2>4. Phase = "idle" /\ Phase' = "preparing" /\ Serving' = r /\ Given' = Given /\ r \notin Given
      BY <1>1, <1>2, <2>1, <2>2 DEF Phase, Serving, Given, TouchesTheCard, Silent, Frame
    <2>5. Contract!Ask(r)
      BY <2>4 DEF Contract!Ask, Given
    <2> QED
      BY <2>3, <2>5 DEF Kept, Contract!Next
  <1>3. CASE exchange' = "kill" /\ UNCHANGED <<down, asked>>
    <2>1. Talk'
      BY <1>1, <1>3 DEF Talk, SessionTalk, OneShotTalk, Session, Silent
    <2>2. UNCHANGED <<Phase, Serving, Given>>
      BY <1>1, <1>3 DEF Phase, Serving, Given, TouchesTheCard
    <2> QED
      BY <2>1, <2>2, UnseenKeeps
  <1> QED
    BY <1>1, <1>2, <1>3

\* What the exchange reads tells the caller, and nobody else.
LEMMA ReadingKeeps ==
  ASSUME Talk, mode = "hardware", ExchangeReads \/ ExchangeEnds
  PROVE  Talk' /\ Kept
  <1>1. /\ UNCHANGED <<mode, life, helper, down, asked, caller>> /\ life # "none"
        /\ exchange \notin {"none", "write"} /\ exchange' \notin {"none", "write"}
        /\ up' = up \/ up # <<>>
        /\ ready' = ready \/ (up # <<>> /\ ready' = "ok")
    BY DEF ExchangeReads, ExchangeEnds, RunnerFrame, ConfigFrame, OfHelper, ByRunner, Moves, Talk, OneShotTalk
  <1>2. Talk'
    BY <1>1 DEF Talk, SessionTalk, OneShotTalk, Session, Silent
  <1>3. UNCHANGED <<Phase, Serving, Given>>
    BY <1>1 DEF Phase, Serving, Given, TouchesTheCard
  <1> QED
    BY <1>2, <1>3, UnseenKeeps

LEMMA ExchangeKeeps ==
  ASSUME Talk, Exchange, DOMAIN helper = HelperFields
  PROVE  Talk' /\ Kept
  <1>1. ~Session /\ mode' = mode
    BY DEF Exchange, ExchangeWrites, ExchangeReads, ExchangeEnds, ExchangeKills, ExchangeJudges, ProbeJudges,
           Judges, RunnerFrame, ConfigFrame
  <1>2. life' = life \/ life' \in {"dead", "reaped"}
    BY DEF Exchange, ExchangeWrites, ExchangeReads, ExchangeEnds, ExchangeKills, ExchangeJudges, ProbeJudges,
           Judges, OfHelper, ByRunner, GroupDies, Dies
  <1>3. CASE mode = "hardware"
    <2>1. CASE \E r \in Requests : ExchangeWrites(r)
      BY <1>3, <2>1, WritingKeeps
    <2>2. CASE ExchangeReads \/ ExchangeEnds
      BY <1>3, <2>2, ReadingKeeps
    <2>3. CASE ExchangeKills \/ ExchangeJudges
      <3>1. life # "none"
        BY <1>3, <2>3 DEF ExchangeKills, ExchangeJudges, Judges, Moves, Talk, OneShotTalk
      <3>2. life' \in {"dead", "reaped"} /\ helper'.keys = helper.keys /\ asked' = asked
        BY <2>3 DEF ExchangeKills, ExchangeJudges, Judges, GroupDies, Dies, HelperFields
      <3> QED
        BY <1>1, <3>1, <3>2, EndingKeeps
    <2>4. CASE ProbeJudges
      BY <1>3, <2>4 DEF ProbeJudges
    <2> QED
      BY <2>1, <2>2, <2>3, <2>4 DEF Exchange
  <1>4. CASE mode # "hardware"
    BY <1>1, <1>2, <1>4, OffTheCardKeeps DEF TouchesTheCard, Session
  <1> QED
    BY <1>3, <1>4

\* The continue frame of the caller, which has waited for the ready frame: the
\* contract's Continue.
LEMMA WaitKeeps ==
  ASSUME Talk, Wait
  PROVE  Talk' /\ Kept
  <1>1. ~Session /\ UNCHANGED <<mode, life, helper, up, exchange, asked, ready>>
    BY DEF Wait, RunnerFrame, ConfigFrame, OfHelper
  <1>2. CASE mode # "hardware"
    BY <1>1, <1>2, OffTheCardKeeps DEF TouchesTheCard, Session
  <1>3. CASE mode = "hardware" /\ life \in {"dead", "reaped"}
    BY <1>1, <1>3, EndingKeeps
  <1>4. CASE mode = "hardware" /\ life \notin {"dead", "reaped"} /\ down' = down
    <2>1. /\ caller' \in {"ready", "waiting"} => ready = "ok"
          /\ caller' \in {"started", "ready"} => caller \in {"started", "ready"}
      BY <1>3, <1>4 DEF Wait, WaitReady, ContinueAndWait, WaitResult, Calls, Talk, OneShotTalk
    <2>2. Talk'
      BY <1>1, <1>4, <2>1 DEF Talk, SessionTalk, OneShotTalk, Session, Silent
    <2>3. UNCHANGED <<Phase, Serving, Given>>
      BY <1>1, <1>4 DEF Phase, Serving, Given, TouchesTheCard
    <2> QED
      BY <2>2, <2>3, UnseenKeeps
  <1>5. CASE mode = "hardware" /\ life \notin {"dead", "reaped"} /\ down' # down
    <2>1. caller = "ready" /\ caller' = "waiting" /\ down' = Append(down, Frame("continue", asked[1]))
      BY <1>5 DEF Wait, WaitReady, ContinueAndWait, WaitResult, Calls
    <2>2. CASE life = "live"
      <3>1. helper.pc = "await" /\ down = <<>> /\ ready = "ok" /\ helper.keys = {} /\ exchange # "write"
        BY <1>5, <2>1, <2>2 DEF Talk, OneShotTalk, PreparingAlone, Preparing
      <3>2. down' = <<Frame("continue", asked[1])>> /\ down' # <<>>
        BY <2>1, <3>1, Pipes
      <3>3. Talk'
        BY <1>1, <1>5, <2>1, <2>2, <3>1, <3>2 DEF Talk, SessionTalk, OneShotTalk, Session
      <3>4. Contract!Continue
        BY <1>1, <1>5, <2>2, <3>1, <3>2 DEF Contract!Continue, Phase, Serving, TouchesTheCard
      <3> QED
        BY <3>3, <3>4 DEF Kept, Contract!Next
    <2>3. CASE life # "live"
      <3>1. life = "none"
        BY <1>1, <1>5, <2>3 DEF Talk, OneShotTalk
      <3> QED
        BY <1>5, <2>1, <3>1 DEF Talk, OneShotTalk
    <2> QED
      BY <2>2, <2>3
  <1> QED
    BY <1>2, <1>3, <1>4, <1>5

-----------------------------------------------------------------------------
(* Every step, and the theorem.                                            *)

LEMMA StepKeepsTheContract ==
  ASSUME IInv, CallInv, Talk, [Next]_vars
  PROVE  Talk' /\ Kept
  <1>0. DOMAIN helper = HelperFields
    BY DEF IInv, ConfigInv, Shapes, HelperFields
  <1>1. CASE \E r \in Requests : Ask(r)
    BY <1>1, AskKeeps
  <1>2. CASE TakeFrame \/ GoAhead
    BY <1>2, TakeFrameKeeps, GoAheadKeeps
  <1>3. CASE StopHelper
    <2>1. Session /\ life' = "reaped" /\ helper'.keys = helper.keys /\ mode' = mode /\ asked' = asked
      BY <1>0, <1>3 DEF StopHelper, SessionFrame, ConfigFrame, GroupDies, Dies, HelperFields
    <2>2. life # "none"
      BY <2>1 DEF Talk, SessionTalk
    <2> QED
      BY <2>1, <2>2, EndingKeeps
  <1>4. CASE Start \/ StartProbe
    BY <1>4, StartKeeps
  <1>5. CASE Exchange
    BY <1>0, <1>5, ExchangeKeeps
  <1>6. CASE Wait
    BY <1>6, WaitKeeps
  <1>7. CASE WatchContext \/ ContextEnds \/ CancelCurrent \/ Cancel \/ CancelReturns
    BY <1>7, IdlingKeeps
    DEF WatchContext, ContextEnds, CancelCurrent, Cancel, CancelReturns, RunnerFrame, ConfigFrame, ByRunner,
        OfHelper, runnerVars
  <1>8. CASE HelperSide
    BY <1>8, HelperNextKeeps
  <1>9. CASE DaemonDies \/ (\E w \in Writers : Writing(w)) \/ UNCHANGED vars
    BY <1>9, IdlingKeeps DEF DaemonDies, Writing, vars, helperVars, runnerVars
  <1> QED
    BY <1>1, <1>2, <1>3, <1>4, <1>5, <1>6, <1>7, <1>8, <1>9 DEF Next

LEMMA TalkBegins == Init => CallInv /\ Talk /\ Contract!Init
  <1> SUFFICES ASSUME Init PROVE CallInv /\ Talk /\ Contract!Init
    OBVIOUS
  <1>1. /\ life = (IF Session THEN "live" ELSE "none")
        /\ down = <<>> /\ up = <<>> /\ exchange = "none" /\ asked = <<>>
        /\ caller = "idle" /\ canceler = "idle" /\ ready = NoOne
        /\ helper.pc = "idle" /\ helper.keys = {}
    BY DEF Init, InitHelper, Session
  <1>2. CallInv
    BY <1>1 DEF CallInv, Running
  <1>3. Quiet /\ asked \in Seq(Requests)
    BY <1>1 DEF Quiet, Silent
  <1>4. Talk
    BY <1>1, <1>3, AnswersAssumption DEF Talk, SessionTalk, OneShotTalk, Silent, Session
  <1>5. Phase = "idle" /\ Serving = NoOne /\ Given = {}
    BY <1>1 DEF Phase, Serving, Given
  <1> QED
    BY <1>2, <1>4, <1>5 DEF Contract!Init, Given

\* A helper process keeps what HelperContract promises, whatever its parent, its
\* resolver, the writers of the configuration and the end of the daemon do to it:
\* it derives no key for a request that it has not announced and been told to
\* continue with, and hands over at most one for each (hardware_session_helper.go:114,
\* runner.go:179).
THEOREM ImplementsContract == Spec => KeepsTheContract
  <1>1. Init => CallInv /\ Talk /\ Contract!Init
    BY TalkBegins
  <1>2. IInv /\ CallInv /\ Talk /\ [Next]_vars => CallInv' /\ Talk' /\ [Contract!Next]_(Contract!contractVars)
    BY StepKeepsCall, StepKeepsTheContract DEF Kept
  <1> QED
    BY <1>1, <1>2, Inductive, PTL DEF Spec, KeepsTheContract, Contract!Spec
=============================================================================
