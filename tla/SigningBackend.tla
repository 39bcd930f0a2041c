--------------------------- MODULE SigningBackend ---------------------------
(***************************************************************************)
(* internal/agentproxy/proxy.go and internal/backend/manager.go: client    *)
(* connections that share one private ssh-agent.  Every connection has a   *)
(* backend connection of its own, on which it replays its session-bind     *)
(* extensions; the worker of the one admitted request (Coordinator) loads  *)
(* the provider and signs on the connection of its client, which may have  *)
(* closed it and gone on.  The agent serves one message at a time, and      *)
(* finishes a signature whatever has become of the connection it came on.  *)
(*                                                                         *)
(* EnsureAgent and Stop hold mu throughout, so their waits are steps of     *)
(* their own.  providerMu is only taken by the worker.                     *)
(***************************************************************************)
EXTENDS Naturals, Sequences, FiniteSets

CONSTANTS
  Clients,         \* slots for client connections, used again and again
  Agents,          \* process identities, free again once reaped
  MaxBinds,        \* maxPendingSessionBinds
  Age,             \* an age request, which uses the device without ssh-agent
  Worker, Daemon,  \* goroutines
  NoOne

ASSUME BindsAssumption == MaxBinds \in Nat
ASSUME NoOneAssumption == NoOne \notin Clients \cup Agents
ASSUME ActorsAssumption == Worker # Daemon /\ {Worker, Daemon, Age} \cap (Clients \cup {NoOne}) = {}

VARIABLES
  \* manager
  cmd,       \* m.cmd, whose exit is not yet received from m.waitDone
  mu,        \* who holds m.mu
  phase,     \* where its holder is in EnsureAgent
  invalid,   \* m.invalid
  \* ssh-agent processes
  agent, loaded, busy,  \* life, target key listed, client whose signature it computes
  socket,    \* the process that listens at the backend path
  \* clients
  pc,        \* where each goroutine is
  left,      \* the connection's context is done
  bindings,  \* a.bindings
  conn,      \* a.backend
  bound,     \* what that connection has been told
  over,      \* the context of the request is done
  answered,  \* the worker's result is in the channel
  \* coordinator
  token,     \* whose operation holds the semaphore
  peer       \* the process the worker has sent a message to

managerVars == <<cmd, mu, phase, invalid>>
agentVars   == <<agent, loaded, busy, socket>>
clientVars  == <<left, bindings, conn, bound, over, answered>>
vars == <<managerVars, agentVars, clientVars, pc, token, peer>>

Dead == "dead"  \* the process at the other end is gone

ASSUME DeadAssumption == Dead \notin Agents \cup {NoOne}

Actors == Clients \cup {Worker, Daemon}

BackendTypeOK ==
  /\ cmd \in Agents \cup {NoOne} /\ mu \in Actors \cup {NoOne}
  /\ phase \in {"none", "discard", "prepare", "start"} /\ invalid \in BOOLEAN
  /\ agent \in [Agents -> {"none", "starting", "serving", "killed", "exited"}]
  /\ loaded \subseteq Agents /\ busy \in [Agents -> Clients \cup {NoOne}]
  /\ socket \in Agents \cup {NoOne}
  /\ DOMAIN pc = Actors
  /\ \A c \in Clients :
       pc[c] \in {"closed", "idle", "list", "dial", "connect", "replay", "queue", "wait"}
  /\ pc[Worker] \in {"idle", "ensure", "unloading", "unload", "looking", "look", "list", "load",
                     "forget", "checking", "check", "verify", "prompt", "call", "signing",
                     "failed", "report", "release", "aging"}
  /\ pc[Daemon] \in {"serving", "draining", "stop", "reaping", "stopped"}
  /\ left \in [Clients -> BOOLEAN] /\ over \in [Clients -> BOOLEAN]
  /\ answered \in [Clients -> BOOLEAN]
  /\ bindings \in [Clients -> Seq(1..MaxBinds)] /\ bound \in [Clients -> Seq(1..MaxBinds)]
  /\ \A c \in Clients : Len(bindings[c]) =< MaxBinds
  /\ conn \in [Clients -> Agents \cup {NoOne, Dead}]
  /\ token \in Clients \cup {Age, NoOne} /\ peer \in Agents \cup {NoOne}

Init ==
  /\ cmd = NoOne /\ mu = NoOne /\ phase = "none" /\ invalid = FALSE
  /\ agent = [p \in Agents |-> "none"] /\ loaded = {} /\ busy = [p \in Agents |-> NoOne]
  /\ socket = NoOne
  /\ pc = [a \in Actors |-> IF a = Worker THEN "idle" ELSE IF a = Daemon THEN "serving" ELSE "closed"]
  /\ left = [c \in Clients |-> FALSE] /\ over = [c \in Clients |-> FALSE]
  /\ answered = [c \in Clients |-> FALSE]
  /\ bindings = [c \in Clients |-> <<>>] /\ bound = [c \in Clients |-> <<>>]
  /\ conn = [c \in Clients |-> NoOne]
  /\ token = NoOne /\ peer = NoOne

Goto(a, from, to) == pc[a] = from /\ pc' = [pc EXCEPT ![a] = to]

\* A dial of the backend path succeeds: also while the process is busy, and
\* until a kill has taken effect.
Reachable == socket # NoOne
\* The process answers the next message.
Responsive(p) == p \in Agents /\ agent[p] = "serving" /\ busy[p] = NoOne

-----------------------------------------------------------------------------
(* The ssh-agent process.                                                  *)

Kill(p) == IF agent[p] = "exited" THEN agent ELSE [agent EXCEPT ![p] = "killed"]

Listens(p) ==
  /\ agent[p] = "starting"
  /\ agent' = [agent EXCEPT ![p] = "serving"] /\ socket' = p
  /\ UNCHANGED <<managerVars, loaded, busy, clientVars, pc, token, peer>>

\* The process ends; the go statement of EnsureAgent sends to waitDone.
Exits(p) ==
  /\ agent[p] \in {"starting", "serving", "killed"}
  /\ agent' = [agent EXCEPT ![p] = "exited"]
  /\ loaded' = loaded \ {p} /\ busy' = [busy EXCEPT ![p] = NoOne]
  /\ socket' = IF socket = p THEN NoOne ELSE socket
  /\ conn' = [c \in Clients |-> IF conn[c] = p THEN Dead ELSE conn[c]]
  /\ peer' = IF peer = p THEN NoOne ELSE peer
  /\ UNCHANGED <<managerVars, left, bindings, bound, over, answered, pc, token>>

\* Somebody removes the socket file.
SocketVanishes ==
  /\ socket # NoOne /\ socket' = NoOne
  /\ UNCHANGED <<managerVars, agent, loaded, busy, clientVars, pc, token, peer>>

\* The worker still waits, on an open connection, for the signature of p.
Awaited(p) ==
  /\ pc[Worker] = "signing" /\ peer = p
  /\ \E c \in Clients : token = c /\ pc[c] = "wait" /\ conn[c] = p

\* The touch, its timeout or an error of the device.
Signs(p) ==
  /\ busy[p] # NoOne /\ agent[p] = "serving"
  /\ busy' = [busy EXCEPT ![p] = NoOne]
  /\ IF Awaited(p) THEN \E end \in {"report", "failed"} : Goto(Worker, "signing", end)
                   ELSE UNCHANGED pc
  /\ UNCHANGED <<managerVars, agent, loaded, socket, clientVars, token, peer>>

-----------------------------------------------------------------------------
(* Manager.EnsureAgent.                                                    *)

\* Who calls it, and where success and failure lead.
OnReady == [dial |-> "connect", unloading |-> "unload", looking |-> "look", checking |-> "check"]
OnError == [dial |-> "idle", unloading |-> "forget", looking |-> "report", checking |-> "report"]

\* The worker's request has been given up, or its context is done.
Awaiting == {c \in Clients : token = c /\ pc[c] = "wait"}
GivenUp == Awaiting = {}
WorkerContextDone == \A c \in Awaiting : over[c]
ContextDone(a) == IF a = Worker THEN WorkerContextDone ELSE left[a]

Return(a, next) ==
  /\ pc' = [pc EXCEPT ![a] = next[pc[a]]]
  /\ mu' = NoOne /\ phase' = "none"
  /\ UNCHANGED <<invalid, loaded, busy, clientVars, token, peer>>

Hold == UNCHANGED <<mu, invalid, loaded, busy, clientVars, pc, token, peer>>

Wants(a) == mu = NoOne /\ pc[a] \in DOMAIN OnReady

ReuseAgent(a) ==
  /\ Wants(a) /\ cmd # NoOne /\ Reachable
  /\ Return(a, OnReady) /\ UNCHANGED <<cmd, agent, socket>>

\* Seeded bug: a process whose socket is gone is expected to go by itself.
DiscardPolitely(a) ==
  /\ Wants(a) /\ (cmd # NoOne => ~Reachable)
  /\ mu' = a /\ phase' = IF cmd = NoOne THEN "prepare" ELSE "discard"
  /\ UNCHANGED <<cmd, invalid, agentVars, clientVars, pc, token, peer>>

\* No process, or one that cannot be reached: discardUnavailableAgentLocked.
DiscardAgent(a) ==
  /\ Wants(a) /\ (cmd # NoOne => ~Reachable)
  /\ mu' = a /\ phase' = IF cmd = NoOne THEN "prepare" ELSE "discard"
  /\ agent' = IF cmd = NoOne THEN agent ELSE Kill(cmd)
  /\ UNCHANGED <<cmd, invalid, loaded, busy, socket, clientVars, pc, token, peer>>

\* A receive from waitDone.
Reap == agent[cmd] = "exited" /\ cmd' = NoOne /\ agent' = [agent EXCEPT ![cmd] = "none"]

\* Seeded bug: nobody waits for the exit.
DiscardedAtOnce(a) ==
  /\ mu = a /\ phase = "discard"
  /\ cmd' = NoOne /\ phase' = "prepare"
  /\ UNCHANGED <<mu, invalid, agentVars, clientVars, pc, token, peer>>

Discarded(a) ==
  /\ mu = a /\ phase = "discard"
  /\ \/ Reap /\ phase' = "prepare" /\ Hold
     \/ ContextDone(a) /\ Return(a, OnError) /\ UNCHANGED <<cmd, agent>>
  /\ UNCHANGED socket

\* prepareSocketPath refuses a socket someone listens at; the start may fail.
StartAgent(a) ==
  /\ mu = a /\ phase = "prepare"
  /\ \/ /\ ~Reachable
        /\ \E p \in Agents : agent[p] = "none"
        /\ cmd' = CHOOSE p \in Agents : agent[p] = "none"
        /\ agent' = [agent EXCEPT ![cmd'] = "starting"]
        /\ phase' = "start" /\ Hold
     \/ Return(a, OnError) /\ UNCHANGED <<cmd, agent>>
  /\ UNCHANGED socket

\* The loop of EnsureAgent.  The process that is killed stays m.cmd: the next
\* call discards it.
AwaitAgent(a) ==
  /\ mu = a /\ phase = "start"
  /\ \/ Reachable /\ Return(a, OnReady) /\ UNCHANGED <<cmd, agent>>
     \/ Reap /\ Return(a, OnError)
     \/ Return(a, OnError) /\ agent' = Kill(cmd) /\ UNCHANGED cmd  \* context, deadline, chmod
  /\ UNCHANGED socket

EnsureAgent(a) == ReuseAgent(a) \/ DiscardAgent(a) \/ Discarded(a) \/ StartAgent(a) \/ AwaitAgent(a)

-----------------------------------------------------------------------------
(* A client connection: serveConnFor, connectionAgent.                     *)

Accept(c) ==
  /\ pc[Daemon] = "serving" /\ Goto(c, "closed", "idle")
  /\ left' = [left EXCEPT ![c] = FALSE]
  /\ UNCHANGED <<managerVars, agentVars, bindings, conn, bound, over, answered, token, peer>>

\* The disconnect watcher cancels the connection's context.
Disconnect(c) ==
  /\ pc[c] # "closed" /\ ~left[c]
  /\ left' = [left EXCEPT ![c] = TRUE]
  /\ over' = [over EXCEPT ![c] = (@ \/ pc[c] = "wait")]
  /\ UNCHANGED <<managerVars, agentVars, bindings, conn, bound, answered, pc, token, peer>>

\* ServeAgent ends: connectionAgent.close.
CloseConnection(c) ==
  /\ left[c] /\ Goto(c, "idle", "closed")
  /\ conn' = [conn EXCEPT ![c] = NoOne] /\ bound' = [bound EXCEPT ![c] = <<>>]
  /\ bindings' = [bindings EXCEPT ![c] = <<>>]
  /\ UNCHANGED <<managerVars, agentVars, left, over, answered, token, peer>>

\* Seeded bug: a binding the backend has been told is not kept.
ExtensionOnce(c) ==
  /\ pc[c] = "idle" /\ ~left[c] /\ Len(bindings[c]) < MaxBinds
  /\ \E b \in 1..MaxBinds :
       \/ /\ conn[c] = NoOne
          /\ bindings' = [bindings EXCEPT ![c] = Append(@, b)] /\ UNCHANGED bound
       \/ /\ Responsive(conn[c])
          /\ bound' = [bound EXCEPT ![c] = Append(@, b)] /\ UNCHANGED bindings
  /\ UNCHANGED <<managerVars, agentVars, left, conn, over, answered, pc, token, peer>>

\* A session-bind extension.  One that the backend refuses, or cannot be
\* told, is dropped again and leaves no trace; a full list takes none.
Extension(c) ==
  /\ pc[c] = "idle" /\ ~left[c] /\ Len(bindings[c]) < MaxBinds
  /\ \E b \in 1..MaxBinds :
       /\ bindings' = [bindings EXCEPT ![c] = Append(@, b)]
       /\ \/ conn[c] = NoOne /\ UNCHANGED bound
          \/ Responsive(conn[c]) /\ bound' = [bound EXCEPT ![c] = Append(@, b)]
  /\ UNCHANGED <<managerVars, agentVars, left, conn, over, answered, pc, token, peer>>

\* SignWithFlags; getSigningBackend asks the connection it has for its keys.
Sign(c) ==
  /\ pc[c] = "idle" /\ ~left[c]
  /\ pc' = [pc EXCEPT ![c] = IF conn[c] = NoOne THEN "dial" ELSE "list"]
  /\ UNCHANGED <<managerVars, agentVars, clientVars, token, peer>>

TestBackend(c) ==
  /\ \/ Responsive(conn[c]) /\ Goto(c, "list", "queue") /\ UNCHANGED <<conn, bound>>
     \/ /\ conn[c] = Dead /\ Goto(c, "list", "dial")
        /\ conn' = [conn EXCEPT ![c] = NoOne] /\ bound' = [bound EXCEPT ![c] = <<>>]
  /\ UNCHANGED <<managerVars, agentVars, left, bindings, over, answered, token, peer>>

\* Manager.Connect, after EnsureAgent.
Connect(c) ==
  /\ \/ /\ Reachable /\ ~left[c] /\ Goto(c, "connect", "replay")
        /\ conn' = [conn EXCEPT ![c] = socket]
     \/ (~Reachable \/ left[c]) /\ Goto(c, "connect", "idle") /\ UNCHANGED conn
  /\ UNCHANGED <<managerVars, agentVars, left, bindings, bound, over, answered, token, peer>>

\* connectBackendLocked: a.backend is only set when all were accepted.
Replay(c) ==
  /\ \/ /\ Responsive(conn[c]) \/ bindings[c] = <<>>
        /\ Goto(c, "replay", "queue")
        /\ bound' = [bound EXCEPT ![c] = bindings[c]] /\ UNCHANGED conn
     \/ /\ bindings[c] # <<>> /\ (conn[c] = Dead \/ Responsive(conn[c]))
        /\ Goto(c, "replay", "idle")
        /\ conn' = [conn EXCEPT ![c] = NoOne] /\ UNCHANGED bound
  /\ UNCHANGED <<managerVars, agentVars, left, bindings, over, answered, token, peer>>

\* RunCancelableFor gives up in the queue: sign_timeout, or the client left.
GiveUp(c) ==
  /\ Goto(c, "queue", "idle")
  /\ UNCHANGED <<managerVars, agentVars, clientVars, token, peer>>

\* The request is admitted and its worker started.
Admit(c) ==
  /\ token = NoOne /\ pc[c] = "queue"
  /\ token' = c /\ pc' = [pc EXCEPT ![c] = "wait", ![Worker] = "ensure"]
  /\ over' = [over EXCEPT ![c] = left[c]] /\ answered' = [answered EXCEPT ![c] = FALSE]
  /\ UNCHANGED <<managerVars, agentVars, left, bindings, conn, bound, peer>>

\* sign_timeout or the cancel button.
Expire(c) ==
  /\ pc[c] = "wait" /\ ~over[c] /\ over' = [over EXCEPT ![c] = TRUE]
  /\ UNCHANGED <<managerVars, agentVars, left, bindings, conn, bound, answered, pc, token, peer>>

\* Either arm of the caller's select.  With the context done the connection is
\* closed (closeSigningBackend): the worker's call on it ends.
RequestReturns(c) ==
  /\ answered[c] \/ over[c]
  /\ Goto(c, "wait", "idle")
  /\ IF over[c] THEN conn' = [conn EXCEPT ![c] = NoOne] /\ bound' = [bound EXCEPT ![c] = <<>>]
                ELSE UNCHANGED <<conn, bound>>
  /\ over' = [over EXCEPT ![c] = FALSE] /\ answered' = [answered EXCEPT ![c] = FALSE]
  /\ UNCHANGED <<managerVars, agentVars, left, bindings, token, peer>>

Request(c) ==
  \/ TestBackend(c) \/ EnsureAgent(c) \/ Connect(c) \/ Replay(c) \/ GiveUp(c)
  \/ Admit(c) \/ RequestReturns(c) \/ CloseConnection(c)

-----------------------------------------------------------------------------
(* The worker: Manager.Ensure, the call, Normalize, Invalidate.             *)

WorkerFrame == UNCHANGED <<cmd, mu, phase, clientVars, token>>
Unaffected == UNCHANGED <<agentVars, invalid>>

\* Seeded bug: what was loaded once is taken to be loaded, and the agent not asked.
EnsureTrusting ==
  /\ pc[Worker] = "ensure"
  /\ pc' = [pc EXCEPT ![Worker] = IF WorkerContextDone THEN "report"
                                  ELSE IF invalid THEN "unloading"
                                  ELSE IF cmd \in loaded THEN "prompt" ELSE "looking"]
  /\ WorkerFrame /\ Unaffected /\ UNCHANGED peer

\* publishProgress, then Ensure.
Ensure ==
  /\ pc[Worker] = "ensure"
  /\ pc' = [pc EXCEPT ![Worker] = IF WorkerContextDone THEN "report"
                                  ELSE IF invalid THEN "unloading" ELSE "looking"]
  /\ WorkerFrame /\ Unaffected /\ UNCHANGED peer

\* ssh-add -e, killed with the context; whatever comes of it is ignored.
UnloadProvider ==
  /\ Goto(Worker, "unload", "forget")
  /\ \/ Responsive(socket) /\ loaded' \in {loaded, loaded \ {socket}}
     \/ (WorkerContextDone \/ ~Reachable) /\ UNCHANGED loaded
  /\ WorkerFrame /\ UNCHANGED <<agent, busy, socket, invalid, peer>>

Forget ==
  /\ Goto(Worker, "forget", "looking") /\ invalid' = FALSE
  /\ WorkerFrame /\ UNCHANGED <<agentVars, peer>>

\* targetLoaded dials with the context, and then waits for the list without it.
DialForKeys(at, next) ==
  /\ \/ Reachable /\ ~WorkerContextDone /\ Goto(Worker, at, next) /\ peer' = socket
     \/ (~Reachable \/ WorkerContextDone) /\ Goto(Worker, at, "report") /\ UNCHANGED peer
  /\ WorkerFrame /\ Unaffected

ListKeys ==
  /\ \/ Responsive(peer) /\ Goto(Worker, "list", IF peer \in loaded THEN "prompt" ELSE "load")
     \/ Responsive(peer) /\ Goto(Worker, "verify", IF peer \in loaded THEN "prompt" ELSE "report")
     \/ /\ peer = NoOne /\ pc[Worker] \in {"list", "verify"}
        /\ pc' = [pc EXCEPT ![Worker] = "report"]
  /\ peer' = NoOne /\ WorkerFrame /\ Unaffected

\* ssh-add -s: the PIN prompt, killed with the context.
LoadProvider ==
  /\ \/ /\ Responsive(socket) /\ ~WorkerContextDone /\ Goto(Worker, "load", "checking")
        /\ loaded' = loaded \cup {socket}
     \/ Goto(Worker, "load", "report") /\ UNCHANGED loaded
  /\ WorkerFrame /\ UNCHANGED <<agent, busy, socket, invalid, peer>>

Prompt ==
  /\ pc[Worker] = "prompt"
  /\ pc' = [pc EXCEPT ![Worker] = IF WorkerContextDone THEN "report" ELSE "call"]
  /\ WorkerFrame /\ Unaffected /\ UNCHANGED peer

\* The client's connection, unless its request was given up.
Backend == IF GivenUp THEN NoOne ELSE conn[token]

\* SignWithFlags; an agent without the key refuses.
SendSignature ==
  /\ \/ /\ Responsive(Backend) /\ Backend \in loaded /\ Goto(Worker, "call", "signing")
        /\ busy' = [busy EXCEPT ![Backend] = token] /\ peer' = Backend
     \/ /\ Backend \in {NoOne, Dead} \/ (Responsive(Backend) /\ Backend \notin loaded)
        /\ Goto(Worker, "call", "failed") /\ UNCHANGED <<busy, peer>>
  /\ WorkerFrame /\ UNCHANGED <<agent, loaded, socket, invalid>>

\* The connection is closed, by either end, before the answer.
SignatureLost ==
  /\ Backend \notin Agents /\ Goto(Worker, "signing", "failed")
  /\ WorkerFrame /\ Unaffected /\ UNCHANGED peer

\* NormalizeSignFailure, which ends in bounded time, and Invalidate.
FailSigning ==
  /\ Goto(Worker, "failed", "report") /\ invalid' = TRUE
  /\ WorkerFrame /\ UNCHANGED <<agentVars, peer>>

\* The result, which stays in the channel if nobody waits for it.
Report ==
  /\ Goto(Worker, "report", "release")
  /\ answered' = [answered EXCEPT ![token] = ~GivenUp]
  /\ UNCHANGED <<managerVars, agentVars, left, bindings, conn, bound, over, token, peer>>

Release ==
  /\ Goto(Worker, "release", "idle") /\ token' = NoOne /\ peer' = NoOne
  /\ UNCHANGED <<managerVars, agentVars, clientVars>>

Work ==
  \/ Ensure \/ EnsureAgent(Worker) \/ UnloadProvider \/ Forget \/ DialForKeys("look", "list")
  \/ ListKeys \/ LoadProvider \/ DialForKeys("check", "verify") \/ Prompt \/ SendSignature
  \/ SignatureLost \/ FailSigning \/ Report \/ Release

\* An age request takes the token for its helper's use of the device.
AgeBegins ==
  /\ token = NoOne /\ pc[Daemon] = "serving"
  /\ token' = Age /\ pc' = [pc EXCEPT ![Worker] = "aging"]
  /\ UNCHANGED <<managerVars, agentVars, clientVars, peer>>

AgeEnds ==
  /\ Goto(Worker, "aging", "release")
  /\ UNCHANGED <<managerVars, agentVars, clientVars, token, peer>>

-----------------------------------------------------------------------------
(* The end of the daemon: Server.Serve, then Manager.Stop.                  *)

Shutdown ==
  /\ Goto(Daemon, "serving", "draining")
  /\ left' = [c \in Clients |-> TRUE]
  /\ over' = [c \in Clients |-> over[c] \/ pc[c] = "wait"]
  /\ UNCHANGED <<managerVars, agentVars, bindings, conn, bound, answered, token, peer>>

Drained ==
  /\ \A c \in Clients : pc[c] = "closed"
  /\ Goto(Daemon, "draining", "stop")
  /\ UNCHANGED <<managerVars, agentVars, clientVars, token, peer>>

\* An interrupt, and a kill two seconds later.
Stop ==
  /\ mu = NoOne
  /\ IF cmd = NoOne THEN Goto(Daemon, "stop", "stopped") /\ UNCHANGED <<mu, agent>>
     ELSE Goto(Daemon, "stop", "reaping") /\ mu' = Daemon /\ agent' = Kill(cmd)
  /\ UNCHANGED <<cmd, phase, invalid, loaded, busy, socket, clientVars, token, peer>>

StopReaps ==
  /\ Goto(Daemon, "reaping", "stopped") /\ Reap
  /\ mu' = NoOne /\ socket' = NoOne
  /\ UNCHANGED <<phase, invalid, loaded, busy, clientVars, token, peer>>

AllOver ==
  /\ pc[Daemon] = "stopped" /\ pc[Worker] = "idle"
  /\ UNCHANGED vars

-----------------------------------------------------------------------------
Next ==
  \/ \E p \in Agents : Listens(p) \/ Exits(p) \/ Signs(p)
  \/ SocketVanishes
  \/ \E c \in Clients : Request(c) \/ Sign(c) \/ Accept(c) \/ Disconnect(c) \/ Extension(c) \/ Expire(c)
  \/ Work \/ AgeBegins \/ AgeEnds
  \/ Shutdown \/ Drained \/ Stop \/ StopReaps
  \/ AllOver

Spec == Init /\ [][Next]_vars

\* Goroutines run, a mutex and the agent's poll loop starve nobody, a killed
\* process ends, a touch is given or times out, sign_timeout is armed.
Dies(p) == agent[p] = "killed" /\ Exits(p)

FairSpec ==
  /\ Spec
  /\ \A c \in Clients : SF_vars(Request(c)) /\ WF_vars(Expire(c))
  /\ SF_vars(Work)
  /\ \A p \in Agents : WF_vars(Dies(p)) /\ WF_vars(Signs(p))

-----------------------------------------------------------------------------
(* Properties.                                                             *)

\* Every ssh-agent there is, is the one the manager holds: through crashes,
\* lost sockets, starts that fail or are given up, and Stop (EnsureAgent,
\* discardUnavailableAgentLocked; manager_test.go:141 restarts one at a time).
\* Nothing keeps a worker whose request was given up from starting another one
\* after Stop, but no PIN opens a provider in it, and it signs nothing
\* (daemon.go:444).
NoStrayAgent ==
  /\ \A p \in Agents : agent[p] # "none" => p = cmd
  /\ pc[Daemon] = "stopped" => loaded = {} /\ \A p \in Agents : busy[p] = NoOne

\* A request that waits for its signature does so on a connection that has been
\* told all session-bind extensions of its client, in order, and nothing else,
\* whatever agent it leads to (README.md:1183, recovery with replay).
SessionBindIsReplayed ==
  \A c \in Clients : pc[c] \in {"queue", "wait"} /\ conn[c] \in Agents => bound[c] = bindings[c]

\* While an SSH request prompts for its touch, no abandoned signature of
\* another is still at the device: the touch is not taken by the wrong one.
\* Ensure cannot end before the agent has answered.
TouchIsItsOwn ==
  token \in Clients /\ pc[Worker] \in {"prompt", "call", "signing"} =>
    \A p \in Agents : busy[p] # NoOne => pc[Worker] = "signing" /\ peer = p

\* docs/age-reference.md:154: age requests and SSH signatures share one
\* coordinator, and at most one of them is where a touch is needed.
Touching ==
  ({busy[p] : p \in Agents} \ {NoOne}) \cup (IF pc[Worker] = "aging" THEN {Age} ELSE {})
OneAtTheDevice == Cardinality(Touching) =< 1

\* A client that asks for a signature is answered, though the agent may crash,
\* lose its socket, refuse to start or be held up by an abandoned signature. One
\* that hangs without dying is left out: proxy.go:329 would wait for it for ever.
SignReturns ==
  \A c \in Clients :
    pc[c] \in {"list", "dial", "connect", "replay", "queue", "wait"}
      ~> pc[c] \in {"idle", "closed"}
=============================================================================
