------------------------ MODULE SigningBackendProofs ------------------------
(***************************************************************************)
(* Theorems about SigningBackend, for any number of clients, processes and *)
(* session-bind extensions.                                                *)
(***************************************************************************)
EXTENDS SigningBackend, TLAPS

Callers == Clients \cup {Worker}

\* EnsureAgent starts a process only when it has none.
StartInv == phase = "prepare" => cmd = NoOne

\* Whoever holds mu is still inside EnsureAgent.
MuInv == \A a \in Callers : mu = a => pc[a] \in DOMAIN OnReady

\* Without a token there is no operation.
IdleInv == token = NoOne => pc[Worker] = "idle"

\* A process that is gone holds no key and computes nothing.
BusyInv == \A p \in Agents : agent[p] \in {"none", "exited"} => busy[p] = NoOne /\ p \notin loaded

\* The parts of NoStrayAgent: one process, and once the server has stopped there
\* is neither a client nor, after Manager.Stop, anything for the process to do.
OneAgent == \A p \in Agents : agent[p] # "none" => p = cmd
DrainInv == pc[Daemon] \in {"stop", "reaping", "stopped"} => \A c \in Clients : pc[c] = "closed"
LateInv  == pc[Daemon] = "stopped" => loaded = {} /\ \A p \in Agents : busy[p] = NoOne

\* No backend connection is left over where a new one is made, and a connection
\* in use has been told what its client has bound.
LinkOf(c) ==
  /\ pc[c] \in {"closed", "dial", "connect"} => conn[c] = NoOne
  /\ pc[c] \in {"idle", "list", "queue", "wait"} /\ conn[c] \in Agents => bound[c] = bindings[c]

LinkInv == \A c \in Clients : LinkOf(c)

\* The agent computes nothing when the touch is prompted, and then only for the worker.
TouchInv ==
  \A p \in Agents :
    busy[p] # NoOne =>
      /\ pc[Worker] \notin {"prompt", "call"}
      /\ pc[Worker] = "signing" => peer = p

BInv ==
  /\ BackendTypeOK /\ StartInv /\ OneAgent /\ MuInv /\ IdleInv /\ BusyInv /\ LinkInv /\ TouchInv
  /\ DrainInv /\ LateInv

-----------------------------------------------------------------------------
(* The steps, grouped by who takes them.                                   *)

ProcessStep(p) == Listens(p) \/ Exits(p) \/ Signs(p)

ClientStep(c) ==
  \/ TestBackend(c) \/ Connect(c) \/ Replay(c) \/ GiveUp(c) \/ RequestReturns(c)
  \/ CloseConnection(c) \/ Sign(c) \/ Accept(c) \/ Disconnect(c) \/ Extension(c) \/ Expire(c)

WorkerStep ==
  \/ Ensure \/ UnloadProvider \/ Forget \/ DialForKeys("look", "list") \/ ListKeys
  \/ LoadProvider \/ DialForKeys("check", "verify") \/ Prompt \/ SendSignature
  \/ SignatureLost \/ FailSigning \/ Report \/ Release \/ AgeEnds

DaemonStep == Shutdown \/ Drained

LEMMA Steps ==
  ASSUME Next
  PROVE  \/ \E p \in Agents : ProcessStep(p)
         \/ SocketVanishes
         \/ \E a \in Callers : EnsureAgent(a)
         \/ \E c \in Clients : ClientStep(c) \/ Admit(c)
         \/ WorkerStep \/ AgeBegins \/ DaemonStep \/ Stop \/ StopReaps
         \/ UNCHANGED vars
BY DEF Next, ProcessStep, Callers, ClientStep, WorkerStep, DaemonStep, Request, Work, AllOver

\* A client, the worker and the server leave the processes to EnsureAgent.
ManagerStill == UNCHANGED <<cmd, mu, phase, agent, socket>>

LEMMA QuietSteps ==
  ASSUME \/ \E c \in Clients : ClientStep(c) \/ Admit(c)
         \/ WorkerStep \/ AgeBegins \/ DaemonStep
  PROVE  ManagerStill
<1> USE DEF ManagerStill, managerVars, agentVars
<1>1. ASSUME NEW c \in Clients, ClientStep(c) \/ Admit(c) PROVE ManagerStill
  BY <1>1 DEF ClientStep, TestBackend, Connect, Replay, GiveUp, RequestReturns, CloseConnection,
              Sign, Accept, Disconnect, Extension, Expire, Admit
<1>2. CASE WorkerStep
  BY <1>2 DEF WorkerStep, Ensure, UnloadProvider, Forget, DialForKeys, ListKeys, LoadProvider,
              Prompt, SendSignature, SignatureLost, FailSigning, Report, Release, AgeEnds,
              WorkerFrame, Unaffected
<1>3. CASE AgeBegins \/ DaemonStep
  BY <1>3 DEF AgeBegins, DaemonStep, Shutdown, Drained
<1> QED
  BY <1>1, <1>2, <1>3

-----------------------------------------------------------------------------
(* Types.                                                                  *)

ManagerTyped ==
  /\ cmd \in Agents \cup {NoOne} /\ mu \in Actors \cup {NoOne}
  /\ phase \in {"none", "discard", "prepare", "start"} /\ invalid \in BOOLEAN
  /\ agent \in [Agents -> {"none", "starting", "serving", "killed", "exited"}]
  /\ loaded \subseteq Agents
  /\ socket \in Agents \cup {NoOne}

DeviceTyped ==
  /\ busy \in [Agents -> Clients \cup {NoOne}]
  /\ token \in Clients \cup {Age, NoOne} /\ peer \in Agents \cup {NoOne}

PcTyped ==
  /\ DOMAIN pc = Actors
  /\ \A c \in Clients :
       pc[c] \in {"closed", "idle", "list", "dial", "connect", "replay", "queue", "wait"}
  /\ pc[Worker] \in {"idle", "ensure", "unloading", "unload", "looking", "look", "list", "load",
                     "forget", "checking", "check", "verify", "prompt", "call", "signing",
                     "failed", "report", "release", "aging"}
  /\ pc[Daemon] \in {"serving", "draining", "stop", "reaping", "stopped"}

LinkTyped ==
  /\ bindings \in [Clients -> Seq(1..MaxBinds)] /\ bound \in [Clients -> Seq(1..MaxBinds)]
  /\ \A c \in Clients : Len(bindings[c]) =< MaxBinds
  /\ conn \in [Clients -> Agents \cup {NoOne, Dead}]

FlagTyped ==
  /\ left \in [Clients -> BOOLEAN] /\ over \in [Clients -> BOOLEAN]
  /\ answered \in [Clients -> BOOLEAN]

LEMMA TypeParts == BackendTypeOK <=> ManagerTyped /\ DeviceTyped /\ PcTyped /\ LinkTyped /\ FlagTyped
BY DEF BackendTypeOK, ManagerTyped, DeviceTyped, PcTyped, LinkTyped, FlagTyped

LEMMA TypePartsNext ==
  BackendTypeOK' <=> ManagerTyped' /\ DeviceTyped' /\ PcTyped' /\ LinkTyped' /\ FlagTyped'
BY DEF BackendTypeOK, ManagerTyped, DeviceTyped, PcTyped, LinkTyped, FlagTyped

\* The goroutines are all different.
LEMMA Distinct ==
  /\ Worker \in Actors /\ Daemon \in Actors /\ Worker \in Callers
  /\ Worker # Daemon /\ Worker \notin Clients /\ Daemon \notin Clients /\ Age \notin Clients
  /\ NoOne \notin Actors /\ NoOne \notin Agents /\ NoOne # Dead /\ Dead \notin Agents
  /\ Age # NoOne /\ Daemon \notin Callers /\ NoOne \notin Callers
  /\ \A c \in Clients : c \in Actors /\ c \in Callers /\ c # Worker /\ c # Daemon /\ c # NoOne
  /\ \A a \in Callers : a \in Actors /\ a # Daemon /\ a # NoOne
BY NoOneAssumption, ActorsAssumption, DeadAssumption DEF Actors, Callers

LEMMA ManagerTypedNext ==
  ASSUME BackendTypeOK, Next
  PROVE  ManagerTyped'
<1> USE Distinct DEF ManagerTyped, managerVars, agentVars
<1>0. ManagerTyped
  BY TypeParts
<1>1. ASSUME NEW p \in Agents, ProcessStep(p) PROVE ManagerTyped'
  BY <1>0, <1>1 DEF ProcessStep, Listens, Exits, Signs
<1>2. ASSUME NEW a \in Callers, EnsureAgent(a) PROVE ManagerTyped'
  BY <1>0, <1>2 DEF EnsureAgent, ReuseAgent, DiscardAgent, Discarded, StartAgent, AwaitAgent,
                    Return, Hold, Kill, Reap, Wants
<1>3. ASSUME ManagerStill, invalid' \in BOOLEAN, loaded' \subseteq Agents PROVE ManagerTyped'
  BY <1>0, <1>3 DEF ManagerStill
<1>4. ASSUME NEW c \in Clients, ClientStep(c) \/ Admit(c) PROVE invalid' = invalid /\ loaded' = loaded
  BY <1>4 DEF ClientStep, TestBackend, Connect, Replay, GiveUp, RequestReturns, CloseConnection,
              Sign, Accept, Disconnect, Extension, Expire, Admit
<1>5. ASSUME WorkerStep PROVE invalid' \in BOOLEAN /\ loaded' \subseteq Agents
  BY <1>0, <1>5 DEF WorkerStep, Ensure, UnloadProvider, Forget, DialForKeys, ListKeys, LoadProvider,
              Prompt, SendSignature, SignatureLost, FailSigning, Report, Release, AgeEnds,
              WorkerFrame, Unaffected, Responsive
<1>6. ASSUME AgeBegins \/ DaemonStep PROVE invalid' = invalid /\ loaded' = loaded
  BY <1>6 DEF AgeBegins, DaemonStep, Shutdown, Drained
<1>7. CASE SocketVanishes \/ Stop \/ StopReaps
  BY <1>0, <1>7 DEF SocketVanishes, Stop, StopReaps, Kill, Reap
<1>8. CASE UNCHANGED vars
  BY <1>0, <1>8 DEF vars
<1> QED
  BY <1>0, <1>1, <1>2, <1>3, <1>4, <1>5, <1>6, <1>7, <1>8, Steps, QuietSteps

\* A signature is only computed for the client the token belongs to.
LEMMA BackendIsOfToken ==
  ASSUME BackendTypeOK, Backend \in Agents
  PROVE  token \in Clients /\ conn[token] = Backend
BY Distinct DEF Backend, GivenUp, Awaiting

LEMMA DeviceTypedNext ==
  ASSUME BackendTypeOK, Next
  PROVE  DeviceTyped'
<1> USE Distinct DEF DeviceTyped, managerVars, agentVars, clientVars
<1>0. DeviceTyped /\ socket \in Agents \cup {NoOne}
  BY TypeParts DEF ManagerTyped
<1>1. ASSUME NEW p \in Agents, ProcessStep(p) PROVE DeviceTyped'
  BY <1>0, <1>1 DEF ProcessStep, Listens, Exits, Signs
<1>2. ASSUME NEW a \in Callers, EnsureAgent(a) PROVE DeviceTyped'
  BY <1>0, <1>2 DEF EnsureAgent, ReuseAgent, DiscardAgent, Discarded, StartAgent, AwaitAgent,
                    Return, Hold, Wants
<1>3. ASSUME NEW c \in Clients, ClientStep(c) \/ Admit(c) PROVE DeviceTyped'
  BY <1>0, <1>3 DEF ClientStep, TestBackend, Connect, Replay, GiveUp, RequestReturns, CloseConnection,
              Sign, Accept, Disconnect, Extension, Expire, Admit
<1>4. CASE SendSignature
  BY <1>0, <1>4, BackendIsOfToken DEF SendSignature, WorkerFrame, Responsive
<1>5. CASE WorkerStep /\ ~SendSignature
  BY <1>0, <1>5 DEF WorkerStep, Ensure, UnloadProvider, Forget, DialForKeys, ListKeys, LoadProvider,
              Prompt, SignatureLost, FailSigning, Report, Release, AgeEnds,
              WorkerFrame, Unaffected
<1>6. CASE AgeBegins \/ DaemonStep
  BY <1>0, <1>6 DEF AgeBegins, DaemonStep, Shutdown, Drained
<1>7. CASE SocketVanishes \/ Stop \/ StopReaps
  BY <1>0, <1>7 DEF SocketVanishes, Stop, StopReaps
<1>8. CASE UNCHANGED vars
  BY <1>0, <1>8 DEF vars
<1> QED
  BY <1>1, <1>2, <1>3, <1>4, <1>5, <1>6, <1>7, <1>8, Steps

\* EnsureAgent returns to where it was called.
LEMMA EnsureReturns ==
  ASSUME BackendTypeOK, MuInv, NEW a \in Callers, EnsureAgent(a)
  PROVE  \/ pc' = pc
         \/ /\ pc[a] \in {"dial", "unloading", "looking", "checking"}
            /\ \/ pc' = [pc EXCEPT ![a] = OnReady[pc[a]]]
               \/ pc' = [pc EXCEPT ![a] = OnError[pc[a]]]
<1>1. mu = a => pc[a] \in {"dial", "unloading", "looking", "checking"}
  BY DEF MuInv, OnReady
<1>2. Wants(a) => pc[a] \in {"dial", "unloading", "looking", "checking"}
  BY DEF Wants, OnReady
<1> QED
  BY <1>1, <1>2 DEF EnsureAgent, ReuseAgent, DiscardAgent, Discarded, StartAgent, AwaitAgent, Return, Hold

LEMMA PcTypedNext ==
  ASSUME BackendTypeOK, MuInv, Next
  PROVE  PcTyped'
<1> USE Distinct DEF PcTyped
<1>0. PcTyped
  BY TypeParts
<1>1. ASSUME NEW p \in Agents, ProcessStep(p) PROVE PcTyped'
  BY <1>0, <1>1 DEF ProcessStep, Listens, Exits, Signs, Goto
<1>2. ASSUME NEW a \in Callers, EnsureAgent(a) PROVE PcTyped'
  <2>1. CASE a \in Clients
    <3>1. pc' = pc \/ pc' = [pc EXCEPT ![a] = "connect"] \/ pc' = [pc EXCEPT ![a] = "idle"]
      BY <1>0, <1>2, <2>1, EnsureReturns DEF OnReady, OnError
    <3> QED
      BY <1>0, <2>1, <3>1
  <2>2. CASE a = Worker
    <3>1. \/ pc' = pc
          \/ \E x \in {"unload", "look", "check", "forget", "report"} : pc' = [pc EXCEPT ![a] = x]
      BY <1>0, <1>2, <2>2, EnsureReturns DEF OnReady, OnError
    <3> QED
      BY <1>0, <2>2, <3>1
  <2> QED
    BY <2>1, <2>2 DEF Callers
<1>3. ASSUME NEW c \in Clients, ClientStep(c) \/ Admit(c) PROVE PcTyped'
  BY <1>0, <1>3 DEF ClientStep, TestBackend, Connect, Replay, GiveUp, RequestReturns, CloseConnection,
              Sign, Accept, Disconnect, Extension, Expire, Admit, Goto
<1>4. CASE WorkerStep
  BY <1>0, <1>4 DEF WorkerStep, Ensure, UnloadProvider, Forget, DialForKeys, ListKeys, LoadProvider,
              Prompt, SendSignature, SignatureLost, FailSigning, Report, Release, AgeEnds, Goto
<1>5. CASE AgeBegins \/ DaemonStep \/ SocketVanishes \/ Stop \/ StopReaps
  BY <1>0, <1>5 DEF AgeBegins, DaemonStep, Shutdown, Drained, SocketVanishes, Stop, StopReaps, Goto
<1>6. CASE UNCHANGED vars
  BY <1>0, <1>6 DEF vars
<1> QED
  BY <1>1, <1>2, <1>3, <1>4, <1>5, <1>6, Steps

\* What a client's own steps do to what its connection has been told.
LEMMA LinkTypedNext ==
  ASSUME BackendTypeOK, Next
  PROVE  LinkTyped'
<1> USE Distinct DEF LinkTyped, clientVars
<1>0. LinkTyped /\ socket \in Agents \cup {NoOne} /\ MaxBinds \in Nat
  BY TypeParts, BindsAssumption DEF ManagerTyped
<1>1. ASSUME UNCHANGED <<bindings, bound, conn>> PROVE LinkTyped'
  BY <1>0, <1>1
<1>2. ASSUME NEW p \in Agents, ProcessStep(p) PROVE LinkTyped'
  <2>1. CASE Exits(p)
    BY <1>0, <2>1 DEF Exits
  <2>2. CASE Listens(p) \/ Signs(p)
    BY <1>1, <2>2 DEF Listens, Signs
  <2> QED
    BY <1>2, <2>1, <2>2 DEF ProcessStep
<1>3. ASSUME NEW a \in Callers, EnsureAgent(a) PROVE LinkTyped'
  BY <1>1, <1>3 DEF EnsureAgent, ReuseAgent, DiscardAgent, Discarded, StartAgent, AwaitAgent,
                    Return, Hold, Wants
<1>4. ASSUME NEW c \in Clients, TestBackend(c) \/ Connect(c) \/ RequestReturns(c) \/ CloseConnection(c)
      PROVE  LinkTyped'
  <2>1. <<>> \in Seq(1..MaxBinds) /\ Len(<<>>) =< MaxBinds
    BY <1>0
  <2>2. CASE Connect(c)
    BY <1>0, <2>2 DEF Connect, Reachable
  <2>3. /\ conn' = conn \/ conn' = [conn EXCEPT ![c] = NoOne]
        /\ bound' = bound \/ bound' = [bound EXCEPT ![c] = <<>>]
        /\ bindings' = bindings \/ bindings' = [bindings EXCEPT ![c] = <<>>]
        => LinkTyped'
    <3>1. [bindings EXCEPT ![c] = <<>>] \in [Clients -> Seq(1..MaxBinds)]
      BY <1>0, <2>1
    <3>2. [bound EXCEPT ![c] = <<>>] \in [Clients -> Seq(1..MaxBinds)]
      BY <1>0, <2>1
    <3>3. \A d \in Clients : Len([bindings EXCEPT ![c] = <<>>][d]) =< MaxBinds
      BY <1>0, <2>1
    <3>4. [conn EXCEPT ![c] = NoOne] \in [Clients -> Agents \cup {NoOne, Dead}]
      BY <1>0
    <3> QED
      BY <1>0, <3>1, <3>2, <3>3, <3>4
  <2> QED
    BY <1>4, <2>2, <2>3 DEF TestBackend, RequestReturns, CloseConnection
<1>5. ASSUME NEW c \in Clients, Replay(c) PROVE LinkTyped'
  BY <1>0, <1>5 DEF Replay
<1>6. ASSUME NEW c \in Clients, Extension(c) PROVE LinkTyped'
  <2>1. PICK b \in 1..MaxBinds :
          /\ bindings' = [bindings EXCEPT ![c] = Append(bindings[c], b)]
          /\ bound' = bound \/ bound' = [bound EXCEPT ![c] = Append(bound[c], b)]
    BY <1>6 DEF Extension
  <2>2. Append(bindings[c], b) \in Seq(1..MaxBinds) /\ Append(bound[c], b) \in Seq(1..MaxBinds)
    BY <1>0
  <2>3. Len(bindings[c]) < MaxBinds /\ conn' = conn
    BY <1>6 DEF Extension
  <2>4. Len(Append(bindings[c], b)) =< MaxBinds
    BY <1>0, <2>3
  <2>5. \A d \in Clients : Len(bindings'[d]) =< MaxBinds
    BY <1>0, <2>1, <2>4
  <2>6. bindings' \in [Clients -> Seq(1..MaxBinds)] /\ bound' \in [Clients -> Seq(1..MaxBinds)]
    BY <1>0, <2>1, <2>2
  <2> QED
    BY <1>0, <2>3, <2>5, <2>6
<1>7. ASSUME NEW c \in Clients,
             GiveUp(c) \/ Sign(c) \/ Accept(c) \/ Disconnect(c) \/ Expire(c) \/ Admit(c)
      PROVE  LinkTyped'
  BY <1>1, <1>7 DEF GiveUp, Sign, Accept, Disconnect, Expire, Admit
<1>8. CASE WorkerStep
  BY <1>1, <1>8 DEF WorkerStep, Ensure, UnloadProvider, Forget, DialForKeys, ListKeys, LoadProvider,
              Prompt, SendSignature, SignatureLost, FailSigning, Report, Release, AgeEnds, WorkerFrame
<1>9. CASE AgeBegins \/ DaemonStep \/ SocketVanishes \/ Stop \/ StopReaps \/ UNCHANGED vars
  BY <1>1, <1>9 DEF AgeBegins, DaemonStep, Shutdown, Drained, SocketVanishes, Stop, StopReaps, vars
<1> QED
  BY <1>2, <1>3, <1>4, <1>5, <1>6, <1>7, <1>8, <1>9, Steps DEF ClientStep

LEMMA FlagTypedNext ==
  ASSUME BackendTypeOK, Next
  PROVE  FlagTyped'
<1> USE DEF FlagTyped, clientVars
<1>0. FlagTyped
  BY TypeParts
<1>1. ASSUME UNCHANGED <<left, over, answered>> PROVE FlagTyped'
  BY <1>0, <1>1
<1>2. ASSUME NEW p \in Agents, ProcessStep(p) PROVE FlagTyped'
  BY <1>1, <1>2 DEF ProcessStep, Listens, Exits, Signs
<1>3. ASSUME NEW a \in Callers, EnsureAgent(a) PROVE FlagTyped'
  BY <1>1, <1>3 DEF EnsureAgent, ReuseAgent, DiscardAgent, Discarded, StartAgent, AwaitAgent,
                    Return, Hold, Wants
<1>4. ASSUME NEW c \in Clients,
             \/ TestBackend(c) \/ Connect(c) \/ Replay(c) \/ GiveUp(c) \/ CloseConnection(c)
             \/ Sign(c) \/ Extension(c)
      PROVE  FlagTyped'
  BY <1>1, <1>4 DEF TestBackend, Connect, Replay, GiveUp, CloseConnection, Sign, Extension
<1>5. ASSUME NEW c \in Clients, Admit(c) PROVE FlagTyped'
  BY <1>0, <1>5 DEF Admit
<1>6. ASSUME NEW c \in Clients, Disconnect(c) PROVE FlagTyped'
  <2>1. (over[c] \/ pc[c] = "wait") \in BOOLEAN
    OBVIOUS
  <2> QED
    BY <1>0, <1>6, <2>1 DEF Disconnect
<1>7. ASSUME NEW c \in Clients, RequestReturns(c) \/ Accept(c) \/ Expire(c) PROVE FlagTyped'
  BY <1>0, <1>7 DEF RequestReturns, Accept, Expire
<1>8. CASE Report
  <2>1. (~GivenUp) \in BOOLEAN
    OBVIOUS
  <2> QED
    BY <1>0, <1>8, <2>1 DEF Report
<1>9. CASE WorkerStep /\ ~Report
  BY <1>1, <1>9 DEF WorkerStep, Ensure, UnloadProvider, Forget, DialForKeys, ListKeys, LoadProvider,
              Prompt, SendSignature, SignatureLost, FailSigning, Release, AgeEnds, WorkerFrame
<1>10. CASE Shutdown
  <2>1. \A c \in Clients : (over[c] \/ pc[c] = "wait") \in BOOLEAN
    OBVIOUS
  <2> QED
    BY <1>0, <1>10, <2>1 DEF Shutdown
<1>11. CASE AgeBegins \/ Drained \/ SocketVanishes \/ Stop \/ StopReaps \/ UNCHANGED vars
  BY <1>1, <1>11 DEF AgeBegins, Drained, SocketVanishes, Stop, StopReaps, vars
<1> QED
  BY <1>2, <1>3, <1>4, <1>5, <1>6, <1>7, <1>8, <1>9, <1>10, <1>11, Steps DEF ClientStep, DaemonStep

-----------------------------------------------------------------------------
(* The other parts of the invariant.                                       *)

\* A process is only started when the manager has reaped its last one.
LEMMA StrayPreserved ==
  ASSUME BackendTypeOK, StartInv, OneAgent, MuInv, Next
  PROVE  StartInv' /\ OneAgent'
<1> USE Distinct DEF StartInv, OneAgent, managerVars, agentVars
<1>0. ManagerTyped
  BY TypeParts
<1>1. ASSUME NEW p \in Agents, ProcessStep(p) PROVE StartInv' /\ OneAgent'
  BY <1>0, <1>1 DEF ProcessStep, Listens, Exits, Signs, ManagerTyped
<1>2. ASSUME NEW a \in Callers, EnsureAgent(a) PROVE StartInv' /\ OneAgent'
  BY <1>0, <1>2 DEF EnsureAgent, ReuseAgent, DiscardAgent, Discarded, StartAgent, AwaitAgent,
                    Return, Hold, Kill, Reap, Wants, ManagerTyped
<1>3. CASE ManagerStill
  BY <1>3 DEF ManagerStill
<1>4. CASE SocketVanishes \/ Stop \/ StopReaps
  BY <1>0, <1>4 DEF SocketVanishes, Stop, StopReaps, Kill, Reap, ManagerTyped
<1>5. CASE UNCHANGED vars
  BY <1>5 DEF vars
<1> QED
  BY <1>1, <1>2, <1>3, <1>4, <1>5, Steps, QuietSteps

\* Who holds mu does nothing but EnsureAgent.
LEMMA MuPreserved ==
  ASSUME BackendTypeOK, MuInv, IdleInv, Next
  PROVE  MuInv'
<1> USE Distinct DEF MuInv, OnReady, PcTyped
<1>0. PcTyped
  BY TypeParts
<1>1. ASSUME NEW p \in Agents, ProcessStep(p) PROVE MuInv'
  BY <1>0, <1>1 DEF ProcessStep, Listens, Exits, Signs, Goto, managerVars
<1>2. ASSUME NEW a \in Callers, EnsureAgent(a) PROVE MuInv'
  BY <1>0, <1>2 DEF EnsureAgent, ReuseAgent, DiscardAgent, Discarded, StartAgent, AwaitAgent,
                    Return, Hold, Wants
<1>3. ASSUME NEW c \in Clients, ClientStep(c) \/ Admit(c) PROVE MuInv'
  BY <1>0, <1>3 DEF ClientStep, TestBackend, Connect, Replay, GiveUp, RequestReturns, CloseConnection,
              Sign, Accept, Disconnect, Extension, Expire, Admit, Goto, managerVars, IdleInv
<1>4. CASE WorkerStep
  BY <1>0, <1>4 DEF WorkerStep, Ensure, UnloadProvider, Forget, DialForKeys, ListKeys, LoadProvider,
              Prompt, SendSignature, SignatureLost, FailSigning, Report, Release, AgeEnds, Goto,
              WorkerFrame, managerVars
<1>5. CASE AgeBegins \/ DaemonStep \/ SocketVanishes \/ Stop \/ StopReaps
  BY <1>0, <1>5 DEF AgeBegins, DaemonStep, Shutdown, Drained, SocketVanishes, Stop, StopReaps, Goto,
              managerVars, IdleInv
<1>6. CASE UNCHANGED vars
  BY <1>6 DEF vars, managerVars
<1> QED
  BY <1>1, <1>2, <1>3, <1>4, <1>5, <1>6, Steps

LEMMA IdlePreserved ==
  ASSUME BackendTypeOK, MuInv, IdleInv, Next
  PROVE  IdleInv'
<1> USE Distinct DEF IdleInv, PcTyped
<1>0. PcTyped
  BY TypeParts
<1>1. ASSUME NEW p \in Agents, ProcessStep(p) PROVE IdleInv'
  BY <1>0, <1>1 DEF ProcessStep, Listens, Exits, Signs, Goto
<1>2. ASSUME NEW a \in Callers, EnsureAgent(a) PROVE IdleInv'
  <2>1. token' = token
    BY <1>2 DEF EnsureAgent, ReuseAgent, DiscardAgent, Discarded, StartAgent, AwaitAgent,
                Return, Hold, Wants
  <2>2. pc[Worker] = "idle" => pc'[Worker] = "idle"
    BY <1>0, <1>2, EnsureReturns
  <2> QED
    BY <2>1, <2>2
<1>3. ASSUME NEW c \in Clients, ClientStep(c) \/ Admit(c) PROVE IdleInv'
  BY <1>0, <1>3 DEF ClientStep, TestBackend, Connect, Replay, GiveUp, RequestReturns, CloseConnection,
              Sign, Accept, Disconnect, Extension, Expire, Admit, Goto
<1>4. CASE WorkerStep
  BY <1>0, <1>4 DEF WorkerStep, Ensure, UnloadProvider, Forget, DialForKeys, ListKeys, LoadProvider,
              Prompt, SendSignature, SignatureLost, FailSigning, Report, Release, AgeEnds, Goto,
              WorkerFrame
<1>5. CASE AgeBegins \/ DaemonStep \/ SocketVanishes \/ Stop \/ StopReaps
  BY <1>0, <1>5 DEF AgeBegins, DaemonStep, Shutdown, Drained, SocketVanishes, Stop, StopReaps, Goto
<1>6. CASE UNCHANGED vars
  BY <1>6 DEF vars
<1> QED
  BY <1>1, <1>2, <1>3, <1>4, <1>5, <1>6, Steps

LEMMA BusyPreserved ==
  ASSUME BackendTypeOK, BusyInv, Next
  PROVE  BusyInv'
<1> USE Distinct DEF BusyInv, managerVars, agentVars
<1>0. ManagerTyped /\ DeviceTyped
  BY TypeParts
<1>1. ASSUME NEW p \in Agents, ProcessStep(p) PROVE BusyInv'
  BY <1>0, <1>1 DEF ProcessStep, Listens, Exits, Signs, ManagerTyped, DeviceTyped
<1>2. ASSUME NEW a \in Callers, EnsureAgent(a) PROVE BusyInv'
  BY <1>0, <1>2 DEF EnsureAgent, ReuseAgent, DiscardAgent, Discarded, StartAgent, AwaitAgent,
                    Return, Hold, Kill, Reap, Wants, ManagerTyped, DeviceTyped
<1>3. ASSUME UNCHANGED <<agent, busy, loaded>> PROVE BusyInv'
  BY <1>3
<1>4. ASSUME NEW c \in Clients, ClientStep(c) \/ Admit(c) PROVE BusyInv'
  BY <1>3, <1>4 DEF ClientStep, TestBackend, Connect, Replay, GiveUp, RequestReturns, CloseConnection,
              Sign, Accept, Disconnect, Extension, Expire, Admit
<1>5. CASE SendSignature \/ UnloadProvider \/ LoadProvider
  BY <1>0, <1>5 DEF SendSignature, UnloadProvider, LoadProvider, Responsive, ManagerTyped, DeviceTyped
<1>6. CASE WorkerStep /\ ~SendSignature /\ ~UnloadProvider /\ ~LoadProvider
  BY <1>3, <1>6 DEF WorkerStep, Ensure, Forget, DialForKeys, ListKeys, Prompt, SignatureLost, FailSigning, Report, Release, AgeEnds, Unaffected
<1>7. CASE AgeBegins \/ DaemonStep \/ SocketVanishes \/ UNCHANGED vars
  BY <1>3, <1>7 DEF AgeBegins, DaemonStep, Shutdown, Drained, SocketVanishes, vars
<1>8. CASE Stop \/ StopReaps
  BY <1>0, <1>8 DEF Stop, StopReaps, Kill, Reap, ManagerTyped, DeviceTyped
<1> QED
  BY <1>1, <1>2, <1>4, <1>5, <1>6, <1>7, <1>8, Steps

\* A connection in use has been told what is bound: EnsureAgent touches no
\* connection, and an agent that ends takes its connections with it.
LEMMA LinkPreserved ==
  ASSUME BackendTypeOK, MuInv, LinkInv, Next
  PROVE  LinkInv'
<1> USE Distinct DEF LinkInv, LinkOf, PcTyped, LinkTyped, clientVars
<1>0. PcTyped /\ LinkTyped
  BY TypeParts
<1>1. ASSUME UNCHANGED <<bindings, bound, conn>>, \A c \in Clients : pc'[c] = pc[c]
      PROVE  LinkInv'
  BY <1>1
<1>2. ASSUME NEW p \in Agents, ProcessStep(p) PROVE LinkInv'
  <2>1. CASE Exits(p)
    BY <1>0, <2>1 DEF Exits
  <2>2. CASE Listens(p) \/ Signs(p)
    BY <1>0, <2>2 DEF Listens, Signs, Goto
  <2> QED
    BY <1>2, <2>1, <2>2 DEF ProcessStep
<1>3. ASSUME NEW a \in Callers, EnsureAgent(a) PROVE LinkInv'
  <2>1. UNCHANGED <<bindings, bound, conn>>
    BY <1>3 DEF EnsureAgent, ReuseAgent, DiscardAgent, Discarded, StartAgent, AwaitAgent,
                Return, Hold, Wants
  <2>2. CASE a \in Clients
    <3>1. pc[a] \in {"dial", "unloading", "looking", "checking"} => pc[a] = "dial"
      BY <1>0, <2>2
    <3>2. \/ pc' = pc
          \/ pc[a] = "dial" /\ pc' = [pc EXCEPT ![a] = "connect"]
          \/ pc[a] = "dial" /\ pc' = [pc EXCEPT ![a] = "idle"]
      <4> HIDE DEF LinkInv, LinkOf, PcTyped, LinkTyped
      <4> QED
        BY <1>3, <3>1, EnsureReturns DEF OnReady, OnError
    <3> QED
      BY <1>0, <2>1, <2>2, <3>2
  <2>3. CASE a = Worker
    <3>1. \A c \in Clients : pc'[c] = pc[c]
      BY <1>0, <1>3, <2>3, EnsureReturns
    <3> QED
      BY <1>1, <2>1, <3>1
  <2> QED
    BY <2>2, <2>3 DEF Callers
<1>4. ASSUME NEW c \in Clients, TestBackend(c) \/ Connect(c) \/ Replay(c) PROVE LinkInv'
  BY <1>0, <1>4 DEF TestBackend, Connect, Replay, Goto
<1>5. ASSUME NEW c \in Clients, RequestReturns(c) \/ CloseConnection(c) PROVE LinkInv'
  <2>1. CASE RequestReturns(c) /\ over[c]
    BY <1>0, <2>1 DEF RequestReturns, Goto
  <2>2. CASE RequestReturns(c) /\ ~over[c]
    BY <1>0, <2>2 DEF RequestReturns, Goto
  <2>3. CASE CloseConnection(c)
    <3>1. \A d \in Clients \ {c} :
            /\ pc'[d] = pc[d] /\ conn'[d] = conn[d] /\ bound'[d] = bound[d]
            /\ bindings'[d] = bindings[d]
      BY <1>0, <2>3 DEF CloseConnection, Goto
    <3>2. conn'[c] = NoOne
      BY <1>0, <2>3 DEF CloseConnection
    <3> QED
      BY <3>1, <3>2
  <2> QED
    BY <1>5, <2>1, <2>2, <2>3
<1>6. ASSUME NEW c \in Clients, Extension(c) PROVE LinkInv'
  <2>1. PICK b \in 1..MaxBinds :
          /\ bindings' = [bindings EXCEPT ![c] = Append(bindings[c], b)]
          /\ \/ conn[c] = NoOne /\ bound' = bound
             \/ Responsive(conn[c]) /\ bound' = [bound EXCEPT ![c] = Append(bound[c], b)]
    BY <1>6 DEF Extension
  <2>2. pc[c] = "idle" /\ UNCHANGED <<pc, conn>>
    BY <1>6 DEF Extension
  <2>3. LinkOf(c)'
    BY <1>0, <2>1, <2>2
  <2>4. \A d \in Clients \ {c} : bindings'[d] = bindings[d] /\ bound'[d] = bound[d]
    BY <1>0, <2>1
  <2> QED
    BY <2>2, <2>3, <2>4
<1>7. ASSUME NEW c \in Clients, GiveUp(c) \/ Sign(c) \/ Accept(c) \/ Admit(c) PROVE LinkInv'
  BY <1>0, <1>7 DEF GiveUp, Sign, Accept, Admit, Goto
<1>8. ASSUME NEW c \in Clients, Disconnect(c) \/ Expire(c) PROVE LinkInv'
  BY <1>1, <1>8 DEF Disconnect, Expire
<1>9. CASE WorkerStep
  <2>1. \A c \in Clients : pc'[c] = pc[c]
    BY <1>0, <1>9 DEF WorkerStep, Ensure, UnloadProvider, Forget, DialForKeys, ListKeys, LoadProvider,
              Prompt, SendSignature, SignatureLost, FailSigning, Report, Release, AgeEnds, Goto
  <2>2. UNCHANGED <<bindings, bound, conn>>
    BY <1>9 DEF WorkerStep, Ensure, UnloadProvider, Forget, DialForKeys, ListKeys, LoadProvider,
              Prompt, SendSignature, SignatureLost, FailSigning, Report, Release, AgeEnds, WorkerFrame
  <2> QED
    BY <1>1, <2>1, <2>2
<1>10. CASE AgeBegins \/ DaemonStep \/ SocketVanishes \/ Stop \/ StopReaps
  BY <1>0, <1>1, <1>10 DEF AgeBegins, DaemonStep, Shutdown, Drained, SocketVanishes, Stop, StopReaps, Goto
<1>11. CASE UNCHANGED vars
  BY <1>1, <1>11 DEF vars
<1> QED
  BY <1>2, <1>3, <1>4, <1>5, <1>6, <1>7, <1>8, <1>9, <1>10, <1>11, Steps DEF ClientStep

\* The manager's questions are only answered once the agent, the only one
\* there is, is done with what it was asked before.
LEMMA TouchPreserved ==
  ASSUME BackendTypeOK, OneAgent, MuInv, BusyInv, TouchInv, Next
  PROVE  TouchInv'
<1> USE Distinct DEF TouchInv, PcTyped, DeviceTyped, agentVars
<1>0. PcTyped /\ DeviceTyped /\ ManagerTyped
  BY TypeParts
<1>1. ASSUME UNCHANGED <<busy, peer>>, pc'[Worker] = pc[Worker] PROVE TouchInv'
  BY <1>1
<1>2. ASSUME UNCHANGED <<busy, peer>>, pc'[Worker] \notin {"prompt", "call", "signing"} PROVE TouchInv'
  BY <1>2
<1>3. ASSUME NEW p \in Agents, ProcessStep(p) PROVE TouchInv'
  <2>1. CASE Exits(p)
    BY <1>0, <2>1 DEF Exits
  <2>2. CASE Signs(p)
    BY <1>0, <2>2 DEF Signs, Goto
  <2>3. CASE Listens(p)
    BY <1>1, <2>3 DEF Listens
  <2> QED
    BY <1>3, <2>1, <2>2, <2>3 DEF ProcessStep
<1>4. ASSUME NEW a \in Callers, EnsureAgent(a) PROVE TouchInv'
  <2>1. UNCHANGED <<busy, peer>>
    BY <1>4 DEF EnsureAgent, ReuseAgent, DiscardAgent, Discarded, StartAgent, AwaitAgent,
                Return, Hold, Wants
  <2>2. CASE a \in Clients
    <3>1. pc'[Worker] = pc[Worker]
      BY <1>0, <1>4, <2>2, EnsureReturns
    <3> QED
      BY <1>1, <2>1, <3>1
  <2>3. CASE a = Worker
    <3>1. pc'[Worker] = pc[Worker] \/ pc'[Worker] \in {"unload", "look", "check", "forget", "report"}
      BY <1>0, <1>4, <2>3, EnsureReturns DEF OnReady, OnError
    <3> QED
      BY <1>1, <1>2, <2>1, <3>1
  <2> QED
    BY <2>2, <2>3 DEF Callers
<1>5. ASSUME NEW c \in Clients, ClientStep(c) PROVE TouchInv'
  BY <1>0, <1>1, <1>5 DEF ClientStep, TestBackend, Connect, Replay, GiveUp, RequestReturns, CloseConnection,
              Sign, Accept, Disconnect, Extension, Expire, Goto
<1>6. ASSUME NEW c \in Clients, Admit(c) PROVE TouchInv'
  BY <1>0, <1>2, <1>6 DEF Admit
<1>7. CASE ListKeys
  <2>1. UNCHANGED busy
    BY <1>7 DEF ListKeys, Unaffected
  <2>2. CASE Responsive(peer)
    <3>1. \A p \in Agents : p # peer => agent[p] = "none"
      BY <2>2 DEF OneAgent, Responsive
    <3>2. \A p \in Agents : busy[p] = NoOne
      BY <2>2, <3>1 DEF BusyInv, Responsive
    <3> QED
      BY <2>1, <3>2
  <2>3. CASE ~Responsive(peer)
    <3>1. pc' = [pc EXCEPT ![Worker] = "report"]
      BY <1>7, <2>3 DEF ListKeys
    <3> QED
      BY <1>0, <2>1, <3>1
  <2> QED
    BY <2>2, <2>3
<1>8. CASE SendSignature
  <2>1. \A p \in Agents : pc[Worker] = "call" => busy[p] = NoOne
    OBVIOUS
  <2> QED
    BY <1>0, <1>8, <2>1 DEF SendSignature, Responsive, Goto
<1>9. CASE Prompt
  BY <1>0, <1>9 DEF Prompt, Unaffected
<1>10. CASE DialForKeys("look", "list") \/ DialForKeys("check", "verify")
  <2>1. UNCHANGED busy /\ pc'[Worker] \notin {"prompt", "call", "signing"}
    BY <1>0, <1>10 DEF DialForKeys, Goto, Unaffected
  <2> QED
    BY <2>1
<1>11. CASE \/ Ensure \/ UnloadProvider \/ Forget \/ LoadProvider \/ SignatureLost \/ FailSigning
            \/ Report \/ Release \/ AgeEnds
  <2>1. UNCHANGED busy /\ pc'[Worker] \notin {"prompt", "call", "signing"}
    BY <1>0, <1>11 DEF Ensure, UnloadProvider, Forget, LoadProvider, SignatureLost, FailSigning,
                       Report, Release, AgeEnds, Goto, Unaffected
  <2> QED
    BY <2>1
<1>12. CASE AgeBegins
  BY <1>0, <1>2, <1>12 DEF AgeBegins
<1>13. CASE DaemonStep \/ SocketVanishes \/ Stop \/ StopReaps
  BY <1>0, <1>1, <1>13 DEF DaemonStep, Shutdown, Drained, SocketVanishes, Stop, StopReaps, Goto
<1>14. CASE UNCHANGED vars
  BY <1>1, <1>14 DEF vars
<1> QED
  BY <1>3, <1>4, <1>5, <1>6, <1>7, <1>8, <1>9, <1>10, <1>11, <1>12, <1>13, <1>14, Steps DEF WorkerStep

\* Only a server that serves accepts connections.
LEMMA DrainPreserved ==
  ASSUME BackendTypeOK, MuInv, DrainInv, Next
  PROVE  DrainInv'
<1> USE Distinct DEF DrainInv, PcTyped
<1>0. PcTyped
  BY TypeParts
<1>1. ASSUME pc'[Daemon] = pc[Daemon], \A c \in Clients : pc[c] = "closed" => pc'[c] = "closed"
      PROVE  DrainInv'
  BY <1>1
<1>2. ASSUME NEW p \in Agents, ProcessStep(p) PROVE DrainInv'
  BY <1>0, <1>1, <1>2 DEF ProcessStep, Listens, Exits, Signs, Goto
<1>3. ASSUME NEW a \in Callers, EnsureAgent(a) PROVE DrainInv'
  BY <1>0, <1>1, <1>3, EnsureReturns
<1>4. ASSUME NEW c \in Clients, (ClientStep(c) /\ ~Accept(c)) \/ Admit(c) PROVE DrainInv'
  BY <1>0, <1>1, <1>4 DEF ClientStep, TestBackend, Connect, Replay, GiveUp, RequestReturns, CloseConnection,
              Sign, Disconnect, Extension, Expire, Admit, Goto
<1>5. ASSUME NEW c \in Clients, Accept(c) PROVE DrainInv'
  BY <1>0, <1>5 DEF Accept, Goto
<1>6. CASE WorkerStep \/ AgeBegins
  BY <1>0, <1>1, <1>6 DEF WorkerStep, Ensure, UnloadProvider, Forget, DialForKeys, ListKeys, LoadProvider,
              Prompt, SendSignature, SignatureLost, FailSigning, Report, Release, AgeEnds, AgeBegins, Goto
<1>7. CASE DaemonStep \/ Stop \/ StopReaps
  BY <1>0, <1>7 DEF DaemonStep, Shutdown, Drained, Stop, StopReaps, Goto
<1>8. CASE SocketVanishes \/ UNCHANGED vars
  BY <1>1, <1>8 DEF SocketVanishes, vars
<1> QED
  BY <1>2, <1>3, <1>4, <1>5, <1>6, <1>7, <1>8, Steps

\* With its client gone the worker's context is over: it loads no provider and
\* has no connection to sign on.
LEMMA LatePreserved ==
  ASSUME BackendTypeOK, OneAgent, MuInv, BusyInv, DrainInv, LateInv, Next
  PROVE  LateInv'
<1> USE Distinct DEF LateInv, DrainInv, PcTyped, managerVars, agentVars
<1>0. PcTyped /\ ManagerTyped /\ DeviceTyped
  BY TypeParts
<1>1. ASSUME pc'[Daemon] = "stopped" => pc[Daemon] = "stopped", UNCHANGED <<loaded, busy>> PROVE LateInv'
  BY <1>1
<1>2. ASSUME NEW p \in Agents, ProcessStep(p) PROVE LateInv'
  BY <1>0, <1>2 DEF ProcessStep, Listens, Exits, Signs, Goto, DeviceTyped
<1>3. ASSUME NEW a \in Callers, EnsureAgent(a) PROVE LateInv'
  <2>1. pc'[Daemon] = pc[Daemon]
    BY <1>0, <1>3, EnsureReturns
  <2>2. UNCHANGED <<loaded, busy>>
    BY <1>3 DEF EnsureAgent, ReuseAgent, DiscardAgent, Discarded, StartAgent, AwaitAgent,
                Return, Hold, Wants
  <2> QED
    BY <1>1, <2>1, <2>2
<1>4. ASSUME NEW c \in Clients, ClientStep(c) \/ Admit(c) PROVE LateInv'
  BY <1>0, <1>1, <1>4 DEF ClientStep, TestBackend, Connect, Replay, GiveUp, RequestReturns, CloseConnection,
              Sign, Accept, Disconnect, Extension, Expire, Admit, Goto
<1>5. pc[Daemon] = "stopped" => GivenUp /\ WorkerContextDone
  BY DEF GivenUp, WorkerContextDone, Awaiting
<1>6. CASE SendSignature \/ UnloadProvider \/ LoadProvider
  BY <1>0, <1>5, <1>6 DEF SendSignature, UnloadProvider, LoadProvider, Backend, Responsive, Goto
<1>7. CASE WorkerStep /\ ~SendSignature /\ ~UnloadProvider /\ ~LoadProvider
  BY <1>0, <1>1, <1>7 DEF WorkerStep, Ensure, Forget, DialForKeys, ListKeys, Prompt, SignatureLost,
              FailSigning, Report, Release, AgeEnds, Goto, Unaffected
<1>8. CASE AgeBegins \/ DaemonStep \/ SocketVanishes \/ UNCHANGED vars
  BY <1>0, <1>1, <1>8 DEF AgeBegins, DaemonStep, Shutdown, Drained, SocketVanishes, vars, Goto
<1>9. CASE Stop \/ StopReaps
  <2>1. CASE Stop /\ cmd # NoOne
    BY <1>0, <1>1, <2>1 DEF Stop, Goto
  <2>2. CASE Stop /\ cmd = NoOne
    <3>1. \A p \in Agents : busy[p] = NoOne /\ p \notin loaded
      BY <1>0, <2>2 DEF OneAgent, BusyInv
    <3> QED
      BY <1>0, <2>2, <3>1 DEF Stop, ManagerTyped
  <2>3. CASE StopReaps
    <3>1. \A p \in Agents : agent[p] \in {"none", "exited"}
      BY <1>0, <2>3 DEF OneAgent, StopReaps, Reap
    <3>2. \A p \in Agents : busy[p] = NoOne /\ p \notin loaded
      BY <3>1 DEF BusyInv
    <3> QED
      BY <1>0, <2>3, <3>2 DEF StopReaps, ManagerTyped
  <2> QED
    BY <1>9, <2>1, <2>2, <2>3
<1> QED
  BY <1>2, <1>3, <1>4, <1>6, <1>7, <1>8, <1>9, Steps

-----------------------------------------------------------------------------
LEMMA BInvInit == Init => BInv
<1> SUFFICES ASSUME Init PROVE BInv
  OBVIOUS
<1> USE Distinct DEF Init
<1>1. ManagerTyped /\ DeviceTyped /\ FlagTyped
  BY DEF ManagerTyped, DeviceTyped, FlagTyped
<1>2. PcTyped
  BY DEF PcTyped
<1>3. LinkTyped
  <2>1. <<>> \in Seq(1..MaxBinds) /\ Len(<<>>) =< MaxBinds
    BY BindsAssumption
  <2> QED
    BY <2>1 DEF LinkTyped
<1>4. StartInv /\ OneAgent /\ MuInv /\ IdleInv /\ BusyInv /\ LinkInv /\ TouchInv
       /\ DrainInv /\ LateInv
  BY DEF StartInv, OneAgent, MuInv, IdleInv, BusyInv, LinkInv, LinkOf, TouchInv, DrainInv, LateInv
<1> QED
  BY <1>1, <1>2, <1>3, <1>4, TypeParts DEF BInv

LEMMA BInvNext == BInv /\ [Next]_vars => BInv'
<1> SUFFICES ASSUME BInv, [Next]_vars PROVE BInv'
  OBVIOUS
<1>1. CASE Next
  <2>1. BackendTypeOK'
    BY <1>1, TypePartsNext, ManagerTypedNext, DeviceTypedNext, PcTypedNext, LinkTypedNext, FlagTypedNext
       DEF BInv
  <2> QED
    BY <1>1, <2>1, StrayPreserved, MuPreserved, IdlePreserved, BusyPreserved, LinkPreserved,
       TouchPreserved, DrainPreserved, LatePreserved DEF BInv
<1>2. CASE UNCHANGED vars
  BY <1>2 DEF vars, managerVars, agentVars, clientVars, BInv, BackendTypeOK, StartInv, OneAgent,
              MuInv, IdleInv, BusyInv, LinkInv, LinkOf, TouchInv, DrainInv, LateInv
<1> QED
  BY <1>1, <1>2

LEMMA BInvariance == Spec => []BInv
BY BInvInit, BInvNext, PTL DEF Spec

\* Every variable stays in its type: no list of bindings outgrows its limit, no
\* connection leads to a process that there never was.
THEOREM BackendTyping == Spec => []BackendTypeOK
<1>1. BInv => BackendTypeOK
  BY DEF BInv
<1> QED
  BY <1>1, BInvariance, PTL

\* Through crashes, lost sockets, failed starts and Stop there is never an
\* ssh-agent process but the one the manager holds and will reap, and one that is
\* started after Stop holds no key and signs nothing (EnsureAgent,
\* discardUnavailableAgentLocked, Stop).
THEOREM NoAgentIsStray == Spec => []NoStrayAgent
<1>1. BInv => NoStrayAgent
  BY DEF BInv, OneAgent, LateInv, NoStrayAgent
<1> QED
  BY <1>1, BInvariance, PTL

\* A request that waits for its signature does so on a connection that has been
\* told all session-bind extensions of its client, in order and nothing else
\* (connectBackendLocked, Extension).
THEOREM BindingsReplayed == Spec => []SessionBindIsReplayed
<1>1. BInv => SessionBindIsReplayed
  BY DEF BInv, LinkInv, LinkOf, SessionBindIsReplayed
<1> QED
  BY <1>1, BInvariance, PTL

\* While an SSH request prompts for its touch, no abandoned signature of another
\* request is still at the device (Manager.Ensure, targetLoaded).
THEOREM TouchBelongs == Spec => []TouchIsItsOwn
<1>1. BInv => TouchIsItsOwn
  BY DEF BInv, TouchInv, TouchIsItsOwn
<1> QED
  BY <1>1, BInvariance, PTL
=============================================================================
