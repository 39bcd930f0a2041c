# YubiTouch in TLA+

Specifications, model checks and proofs for the concurrent core of YubiTouch: the
macOS daemon that puts a YubiKey behind an SSH agent and an age plugin, shows a
panel while the key waits for a touch, and hands the public agent socket over to
1Password while no YubiKey is present. Paths below are relative to `src/` unless
they are modules of this directory.

1. [The system](#the-system)
2. [Modules and how they correspond to the code](#modules-and-how-they-correspond-to-the-code)
3. [Runs](#runs)
4. [Fairness](#fairness)
5. [Proofs](#proofs)
6. [Where code and documents disagree](#where-code-and-documents-disagree)
7. [What is not modelled](#what-is-not-modelled)
8. [Plan](#plan)

## The system

One daemon (`internal/daemon`) owns everything. Its parts:

| part | state | operations | talks to |
|---|---|---|---|
| signing coordinator `internal/signing` | a semaphore of one token, the active request and its cancel function, per request a result channel and an event gate | `RunCancelableFor`, `Cancel`, `CancelCurrent` | called by agent proxy and age service; calls the backend manager; publishes to the sinks (state file, panel) |
| touch panel `internal/ui`, `native/macos/yubitouch.m` | what is on screen, the request it is for, the generation of a delayed hide, the button, the stored click | `Handle`, main-queue blocks, `watchCancellation` | sink of the coordinator; calls `Cancel` |
| state file `internal/state` | one JSON file | `Handle`, `SetRoute`, `HandleAge` | sink of the coordinator and the router; read by `test-sign` |
| age hardware session manager `internal/agehelper/hardware_session_manager.go` | one helper process, one active call, `closed`, `poisoned`, two mutexes | `Start`, `WaitReady`, `Wait`, `Cancel`, `CancelCurrent`, `Invalidate`, `Close` | called by the age service and by the device watcher; owns a child process |
| age helper session `hardware_session_helper.go` | PKCS#11 login, bound configuration, replay guard | one request at a time over two pipes | child of the manager, parent of the PIN resolver; takes the lock of the configuration |
| PIN resolver `pin_resolver_process.go` | a configuration snapshot of its own, its answer | one prompt | child of the helper, which it watches |
| one-shot runner `agehelper/runner.go`, `ageprobe/runner.go` | the call, its context, `preCanceled` | `Start`, `WaitReady`, `ContinueAndWait`, `Wait`, `Cancel`, `CancelCurrent` | used by the age service for the recovery path and for probes; owns a child process |
| configuration `internal/config` | one file and an advisory lock beside it | `Load`, `Configure`, `CacheAgePublicKey`, `AcquireSharedLock` | written by commands, read by daemon and helpers, edited by hand |
| parent watch `internal/parentwatch` | a pipe the parent holds open | the end of the process with its parent | every helper |
| age service `internal/ageservice`, IPC server `internal/ageipc` | connections up to a limit, a context per request, the two-probe decision | `Serve`, `Unwrap`, `CancelCurrent` | uses coordinator, manager, probes, one-shot helpers |
| agent router `internal/agentroute` | the public symbolic link, the route guard file, the zero-probe count | `Initialize`, `Run`, `FailClosed`, `FailClosedFromGuard`, `FailClosedBeforeStart` | listens to device events; writes the state file |
| device events `internal/daemon/device_events.go`, `native/macos/yubikey.m` | cached presence, channels of capacity one | fan-out, session watcher | feeds router and session manager |
| agent proxy `internal/agentproxy` | per connection a backend connection and the session-bind extensions it must replay there | one goroutine and one watcher per client connection | calls coordinator and backend manager |
| backend manager `internal/backend` | private `ssh-agent`, loaded provider, `invalid` | `EnsureAgent`, `Ensure`, `Invalidate`, `Stop` | child process |
| other commands, launch agent, ssh configuration, diagnostics | files | sequential | |

`PROJECT.json` lists every part with the source files it consists of.

What makes the system hard, and what correctness means for each part:

* **Coordinator.** Every request is two goroutines. The caller may give up
  (timeout, cancel button, client gone) while the worker is stuck in the device.
  The token must stay with the worker, the events of both must form one lawful
  sequence, the outcome told must be the outcome published, a cancel must hit the
  request it names, and nobody may wait forever.
* **Panel.** Events of different requests reach the main thread in the order the
  goroutines published them, hides fire up to 2 s later, clicks are polled every
  50 ms. The prompt on screen must be the one of the request that waits for its
  touch, and a click must reach that request.
* **State file.** The reader is another process, and looks later.
* **Session manager.** Failure, cancellation, timeout, invalidation, shutdown and
  the death of the child race with each other under two mutexes. At most one
  helper may hold the device, no failure may be reported before the helper is
  reaped, a poisoned manager must stay shut, nobody may deadlock.
* **Router.** The link and the guard survive a `kill -9`, writes fail half way,
  events coalesce. A fallback route must always be covered by a guard that names
  it, and must never outlive a start, a stop or an unnoticed YubiKey.
* **Proxy and backend.** One private `ssh-agent` serves all clients one message at a
  time, and goes on with a signature nobody waits for. It may crash, lose its socket
  or hang while several goroutines want it. There must never be two, a new backend
  connection must have been told every session-bind first, and a touch must not be
  taken by a signature that was given up.
* **Age service.** A request may end while it is accepted, probes, waits for the
  interval, queues, computes or shuts down. Its end must spare other requests, and
  must leave no authenticated helper behind; the recovery key must only be used when
  the YubiKey was away twice.

* **Helper session.** It stays logged in between requests while "configure", "age"
  and an editor rewrite the configuration, its parent may die, its PIN prompt is
  another process, and it releases its lock while the user is asked to touch the key.
  It must only derive with the PIN and the target of one configuration that is still
  on disk, hand over no key it has not been told to continue with, and outlive nobody.
* **One-shot runner.** `CancelCurrent` may come before, during and after `Start`; the
  caller, the exchange and the context watcher close the same pipes. Whoever returns
  last, the process must be reaped.
* **Configuration.** "age" reads a key from the card for seconds without the lock, and
  then caches it. No update may be lost and no key cached for another target.

## Modules and how they correspond to the code

| module | models | how |
|---|---|---|
| `TouchGate` | what `internal/signing` promises | abstract: admit one, complete, vacate, tell one outcome |
| `TouchEvents` | what a sink of the coordinator sees | abstract event stream: per request initializing, waiting, one outcome |
| `Coordinator` | `signing/coordinator.go` | `caller[r]` and `worker[r]` are program counters between blocking points; `gate` is `requestEvents.mu`, `terminal` its flag; implements `TouchGate` and `TouchEvents` |
| `CoordinatorProofs` | | theorems on `Coordinator` and `SigningStatus` |
| `TouchPanel` | `ui/app.go`, `yubitouch.m`, `native.go` | `TouchEvents` composed with the panel: `drawn` counts the blocks the main queue has run, `hides` the delayed hides pending |
| `TouchPanelProofs` | | theorems |
| `SigningStatus` | `state/state.go`, `command.go` (`test-sign`) | the state file as the first sink of `Coordinator`, read by `test-sign` in any later state; the moment at which `test-sign` began is any number of written events before the first of its own |
| `HardwareManager` | `agehelper/hardware_session_manager.go` | `caller`, `exchange`, `watch` per call, `reader` and `phase` per helper process, `outsider` for Invalidate, Close and CancelCurrent |
| `HardwareManagerProofs` | | theorems |
| `AgeDecrypt` | `ageservice/service.go` (`unwrapHardware`), `daemon.go` (`ageRunner`) | `Coordinator` with age requests that share one helper: `killed` are the calls an invalidation has ended, `session` is the request the retained helper last served |
| `AgeService` | `ageipc/server.go`, `ageservice/service.go` | `AgeDecrypt` with the connection in front: `handler[r]` is where the goroutine of a connection is, `over[r]` its context, `found[r]` what its probe saw; `absence` records when the device was away |
| `AgeServiceProofs` | | theorems |
| `SigningBackend` | `agentproxy/proxy.go`, `backend/manager.go` | per client slot a program counter, its bindings and its backend connection; `mu` and `phase` are `EnsureAgent` under its mutex; the worker of the admitted request runs `Ensure` and the signature; `agent`, `busy`, `socket` are `ssh-agent` |
| `SigningBackendProofs` | | theorems |
| `AgentRouter` | `agentroute/router.go`, `guard.go`, start and stop in `daemon.go` | disk variables survive `Crash`; a failing file system call is an outcome of `AtomicRoute` and charged to `faults` |
| `AgentRouterProofs` | | theorems |
| `ConfigFile` | `config/config.go` | the file as a generation, a target, a cached key and whether it is whole; the lock is `shared` and `exclusive`; `writer[w]` is where a configure, an age command or an editor is, any of which may be killed |
| `HelperContract` | what `HardwareManager` takes for granted of its helper | abstract: ask, ready, continue, answer, end |
| `HelperProcess` | `hardware_session_helper.go`, `pin_resolver_process.go`, `helper.go`, `ageprobe/helper.go`, `agehardware/backend.go`, `parentwatch/watch.go` | `helper.pc` is where the process is in its loop, `resolver.at` where its PIN resolver is; `down` and `up` are the two pipes |
| `AgeHelpers` | `agehelper/runner.go`, `ageprobe/runner.go`, the pipes and the process of `HardwareManager` | `HelperProcess` with its parent: for a session what the manager does to the pipes, for one request the caller, the exchange, the watcher and the canceler of the runner; the daemon may die; implements `HelperContract` |
| `AgeHelpersProofs`, `AgeContractProofs` | | theorems |
| `MC*` | | small instances for TLC |

Atomicity: one action is what runs between two points where another goroutine can
interfere (a channel operation, a lock region, a blocking call). `Start` of the
session manager holds both mutexes throughout, so its parts are separate steps
under held locks. `setRoute` of the router is one step, because what others can
see of it is one `rename`; its error paths are the outcomes of that step. In the
helper process an inspection of the configuration and the frame or the card access
after it are one step as long as the lock is held, which keeps everyone out but an
editor, and an editor is what the properties excuse.

Abstractions of data: request identities are model values; a touch, a PIN, a file
key or a signature is the fact that a call returned; the presence of the YubiKey
is a Boolean with an error flag; a configuration is whether the fallback is
enabled and which path it names, or broken (for the router), or a generation with a
target and the key cached for it (for the helpers); a probe finds the device connected, absent
or is unclear; a session-bind is a number. The two frames a helper sends before
the touch are one `ready` frame in `HardwareManager` and two in `AgeHelpers`. What is
done to the card is a call that returns or fails, in the order the code makes the calls.

Definitions marked "Seeded bug" are never used by the specifications. Each is a
plausible mistake in one definition (a guard dropped, a reset missing, an order
swapped), and `PROJECT.json` names the property that catches it, so that no
property is listed that no mistake could break.

## Runs

| run | spec | instance | question |
|---|---|---|---|
| `signing_safety` | `Spec` | 2 SSH requests, 1 sink | is the device held by one operation until its worker is done; are events lawful, final and published; does a cancel hit its target; does the coordinator implement `TouchGate` and `TouchEvents`; does `test-sign` read its own failure, and never an old one |
| `signing_live` | `FairSpec` | 1 SSH and 1 age request, no sink | does every request return even with a hung device; does the token come back |
| `panel` | `FairSpec` | 2 requests | is the prompt truthful and shown, do clicks arrive, does every outcome go away |
| `helper_safety` | `Spec` | 2 requests, 1 outsider, limit 2 | one helper, none after a close, failures only after reaping, invalidation reaps, no helper lost |
| `helper_live` | `FairSpec` | limit 1; 2 requests, or 1 request and 2 outsiders | no deadlock between lifecycle, mu, exchange, watcher, reader |
| `age_service` | `ServiceSpec` | 2 age requests, limit 1 or 2 | recovery only after two absences; no session of a request that failed; who may end whose call |
| `age_late` | `AgeSpec` | 2 age requests | violated on purpose |
| `router` | `FairSpec` | 1 path, 2 notifications in flight, 1 fault | guard before route, stop withdraws, no missed card, debounce; does the right route win in the end |
| `router_removal` | `Spec` | 1 path, no faults | violated on purpose |
| `backend` | `FairSpec` | 1 client slot, 2 process identities, 2 bindings | one agent at a time, and no key or signature after a stop; complete replays, no stolen touch, every signature request returns |
| `backend_device` | `Spec` | 2 client slots, 1 binding | violated on purpose |
| `age_helpers` | `FairSpec` | 4 modes; 2 requests; 3 writers, 2 at a time | one PIN and one configuration per session, no lost update, no key of another target, no process left behind, every process ends, writers get their turn; does the helper implement `HelperContract` |

Why the bounds are enough:

* *Two requests.* The coordinator has one token and one active slot: a third
  request can only queue behind them, and no code counts or iterates requests.
  For the panel, one earlier request with its late outcome and pending hide plus the
  one on display is every pair of generations the code compares. The theorems about
  both hold for any number.
* *One outsider per request pair, or two with one request.* Outsiders exclude each
  other by `lifecycle`; two are needed for one to arrive while another reaps.
* *Request limit 1 and 2.* Limit 2 lets a helper be reused, limit 1 makes the
  second request retire the first helper. The code compares with the limit once.
* *Depth 2.* Two notifications on their way and one in the channel of capacity one:
  enough for a notification to be dropped while another is buffered.
* *One path and one fault in `router`.* That the guard covers the link through
  setRoute's own error paths, that a stop leaves no fallback and that a start withdraws
  it are proved for any number of paths and faults, and so are the properties about
  notifications and counts, for any `Depth` and any `DebounceCount` above one.
* *DebounceCount 2.* The default of the code, which the daemon does not change
  (`router.go:25`), and the smallest count with a debounce at all.
* *One client slot in `backend`.* A slot is used by one connection after the other
  and its worker outlives its request, so an abandoned operation meets the next client
  already. Two slots that interleave are too slow for liveness; the safety properties
  are proved for any number of slots, process identities and bindings, and
  `backend_device` has two.
* *Two process identities.* The manager may lose one and start the other; an identity
  is free again once reaped. With a third nothing new is comparable.
* *Two bindings.* Enough for an order and for a full list.
* *Two age requests, limit 1 or 2* (the daemon has 4). Whose helper call is ended by
  whom is a question between two; limit 1 has the server refuse the second. The
  theorems hold for any number and any limit.
* *`age_helpers`: two requests, replay limit 2, two targets.* A retained session differs
  from a new one from its second request on; at the limit a third is refused. A
  session meets two of the three kinds of writers at a time, because the lock and the
  target are compared between two of them; a helper for one request takes no lock and
  meets the editor. The theorems hold for any number of writers, requests and targets.

The type invariants of `Coordinator`, `TouchPanel`, `AgentRouter`, `SigningBackend` and
`AgeService` are theorems (those of `HardwareManager` and of the helper processes are
part of their inductive invariants); no run spends time on them.

Where the model stops because its requests are used up an `AllOver` step stutters,
so TLC checks for deadlock in every run except `panel` (a stopped panel has stopped)
and `age_helpers` (a helper that is gone, with its requests used up, is the end).

## Fairness

* *Coordinator*: per request one weak fairness over all that its two goroutines can
  do without the outside world, and its deadline. The Go scheduler starves no
  goroutine, and `config.go` rejects a non-positive `sign_timeout`, so a timer is
  always armed. Nothing makes a call into the device return, nobody has to click.
  `TokenComesBack` assumes only that a call returns after `cancelCall` has closed
  its backend connection or killed its helper.
* *Panel*: the main queue, the timers and the poller run, and requests conclude,
  which is `EveryRequestReturns` of the coordinator.
* *Session manager*: its goroutines run, a group that was sent SIGKILL is waited
  for at most two seconds, timeouts fire. A helper may stay mute for ever.
* *Router*: its goroutine, its timer and the forwarding goroutines run. Device,
  files, faults, start and crash are never forced; a stop only when the router has
  ended, whose result makes `app.Run` return (`daemon.go:219`).
* *Backend*: strong fairness per client and for the worker, because both compete for
  `mu` and for the agent's poll loop, which starve nobody; a process that was killed
  ends; the device answers or times out; `sign_timeout` is armed.
  An `ssh-agent` that hangs without dying is left out: the query of the next connection
  (`proxy.go:329`) has no timeout of its own. Crashes, lost
  sockets and disconnections are never forced. The interrupt of `Stop` is followed by
  a kill.
* *Helpers*: every process and goroutine that can go on does, a context ends and the
  manager stops a helper it is done with, because both have a timeout armed. The kernel
  grants the lock of the configuration to a writer that waits for it: weak fairness is
  enough, for requests and writers are finitely many. Nobody has to ask, touch the
  key, answer the prompt, fail or die.

## Proofs

TLAPS checks every theorem for every value of the constants that satisfies the
named assumptions: sets of requests are finite where they are counted, `NoOne` is
outside of them and none of the answers a call or a probe gives, SSH requests are
among the requests; paths are distinct; goroutines are distinct; a dead connection is no
process; bounds are positive. Two theorems about the first sink assume that there is
one (`NumSinks >= 1`; `daemon.go:175` gives the coordinator three). Every safety
invariant, action property and refinement that a passing run checks is a theorem.

**`CoordinatorProofs`.** Mutual exclusion is not inductive: that `Acquire` finds no
other holder needs the semaphore to be 1 whenever somebody holds (`TokenInv`), and
that `Release` leaves nobody behind needs the program counters of a request's two
goroutines to agree (`Linked`: no worker before `Begin`, a result exactly when the
worker is past its call, the gate held by whom the counters say). The inductive
invariant `IInv` joins `TypeOK`, `Linked`, `TokenInv`, `NoLateProgress`, `StopInv`
(a caller past its select has canceled or has a result), `VerdictInv` (the verdict
agrees with the result), `ActiveInv` (the registered cancel function belongs to the
registered ID) and `FreshProvider`. Each part is preserved by every step in a lemma
of its own; the steps of a worker are first summarised by `WorkerSteps`. From `IInv`:

| theorem | states |
|---|---|
| `Typing` | `Spec => []TypeOK` |
| `MutualExclusion` | at most one request is between taking the token and the end of its worker |
| `ProgressEnds` | no worker publishes progress once the outcome has won the gate |
| `ProviderIsFresh` | no signature with an invalidated provider |
| `CallsAreCanceled` | a call that outlives its request has been told to stop |
| `CancelIsPrecise` | `[][...]_vars`: `Cancel(i)` takes out the cancel function of request `i` |
| `ImplementsTouchGate` | `Spec => KeepsThePromise`: every step is a step of `TouchGate` or a stutter |

What the sinks were told is a matter of the whole log, and needs no induction over
sequences: the log only grows at its end (`AppendedAt`), and the program counters say
at any time what it holds of a request. `LogOf(s, r)` distinguishes nothing yet, begun,
asked for a touch, and the outcome, by the counters of the caller and the worker, the
event flag `terminal` and the number `stage[r]` of sinks the goroutine inside the gate has
reached. `LInv` adds `LogInv` for all sinks and requests and `DoneInv` (a caller leaves its
select with a result or with a context that is done) to `IInv`; the refinement of
`TouchEvents` also needs that a non-empty log of a request has a last event (`LastInv`),
since the outcome of an abstract request is read from it.

| theorem | states |
|---|---|
| `OutcomePublished` | each sink's last event of a returned request is the outcome its caller got, and a request that never had the token is not in any log |
| `LoneFailureClassified` | unless another signature has written to the state file since it began, `test-sign` reads the class of its own failure there, and none if it never got its turn |
| `FirstSinkSeesTheStream` | `Spec => SinkSeesTheStream`: every step appends to the first sink an event that `TouchEvents` allows, or stutters |

**`TouchPanelProofs`.** The panel draws a prefix of the stream, so the proof has two
halves. `StreamInv` is about the stream alone: a request has an outcome in it exactly when
it is over (`OverInv`), it is asked for a touch once and before its outcome (`AskedInv`), and
the one that holds the device was asked last (`HolderInv`). `PanelInv` relates the screen to
the part drawn: a prompt belongs to a request that was asked and has no outcome there
(`PromptInv`), the request asked last has the prompt until its outcome is drawn (`UpInv`),
a pending hide of the present generation is that of an outcome (`HidesInv`, which is what
makes a late hide harmless), and the stored click is of the request on display
(`ButtonInv`, `PassedInv`).

| theorem | states |
|---|---|
| `PanelTyping` | type correctness |
| `PromptTruthful`, `PromptShown` | a prompt on screen is that of a request still waiting or whose outcome is on its way; the request that waits has the prompt once the main queue has caught up |
| `ClickNamesShown` | a stored click names the request on display; only a request that was prompted is canceled |
| `NoClickLost` | `Spec => [][...]_vars`: a click is dropped only if its request is past its touch or the application stops |

**`AgentRouterProofs`.** `GuardCoversTheLink` is not inductive either: the guard is
rewritten by `PersistGuard` while an old link may still exist, so one needs that the
link has been withdrawn by then (`StartWithdraws`, `ClosingInv`), and that the router
publishes only the fallback of the configuration its guard was written for
(`RouterInv`). Every setRoute outcome is bounded by a lemma on where the link may end
(`AtomicLinks`, `WithdrawLinks`, `ClosedLinks`, `RetreatLinks`, `FallbackLinks`). From
the inductive `RInv`: `GuardCovers`, `StartsWithdraw`, `StopsClosed`.

The loop of the router has an invariant of its own, `LoopInv`: a count of two means that
the retry timer has fired since the first probe without a YubiKey (`DebounceInv`), what
follows the last probe is only reached with the count at its limit (`CountedInv`), and
from the recheck on a YubiKey that is back has a notification on its way, in the channel
or upstream of it (`NotifiedInv`). The last is why both the recheck and the drain are in
the code: without either it fails in the step to the publication.

| theorem | states |
|---|---|
| `GuardCovers`, `StartsWithdraw`, `StopsClosed` | the guard names every published fallback; no start past the guard and no clean stop leaves one |
| `Typing` | type correctness, disk and daemon |
| `NoCardMissed` | a YubiKey present while the fallback is published is about to be noticed |
| `FallbackDebounced` | a published fallback was preceded by a retry timer between two zero probes |
| `ReportedRoute` | after a reconcile without an error, the snapshot tells where the path points |

**`AgeHelpersProofs`.** `DerivesAsConfigured` compares the file with what a session was
bound to requests ago, so it needs to know where each thing a session keeps came from.
The inductive invariant `IInv` joins `ConfigInv` (the lock excludes; what a writer has
loaded fits whatever it saves; no lost update; the key fits the target), `SessionInv`
(before a session is bound it has no resolver, no PIN and no card, afterwards all it has
is of the generation it is bound to, and its logins are counted), `NoneElse` (a helper
for one request has no resolver process) and the two properties. Each kind of step is a
lemma: writers, loading, opening, serving, the resolver, the ends of the process.
That nothing runs on needs how far a call has come (`CallInv`).

**`AgeContractProofs`.** The refinement needs what may be in the pipes. `SessionTalk`
lists the eight states of a conversation between the manager and its helper, from
`Quiet` over `Requested`, `Announced`, `Prompting`, `Continued` to `Answered`;
`OneShotTalk` says the same of a helper for one request, whose continue frame comes from
the caller and not from the exchange. Both are inductive together with `CallInv`, and
each step is shown to be one of the contract or a stutter by a lemma of its own.

| theorem | states |
|---|---|
| `Inductive` | `Spec => []IInv` |
| `UpdatesAreKept`, `CachedKeyFits` | no writer saves over an update it has not loaded; a cached key that was read from a card is the target's |
| `BindingHolds` | a session derives under the lock and the configuration it is bound to, unless an editor was at it |
| `OnePinFits` | one PIN per session, found under the configuration its target came from |
| `HelpersAreReaped` | a one-shot call that has returned, a failed `WaitReady` or a cancelation leaves no process |
| `ImplementsContract` | `Spec => KeepsTheContract`: no key without the announcement and the continuation of that very request, and at most one for each |

**`HardwareManagerProofs`.** That a helper is launched only when no other is there is
not visible in one goroutine: the earlier one may be in the hands of a Start that
retires it, of an invalidation that reaps it, or of a call that has failed. The
inductive invariant `IInv` says who holds `lifecycle` and `mu` (`Locks`), what the
manager retains meanwhile (`Retained`), how far a call has come and what it knows
(`Calls`, `Active`), and that every helper not reaped is held by the manager, by a
Start that ends it or by an invalidation, or has poisoned the manager (`Accounted`);
there is at most one of them (`Single`). Most steps take no lock and move no helper:
they are summarised as `Quiet`, and one lemma shows that `Quiet` keeps the invariant.

| theorem | states |
|---|---|
| `Inductive` | `Spec => []IInv` |
| `OneHelperAtATime` | one helper process, none beside one that is left over, none after a Close |
| `FailuresAreReaped` | no failure is known to a caller before the helper is gone |
| `NothingIsLost` | a live helper is the manager's, or about to be stopped |
| `InvalidationIsThorough` | `Spec => [][...]_vars`: an invalidation that returns leaves no call and no helper, and reports what it could not end |

**`SigningBackendProofs`.** `EnsureAgent` starts a process in one step and forgets the old
one in another, so `NoStrayAgent` needs that `cmd` is empty when the start is reached
(`StartInv`), that whoever holds `mu` is inside `EnsureAgent` (`MuInv`) and that a process
that is gone computes nothing and holds no key (`BusyInv`). Once the daemon has stopped,
no PIN opens a provider, so whatever a late worker starts stays empty. `LinkInv` says of each client that it makes a
backend connection only when it has none, and that one in use was told exactly what the
client has bound. `TouchInv` is the reason why no touch is stolen: the agent answers one
message at a time, so once `Ensure` has had its answer nothing else is being computed
until the worker's own signature is sent.

| theorem | states |
|---|---|
| `BackendTyping` | type correctness; no more bindings than the limit |
| `NoAgentIsStray` | no `ssh-agent` but the one the manager holds, and after a stop none with a key or a signature |
| `BindingsReplayed` | a request waits on a connection that knows all bindings of its client in order |
| `TouchBelongs` | no abandoned signature is at the device while an SSH request prompts |

**`AgeServiceProofs`.** The service composes its own steps with those of the coordinator,
and ends contexts by itself, of several requests at once. `CoordinatorSees` shows that every
step is one of the coordinator's (an age request arriving is the only one the service
begins), leaves all its variables alone, or ends contexts. The last keeps the coordinator's
invariant `LInv` and is invisible to `TouchGate` (`EndContextsKeeps`, `Unseen`), which
carries the coordinator's theorems over.
To it `AInv` adds `AwayInv` (what a probe has found, and which absences are on record when
the handler is between and after its probes) and `EarnedInv`. The property
`SessionIsEarned` speaks of requests that have returned; what is inductive is that the
request of the retained session has never failed: its worker got the helper, its result
is no error, and once its caller has settled the verdict is success.

| theorem | states |
|---|---|
| `ServiceTyping` | type correctness; no more connections served than the limit |
| `ServiceMutualExclusion`, `ServiceKeepsThePromise`, `ServiceOutcomePublished` | what was proved of the coordinator holds under the service as well |
| `RecoveryNeedsAbsence` | the recovery key is used only after two absences |
| `RetainedIsEarned` | a retained helper was last used for a request that succeeded or is still to be told |
| `GivingUpIsPrivate` | `ServiceSpec => [][...]_allVars`: only its own request, the device watcher, an untrusted probe that is still waited for, or a late cancelation ends a helper call |

*Only model-checked* are the liveness properties: `EveryRequestReturns` and
`TokenComesBack` of the coordinator, `OutcomeGoes` of the panel, `EveryRequestEnds` and
`OutsidersReturn` of the session manager, `CardWins` and `FallbackComes` of the router,
`SignReturns` of the proxy, `EveryHelperEnds` and `WriterGetsItsTurn` of the helpers.
They hold only under fairness, hence speak of `ENABLED`, which is outside of what the
prover does. Each was checked on the instance named above and no other.

## Where code and documents disagree

Each of these is a run whose single property quotes the document and is violated.

* `CancelSparesOthers` (`age_late`): `README.md:755` and `service.go:239` say that a
  cancellation does not touch other requests. A caller that notices the end of its
  context after its own worker has left runs `cancelCall`, which invalidates the
  session manager and ends the call of the next request (`daemon.go:345`). `GivingUpSparesOthers`
  lists what else may end a call: its own request, the device watcher, and a probe
  without a trusted answer whose client still waits (`service.go:246`, by design).
  Everything else a request does when it gives up harms nobody.
* `RemovalIsDebounced` (`router_removal`): `README.md:732` says a removal fails closed
  at once and the fallback returns only after the debounce. An insertion and removal
  during an inspection leave `zeroCount` at its limit (`router.go:360`).
* `OneAtTheDevice` (`backend_device`): `docs/age-reference.md:154` says that SSH and age
  requests are never at the device together. `closeSigningBackend` (`proxy.go:353`) ends
  the wait of the worker, but `ssh-agent` still waits for the touch of the abandoned
  signature while the token goes to an age request. The next *SSH* request is safe,
  because `Ensure` asks the same agent first (`TouchIsItsOwn`).

## What is not modelled

* Wire formats: agent protocol framing, age IPC and session frames, profiles, CBOR and
  hashes. They are codecs without state; a frame that cannot be read is an error of its
  reader.
* Cryptography and PKCS#11 themselves; macOS APIs beyond the order of main-queue
  blocks, IOKit notifications and process exits.
* The PIN prompt and its sources (`internal/pin`): for the resolver they are one answer
  of the user. Which values a configuration may have: a file is whole or not.
* The check-then-rename window inside one `setRoute` against another program that
  writes in the same directory, and the data race of `loadProvider` and `EnsureAgent` on
  `deps.YKCS11` (`backend/manager.go:282`), whose writer stores what the
  configured path resolves to.
* `Coordinator.LastEvent`, which only tests call, the About window, launch agent, ssh
  configuration text, the age plugin, profiles, client identity, packaging, diagnostics:
  sequential, and without state that others depend on.
* A write of the state file that fails, which `Store.Handle` ignores (`state.go:105`): then
  a lone `test-sign` reads no class. An event is stamped a moment before it is
  written; the model has the two in one step.
* An editor of the configuration that leaves a key of another target there: the key is
  `Foreign`, and `KeyFitsTarget` speaks only of keys that were read from a card.
* The marshalling errors of the session manager's `Start`
  (`hardware_session_manager.go:155`), which cannot occur for the requests the daemon makes.
* An `ssh-agent` that a worker starts after `Stop` and that outlives the daemon: the model
  has it (`NoStrayAgent` says that it holds no key and computes nothing) and does not say
  who ends it.
* What the router reports after a reconcile that failed: `ReportedRouteIsReal` speaks of
  one that ended without an error.
* The order in which the daemon shuts down services other than the route's.

## Plan

The order follows what would hurt most if it went wrong. Done: (1) coordinator, its
sinks and the panel; (2) session manager; (3) router, guard and life cycle of the
route; (4) age service and IPC server; (5) backend manager and agent proxy; (6) helper
session with its PIN resolver and parent watch; (7) one-shot and probe runners; (8)
configuration lock; (11) proofs of every safety property, action property and
refinement the runs check. Left:

9. `HardwareManager` composed with `HelperProcess` in place of its abstract helper: the
   product is too large for TLC, and `HelperContract` stands between them instead.
10. Liveness of `AgeService` (every client is answered), which needs a smaller
    composition than the product with a second coordinator request; the shutdown order
    across all services; `SigningBackend` shown to implement what `Coordinator` assumes
    of `Ensure` and `Invalidate`.
