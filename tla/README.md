# TLA+ models of the northstar container runtime

This directory holds TLA+ models of the northstar runtime (`src/northstar`), together with:
- the TLC configurations that check them on small instances;
- TLAPS proofs of the main safety properties for every instance.

`PROJECT.json` lists:
- every component;
- every run and what it checks;
- the mutants that show each checked property can fail;
- the source lines each definition models (`map`);
- the disagreements found between the code and its specification (`findings`);
- the hazards of the code.

## 1. The system

The runtime is one supervisor process. Its parts, as the code has them:

| Part | Source | State | Operations |
|---|---|---|---|
| State engine | `runtime/state.rs` | map `containers` (identity → mounted container, optional `ProcessContext`), `repositories`, launcher handle, `events_tx` | `start`, `stop`, `umount`, `install`, `uninstall`, `shutdown`, `on_exit`, `on_oom`, `console_request` (also bulk `Mount`, `Shutdown`), `notification` |
| Launcher ("island") | `runtime/island/mod.rs` | per process: pid, checkpoint pipe, wait task | `create` (clone NEWPID/NEWNS), `start` (checkpoint handshake), `stop` (SIGTERM, timeout, SIGKILL), `destroy`, `wait` (waitpid, decode, send `Event::Exit`) |
| Main loop and queue | `runtime/mod.rs` (not under src/) | bounded mpsc queue of `Event`s | takes one event at a time and calls the engine |
| Repository | `runtime/repository.rs` (not under src/) | packages per directory | `insert`, `remove` |
| Mount control | `runtime/mount.rs` (not under src/) | loop/verity devices, kernel mounts | `mount`, `umount` |
| Cgroups | `runtime/cgroups.rs` (not under src/) | memory cgroup per process | OOM monitor sends `Event::Oom` |
| Client, codec | `api/client.rs`, `api/codec.rs` | connection, one pending response | connect handshake, request/response, notifications, install stream |
| Binary | `main/src/main.rs` | none | SIGINT/SIGTERM → `runtime.shutdown()` |

**How they interact.** The engine is the single serialisation point. Console requests and queued events are handled one at a time by the main loop, each to completion.

The launcher's wait task and the cgroup monitor run concurrently with the engine and report by sending `Event::Exit(container, status)` and `Event::Oom(container)` into the engine's own queue. Those events carry only the container identity, not the process they are about.

The engine also sends its notifications and the `Shutdown` request into that same queue, from inside the loop that drains it.

**Hard behaviours.**
- Events about a process are applied after the process has been replaced.
- Partial failures inside `start` and bulk `Mount`, with no rollback.
- The wait task panics on exit codes that do not decode into a signal.
- Panics (`expect`) on paths a client can reach.
- Engine sends into its own bounded queue.
- The client's single pending-response slot.

**Properties that make each part correct** (spec section 8):
- A running container is mounted, and so are the resources it declares.
- At most one process per container.
- Kernel mounts equal map entries.
- An identity is in at most one repository.
- A failed start leaves no mounts behind.
- Errors reach the client, and the runtime does not panic.
- Every exit is eventually seen by the engine.

## 2. Modules

### `StateEngine.tla`: the engine, the launcher as the engine sees it, and the queue

**Constants**
- `Apps`, `Resources`: container identities.
- `Deps[a]`: the resource mounts of `a`'s manifest.
- `RepositoryId`.
- `MountRequests`: the bulk mount lists a client may send.
- `Statuses`: wait statuses.
- `MaxPid`: bound on the number of clones.
- `MaxMounts`: bound on the kernel mounts stacked on one root.
- `NoPid`.

**Variables**

| Variable | Code |
|---|---|
| `containers` | the keys of `State::containers` |
| `process[c]` | the pid of `c`'s `ProcessContext`, or `NoPid` |
| `kmounts[c]` | kernel mounts on `c`'s root directory (what `mount_control` did, whether the map knows it or not) |
| `repositories[r]` | identities in repository `r` |
| `pstate[p]`, `powner` | each cloned process: `created`, `started`, `exited`, or `lost` (exited, but its wait task panicked), and the container it was cloned for |
| `oomSent` | processes whose cgroup reported an OOM |
| `events` | the engine's queue |
| `phase` | running / down / panicked |
| `reply` | the last response |

**Actions.** Each client request is one action that models the whole handler, with its checks and early returns in the code's order:
- `Start` is `State::start`: the resource, started and missing-resource checks, then the concurrent mounts, any subset of which may fail. Successful mounts stay in the map. Then `Launch`: `Island::create` (`init_argv` panics for a resource), `Debug::new`, and `IslandProcess::start`.
- `Stop` is `State::stop` and `ProcessContext::terminate`. The wait task sends `Exit(c)` to the queue, and a lost status makes terminate's `expect` panic.
- `Umount` covers `State::umount`: the lookup, the started check and the busy-resource check.
- `BulkMount` is `Request::Mount`: the `?` after each `State::mount`, `join_all`, then an insert that overwrites existing entries.
- `Install`, `Uninstall` and `Shutdown` are the corresponding handlers.

Environment steps run concurrently with the engine:
- `ProcessExit` is the wait task: waitpid, decode, send `Exit`.
- `OutOfMemory` is the cgroup monitor.

`HandleEvent` is the loop taking the head of the queue into `State::on_exit` or `State::on_oom`.

`StartChecks(c)` is `State::start`'s checks on a container in the map (`state.rs:302-313`): not a resource, not already started.

**Abstractions**
- Packages, manifests and paths are identities.
- A mount is a counter.
- Timeouts are not modelled: the SIGKILL after the timeout always ends the process.
- The queue is unbounded.
- After a successful `Shutdown` the wait tasks' final `Exit` events are not appended, because nobody reads them any more.
- Responses are kept as `reply` so that error paths are visible steps.

### `MCStateEngine.tla` and the `.cfg` files

These give the constants model values:
- `a1`, `a2`, `r1`, `repo1`, `repo2`;
- `a1` declares `r1`;
- the bulk mount lists `<<c>>` for each container and `<<r1, a2>>`, which has a resource before an app that may be unknown or running;
- wait status 137 (SIGKILL). The wider set `{137, 255}` adds `exit(-1)`.

### `StateEngineProofs.tla`

This module holds the TLAPS proofs about `StateEngine`; see section 4.

### `Client.tla`: the API client (`api/client.rs`)

`Client::new` connects and runs the connect handshake. It then spawns one task that owns the connection and loops on a `select!` between two sources:
- inbound frames;
- the request channel, with capacity 10, fed by `Client::request` and `Client::install`.

The task holds at most one oneshot sender, `response_tx`. Requests are tasks that share the Client by reference (`request` takes `&self`). The Stream impl that drains notifications needs `&mut`, so the owner can drain only while no request is in flight.

| Variable | Code |
|---|---|
| `phase` | before `new` returns, task running, task ended, `new` failed |
| `reqq` | the request channel (callers, in order) |
| `responseTx` | the caller whose sender is in `response_tx` |
| `copying` | the install caller while the task is inside `io::copy` |
| `held` | the task is awaiting `notification_tx.send` |
| `nq` | notifications in the bounded notification channel |
| `up`, `down` | frames in flight on the connection, each way |
| `caller`, `kind`, `result` | each calling task's request and what its method returned |
| `answeredBy` | ghost: whose request the Response a caller got answered |
| `taskResult` | what the task's loop broke with |

**Actions**
- `Connect`: `connect`.
- `Call`: `request` and `install` sending on the request channel. The send awaits while the channel is full and returns Stopped once the task is gone.
- The `select!` arms:
  - `ReadResponse`: hand the Response to the stored sender, or break with Protocol;
  - `ReadNotification` and `ForwardNotification`: the forward awaits room in the channel;
  - `ReadClosed`: `Some(Err)` or `None`;
  - `ReadRequest`: PendingRequest, or `SendRequest` with its store-on-success, or the panicking `expect` on opening an install's package;
  - `CopyPackage`: `io::copy(...).await?`.
- `EndTask`: the loop breaking. Every sender it held is dropped, so every busy caller gets Stopped.
- `Outcome`: the request methods' mapping of Response variants to results. This includes `unreachable!()` in `mount`.
- `PollNext`: the Stream impl.

The runtime's end of the connection comes from the wire protocol of the specification:
- `ServerRead` answers one Response per request, after the package bytes for an install;
- `ServerNotify` sends notifications;
- `ConnectionFails` breaks the connection.

**Abstractions.** Requests are their kind, and responses their variant. The package is a single `bytes` frame.

**The contract.** `RequestService.tla` is what the spec's API section promises the calling tasks: at most one outstanding request per connection, a second one refused with PendingRequest, only the outstanding request answered (with `Ok` or an `Api` error), and every waiting caller returning Stopped when the connection ends. `Client` defines `Svc == INSTANCE RequestService WITH inflight <- responseTx`: the outstanding request is the one whose sender is stored. `Service == Svc!Spec` is checked as a `PROPERTY` and proved. A mutant that leaves the sender stored after handing it the Response breaks it.

### `Launcher.tla`: one container process (`runtime/island/mod.rs`)

`StateEngine` sees a process as a pid and a decoded status. `Launcher` opens that up, for one handle driven the way `state.rs` drives it:
- `create` and `start` run in one engine handler;
- `terminate` is `stop`, then `destroy` of a `Stopped` handle, which does nothing;
- `on_exit` retires the handle of a started process.

Five actors step concurrently: the engine's handler, the child, the wait task on its blocking thread, the cgroup's OOM monitor, and the other producers of the engine's bounded queue.

The module also holds the engine's side of that queue. The main loop is its only consumer, yet the engine's handlers `await` sends into it: `State::notification` (Started, Stopped, Exit, OutOfMemory) and the console's `Shutdown` request.

| Variable | Code |
|---|---|
| `hs` | the engine's handle: none, create failed, `Created`, `Started`, `Stopped`, retired by `on_exit` |
| `pc`, `why` | the engine handler in progress (waiting on the checkpoint, on the timeout, on the exit status, on a send into its own queue), or the panic that ended the runtime |
| `pend` | the event the handler is awaiting to send (`pc = "notify"`) |
| `oom` | the OOM monitor: idle, fired (the OOM killer struck), sent (`Event::Oom` queued) |
| `child` | the child: in setup, held at checkpoint A, running, zombie, reaped |
| `rawStatus`, `truth` | what waitpid will report, and (ghost) the status the container really ended with |
| `p2c`, `c2p` | the two checkpoint pipes |
| `sigterm`, `sigkill` | signals stop has sent to the process group |
| `waiter`, `wres` | the wait task (waitpid, decode, try_send loop) and the status it decoded |
| `stopRes` | the status `stop` returned |
| `queue`, `open`, `others` | the engine's inbound queue (capacity `QCap`), its receiver, and events of other producers |

**Actions**
- `TakeRequest`: the loop takes a console request; `Create` (a start request) and `StopTerm` (a stop request) begin with it.
- `Create`: preparation fails before the clone (`?`), or the clone panics, or the child is cloned and the wait task spawned.
- `StartSend` and `StartWait`: `checkpoint.async_send(Start)` and `async_wait(Started)`. A dead child's pipe makes `send` or `wait` panic with "Pipe error".
- `StopTerm` (with `StopBegin`, shared with `on_oom` and `shutdown`): `State::stop` takes the context, and SIGTERM goes to the group. Once the child is reaped, the SIGTERM gets ESRCH and the status is awaited unconditionally.
- `StopTimed`: `time::timeout` on the exit status. It resolves, or the timer fires and SIGKILL is sent. The SIGKILL's error goes through `?` to terminate's `expect`.
- `StopAwait`: the final await.
- `Finish`: `Ok(status)`, then the Stopped notification, or the join error of a panicked wait task.
- `Notify`: `State::notification`. If the receiver is gone the send is skipped; otherwise it waits for room. After OutOfMemory, `on_oom` goes on to `stop`.
- `Reap`: waitpid and the decode of `128 + signal`, with `Signal::try_from(..).expect`.
- `Send`: `try_send`, which retries without a step while the queue is full and gives up once it is closed.
- `Consume`: the main loop taking an event and running its handler:
  - `OnExit` retires a started handle and notifies Exit;
  - `OnOom` notifies OutOfMemory of a started process;
  - `OnRequest` is any other request, or a `Shutdown` request, whose handler sends `Event::Shutdown`;
  - `Forward` passes a notification to the sessions;
  - `OnShutdown` drops the receiver and stops the started container (`State::shutdown`).
- `Close` and `Produce`: the receiver dropped by a runtime shutdown from outside the loop, and the other senders.
- `MonitorSend`: the OOM monitor's send of `Event::Oom` after `OomKilled`.

The child's side comes from spec §4.3, because `island/init.rs` is not in this tree:
- setup, then checkpoint A (write Started, then read Start), then `execve` or exit with a distinctive code;
- death at any point: a setup failure, an exit, `128 + signal` from a signal inside the namespace, SIGTERM, which a program may also ignore, SIGKILL, or the OOM killer.

### `ProcessLifecycle.tla`: what a handle promises

This is the state machine of spec §4.3:
- `Create`, then `Start`;
- the process's `End(s)`, exactly once;
- `Stop`, which needs the end and reports its status;
- `Retire`, for the exit of a started process.

`Launcher` defines `Abs == INSTANCE ProcessLifecycle WITH life <- LifeOf, ended <- truth, reported <- stopRes`. `Lifecycle == Abs!Spec` is checked as a `PROPERTY` and proved.

## 3. Runs

| Run | cfg | Checks | Result |
|---|---|---|---|
| engine_safety | MCStateEngine.cfg | TypeOK, RunningImpliesMounted, ResourcesOfRunningMounted | holds, 209,794 states, depth 15 |
| stale_exit | MCStaleExit.cfg | OneStartedProcessPerContainer | violated (finding) |
| mount_leak | MCMountLeak.cfg | KernelMountsMatchMap | violated (finding) |
| start_resource | MCStartResource.cfg | NoPanic | violated (finding) |
| undecodable_status | MCUndecodable.cfg | TrackedExitNoticed with statuses {137, 255} | violated (finding) |
| no_rollback | MCNoRollback.cfg | StartFailureRollsBack (action property) | violated (finding) |
| client_safety | MCClient.cfg | TypeOK, ResponseToItsCaller, NoProtocolError, Service (refinement of RequestService), RequestEventuallyAnswered | holds, 53,874 states |
| notif_full | MCNotifFull.cfg | RequestEventuallyAnswered with a one-slot notification channel | violated (finding) |
| launcher_safety | MCLauncher.cfg | TypeOK, ExitEventFaithful, Lifecycle (refinement), ChildEventuallyReaped | holds, 5,309 states |
| launcher_start_died | MCLauncherStartDied.cfg | StartNoPanic | violated (finding) |
| launcher_kill_race | MCLauncherKillRace.cfg | StopNoError | violated (finding) |
| engine_self_deadlock | MCLauncherSelfDeadlock.cfg | HandlerReturns (`~>`, under fairness) | violated (finding) |

What the violations show (details in `PROJECT.json` "findings"):

1. **Stale Exit event** (`state.rs` `on_exit`). `Event::Exit` names only the container. The violating sequence:
   1. A stop leaves the wait task's `Exit(a1)` in the queue.
   2. A start of `a1` runs before the loop takes that event.
   3. The event then drops the new process's context while the process keeps running.
   4. A further start launches a second `a1`.

   This takes two clients, or a client and a crash, so no single-client test meets it.
2. **Bulk mount with an unknown identity** (`state.rs:618`). The early `?` leaves already-spawned mount tasks mounting with nobody recording them, and no response is sent.
3. **Start of an unmounted resource** panics in `init_argv` (`island/mod.rs:395`).
4. **Exit codes 128 and 160..255** panic the wait task (`island/mod.rs:325`), so the exit is never reported.
5. **No rollback of a partially mounted start** (`state.rs:386`). In TLC's trace the application's own mount succeeds and its resource's fails: `start` returns MountFailed and the application stays in the map.
6. **The client hangs on a full notification channel** (`client.rs:185`):
   1. A request is in flight, so its caller holds the Client and cannot poll notifications.
   2. More notifications arrive than the channel holds.
   3. The task blocks forwarding one and never reads the Response queued behind it.

   The specification wants a subscriber that cannot keep up to be disconnected, not blocked.
7. **Start panics when the child dies before the handshake** (`island/mod.rs:495`). The child can die after the clone: a setup step fails, or the OOM killer of the cgroup assigned between `create` and `start` kills it. `start`'s checkpoint write then gets EPIPE, or its read gets end of file, and `Checkpoint::send`/`wait` panic. The spec wants StartContainerFailed. The `Err` branch of `start` in `state.rs` is unreachable.
8. **The SIGKILL after the timeout races the wait task** (`island/mod.rs:263`). The timeline:
    1. The child exits after the SIGTERM.
    2. The wait task reaps it but has not yet resolved, for instance while it retries `try_send`.
    3. The timeout fires.
    4. `kill(-pid, SIGKILL)` gets ESRCH. `?` returns `Error::Os`, and terminate's `expect` panics the runtime.

    Spec §4.3 handles ESRCH only for the SIGTERM. A reaped pid may also have been reused, so the SIGKILL could reach an unrelated process group.
9. **The engine deadlocks on its own queue** (`state.rs:648`, `state.rs:769`). The engine loop is the only consumer of its bounded queue. Yet its handlers await sends into it:
   - the console `Shutdown` request;
   - every notification: Started, Stopped, Exit, OutOfMemory.

   If other producers have filled the queue, the send never completes. TLC's shortest trace: `start`'s Started notification awaits room while the wait task's Exit event of the just-started child fills a one-slot queue. The `Shutdown` request's send blocks the same way. The wait task's retry (`island/mod.rs:373`) is a second path: it resolves the exit status only after its `try_send`, and `stop` awaits that status.

Two more defects were confirmed with TLC while modelling. They are kept as hazards in `PROJECT.json`, not as runs:
- **A bulk mount overwrites a running container's entry** (`state.rs:629`). The running process is orphaned, and the container can be started twice. `OneStartedProcessPerContainer` fails with `MountRequests <- MCMountRequests` after a start, a bulk mount of the running app and a second start.
- **No repository-uniqueness check**, either at startup (the TODO at `state.rs:172`) or on install. `UniquePackages` fails with two repositories.

The checked engine configuration bounds bulk requests to the resource (`MCResourceMountRequests`). Bulk mounts of applications multiply the state space: with them, the properties of `engine_safety` take minutes.

**Mutants.** For each property of a passing run, `PROJECT.json` names a plausible bug in a mapped definition that TLC then catches:
- umount without the map lookup (a count goes negative, so `TypeOK` fails);
- umount without the started check;
- start without collecting resource mounts;
- a request channel that ignores its capacity (`TypeOK`);
- no PendingRequest check, so a second request replaces the stored sender and answers are crossed;
- a sender not stored after a successful write, so the Response is taken for unsolicited;
- a closed connection that does not break the loop, so the caller waits forever;
- a wait task that treats a full queue as success (`TypeOK`: the queue overflows its capacity);
- a stop that returns a default status on ESRCH instead of awaiting (`Lifecycle`);
- a decode that ignores the signal offset (`ExitEventFaithful`);
- a timeout that forgets the SIGKILL, so a child ignoring SIGTERM is never reaped (`ChildEventuallyReaped`).

**Bounds, and why they are enough.**
- Two pids are enough for a stop followed by a restart, a second process and an abandoned (`DebugFailed`) clone.
- Two applications, one of them with a resource, give every busy-resource case.
- `MaxMounts = 2` lets one leaked or stacked mount happen on top of a recorded one.

The stale-exit run needs three pids, and only its own cfg has them. The main run with three pids and several statuses did not finish within 30 minutes. Its reachable interleavings of two applications and two pids already include every order of request, exit, OOM and event handling for one restart.

Client bounds:
- Two callers with a one-slot request channel make the channel-full, PendingRequest and crossed-answer cases happen.
- Four request kinds matter: `start` and `install` share the `Ok` variant, so a misrouted answer can go unnoticed; `mount` panics on `Ok`.
- Two notifications with a two-slot channel fill it in the passing run.

Launcher bounds:
- Exit codes {0, 200}. 200 is above the signal offset and names no signal, so the wait task's panic path is reached. Signals are SIGKILL and SIGTERM.
- The passing run uses `QCap = 2` with three other events: a start request, a stop request and one more. With `QCap = 1` every stop deadlocks, because the wait task's Exit fills the queue before the Stopped notification. That is finding 9, and the self-deadlock run uses `QCap = 1`.
- One handle is enough: the launcher's state is per process. The interactions between processes go through the engine, which `StateEngine` models.
- The kill-race and self-deadlock runs use exit codes {0, 1}, so that no other panic masks the one they show.

**Fairness.** `StateEngine` assumes none. Its queue is unbounded and its handlers atomic, while the code's loop awaits sends into its own bounded queue (`state.rs:648`, `:768`) and can block forever (finding 9). Weak fairness of its event handling would assume away exactly that, so no engine liveness property is checked there; `Launcher` models the bounded queue and checks the loop's progress (`HandlerReturns`).

In `Client`, weak fairness covers three things:
- `Connect`;
- the task's steps (tokio polls a spawned task whose future can progress);
- `ServerRead` (the runtime answers).

No fairness is assumed for callers, the owner's polling, notifications or connection failures.

In `Launcher`, weak fairness covers:
- the steps of a handler whose future is ready (`StartWait`, `StopTimed`, `StopAwait`), the timer included;
- the main loop taking an event;
- a handler's send into the queue once there is room (`Notify`), and the OOM monitor's send (`MonitorSend`): tokio wakes a sender blocked on a bounded channel when a slot frees;
- the wait task's blocking thread;
- the child's own setup and `execve`;
- the kernel delivering SIGKILL.

A program's reaction to SIGTERM, its exit, the OOM killer and the other producers get no fairness.

**Deadlock.** The cfgs say `CHECK_DEADLOCK FALSE` because the terminal states are the real ends of the program:
- after `Shutdown` the runtime returns from main;
- after a panic it aborts.

While the engine runs, a request is always enabled.

In `Client` the system also stops:
- when every caller has its result and the runtime has nothing left to answer;
- or when `new` failed.

## 4. What is proved (TLAPS)

### `StateEngineProofs.tla`

Every theorem holds for every value of the constants that satisfies `Assumption`:
- apps and resources are disjoint;
- `Deps` maps apps to resources;
- the bulk mount lists are sequences of containers;
- `MaxPid` is a natural;
- `MaxMounts` is at least 1;
- `NoPid` is not a pid.

- `TypeCorrect == Spec => []TypeOK`. `TypeOK` alone is not inductive, so the proof uses `IInv == TypeOK /\ MountedCounted /\ HandedOut /\ Tracked`:
  - `MountedCounted`: every container in the map has at least one kernel mount, so the `- 1` of umount, uninstall and shutdown stays non-negative;
  - `HandedOut`: a pid the launcher has touched was handed out by a clone, so the wait task's `powner[p]` is defined;
  - `Tracked`: a process context names such a pid, which shutdown needs.

  `IInv` was first checked by TLC on the engine_safety instance. There is one lemma per action, plus lemmas for `Terminate`, `Launch`, the mounts of `start`, and the cardinality of a bulk mount's per-container count (`FiniteSetTheorems`).
- `RunningMounted == Spec => []RunningImpliesMounted` and `ResourcesMounted == Spec => []ResourcesOfRunningMounted`, both from `MountSafety`. The argument:
  - every step either only adds map entries and only drops process contexts (`ShrinkSafe`);
  - or it is an umount that passed the started and busy checks (`UmountSafe`: a resource a started container declares is in `BusyResources`, because that container is in the map);
  - or it is a start that launches only after `NeedMount` is mounted.

### `ClientProofs.tla`

`ClientTypeCorrect == Spec => []TypeOK` for the client, for every set of callers and every bound satisfying `ClientAssumption`. `TypeOK` is inductive as it stands. Two facts carry the argument:
- the channel bounds are guards of `Call` and `ForwardNotification`, the only actions that fill the channels;
- every frame, stored sender and in-progress copy is taken from a caller that is already in the state.

How the proof is laid out:
- `TypeOK` is split into four parts: task state, wire, callers, and the two Boolean flags.
- Each action lemma proves each part separately.
- The Boolean flags go to Zenon.
- The facts an action needs are first extracted from it with Zenon, then the SMT backend does the sequence and arithmetic work.

### `ClientRoutingProofs.tla`

Two theorems, for every set of callers and every bound satisfying `ClientAssumption`, against a runtime that answers each request once:
- `ResponseRouted == Spec => []ResponseToItsCaller`: a request method only ever gets the Response to its own request;
- `NoProtocolErrors == Spec => []NoProtocolError`: the task never breaks with `Err(Protocol)`, and no request method returns `Protocol` or reaches its `unreachable!()`.

Neither property is inductive. A Response could be on the wire for a caller other than the stored one, and nothing in the property rules that out. The strengthening `RInv == TypeOK /\ Token /\ ResponseToItsCaller /\ NoProtocolError` makes the `response_tx` slot a token for the wire (`Token`). While the task runs:
- with no sender stored, no request or install header is on the wire, the runtime holds no install header, and no Response is on its way back. A pending `io::copy` then means the connection is already down, so its write fails;
- with the sender of `c` stored, exactly `c`'s round trip is in progress, at one of the stages of `Stage(c)`: the request (for an install, the header and then the bytes) on its way up, the runtime holding the header and awaiting the bytes, or exactly one Response, to `c`, on its way down.

The PendingRequest refusal is what keeps a second request off the wire while the token is taken. `RInv` was checked by TLC first: 53,874 states on `MCClient`, and 540,423 states with three callers.

How the proof is laid out:
- Lemmas on sequences of frames: how `Tail` and `Append` change "no Response" (`NoResp`) and "exactly one Response, to `c`" (`OneResp`).
- `FrameR` covers every step that leaves the wire and the slots alone. `EndTaskR` covers every step that ends the loop.
- One lemma per remaining action. `ServerReadR` and `ReadResponseR` case-split on the stage.
- `ReadResponseR` rests on `TailLastResp`: the Response read is the only one, so it answers the stored sender. `OutcomeSelf` then shows that a method given its own variant returns `Ok` or an `Api` error.

### `ClientServiceProofs.tla`

- `ClientImplementsService == Spec => Service`: the client implements `RequestService` under `inflight <- responseTx`, for every set of callers and every bound.
- It rests on `ClientInvariant == Spec => []SInv`, with `SInv == RInv /\ Queued`. `RInv` alone does not say who is queued, and the refinement needs it:
  - every caller in the request channel is waiting, is not the stored sender, and is there once. So `ReadRequest`'s refusal is a `Refuse` of a busy caller, and its send an `Issue`;
  - the stored sender's caller is waiting. So the Response read is an `Answer`, and `EndTask` a `Close` that stops it.

  `SInv` was checked by TLC first, with three callers (540,423 states).
- The simulation, `NextService`, maps each step:
  - `Connect` to `Open`;
  - `Call` to `Submit`;
  - `ReadRequest` to `Refuse`, `Issue` (the stored or the failed send), or `Close` (the panicking `expect`);
  - `ReadResponse` to `Answer`: `NoProtocolError` and `OutcomeRange` give `Ok` or `Api`;
  - `EndTask` to `Close`;
  - every other step to a stutter.

### `LauncherProofs.tla`

These theorems hold for every set of exit codes and signals, every queue capacity and every bound satisfying `LauncherAssumption`. One of its conjuncts: the program's own exit codes do not read as the init's `128 + signal`.
- `LauncherTypeCorrect == Spec => []TypeOK`. Among other things, the queue never holds more than `QCap` events.
- `ExitEventsFaithful == Spec => []ExitEventFaithful`.
- `LauncherRefinesLifecycle == Spec => Abs!Spec`.

All three rest on `LauncherInvariant == Spec => []IInv`, which TLC checked first, with wider bounds. `IInv == TypeOK /\ Coupling /\ ExitEventFaithful`, and `Coupling` ties what the wait task, `stop` and the queue hold to the child's fate:
- a dead child's kernel status decodes, if it decodes at all, to the status it ended with;
- the wait task's result and `stop`'s result are that status;
- a live child has no status, so no Exit event is queued;
- each handler in progress matches its handle state;
- a handler awaits a send exactly when `pc = "notify"`, never an Exit event, and OutOfMemory only for a started handle.

`TypeOK` alone is not inductive. `Send` needs the wait task's result to be a status, and `Consume` needs a queued Exit to mean a dead child.

How the proof is laid out:
- Three small lemmas give the decode for each way a child dies.
- A generic `DieIInv` covers every death step.
- Each engine, wait-task and queue action has a lemma.
- The refinement is a step simulation, `NextRefines`:
  - `Create` maps to `Abs!Create`, and a successful `StartWait` to `Abs!Start`;
  - `Finish` with a status maps to `Abs!Stop`, and `Consume` of the Exit of a started handle to `Abs!Retire`;
  - every child death maps to `Abs!End`;
  - every other step is a stutter.

**Only model-checked.** TLAPS does not cover these, so TLC checks them:
- `RequestEventuallyAnswered` of the client (liveness);
- `ChildEventuallyReaped` of the launcher (liveness);
- every violation run.

## 5. Not modelled, and the plan

Not modelled at all:
- package format and signatures (data, no concurrency);
- the tools (`nstar`, `sextant`);
- the minijail build script;
- test harnesses.

Planned next, in this order:
1. **Engine queue**: done for one container inside `Launcher` (finding 9): the bounded queue, the notifications, the `Shutdown` request, `on_oom` and the OOM monitor. Still open: the same queue in `StateEngine`, with several containers.
2. **Launcher**: done (`Launcher.tla`, `ProcessLifecycle.tla`, and `LauncherProofs.tla` with the refinement proved). Still open: composing it with `StateEngine`, so that the engine's pid-level view is derived from several launcher handles.
3. **ExitDecode**: the wait-status decoding as a pure operator, checked against a reference definition over all 0..255 exit codes and signal numbers.
4. **Client**: done (`Client.tla`; `TypeOK`, `ResponseToItsCaller`, `NoProtocolError` and the refinement of `RequestService` proved). Still open: a runtime that may answer twice or out of turn, which breaks both properties (the `NoProtocolError` proof assumes a well-behaved runtime).
5. **Codec**: newline framing of partial and joined frames against a reference split.
6. A property for stale OOM events: an OOM stops only the process it was raised for.
7. The engine's own bounded queue with several containers, so that the engine's liveness (an exited process's context is eventually dropped) can be checked under the fairness the code really gives, with the loop able to block.
