------------------------------ MODULE Launcher ------------------------------
(***************************************************************************)
(* The island launcher (runtime/island/mod.rs) driving one container      *)
(* process, as the State Engine uses it (runtime/state.rs): create and     *)
(* start in one handler, terminate = stop + destroy, on_exit retiring the  *)
(* handle, on_oom stopping it.  Every handler ends by awaiting a send of   *)
(* a notification into the engine's own bounded inbound queue.  Five      *)
(* actors step concurrently: the engine's handler, the child (its init     *)
(* path, from spec section 4.3), the blocking wait task, the cgroup's OOM  *)
(* monitor, and the other producers of the engine's queue.                 *)
(***************************************************************************)
EXTENDS Naturals, Sequences

CONSTANTS
    AppCodes,       \* exit codes the container's program may exit with
    ValidSignals,   \* the signal numbers Signal::try_from accepts
    QCap,           \* capacity of the engine's inbound event queue
    MaxOther,       \* bound on events other producers put in the queue
    None

SIGKILL == 9
SIGTERM == 15
SIGNAL_OFFSET == 128

ASSUME LauncherAssumption ==
    /\ AppCodes \subseteq 0..255
    /\ {SIGKILL, SIGTERM} \subseteq ValidSignals
    /\ ValidSignals \subseteq 1..64
    /\ QCap \in Nat \ {0}
    /\ MaxOther \in Nat
    \* the program's own exit codes do not read as the init's 128 + signal
    /\ \A code \in AppCodes : code < SIGNAL_OFFSET \/ code - SIGNAL_OFFSET \notin ValidSignals

\* ExitStatus of the runtime and the raw status waitpid reports.
Statuses == [k : {"Exit"}, v : 0..255] \cup [k : {"Signaled"}, v : ValidSignals]
Raw == [w : {"Exited"}, v : 0..255] \cup [w : {"Signaled"}, v : ValidSignals]
\* Notification::{Started, Stopped, Exit, OutOfMemory} of this container.
Notifications == {"started", "stopped", "exit", "oom"}
\* Event::Exit, Event::Oom, Event::Shutdown, Event::Notification, and the
\* events of everything else (requests, other containers) as "other".
Events == [k : {"other", "oom", "shutdown"}] \cup [k : {"exit"}, s : Statuses]
            \cup [k : {"notif"}, n : Notifications]

Notif(n) == [k |-> "notif", n |-> n]

ASSUME NoneAssumption == None \notin Statuses \cup Raw \cup Events

VARIABLES
    hs,         \* the engine's handle: none, failed, created, started, stopped, retired
    pc,         \* the engine handler in progress: idle, start_wait, stop_timed, stop_await, notify, panicked
    pend,       \* the event the handler awaits sending into the queue (pc = notify)
    why,        \* what the runtime panicked in: none, fork, start, stop
    child,      \* none, setup, held, running, zombie, reaped
    rawStatus,  \* what the kernel will report for the child
    truth,      \* ghost: the status the container really ended with
    p2c, c2p,   \* the two checkpoint pipes
    sigterm, sigkill,
    waiter,     \* the wait task: none, waiting, sending, done, panicked
    wres,       \* the status the wait task decoded
    stopRes,    \* the status stop() returned
    queue, open, others,
    oom         \* the cgroup's OOM monitor: none, fired, sent

engineVars == <<hs, pc, why, stopRes, pend>>
childVars == <<child, rawStatus, truth>>
pipeVars == <<p2c, c2p>>
sigVars == <<sigterm, sigkill>>
waitVars == <<waiter, wres>>
queueVars == <<queue, open, others>>
vars == <<engineVars, childVars, pipeVars, sigVars, waitVars, queueVars, oom>>

TypeOK ==
    /\ hs \in {"none", "failed", "created", "started", "stopped", "retired"}
    /\ pc \in {"idle", "start_wait", "stop_timed", "stop_await", "notify", "panicked"}
    /\ pend \in Events \cup {None}
    /\ why \in {"none", "fork", "start", "stop"}
    /\ child \in {"none", "setup", "held", "running", "zombie", "reaped"}
    /\ rawStatus \in Raw \cup {None}
    /\ truth \in Statuses \cup {None}
    /\ p2c \in Seq({"Start"}) /\ c2p \in Seq({"Started"})
    /\ sigterm \in BOOLEAN /\ sigkill \in BOOLEAN
    /\ waiter \in {"none", "waiting", "sending", "done", "panicked"}
    /\ wres \in Statuses \cup {None}
    /\ stopRes \in Statuses \cup {None}
    /\ queue \in Seq(Events) /\ Len(queue) <= QCap
    /\ open \in BOOLEAN /\ others \in 0..MaxOther
    /\ oom \in {"none", "fired", "sent"}

Init ==
    /\ hs = "none" /\ pc = "idle" /\ why = "none" /\ pend = None
    /\ child = "none" /\ rawStatus = None /\ truth = None
    /\ p2c = <<>> /\ c2p = <<>>
    /\ sigterm = FALSE /\ sigkill = FALSE
    /\ waiter = "none" /\ wres = None /\ stopRes = None
    /\ queue = <<>> /\ open = TRUE /\ others = 0 /\ oom = "none"

Alive == child \in {"setup", "held", "running"}

-----------------------------------------------------------------------------
(* The wait task: waitpid, decode, then try_send Exit until it is taken.   *)

\* Mutant: a code above the offset is taken as a plain exit code.
DecodeNoOffset(r) ==
    IF r.w = "Exited" THEN [k |-> "Exit", v |-> r.v] ELSE [k |-> "Signaled", v |-> r.v]

\* An init exit code >= SIGNAL_OFFSET stands for the signal code - 128.
Decode(r) ==
    IF r.w = "Exited"
    THEN IF SIGNAL_OFFSET <= r.v THEN [k |-> "Signaled", v |-> r.v - SIGNAL_OFFSET]
                                 ELSE [k |-> "Exit", v |-> r.v]
    ELSE [k |-> "Signaled", v |-> r.v]

\* Signal::try_from(code - 128).expect("Invalid signal offset")
Decodable(r) ==
    r.w = "Exited" /\ SIGNAL_OFFSET <= r.v => r.v - SIGNAL_OFFSET \in ValidSignals

Reap ==
    /\ waiter = "waiting" /\ child = "zombie"
    /\ child' = "reaped"
    /\ IF Decodable(rawStatus)
       THEN waiter' = "sending" /\ wres' = Decode(rawStatus)
       ELSE waiter' = "panicked" /\ UNCHANGED wres
    /\ UNCHANGED <<engineVars, rawStatus, truth, pipeVars, sigVars, queueVars, oom>>

\* Mutant: TrySendError::Full is treated like success.
SendIgnoringFull ==
    /\ waiter = "sending"
    /\ waiter' = "done"
    /\ IF open THEN queue' = Append(queue, [k |-> "exit", s |-> wres])
               ELSE UNCHANGED queue
    /\ UNCHANGED <<engineVars, childVars, pipeVars, sigVars, wres, open, others, oom>>

\* Full: sleep 1 ms and retry, no step; Closed: nobody listens, give up.
Send ==
    /\ waiter = "sending"
    /\ ~open \/ Len(queue) < QCap
    /\ waiter' = "done"
    /\ IF open THEN queue' = Append(queue, [k |-> "exit", s |-> wres])
               ELSE UNCHANGED queue
    /\ UNCHANGED <<engineVars, childVars, pipeVars, sigVars, wres, open, others, oom>>

-----------------------------------------------------------------------------
(* The engine's side: State::start's create and start, terminate's stop,   *)
(* and the main loop taking events.                                        *)

\* The main loop takes a console request (Event::Console) whose handler
\* is the step that follows; the loop takes nothing else meanwhile.
TakeRequest ==
    /\ queue # <<>> /\ Head(queue).k = "other"
    /\ queue' = Tail(queue)

\* Island::create: preparation may fail before the clone, the clone
\* itself panics on error; the parent spawns the wait task.
Create ==
    /\ hs = "none" /\ pc = "idle" /\ TakeRequest
    /\ \/ /\ hs' = "failed"
          /\ UNCHANGED <<pc, why, childVars, waitVars>>
       \/ /\ pc' = "panicked" /\ why' = "fork"
          /\ UNCHANGED <<hs, childVars, waitVars>>
       \/ /\ hs' = "created" /\ child' = "setup" /\ waiter' = "waiting"
          /\ UNCHANGED <<pc, why, rawStatus, truth, wres>>
    /\ UNCHANGED <<stopRes, pend, pipeVars, sigVars, open, others, oom>>

\* start: checkpoint.async_send(Start); a write to a dead child's pipe
\* fails and send's expect("Pipe error") panics.
StartSend ==
    /\ hs = "created" /\ pc = "idle"
    /\ IF Alive THEN p2c' = Append(p2c, "Start") /\ pc' = "start_wait" /\ UNCHANGED why
                ELSE pc' = "panicked" /\ why' = "start" /\ UNCHANGED p2c
    /\ UNCHANGED <<hs, stopRes, pend, childVars, c2p, sigVars, waitVars, queueVars, oom>>

\* start: checkpoint.async_wait(Started); end of file panics.  Once the
\* context is stored, State::start sends the Started notification.
StartWait ==
    /\ pc = "start_wait"
    /\ \/ /\ c2p # <<>>
          /\ c2p' = Tail(c2p) /\ hs' = "started"
          /\ pc' = "notify" /\ pend' = Notif("started")
          /\ UNCHANGED why
       \/ /\ c2p = <<>> /\ ~Alive
          /\ pc' = "panicked" /\ why' = "start"
          /\ UNCHANGED <<hs, c2p, pend>>
    /\ UNCHANGED <<stopRes, childVars, p2c, sigVars, waitVars, queueVars, oom>>

\* Mutant: on ESRCH stop returns a default status instead of awaiting.
StopTermEsrchReturns ==
    /\ hs = "started" /\ pc = "idle" /\ TakeRequest
    /\ IF child = "reaped"
       THEN stopRes' = [k |-> "Exit", v |-> 0] /\ hs' = "stopped" /\ UNCHANGED <<pc, sigterm>>
       ELSE pc' = "stop_timed" /\ sigterm' = TRUE /\ UNCHANGED <<hs, stopRes>>
    /\ UNCHANGED <<why, pend, childVars, pipeVars, sigkill, waitVars, open, others, oom>>

\* State::stop takes the process context and IslandProcess::stop sends
\* SIGTERM to the process group.  A reaped child gives ESRCH and the wait
\* task's result is awaited unconditionally.
StopBegin ==
    IF child = "reaped" THEN pc' = "stop_await" /\ UNCHANGED sigterm
                        ELSE pc' = "stop_timed" /\ sigterm' = TRUE

\* A Stop request of a started container.
StopTerm ==
    /\ hs = "started" /\ pc = "idle" /\ TakeRequest
    /\ StopBegin
    /\ UNCHANGED <<hs, why, stopRes, pend, childVars, pipeVars, sigkill, waitVars, open, others, oom>>

\* The awaited exit_status resolves: Ok(status), and State::stop sends the
\* Stopped notification; or the join error of a panicked wait task, which
\* terminate's expect turns into a panic.
Finish ==
    \/ /\ waiter = "done"
       /\ stopRes' = wres /\ hs' = "stopped"
       /\ pc' = "notify" /\ pend' = Notif("stopped")
       /\ UNCHANGED why
    \/ /\ waiter = "panicked"
       /\ pc' = "panicked" /\ why' = "stop"
       /\ UNCHANGED <<hs, stopRes, pend>>

\* Mutant: on timeout the SIGKILL is forgotten.
StopTimedNoKill ==
    /\ pc = "stop_timed"
    /\ \/ waiter \in {"done", "panicked"} /\ Finish /\ UNCHANGED sigkill
       \/ /\ waiter \notin {"done", "panicked"}
          /\ pc' = "stop_await"
          /\ UNCHANGED <<hs, why, stopRes, pend, sigkill>>
    /\ UNCHANGED <<childVars, pipeVars, sigterm, waitVars, queueVars, oom>>

\* time::timeout(timeout, &mut exit_status): the status, or on timeout a
\* SIGKILL to the group, whose error (ESRCH once the wait task has reaped
\* the child) is returned by `?` and makes terminate panic.
StopTimed ==
    /\ pc = "stop_timed"
    /\ \/ waiter \in {"done", "panicked"} /\ Finish /\ UNCHANGED sigkill
       \/ /\ waiter \notin {"done", "panicked"}
          /\ IF child = "reaped"
             THEN pc' = "panicked" /\ why' = "stop" /\ UNCHANGED sigkill
             ELSE pc' = "stop_await" /\ sigkill' = TRUE /\ UNCHANGED why
          /\ UNCHANGED <<hs, stopRes, pend>>
    /\ UNCHANGED <<childVars, pipeVars, sigterm, waitVars, queueVars, oom>>

\* (&mut exit_status).await after SIGKILL or ESRCH.
StopAwait ==
    /\ pc = "stop_await"
    /\ waiter \in {"done", "panicked"}
    /\ Finish
    /\ UNCHANGED <<childVars, pipeVars, sigVars, waitVars, queueVars, oom>>

\* State::notification: unless the queue is closed, send the event and
\* await room for it.  The handler that sent it then returns, except
\* on_oom, which goes on to stop the process.
Notify ==
    /\ pc = "notify"
    /\ ~open \/ Len(queue) < QCap
    /\ queue' = IF open THEN Append(queue, pend) ELSE queue
    /\ pend' = None
    /\ IF pend = Notif("oom") THEN StopBegin ELSE pc' = "idle" /\ UNCHANGED sigterm
    /\ UNCHANGED <<hs, why, stopRes, childVars, pipeVars, sigkill, waitVars, open, others, oom>>

\* State::on_exit destroys the context of a started process and sends the
\* Exit notification.
OnExit ==
    /\ queue' = Tail(queue)
    /\ IF hs = "started" THEN hs' = "retired" /\ pc' = "notify" /\ pend' = Notif("exit")
                         ELSE UNCHANGED <<hs, pc, pend>>
    /\ UNCHANGED <<why, stopRes, childVars, pipeVars, sigVars, waitVars, open, others, oom>>

\* State::on_oom of a started process: the OutOfMemory notification, then
\* stop.
OnOom ==
    /\ queue' = Tail(queue)
    /\ IF hs = "started" THEN pc' = "notify" /\ pend' = Notif("oom")
                         ELSE UNCHANGED <<pc, pend>>
    /\ UNCHANGED <<hs, why, stopRes, childVars, pipeVars, sigVars, waitVars, open, others, oom>>

\* Any other request or event; a console Shutdown request sends
\* Event::Shutdown into the engine's own queue and awaits it.
OnRequest ==
    /\ queue' = Tail(queue)
    /\ \/ UNCHANGED <<pc, pend>>
       \/ pc' = "notify" /\ pend' = [k |-> "shutdown"]
    /\ UNCHANGED <<hs, why, stopRes, childVars, pipeVars, sigVars, waitVars, open, others, oom>>

\* A notification is forwarded to the sessions.
Forward ==
    /\ queue' = Tail(queue)
    /\ UNCHANGED <<engineVars, childVars, pipeVars, sigVars, waitVars, open, others, oom>>

\* Event::Shutdown ends the main loop and drops the receiver; State::shutdown
\* stops the started container.
OnShutdown ==
    /\ open' = FALSE /\ queue' = <<>>
    /\ IF hs = "started" THEN StopBegin ELSE UNCHANGED <<pc, sigterm>>
    /\ UNCHANGED <<hs, why, stopRes, pend, childVars, pipeVars, sigkill, waitVars, others, oom>>

\* The main loop takes the next event and runs its handler.  No event is
\* taken while a handler runs.
Consume ==
    /\ pc = "idle" /\ hs # "created"
    /\ queue # <<>>
    /\ \/ Head(queue).k = "exit" /\ OnExit
       \/ Head(queue).k = "oom" /\ OnOom
       \/ Head(queue).k = "other" /\ OnRequest
       \/ Head(queue).k = "notif" /\ Forward
       \/ Head(queue).k = "shutdown" /\ OnShutdown

\* Shutdown ends the main loop and drops the receiver.
Close ==
    /\ pc = "idle" /\ hs \notin {"created", "started"} /\ open
    /\ open' = FALSE
    /\ UNCHANGED <<engineVars, childVars, pipeVars, sigVars, waitVars, queue, others, oom>>

\* Sessions, cgroup notifiers and other wait tasks fill the queue.
Produce ==
    /\ open /\ Len(queue) < QCap /\ others < MaxOther
    /\ queue' = Append(queue, [k |-> "other"]) /\ others' = others + 1
    /\ UNCHANGED <<engineVars, childVars, pipeVars, sigVars, waitVars, open, oom>>

\* The memory cgroup's notifier fired: the monitor sends Event::Oom, or
\* gives up once the queue is closed (spec section 4.4).
MonitorSend ==
    /\ oom = "fired"
    /\ ~open \/ Len(queue) < QCap
    /\ oom' = "sent"
    /\ queue' = IF open THEN Append(queue, [k |-> "oom"]) ELSE queue
    /\ UNCHANGED <<engineVars, childVars, pipeVars, sigVars, waitVars, open, others>>

-----------------------------------------------------------------------------
(* The child, from its clone to its death (spec section 4.3, child path). *)

Die(raw, st) ==
    /\ Alive
    /\ child' = "zombie" /\ rawStatus' = raw /\ truth' = st

\* Setup done: write Start-ack, then block reading Start.
ChildAck ==
    /\ child = "setup"
    /\ child' = "held" /\ c2p' = Append(c2p, "Started")
    /\ UNCHANGED <<engineVars, rawStatus, truth, p2c, sigVars, waitVars, queueVars, oom>>

\* Start read: execve, or exit with a distinctive code if it fails.
ChildGo ==
    /\ child = "held" /\ p2c # <<>>
    /\ p2c' = Tail(p2c)
    /\ \/ child' = "running" /\ UNCHANGED <<rawStatus, truth>>
       \/ \E code \in AppCodes :
             Die([w |-> "Exited", v |-> code], [k |-> "Exit", v |-> code])
    /\ UNCHANGED <<engineVars, c2p, sigVars, waitVars, queueVars, oom>>

\* A setup step fails and the child exits before the handshake.
ChildSetupFails ==
    /\ child = "setup"
    /\ \E code \in AppCodes :
          Die([w |-> "Exited", v |-> code], [k |-> "Exit", v |-> code])
    /\ UNCHANGED <<engineVars, pipeVars, sigVars, waitVars, queueVars, oom>>

\* The program exits, or a signal ends it inside the namespace and the
\* container's init reports 128 + signal.
ChildExits ==
    /\ child = "running"
    /\ \/ \E code \in AppCodes :
             Die([w |-> "Exited", v |-> code], [k |-> "Exit", v |-> code])
       \/ \E s \in ValidSignals :
             Die([w |-> "Exited", v |-> SIGNAL_OFFSET + s], [k |-> "Signaled", v |-> s])
    /\ UNCHANGED <<engineVars, pipeVars, sigVars, waitVars, queueVars, oom>>

\* A program that handles SIGTERM may end on it; it may also ignore it.
ChildTerminated ==
    /\ sigterm
    /\ Die([w |-> "Signaled", v |-> SIGTERM], [k |-> "Signaled", v |-> SIGTERM])
    /\ UNCHANGED <<engineVars, pipeVars, sigVars, waitVars, queueVars, oom>>

\* SIGKILL from stop, which the kernel always delivers.
ChildKilled ==
    /\ sigkill
    /\ Die([w |-> "Signaled", v |-> SIGKILL], [k |-> "Signaled", v |-> SIGKILL])
    /\ UNCHANGED <<engineVars, pipeVars, sigVars, waitVars, queueVars, oom>>

\* The OOM killer of the container's memory cgroup, at any time; the
\* cgroup's notifier fires.
OomKilled ==
    /\ Die([w |-> "Signaled", v |-> SIGKILL], [k |-> "Signaled", v |-> SIGKILL])
    /\ oom' = "fired"
    /\ UNCHANGED <<engineVars, pipeVars, sigVars, waitVars, queueVars>>

-----------------------------------------------------------------------------
Next ==
    \/ Create \/ StartSend \/ StartWait \/ StopTerm \/ StopTimed \/ StopAwait
    \/ Notify \/ Consume \/ Close \/ Produce \/ MonitorSend
    \/ Reap \/ Send
    \/ ChildAck \/ ChildGo \/ ChildSetupFails \/ ChildExits
    \/ ChildTerminated \/ ChildKilled \/ OomKilled

\* The runtime polls a handler whose future is ready, the timer fires, the
\* blocking wait thread runs, the kernel delivers SIGKILL, the child runs.
Fairness ==
    /\ WF_vars(StartWait) /\ WF_vars(StopTimed) /\ WF_vars(StopAwait)
    /\ WF_vars(Notify) /\ WF_vars(Consume) /\ WF_vars(Reap) /\ WF_vars(Send)
    /\ WF_vars(MonitorSend)
    /\ WF_vars(ChildAck) /\ WF_vars(ChildGo) /\ WF_vars(ChildKilled)

Spec == Init /\ [][Next]_vars /\ Fairness

-----------------------------------------------------------------------------
(* Properties                                                              *)

\* The handle goes through the states of spec 4.3, and stop() returns the
\* status the container really ended with: the SIGTERM/timeout/SIGKILL
\* path, the ESRCH path and the wait task's decoding agree with it.
LifeOf == CASE hs \in {"none", "failed"} -> "none"
            [] hs = "created" -> "created"
            [] hs = "started" -> "started"
            [] OTHER -> "stopped"

Abs == INSTANCE ProcessLifecycle WITH life <- LifeOf, ended <- truth, reported <- stopRes

Lifecycle == Abs!Spec

\* Every Exit event the wait task puts in the engine's queue carries the
\* status the container ended with, decoded across the PID namespace.
ExitEventFaithful ==
    \A i \in 1..Len(queue) : queue[i].k = "exit" => queue[i].s = truth

\* Once stop has sent SIGTERM the child is eventually reaped, even if it
\* ignores SIGTERM: the timeout escalates to SIGKILL (spec 4.3, stop).
ChildEventuallyReaped == sigterm ~> child = "reaped"

\* start() never brings the runtime down (spec 4.7, start (e): a failure after the
\* mounts is StartContainerFailed, not a panic).
StartNoPanic == why # "start"

\* terminate never panics: stop() does not fail (state.rs expects it).
StopNoError == why # "stop"

\* Every engine handler eventually returns, or the runtime panics: the loop,
\* the only consumer of its queue, never waits forever on something that
\* needs room in that queue (a notification or Event::Shutdown it sends
\* itself, or the wait task's Exit event that stop awaits).
HandlerReturns == pc \notin {"idle", "panicked"} ~> pc \in {"idle", "panicked"}

==============================================================================
