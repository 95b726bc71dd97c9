---------------------------- MODULE StateEngine ----------------------------
(***************************************************************************)
(* The northstar runtime's State engine (src/northstar/src/runtime/       *)
(* state.rs) together with the part of the launcher it drives             *)
(* (runtime/island/mod.rs): the container map, the repositories, the      *)
(* kernel mounts the map stands for, the container processes and the      *)
(* engine's single inbound event queue that the launcher's wait tasks and  *)
(* the cgroup OOM notifiers feed.                                          *)
(*                                                                         *)
(* Each client request is one action: the engine serialises requests, and  *)
(* a request handler runs to completion before the next event is taken     *)
(* from the queue. Since a request may arrive at any time, executing it as *)
(* one step at any point lets every order of requests and queued events    *)
(* happen. Child exits and OOM notifications are environment steps that   *)
(* append to the queue; HandleEvent takes its head.                        *)
(***************************************************************************)
EXTENDS Integers, Sequences, FiniteSets

CONSTANTS
    Apps,           \* application containers (manifest has an init)
    Resources,      \* resource containers (manifest has no init)
    Deps,           \* Deps[a]: the resources named by a's resource mounts
    RepositoryId,   \* configured repository labels
    MountRequests,  \* the bulk mount requests a client may send
    Statuses,       \* wait statuses: s >= 0 is Exited(s), s < 0 Signaled(-s)
    MaxPid,         \* bound: number of processes the launcher may clone
    MaxMounts,      \* bound: kernel mounts stacked on one root directory
    NoPid           \* "no process context"

Container == Apps \cup Resources

ASSUME Assumption ==
    /\ Apps \cap Resources = {}
    /\ Deps \in [Apps -> SUBSET Resources]
    /\ RepositoryId # {}
    /\ MountRequests \subseteq Seq(Container)
    /\ Statuses \subseteq Int
    /\ MaxPid \in Nat
    /\ MaxMounts \in Nat \ {0}
    /\ NoPid \notin 1..MaxPid

Pids == 1..MaxPid

\* Manifest resource references: resources declare no resource mounts.
DepsOf(c) == IF c \in Apps THEN Deps[c] ELSE {}

\* The launcher's decoding of a wait status (island/mod.rs wait): an exit
\* code >= 128 is turned back into Signal::try_from(code - 128), which only
\* knows the signal numbers 1..31.
SIGNAL_OFFSET == 128
ValidSignals == 1..31
Decodable(s) == s < SIGNAL_OFFSET \/ s - SIGNAL_OFFSET \in ValidSignals

Ops == {"start", "stop", "mount", "umount", "install", "uninstall"}
Results == {"ok", "InvalidContainer", "StartContainerResource",
            "StartContainerStarted", "StartContainerMissingResource",
            "MountFailed", "CreateFailed", "DebugFailed",
            "StopContainerNotStarted", "UmountBusy", "InstallDuplicate",
            "NpkInvalid", "NoResponse"}

EventKinds == {"exit", "oom"}

VARIABLES
    repositories,   \* repositories[r]: the identities installed in r
    containers,     \* the keys of State::containers (mounted containers)
    process,        \* process[c]: pid of c's ProcessContext, or NoPid
    kmounts,        \* kmounts[c]: kernel mounts stacked on c's root dir
    pstate,         \* pstate[p]: "unused", "created", "started", "exited"
                    \*   or "lost" (exited, but its wait task panicked)
    powner,         \* powner[p]: the container process p was cloned for,
                    \*   in clone order (the pids handed out are its domain)
    oomSent,        \* pids whose cgroup has reported an OOM
    events,         \* the engine's inbound queue of Exit and OOM events
    phase,          \* "running", "down" after shutdown, "panicked"
    reply           \* the last response sent to a client

vars == <<repositories, containers, process, kmounts, pstate, powner,
          oomSent, events, phase, reply>>

launcherVars == <<pstate, powner, oomSent, events>>

TypeOK ==
    /\ repositories \in [RepositoryId -> SUBSET Container]
    /\ containers \in SUBSET Container
    /\ process \in [Container -> Pids \cup {NoPid}]
    /\ kmounts \in [Container -> 0..MaxMounts]
    /\ pstate \in [Pids -> {"unused", "created", "started", "exited", "lost"}]
    /\ powner \in Seq(Container)
    /\ Len(powner) <= MaxPid
    /\ oomSent \in SUBSET Pids
    /\ events \in Seq([kind : EventKinds, container : Container])
    /\ phase \in {"running", "down", "panicked"}
    /\ reply \in [op : Ops, res : Results] \cup {<<>>}

-----------------------------------------------------------------------------
(* Helpers                                                                 *)

\* State::npk: the identity is in some repository.
Installed(c) == \E r \in RepositoryId : c \in repositories[r]

Running == phase = "running"

\* The pid the next clone gets.
NextPid == Len(powner) + 1

Reply(op, res) == reply' = [op |-> op, res |-> res]

Exit(c) == [kind |-> "exit", container |-> c]
Oom(c) == [kind |-> "oom", container |-> c]

\* The resources a started container's manifest references; umount of a
\* resource in this set is refused (State::umount).
BusyResources ==
    UNION {DepsOf(a) : a \in {x \in containers : process[x] # NoPid}}

\* Kernel mounts after each container in S gained n[c] mounts.
AddMounts(n) == [c \in Container |-> kmounts[c] + n[c]]

-----------------------------------------------------------------------------
(* Stopping a process (ProcessContext::terminate, IslandProcess::stop).    *)
(* SIGTERM, then the wait task's result is awaited. The wait task sends   *)
(* Exit(c) to the engine's queue before it resolves the result. When the  *)
(* wait task panicked on an undecodable status, the awaited result is a   *)
(* join error and terminate's expect panics the engine.                   *)
Terminate(c, q) ==
    LET p == process[c] IN
    /\ UNCHANGED <<powner, oomSent>>
    /\ \/ /\ pstate[p] = "lost"
          /\ phase' = "panicked"
          /\ events' = q
          /\ UNCHANGED <<process, pstate>>
       \/ /\ pstate[p] = "exited"
          /\ process' = [process EXCEPT ![c] = NoPid]
          /\ events' = q
          /\ UNCHANGED <<pstate, phase>>
       \/ /\ pstate[p] = "started"
          /\ \E s \in Statuses :
               IF Decodable(s)
               THEN /\ pstate' = [pstate EXCEPT ![p] = "exited"]
                    /\ events' = Append(q, Exit(c))
                    /\ process' = [process EXCEPT ![c] = NoPid]
                    /\ UNCHANGED phase
               ELSE /\ pstate' = [pstate EXCEPT ![p] = "lost"]
                    /\ phase' = "panicked"
                    /\ events' = q
                    /\ UNCHANGED process

-----------------------------------------------------------------------------
(* Client requests                                                         *)

\* The containers State::start has to mount: the container itself and the
\* resources of its manifest that are not in the map.
\* Mutant: the manifest's resource mounts are not collected.
NeedMountNoDeps(c) == IF c \in containers THEN {} ELSE {c}

NeedMount(c) == (IF c \in containers THEN {} ELSE {c})
                    \cup {r \in DepsOf(c) : r \notin containers}

Launch(c) ==
    \/ /\ c \in Resources
       /\ phase' = "panicked"
       /\ UNCHANGED <<process, launcherVars, reply>>
    \/ /\ c \in Apps
       /\ Reply("start", "CreateFailed")
       /\ UNCHANGED <<process, launcherVars, phase>>
    \/ /\ c \in Apps
       /\ NextPid \in Pids
       /\ \E res \in {"DebugFailed", "ok"} :
            /\ pstate' = [pstate EXCEPT ![NextPid] =
                             IF res = "ok" THEN "started" ELSE "created"]
            /\ process' = IF res = "ok"
                          THEN [process EXCEPT ![c] = NextPid]
                          ELSE process
            /\ Reply("start", res)
       /\ powner' = Append(powner, c)
       /\ UNCHANGED <<oomSent, events, phase>>

\* State::start's checks on a container that is in the map: it is not a
\* resource and not already started.
StartChecks(c) == c \in containers => (c \in Apps /\ process[c] = NoPid)

\* State::start. Checks, then the container and its not yet mounted
\* resources are mounted concurrently; the successful mounts stay in the
\* map even when another one failed. Then the launcher creates the process
\* (init_argv panics for a container without init), debug tooling is
\* attached, and the process is signalled to start.
Start(c) ==
    /\ Running
    /\ UNCHANGED repositories
    /\ \/ /\ ~Installed(c)
          /\ Reply("start", "InvalidContainer")
          /\ UNCHANGED <<containers, process, kmounts, launcherVars, phase>>
       \/ /\ Installed(c)
          /\ c \in containers
          /\ c \in Resources
          /\ Reply("start", "StartContainerResource")
          /\ UNCHANGED <<containers, process, kmounts, launcherVars, phase>>
       \/ /\ Installed(c)
          /\ c \in containers
          /\ c \in Apps
          /\ process[c] # NoPid
          /\ Reply("start", "StartContainerStarted")
          /\ UNCHANGED <<containers, process, kmounts, launcherVars, phase>>
       \/ /\ Installed(c)
          /\ StartChecks(c)
          /\ \E r \in DepsOf(c) \ containers : ~Installed(r)
          /\ Reply("start", "StartContainerMissingResource")
          /\ UNCHANGED <<containers, process, kmounts, launcherVars, phase>>
       \/ /\ Installed(c)
          /\ StartChecks(c)
          /\ \A r \in DepsOf(c) \ containers : Installed(r)
          /\ \E ok \in SUBSET NeedMount(c) :
               /\ \A x \in ok : kmounts[x] < MaxMounts
               /\ containers' = containers \cup ok
               /\ kmounts' = AddMounts([x \in Container |->
                                            IF x \in ok THEN 1 ELSE 0])
               /\ IF ok = NeedMount(c)
                  THEN Launch(c)
                  ELSE /\ Reply("start", "MountFailed")
                       /\ UNCHANGED <<process, launcherVars, phase>>

\* State::stop.
Stop(c) ==
    /\ Running
    /\ UNCHANGED <<repositories, containers, kmounts>>
    /\ \/ /\ process[c] = NoPid
          /\ Reply("stop", "StopContainerNotStarted")
          /\ UNCHANGED <<process, launcherVars, phase>>
       \/ /\ process[c] # NoPid
          /\ Terminate(c, events)
          /\ IF phase' = "panicked" THEN UNCHANGED reply
                                     ELSE Reply("stop", "ok")

\* State::umount: refuses an unknown, a started, or a busy resource
\* container; otherwise unmounts its root and drops the map entry.
\* Mutant: the map lookup's early return is dropped.
UmountChecksNoLookup(c) ==
    /\ process[c] = NoPid
    /\ ~(c \in Resources /\ c \in BusyResources)

\* Mutant: the started check is dropped.
UmountChecksNoProcess(c) ==
    /\ c \in containers
    /\ ~(c \in Resources /\ c \in BusyResources)

UmountChecks(c) ==
    /\ c \in containers
    /\ process[c] = NoPid
    /\ ~(c \in Resources /\ c \in BusyResources)

DoUmount(c) ==
    /\ kmounts' = [kmounts EXCEPT ![c] = @ - 1]
    /\ containers' = containers \ {c}

Umount(c) ==
    /\ Running
    /\ UNCHANGED <<repositories, process, launcherVars, phase>>
    /\ \/ /\ ~UmountChecks(c)
          /\ Reply("umount", "UmountBusy")
          /\ UNCHANGED <<containers, kmounts>>
       \/ /\ UmountChecks(c)
          /\ DoUmount(c)
          /\ Reply("umount", "ok")

\* console_request, Request::Mount. State::mount is awaited for each
\* identity in order: it spawns the mount task at once and fails with
\* InvalidContainer (the `?` leaves console_request without a response)
\* for an identity in no repository, leaving the tasks already spawned to
\* mount in the background. Otherwise every result is awaited, and each
\* successful one is inserted into the map, replacing an existing entry.
MountCount(cs, ok) ==
    [x \in Container |-> Cardinality({i \in ok : cs[i] = x})]

BulkMount(cs) ==
    /\ Running
    /\ UNCHANGED <<repositories, launcherVars, phase>>
    /\ LET invalid == {i \in DOMAIN cs : ~Installed(cs[i])}
           spawned == IF invalid = {} THEN DOMAIN cs
                      ELSE {i \in DOMAIN cs : \A j \in invalid : i < j}
       IN \E ok \in SUBSET spawned :
            /\ \A x \in Container : kmounts[x] + MountCount(cs, ok)[x] <= MaxMounts
            /\ kmounts' = AddMounts(MountCount(cs, ok))
            /\ IF invalid = {}
               THEN LET new == {cs[i] : i \in ok} IN
                    /\ containers' = containers \cup new
                    /\ process' = [x \in Container |->
                                     IF x \in new THEN NoPid ELSE process[x]]
                    /\ Reply("mount", "ok")
               ELSE /\ Reply("mount", "NoResponse")
                    /\ UNCHANGED <<containers, process>>

\* State::install: the bytes are inserted into the repository, which
\* rejects a package it already holds and one that does not open.
Install(r, c) ==
    /\ Running
    /\ UNCHANGED <<containers, process, kmounts, launcherVars, phase>>
    /\ \/ /\ c \in repositories[r]
          /\ Reply("install", "InstallDuplicate")
          /\ UNCHANGED repositories
       \/ /\ c \notin repositories[r]
          /\ Reply("install", "NpkInvalid")
          /\ UNCHANGED repositories
       \/ /\ c \notin repositories[r]
          /\ repositories' = [repositories EXCEPT ![r] = @ \cup {c}]
          /\ Reply("install", "ok")

\* State::uninstall: umount when mounted, then remove from every repository.
RemoveEverywhere(c) ==
    repositories' = [r \in RepositoryId |-> repositories[r] \ {c}]

Uninstall(c) ==
    /\ Running
    /\ UNCHANGED <<process, launcherVars, phase>>
    /\ \/ /\ c \in containers
          /\ ~UmountChecks(c)
          /\ Reply("uninstall", "UmountBusy")
          /\ UNCHANGED <<repositories, containers, kmounts>>
       \/ /\ c \in containers
          /\ UmountChecks(c)
          /\ DoUmount(c)
          /\ RemoveEverywhere(c)
          /\ Reply("uninstall", "ok")
       \/ /\ c \notin containers
          /\ RemoveEverywhere(c)
          /\ Reply("uninstall", "ok")
          /\ UNCHANGED <<containers, kmounts>>

\* State::shutdown: every started container is stopped (a stop that meets
\* a lost or undecodable exit panics), then every container is unmounted.
Started == {c \in containers : process[c] # NoPid}

Shutdown ==
    /\ Running
    /\ UNCHANGED <<repositories, powner, oomSent, events, reply>>
    /\ \/ /\ \E c \in Started :
                \/ pstate[process[c]] = "lost"
                \/ /\ pstate[process[c]] = "started"
                   /\ \E s \in Statuses : ~Decodable(s)
          /\ phase' = "panicked"
          /\ UNCHANGED <<containers, process, kmounts, pstate>>
       \/ /\ \A c \in Started : pstate[process[c]] # "lost"
          /\ pstate' = [p \in Pids |->
                          IF \E c \in Started : process[c] = p
                          THEN "exited" ELSE pstate[p]]
          /\ process' = [c \in Container |-> NoPid]
          /\ kmounts' = [c \in Container |->
                           IF c \in containers THEN kmounts[c] - 1
                           ELSE kmounts[c]]
          /\ containers' = {}
          /\ phase' = "down"

-----------------------------------------------------------------------------
(* Events                                                                  *)

\* A cloned child ends (crash, normal exit, or EOF on its checkpoint after
\* the parent dropped it). The wait task decodes the status and sends
\* Exit(c) to the engine's queue; on an undecodable status its
\* Signal::try_from(..).expect panics and nothing is sent.
ProcessExit(p) ==
    /\ Running
    /\ pstate[p] \in {"created", "started"}
    /\ \E s \in Statuses :
         IF Decodable(s)
         THEN /\ pstate' = [pstate EXCEPT ![p] = "exited"]
              /\ events' = Append(events, Exit(powner[p]))
         ELSE /\ pstate' = [pstate EXCEPT ![p] = "lost"]
              /\ UNCHANGED events
    /\ UNCHANGED <<repositories, containers, process, kmounts, powner,
                   oomSent, phase, reply>>

\* The memory cgroup of a started process reports an OOM.
OutOfMemory(p) ==
    /\ Running
    /\ pstate[p] = "started"
    /\ p \notin oomSent
    /\ oomSent' = oomSent \cup {p}
    /\ events' = Append(events, Oom(powner[p]))
    /\ UNCHANGED <<repositories, containers, process, kmounts, pstate,
                   powner, phase, reply>>

\* State::on_exit: the event names a container only; whatever process
\* context that container has now is dropped (destroy does not signal it).
\* Mutant: on_exit reads the process context without taking it.
OnExitNoRelease(c) ==
    /\ UNCHANGED <<process, pstate, powner, oomSent, phase>>

OnExit(c) ==
    /\ process' = IF c \in containers /\ process[c] # NoPid
                  THEN [process EXCEPT ![c] = NoPid]
                  ELSE process
    /\ UNCHANGED <<pstate, powner, oomSent, phase>>

\* State::on_oom: a started container is stopped.
OnOom(c, q) ==
    \/ /\ process[c] # NoPid
       /\ Terminate(c, q)
    \/ /\ process[c] = NoPid
       /\ events' = q
       /\ UNCHANGED <<process, pstate, powner, oomSent, phase>>

\* The engine loop takes the head of its queue.
HandleEvent ==
    /\ Running
    /\ events # <<>>
    /\ UNCHANGED <<repositories, containers, kmounts, reply>>
    /\ \/ /\ Head(events).kind = "exit"
          /\ OnExit(Head(events).container)
          /\ events' = Tail(events)
       \/ /\ Head(events).kind = "oom"
          /\ OnOom(Head(events).container, Tail(events))

-----------------------------------------------------------------------------
Next ==
    \/ \E c \in Container : Start(c) \/ Stop(c) \/ Umount(c) \/ Uninstall(c)
    \/ \E cs \in MountRequests : BulkMount(cs)
    \/ \E r \in RepositoryId, c \in Container : Install(r, c)
    \/ Shutdown
    \/ \E p \in Pids : ProcessExit(p) \/ OutOfMemory(p)
    \/ HandleEvent

Init ==
    \* State::new: each repository holds whatever its directory holds
    /\ repositories \in [RepositoryId -> SUBSET Container]
    /\ containers = {}
    /\ process = [c \in Container |-> NoPid]
    /\ kmounts = [c \in Container |-> 0]
    /\ pstate = [p \in Pids |-> "unused"]
    /\ powner = <<>>
    /\ oomSent = {}
    /\ events = <<>>
    /\ phase = "running"
    /\ reply = <<>>

\* After shutdown (the runtime returns from main) or a panic (the process
\* aborts) no step is enabled: those terminal states are where the program
\* really stops, which is why the configurations do not check deadlock.
\* No fairness: the engine's loop awaits sends into its own bounded queue
\* (state.rs 648, 768), so nothing guarantees it takes the next event;
\* Launcher.tla shows it blocking.
Spec == Init /\ [][Next]_vars
-----------------------------------------------------------------------------
(* Properties                                                              *)

\* The identities an event in the queue names for the given kind.
Pending(kind) == {events[i].container : i \in {j \in DOMAIN events : events[j].kind = kind}}

\* Spec 3: a container is running only if it is mounted. State::umount must
\* refuse a started container, and a bulk mount may only add entries.
RunningImpliesMounted ==
    \A c \in Container : process[c] # NoPid => c \in containers

\* Spec 8: for every running application every resource it declares is in
\* the map. State::start mounts missing resources before it launches, and
\* State::umount and State::uninstall refuse a resource a started
\* container references.
ResourcesOfRunningMounted ==
    \A c \in Container : process[c] # NoPid => DepsOf(c) \subseteq containers

\* A tracked process that has ended is reported: while the map still holds
\* the process context of a process that is gone, an Exit event for its
\* container is in the engine's queue (the wait task sends it before it
\* resolves the exit status).
TrackedExitNoticed ==
    \A c \in Container :
        Running /\ process[c] # NoPid /\ pstate[process[c]] \in {"exited", "lost"}
            => c \in Pending("exit")

\* Spec 3: while a process for identity I exists, no second process for I
\* is created: at most one started process per container.
OneStartedProcessPerContainer ==
    \A p, q \in Pids :
        pstate[p] = "started" /\ pstate[q] = "started" /\ powner[p] = powner[q]
            => p = q

\* Spec 8: the set of mounted directories under run_dir equals the set of
\* map entries, one mount each.
KernelMountsMatchMap ==
    \A c \in Container : kmounts[c] = IF c \in containers THEN 1 ELSE 0

\* Spec 7: errors are returned to the client; the runtime never panics on
\* a client request or a container's exit.
NoPanic == phase # "panicked"

\* Spec 3 and 8: no two repositories hold the same identity.
UniquePackages ==
    \A ra, rb \in RepositoryId :
        ra # rb => repositories[ra] \cap repositories[rb] = {}

\* Spec 4.7 (d): a start whose mounts fail rolls back every mount it made.
StartFailureRollsBack ==
    [][\A c \in Container :
         Start(c) /\ reply' = [op |-> "start", res |-> "MountFailed"]
            => containers' = containers /\ kmounts' = kmounts]_vars
====
