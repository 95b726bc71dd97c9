------------------------- MODULE StateEngineProofs -------------------------
(***************************************************************************)
(* Proofs about StateEngine for every value of the constants that         *)
(* satisfies Assumption.                                                   *)
(*                                                                         *)
(* TypeOK is not inductive by itself: State::umount and State::shutdown    *)
(* take one kernel mount away from every container they drop from the     *)
(* map, which keeps kmounts in 0..MaxMounts only because a container in    *)
(* the map has a mount; the launcher's wait task names the container a    *)
(* pid was cloned for, which is defined only for pids already handed out;  *)
(* and shutdown marks the pid of every process context as exited, which   *)
(* keeps HandedOut only because such a pid is in use. IInv adds the three. *)
(***************************************************************************)
EXTENDS StateEngine, FiniteSetTheorems, TLAPS

PStates == {"unused", "created", "started", "exited", "lost"}
EventRec == [kind : EventKinds, container : Container]
Phases == {"running", "down", "panicked"}

\* Every container in the map has at least one kernel mount behind it.
MountedCounted == \A c \in containers : kmounts[c] >= 1

\* A pid the launcher has touched has been handed out by a clone.
HandedOut == \A p \in Pids : pstate[p] # "unused" => p \in 1..Len(powner)

\* The process context of a container names a pid the launcher has used.
Tracked == \A c \in Container : process[c] # NoPid => pstate[process[c]] # "unused"

IInv == TypeOK /\ MountedCounted /\ HandedOut /\ Tracked

-----------------------------------------------------------------------------
\* The initial state satisfies the inductive invariant.
LEMMA InitIInv == Init => IInv
BY Assumption DEF Init, IInv, TypeOK, MountedCounted, HandedOut, Tracked, Pids

\* ProcessContext::terminate keeps the launcher's state well-typed, only
\* moves a started pid on, and at most drops the context of c.
LEMMA TerminateStep ==
    ASSUME IInv, NEW c \in Container, process[c] # NoPid,
           NEW q \in Seq(EventRec), Terminate(c, q)
    PROVE  /\ pstate' \in [Pids -> PStates]
           /\ \A p \in Pids : pstate'[p] = "unused" <=> pstate[p] = "unused"
           /\ process' \in {process, [process EXCEPT ![c] = NoPid]}
           /\ events' \in Seq(EventRec)
           /\ phase' \in Phases
           /\ powner' = powner /\ oomSent' = oomSent
<1> DEFINE p == process[c]
<1>1. p \in Pids
  BY DEF IInv, TypeOK
<1>2. Exit(c) \in EventRec
  BY DEF Exit, EventRec, EventKinds
<1>3. CASE pstate[p] = "lost" \/ pstate[p] = "exited"
  BY <1>3 DEF Terminate, IInv, TypeOK, Phases, PStates
<1>4. CASE pstate[p] = "started"
  <2>1. PICK s \in Statuses :
          IF Decodable(s)
          THEN /\ pstate' = [pstate EXCEPT ![p] = "exited"]
               /\ events' = Append(q, Exit(c))
               /\ process' = [process EXCEPT ![c] = NoPid]
               /\ UNCHANGED phase
          ELSE /\ pstate' = [pstate EXCEPT ![p] = "lost"]
               /\ phase' = "panicked"
               /\ events' = q
               /\ UNCHANGED process
    BY <1>4 DEF Terminate
  <2>2. powner' = powner /\ oomSent' = oomSent
    BY DEF Terminate
  <2>3. CASE Decodable(s)
    <3>1. /\ pstate' = [pstate EXCEPT ![p] = "exited"]
          /\ events' = Append(q, Exit(c))
          /\ process' = [process EXCEPT ![c] = NoPid]
          /\ phase' = phase
      BY <2>1, <2>3
    <3>2. pstate' \in [Pids -> PStates]
      BY <1>1, <3>1 DEF IInv, TypeOK, PStates
    <3>3. events' \in Seq(EventRec)
      BY <1>2, <3>1
    <3> QED
      BY <1>4, <2>2, <3>1, <3>2, <3>3 DEF IInv, TypeOK, Phases
  <2>4. CASE ~Decodable(s)
    BY <1>1, <1>4, <2>1, <2>2, <2>4 DEF IInv, TypeOK, Phases, PStates
  <2> QED
    BY <2>3, <2>4
<1> QED
  BY <1>3, <1>4 DEF Terminate

\* A step that changes at most the repositories and the reply keeps IInv.
LEMMA FrameIInv ==
    ASSUME IInv,
           repositories' \in [RepositoryId -> SUBSET Container],
           reply' \in [op : Ops, res : Results],
           UNCHANGED <<containers, process, kmounts, pstate, powner, oomSent,
                       events, phase>>
    PROVE  IInv'
BY DEF IInv, TypeOK, MountedCounted, HandedOut, Tracked

-----------------------------------------------------------------------------
(* One lemma per action: each preserves IInv.                              *)

LEMMA StopIInv ==
    ASSUME IInv, NEW c \in Container, Stop(c)
    PROVE  IInv'
<1>1. CASE process[c] = NoPid
  BY <1>1 DEF Reply, Ops, Results, launcherVars, Stop, IInv, TypeOK, MountedCounted, HandedOut, Tracked
<1>2. CASE process[c] # NoPid
  <2>1. Terminate(c, events) /\ UNCHANGED <<repositories, containers, kmounts>>
    BY <1>2 DEF Stop, launcherVars
  <2>2. events \in Seq(EventRec)
    BY DEF IInv, TypeOK, EventRec
  <2>3. reply' \in [op : Ops, res : Results] \cup {<<>>}
    BY DEF Reply, Ops, Results, launcherVars, Stop, IInv, TypeOK
  <2>4. /\ pstate' \in [Pids -> PStates]
        /\ \A p \in Pids : pstate'[p] = "unused" <=> pstate[p] = "unused"
        /\ process' \in {process, [process EXCEPT ![c] = NoPid]}
        /\ events' \in Seq(EventRec)
        /\ phase' \in Phases
        /\ powner' = powner /\ oomSent' = oomSent
    BY <1>2, <2>1, <2>2, TerminateStep
  <2> QED
    BY <2>1, <2>3, <2>4 DEF IInv, TypeOK, MountedCounted, HandedOut, Tracked,
                           PStates, EventRec, Phases
<1> QED
  BY <1>1, <1>2

LEMMA UmountIInv ==
    ASSUME IInv, NEW c \in Container, Umount(c)
    PROVE  IInv'
<1>1. CASE ~UmountChecks(c)
  BY <1>1 DEF Reply, Ops, Results, launcherVars, Umount, IInv, TypeOK, MountedCounted, HandedOut, Tracked
<1>2. CASE UmountChecks(c)
  <2>1. /\ c \in containers
        /\ kmounts' = [kmounts EXCEPT ![c] = @ - 1]
        /\ containers' = containers \ {c}
        /\ reply' = [op |-> "umount", res |-> "ok"]
        /\ UNCHANGED <<repositories, process, pstate, powner, oomSent, events, phase>>
    BY <1>2 DEF Umount, UmountChecks, DoUmount, Reply, launcherVars
  <2>2. kmounts[c] \in 1..MaxMounts
    BY <2>1, Assumption DEF IInv, TypeOK, MountedCounted
  <2>3. kmounts' \in [Container -> 0..MaxMounts]
    BY <2>1, <2>2, Assumption DEF IInv, TypeOK
  <2>4. MountedCounted'
    BY <2>1 DEF IInv, TypeOK, MountedCounted
  <2>5. TypeOK'
    BY <2>1, <2>3 DEF IInv, TypeOK, Ops, Results
  <2> QED
    BY <2>1, <2>4, <2>5 DEF IInv, HandedOut, Tracked
<1> QED
  BY <1>1, <1>2

LEMMA InstallIInv ==
    ASSUME IInv, NEW r \in RepositoryId, NEW c \in Container, Install(r, c)
    PROVE  IInv'
<1>1. repositories' \in [RepositoryId -> SUBSET Container]
  BY DEF Install, IInv, TypeOK
<1>2. reply' \in [op : Ops, res : Results]
  BY DEF Install, Reply, Ops, Results
<1> QED
  BY <1>1, <1>2, FrameIInv DEF Install, launcherVars

LEMMA UninstallIInv ==
    ASSUME IInv, NEW c \in Container, Uninstall(c)
    PROVE  IInv'
<1>1. repositories' \in [RepositoryId -> SUBSET Container]
  BY DEF Uninstall, RemoveEverywhere, IInv, TypeOK
<1>2. reply' \in [op : Ops, res : Results]
  BY DEF Uninstall, Reply, Ops, Results
<1>3. CASE c \in containers /\ UmountChecks(c)
  <2>1. /\ kmounts' = [kmounts EXCEPT ![c] = @ - 1]
        /\ containers' = containers \ {c}
        /\ UNCHANGED <<process, pstate, powner, oomSent, events, phase>>
    BY <1>3 DEF Uninstall, UmountChecks, DoUmount, launcherVars
  <2>2. kmounts[c] \in 1..MaxMounts
    BY <1>3, Assumption DEF IInv, TypeOK, MountedCounted
  <2>3. TypeOK'
    BY <1>1, <1>2, <2>1, <2>2, Assumption DEF IInv, TypeOK
  <2>4. MountedCounted'
    BY <2>1 DEF IInv, TypeOK, MountedCounted
  <2> QED
    BY <2>1, <2>3, <2>4 DEF IInv, HandedOut, Tracked
<1>4. CASE ~(c \in containers /\ UmountChecks(c))
  BY <1>1, <1>2, <1>4, FrameIInv DEF Uninstall, launcherVars
<1> QED
  BY <1>3, <1>4

LEMMA ProcessExitIInv ==
    ASSUME IInv, NEW p \in Pids, ProcessExit(p)
    PROVE  IInv'
<1>0. p \in 1..Len(powner)
  BY DEF ProcessExit, IInv, HandedOut
<1>1. Exit(powner[p]) \in EventRec
  BY <1>0 DEF IInv, TypeOK, Exit, EventRec, EventKinds
<1>2. PICK s \in Statuses :
        IF Decodable(s)
        THEN /\ pstate' = [pstate EXCEPT ![p] = "exited"]
             /\ events' = Append(events, Exit(powner[p]))
        ELSE /\ pstate' = [pstate EXCEPT ![p] = "lost"]
             /\ UNCHANGED events
  BY DEF ProcessExit
<1>3. events \in Seq(EventRec)
  BY DEF IInv, TypeOK, EventRec
<1>5. events' \in Seq(EventRec)
  <2>1. CASE Decodable(s)
    BY <1>1, <1>2, <1>3, <2>1
  <2>2. CASE ~Decodable(s)
    BY <1>2, <1>3, <2>2
  <2> QED
    BY <2>1, <2>2
<1>4. pstate' \in [Pids -> PStates] /\ pstate'[p] # "unused"
  BY <1>2 DEF IInv, TypeOK, PStates
<1> QED
  BY <1>1, <1>2, <1>4, <1>5 DEF ProcessExit, IInv, TypeOK, PStates, EventRec,
                                 MountedCounted, HandedOut, Tracked

LEMMA OutOfMemoryIInv ==
    ASSUME IInv, NEW p \in Pids, OutOfMemory(p)
    PROVE  IInv'
<1>1. p \in 1..Len(powner)
  BY DEF OutOfMemory, IInv, HandedOut
<1>2. powner[p] \in Container
  BY <1>1 DEF IInv, TypeOK
<1>3. Oom(powner[p]) \in EventRec
  BY <1>2 DEF Oom, EventRec, EventKinds
<1>4. events \in Seq(EventRec)
  BY DEF IInv, TypeOK, EventRec
<1>5. events' \in Seq(EventRec)
  BY <1>3, <1>4 DEF OutOfMemory
<1> QED
  BY <1>5 DEF OutOfMemory, IInv, TypeOK, EventRec, MountedCounted, HandedOut, Tracked

LEMMA HandleEventIInv ==
    ASSUME IInv, HandleEvent
    PROVE  IInv'
<1> DEFINE c == Head(events).container
<1>0. events \in Seq(EventRec) /\ events # <<>>
  BY DEF HandleEvent, IInv, TypeOK, EventRec
<1>1. /\ Tail(events) \in Seq(EventRec)
      /\ c \in Container
      /\ UNCHANGED <<repositories, containers, kmounts, reply>>
  <2>1. Head(events) \in EventRec
    BY <1>0
  <2> QED
    BY <1>0, <2>1 DEF HandleEvent, EventRec
<1>2. CASE Head(events).kind = "exit"
  <2>1. /\ process' \in {process, [process EXCEPT ![c] = NoPid]}
        /\ events' = Tail(events)
        /\ UNCHANGED <<pstate, powner, oomSent, phase>>
    BY <1>2 DEF HandleEvent, OnExit
  <2> QED
    BY <1>1, <2>1 DEF IInv, TypeOK, EventRec, MountedCounted, HandedOut, Tracked
<1>3. CASE Head(events).kind = "oom" /\ process[c] # NoPid
  <2>1. Terminate(c, Tail(events))
    BY <1>3 DEF HandleEvent, OnOom
  <2>2. /\ pstate' \in [Pids -> PStates]
        /\ \A q \in Pids : pstate'[q] = "unused" <=> pstate[q] = "unused"
        /\ process' \in {process, [process EXCEPT ![c] = NoPid]}
        /\ events' \in Seq(EventRec)
        /\ phase' \in Phases
        /\ powner' = powner /\ oomSent' = oomSent
    BY <1>1, <1>3, <2>1, TerminateStep
  <2> QED
    BY <1>1, <2>2 DEF IInv, TypeOK, EventRec, PStates, Phases,
                      MountedCounted, HandedOut, Tracked
<1>4. CASE Head(events).kind = "oom" /\ process[c] = NoPid
  <2>1. /\ events' = Tail(events)
        /\ UNCHANGED <<process, pstate, powner, oomSent, phase>>
    BY <1>4 DEF HandleEvent, OnOom
  <2> QED
    BY <1>1, <2>1 DEF IInv, TypeOK, EventRec, MountedCounted, HandedOut, Tracked
<1> QED
  BY <1>2, <1>3, <1>4 DEF HandleEvent

LEMMA ShutdownIInv ==
    ASSUME IInv, Shutdown
    PROVE  IInv'
<1>1. CASE phase' = "panicked"
  BY <1>1 DEF Shutdown, IInv, TypeOK, MountedCounted, HandedOut, Tracked
<1>2. CASE phase' # "panicked"
  <2>1. /\ pstate' = [p \in Pids |->
                        IF \E c \in Started : process[c] = p
                        THEN "exited" ELSE pstate[p]]
        /\ process' = [c \in Container |-> NoPid]
        /\ kmounts' = [c \in Container |->
                         IF c \in containers THEN kmounts[c] - 1
                         ELSE kmounts[c]]
        /\ containers' = {}
        /\ phase' = "down"
        /\ UNCHANGED <<repositories, powner, oomSent, events, reply>>
    BY <1>2 DEF Shutdown
  <2>2. \A c \in containers : kmounts[c] \in 1..MaxMounts
    BY Assumption DEF IInv, TypeOK, MountedCounted
  <2>3. \A p \in Pids : (\E c \in Started : process[c] = p) => pstate[p] # "unused"
    BY DEF Started, IInv, TypeOK, Tracked
  <2> QED
    BY <2>1, <2>2, <2>3, Assumption DEF IInv, TypeOK, MountedCounted, HandedOut, Tracked
<1> QED
  BY <1>1, <1>2

\* Island::create and IslandProcess::start hand out the next pid and keep
\* the launcher's state well-typed.
LEMMA LaunchStep ==
    ASSUME IInv, NEW c \in Container, Launch(c)
    PROVE  /\ process' \in [Container -> Pids \cup {NoPid}]
           /\ pstate' \in [Pids -> PStates]
           /\ powner' \in Seq(Container) /\ Len(powner') <= MaxPid
           /\ UNCHANGED <<oomSent, events>>
           /\ phase' \in Phases
           /\ reply' \in [op : Ops, res : Results] \cup {<<>>}
           /\ HandedOut' /\ Tracked'
<1>1. CASE /\ c \in Resources
           /\ phase' = "panicked"
           /\ UNCHANGED <<process, launcherVars, reply>>
  BY <1>1 DEF launcherVars, IInv, TypeOK, PStates, Phases, HandedOut, Tracked
<1>2. CASE /\ c \in Apps
           /\ Reply("start", "CreateFailed")
           /\ UNCHANGED <<process, launcherVars, phase>>
  BY <1>2 DEF Reply, Ops, Results, launcherVars, IInv, TypeOK, PStates,
              Phases, HandedOut, Tracked
<1>3. CASE /\ c \in Apps
           /\ NextPid \in Pids
           /\ \E res \in {"DebugFailed", "ok"} :
                /\ pstate' = [pstate EXCEPT ![NextPid] =
                                 IF res = "ok" THEN "started" ELSE "created"]
                /\ process' = IF res = "ok"
                              THEN [process EXCEPT ![c] = NextPid]
                              ELSE process
                /\ Reply("start", res)
           /\ powner' = Append(powner, c)
           /\ UNCHANGED <<oomSent, events, phase>>
  <2>1. PICK res \in {"DebugFailed", "ok"} :
            /\ pstate' = [pstate EXCEPT ![NextPid] =
                             IF res = "ok" THEN "started" ELSE "created"]
            /\ process' = IF res = "ok"
                          THEN [process EXCEPT ![c] = NextPid]
                          ELSE process
            /\ Reply("start", res)
    BY <1>3
  <2>2. UNCHANGED <<oomSent, events, phase>>
    BY <1>3
  <2>3. pstate[NextPid] = "unused"
    BY <1>3, Assumption DEF IInv, HandedOut, NextPid, TypeOK
  <2>4. /\ Len(powner') = NextPid
        /\ powner' \in Seq(Container)
        /\ Len(powner') <= MaxPid
    BY <1>3, Assumption DEF IInv, TypeOK, NextPid, Pids
  <2>5. HandedOut'
    BY <1>3, <2>1, <2>4, Assumption DEF IInv, TypeOK, HandedOut, NextPid, Pids
  <2>6. Tracked'
    BY <1>3, <2>1, <2>3 DEF IInv, TypeOK, Tracked
  <2> QED
    BY <1>3, <2>1, <2>2, <2>4, <2>5, <2>6
       DEF Reply, Ops, Results, IInv, TypeOK, PStates, Phases
<1> QED
  BY <1>1, <1>2, <1>3 DEF Launch

\* The mounts State::start makes keep every count within MaxMounts and
\* give every newly mapped container a mount.
LEMMA StartMountStep ==
    ASSUME IInv, NEW c \in Container, NEW ok \in SUBSET NeedMount(c),
           \A x \in ok : kmounts[x] < MaxMounts,
           containers' = containers \cup ok,
           kmounts' = AddMounts([x \in Container |-> IF x \in ok THEN 1 ELSE 0])
    PROVE  /\ containers' \in SUBSET Container
           /\ kmounts' \in [Container -> 0..MaxMounts]
           /\ MountedCounted'
<1>1. ok \subseteq Container
  BY Assumption DEF NeedMount, DepsOf, Container
<1>2. \A x \in Container : kmounts'[x] = kmounts[x] + (IF x \in ok THEN 1 ELSE 0)
  BY DEF AddMounts
<1>3. kmounts' \in [Container -> 0..MaxMounts]
  BY <1>1, <1>2, Assumption DEF IInv, TypeOK, AddMounts
<1>4. \A x \in containers \cup ok : kmounts'[x] >= 1
  <2> TAKE x \in containers \cup ok
  <2>1. x \in Container /\ kmounts[x] \in Nat
    BY <1>1, Assumption DEF IInv, TypeOK
  <2>2. kmounts'[x] = kmounts[x] + (IF x \in ok THEN 1 ELSE 0)
    BY <1>2, <2>1
  <2>3. CASE x \in ok
    BY <2>1, <2>2, <2>3
  <2>4. CASE x \notin ok
    <3>1. x \in containers
      BY <2>4
    <3>2. kmounts[x] >= 1
      BY <3>1 DEF IInv, MountedCounted
    <3> QED
      BY <2>1, <2>2, <2>4, <3>2
  <2> QED
    BY <2>3, <2>4
<1>5. MountedCounted'
  BY <1>4 DEF MountedCounted
<1> QED
  BY <1>1, <1>3, <1>5 DEF IInv, TypeOK

LEMMA StartIInv ==
    ASSUME IInv, NEW c \in Container, Start(c)
    PROVE  IInv'
<1>1. CASE \E res \in Results :
             /\ Reply("start", res)
             /\ UNCHANGED <<containers, process, kmounts, launcherVars, phase>>
  <2>1. reply' \in [op : Ops, res : Results]
    BY <1>1 DEF Reply, Ops
  <2>2. repositories' \in [RepositoryId -> SUBSET Container]
    BY DEF Start, StartChecks, IInv, TypeOK
  <2> QED
    BY <1>1, <2>1, <2>2, FrameIInv DEF launcherVars
<1>2. CASE \E ok \in SUBSET NeedMount(c) :
             /\ \A x \in ok : kmounts[x] < MaxMounts
             /\ containers' = containers \cup ok
             /\ kmounts' = AddMounts([x \in Container |->
                                          IF x \in ok THEN 1 ELSE 0])
             /\ IF ok = NeedMount(c)
                THEN Launch(c)
                ELSE /\ Reply("start", "MountFailed")
                     /\ UNCHANGED <<process, launcherVars, phase>>
  <2>1. PICK ok \in SUBSET NeedMount(c) :
               /\ \A x \in ok : kmounts[x] < MaxMounts
               /\ containers' = containers \cup ok
               /\ kmounts' = AddMounts([x \in Container |->
                                            IF x \in ok THEN 1 ELSE 0])
               /\ IF ok = NeedMount(c)
                  THEN Launch(c)
                  ELSE /\ Reply("start", "MountFailed")
                       /\ UNCHANGED <<process, launcherVars, phase>>
    BY <1>2
  <2>2. /\ containers' \in SUBSET Container
        /\ kmounts' \in [Container -> 0..MaxMounts]
        /\ MountedCounted'
    BY <2>1, StartMountStep
  <2>3. UNCHANGED repositories
    BY DEF Start, StartChecks
  <2>4. CASE ok = NeedMount(c)
    <3>1. /\ process' \in [Container -> Pids \cup {NoPid}]
          /\ pstate' \in [Pids -> PStates]
          /\ powner' \in Seq(Container) /\ Len(powner') <= MaxPid
          /\ UNCHANGED <<oomSent, events>>
          /\ phase' \in Phases
          /\ reply' \in [op : Ops, res : Results] \cup {<<>>}
          /\ HandedOut' /\ Tracked'
      BY <2>1, <2>4, LaunchStep
    <3> QED
      BY <2>2, <2>3, <3>1 DEF IInv, TypeOK, PStates, Phases
  <2>5. CASE ok # NeedMount(c)
    <3>1. /\ reply' = [op |-> "start", res |-> "MountFailed"]
          /\ UNCHANGED <<process, pstate, powner, oomSent, events, phase>>
      BY <2>1, <2>5 DEF Reply, launcherVars
    <3> QED
      BY <2>2, <2>3, <3>1 DEF IInv, TypeOK, Ops, Results, HandedOut, Tracked
  <2> QED
    BY <2>4, <2>5
<1> QED
  BY <1>1, <1>2 DEF Start, StartChecks, Results

\* The number of successful mounts of one container in a bulk mount is a
\* natural number, and positive for every container that was mounted.
LEMMA MountCountFacts ==
    ASSUME NEW cs \in Seq(Container), NEW ok \in SUBSET DOMAIN cs,
           NEW x \in Container
    PROVE  /\ MountCount(cs, ok)[x] \in Nat
           /\ x \in {cs[i] : i \in ok} => MountCount(cs, ok)[x] >= 1
<1> DEFINE S == {i \in ok : cs[i] = x}
<1>1. IsFiniteSet(DOMAIN cs)
  BY FS_Interval
<1>2. IsFiniteSet(S)
  BY <1>1, FS_Subset
<1>3. Cardinality(S) \in Nat
  BY <1>2, FS_CardinalityType
<1>4. x \in {cs[i] : i \in ok} => S # {}
  OBVIOUS
<1>5. S # {} => Cardinality(S) # 0
  BY <1>2, FS_EmptySet
<1> QED
  BY <1>3, <1>4, <1>5 DEF MountCount

LEMMA BulkMountIInv ==
    ASSUME IInv, NEW cs \in MountRequests, BulkMount(cs)
    PROVE  IInv'
<1> DEFINE invalid == {i \in DOMAIN cs : ~Installed(cs[i])}
           spawned == IF invalid = {} THEN DOMAIN cs
                      ELSE {i \in DOMAIN cs : \A j \in invalid : i < j}
           new(ok) == {cs[i] : i \in ok}
<1>1. cs \in Seq(Container)
  BY Assumption
<1>2. PICK ok \in SUBSET spawned :
        /\ \A x \in Container : kmounts[x] + MountCount(cs, ok)[x] <= MaxMounts
        /\ kmounts' = AddMounts(MountCount(cs, ok))
        /\ IF invalid = {}
           THEN /\ containers' = containers \cup new(ok)
                /\ process' = [x \in Container |->
                                 IF x \in new(ok) THEN NoPid ELSE process[x]]
                /\ Reply("mount", "ok")
           ELSE /\ Reply("mount", "NoResponse")
                /\ UNCHANGED <<containers, process>>
  BY DEF BulkMount
<1>3. ok \subseteq DOMAIN cs /\ new(ok) \subseteq Container
  BY <1>1
<1>4. \A x \in Container :
        /\ MountCount(cs, ok)[x] \in Nat
        /\ x \in new(ok) => MountCount(cs, ok)[x] >= 1
  BY <1>1, <1>3, MountCountFacts
<1>5. \A x \in Container : kmounts'[x] = kmounts[x] + MountCount(cs, ok)[x]
  BY <1>2 DEF AddMounts
<1>6. kmounts' \in [Container -> 0..MaxMounts]
  BY <1>2, <1>4, <1>5, Assumption DEF IInv, TypeOK, AddMounts
<1>7. UNCHANGED <<repositories, pstate, powner, oomSent, events, phase>>
  BY DEF BulkMount, launcherVars
<1>8. CASE invalid = {}
  <2>1. /\ containers' = containers \cup new(ok)
        /\ process' = [x \in Container |->
                         IF x \in new(ok) THEN NoPid ELSE process[x]]
        /\ reply' = [op |-> "mount", res |-> "ok"]
    BY <1>2, <1>8 DEF Reply
  <2>2. \A x \in containers \cup new(ok) : kmounts'[x] >= 1
    <3> TAKE x \in containers \cup new(ok)
    <3>1. x \in Container /\ kmounts[x] \in Nat
      BY <1>3, Assumption DEF IInv, TypeOK
    <3>2. CASE x \in new(ok)
      BY <1>4, <1>5, <3>1, <3>2
    <3>3. CASE x \notin new(ok)
      BY <1>4, <1>5, <3>1, <3>3 DEF IInv, MountedCounted
    <3> QED
      BY <3>2, <3>3
  <2>3. TypeOK'
    BY <1>3, <1>6, <1>7, <2>1 DEF IInv, TypeOK, Ops, Results
  <2>4. MountedCounted' /\ HandedOut'
    BY <1>7, <2>1, <2>2 DEF IInv, MountedCounted, HandedOut
  <2>5. Tracked'
    BY <1>7, <2>1 DEF IInv, Tracked
  <2> QED
    BY <2>3, <2>4, <2>5 DEF IInv
<1>9. CASE invalid # {}
  <2>1. /\ UNCHANGED <<containers, process>>
        /\ reply' = [op |-> "mount", res |-> "NoResponse"]
    BY <1>2, <1>9 DEF Reply
  <2>2. \A x \in containers : kmounts'[x] >= 1
    BY <1>4, <1>5, Assumption DEF IInv, TypeOK, MountedCounted
  <2> QED
    BY <1>6, <1>7, <2>1, <2>2 DEF IInv, TypeOK, Ops, Results,
                                  MountedCounted, HandedOut, Tracked
<1> QED
  BY <1>8, <1>9

-----------------------------------------------------------------------------
\* Every step of the engine, or a stutter, preserves IInv.
LEMMA NextIInv == IInv /\ [Next]_vars => IInv'
<1> SUFFICES ASSUME IInv, [Next]_vars PROVE IInv'
  OBVIOUS
<1>1. ASSUME NEW c \in Container, Start(c) PROVE IInv'
  BY <1>1, StartIInv
<1>2. ASSUME NEW c \in Container, Stop(c) PROVE IInv'
  BY <1>2, StopIInv
<1>3. ASSUME NEW c \in Container, Umount(c) PROVE IInv'
  BY <1>3, UmountIInv
<1>4. ASSUME NEW c \in Container, Uninstall(c) PROVE IInv'
  BY <1>4, UninstallIInv
<1>5. ASSUME NEW cs \in MountRequests, BulkMount(cs) PROVE IInv'
  BY <1>5, BulkMountIInv
<1>6. ASSUME NEW r \in RepositoryId, NEW c \in Container, Install(r, c)
      PROVE IInv'
  BY <1>6, InstallIInv
<1>7. CASE Shutdown
  BY <1>7, ShutdownIInv
<1>8. ASSUME NEW p \in Pids, ProcessExit(p) PROVE IInv'
  BY <1>8, ProcessExitIInv
<1>9. ASSUME NEW p \in Pids, OutOfMemory(p) PROVE IInv'
  BY <1>9, OutOfMemoryIInv
<1>10. CASE HandleEvent
  BY <1>10, HandleEventIInv
<1>11. CASE UNCHANGED vars
  BY <1>11 DEF vars, IInv, TypeOK, MountedCounted, HandedOut, Tracked
<1> QED
  BY <1>1, <1>2, <1>3, <1>4, <1>5, <1>6, <1>7, <1>8, <1>9, <1>10, <1>11
     DEF Next

\* Type correctness: in every behaviour of the engine every variable keeps
\* its declared type; in particular no kernel mount count of State::umount,
\* State::uninstall or State::shutdown goes below zero, and no mount of
\* State::start or a bulk mount stacks more than MaxMounts.
THEOREM TypeCorrect == Spec => []TypeOK
<1>1. Init => IInv
  BY InitIInv
<1>2. IInv /\ [Next]_vars => IInv'
  BY NextIInv
<1>3. IInv => TypeOK
  BY DEF IInv
<1> QED
  BY <1>1, <1>2, <1>3, PTL DEF Spec

-----------------------------------------------------------------------------
(* Mount safety: a started container and the resources it declares stay  *)
(* in the map (spec sections 3 and 8).                                     *)

MountSafe == RunningImpliesMounted /\ ResourcesOfRunningMounted

\* A step that only adds map entries and only drops process contexts keeps
\* mount safety.
LEMMA ShrinkSafe ==
    ASSUME TypeOK, MountSafe,
           containers \subseteq containers',
           \A x \in Container : process'[x] = process[x] \/ process'[x] = NoPid
    PROVE  MountSafe'
BY DEF MountSafe, RunningImpliesMounted, ResourcesOfRunningMounted, TypeOK

\* State::umount drops an entry that neither runs nor is referenced by a
\* started container, which keeps mount safety.
LEMMA UmountSafe ==
    ASSUME TypeOK, MountSafe, NEW c \in Container, UmountChecks(c),
           containers' = containers \ {c}, UNCHANGED process
    PROVE  MountSafe'
<1>1. process[c] = NoPid /\ ~(c \in Resources /\ c \in BusyResources)
  BY DEF UmountChecks
<1>2. ASSUME NEW x \in Container, process[x] # NoPid
      PROVE  x # c /\ x \in containers /\ c \notin DepsOf(x)
  <2>1. x # c /\ x \in containers /\ DepsOf(x) \subseteq containers
    BY <1>1, <1>2 DEF MountSafe, RunningImpliesMounted, ResourcesOfRunningMounted
  <2>2. DepsOf(x) \subseteq Resources
    BY Assumption DEF DepsOf
  <2>3. c \in DepsOf(x) => c \in BusyResources
    BY <1>2, <2>1 DEF BusyResources
  <2> QED
    BY <1>1, <2>1, <2>2, <2>3
<1> QED
  BY <1>2 DEF MountSafe, RunningImpliesMounted, ResourcesOfRunningMounted

\* State::start: the container and its resources are in the map before the
\* launcher is asked for a process.
LEMMA StartSafe ==
    ASSUME IInv, MountSafe, NEW c \in Container, Start(c)
    PROVE  MountSafe'
<1>1. CASE UNCHANGED <<containers, process>>
  BY <1>1, ShrinkSafe DEF IInv
<1>2. CASE \E ok \in SUBSET NeedMount(c) :
             /\ containers' = containers \cup ok
             /\ IF ok = NeedMount(c)
                THEN Launch(c)
                ELSE UNCHANGED process
  <2>1. PICK ok \in SUBSET NeedMount(c) :
             /\ containers' = containers \cup ok
             /\ IF ok = NeedMount(c)
                THEN Launch(c)
                ELSE UNCHANGED process
    BY <1>2
  <2>2. CASE ok = NeedMount(c)
    <3>1. c \in containers' /\ DepsOf(c) \subseteq containers'
      BY <2>1, <2>2 DEF NeedMount
    <3>2. \/ UNCHANGED process
          \/ \E pid \in Pids : process' = [process EXCEPT ![c] = pid]
      BY <2>1, <2>2 DEF Launch, launcherVars
    <3> QED
      BY <2>1, <3>1, <3>2 DEF IInv, TypeOK, MountSafe, RunningImpliesMounted,
                              ResourcesOfRunningMounted
  <2>3. CASE ok # NeedMount(c)
    BY <2>1, <2>3, ShrinkSafe DEF IInv
  <2> QED
    BY <2>2, <2>3
<1> QED
  BY <1>1, <1>2 DEF Start, StartChecks, launcherVars

\* Every step of the engine, or a stutter, preserves mount safety.
LEMMA NextSafe == IInv /\ MountSafe /\ [Next]_vars => MountSafe'
<1> SUFFICES ASSUME IInv, MountSafe, [Next]_vars PROVE MountSafe'
  OBVIOUS
<1>0. TypeOK /\ events \in Seq(EventRec)
  BY DEF IInv, TypeOK, EventRec
<1>1. ASSUME NEW c \in Container, Start(c) PROVE MountSafe'
  BY <1>1, StartSafe
<1>2. ASSUME NEW c \in Container, Stop(c) PROVE MountSafe'
  <2>1. CASE process[c] = NoPid
    BY <1>2, <2>1, <1>0, ShrinkSafe DEF Stop
  <2>2. CASE process[c] # NoPid
    <3>1. Terminate(c, events) /\ UNCHANGED containers
      BY <1>2, <2>2 DEF Stop
    <3>2. process' \in {process, [process EXCEPT ![c] = NoPid]}
      BY <1>0, <2>2, <3>1, TerminateStep
    <3> QED
      BY <1>0, <3>1, <3>2, ShrinkSafe DEF TypeOK
  <2> QED
    BY <2>1, <2>2
<1>3. ASSUME NEW c \in Container, Umount(c) PROVE MountSafe'
  <2>1. CASE UmountChecks(c)
    BY <1>3, <2>1, <1>0, UmountSafe DEF Umount, DoUmount
  <2>2. CASE ~UmountChecks(c)
    BY <1>3, <2>2, <1>0, ShrinkSafe DEF Umount
  <2> QED
    BY <2>1, <2>2
<1>4. ASSUME NEW c \in Container, Uninstall(c) PROVE MountSafe'
  <2>1. CASE c \in containers /\ UmountChecks(c)
    BY <1>4, <2>1, <1>0, UmountSafe DEF Uninstall, DoUmount
  <2>2. CASE ~(c \in containers /\ UmountChecks(c))
    BY <1>4, <2>2, <1>0, ShrinkSafe DEF Uninstall
  <2> QED
    BY <2>1, <2>2
<1>5. ASSUME NEW cs \in MountRequests, BulkMount(cs) PROVE MountSafe'
  <2>1. containers \subseteq containers'
        /\ \A x \in Container : process'[x] = process[x] \/ process'[x] = NoPid
    BY <1>5 DEF BulkMount
  <2> QED
    BY <1>0, <2>1, ShrinkSafe
<1>6. ASSUME NEW r \in RepositoryId, NEW c \in Container, Install(r, c)
      PROVE MountSafe'
  BY <1>6, <1>0, ShrinkSafe DEF Install
<1>7. CASE Shutdown
  <2>1. CASE phase' = "panicked"
    BY <1>7, <2>1, <1>0, ShrinkSafe DEF Shutdown
  <2>2. CASE phase' # "panicked"
    BY <1>7, <2>2 DEF Shutdown, MountSafe, RunningImpliesMounted,
                      ResourcesOfRunningMounted
  <2> QED
    BY <2>1, <2>2
<1>8. ASSUME NEW p \in Pids, ProcessExit(p) \/ OutOfMemory(p)
      PROVE MountSafe'
  BY <1>8, <1>0, ShrinkSafe DEF ProcessExit, OutOfMemory
<1>9. CASE HandleEvent
  <2> DEFINE c == Head(events).container
  <2>1. c \in Container /\ Tail(events) \in Seq(EventRec) /\ UNCHANGED containers
    <3>1. Head(events) \in EventRec
      BY <1>0, <1>9 DEF HandleEvent
    <3> QED
      BY <1>0, <1>9, <3>1 DEF HandleEvent, EventRec
  <2>2. CASE Head(events).kind = "oom" /\ process[c] # NoPid
    <3>1. Terminate(c, Tail(events))
      BY <1>9, <2>2 DEF HandleEvent, OnOom
    <3>2. process' \in {process, [process EXCEPT ![c] = NoPid]}
      BY <2>1, <2>2, <3>1, TerminateStep
    <3> QED
      BY <1>0, <2>1, <3>2, ShrinkSafe DEF TypeOK
  <2>3. CASE ~(Head(events).kind = "oom" /\ process[c] # NoPid)
    <3>1. process' \in {process, [process EXCEPT ![c] = NoPid]}
      BY <1>9, <2>3 DEF HandleEvent, OnExit, OnOom
    <3> QED
      BY <1>0, <2>1, <3>1, ShrinkSafe DEF TypeOK
  <2> QED
    BY <2>2, <2>3
<1>10. CASE UNCHANGED vars
  BY <1>10 DEF vars, MountSafe, RunningImpliesMounted, ResourcesOfRunningMounted,
               BusyResources, DepsOf
<1> QED
  BY <1>1, <1>2, <1>3, <1>4, <1>5, <1>6, <1>7, <1>8, <1>9, <1>10 DEF Next

\* Mount safety (spec sections 3 and 8): in every behaviour, a container
\* with a process context is in the map, and so is every resource its
\* manifest declares. It rests on State::umount and State::uninstall
\* refusing a started container and a resource a started container uses,
\* and on State::start mounting before it launches.
THEOREM MountSafety ==
    Spec => [](RunningImpliesMounted /\ ResourcesOfRunningMounted)
<1>1. Init => IInv /\ MountSafe
  BY InitIInv DEF Init, MountSafe, RunningImpliesMounted,
                  ResourcesOfRunningMounted
<1>2. IInv /\ MountSafe /\ [Next]_vars => (IInv /\ MountSafe)'
  BY NextIInv, NextSafe
<1> QED
  BY <1>1, <1>2, PTL DEF Spec, MountSafe

\* Spec section 3: in every behaviour a container with a process context is
\* in the map (State::umount, State::uninstall and a bulk mount never
\* remove the entry of a running container).
THEOREM RunningMounted == Spec => []RunningImpliesMounted
BY MountSafety, PTL

\* Spec section 8: in every behaviour every resource a running application
\* declares is mounted (State::umount refuses a busy resource).
THEOREM ResourcesMounted == Spec => []ResourcesOfRunningMounted
BY MountSafety, PTL
====
