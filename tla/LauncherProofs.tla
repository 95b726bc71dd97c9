--------------------------- MODULE LauncherProofs ---------------------------
(***************************************************************************)
(* Proofs about the launcher model: the Exit event the wait task sends     *)
(* and the status stop() returns are the status the container ended with, *)
(* and the launcher implements the abstract handle state machine of       *)
(* ProcessLifecycle, for every set of exit codes and signals, every queue *)
(* capacity and every bound satisfying the module's assumptions.          *)
(***************************************************************************)
EXTENDS Launcher, TLAPS

Dead == child \in {"zombie", "reaped"}

\* The inductive invariant.  What the wait task, stop() and the queue hold
\* is tied to the child's fate: a dead child has a status that decodes, if
\* it decodes at all, to the status it ended with; whatever the wait task
\* decoded, stop() returned or the queue carries is that status.
Coupling ==
    /\ child = "none" <=> hs \in {"none", "failed"}
    /\ Alive => hs \in {"created", "started"}
    /\ truth = None <=> ~Dead
    /\ Dead => rawStatus \in Raw /\ (Decodable(rawStatus) => Decode(rawStatus) = truth)
    /\ waiter = "none" <=> child = "none"
    /\ waiter \in {"sending", "done", "panicked"} => child = "reaped"
    /\ waiter \in {"sending", "done"} => wres = truth
    /\ hs = "stopped" <=> stopRes # None
    /\ stopRes # None => stopRes = truth
    /\ pc = "start_wait" => hs = "created"
    /\ pc \in {"stop_timed", "stop_await"} => hs = "started"
    /\ pc = "notify" <=> pend # None
    /\ pend # None => pend.k # "exit"
    /\ pend = Notif("oom") => hs = "started"

IInv == TypeOK /\ Coupling /\ ExitEventFaithful

-----------------------------------------------------------------------------
LEMMA Bounds ==
    /\ QCap \in Nat \ {0}
    /\ MaxOther \in Nat
    /\ AppCodes \subseteq 0..255
    /\ ValidSignals \subseteq 1..64
    /\ {SIGKILL, SIGTERM} \subseteq ValidSignals
    /\ None \notin Statuses \cup Raw
BY LauncherAssumption, NoneAssumption

\* The three ways a child dies record a kernel status that decodes, when
\* it decodes, to the status the container ended with: a plain exit code
\* of the program, the init's 128 + signal, and a kernel signal death.
LEMMA ExitCodeStatus ==
    ASSUME NEW code \in AppCodes
    PROVE  LET raw == [w |-> "Exited", v |-> code]
               st == [k |-> "Exit", v |-> code]
           IN  raw \in Raw /\ st \in Statuses /\ (Decodable(raw) => Decode(raw) = st)
BY LauncherAssumption DEF Raw, Statuses, Decodable, Decode, SIGNAL_OFFSET

LEMMA InitSignalStatus ==
    ASSUME NEW sg \in ValidSignals
    PROVE  LET raw == [w |-> "Exited", v |-> SIGNAL_OFFSET + sg]
               st == [k |-> "Signaled", v |-> sg]
           IN  raw \in Raw /\ st \in Statuses /\ (Decodable(raw) => Decode(raw) = st)
BY LauncherAssumption DEF Raw, Statuses, Decodable, Decode, SIGNAL_OFFSET

LEMMA KernelSignalStatus ==
    ASSUME NEW sg \in ValidSignals
    PROVE  LET raw == [w |-> "Signaled", v |-> sg]
               st == [k |-> "Signaled", v |-> sg]
           IN  raw \in Raw /\ st \in Statuses /\ (Decodable(raw) => Decode(raw) = st)
BY DEF Raw, Statuses, Decodable, Decode

\* A status the wait task can decode decodes to an ExitStatus.
LEMMA DecodeType ==
    ASSUME NEW r \in Raw, Decodable(r)
    PROVE  Decode(r) \in Statuses
BY LauncherAssumption DEF Raw, Statuses, Decodable, Decode, SIGNAL_OFFSET

\* TypeOK split into its Boolean flags, which Zenon handles, and the rest,
\* which SMT handles.
FlagType == sigterm \in BOOLEAN /\ sigkill \in BOOLEAN /\ open \in BOOLEAN

DataType ==
    /\ hs \in {"none", "failed", "created", "started", "stopped", "retired"}
    /\ pc \in {"idle", "start_wait", "stop_timed", "stop_await", "notify", "panicked"}
    /\ pend \in Events \cup {None}
    /\ why \in {"none", "fork", "start", "stop"}
    /\ child \in {"none", "setup", "held", "running", "zombie", "reaped"}
    /\ rawStatus \in Raw \cup {None}
    /\ truth \in Statuses \cup {None}
    /\ p2c \in Seq({"Start"}) /\ c2p \in Seq({"Started"})
    /\ waiter \in {"none", "waiting", "sending", "done", "panicked"}
    /\ wres \in Statuses \cup {None}
    /\ stopRes \in Statuses \cup {None}
    /\ queue \in Seq(Events) /\ Len(queue) <= QCap
    /\ others \in 0..MaxOther
    /\ oom \in {"none", "fired", "sent"}

LEMMA TypeSplit == TypeOK <=> FlagType /\ DataType
BY Zenon DEF TypeOK, FlagType, DataType

\* A notification is an event, never None, and tells its kind apart.
LEMMA NotifFacts ==
    ASSUME NEW n \in Notifications
    PROVE  /\ Notif(n) \in Events /\ Notif(n) # None /\ Notif(n).k = "notif"
           /\ Notif(n) = Notif("oom") <=> n = "oom"
BY NoneAssumption DEF Notif, Events, Notifications

LEMMA InitIInv == Init => IInv
<1> SUFFICES ASSUME Init PROVE IInv
    OBVIOUS
<1>1. sigterm \in BOOLEAN /\ sigkill \in BOOLEAN /\ open \in BOOLEAN
    BY Zenon DEF Init
<1>2. TypeOK
    BY <1>1, Bounds DEF Init, TypeOK
<1>3. QED
    BY <1>2, Bounds, NotifFacts, NoneAssumption DEF Events, Notifications, Init, IInv, Coupling, Alive, Dead, ExitEventFaithful

\* The generic death step: whichever way the child dies, the invariant is
\* kept as long as the recorded kernel status decodes to the ended status.
LEMMA DieIInv ==
    ASSUME IInv, NEW raw, NEW st,
           raw \in Raw, st \in Statuses, Decodable(raw) => Decode(raw) = st,
           Die(raw, st), p2c' \in Seq({"Start"}), oom' \in {"none", "fired", "sent"},
           UNCHANGED <<engineVars, c2p, sigVars, waitVars, queueVars>>
    PROVE  IInv'
<1>1. Alive /\ truth = None
    BY DEF IInv, Coupling, Die, Alive, Dead
<1>2. \A i \in 1..Len(queue) : queue[i].k # "exit"
    \* a live child has no status, so no Exit event is queued
    BY <1>1, Bounds DEF IInv, TypeOK, ExitEventFaithful, Events
<1>3. DataType /\ FlagType
    BY TypeSplit DEF IInv
<1>4. FlagType'
    BY <1>3, Zenon DEF FlagType, sigVars, queueVars
<1>5. DataType'
    BY <1>3, Bounds DEF DataType, Die, engineVars, waitVars, queueVars
<1>6. Coupling'
    BY <1>1, Bounds DEF IInv, TypeOK, Coupling, Die, Alive, Dead,
       engineVars, waitVars
<1>7. ExitEventFaithful'
    BY <1>2 DEF ExitEventFaithful, queueVars
<1>8. QED
    BY <1>4, <1>5, <1>6, <1>7, Zenon DEF IInv, TypeOK, FlagType, DataType

LEMMA ChildSetupFailsIInv == IInv /\ ChildSetupFails => IInv'
<1> SUFFICES ASSUME IInv, ChildSetupFails PROVE IInv'
    OBVIOUS
<1>1. /\ UNCHANGED <<engineVars, c2p, sigVars, waitVars, queueVars>>
      /\ p2c' \in Seq({"Start"}) /\ oom' \in {"none", "fired", "sent"}
    BY Zenon DEF ChildSetupFails, IInv, TypeOK, pipeVars
<1>2. PICK code \in AppCodes : Die([w |-> "Exited", v |-> code], [k |-> "Exit", v |-> code])
    BY DEF ChildSetupFails
<1>3. QED
    BY <1>1, <1>2, ExitCodeStatus, DieIInv

LEMMA ChildExitsIInv == IInv /\ ChildExits => IInv'
<1> SUFFICES ASSUME IInv, ChildExits PROVE IInv'
    OBVIOUS
<1>1. /\ UNCHANGED <<engineVars, c2p, sigVars, waitVars, queueVars>>
      /\ p2c' \in Seq({"Start"}) /\ oom' \in {"none", "fired", "sent"}
    BY Zenon DEF ChildExits, IInv, TypeOK, pipeVars
<1>2. CASE \E code \in AppCodes : Die([w |-> "Exited", v |-> code], [k |-> "Exit", v |-> code])
    <2>1. PICK code \in AppCodes : Die([w |-> "Exited", v |-> code], [k |-> "Exit", v |-> code])
        BY <1>2
    <2>2. QED
        BY <1>1, <2>1, ExitCodeStatus, DieIInv
<1>3. CASE \E sg \in ValidSignals : Die([w |-> "Exited", v |-> SIGNAL_OFFSET + sg], [k |-> "Signaled", v |-> sg])
    <2>1. PICK sg \in ValidSignals : Die([w |-> "Exited", v |-> SIGNAL_OFFSET + sg], [k |-> "Signaled", v |-> sg])
        BY <1>3
    <2>2. QED
        BY <1>1, <2>1, InitSignalStatus, DieIInv
<1>4. QED
    BY <1>2, <1>3 DEF ChildExits

LEMMA ChildTerminatedIInv == IInv /\ ChildTerminated => IInv'
<1> SUFFICES ASSUME IInv, ChildTerminated PROVE IInv'
    OBVIOUS
<1>1. /\ UNCHANGED <<engineVars, c2p, sigVars, waitVars, queueVars>>
      /\ p2c' \in Seq({"Start"}) /\ oom' \in {"none", "fired", "sent"}
    BY Zenon DEF ChildTerminated, IInv, TypeOK, pipeVars
<1>2. Die([w |-> "Signaled", v |-> SIGTERM], [k |-> "Signaled", v |-> SIGTERM])
    BY DEF ChildTerminated
<1>3. SIGTERM \in ValidSignals
    BY Bounds
<1>4. QED
    BY <1>1, <1>2, <1>3, KernelSignalStatus, DieIInv

LEMMA ChildKilledIInv == IInv /\ ChildKilled => IInv'
<1> SUFFICES ASSUME IInv, ChildKilled PROVE IInv'
    OBVIOUS
<1>1. /\ UNCHANGED <<engineVars, c2p, sigVars, waitVars, queueVars>>
      /\ p2c' \in Seq({"Start"}) /\ oom' \in {"none", "fired", "sent"}
    BY Zenon DEF ChildKilled, IInv, TypeOK, pipeVars
<1>2. Die([w |-> "Signaled", v |-> SIGKILL], [k |-> "Signaled", v |-> SIGKILL])
    BY DEF ChildKilled
<1>3. SIGKILL \in ValidSignals
    BY Bounds
<1>4. QED
    BY <1>1, <1>2, <1>3, KernelSignalStatus, DieIInv

LEMMA OomKilledIInv == IInv /\ OomKilled => IInv'
<1> SUFFICES ASSUME IInv, OomKilled PROVE IInv'
    OBVIOUS
<1>1. /\ UNCHANGED <<engineVars, c2p, sigVars, waitVars, queueVars>>
      /\ p2c' \in Seq({"Start"}) /\ oom' \in {"none", "fired", "sent"}
    BY Zenon DEF OomKilled, IInv, TypeOK, pipeVars
<1>2. Die([w |-> "Signaled", v |-> SIGKILL], [k |-> "Signaled", v |-> SIGKILL])
    BY DEF OomKilled
<1>3. SIGKILL \in ValidSignals
    BY Bounds
<1>4. QED
    BY <1>1, <1>2, <1>3, KernelSignalStatus, DieIInv

LEMMA ChildGoIInv == IInv /\ ChildGo => IInv'
<1> SUFFICES ASSUME IInv, ChildGo PROVE IInv'
    OBVIOUS
<1>1. CASE child' = "running" /\ UNCHANGED <<rawStatus, truth>>
    \* execve: the held child runs, nothing else but the pipe changes
    <2>1. FlagType' /\ DataType
        BY TypeSplit, Zenon DEF IInv, FlagType, ChildGo, sigVars, queueVars
    <2>2. DataType'
        BY <2>1, <1>1, Bounds DEF DataType, ChildGo, engineVars, waitVars, queueVars
    <2>3. Coupling'
        BY <1>1 DEF IInv, Coupling, ChildGo, Alive, Dead, engineVars, waitVars
    <2>4. ExitEventFaithful'
        BY <1>1 DEF IInv, ExitEventFaithful, ChildGo, queueVars
    <2>5. QED
        BY <2>1, <2>2, <2>3, <2>4, Zenon DEF IInv, TypeOK, FlagType, DataType
<1>2. CASE \E code \in AppCodes : Die([w |-> "Exited", v |-> code], [k |-> "Exit", v |-> code])
    \* execve failed: the child exits with its distinctive code
    <2>1. PICK code \in AppCodes : Die([w |-> "Exited", v |-> code], [k |-> "Exit", v |-> code])
        BY <1>2
    <2>2. UNCHANGED <<engineVars, c2p, sigVars, waitVars, queueVars>>
        BY DEF ChildGo
    <2>3. p2c' \in Seq({"Start"}) /\ oom' \in {"none", "fired", "sent"}
        BY DEF ChildGo, IInv, TypeOK
    <2>4. QED
        BY <2>1, <2>2, <2>3, ExitCodeStatus, DieIInv
<1>3. QED
    BY <1>1, <1>2 DEF ChildGo

LEMMA ReapIInv == IInv /\ Reap => IInv'
<1> SUFFICES ASSUME IInv, Reap PROVE IInv'
    OBVIOUS
<1>1. FlagType /\ DataType
    BY TypeSplit DEF IInv
<1>2. FlagType'
    BY <1>1, Zenon DEF FlagType, Reap, engineVars, childVars, pipeVars, sigVars, waitVars, queueVars
<1>3. DataType'
    <2>1. rawStatus \in Raw
        BY DEF Reap, IInv, Coupling, Dead
    <2>2. CASE Decodable(rawStatus)
        BY <1>1, <2>1, <2>2, DecodeType DEF DataType, Reap, engineVars, childVars, pipeVars, sigVars, waitVars, queueVars
    <2>3. CASE ~Decodable(rawStatus)
        BY <1>1, <2>3 DEF DataType, Reap, engineVars, childVars, pipeVars, sigVars, waitVars, queueVars
    <2>4. QED
        BY <2>2, <2>3
<1>4. Coupling'
    BY <1>1, Bounds DEF IInv, Coupling, Reap, Decodable, Decode, Statuses, Alive, Dead, engineVars, childVars, pipeVars, sigVars, waitVars, queueVars
<1>5. ExitEventFaithful'
    BY <1>1, Bounds DEF IInv, Coupling, ExitEventFaithful, DataType, Reap, Decodable, Decode, Statuses, engineVars, childVars, pipeVars, sigVars, waitVars, queueVars
<1>6. QED
    BY <1>2, <1>3, <1>4, <1>5, Zenon DEF IInv, TypeOK, FlagType, DataType

LEMMA SendIInv == IInv /\ Send => IInv'
<1> SUFFICES ASSUME IInv, Send PROVE IInv'
    OBVIOUS
<1>1. FlagType /\ DataType
    BY TypeSplit DEF IInv
<1>2. wres = truth /\ wres \in Statuses
    \* the wait task only sends once it has reaped the child and decoded
    BY <1>1, Bounds DEF Send, IInv, Coupling, Dead, DataType
<1>3. /\ waiter = "sending" /\ waiter' = "done"
      /\ UNCHANGED <<engineVars, childVars, pipeVars, sigVars, wres, open, others, oom>>
    BY Zenon DEF Send
<1>4. FlagType'
    BY <1>1, <1>3, Zenon DEF FlagType, sigVars
<1>5. DataType' /\ ExitEventFaithful'
    <2>1. CASE open
        <3>1. queue' = Append(queue, [k |-> "exit", s |-> wres]) /\ Len(queue) < QCap
            BY <2>1, Zenon DEF Send
        <3>2. QED
            BY <1>1, <1>2, <1>3, <3>1, Bounds DEF DataType, Events, ExitEventFaithful, IInv, engineVars, childVars, pipeVars
    <2>2. CASE ~open
        <3>1. queue' = queue
            BY <2>2, Zenon DEF Send
        <3>2. QED
            BY <1>1, <1>3, <3>1 DEF DataType, ExitEventFaithful, IInv, engineVars, childVars, pipeVars
    <2>3. QED
        BY <2>1, <2>2
<1>6. Coupling'
    BY <1>1, <1>3 DEF IInv, Coupling, Alive, Dead, engineVars, childVars, pipeVars
<1>7. QED
    BY <1>4, <1>5, <1>6, Zenon DEF IInv, TypeOK, FlagType, DataType

LEMMA CreateIInv == IInv /\ Create => IInv'
<1> SUFFICES ASSUME IInv, Create PROVE IInv'
    OBVIOUS
<1>1. FlagType /\ DataType
    BY TypeSplit DEF IInv
<1>2. FlagType'
    BY <1>1, Zenon DEF FlagType, Create, engineVars, childVars, pipeVars, sigVars, waitVars, queueVars
<1>3. DataType'
    BY <1>1, Bounds DEF DataType, Create, TakeRequest, Events, engineVars, childVars, pipeVars, sigVars, waitVars, queueVars
<1>4. Coupling'
    BY <1>1, Bounds DEF IInv, Coupling, Create, Alive, Dead, engineVars, childVars, pipeVars, sigVars, waitVars, queueVars
<1>5. ExitEventFaithful'
    BY <1>1, Bounds DEF IInv, Coupling, ExitEventFaithful, DataType, Create, TakeRequest, engineVars, childVars, pipeVars, sigVars, waitVars, queueVars
<1>6. QED
    BY <1>2, <1>3, <1>4, <1>5, Zenon DEF IInv, TypeOK, FlagType, DataType

LEMMA StartSendIInv == IInv /\ StartSend => IInv'
<1> SUFFICES ASSUME IInv, StartSend PROVE IInv'
    OBVIOUS
<1>1. FlagType /\ DataType
    BY TypeSplit DEF IInv
<1>2. FlagType'
    BY <1>1, Zenon DEF FlagType, StartSend, engineVars, childVars, pipeVars, sigVars, waitVars, queueVars
<1>3. DataType'
    <2>1. CASE Alive
        BY <1>1, <2>1 DEF DataType, StartSend, engineVars, childVars, pipeVars, sigVars, waitVars, queueVars
    <2>2. CASE ~Alive
        BY <1>1, <2>2 DEF DataType, StartSend, engineVars, childVars, pipeVars, sigVars, waitVars, queueVars
    <2>3. QED
        BY <2>1, <2>2
<1>4. Coupling'
    BY <1>1, Bounds DEF IInv, Coupling, StartSend, Alive, Dead, engineVars, childVars, pipeVars, sigVars, waitVars, queueVars
<1>5. ExitEventFaithful'
    BY <1>1, Bounds DEF IInv, Coupling, ExitEventFaithful, DataType, StartSend, engineVars, childVars, pipeVars, sigVars, waitVars, queueVars
<1>6. QED
    BY <1>2, <1>3, <1>4, <1>5, Zenon DEF IInv, TypeOK, FlagType, DataType

LEMMA StartWaitIInv == IInv /\ StartWait => IInv'
<1> SUFFICES ASSUME IInv, StartWait PROVE IInv'
    OBVIOUS
<1>1. FlagType /\ DataType
    BY TypeSplit DEF IInv
<1>2. FlagType'
    BY <1>1, Zenon DEF FlagType, StartWait, engineVars, childVars, pipeVars, sigVars, waitVars, queueVars
<1>3. DataType'
    <2>1. CASE c2p # <<>> /\ c2p' = Tail(c2p) /\ hs' = "started" /\ pc' = "notify" /\ pend' = Notif("started")
        BY <1>1, <2>1, NotifFacts DEF DataType, Notifications, StartWait, engineVars, childVars, pipeVars, sigVars, waitVars, queueVars
    <2>2. CASE c2p = <<>> /\ ~Alive /\ pc' = "panicked" /\ why' = "start" /\ UNCHANGED <<hs, c2p, pend>>
        BY <1>1, <2>2, NotifFacts DEF DataType, Notifications, StartWait, engineVars, childVars, pipeVars, sigVars, waitVars, queueVars
    <2>3. QED
        BY <2>1, <2>2 DEF StartWait
<1>4. Coupling'
    BY <1>1, Bounds, NotifFacts, NoneAssumption DEF IInv, Coupling, Notif, Notifications, StartWait, Alive, Dead, engineVars, childVars, pipeVars, sigVars, waitVars, queueVars
<1>5. ExitEventFaithful'
    BY <1>1, Bounds, NotifFacts, NoneAssumption DEF IInv, Coupling, Notif, Notifications, ExitEventFaithful, DataType, StartWait, engineVars, childVars, pipeVars, sigVars, waitVars, queueVars
<1>6. QED
    BY <1>2, <1>3, <1>4, <1>5, Zenon DEF IInv, TypeOK, FlagType, DataType

LEMMA StopTermIInv == IInv /\ StopTerm => IInv'
<1> SUFFICES ASSUME IInv, StopTerm PROVE IInv'
    OBVIOUS
<1>1. FlagType /\ DataType
    BY TypeSplit DEF IInv
<1>2. FlagType'
    BY <1>1, Zenon DEF FlagType, StopTerm, StopBegin, engineVars, childVars, pipeVars, sigVars, waitVars, queueVars
<1>3. DataType'
    BY <1>1, Bounds DEF DataType, StopTerm, StopBegin, TakeRequest, Events, engineVars, childVars, pipeVars, sigVars, waitVars, queueVars
<1>4. Coupling'
    BY <1>1, Bounds DEF IInv, Coupling, StopTerm, StopBegin, Alive, Dead, engineVars, childVars, pipeVars, sigVars, waitVars, queueVars
<1>5. ExitEventFaithful'
    BY <1>1, Bounds DEF IInv, Coupling, ExitEventFaithful, DataType, StopTerm, StopBegin, TakeRequest, engineVars, childVars, pipeVars, sigVars, waitVars, queueVars
<1>6. QED
    BY <1>2, <1>3, <1>4, <1>5, Zenon DEF IInv, TypeOK, FlagType, DataType

LEMMA StopTimedIInv == IInv /\ StopTimed => IInv'
<1> SUFFICES ASSUME IInv, StopTimed PROVE IInv'
    OBVIOUS
<1>1. FlagType /\ DataType
    BY TypeSplit DEF IInv
<1>2. FlagType'
    BY <1>1, Zenon DEF FlagType, StopTimed, Finish, engineVars, childVars, pipeVars, sigVars, waitVars, queueVars
<1>3. DataType'
    BY <1>1, Bounds, NotifFacts DEF DataType, Notifications, StopTimed, Finish, engineVars, childVars, pipeVars, sigVars, waitVars, queueVars
<1>4. Coupling'
    BY <1>1, Bounds, NotifFacts, NoneAssumption DEF IInv, Coupling, Notif, Notifications, StopTimed, Finish, Alive, Dead, engineVars, childVars, pipeVars, sigVars, waitVars, queueVars
<1>5. ExitEventFaithful'
    BY <1>1, Bounds, NotifFacts, NoneAssumption DEF IInv, Coupling, Notif, Notifications, ExitEventFaithful, DataType, StopTimed, Finish, engineVars, childVars, pipeVars, sigVars, waitVars, queueVars
<1>6. QED
    BY <1>2, <1>3, <1>4, <1>5, Zenon DEF IInv, TypeOK, FlagType, DataType

LEMMA StopAwaitIInv == IInv /\ StopAwait => IInv'
<1> SUFFICES ASSUME IInv, StopAwait PROVE IInv'
    OBVIOUS
<1>1. FlagType /\ DataType
    BY TypeSplit DEF IInv
<1>2. FlagType'
    BY <1>1, Zenon DEF FlagType, StopAwait, Finish, engineVars, childVars, pipeVars, sigVars, waitVars, queueVars
<1>3. DataType'
    BY <1>1, Bounds, NotifFacts DEF DataType, Notifications, StopAwait, Finish, engineVars, childVars, pipeVars, sigVars, waitVars, queueVars
<1>4. Coupling'
    BY <1>1, Bounds, NotifFacts, NoneAssumption DEF IInv, Coupling, Notif, Notifications, StopAwait, Finish, Alive, Dead, engineVars, childVars, pipeVars, sigVars, waitVars, queueVars
<1>5. ExitEventFaithful'
    BY <1>1, Bounds, NotifFacts, NoneAssumption DEF IInv, Coupling, Notif, Notifications, ExitEventFaithful, DataType, StopAwait, Finish, engineVars, childVars, pipeVars, sigVars, waitVars, queueVars
<1>6. QED
    BY <1>2, <1>3, <1>4, <1>5, Zenon DEF IInv, TypeOK, FlagType, DataType

LEMMA ConsumeIInv == IInv /\ Consume => IInv'
<1> SUFFICES ASSUME IInv, Consume PROVE IInv'
    OBVIOUS
<1>1. FlagType /\ DataType
    BY TypeSplit DEF IInv
<1>0. Head(queue).k = "exit" => Dead
    \* an Exit event carries a status, so the child has one
    BY <1>1, Bounds DEF Consume, IInv, Coupling, ExitEventFaithful, DataType, Events
<1>2. CASE Head(queue).k = "exit" /\ OnExit
    <2>1. FlagType'
        BY <1>1, <1>2, Zenon DEF FlagType, Consume, OnExit, StopBegin, engineVars, childVars, pipeVars, sigVars, waitVars, queueVars
    <2>2. DataType'
        BY <1>1, <1>2, Bounds DEF DataType, Events, Notif, Notifications, Consume, OnExit, StopBegin, engineVars, childVars, pipeVars, sigVars, waitVars, queueVars
    <2>3. Coupling'
        BY <1>0, <1>1, <1>2, NotifFacts, NoneAssumption DEF Events, Notifications, IInv, Coupling, Notif, Consume, OnExit, StopBegin, Alive, Dead, engineVars, childVars, pipeVars, sigVars, waitVars, queueVars
    <2>4. ExitEventFaithful'
        BY <1>1, <1>2, Bounds DEF IInv, ExitEventFaithful, DataType, Consume, OnExit, engineVars, childVars, pipeVars, sigVars, waitVars, queueVars
    <2>5. QED
        BY <2>1, <2>2, <2>3, <2>4, Zenon DEF IInv, TypeOK, FlagType, DataType
<1>3. CASE Head(queue).k = "oom" /\ OnOom
    <2>1. FlagType'
        BY <1>1, <1>3, Zenon DEF FlagType, Consume, OnOom, StopBegin, engineVars, childVars, pipeVars, sigVars, waitVars, queueVars
    <2>2. DataType'
        BY <1>1, <1>3, Bounds DEF DataType, Events, Notif, Notifications, Consume, OnOom, StopBegin, engineVars, childVars, pipeVars, sigVars, waitVars, queueVars
    <2>3. Coupling'
        BY <1>0, <1>1, <1>3, NotifFacts, NoneAssumption DEF Events, Notifications, IInv, Coupling, Notif, Consume, OnOom, StopBegin, Alive, Dead, engineVars, childVars, pipeVars, sigVars, waitVars, queueVars
    <2>4. ExitEventFaithful'
        BY <1>1, <1>3, Bounds DEF IInv, ExitEventFaithful, DataType, Consume, OnOom, engineVars, childVars, pipeVars, sigVars, waitVars, queueVars
    <2>5. QED
        BY <2>1, <2>2, <2>3, <2>4, Zenon DEF IInv, TypeOK, FlagType, DataType
<1>4. CASE Head(queue).k = "other" /\ OnRequest
    <2>1. FlagType'
        BY <1>1, <1>4, Zenon DEF FlagType, Consume, OnRequest, StopBegin, engineVars, childVars, pipeVars, sigVars, waitVars, queueVars
    <2>2. DataType'
        BY <1>1, <1>4, Bounds DEF DataType, Events, Notif, Notifications, Consume, OnRequest, StopBegin, engineVars, childVars, pipeVars, sigVars, waitVars, queueVars
    <2>3. Coupling'
        BY <1>0, <1>1, <1>4, NotifFacts, NoneAssumption DEF Events, Notifications, IInv, Coupling, Notif, Consume, OnRequest, StopBegin, Alive, Dead, engineVars, childVars, pipeVars, sigVars, waitVars, queueVars
    <2>4. ExitEventFaithful'
        BY <1>1, <1>4, Bounds DEF IInv, ExitEventFaithful, DataType, Consume, OnRequest, engineVars, childVars, pipeVars, sigVars, waitVars, queueVars
    <2>5. QED
        BY <2>1, <2>2, <2>3, <2>4, Zenon DEF IInv, TypeOK, FlagType, DataType
<1>5. CASE Head(queue).k = "notif" /\ Forward
    <2>1. FlagType'
        BY <1>1, <1>5, Zenon DEF FlagType, Consume, Forward, StopBegin, engineVars, childVars, pipeVars, sigVars, waitVars, queueVars
    <2>2. DataType'
        BY <1>1, <1>5, Bounds DEF DataType, Events, Notif, Notifications, Consume, Forward, StopBegin, engineVars, childVars, pipeVars, sigVars, waitVars, queueVars
    <2>3. Coupling'
        BY <1>0, <1>1, <1>5 DEF IInv, Coupling, Notif, Consume, Forward, StopBegin, Alive, Dead, engineVars, childVars, pipeVars, sigVars, waitVars, queueVars
    <2>4. ExitEventFaithful'
        BY <1>1, <1>5, Bounds DEF IInv, ExitEventFaithful, DataType, Consume, Forward, engineVars, childVars, pipeVars, sigVars, waitVars, queueVars
    <2>5. QED
        BY <2>1, <2>2, <2>3, <2>4, Zenon DEF IInv, TypeOK, FlagType, DataType
<1>6. CASE Head(queue).k = "shutdown" /\ OnShutdown
    <2>1. FlagType'
        BY <1>1, <1>6, Zenon DEF FlagType, Consume, OnShutdown, StopBegin, engineVars, childVars, pipeVars, sigVars, waitVars, queueVars
    <2>2. DataType'
        BY <1>1, <1>6, Bounds DEF DataType, Events, Notif, Notifications, Consume, OnShutdown, StopBegin, engineVars, childVars, pipeVars, sigVars, waitVars, queueVars
    <2>3. Coupling'
        BY <1>0, <1>1, <1>6 DEF IInv, Coupling, Notif, Consume, OnShutdown, StopBegin, Alive, Dead, engineVars, childVars, pipeVars, sigVars, waitVars, queueVars
    <2>4. ExitEventFaithful'
        BY <1>1, <1>6, Bounds DEF IInv, ExitEventFaithful, DataType, Consume, OnShutdown, engineVars, childVars, pipeVars, sigVars, waitVars, queueVars
    <2>5. QED
        BY <2>1, <2>2, <2>3, <2>4, Zenon DEF IInv, TypeOK, FlagType, DataType
<1>7. QED
    BY <1>2, <1>3, <1>4, <1>5, <1>6 DEF Consume

LEMMA NotifyIInv == IInv /\ Notify => IInv'
<1> SUFFICES ASSUME IInv, Notify PROVE IInv'
    OBVIOUS
<1>1. FlagType /\ DataType
    BY TypeSplit DEF IInv
<1>0. pend \in Events /\ pend.k # "exit" /\ (pend = Notif("oom") => hs = "started")
    BY <1>1 DEF Notify, IInv, Coupling, DataType
<1>2. FlagType'
    BY <1>1, Zenon DEF FlagType, Notify, StopBegin, engineVars, childVars, pipeVars, sigVars, waitVars, queueVars
<1>3. DataType'
    BY <1>0, <1>1, Bounds DEF DataType, Notify, StopBegin, engineVars, childVars, pipeVars, sigVars, waitVars, queueVars
<1>4. Coupling'
    BY <1>0, <1>1, NotifFacts, NoneAssumption DEF Events, Notifications, IInv, Coupling, Notify, StopBegin, Alive, Dead, engineVars, childVars, pipeVars, sigVars, waitVars, queueVars
<1>5. ExitEventFaithful'
    BY <1>0, <1>1, Bounds DEF IInv, ExitEventFaithful, DataType, Notify, engineVars, childVars, pipeVars, sigVars, waitVars, queueVars
<1>6. QED
    BY <1>2, <1>3, <1>4, <1>5, Zenon DEF IInv, TypeOK, FlagType, DataType

LEMMA MonitorSendIInv == IInv /\ MonitorSend => IInv'
<1> SUFFICES ASSUME IInv, MonitorSend PROVE IInv'
    OBVIOUS
<1>1. FlagType /\ DataType
    BY TypeSplit DEF IInv
<1>2. FlagType'
    BY <1>1, Zenon DEF FlagType, MonitorSend, engineVars, childVars, pipeVars, sigVars, waitVars, queueVars
<1>3. DataType'
    BY <1>1, Bounds DEF DataType, Events, MonitorSend, engineVars, childVars, pipeVars, sigVars, waitVars, queueVars
<1>4. Coupling'
    BY <1>1 DEF IInv, Coupling, MonitorSend, Alive, Dead, engineVars, childVars, pipeVars, sigVars, waitVars, queueVars
<1>5. ExitEventFaithful'
    BY <1>1, Bounds DEF IInv, ExitEventFaithful, DataType, MonitorSend, engineVars, childVars, pipeVars, sigVars, waitVars, queueVars
<1>6. QED
    BY <1>2, <1>3, <1>4, <1>5, Zenon DEF IInv, TypeOK, FlagType, DataType

LEMMA CloseIInv == IInv /\ Close => IInv'
<1> SUFFICES ASSUME IInv, Close PROVE IInv'
    OBVIOUS
<1>1. FlagType /\ DataType
    BY TypeSplit DEF IInv
<1>2. FlagType'
    BY <1>1, Zenon DEF FlagType, Close, engineVars, childVars, pipeVars, sigVars, waitVars, queueVars
<1>3. DataType'
    BY <1>1, Bounds DEF DataType, Close, engineVars, childVars, pipeVars, sigVars, waitVars, queueVars
<1>4. Coupling'
    BY <1>1, Bounds DEF IInv, Coupling, Close, Alive, Dead, engineVars, childVars, pipeVars, sigVars, waitVars, queueVars
<1>5. ExitEventFaithful'
    BY <1>1, Bounds DEF IInv, Coupling, ExitEventFaithful, DataType, Close, engineVars, childVars, pipeVars, sigVars, waitVars, queueVars
<1>6. QED
    BY <1>2, <1>3, <1>4, <1>5, Zenon DEF IInv, TypeOK, FlagType, DataType

LEMMA ProduceIInv == IInv /\ Produce => IInv'
<1> SUFFICES ASSUME IInv, Produce PROVE IInv'
    OBVIOUS
<1>1. FlagType /\ DataType
    BY TypeSplit DEF IInv
<1>2. FlagType'
    BY <1>1, Zenon DEF FlagType, Produce, engineVars, childVars, pipeVars, sigVars, waitVars, queueVars
<1>3. DataType'
    BY <1>1, Bounds DEF DataType, Produce, Events, engineVars, childVars, pipeVars, sigVars, waitVars, queueVars
<1>4. Coupling'
    BY <1>1, Bounds DEF IInv, Coupling, Produce, Events, Alive, Dead, engineVars, childVars, pipeVars, sigVars, waitVars, queueVars
<1>5. ExitEventFaithful'
    BY <1>1, Bounds DEF IInv, Coupling, ExitEventFaithful, DataType, Produce, Events, engineVars, childVars, pipeVars, sigVars, waitVars, queueVars
<1>6. QED
    BY <1>2, <1>3, <1>4, <1>5, Zenon DEF IInv, TypeOK, FlagType, DataType

LEMMA ChildAckIInv == IInv /\ ChildAck => IInv'
<1> SUFFICES ASSUME IInv, ChildAck PROVE IInv'
    OBVIOUS
<1>1. FlagType /\ DataType
    BY TypeSplit DEF IInv
<1>2. FlagType'
    BY <1>1, Zenon DEF FlagType, ChildAck, engineVars, childVars, pipeVars, sigVars, waitVars, queueVars
<1>3. DataType'
    BY <1>1, Bounds DEF DataType, ChildAck, engineVars, childVars, pipeVars, sigVars, waitVars, queueVars
<1>4. Coupling'
    BY <1>1, Bounds DEF IInv, Coupling, ChildAck, Alive, Dead, engineVars, childVars, pipeVars, sigVars, waitVars, queueVars
<1>5. ExitEventFaithful'
    BY <1>1, Bounds DEF IInv, Coupling, ExitEventFaithful, DataType, ChildAck, engineVars, childVars, pipeVars, sigVars, waitVars, queueVars
<1>6. QED
    BY <1>2, <1>3, <1>4, <1>5, Zenon DEF IInv, TypeOK, FlagType, DataType

LEMMA NextIInv == IInv /\ [Next]_vars => IInv'
<1> SUFFICES ASSUME IInv, [Next]_vars PROVE IInv'
    OBVIOUS
<1>1. CASE UNCHANGED vars
    BY <1>1 DEF IInv, TypeOK, Coupling, ExitEventFaithful, Alive, Dead, vars,
       engineVars, childVars, pipeVars, sigVars, waitVars, queueVars
<1>2. QED
    BY <1>1, CreateIInv, StartSendIInv, StartWaitIInv, StopTermIInv, StopTimedIInv, StopAwaitIInv, NotifyIInv, ConsumeIInv, CloseIInv, ProduceIInv, MonitorSendIInv, ReapIInv, SendIInv, ChildAckIInv, ChildGoIInv, ChildSetupFailsIInv, ChildExitsIInv, ChildTerminatedIInv, ChildKilledIInv, OomKilledIInv DEF Next

\* The inductive invariant holds in every reachable state.
THEOREM LauncherInvariant == Spec => []IInv
BY InitIInv, NextIInv, PTL DEF Spec

\* Type correctness of the launcher model: among others the engine queue
\* never holds more than QCap events, whatever the wait task and the other
\* producers do.
THEOREM LauncherTypeCorrect == Spec => []TypeOK
BY LauncherInvariant, PTL DEF IInv

\* Every Exit event the wait task puts in the engine's queue carries the
\* status the container ended with (wait's decode of 128 + signal).
THEOREM ExitEventsFaithful == Spec => []ExitEventFaithful
BY LauncherInvariant, PTL DEF IInv

-----------------------------------------------------------------------------
(* Refinement: the launcher implements the handle state machine.          *)

LEMMA InitRefines == Init => Abs!Init
BY DEF Init, Abs!Init, LifeOf

\* A step that leaves the handle, the ended status and stop's result alone
\* is a stutter of the abstract machine.
LEMMA AbsStutter ==
    ASSUME UNCHANGED <<hs, truth, stopRes>>
    PROVE  UNCHANGED Abs!vars
BY DEF Abs!vars, LifeOf

\* The child's death is the abstract End of the process.
LEMMA DieRefines ==
    ASSUME IInv, IInv', Alive, child' = "zombie", UNCHANGED <<hs, stopRes>>
    PROVE  Abs!Next
<1>1. truth = None /\ truth' \in Statuses
    BY Bounds DEF IInv, IInv, TypeOK, Coupling, Alive, Dead
<1>2. LifeOf \in {"created", "started"} /\ LifeOf' = LifeOf
    BY DEF IInv, Coupling, LifeOf
<1>3. Abs!End(truth')
    BY <1>1, <1>2 DEF Abs!End
<1>4. QED
    BY <1>1, <1>3 DEF Abs!Next

LEMMA NextRefines ==
    ASSUME IInv, IInv', [Next]_vars
    PROVE  [Abs!Next]_Abs!vars
<1>1. CASE Create
    <2>1. CASE hs' = "created"
        <3>1. Abs!Create
            BY <1>1, <2>1 DEF Create, Abs!Create, LifeOf, childVars
        <3>2. QED
            BY <3>1 DEF Abs!Next
    <2>2. CASE hs' # "created"
        \* a failed preparation or a fork panic: the handle stays "none"
        BY <1>1, <2>2 DEF Create, Abs!vars, LifeOf, childVars
    <2>3. QED
        BY <2>1, <2>2
<1>2. CASE StartWait
    <2>1. CASE hs' = "started"
        <3>1. Abs!Start
            BY <1>2, <2>1 DEF StartWait, Abs!Start, LifeOf, childVars, IInv, Coupling
        <3>2. QED
            BY <3>1 DEF Abs!Next
    <2>2. CASE hs' # "started"
        BY <1>2, <2>2, AbsStutter DEF StartWait, childVars
    <2>3. QED
        BY <2>1, <2>2
<1>3. CASE StopTimed \/ StopAwait
    \* Finish with the wait task's result is the abstract Stop
    <2>1. CASE hs' = "stopped"
        <3>1. waiter = "done" /\ stopRes' = wres /\ hs = "started" /\ UNCHANGED truth
            BY <1>3, <2>1 DEF StopTimed, StopAwait, Finish, childVars, IInv, Coupling
        <3>2. wres = truth /\ truth # None
            BY <3>1, Bounds DEF IInv, TypeOK, Coupling, Dead
        <3>3. Abs!Stop
            BY <2>1, <3>1, <3>2 DEF Abs!Stop, LifeOf
        <3>4. QED
            BY <3>3 DEF Abs!Next
    <2>2. CASE hs' # "stopped"
        <3>1. UNCHANGED <<hs, truth, stopRes>>
            BY <1>3, <2>2 DEF StopTimed, StopAwait, Finish, childVars
        <3>2. QED
            BY <3>1, AbsStutter
    <2>3. QED
        BY <2>1, <2>2
<1>4. CASE Consume
    <2>1. CASE Head(queue).k = "exit" /\ hs = "started"
        <3>1. hs' = "retired" /\ queue # <<>> /\ UNCHANGED <<truth, stopRes>>
            BY <1>4, <2>1 DEF Consume, OnExit, childVars, engineVars
        <3>2. truth # None
            \* the Exit event carries the status the child ended with
            <4>1. queue \in Seq(Events) /\ 1 \in 1..Len(queue) /\ Head(queue) = queue[1]
                BY <3>1 DEF IInv, TypeOK
            <4>2. queue[1] \in Events /\ queue[1].k = "exit"
                BY <4>1, <2>1
            <4>3. queue[1].s = truth /\ queue[1].s \in Statuses
                BY <4>1, <4>2 DEF IInv, ExitEventFaithful, Events
            <4>4. QED
                BY <4>3, NoneAssumption
        <3>3. Abs!Retire
            BY <2>1, <3>1, <3>2 DEF Abs!Retire, LifeOf
        <3>4. QED
            BY <3>3 DEF Abs!Next
    <2>2. CASE ~(Head(queue).k = "exit" /\ hs = "started")
        \* no other handler touches the handle's state
        <3>1. CASE Head(queue).k = "exit" /\ OnExit
            BY <2>2, <3>1, AbsStutter DEF OnExit, childVars
        <3>2. CASE Head(queue).k = "oom" /\ OnOom
            BY <3>2, AbsStutter DEF OnOom, childVars
        <3>3. CASE Head(queue).k = "other" /\ OnRequest
            BY <3>3, AbsStutter DEF OnRequest, childVars
        <3>4. CASE Head(queue).k = "notif" /\ Forward
            BY <3>4, AbsStutter DEF Forward, engineVars, childVars
        <3>5. CASE Head(queue).k = "shutdown" /\ OnShutdown
            BY <3>5, AbsStutter DEF OnShutdown, childVars
        <3>6. QED
            BY <1>4, <3>1, <3>2, <3>3, <3>4, <3>5 DEF Consume
    <2>3. QED
        BY <2>1, <2>2
<1>5. CASE ChildGo
    <2>1. CASE child' = "running" /\ UNCHANGED <<rawStatus, truth>>
        BY <1>5, <2>1, AbsStutter DEF ChildGo, engineVars
    <2>2. CASE \E code \in AppCodes : Die([w |-> "Exited", v |-> code], [k |-> "Exit", v |-> code])
        BY <1>5, <2>2, DieRefines DEF ChildGo, Die, engineVars
    <2>3. QED
        BY <1>5, <2>1, <2>2 DEF ChildGo
<1>6. CASE ChildSetupFails \/ ChildExits \/ ChildTerminated \/ ChildKilled \/ OomKilled
    <2>1. Alive /\ child' = "zombie" /\ UNCHANGED <<hs, stopRes>>
        BY <1>6 DEF ChildSetupFails, ChildExits, ChildTerminated, ChildKilled, OomKilled,
           Die, engineVars
    <2>2. QED
        BY <2>1, DieRefines
<1>7. CASE StartSend \/ StopTerm \/ Close \/ Produce \/ Reap \/ Send \/ ChildAck
           \/ Notify \/ MonitorSend
    \* engine, wait task, monitor and queue steps the abstract machine does not see
    <2>1. UNCHANGED <<hs, truth, stopRes>>
        BY <1>7 DEF StartSend, StopTerm, StopBegin, Close, Produce, Reap, Send, ChildAck,
           Notify, MonitorSend, engineVars, childVars
    <2>2. QED
        BY <2>1, AbsStutter
<1>8. CASE UNCHANGED vars
    BY <1>8, AbsStutter DEF vars, engineVars, childVars
<1>9. QED
    BY <1>1, <1>2, <1>3, <1>4, <1>5, <1>6, <1>7, <1>8 DEF Next

\* The launcher implements the spec 4.3 handle state machine: created, then
\* started, then stopped by stop() or retired by the exit, and stop()
\* returns the status the process ended with (the SIGTERM, timeout/SIGKILL
\* and ESRCH paths of IslandProcess::stop and the wait task's decoding).
THEOREM LauncherRefinesLifecycle == Spec => Lifecycle
<1>1. Init => Abs!Init
    BY InitRefines
<1>2. IInv /\ IInv' /\ [Next]_vars => [Abs!Next]_Abs!vars
    BY NextRefines
<1>3. QED
    BY <1>1, <1>2, LauncherInvariant, PTL DEF Spec, Lifecycle, Abs!Spec

==============================================================================
