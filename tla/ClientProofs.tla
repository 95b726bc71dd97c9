---------------------------- MODULE ClientProofs ----------------------------
(***************************************************************************)
(* Proofs about the API client model. TypeOK is inductive on its own: the  *)
(* channel bounds are guards of the actions that fill the channels, and     *)
(* every frame, stored sender and copied caller names a caller. Each step   *)
(* is shown to keep the three groups of variables typed one at a time.      *)
(***************************************************************************)
EXTENDS Client, TLAPS

\* TypeOK in three parts, one per group of variables, so that each proof
\* obligation stays small.
TaskType ==
    /\ phase \in {"connecting", "running", "ended", "failed"}
    /\ reqq \in Seq(Callers) /\ Len(reqq) <= RequestCap
    /\ responseTx \in Callers \cup {None}
    /\ copying \in Callers \cup {None}
    /\ nq \in 0..NotifCap

WireType ==
    /\ up \in Seq(Up) /\ down \in Seq(Down)
    /\ srvInstall \in Callers \cup {None}
    /\ sent \in 0..MaxNotif

CallerType ==
    /\ caller \in [Callers -> {"idle", "busy", "done"}]
    /\ kind \in [Callers -> Kinds]
    /\ result \in [Callers -> Outcomes \cup {"none"}]
    /\ answeredBy \in [Callers -> Callers \cup {None}]
    /\ taskResult \in {"none", "ok", "io", "protocol", "panic"}

\* The two Boolean flags, which the SMT backend handles poorly next to
\* sequences; Zenon proves them.
FlagType == held \in BOOLEAN /\ connUp \in BOOLEAN

LEMMA TypeSplit == TypeOK <=> TaskType /\ WireType /\ CallerType /\ FlagType
BY Zenon DEF TypeOK, TaskType, WireType, CallerType, FlagType

\* The bounds are naturals.
LEMMA Bounds ==
    /\ RequestCap \in Nat /\ NotifCap \in Nat /\ MaxNotif \in Nat
    /\ None \notin Callers
BY ClientAssumption

LEMMA InitTypeOK == Init => TypeOK
<1> SUFFICES ASSUME Init PROVE TaskType /\ WireType /\ CallerType /\ FlagType
  BY Zenon DEF TypeOK, TaskType, WireType, CallerType, FlagType
<1>1. TaskType BY ClientAssumption DEF Init, TaskType
<1>2. WireType BY ClientAssumption DEF Init, WireType
<1>3. CallerType BY DEF Init, CallerType
<1>4. FlagType BY Zenon DEF Init, FlagType
<1>5. QED BY <1>1, <1>2, <1>3, <1>4

\* The results a request method can make of a Response are results.
LEMMA OutcomeType ==
    ASSUME NEW c, NEW d, NEW err
    PROVE  Outcome(c, d, err) \in Outcomes
BY DEF Outcome, Outcomes

\* Ending the task keeps the task state and the callers typed.
LEMMA EndTaskType ==
    ASSUME TaskType, CallerType, NEW why \in {"ok", "io", "protocol", "panic"},
           EndTask(why), copying' \in Callers \cup {None},
           UNCHANGED <<nq, kind, answeredBy>>
    PROVE  TaskType' /\ CallerType'
<1>1. TaskType' BY ClientAssumption DEF EndTask, TaskType
<1>2. CallerType' BY DEF EndTask, CallerType, Outcomes
<1>3. QED BY <1>1, <1>2

\* A step that leaves a group of variables alone keeps that group typed.
LEMMA TaskFrame ==
    TaskType /\ UNCHANGED <<phase, reqq, responseTx, copying, held, nq>>
      => TaskType'
BY DEF TaskType

LEMMA WireFrame ==
    WireType /\ UNCHANGED <<up, down, connUp, srvInstall, sent>> => WireType'
BY DEF WireType

LEMMA FlagFrame == FlagType /\ UNCHANGED <<held, connUp>> => FlagType'
BY Zenon DEF FlagType

LEMMA CallerFrame ==
    CallerType /\ UNCHANGED <<caller, kind, result, answeredBy, taskResult>>
      => CallerType'
BY DEF CallerType

LEMMA ConnectType == TypeOK /\ Connect => TypeOK'
<1> SUFFICES ASSUME TaskType, WireType, CallerType, FlagType, Connect
             PROVE  TaskType' /\ WireType' /\ CallerType' /\ FlagType'
  BY Zenon DEF TypeOK, TaskType, WireType, CallerType, FlagType
<1>0. FlagType' BY Zenon DEF Connect, FlagType
<1>1. TaskType' BY DEF Connect, TaskType
<1>2. QED BY <1>0, <1>1, WireFrame, CallerFrame DEF Connect, srvVars, callerVars

LEMMA CallType == ASSUME TypeOK, NEW c \in Callers, Call(c) PROVE TypeOK'
<1> SUFFICES ASSUME TaskType, WireType, CallerType, FlagType
             PROVE  TaskType' /\ WireType' /\ CallerType' /\ FlagType'
  BY Zenon DEF TypeOK, TaskType, WireType, CallerType, FlagType
<1>0. FlagType' BY Zenon DEF Call, FlagType
<1>a. /\ UNCHANGED <<phase, responseTx, copying, nq>>
      /\ \/ reqq' = reqq
         \/ Len(reqq) < RequestCap /\ reqq' = Append(reqq, c)
  BY Zenon DEF Call
<1>1. TaskType' BY <1>a, Bounds DEF TaskType
<1>2. CallerType' BY DEF Call, CallerType, Outcomes
<1>3. QED BY <1>0, <1>1, <1>2, WireFrame DEF Call, srvVars

LEMMA ReadResponseType == TypeOK /\ ReadResponse => TypeOK'
<1> SUFFICES ASSUME TaskType, WireType, CallerType, FlagType, ReadResponse
             PROVE  TaskType' /\ WireType' /\ CallerType' /\ FlagType'
  BY Zenon DEF TypeOK, TaskType, WireType, CallerType, FlagType
<1>0. FlagType' BY Zenon DEF ReadResponse, EndTask, FlagType
<1> DEFINE m == Head(down)
<1>1. m \in Down /\ m.t = "resp"
  BY DEF ReadResponse, WireType
<1>2. m.c \in Callers
  BY <1>1 DEF Down
<1>3. WireType'
  BY DEF ReadResponse, WireType, srvVars
<1>4. CASE responseTx # None
  <2>1. Outcome(responseTx, m.c, m.err) \in Outcomes
    BY OutcomeType
  <2>2. TaskType' BY <1>4 DEF ReadResponse, TaskType
  <2>3. CallerType' BY <1>2, <1>4, <2>1 DEF ReadResponse, CallerType
  <2>4. QED BY <1>0, <1>3, <2>2, <2>3
<1>5. CASE responseTx = None
  <2>1. EndTask("protocol") /\ UNCHANGED <<copying, nq, kind, answeredBy>>
    BY <1>5, Zenon DEF ReadResponse
  <2>2. TaskType' /\ CallerType'
    BY <2>1, EndTaskType DEF TaskType
  <2>3. QED BY <1>0, <1>3, <2>2
<1>6. QED BY <1>0, <1>4, <1>5

LEMMA ReadNotificationType == TypeOK /\ ReadNotification => TypeOK'
<1> SUFFICES ASSUME TaskType, WireType, CallerType, FlagType, ReadNotification
             PROVE  TaskType' /\ WireType' /\ CallerType' /\ FlagType'
  BY Zenon DEF TypeOK, TaskType, WireType, CallerType, FlagType
<1>0. FlagType' BY Zenon DEF ReadNotification, FlagType
<1>1. TaskType' BY DEF ReadNotification, TaskType
<1>2. WireType' BY DEF ReadNotification, WireType, srvVars
<1>3. QED BY <1>0, <1>1, <1>2, CallerFrame DEF ReadNotification, callerVars

LEMMA ForwardNotificationType == TypeOK /\ ForwardNotification => TypeOK'
<1> SUFFICES ASSUME TaskType, WireType, CallerType, FlagType, ForwardNotification
             PROVE  TaskType' /\ WireType' /\ CallerType' /\ FlagType'
  BY Zenon DEF TypeOK, TaskType, WireType, CallerType, FlagType
<1>0. FlagType' BY Zenon DEF ForwardNotification, FlagType
<1>1. TaskType' BY ClientAssumption DEF ForwardNotification, TaskType
<1>2. QED BY <1>0, <1>1, WireFrame, CallerFrame
          DEF ForwardNotification, srvVars, callerVars

LEMMA ReadClosedType == TypeOK /\ ReadClosed => TypeOK'
<1> SUFFICES ASSUME TaskType, WireType, CallerType, FlagType, ReadClosed
             PROVE  TaskType' /\ WireType' /\ CallerType' /\ FlagType'
  BY Zenon DEF TypeOK, TaskType, WireType, CallerType, FlagType
<1>0. FlagType' BY Zenon DEF ReadClosed, EndTask, FlagType
<1>1. PICK why \in {"ok", "io"} : EndTask(why)
  BY DEF ReadClosed
<1>a. UNCHANGED <<copying, nq, kind, answeredBy>>
  BY Zenon DEF ReadClosed
<1>2. TaskType' /\ CallerType'
  BY <1>1, <1>a, EndTaskType DEF TaskType
<1>3. QED BY <1>0, <1>2, WireFrame DEF ReadClosed, srvVars

LEMMA ReadRequestType == TypeOK /\ ReadRequest => TypeOK'
<1> SUFFICES ASSUME TaskType, WireType, CallerType, FlagType, ReadRequest
             PROVE  TaskType' /\ WireType' /\ CallerType' /\ FlagType'
  BY Zenon DEF TypeOK, TaskType, WireType, CallerType, FlagType
<1>0. FlagType' BY Zenon DEF ReadRequest, SendRequest, EndTask, FlagType
<1> DEFINE c == Head(reqq)
<1>a. reqq # <<>>
  BY Zenon DEF ReadRequest
<1>1. c \in Callers /\ Tail(reqq) \in Seq(Callers)
      /\ Len(Tail(reqq)) <= RequestCap
  BY <1>a, Bounds DEF TaskType
<1>2. CASE /\ responseTx # None
           /\ reqq' = Tail(reqq)
           /\ caller' = [caller EXCEPT ![c] = "done"]
           /\ result' = [result EXCEPT ![c] = "pending"]
           /\ UNCHANGED <<phase, responseTx, up, copying, taskResult>>
  <2>1. TaskType' BY <1>1, <1>2 DEF ReadRequest, TaskType
  <2>2. WireType' BY <1>2 DEF ReadRequest, WireType, srvVars
  <2>3. CallerType' BY <1>1, <1>2 DEF ReadRequest, CallerType, Outcomes
  <2>4. QED BY <1>0, <2>1, <2>2, <2>3
<1>3. CASE /\ responseTx = None
           /\ reqq' = Tail(reqq)
           /\ SendRequest(c)
  <2>1. TaskType' BY <1>1, <1>3 DEF ReadRequest, SendRequest, TaskType
  <2>a. /\ UNCHANGED <<down, srvInstall, sent>>
        /\ up' = up \/ up' = Append(up, [t |-> "req", c |-> c])
    BY <1>3, Zenon DEF ReadRequest, SendRequest, srvVars
  <2>b. [t |-> "req", c |-> c] \in Up
    BY <1>1 DEF Up
  <2>2. WireType' BY <2>a, <2>b DEF WireType
  <2>3. CallerType' BY <1>1, <1>3 DEF ReadRequest, SendRequest, CallerType,
                                      Outcomes
  <2>4. QED BY <1>0, <2>1, <2>2, <2>3
<1>4. CASE /\ responseTx = None /\ kind[c] = "install"
           /\ EndTask("panic")
           /\ UNCHANGED <<up, copying>>
  <2>a. UNCHANGED <<copying, nq, kind, answeredBy>>
    BY <1>4, Zenon DEF ReadRequest
  <2>1. TaskType' /\ CallerType'
    BY <1>4, <2>a, EndTaskType DEF TaskType
  <2>2. WireType' BY <1>4 DEF ReadRequest, WireType, srvVars
  <2>3. QED BY <1>0, <2>1, <2>2
<1>5. QED BY <1>0, <1>2, <1>3, <1>4 DEF ReadRequest

LEMMA CopyPackageType == TypeOK /\ CopyPackage => TypeOK'
<1> SUFFICES ASSUME TaskType, WireType, CallerType, FlagType, CopyPackage
             PROVE  TaskType' /\ WireType' /\ CallerType' /\ FlagType'
  BY Zenon DEF TypeOK, TaskType, WireType, CallerType, FlagType
<1>0. FlagType' BY Zenon DEF CopyPackage, EndTask, FlagType
<1>1. CASE connUp
  <2>1. TaskType' BY <1>1 DEF CopyPackage, TaskType
  <2>a. copying \in Callers
    BY DEF CopyPackage, TaskType
  <2>b. [t |-> "bytes", c |-> copying] \in Up
    BY <2>a DEF Up
  <2>c. /\ up' = Append(up, [t |-> "bytes", c |-> copying])
        /\ UNCHANGED <<down, srvInstall, sent>>
    BY <1>1 DEF CopyPackage, srvVars
  <2>2. WireType' BY <2>b, <2>c DEF WireType
  <2>3. QED BY <1>0, <1>1, <2>1, <2>2, CallerFrame DEF CopyPackage
<1>2. CASE ~connUp
  <2>1. EndTask("io") /\ copying' = None
    BY <1>2, Zenon DEF CopyPackage
  <2>b. UNCHANGED <<nq, kind, answeredBy>>
    BY Zenon DEF CopyPackage
  <2>2. TaskType' /\ CallerType'
    BY <2>1, <2>b, EndTaskType
  <2>c. UNCHANGED <<up, down, srvInstall, sent>>
    BY <1>2, Zenon DEF CopyPackage, srvVars
  <2>d. WireType'
    BY <2>c DEF WireType
  <2>3. QED BY <1>0, <2>2, <2>d
<1>3. QED BY <1>0, <1>1, <1>2

LEMMA PollNextType == TypeOK /\ PollNext => TypeOK'
<1> SUFFICES ASSUME TaskType, WireType, CallerType, FlagType, PollNext
             PROVE  TaskType' /\ WireType' /\ CallerType' /\ FlagType'
  BY Zenon DEF TypeOK, TaskType, WireType, CallerType, FlagType
<1>0. FlagType' BY Zenon DEF PollNext, FlagType
<1>a. nq > 0 /\ nq' = nq - 1 /\ UNCHANGED <<phase, reqq, responseTx, copying>>
  BY Zenon DEF PollNext
<1>1. TaskType' BY <1>a, Bounds DEF TaskType
<1>2. QED BY <1>0, <1>1, WireFrame, CallerFrame DEF PollNext, srvVars, callerVars

LEMMA ServerReadType == TypeOK /\ ServerRead => TypeOK'
<1> SUFFICES ASSUME TaskType, WireType, CallerType, FlagType, ServerRead
             PROVE  TaskType' /\ WireType' /\ CallerType' /\ FlagType'
  BY Zenon DEF TypeOK, TaskType, WireType, CallerType, FlagType
<1>0. FlagType' BY Zenon DEF ServerRead, FlagType
<1>1. Head(up) \in Up /\ Tail(up) \in Seq(Up)
  BY DEF ServerRead, WireType
<1>2. Head(up).c \in Callers
  BY <1>1 DEF Up
<1>a. up' = Tail(up) /\ sent' = sent
  BY Zenon DEF ServerRead
<1>3. WireType'
  <2>1. CASE Head(up).t = "req" /\ kind[Head(up).c] = "install"
    <3>1. srvInstall' = Head(up).c /\ down' = down
      BY <2>1, Zenon DEF ServerRead
    <3>2. QED BY <1>1, <1>2, <1>a, <3>1 DEF WireType
  <2>2. CASE ~(Head(up).t = "req" /\ kind[Head(up).c] = "install")
    <3>1. PICK err \in BOOLEAN :
            /\ down' = Append(down, [t |-> "resp", c |-> Head(up).c, err |-> err])
            /\ srvInstall' = None
      BY <2>2, Zenon DEF ServerRead
    <3>2. [t |-> "resp", c |-> Head(up).c, err |-> err] \in Down
      BY <1>2 DEF Down
    <3>3. QED BY <1>1, <1>a, <3>1, <3>2 DEF WireType
  <2>3. QED BY <2>1, <2>2
<1>4. QED BY <1>0, <1>3, TaskFrame, CallerFrame DEF ServerRead, callerVars

LEMMA ServerNotifyType == TypeOK /\ ServerNotify => TypeOK'
<1> SUFFICES ASSUME TaskType, WireType, CallerType, FlagType, ServerNotify
             PROVE  TaskType' /\ WireType' /\ CallerType' /\ FlagType'
  BY Zenon DEF TypeOK, TaskType, WireType, CallerType, FlagType
<1>0. FlagType' BY Zenon DEF ServerNotify, FlagType
<1>a. /\ sent < MaxNotif /\ sent' = sent + 1
      /\ down' = Append(down, [t |-> "notif"])
      /\ UNCHANGED <<up, srvInstall>>
  BY Zenon DEF ServerNotify
<1>1. WireType' BY <1>a, Bounds DEF WireType, Down
<1>2. QED BY <1>0, <1>1, TaskFrame, CallerFrame DEF ServerNotify, callerVars

LEMMA ConnectionFailsType == TypeOK /\ ConnectionFails => TypeOK'
<1> SUFFICES ASSUME TaskType, WireType, CallerType, FlagType, ConnectionFails
             PROVE  TaskType' /\ WireType' /\ CallerType' /\ FlagType'
  BY Zenon DEF TypeOK, TaskType, WireType, CallerType, FlagType
<1>0. FlagType' BY Zenon DEF ConnectionFails, FlagType
<1>1. WireType' BY DEF ConnectionFails, WireType, srvVars
<1>2. QED BY <1>0, <1>1, TaskFrame, CallerFrame DEF ConnectionFails, callerVars

LEMMA NextType == TypeOK /\ [Next]_vars => TypeOK'
<1> SUFFICES ASSUME TypeOK, [Next]_vars PROVE TypeOK'
  OBVIOUS
<1>1. CASE \E c \in Callers : Call(c)
  BY <1>1, CallType
<1>2. CASE UNCHANGED vars
  BY <1>2 DEF vars, TypeOK
<1>3. QED
  BY <1>1, <1>2, ConnectType, ReadResponseType, ReadNotificationType,
     ForwardNotificationType, ReadClosedType, ReadRequestType,
     CopyPackageType, PollNextType, ServerReadType, ServerNotifyType,
     ConnectionFailsType DEF Next, TaskStep

\* Every reachable state of the client is well-typed: the request channel
\* never holds more than its capacity, the notification channel never more
\* than its bound, and every frame, stored sender and copied package names
\* a caller.
THEOREM ClientTypeCorrect == Spec => []TypeOK
BY InitTypeOK, NextType, PTL DEF Spec

=============================================================================
