------------------------- MODULE ClientServiceProofs -------------------------
(***************************************************************************)
(* The client implements RequestService, the one-outstanding-request      *)
(* contract of the spec, for every number of callers and every bound.      *)
(*                                                                         *)
(* Under the mapping inflight <- responseTx, a step of the task maps to    *)
(* the abstract step of the caller it serves. For that the caller at the   *)
(* head of the request channel must be waiting and must not be the        *)
(* outstanding one, and a Response must answer the outstanding caller:    *)
(* Queued states the first, RInv (ClientRoutingProofs) the second.         *)
(***************************************************************************)
EXTENDS ClientRoutingProofs

\* Every caller in the request channel is waiting, is there once, and is
\* not the outstanding one; the outstanding caller is waiting.
Queued ==
    /\ \A i \in DOMAIN reqq : caller[reqq[i]] = "busy" /\ reqq[i] # responseTx
    /\ \A i, j \in DOMAIN reqq : reqq[i] = reqq[j] => i = j
    /\ responseTx # None => caller[responseTx] = "busy"

SInv == RInv /\ Queued

-----------------------------------------------------------------------------
(* Queued                                                                  *)

LEMMA QueuedFrame ==
    ASSUME Queued, UNCHANGED <<reqq, caller, responseTx>>
    PROVE  Queued'
BY DEF Queued

LEMMA QueuedEmpty ==
    ASSUME reqq' = <<>>, responseTx' = None
    PROVE  Queued'
BY DEF Queued

\* A caller that is not waiting is neither queued nor outstanding.
LEMMA NotWaiting ==
    ASSUME SInv, NEW c \in Callers, caller[c] # "busy"
    PROVE  /\ \A i \in DOMAIN reqq : reqq[i] # c
           /\ responseTx # c
BY ClientAssumption DEF SInv, Queued

\* Submitting appends an idle caller to the channel, or, once the task has
\* ended, finishes it without touching the channel.
LEMMA CallQ ==
    ASSUME SInv, NEW c \in Callers, Call(c)
    PROVE  Queued'
<1>0. /\ caller[c] = "idle" /\ reqq \in Seq(Callers)
      /\ caller \in [Callers -> {"idle", "busy", "done"}]
      /\ UNCHANGED responseTx
  BY DEF Call, SInv, RInv, TypeOK
<1>1. /\ \A i \in DOMAIN reqq : reqq[i] # c
      /\ responseTx # c
  BY <1>0, NotWaiting
<1>2. CASE phase = "ended"
  <2>1. caller' = [caller EXCEPT ![c] = "done"] /\ UNCHANGED reqq
    BY <1>2 DEF Call
  <2> QED
    BY <1>0, <1>1, <2>1 DEF SInv, Queued
<1>3. CASE phase # "ended"
  <2>1. caller' = [caller EXCEPT ![c] = "busy"] /\ reqq' = Append(reqq, c)
    BY <1>3 DEF Call
  <2>2. /\ DOMAIN reqq' = 1..Len(reqq) + 1
        /\ \A i \in 1..Len(reqq) : reqq'[i] = reqq[i]
        /\ reqq'[Len(reqq) + 1] = c
        /\ DOMAIN reqq = 1..Len(reqq)
    BY <1>0, <2>1
  <2> QED
    BY <1>0, <1>1, <2>1, <2>2 DEF SInv, Queued
<1> QED
  BY <1>2, <1>3

\* The rest of the channel behind its head.
LEMMA TailQueued ==
    ASSUME NEW s \in Seq(Callers), s # <<>>,
           \A i, j \in DOMAIN s : s[i] = s[j] => i = j
    PROVE  /\ \A i \in DOMAIN Tail(s) :
                 i + 1 \in DOMAIN s /\ Tail(s)[i] = s[i + 1] /\ Tail(s)[i] # Head(s)
           /\ \A i, j \in DOMAIN Tail(s) : Tail(s)[i] = Tail(s)[j] => i = j
<1>1. \A i \in DOMAIN Tail(s) : i + 1 \in DOMAIN s /\ i + 1 # 1 /\ Tail(s)[i] = s[i + 1]
  OBVIOUS
<1>2. Head(s) = s[1] /\ 1 \in DOMAIN s
  OBVIOUS
<1> QED
  BY <1>1, <1>2

\* The task takes the head of the channel: refuses it, makes it the
\* outstanding request, or finishes it with Io; or panics.
LEMMA ReadRequestQ ==
    ASSUME SInv, ReadRequest
    PROVE  Queued'
<1>c. PICK c \in Callers : c = Head(reqq)
  BY DEF ReadRequest, SInv, RInv, TypeOK
<1>0. /\ reqq \in Seq(Callers) /\ reqq # <<>>
      /\ caller \in [Callers -> {"idle", "busy", "done"}]
      /\ caller[c] = "busy" /\ c # responseTx
  <2>1. reqq \in Seq(Callers) /\ reqq # <<>> /\ caller \in [Callers -> {"idle", "busy", "done"}]
    BY DEF ReadRequest, SInv, RInv, TypeOK
  <2>2. Head(reqq) = reqq[1] /\ 1 \in DOMAIN reqq
    BY <2>1
  <2> QED
    BY <1>c, <2>1, <2>2 DEF SInv, Queued
<1>1. /\ \A i \in DOMAIN Tail(reqq) :
             i + 1 \in DOMAIN reqq /\ Tail(reqq)[i] = reqq[i + 1] /\ Tail(reqq)[i] # c
      /\ \A i, j \in DOMAIN Tail(reqq) : Tail(reqq)[i] = Tail(reqq)[j] => i = j
  BY <1>0, <1>c, TailQueued DEF SInv, Queued
<1>2. CASE /\ responseTx # None /\ reqq' = Tail(reqq)
           /\ caller' = [caller EXCEPT ![c] = "done"]
           /\ UNCHANGED responseTx
  BY <1>0, <1>1, <1>2 DEF SInv, Queued
<1>3. CASE responseTx = None /\ reqq' = Tail(reqq) /\ SendRequest(c)
  <2>1. CASE connUp
    <3>1. responseTx' = c /\ UNCHANGED caller
      BY <1>3, <2>1 DEF SendRequest
    <3> QED
      BY <1>0, <1>1, <1>3, <3>1 DEF SInv, Queued
  <2>2. CASE ~connUp
    <3>1. caller' = [caller EXCEPT ![c] = "done"] /\ UNCHANGED responseTx
      BY <1>3, <2>2 DEF SendRequest
    <3> QED
      BY <1>0, <1>1, <1>3, <3>1 DEF SInv, Queued
  <2> QED
    BY <2>1, <2>2
<1>4. CASE EndTask("panic")
  BY <1>4, QueuedEmpty DEF EndTask
<1> QED
  BY <1>c, <1>2, <1>3, <1>4 DEF ReadRequest

\* A Response finishes the outstanding caller, which is not queued.
LEMMA ReadResponseQ ==
    ASSUME SInv, ReadResponse
    PROVE  Queued'
<1>1. CASE responseTx # None
  <2>r. PICK r \in Callers : r = responseTx
    BY <1>1 DEF SInv, RInv, TypeOK
  <2>1. /\ caller' = [caller EXCEPT ![r] = "done"] /\ responseTx' = None
        /\ UNCHANGED reqq
    BY <1>1, <2>r DEF ReadResponse
  <2>2. \A i \in DOMAIN reqq : reqq[i] # r
    BY <2>r DEF SInv, Queued
  <2>3. reqq \in Seq(Callers) /\ caller \in [Callers -> {"idle", "busy", "done"}]
    BY DEF SInv, RInv, TypeOK
  <2>4. \A i \in DOMAIN reqq' : caller'[reqq'[i]] = "busy" /\ reqq'[i] # responseTx'
    BY <2>1, <2>2, <2>3, ClientAssumption DEF SInv, Queued
  <2> QED
    BY <2>1, <2>4 DEF SInv, Queued
<1>2. CASE responseTx = None
  BY <1>2, QueuedEmpty DEF ReadResponse, EndTask
<1> QED
  BY <1>1, <1>2

LEMMA NextQ ==
    ASSUME SInv, [Next]_vars
    PROVE  Queued'
<1>0. Queued
  BY DEF SInv
<1>1. CASE \E c \in Callers : Call(c)
  BY <1>1, CallQ
<1>2. CASE ReadRequest
  BY <1>2, ReadRequestQ
<1>3. CASE ReadResponse
  BY <1>3, ReadResponseQ
<1>4. CASE ReadClosed
  <2>1. PICK why \in {"ok", "io"} : EndTask(why)
    BY <1>4 DEF ReadClosed
  <2> QED
    BY <2>1, QueuedEmpty DEF EndTask
<1>5. CASE CopyPackage
  <2>1. CASE connUp
    BY <1>0, <1>5, <2>1, QueuedFrame DEF CopyPackage
  <2>2. CASE ~connUp
    BY <1>5, <2>2, QueuedEmpty DEF CopyPackage, EndTask
  <2> QED
    BY <2>1, <2>2
<1>6. CASE \/ Connect \/ ReadNotification \/ ForwardNotification \/ PollNext
           \/ ServerRead \/ ServerNotify \/ ConnectionFails \/ UNCHANGED vars
  <2>1. UNCHANGED <<reqq, caller, responseTx>>
    BY <1>6 DEF Connect, ReadNotification, ForwardNotification, PollNext,
       ServerRead, ServerNotify, ConnectionFails, vars, callerVars
  <2> QED
    BY <1>0, <2>1, QueuedFrame
<1> QED
  BY <1>1, <1>2, <1>3, <1>4, <1>5, <1>6 DEF Next, TaskStep

LEMMA InitS == Init => SInv
BY InitR DEF Init, SInv, Queued

LEMMA NextS == SInv /\ [Next]_vars => SInv'
BY NextR, NextQ DEF SInv

\* The client's task keeps the request channel and the response_tx slot
\* consistent with the callers' states, and the slot a token for the wire.
THEOREM ClientInvariant == Spec => []SInv
BY InitS, NextS, PTL DEF Spec

-----------------------------------------------------------------------------
(* The refinement                                                          *)

\* The results a request method can make of a Response.
LEMMA OutcomeRange ==
    ASSUME NEW c, NEW d, NEW err
    PROVE  Outcome(c, d, err) \in {"api", "ok", "panic", "protocol"}
BY DEF Outcome

LEMMA InitService == Init => Svc!Init
BY DEF Init, Svc!Init

LEMMA StutterService ==
    ASSUME UNCHANGED <<phase, caller, result, responseTx>>
    PROVE  [Svc!Next]_Svc!vars
BY DEF Svc!vars

\* The task's loop breaks while running: the connection ends.
LEMMA EndTaskService ==
    ASSUME phase = "running", NEW why, EndTask(why)
    PROVE  [Svc!Next]_Svc!vars
<1>1. Svc!Close
  BY DEF EndTask, Svc!Close
<1> QED
  BY <1>1 DEF Svc!Next

LEMMA CallService ==
    ASSUME NEW c \in Callers, Call(c)
    PROVE  [Svc!Next]_Svc!vars
<1>1. Svc!Submit(c)
  BY DEF Call, Svc!Submit, Svc!Finish
<1> QED
  BY <1>1 DEF Svc!Next

\* The head of the channel is refused while another caller's request is
\* outstanding, and otherwise issued.
LEMMA ReadRequestService ==
    ASSUME SInv, ReadRequest
    PROVE  [Svc!Next]_Svc!vars
<1>c. PICK c \in Callers : c = Head(reqq)
  BY DEF ReadRequest, SInv, RInv, TypeOK
<1>0. /\ phase = "running" /\ caller[c] = "busy" /\ c # responseTx
  <2>1. reqq \in Seq(Callers) /\ reqq # <<>>
    BY DEF ReadRequest, SInv, RInv, TypeOK
  <2>2. Head(reqq) = reqq[1] /\ 1 \in DOMAIN reqq
    BY <2>1
  <2> QED
    BY <1>c, <2>1, <2>2 DEF SInv, Queued, ReadRequest, Polling
<1>1. CASE /\ responseTx # None
           /\ caller' = [caller EXCEPT ![c] = "done"]
           /\ result' = [result EXCEPT ![c] = "pending"]
           /\ UNCHANGED <<phase, responseTx>>
  <2>1. Svc!Refuse(c)
    BY <1>0, <1>1 DEF Svc!Refuse, Svc!Finish
  <2> QED
    BY <2>1 DEF Svc!Next
<1>2. CASE responseTx = None /\ SendRequest(c)
  <2>1. Svc!Issue(c)
    BY <1>0, <1>2 DEF SendRequest, Svc!Issue, Svc!Finish
  <2> QED
    BY <2>1 DEF Svc!Next
<1>3. CASE EndTask("panic")
  BY <1>0, <1>3, EndTaskService
<1> QED
  BY <1>c, <1>1, <1>2, <1>3 DEF ReadRequest

\* A Response is taken by the outstanding caller, which returns Ok or Err.
LEMMA ReadResponseService ==
    ASSUME SInv, SInv', ReadResponse
    PROVE  [Svc!Next]_Svc!vars
<1>0. phase = "running"
  BY DEF ReadResponse, Polling
<1>1. CASE responseTx # None
  <2>r. PICK r \in Callers : r = responseTx
    BY <1>1 DEF SInv, RInv, TypeOK
  <2> DEFINE o == Outcome(r, Head(down).c, Head(down).err)
  <2>1. /\ responseTx' = None
        /\ caller' = [caller EXCEPT ![r] = "done"]
        /\ result' = [result EXCEPT ![r] = o]
        /\ UNCHANGED phase
    BY <1>1, <2>r DEF ReadResponse
  <2>2. result'[r] = o
    BY <2>1 DEF SInv, RInv, TypeOK
  <2>3. o \in {"ok", "api"}
    BY <2>2, OutcomeRange DEF SInv, RInv, NoProtocolError
  <2>a. Svc!Finish(responseTx, o)
    BY <2>r, <2>1 DEF Svc!Finish
  <2>b. \E x \in {"ok", "api"} : Svc!Finish(responseTx, x)
    BY <2>a, <2>3
  <2>4. Svc!Answer
    BY <1>0, <1>1, <2>1, <2>b DEF Svc!Answer
  <2> QED
    BY <2>4 DEF Svc!Next
<1>2. CASE responseTx = None
  BY <1>0, <1>2, EndTaskService DEF ReadResponse
<1> QED
  BY <1>1, <1>2

LEMMA NextService ==
    ASSUME SInv, SInv', [Next]_vars
    PROVE  [Svc!Next]_Svc!vars
<1>1. CASE Connect
  <2>1. Svc!Open
    BY <1>1 DEF Connect, Svc!Open, callerVars
  <2> QED
    BY <2>1 DEF Svc!Next
<1>2. CASE \E c \in Callers : Call(c)
  BY <1>2, CallService
<1>3. CASE ReadRequest
  BY <1>3, ReadRequestService
<1>4. CASE ReadResponse
  BY <1>4, ReadResponseService
<1>5. CASE ReadClosed
  <2>1. PICK why \in {"ok", "io"} : EndTask(why)
    BY <1>5 DEF ReadClosed
  <2> QED
    BY <1>5, <2>1, EndTaskService DEF ReadClosed, Polling
<1>6. CASE CopyPackage
  <2>1. CASE connUp
    BY <1>6, <2>1, StutterService DEF CopyPackage
  <2>2. CASE ~connUp
    BY <1>6, <2>2, EndTaskService DEF CopyPackage
  <2> QED
    BY <2>1, <2>2
<1>7. CASE \/ ReadNotification \/ ForwardNotification \/ PollNext
           \/ ServerRead \/ ServerNotify \/ ConnectionFails \/ UNCHANGED vars
  <2>1. UNCHANGED <<phase, caller, result, responseTx>>
    BY <1>7 DEF ReadNotification, ForwardNotification, PollNext,
       ServerRead, ServerNotify, ConnectionFails, vars, callerVars
  <2> QED
    BY <2>1, StutterService
<1> QED
  BY <1>1, <1>2, <1>3, <1>4, <1>5, <1>6, <1>7 DEF Next, TaskStep

\* The client implements the spec's one-outstanding-request contract
\* (RequestService) for every number of callers and every bound: the task's
\* response_tx slot is the outstanding request, PendingRequest is returned
\* only while another caller's request is outstanding, the Response taken
\* from the slot answers that caller with Ok or Err, and a broken loop
\* stops every waiting caller.
THEOREM ClientImplementsService == Spec => Service
<1>1. Init => Svc!Init
  BY InitService
<1>2. SInv /\ SInv' /\ [Next]_vars => [Svc!Next]_Svc!vars
  BY NextService
<1> QED
  BY <1>1, <1>2, ClientInvariant, PTL DEF Spec, Service, Svc!Spec

====
