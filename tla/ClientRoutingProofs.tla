------------------------- MODULE ClientRoutingProofs -------------------------
(***************************************************************************)
(* ResponseToItsCaller and NoProtocolError for every number of callers and *)
(* every channel bound.                                                    *)
(*                                                                         *)
(* Neither is inductive. What makes them so is that, while the task runs,  *)
(* the single response_tx slot is a token: with no sender stored nothing  *)
(* that will produce a Response is on the wire, and with the sender of c  *)
(* stored exactly c's request is, in one of the stages of its round trip  *)
(* (Stage). The PendingRequest refusal keeps a second request off the     *)
(* wire, and the runtime answers each request once.                        *)
(***************************************************************************)
EXTENDS ClientProofs, SequenceTheorems

Req(c) == [t |-> "req", c |-> c]
Bytes(c) == [t |-> "bytes", c |-> c]

\* No Response frame is in the frames s on their way to the client.
NoResp(s) == \A i \in DOMAIN s : s[i].t # "resp"

\* Exactly one Response frame is in s, and it answers c.
OneResp(s, c) ==
    \E j \in DOMAIN s :
        /\ s[j].t = "resp" /\ s[j].c = c
        /\ \A i \in DOMAIN s : s[i].t = "resp" => i = j

\* The stages of the round trip of c's request, c's sender being stored:
\* the request (an install's header, then its bytes) in flight to the
\* runtime, the runtime holding an install header and awaiting its bytes,
\* or the Response in flight back.
Stage(c) ==
    \/ /\ up = <<Req(c)>> /\ srvInstall = None /\ NoResp(down)
       /\ copying = IF kind[c] = "install" THEN c ELSE None
    \/ /\ kind[c] = "install" /\ up = <<Req(c), Bytes(c)>>
       /\ srvInstall = None /\ NoResp(down) /\ copying = None
    \/ /\ kind[c] = "install" /\ srvInstall = c /\ NoResp(down)
       /\ \/ up = <<>> /\ copying = c
          \/ up = <<Bytes(c)>> /\ copying = None
    \/ /\ up = <<>> /\ srvInstall = None /\ OneResp(down, c) /\ copying = None

\* The response_tx slot as a token for the wire.
Token ==
    /\ phase = "connecting" =>
         /\ up = <<>> /\ down = <<>> /\ responseTx = None
         /\ srvInstall = None /\ copying = None
    /\ phase = "running" =>
         /\ responseTx = None =>
              /\ up = <<>> /\ srvInstall = None /\ NoResp(down)
              /\ copying # None => ~connUp
         /\ responseTx # None => Stage(responseTx)

RInv == TypeOK /\ Token /\ ResponseToItsCaller /\ NoProtocolError
-----------------------------------------------------------------------------
(* The Response frames of a sequence of inbound frames                     *)

Notif == [t |-> "notif"]

LEMMA TailNoResp ==
    ASSUME NEW s \in Seq(Down), s # <<>>, NoResp(s)
    PROVE  NoResp(Tail(s))
<1>1. \A i \in DOMAIN Tail(s) : i + 1 \in DOMAIN s /\ Tail(s)[i] = s[i + 1]
  OBVIOUS
<1> QED
  BY <1>1 DEF NoResp

\* Taking a notification off the front keeps the one Response.
LEMMA TailOneResp ==
    ASSUME NEW s \in Seq(Down), s # <<>>, Head(s).t # "resp", NEW c,
           OneResp(s, c)
    PROVE  OneResp(Tail(s), c)
<1>1. PICK j \in DOMAIN s : /\ s[j].t = "resp" /\ s[j].c = c
                            /\ \A i \in DOMAIN s : s[i].t = "resp" => i = j
  BY DEF OneResp
<1>2. j # 1 /\ j - 1 \in DOMAIN Tail(s) /\ Tail(s)[j - 1] = s[j]
  BY <1>1
<1>3. \A i \in DOMAIN Tail(s) : i + 1 \in DOMAIN s /\ Tail(s)[i] = s[i + 1]
  OBVIOUS
<1> QED
  BY <1>1, <1>2, <1>3 DEF OneResp

\* Taking the one Response off the front leaves none, and it answers c.
LEMMA TailLastResp ==
    ASSUME NEW s \in Seq(Down), s # <<>>, Head(s).t = "resp", NEW c,
           OneResp(s, c)
    PROVE  NoResp(Tail(s)) /\ Head(s).c = c
<1>1. PICK j \in DOMAIN s : /\ s[j].t = "resp" /\ s[j].c = c
                            /\ \A i \in DOMAIN s : s[i].t = "resp" => i = j
  BY DEF OneResp
<1>2. j = 1 /\ Head(s) = s[1]
  BY <1>1
<1>3. \A i \in DOMAIN Tail(s) : i + 1 \in DOMAIN s /\ i + 1 # 1 /\ Tail(s)[i] = s[i + 1]
  OBVIOUS
<1> QED
  BY <1>1, <1>2, <1>3 DEF NoResp

LEMMA AppendNotif ==
    ASSUME NEW s \in Seq(Down), NEW c
    PROVE  /\ NoResp(s) => NoResp(Append(s, Notif))
           /\ OneResp(s, c) => OneResp(Append(s, Notif), c)
<1>1. /\ DOMAIN Append(s, Notif) = 1..Len(s) + 1
      /\ \A i \in 1..Len(s) : Append(s, Notif)[i] = s[i]
      /\ Append(s, Notif)[Len(s) + 1] = Notif
  OBVIOUS
<1>2. Notif.t # "resp"
  BY DEF Notif
<1> QED
  BY <1>1, <1>2 DEF NoResp, OneResp

\* The runtime's Response to c after none: the one Response, answering c.
LEMMA AppendResp ==
    ASSUME NEW s \in Seq(Down), NoResp(s), NEW c, NEW e
    PROVE  OneResp(Append(s, [t |-> "resp", c |-> c, err |-> e]), c)
<1> DEFINE r == [t |-> "resp", c |-> c, err |-> e]
<1>1. /\ DOMAIN Append(s, r) = 1..Len(s) + 1
      /\ \A i \in 1..Len(s) : Append(s, r)[i] = s[i]
      /\ Append(s, r)[Len(s) + 1] = r
  OBVIOUS
<1> QED
  BY <1>1 DEF NoResp, OneResp

\* A request method given the Response to its own request returns Ok or
\* an Api error, never Protocol and never unreachable!().
LEMMA OutcomeSelf ==
    ASSUME NEW c, NEW err \in BOOLEAN
    PROVE  Outcome(c, c, err) \in {"ok", "api"}
BY DEF Outcome, Variant
\* A frame behind a single frame.
LEMMA AppendOne ==
    ASSUME NEW S, NEW a \in S, NEW b \in S
    PROVE  Append(<<a>>, b) = <<a, b>>
<1>1. <<a>> \in Seq(S) /\ Len(<<a>>) = 1
  OBVIOUS
<1>2. /\ Append(<<a>>, b) \in Seq(S) /\ Len(Append(<<a>>, b)) = 2
      /\ Append(<<a>>, b)[1] = a /\ Append(<<a>>, b)[2] = b
  BY <1>1
<1>3. <<a, b>> \in Seq(S) /\ Len(<<a, b>>) = 2
  OBVIOUS
<1>4. \A i \in 1..2 : Append(<<a>>, b)[i] = <<a, b>>[i]
  BY <1>2
<1> QED
  BY <1>2, <1>3, <1>4, SeqEqual
-----------------------------------------------------------------------------
(* The steps                                                               *)

Props == Token /\ ResponseToItsCaller /\ NoProtocolError

\* A step that leaves the wire, the task's slots and the answers alone, at
\* most breaks the connection, and gives a caller at most a result other
\* than Protocol or a panic.
LEMMA FrameR ==
    ASSUME RInv,
           UNCHANGED <<phase, up, down, responseTx, srvInstall, copying, kind,
                       answeredBy, taskResult>>,
           connUp' => connUp,
           \A c \in Callers : result'[c] \in {result[c], "stopped", "pending", "io"}
    PROVE  Props'
<1>1. Token'
  BY DEF RInv, Token, Stage, NoResp, OneResp
<1>2. ResponseToItsCaller' /\ NoProtocolError'
  BY DEF RInv, ResponseToItsCaller, NoProtocolError
<1> QED
  BY <1>1, <1>2 DEF Props

\* The task's loop breaking (other than with Protocol) ends the token's
\* duty, answers no one, and gives every waiting caller Stopped.
LEMMA EndTaskR ==
    ASSUME RInv, NEW why \in {"ok", "io", "panic"}, EndTask(why),
           UNCHANGED answeredBy
    PROVE  Props'
<1>1. Token'
  BY DEF EndTask, Token
<1>2. ResponseToItsCaller'
  BY DEF RInv, ResponseToItsCaller
<1>3. NoProtocolError'
  BY DEF EndTask, RInv, TypeOK, NoProtocolError
<1> QED
  BY <1>1, <1>2, <1>3 DEF Props

LEMMA ConnectR == RInv /\ Connect => Props'
<1> SUFFICES ASSUME RInv, Connect PROVE Props'
  OBVIOUS
<1>1. NoResp(<<>>)
  BY DEF NoResp
<1>2. Token'
  BY <1>1 DEF Connect, RInv, Token, callerVars, srvVars
<1> QED
  BY <1>2 DEF Props, Connect, RInv, ResponseToItsCaller, NoProtocolError, callerVars

LEMMA CallR == ASSUME RInv, NEW c \in Callers, Call(c) PROVE Props'
<1>1. \A d \in Callers : result'[d] \in {result[d], "stopped", "pending", "io"}
  BY DEF Call, RInv, TypeOK
<1> QED
  BY <1>1, FrameR DEF Call, srvVars

LEMMA QuietR ==
    RInv /\ (ForwardNotification \/ PollNext \/ ConnectionFails) => Props'
<1> SUFFICES ASSUME RInv, ForwardNotification \/ PollNext \/ ConnectionFails
             PROVE Props'
  OBVIOUS
<1>1. UNCHANGED <<phase, up, down, responseTx, srvInstall, copying, kind,
                  answeredBy, taskResult, result>>
  BY DEF ForwardNotification, PollNext, ConnectionFails, callerVars, srvVars
<1>2. connUp' => connUp
  BY DEF ForwardNotification, PollNext, ConnectionFails
<1> QED
  BY <1>1, <1>2, FrameR

LEMMA ReadClosedR == RInv /\ ReadClosed => Props'
<1> SUFFICES ASSUME RInv, ReadClosed PROVE Props'
  OBVIOUS
<1>1. PICK why \in {"ok", "io"} : EndTask(why)
  BY DEF ReadClosed
<1> QED
  BY <1>1, EndTaskR DEF ReadClosed

LEMMA ReadNotificationR == RInv /\ ReadNotification => Props'
<1> SUFFICES ASSUME RInv, ReadNotification PROVE Props'
  OBVIOUS
<1>1. down \in Seq(Down) /\ down # <<>> /\ Head(down).t # "resp"
  BY DEF ReadNotification, RInv, TypeOK
<1>2. /\ down' = Tail(down)
      /\ UNCHANGED <<phase, up, responseTx, srvInstall, copying, kind, connUp,
                     answeredBy, taskResult, result>>
  BY DEF ReadNotification, callerVars, srvVars
<1>3. NoResp(down) => NoResp(down')
  BY <1>1, <1>2, TailNoResp
<1>4. \A c : OneResp(down, c) => OneResp(down', c)
  BY <1>1, <1>2, TailOneResp
<1>5. Token'
  BY <1>2, <1>3, <1>4 DEF RInv, Token, Stage
<1> QED
  BY <1>2, <1>5 DEF Props, RInv, ResponseToItsCaller, NoProtocolError

LEMMA ServerNotifyR == RInv /\ ServerNotify => Props'
<1> SUFFICES ASSUME RInv, ServerNotify PROVE Props'
  OBVIOUS
<1>1. down \in Seq(Down)
  BY DEF RInv, TypeOK
<1>2. /\ down' = Append(down, Notif) /\ phase = "running"
      /\ UNCHANGED <<phase, up, responseTx, srvInstall, copying, kind, connUp,
                     answeredBy, taskResult, result>>
  BY DEF ServerNotify, Notif, callerVars
<1>3. NoResp(down) => NoResp(down')
  BY <1>1, <1>2, AppendNotif
<1>4. \A c : OneResp(down, c) => OneResp(down', c)
  BY <1>1, <1>2, AppendNotif
<1>5. Token'
  BY <1>2, <1>3, <1>4 DEF RInv, Token, Stage
<1> QED
  BY <1>2, <1>5 DEF Props, RInv, ResponseToItsCaller, NoProtocolError
\* Over a stored sender the request is refused with PendingRequest; with
\* none it goes on the wire as the one request of the round trip.
LEMMA ReadRequestR == RInv /\ ReadRequest => Props'
<1> SUFFICES ASSUME RInv, ReadRequest PROVE Props'
  OBVIOUS
<1>c. PICK c \in Callers : c = Head(reqq)
  BY DEF ReadRequest, RInv, TypeOK
<1>0. /\ c = Head(reqq) /\ phase = "running"
      /\ UNCHANGED <<down, connUp, srvInstall, kind, answeredBy>>
  BY <1>c DEF ReadRequest, Polling, srvVars
<1>1. CASE /\ responseTx # None
           /\ result' = [result EXCEPT ![c] = "pending"]
           /\ UNCHANGED <<phase, responseTx, up, copying, taskResult>>
  <2>1. \A d \in Callers : result'[d] \in {result[d], "stopped", "pending", "io"}
    BY <1>1 DEF RInv, TypeOK
  <2> QED
    BY <1>0, <1>1, <2>1, FrameR
<1>2. CASE responseTx = None /\ SendRequest(c)
  <2>1. /\ up = <<>> /\ srvInstall = None /\ NoResp(down)
    BY <1>0, <1>2 DEF RInv, Token
  <2>2. CASE connUp
    <3>1. /\ up' = <<Req(c)>> /\ responseTx' = c
          /\ copying' = IF kind[c] = "install" THEN c ELSE None
          /\ UNCHANGED <<phase, result, taskResult>>
      BY <2>1, <2>2, <1>2 DEF SendRequest, Req
    <3>2. Stage(c)'
      BY <1>0, <2>1, <3>1 DEF Stage
    <3>3. Token'
      BY <1>0, <3>1, <3>2, ClientAssumption DEF Token, Stage
    <3> QED
      BY <1>0, <3>1, <3>3 DEF Props, RInv, ResponseToItsCaller, NoProtocolError
  <2>3. CASE ~connUp
    <3>1. /\ result' = [result EXCEPT ![c] = "io"]
          /\ UNCHANGED <<phase, responseTx, up, taskResult>>
      BY <2>3, <1>2 DEF SendRequest
    <3>2. Token'
      BY <1>0, <1>2, <2>1, <2>3, <3>1 DEF Token
    <3>3. NoProtocolError'
      BY <1>0, <3>1 DEF RInv, TypeOK, NoProtocolError
    <3> QED
      BY <1>0, <3>2, <3>3 DEF Props, RInv, ResponseToItsCaller
  <2> QED
    BY <2>2, <2>3
<1>3. CASE EndTask("panic")
  BY <1>0, <1>3, EndTaskR
<1> QED
  BY <1>0, <1>1, <1>2, <1>3 DEF ReadRequest

\* io::copy writes an install's bytes right behind its header, on the
\* wire only while its sender is stored; a failed write ends the task.
LEMMA CopyPackageR == RInv /\ CopyPackage => Props'
<1> SUFFICES ASSUME RInv, CopyPackage PROVE Props'
  OBVIOUS
<1>1. CASE connUp
  <2>r. PICK r \in Callers \cup {None} : r = responseTx
    BY DEF RInv, TypeOK
  <2>0. /\ up' = Append(up, Bytes(copying)) /\ copying' = None
        /\ UNCHANGED <<phase, responseTx, result, taskResult, down, connUp,
                       srvInstall, kind, answeredBy>>
    BY <1>1 DEF CopyPackage, Bytes, srvVars
  <2>1. r = responseTx /\ r # None /\ Stage(r) /\ up \in Seq(Up) /\ copying # None
    <3>1. phase = "running" /\ copying # None /\ up \in Seq(Up)
      BY DEF CopyPackage, RInv, TypeOK
    <3> QED
      BY <1>1, <3>1, <2>r DEF RInv, Token
  <2>2. CASE up = <<Req(r)>> /\ copying = r /\ kind[r] = "install"
             /\ srvInstall = None /\ NoResp(down)
    <3>1. up' = <<Req(r), Bytes(r)>>
      <4>1. Req(r) \in Up /\ Bytes(r) \in Up
        BY <2>1 DEF Req, Bytes, Up
      <4> QED
        BY <2>0, <2>2, <4>1, AppendOne
    <3> QED
      BY <2>0, <2>1, <2>2, <3>1 DEF Props, Token, Stage, RInv,
         ResponseToItsCaller, NoProtocolError
  <2>3. CASE up = <<>> /\ copying = r /\ kind[r] = "install"
             /\ srvInstall = r /\ NoResp(down)
    <3>1. up' = <<Bytes(r)>>
      BY <2>0, <2>3 DEF Bytes
    <3> QED
      BY <2>0, <2>1, <2>3, <3>1 DEF Props, Token, Stage, RInv,
         ResponseToItsCaller, NoProtocolError
  <2> QED
    BY <2>1, <2>2, <2>3 DEF Stage
<1>2. CASE ~connUp
  BY <1>2, EndTaskR DEF CopyPackage
<1> QED
  BY <1>1, <1>2
\* The runtime takes the frame at the front: an install's header leaves it
\* awaiting the bytes, anything else is answered with one Response to the
\* caller the frame came from, which is the caller whose sender is stored.
LEMMA ServerReadR == RInv /\ ServerRead => Props'
<1> SUFFICES ASSUME RInv, ServerRead PROVE Props'
  OBVIOUS
<1>0. /\ connUp /\ up # <<>> /\ up' = Tail(up)
      /\ UNCHANGED <<phase, responseTx, copying, connUp, kind, result,
                     answeredBy, taskResult>>
  BY DEF ServerRead, callerVars
<1>1. ResponseToItsCaller' /\ NoProtocolError'
  BY <1>0 DEF RInv, ResponseToItsCaller, NoProtocolError
<1>2. CASE phase # "running"
  BY <1>0, <1>1, <1>2 DEF Props, RInv, Token
<1>3. CASE phase = "running"
  <2>r. PICK r \in Callers \cup {None} : r = responseTx
    BY DEF RInv, TypeOK
  <2>1. r \in Callers /\ Stage(r) /\ down \in Seq(Down)
    BY <1>0, <1>3, <2>r DEF RInv, Token, TypeOK
  <2>2. Token' <=> Stage(r)'
    BY <1>0, <1>3, <2>1, <2>r, ClientAssumption DEF Token, Stage
  <2>3. CASE /\ up = <<Req(r)>> /\ srvInstall = None /\ NoResp(down)
             /\ copying = IF kind[r] = "install" THEN r ELSE None
    <3>1. Head(up) = Req(r) /\ up' = <<>>
      BY <1>0, <2>3
    <3>2. CASE kind[r] = "install"
      <4>1. srvInstall' = r /\ down' = down
        BY <3>1, <3>2 DEF ServerRead, Req
      <4> QED
        BY <1>0, <1>1, <2>2, <2>3, <3>1, <3>2, <4>1 DEF Props, Stage
    <3>3. CASE kind[r] # "install"
      <4>1. PICK err \in BOOLEAN :
                 /\ down' = Append(down, [t |-> "resp", c |-> r, err |-> err])
                 /\ srvInstall' = None
        BY <3>1, <3>3 DEF ServerRead, Req
      <4>2. OneResp(down', r)
        BY <2>1, <2>3, <4>1, AppendResp
      <4> QED
        BY <1>0, <1>1, <2>2, <2>3, <3>1, <3>3, <4>1, <4>2 DEF Props, Stage
    <3> QED
      BY <3>2, <3>3
  <2>4. CASE /\ kind[r] = "install" /\ up = <<Req(r), Bytes(r)>>
             /\ srvInstall = None /\ NoResp(down) /\ copying = None
    <3>1. Head(up) = Req(r) /\ up' = <<Bytes(r)>>
      BY <1>0, <2>4
    <3>2. srvInstall' = r /\ down' = down
      BY <2>4, <3>1 DEF ServerRead, Req
    <3> QED
      BY <1>0, <1>1, <2>2, <2>4, <3>1, <3>2 DEF Props, Stage
  <2>5. CASE /\ kind[r] = "install" /\ srvInstall = r /\ NoResp(down)
             /\ up = <<Bytes(r)>> /\ copying = None
    <3>1. Head(up) = Bytes(r) /\ up' = <<>>
      BY <1>0, <2>5
    <3>0. Head(up).t # "req" /\ Head(up).c = r
      BY <3>1 DEF Bytes
    <3>a. \E err \in BOOLEAN :
               /\ down' = Append(down, [t |-> "resp", c |-> Head(up).c, err |-> err])
               /\ srvInstall' = None
      BY <3>0 DEF ServerRead
    <3>2. PICK err \in BOOLEAN :
               /\ down' = Append(down, [t |-> "resp", c |-> r, err |-> err])
               /\ srvInstall' = None
      BY <3>0, <3>a
    <3>3. OneResp(down', r)
      BY <2>1, <2>5, <3>2, AppendResp
    <3> QED
      BY <1>0, <1>1, <2>2, <2>5, <3>1, <3>2, <3>3 DEF Props, Stage
  <2> QED
    BY <1>0, <2>1, <2>3, <2>4, <2>5 DEF Stage
<1> QED
  BY <1>2, <1>3

\* A Response goes to the stored sender; the one Response on the wire is
\* the answer to the stored sender's own request, so the request method
\* gets its own variant back and the task never breaks with Protocol.
LEMMA ReadResponseR == RInv /\ ReadResponse => Props'
<1> SUFFICES ASSUME RInv, ReadResponse PROVE Props'
  OBVIOUS
<1> DEFINE m == Head(down)
<1>0. /\ phase = "running" /\ down \in Seq(Down) /\ down # <<>>
      /\ m.t = "resp" /\ down' = Tail(down)
      /\ UNCHANGED <<up, copying, connUp, srvInstall, kind>>
  BY DEF ReadResponse, Polling, RInv, TypeOK, srvVars
<1>1. ~NoResp(down)
  BY <1>0 DEF NoResp
<1>r. PICK r \in Callers : r = responseTx
  BY <1>0, <1>1 DEF RInv, TypeOK, Token
<1>2. OneResp(down, r) /\ up = <<>> /\ srvInstall = None /\ copying = None
  BY <1>0, <1>1, <1>r DEF RInv, Token, Stage
<1>3. NoResp(down') /\ m.c = r
  BY <1>0, <1>2, TailLastResp
<1>4. m.err \in BOOLEAN
  BY <1>0 DEF Down
<1>5. /\ responseTx' = None
      /\ answeredBy' = [answeredBy EXCEPT ![r] = m.c]
      /\ result' = [result EXCEPT ![r] = Outcome(r, m.c, m.err)]
      /\ UNCHANGED <<phase, taskResult>>
  BY <1>r, ClientAssumption DEF ReadResponse
<1>6. Token'
  BY <1>0, <1>2, <1>3, <1>5 DEF Token
<1>7. ResponseToItsCaller'
  BY <1>3, <1>5 DEF RInv, TypeOK, ResponseToItsCaller
<1>8. Outcome(r, m.c, m.err) \in {"ok", "api"}
  BY <1>3, <1>4, OutcomeSelf
<1>9. NoProtocolError'
  BY <1>5, <1>8 DEF RInv, TypeOK, NoProtocolError
<1> QED
  BY <1>6, <1>7, <1>9 DEF Props
-----------------------------------------------------------------------------
(* The invariant                                                           *)

LEMMA InitR == Init => RInv
<1> SUFFICES ASSUME Init PROVE RInv
  OBVIOUS
<1>1. Token
  BY DEF Init, Token
<1> QED
  BY <1>1, InitTypeOK, ClientAssumption
     DEF RInv, Init, ResponseToItsCaller, NoProtocolError

LEMMA NextR == RInv /\ [Next]_vars => RInv'
<1> SUFFICES ASSUME RInv, [Next]_vars PROVE RInv'
  OBVIOUS
<1>1. TypeOK'
  BY NextType DEF RInv
<1>4. Props'
  <2>1. CASE \E c \in Callers : Call(c)
    BY <2>1, CallR
  <2>2. CASE UNCHANGED vars
    <3>1. UNCHANGED <<phase, up, down, responseTx, srvInstall, copying, kind,
                      answeredBy, taskResult, result, connUp>>
      BY <2>2 DEF vars, callerVars, srvVars
    <3> QED
      BY <3>1, FrameR
  <2> QED
    BY <2>1, <2>2, ConnectR, QuietR, ReadClosedR, ReadNotificationR,
       ServerNotifyR, ReadRequestR, CopyPackageR, ServerReadR, ReadResponseR
       DEF Next, TaskStep
<1> QED
  BY <1>1, <1>4 DEF RInv, Props

\* The single response_tx slot and the PendingRequest refusal of the task's
\* request branch (api/client.rs) route every Response to the request
\* method that sent the request, for any number of callers and any channel
\* bounds, against a runtime that answers each request once.
THEOREM ResponseRouted == Spec => []ResponseToItsCaller
<1>1. Spec => []RInv
  BY InitR, NextR, PTL DEF Spec
<1> QED
  BY <1>1, PTL DEF RInv

\* The client task never breaks with Err(Protocol) and no request method
\* returns Protocol or reaches its unreachable!(): every Response it reads
\* has a stored sender, and it is the Response to that sender's request.
THEOREM NoProtocolErrors == Spec => []NoProtocolError
<1>1. Spec => []RInv
  BY InitR, NextR, PTL DEF Spec
<1> QED
  BY <1>1, PTL DEF RInv
====
