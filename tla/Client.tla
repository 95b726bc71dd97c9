------------------------------- MODULE Client -------------------------------
(***************************************************************************)
(* The northstar API client (src/northstar/src/api/client.rs).             *)
(*                                                                         *)
(* Client::new connects, runs the connect handshake and spawns one task    *)
(* that owns the connection. The task loops on a select! between the      *)
(* connection's inbound frames and the request channel fed by             *)
(* Client::request (and Client::install). It holds at most one pending    *)
(* oneshot sender, response_tx: a request that arrives while one is       *)
(* pending is refused with PendingRequest, otherwise it is written to the *)
(* connection and its sender stored until the next Response frame. Inbound *)
(* notifications are forwarded into a bounded channel that the owner of   *)
(* the Client drains through its Stream impl. When the task's loop breaks, *)
(* every sender it holds is dropped and each waiting caller gets Stopped.  *)
(*                                                                         *)
(* Callers are tasks sharing the Client by reference (request takes       *)
(* &self). The runtime's side of the connection is modelled from the wire *)
(* protocol of the specification: it answers every request with exactly   *)
(* one Response, in order, reads an install's bytes after its header, and  *)
(* sends notifications at any time.                                        *)
(*                                                                         *)
(* A Response frame carries, as a ghost field, the caller whose request it *)
(* answers; the code has no such field, which is why routing matters.      *)
(***************************************************************************)
EXTENDS Naturals, Sequences

CONSTANTS
    Callers,        \* tasks that call request methods on a shared Client
    Kinds,          \* request kinds a caller may send
    RequestCap,     \* bound: capacity of the request channel (10)
    NotifCap,       \* bound: capacity of the notification channel (1000)
    MaxNotif,       \* bound: notifications the runtime sends
    None            \* "no caller"

ASSUME ClientAssumption ==
    /\ None \notin Callers
    /\ Kinds \subseteq {"containers", "start", "mount", "install"}
    /\ RequestCap \in Nat \ {0}
    /\ NotifCap \in Nat \ {0}
    /\ MaxNotif \in Nat

\* The Response variant the runtime answers a successful request with.
Variant(k) == CASE k = "containers" -> "Containers"
                [] k = "mount"      -> "Mount"
                [] OTHER            -> "Ok"

\* Results a caller's request method returns.
Outcomes == {"ok", "api", "protocol", "panic", "pending", "io", "stopped"}

\* Frames on the wire. "req" for an install is its header; "bytes" are the
\* package bytes io::copy writes after it.
Up   == [t : {"req"}, c : Callers] \cup [t : {"bytes"}, c : Callers]
Down == [t : {"resp"}, c : Callers, err : BOOLEAN] \cup [t : {"notif"}]

VARIABLES
    phase,      \* "connecting" | "running" | "ended" | "failed"
    reqq,       \* the request channel: callers in the order they sent
    responseTx, \* the caller whose oneshot sender is stored, or None
    copying,    \* the installing caller while the task is in io::copy, or None
    held,       \* the task is awaiting notification_tx.send
    nq,         \* notifications in the notification channel
    up,         \* frames written by the client, not yet read by the runtime
    down,       \* frames written by the runtime, not yet read by the client
    connUp,     \* the connection has not failed
    srvInstall, \* the caller whose install bytes the runtime waits for
    sent,       \* notifications the runtime has sent
    caller,     \* caller state: "idle" | "busy" | "done"
    kind,       \* the kind of each caller's request
    result,     \* what each caller's method returned
    answeredBy, \* ghost: whose request the Response a caller got answered
    taskResult  \* what the spawned task's loop broke with

vars == <<phase, reqq, responseTx, copying, held, nq, up, down, connUp,
          srvInstall, sent, caller, kind, result, answeredBy, taskResult>>
callerVars == <<caller, kind, result, answeredBy, taskResult>>
srvVars == <<srvInstall, sent>>

TypeOK ==
    /\ phase \in {"connecting", "running", "ended", "failed"}
    /\ reqq \in Seq(Callers) /\ Len(reqq) <= RequestCap
    /\ responseTx \in Callers \cup {None}
    /\ copying \in Callers \cup {None} /\ held \in BOOLEAN
    /\ nq \in 0..NotifCap
    /\ up \in Seq(Up) /\ down \in Seq(Down)
    /\ connUp \in BOOLEAN
    /\ srvInstall \in Callers \cup {None}
    /\ sent \in 0..MaxNotif
    /\ caller \in [Callers -> {"idle", "busy", "done"}]
    /\ kind \in [Callers -> Kinds]
    /\ result \in [Callers -> Outcomes \cup {"none"}]
    /\ answeredBy \in [Callers -> Callers \cup {None}]
    /\ taskResult \in {"none", "ok", "io", "protocol", "panic"}

Init ==
    /\ phase = "connecting"
    /\ reqq = <<>> /\ responseTx = None
    /\ copying = None /\ held = FALSE /\ nq = 0
    /\ up = <<>> /\ down = <<>> /\ connUp = TRUE
    /\ srvInstall = None /\ sent = 0
    /\ caller = [c \in Callers |-> "idle"]
    /\ kind \in [Callers -> Kinds]
    /\ result = [c \in Callers |-> "none"]
    /\ answeredBy = [c \in Callers |-> None]
    /\ taskResult = "none"

(***************************************************************************)
(* Client::new / Client::connect: send Connect and wait, under a timeout,  *)
(* for ConnectAck. Any other frame, a closed connection, a read error or a *)
(* timeout make new return an error and no task is spawned.                *)
(***************************************************************************)
Connect ==
    /\ phase = "connecting"
    /\ \E ack \in BOOLEAN : phase' = IF ack THEN "running" ELSE "failed"
    /\ UNCHANGED <<reqq, responseTx, copying, held, nq, up, down, connUp,
                   srvVars, callerVars>>

(***************************************************************************)
(* Client::request / Client::install, first half: send the request and its *)
(* oneshot sender on the request channel. The send awaits while the        *)
(* channel is full, and fails with Stopped once the task has ended.        *)
(***************************************************************************)
\* Mutant: the request channel's capacity is not respected.
CallUnbounded(c) ==
    /\ caller[c] = "idle"
    /\ phase \in {"running", "ended"}
    /\ IF phase = "ended"
         THEN /\ caller' = [caller EXCEPT ![c] = "done"]
              /\ result' = [result EXCEPT ![c] = "stopped"]
              /\ UNCHANGED reqq
         ELSE /\ reqq' = Append(reqq, c)
              /\ caller' = [caller EXCEPT ![c] = "busy"]
              /\ UNCHANGED result
    /\ UNCHANGED <<phase, responseTx, copying, held, nq, up, down, connUp,
                   srvVars, kind, answeredBy, taskResult>>

Call(c) ==
    /\ caller[c] = "idle"
    /\ phase \in {"running", "ended"}
    /\ IF phase = "ended"
         THEN /\ caller' = [caller EXCEPT ![c] = "done"]
              /\ result' = [result EXCEPT ![c] = "stopped"]
              /\ UNCHANGED reqq
         ELSE /\ Len(reqq) < RequestCap
              /\ reqq' = Append(reqq, c)
              /\ caller' = [caller EXCEPT ![c] = "busy"]
              /\ UNCHANGED result
    /\ UNCHANGED <<phase, responseTx, copying, held, nq, up, down, connUp,
                   srvVars, kind, answeredBy, taskResult>>

(***************************************************************************)
(* What the request methods (containers, start, mount, install ...) make   *)
(* of the Response that reaches caller c when it answers the request of    *)
(* caller d: the expected variant is Ok, Err is an Api error, any other    *)
(* variant a Protocol error, and Response::Ok given to mount is            *)
(* unreachable!().                                                         *)
(***************************************************************************)
Outcome(c, d, err) ==
    LET v == IF err THEN "Err" ELSE Variant(kind[d])
    IN  CASE v = "Err"                          -> "api"
          [] v = Variant(kind[c])               -> "ok"
          [] kind[c] = "mount" /\ v = "Ok"      -> "panic"
          [] OTHER                              -> "protocol"

\* The task may take a select! branch: it is running and not inside an await
\* of one of its branches.
Polling == phase = "running" /\ copying = None /\ ~held

\* The loop breaks: the spawned future returns and drops request_rx, the
\* queued senders and response_tx, so every busy caller gets Stopped.
EndTask(why) ==
    /\ phase' = "ended"
    /\ taskResult' = why
    /\ reqq' = <<>>
    /\ responseTx' = None
    /\ caller' = [c \in Callers |-> IF caller[c] = "busy" THEN "done"
                                                          ELSE caller[c]]
    /\ result' = [c \in Callers |-> IF caller[c] = "busy" THEN "stopped"
                                                          ELSE result[c]]

(***************************************************************************)
(* select! branch connection.next(), Payload::Response: hand the response  *)
(* to the stored sender, or break with Protocol when none is stored.       *)
(***************************************************************************)
\* Mutant: the sender is handed the Response but left in response_tx (a
\* borrow in place of take()).
ReadResponseNoTake ==
    /\ Polling
    /\ down # <<>> /\ Head(down).t = "resp"
    /\ down' = Tail(down)
    /\ LET m == Head(down) IN
       IF responseTx # None
         THEN /\ caller' = [caller EXCEPT ![responseTx] = "done"]
              /\ result' = [result EXCEPT ![responseTx] =
                               Outcome(responseTx, m.c, m.err)]
              /\ answeredBy' = [answeredBy EXCEPT ![responseTx] = m.c]
              /\ UNCHANGED <<phase, reqq, taskResult, responseTx>>
         ELSE /\ EndTask("protocol")
              /\ UNCHANGED answeredBy
    /\ UNCHANGED <<copying, held, nq, up, connUp, srvVars, kind>>

ReadResponse ==
    /\ Polling
    /\ down # <<>> /\ Head(down).t = "resp"
    /\ down' = Tail(down)
    /\ LET m == Head(down) IN
       IF responseTx # None
         THEN /\ responseTx' = None
              /\ caller' = [caller EXCEPT ![responseTx] = "done"]
              /\ result' = [result EXCEPT ![responseTx] =
                               Outcome(responseTx, m.c, m.err)]
              /\ answeredBy' = [answeredBy EXCEPT ![responseTx] = m.c]
              /\ UNCHANGED <<phase, reqq, taskResult>>
         ELSE /\ EndTask("protocol")
              /\ UNCHANGED answeredBy
    /\ UNCHANGED <<copying, held, nq, up, connUp, srvVars, kind>>

\* Payload::Notification: the task reads the frame and awaits
\* notification_tx.send.
ReadNotification ==
    /\ Polling
    /\ down # <<>> /\ Head(down).t = "notif"
    /\ down' = Tail(down)
    /\ held' = TRUE
    /\ UNCHANGED <<phase, reqq, responseTx, copying, nq, up, connUp,
                   srvVars, callerVars>>
\* The send completes once the bounded channel has room.
ForwardNotification ==
    /\ phase = "running" /\ held
    /\ nq < NotifCap
    /\ nq' = nq + 1
    /\ held' = FALSE
    /\ UNCHANGED <<phase, reqq, responseTx, copying, up, down, connUp,
                   srvVars, callerVars>>
\* Mutant: a closed connection (None) continues the loop instead of
\* breaking it.
ReadClosedLoops ==
    /\ Polling
    /\ ~connUp
    /\ UNCHANGED vars


\* Some(Err(e)) or None from the connection: break.
ReadClosed ==
    /\ Polling
    /\ ~connUp
    /\ \E why \in {"ok", "io"} : EndTask(why)
    /\ UNCHANGED <<copying, held, nq, up, down, connUp, srvVars, kind,
                   answeredBy>>

(***************************************************************************)
(* select! branch request_rx.recv(): refuse with PendingRequest while a    *)
(* sender is stored; otherwise write the request (an install's header) and *)
(* store the sender on success, or answer Io on a failed write. An install *)
(* first opens the package with .expect("Failed to open") and reads its    *)
(* size with .unwrap(): a failure panics the task, which ends it. After    *)
(* the header an install goes on to io::copy whatever the write did.       *)
(***************************************************************************)
\* Mutant: the sender is not stored after a successful write.
SendRequestNotStored(c) ==
    /\ IF connUp
         THEN /\ up' = Append(up, [t |-> "req", c |-> c])
              /\ UNCHANGED <<responseTx, caller, result>>
         ELSE /\ caller' = [caller EXCEPT ![c] = "done"]
              /\ result' = [result EXCEPT ![c] = "io"]
              /\ UNCHANGED <<responseTx, up>>
    /\ copying' = IF kind[c] = "install" THEN c ELSE None
    /\ UNCHANGED <<phase, taskResult>>

SendRequest(c) ==
    /\ IF connUp
         THEN /\ up' = Append(up, [t |-> "req", c |-> c])
              /\ responseTx' = c
              /\ UNCHANGED <<caller, result>>
         ELSE /\ caller' = [caller EXCEPT ![c] = "done"]
              /\ result' = [result EXCEPT ![c] = "io"]
              /\ UNCHANGED <<responseTx, up>>
    /\ copying' = IF kind[c] = "install" THEN c ELSE None
    /\ UNCHANGED <<phase, taskResult>>

\* Mutant: no PendingRequest check; a second request replaces response_tx
\* and the sender it held is dropped.
ReadRequestNoPendingCheck ==
    /\ Polling
    /\ reqq # <<>>
    /\ LET c == Head(reqq) IN
       \/ /\ reqq' = Tail(reqq)
          /\ connUp
          /\ up' = Append(up, [t |-> "req", c |-> c])
          /\ responseTx' = c
          /\ caller' = [caller EXCEPT ![responseTx] = "done"]
          /\ result' = [result EXCEPT ![responseTx] = "stopped"]
          /\ copying' = IF kind[c] = "install" THEN c ELSE None
          /\ UNCHANGED <<phase, taskResult>>
       \/ /\ responseTx = None
          /\ reqq' = Tail(reqq)
          /\ SendRequest(c)
       \/ /\ responseTx = None /\ kind[c] = "install"
          /\ EndTask("panic")
          /\ UNCHANGED <<up, copying>>
    /\ UNCHANGED <<held, nq, down, connUp, srvVars, kind, answeredBy>>

ReadRequest ==
    /\ Polling
    /\ reqq # <<>>
    /\ LET c == Head(reqq) IN
       \/ /\ responseTx # None
          /\ reqq' = Tail(reqq)
          /\ caller' = [caller EXCEPT ![c] = "done"]
          /\ result' = [result EXCEPT ![c] = "pending"]
          /\ UNCHANGED <<phase, responseTx, up, copying, taskResult>>
       \/ /\ responseTx = None
          /\ reqq' = Tail(reqq)
          /\ SendRequest(c)
       \/ /\ responseTx = None /\ kind[c] = "install"
          /\ EndTask("panic")
          /\ UNCHANGED <<up, copying>>
    /\ UNCHANGED <<held, nq, down, connUp, srvVars, kind, answeredBy>>

(***************************************************************************)
(* io::copy(&mut file, &mut connection).await?: the package bytes follow   *)
(* the header; on a failed connection the `?` ends the task.               *)
(***************************************************************************)
CopyPackage ==
    /\ phase = "running" /\ copying # None
    /\ copying' = None
    /\ IF connUp
         THEN /\ up' = Append(up, [t |-> "bytes", c |-> copying])
              /\ UNCHANGED <<phase, reqq, responseTx, caller, result, taskResult>>
         ELSE /\ EndTask("io")
              /\ UNCHANGED up
    /\ UNCHANGED <<held, nq, down, connUp, srvVars, kind, answeredBy>>

(***************************************************************************)
(* The Stream impl: the owner polls notification_rx. It needs the Client   *)
(* mutably, so it cannot while a request method borrows it.                *)
(***************************************************************************)
PollNext ==
    /\ nq > 0
    /\ \A c \in Callers : caller[c] # "busy"
    /\ nq' = nq - 1
    /\ UNCHANGED <<phase, reqq, responseTx, copying, held, up, down, connUp,
                   srvVars, callerVars>>

(***************************************************************************)
(* The runtime's session (wire protocol): one Response per request, after  *)
(* the install bytes for an install; notifications at any time; and the    *)
(* connection may fail.                                                    *)
(***************************************************************************)
ServerRead ==
    /\ connUp /\ up # <<>>
    /\ up' = Tail(up)
    /\ LET m == Head(up) IN
       IF m.t = "req" /\ kind[m.c] = "install"
         THEN /\ srvInstall' = m.c
              /\ UNCHANGED down
         ELSE /\ \E err \in BOOLEAN :
                   down' = Append(down, [t |-> "resp", c |-> m.c, err |-> err])
              /\ srvInstall' = None
    /\ UNCHANGED <<phase, reqq, responseTx, copying, held, nq, connUp, sent,
                   callerVars>>

ServerNotify ==
    /\ connUp /\ phase = "running"
    /\ sent < MaxNotif
    /\ sent' = sent + 1
    /\ down' = Append(down, [t |-> "notif"])
    /\ UNCHANGED <<phase, reqq, responseTx, copying, held, nq, up, connUp,
                   srvInstall, callerVars>>

ConnectionFails ==
    /\ connUp /\ phase = "running"
    /\ connUp' = FALSE
    /\ UNCHANGED <<phase, reqq, responseTx, copying, held, nq, up, down,
                   srvVars, callerVars>>

TaskStep == ReadResponse \/ ReadNotification \/ ForwardNotification
              \/ ReadClosed \/ ReadRequest \/ CopyPackage

Next ==
    \/ Connect
    \/ \E c \in Callers : Call(c)
    \/ TaskStep
    \/ PollNext
    \/ ServerRead \/ ServerNotify \/ ConnectionFails

\* The spawned task and the runtime's session are scheduled by tokio and
\* make progress whenever they can; callers, the owner and failures may not.
Spec == Init /\ [][Next]_vars /\ WF_vars(Connect) /\ WF_vars(TaskStep)
          /\ WF_vars(ServerRead)

-----------------------------------------------------------------------------
(***************************************************************************)
(* Properties.                                                             *)
(***************************************************************************)

\* Every caller that a Response reached got the Response to its own request:
\* the single response_tx slot and the PendingRequest refusal keep the
\* answers of concurrent callers of request() from being crossed.
ResponseToItsCaller ==
    \A c \in Callers : answeredBy[c] # None => answeredBy[c] = c

\* Against a runtime that answers each request once, the client never takes
\* a Response for unsolicited (the task's break Err(Protocol)) and no request
\* method returns Protocol or reaches unreachable!().
NoProtocolError ==
    /\ taskResult # "protocol"
    /\ \A c \in Callers : result[c] \notin {"protocol", "panic"}

\* The client implements the one-outstanding-request service of the spec:
\* the task's response_tx slot is the outstanding request, PendingRequest is
\* returned only while another caller's request is outstanding, a Response
\* is taken (take()) by the one outstanding caller, and a broken loop
\* stops every waiting caller.
Svc == INSTANCE RequestService WITH inflight <- responseTx
Service == Svc!Spec

\* A caller whose request is in flight eventually gets a result.
RequestEventuallyAnswered ==
    \A c \in Callers : caller[c] = "busy" ~> caller[c] = "done"

=============================================================================
