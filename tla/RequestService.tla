--------------------------- MODULE RequestService ---------------------------
(***************************************************************************)
(* What a Client promises the tasks that call its request methods (spec   *)
(* section on the API: "Pipelining is forbidden: at most one outstanding  *)
(* request per connection. A second request arriving before the first    *)
(* completes yields PendingRequest.").                                     *)
(*                                                                         *)
(* Each caller submits one request and its method returns once. At most   *)
(* one request is outstanding; a request is refused with PendingRequest   *)
(* only while another one is; only the outstanding request is answered,   *)
(* and its caller gets Ok or an Api error, never a Response meant for      *)
(* someone else. When the connection ends every waiting caller returns    *)
(* Stopped.                                                                *)
(***************************************************************************)
CONSTANTS Callers, None

VARIABLES
    phase,      \* "connecting" | "running" | "ended" | "failed"
    caller,     \* caller -> "idle" | "busy" | "done"
    result,     \* caller -> what its request method returned, or "none"
    inflight    \* the caller whose request is outstanding, or None

vars == <<phase, caller, result, inflight>>

Init ==
    /\ phase = "connecting"
    /\ caller = [c \in Callers |-> "idle"]
    /\ result = [c \in Callers |-> "none"]
    /\ inflight = None

\* The request method of c returns r.
Finish(c, r) ==
    /\ caller' = [caller EXCEPT ![c] = "done"]
    /\ result' = [result EXCEPT ![c] = r]

\* The connect handshake succeeds or fails.
Open ==
    /\ phase = "connecting"
    /\ phase' \in {"running", "failed"}
    /\ UNCHANGED <<caller, result, inflight>>

\* A request method hands its request over, or finds the connection closed.
Submit(c) ==
    /\ caller[c] = "idle"
    /\ phase \in {"running", "ended"}
    /\ IF phase = "ended"
         THEN Finish(c, "stopped")
         ELSE /\ caller' = [caller EXCEPT ![c] = "busy"]
              /\ UNCHANGED result
    /\ UNCHANGED <<phase, inflight>>

\* A request arriving while another is outstanding is refused.
Refuse(c) ==
    /\ phase = "running" /\ caller[c] = "busy"
    /\ inflight \notin {None, c}
    /\ Finish(c, "pending")
    /\ UNCHANGED <<phase, inflight>>

\* With none outstanding a request goes out and is the outstanding one, or
\* writing it fails.
Issue(c) ==
    /\ phase = "running" /\ caller[c] = "busy"
    /\ inflight = None
    /\ \/ /\ inflight' = c
          /\ UNCHANGED <<caller, result>>
       \/ /\ Finish(c, "io")
          /\ UNCHANGED inflight
    /\ UNCHANGED phase

\* The outstanding request is answered, and its caller returns Ok or Err.
Answer ==
    /\ phase = "running" /\ inflight # None
    /\ \E r \in {"ok", "api"} : Finish(inflight, r)
    /\ inflight' = None
    /\ UNCHANGED phase

\* The connection ends; every waiting caller returns Stopped.
Close ==
    /\ phase = "running"
    /\ phase' = "ended"
    /\ inflight' = None
    /\ caller' = [c \in Callers |-> IF caller[c] = "busy" THEN "done" ELSE caller[c]]
    /\ result' = [c \in Callers |-> IF caller[c] = "busy" THEN "stopped" ELSE result[c]]

Next ==
    \/ Open
    \/ \E c \in Callers : Submit(c) \/ Refuse(c) \/ Issue(c)
    \/ Answer
    \/ Close

Spec == Init /\ [][Next]_vars

=============================================================================
