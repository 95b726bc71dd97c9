-------------------------- MODULE ProcessLifecycle --------------------------
(***************************************************************************)
(* What a launcher handle promises (spec section 4.3, "State machine" and  *)
(* "Contract"): create, then start, then stop or the exit of the process,  *)
(* after which the handle is Stopped for good.  The process ends exactly   *)
(* once, with some exit status, and stop() reports that status and no     *)
(* other.                                                                  *)
(***************************************************************************)
CONSTANTS Statuses, None

VARIABLES life, ended, reported

vars == <<life, ended, reported>>

Init ==
    /\ life = "none"
    /\ ended = None
    /\ reported = None

Create ==
    /\ life = "none"
    /\ life' = "created"
    /\ UNCHANGED <<ended, reported>>

Start ==
    /\ life = "created"
    /\ life' = "started"
    /\ UNCHANGED <<ended, reported>>

\* The process terminates, with status s, while the handle is alive.
End(s) ==
    /\ life \in {"created", "started"}
    /\ ended = None
    /\ ended' = s
    /\ UNCHANGED <<life, reported>>

\* stop() returns only once the process has ended, with its status.
Stop ==
    /\ life \in {"created", "started"}
    /\ ended # None
    /\ life' = "stopped"
    /\ reported' = ended
    /\ UNCHANGED ended

\* The exit of a started process retires the handle without a stop().
Retire ==
    /\ life = "started"
    /\ ended # None
    /\ life' = "stopped"
    /\ UNCHANGED <<ended, reported>>

Next == Create \/ Start \/ (\E s \in Statuses : End(s)) \/ Stop \/ Retire

Spec == Init /\ [][Next]_vars

==============================================================================
