----------------------------- MODULE MCLauncher -----------------------------
(***************************************************************************)
(* Small instances of the launcher for TLC.  The program exits with 0 or  *)
(* with 200, a code above the signal offset that names no signal (the     *)
(* wait task's decode panics on it); MCCleanCodes leaves that case out.   *)
(* SIGKILL and SIGTERM are the signals, and the engine's queue has room   *)
(* for one event, which one other producer may take.                      *)
(***************************************************************************)
EXTENDS Launcher

MCAppCodes == {0, 200}
MCCleanCodes == {0, 1}
MCSignals == {SIGKILL, SIGTERM}

==============================================================================
