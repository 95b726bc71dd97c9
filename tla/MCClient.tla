------------------------------ MODULE MCClient ------------------------------
(***************************************************************************)
(* Small instances of the API client for TLC: two callers sharing one      *)
(* Client, request kinds whose Response variants differ (containers,       *)
(* mount) or coincide (start, install).                                    *)
(***************************************************************************)
EXTENDS Client

CONSTANTS c1, c2

MCKinds == {"containers", "start", "mount", "install"}

=============================================================================
