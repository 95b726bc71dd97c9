--------------------------- MODULE MCStateEngine ---------------------------
(* Small instances of StateEngine for TLC.                                 *)
EXTENDS StateEngine

CONSTANTS a1, a2, r1, repo1, repo2

\* a1 mounts the resource r1; a2 mounts none.
MCDeps == [a \in Apps |-> IF a = a1 THEN {r1} ELSE {}]

\* Bulk mounts of one identity, and of a resource followed by an app (the
\* app may be uninstalled, or already mounted or running).
MCMountRequests == {<<c>> : c \in Container} \cup {<<r1, a2>>}

\* Bulk mounts of resources only.
MCResourceMountRequests == {<<r1>>, <<r1, r1>>}

\* A process exits with 137 = 128 + SIGKILL (decoded to Signaled(9)).
MCStatuses == {137}

\* As above, plus exit(-1), reported by waitpid as 255.
MCStatusesWide == {137, 255}
====
