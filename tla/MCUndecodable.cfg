CONSTANTS
    a1 = a1
    a2 = a2
    r1 = r1
    repo1 = repo1
    repo2 = repo2
    Apps = {a1}
    Resources = {r1}
    RepositoryId = {repo1}
    Deps <- MCDeps
    MountRequests <- MCResourceMountRequests
    Statuses <- MCStatusesWide
    MaxPid = 2
    MaxMounts = 2
    NoPid = 0

SPECIFICATION Spec
INVARIANT TrackedExitNoticed
CHECK_DEADLOCK FALSE
