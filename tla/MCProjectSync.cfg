CONSTANTS
    RBranches = {m}
    Tags = {v}
    LBranches = {t}
    UpIds = {u, w}
    LocalIds = {x}
    Fallback = m
SPECIFICATION LiveSpec
CHECK_DEADLOCK FALSE
PROPERTIES
    BranchWorkKept
    UncommittedKept
    StoppedRebaseKept
    SyncReachesRevision
    SyncConverges
