CONSTANTS
    RBranches = {m}
    Tags = {}
    LBranches = {t}
    UpIds = {u}
    LocalIds = {x}
    Fallback = ""
    MaxRunning = 2
SPECIFICATION TSpec
VIEW Live
INVARIANTS
    SkipOnlyUploaded
PROPERTIES
    TopicWorkKept
