SPECIFICATION Spec
CONSTANTS
    Procs = {p, q}
    ManifestOrder <- MCOrder
    ConfigRemotes = {"second", "third"}
    Review <- MCReview
    Type <- MCType
    HasURL = {"second", "third"}
    ProjectRemote = "origin"
    Servers <- MCServers
    Environments = {"none"}
    Zone = 0
    Expire = 2
    MaxTime = 2
SYMMETRY MCSymmetry
CHECK_DEADLOCK FALSE
INVARIANTS
    RemotesMean
    AnswerFresh
PROPERTIES
    CacheKept
