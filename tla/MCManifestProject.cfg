CONSTANTS
    RBranches = {m, n}
    Tags = {}
    LBranches = {d}
    UpIds = {u}
    LocalIds = {x}
    Fallback = ""
    Default = d
    Master = m
SPECIFICATION MSpec
PROPERTIES
    InitTracks
    ManifestWorkKept
