SPECIFICATION Spec
CONSTANTS
    Syncs = {s, t}
    Paths = {1, 2, 3}
    Versions = {1, 2}
    GroupSettings = {"all", "some"}
    Selected <- MCSelected
    HasFile <- MCHasFile
    ProjectName <- MCProjectName
    OptionSet <- MCOptions
    MaxSyncs = 2
SYMMETRY MCSymmetry
CHECK_DEADLOCK FALSE
INVARIANTS
    WorktreeListed
PROPERTIES
    ListWhole
    SuccessMeansSynced
