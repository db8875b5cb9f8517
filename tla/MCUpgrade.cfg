SPECIFICATION Spec
CONSTANTS
    Upgrades = {p, q}
    Versions <- MCVersions
    Initial <- MCInitial
    Packages <- MCPackages
    OptionSet <- MCOptions
    URLs = 2
    MaxRuns = 2
CHECK_DEADLOCK FALSE
INVARIANTS
    ProgramWhole
PROPERTIES
    NoSilentDowngrade
    InstallsVerified
    UpgradeEnds
