SPECIFICATION Spec
CONSTANTS
    N = 3
    MaxJobs = 2
    Patterns <- MCPatterns
    Arguments = {{1, 2}}
    Missing = {{}, {1}}
    Worktrees <- MCWorktrees
    MaxFaults = 1
    MaxEdits = 1
CHECK_DEADLOCK FALSE
INVARIANTS
    RunOnce
    StatusMeans
PROPERTIES
    Returns
