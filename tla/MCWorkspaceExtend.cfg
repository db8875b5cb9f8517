SPECIFICATION Spec
CONSTANTS
    Alphabet <- MCAlphabet
    MaxDepth = 2
    Disks <- MCDisks
    Content <- MCContent
    Main <- MCMain
    Locals <- MCLocals
    Groups <- MCGroups
    ArgLists <- MCArgLists
    Immutable = {"tag", "commit"}
    Missing <- MCMissing
CHECK_DEADLOCK FALSE
INVARIANTS
    ExtendsAllOfName
