CONSTANTS
    MaxInt64 = 255
    Genesis <- MCGenesis
    Changes <- MCChanges
    MaxUpdates = 3
    MaxQuiet = 2
    MaxRound = 2
SPECIFICATION Spec
INVARIANTS
    PrioritiesAreExact
    FairShare
    PathsAgree
CHECK_DEADLOCK FALSE
