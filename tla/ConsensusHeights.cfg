CONSTANTS
    Validators = {"me", "p", "q"}
    Power <- MCThree
    Blocks = {"b1", "b2", "mix"}
    Nil = Nil
    Peers = {"me", "peer"}
    None = None
    MaxRound = 1
    MaxCatchup = 2
    Me = "me"
    ValidBlocks = {"b1", "b2"}
    Malformed = {"b2"}
    BlockTime <- MCBlockTime
    Mixed = "mix"
    ProofHeights = {1}
    Equivocators = {"p"}
    MaxHeight = 2
    Config <- MCHeights
SPECIFICATION Spec
INVARIANTS
    CommitHasQuorum
    CommitFetchesBlock
    EvidenceIsExact
CHECK_DEADLOCK FALSE
