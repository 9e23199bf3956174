CONSTANTS
    Validators = {"me", "q"}
    Power <- MCFollower
    Blocks = {"b1", "b2", "mix"}
    Nil = Nil
    Peers = {"me", "peer"}
    None = None
    MaxRound = 1
    MaxCatchup = 2
    Me = "me"
    ValidBlocks = {"b1", "b2"}
    Malformed = {}
    BlockTime <- MCBlockTime
    Mixed = "mix"
    ProofHeights = {1}
    Equivocators = {}
    MaxHeight = 2
    Config <- MCLive
SPECIFICATION FairSpec
PROPERTIES
    WaitsEnd
    OwnVotesCounted
CHECK_DEADLOCK FALSE
