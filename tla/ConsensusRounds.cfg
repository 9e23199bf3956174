CONSTANTS
    Validators = {"me", "q"}
    Power <- MCFollower
    Blocks = {"b1", "b2", "mix", "bad"}
    Nil = Nil
    Peers = {"me", "peer"}
    None = None
    MaxRound = 2
    MaxCatchup = 2
    Me = "me"
    ValidBlocks = {"b1", "b2", "mix"}
    Malformed = {}
    BlockTime <- MCBlockTime
    Mixed = "mix"
    ProofHeights = {1}
    Equivocators = {}
    MaxHeight = 1
    Config <- MCRounds
SPECIFICATION Spec
INVARIANTS
    PrecommitHasPolka
    PrevoteJustified
    LockCoversPrecommits
    NoPanic
PROPERTIES
    VotesInOrder
CHECK_DEADLOCK FALSE
