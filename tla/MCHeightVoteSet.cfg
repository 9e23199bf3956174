CONSTANTS
    Validators = {"a", "b", "c"}
    Power <- MCPower
    Blocks = {b1, b2}
    Nil = Nil
    Peers = {p, q}
    None = None
    MaxRound = 5
    MaxCatchup = 2
    Inputs <- MCInputs
SPECIFICATION Spec
INVARIANTS
    MajorityIsProvable
    MemoryIsBounded
    VotesCount
SYMMETRY MCSymmetry
