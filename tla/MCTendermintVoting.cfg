SPECIFICATION Spec
CONSTANTS
    Validators = {v1, v2, v3, v4}
    Faulty = {v4}
    Quorums = {{v1, v2, v3}, {v1, v2, v4}, {v1, v3, v4}, {v2, v3, v4}, {v1, v2, v3, v4}}
    Blocks = {b1, b2}
    Rounds = {0, 1}
    Nil = Nil
    NoDecision = NoDecision
SYMMETRY MCSymmetry
\* A height ends when every correct validator has decided or used its votes.
CHECK_DEADLOCK FALSE
INVARIANTS
    Agreement
    CommitBlocksLaterPolkas
