SPECIFICATION SignerSpec
CONSTANTS
    Heights = {1}
    Rounds = {0, 1}
    BlockIDs = {b1, b2}
    Timestamps = {t1, t2}
    NoSignBytes = NoSignBytes
    Requests <- MCRequests
    b1 = b1
    b2 = b2
    t1 = t1
    t2 = t2
    retries = 2
    MaxCalls = 2
    MaxPings = 1
    MaxConns = 3
    MaxFaults = 2
INVARIANTS
    NoDoubleSign
    ReleasedIsPersisted
    AnswersMatch
CHECK_DEADLOCK FALSE
