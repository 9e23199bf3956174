CONSTANTS
    None = None
    p1 = p1
    p2 = p2
    p3 = p3
    s1 = s1
    s2 = s2
    Peers = {p1, p2}
    maxTotalRequesters = 2
    maxPendingRequests = 2
    maxPendingRequestsPerPeer = 2
    maxDiff = 1
    blocksBehindThreshold = 1
    MaxInFlight = 1
    MaxRestarts = 1
    recentSnapshots = 1
    fetchers = 2
    w1 = w1
    w2 = w2
    Workers = {w1, w2}
    maxRetries = 3
    Tip = 4
    LightTip = 6
    pruningSize = 3
    maxProviders = 6
SPECIFICATION MCSpec
INVARIANTS
    AppliedIsQueued
    HistoryIsLinked
    HeightsAreOwned
    TrustedIsVerified
PROPERTY
    FollowsChain
CHECK_DEADLOCK FALSE
