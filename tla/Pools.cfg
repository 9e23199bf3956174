SPECIFICATION Spec
CONSTANTS
    t1 = t1  t2 = t2  t3 = t3  s1 = s1  c1 = c1  c2 = c2
    d1 = d1  d2 = d2  l1 = l1  a1 = a1  a2 = a2
    None = None
    Txs = {t1, t2, t3}
    Priority <- MCPriority
    Bytes <- MCBytes
    Sender <- MCSender
    Checkers = {c1, c2}
    MaxWraps = 2
    Conflicts = {d1, d2, l1}
    LightAttacks = {l1}
    HeightOf <- MCHeightOf
    BlockTimeOf <- MCBlockTimeOf
    MaxAgeNumBlocks = 1
    MaxAgeDuration = 15
    Adders = {a1, a2}
    MaxEvidenceSize = 4
    Configs <- MCConfigs
INVARIANTS
    ValidAtCurrentState
    IndexesAgree
    TxsAvailableFires
    ReportsBecomeEvidence
