CONSTANTS
  valSetCheckpointInterval = 3
  Nil = Nil
  Chains <- MCChains
  MaxCrashes = 2
  Batch = 1
  Tears = {"body", "checksum"}
SPECIFICATION FairSpec
INVARIANTS HandshakeRecovers HistoryLoadable SignedIsReplayed
PROPERTIES ExecutesInOrder ChainGoesOn
CHECK_DEADLOCK FALSE
