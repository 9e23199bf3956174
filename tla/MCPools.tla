------------------------------ MODULE MCPools ------------------------------
EXTENDS Pools

CONSTANTS t1, t2, t3, s1, c1, c2, d1, d2, l1, a1, a2

MCPriority == (t1 :> 1) @@ (t2 :> 1) @@ (t3 :> 2)
MCBytes    == (t1 :> 1) @@ (t2 :> 2) @@ (t3 :> 2)
MCSender   == (t1 :> s1) @@ (t2 :> None) @@ (t3 :> s1)

MCHeightOf    == (d1 :> 1) @@ (d2 :> 2) @@ (l1 :> 1)
MCBlockTimeOf == <<10, 20, 40, 50>>

\* Loads on the mempool, without evidence: two callers of CheckTx with evictions
\* and rechecks; a caller and a reaper, with a cache that forgets; expiry.
Load(Checking, Reaping, CacheSize, TTL, Recheck, Keep) ==
    [Size |-> 2, MaxTxsBytes |-> 3, CacheSize |-> CacheSize, TTLNumBlocks |-> TTL,
     KeepInvalidTxsInCache |-> Keep, TxNotifyThreshold |-> 1, Recheck |-> Recheck,
     Checkers |-> Checking, Reaps |-> Reaping, Removes |-> ~Reaping, MaxBlockBytes |-> 2,
     Blocks |-> {<<>>, <<t1>>, <<t3, t2>>}, Valid |-> {Txs, {t3}},
     Evidence |-> {<<>>}, Adders |-> {}, Conflicts |-> {}, MaxHeight |-> 3]

\* Loads on the evidence pool, with empty blocks: two callers of AddEvidence; two
\* heights; a light client attack, and evidence with the wrong fields in a block.
EvidenceLoad(Adding, conflicts, Lists) ==
    [Load({}, FALSE, 3, 0, TRUE, FALSE) EXCEPT
        !.Blocks = {<<>>}, !.Valid = {Txs},
        !.Adders = Adding, !.Conflicts = conflicts, !.Evidence = {<<>>} \cup Lists]

MCConfigs ==
    { [Load({c1, c2}, FALSE, 3, 0, TRUE, FALSE) EXCEPT !.MaxHeight = 2],
      [Load({c1}, TRUE, 1, 1, TRUE, TRUE) EXCEPT !.MaxTxsBytes = 4],
      Load({c1}, FALSE, 3, 1, FALSE, FALSE),
      EvidenceLoad({a1, a2}, {d1}, {<<proper(d1)>>}),
      EvidenceLoad({a1}, {d1, d2}, {<<proper(d2), proper(d1)>>}),
      EvidenceLoad({a1}, {d1, l1}, {<<proper(l1)>>, <<[of |-> d1, abci |-> FALSE]>>}) }
=============================================================================
