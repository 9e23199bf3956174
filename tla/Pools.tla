------------------------------- MODULE Pools -------------------------------
(***************************************************************************)
(* The mempool and the evidence pool under the BlockExecutor: a block is   *)
(* validated, executed and committed, and both pools follow the new state. *)
(* Consensus calls the executor from one goroutine; CheckTx, the reaps and *)
(* AddEvidence go on meanwhile.                                            *)
(***************************************************************************)
EXTENDS Mempool, EvidencePool

CONSTANTS
    Configs       \* the configurations and loads to explore; MaxHeight bounds the blocks

VARIABLES
    cache,    \* BlockExecutor.cache: the evidence of the blocks that were validated
    halted    \* consensus stopped on a panic

vars == <<mempoolVars, evidenceVars, cache, halted>>

Init ==
    /\ MempoolInit /\ EvidenceInit
    /\ cfg \in Configs
    /\ valid = Txs
    /\ cache = {} /\ halted = FALSE

-----------------------------------------------------------------------------
\* ValidateBlock of a proposal, for its evidence.
ValidateBlock(evList) ==
    LET checked == CheckEvidence(ep, evList)
    IN  /\ ~halted /\ ep.height < cfg.MaxHeight
        /\ evList \notin cache /\ checked.pool.evidenceSize <= MaxEvidenceSize
        /\ ep' = checked.pool
        /\ cache' = IF checked.ok THEN cache \cup {evList} ELSE cache
        /\ UNCHANGED <<mempoolVars, adders, reported, halted>>

\* Mutant: Commit does not wait for the mempool's lock.
ApplyBlockUnlocked(evList, block, ok, newValid) ==
    LET m == Update(mp, ep.height + 1, block, ok, newValid)
    IN  /\ ~halted /\ ep.height < cfg.MaxHeight
        /\ evList \in cache
        /\ valid' = newValid
        /\ mp' = [m EXCEPT !.panicked = @ \/ mp.panicked]
        /\ IF m.panicked
           THEN halted' = TRUE /\ UNCHANGED <<ep, cache>>
           ELSE /\ ep' = UpdatedPool(ep, ep.height + 1, ToSet(evList))
                /\ cache' = {} /\ UNCHANGED halted
        /\ UNCHANGED <<checkers, reaper, wraps, cfg, adders, reported>>

\* ApplyBlock of a validated block, from Commit on: the application moves to the
\* state in which the transactions newValid pass CheckTx, and the pools follow.
\* A panic of the mempool's Update stops consensus before the evidence pool.
ApplyBlock(evList, block, ok, newValid) ==
    LET m == Update(mp, ep.height + 1, block, ok, newValid)
    IN  /\ ~halted /\ ep.height < cfg.MaxHeight
        /\ evList \in cache
        /\ Unlocked
        /\ valid' = newValid
        /\ mp' = [m EXCEPT !.panicked = @ \/ mp.panicked]
        /\ IF m.panicked
           THEN halted' = TRUE /\ UNCHANGED <<ep, cache>>
           ELSE /\ ep' = UpdatedPool(ep, ep.height + 1, ToSet(evList))
                /\ cache' = {} /\ UNCHANGED halted
        /\ UNCHANGED <<checkers, reaper, wraps, cfg, adders, reported>>

\* The process ends and starts again on the stores, at the height the handshake
\* brings the state to.  It replays a block without the pools, so the evidence
\* of a block that was being applied is not marked as committed.
Restart(height) ==
    /\ \/ height = ep.height /\ UNCHANGED valid
       \/ height = ep.height + 1 /\ cache # {} /\ valid' \in cfg.Valid
    /\ mp' = NewTxMempool
    /\ checkers' = [c \in Checkers |-> Idle] /\ reaper' = NotReaping
    /\ wraps' = [tx \in Txs |-> 0]
    /\ ep' = StartedPool(ep, height)
    /\ adders' = [a \in Adders |-> NotAdding]
    /\ reported' = reported \ ep.consensusBuffer
    /\ cache' = {} /\ halted' = FALSE
    /\ UNCHANGED cfg

Next ==
    \/ /\ MempoolNext
       /\ halted' = (halted \/ (reaper.fell /\ ~reaper'.fell))
       /\ UNCHANGED <<evidenceVars, cache>>
    \/ EvidenceNext(cfg.Adders, cfg.Conflicts) /\ UNCHANGED <<mempoolVars, cache, halted>>
    \/ \E evList \in cfg.Evidence : ValidateBlock(evList)
    \/ \E evList \in cache, b \in cfg.Blocks, newValid \in cfg.Valid :
          \E ok \in {{}, ToSet(b)} : ApplyBlock(evList, b, ok, newValid)
    \/ \E height \in 0 .. cfg.MaxHeight : Restart(height)

Spec == Init /\ [][Next]_vars

-----------------------------------------------------------------------------
\* Every transaction of the mempool passes CheckTx in the application's current
\* state: the lock that Commit holds keeps a transaction that was checked against
\* the old state from slipping in after the recheck.
ValidAtCurrentState ==
    cfg.Recheck /\ ~halted => \A tx \in Txs : mp.hashTxs[tx] # None => tx \in valid

\* Whenever the lock is free, and as long as no call has panicked and no
\* transaction was forgotten by the cache while stored, the store, the priority
\* queue and the gossip list hold the same transactions, sizeBytes is their size,
\* and no sender is blocked by a transaction that is gone, however the calls that
\* share the lock interleave their changes of these.  The expiry lists hold these
\* transactions too, and no others as long as none was evicted before its insertion
\* was over: removeTx then comes to the lists before insertTx does.
\* And the size of the evidence pool, at which PendingEvidence gives up when it is
\* zero, is never below the number of pending evidence, through concurrent
\* additions, commits, expiry and restarts, except by what AddEvidence calls have
\* stored and not counted yet: otherwise a proposer leaves no evidence out.
IndexesAgree ==
    LET store == {mp.hashTxs[tx] : tx \in Txs} \ {None}
    IN  /\ Unlocked /\ ~mp.panicked /\ ~mp.duplicated =>
               /\ store = mp.priorityIndex /\ store = mp.gossipIndex
               /\ store \subseteq mp.heightIndex
               /\ ~mp.overtaken => store = mp.heightIndex
               /\ mp.sizeBytes = BytesOf(store)
               /\ {mp.senderTxs[s] : s \in Senders} \ {None} \subseteq store
        /\ ep.evidenceSize + Cardinality(Uncounted) >= Cardinality(ep.pending)

\* When the lock is free and transactions wait, TxsAvailable has fired for the
\* current height, so consensus that waits for transactions goes on.
TxsAvailableFires == Unlocked /\ ~halted /\ Size(mp) > 0 => mp.fired = mp.height

\* A conflict that consensus reported is, once its height is decided and the
\* buffer flushed, pending or committed evidence until it is too old.
ReportsBecomeEvidence ==
    \A c \in reported \ ep.consensusBuffer :
        \/ proper(c) \in ep.pending \cup ep.committed
        \/ isExpired(ep.height, c)
=============================================================================
