----------------------------- MODULE BlockSync -----------------------------
(***************************************************************************)
(* The block pool and the block sync reactor: one requester per height     *)
(* fetches a block from a peer, the pool routine verifies the lowest block *)
(* with the commit in the one above, executes it, and hands over to        *)
(* consensus when it has caught up. Requesters, timers, incoming messages, *)
(* peer updates and the pool routine are goroutines of their own; a step   *)
(* here is what one of them does under the lock of the pool or of a        *)
(* requester.                                                              *)
(***************************************************************************)
EXTENDS Integers, FiniteSets, FiniteSetsExt

CONSTANTS
    None,                       \* no peer, no block
    Peers,
    maxTotalRequesters,
    maxPendingRequests,
    maxPendingRequestsPerPeer,
    maxDiff,                    \* maxDiffBetweenCurrentAndReceivedBlockHeight
    blocksBehindThreshold,
    MaxInFlight,                \* bound: unanswered requests to a peer for a height
    MaxRestarts                 \* bound: restarts because the node is behind

VARIABLES
    load,        \* the chain, the peers and the start of this execution
    pool,        \* BlockPool: height, maxPeerHeight, numPending; running
    requesters,  \* BlockPool.requesters
    peers,       \* BlockPool.peers
    inFlight,    \* requests that were sent and are not answered
    up,          \* the peers connected, as the peer updates say
    turmoil,     \* bound: timeouts, connections and status rounds still to come
    status,      \* peers whose status message is on its way
    errored,     \* peers reported to the router, which disconnects them
    sync,        \* the pool routine: where it is, what it peeked, the state it reached
    idle         \* no block was executed for syncTimeout

bsVars == <<load, pool, requesters, peers, inFlight, up, turmoil, status, errored, sync, idle>>

\* A block is the one of the chain or another one; its LastCommit verifies the
\* block of the chain below it, or does not. The hash of a block covers its commit.
Good   == [id |-> "chain", commit |-> TRUE]
Blocks == {Good, [id |-> "other", commit |-> TRUE], [id |-> "other", commit |-> FALSE]}

\* A map with one more entry
With(f, i, x) == [j \in DOMAIN f \cup {i} |-> IF j = i THEN x ELSE f[j]]

NewRequester == [pc |-> "pick", picked |-> None, peerID |-> None, block |-> None, redo |-> None]

NewPeer(base, height) ==
    [base |-> base, height |-> height, numPending |-> 0, didTimeout |-> FALSE, timer |-> "nil"]

StartPool(height) ==
    [height |-> height, maxPeerHeight |-> 0, numPending |-> 0, running |-> TRUE]

BlockSyncInit ==
    /\ requesters = <<>> /\ peers = <<>>
    /\ inFlight = [r \in {} |-> 0]
    /\ up = load.up /\ status = load.up /\ errored = {} /\ turmoil = load.turmoil
    /\ idle = FALSE

-----------------------------------------------------------------------------
(* Operations under the lock of the pool, on [pool, requesters, peers].     *)

S == [pool |-> pool, requesters |-> requesters, peers |-> peers]

\* removePeer of some peers: every requester of them is told, unless it has an unread
\* redo, and when the best of them go, the best of the others counts.
removePeers(s, ps) ==
    LET left == [q \in DOMAIN s.peers \ ps |-> s.peers[q]]
    IN  [s EXCEPT
           !.requesters = [h \in DOMAIN s.requesters |->
                IF s.requesters[h].peerID \in ps /\ s.requesters[h].redo = None
                THEN [s.requesters[h] EXCEPT !.redo = s.requesters[h].peerID] ELSE s.requesters[h]],
           !.peers = left,
           !.pool.maxPeerHeight =
                IF \E p \in ps \cap DOMAIN s.peers : s.peers[p].height = @
                THEN Max({left[q].height : q \in DOMAIN left} \cup {0}) ELSE @]

removePeer(s, p) == removePeers(s, {p})

\* incrPending arms the timer and the monitor of a peer without requests.
incrPending(peer) ==
    [peer EXCEPT !.numPending = @ + 1, !.timer = IF peer.numPending = 0 THEN "armed" ELSE @]

\* decrPending; with requests left it feeds the monitor, which is nil when the peer
\* was removed and added again after the request: the handler recovers the panic.
decrPending(peer) ==
    LET n == peer.numPending - 1
    IN  [peer EXCEPT !.numPending = n,
                     !.timer = IF n = 0 THEN "stopped" ELSE IF @ = "nil" THEN @ ELSE "armed"]

monitorIsNil(peer) == peer.timer = "nil" /\ peer.numPending # 1

Set(s) ==
    /\ pool' = s.pool /\ requesters' = s.requesters /\ peers' = s.peers

Sending(h, p) ==
    inFlight' = [r \in DOMAIN inFlight \cup {<<h, p>>} |->
                    IF r \in DOMAIN inFlight THEN inFlight[r] + (IF r = <<h, p>> THEN 1 ELSE 0)
                    ELSE 1]

CanSend(h, p) == <<h, p>> \in DOMAIN inFlight => inFlight[<<h, p>>] < MaxInFlight

Answered(h, p) ==
    inFlight' = IF inFlight[<<h, p>>] = 1
                THEN [r \in DOMAIN inFlight \ {<<h, p>>} |-> inFlight[r]]
                ELSE [inFlight EXCEPT ![<<h, p>>] = @ - 1]

Turmoil(n) == turmoil' = turmoil - n /\ turmoil' >= 0

sendError(ps) == errored' = IF pool.running THEN errored \cup (ps \cap up) ELSE errored

-----------------------------------------------------------------------------
(* makeRequestersRoutine                                                    *)

Saturated ==
    \/ pool.numPending >= maxPendingRequests
    \/ Cardinality(DOMAIN requesters) >= maxTotalRequesters

makeNextRequester ==
    LET nextHeight == pool.height + Cardinality(DOMAIN requesters)
    IN  /\ pool.running /\ ~Saturated
        /\ nextHeight <= pool.maxPeerHeight
        /\ requesters' = With(requesters, nextHeight, NewRequester)
        /\ pool' = [pool EXCEPT !.numPending = @ + 1]
        /\ UNCHANGED <<load, peers, inFlight, up, turmoil, status, errored, sync, idle>>

\* removeTimedoutPeers, when the pool is full: slow peers are reported and removed,
\* and so are those whose timer has fired.
removeTimedoutPeers(slow) ==
    LET timedout == {p \in DOMAIN peers : peers[p].didTimeout}
    IN  /\ pool.running /\ Saturated
        /\ \A p \in slow : ~peers[p].didTimeout /\ peers[p].numPending > 0
        /\ slow \cup timedout # {}
        /\ Set(removePeers(S, slow \cup timedout))
        /\ sendError(slow)
        /\ Turmoil(Cardinality(slow))
        /\ UNCHANGED <<load, inFlight, up, status, sync, idle>>

-----------------------------------------------------------------------------
(* requestRoutine of the requester of height h                              *)

Serves(p, h) ==
    /\ ~peers[p].didTimeout
    /\ peers[p].numPending < maxPendingRequestsPerPeer
    /\ peers[p].base <= h /\ h <= peers[p].height

\* pickIncrAvailablePeer goes through the peers by score, any order here, and
\* removes those it meets that timed out. The list of connected peers that it also
\* computes is not used.
pickIncrAvailablePeer(h, p, met) ==
    LET s == removePeers(S, met)
    IN  /\ pool.running
        /\ requesters[h].pc = "pick"
        /\ \A q \in met : peers[q].didTimeout
        /\ IF p = None
           THEN /\ met = {q \in DOMAIN peers : peers[q].didTimeout} /\ met # {}
                /\ \A q \in DOMAIN peers : ~Serves(q, h)
                /\ Set(s)
           ELSE /\ p \in DOMAIN peers /\ Serves(p, h)
                /\ Set([s EXCEPT !.peers[p] = incrPending(@),
                                 !.requesters[h].pc = "picked", !.requesters[h].picked = p])
        /\ UNCHANGED <<load, inFlight, up, turmoil, status, errored, sync, idle>>

\* The requester notes its peer, no longer under the lock of the pool, and sends.
SendRequest(h) ==
    LET p == requesters[h].picked
    IN  /\ pool.running
        /\ requesters[h].pc = "picked" /\ CanSend(h, p)
        /\ requesters' = [requesters EXCEPT ![h].pc = "wait", ![h].picked = None, ![h].peerID = p]
        /\ Sending(h, p)
        /\ UNCHANGED <<load, pool, peers, up, turmoil, status, errored, sync, idle>>

\* It reads a redo. One for another peer than its own is an old one.
ReadRedo(h) ==
    /\ pool.running
    /\ requesters[h].pc = "wait" /\ requesters[h].redo # None
    /\ requesters' = [requesters EXCEPT
            ![h].redo = None, ![h].pc = IF requesters[h].redo = requesters[h].peerID THEN "redo" ELSE @]
    /\ UNCHANGED <<load, pool, peers, inFlight, up, turmoil, status, errored, sync, idle>>

\* reset
Reset(h) ==
    /\ requesters[h].pc = "redo"
    /\ requesters' = [requesters EXCEPT ![h] = [NewRequester EXCEPT !.redo = requesters[h].redo]]
    /\ pool' = [pool EXCEPT !.numPending = @ + (IF requesters[h].block # None THEN 1 ELSE 0)]
    /\ UNCHANGED <<load, peers, inFlight, up, turmoil, status, errored, sync, idle>>

\* onTimeout of a peer
onTimeout(p) ==
    /\ peers[p].timer = "armed"
    /\ peers' = [peers EXCEPT ![p].didTimeout = TRUE, ![p].timer = "stopped"]
    /\ sendError({p})
    /\ Turmoil(1)
    /\ UNCHANGED <<load, pool, requesters, inFlight, up, status, sync, idle>>

-----------------------------------------------------------------------------
(* handleMessage: what a peer sends                                         *)

\* The answer to a request, of a peer that may be gone by now.
AddBlock(h, p, block) ==
    LET r       == requesters[h]
        setBlock == h \in DOMAIN requesters /\ r.block = None /\ r.peerID = p
        far     == h - pool.height > maxDiff \/ pool.height - h > maxDiff
    IN  /\ <<h, p>> \in DOMAIN inFlight
        /\ block = Good \/ p \in load.faulty
        /\ Answered(h, p)
        /\ IF setBlock
           THEN /\ requesters' = [requesters EXCEPT ![h].block = block]
                /\ pool' = [pool EXCEPT !.numPending = @ - 1]
                /\ peers' = IF p \in DOMAIN peers
                            THEN [peers EXCEPT ![p] = decrPending(@)] ELSE peers
                /\ errored' = IF p \in DOMAIN peers /\ monitorIsNil(peers[p])
                              THEN errored \cup ({p} \cap up) ELSE errored
           ELSE /\ UNCHANGED <<pool, requesters, peers>>
                /\ IF h \in DOMAIN requesters \/ far THEN sendError({p}) ELSE UNCHANGED errored
        /\ UNCHANGED <<load, up, turmoil, status, sync, idle>>

\* A NoBlockResponse, or no answer at all.
NoBlockResponse(h, p) ==
    /\ <<h, p>> \in DOMAIN inFlight
    /\ p \in load.faulty \/ p \notin up
    /\ Answered(h, p)
    /\ UNCHANGED <<load, pool, requesters, peers, up, turmoil, status, errored, sync, idle>>

\* A StatusResponse
SetPeerRange(p, base, height) ==
    /\ p \in status
    /\ <<base, height>> \in load.ranges[p]
    /\ status' = status \ {p}
    /\ peers' = IF p \in DOMAIN peers
                THEN [peers EXCEPT ![p].base = base, ![p].height = height]
                ELSE With(peers, p, NewPeer(base, height))
    /\ pool' = [pool EXCEPT !.maxPeerHeight = IF height > @ THEN height ELSE @]
    /\ UNCHANGED <<load, requesters, inFlight, up, turmoil, errored, sync, idle>>

-----------------------------------------------------------------------------
(* processPeerUpdate, and the router it gets its updates from (external)    *)

\* A peer sends its status when it connects.
PeerUp(p) ==
    /\ p \notin up /\ Turmoil(1)
    /\ up' = up \cup {p}
    /\ status' = status \cup {p}
    /\ UNCHANGED <<load, pool, requesters, peers, inFlight, errored, sync, idle>>

\* The router disconnects a peer it got an error for; a peer may also leave.
PeerDown(p) ==
    /\ p \in up
    /\ up' = up \ {p} /\ errored' = errored \ {p}
    /\ Set(removePeer(S, p))
    /\ Turmoil(IF p \in errored THEN 0 ELSE 1)
    /\ UNCHANGED <<load, inFlight, status, sync, idle>>

\* requestRoutine of the reactor asks all peers for their status from time to time.
StatusRequest ==
    /\ sync.pc # "off" /\ ~(up \subseteq status)
    /\ status' = status \cup up
    /\ Turmoil(1)
    /\ UNCHANGED <<load, pool, requesters, peers, inFlight, up, errored, sync, idle>>

-----------------------------------------------------------------------------
(* poolRoutine                                                              *)

\* PeekTwoBlocks
PeekTwoBlocks ==
    LET At(h) == IF h \in DOMAIN requesters THEN requesters[h].block ELSE None
    IN  /\ sync.pc = "loop"
        /\ At(pool.height) # None /\ At(pool.height + 1) # None
        /\ sync' = [sync EXCEPT !.pc = "peeked", !.first = At(pool.height),
                                !.second = At(pool.height + 1)]
        /\ UNCHANGED <<load, pool, requesters, peers, inFlight, up, turmoil, status, errored, idle>>

\* Mutant: the commit is verified, but not that it is for this block.
VerifiedAnyBlock(first, second) == second.commit

\* VerifyCommitLight and ValidateBlock of the first block
Verified(first, second) == first.id = "chain" /\ second.commit

\* The first block is popped, saved and applied. The requester of the height may
\* have read a redo, or be about to: it still resets, for the last time. One that
\* has picked a peer still sends its request.
PopRequest ==
    LET r == requesters[pool.height]
        resets == r.block # None
                  /\ (r.pc = "redo" \/ (r.pc = "wait" /\ r.redo = r.peerID))
    IN  /\ sync.pc = "peeked" /\ Verified(sync.first, sync.second)
        /\ requesters' = [h \in DOMAIN requesters \ {pool.height} |-> requesters[h]]
        /\ pool' = [pool EXCEPT !.height = @ + 1, !.numPending = @ + (IF resets THEN 1 ELSE 0)]
        /\ IF r.pc = "picked" /\ CanSend(pool.height, r.picked)
           THEN Sending(pool.height, r.picked) ELSE UNCHANGED inFlight
        /\ idle' = FALSE
        /\ sync' = [sync EXCEPT !.pc = "loop", !.first = None, !.second = None,
                !.height = @ + 1, !.sound = @ /\ sync.first = Good]
        /\ UNCHANGED <<load, peers, up, turmoil, status, errored>>

\* RedoRequest of the first block, then of the second: whoever the requester is now
\* waiting for is removed and reported. The routine returns.
RedoRequest ==
    LET h == pool.height + (IF sync.pc = "redo" THEN 1 ELSE 0)
        p == requesters[h].peerID
    IN  /\ \/ sync.pc = "peeked" /\ ~Verified(sync.first, sync.second)
           \/ sync.pc = "redo"
        /\ IF p # None THEN Set(removePeer(S, p)) ELSE UNCHANGED <<pool, requesters, peers>>
        /\ errored' = errored \cup ({p} \cap up)
        /\ sync' = IF sync.pc = "redo"
                   THEN [sync EXCEPT !.pc = "returned", !.first = None, !.second = None]
                   ELSE [sync EXCEPT !.pc = "redo"]
        /\ UNCHANGED <<load, inFlight, up, turmoil, status, idle>>

syncTimeout ==
    /\ pool.running /\ ~idle /\ load.stalls
    /\ idle' = TRUE
    /\ UNCHANGED <<load, pool, requesters, peers, inFlight, up, turmoil, status, errored, sync>>

IsCaughtUp == DOMAIN peers # {} /\ pool.height >= pool.maxPeerHeight - 1

\* The ticker finds the pool caught up, or without progress for too long.
SwitchToConsensus ==
    /\ sync.pc = "loop"
    /\ IsCaughtUp \/ idle
    /\ pool' = [pool EXCEPT !.running = FALSE]
    /\ sync' = [sync EXCEPT !.pc = "consensus"]
    /\ UNCHANGED <<load, requesters, peers, inFlight, up, turmoil, status, errored, idle>>

\* SwitchToBlockSync, after state sync. The pool may know peers already.
SwitchToBlockSync(height) ==
    /\ sync.pc = "off"
    /\ pool' = [pool EXCEPT !.height = height + 1, !.running = TRUE]
    /\ sync' = [sync EXCEPT !.pc = "loop", !.height = height]
    /\ UNCHANGED <<load, requesters, peers, inFlight, up, turmoil, status, errored, idle>>

\* autoRestartIfBehind, and the node that starts again with what it has stored.
autoRestartIfBehind ==
    /\ sync.pc = "consensus" /\ sync.restarts < MaxRestarts
    /\ pool.maxPeerHeight # 0
    /\ pool.maxPeerHeight - sync.height >= blocksBehindThreshold
    /\ pool' = StartPool(sync.height + 1)
    /\ requesters' = <<>> /\ peers' = <<>> /\ inFlight' = <<>>
    /\ up' = {} /\ status' = {} /\ errored' = {} /\ idle' = FALSE
    /\ sync' = [sync EXCEPT !.pc = "loop", !.restarts = @ + 1]
    /\ UNCHANGED <<load, turmoil>>

BlockSyncNext ==
    \/ makeNextRequester
    \/ \E slow \in SUBSET DOMAIN peers : removeTimedoutPeers(slow)
    \/ \E h \in DOMAIN requesters :
          \/ \E p \in DOMAIN peers \cup {None}, met \in SUBSET DOMAIN peers :
                pickIncrAvailablePeer(h, p, met)
          \/ SendRequest(h) \/ ReadRedo(h) \/ Reset(h)
    \/ \E p \in DOMAIN peers : onTimeout(p)
    \/ \E r \in DOMAIN inFlight :
          \/ \E block \in Blocks : AddBlock(r[1], r[2], block)
          \/ NoBlockResponse(r[1], r[2])
    \/ \E p \in Peers :
          \/ PeerUp(p) \/ PeerDown(p)
          \/ \E range \in load.ranges[p] : SetPeerRange(p, range[1], range[2])
    \/ StatusRequest
    \/ PeekTwoBlocks \/ PopRequest \/ RedoRequest
    \/ syncTimeout \/ SwitchToConsensus \/ autoRestartIfBehind

=============================================================================
