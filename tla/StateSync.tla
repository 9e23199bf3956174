----------------------------- MODULE StateSync -----------------------------
(***************************************************************************)
(* The syncer of state sync: a pool of the snapshots that peers advertise, *)
(* with its blacklists, the chunk queue of the snapshot being restored,    *)
(* the fetchers that ask peers for chunks, and the loop that offers a      *)
(* snapshot to the application, applies its chunks and verifies the        *)
(* result against the app hash of the light client.                        *)
(***************************************************************************)
EXTENDS Integers, FiniteSets, FiniteSetsExt

CONSTANTS
    None,
    Peers,
    recentSnapshots,   \* snapshots that a peer may advertise
    fetchers           \* number of fetchers

VARIABLES
    load,       \* the snapshots there are, who has them, who is faulty
    snapshots,  \* snapshotPool: the peers of each known snapshot
    blacklist,  \* snapshotPool: the rejected formats, peers and snapshots
    chunks,     \* chunkQueue
    fetching,   \* chunks that a running fetcher waits for
    requested,  \* chunk requests that were sent and are not answered
    syncer,     \* SyncAny and Sync: where they are, the snapshot, the chunk in hand
    app,        \* what the application restored from: the chunks it accepted
    upset       \* bound: failures, timeouts and refusals still to come

ssVars == <<load, snapshots, blacklist, chunks, fetching, requested, syncer, app, upset>>

\* A map with an entry
With(f, i, x) == [j \in DOMAIN f \cup {i} |-> IF j = i THEN x ELSE f[j]]

-----------------------------------------------------------------------------
(* snapshotPool. Its indexes by format, height and peer are derived here.   *)

Snapshots  == DOMAIN load.snapshots
height(s)  == load.snapshots[s].height
format(s)  == load.snapshots[s].format
Indexes(s) == 0..load.snapshots[s].chunks - 1

removeSnapshots(known, ss) == [s \in DOMAIN known \ ss |-> known[s]]

\* removePeer: a snapshot that no peer has is removed.
removePeers(known, ps) ==
    [s \in {t \in DOMAIN known : ~(known[t] \subseteq ps)} |-> known[s] \ ps]

\* Add
AddSnapshot(p, s) ==
    /\ format(s) \notin blacklist.formats /\ p \notin blacklist.peers /\ s \notin blacklist.snapshots
    /\ Cardinality({t \in DOMAIN snapshots : p \in snapshots[t]}) < recentSnapshots
    /\ snapshots' = IF s \in DOMAIN snapshots THEN [snapshots EXCEPT ![s] = @ \cup {p}]
                    ELSE With(snapshots, s, {p})

numPeers(s) == Cardinality(snapshots[s])

\* sorterFactory. With the peers in favour of one and the format of the other,
\* each precedes the other.
precedes(a, b) ==
    \/ height(a) > height(b)
    \/ height(a) = height(b) /\ (numPeers(a) > numPeers(b) \/ format(a) > format(b))

\* The median of the numbers of peers: at least half of the snapshots are at or
\* below it, and at or above it; of an even number, the mean of the two middle ones.
median ==
    LET n     == Cardinality(DOMAIN snapshots)
        Mid(i) == CHOOSE k \in {numPeers(s) : s \in DOMAIN snapshots} :
                    /\ Cardinality({s \in DOMAIN snapshots : numPeers(s) < k}) <= i
                    /\ Cardinality({s \in DOMAIN snapshots : numPeers(s) <= k}) > i
    IN  IF n % 2 = 0 THEN (Mid(n \div 2 - 1) + Mid(n \div 2)) \div 2 ELSE Mid(n \div 2)

\* Best: what Ranked may put first.
Best ==
    LET common     == {s \in DOMAIN snapshots : numPeers(s) > median}
        candidates == IF common # {} THEN common ELSE DOMAIN snapshots
    IN  {a \in candidates : \A b \in candidates \ {a} : precedes(a, b) \/ ~precedes(b, a)}

-----------------------------------------------------------------------------
(* chunkQueue                                                               *)

newChunkQueue == [files |-> <<>>, allocated |-> {}, returned |-> {}]

\* Mutant: a chunk that is discarded stays returned.
discardStillReturned(q, is) ==
    LET gone == is \cap DOMAIN q.files
    IN  [files |-> [i \in DOMAIN q.files \ gone |-> q.files[i]],
         allocated |-> q.allocated \ gone, returned |-> q.returned]

\* Discard of some chunks, and discardSender of what was not returned
discard(q, is) ==
    LET gone == is \cap DOMAIN q.files
    IN  [files |-> [i \in DOMAIN q.files \ gone |-> q.files[i]],
         allocated |-> q.allocated \ gone, returned |-> q.returned \ gone]

discardSenders(q, ps) ==
    discard(q, {i \in DOMAIN q.files : q.files[i].sender \in ps /\ i \notin q.returned})

\* RetryAll: all chunks are returned again. Who was to fetch one is not asked again.
RetryAll(q) == [q EXCEPT !.returned = {}]

nextUp(q, s) == Indexes(s) \ q.returned

-----------------------------------------------------------------------------

Upset(n) == upset' = upset - n /\ upset' >= 0

StateSyncInit ==
    /\ snapshots = <<>>
    /\ blacklist = [formats |-> {}, peers |-> {}, snapshots |-> {}]
    /\ chunks = None /\ fetching = {} /\ requested = {}
    /\ app = <<>>
    /\ upset = load.upset

\* Messages and peer updates reach the syncer while there is one.
Running == syncer.pc \notin {"off", "provider", "restored", "failed", "panic"}
\* AddChunk finds a chunk queue during Sync.
InSync == Running /\ syncer.pc # "pick"

\* A SnapshotsResponse: a peer that has none of the snapshots may be faulty.
SnapshotsResponse(p, s) ==
    /\ Running /\ s \in load.has[p]
    /\ p \notin (IF s \in DOMAIN snapshots THEN snapshots[s] ELSE {})
    /\ AddSnapshot(p, s)
    /\ UNCHANGED <<load, blacklist, chunks, fetching, requested, syncer, app, upset>>

\* PeerStatusDown; the peer may be back and advertise again.
RemovePeer(p) ==
    /\ Running /\ \E s \in DOMAIN snapshots : p \in snapshots[s]
    /\ snapshots' = removePeers(snapshots, {p})
    /\ Upset(1)
    /\ UNCHANGED <<load, blacklist, chunks, fetching, requested, syncer, app>>

\* A ChunkResponse, of any request so far: it names a height, a format and an index.
AddChunk(r, good) ==
    LET s == syncer.snapshot
        i == r.index
        fits == /\ height(s) = r.height /\ format(s) = r.format
                /\ i \in Indexes(s) /\ i \notin DOMAIN chunks.files
    IN  /\ r \in requested /\ Running
        /\ good \/ r.peer \in load.faulty
        /\ requested' = requested \ {r}
        /\ IF InSync /\ fits
           THEN /\ chunks' = [chunks EXCEPT !.files = With(@, i, [good |-> good, sender |-> r.peer])]
                /\ fetching' = fetching \ {i}
           ELSE UNCHANGED <<chunks, fetching>>
        /\ UNCHANGED <<load, snapshots, blacklist, syncer, app, upset>>

\* The peer has no such chunk, or does not answer.
ChunkMissing(r) ==
    /\ r \in requested /\ Running
    /\ requested' = requested \ {r}
    /\ Upset(1)
    /\ UNCHANGED <<load, snapshots, blacklist, chunks, fetching, syncer, app>>

-----------------------------------------------------------------------------
(* fetchChunks: while Sync restores, and until it returns                   *)

\* requestChunk asks any peer of the snapshot, or nobody when there is none.
requestChunk(i, p) ==
    LET s  == syncer.snapshot
        ps == IF s \in DOMAIN snapshots THEN snapshots[s] ELSE {}
    IN  IF ps = {} THEN p = None /\ UNCHANGED requested
        ELSE /\ p \in ps
             /\ requested' = requested \cup
                    {[height |-> height(s), format |-> format(s), index |-> i, peer |-> p]}

Allocate(p) ==
    LET left == Indexes(syncer.snapshot) \ chunks.allocated
    IN  /\ syncer.pc \in {"state", "apply", "wait", "chunk"}
        /\ Cardinality(fetching) < fetchers
        /\ left # {}
        /\ chunks' = [chunks EXCEPT !.allocated = @ \cup {Min(left)}]
        /\ fetching' = fetching \cup {Min(left)}
        /\ requestChunk(Min(left), p)
        /\ UNCHANGED <<load, snapshots, blacklist, syncer, app, upset>>

\* The ticker of the fetcher: it asks once more.
RequestAgain(i, p) ==
    /\ i \in fetching
    /\ requestChunk(i, p)
    /\ Upset(1)
    /\ UNCHANGED <<load, snapshots, blacklist, chunks, fetching, syncer, app>>

-----------------------------------------------------------------------------
(* SyncAny and Sync                                                         *)

\* The snapshot of the loop, a new chunk queue for it, or the ones to retry.
Pick(s) ==
    /\ syncer.pc = "pick"
    /\ IF syncer.snapshot = None
       THEN s \in Best /\ chunks' = newChunkQueue
       ELSE s = syncer.snapshot /\ UNCHANGED chunks
    /\ syncer' = [syncer EXCEPT !.pc = "hash", !.snapshot = s]
    /\ UNCHANGED <<load, snapshots, blacklist, fetching, requested, app, upset>>

\* Sync returns: the fetchers stop, and SyncAny acts on the result. q is the chunk
\* queue, and rejected are peers the application rejected before.
Returned(result, q, rejected) ==
    LET s       == syncer.snapshot
        senders == IF result = "sender" /\ s \in DOMAIN snapshots THEN snapshots[s] ELSE rejected
        gone    == CASE result \in {"timeout", "reject"} -> {s}
                     [] result = "format" -> {t \in Snapshots : format(t) = format(s)}
                     [] OTHER -> {}
    IN  /\ fetching' = {}
        /\ syncer' = [syncer EXCEPT !.index = None, !.snapshot = IF result = "retry" THEN s ELSE None,
                !.pc = IF result \in {"abort", "fail"} THEN "failed" ELSE "pick"]
        /\ chunks' = IF result = "retry" THEN RetryAll(q) ELSE None
        /\ blacklist' = [formats   |-> blacklist.formats \cup
                                         (IF result = "format" THEN {format(s)} ELSE {}),
                         peers     |-> blacklist.peers \cup senders,
                         snapshots |-> blacklist.snapshots \cup
                                         (IF result = "format" THEN {} ELSE gone)]
        /\ snapshots' = removeSnapshots(removePeers(snapshots, senders), gone)

\* The light client finds the app hash of the height, or the snapshot is dropped;
\* without witnesses state sync fails.
AppHash(result) ==
    /\ syncer.pc = "hash"
    /\ IF result = "ok"
       THEN /\ syncer' = [syncer EXCEPT !.pc = "offer"]
            /\ UNCHANGED <<snapshots, blacklist, chunks, fetching>>
       ELSE Returned(result, chunks, {})
    /\ UNCHANGED <<load, requested, app, upset>>

\* offerSnapshot
OfferSnapshot(result) ==
    /\ syncer.pc = "offer"
    /\ IF result = "accept"
       THEN /\ syncer' = [syncer EXCEPT !.pc = "state"] /\ app' = <<>>
            /\ UNCHANGED <<snapshots, blacklist, chunks, fetching, upset>>
       ELSE Returned(result, chunks, {}) /\ Upset(1) /\ UNCHANGED app
    /\ UNCHANGED <<load, requested>>

\* State and Commit of the light client, while the fetchers run already
BuildState(result) ==
    /\ syncer.pc = "state"
    /\ IF result = "ok"
       THEN /\ syncer' = [syncer EXCEPT !.pc = "apply"]
            /\ UNCHANGED <<snapshots, blacklist, chunks, fetching>>
       ELSE Returned(result, chunks, {})
    /\ UNCHANGED <<load, requested, app, upset>>

\* Next: the lowest chunk not returned yet, returned even before it is there.
NextChunk ==
    LET left == nextUp(chunks, syncer.snapshot)
    IN  /\ syncer.pc = "apply"
        /\ IF left = {}
           THEN syncer' = [syncer EXCEPT !.pc = "verify"] /\ UNCHANGED chunks
           ELSE /\ chunks' = [chunks EXCEPT !.returned = @ \cup {Min(left)}]
                /\ syncer' = [syncer EXCEPT !.index = Min(left),
                       !.pc = IF Min(left) \in DOMAIN chunks.files THEN "chunk" ELSE "wait"]
        /\ UNCHANGED <<load, snapshots, blacklist, fetching, requested, app, upset>>

ChunkArrived ==
    /\ syncer.pc = "wait" /\ syncer.index \in DOMAIN chunks.files
    /\ syncer' = [syncer EXCEPT !.pc = "chunk"]
    /\ UNCHANGED <<load, snapshots, blacklist, chunks, fetching, requested, app, upset>>

chunkTimeout ==
    /\ syncer.pc = "wait"
    /\ Returned("timeout", chunks, {})
    /\ Upset(1)
    /\ UNCHANGED <<load, requested, app>>

\* ApplySnapshotChunk: the application accepts the chunk or wants it again, may
\* ask to refetch chunks and to reject the sender, or gives up. The mean of the
\* time per chunk divides by the number of chunks returned.
ApplyChunk(result, refetch, rejectSender) ==
    LET i       == syncer.index
        senders == IF rejectSender THEN {chunks.files[i].sender} ELSE {}
        kept    == discardSenders(discard(chunks, refetch), senders)
    IN  /\ syncer.pc = "chunk"
        /\ Upset(Cardinality(refetch) + Cardinality(senders) + (IF result = "accept" THEN 0 ELSE 1))
        /\ app' = IF result = "accept" THEN With(app, i, chunks.files[i]) ELSE app
        /\ IF result \in {"accept", "again"}
           THEN /\ chunks' = IF result = "again" THEN [kept EXCEPT !.returned = @ \ {i}] ELSE kept
                /\ syncer' = [syncer EXCEPT !.index = None,
                       !.pc = IF result = "accept" /\ kept.returned = {} THEN "panic" ELSE "apply"]
                /\ blacklist' = [blacklist EXCEPT !.peers = @ \cup senders]
                /\ snapshots' = removePeers(snapshots, senders)
                /\ UNCHANGED fetching
           ELSE Returned(result, kept, IF result = "fail" THEN {} ELSE senders)
        /\ UNCHANGED <<load, requested>>

\* verifyApp: the application has the app hash and height of the light client, and
\* the version. SyncAny returns the state, or fails for good.
verifyApp(sameVersion) ==
    /\ syncer.pc = "verify"
    /\ Upset(IF sameVersion THEN 0 ELSE 1)
    /\ fetching' = {} /\ chunks' = None
    /\ syncer' = [syncer EXCEPT !.pc =
            IF sameVersion /\ \A i \in Indexes(syncer.snapshot) : i \in DOMAIN app /\ app[i].good
            THEN "restored" ELSE "failed"]
    /\ UNCHANGED <<load, snapshots, blacklist, requested, app>>

\* RemovePeer, AppHash and BuildState involve the light client.
StateSyncNext ==
    \/ \E p \in Peers : \E s \in load.has[p] : SnapshotsResponse(p, s)
    \/ \E r \in requested :
          \/ \E good \in BOOLEAN : AddChunk(r, good)
          \/ ChunkMissing(r)
    \/ \E p \in Peers \cup {None} : Allocate(p) \/ \E i \in fetching : RequestAgain(i, p)
    \/ \E s \in Snapshots : Pick(s)
    \/ \E result \in {"accept", "abort", "reject", "format", "sender", "fail"} : OfferSnapshot(result)
    \/ NextChunk \/ ChunkArrived \/ chunkTimeout
    \/ \E result \in {"accept", "again", "retry", "reject", "abort", "fail"},
          rejectSender \in BOOLEAN :
          \E refetch \in IF chunks = None THEN {} ELSE SUBSET DOMAIN chunks.files :
             ApplyChunk(result, refetch, rejectSender)
    \/ \E sameVersion \in BOOLEAN : verifyApp(sameVersion)

=============================================================================
