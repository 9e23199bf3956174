------------------------------ MODULE NodeSync ------------------------------
(***************************************************************************)
(* A node that catches up: state sync restores a snapshot whose app hash   *)
(* and state come from the light client, backfill gets the headers below   *)
(* it, block sync executes the blocks above it and hands over to           *)
(* consensus. A node that has a state already starts with block sync.      *)
(* Peers and their block sync messages come and go all the time.           *)
(***************************************************************************)
EXTENDS BlockSync

CONSTANTS recentSnapshots, fetchers, Workers, maxRetries, Tip, LightTip, pruningSize, maxProviders

VARIABLES snapshots, blacklist, chunks, fetching, requested, syncer, app, upset
VARIABLES primary, witnesses, banned, trusted, client, loose
VARIABLES queue, worker, peerList, calls, asked, verifier, stored, reported, hiccups

ASSUME NodeSyncAssumption == None \notin Int /\ Tip \in Nat /\ maxRetries \in Nat

SS == INSTANCE StateSync
BF == INSTANCE Backfill
LC == INSTANCE LightClient

ssOnly == <<snapshots, blacklist, chunks, fetching, requested, syncer, app, upset>>
bfOnly == <<queue, worker, peerList, calls, asked, verifier, stored, reported, hiccups>>
bsOnly == <<pool, requesters, peers, inFlight, up, turmoil, status, errored, sync, idle>>
lcOnly == <<primary, witnesses, banned, trusted, client, loose>>
vars   == <<load, ssOnly, lcOnly, bfOnly, bsOnly>>

\* What a node can find when it starts: the state it has, and snapshots of the chain
ChainOfLoad ==
    /\ load.stateSync \in BOOLEAN /\ load.start \in 0..Tip /\ load.initialHeight \in Nat \ {0}
    /\ \A s \in SS!Snapshots :
          /\ SS!height(s) \in 1..Tip /\ load.snapshots[s].chunks \in Nat
          /\ \A h \in 1..SS!height(s) : load.vals[h] # None

\* OnStart of both reactors
NodeSyncInit ==
    /\ ChainOfLoad
    /\ BlockSyncInit /\ SS!StateSyncInit /\ LC!LightClientInit /\ BF!BackfillInit
    /\ peerList = load.peerList
    /\ syncer = [pc |-> IF load.stateSync THEN "provider" ELSE "off", snapshot |-> None, index |-> None]
    /\ pool = [StartPool(load.start + 1) EXCEPT !.running = ~load.stateSync]
    /\ sync = [pc |-> IF load.stateSync THEN "off" ELSE "loop", first |-> None, second |-> None,
               height |-> load.start, sound |-> TRUE, restarts |-> 0]

-----------------------------------------------------------------------------
(* The state provider                                                       *)

\* initStateProvider, and the syncer after it
NewStateProvider ==
    /\ syncer.pc = "provider" /\ client.pc \in {"done", "failed"}
    /\ syncer' = [syncer EXCEPT !.pc = IF client.pc = "done" THEN "pick" ELSE "failed"]
    /\ client' = LC!idleClient("ready")
    /\ UNCHANGED <<load, snapshots, blacklist, chunks, fetching, requested, app, upset,
                   primary, witnesses, banned, trusted, loose>>

\* AppHash, and State and Commit: the heights that the light client must verify
CallProvider ==
    LET h == SS!height(syncer.snapshot)
    IN  /\ client.pc = "ready" /\ syncer.pc \in {"hash", "state"}
        /\ client' = [LC!idleClient("next") EXCEPT !.todo =
                IF syncer.pc = "hash" THEN <<h + 1, h + 2>> ELSE <<h, h + 1, h + 2, h>>]
        /\ UNCHANGED <<load, ssOnly, primary, witnesses, banned, trusted, loose>>

ProviderReturns ==
    LET result == IF client.pc = "done" THEN "ok"
                  ELSE IF client.err = "noWitnesses" THEN "fail" ELSE "reject"
    IN  /\ client.pc \in {"done", "failed"}
        /\ SS!AppHash(result) \/ SS!BuildState(result)
        /\ client' = LC!idleClient("ready")
        /\ UNCHANGED <<primary, witnesses, banned, trusted, loose>>

\* verifyLightBlockTimeout, or the end of a request for consensus params
ProviderTimeout ==
    /\ syncer.pc # "provider"
    /\ \/ LC!CallTimeout
       \/ \E read \in [DOMAIN witnesses -> 0..2], late \in SUBSET DOMAIN witnesses :
             LC!detectDivergence(read, late, TRUE)
    /\ SS!Upset(1)
    /\ UNCHANGED <<snapshots, blacklist, chunks, fetching, requested, syncer, app>>

\* processPeerUpdate: a peer that is a provider comes or goes.
PeerJoins(p, expired) ==
    /\ SS!Running /\ load.light.p2p
    /\ LC!AddProvider(p, expired) /\ SS!Upset(1)
    /\ UNCHANGED <<snapshots, blacklist, chunks, fetching, requested, syncer, app>>

PeerLeaves(p) ==
    /\ SS!RemovePeer(p)
    /\ IF load.light.p2p THEN LC!RemoveProviderByID(p) ELSE UNCHANGED lcOnly

StateProviderNext ==
    \/ LC!LightClientNext /\ UNCHANGED ssOnly
    \/ NewStateProvider \/ CallProvider \/ ProviderReturns \/ ProviderTimeout
    \/ \E p \in Peers : PeerLeaves(p) \/ \E expired \in BOOLEAN : PeerJoins(p, expired)

-----------------------------------------------------------------------------

\* Sync of the reactor: the state is bootstrapped and the commit saved, or not.
Bootstrap(ok) ==
    /\ syncer.pc = "restored"
    /\ IF ok THEN BF!StartBackfill(SS!height(syncer.snapshot)) /\ UNCHANGED <<syncer, upset>>
       ELSE /\ verifier.pc = "off" /\ SS!Upset(1)
            /\ syncer' = [syncer EXCEPT !.pc = "failed"] /\ UNCHANGED bfOnly
    /\ UNCHANGED <<load, snapshots, blacklist, chunks, fetching, requested, app, lcOnly, bsOnly>>

\* postSyncHook, also after a backfill that failed
PostSyncHook ==
    /\ syncer.pc = "restored" /\ verifier.pc \in {"end", "error"}
    /\ SwitchToBlockSync(SS!height(syncer.snapshot))
    /\ UNCHANGED <<ssOnly, lcOnly, bfOnly>>

Next ==
    \/ BlockSyncNext /\ UNCHANGED <<ssOnly, lcOnly, bfOnly>>
    \/ SS!StateSyncNext /\ UNCHANGED <<lcOnly, bfOnly, bsOnly>>
    \/ StateProviderNext /\ UNCHANGED <<bfOnly, bsOnly>>
    \/ BF!BackfillNext /\ UNCHANGED <<ssOnly, lcOnly, bsOnly>>
    \/ (\E ok \in BOOLEAN : Bootstrap(ok)) \/ PostSyncHook

Spec == NodeSyncInit /\ [][Next]_vars

\* The goroutines of block sync are scheduled, honest peers answer, and time passes:
\* the tickers of poolRoutine fire and without progress syncTimeout passes.
Fairness ==
  LET BS(A) == A /\ UNCHANGED <<ssOnly, lcOnly, bfOnly>> IN
    /\ WF_vars(BS(makeNextRequester))
    /\ WF_vars(BS(\E h \in DOMAIN requesters :
          \/ \E p \in DOMAIN peers, met \in SUBSET DOMAIN peers : pickIncrAvailablePeer(h, p, met)
          \/ SendRequest(h) \/ ReadRedo(h) \/ Reset(h)))
    /\ WF_vars(BS(\E r \in DOMAIN inFlight : r[2] \notin load.faulty /\ AddBlock(r[1], r[2], Good)))
    /\ WF_vars(BS(PeekTwoBlocks \/ PopRequest \/ RedoRequest))
    /\ WF_vars(BS(syncTimeout)) /\ WF_vars(BS(SwitchToConsensus))

-----------------------------------------------------------------------------
(* Properties                                                               *)

\* A provider that always returns the blocks of the chain
CorrectNode == \E i \in DOMAIN load.light.providers : \A h \in 1..LightTip :
                  LC!Answer(load.light.providers[i], h) = "main"

\* The app hash is that of the chain: of the providers that are asked one is correct, and
\* the height was saved with the comparisons that are meant.
AppHashSound ==
    LET h == SS!height(syncer.snapshot) + 1
    IN  CorrectNode /\ h \notin loose => trusted[h].branch = "main"

RestoredSound ==
    load.stateSync => AppHashSound /\ \A i \in SS!Indexes(syncer.snapshot) : i \in DOMAIN app /\ app[i].good

Follower == INSTANCE ChainFollower WITH
    height <- IF sync.pc = "off" THEN load.start ELSE sync.height,
    sound  <- sync.sound /\ (sync.pc # "off" => RestoredSound),
    mode   <- IF sync.pc = "off" THEN "restore"
              ELSE IF sync.pc = "consensus" THEN "consensus" ELSE "follow"

\* State sync and block sync together do what ChainFollower promises: the state that
\* is restored has the app hash of the chain if one provider of the light client is
\* correct, with chunks of any peer, and poolRoutine executes the blocks of the chain
\* after it, each once, in order, whatever the peers send and whenever a requester is
\* reset under it.
FollowsChain == Follower!Spec

\* The node leaves block sync: a bad block is requested anew, or no progress is made
\* for syncTimeout, and poolRoutine switches to consensus.
LeavesBlockSync == <>(sync.pc = "consensus")

\* What the application restored from is what the queue holds: every chunk that was
\* returned, but for the one in hand, was accepted by the application in the version
\* the queue has, through refetches, rejected senders, retries of a chunk and of the
\* snapshot, and late answers of other peers.
AppliedIsQueued ==
    chunks # None =>
        \A i \in chunks.returned \ {syncer.index} :
            i \in DOMAIN app /\ i \in DOMAIN chunks.files /\ app[i] = chunks.files[i]

\* What the light client trusts is of the chain, or a path of verified blocks leads to it
\* from the root of trust, whatever was cached, scheduled and fetched on the way and
\* from whom. The exception: when the primary is replaced while a block is verified
\* backwards, another block of that height may be verified than the one that is saved.
TrustedIsVerified ==
    \A h \in DOMAIN trusted :
        \/ trusted[h].branch = "main" \/ trusted[h] \in LC!Reached
        \/ h \in loose /\ h < load.light.root

\* Backfill stores the headers of the chain without a gap down from the snapshot, and
\* when it succeeds, the validators of each of those heights.
HistoryIsLinked ==
    LET heights == {b.height : b \in stored.headers}
    IN  /\ verifier.pc # "off" => heights = queue.verifyHeight + 1..SS!height(syncer.snapshot)
        /\ \A b \in stored.headers : b.good
        /\ verifier.pc = "end" =>
              \A h \in heights : h \in DOMAIN stored.vals /\ stored.vals[h] = load.vals[h]

\* Every height that was handed out and is still needed is in exactly one place: with a
\* worker, to be retried, waiting for the verifier or being verified. Were one lost, the
\* verifier would wait for ever; were one doubled, success could close the queue twice.
HeightsAreOwned ==
    LET Places(h) ==
            {w \in Workers : worker[w].pc \in {"pop", "call"} /\ worker[w].height = h}
            \cup {x \in {"failed"} : h \in queue.failed}
            \cup {x \in {"pending"} : h \in DOMAIN queue.pending}
            \cup {x \in {"verify"} : verifier.pc = "verify" /\ verifier.resp.block.height = h}
    IN  BF!Filling /\ ~queue.done =>
            \A h \in queue.fetchHeight + 1..queue.verifyHeight :
                /\ Cardinality(Places(h)) <= 1
                /\ h >= queue.terminal => Cardinality(Places(h)) = 1

=============================================================================
