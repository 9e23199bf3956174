---------------------------- MODULE PeerManager ----------------------------
(***************************************************************************)
(* The peer manager and its store, internal/p2p/peermanager.go: a value m  *)
(* and one operator per method, each of which runs under the mutex.  An    *)
(* operator that may have to rank the peers returns a set of results,      *)
(* because peers of equal score come in any order.                         *)
(*                                                                         *)
(* A peer has at most one address.  Times are left out: wait says whether  *)
(* the retry delay of a failed address is running ("yes"), over for some   *)
(* values of the jitter only ("maybe"), or over ("no").                    *)
(***************************************************************************)
EXTENDS Integers, Sequences, FiniteSets, FiniteSetsExt, Functions

CONSTANTS Peers,
          None,
          MaxFailures \* bound: failed dials of a peer that are counted

VARIABLE load \* the PeerManagerOptions, and what the environment does

\* PeerManagerOptions.Validate
Validate ==
    /\ load.MaxConnected > 0 => Cardinality(load.persistent) <= load.MaxConnected
    /\ load.MaxPeers > 0 =>
          load.MaxConnected > 0 /\ load.MaxConnected + load.MaxConnectedUpgrade <= load.MaxPeers
    /\ \A longest \in {load.MaxRetryTime, load.MaxRetryTimePersistent} \ {0} :
          0 < load.MinRetryTime /\ load.MinRetryTime <= longest

DefaultMutableScore == 10
PeerScoreUnconditional == 255
PeerScorePersistent == PeerScoreUnconditional - 1
MaxPeerScoreNotPersistent == PeerScorePersistent - 1

\* A peerInfo. An entry made by processPeerEvent has no ID and no configuration.
peerInfo ==
    [named : BOOLEAN, address : BOOLEAN, failures : 0 .. MaxFailures,
     wait : {"yes", "maybe", "no"}, disconnections : Nat, mutable : Int]

ASSUME PeersAssumption ==
    /\ IsFiniteSet(Peers) /\ MaxFailures \in Nat
    /\ None \notin Peers \cup peerInfo

newPeerInfo ==
    [named |-> TRUE, address |-> FALSE, failures |-> 0, wait |-> "no",
     disconnections |-> 0, mutable |-> DefaultMutableScore]

noPeerInfo == [newPeerInfo EXCEPT !.named = FALSE, !.mutable = 0]

NewPeerManager(known) ==
    [store     |-> [p \in Peers |-> IF p \in known THEN [newPeerInfo EXCEPT !.address = TRUE] ELSE None],
     ranked    |-> None,
     dialing   |-> {},
     upgrading |-> [p \in Peers |-> None],
     connected |-> {},
     ready     |-> {},
     evict     |-> {},
     evicting  |-> {}]

-----------------------------------------------------------------------------
(***************************************************************************)
(* peerStore                                                               *)
(***************************************************************************)

isPersistent(info, p) == info.named /\ p \in load.persistent
isUnconditional(info, p) == info.named /\ p \in load.unconditional

Score(info, p) ==
    LET base  == IF isPersistent(info, p) THEN PeerScorePersistent ELSE info.mutable
        score == base - info.failures - info.disconnections \div 3
        limit == IF isPersistent(info, p) THEN PeerScorePersistent ELSE MaxPeerScoreNotPersistent
    IN  IF isUnconditional(info, p) THEN PeerScoreUnconditional
        ELSE Max({0, Min({score, limit})})

ScoreIn(m, p) == Score(m.store[p], p)
Known(m) == {p \in Peers : m.store[p] # None}
Size(m) == Cardinality({p \in Known(m) : ~isUnconditional(m.store[p], p)})

\* Ranked: the cached order, or any order by score, which is cached.
Ranked(m) ==
    IF m.ranked # None THEN {m}
    ELSE {[m EXCEPT !.ranked = order] : order \in
             {s \in Bijection(1 .. Cardinality(Known(m)), Known(m)) :
                 \A i, j \in DOMAIN s : i < j => ScoreIn(m, s[i]) >= ScoreIn(m, s[j])}}

\* Set drops the cache when the peer is new or its score is not the one of the
\* entry; but the entry shares its addresses with the copy that Get returned.
Set(m, p, info) ==
    [m EXCEPT !.store[p] = info,
              !.ranked = IF m.store[p] # None /\ ScoreIn(m, p) = Score(info, p) THEN @ ELSE None]

Delete(m, p) == [m EXCEPT !.store[p] = None, !.ranked = None]

\* The DialFailures of a copy are those of the entry, so the cache stays.
resetFailures(m, p) ==
    IF m.store[p] = None THEN m
    ELSE [m EXCEPT !.store[p].failures = 0, !.store[p].wait = "no"]

-----------------------------------------------------------------------------
(***************************************************************************)
(* PeerManager                                                             *)
(***************************************************************************)

NumConnected(m) == Cardinality(m.connected \ load.unconditional)
HasMaxPeerCapacity(m) == NumConnected(m) >= load.MaxConnected
HasSlots(m) == load.MaxConnected > 0 => NumConnected(m) < load.MaxConnected
HasUpgradeSlots(m, n) == load.MaxConnected > 0 => n < load.MaxConnected + load.MaxConnectedUpgrade

\* The store without some peers.
Without(m, gone) ==
    [m EXCEPT !.store = [p \in Peers |-> IF p \in gone THEN None ELSE @[p]],
              !.ranked = IF gone = {} THEN @ ELSE None]

\* The lowest-ranked peers go that are neither dialed nor connected. Deleting an
\* entry without ID does nothing.
prunePeers(m) ==
    IF load.MaxPeers = 0 \/ Size(m) <= load.MaxPeers THEN {m}
    ELSE {LET out == SelectSeq(r.ranked, LAMBDA p : r.store[p].named /\ p \notin r.dialing \cup r.connected)
              Lowest(n) == {out[i] : i \in Len(out) - n + 1 .. Len(out)}
              enough == {n \in 0 .. Len(out) : Size(Without(r, Lowest(n))) <= load.MaxPeers}
          IN  Without(r, Lowest(IF enough = {} THEN Len(out) ELSE Min(enough))) : r \in Ranked(m)}

\* Add fails for an entry without ID. The set is empty if nothing changes.
Add(m, p) ==
    IF m.store[p] = None THEN prunePeers(Set(m, p, [newPeerInfo EXCEPT !.address = TRUE]))
    ELSE IF m.store[p].address \/ ~m.store[p].named THEN {}
    ELSE prunePeers([m EXCEPT !.store[p].address = TRUE])

\* Mutant of findUpgradeCandidate: a peer that is claimed is claimed again.
findUpgradeCandidateTwice(r, p, score) ==
    LET lower == {i \in 1 .. Len(r.ranked) : /\ r.ranked[i] \in r.connected \ (r.evict \cup r.evicting)
                                             /\ ScoreIn(r, r.ranked[i]) < score}
    IN  IF lower = {} THEN None ELSE r.ranked[Max(lower)]

\* The peer itself if it is claimed already, else the lowest-ranked connected
\* peer with a lower score that is not on its way out or claimed.
findUpgradeCandidate(r, p, score) ==
    LET claimed == {from \in Peers : r.upgrading[from] = p}
        open    == {i \in 1 .. Len(r.ranked) : LET q == r.ranked[i]
                                               IN  /\ r.store[q].named /\ q \in r.connected
                                                   /\ q \notin r.evict \cup r.evicting
                                                   /\ r.upgrading[q] = None}
        above   == {i \in 1 .. Len(r.ranked) : ScoreIn(r, r.ranked[i]) >= score}
    IN  IF claimed # {} THEN CHOOSE from \in claimed : TRUE
        ELSE IF open = {} \/ (\E i \in above : i >= Max(open)) THEN None ELSE r.ranked[Max(open)]

\* TryDialNext: the best peer that may be dialed now, if there is a slot for it or
\* it can take the slot of another. early are the peers whose delay is over for
\* the jitter drawn now.
TryDialNext(m, early) ==
    IF ~HasUpgradeSlots(m, NumConnected(m) + Cardinality(m.dialing)) THEN {[m |-> m, id |-> None]}
    ELSE {LET Due(p) == /\ r.store[p].address /\ p \notin r.dialing \cup r.connected
                        /\ r.store[p].failures > 0 => r.store[p].wait = "no" \/ p \in early
              due    == {i \in 1 .. Len(r.ranked) : Due(r.ranked[i])}
              id     == r.ranked[Min(due)]
              from   == findUpgradeCandidate(r, id, ScoreIn(r, id))
          IN  IF due = {} \/ (~HasSlots(r) /\ from = None) THEN [m |-> r, id |-> None]
              ELSE [m |-> [r EXCEPT !.dialing = @ \cup {id},
                                    !.upgrading = [q \in Peers |-> IF ~HasSlots(r) /\ q = from THEN id ELSE @[q]]],
                    id |-> id] : r \in Ranked(m)}

endDial(m, p) ==
    [m EXCEPT !.dialing = @ \ {p},
              !.upgrading = [from \in Peers |-> IF @[from] = p THEN None ELSE @[from]]]

retryNever == -1 \* no delay has this value

\* retryDelay after some failures, for each value of the jitter
retryDelay(failures, persistent) ==
    LET maxDelay == IF persistent /\ load.MaxRetryTimePersistent > 0
                    THEN load.MaxRetryTimePersistent ELSE load.MaxRetryTime
        Clip(d)  == IF maxDelay > 0 THEN Min({d, maxDelay}) ELSE d
    IN  IF load.MinRetryTime = 0 THEN {retryNever}
        ELSE {Clip(load.MinRetryTime * 2 ^ failures + j) : j \in 0 .. Max({load.RetryTimeJitter - 1, 0})}

\* What DialFailed does when the delay is d.
Retry(failed, p, d) ==
    IF d = retryNever THEN [m |-> failed, timer |-> FALSE, wakes |-> TRUE]
    ELSE IF d = load.MaxRetryTime THEN [m |-> Delete(failed, p), timer |-> FALSE, wakes |-> FALSE]
    ELSE [m |-> failed, timer |-> TRUE, wakes |-> FALSE]

\* Mutant of DialFailed: the delay is that of other peers, also for persistent ones.
DialFailedForgets(m, p) ==
    LET ended  == endDial(m, p)
        failed == [ended EXCEPT !.store[p].failures = Min({@ + 1, MaxFailures}),
                                !.store[p].wait = "yes", !.ranked = None]
    IN  IF m.store[p] = None \/ ~m.store[p].address
        THEN {[m |-> ended, timer |-> FALSE, wakes |-> FALSE]}
        ELSE {Retry(failed, p, d) : d \in retryDelay(failed.store[p].failures, FALSE)}

\* DialFailed: the new manager, and whether a timer is started that wakes DialNext
\* or it is woken at once.  A delay of MaxRetryTime deletes the peer, persistent or
\* not, clipped or not.
DialFailed(m, p) ==
    LET ended  == endDial(m, p)
        failed == [ended EXCEPT !.store[p].failures = Min({@ + 1, MaxFailures}),
                                !.store[p].wait = "yes", !.ranked = None]
    IN  IF m.store[p] = None \/ ~m.store[p].address
        THEN {[m |-> ended, timer |-> FALSE, wakes |-> FALSE]}
        ELSE {Retry(failed, p, d) : d \in retryDelay(failed.store[p].failures, isPersistent(m.store[p], p))}

\* Dialed: the new manager and whether the peer is connected now ("ok"), was
\* connected before ("connected") or is not wanted ("refused").
Dialed(m, p) ==
    LET ended == endDial(m, p)
        froms == {from \in Peers : m.upgrading[from] = p}
        done  == [resetFailures(ended, p) EXCEPT !.connected = @ \cup {p}]
        Lower(r, from) == IF r.store[from] = None THEN None
                          ELSE findUpgradeCandidate(r, from, ScoreIn(r, from))
    IN  IF p \in m.connected THEN {[m |-> ended, result |-> "connected"]}
        ELSE IF \/ ~HasSlots(ended) /\ (froms = {} \/ ~HasUpgradeSlots(ended, NumConnected(ended)))
                \/ m.store[p] = None \/ ~m.store[p].named
        THEN {[m |-> ended, result |-> "refused"]}
        ELSE IF froms = {} \/ HasSlots(ended) THEN {[m |-> done, result |-> "ok"]}
        ELSE LET from == CHOOSE f \in froms : TRUE
             IN  {LET lower == Lower([r EXCEPT !.connected = ended.connected], from)
                  IN  [m |-> [r EXCEPT !.evict = @ \cup {IF lower = None THEN from ELSE lower}],
                       result |-> "ok"] : r \in IF m.store[from] = None THEN {done} ELSE Ranked(done)}

\* Accepted, with the same results; failures are forgotten before it may refuse.
Accepted(m, p) ==
    LET reset == resetFailures(m, p)
        info  == IF m.store[p] = None THEN newPeerInfo ELSE reset.store[p]
        Done(r) == [Set(r, p, info) EXCEPT !.connected = @ \cup {p}]
    IN  IF p \in m.connected THEN {[m |-> m, result |-> "connected"]}
        ELSE IF ~HasUpgradeSlots(m, NumConnected(m)) THEN {[m |-> m, result |-> "refused"]}
        ELSE IF HasSlots(m)
        THEN {IF info.named THEN [m |-> Done(reset), result |-> "ok"]
              ELSE [m |-> reset, result |-> "refused"]}
        ELSE {LET from == findUpgradeCandidate(r, p, Score(info, p))
              IN  IF from = None \/ ~info.named THEN [m |-> r, result |-> "refused"]
                  ELSE [m |-> [Done(r) EXCEPT !.evict = @ \cup {from}], result |-> "ok"] :
                 r \in IF \E q \in Peers : m.upgrading[q] = p THEN {reset} ELSE Ranked(reset)}

Ready(m, p) == IF p \in m.connected THEN [m EXCEPT !.ready = @ \cup {p}] ELSE m

\* TryEvictNext: any peer scheduled for eviction; above capacity the lowest-ranked.
TryEvictNext(m) ==
    LET due == m.evict \cap (m.connected \ m.evicting)
    IN  IF due # {}
        THEN UNION {{[m |-> [m EXCEPT !.evict = @ \ ({p} \cup dropped), !.evicting = @ \cup {p}], id |-> p] :
                        dropped \in SUBSET (m.evict \ due)} : p \in due}
        ELSE LET swept == [m EXCEPT !.evict = {}]
             IN  IF load.MaxConnected = 0 \/ NumConnected(m) - Cardinality(m.evicting) <= load.MaxConnected
                 THEN {[m |-> swept, id |-> None]}
                 ELSE {LET left == {i \in 1 .. Len(r.ranked) : /\ r.store[r.ranked[i]].named
                                                               /\ r.ranked[i] \in r.connected \ r.evicting}
                           p    == r.ranked[Max(left)]
                       IN  IF left = {} THEN [m |-> r, id |-> None]
                           ELSE [m |-> [r EXCEPT !.evicting = @ \cup {p}], id |-> p] : r \in Ranked(swept)}

\* Mutant of Disconnected: the claim on the peer stays.
DisconnectedClaimed(m, p) ==
    [m EXCEPT !.connected = @ \ {p}, !.evict = @ \ {p}, !.evicting = @ \ {p}, !.ready = @ \ {p}]

Disconnected(m, p) ==
    LET counted == IF m.store[p] = None THEN m
                   ELSE [m EXCEPT !.store[p].disconnections = @ + 1, !.ranked = None]
    IN  [counted EXCEPT !.connected = @ \ {p}, !.upgrading[p] = None, !.evict = @ \ {p},
                        !.evicting = @ \ {p}, !.ready = @ \ {p}]

Errored(m, p) == IF p \in m.connected THEN [m EXCEPT !.evict = @ \cup {p}] ELSE m

\* A good or bad word about a peer, known or not.
processPeerEvent(m, p, change) ==
    LET info == IF m.store[p] = None THEN noPeerInfo ELSE m.store[p]
    IN  [m EXCEPT !.store[p] = [info EXCEPT !.mutable = @ + change], !.ranked = None]
=============================================================================
