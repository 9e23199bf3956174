---------------------------- MODULE RouterProofs ----------------------------
(***************************************************************************)
(* The router and its peer manager, for all peers, connections, options    *)
(* and environments.                                                       *)
(*                                                                         *)
(* Good(m) is what each method of the manager keeps, whoever calls it and  *)
(* in whatever order.  The number of connected peers is not inductive by   *)
(* itself: a peer that is dialed in place of another has claimed it, and   *)
(* the one that is claimed may be evicted for a third before the dial      *)
(* ends.  It goes on holding its slot (Held) as long as the claim lasts.   *)
(* Linked says the same of the connections: how the stage of one, the      *)
(* queue of its peer and the set of connected peers go together.           *)
(***************************************************************************)
EXTENDS Router, FiniteSetTheorems, TLAPS

\* The peer manager
PM == [store : [Peers -> peerInfo \cup {None}], ranked : Seq(Peers) \cup {None},
       dialing : SUBSET Peers, upgrading : [Peers -> Peers \cup {None}], connected : SUBSET Peers,
       ready : SUBSET Peers, evict : SUBSET Peers, evicting : SUBSET Peers]

\* The store: who is ranked is known, and an address was known or added.
StoreGood(m) ==
    /\ m.ranked # None => m.ranked \in Seq(Peers) /\ \A i \in 1 .. Len(m.ranked) : m.store[m.ranked[i]] # None
    /\ \A p \in Peers : m.store[p] # None /\ m.store[p].address => p \in load.known \cup load.added

\* A peer that is dialed replaces at most one, which is connected.
ClaimsGood(m) ==
    \A p \in Peers : m.upgrading[p] # None =>
        /\ p \in m.connected /\ p \notin load.unconditional /\ m.upgrading[p] \in m.dialing
        /\ \A q \in Peers : m.upgrading[q] = m.upgrading[p] => q = p

\* The peers that hold a slot: not those on their way out, unless claimed by one
\* that is still to come.
Held(m) == m.connected \ (load.unconditional \cup ((m.evict \cup m.evicting) \ {q \in Peers : m.upgrading[q] # None}))

SlotsGood(m) ==
    load.MaxConnected > 0 =>
        /\ NumConnected(m) <= load.MaxConnected + load.MaxConnectedUpgrade
        /\ TwoWay = {} => Cardinality(Held(m)) <= load.MaxConnected

Good(m) ==
    /\ m \in PM
    /\ StoreGood(m)
    /\ m.ready \cup m.evict \cup m.evicting \subseteq m.connected
    /\ ClaimsGood(m)
    /\ m.dialing \subseteq load.known \cup load.added
    /\ m.dialing \cap m.connected \subseteq load.inbound
    /\ SlotsGood(m)

\* The connections
Conn == [pc : {"free", "opened", "ready", "routing", "closing", "leaving", "errored", "dropped"},
         peer : Peers \cup {None}, queue : Slots \cup {None}]

Alive(k, c) == k[c].pc \in {"opened", "ready", "routing", "closing", "leaving"}

\* What the stage of the connection c says about the queue of its peer.
QueueGood(k, queues, c) ==
    /\ k[c].pc = "routing" => k[c].queue = c /\ queues[k[c].peer] = c
    /\ k[c].pc \in {"opened", "ready", "leaving"} => queues[k[c].peer] = None

\* A peer that does not both dial and get dialed is connected from the time its only
\* connection is let in until that connection is given back.
Alone(k, queues, connected, c) ==
    /\ k[c].peer \in connected /\ QueueGood(k, queues, c)
    /\ \A d \in Slots : Alive(k, d) /\ k[d].peer = k[c].peer => d = c

\* The connections k and the queues match the peers that the manager counts.
Linked(k, queues, connected) ==
    /\ k \in [Slots -> Conn]
    /\ queues \in [Peers -> Slots \cup {None}]
    /\ \A c \in Slots : k[c].pc # "free" => k[c].peer \in Peers
    /\ \A p \in connected : \E c \in Slots : Alive(k, c) /\ k[c].peer = p
    /\ \A c \in Slots : k[c].pc = "dropped" => k[c].peer \in TwoWay
    /\ \A c \in Slots : Alive(k, c) /\ k[c].peer \notin TwoWay => Alone(k, queues, connected, c)
    /\ \A p \in Peers : p \notin TwoWay /\ p \notin connected => queues[p] = None

ConnsGood == Linked(conns, peerQueues, pm.connected)

RouterInv ==
    /\ Limits
    /\ Good(pm) /\ pm.dialing = dials /\ ConnsGood

-----------------------------------------------------------------------------
\* Least and greatest elements.
LEMMA LeastNat ==
    ASSUME NEW T \in SUBSET Nat, T # {}
    PROVE  Min(T) \in T /\ \A y \in T : Min(T) <= y
<1> DEFINE R == OpToRel(<, Nat)
<1>1. IsWellFoundedOn(R, Nat)
  BY Zenon, NatLessThanWellFounded
<1>2. \A x, y \in Nat : y < x => <<y, x>> \in R
  BY Zenon DEF OpToRel
<1> HIDE DEF R
<1>3. PICK x \in T : \A y \in T : ~ (<<y, x>> \in R)
  BY Zenon, <1>1, WFMin
<1>4. ASSUME NEW y \in T PROVE x <= y
  <2>1. x \in Nat /\ y \in Nat /\ ~ (y < x)
    BY Zenon, <1>2, <1>3
  <2> QED
    BY <2>1
<1> QED
  BY Zenon, <1>4 DEF Min

\* The last of some indices.
LEMMA LastIndex ==
    ASSUME NEW n \in Nat, NEW I, I \subseteq 1 .. n, I # {}
    PROVE  Max(I) \in I
<1> DEFINE T == {n - i : i \in I}
<1>1. T \in SUBSET Nat /\ T # {}
  <2>1. \A i \in I : n - i \in Nat
    OBVIOUS
  <2> QED
    BY Zenon, <2>1
<1>2. Min(T) \in T /\ \A y \in T : Min(T) <= y
  BY Zenon, <1>1, LeastNat
<1>3. PICK x \in I : Min(T) = n - x
  BY Zenon, <1>2
<1>4. ASSUME NEW i \in I PROVE x >= i
  <2>1. n - x <= n - i
    BY Zenon, <1>2, <1>3
  <2> QED
    BY <2>1
<1> QED
  BY Zenon, <1>4 DEF Max

\* The scores are combined with Min and Max of two.
LEMMA LeastOfTwo ==
    ASSUME NEW a \in Int, NEW b \in Int
    PROVE  Min({a, b}) \in {a, b} /\ Min({a, b}) <= a /\ Min({a, b}) <= b
<1>1. \E x \in {a, b} : \A y \in {a, b} : x <= y
  BY a <= b \/ b <= a
<1>2. Min({a, b}) \in {a, b} /\ \A y \in {a, b} : Min({a, b}) <= y
  BY Zenon, <1>1 DEF Min
<1> QED
  BY Zenon, <1>2

\* The other one of the two.
LEMMA GreatestOfTwo ==
    ASSUME NEW a \in Int, NEW b \in Int
    PROVE  Max({a, b}) \in {a, b}
<1>1. \E x \in {a, b} : \A y \in {a, b} : x >= y
  BY a <= b \/ b <= a
<1> QED
  BY Zenon, <1>1 DEF Max

\* No score is above that of an unconditional peer.
LEMMA ScoreBound ==
    ASSUME NEW info \in peerInfo, NEW p
    PROVE  /\ Score(info, p) \in Int /\ Score(info, p) <= PeerScoreUnconditional
           /\ info.named /\ p \in load.unconditional => Score(info, p) = PeerScoreUnconditional
<1>1. info.mutable \in Int /\ info.failures \in Int /\ info.disconnections \in Nat
  BY PeersAssumption DEF peerInfo
<1>2. CASE isUnconditional(info, p)
  BY <1>2 DEF Score, PeerScoreUnconditional
<1>3. CASE ~isUnconditional(info, p)
  <2> DEFINE base  == IF isPersistent(info, p) THEN PeerScorePersistent ELSE info.mutable
             score == base - info.failures - info.disconnections \div 3
             limit == IF isPersistent(info, p) THEN PeerScorePersistent ELSE MaxPeerScoreNotPersistent
             low   == Min({score, limit})
  <2>1. limit \in Int /\ limit <= 254
    BY DEF PeerScorePersistent, MaxPeerScoreNotPersistent, PeerScoreUnconditional
  <2>2. base \in Int
    BY <1>1 DEF PeerScorePersistent, PeerScoreUnconditional
  <2>3. score \in Int
    <3> HIDE DEF base
    <3>1. info.disconnections \div 3 \in Int
      BY <1>1
    <3> QED
      BY <1>1, <2>2, <3>1
  <2> HIDE DEF score, limit, base
  <2>4. low \in Int /\ low <= 254
    BY <2>1, <2>3, LeastOfTwo
  <2> HIDE DEF low
  <2>5. Max({0, low}) \in {0, low}
    BY <2>4, GreatestOfTwo
  <2>6. Score(info, p) = Max({0, low})
    BY Zenon, <1>3 DEF Score, low, score, limit, base
  <2> QED
    BY <1>3, <2>4, <2>5, <2>6 DEF PeerScoreUnconditional, isUnconditional
<1> QED
  BY Zenon, <1>2, <1>3

-----------------------------------------------------------------------------
(***************************************************************************)
(* The store.  Its methods leave the other fields of the manager alone.    *)
(***************************************************************************)
Kept(m, n) ==
    /\ n \in PM
    /\ n.dialing = m.dialing /\ n.upgrading = m.upgrading /\ n.connected = m.connected
    /\ n.ready = m.ready /\ n.evict = m.evict /\ n.evicting = m.evicting

Stores == [Peers -> peerInfo \cup {None}]

\* A change of the store alone keeps what is good.
LEMMA KeptGood ==
    ASSUME NEW m, NEW n, Good(m), Kept(m, n), StoreGood(n)
    PROVE  Good(n)
<1>1. NumConnected(n) = NumConnected(m) /\ Held(n) = Held(m)
  BY Zenon DEF Kept, NumConnected, Held
<1>2. SlotsGood(n)
  BY Zenon, <1>1 DEF Good, SlotsGood
<1>3. ClaimsGood(n)
  BY Zenon DEF Good, ClaimsGood, Kept
<1> QED
  BY Zenon, <1>2, <1>3 DEF Good, Kept

\* A manager with store s and cached order k.
Restored(m, s, k) == [m EXCEPT !.store = s, !.ranked = k]

\* A store s and a ranking k in place of those of m.
LEMMA RestoredGood ==
    ASSUME NEW m \in PM, StoreGood(m), NEW s \in Stores, NEW k \in {m.ranked, None},
           k # None => \A p \in Peers : m.store[p] # None => s[p] # None,
           \A p \in Peers : s[p] # None /\ s[p].address => p \in load.known \cup load.added,
           NEW n, n = Restored(m, s, k)
    PROVE  Kept(m, n) /\ StoreGood(n) /\ n.store = s /\ n.ranked = k
<1>1. n \in PM /\ n.store = s /\ n.ranked = k
  BY Zenon DEF PM, Stores, Restored
<1>2. Kept(m, n)
  BY Zenon, <1>1 DEF PM, Restored, Kept
<1>3. ASSUME k # None
      PROVE  k \in Seq(Peers) /\ \A i \in 1 .. Len(k) : s[k[i]] # None
  <2>1. k = m.ranked /\ k \in Seq(Peers) /\ \A i \in 1 .. Len(k) : m.store[k[i]] # None
    BY Zenon, <1>3 DEF StoreGood
  <2>2. \A i \in 1 .. Len(k) : k[i] \in Peers
    BY <2>1
  <2> QED
    BY Zenon, <1>3, <2>1, <2>2
<1> QED
  BY Zenon, <1>1, <1>2, <1>3 DEF StoreGood

\* The order r.ranked is there, and is one of known peers.
InOrder(r) ==
    r.ranked \in Seq(Peers) /\ \A i \in 1 .. Len(r.ranked) : r.ranked[i] \in Peers /\ r.store[r.ranked[i]] # None

\* Ranked caches an order of the peers that are known.
LEMMA RankedGood ==
    ASSUME NEW m \in PM, StoreGood(m), NEW r \in Ranked(m)
    PROVE  Kept(m, r) /\ StoreGood(r) /\ r.store = m.store /\ InOrder(r)
<1>1. CASE m.ranked # None
  <2>1. r = m
    BY Zenon, <1>1 DEF Ranked
  <2>2. r.ranked \in Seq(Peers) /\ \A i \in 1 .. Len(r.ranked) : r.store[r.ranked[i]] # None
    BY Zenon, <1>1, <2>1 DEF StoreGood
  <2>3. \A i \in 1 .. Len(r.ranked) : r.ranked[i] \in Peers
    BY <2>2
  <2> QED
    BY Zenon, <2>1, <2>2, <2>3 DEF Kept, InOrder
<1>2. CASE m.ranked = None
  <2>1. PICK order \in Bijection(1 .. Cardinality(Known(m)), Known(m)) : r = [m EXCEPT !.ranked = order]
    BY Zenon, <1>2 DEF Ranked
  <2>2. PICK S : S = Known(m)
    BY Zenon
  <2>3. S \subseteq Peers /\ \A p \in S : m.store[p] # None
    BY Zenon, <2>2 DEF Known
  <2>4. Cardinality(S) \in Nat
    BY Zenon, <2>3, PeersAssumption, FS_Subset, FS_CardinalityType
  <2>5. order \in [1 .. Cardinality(S) -> S]
    BY Zenon, <2>1, <2>2 DEF Bijection, Injection
  <2>6. order \in Seq(Peers) /\ Len(order) = Cardinality(S) /\ \A i \in 1 .. Len(order) : order[i] \in S
    BY <2>3, <2>4, <2>5
  <2>7. r \in PM /\ r.ranked = order /\ r.store = m.store
    BY Zenon, <2>1, <2>6 DEF PM
  <2>8. Kept(m, r)
    BY Zenon, <2>1, <2>7 DEF PM, Kept
  <2> QED
    BY Zenon, <2>3, <2>6, <2>7, <2>8 DEF StoreGood, InOrder
<1> QED
  BY Zenon, <1>1, <1>2

\* Where the entry of p in the store becomes info.
LEMMA EntryGood ==
    ASSUME NEW m \in PM, StoreGood(m), NEW p \in Peers, NEW info \in peerInfo, NEW k \in {m.ranked, None},
           info.address => p \in load.known \cup load.added,
           NEW n, n = Restored(m, [m.store EXCEPT ![p] = info], k)
    PROVE  /\ Kept(m, n) /\ StoreGood(n) /\ n.store[p] = info /\ n.ranked = k
           /\ \A q \in Peers : q # p => n.store[q] = m.store[q]
<1>1. PICK s : s = [m.store EXCEPT ![p] = info]
  BY Zenon
<1>2. m.store \in Stores
  BY Zenon DEF PM, Stores
<1>3. s \in Stores /\ s[p] = info /\ \A q \in Peers : q # p => s[q] = m.store[q]
  <2>1. s \in Stores
    BY Zenon, <1>1, <1>2 DEF Stores
  <2>2. s[p] = info
    BY Zenon, <1>1, <1>2 DEF Stores
  <2>3. ASSUME NEW q \in Peers, q # p PROVE s[q] = m.store[q]
    BY Zenon, <1>1, <1>2, <2>3 DEF Stores
  <2> QED
    BY Zenon, <2>1, <2>2, <2>3
<1>4. info # None
  BY Zenon, PeersAssumption
<1>5. \A q \in Peers : (m.store[q] # None => s[q] # None) /\ (s[q] # None /\ s[q].address => q \in load.known \cup load.added)
  BY Zenon, <1>3, <1>4 DEF StoreGood
<1>6. \A q \in Peers : s[q] # None /\ s[q].address => q \in load.known \cup load.added
  BY Zenon, <1>5
<1>7. k # None => \A q \in Peers : m.store[q] # None => s[q] # None
  BY Zenon, <1>5
<1>8. n = Restored(m, s, k)
  BY Zenon, <1>1
<1>9. Kept(m, n) /\ StoreGood(n) /\ n.store = s /\ n.ranked = k
  BY <1>3, <1>6, <1>7, <1>8, RestoredGood
<1> QED
  BY Zenon, <1>3, <1>9

\* The entries the methods make.
LEMMA Entries ==
    /\ newPeerInfo \in peerInfo /\ ~newPeerInfo.address /\ newPeerInfo.named
    /\ [newPeerInfo EXCEPT !.address = TRUE] \in peerInfo
    /\ noPeerInfo \in peerInfo /\ ~noPeerInfo.address
<1>1. 0 \in 0 .. MaxFailures /\ 0 \in Nat /\ 0 \in Int /\ DefaultMutableScore \in Int
  BY PeersAssumption DEF DefaultMutableScore
<1>2. newPeerInfo \in peerInfo /\ ~newPeerInfo.address /\ newPeerInfo.named
  BY Zenon, <1>1 DEF newPeerInfo, peerInfo
<1>3. [newPeerInfo EXCEPT !.address = TRUE] \in peerInfo
  BY Zenon, <1>2 DEF peerInfo
<1>4. noPeerInfo \in peerInfo
  BY Zenon, <1>1, <1>2 DEF peerInfo, noPeerInfo
<1>5. noPeerInfo.address = newPeerInfo.address
  BY Zenon, <1>2 DEF peerInfo, noPeerInfo
<1> QED
  BY Zenon, <1>2, <1>3, <1>4, <1>5

\* resetFailures changes the entry of p, and not whether it is named.
LEMMA ResetFailuresGood ==
    ASSUME NEW m \in PM, StoreGood(m), NEW p \in Peers, NEW n, n = resetFailures(m, p)
    PROVE  /\ Kept(m, n) /\ StoreGood(n) /\ n.ranked = m.ranked
           /\ m.store[p] # None => n.store[p] \in peerInfo /\ n.store[p].named = m.store[p].named
           /\ m.store[p] # None => (n.store[p].address => p \in load.known \cup load.added)
           /\ \A q \in Peers : q # p => n.store[q] = m.store[q]
<1>1. CASE m.store[p] = None
  BY Zenon, <1>1 DEF resetFailures, Kept
<1>2. CASE m.store[p] # None
  <2>1. PICK info : info = [m.store[p] EXCEPT !.failures = 0, !.wait = "no"]
    BY Zenon
  <2>2. m.store[p] \in peerInfo
    BY <1>2 DEF PM
  <2>3. 0 \in 0 .. MaxFailures
    BY PeersAssumption
  <2>4. info \in peerInfo /\ info.address = m.store[p].address /\ info.named = m.store[p].named
    BY Zenon, <2>1, <2>2, <2>3 DEF peerInfo
  <2>5. info.address => p \in load.known \cup load.added
    BY Zenon, <1>2, <2>4 DEF StoreGood
  <2>6. n = Restored(m, [m.store EXCEPT ![p] = info], m.ranked)
    BY Zenon, <1>2, <2>1 DEF resetFailures, Restored, PM
  <2>7. /\ Kept(m, n) /\ StoreGood(n) /\ n.store[p] = info /\ n.ranked = m.ranked
        /\ \A q \in Peers : q # p => n.store[q] = m.store[q]
    BY <2>4, <2>5, <2>6, EntryGood
  <2> QED
    BY Zenon, <2>4, <2>5, <2>7
<1> QED
  BY Zenon, <1>1, <1>2

\* Set of the peer store.
LEMMA SetGood ==
    ASSUME NEW m \in PM, StoreGood(m), NEW p \in Peers, NEW info \in peerInfo,
           info.address => p \in load.known \cup load.added, NEW n, n = Set(m, p, info)
    PROVE  Kept(m, n) /\ StoreGood(n)
<1>1. PICK k : k = IF m.store[p] # None /\ ScoreIn(m, p) = Score(info, p) THEN m.ranked ELSE None
  BY Zenon
<1>2. n = Restored(m, [m.store EXCEPT ![p] = info], k)
  BY Zenon, <1>1 DEF Set, Restored
<1>3. k \in {m.ranked, None}
  BY Zenon, <1>1
<1> QED
  BY <1>2, <1>3, EntryGood

\* Delete of the peer store.
LEMMA DeleteGood ==
    ASSUME NEW m \in PM, StoreGood(m), NEW p \in Peers, NEW n, n = Delete(m, p)
    PROVE  Kept(m, n) /\ StoreGood(n)
<1>1. PICK s : s = [m.store EXCEPT ![p] = None]
  BY Zenon
<1>2. s \in Stores /\ \A q \in Peers : s[q] = None \/ s[q] = m.store[q]
  BY <1>1 DEF PM, Stores
<1>3. n = Restored(m, s, None)
  BY Zenon, <1>1 DEF Delete, Restored
<1>4. \A q \in Peers : s[q] # None /\ s[q].address => q \in load.known \cup load.added
  BY Zenon, <1>2 DEF StoreGood
<1> QED
  BY Zenon, <1>2, <1>3, <1>4, RestoredGood

\* prunePeers deletes entries and changes nothing else.
LEMMA PrunePeersGood ==
    ASSUME NEW m \in PM, StoreGood(m), NEW n \in prunePeers(m)
    PROVE  Kept(m, n) /\ StoreGood(n)
<1>1. CASE n = m
  BY Zenon, <1>1 DEF Kept
<1>2. ASSUME NEW r \in Ranked(m), NEW gone, n = Without(r, gone)
      PROVE  Kept(m, n) /\ StoreGood(n)
  <2>2. Kept(m, r) /\ StoreGood(r) /\ r \in PM
    BY Zenon, RankedGood DEF Kept
  <2>3. PICK s, k : s = [p \in Peers |-> IF p \in gone THEN None ELSE r.store[p]] /\ k = IF gone = {} THEN r.ranked ELSE None
    BY Zenon
  <2>4. n = Restored(r, s, k)
    BY Zenon, <1>2, <2>3 DEF Restored, Without
  <2>5. s \in Stores /\ \A q \in Peers : s[q] = None \/ s[q] = r.store[q]
    BY <2>2, <2>3 DEF PM, Stores
  <2>6. k # None => \A p \in Peers : r.store[p] # None => s[p] # None
    BY Zenon, <1>2, <2>3
  <2>7. \A q \in Peers : s[q] # None /\ s[q].address => q \in load.known \cup load.added
    BY Zenon, <2>2, <2>5 DEF StoreGood
  <2>8. Kept(r, n) /\ StoreGood(n)
    BY Zenon, <2>2, <2>3, <2>4, <2>5, <2>6, <2>7, RestoredGood
  <2> QED
    BY Zenon, <2>2, <2>8 DEF Kept
<1> QED
  <2>1. CASE load.MaxPeers = 0 \/ Size(m) <= load.MaxPeers
    BY Zenon, <1>1, <2>1 DEF prunePeers
  <2>2. CASE ~(load.MaxPeers = 0 \/ Size(m) <= load.MaxPeers)
    BY Zenon, <1>2, <2>2 DEF prunePeers
  <2> QED
    BY Zenon, <2>1, <2>2

\* Add names an address of the peer.
LEMMA AddGood ==
    ASSUME NEW m, Good(m), NEW p \in Peers, p \in load.added, NEW n \in Add(m, p)
    PROVE  Good(n) /\ n.connected = m.connected /\ n.dialing = m.dialing
<1>1. m \in PM /\ StoreGood(m)
  BY Zenon DEF Good
<1>2. ASSUME NEW s, Kept(m, s), StoreGood(s), n \in prunePeers(s)
      PROVE  Good(n) /\ n.connected = m.connected /\ n.dialing = m.dialing
  <2>1. Kept(s, n) /\ StoreGood(n)
    BY Zenon, <1>2, PrunePeersGood DEF Kept
  <2>2. Kept(m, n)
    BY Zenon, <1>2, <2>1 DEF Kept
  <2> QED
    BY Zenon, <2>1, <2>2, KeptGood DEF Kept
<1>3. CASE m.store[p] = None
  <2>1. PICK info, s : info = [newPeerInfo EXCEPT !.address = TRUE] /\ s = Set(m, p, info)
    BY Zenon
  <2>2. Kept(m, s) /\ StoreGood(s)
    BY <1>1, <2>1, Entries, SetGood
  <2> QED
    BY Zenon, <1>2, <1>3, <2>1, <2>2 DEF Add
<1>4. CASE m.store[p] # None
  <2>1. PICK info, s : info = [m.store[p] EXCEPT !.address = TRUE] /\ s = [m EXCEPT !.store[p].address = TRUE]
    BY Zenon
  <2>2. m.store[p] \in peerInfo
    BY <1>1, <1>4 DEF PM
  <2>3. info \in peerInfo
    BY Zenon, <2>1, <2>2 DEF peerInfo
  <2>4. s = Restored(m, [m.store EXCEPT ![p] = info], m.ranked)
    BY Zenon, <1>1, <2>1 DEF Restored, PM
  <2>5. Kept(m, s) /\ StoreGood(s)
    BY <1>1, <2>3, <2>4, EntryGood
  <2> QED
    BY Zenon, <1>2, <1>4, <2>1, <2>5 DEF Add
<1> QED
  BY Zenon, <1>3, <1>4

\* processPeerEvent changes a score.
LEMMA PeerEventGood ==
    ASSUME NEW m, Good(m), NEW p \in Peers, NEW change \in Int, NEW n, n = processPeerEvent(m, p, change)
    PROVE  Good(n) /\ n.connected = m.connected /\ n.dialing = m.dialing
<1>1. m \in PM /\ StoreGood(m)
  BY Zenon DEF Good
<1>2. PICK old, info : old = (IF m.store[p] = None THEN noPeerInfo ELSE m.store[p]) /\ info = [old EXCEPT !.mutable = @ + change]
  BY Zenon
<1>3. old \in peerInfo /\ (old.address => p \in load.known \cup load.added)
  <2>1. m.store[p] # None => m.store[p] \in peerInfo
    BY <1>1 DEF PM
  <2> QED
    BY Zenon, <1>1, <1>2, <2>1, Entries DEF StoreGood
<1>4. old.mutable + change \in Int
  BY <1>3 DEF peerInfo
<1>5. info \in peerInfo /\ info.address = old.address
  BY Zenon, <1>2, <1>3, <1>4 DEF peerInfo
<1>6. n = Restored(m, [m.store EXCEPT ![p] = info], None)
  BY Zenon, <1>2 DEF processPeerEvent, Restored
<1>7. info.address => p \in load.known \cup load.added
  BY Zenon, <1>3, <1>5
<1>8. Kept(m, n) /\ StoreGood(n)
  BY <1>1, <1>5, <1>6, <1>7, EntryGood
<1> QED
  BY Zenon, <1>8, KeptGood DEF Kept

\* findUpgradeCandidate: no one, the one that p claims, or else a connected peer that
\* is not on its way out, not claimed and not unconditional.
LEMMA UpgradeCandidate ==
    ASSUME NEW r \in PM, NEW p, NEW score \in Int, score <= PeerScoreUnconditional,
           (\A q \in Peers : r.upgrading[q] # p) => InOrder(r),
           NEW u, u = findUpgradeCandidate(r, p, score)
    PROVE  \/ u = None
           \/ u \in Peers /\ r.upgrading[u] = p
           \/ /\ u \in Peers /\ u \in r.connected /\ u \notin r.evict \cup r.evicting
              /\ r.upgrading[u] = None /\ u \notin load.unconditional /\ \A q \in Peers : r.upgrading[q] # p
<1> DEFINE claimed == {from \in Peers : r.upgrading[from] = p}
           open == {i \in 1 .. Len(r.ranked) : /\ r.store[r.ranked[i]].named /\ r.ranked[i] \in r.connected
                                               /\ r.ranked[i] \notin r.evict \cup r.evicting
                                               /\ r.upgrading[r.ranked[i]] = None}
           above == {i \in 1 .. Len(r.ranked) : ScoreIn(r, r.ranked[i]) >= score}
<1>1. u = IF claimed # {} THEN CHOOSE from \in claimed : TRUE
          ELSE IF open = {} \/ (\E i \in above : i >= Max(open)) THEN None ELSE r.ranked[Max(open)]
  BY Zenon DEF findUpgradeCandidate
<1>2. CASE claimed # {}
  <2>1. u \in claimed
    BY Zenon, <1>1, <1>2
  <2> QED
    BY Zenon, <2>1
<1>3. CASE claimed = {} /\ u # None
  <2>1. \A q \in Peers : r.upgrading[q] # p
    BY Zenon, <1>3
  <2>2. Len(r.ranked) \in Nat /\ \A j \in 1 .. Len(r.ranked) : r.ranked[j] \in Peers /\ r.store[r.ranked[j]] \in peerInfo
    BY <2>1 DEF InOrder, PM
  <2>3. open \subseteq 1 .. Len(r.ranked)
    BY Zenon
  <2>4. open # {} /\ ~(\E i \in above : i >= Max(open)) /\ u = r.ranked[Max(open)]
    BY Zenon, <1>1, <1>3
  <2>5. PICK l : l = Max(open)
    BY Zenon
  <2>6. l \in open
    BY Zenon, <2>2, <2>3, <2>4, <2>5, LastIndex
  <2>7. l >= l
    BY <2>2, <2>6
  <2>8. l \notin above
    BY Zenon, <2>4, <2>5, <2>7
  <2>9. ~(ScoreIn(r, u) >= score) /\ u \in Peers /\ r.store[u] \in peerInfo /\ r.store[u].named
    BY Zenon, <2>2, <2>4, <2>5, <2>6, <2>8
  <2>10. u \notin load.unconditional
    BY <2>9, ScoreBound DEF ScoreIn
  <2> QED
    BY Zenon, <2>1, <2>4, <2>5, <2>6, <2>9, <2>10
<1> QED
  BY Zenon, <1>2, <1>3

-----------------------------------------------------------------------------
(***************************************************************************)
(* The manager.  Counting the peers that hold a slot.                      *)
(***************************************************************************)
LEMMA Counted ==
    ASSUME NEW T \in SUBSET Peers
    PROVE  /\ IsFiniteSet(T) /\ Cardinality(T) \in Nat
           /\ \A S \in SUBSET T : Cardinality(S) <= Cardinality(T)
<1>1. IsFiniteSet(T)
  BY Zenon, PeersAssumption, FS_Subset
<1> QED
  BY Zenon, <1>1, FS_Subset, FS_CardinalityType

\* One more peer is counted.
LEMMA CountedOneMore ==
    ASSUME NEW T \in SUBSET Peers, NEW p \in Peers, NEW S \in SUBSET (T \cup {p})
    PROVE  Cardinality(S) <= Cardinality(T) + 1
<1>1. Cardinality(T \cup {p}) = Cardinality(T) \/ Cardinality(T \cup {p}) = Cardinality(T) + 1
  BY Zenon, Counted, FS_AddElement
<1>2. Cardinality(S) <= Cardinality(T \cup {p}) /\ Cardinality(S) \in Nat /\ Cardinality(T) \in Nat
  <2>1. T \cup {p} \in SUBSET Peers /\ S \in SUBSET Peers
    BY Zenon
  <2> QED
    BY Zenon, <2>1, Counted
<1> QED
  BY <1>1, <1>2

\* One peer comes in place of another.
LEMMA CountedSwapped ==
    ASSUME NEW T \in SUBSET Peers, NEW p \in Peers, NEW x \in T, NEW S \in SUBSET ((T \ {x}) \cup {p})
    PROVE  Cardinality(S) <= Cardinality(T)
<1>1. Cardinality(T \ {x}) = Cardinality(T) - 1
  BY Zenon, Counted, FS_RemoveElement
<1>2. Cardinality(S) <= Cardinality(T \ {x}) + 1
  BY Zenon, CountedOneMore
<1>3. Cardinality(S) \in Nat /\ Cardinality(T) \in Nat
  BY Zenon, Counted
<1> QED
  BY <1>1, <1>2, <1>3

\* No slot is taken when no peer is added to those that count.
LEMMA SlotsKept ==
    ASSUME NEW m \in PM, SlotsGood(m), NEW n, n.connected \subseteq m.connected, Held(n) \subseteq Held(m), Limits
    PROVE  SlotsGood(n)
<1>1. Held(m) \in SUBSET Peers /\ m.connected \ load.unconditional \in SUBSET Peers
  BY Zenon DEF Held, PM
<1>2. n.connected \ load.unconditional \in SUBSET (m.connected \ load.unconditional)
  BY Zenon
<1>3. Cardinality(Held(n)) <= Cardinality(Held(m)) /\ Cardinality(Held(n)) \in Nat /\ Cardinality(Held(m)) \in Nat
  BY Zenon, <1>1, Counted
<1>4. NumConnected(n) <= NumConnected(m) /\ NumConnected(n) \in Nat /\ NumConnected(m) \in Nat
  BY Zenon, <1>1, <1>2, Counted DEF NumConnected
<1> QED
  BY <1>3, <1>4 DEF SlotsGood, Limits

Claims(m) == {q \in Peers : m.upgrading[q] # None}

\* Who holds a slot.
LEMMA HeldIs ==
    ASSUME NEW m, NEW z
    PROVE  z \in Held(m) <=> z \in m.connected /\ z \notin load.unconditional
                             /\ (z \in m.evict \cup m.evicting => z \in Claims(m))
BY Zenon DEF Held, Claims

Ending(m, p, u) == [m EXCEPT !.dialing = @ \ {p}, !.upgrading = u]

\* The end of a dial frees what it claimed.
LEMMA EndDialGood ==
    ASSUME NEW m, Good(m), NEW p \in Peers, NEW n, n = endDial(m, p), Limits
    PROVE  /\ Good(n) /\ n.dialing = m.dialing \ {p} /\ n.store = m.store /\ n.ranked = m.ranked
           /\ n.connected = m.connected /\ n.evict = m.evict /\ n.evicting = m.evicting
           /\ \A q \in Peers : n.upgrading[q] = IF m.upgrading[q] = p THEN None ELSE m.upgrading[q]
<1>1. m \in PM
  BY Zenon DEF Good
<1>2. PICK u : u = [from \in Peers |-> IF m.upgrading[from] = p THEN None ELSE m.upgrading[from]]
  BY Zenon
<1>3. n = Ending(m, p, u)
  BY Zenon, <1>2 DEF endDial, Ending
<1>4. u \in [Peers -> Peers \cup {None}]
  BY <1>1, <1>2 DEF PM
<1>5. n \in PM
  BY Zenon, <1>1, <1>3, <1>4 DEF PM, Ending
<1>6. /\ n.dialing = m.dialing \ {p} /\ n.upgrading = u /\ n.store = m.store /\ n.ranked = m.ranked
      /\ n.connected = m.connected /\ n.evict = m.evict /\ n.evicting = m.evicting /\ n.ready = m.ready
  BY Zenon, <1>1, <1>3 DEF PM, Ending
<1>7. \A q \in Peers : n.upgrading[q] = IF m.upgrading[q] = p THEN None ELSE m.upgrading[q]
  BY Zenon, <1>2, <1>6
<1>8. ClaimsGood(n)
  <2> SUFFICES ASSUME NEW q \in Peers, n.upgrading[q] # None
               PROVE  /\ q \in n.connected /\ q \notin load.unconditional /\ n.upgrading[q] \in n.dialing
                      /\ \A r \in Peers : n.upgrading[r] = n.upgrading[q] => r = q
    BY Zenon DEF ClaimsGood
  <2>1. n.upgrading[q] = m.upgrading[q] /\ m.upgrading[q] # p /\ m.upgrading[q] # None
    BY Zenon, <1>7
  <2>2. /\ q \in m.connected /\ q \notin load.unconditional /\ m.upgrading[q] \in m.dialing
        /\ \A r \in Peers : m.upgrading[r] = m.upgrading[q] => r = q
    BY Zenon, <2>1 DEF Good, ClaimsGood
  <2>3. ASSUME NEW r \in Peers, n.upgrading[r] = n.upgrading[q] PROVE r = q
    BY Zenon, <1>7, <2>1, <2>2, <2>3
  <2> QED
    BY Zenon, <1>6, <2>1, <2>2, <2>3
<1>9. Claims(n) \subseteq Claims(m)
  BY Zenon, <1>7 DEF Claims
<1>10. Held(n) \subseteq Held(m)
  BY Zenon, <1>6, <1>9, HeldIs
<1>11. SlotsGood(n)
  BY Zenon, <1>1, <1>6, <1>10, SlotsKept DEF Good
<1> QED
  BY Zenon, <1>5, <1>6, <1>7, <1>8, <1>11 DEF Good, StoreGood

\* DialFailed ends the dial; what else it does is done to the store.
LEMMA DialFailedGood ==
    ASSUME NEW m, Good(m), NEW p \in Peers, Limits, NEW x \in DialFailed(m, p), NEW n, n = x.m
    PROVE  Good(n) /\ n.dialing = m.dialing \ {p} /\ n.connected = m.connected
<1>1. PICK e : e = endDial(m, p)
  BY Zenon
<1>2. Good(e) /\ e.dialing = m.dialing \ {p} /\ e.connected = m.connected /\ e.store = m.store
  BY <1>1, EndDialGood
<1>3. e \in PM /\ StoreGood(e)
  BY Zenon, <1>2 DEF Good
<1>4. ASSUME NEW y, Kept(e, y), StoreGood(y)
      PROVE  Good(y) /\ y.dialing = m.dialing \ {p} /\ y.connected = m.connected
  BY Zenon, <1>2, <1>4, KeptGood DEF Kept
<1>5. PICK f : f = [e EXCEPT !.store[p].failures = Min({@ + 1, MaxFailures}), !.store[p].wait = "yes", !.ranked = None]
  BY Zenon
<1>6. CASE m.store[p] = None \/ ~m.store[p].address
  <2>1. x = [m |-> e, timer |-> FALSE, wakes |-> FALSE]
    BY Zenon, <1>1, <1>6 DEF DialFailed
  <2>2. n = e
    BY <2>1
  <2> QED
    BY Zenon, <1>2, <2>2
<1>7. CASE ~(m.store[p] = None \/ ~m.store[p].address)
  <2>1. n = Delete(f, p) \/ n = f
    <3>1. \E d : x = Retry(f, p, d)
      BY Zenon, <1>1, <1>5, <1>7 DEF DialFailed
    <3>2. PICK g : g = Delete(f, p)
      BY Zenon
    <3>3. \/ x = [m |-> f, timer |-> FALSE, wakes |-> TRUE] \/ x = [m |-> g, timer |-> FALSE, wakes |-> FALSE]
          \/ x = [m |-> f, timer |-> TRUE, wakes |-> FALSE]
      BY Zenon, <3>1, <3>2 DEF Retry
    <3>4. n = g \/ n = f
      BY <3>3
    <3> QED
      BY Zenon, <3>2, <3>4
  <2>2. PICK old, k, info : /\ old = e.store[p] /\ k = Min({old.failures + 1, MaxFailures})
                            /\ info = [old EXCEPT !.failures = k, !.wait = "yes"]
    BY Zenon
  <2>3. old \in peerInfo /\ old.failures \in 0 .. MaxFailures
    BY <1>2, <1>3, <1>7, <2>2 DEF PM, peerInfo
  <2>4. k \in 0 .. MaxFailures
    <3>1. old.failures + 1 \in Int /\ MaxFailures \in Int /\ MaxFailures >= 0 /\ old.failures + 1 >= 0
      BY <2>3, PeersAssumption
    <3>2. k \in {old.failures + 1, MaxFailures} /\ k <= MaxFailures
      BY Zenon, <2>2, <3>1, LeastOfTwo
    <3> QED
      BY <3>1, <3>2
  <2>5. info \in peerInfo /\ info.address = old.address
    BY Zenon, <2>2, <2>3, <2>4 DEF peerInfo
  <2>6. f = Restored(e, [e.store EXCEPT ![p] = info], None)
    BY Zenon, <1>3, <1>5, <2>2, <2>3 DEF Restored, PM
  <2>7. info.address => p \in load.known \cup load.added
    BY Zenon, <1>2, <1>3, <1>7, <2>2, <2>5 DEF StoreGood
  <2>8. Kept(e, f) /\ StoreGood(f)
    BY <1>3, <2>5, <2>6, <2>7, EntryGood
  <2>9. CASE n = f
    BY Zenon, <1>4, <2>8, <2>9
  <2>10. CASE n = Delete(f, p)
    <3>1. Kept(f, n) /\ StoreGood(n)
      BY Zenon, <2>8, <2>10, DeleteGood DEF Kept
    <3> QED
      BY <1>4, <2>8, <3>1 DEF Kept
  <2> QED
    BY Zenon, <2>1, <2>9, <2>10
<1> QED
  BY Zenon, <1>6, <1>7

\* The peer id is dialed now, and replaces from unless there is a slot for it.
Dialing(r, id, u) == [r EXCEPT !.dialing = @ \cup {id}, !.upgrading = u]

\* A dial starts, with or without a claim.
LEMMA DialingGood ==
    ASSUME NEW m, Good(m), Limits, NEW id \in Peers, id \notin m.dialing, id \notin m.connected,
           id \in load.known \cup load.added, NEW u \in [Peers -> Peers \cup {None}],
           \/ \A q \in Peers : u[q] = m.upgrading[q]
           \/ \E f \in Peers : /\ f \in m.connected /\ f \notin m.evict \cup m.evicting /\ f \notin load.unconditional
                               /\ m.upgrading[f] = None /\ u[f] = id
                               /\ \A q \in Peers : q # f => u[q] = m.upgrading[q],
           NEW n, n = Dialing(m, id, u)
    PROVE  Good(n) /\ n.dialing = m.dialing \cup {id} /\ n.connected = m.connected
<1>1. m \in PM /\ ClaimsGood(m)
  BY Zenon DEF Good
<1>2. n \in PM
  BY Zenon, <1>1 DEF PM, Dialing
<1>3. /\ n.dialing = m.dialing \cup {id} /\ n.upgrading = u /\ n.store = m.store /\ n.ranked = m.ranked
      /\ n.connected = m.connected /\ n.evict = m.evict /\ n.evicting = m.evicting /\ n.ready = m.ready
  BY Zenon, <1>1 DEF PM, Dialing
<1>4. ClaimsGood(n) /\ Held(n) \subseteq Held(m)
  <2>1. CASE \A q \in Peers : u[q] = m.upgrading[q]
    <3>1. ClaimsGood(n)
      BY <1>1, <1>3, <2>1 DEF ClaimsGood
    <3> QED
      BY <1>3, <2>1, <3>1, HeldIs DEF Claims
  <2>2. ASSUME NEW f \in Peers, f \in m.connected, f \notin m.evict \cup m.evicting, f \notin load.unconditional,
               m.upgrading[f] = None, u[f] = id, \A q \in Peers : q # f => u[q] = m.upgrading[q]
        PROVE  ClaimsGood(n) /\ Held(n) \subseteq Held(m)
    <3>1. \A q \in Peers : m.upgrading[q] # id
      BY Zenon, <1>1, PeersAssumption DEF ClaimsGood
    <3>2. ASSUME NEW q \in Peers, u[q] # None
          PROVE  /\ q \in m.connected /\ q \notin load.unconditional /\ u[q] \in m.dialing \cup {id}
                 /\ \A r \in Peers : u[r] = u[q] => r = q
      BY <1>1, <2>2, <3>1, <3>2 DEF ClaimsGood
    <3>3. ClaimsGood(n)
      BY <1>3, <3>2 DEF ClaimsGood
    <3>4. ASSUME NEW z \in Held(n) PROVE z \in Held(m)
      BY <1>3, <2>2, HeldIs DEF Claims
    <3> QED
      BY Zenon, <3>3, <3>4
  <2> QED
    BY Zenon, <2>1, <2>2
<1>5. SlotsGood(n)
  BY Zenon, <1>1, <1>3, <1>4, SlotsKept DEF Good
<1>6. n.dialing \subseteq load.known \cup load.added /\ n.dialing \cap n.connected \subseteq load.inbound
  BY Zenon, <1>3 DEF Good
<1> QED
  BY Zenon, <1>2, <1>3, <1>4, <1>5, <1>6 DEF Good, StoreGood

\* TryDialNext dials a peer with an address that is neither dialed nor connected.
LEMMA TryDialNextGood ==
    ASSUME NEW m, Good(m), Limits, NEW early, NEW x \in TryDialNext(m, early)
    PROVE  /\ Good(x.m) /\ x.m.connected = m.connected
           /\ \/ x.id = None /\ x.m.dialing = m.dialing
              \/ /\ x.id \in Peers /\ x.m.dialing = m.dialing \cup {x.id} /\ x.id \notin m.connected
                 /\ x.id \in load.known \cup load.added
<1> DEFINE Due(r, p) == /\ r.store[p].address /\ p \notin r.dialing \cup r.connected
                        /\ r.store[p].failures > 0 => r.store[p].wait = "no" \/ p \in early
           D(r) == {j \in 1 .. Len(r.ranked) : Due(r, r.ranked[j])}
           id(r) == r.ranked[Min(D(r))]
           from(r) == findUpgradeCandidate(r, id(r), ScoreIn(r, id(r)))
           up(r) == [q \in Peers |-> IF ~HasSlots(r) /\ q = from(r) THEN id(r) ELSE r.upgrading[q]]
<1>1. CASE ~HasUpgradeSlots(m, NumConnected(m) + Cardinality(m.dialing))
  <2>1. x = [m |-> m, id |-> None]
    BY Zenon, <1>1 DEF TryDialNext
  <2> QED
    BY <2>1
<1>2. CASE HasUpgradeSlots(m, NumConnected(m) + Cardinality(m.dialing))
  <2>1. PICK r \in Ranked(m) :
            x = IF D(r) = {} \/ (~HasSlots(r) /\ from(r) = None) THEN [m |-> r, id |-> None]
                ELSE [m |-> Dialing(r, id(r), up(r)), id |-> id(r)]
    BY Zenon, <1>2 DEF TryDialNext, Dialing
  <2>2. m \in PM /\ StoreGood(m)
    BY Zenon DEF Good
  <2>3. Kept(m, r) /\ StoreGood(r) /\ r.store = m.store /\ InOrder(r)
    BY Zenon, <2>2, RankedGood
  <2>4. Good(r) /\ r \in PM /\ r.connected = m.connected /\ r.dialing = m.dialing
    BY Zenon, <2>3, KeptGood DEF Kept
  <2>5. D(r) \subseteq 1 .. Len(r.ranked) /\ Len(r.ranked) \in Nat
    <3>1. Len(r.ranked) \in Nat
      BY <2>3 DEF InOrder
    <3> QED
      BY Zenon, <3>1
  <2>6. \A j \in D(r) : Due(r, r.ranked[j])
    BY Zenon
  <2> HIDE DEF D, Due
  <2>7. D(r) # {} => Min(D(r)) \in D(r)
    <3>1. D(r) \in SUBSET Nat
      BY <2>5
    <3> QED
      BY Zenon, <3>1, LeastNat
  <2>8. CASE x = [m |-> r, id |-> None]
    BY <2>4, <2>8
  <2>9. CASE D(r) # {} /\ ~(~HasSlots(r) /\ from(r) = None) /\ x = [m |-> Dialing(r, id(r), up(r)), id |-> id(r)]
    <3>1. Min(D(r)) \in 1 .. Len(r.ranked) /\ Due(r, id(r))
      BY Zenon, <2>5, <2>6, <2>7, <2>9
    <3>2. id(r) \in Peers /\ r.store[id(r)] # None
      BY Zenon, <2>3, <3>1 DEF InOrder
    <3> HIDE DEF id
    <3>3. r.store[id(r)] \in peerInfo
      BY <2>4, <3>2 DEF PM
    <3>4. id(r) \notin r.dialing /\ id(r) \notin r.connected /\ id(r) \in load.known \cup load.added
      BY Zenon, <2>3, <3>1, <3>2 DEF Due, StoreGood
    <3>5. \A q \in Peers : r.upgrading[q] # id(r)
      BY Zenon, <2>4, <3>2, <3>4, PeersAssumption DEF Good, ClaimsGood
    <3>6. ScoreIn(r, id(r)) \in Int /\ ScoreIn(r, id(r)) <= PeerScoreUnconditional
      BY Zenon, <3>3, ScoreBound DEF ScoreIn
    <3>7. \/ from(r) = None
          \/ /\ from(r) \in Peers /\ from(r) \in r.connected /\ from(r) \notin r.evict \cup r.evicting
             /\ r.upgrading[from(r)] = None /\ from(r) \notin load.unconditional
      BY <2>3, <2>4, <3>5, <3>6, UpgradeCandidate
    <3> HIDE DEF from
    <3>8. r.upgrading \in [Peers -> Peers \cup {None}]
      BY Zenon, <2>4 DEF PM
    <3>9. up(r) \in [Peers -> Peers \cup {None}]
      BY Zenon, <3>2, <3>8
    <3>10. \/ \A q \in Peers : up(r)[q] = r.upgrading[q]
           \/ /\ from(r) \in Peers /\ from(r) \in r.connected /\ from(r) \notin r.evict \cup r.evicting
              /\ from(r) \notin load.unconditional /\ r.upgrading[from(r)] = None /\ up(r)[from(r)] = id(r)
              /\ \A q \in Peers : q # from(r) => up(r)[q] = r.upgrading[q]
      <4>1. CASE HasSlots(r)
        BY Zenon, <4>1
      <4>2. CASE ~HasSlots(r)
        BY Zenon, <2>9, <3>7, <4>2
      <4> QED
        BY Zenon, <4>1, <4>2
    <3> HIDE DEF up
    <3>11. PICK n : n = Dialing(r, id(r), up(r))
      BY Zenon
    <3>12. Good(n) /\ n.dialing = r.dialing \cup {id(r)} /\ n.connected = r.connected
      BY <2>4, <3>2, <3>4, <3>9, <3>10, <3>11, DialingGood
    <3>13. x.m = n /\ x.id = id(r)
      BY <2>9, <3>11
    <3> QED
      BY Zenon, <2>4, <3>2, <3>4, <3>12, <3>13
  <2> QED
    BY Zenon, <2>1, <2>8, <2>9
<1> QED
  BY Zenon, <1>1, <1>2

\* The manager with other connected peers and other marks.
Marked(m, c, u, e, v, r) ==
    [m EXCEPT !.connected = c, !.upgrading = u, !.evict = e, !.evicting = v, !.ready = r]

\* The fields of a manager with new marks on its peers.
LEMMA MarkedIs ==
    ASSUME NEW m \in PM, NEW c \in SUBSET Peers, NEW u \in [Peers -> Peers \cup {None}], NEW e \in SUBSET Peers,
           NEW v \in SUBSET Peers, NEW r \in SUBSET Peers, NEW n, n = Marked(m, c, u, e, v, r)
    PROVE  /\ n \in PM /\ n.connected = c /\ n.upgrading = u /\ n.evict = e /\ n.evicting = v /\ n.ready = r
           /\ n.store = m.store /\ n.ranked = m.ranked /\ n.dialing = m.dialing
<1>1. n \in PM
  BY Zenon DEF PM, Marked
<1> QED
  BY Zenon, <1>1 DEF PM, Marked

\* Marks change on connected peers.
Marks(m, e, v, r) == [m EXCEPT !.evict = e, !.evicting = v, !.ready = r]

\* Marks on connected peers may change as long as no eviction is forgotten.
LEMMA MarksGood ==
    ASSUME NEW m, Good(m), Limits, NEW e \in SUBSET m.connected, NEW v \in SUBSET m.connected, NEW r \in SUBSET m.connected,
           m.evict \cup m.evicting \subseteq e \cup v, NEW n, n = Marks(m, e, v, r)
    PROVE  Good(n) /\ n.connected = m.connected /\ n.dialing = m.dialing
<1>1. m \in PM
  BY Zenon DEF Good
<1>2. n \in PM
  BY Zenon, <1>1 DEF PM, Marks
<1>3. /\ n.connected = m.connected /\ n.upgrading = m.upgrading /\ n.evict = e /\ n.evicting = v /\ n.ready = r
      /\ n.store = m.store /\ n.ranked = m.ranked /\ n.dialing = m.dialing
  BY Zenon, <1>1 DEF PM, Marks
<1>4. ClaimsGood(n)
  BY <1>3 DEF Good, ClaimsGood
<1>5. Held(n) \subseteq Held(m)
  BY <1>3, HeldIs DEF Claims
<1>6. SlotsGood(n)
  BY Zenon, <1>1, <1>3, <1>5, SlotsKept DEF Good
<1>7. n.ready \cup n.evict \cup n.evicting \subseteq n.connected
  BY Zenon, <1>3
<1> QED
  BY Zenon, <1>2, <1>3, <1>4, <1>6, <1>7 DEF Good, StoreGood

\* Ready marks a connected peer.
LEMMA ReadyGood ==
    ASSUME NEW m, Good(m), Limits, NEW p \in Peers, NEW n, n = Ready(m, p)
    PROVE  Good(n) /\ n.connected = m.connected /\ n.dialing = m.dialing
<1>1. CASE p \in m.connected
  <2>1. m \in PM /\ m.ready \cup m.evict \cup m.evicting \subseteq m.connected
    BY Zenon DEF Good
  <2>2. PICK e, v, r : e = m.evict /\ v = m.evicting /\ r = m.ready \cup {p}
    BY Zenon
  <2>3. n = Marks(m, e, v, r)
    BY Zenon, <1>1, <2>1, <2>2 DEF Ready, PM, Marks
  <2>4. e \in SUBSET m.connected /\ v \in SUBSET m.connected /\ r \in SUBSET m.connected
    BY Zenon, <1>1, <2>1, <2>2
  <2>5. m.evict \cup m.evicting \subseteq e \cup v
    BY Zenon, <2>2
  <2> QED
    BY <2>3, <2>4, <2>5, MarksGood
<1> QED
  BY Zenon, <1>1 DEF Ready

\* Errored schedules a connected peer for eviction.
LEMMA ErroredGood ==
    ASSUME NEW m, Good(m), Limits, NEW p \in Peers, NEW n, n = Errored(m, p)
    PROVE  Good(n) /\ n.connected = m.connected /\ n.dialing = m.dialing
<1>1. CASE p \in m.connected
  <2>1. m \in PM /\ m.ready \cup m.evict \cup m.evicting \subseteq m.connected
    BY Zenon DEF Good
  <2>2. PICK e, v, r : e = m.evict \cup {p} /\ v = m.evicting /\ r = m.ready
    BY Zenon
  <2>3. n = Marks(m, e, v, r)
    BY Zenon, <1>1, <2>1, <2>2 DEF Errored, PM, Marks
  <2>4. e \in SUBSET m.connected /\ v \in SUBSET m.connected /\ r \in SUBSET m.connected
    BY Zenon, <1>1, <2>1, <2>2
  <2>5. m.evict \cup m.evicting \subseteq e \cup v
    BY Zenon, <2>2
  <2> QED
    BY <2>3, <2>4, <2>5, MarksGood
<1> QED
  BY Zenon, <1>1 DEF Errored

\* TryEvictNext moves one mark, sweeps marks without meaning, or marks one more.
LEMMA TryEvictNextGood ==
    ASSUME NEW m, Good(m), Limits, NEW x \in TryEvictNext(m)
    PROVE  Good(x.m) /\ x.m.connected = m.connected /\ x.m.dialing = m.dialing
<1> DEFINE due == m.evict \cap (m.connected \ m.evicting)
<1>1. m \in PM /\ m.ready \cup m.evict \cup m.evicting \subseteq m.connected
  BY Zenon DEF Good
<1>2. CASE due # {}
  <2>1. PICK p \in due, dropped \in SUBSET (m.evict \ due) :
            x = [m |-> [m EXCEPT !.evict = @ \ ({p} \cup dropped), !.evicting = @ \cup {p}], id |-> p]
    BY Zenon, <1>2 DEF TryEvictNext
  <2>2. PICK e, v, r, n : /\ e = m.evict \ ({p} \cup dropped) /\ v = m.evicting \cup {p} /\ r = m.ready
                          /\ n = Marks(m, e, v, r)
    BY Zenon
  <2>3. [m EXCEPT !.evict = @ \ ({p} \cup dropped), !.evicting = @ \cup {p}] = n
    BY Zenon, <1>1, <2>2 DEF PM, Marks
  <2>4. x.m = n
    BY Zenon, <2>1, <2>3
  <2>5. e \in SUBSET m.connected /\ v \in SUBSET m.connected /\ r \in SUBSET m.connected
    BY Zenon, <1>1, <2>2
  <2>6. m.evict \cup m.evicting \subseteq e \cup v
    BY Zenon, <1>1, <2>2
  <2>7. Good(n) /\ n.connected = m.connected /\ n.dialing = m.dialing
    BY <2>2, <2>5, <2>6, MarksGood
  <2> QED
    BY Zenon, <2>4, <2>7
<1>3. CASE due = {}
  <2>1. PICK s : s = [m EXCEPT !.evict = {}]
    BY Zenon
  <2>2. s = Marks(m, {}, m.evicting, m.ready)
    BY Zenon, <1>1, <2>1 DEF PM, Marks
  <2>3. m.evict \cup m.evicting \subseteq {} \cup m.evicting
    BY Zenon, <1>1, <1>3
  <2>4. {} \in SUBSET m.connected /\ m.evicting \in SUBSET m.connected /\ m.ready \in SUBSET m.connected
    BY Zenon, <1>1
  <2>5. Good(s) /\ s.connected = m.connected /\ s.dialing = m.dialing
    BY <2>2, <2>3, <2>4, MarksGood
  <2>6. CASE x = [m |-> s, id |-> None]
    BY <2>5, <2>6
  <2>7. ASSUME NEW r \in Ranked(s), NEW p, x = [m |-> r, id |-> None]
                 \/ (x = [m |-> [r EXCEPT !.evicting = @ \cup {p}], id |-> p] /\ p \in r.connected)
        PROVE  Good(x.m) /\ x.m.connected = m.connected /\ x.m.dialing = m.dialing
    <3>1. s \in PM /\ StoreGood(s)
      BY Zenon, <2>5 DEF Good
    <3>2. Kept(s, r) /\ StoreGood(r)
      BY Zenon, <3>1, RankedGood
    <3>3. Good(r) /\ r.connected = m.connected /\ r.dialing = m.dialing
      BY Zenon, <2>5, <3>2, KeptGood DEF Kept
    <3>4. CASE x = [m |-> r, id |-> None]
      BY <3>3, <3>4
    <3>5. CASE x = [m |-> [r EXCEPT !.evicting = @ \cup {p}], id |-> p] /\ p \in r.connected
      <4>1. r \in PM /\ r.ready \cup r.evict \cup r.evicting \subseteq r.connected
        BY Zenon, <3>3 DEF Good
      <4>2. PICK v, n : v = r.evicting \cup {p} /\ n = Marks(r, r.evict, v, r.ready)
        BY Zenon
      <4>3. [r EXCEPT !.evicting = @ \cup {p}] = n
        BY Zenon, <4>1, <4>2 DEF PM, Marks
      <4>4. r.evict \in SUBSET r.connected /\ v \in SUBSET r.connected /\ r.ready \in SUBSET r.connected
        BY Zenon, <3>5, <4>1, <4>2
      <4>5. r.evict \cup r.evicting \subseteq r.evict \cup v
        BY Zenon, <4>2
      <4>6. Good(n) /\ n.connected = r.connected /\ n.dialing = r.dialing
        BY <3>3, <4>2, <4>4, <4>5, MarksGood
      <4>7. x.m = n
        BY Zenon, <3>5, <4>3
      <4> QED
        BY Zenon, <3>3, <4>6, <4>7
    <3> QED
      BY Zenon, <2>7, <3>4, <3>5
  <2>8. CASE ~(load.MaxConnected = 0 \/ NumConnected(m) - Cardinality(m.evicting) <= load.MaxConnected)
    <3> DEFINE left(r) == {i \in 1 .. Len(r.ranked) : /\ r.store[r.ranked[i]].named
                                                      /\ r.ranked[i] \in r.connected \ r.evicting}
               p(r) == r.ranked[Max(left(r))]
    <3>1. PICK r \in Ranked(s) : x = IF left(r) = {} THEN [m |-> r, id |-> None]
                                     ELSE [m |-> [r EXCEPT !.evicting = @ \cup {p(r)}], id |-> p(r)]
      BY Zenon, <1>3, <2>1, <2>8 DEF TryEvictNext
    <3>2. s \in PM /\ StoreGood(s)
      BY Zenon, <2>5 DEF Good
    <3>3. InOrder(r)
      BY Zenon, <3>2, RankedGood
    <3>4. Len(r.ranked) \in Nat
      BY <3>3 DEF InOrder
    <3>5. left(r) \subseteq 1 .. Len(r.ranked) /\ \A j \in left(r) : r.ranked[j] \in r.connected
      BY Zenon
    <3> HIDE DEF left
    <3>6. left(r) # {} => p(r) \in r.connected
      BY Zenon, <3>4, <3>5, LastIndex
    <3> HIDE DEF p
    <3> QED
      BY Zenon, <2>7, <3>1, <3>6
  <2>9. CASE load.MaxConnected = 0 \/ NumConnected(m) - Cardinality(m.evicting) <= load.MaxConnected
    BY Zenon, <1>3, <2>1, <2>6, <2>9 DEF TryEvictNext
  <2> QED
    BY Zenon, <2>8, <2>9
<1> QED
  BY Zenon, <1>2, <1>3

\* Disconnected drops the peer and every mark on it.
LEMMA DisconnectedGood ==
    ASSUME NEW m, Good(m), Limits, NEW p \in Peers, NEW n, n = Disconnected(m, p)
    PROVE  Good(n) /\ n.connected = m.connected \ {p} /\ n.dialing = m.dialing
<1>1. m \in PM /\ StoreGood(m)
  BY Zenon DEF Good
<1>2. PICK b : b = IF m.store[p] = None THEN m ELSE [m EXCEPT !.store[p].disconnections = @ + 1, !.ranked = None]
  BY Zenon
<1>3. Kept(m, b) /\ StoreGood(b)
  <2>1. CASE m.store[p] = None
    BY Zenon, <1>1, <1>2, <2>1 DEF Kept
  <2>2. CASE m.store[p] # None
    <3>1. PICK old, d, info : old = m.store[p] /\ d = old.disconnections + 1 /\ info = [old EXCEPT !.disconnections = d]
      BY Zenon
    <3>2. old \in peerInfo
      BY <1>1, <2>2, <3>1 DEF PM
    <3>3. d \in Nat
      BY <3>1, <3>2 DEF peerInfo
    <3>4. info \in peerInfo /\ info.address = old.address
      BY Zenon, <3>1, <3>2, <3>3 DEF peerInfo
    <3>5. info.address => p \in load.known \cup load.added
      BY Zenon, <1>1, <2>2, <3>1, <3>4 DEF StoreGood
    <3>6. b = Restored(m, [m.store EXCEPT ![p] = info], None)
      BY Zenon, <1>2, <2>2, <3>1 DEF Restored
    <3> QED
      BY <1>1, <3>4, <3>5, <3>6, EntryGood
  <2> QED
    BY Zenon, <2>1, <2>2
<1>4. b \in PM /\ Good(b)
  BY Zenon, <1>3, KeptGood DEF Kept
<1>5. PICK c, u, e, v, r : /\ c = b.connected \ {p} /\ u = [b.upgrading EXCEPT ![p] = None] /\ e = b.evict \ {p}
                           /\ v = b.evicting \ {p} /\ r = b.ready \ {p}
  BY Zenon
<1>6. n = Marked(b, c, u, e, v, r)
  BY Zenon, <1>2, <1>5 DEF Disconnected, Marked
<1>7. /\ c \in SUBSET Peers /\ e \in SUBSET Peers /\ v \in SUBSET Peers /\ r \in SUBSET Peers
      /\ b.upgrading \in [Peers -> Peers \cup {None}]
  BY Zenon, <1>4, <1>5 DEF PM
<1>8. u \in [Peers -> Peers \cup {None}] /\ u[p] = None /\ \A q \in Peers : q # p => u[q] = b.upgrading[q]
  BY <1>5, <1>7
<1>9. /\ n \in PM /\ n.connected = c /\ n.upgrading = u /\ n.evict = e /\ n.evicting = v /\ n.ready = r
      /\ n.store = b.store /\ n.ranked = b.ranked /\ n.dialing = b.dialing
  BY <1>4, <1>6, <1>7, <1>8, MarkedIs
<1>10. ClaimsGood(n)
  BY <1>4, <1>5, <1>8, <1>9 DEF Good, ClaimsGood
<1>11. Held(n) \subseteq Held(b)
  BY <1>5, <1>8, <1>9, HeldIs DEF Claims
<1>12. SlotsGood(n)
  BY Zenon, <1>4, <1>5, <1>9, <1>11, SlotsKept DEF Good
<1>13. n.ready \cup n.evict \cup n.evicting \subseteq n.connected
  BY Zenon, <1>4, <1>5, <1>9 DEF Good
<1>14. n.dialing \subseteq load.known \cup load.added /\ n.dialing \cap n.connected \subseteq load.inbound
  BY Zenon, <1>4, <1>5, <1>9 DEF Good
<1>15. Good(n)
  BY Zenon, <1>4, <1>9, <1>10, <1>12, <1>13, <1>14 DEF Good, StoreGood
<1> QED
  BY Zenon, <1>3, <1>5, <1>9, <1>15 DEF Kept

\* Peer p is connected, and the peers X are to be evicted.
Connects(b, n, p, X) ==
    /\ n \in PM /\ StoreGood(n)
    /\ n.connected = b.connected \cup {p} /\ n.evict = b.evict \cup X
    /\ n.evicting = b.evicting /\ n.ready = b.ready /\ n.upgrading = b.upgrading /\ n.dialing = b.dialing

\* A manager n that has let p in and evicts X is good when there was room, or someone goes.
LEMMA ConnectsGood ==
    ASSUME NEW b, Good(b), Limits, NEW p \in Peers, p \in b.dialing => p \in load.inbound, NEW X \in SUBSET b.connected,
           NEW n, Connects(b, n, p, X),
           \/ HasSlots(b)
           \/ HasUpgradeSlots(b, NumConnected(b)) /\ (TwoWay = {} => Cardinality(Held(n)) <= load.MaxConnected)
    PROVE  Good(n)
<1>1. b \in PM /\ n \in PM
  BY Zenon DEF Good, Connects
<1>2. ClaimsGood(n)
  BY DEF Good, ClaimsGood, Connects
<1>3. n.ready \cup n.evict \cup n.evicting \subseteq n.connected
  BY Zenon DEF Good, Connects
<1>4. n.dialing \subseteq load.known \cup load.added /\ n.dialing \cap n.connected \subseteq load.inbound
  BY Zenon DEF Good, Connects
<1>5. PICK U : U = b.connected \ load.unconditional
  BY Zenon
<1>6. U \in SUBSET Peers /\ n.connected \ load.unconditional \in SUBSET (U \cup {p}) /\ Held(n) \in SUBSET (U \cup {p})
  BY Zenon, <1>1, <1>5 DEF PM, Connects, Held
<1>7. /\ NumConnected(n) <= NumConnected(b) + 1 /\ Cardinality(Held(n)) <= NumConnected(b) + 1
      /\ NumConnected(b) = Cardinality(U)
  BY Zenon, <1>5, <1>6, CountedOneMore DEF NumConnected
<1>8. NumConnected(n) \in Nat /\ NumConnected(b) \in Nat /\ Cardinality(Held(n)) \in Nat
  <2>1. n.connected \ load.unconditional \in SUBSET Peers /\ Held(n) \in SUBSET Peers
    BY Zenon, <1>1 DEF PM, Held
  <2> QED
    BY Zenon, <1>6, <1>7, <2>1, Counted DEF NumConnected
<1>9. SlotsGood(n)
  BY <1>7, <1>8 DEF SlotsGood, HasSlots, HasUpgradeSlots, Limits
<1> QED
  BY Zenon, <1>1, <1>2, <1>3, <1>4, <1>9 DEF Good, Connects

Joined(s, p) == [s EXCEPT !.connected = @ \cup {p}]
ToEvict(d, f) == [d EXCEPT !.evict = @ \cup {f}]

\* p is let in, nobody goes.
LEMMA JoinedIs ==
    ASSUME NEW b, NEW s, Kept(b, s), StoreGood(s), NEW p \in Peers, NEW n, n = Joined(s, p)
    PROVE  Connects(b, n, p, {}) /\ n.store = s.store /\ n.ranked = s.ranked
<1>1. s \in PM
  BY Zenon DEF Kept
<1>2. n \in PM
  BY Zenon, <1>1 DEF PM, Joined
<1>3. /\ n.connected = s.connected \cup {p} /\ n.store = s.store /\ n.ranked = s.ranked /\ n.evict = s.evict
      /\ n.evicting = s.evicting /\ n.ready = s.ready /\ n.upgrading = s.upgrading /\ n.dialing = s.dialing
  BY Zenon, <1>1 DEF PM, Joined
<1>4. s.evict = s.evict \cup {}
  BY Zenon
<1> QED
  BY Zenon, <1>2, <1>3, <1>4 DEF Connects, Kept, StoreGood

\* And f goes for it.
LEMMA ToEvictIs ==
    ASSUME NEW b, NEW p, NEW d, Connects(b, d, p, {}), NEW f \in Peers, NEW n, n = ToEvict(d, f)
    PROVE  Connects(b, n, p, {f})
<1>1. d \in PM
  BY Zenon DEF Connects
<1>2. n \in PM
  BY Zenon, <1>1 DEF PM, ToEvict
<1>3. /\ n.connected = d.connected /\ n.store = d.store /\ n.ranked = d.ranked /\ n.evict = d.evict \cup {f}
      /\ n.evicting = d.evicting /\ n.ready = d.ready /\ n.upgrading = d.upgrading /\ n.dialing = d.dialing
  BY Zenon, <1>1 DEF PM, ToEvict
<1>4. \A e : (e \cup {}) \cup {f} = e \cup {f}
  BY Zenon
<1> QED
  BY Zenon, <1>2, <1>3, <1>4 DEF Connects, StoreGood

\* The peer f makes room for p.
LEMMA Swapped ==
    ASSUME NEW b, b \in PM, NEW p \in Peers, NEW f, f \in Held(b), f \notin b.evict \cup b.evicting, b.upgrading[f] = None,
           NEW n, Connects(b, n, p, {f})
    PROVE  Cardinality(Held(n)) <= Cardinality(Held(b))
<1>1. Held(b) \in SUBSET Peers
  BY Zenon DEF Held, PM
<1>2. Held(n) \subseteq (Held(b) \ {f}) \cup {p}
  BY HeldIs DEF Connects, Claims
<1> QED
  BY Zenon, <1>1, <1>2, CountedSwapped

\* Accepted lets a peer in that dials, or leaves the connected peers alone.
LEMMA AcceptedGood ==
    ASSUME NEW m, Good(m), Limits, NEW p \in Peers, p \in load.inbound, NEW x \in Accepted(m, p)
    PROVE  /\ Good(x.m) /\ x.m.dialing = m.dialing
           /\ \/ x.result = "ok" /\ p \notin m.connected /\ x.m.connected = m.connected \cup {p}
              \/ x.result = "connected" /\ p \in m.connected /\ x.m.connected = m.connected
              \/ x.result = "refused" /\ x.m.connected = m.connected
<1> DEFINE reset == resetFailures(m, p)
           info  == IF m.store[p] = None THEN newPeerInfo ELSE reset.store[p]
           Done(r) == Joined(Set(r, p, info), p)
           from(r) == findUpgradeCandidate(r, p, Score(info, p))
<1>1. m \in PM /\ StoreGood(m)
  BY Zenon DEF Good
<1>2. /\ Kept(m, reset) /\ StoreGood(reset)
      /\ m.store[p] # None => reset.store[p] \in peerInfo
      /\ m.store[p] # None => (reset.store[p].address => p \in load.known \cup load.added)
  BY <1>1, ResetFailuresGood
<1>3. info \in peerInfo /\ (info.address => p \in load.known \cup load.added)
  <2>1. CASE m.store[p] = None
    BY Zenon, <2>1, Entries
  <2>2. CASE m.store[p] # None
    BY Zenon, <1>2, <2>2
  <2> QED
    BY Zenon, <2>1, <2>2
<1>4. Score(info, p) \in Int /\ Score(info, p) <= PeerScoreUnconditional
  BY Zenon, <1>3, ScoreBound
<1> HIDE DEF info
<1>5. ASSUME NEW r, Kept(m, r), StoreGood(r)
      PROVE  Connects(m, Done(r), p, {})
  <2>1. PICK s : s = Set(r, p, info)
    BY Zenon
  <2>2. Kept(r, s) /\ StoreGood(s)
    BY <1>3, <1>5, <2>1, SetGood DEF Kept
  <2>3. Kept(m, s)
    BY Zenon, <1>5, <2>2 DEF Kept
  <2> QED
    BY Zenon, <2>1, <2>2, <2>3, JoinedIs
<1>6. \A n : Kept(m, n) /\ StoreGood(n) => Good(n) /\ n.dialing = m.dialing /\ n.connected = m.connected
  BY Zenon, KeptGood DEF Kept
<1>7. CASE p \in m.connected
  <2>1. x = [m |-> m, result |-> "connected"]
    BY Zenon, <1>7 DEF Accepted
  <2> QED
    BY <1>7, <2>1
<1>8. CASE p \notin m.connected /\ ~HasUpgradeSlots(m, NumConnected(m))
  <2>1. x = [m |-> m, result |-> "refused"]
    BY Zenon, <1>8 DEF Accepted
  <2> QED
    BY <2>1
<1>9. CASE p \notin m.connected /\ HasUpgradeSlots(m, NumConnected(m)) /\ HasSlots(m)
  <2>1. x = IF info.named THEN [m |-> Done(reset), result |-> "ok"] ELSE [m |-> reset, result |-> "refused"]
    BY Zenon, <1>9 DEF Accepted, Joined, info
  <2>2. CASE x = [m |-> reset, result |-> "refused"]
    <3>1. x.m = reset /\ x.result = "refused"
      BY <2>2
    <3> QED
      BY Zenon, <1>2, <1>6, <3>1
  <2>3. CASE x = [m |-> Done(reset), result |-> "ok"]
    <3>1. PICK n : n = Done(reset)
      BY Zenon
    <3>2. x.m = n /\ x.result = "ok"
      BY <2>3, <3>1
    <3>3. Connects(m, n, p, {})
      BY Zenon, <1>2, <1>5, <3>1
    <3>4. Good(n)
      BY <1>9, <3>3, ConnectsGood
    <3> QED
      BY Zenon, <1>9, <3>2, <3>3, <3>4 DEF Connects
  <2> QED
    BY Zenon, <2>1, <2>2, <2>3
<1>10. CASE p \notin m.connected /\ HasUpgradeSlots(m, NumConnected(m)) /\ ~HasSlots(m)
  <2>1. PICK r \in IF \E q \in Peers : m.upgrading[q] = p THEN {reset} ELSE Ranked(reset) :
            x = IF from(r) = None \/ ~info.named THEN [m |-> r, result |-> "refused"]
                ELSE [m |-> ToEvict(Done(r), from(r)), result |-> "ok"]
    BY Zenon, <1>10 DEF Accepted, Joined, ToEvict, info
  <2>2. /\ Kept(m, r) /\ StoreGood(r)
        /\ (\A q \in Peers : r.upgrading[q] # p) => InOrder(r)
    <3>1. CASE \E q \in Peers : m.upgrading[q] = p
      BY Zenon, <1>2, <2>1, <3>1 DEF Kept
    <3>2. CASE ~(\E q \in Peers : m.upgrading[q] = p)
      <4>1. r \in Ranked(reset) /\ reset \in PM
        BY Zenon, <1>2, <2>1, <3>2 DEF Kept
      <4>2. Kept(reset, r) /\ StoreGood(r) /\ InOrder(r)
        BY Zenon, <1>2, <4>1, RankedGood
      <4> QED
        BY Zenon, <1>2, <4>2 DEF Kept
    <3> QED
      BY Zenon, <3>1, <3>2
  <2>3. CASE x = [m |-> r, result |-> "refused"]
    <3>1. x.m = r /\ x.result = "refused"
      BY <2>3
    <3> QED
      BY Zenon, <1>6, <2>2, <3>1
  <2>4. CASE from(r) # None /\ x = [m |-> ToEvict(Done(r), from(r)), result |-> "ok"]
    <3>1. PICK f, n : f = from(r) /\ n = ToEvict(Done(r), f)
      BY Zenon
    <3>2. x.m = n /\ x.result = "ok"
      BY <2>4, <3>1
    <3>3. r \in PM
      BY Zenon, <2>2 DEF Kept
    <3>4. \/ f \in Peers /\ m.upgrading[f] = p
          \/ /\ f \in Peers /\ f \in m.connected /\ f \notin m.evict \cup m.evicting
             /\ m.upgrading[f] = None /\ f \notin load.unconditional
      <4>1. \/ f = None
            \/ f \in Peers /\ r.upgrading[f] = p
            \/ /\ f \in Peers /\ f \in r.connected /\ f \notin r.evict \cup r.evicting
               /\ r.upgrading[f] = None /\ f \notin load.unconditional /\ \A q \in Peers : r.upgrading[q] # p
        BY <1>4, <2>2, <3>1, <3>3, UpgradeCandidate
      <4> QED
        BY Zenon, <2>2, <2>4, <3>1, <4>1 DEF Kept
    <3>5. Connects(m, n, p, {f})
      <4>1. Connects(m, Done(r), p, {})
        BY Zenon, <1>5, <2>2
      <4> QED
        BY Zenon, <3>1, <3>4, <4>1, ToEvictIs
    <3>6. f \in m.connected /\ (m.upgrading[f] = p => p \in m.dialing)
      BY Zenon, <3>4, PeersAssumption DEF Good, ClaimsGood
    <3>7. TwoWay = {} => Cardinality(Held(n)) <= load.MaxConnected
      <4> SUFFICES ASSUME TwoWay = {} PROVE Cardinality(Held(n)) <= load.MaxConnected
        BY Zenon
      <4>1. p \notin m.dialing
        BY Zenon DEF TwoWay, Good
      <4>2. f \in Held(m) /\ f \notin m.evict \cup m.evicting /\ m.upgrading[f] = None
        BY Zenon, <3>4, <3>6, <4>1, HeldIs
      <4>3. Cardinality(Held(n)) <= Cardinality(Held(m))
        BY Zenon, <1>1, <3>5, <4>2, Swapped
      <4>4. load.MaxConnected > 0
        BY Zenon, <1>10 DEF HasSlots
      <4>5. Cardinality(Held(m)) <= load.MaxConnected
        BY Zenon, <4>4 DEF Good, SlotsGood
      <4>6. Held(m) \in SUBSET Peers /\ Held(n) \in SUBSET Peers
        BY Zenon, <1>1, <3>5 DEF Held, PM, Connects
      <4>7. Cardinality(Held(m)) \in Nat /\ Cardinality(Held(n)) \in Nat
        BY Zenon, <4>6, Counted
      <4> QED
        BY <4>3, <4>5, <4>7 DEF Limits
    <3>8. {f} \in SUBSET m.connected
      BY Zenon, <3>6
    <3>9. Good(n)
      BY <1>10, <3>5, <3>7, <3>8, ConnectsGood
    <3> QED
      BY Zenon, <1>10, <3>2, <3>5, <3>9 DEF Connects
  <2> QED
    BY Zenon, <2>1, <2>3, <2>4
<1> QED
  BY Zenon, <1>7, <1>8, <1>9, <1>10

\* Dialed connects the peer, or leaves the connected peers alone.
LEMMA DialedGood ==
    ASSUME NEW m, Good(m), Limits, NEW p \in Peers, NEW x \in Dialed(m, p)
    PROVE  /\ Good(x.m) /\ x.m.dialing = m.dialing \ {p}
           /\ \/ x.result = "ok" /\ p \notin m.connected /\ x.m.connected = m.connected \cup {p}
              \/ x.result = "connected" /\ p \in m.connected /\ x.m.connected = m.connected
              \/ x.result = "refused" /\ x.m.connected = m.connected
<1> DEFINE ended == endDial(m, p)
           froms == {f \in Peers : m.upgrading[f] = p}
           reset == resetFailures(ended, p)
           done  == Joined(reset, p)
           before(r) == [r EXCEPT !.connected = ended.connected]
           lower(r, f) == IF before(r).store[f] = None THEN None
                          ELSE findUpgradeCandidate(before(r), f, ScoreIn(before(r), f))
           out(r, f) == IF lower(r, f) = None THEN f ELSE lower(r, f)
<1>1. m \in PM /\ ClaimsGood(m)
  BY Zenon DEF Good
<1>2. /\ Good(ended) /\ ended.dialing = m.dialing \ {p} /\ ended.store = m.store
      /\ ended.connected = m.connected /\ ended.evict = m.evict /\ ended.evicting = m.evicting
      /\ \A q \in Peers : ended.upgrading[q] = IF m.upgrading[q] = p THEN None ELSE m.upgrading[q]
  BY EndDialGood
<1> HIDE DEF ended
<1>3. ended \in PM /\ StoreGood(ended)
  BY Zenon, <1>2 DEF Good
<1>4. Kept(ended, reset) /\ StoreGood(reset) /\ \A q \in Peers : q # p => reset.store[q] = ended.store[q]
  BY <1>3, ResetFailuresGood
<1> HIDE DEF reset
<1>5. Connects(ended, done, p, {}) /\ done.store = reset.store
  BY Zenon, <1>4, JoinedIs
<1>6. CASE p \in m.connected
  <2>1. x = [m |-> ended, result |-> "connected"]
    BY Zenon, <1>6 DEF Dialed, ended
  <2> QED
    BY <1>2, <1>6, <2>1
<1>7. CASE x = [m |-> ended, result |-> "refused"]
  BY <1>2, <1>7
<1>8. CASE p \notin m.connected /\ HasSlots(ended) /\ x = [m |-> done, result |-> "ok"]
  <2>1. Good(done)
    BY <1>2, <1>5, <1>8, ConnectsGood
  <2>2. x.m = done /\ x.result = "ok"
    BY <1>8
  <2> QED
    BY Zenon, <1>2, <1>5, <1>8, <2>1, <2>2 DEF Connects
<1>9. ASSUME p \notin m.connected, ~HasSlots(ended), HasUpgradeSlots(ended, NumConnected(ended)), NEW f \in froms,
             NEW r \in IF m.store[f] = None THEN {done} ELSE Ranked(done),
             x = [m |-> ToEvict(r, out(r, f)), result |-> "ok"]
      PROVE  /\ Good(x.m) /\ x.m.dialing = m.dialing \ {p}
             /\ x.result = "ok" /\ p \notin m.connected /\ x.m.connected = m.connected \cup {p}
  <2>1. f \in Peers /\ m.upgrading[f] = p /\ f \in m.connected /\ f # p /\ f \notin load.unconditional
    BY Zenon, <1>1, <1>9, PeersAssumption DEF ClaimsGood
  <2>2. done \in PM /\ StoreGood(done)
    BY Zenon, <1>5 DEF Connects
  <2>3. r.store = done.store /\ Connects(ended, r, p, {}) /\ (m.store[f] # None => InOrder(r))
    <3>1. CASE m.store[f] = None
      BY Zenon, <1>5, <1>9, <3>1
    <3>2. CASE m.store[f] # None
      <4>1. r \in Ranked(done)
        BY Zenon, <1>9, <3>2
      <4>2. Kept(done, r) /\ StoreGood(r) /\ r.store = done.store /\ InOrder(r)
        BY Zenon, <2>2, <4>1, RankedGood
      <4> QED
        BY Zenon, <1>5, <4>2 DEF Kept, Connects
    <3> QED
      BY Zenon, <3>1, <3>2
  <2>4. r \in PM /\ r.store[f] = m.store[f]
    <3>1. r \in PM
      BY Zenon, <2>3 DEF Connects
    <3>2. reset.store[f] = ended.store[f]
      BY Zenon, <1>4, <2>1
    <3> QED
      BY Zenon, <1>2, <1>5, <2>3, <3>1, <3>2
  <2>5. PICK b : b = before(r)
    BY Zenon
  <2>6. b \in PM /\ b.connected = ended.connected /\ b.store = r.store /\ b.ranked = r.ranked
        /\ b.upgrading = ended.upgrading /\ b.evict \cup b.evicting = ended.evict \cup ended.evicting
    <3>1. b \in PM
      BY Zenon, <1>3, <2>4, <2>5 DEF PM
    <3>2. /\ b.connected = ended.connected /\ b.store = r.store /\ b.ranked = r.ranked
          /\ b.upgrading = r.upgrading /\ b.evict = r.evict /\ b.evicting = r.evicting
      BY Zenon, <2>4, <2>5 DEF PM
    <3> QED
      BY Zenon, <2>3, <3>1, <3>2 DEF Connects
  <2>7. PICK l : l = lower(r, f)
    BY Zenon
  <2>8. \/ l = None
        \/ l \in Peers /\ ended.upgrading[l] = f
        \/ /\ l \in Peers /\ l \in ended.connected /\ l \notin ended.evict \cup ended.evicting
           /\ ended.upgrading[l] = None /\ l \notin load.unconditional
    <3>1. CASE b.store[f] = None
      BY Zenon, <2>5, <2>7, <3>1
    <3>2. CASE b.store[f] # None
      <4>1. InOrder(b)
        BY Zenon, <2>3, <2>4, <2>6, <3>2 DEF InOrder
      <4>2. b.store[f] \in peerInfo
        BY <2>1, <2>6, <3>2 DEF PM
      <4>3. ScoreIn(b, f) \in Int /\ ScoreIn(b, f) <= PeerScoreUnconditional
        BY Zenon, <4>2, ScoreBound DEF ScoreIn
      <4>4. l = findUpgradeCandidate(b, f, ScoreIn(b, f))
        BY Zenon, <2>5, <2>7, <3>2
      <4>5. \/ l = None
            \/ l \in Peers /\ b.upgrading[l] = f
            \/ /\ l \in Peers /\ l \in b.connected /\ l \notin b.evict \cup b.evicting
               /\ b.upgrading[l] = None /\ l \notin load.unconditional /\ \A q \in Peers : b.upgrading[q] # f
        BY <2>6, <4>1, <4>3, <4>4, UpgradeCandidate
      <4> QED
        BY Zenon, <2>6, <4>5
    <3> QED
      BY Zenon, <3>1, <3>2
  <2>9. PICK o, n : o = out(r, f) /\ n = ToEvict(r, o)
    BY Zenon
  <2>10. x.m = n /\ x.result = "ok" /\ o = IF l = None THEN f ELSE l
    <3>1. x.m = n /\ x.result = "ok"
      BY <1>9, <2>9
    <3> QED
      BY Zenon, <2>7, <2>9, <3>1
  <2> HIDE DEF out, lower, before
  <2>11. o \in Peers /\ o \in ended.connected
    <3>1. l \in Peers /\ ended.upgrading[l] = f => l \in ended.connected
      BY Zenon, <1>2, <2>1, PeersAssumption DEF Good, ClaimsGood
    <3> QED
      BY Zenon, <1>2, <2>1, <2>8, <2>10, <3>1
  <2>12. Connects(ended, n, p, {o})
    BY Zenon, <2>3, <2>9, <2>11, ToEvictIs
  <2>13. TwoWay = {} => Cardinality(Held(n)) <= load.MaxConnected
    <3> SUFFICES ASSUME TwoWay = {} PROVE Cardinality(Held(n)) <= load.MaxConnected
      BY Zenon
    <3>1. Held(m) \in SUBSET Peers /\ Held(ended) \in SUBSET Peers /\ Held(n) \in SUBSET Peers
      BY Zenon, <1>1, <1>3, <2>12 DEF Held, PM, Connects
    <3>2. Cardinality(Held(m)) \in Nat /\ Cardinality(Held(ended)) \in Nat /\ Cardinality(Held(n)) \in Nat
      BY Zenon, <3>1, Counted
    <3>3. load.MaxConnected > 0
      BY Zenon, <1>9 DEF HasSlots
    <3>4. Cardinality(Held(m)) <= load.MaxConnected /\ Cardinality(Held(ended)) <= load.MaxConnected
      BY Zenon, <1>2, <3>3 DEF Good, SlotsGood
    <3>5. CASE o = f
      <4>1. f \in Held(m)
        BY Zenon, <2>1, HeldIs, PeersAssumption DEF Claims
      <4>2. ended.upgrading[f] = None
        BY Zenon, <1>2, <2>1
      <4>3. Held(n) \subseteq (Held(m) \ {f}) \cup {p}
        BY <1>2, <2>12, <3>5, <4>2, HeldIs DEF Connects, Claims
      <4>4. Cardinality(Held(n)) <= Cardinality(Held(m))
        BY Zenon, <3>1, <4>1, <4>3, CountedSwapped
      <4> QED
        BY <3>2, <3>4, <4>4 DEF Limits
    <3>6. CASE l # None /\ o = l
      <4>1. f \notin ended.dialing
        BY Zenon, <1>2, <2>1 DEF TwoWay, Good
      <4>2. ~(l \in Peers /\ ended.upgrading[l] = f)
        <5>1. ClaimsGood(ended) /\ f # None
          BY Zenon, <1>2, <2>1, PeersAssumption DEF Good
        <5> QED
          BY Zenon, <4>1, <5>1 DEF ClaimsGood
      <4>3. o \in Held(ended) /\ o \notin ended.evict \cup ended.evicting /\ ended.upgrading[o] = None
        BY Zenon, <2>8, <3>6, <4>2, HeldIs
      <4>4. Cardinality(Held(n)) <= Cardinality(Held(ended))
        BY Zenon, <1>3, <2>12, <4>3, Swapped
      <4> QED
        BY <3>2, <3>4, <4>4 DEF Limits
    <3> QED
      BY Zenon, <2>10, <3>5, <3>6
  <2>14. {o} \in SUBSET ended.connected /\ p \notin ended.dialing
    BY Zenon, <1>2, <2>11
  <2>15. Good(n)
    BY <1>2, <1>9, <2>12, <2>13, <2>14, ConnectsGood
  <2> QED
    BY Zenon, <1>2, <1>9, <2>10, <2>12, <2>15 DEF Connects
<1>10. CASE p \notin m.connected
  <2>1. CASE \/ ~HasSlots(ended) /\ (froms = {} \/ ~HasUpgradeSlots(ended, NumConnected(ended)))
             \/ m.store[p] = None \/ ~m.store[p].named
    BY Zenon, <1>7, <1>10, <2>1 DEF Dialed, ended
  <2>2. CASE ~(\/ ~HasSlots(ended) /\ (froms = {} \/ ~HasUpgradeSlots(ended, NumConnected(ended)))
               \/ m.store[p] = None \/ ~m.store[p].named)
    <3>1. CASE froms = {} \/ HasSlots(ended)
      BY Zenon, <1>8, <1>10, <2>2, <3>1 DEF Dialed, ended, reset, Joined
    <3>2. CASE ~(froms = {} \/ HasSlots(ended))
      <4>1. PICK f : f = CHOOSE g \in froms : TRUE
        BY Zenon
      <4>2. f \in froms
        BY Zenon, <3>2, <4>1
      <4>3. \E r \in IF m.store[f] = None THEN {done} ELSE Ranked(done) :
                x = [m |-> ToEvict(r, out(r, f)), result |-> "ok"]
        BY Zenon, <1>10, <2>2, <3>2, <4>1 DEF Dialed, ended, reset, Joined, ToEvict
      <4> QED
        BY Zenon, <1>9, <1>10, <2>2, <3>2, <4>2, <4>3
    <3> QED
      BY Zenon, <3>1, <3>2
  <2> QED
    BY Zenon, <2>1, <2>2
<1> QED
  BY Zenon, <1>6, <1>10

-----------------------------------------------------------------------------
(***************************************************************************)
(* The connections.  Each step of the router changes one of them.          *)
(***************************************************************************)
At(k, n, c, e) == n \in [Slots -> Conn] /\ n[c] = e /\ \A d \in Slots : d # c => n[d] = k[d]

\* One connection is replaced.
LEMMA PutIs ==
    ASSUME NEW k \in [Slots -> Conn], NEW c \in Slots, NEW e \in Conn
    PROVE  At(k, [k EXCEPT ![c] = e], c, e)
BY DEF At

\* One connection goes to the stage s.
LEMMA StageIs ==
    ASSUME NEW k \in [Slots -> Conn], NEW c \in Slots, NEW s \in {"ready", "routing", "closing", "leaving"},
           NEW p, p = k[c].peer, NEW n, n = [k EXCEPT ![c].pc = s]
    PROVE  At(k, n, c, [pc |-> s, peer |-> p, queue |-> k[c].queue])
BY DEF At, Conn

\* getOrMakeQueue gives the connection the queue u.
LEMMA RoutingIs ==
    ASSUME NEW k \in [Slots -> Conn], NEW c \in Slots, NEW u \in Slots \cup {None},
           NEW p, p = k[c].peer, NEW n, n = [k EXCEPT ![c].pc = "routing", ![c].queue = u]
    PROVE  At(k, n, c, [pc |-> "routing", peer |-> p, queue |-> u])
BY Zenon DEF At, Conn

\* A connection that is let in is the first of its peer.
LEMMA LetIn ==
    ASSUME NEW k, NEW queues, NEW w, Linked(k, queues, w), NEW c \in Slots, k[c] = Free, NEW p \in Peers, p \notin w,
           NEW n, At(k, n, c, [pc |-> "opened", peer |-> p, queue |-> None])
    PROVE  Linked(n, queues, w \cup {p})
<1>1. n[c].pc = "opened" /\ n[c].peer = p /\ n[c].queue = None /\ ~Alive(k, c) /\ Alive(n, c)
  BY DEF At, Alive, Free
<1>2. \A d \in Slots : d # c => n[d] = k[d]
  BY Zenon DEF At
<1>3. ASSUME p \notin TwoWay, NEW d \in Slots, Alive(k, d) PROVE k[d].peer # p
  BY Zenon, <1>3 DEF Linked, Alone
<1>4. ASSUME NEW d \in Slots, Alive(n, d), n[d].peer \notin TwoWay PROVE Alone(n, queues, w \cup {p}, d)
  <2>1. CASE d = c
    <3>1. queues[p] = None
      BY Zenon, <1>1, <1>4, <2>1 DEF Linked
    <3>2. QueueGood(n, queues, d)
      BY <1>1, <2>1, <3>1 DEF QueueGood
    <3> QED
      BY Zenon, <1>1, <1>2, <1>3, <1>4, <2>1, <3>2 DEF Alone, Alive
  <2>2. CASE d # c
    <3>1. n[d] = k[d] /\ Alive(k, d)
      BY Zenon, <1>2, <1>4, <2>2 DEF Alive
    <3>2. Alone(k, queues, w, d)
      BY Zenon, <1>4, <3>1 DEF Linked
    <3>3. QueueGood(n, queues, d) /\ n[d].peer \in w /\ n[d].peer # p
      BY Zenon, <3>1, <3>2 DEF Alone, QueueGood
    <3> QED
      BY Zenon, <1>1, <1>2, <3>1, <3>2, <3>3 DEF Alone, Alive
  <2> QED
    BY Zenon, <2>1, <2>2
<1>5. \A d \in Slots : n[d].pc # "free" => n[d].peer \in Peers
  BY Zenon, <1>1, <1>2 DEF Linked
<1>6. \A z \in w \cup {p} : \E d \in Slots : Alive(n, d) /\ n[d].peer = z
  <2>1. ASSUME NEW z \in w PROVE \E d \in Slots : Alive(n, d) /\ n[d].peer = z
    <3>1. PICK d \in Slots : Alive(k, d) /\ k[d].peer = z
      BY Zenon DEF Linked
    <3>2. n[d] = k[d]
      BY Zenon, <1>1, <1>2, <3>1
    <3> QED
      BY Zenon, <3>1, <3>2 DEF Alive
  <2> QED
    BY Zenon, <1>1, <2>1
<1>7. \A d \in Slots : n[d].pc = "dropped" => n[d].peer \in TwoWay
  BY <1>1, <1>2 DEF Linked
<1> QED
  BY Zenon, <1>4, <1>5, <1>6, <1>7 DEF Linked, At

\* A connection that is turned away, or one that was and is given back, is not live.
LEMMA TurnedAway ==
    ASSUME NEW k, NEW queues, NEW w, Linked(k, queues, w), NEW c \in Slots, ~Alive(k, c),
           NEW n, NEW e, At(k, n, c, e), e.pc \in {"free", "errored", "dropped"},
           e.pc # "free" => e.peer \in Peers, e.pc = "dropped" => e.peer \in TwoWay
    PROVE  Linked(n, queues, w)
<1>1. n[c] = e /\ ~Alive(n, c)
  BY DEF At, Alive
<1>2. \A d \in Slots : d # c => n[d] = k[d]
  BY Zenon DEF At
<1>3. \A d \in Slots : Alive(n, d) => n[d] = k[d] /\ Alive(k, d)
  BY Zenon, <1>1, <1>2 DEF Alive
<1>4. ASSUME NEW d \in Slots, Alive(n, d), n[d].peer \notin TwoWay PROVE Alone(n, queues, w, d)
  <2>1. Alone(k, queues, w, d) /\ n[d] = k[d]
    BY Zenon, <1>3, <1>4 DEF Linked
  <2> QED
    BY Zenon, <1>3, <2>1 DEF Alone, QueueGood
<1>5. \A d \in Slots : n[d].pc # "free" => n[d].peer \in Peers
  BY <1>1, <1>2 DEF Linked
<1>6. ASSUME NEW z \in w PROVE \E d \in Slots : Alive(n, d) /\ n[d].peer = z
  <2>1. PICK d \in Slots : Alive(k, d) /\ k[d].peer = z
    BY Zenon DEF Linked
  <2>2. n[d] = k[d]
    BY Zenon, <1>2, <2>1
  <2> QED
    BY Zenon, <2>1, <2>2 DEF Alive
<1>7. \A d \in Slots : n[d].pc = "dropped" => n[d].peer \in TwoWay
  BY Zenon, <1>1, <1>2 DEF Linked
<1> QED
  BY Zenon, <1>4, <1>5, <1>6, <1>7 DEF Linked, At

\* The manager forgets the peer of a connection that is given back.
LEMMA GivenBack ==
    ASSUME NEW k, NEW queues, NEW w, Linked(k, queues, w), NEW c \in Slots, k[c].pc \in {"dropped", "leaving"},
           NEW n, At(k, n, c, Free)
    PROVE  Linked(n, queues, w \ {k[c].peer})
<1> DEFINE p == k[c].peer
<1>1. n[c].pc = "free" /\ ~Alive(n, c)
  BY DEF At, Alive, Free
<1>2. \A d \in Slots : d # c => n[d] = k[d]
  BY Zenon DEF At
<1>3. \A d \in Slots : Alive(n, d) => n[d] = k[d] /\ Alive(k, d) /\ d # c
  BY Zenon, <1>1, <1>2 DEF Alive
<1>4. p \in TwoWay \/ (Alive(k, c) /\ k[c].pc = "leaving" /\ Alone(k, queues, w, c))
  <2>1. k[c].pc = "leaving" => Alive(k, c)
    BY DEF Alive
  <2> QED
    BY Zenon, <2>1 DEF Linked
<1>5. ASSUME NEW d \in Slots, Alive(n, d), n[d].peer \notin TwoWay PROVE Alone(n, queues, w \ {p}, d)
  <2>1. Alone(k, queues, w, d) /\ n[d] = k[d] /\ Alive(k, d) /\ d # c
    BY Zenon, <1>3, <1>5 DEF Linked
  <2>2. k[d].peer # p
    BY Zenon, <1>4, <1>5, <2>1 DEF Alone
  <2>3. QueueGood(n, queues, d) /\ n[d].peer \in w \ {p}
    BY Zenon, <2>1, <2>2 DEF Alone, QueueGood
  <2> QED
    BY Zenon, <1>3, <2>1, <2>3 DEF Alone
<1>6. \A d \in Slots : n[d].pc # "free" => n[d].peer \in Peers
  BY Zenon, <1>1, <1>2 DEF Linked
<1>7. ASSUME NEW z \in w \ {p} PROVE \E d \in Slots : Alive(n, d) /\ n[d].peer = z
  BY Zenon, <1>2 DEF Linked, Alive
<1>8. \A d \in Slots : n[d].pc = "dropped" => n[d].peer \in TwoWay
  BY <1>1, <1>2 DEF Linked
<1>9. ASSUME NEW z \in Peers, z \notin TwoWay, z \notin w \ {p} PROVE queues[z] = None
  <2>1. CASE z \notin w
    BY Zenon, <1>9, <2>1 DEF Linked
  <2>2. CASE z = p
    <3>1. QueueGood(k, queues, c) /\ k[c].pc = "leaving"
      BY Zenon, <1>4, <1>9, <2>2 DEF Alone
    <3> QED
      BY <2>2, <3>1 DEF QueueGood
  <2> QED
    BY Zenon, <1>9, <2>1, <2>2
<1> QED
  BY Zenon, <1>5, <1>6, <1>7, <1>8, <1>9 DEF Linked, At

\* A live connection goes on to its next stage, with the queues to match.
LEMMA GoesOn ==
    ASSUME NEW k, NEW queues, NEW w, Linked(k, queues, w), NEW c \in Slots, Alive(k, c),
           NEW n, NEW e, At(k, n, c, e), e.peer = k[c].peer, Alive(n, c),
           NEW r \in [Peers -> Slots \cup {None}], \A z \in Peers : z # e.peer => r[z] = queues[z],
           e.peer \notin TwoWay => QueueGood(n, r, c)
    PROVE  Linked(n, r, w)
<1>1. n[c] = e
  BY Zenon DEF At
<1>2. \A d \in Slots : d # c => n[d] = k[d]
  BY Zenon DEF At
<1>3. \A d \in Slots : n[d].peer = k[d].peer /\ (Alive(n, d) <=> Alive(k, d))
  BY Zenon, <1>1, <1>2 DEF Alive
<1>4. k[c].pc # "free" /\ n[c].pc # "free" /\ n[c].pc # "dropped"
  BY DEF Alive
<1>5. \A d \in Slots : n[d].pc # "free" => n[d].peer \in Peers
  BY Zenon, <1>2, <1>3, <1>4 DEF Linked
<1>6. ASSUME NEW z \in w PROVE \E d \in Slots : Alive(n, d) /\ n[d].peer = z
  <2>1. PICK d \in Slots : Alive(k, d) /\ k[d].peer = z
    BY Zenon DEF Linked
  <2> QED
    BY Zenon, <1>3, <2>1
<1>7. ASSUME NEW d \in Slots, n[d].pc = "dropped" PROVE n[d].peer \in TwoWay
  BY Zenon, <1>2, <1>4, <1>7 DEF Linked
<1>8. ASSUME NEW d \in Slots, Alive(n, d), n[d].peer \notin TwoWay PROVE Alone(n, r, w, d)
  <2>1. Alone(k, queues, w, d)
    BY Zenon, <1>3, <1>8 DEF Linked
  <2>2. QueueGood(n, r, d)
    <3>1. CASE d = c
      BY Zenon, <1>1, <1>8, <3>1
    <3>2. CASE d # c
      <4>1. k[d].peer # e.peer /\ k[d].peer \in Peers
        BY Zenon, <1>3, <1>4, <1>5, <1>8, <2>1, <3>2 DEF Alone, Alive
      <4>2. n[d] = k[d] /\ r[k[d].peer] = queues[k[d].peer]
        BY Zenon, <1>2, <3>2, <4>1
      <4> QED
        BY Zenon, <2>1, <4>2 DEF Alone, QueueGood
    <3> QED
      BY Zenon, <3>1, <3>2
  <2> QED
    BY Zenon, <1>3, <2>1, <2>2 DEF Alone
<1>9. ASSUME NEW z \in Peers, z \notin TwoWay, z \notin w PROVE r[z] = None
  <2>1. z # e.peer
    <3>1. k[c].peer \notin TwoWay => k[c].peer \in w
      BY Zenon DEF Linked, Alone
    <3> QED
      BY Zenon, <1>9, <3>1
  <2> QED
    BY Zenon, <1>9, <2>1 DEF Linked
<1> QED
  BY Zenon, <1>5, <1>6, <1>7, <1>8, <1>9 DEF Linked, At

-----------------------------------------------------------------------------
(***************************************************************************)
(* The router                                                              *)
(***************************************************************************)

\* What holds of the values after a step holds after the step.
LEMMA NextState ==
    ASSUME load' = load, Limits, NEW m, m = pm', Good(m), m.dialing = dials',
           NEW k, k = conns', NEW queues, queues = peerQueues', Linked(k, queues, m.connected)
    PROVE  RouterInv'
<1>1. TwoWay' = TwoWay
  BY Zenon DEF TwoWay
<1>2. Limits'
  BY Zenon DEF Limits
<1>3. Good(pm)'
  <2>1. StoreGood(pm)'
    BY Zenon DEF Good, StoreGood
  <2>2. ClaimsGood(pm)'
    BY Zenon DEF Good, ClaimsGood
  <2>3. Held(pm)' = Held(m) /\ NumConnected(pm)' = NumConnected(m)
    BY Zenon DEF Held, NumConnected, isUnconditional
  <2>4. SlotsGood(pm)'
    BY Zenon, <1>1, <2>3 DEF Good, SlotsGood
  <2> QED
    BY Zenon, <2>1, <2>2, <2>4 DEF Good
<1>4. ConnsGood'
  <2>1. ASSUME NEW c PROVE Alive(conns, c)' = Alive(k, c)
    BY Zenon DEF Alive
  <2>2. ASSUME NEW c PROVE Alone(conns, peerQueues, pm.connected, c)' = Alone(k, queues, m.connected, c)
    BY Zenon DEF Alone, Alive, QueueGood
  <2> QED
    BY Zenon, <1>1, <2>1, <2>2 DEF ConnsGood, Linked
<1> QED
  BY Zenon, <1>2, <1>3, <1>4 DEF RouterInv

\* The next state when the connections stay.
LEMMA SameConns ==
    ASSUME RouterInv, load' = load, NEW m, m = pm', Good(m), m.dialing = dials', m.connected = pm.connected,
           UNCHANGED <<conns, peerQueues>>
    PROVE  RouterInv'
<1>1. Linked(conns, peerQueues, m.connected) /\ Limits
  BY Zenon DEF RouterInv, ConnsGood
<1>2. PICK k, queues : k = conns /\ queues = peerQueues
  BY Zenon
<1>3. k = conns' /\ queues = peerQueues' /\ Linked(k, queues, m.connected)
  BY Zenon, <1>1, <1>2
<1> QED
  BY <1>1, <1>3, NextState

\* The node starts with the peers it knows, none of them connected.
LEMMA RouterInitInv ==
    ASSUME Limits, RouterInit
    PROVE  RouterInv
<1> DEFINE s == [p \in Peers |-> IF p \in load.known THEN [newPeerInfo EXCEPT !.address = TRUE] ELSE None]
           none == [p \in Peers |-> None]
<1>1. [newPeerInfo EXCEPT !.address = TRUE] \in peerInfo
  BY Zenon, Entries
<1>2. s \in [Peers -> peerInfo \cup {None}] /\ none \in [Peers -> Peers \cup {None}] /\ \A p \in Peers : none[p] = None
  BY Zenon, <1>1
<1>3. \A p \in Peers : s[p] # None => p \in load.known
  BY Zenon
<1> HIDE DEF s, none
<1>4. pm = [store |-> s, ranked |-> None, dialing |-> {}, upgrading |-> none, connected |-> {},
            ready |-> {}, evict |-> {}, evicting |-> {}]
  BY Zenon DEF RouterInit, NewPeerManager, s, none
<1>5. /\ pm.store = s /\ pm.ranked = None /\ pm.dialing = {} /\ pm.upgrading = none /\ pm.connected = {}
      /\ pm.ready = {} /\ pm.evict = {} /\ pm.evicting = {}
  BY <1>4
<1>6. pm \in PM
  BY Zenon, <1>2, <1>4 DEF PM
<1>7. StoreGood(pm) /\ ClaimsGood(pm)
  BY Zenon, <1>2, <1>3, <1>5 DEF StoreGood, ClaimsGood
<1>8. SlotsGood(pm)
  <2>1. Held(pm) = {} /\ NumConnected(pm) = Cardinality({})
    <3>1. Held(pm) = {}
      BY Zenon, <1>5 DEF Held
    <3>2. pm.connected \ load.unconditional = {}
      BY Zenon, <1>5
    <3> QED
      BY Zenon, <3>1, <3>2 DEF NumConnected
  <2>2. Cardinality({}) = 0
    BY FS_EmptySet
  <2> QED
    BY <2>1, <2>2 DEF SlotsGood, Limits
<1>9. Good(pm)
  <2>1. pm.ready \cup pm.evict \cup pm.evicting \subseteq pm.connected /\ pm.dialing \subseteq load.known \cup load.added
        /\ pm.dialing \cap pm.connected \subseteq load.inbound
    BY <1>5
  <2> QED
    BY Zenon, <1>6, <1>7, <1>8, <2>1 DEF Good
<1>10. ConnsGood
  <2>1. Free \in Conn
    BY DEF Free, Conn
  <2>2. conns = [c \in Slots |-> Free] /\ peerQueues = [p \in Peers |-> None]
    BY Zenon DEF RouterInit
  <2>3. conns \in [Slots -> Conn] /\ peerQueues \in [Peers -> Slots \cup {None}]
    BY <2>1, <2>2
  <2>4. \A c \in Slots : conns[c] = Free
    BY <2>2
  <2>5. \A p \in Peers : peerQueues[p] = None
    BY <2>2
  <2>6. \A c \in Slots : conns[c].pc = "free" /\ ~Alive(conns, c)
    BY <2>4 DEF Free, Alive
  <2>7. \A c \in Slots : conns[c].pc # "dropped"
    BY <2>4 DEF Free
  <2> QED
    BY Zenon, <1>5, <2>3, <2>5, <2>6, <2>7 DEF ConnsGood, Linked
<1> QED
  BY Zenon, <1>5, <1>9, <1>10 DEF RouterInv, RouterInit

\* Time passes for the peer p.
Waited(m, p, s) == [m EXCEPT !.store[p].wait = s]

\* A delay is over, or may be.
LEMMA WaitGood ==
    ASSUME NEW m, Good(m), NEW p \in Peers, m.store[p] # None, NEW s \in {"maybe", "no"},
           NEW n, n = Waited(m, p, s)
    PROVE  Good(n) /\ n.connected = m.connected /\ n.dialing = m.dialing
<1>1. m \in PM /\ StoreGood(m)
  BY Zenon DEF Good
<1>2. PICK info : info = [m.store[p] EXCEPT !.wait = s]
  BY Zenon
<1>3. m.store[p] \in peerInfo
  BY <1>1 DEF PM
<1>4. info \in peerInfo /\ info.address = m.store[p].address
  BY Zenon, <1>2, <1>3 DEF peerInfo
<1>5. info.address => p \in load.known \cup load.added
  BY Zenon, <1>1, <1>4 DEF StoreGood
<1>6. n = Restored(m, [m.store EXCEPT ![p] = info], m.ranked)
  BY Zenon, <1>1, <1>2 DEF Waited, Restored, PM
<1>7. Kept(m, n) /\ StoreGood(n)
  BY <1>1, <1>4, <1>5, <1>6, EntryGood
<1> QED
  BY Zenon, <1>7, KeptGood DEF Kept

\* Steps that leave the connections alone.
LEMMA DialsInv ==
    ASSUME RouterInv, DialNext \/ \E p \in Peers : ConnectFails(p) \/ RetryTimer(p) \/ DelayPasses(p)
    PROVE  RouterInv'
<1>1. PICK m, n : m = pm /\ n = pm'
  BY Zenon
<1>2. Good(m) /\ Limits /\ m.dialing = dials
  BY Zenon, <1>1 DEF RouterInv
<1>3. CASE DialNext
  <2>1. PICK early : \E x \in TryDialNext(m, early) : n = x.m /\ dials' = IF x.id = None THEN dials ELSE dials \cup {x.id}
    BY Zenon, <1>1, <1>3 DEF DialNext
  <2>2. PICK x \in TryDialNext(m, early) : n = x.m /\ dials' = IF x.id = None THEN dials ELSE dials \cup {x.id}
    BY Zenon, <2>1
  <2>3. /\ Good(n) /\ n.connected = m.connected
        /\ \/ x.id = None /\ n.dialing = m.dialing
           \/ x.id \in Peers /\ n.dialing = m.dialing \cup {x.id}
    BY <1>2, <2>2, TryDialNextGood
  <2>4. n.dialing = dials'
    BY Zenon, <1>2, <2>2, <2>3, PeersAssumption
  <2>5. UNCHANGED <<load, conns, peerQueues>>
    BY Zenon, <1>3 DEF DialNext, connVars
  <2> QED
    BY Zenon, <1>1, <2>3, <2>4, <2>5, SameConns
<1>4. ASSUME NEW p \in Peers, ConnectFails(p) PROVE RouterInv'
  <2>1. dials' = dials \ {p} /\ \E x \in DialFailed(m, p) : n = x.m
    BY Zenon, <1>1, <1>4 DEF ConnectFails
  <2>2. Good(n) /\ n.connected = m.connected /\ n.dialing = dials'
    BY <1>2, <2>1, DialFailedGood
  <2>3. UNCHANGED <<load, conns, peerQueues>>
    BY Zenon, <1>4 DEF ConnectFails, connVars
  <2> QED
    BY Zenon, <1>1, <2>2, <2>3, SameConns
<1>5. ASSUME NEW p \in Peers, NEW s \in {"maybe", "no"},
             n = m \/ (m.store[p] # None /\ n = Waited(m, p, s)),
             UNCHANGED <<load, dials, conns, peerQueues>>
      PROVE  RouterInv'
  <2>1. Good(n) /\ n.connected = m.connected /\ n.dialing = m.dialing
    BY <1>2, <1>5, WaitGood
  <2> QED
    BY Zenon, <1>1, <1>2, <1>5, <2>1, SameConns
<1>6. ASSUME NEW p \in Peers, RetryTimer(p) PROVE RouterInv'
  <2>1. PICK s : s = IF load.RetryTimeJitter > 0 THEN "maybe" ELSE "no"
    BY Zenon
  <2>2. n = m \/ (m.store[p] # None /\ n = Waited(m, p, s))
    BY Zenon, <1>1, <1>6, <2>1 DEF RetryTimer, Waited
  <2>3. UNCHANGED <<load, dials, conns, peerQueues>>
    BY Zenon, <1>6 DEF RetryTimer, connVars
  <2>4. s \in {"maybe", "no"}
    BY Zenon, <2>1
  <2> QED
    BY Zenon, <1>5, <2>2, <2>3, <2>4
<1>7. ASSUME NEW p \in Peers, DelayPasses(p) PROVE RouterInv'
  <2>1. m.store[p] # None /\ n = Waited(m, p, "no")
    BY Zenon, <1>1, <1>7 DEF DelayPasses, Waited
  <2>2. UNCHANGED <<load, dials, conns, peerQueues>>
    BY Zenon, <1>7 DEF DelayPasses, connVars, dialVars
  <2> QED
    BY Zenon, <1>5, <2>1, <2>2
<1> QED
  BY Zenon, <1>3, <1>4, <1>6, <1>7

\* Evictions, reports about peers and new addresses.
LEMMA ReportsInv ==
    ASSUME RouterInv,
           EvictNext \/ \E p \in Peers : \/ WrongNetwork(p) \/ PeerGood(p) \/ AddPeer(p)
                                        \/ \E evict \in BOOLEAN : Judged([peer |-> p, evict |-> evict])
    PROVE  RouterInv'
<1>1. PICK m, n : m = pm /\ n = pm'
  BY Zenon
<1>2. Good(m) /\ Limits /\ m.dialing = dials
  BY Zenon, <1>1 DEF RouterInv
<1> SUFFICES Good(n) /\ n.connected = m.connected /\ n.dialing = m.dialing /\ UNCHANGED <<load, dials, conns, peerQueues>>
  BY Zenon, <1>1, <1>2, SameConns
<1>3. UNCHANGED <<load, dials, conns, peerQueues>>
  BY Zenon DEF EvictNext, WrongNetwork, Judged, PeerGood, AddPeer, connVars, dialVars
<1>4. CASE EvictNext
  <2>1. PICK x \in TryEvictNext(m) : n = x.m
    BY Zenon, <1>1, <1>4 DEF EvictNext
  <2> QED
    BY Zenon, <1>2, <1>3, <2>1, TryEvictNextGood
<1>5. ASSUME NEW p \in Peers, PeerGood(p) \/ \E evict \in BOOLEAN : Judged([peer |-> p, evict |-> evict])
      PROVE  Good(n) /\ n.connected = m.connected /\ n.dialing = m.dialing
  <2>1. n = Errored(m, p) \/ n = processPeerEvent(m, p, -1) \/ n = processPeerEvent(m, p, 1)
    BY Zenon, <1>1, <1>5 DEF Judged, PeerGood
  <2>2. -1 \in Int /\ 1 \in Int
    OBVIOUS
  <2> QED
    <3>1. CASE n = Errored(m, p)
      BY <1>2, <3>1, ErroredGood
    <3>2. CASE n = processPeerEvent(m, p, -1) \/ n = processPeerEvent(m, p, 1)
      BY <1>2, <2>2, <3>2, PeerEventGood
    <3> QED
      BY Zenon, <2>1, <3>1, <3>2
<1>6. ASSUME NEW p \in Peers, AddPeer(p)
      PROVE  Good(n) /\ n.connected = m.connected /\ n.dialing = m.dialing
  <2>1. p \in load.added /\ n \in Add(m, p)
    BY Zenon, <1>1, <1>6 DEF AddPeer
  <2> QED
    BY Zenon, <1>2, <2>1, AddGood
<1>7. ASSUME NEW p \in Peers, WrongNetwork(p)
      PROVE  Good(n) /\ n.connected = m.connected /\ n.dialing = m.dialing
  <2>1. n = Delete(m, p) /\ m \in PM /\ StoreGood(m)
    BY Zenon, <1>1, <1>2, <1>7 DEF WrongNetwork, Good
  <2>2. Kept(m, n) /\ StoreGood(n)
    BY <2>1, DeleteGood
  <2> QED
    BY Zenon, <1>2, <2>2, KeptGood DEF Kept
<1> QED
  BY Zenon, <1>3, <1>4, <1>5, <1>6, <1>7

\* Steps that change nothing here: a wakeup, closing a queue, and judging an error.
LEMMA StayInv ==
    ASSUME RouterInv, DialWakes \/ EvictWakes \/ CloseQueue \/ (\E p \in Peers : PeerError(p)) \/ UNCHANGED vars
    PROVE  RouterInv'
<1>1. PICK m : m = pm
  BY Zenon
<1>2. UNCHANGED <<load, pm, dials, conns, peerQueues>>
  BY Zenon DEF DialWakes, EvictWakes, CloseQueue, PeerError, vars, connVars, dialVars
<1>3. Good(m) /\ m.dialing = dials
  BY Zenon, <1>1 DEF RouterInv
<1> QED
  BY Zenon, <1>1, <1>2, <1>3, SameConns

\* Open takes a free slot.
LEMMA OpenIs ==
    ASSUME RouterInv, NEW p \in Peers, NEW pc \in {"opened", "errored", "dropped"}, Open(p, pc)
    PROVE  /\ peerQueues' = peerQueues
           /\ \E c \in Slots : conns[c] = Free /\ At(conns, conns', c, [pc |-> pc, peer |-> p, queue |-> None])
<1> DEFINE unused == {c \in Slots : conns[c] = Free /\ \A d \in Slots : conns[d].queue # c}
<1>1. PICK c : c = Min(unused)
  BY Zenon
<1>2. unused # {} /\ conns' = [conns EXCEPT ![c] = [pc |-> pc, peer |-> p, queue |-> None]] /\ peerQueues' = peerQueues
  BY Zenon, <1>1 DEF Open
<1>3. unused \in SUBSET Nat
  BY Zenon, SlotsAssumption
<1>4. c \in unused
  BY Zenon, <1>1, <1>2, <1>3, LeastNat
<1>5. c \in Slots /\ conns[c] = Free
  BY Zenon, <1>4
<1>6. [pc |-> pc, peer |-> p, queue |-> None] \in Conn
  BY DEF Conn
<1>7. conns \in [Slots -> Conn]
  BY Zenon DEF RouterInv, ConnsGood, Linked
<1>8. At(conns, conns', c, [pc |-> pc, peer |-> p, queue |-> None])
  BY Zenon, <1>2, <1>5, <1>6, <1>7, PutIs
<1> QED
  BY Zenon, <1>2, <1>5, <1>8

\* The manager lets a new connection in, or turns it away.
LEMMA NewConnection ==
    ASSUME RouterInv, load' = load, NEW p \in Peers, NEW n, n = pm', Good(n), n.dialing = dials',
           NEW result, NEW away \in {"errored", "dropped"}, away = "dropped" => (p \in pm.connected => p \in TwoWay),
           \/ result = "ok" /\ p \notin pm.connected /\ n.connected = pm.connected \cup {p}
           \/ result = "connected" /\ p \in pm.connected /\ n.connected = pm.connected
           \/ result = "refused" /\ n.connected = pm.connected,
           CASE result = "ok" -> Open(p, "opened")
             [] result = "connected" -> Open(p, away)
             [] OTHER -> UNCHANGED connVars
    PROVE  RouterInv'
<1>1. PICK k, l, queues, w : k = conns /\ l = conns' /\ queues = peerQueues /\ w = pm.connected
  BY Zenon
<1>2. Linked(k, queues, w) /\ Limits
  BY Zenon, <1>1 DEF RouterInv, ConnsGood
<1>3. CASE result = "ok"
  <2>1. Open(p, "opened") /\ p \notin w /\ n.connected = w \cup {p}
    BY Zenon, <1>1, <1>3
  <2>2. /\ peerQueues' = queues
        /\ \E c \in Slots : k[c] = Free /\ At(k, l, c, [pc |-> "opened", peer |-> p, queue |-> None])
    BY Zenon, <1>1, <2>1, OpenIs
  <2>3. Linked(l, queues, n.connected)
    BY <1>2, <2>1, <2>2, LetIn
  <2> QED
    BY Zenon, <1>1, <1>2, <2>2, <2>3, NextState
<1>4. CASE result = "connected"
  <2>1. Open(p, away) /\ p \in w /\ n.connected = w
    BY Zenon, <1>1, <1>4
  <2>2. peerQueues' = queues /\ \E c \in Slots : k[c] = Free /\ At(k, l, c, [pc |-> away, peer |-> p, queue |-> None])
    BY Zenon, <1>1, <2>1, OpenIs
  <2>3. PICK c \in Slots : k[c] = Free /\ At(k, l, c, [pc |-> away, peer |-> p, queue |-> None])
    BY Zenon, <2>2
  <2>4. PICK e : e = [pc |-> away, peer |-> p, queue |-> None]
    BY Zenon
  <2>5. e.pc = away /\ e.peer = p
    BY <2>4
  <2>6. ~Alive(k, c)
    BY <2>3 DEF Alive, Free
  <2>7. away = "dropped" => p \in TwoWay
    BY Zenon, <1>1, <2>1
  <2>8. Linked(l, queues, w)
    BY <1>2, <2>3, <2>4, <2>5, <2>6, <2>7, TurnedAway
  <2> QED
    BY Zenon, <1>1, <1>2, <2>1, <2>2, <2>8, NextState
<1>5. CASE result # "ok" /\ result # "connected"
  <2>1. UNCHANGED <<conns, peerQueues>> /\ n.connected = pm.connected
    BY Zenon, <1>5 DEF connVars
  <2> QED
    BY Zenon, <2>1, SameConns
<1> QED
  BY Zenon, <1>3, <1>4, <1>5

\* A dial succeeds: a peer that is connected already dials as well.
LEMMA ConnectInv ==
    ASSUME RouterInv, NEW p \in Peers, Connect(p)
    PROVE  RouterInv'
<1>1. PICK m, n : m = pm /\ n = pm'
  BY Zenon
<1>2. Good(m) /\ Limits /\ m.dialing = dials /\ p \in m.dialing
  BY Zenon, <1>1 DEF RouterInv, Connect
<1>3. PICK x \in Dialed(m, p) : n = x.m /\ CASE x.result = "ok" -> Open(p, "opened")
                                             [] x.result = "connected" -> Open(p, "dropped")
                                             [] OTHER -> UNCHANGED connVars
  BY Zenon, <1>1 DEF Connect
<1>4. /\ Good(n) /\ n.dialing = m.dialing \ {p}
      /\ \/ x.result = "ok" /\ p \notin m.connected /\ n.connected = m.connected \cup {p}
         \/ x.result = "connected" /\ p \in m.connected /\ n.connected = m.connected
         \/ x.result = "refused" /\ n.connected = m.connected
  BY <1>2, <1>3, DialedGood
<1>5. p \in m.connected => p \in TwoWay
  BY Zenon, <1>2 DEF TwoWay, Good
<1>6. load' = load /\ dials' = dials \ {p}
  BY Zenon DEF Connect
<1> QED
  BY <1>1, <1>2, <1>3, <1>4, <1>5, <1>6, NewConnection

\* A peer dials the node.
LEMMA AcceptInv ==
    ASSUME RouterInv, NEW p \in Peers, Accept(p)
    PROVE  RouterInv'
<1>1. PICK m, n : m = pm /\ n = pm'
  BY Zenon
<1>2. Good(m) /\ Limits /\ m.dialing = dials /\ p \in load.inbound
  BY Zenon, <1>1 DEF RouterInv, Accept
<1>3. PICK x \in Accepted(m, p) : n = x.m /\ CASE x.result = "ok" -> Open(p, "opened")
                                               [] x.result = "connected" -> Open(p, "errored")
                                               [] OTHER -> UNCHANGED connVars
  BY Zenon, <1>1 DEF Accept
<1>4. /\ Good(n) /\ n.dialing = m.dialing
      /\ \/ x.result = "ok" /\ p \notin m.connected /\ n.connected = m.connected \cup {p}
         \/ x.result = "connected" /\ p \in m.connected /\ n.connected = m.connected
         \/ x.result = "refused" /\ n.connected = m.connected
  BY Zenon, <1>2, <1>3, AcceptedGood
<1>5. load' = load /\ dials' = dials
  BY Zenon DEF Accept, dialVars
<1> QED
  BY <1>1, <1>2, <1>3, <1>4, <1>5, NewConnection

\* A connection that was turned away, or is over, is given back.
LEMMA FreedInv ==
    ASSUME RouterInv, NEW c \in Slots, DuplicateAccepted(c) \/ DuplicateDialed(c) \/ RouteDisconnected(c)
    PROVE  RouterInv'
<1>1. PICK m, n, k, l, queues, w, p : /\ m = pm /\ n = pm' /\ k = conns /\ l = conns'
                                      /\ queues = peerQueues /\ w = m.connected /\ p = k[c].peer
  BY Zenon
<1>2. Good(m) /\ Limits /\ m.dialing = dials /\ Linked(k, queues, w)
  BY Zenon, <1>1 DEF RouterInv, ConnsGood
<1>3. UNCHANGED <<load, dials, peerQueues>> /\ l = [k EXCEPT ![c] = Free]
  BY Zenon, <1>1 DEF DuplicateAccepted, DuplicateDialed, RouteDisconnected, dialVars
<1>4. k[c].pc \in {"errored", "dropped", "leaving"}
  BY Zenon, <1>1 DEF DuplicateAccepted, DuplicateDialed, RouteDisconnected
<1>5. k \in [Slots -> Conn] /\ p \in Peers
  BY <1>1, <1>2, <1>4 DEF Linked
<1>6. Free \in Conn /\ Free.pc = "free"
  BY DEF Free, Conn
<1>7. At(k, l, c, Free)
  BY Zenon, <1>3, <1>5, <1>6, PutIs
<1>8. CASE DuplicateAccepted(c)
  <2>1. k[c].pc = "errored" /\ n = Errored(m, p)
    BY Zenon, <1>1, <1>8 DEF DuplicateAccepted
  <2>2. Good(n) /\ n.connected = w /\ n.dialing = m.dialing
    BY <1>1, <1>2, <1>5, <2>1, ErroredGood
  <2>3. ~Alive(k, c)
    BY <2>1 DEF Alive
  <2>4. Linked(l, queues, n.connected)
    BY <1>2, <1>6, <1>7, <2>2, <2>3, TurnedAway
  <2> QED
    BY Zenon, <1>1, <1>2, <1>3, <2>2, <2>4, NextState
<1>9. CASE DuplicateDialed(c) \/ RouteDisconnected(c)
  <2>1. k[c].pc \in {"dropped", "leaving"} /\ n = Disconnected(m, p)
    BY Zenon, <1>1, <1>9 DEF DuplicateDialed, RouteDisconnected
  <2>2. Good(n) /\ n.connected = w \ {p} /\ n.dialing = m.dialing
    BY <1>1, <1>2, <1>5, <2>1, DisconnectedGood
  <2>3. Linked(l, queues, w \ {k[c].peer})
    BY <1>2, <1>7, <2>1, GivenBack
  <2>4. Linked(l, queues, n.connected)
    BY Zenon, <1>1, <2>2, <2>3
  <2> QED
    BY Zenon, <1>1, <1>2, <1>3, <2>2, <2>4, NextState
<1> QED
  BY Zenon, <1>8, <1>9

\* A connection goes through its stages.
LEMMA RoutesInv ==
    ASSUME RouterInv, NEW c \in Slots, RouteReady(c) \/ getOrMakeQueue(c) \/ RouteEnds(c) \/ RouteCleanup(c)
    PROVE  RouterInv'
<1>1. PICK m, n, k, l, queues, r, w, p : /\ m = pm /\ n = pm' /\ k = conns /\ l = conns'
                                         /\ queues = peerQueues /\ r = peerQueues' /\ w = m.connected /\ p = k[c].peer
  BY Zenon
<1>2. Good(m) /\ Limits /\ m.dialing = dials /\ Linked(k, queues, w)
  BY Zenon, <1>1 DEF RouterInv, ConnsGood
<1>3. UNCHANGED <<load, dials>>
  BY Zenon DEF RouteReady, getOrMakeQueue, RouteEnds, RouteCleanup, dialVars
<1>4. k[c].pc \in {"opened", "ready", "routing", "closing"}
  BY Zenon, <1>1 DEF RouteReady, getOrMakeQueue, RouteEnds, RouteCleanup, Stage
<1>5. Alive(k, c) /\ k[c].pc # "free"
  BY <1>4 DEF Alive
<1>6. k \in [Slots -> Conn] /\ p \in Peers /\ queues \in [Peers -> Slots \cup {None}]
  BY Zenon, <1>1, <1>2, <1>5 DEF Linked
<1>7. p \notin TwoWay => QueueGood(k, queues, c)
  BY Zenon, <1>1, <1>2, <1>5 DEF Linked, Alone
<1>8. k[c].queue \in Slots \cup {None}
  BY <1>6 DEF Conn
<1>9. Good(n) /\ n.connected = w /\ n.dialing = dials'
  <2>1. n = m \/ n = Ready(m, p)
    BY Zenon, <1>1 DEF RouteReady, getOrMakeQueue, RouteEnds, RouteCleanup
  <2>2. n = Ready(m, p) => Good(n) /\ n.connected = m.connected /\ n.dialing = m.dialing
    BY <1>2, <1>6, ReadyGood
  <2> QED
    BY Zenon, <1>1, <1>2, <1>3, <2>1, <2>2
<1>10. ASSUME NEW s \in {"ready", "routing", "closing", "leaving"}, NEW u \in Slots \cup {None},
              At(k, l, c, [pc |-> s, peer |-> p, queue |-> u]),
              r \in [Peers -> Slots \cup {None}], \A z \in Peers : z # p => r[z] = queues[z],
              p \notin TwoWay => /\ s = "routing" => u = c /\ r[p] = c
                                 /\ s \in {"ready", "leaving"} => r[p] = None
       PROVE  RouterInv'
  <2>1. PICK e : e = [pc |-> s, peer |-> p, queue |-> u]
    BY Zenon
  <2>2. e.pc = s /\ e.peer = p /\ e.queue = u
    BY <2>1
  <2>3. l[c] = e
    BY Zenon, <1>10, <2>1 DEF At
  <2>4. Alive(l, c)
    BY <2>2, <2>3 DEF Alive
  <2>5. p \notin TwoWay => QueueGood(l, r, c)
    BY <1>10, <2>2, <2>3 DEF QueueGood
  <2>6. At(k, l, c, e) /\ e.peer = k[c].peer
    BY Zenon, <1>1, <1>10, <2>1, <2>2
  <2>7. Linked(l, r, w)
    BY <1>2, <1>5, <1>10, <2>2, <2>4, <2>5, <2>6, GoesOn
  <2> QED
    BY Zenon, <1>1, <1>2, <1>3, <1>9, <2>7, NextState
<1>11. CASE RouteReady(c)
  <2>1. k[c].pc = "opened" /\ l = [k EXCEPT ![c].pc = "ready"] /\ r = queues
    BY Zenon, <1>1, <1>11 DEF RouteReady, Stage
  <2>2. At(k, l, c, [pc |-> "ready", peer |-> p, queue |-> k[c].queue])
    BY Zenon, <1>1, <1>6, <2>1, StageIs
  <2>3. p \notin TwoWay => queues[p] = None
    BY <1>1, <1>7, <2>1 DEF QueueGood
  <2> QED
    BY Zenon, <1>6, <1>8, <1>10, <2>1, <2>2, <2>3
<1>12. CASE getOrMakeQueue(c)
  <2>1. PICK q : q = IF queues[p] # None THEN queues[p] ELSE c
    BY Zenon
  <2>2. /\ k[c].pc = "ready" /\ l = [k EXCEPT ![c].pc = "routing", ![c].queue = q]
        /\ r = [queues EXCEPT ![p] = q]
    BY Zenon, <1>1, <1>12, <2>1 DEF getOrMakeQueue
  <2>3. q \in Slots \cup {None}
    BY Zenon, <1>6, <2>1
  <2>4. At(k, l, c, [pc |-> "routing", peer |-> p, queue |-> q])
    BY Zenon, <1>1, <1>6, <2>2, <2>3, RoutingIs
  <2>5. p \notin TwoWay => q = c
    BY <1>1, <1>7, <2>1, <2>2 DEF QueueGood
  <2>6. r \in [Peers -> Slots \cup {None}] /\ r[p] = q /\ \A z \in Peers : z # p => r[z] = queues[z]
    BY <1>6, <2>2, <2>3
  <2> QED
    BY <1>10, <2>3, <2>4, <2>5, <2>6
<1>13. CASE RouteEnds(c)
  <2>1. k[c].pc = "routing" /\ l = [k EXCEPT ![c].pc = "closing"] /\ r = queues
    BY Zenon, <1>1, <1>13 DEF RouteEnds, Stage
  <2>2. At(k, l, c, [pc |-> "closing", peer |-> p, queue |-> k[c].queue])
    BY Zenon, <1>1, <1>6, <2>1, StageIs
  <2> QED
    BY <1>6, <1>8, <1>10, <2>1, <2>2
<1>14. CASE RouteCleanup(c)
  <2>1. k[c].pc = "closing" /\ l = [k EXCEPT ![c].pc = "leaving"] /\ r = [queues EXCEPT ![p] = None]
    BY Zenon, <1>1, <1>14 DEF RouteCleanup, Stage
  <2>2. At(k, l, c, [pc |-> "leaving", peer |-> p, queue |-> k[c].queue])
    BY Zenon, <1>1, <1>6, <2>1, StageIs
  <2>3. r \in [Peers -> Slots \cup {None}] /\ r[p] = None /\ \A z \in Peers : z # p => r[z] = queues[z]
    BY <1>6, <2>1
  <2> QED
    BY <1>8, <1>10, <2>2, <2>3
<1> QED
  BY Zenon, <1>11, <1>12, <1>13, <1>14

\* Every step keeps the invariant.
LEMMA RouterNextInv ==
    ASSUME RouterInv, [Next]_vars
    PROVE  RouterInv'
<1>1. CASE \/ DialNext \/ \E p \in Peers : ConnectFails(p) \/ RetryTimer(p) \/ DelayPasses(p)
  BY <1>1, DialsInv
<1>2. CASE \/ EvictNext
           \/ \E p \in Peers : \/ WrongNetwork(p) \/ PeerGood(p) \/ AddPeer(p)
                               \/ \E evict \in BOOLEAN : Judged([peer |-> p, evict |-> evict])
  BY <1>2, ReportsInv
<1>3. CASE DialWakes \/ EvictWakes \/ CloseQueue \/ (\E p \in Peers : PeerError(p)) \/ UNCHANGED vars
  BY <1>3, StayInv
<1>4. CASE \E p \in Peers : Connect(p) \/ Accept(p)
  BY <1>4, ConnectInv, AcceptInv
<1>5. CASE \E c \in Slots : DuplicateAccepted(c) \/ DuplicateDialed(c) \/ RouteDisconnected(c)
  BY <1>5, FreedInv
<1>6. CASE \E c \in Slots : RouteReady(c) \/ getOrMakeQueue(c) \/ RouteEnds(c) \/ RouteCleanup(c)
  BY <1>6, RoutesInv
<1> QED
  BY Zenon, <1>1, <1>2, <1>3, <1>4, <1>5, <1>6 DEF Next

\* The inductive invariant holds of every state that the router and its manager reach.
THEOREM RouterSafe == RouterSpec => []RouterInv
<1>1. Limits /\ RouterInit => RouterInv
  BY RouterInitInv
<1>2. RouterInv /\ [Next]_vars => RouterInv'
  BY RouterNextInv
<1> QED
  BY <1>1, <1>2, PTL DEF RouterSpec

\* Every slot that the manager counts belongs to a goroutine that gives it back, and
\* a peer that does not both dial and get dialed has one connection at a time.
THEOREM SlotsAlwaysMatch == RouterSpec => []SlotsMatchConnections
<1>1. RouterInv => SlotsMatchConnections
  <2> SUFFICES ASSUME RouterInv PROVE SlotsMatchConnections
    BY Zenon
  <2>1. Good(pm) /\ pm.dialing = dials /\ Linked(conns, peerQueues, pm.connected)
    BY Zenon DEF RouterInv, ConnsGood
  <2>2. \A c : Live(c) <=> Alive(conns, c)
    BY Zenon DEF Live, Alive
  <2>3. \A p \in pm.connected : \E c \in Slots : Live(c) /\ conns[c].peer = p
    BY Zenon, <2>1, <2>2 DEF Linked
  <2>4. pm.ready \cup pm.evict \cup pm.evicting \subseteq pm.connected
    BY Zenon, <2>1 DEF Good
  <2>5. \A p \in Peers : pm.upgrading[p] # None =>
            /\ p \in pm.connected /\ pm.upgrading[p] \in dials
            /\ \A q \in Peers : pm.upgrading[q] = pm.upgrading[p] => q = p
    BY Zenon, <2>1 DEF Good, ClaimsGood
  <2>6. ASSUME NEW c \in Slots, Live(c), conns[c].peer \notin TwoWay
        PROVE  /\ conns[c].peer \in pm.connected
               /\ \A d \in Slots : Live(d) /\ conns[d].peer = conns[c].peer => d = c
               /\ conns[c].pc = "routing" => conns[c].queue = c /\ peerQueues[conns[c].peer] = c
               /\ conns[c].pc # "routing" /\ conns[c].pc # "closing" => peerQueues[conns[c].peer] = None
    <3>1. Alone(conns, peerQueues, pm.connected, c)
      BY Zenon, <2>1, <2>2, <2>6 DEF Linked
    <3>2. conns[c].pc # "routing" /\ conns[c].pc # "closing" => conns[c].pc \in {"opened", "ready", "leaving"}
      BY Zenon, <2>6 DEF Live
    <3> QED
      BY Zenon, <2>2, <3>1, <3>2 DEF Alone, QueueGood
  <2> QED
    BY Zenon, <2>1, <2>3, <2>4, <2>5, <2>6 DEF SlotsMatchConnections
<1> QED
  BY <1>1, RouterSafe, PTL

\* The manager never counts more peers than MaxConnected and MaxConnectedUpgrade
\* allow, and when no peer both dials and gets dialed it evicts one for each peer
\* above MaxConnected.
THEOREM OverflowAlwaysEvicted == RouterSpec => []OverflowIsEvicted
<1>1. RouterInv => OverflowIsEvicted
  <2> SUFFICES ASSUME RouterInv, load.MaxConnected > 0
               PROVE  /\ NumConnected(pm) <= load.MaxConnected + load.MaxConnectedUpgrade
                      /\ TwoWay = {} =>
                            Cardinality(pm.connected \ (pm.evict \cup pm.evicting \cup load.unconditional)) <= load.MaxConnected
    BY Zenon DEF OverflowIsEvicted
  <2>1. pm \in PM /\ SlotsGood(pm) /\ Limits
    BY Zenon DEF RouterInv, Good
  <2>2. PICK s : s = pm.connected \ (pm.evict \cup pm.evicting \cup load.unconditional)
    BY Zenon
  <2>3. s \subseteq Held(pm) /\ Held(pm) \in SUBSET Peers
    BY Zenon, <2>1, <2>2 DEF Held, PM
  <2>4. IsFiniteSet(Held(pm)) /\ Cardinality(Held(pm)) \in Nat /\ Cardinality(s) \in Nat
    <3>1. IsFiniteSet(Peers) /\ s \in SUBSET Peers
      BY Zenon, <2>3, PeersAssumption
    <3> QED
      BY <2>3, <3>1, FS_Subset, FS_CardinalityType
  <2>5. Cardinality(s) <= Cardinality(Held(pm))
    BY <2>3, <2>4, FS_Subset
  <2>6. TwoWay = {} => Cardinality(Held(pm)) <= load.MaxConnected
    BY Zenon, <2>1 DEF SlotsGood
  <2>7. TwoWay = {} => Cardinality(s) <= load.MaxConnected
    BY <2>1, <2>4, <2>5, <2>6 DEF Limits
  <2> QED
    BY Zenon, <2>1, <2>2, <2>7 DEF SlotsGood
<1> QED
  BY <1>1, RouterSafe, PTL
=============================================================================
