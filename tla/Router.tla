------------------------------- MODULE Router -------------------------------
(***************************************************************************)
(* The router, internal/p2p/router.go, as far as it connects and           *)
(* disconnects peers, with the peer manager it asks.  dialPeers and        *)
(* evictPeers loop over DialNext and EvictNext; a goroutine per dial and   *)
(* per connection goes through the stages below, taking one lock at a      *)
(* time.  A queue is named by the slot of the connection that made it.     *)
(*                                                                         *)
(*   opened   the manager said yes, routePeer starts                       *)
(*   ready    Ready was called, the queue is still missing                 *)
(*   routing  messages are routed                                          *)
(*   closing  the connection and its queue are closed                      *)
(*   leaving  the queue is out of peerQueues, Disconnected is still due    *)
(*   errored  refused as a duplicate inbound connection, Errored is due    *)
(*   dropped  refused as a duplicate dial, Disconnected is due             *)
(***************************************************************************)
EXTENDS PeerManager

CONSTANT Slots \* bound: connections at a time

ASSUME SlotsAssumption == Slots \subseteq Nat /\ None \notin Slots

VARIABLES pm,         \* the peer manager
          dialer,     \* DialNext: "try" or "sleep"
          dialWaker,  \* a wakeup waits for DialNext
          timers,     \* peers with a retry timer running
          dials,      \* peers that a connectPeer goroutine is dialing
          evictor,    \* EvictNext: "try", "sleep" or the peer to evict
          evictWaker,
          judged,     \* errors of peers that routeChannel has judged and not yet reported
          conns, peerQueues, closed, \* closed queues
          budget      \* what the environment may still do

vars == <<load, pm, dialer, dialWaker, timers, dials, evictor, evictWaker, judged, conns, peerQueues, closed, budget>>
dialVars == <<dialer, dialWaker, timers, dials>>
evictVars == <<evictor, evictWaker, judged>>
connVars == <<conns, peerQueues, closed>>

Free == [pc |-> "free", peer |-> None, queue |-> None]

RouterInit ==
    /\ pm = NewPeerManager(load.known)
    /\ dialer = "try" /\ dialWaker = FALSE /\ timers = {} /\ dials = {}
    /\ evictor = "try" /\ evictWaker = FALSE /\ judged = {}
    /\ conns = [c \in Slots |-> Free] /\ peerQueues = [p \in Peers |-> None] /\ closed = {}
    /\ budget = load.budget

Spend(what) == budget[what] > 0 /\ budget' = [budget EXCEPT ![what] = @ - 1]

\* A connection takes a slot that no queue in use is named after.
Open(p, pc) ==
    LET unused == {c \in Slots : conns[c] = Free /\ \A d \in Slots : conns[d].queue # c}
        c      == Min(unused)
    IN  /\ unused # {}
        /\ conns' = [conns EXCEPT ![c] = [pc |-> pc, peer |-> p, queue |-> None]]
        /\ closed' = closed \ {c}
        /\ UNCHANGED peerQueues

Stage(c, from, to) == conns[c].pc = from /\ conns' = [conns EXCEPT ![c].pc = to]

-----------------------------------------------------------------------------
(***************************************************************************)
(* dialPeers and connectPeer                                               *)
(***************************************************************************)

DialNext ==
    /\ dialer = "try"
    /\ \E early \in SUBSET {p \in Known(pm) : pm.store[p].wait = "maybe"} :
          \E r \in TryDialNext(pm, early) :
              /\ pm' = r.m
              /\ dialer' = IF r.id = None THEN "sleep" ELSE "try"
              /\ dials' = IF r.id = None THEN dials ELSE dials \cup {r.id}
    /\ UNCHANGED <<load, dialWaker, timers, evictVars, connVars, budget>>

DialWakes ==
    /\ dialer = "sleep" /\ dialWaker
    /\ dialer' = "try" /\ dialWaker' = FALSE
    /\ UNCHANGED <<load, pm, timers, dials, evictVars, connVars, budget>>

\* dialPeer or the handshake fails.
ConnectFails(p) ==
    /\ p \in dials /\ p \notin load.reachable
    /\ \E r \in DialFailed(pm, p) :
          /\ pm' = r.m
          /\ timers' = IF r.timer THEN timers \cup {p} ELSE timers
          /\ dialWaker' = (dialWaker \/ r.wakes)
    /\ dials' = dials \ {p}
    /\ UNCHANGED <<load, dialer, evictVars, connVars, budget>>

\* handshakePeer, of a connection that was dialed or accepted: a node of another
\* network names itself p, and the entry of p is deleted before the key is checked.
\* (The code takes no lock for this.)  The handshake fails.
WrongNetwork(p) ==
    /\ p \in load.foreign /\ pm.store[p] # None /\ Spend("handshakes")
    /\ pm' = Delete(pm, p)
    /\ UNCHANGED <<load, dialVars, evictVars, connVars>>

\* The handshake is over.
Connect(p) ==
    /\ p \in dials /\ p \in load.reachable
    /\ dials' = dials \ {p}
    /\ \E r \in Dialed(pm, p) :
          /\ pm' = r.m
          /\ evictWaker' = (evictWaker \/ r.result = "ok")
          /\ CASE r.result = "ok" -> Open(p, "opened")
               [] r.result = "connected" -> Open(p, "dropped")
               [] OTHER -> UNCHANGED connVars
    /\ UNCHANGED <<load, dialer, dialWaker, timers, evictor, judged, budget>>

\* The timer of a retry fires: without jitter the delay is over. (Two timers of one
\* peer, the earlier of a delay that an accepted connection ended, are taken for one.)
RetryTimer(p) ==
    /\ p \in timers
    /\ timers' = timers \ {p} /\ dialWaker' = TRUE
    /\ pm' = IF pm.store[p] = None \/ pm.store[p].wait = "no" THEN pm
             ELSE [pm EXCEPT !.store[p].wait = IF load.RetryTimeJitter > 0 THEN "maybe" ELSE "no"]
    /\ UNCHANGED <<load, dialer, dials, evictVars, connVars, budget>>

\* The delay is over for every jitter.
DelayPasses(p) ==
    /\ pm.store[p] # None /\ pm.store[p].wait = "maybe"
    /\ pm' = [pm EXCEPT !.store[p].wait = "no"]
    /\ UNCHANGED <<load, dialVars, evictVars, connVars, budget>>

-----------------------------------------------------------------------------
(***************************************************************************)
(* openConnection and routePeer                                            *)
(***************************************************************************)

Accept(p) ==
    /\ p \in load.inbound /\ Spend("accepts")
    /\ \E r \in Accepted(pm, p) :
          /\ pm' = r.m
          /\ evictWaker' = (evictWaker \/ r.result = "ok")
          /\ CASE r.result = "ok" -> Open(p, "opened")
               [] r.result = "connected" -> Open(p, "errored")
               [] OTHER -> UNCHANGED connVars
    /\ UNCHANGED <<load, dialVars, evictor, judged>>

\* A peer that connects twice is evicted, so that it can connect anew.
DuplicateAccepted(c) ==
    /\ conns[c].pc = "errored"
    /\ pm' = Errored(pm, conns[c].peer) /\ evictWaker' = TRUE
    /\ conns' = [conns EXCEPT ![c] = Free]
    /\ UNCHANGED <<load, dialVars, evictor, judged, peerQueues, closed, budget>>

DuplicateDialed(c) ==
    /\ conns[c].pc = "dropped"
    /\ pm' = Disconnected(pm, conns[c].peer) /\ dialWaker' = TRUE
    /\ conns' = [conns EXCEPT ![c] = Free]
    /\ UNCHANGED <<load, dialer, timers, dials, evictVars, peerQueues, closed, budget>>

RouteReady(c) ==
    /\ Stage(c, "opened", "ready")
    /\ pm' = Ready(pm, conns[c].peer)
    /\ UNCHANGED <<load, dialVars, evictVars, peerQueues, closed, budget>>

getOrMakeQueue(c) ==
    LET p == conns[c].peer
        q == IF peerQueues[p] # None THEN peerQueues[p] ELSE c
    IN  /\ conns[c].pc = "ready"
        /\ conns' = [conns EXCEPT ![c].pc = "routing", ![c].queue = q]
        /\ peerQueues' = [peerQueues EXCEPT ![p] = q]
        /\ UNCHANGED <<load, pm, dialVars, evictVars, closed, budget>>

\* The transport fails, or sendPeer finds its queue closed.
RouteEnds(c) ==
    /\ Stage(c, "routing", "closing")
    /\ IF conns[c].queue \in closed THEN UNCHANGED budget ELSE Spend("failures")
    /\ closed' = closed \cup {conns[c].queue}
    /\ UNCHANGED <<load, pm, dialVars, evictVars, peerQueues>>

RouteCleanup(c) ==
    /\ Stage(c, "closing", "leaving")
    /\ peerQueues' = [peerQueues EXCEPT ![conns[c].peer] = None]
    /\ UNCHANGED <<load, pm, dialVars, evictVars, closed, budget>>

RouteDisconnected(c) ==
    /\ conns[c].pc = "leaving"
    /\ pm' = Disconnected(pm, conns[c].peer) /\ dialWaker' = TRUE
    /\ conns' = [conns EXCEPT ![c] = Free]
    /\ UNCHANGED <<load, dialer, timers, dials, evictVars, peerQueues, closed, budget>>

-----------------------------------------------------------------------------
(***************************************************************************)
(* evictPeers, and what reactors say about peers                           *)
(***************************************************************************)

EvictNext ==
    /\ evictor = "try"
    /\ \E r \in TryEvictNext(pm) : pm' = r.m /\ evictor' = IF r.id = None THEN "sleep" ELSE r.id
    /\ UNCHANGED <<load, dialVars, evictWaker, judged, connVars, budget>>

EvictWakes ==
    /\ evictor = "sleep" /\ evictWaker
    /\ evictor' = "try" /\ evictWaker' = FALSE
    /\ UNCHANGED <<load, pm, dialVars, judged, connVars, budget>>

\* A peer without queue is not disconnected.
CloseQueue ==
    /\ evictor \in Peers
    /\ evictor' = "try"
    /\ closed' = IF peerQueues[evictor] = None THEN closed ELSE closed \cup {peerQueues[evictor]}
    /\ UNCHANGED <<load, pm, dialVars, evictWaker, judged, conns, peerQueues, budget>>

\* routeChannel: a fatal error, or one when the node has all its peers, evicts.  The
\* manager is asked first and told later.
PeerError(p) ==
    /\ p \in load.faulty /\ Spend("errors")
    /\ \E evict \in {TRUE} \cup {HasMaxPeerCapacity(pm)} : judged' = judged \cup {[peer |-> p, evict |-> evict]}
    /\ UNCHANGED <<load, pm, dialVars, evictor, evictWaker, connVars>>

Judged(e) ==
    /\ e \in judged /\ judged' = judged \ {e}
    /\ IF e.evict THEN pm' = Errored(pm, e.peer) /\ evictWaker' = TRUE
       ELSE pm' = processPeerEvent(pm, e.peer, -1) /\ UNCHANGED evictWaker
    /\ UNCHANGED <<load, dialVars, evictor, connVars, budget>>

\* peerStatsRoutine of the consensus reactor.
PeerGood(p) ==
    /\ Spend("praise")
    /\ pm' = processPeerEvent(pm, p, 1)
    /\ UNCHANGED <<load, dialVars, evictVars, connVars>>

\* The address book or another peer names an address.
AddPeer(p) ==
    /\ p \in load.added /\ Spend("adds")
    /\ pm' \in Add(pm, p) /\ dialWaker' = TRUE
    /\ UNCHANGED <<load, dialer, timers, dials, evictVars, connVars>>

Next ==
    \/ DialNext \/ DialWakes \/ EvictNext \/ EvictWakes \/ CloseQueue
    \/ \E p \in Peers : \/ ConnectFails(p) \/ Connect(p) \/ RetryTimer(p) \/ DelayPasses(p)
                        \/ Accept(p) \/ WrongNetwork(p) \/ PeerError(p) \/ PeerGood(p) \/ AddPeer(p)
                        \/ \E evict \in BOOLEAN : Judged([peer |-> p, evict |-> evict])
    \/ \E c \in Slots : \/ DuplicateAccepted(c) \/ DuplicateDialed(c) \/ RouteReady(c) \/ getOrMakeQueue(c)
                        \/ RouteEnds(c) \/ RouteCleanup(c) \/ RouteDisconnected(c)

\* The two options are unsigned.
Limits == load.MaxConnected \in Nat /\ load.MaxConnectedUpgrade \in Nat
RouterSpec == Limits /\ RouterInit /\ [][Next]_vars
-----------------------------------------------------------------------------
(***************************************************************************)
(* Fairness: dialPeers goes on, a dial ends (DialTimeout and              *)
(* HandshakeTimeout), a timer fires, and the goroutine of a connection     *)
(* goes on, except that a connection need not fail.  Nothing but its own   *)
(* steps ends the turn of a lane.                                          *)
(***************************************************************************)
DialLane == DialNext \/ DialWakes
ConnectLane(p) == ConnectFails(p) \/ Connect(p)
RouteLane(c) ==
    \/ DuplicateAccepted(c) \/ DuplicateDialed(c) \/ RouteReady(c) \/ getOrMakeQueue(c)
    \/ RouteCleanup(c) \/ RouteDisconnected(c)

Fairness ==
    /\ []<>(dialer = "sleep" /\ ~dialWaker) \/ []<><<DialLane>>_vars
    /\ \A p \in Peers : []<>(p \notin dials) \/ []<><<ConnectLane(p)>>_vars
    /\ \A p \in Peers : []<>(p \notin timers) \/ []<><<RetryTimer(p)>>_vars
    /\ \A c \in Slots : []<>(conns[c].pc \in {"free", "routing"}) \/ []<><<RouteLane(c)>>_vars

-----------------------------------------------------------------------------
\* The peers that are dialed and dial.
TwoWay == load.inbound \cap (load.known \cup load.added)

Live(c) == conns[c].pc \in {"opened", "ready", "routing", "closing", "leaving"}

(***************************************************************************)
(* Every slot that the manager counts belongs to a goroutine that gives it *)
(* back: a peer that is dialing has a connectPeer, a connected one a       *)
(* routePeer that will call Disconnected; what is said of a connected peer *)
(* (ready, to be evicted, being evicted, to be replaced) is said of a      *)
(* connected peer; a dialed peer replaces at most one.  An entry left      *)
(* behind would use up MaxConnected for good.                              *)
(*                                                                         *)
(* And "make sure a peer only has a single active connection": of a peer   *)
(* that either dials us or is dialed, but not both, there is one           *)
(* connection at a time, the manager counts it until the end, and while it *)
(* routes, the registered queue is its own.  Closing, cleaning up and      *)
(* reporting are separate steps, and the next connection may come at any   *)
(* of them.                                                                *)
(***************************************************************************)
SlotsMatchConnections ==
    /\ pm.dialing = dials
    /\ \A p \in pm.connected : \E c \in Slots : Live(c) /\ conns[c].peer = p
    /\ pm.ready \cup pm.evict \cup pm.evicting \subseteq pm.connected
    /\ \A p \in Peers : pm.upgrading[p] # None =>
          /\ p \in pm.connected /\ pm.upgrading[p] \in dials
          /\ \A q \in Peers : pm.upgrading[q] = pm.upgrading[p] => q = p
    /\ \A c \in Slots : Live(c) /\ conns[c].peer \notin TwoWay =>
               /\ conns[c].peer \in pm.connected
               /\ \A d \in Slots : Live(d) /\ conns[d].peer = conns[c].peer => d = c
               /\ conns[c].pc = "routing" => conns[c].queue = c /\ peerQueues[conns[c].peer] = c
               /\ conns[c].pc # "routing" /\ conns[c].pc # "closing" => peerQueues[conns[c].peer] = None

(***************************************************************************)
(* The connected peers never exceed MaxConnected by more than              *)
(* MaxConnectedUpgrade, and for each one above MaxConnected another one is *)
(* to be evicted: TryEvictNext is never "above capacity (shouldn't really  *)
(* happen)".  Upgrades are decided by TryDialNext and paid by Dialed, with *)
(* accepts, errors and disconnections in between.  The second part is for  *)
(* nodes whose peers do not both dial and get dialed: a peer that connects *)
(* while it is dialed keeps its claim, Dialed of a peer that claimed it    *)
(* finds the claim and evicts the peer that is evicted already.            *)
(***************************************************************************)
OverflowIsEvicted ==
    load.MaxConnected > 0 =>
        /\ NumConnected(pm) <= load.MaxConnected + load.MaxConnectedUpgrade
        /\ TwoWay = {} =>
              Cardinality(pm.connected \ (pm.evict \cup pm.evicting \cup load.unconditional)) <= load.MaxConnected

(***************************************************************************)
(* The node keeps trying to connect to a persistent peer, however often    *)
(* dialing it fails and connections to it break: every failed dial leaves  *)
(* a timer that wakes DialNext when the peer is due.  This takes           *)
(*   - no limit on the number of connections,                              *)
(*   - delays without jitter, retries that are not disabled, and no delay  *)
(*     of a persistent peer that is exactly MaxRetryTime (it deletes the   *)
(*     peer, clipped or not),                                              *)
(*   - no node of another network that names itself by the ID of the peer  *)
(*     (handshakePeer deletes the peer).                                   *)
(***************************************************************************)
PersistentRedialed ==
    /\ load.MaxConnected = 0 /\ load.RetryTimeJitter = 0
    /\ \A n \in 1 .. MaxFailures : retryDelay(n, TRUE) \cap {retryNever, load.MaxRetryTime} = {}
    => \A p \in Peers : p \in load.persistent \ load.foreign => []<>(p \in pm.connected \cup dials)
=============================================================================
