------------------------------ MODULE MCRouter ------------------------------
EXTENDS Router, TLC

CONSTANTS p1, p2, p3

Budget(accepts, failures, errors, praise, adds, handshakes) ==
    [accepts |-> accepts, failures |-> failures, errors |-> errors, praise |-> praise, adds |-> adds,
     handshakes |-> handshakes]

Options ==
    [MaxConnected |-> 0, MaxConnectedUpgrade |-> 0, MaxPeers |-> 0,
     persistent |-> {}, unconditional |-> {},
     MinRetryTime |-> 1, MaxRetryTime |-> 4, MaxRetryTimePersistent |-> 3, RetryTimeJitter |-> 0,
     known |-> {}, added |-> {}, inbound |-> {}, reachable |-> Peers, faulty |-> {}, foreign |-> {}]

With(options, budgets) == options @@ [budget |-> budgets]

\* One slot and two for upgrades: two better peers come while one with a bad word is
\* connected, one is dialed and the other connects.
Upgrade ==
    With([Options EXCEPT !.MaxConnected = 1, !.MaxConnectedUpgrade = 2, !.persistent = {p1},
                         !.known = {p2}, !.added = {p1}, !.inbound = {p3}, !.faulty = {p2}], Budget(1, 0, 2, 0, 1, 0))

\* Two peers that connect at will, one of them unconditional, for one slot.
Inbound ==
    With([Options EXCEPT !.MaxConnected = 1, !.MaxConnectedUpgrade = 1, !.unconditional = {p1},
                         !.inbound = {p1, p2}], Budget(3, 1, 0, 0, 0, 0))

\* A peer that is dialed and dials.
Crossing ==
    With([Options EXCEPT !.known = {p1}, !.inbound = {p1}, !.foreign = {p1}], Budget(2, 1, 0, 0, 0, 1))

\* The store holds one peer; praise for peers it does not hold; delays with jitter.
Pruned ==
    With([Options EXCEPT !.MaxPeers = 1, !.MaxConnected = 1, !.RetryTimeJitter = 2, !.known = {p1},
                         !.added = {p1, p2}, !.inbound = {p3}, !.reachable = {p1}], Budget(1, 0, 0, 1, 2, 0))

\* Persistent peers, one of which is down.
Persistent ==
    With([Options EXCEPT !.persistent = {p1, p2}, !.known = {p1, p2}, !.reachable = {p2}, !.faulty = {p1, p2}],
         Budget(0, 1, 1, 0, 0, 0))

\* A delay below the longest one of persistent peers is MaxRetryTime; no retries; a
\* node of another network has the ID of a persistent peer.
Unclipped == [Persistent EXCEPT !.MaxRetryTimePersistent = 8]
NoRetries == [Persistent EXCEPT !.MinRetryTime = 0, !.MaxRetryTime = 0, !.MaxRetryTimePersistent = 0]
Foreign   == [Persistent EXCEPT !.foreign = {p1}, !.budget.handshakes = 1]

Loads == {
    Upgrade,
    Inbound,
    Crossing,
    Pruned,
    Persistent,
    Unclipped,
    NoRetries,
    Foreign
  }

MCInit == load \in Loads /\ Validate /\ RouterInit
MCSpec == MCInit /\ [][Next]_vars /\ Fairness
=============================================================================
