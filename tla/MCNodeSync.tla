----------------------------- MODULE MCNodeSync -----------------------------
(***************************************************************************)
(* Small nodes that catch up: who the peers are and what goes wrong is the *)
(* load, chosen in the initial state.                                      *)
(***************************************************************************)
EXTENDS NodeSync, Sequences, TLC

CONSTANTS p1, p2, p3, s1, s2, w1, w2

Upto(h) == {<<1, h>>}

-----------------------------------------------------------------------------
(* Light clients: the validators change, so that no block can be verified   *)
(* from one three heights below.                                            *)

\* A provider is right but for some heights.
But(heights, answer) == [h \in 1..LightTip |-> IF h \in heights THEN answer ELSE "main"]
Honest == But({}, None)

NoFork == [at |-> LightTip + 1, vals |-> {"b", "c", "x"}, early |-> 0]

HonestLight ==
    [providers |-> <<p1, p2>>, serves |-> [p \in {p1, p2, p3} |-> Honest], p2p |-> TRUE, root |-> 4,
     vals |-> <<{"a", "b", "c"}, {"a", "b", "c"}, {"a", "d", "e"}>> \o [h \in 1..4 |-> {"d", "e", "f"}],
     fork |-> NoFork, expired |-> 0, future |-> 2 * LightTip + 1]

\* Three RPC servers that forge, miss and refuse blocks
Servers ==
    {[HonestLight EXCEPT !.providers = <<p1, p2, p3>>, !.p2p = FALSE, !.root = root, !.serves = serves] :
        root \in {1, LightTip},
        serves \in [{p1, p2, p3} -> {
            Honest, But({4}, "forged"), But({2}, "forged"), But({2}, "notFound"), But({3}, "unreliable"),
            But({4, 5, 6}, "noResponse"), [But({4}, "forged") EXCEPT ![5] = "notFound"]}]}

\* Three RPC servers some of which follow a fork, with later or with earlier times
Forks ==
    LET fork == But({3, 4, 5, 6}, "fork")
    IN  {[HonestLight EXCEPT !.providers = <<p1, p2, p3>>, !.p2p = FALSE, !.root = 1,
              !.fork = [NoFork EXCEPT !.at = 3, !.early = early],
              !.serves = p1 :> first @@ p2 :> second @@ p3 :> third] :
            early \in {0, 3}, first \in {Honest, fork},
            second \in {Honest, fork, But({4}, "forged")}, third \in {Honest, fork, But({4, 5, 6}, "tooHigh")}}

-----------------------------------------------------------------------------

\* Block sync only, from genesis
BlockLoad ==
    [stateSync |-> FALSE, start |-> 0, faulty |-> {}, turmoil |-> 0, stalls |-> FALSE,
     up |-> Peers, ranges |-> [p \in Peers |-> Upto(3)],
     snapshots |-> <<>>, has |-> [p \in Peers |-> {}], light |-> HonestLight, upset |-> 0,
     stopHeight |-> 1, initialHeight |-> 1, oldest |-> 1, vals |-> <<>>,
     base |-> [p \in Peers |-> 1], peerList |-> <<>>, hiccups |-> 0]

\* State sync, with one peer for block sync after it
StateLoad ==
    [BlockLoad EXCEPT !.stateSync = TRUE, !.up = {p1}, !.ranges = [p \in Peers |-> Upto(4)],
        !.snapshots = s1 :> [height |-> 3, format |-> 1, chunks |-> 1],
        !.has = [p \in Peers |-> {s1}],
        !.stopHeight = 2, !.oldest = 2, !.vals = <<"a", "b", "b", "c">>, !.peerList = <<p1>>]

\* One peer has the snapshot, and the light client is what matters.
LightLoad(light) ==
    [StateLoad EXCEPT !.up = {}, !.has = p1 :> {s1} @@ p2 :> {}, !.stopHeight = 3, !.oldest = 3, !.light = light]

LightLoads ==
    {LightLoad(light) : light \in Servers \cup Forks \cup {
        [HonestLight EXCEPT !.expired = 9], [HonestLight EXCEPT !.future = 10],
        [HonestLight EXCEPT !.serves[p2] = But({4}, "noResponse")],
        [HonestLight EXCEPT !.serves[p2] = But({4}, "forged")]}}
    \* peers come and go, and the context of a call ends
    \cup {[LightLoad(light) EXCEPT !.upset = 2] : light \in {
        [HonestLight EXCEPT !.root = 1, !.serves[p1] = But({2}, "notFound")],
        [HonestLight EXCEPT !.providers = <<p1, p2, p3>>, !.serves[p2] = But({5}, "forged")],
        [HonestLight EXCEPT !.p2p = FALSE]}}

Loads == LightLoads \cup {
    \* one of two peers is faulty
    [BlockLoad EXCEPT !.faulty = {p1}],
    \* honest peers, one thing goes wrong
    [BlockLoad EXCEPT !.turmoil = 1, !.ranges = p1 :> Upto(3) @@ p2 :> {<<2, 3>>}],
    \* one peer that comes and goes, times out and answers late
    [BlockLoad EXCEPT !.turmoil = 3, !.up = {p1}, !.ranges = p1 :> Upto(3) @@ p2 :> {}],
    [BlockLoad EXCEPT !.turmoil = 2, !.up = {p1}, !.ranges = [p \in Peers |-> {<<1, 2>>, <<1, 3>>}]],
    \* the node falls behind and starts again
    [BlockLoad EXCEPT !.turmoil = 1, !.up = {p1}, !.stalls = TRUE],
    \* two snapshots, one peer lies, and the application has its say
    [StateLoad EXCEPT !.up = {}, !.faulty = {p2}, !.upset = 2,
        !.snapshots = s1 :> [height |-> 3, format |-> 1, chunks |-> 2]
                   @@ s2 :> [height |-> 3, format |-> 2, chunks |-> 1],
        !.has = p1 :> {s1} @@ p2 :> {s1, s2}],
    \* a lying peer serves light blocks
    [StateLoad EXCEPT !.up = {}, !.has = p1 :> {s1} @@ p2 :> {}, !.faulty = {p2},
        !.peerList = <<p1, p2>>],
    \* peers of light blocks come, go and answer late; one has few of them
    [StateLoad EXCEPT !.up = {}, !.has = p1 :> {s1} @@ p2 :> {}, !.hiccups = 2, !.oldest = 1,
        !.base = p1 :> 1 @@ p2 :> 2, !.peerList = <<p1, p2>>],
    \* all three, one after the other
    StateLoad}

MCInit == load \in Loads /\ NodeSyncInit
MCSpec == MCInit /\ [][Next]_vars

\* One of two peers is faulty, and the node may wait for too long.
StuckInit == load = [BlockLoad EXCEPT !.faulty = {p1}, !.stalls = TRUE] /\ NodeSyncInit
StuckSpec == StuckInit /\ [][Next]_vars /\ Fairness
=============================================================================
