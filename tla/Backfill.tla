------------------------------ MODULE Backfill ------------------------------
(***************************************************************************)
(* Backfill: after a snapshot is restored, workers fetch the light blocks  *)
(* below it from peers, downwards, through the dispatcher, and one thread  *)
(* verifies and stores them in order, each by the hash in the header above *)
(* it. The block queue hands out heights and collects the blocks.          *)
(***************************************************************************)
EXTENDS Integers, Sequences, FiniteSets, FiniteSetsExt

CONSTANTS
    None,
    Peers,
    Workers,
    maxRetries       \* maxLightBlockRequestRetries

VARIABLES
    load,       \* the range to fill, what peers have, and who is faulty
    queue,      \* blockQueue
    worker,     \* the workers
    peerList,   \* PeerList of the reactor
    calls,      \* Dispatcher.calls: peers with a call in progress
    asked,      \* light block requests that were sent and are not answered
    verifier,   \* the verifying thread: where it is and its block
    stored,     \* the signed headers and validator sets that were saved
    reported,   \* peers reported to the router
    hiccups     \* bound: timeouts, and peers that come and go

bfVars == <<load, queue, worker, peerList, calls, asked, verifier, stored, reported, hiccups>>

\* A map with an entry
With(f, i, x) == [j \in DOMAIN f \cup {i} |-> IF j = i THEN x ELSE f[j]]

\* Remove of the peer list: a peer that is in it twice stays once.
Remove(list, p) ==
    LET at == {i \in DOMAIN list : list[i] = p}
    IN  IF at = {} THEN list ELSE SubSeq(list, 1, Min(at) - 1) \o SubSeq(list, Min(at) + 1, Len(list))

Hiccup == hiccups > 0 /\ hiccups' = hiccups - 1

\* A light block of the chain at height h; a forged one has another hash and any time.
\* Blocks are old when their time is before the stop time.
Block(h) == [height |-> h, good |-> TRUE, old |-> h <= load.oldest]
Forged(h) == {[height |-> h, good |-> FALSE, old |-> old] : old \in BOOLEAN}
NoBlock  == [height |-> 0, good |-> FALSE, old |-> FALSE]
NoAnswer == [height |-> -1, good |-> FALSE, old |-> FALSE]

\* Terminal 0 is none: heights start at 1.
newBlockQueue(start) ==
    [fetchHeight |-> start, verifyHeight |-> start, terminal |-> 0, failed |-> {}, retries |-> 0,
     pending |-> <<>>, waiters |-> <<>>, done |-> FALSE]

idleWorker == [pc |-> "idle", height |-> 0, peer |-> None]
newVerifier(start) == [pc |-> "next", resp |-> None, lastChange |-> start, vals |-> None]

BackfillInit ==
    /\ queue = newBlockQueue(0)
    /\ worker = [w \in Workers |-> idleWorker]
    /\ verifier = [newVerifier(0) EXCEPT !.pc = "off"]
    /\ calls = {} /\ asked = {} /\ reported = {}
    /\ stored = [headers |-> {}, vals |-> <<>>]
    /\ hiccups = load.hiccups

-----------------------------------------------------------------------------
(* blockQueue: each operator gives the queue, the workers and the verifier. *)

Q == [queue |-> queue, worker |-> worker, verifier |-> verifier]

SetQ(q) == queue' = q.queue /\ worker' = q.worker /\ verifier' = q.verifier

\* Mutant: a height that a waiting worker takes is left for another one too.
retryTwice(q, h) ==
    LET k == q.queue
    IN  CASE k.done \/ h < k.terminal -> q
          [] ~(k.done \/ h < k.terminal) /\ k.retries + 1 >= maxRetries ->
               [q EXCEPT !.queue.retries = @ + 1, !.queue.done = TRUE]
          [] OTHER ->
               IF k.waiters # <<>>
               THEN [q EXCEPT !.queue.retries = @ + 1, !.queue.waiters = Tail(@), !.queue.failed = @ \cup {h},
                              !.worker[Head(k.waiters)] = [pc |-> "pop", height |-> h, peer |-> None]]
               ELSE [q EXCEPT !.queue.retries = @ + 1, !.queue.failed = @ \cup {h}]

\* retry: a waiting worker takes the height, or it is left for the next one. After
\* maxRetries the queue is closed.
retry(q, h) ==
    LET k == q.queue
    IN  CASE k.done \/ h < k.terminal -> q
          [] ~(k.done \/ h < k.terminal) /\ k.retries + 1 >= maxRetries ->
               [q EXCEPT !.queue.retries = @ + 1, !.queue.done = TRUE]
          [] OTHER ->
               IF k.waiters # <<>>
               THEN [q EXCEPT !.queue.retries = @ + 1, !.queue.waiters = Tail(@),
                              !.worker[Head(k.waiters)] = [pc |-> "pop", height |-> h, peer |-> None]]
               ELSE [q EXCEPT !.queue.retries = @ + 1, !.queue.failed = @ \cup {h}]

\* add: the verifier may wait for this very block; a block at the end of the range
\* is the terminal one, before it is verified.
add(q, resp) ==
    LET b == resp.block
        k == q.queue
        ends == (b.height <= load.stopHeight /\ b.old) \/ b.height = load.initialHeight
        put  == IF b.height = k.verifyHeight /\ q.verifier.pc = "wait"
                THEN [q EXCEPT !.verifier.pc = "verify", !.verifier.resp = resp]
                ELSE [q EXCEPT !.queue.pending = With(@, b.height, resp)]
    IN  IF k.done \/ b.height < k.terminal THEN q
        ELSE IF ends THEN [put EXCEPT !.queue.terminal = b.height] ELSE put

\* success
success(k) ==
    [k EXCEPT !.done = @ \/ k.verifyHeight = k.terminal, !.verifyHeight = @ - 1]

\* backfill starts below the state of state sync; its workers stop when it returns.
StartBackfill(start) ==
    /\ verifier.pc = "off"
    /\ queue' = newBlockQueue(start)
    /\ verifier' = newVerifier(start)
    /\ UNCHANGED <<load, worker, peerList, calls, asked, stored, reported, hiccups>>

Filling == verifier.pc \notin {"off", "end", "error"}

-----------------------------------------------------------------------------
(* The workers                                                              *)

\* nextHeight: a failed height first, the lowest; then the next one; else it waits.
nextHeight(w) ==
    LET Fetch(h) == [worker EXCEPT ![w] = [pc |-> "pop", height |-> h, peer |-> None]]
    IN  /\ worker[w].pc = "idle" /\ ~queue.done
        /\ CASE queue.failed # {} ->
                  /\ queue' = [queue EXCEPT !.failed = @ \ {Min(queue.failed)}]
                  /\ worker' = Fetch(Min(queue.failed))
             [] queue.failed = {} /\ queue.terminal = 0 /\ queue.fetchHeight >= load.initialHeight ->
                  /\ queue' = [queue EXCEPT !.fetchHeight = @ - 1]
                  /\ worker' = Fetch(queue.fetchHeight)
             [] OTHER ->
                  /\ queue' = [queue EXCEPT !.waiters = Append(@, w)]
                  /\ worker' = [worker EXCEPT ![w].pc = "waiting"]
        /\ UNCHANGED <<load, peerList, calls, asked, verifier, stored, reported, hiccups>>

\* Pop of the peer list, and LightBlock of the dispatcher: a peer that is in the
\* list twice may be busy, then the height is retried.
LightBlock(w) ==
    LET p == Head(peerList)
        h == worker[w].height
    IN  /\ worker[w].pc = "pop" /\ peerList # <<>>
        /\ IF p \in calls
           THEN /\ SetQ(retry([Q EXCEPT !.worker[w] = idleWorker], h))
                /\ peerList' = Append(Tail(peerList), p)
                /\ UNCHANGED <<calls, asked>>
           ELSE /\ worker' = [worker EXCEPT ![w] = [pc |-> "call", height |-> h, peer |-> p]]
                /\ peerList' = Tail(peerList)
                /\ calls' = calls \cup {p} /\ asked' = asked \cup {[peer |-> p, height |-> h]}
                /\ UNCHANGED <<queue, verifier>>
        /\ UNCHANGED <<load, stored, reported, hiccups>>

\* The request is not sent before its context ends: the call is left behind, with a
\* closed channel, and the peer is busy from now on.
SendFails(w) ==
    LET p == Head(peerList)
    IN  /\ worker[w].pc = "pop" /\ peerList # <<>> /\ p \notin calls /\ Hiccup
        /\ SetQ(retry([Q EXCEPT !.worker[w] = idleWorker], worker[w].height))
        /\ peerList' = Append(Tail(peerList), p)
        /\ calls' = calls \cup {p}
        /\ UNCHANGED <<load, asked, stored, reported>>

\* What the worker does with an answer: nothing, no block, or a block. The peer goes
\* back to the list first. A height other than the one asked for is an offence.
Answer(w, lb) ==
    LET p == worker[w].peer
        h == worker[w].height
        q == [Q EXCEPT !.worker[w] = idleWorker]
    IN  /\ calls' = calls \ {p}
        /\ peerList' = IF lb = NoBlock THEN Remove(Append(peerList, p), p) ELSE Append(peerList, p)
        /\ IF lb \in {NoBlock, NoAnswer}
           THEN SetQ(retry(q, h)) /\ UNCHANGED reported
           ELSE IF lb.height # h
           THEN SetQ(retry(q, h)) /\ reported' = reported \cup {p}
           ELSE SetQ(add(q, [block |-> lb, peer |-> p])) /\ UNCHANGED reported

Caller(p) == {w \in Workers : worker[w].pc = "call" /\ worker[w].peer = p}

\* Respond of the dispatcher: the answer of a peer goes to the call in progress,
\* whatever height that one is for; without one it is dropped. Into the closed channel
\* of a call that was left behind it panics, and the peer is reported.
Respond(r, lb) ==
    /\ r \in asked
    /\ IF r.peer \in load.faulty THEN lb \in Forged(r.height) \cup {Block(r.height), NoBlock}
       ELSE lb = IF r.height >= load.base[r.peer] THEN Block(r.height) ELSE NoBlock
    /\ asked' = asked \ {r}
    /\ IF Caller(r.peer) = {}
       THEN /\ reported' = IF r.peer \in calls THEN reported \cup {r.peer} ELSE reported
            /\ UNCHANGED <<queue, worker, verifier, peerList, calls>>
       ELSE \E w \in Caller(r.peer) : Answer(w, lb)
    /\ UNCHANGED <<load, stored, hiccups>>

\* lightBlockResponseTimeout
CallTimeout(w) ==
    /\ worker[w].pc = "call"
    /\ Answer(w, NoAnswer)
    /\ Hiccup
    /\ UNCHANGED <<load, asked, stored>>

\* processPeerUpdate. A peer that leaves while it is called is back in the list
\* when the call ends.
PeerDown(p) ==
    /\ Remove(peerList, p) # peerList /\ Hiccup
    /\ peerList' = Remove(peerList, p)
    /\ UNCHANGED <<load, queue, worker, calls, asked, verifier, stored, reported>>

PeerUp(p) ==
    /\ Len(peerList) < 2 * Cardinality(Peers) /\ Hiccup
    /\ peerList' = Append(peerList, p)
    /\ UNCHANGED <<load, queue, worker, calls, asked, verifier, stored, reported>>

-----------------------------------------------------------------------------
(* The verifying thread of backfill                                         *)

\* verifyNext
verifyNext ==
    LET h == queue.verifyHeight
    IN  /\ verifier.pc = "next" /\ ~queue.done
        /\ IF h \in DOMAIN queue.pending
           THEN /\ verifier' = [verifier EXCEPT !.pc = "verify", !.resp = queue.pending[h]]
                /\ queue' = [queue EXCEPT !.pending = [i \in DOMAIN @ \ {h} |-> @[i]]]
           ELSE verifier' = [verifier EXCEPT !.pc = "wait"] /\ UNCHANGED queue
        /\ UNCHANGED <<load, worker, peerList, calls, asked, stored, reported, hiccups>>

\* Mutant: the last height of the range is missed.
SaveValidatorSetsBut(from, to, vals) ==
    [h \in DOMAIN stored.vals \cup from..to - 1 |-> IF h \in from..to - 1 THEN vals ELSE stored.vals[h]]

SaveValidatorSets(from, to, vals) ==
    [h \in DOMAIN stored.vals \cup from..to |-> IF h \in from..to THEN vals ELSE stored.vals[h]]

\* The hash of the block is the one in the header above, or its peer is reported and
\* the height retried. Where the validators change, the sets above are saved.
Verify ==
    LET b == verifier.resp.block
        h == b.height
        changes == verifier.vals # None /\ load.vals[h] # load.vals[h + 1]
    IN  /\ verifier.pc = "verify"
        /\ IF ~b.good
           THEN /\ reported' = reported \cup {verifier.resp.peer}
                /\ SetQ(retry([Q EXCEPT !.verifier.pc = "next", !.verifier.resp = None], h))
                /\ UNCHANGED stored
           ELSE /\ stored' = [headers |-> stored.headers \cup {b},
                      vals |-> IF changes THEN SaveValidatorSets(h + 1, verifier.lastChange, verifier.vals)
                               ELSE stored.vals]
                /\ queue' = success(queue)
                /\ verifier' = [pc |-> "next", resp |-> None, vals |-> load.vals[h],
                                lastChange |-> IF changes THEN h ELSE verifier.lastChange]
                /\ UNCHANGED <<worker, reported>>
        /\ UNCHANGED <<load, peerList, calls, asked, hiccups>>

\* The queue is done: the last validators are saved, unless it was given up.
Finish ==
    /\ verifier.pc \in {"next", "wait"} /\ queue.done
    /\ verifier' = [verifier EXCEPT !.pc = IF queue.retries >= maxRetries THEN "error" ELSE "end"]
    /\ stored' = IF queue.retries >= maxRetries THEN stored
                 ELSE [stored EXCEPT !.vals =
                          SaveValidatorSets(queue.terminal, verifier.lastChange, verifier.vals)]
    /\ UNCHANGED <<load, queue, worker, peerList, calls, asked, reported, hiccups>>

BackfillNext ==
  /\ Filling
  /\ \/ \E w \in Workers : nextHeight(w) \/ LightBlock(w) \/ SendFails(w) \/ CallTimeout(w)
     \/ \E r \in asked : \E lb \in Forged(r.height) \cup {Block(r.height), NoBlock} : Respond(r, lb)
     \/ \E p \in Peers : PeerDown(p) \/ PeerUp(p)
     \/ verifyNext \/ Verify \/ Finish

=============================================================================
