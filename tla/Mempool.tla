------------------------------- MODULE Mempool -------------------------------
(***************************************************************************)
(* internal/mempool: the transactions that wait for a block.               *)
(*                                                                         *)
(* CheckTx and the two Reap calls hold the mempool's lock for reading, so  *)
(* any number of them run at once, and a step of theirs is one call into   *)
(* the store, the priority queue, the sorted lists, the gossip list, the   *)
(* cache or the count of bytes; Update and RemoveTxByKey hold the lock for *)
(* writing and are one step.  A WrappedTx is a pointer: two of them for    *)
(* one transaction are told apart by n.  The two sorted lists for expiry,  *)
(* by height and by time, are one index, and the time to live is counted   *)
(* in blocks.  A caller that panics is recovered by the reactor or the RPC *)
(* server, releases the lock and leaves the rest as it is.                 *)
(***************************************************************************)
EXTENDS Integers, FiniteSets, FiniteSetsExt, SequencesExt

CONSTANTS
    Txs,
    Priority,      \* ResponseCheckTx.Priority, the same at every recheck
    Bytes,         \* the size of a transaction
    Sender,        \* ResponseCheckTx.Sender, or None
    Checkers,      \* goroutines that call CheckTx: peers' messages, RPC requests
    None,
    MaxWraps       \* bound: how often a transaction gets past the cache

ASSUME MempoolAssumption ==
    /\ Priority \in [Txs -> Nat] /\ Bytes \in [Txs -> Nat \ {0}]
    /\ None \notin Txs /\ MaxWraps \in Nat \ {0}

WrappedTx == [tx : Txs, n : 1 .. MaxWraps, height : Nat \union {-1}]
Senders == {Sender[tx] : tx \in Txs} \ {None}

VARIABLES
    mp,        \* the TxMempool
    checkers,  \* where each CheckTx call is
    reaper,    \* where ReapMaxBytesMaxGas or ReapMaxTxs is
    valid,     \* the application: the transactions that pass CheckTx
    wraps,     \* history: WrappedTxs made for each transaction
    cfg        \* the mempool section of the configuration

mempoolVars == <<mp, checkers, reaper, valid, wraps, cfg>>

NewTxMempool ==
    [hashTxs |-> [tx \in Txs |-> None], senderTxs |-> [s \in Senders |-> None],
     priorityIndex |-> {}, gossipIndex |-> {}, heightIndex |-> {},
     sizeBytes |-> 0, cache |-> <<>>, height |-> -1,
     notified |-> FALSE,      \* notifiedTxsAvailable
     fired |-> -2,            \* history: the height TxsAvailable last fired for
     panicked |-> FALSE,      \* history: some call panicked
     overtaken |-> FALSE,     \* history: one was evicted before its insertion was over
     duplicated |-> FALSE]    \* history: a stored transaction was inserted again

Idle == [pc |-> "idle"]
NotReaping == [pc |-> "idle", popped |-> {}, bytes |-> 0, fell |-> FALSE]

MempoolInit ==
    /\ mp = NewTxMempool
    /\ checkers = [c \in Checkers |-> Idle]
    /\ reaper = NotReaping
    /\ wraps = [tx \in Txs |-> 0]

-----------------------------------------------------------------------------
BytesOf(S) == MapThenSumSet(LAMBDA w : Bytes[w.tx], S)

Size(m) == Cardinality({tx \in Txs : m.hashTxs[tx] # None})

\* LRUTxCache: the key used last is at the end, the first one goes when it is full.
CachePush(cache, tx) ==
    IF Contains(cache, tx) THEN Append(Remove(cache, tx), tx)
    ELSE Append(IF Len(cache) >= cfg.CacheSize THEN Tail(cache) ELSE cache, tx)

notifyTxsAvailable(m) ==
    IF Size(m) > 0 /\ ~m.notified THEN [m EXCEPT !.notified = TRUE, !.fired = m.height] ELSE m

\* Mutant: an expired or evicted transaction stays in the sorted lists.
removeTxKeepingHeight(m, w, removeFromCache) ==
    [m EXCEPT !.hashTxs[w.tx] = None,
              !.senderTxs = [s \in Senders |-> IF s = Sender[w.tx] THEN None ELSE @[s]],
              !.priorityIndex = @ \ {w}, !.gossipIndex = @ \ {w},
              !.sizeBytes = @ - Bytes[w.tx],
              !.cache = IF removeFromCache THEN Remove(@, w.tx) ELSE @]

\* What removeTx does, in this order.  IsTxRemoved is false for every transaction,
\* since RemoveTx takes it out of the map that IsTxRemoved looks in.  The queue is
\* indexed by heapIndex, which is -1 outside of it; gossipEl is nil until the
\* transaction is pushed there.
RemoveSteps == <<"store", "queue", "lists", "gossip", "bytes", "cache">>

removed(m, step, w, removeFromCache) ==
    CASE step = "store" ->
            [m EXCEPT !.hashTxs[w.tx] = None,
                      !.senderTxs = [s \in Senders |-> IF s = Sender[w.tx] THEN None ELSE @[s]]]
      [] step = "queue" ->
            IF w \in m.priorityIndex THEN [m EXCEPT !.priorityIndex = @ \ {w}]
                                      ELSE [m EXCEPT !.panicked = TRUE]
      [] step = "lists" -> [m EXCEPT !.heightIndex = @ \ {w}]
      [] step = "gossip" ->
            IF w \in m.gossipIndex THEN [m EXCEPT !.gossipIndex = @ \ {w}]
                                    ELSE [m EXCEPT !.panicked = TRUE]
      [] step = "bytes" -> [m EXCEPT !.sizeBytes = @ - Bytes[w.tx]]
      [] step = "cache" -> IF removeFromCache THEN [m EXCEPT !.cache = Remove(@, w.tx)] ELSE m

\* removeTx under the lock for writing.
removeTx(m, w, removeFromCache) ==
    FoldLeft(LAMBDA acc, step : IF acc.panicked THEN acc ELSE removed(acc, step, w, removeFromCache),
             m, RemoveSteps)

\* The caller of a removeTx that panics goes no further.
removeAll(m, S, removeFromCache) ==
    FoldSet(LAMBDA w, acc : IF acc.panicked THEN acc ELSE removeTx(acc, w, removeFromCache), m, S)

\* GetEvictableTxs: the transactions of least priority, one at least, until the
\* new one fits into what the given total leaves; none of the priority of the new
\* one or above.
EvictableTxs(tx, total) ==
    LET free(S) == total - BytesOf(S) + Bytes[tx] <= cfg.MaxTxsBytes
    IN  {S \in SUBSET {w \in mp.priorityIndex : Priority[w.tx] < Priority[tx]} \ {{}} :
            /\ \A w \in S, v \in mp.priorityIndex \ S : Priority[w.tx] <= Priority[v.tx]
            /\ free(S)
            /\ \E w \in S : /\ \A v \in S : Priority[v.tx] <= Priority[w.tx]
                            /\ S = {w} \/ ~free(S \ {w})}

-----------------------------------------------------------------------------
\* CheckTx up to the application; for a known transaction the cache answers.
CheckTx(c, tx) ==
    /\ checkers[c] = Idle
    /\ mp' = [mp EXCEPT !.cache = CachePush(@, tx)]
    /\ IF Contains(mp.cache, tx)
       THEN UNCHANGED <<checkers, wraps>>
       ELSE /\ wraps[tx] < MaxWraps
            /\ wraps' = [wraps EXCEPT ![tx] = @ + 1]
            /\ checkers' = [checkers EXCEPT ![c] =
                  [pc |-> "check", wtx |-> [tx |-> tx, n |-> wraps[tx] + 1, height |-> mp.height],
                   evict |-> <<>>, total |-> 0, step |-> 1]]
    /\ UNCHANGED <<reaper, valid, cfg>>

\* The application's answer, and whether the sender has a transaction already: one
\* of a known sender is dropped and stays in the cache.
addNewTransaction(c) ==
    LET w == checkers[c].wtx
    IN  /\ checkers[c].pc = "check"
        /\ IF w.tx \notin valid
           THEN /\ mp' = IF cfg.KeepInvalidTxsInCache THEN mp ELSE [mp EXCEPT !.cache = Remove(@, w.tx)]
                /\ checkers' = [checkers EXCEPT ![c] = Idle]
           ELSE /\ UNCHANGED mp
                /\ checkers' = [checkers EXCEPT ![c] =
                       IF Sender[w.tx] # None /\ mp.senderTxs[Sender[w.tx]] # None THEN Idle
                       ELSE [@ EXCEPT !.pc = "size"]]
        /\ UNCHANGED <<reaper, valid, wraps, cfg>>

\* canAddTx reads the number of transactions and then their bytes.
canAddTx(c) ==
    /\ checkers[c].pc \in {"size", "bytes"}
    /\ checkers' = [checkers EXCEPT ![c].pc =
          IF @ = "size" THEN IF Size(mp) >= cfg.Size THEN "full" ELSE "bytes"
          ELSE IF mp.sizeBytes + Bytes[checkers[c].wtx.tx] > cfg.MaxTxsBytes THEN "full" ELSE "insert"]
    /\ UNCHANGED <<mp, reaper, valid, wraps, cfg>>

\* The bytes are read again, and then the queue is asked what makes room.
GetEvictableTxs(c) ==
    LET w   == checkers[c].wtx
        Ss  == EvictableTxs(w.tx, checkers[c].total)
    IN  /\ \/ /\ checkers[c].pc = "full"
              /\ checkers' = [checkers EXCEPT ![c].pc = "find", ![c].total = mp.sizeBytes]
              /\ UNCHANGED mp
           \/ /\ checkers[c].pc = "find" /\ Ss = {}
              /\ mp' = [mp EXCEPT !.cache = Remove(@, w.tx)]
              /\ checkers' = [checkers EXCEPT ![c] = Idle]
           \/ /\ checkers[c].pc = "find"
              /\ \E S \in Ss : \E order \in SetToSeqs(S) :
                    /\ \A i, j \in DOMAIN order : i < j => Priority[order[i].tx] <= Priority[order[j].tx]
                    /\ checkers' = [checkers EXCEPT ![c].pc = "evict", ![c].evict = order, ![c].total = 0]
              /\ UNCHANGED mp
        /\ UNCHANGED <<reaper, valid, wraps, cfg>>

\* A step of the removeTx of the eviction loop.
Evict(c) ==
    LET w     == Head(checkers[c].evict)
        at    == checkers[c].step
        left  == Tail(checkers[c].evict)
        m     == removed([mp EXCEPT !.panicked = FALSE], RemoveSteps[at], w, TRUE)
        early == at = 1 /\ \E d \in Checkers : checkers[d].pc = "insert" /\ checkers[d].wtx = w
    IN  /\ checkers[c].pc = "evict"
        /\ mp' = [m EXCEPT !.panicked = @ \/ mp.panicked, !.overtaken = @ \/ early]
        /\ checkers' = [checkers EXCEPT ![c] =
              IF m.panicked THEN Idle
              ELSE IF at < Len(RemoveSteps) THEN [@ EXCEPT !.step = at + 1]
              ELSE [@ EXCEPT !.evict = left, !.step = 1, !.pc = IF left = <<>> THEN "insert" ELSE @]]
        /\ UNCHANGED <<reaper, valid, wraps, cfg>>

\* What insertTx does, in this order, and the notification.
InsertSteps == <<"store", "queue", "lists", "gossip", "bytes", "notify">>

inserted(m, step, w) ==
    CASE step = "store" ->
            [m EXCEPT !.hashTxs[w.tx] = w,
                      !.senderTxs = [s \in Senders |-> IF s = Sender[w.tx] THEN w ELSE @[s]],
                      !.duplicated = @ \/ m.hashTxs[w.tx] # None]
      [] step = "queue"  -> [m EXCEPT !.priorityIndex = @ \cup {w}]
      [] step = "lists"  -> [m EXCEPT !.heightIndex = @ \cup {w}]
      [] step = "gossip" -> [m EXCEPT !.gossipIndex = @ \cup {w}]
      [] step = "bytes"  -> [m EXCEPT !.sizeBytes = @ + Bytes[w.tx]]
      [] step = "notify" -> notifyTxsAvailable(m)

insertTx(c) ==
    LET at == checkers[c].step
    IN  /\ checkers[c].pc = "insert"
        /\ mp' = inserted(mp, InsertSteps[at], checkers[c].wtx)
        /\ checkers' = [checkers EXCEPT ![c] =
              IF at = Len(InsertSteps) THEN Idle ELSE [@ EXCEPT !.step = at + 1]]
        /\ UNCHANGED <<reaper, valid, wraps, cfg>>

-----------------------------------------------------------------------------
Reap ==
    /\ cfg.Reaps /\ reaper.pc = "idle"
    /\ Size(mp) >= cfg.TxNotifyThreshold
    /\ reaper' = [reaper EXCEPT !.pc = "test"]
    /\ UNCHANGED <<mp, checkers, valid, wraps, cfg>>

\* NumTxs, asked before each PopTx.
NumTxs ==
    /\ reaper.pc = "test"
    /\ reaper' = [reaper EXCEPT !.pc = IF mp.priorityIndex = {} THEN "push" ELSE "pop"]
    /\ UNCHANGED <<mp, checkers, valid, wraps, cfg>>

\* The transaction of highest priority is taken out, even if it does not fit.  On
\* a queue that was emptied meanwhile PopTx panics: ReapMaxBytesMaxGas still puts
\* back what it took out, ReapMaxTxs does not.
PopTx ==
    /\ reaper.pc = "pop"
    /\ IF mp.priorityIndex = {}
       THEN /\ mp' = [mp EXCEPT !.panicked = TRUE]
            /\ reaper' \in {NotReaping, [reaper EXCEPT !.pc = "push", !.fell = TRUE]}
       ELSE \E w \in mp.priorityIndex :
          /\ \A v \in mp.priorityIndex : Priority[v.tx] <= Priority[w.tx]
          /\ mp' = [mp EXCEPT !.priorityIndex = @ \ {w}]
          /\ reaper' = [pc     |-> IF reaper.bytes + Bytes[w.tx] > cfg.MaxBlockBytes THEN "push" ELSE "test",
                        popped |-> reaper.popped \cup {w},
                        bytes  |-> reaper.bytes + Bytes[w.tx],
                        fell   |-> FALSE]
    /\ UNCHANGED <<checkers, valid, wraps, cfg>>

\* What was taken out goes back one by one, and then the call returns.
PushTx ==
    /\ reaper.pc = "push"
    /\ IF reaper.popped = {}
       THEN reaper' = NotReaping /\ UNCHANGED mp
       ELSE \E w \in reaper.popped :
               /\ mp' = [mp EXCEPT !.priorityIndex = @ \cup {w}]
               /\ reaper' = [reaper EXCEPT !.popped = @ \ {w}]
    /\ UNCHANGED <<checkers, valid, wraps, cfg>>

\* The lock can be had for writing.
Unlocked == reaper = NotReaping /\ \A c \in Checkers : checkers[c] = Idle

RemoveTxByKey(tx) ==
    /\ cfg.Removes /\ Unlocked /\ mp.hashTxs[tx] # None
    /\ mp' = removeTx(mp, mp.hashTxs[tx], FALSE)
    /\ UNCHANGED <<checkers, reaper, valid, wraps, cfg>>

\* purgeExpiredTxs cuts the expired ones off the sorted lists and removes one
\* for each transaction, the last in the list.
purgeExpiredTxs(m, height) ==
    LET expired == {w \in m.heightIndex : cfg.TTLNumBlocks > 0 /\ height - w.height > cfg.TTLNumBlocks}
        last    == {w \in expired : \A v \in expired \ {w} : v.tx = w.tx =>
                       v.height < w.height \/ (v.height = w.height /\ w.n < v.n)}
    IN  IF m.panicked THEN m ELSE removeAll([m EXCEPT !.heightIndex = @ \ expired], last, FALSE)

\* updateReCheckTxs goes through the gossip list; the call that reaches the end
\* of it notifies.
updateReCheckTxs(m, newValid) ==
    LET checked == removeAll(m, {w \in m.gossipIndex : w.tx \notin newValid}, ~cfg.KeepInvalidTxsInCache)
    IN  IF checked.panicked \/ m.gossipIndex = {} THEN checked ELSE notifyTxsAvailable(checked)

\* The loop of Update over the transactions of the block.
removeCommitted(m, block, ok) ==
    LET cached(cache, tx) == IF tx \in ok THEN CachePush(cache, tx)
                             ELSE IF cfg.KeepInvalidTxsInCache THEN cache ELSE Remove(cache, tx)
        one(acc, tx) == LET c == [acc EXCEPT !.cache = cached(@, tx)]
                        IN  IF acc.panicked THEN acc
                            ELSE IF acc.hashTxs[tx] = None THEN c
                            ELSE removeTx(c, acc.hashTxs[tx], FALSE)
    IN  FoldLeft(one, m, block)

\* Mutant: the new height finds the old notification.
UpdateNotReset(m, height, block, ok, newValid) ==
    LET start  == [m EXCEPT !.height = height, !.panicked = FALSE]
        purged == purgeExpiredTxs(removeCommitted(start, block, ok), height)
    IN  IF purged.panicked \/ Size(purged) = 0 THEN purged
        ELSE IF cfg.Recheck THEN updateReCheckTxs(purged, newValid)
        ELSE notifyTxsAvailable(purged)

\* Update, for a block, a sequence of transactions, of which those in ok
\* succeeded.  The result is panicked when Update does not return.
Update(m, height, block, ok, newValid) ==
    LET start  == [m EXCEPT !.height = height, !.notified = FALSE, !.panicked = FALSE]
        purged == purgeExpiredTxs(removeCommitted(start, block, ok), height)
    IN  IF purged.panicked \/ Size(purged) = 0 THEN purged
        ELSE IF cfg.Recheck THEN updateReCheckTxs(purged, newValid)
        ELSE notifyTxsAvailable(purged)

MempoolNext ==
    \/ \E c \in cfg.Checkers :
          \/ \E tx \in Txs : CheckTx(c, tx)
          \/ addNewTransaction(c) \/ canAddTx(c) \/ GetEvictableTxs(c)
          \/ Evict(c) \/ insertTx(c)
    \/ Reap \/ NumTxs \/ PopTx \/ PushTx
    \/ \E tx \in Txs : RemoveTxByKey(tx)
=============================================================================
