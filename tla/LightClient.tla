---------------------------- MODULE LightClient ----------------------------
(***************************************************************************)
(* The light client behind the state provider of state sync: it fetches    *)
(* light blocks from a primary provider, verifies them from a block that   *)
(* it trusts by skipping or backwards, compares what it verified with the  *)
(* witnesses, and keeps it. Providers that fail are replaced or dropped.   *)
(* load.light is the chain, a fork of it, and what each provider answers.  *)
(***************************************************************************)
EXTENDS Integers, Sequences, FiniteSets, FiniteSetsExt, SequencesExt

CONSTANTS
    None,
    LightTip,      \* the highest block there is
    pruningSize,   \* light blocks that the trusted store keeps
    maxProviders   \* witnesses from which on no peer is added

VARIABLES
    load,
    primary,    \* primary
    witnesses,  \* witnesses, some provider possibly twice
    banned,     \* blacklist
    trusted,    \* trustedStore: height to light block
    client,     \* where the call is, and what it has fetched so far
    loose       \* history: heights that were saved without a check that was meant

lcVars == <<primary, witnesses, banned, trusted, client, loose>>

-----------------------------------------------------------------------------
(* Light blocks: of the chain, of a fork of it that has enough signatures   *)
(* from load.light.fork.at on, or forged without any.                       *)

light  == load.light
Branch == {"main", "fork", "forged"}
Block(h, branch) == [height |-> h, branch |-> branch]

vals(b)     == IF b.branch = "fork" THEN light.fork.vals ELSE light.vals[b.height]
nextVals(b) == IF b.branch = "fork" THEN light.fork.vals ELSE light.vals[b.height + 1]
signers(b)  == IF b.branch = "forged" THEN {} ELSE vals(b)
time(b)     == 2 * b.height - (IF b.branch = "fork" THEN light.fork.early ELSE 0)

\* LastBlockID: the block that this one follows
follows(b, prev) ==
    /\ prev.height = b.height - 1
    /\ IF b.branch = "fork" /\ b.height # light.fork.at THEN prev.branch = "fork"
       ELSE prev.branch = "main"

HeaderExpired(b) == time(b) <= light.expired

\* VerifyCommitLight and VerifyCommitLightTrusting with the default trust level
signedByTwoThirds(b)   == 3 * Cardinality(signers(b) \cap vals(b)) > 2 * Cardinality(vals(b))
signedByTrusted(t, b)  == 3 * Cardinality(signers(b) \cap vals(t)) > Cardinality(vals(t))

\* It is the header to verify that must not have expired.
Verify(t, b) ==
    CASE HeaderExpired(b) -> "expired"
      [] ~HeaderExpired(b) /\ (b.height <= t.height \/ time(b) <= time(t) \/ time(b) >= light.future) -> "invalid"
      [] OTHER ->
            IF b.height = t.height + 1
            THEN IF vals(b) = nextVals(t) /\ signedByTwoThirds(b) THEN "ok" ELSE "invalid"
            ELSE IF ~signedByTrusted(t, b) THEN "cantBeTrusted"
            ELSE IF signedByTwoThirds(b) THEN "ok" ELSE "invalid"

VerifyBackwards(b, t) == time(b) < time(t) /\ follows(t, b)

-----------------------------------------------------------------------------
(* Providers: a light block of a height, or an error                        *)

Benign == {"noResponse", "notFound", "tooHigh"}

Answer(p, h)  == light.serves[p][h]
Gives(p, h)   == Answer(p, h) \in Branch
BlockOf(p, h) == Block(h, Answer(p, h))
Latest(p)     == BlockOf(p, Max({h \in 1..LightTip : Gives(p, h)}))

\* providerShouldBeRemoved
ShouldBeRemoved(err) == err = "unreliable"

removeWitnesses(ws, is) ==
    LET kept == SetToSortSeq(DOMAIN ws \ is, <)
    IN  [k \in DOMAIN kept |-> ws[kept[k]]]

-----------------------------------------------------------------------------
(* verifySkipping                                                           *)

schedule(verified, failed) == verified + ((failed - verified) * 9) \div 16

\* Mutant: the loop ends with the first block of the cache that is verified.
SkipStopsEarly(s, source) ==
    LET b     == s.cache[s.depth]
        pivot == schedule(s.verified.height, b.height)
    IN  CASE s.result # "more" -> s
          [] s.result = "more" /\ Verify(s.verified, b) = "ok" -> [s EXCEPT !.trace = @ \o <<b, s.cache[1]>>, !.result = "ok"]
          [] s.result = "more" /\ Verify(s.verified, b) = "cantBeTrusted" /\ Gives(source, pivot) ->
                [s EXCEPT !.cache = Append(@, BlockOf(source, pivot)), !.depth = @ + 1]
          [] OTHER -> [s EXCEPT !.result = "invalid", !.to = b.height]

\* One turn of the loop: the cache goes from the target down, and what is verified of
\* it is the next block to verify from.
Skip(s, source) ==
    LET b      == s.cache[s.depth]
        result == Verify(s.verified, b)
        pivot  == schedule(s.verified.height, b.height)
    IN  CASE s.result # "more" -> s
          [] s.result = "more" /\ result = "ok" ->
                [s EXCEPT !.trace = Append(@, b), !.verified = b, !.depth = 1,
                          !.cache = IF s.depth = 1 THEN @ ELSE SubSeq(@, 1, s.depth - 1),
                          !.result = IF s.depth = 1 THEN "ok" ELSE "more"]
          [] s.result = "more" /\ result = "cantBeTrusted" ->
                IF s.depth < Len(s.cache) THEN [s EXCEPT !.depth = @ + 1]
                ELSE IF Gives(source, pivot)
                THEN [s EXCEPT !.cache = Append(@, BlockOf(source, pivot)), !.depth = @ + 1]
                ELSE [s EXCEPT !.result = Answer(source, pivot), !.to = pivot]
          [] OTHER -> [s EXCEPT !.result = result, !.to = b.height]

\* From a block that is n below the target, one of the next n turns verifies a block.
verifySkipping(source, from, target) ==
    LET n     == target.height - from.height
        turns == [turn \in 1..(n * (n + 1)) \div 2 |-> turn]
    IN  FoldLeft(LAMBDA s, turn : Skip(s, source),
                 [cache |-> <<target>>, depth |-> 1, verified |-> from, trace |-> <<from>>,
                  result |-> "more", to |-> 0],
                 turns)

-----------------------------------------------------------------------------
(* The detector                                                             *)

\* examineConflictingHeaderAgainstTrace: whether the source can verify its block up to
\* where it differs from the trace.
Examined(trace, target, source) ==
    LET Gap(prev, b) == verifySkipping(source, prev, b).result = "ok"
        Look(s, b) ==
            LET mine == IF b.height = target.height THEN target ELSE BlockOf(source, b.height)
            IN  CASE s.result # "more" -> s
                  [] s.result = "more" /\ b.height > target.height ->
                        [s EXCEPT !.result = IF time(b) <= time(target)
                                                /\ (s.verified.height # target.height => Gap(s.verified, target))
                                             THEN "diverged" ELSE "error"]
                  [] s.result = "more" /\ b.height < target.height /\ ~Gives(source, b.height) ->
                        [s EXCEPT !.result = "error"]
                  [] OTHER ->
                        IF s.verified = None
                        THEN IF mine = b THEN [s EXCEPT !.verified = b] ELSE [s EXCEPT !.result = "error"]
                        ELSE IF ~Gap(s.verified, mine) THEN [s EXCEPT !.result = "error"]
                        ELSE IF mine # b THEN [s EXCEPT !.result = "diverged"]
                        ELSE [s EXCEPT !.verified = mine]
    IN  /\ target.height >= trace[1].height
        /\ FoldLeft(Look, [verified |-> None, result |-> "more"], trace).result = "diverged"

\* compareNewHeaderWithWitness: what the goroutine sends, in order. A block of that
\* height that differs is reported, and a match after it.
Compared(p, b) ==
    LET a        == Answer(p, b.height)
        Conflict(other) == [kind |-> "conflict", block |-> other]
        match    == [kind |-> "match"]
        behind   == {h \in 1..LightTip : Gives(p, h)} # {} /\ Latest(p).height < b.height
    IN  CASE a = b.branch -> <<match>>
          [] a \in Branch \ {b.branch} -> <<Conflict(Block(b.height, a)), match>>
          [] a = "tooHigh" ->
                IF behind /\ time(Latest(p)) >= time(b) THEN <<Conflict(Latest(p))>>
                ELSE <<[kind |-> "error"]>>
          [] OTHER -> <<[kind |-> "bad"]>>

-----------------------------------------------------------------------------
(* Calls of the client                                                      *)

idleClient(pc) ==
    [pc |-> pc, todo |-> <<>>, height |-> 0, why |-> None, remove |-> FALSE, target |-> None,
     from |-> None, trace |-> <<>>, err |-> None]

LightClientInit ==
    /\ primary = Head(light.providers) /\ witnesses = Tail(light.providers)
    /\ banned = {} /\ trusted = <<>> /\ loose = {}
    /\ client = IF load.stateSync THEN [idleClient("fetch") EXCEPT !.height = light.root, !.why = "root"]
                ELSE idleClient("off")

Failed(c, err) == [c EXCEPT !.pc = "failed", !.err = err]

LightBlockBefore(h) == trusted[Max({k \in DOMAIN trusted : k < h})]

\* verifyLightBlock: forwards from the latest trusted block or from the closest one
\* before, or backwards from the first one.
verifyLightBlock(c, b) ==
    LET first == Min(DOMAIN trusted)
    IN  IF b.height < first THEN [c EXCEPT !.pc = "back", !.target = b, !.from = trusted[first]]
        ELSE [c EXCEPT !.pc = "skip", !.target = b, !.from = LightBlockBefore(b.height)]

\* What the caller does with the block that the primary, or a new primary, returned.
Fetched(c, b) ==
    CASE c.why = "root" ->
            IF b = Block(light.root, "main") /\ signedByTwoThirds(b)
            THEN [c EXCEPT !.pc = "first", !.target = b] ELSE Failed(c, "other")
      [] c.why = "target" -> verifyLightBlock(c, b)
      [] c.why = "interim" ->
            IF VerifyBackwards(b, c.from) THEN [c EXCEPT !.pc = "back", !.from = b]
            ELSE [c EXCEPT !.pc = "replace", !.height = c.target.height, !.remove = TRUE, !.why = "back"]
      [] c.why \in {"skip", "back"} ->
            IF b = c.target THEN [c EXCEPT !.pc = c.why] ELSE Failed(c, "other")

lightBlockFromPrimary ==
    /\ client.pc = "fetch"
    /\ client' = IF Gives(primary, client.height) THEN Fetched(client, BlockOf(primary, client.height))
                 ELSE [client EXCEPT !.pc = "replace", !.remove = Answer(primary, client.height) \notin Benign]
    /\ UNCHANGED <<load, primary, witnesses, banned, trusted, loose>>

\* The error of findNewPrimary is that of the caller, or the caller has its own.
CallerFailed(err) == Failed(client, IF client.why \in {"root", "target"} THEN err ELSE "other")

\* findNewPrimary: witness i answers first with a block, after the witnesses in bad with
\* an error for which they are removed. Without any witness left the primary is
\* replaced nevertheless.
findNewPrimary(i, bad) ==
    LET ws   == IF client.remove THEN witnesses ELSE Append(witnesses, primary)
        gone == bad \cup {i}
    IN  /\ client.pc = "replace"
        /\ Gives(witnesses[i], client.height)
        /\ \A j \in bad : Answer(witnesses[j], client.height) \notin Branch \cup Benign
        /\ primary' = witnesses[i]
        /\ IF Len(ws) <= Cardinality(gone)
           THEN witnesses' = ws /\ client' = CallerFailed("noWitnesses")
           ELSE /\ witnesses' = removeWitnesses(ws, gone)
                /\ client' = Fetched(client, BlockOf(witnesses[i], client.height))
        /\ UNCHANGED <<load, banned, trusted, loose>>

NoNewPrimary ==
    /\ client.pc = "replace"
    /\ \A i \in DOMAIN witnesses : ~Gives(witnesses[i], client.height)
    /\ client' = CallerFailed(IF witnesses = <<>> THEN "noWitnesses" ELSE "other")
    /\ UNCHANGED <<load, primary, witnesses, banned, trusted, loose>>

\* The context of the call ends while a block is fetched.
CallTimeout ==
    /\ client.pc \in {"fetch", "replace"}
    /\ client' = Failed(client, "other")
    /\ UNCHANGED <<load, primary, witnesses, banned, trusted, loose>>

\* The store keeps the highest blocks.
Prune(heights) == {h \in heights : Cardinality({k \in heights : k > h}) < pruningSize}

\* updateTrustedLightBlock, and the call returns.
updateTrustedLightBlock(b) ==
    LET heights == Prune(DOMAIN trusted \cup {b.height})
    IN  /\ trusted' = [h \in heights |-> IF h = b.height THEN b ELSE trusted[h]]
        /\ client' = [idleClient("next") EXCEPT !.todo = IF client.todo = <<>> THEN <<>> ELSE Tail(client.todo)]

\* Unless the check was made, the height is loose.
Unless(checked) == IF checked THEN {} ELSE {client.target.height}

\* compareFirstHeaderWithWitnesses: a conflicting header is always read.
compareFirstHeaderWithWitnesses ==
    LET Kind(i) == Compared(witnesses[i], client.target)[1].kind
        bad     == {i \in DOMAIN witnesses : Kind(i) = "bad"}
    IN  /\ client.pc = "first"
        /\ IF \E i \in DOMAIN witnesses : Kind(i) = "conflict"
           THEN client' = Failed(client, "other") /\ UNCHANGED <<witnesses, trusted>>
           ELSE IF Len(witnesses) <= Cardinality(bad)
           THEN client' = Failed(client, "noWitnesses") /\ UNCHANGED <<witnesses, trusted>>
           ELSE witnesses' = removeWitnesses(witnesses, bad) /\ updateTrustedLightBlock(client.target)
        /\ UNCHANGED <<load, primary, banned, loose>>

\* verifySkippingAgainstPrimary
verifySkippingAgainstPrimary ==
    LET s == verifySkipping(primary, client.from, client.target)
    IN  /\ client.pc = "skip"
        /\ client' =
              IF s.result = "ok" THEN [client EXCEPT !.pc = "detect", !.trace = s.trace]
              ELSE IF s.result = "expired" \/ (s.result = "invalid" /\ s.to = client.target.height)
              THEN Failed(client, "other")
              ELSE [client EXCEPT !.pc = "replace", !.height = client.target.height, !.why = "skip",
                        !.remove = s.result = "invalid" \/ ShouldBeRemoved(s.result)]
        /\ UNCHANGED <<load, primary, witnesses, banned, trusted, loose>>

\* detectDivergence reads as many messages as there are witnesses: read[i] of witness i.
\* When the context ends, the late witnesses have not responded and no conflict can be
\* examined any more.
detectDivergence(read, late, ended) ==
    LET n         == Len(witnesses)
        Sent(i)   == IF i \in late THEN <<[kind |-> "bad"]>> ELSE Compared(witnesses[i], client.target)
        Read(k)   == {i \in 1..n : \E j \in 1..read[i] : Sent(i)[j].kind = k}
        attacked  == ~ended /\ \E i \in Read("conflict") : Examined(client.trace, Sent(i)[1].block, witnesses[i])
        gone      == Read("conflict") \cup Read("bad")
        same      == \E i \in 1..n : Sent(i)[1].kind = "match" /\ read[i] = 1
    IN  /\ client.pc = "detect"
        /\ \A i \in 1..n : read[i] <= Len(Sent(i))
        /\ MapThenSumSet(LAMBDA i : read[i], 1..n) = n
        /\ IF attacked \/ n <= Cardinality(gone)
           THEN /\ client' = Failed(client, IF attacked THEN "attack" ELSE "noWitnesses")
                /\ UNCHANGED <<witnesses, banned, trusted, loose>>
           ELSE /\ witnesses' = removeWitnesses(witnesses, gone)
                /\ banned' = banned \cup {witnesses[i] : i \in gone}
                /\ IF Read("match") # {}
                   THEN updateTrustedLightBlock(client.target) /\ loose' = loose \cup Unless(same /\ ~ended)
                   ELSE client' = Failed(client, "other") /\ UNCHANGED <<trusted, loose>>
        /\ UNCHANGED <<load, primary>>

\* backwards: down to the height of the target, which is fetched once more and not
\* compared with the target.
backwards ==
    /\ client.pc = "back"
    /\ IF client.from.height > client.target.height
       THEN /\ client' = [client EXCEPT !.pc = "fetch", !.why = "interim", !.height = client.from.height - 1]
            /\ UNCHANGED <<trusted, loose>>
       ELSE /\ updateTrustedLightBlock(client.target)
            /\ loose' = loose \cup Unless(client.from = client.target)
    /\ UNCHANGED <<load, primary, witnesses, banned>>

\* VerifyLightBlockAtHeight of the next height, if it is not trusted yet
VerifyLightBlockAtHeight ==
    /\ client.pc = "next"
    /\ client' = IF client.todo = <<>> THEN [client EXCEPT !.pc = "done"]
                 ELSE IF Head(client.todo) \in DOMAIN trusted THEN [client EXCEPT !.todo = Tail(@)]
                 ELSE [client EXCEPT !.pc = "fetch", !.height = Head(client.todo), !.why = "target"]
    /\ UNCHANGED <<load, primary, witnesses, banned, trusted, loose>>

\* Whether the entry in the blacklist is past its TTL is the clock's.
isBlacklisted(p, expired) == p \in banned /\ ~expired

\* AddProvider of the state provider
roomForProvider == Len(witnesses) < maxProviders

\* AddProvider: a peer is up.
AddProvider(p, expired) ==
    /\ roomForProvider
    /\ IF isBlacklisted(p, expired) THEN UNCHANGED <<witnesses, banned>>
       ELSE witnesses' = Append(witnesses, p) /\ banned' = banned \ {p}
    /\ UNCHANGED <<load, primary, trusted, client, loose>>

\* RemoveProviderByID: a peer is down. The last witness stays.
RemoveProviderByID(p) ==
    LET is == {i \in DOMAIN witnesses : witnesses[i] = p}
    IN  /\ witnesses' = IF is = {} \/ Len(witnesses) <= 1 THEN witnesses
                        ELSE removeWitnesses(witnesses, {Min(is)})
        /\ UNCHANGED <<load, primary, banned, trusted, client, loose>>

LightClientNext ==
    \/ lightBlockFromPrimary \/ NoNewPrimary
    \/ \E i \in DOMAIN witnesses : \E bad \in SUBSET (DOMAIN witnesses \ {i}) : findNewPrimary(i, bad)
    \/ compareFirstHeaderWithWitnesses \/ verifySkippingAgainstPrimary \/ backwards
    \/ \E read \in [DOMAIN witnesses -> 0..2] : detectDivergence(read, {}, FALSE)
    \/ VerifyLightBlockAtHeight

-----------------------------------------------------------------------------

\* Reference: what a path of verified blocks leads to from the root of trust
Reached ==
    LET Blocks == {Block(h, branch) : h \in 1..LightTip, branch \in {"main", "forged"}}
                  \cup {Block(h, "fork") : h \in light.fork.at..LightTip}
        Onwards(known, turn) == known \cup {b \in Blocks : \E t \in known : Verify(t, b) = "ok"}
    IN  FoldLeft(Onwards, {Block(light.root, "main")}, [turn \in 1..LightTip |-> turn])

=============================================================================
