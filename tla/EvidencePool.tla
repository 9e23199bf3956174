---------------------------- MODULE EvidencePool ----------------------------
(***************************************************************************)
(* internal/evidence: the proofs of misbehaviour that wait for a block.    *)
(*                                                                         *)
(* AddEvidence is called by the reactor and by RPC requests without a lock *)
(* and runs in the steps between which others see its effects.  Everything *)
(* else is called by consensus, one call after the other.  A conflict is   *)
(* what two votes, or a block of an attack, prove; the evidence of it      *)
(* carries powers and a time for the application, which may be wrong.      *)
(* The counter is a uint32: a negative number here is one that wrapped     *)
(* below zero.                                                             *)
(***************************************************************************)
EXTENDS Integers, FiniteSets, SequencesExt

CONSTANTS
    Conflicts,
    LightAttacks,     \* the conflicts that light client attacks are made of
    HeightOf,         \* the height of each conflict
    BlockTimeOf,      \* Header.Time of the block of each height
    MaxAgeNumBlocks, MaxAgeDuration,
    Adders,           \* goroutines that call AddEvidence
    MaxEvidenceSize   \* bound: evidenceSize, which also counts evidence stored again

ASSUME EvidenceAssumption ==
    /\ HeightOf \in [Conflicts -> Nat \ {0}] /\ LightAttacks \subseteq Conflicts
    /\ MaxAgeNumBlocks \in Nat /\ MaxAgeDuration \in Nat /\ MaxEvidenceSize \in Nat

Evidence == [of : Conflicts, abci : BOOLEAN]
proper(c) == [of |-> c, abci |-> TRUE]

\* What the stores know evidence by: the hash of duplicate votes covers the
\* fields for the application, that of a light client attack does not.
key(e) == IF e.of \in LightAttacks THEN proper(e.of) ELSE e

VARIABLES
    ep,       \* the Pool
    adders,   \* where each AddEvidence call is
    reported  \* history: the conflicts consensus reported and no crash took away

evidenceVars == <<ep, adders, reported>>

NewPool == [pending |-> {}, committed |-> {}, evidenceSize |-> 0, evidenceList |-> {},
            consensusBuffer |-> {}, height |-> 0, pruningHeight |-> 0, pruningTime |-> 0]

NotAdding == [pc |-> "idle"]

EvidenceInit ==
    /\ ep = NewPool
    /\ adders = [a \in Adders |-> NotAdding]
    /\ reported = {}

-----------------------------------------------------------------------------
timeAt(height) == IF height = 0 THEN 0 ELSE BlockTimeOf[height]

isExpired(height, c) ==
    /\ height - HeightOf[c] > MaxAgeNumBlocks
    /\ timeAt(height) - timeAt(HeightOf[c]) > MaxAgeDuration

\* verify, up to the fields for the application.
verified(height, e) == HeightOf[e.of] <= height /\ ~isExpired(height, e.of)

\* addPendingEvidence of consensus; the counter is read by no one else.
addPendingEvidence(p, e) ==
    [p EXCEPT !.pending = @ \cup {e}, !.evidenceSize = @ + 1]

\* removeExpiredPendingEvidence goes through the pending evidence by height and
\* stops at the first that has not expired.
expired(p) ==
    {e \in p.pending : \A f \in p.pending : HeightOf[f.of] <= HeightOf[e.of] => isExpired(p.height, f.of)}

removeExpiredPendingEvidence(p) ==
    LET gone == expired(p)
        left == p.pending \ gone
        next == CHOOSE e \in left : \A f \in left : HeightOf[e.of] <= HeightOf[f.of]
    IN  [p EXCEPT !.pending = left, !.evidenceList = @ \ gone,
                  !.evidenceSize = @ - Cardinality(gone),
                  !.pruningHeight = IF left = {} THEN p.height
                                    ELSE HeightOf[next.of] + MaxAgeNumBlocks + 1,
                  !.pruningTime = IF left = {} THEN timeAt(p.height)
                                  ELSE timeAt(HeightOf[next.of]) + MaxAgeDuration + 1]

-----------------------------------------------------------------------------
\* AddEvidence of evidence that is neither pending nor committed.
AddEvidence(a, e) ==
    /\ adders[a] = NotAdding
    /\ key(e) \notin ep.pending \cup ep.committed
    /\ adders' = [adders EXCEPT ![a] = [pc |-> "verify", ev |-> e]]
    /\ UNCHANGED <<ep, reported>>

\* Evidence with wrong fields is corrected and kept, and refused all the same.
verify(a) ==
    /\ adders[a].pc = "verify"
    /\ adders' = [adders EXCEPT ![a] =
          IF ~verified(ep.height, adders[a].ev) THEN NotAdding
          ELSE IF adders[a].ev.abci THEN [@ EXCEPT !.pc = "save"]
          ELSE [pc |-> "correct", ev |-> proper(adders[a].ev.of)]]
    /\ UNCHANGED <<ep, reported>>

\* addPendingEvidence writes to the store,
Save(a) ==
    /\ adders[a].pc \in {"save", "correct"}
    /\ ep.evidenceSize < MaxEvidenceSize
    /\ ep' = [ep EXCEPT !.pending = @ \cup {adders[a].ev}]
    /\ adders' = [adders EXCEPT ![a].pc = IF @ = "save" THEN "count" ELSE "countCorrected"]
    /\ UNCHANGED reported

\* and then counts.
Count(a) ==
    /\ adders[a].pc \in {"count", "countCorrected"}
    /\ ep' = [ep EXCEPT !.evidenceSize = @ + 1]
    /\ adders' = [adders EXCEPT ![a] = IF @.pc = "count" THEN [@ EXCEPT !.pc = "push"] ELSE NotAdding]
    /\ UNCHANGED reported

\* The AddEvidence calls that stored evidence and have not counted it yet.
Uncounted == {a \in Adders : adders[a].pc \in {"count", "countCorrected"}}

PushBack(a) ==
    /\ adders[a].pc = "push"
    /\ ep' = [ep EXCEPT !.evidenceList = @ \cup {adders[a].ev}]
    /\ adders' = [adders EXCEPT ![a] = NotAdding]
    /\ UNCHANGED reported

\* Consensus meets conflicting votes of its height, or late ones of the last.
ReportConflictingVotes(c) ==
    /\ HeightOf[c] \in {ep.height, ep.height + 1}
    /\ ep' = [ep EXCEPT !.consensusBuffer = @ \cup {c}]
    /\ reported' = reported \cup {c}
    /\ UNCHANGED adders

\* CheckEvidence of the evidence of a block, a sequence: whether the block may
\* have it, and the pool after.  Pending evidence passes, unless it is of a light
\* client attack, which is verified, stored and counted each time.
CheckEvidence(p, evList) ==
    LET one(acc, i) ==
            LET e     == evList[i]
                known == e \in acc.pool.pending /\ e.of \notin LightAttacks
                dup   == \E j \in 1 .. i - 1 : key(evList[j]) = key(e)
            IN  IF ~acc.ok THEN acc
                ELSE IF known THEN [acc EXCEPT !.ok = ~dup]
                ELSE IF key(e) \in acc.pool.committed \/ ~verified(p.height, e) THEN [acc EXCEPT !.ok = FALSE]
                ELSE [ok |-> e.abci /\ ~dup, pool |-> addPendingEvidence(acc.pool, proper(e.of))]
    IN  FoldLeft(one, [ok |-> TRUE, pool |-> p], [i \in 1 .. Len(evList) |-> i])

\* Mutant: late votes of the height before are not looked up.
processConsensusBufferSameHeight(p, height) ==
    LET new == {proper(c) : c \in {x \in p.consensusBuffer : HeightOf[x] = height}}
                   \ (p.pending \cup p.committed)
    IN  [p EXCEPT !.pending = @ \cup new, !.evidenceList = @ \cup new,
                  !.evidenceSize = @ + Cardinality(new), !.consensusBuffer = {}]

\* Votes above the new height are dropped with the rest of the buffer.
processConsensusBuffer(p, height) ==
    LET new == {proper(c) : c \in {x \in p.consensusBuffer : HeightOf[x] <= height}}
                   \ (p.pending \cup p.committed)
    IN  [p EXCEPT !.pending = @ \cup new, !.evidenceList = @ \cup new,
                  !.evidenceSize = @ + Cardinality(new), !.consensusBuffer = {}]

markEvidenceAsCommitted(p, evs) ==
    LET gone == evs \cap p.pending
    IN  [p EXCEPT !.pending = @ \ gone, !.committed = @ \cup evs, !.evidenceList = @ \ gone,
                  !.evidenceSize = @ - Cardinality(gone)]

\* Update with the state after the block of a height and its evidence.
UpdatedPool(p, height, evs) ==
    LET flushed == [processConsensusBuffer(p, height) EXCEPT !.height = height]
        marked  == markEvidenceAsCommitted(flushed, evs)
    IN  IF /\ marked.evidenceSize # 0 /\ height > marked.pruningHeight
           /\ timeAt(height) > marked.pruningTime
        THEN removeExpiredPendingEvidence(marked) ELSE marked

\* Start on what the store holds.
StartedPool(p, height) ==
    LET pruned == removeExpiredPendingEvidence([p EXCEPT !.height = height])
    IN  [pruned EXCEPT !.evidenceSize = Cardinality(pruned.pending),
                       !.evidenceList = pruned.pending, !.consensusBuffer = {}]

EvidenceNext(adding, conflicts) ==
    \/ \E a \in adding :
          \/ \E c \in conflicts, abci \in BOOLEAN : AddEvidence(a, [of |-> c, abci |-> abci])
          \/ verify(a) \/ Save(a) \/ Count(a) \/ PushBack(a)
    \/ \E c \in conflicts \ LightAttacks : ReportConflictingVotes(c)
=============================================================================
