---------------------------- MODULE ValidatorSet ----------------------------
(***************************************************************************)
(* The validator set of types/validator_set.go, as values: the voting      *)
(* powers and the proposer priorities of its members, its Proposer and the *)
(* total power, which is cached.                                           *)
(* Addresses are numbers, ordered as bytes.Compare orders them.  The order *)
(* of the slice Validators is left out: no result below depends on it.     *)
(*                                                                         *)
(* The arithmetic is that of int64 at a smaller width: the clipping        *)
(* operations stop at its bounds, the others wrap around.                  *)
(***************************************************************************)
EXTENDS Integers, FiniteSets, FiniteSetsExt, Functions, TLC

CONSTANT MaxInt64    \* math.MaxInt64 at the width of the instance

ASSUME WidthAssumption == MaxInt64 \in Nat \ {0}

Wrap(i) == ((i + MaxInt64 + 1) % (2 * (MaxInt64 + 1))) - (MaxInt64 + 1)

\* safeAddClip and safeSubClip.
Clip(i) == Max({Min({i, MaxInt64}), -MaxInt64 - 1})

\* Go's division of integers drops the fraction.
Quo(a, b) == IF a >= 0 THEN a \div b ELSE -((-a) \div b)

MaxTotalVotingPower == MaxInt64 \div 8

PriorityWindowSizeFactor == 2

\* The sum of the powers is computed when the members change.
TotalVotingPower(vals) == vals.totalVotingPower

computeMaxMinPriorityDiff(vals) ==
    LET priorities == Range(vals.priority)
        diff == Wrap(Max(priorities) - Min(priorities))
    IN  IF diff < 0 THEN Wrap(-diff) ELSE diff

\* Mutant: old priorities keep their scale.
RescalePrioritiesNever(vals, diffMax) == vals

RescalePriorities(vals, diffMax) ==
    LET diff == computeMaxMinPriorityDiff(vals)
        ratio == Quo(Wrap(diff + diffMax - 1), diffMax)
    IN  IF diffMax <= 0 \/ diff <= diffMax THEN vals
        ELSE [vals EXCEPT !.priority = [v \in DOMAIN @ |-> Quo(@[v], ratio)]]

\* The sum is a big.Int, and its division rounds down.
computeAvgProposerPriority(vals) ==
    SumFunction(vals.priority) \div Cardinality(DOMAIN vals.priority)

\* The sum that is left is in 0 .. n - 1.
shiftByAvgProposerPriority(vals) ==
    LET avg == computeAvgProposerPriority(vals)
    IN  [vals EXCEPT !.priority = [v \in DOMAIN @ |-> Clip(@[v] - avg)]]

\* Equal priorities are ordered by the address.
CompareProposerPriority(priority, v, w) ==
    priority[v] > priority[w] \/ (priority[v] = priority[w] /\ v < w)

getValWithMostPriority(priority) ==
    CHOOSE v \in DOMAIN priority :
        \A w \in DOMAIN priority \ {v} : CompareProposerPriority(priority, v, w)

incrementProposerPriority(vals) ==
    LET added == [v \in DOMAIN vals.power |-> Clip(vals.priority[v] + vals.power[v])]
        mostest == getValWithMostPriority(added)
    IN  [vals EXCEPT
            !.priority = [added EXCEPT ![mostest] = Clip(@ - TotalVotingPower(vals))],
            !.Proposer = mostest]

\* Scale and center.
scaleAndCenter(vals) ==
    shiftByAvgProposerPriority(
        RescalePriorities(vals, Wrap(PriorityWindowSizeFactor * TotalVotingPower(vals))))

IncrementProposerPriority(vals, times) ==
    FoldSet(LAMBDA i, set : incrementProposerPriority(set), scaleAndCenter(vals), 1 .. times)

-----------------------------------------------------------------------------
(***************************************************************************)
(* A change is an address with its new power; power 0 removes it.          *)
(***************************************************************************)
Addresses(changes) == {c.Address : c \in changes}
Updates(changes) == {c \in changes : c.VotingPower > 0}
Deletes(changes) == {c \in changes : c.VotingPower = 0}
PowerOf(changes) == [a \in Addresses(changes) |-> (CHOOSE c \in changes : c.Address = a).VotingPower]

\* processChanges.
WellFormed(changes) ==
    /\ \A c, d \in changes : c.Address = d.Address => c = d
    /\ \A c \in changes : c.VotingPower \in 0 .. MaxTotalVotingPower

verifyRemovals(deletes, vals) == Addresses(deletes) \subseteq DOMAIN vals.power

removedVotingPower(deletes, vals) == SumFunctionOnSet(vals.power, Addresses(deletes))

\* verifyUpdates adds the smallest differences first, so no sum before the last
\* exceeds the bound unless the last does.
tvpAfterUpdatesBeforeRemovals(updates, vals) ==
    LET kept == Restrict(vals.power, DOMAIN vals.power \ Addresses(updates))
    IN  SumFunction(kept) + SumFunction(PowerOf(updates))

verifyUpdates(updates, vals, removed) ==
    tvpAfterUpdatesBeforeRemovals(updates, vals) - removed <= MaxTotalVotingPower

\* A newcomer starts 1.125 of the total power behind.
computeNewPriorities(updates, vals) ==
    LET total == tvpAfterUpdatesBeforeRemovals(updates, vals)
    IN  [v \in Addresses(updates) |->
            IF v \in DOMAIN vals.power THEN vals.priority[v]
                                       ELSE Wrap(-(total + total \div 8))]

numNewValidators(updates, vals) == Cardinality(Addresses(updates) \ DOMAIN vals.power)

\* What updateWithChangeSet accepts; otherwise it leaves the set alone.
Acceptable(vals, changes) ==
    LET updates == Updates(changes) deletes == Deletes(changes)
    IN  /\ WellFormed(changes)
        /\ ~(numNewValidators(updates, vals) = 0
             /\ Cardinality(DOMAIN vals.power) = Cardinality(deletes))
        /\ verifyRemovals(deletes, vals)
        /\ verifyUpdates(updates, vals, removedVotingPower(deletes, vals))

applyUpdates(vals, updates) ==
    [vals EXCEPT !.power = PowerOf(updates) @@ @,
                 !.priority = computeNewPriorities(updates, vals) @@ @]

applyRemovals(vals, deletes) ==
    LET members == DOMAIN vals.power \ Addresses(deletes)
    IN  [vals EXCEPT !.power = Restrict(@, members), !.priority = Restrict(@, members)]

applyChanges(vals, changes) ==
    applyRemovals(applyUpdates(vals, Updates(changes)), Deletes(changes))

updateTotalVotingPower(vals) == [vals EXCEPT !.totalVotingPower = SumFunction(vals.power)]

\* Mutant: the total that is cached is computed for the first set only.
updateWithChangeSetOnce(vals, changes) ==
    LET updated == applyChanges(vals, changes)
    IN  scaleAndCenter(IF updated.totalVotingPower = 0 THEN updateTotalVotingPower(updated) ELSE updated)

updateWithChangeSet(vals, changes) ==
    scaleAndCenter(updateTotalVotingPower(applyChanges(vals, changes)))

NewValidatorSet(powers) ==
    LET empty == [power |-> <<>>, priority |-> <<>>, Proposer |-> 0, totalVotingPower |-> 0]
        changes == {[Address |-> v, VotingPower |-> powers[v]] : v \in DOMAIN powers}
    IN  IncrementProposerPriority(updateWithChangeSet(empty, changes), 1)
=============================================================================
