------------------------- MODULE ProposerSelection --------------------------
(***************************************************************************)
(* How a node arrives at the proposer of a height and round.  State.Update *)
(* makes the validator set of every height from the one before, entering a *)
(* later round increments the priorities on a copy, by all the rounds it   *)
(* skips at once, and the state store keeps a full set only where the      *)
(* members changed and increments it when a later height is asked for.     *)
(*                                                                         *)
(* One set is followed from State.Update to the rounds of its height; that *)
(* it waits a height as NextValidators is part of StateStore.              *)
(***************************************************************************)
EXTENDS ValidatorSet, SequencesExt

CONSTANTS Genesis,     \* the powers in the genesis documents considered
          Changes,     \* the validator updates an application may return
          MaxUpdates,  \* bound: heights that change the members
          MaxQuiet,    \* bound: heights after a change without another
          MaxRound     \* bound: the last round of a height

VARIABLES validators,  \* the set of the current height, as State.Update left it
          rs,          \* the round state: Round and its Validators
          stored,      \* the last full set in the state store, and its age in heights
          updates      \* how many heights changed the members

vars == <<validators, rs, stored, updates>>

NewRoundState(set) == [Round |-> 0, Validators |-> set]

Init ==
    /\ \E powers \in Genesis : validators = NewValidatorSet(powers)
    /\ rs = NewRoundState(validators)
    /\ stored = [set |-> validators, age |-> 0]
    /\ updates = 0

\* Mutant: the increment is counted from round 0.
enterNewRoundFromZero(round) ==
    /\ round > rs.Round
    /\ rs' = [Round |-> round, Validators |-> IncrementProposerPriority(rs.Validators, round)]
    /\ UNCHANGED <<validators, stored, updates>>

\* All the rounds that are skipped are one increment.
enterNewRound(round) ==
    /\ round > rs.Round
    /\ rs' = [Round |-> round,
              Validators |-> IncrementProposerPriority(rs.Validators, round - rs.Round)]
    /\ UNCHANGED <<validators, stored, updates>>

\* A block is committed, in whatever round, and the next height begins.
NextHeight(set) ==
    /\ validators' = IncrementProposerPriority(set, 1)
    /\ rs' = NewRoundState(validators')

\* State.Update with validator updates; saveValidatorsInfo keeps the whole set.
UpdateMembers(changes) ==
    /\ updates < MaxUpdates
    /\ Acceptable(validators, changes)
    /\ NextHeight(updateWithChangeSet(validators, changes))
    /\ stored' = [set |-> validators', age |-> 0]
    /\ updates' = updates + 1

\* State.Update without them; only a reference to the height of the last change is kept.
UpdateQuietly ==
    /\ stored.age < MaxQuiet
    /\ NextHeight(validators)
    /\ stored' = [stored EXCEPT !.age = @ + 1]
    /\ UNCHANGED updates

LoadValidators ==
    IF stored.age = 0 THEN stored.set ELSE IncrementProposerPriority(stored.set, stored.age)

Next ==
    \/ \E round \in 1 .. MaxRound : enterNewRound(round)
    \/ \E changes \in Changes : UpdateMembers(changes)
    \/ UpdateQuietly

Spec == Init /\ [][Next]_vars

-----------------------------------------------------------------------------
\* The sets after each of the next k > 0 elections, in halves.
RECURSIVE Elections(_, _)
Elections(set, k) ==
    IF k = 1 THEN <<IncrementProposerPriority(set, 1)>>
    ELSE LET half == Elections(set, k \div 2)
         IN  half \o Elections(Last(half), k - k \div 2)

Elected(v, sets) == Cardinality({i \in DOMAIN sets : sets[i].Proposer = v})

\* None of the increments that lead from set over k elections finds the priorities
\* more than two total powers apart.
NeverRescaled(set, k) ==
    \A i \in 0 .. k - 1 :
        LET at == IF i = 0 THEN set ELSE IncrementProposerPriority(set, i)
        IN  computeMaxMinPriorityDiff(at) <= PriorityWindowSizeFactor * TotalVotingPower(at)

\* The total power stays within MaxTotalVotingPower and the priorities stay
\* centred: no addition of incrementProposerPriority is clipped or wraps, since
\* that would move their sum out of 0 .. n - 1.
PrioritiesAreExact ==
    \A set \in {validators, rs.Validators, LoadValidators} :
        /\ SumFunction(set.power) <= MaxTotalVotingPower
        /\ SumFunction(set.priority) \in 0 .. Cardinality(DOMAIN set.priority) - 1

\* From any height on, in 2 * P elections of a set with total power P a validator
\* is elected at least as often as it has power, whatever joined and left before.
FairShare ==
    rs.Round = 0 =>
        LET sets == Elections(validators, 2 * TotalVotingPower(validators))
        IN  \A v \in DOMAIN validators.power : Elected(v, sets) >= validators.power[v]

\* Unless priorities drift more than two total powers apart on the way, a node
\* that skips rounds, a node that enters each of them and the state store that
\* rebuilds the set of a height arrive at the same set and the same proposer.
PathsAgree ==
    /\ NeverRescaled(validators, rs.Round) =>
           rs.Validators = IF rs.Round = 0 THEN validators
                           ELSE IncrementProposerPriority(validators, rs.Round)
    /\ NeverRescaled(stored.set, stored.age) => LoadValidators = validators
=============================================================================
