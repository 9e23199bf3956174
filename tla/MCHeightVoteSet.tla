-------------------------- MODULE MCHeightVoteSet --------------------------
EXTENDS HeightVoteSetMachine, TLC

\* Three validators, one of them with half of the power.
MCPower == [v \in Validators |-> IF v = "c" THEN 2 ELSE 1]

\* Every vote and claim in one set; one validator's votes over six rounds.
MCOneSet == [types |-> {"prevote"}, rounds |-> {0}, validators |-> Validators,
             values |-> Values, claims |-> Values, votes |-> 9]
MCManyRounds == [types |-> {"precommit"}, rounds |-> 0 .. MaxRound, validators |-> {"c"},
                 values |-> {Nil}, claims |-> {}, votes |-> 5]
MCInputs == {MCOneSet, MCManyRounds}

MCSymmetry == Permutations(Blocks) \cup Permutations(Peers)
=============================================================================
