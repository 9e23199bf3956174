------------------------------ MODULE VoteSet ------------------------------
(***************************************************************************)
(* types.VoteSet: the prevotes or the precommits of one height and round,   *)
(* as a value and the operations on it.  A vote is a validator and the      *)
(* block it votes for; signatures are checked before this point and are     *)
(* left out.                                                                *)
(***************************************************************************)
EXTENDS Integers, FiniteSets, Functions

CONSTANTS
    Validators,   \* the validator set
    Power,        \* voting power of each validator
    Blocks,       \* block identifiers
    Nil,          \* the vote for no block
    Peers,        \* the peers that may claim a majority, and the sources of votes
    None          \* Go's nil

ASSUME PowerAssumption == IsFiniteSet(Validators) /\ Power \in [Validators -> Nat \ {0}]
ASSUME PeersAssumption == IsFiniteSet(Peers)
ASSUME NilNoneAssumption == Nil \notin Blocks /\ None \notin Blocks /\ Nil # None

Values == Blocks \cup {Nil}

PowerOf(S) == SumFunctionOnSet(Power, S)
TotalVotingPower == SumFunction(Power)
Quorum == (TotalVotingPower * 2) \div 3 + 1

blockVotes == [peerMaj23 : BOOLEAN, voters : SUBSET Validators, sum : 0 .. TotalVotingPower]
newBlockVotes(peerMaj23) == [peerMaj23 |-> peerMaj23, voters |-> {}, sum |-> 0]

VoteSets == [votes : [Validators -> Values \cup {None}],   \* primary votes to share
             sum : 0 .. TotalVotingPower,
             maj23 : Values \cup {None},                   \* first 2/3 majority seen
             votesByBlock : [Values -> blockVotes \cup {None}],
             peerMaj23s : [Peers -> Values \cup {None}]]

ASSUME NoneAssumption == None \notin blockVotes /\ None \notin VoteSets

NewVoteSet == [votes |-> [v \in Validators |-> None], sum |-> 0, maj23 |-> None,
               votesByBlock |-> [b \in Values |-> None],
               peerMaj23s |-> [p \in Peers |-> None]]

getVote(vs, v, b) ==
    vs.votes[v] = b \/ (vs.votesByBlock[b] # None /\ v \in vs.votesByBlock[b].voters)

\* The first vote of a validator counts; a conflicting one only replaces it
\* among the votes to share when it is for the majority block.
firstVote(vs, v, b) ==
    IF vs.votes[v] = None
    THEN [vs EXCEPT !.votes[v] = b, !.sum = @ + Power[v]]
    ELSE [vs EXCEPT !.votes[v] = IF vs.maj23 = b THEN b ELSE @]

\* Mutant: the votes of the majority block are not copied over.
countVoteUncopied(vs, v, b) ==
    LET old == IF vs.votesByBlock[b] = None THEN newBlockVotes(FALSE) ELSE vs.votesByBlock[b]
        new == [old EXCEPT !.voters = @ \cup {v}, !.sum = @ + Power[v]]
    IN  [vs EXCEPT !.votesByBlock[b] = new,
                   !.maj23 = IF @ = None /\ Quorum <= new.sum THEN b ELSE @]

\* The vote joins those for its block; the first block to cross the quorum is
\* the majority for good, and its votes become the votes to share.
countVote(vs, v, b) ==
    LET old == IF vs.votesByBlock[b] = None THEN newBlockVotes(FALSE) ELSE vs.votesByBlock[b]
        new == [old EXCEPT !.voters = @ \cup {v}, !.sum = @ + Power[v]]
        first == vs.maj23 = None /\ old.sum < Quorum /\ Quorum <= new.sum
    IN  [vs EXCEPT !.votesByBlock[b] = new,
                   !.maj23 = IF first THEN b ELSE @,
                   !.votes = IF first THEN [w \in Validators |-> IF w \in new.voters THEN b ELSE @[w]]
                                      ELSE @]

\* Mutant: the claims of peers are ignored.
addVerifiedVoteUnclaimed(vs, v, b) ==
    LET conflicting == vs.votes[v] # None
        kept == firstVote(vs, v, b)
    IN  [set |-> IF conflicting THEN kept ELSE countVote(kept, v, b),
         added |-> ~conflicting, conflicting |-> conflicting]

addVerifiedVote(vs, v, b) ==
    LET conflicting == vs.votes[v] # None
        tracked == vs.votesByBlock[b]
        refused == conflicting /\ (tracked = None \/ ~tracked.peerMaj23)
        kept == firstVote(vs, v, b)
    IN  [set |-> IF refused THEN kept ELSE countVote(kept, v, b),
         added |-> ~refused, conflicting |-> conflicting]

\* The new set, whether the vote was added and whether it conflicts with an
\* earlier one of the validator.
AddVote(vs, v, b) ==
    IF getVote(vs, v, b)
    THEN [set |-> vs, added |-> FALSE, conflicting |-> FALSE]
    ELSE addVerifiedVote(vs, v, b)

\* A peer claims a majority for b: conflicting votes for b count from now on.
\* One claim per peer; a second one for another block is an error.
SetPeerMaj23(vs, p, b) ==
    IF vs.peerMaj23s[p] # None THEN vs
    ELSE [vs EXCEPT !.peerMaj23s[p] = b,
                    !.votesByBlock[b] = IF @ = None THEN newBlockVotes(TRUE)
                                        ELSE [@ EXCEPT !.peerMaj23 = TRUE]]

\* The accessors accept a nil set.
TwoThirdsMajority(vs) == IF vs = None THEN None ELSE vs.maj23
HasTwoThirdsAny(vs) == vs # None /\ vs.sum > (TotalVotingPower * 2) \div 3
HasAll(vs) == vs # None /\ vs.sum = TotalVotingPower

\* What a set remembers: whom it heard from, the blocks it keeps votes of, the
\* votes counted for them, and the blocks peers claimed a majority for.
HeardFrom(vs) == {v \in Validators : vs.votes[v] # None}
Tracked(vs) == {b \in Values : vs.votesByBlock[b] # None}
CountedFor(vs, v, b) == b \in Tracked(vs) /\ v \in vs.votesByBlock[b].voters
Claimed(vs) == {vs.peerMaj23s[p] : p \in Peers} \ {None}
=============================================================================
