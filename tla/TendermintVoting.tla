-------------------------- MODULE TendermintVoting --------------------------
(***************************************************************************)
(* What the consensus state machine of internal/consensus/state.go promises *)
(* at one height, said in terms of the votes that are signed and of nothing *)
(* else: which prevotes and precommits a correct validator may add to the   *)
(* votes in the world, and when it may decide.  ConsensusState is the       *)
(* program of one validator; its runs check that it keeps the rules that    *)
(* are the guards here, whatever its peers do.                              *)
(*                                                                         *)
(* Guards only ever ask for votes to be present, so nothing is lost by      *)
(* letting every vote a faulty validator could sign be present from the     *)
(* start.                                                                   *)
(***************************************************************************)
EXTENDS Integers

CONSTANTS
    Validators,   \* the validator set of the height
    Faulty,       \* validators that may sign anything
    Quorums,      \* the sets of validators with more than 2/3 of the power
    Rounds,
    Blocks,
    Nil,          \* the vote for no block
    NoDecision

Correct == Validators \ Faulty

ASSUME RoundsAssumption == Rounds \subseteq Nat
ASSUME FaultyAssumption == Faulty \subseteq Validators
ASSUME NilAssumption == Nil \notin Blocks /\ NoDecision \notin Blocks
\* Less than 1/3 of the power is faulty, so two quorums share a correct validator.
ASSUME QuorumAssumption ==
    /\ \A Q \in Quorums : Q \subseteq Validators
    /\ \A Q1, Q2 \in Quorums : \E v \in Correct : v \in Q1 /\ v \in Q2

Vote == [type : {"prevote", "precommit"}, val : Validators, round : Rounds,
         block : Blocks \cup {Nil}]

FaultyVotes == [type : {"prevote", "precommit"}, val : Faulty, round : Rounds,
                block : Blocks \cup {Nil}]

VARIABLES
    votes,      \* every vote signed so far
    decision    \* the block each correct validator finalized

vars == <<votes, decision>>

-----------------------------------------------------------------------------
vote(t, v, r, b) == [type |-> t, val |-> v, round |-> r, block |-> b]

\* VoteSet.TwoThirdsMajority of the prevotes, respectively precommits, of a round.
HasQuorum(t, r, b) == \E Q \in Quorums : \A v \in Q : vote(t, v, r, b) \in votes
Polka(r, b) == HasQuorum("prevote", r, b)

VotesOf(v) == {x \in votes : x.val = v}

\* defaultDoPrevote: a validator that precommitted another block prevotes b
\* only on the strength of a polka for b in that round or a later one.
Justified(v, r, b) ==
    \A x \in VotesOf(v) :
        x.type = "precommit" /\ x.block \in Blocks \ {b} =>
            \E pr \in Rounds : x.round <= pr /\ pr < r /\ Polka(pr, b)

-----------------------------------------------------------------------------
Init ==
    /\ votes = FaultyVotes
    /\ decision = [v \in Correct |-> NoDecision]

\* enterPrevote: one prevote per round, rounds in increasing order.
Prevote(v, r, b) ==
    /\ decision[v] = NoDecision
    /\ \A x \in VotesOf(v) : x.round < r
    /\ b \in Blocks => Justified(v, r, b)
    /\ votes' = votes \cup {vote("prevote", v, r, b)}
    /\ UNCHANGED decision

\* Mutant: precommits are not ordered after the votes of later rounds.
PrecommitUnordered(v, r, b) ==
    /\ decision[v] = NoDecision
    /\ \A x \in VotesOf(v) : ~(x.round = r /\ x.type = "precommit")
    /\ b \in Blocks => Polka(r, b)
    /\ votes' = votes \cup {vote("precommit", v, r, b)}
    /\ UNCHANGED decision

\* enterPrecommit: one precommit per round, for a block only with its polka.
Precommit(v, r, b) ==
    /\ decision[v] = NoDecision
    /\ \A x \in VotesOf(v) : x.round < r \/ (x.round = r /\ x.type = "prevote")
    /\ b \in Blocks => Polka(r, b)
    /\ votes' = votes \cup {vote("precommit", v, r, b)}
    /\ UNCHANGED decision

\* Mutant: the prevotes of a round are taken for its precommits.
DecideOnPolka(v, b) ==
    /\ decision[v] = NoDecision
    /\ \E r \in Rounds : Polka(r, b)
    /\ decision' = [decision EXCEPT ![v] = b]
    /\ UNCHANGED votes

\* finalizeCommit: a block with +2/3 precommits in some round.
Decide(v, b) ==
    /\ decision[v] = NoDecision
    /\ \E r \in Rounds : HasQuorum("precommit", r, b)
    /\ decision' = [decision EXCEPT ![v] = b]
    /\ UNCHANGED votes

Next ==
    \E v \in Correct :
        \/ \E r \in Rounds, b \in Blocks \cup {Nil} : Prevote(v, r, b) \/ Precommit(v, r, b)
        \/ \E b \in Blocks : Decide(v, b)

Spec == Init /\ [][Next]_vars

-----------------------------------------------------------------------------
(***************************************************************************)
(* Properties                                                              *)
(***************************************************************************)

TypeOK ==
    /\ votes \subseteq Vote
    /\ decision \in [Correct -> Blocks \cup {NoDecision}]

\* finalizeCommit on two correct nodes never commits two different blocks for
\* one height, in whatever rounds they saw their +2/3 precommits.
Agreement ==
    \A v, w \in Correct :
        decision[v] # NoDecision /\ decision[w] # NoDecision => decision[v] = decision[w]

\* Once +2/3 precommitted b in a round, no later round has a polka for another
\* block: the locking rule of enterPrecommit and defaultDoPrevote, globally.
CommitBlocksLaterPolkas ==
    \A r1, r2 \in Rounds, b1, b2 \in Blocks :
        r1 < r2 /\ HasQuorum("precommit", r1, b1) /\ Polka(r2, b2) => b1 = b2
=============================================================================
