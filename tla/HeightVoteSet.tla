--------------------------- MODULE HeightVoteSet ---------------------------
(***************************************************************************)
(* consensus/types.HeightVoteSet: the vote sets of every round of a height. *)
(* Rounds up to the tracked one have their sets; a peer may open two later  *)
(* "catchup" rounds.                                                        *)
(***************************************************************************)
EXTENDS VoteSet, Sequences, FiniteSetsExt

CONSTANTS
    MaxRound,     \* bound: the last round of a height
    MaxCatchup    \* catchup rounds a peer may open

ASSUME MaxRoundAssumption == MaxRound \in Nat /\ MaxCatchup \in Nat

VoteTypes == {"prevote", "precommit"}

\* SetRound starts at round -1 on its first call, and SetRound(r + 1) is called
\* on entering round r.
TrackableRounds == -1 .. MaxRound + 1

RoundVoteSets == [VoteTypes -> VoteSets]
RoundVoteSet == [t \in VoteTypes |-> NewVoteSet]

ASSUME NoRoundAssumption == None \notin RoundVoteSets

HeightVoteSets ==
    [round : 0 .. MaxRound + 1,
     roundVoteSets : [TrackableRounds -> RoundVoteSets \cup {None}],
     peerCatchupRounds : [Peers -> Seq(0 .. MaxRound)]]

\* Reset.
NewHeightVoteSet ==
    [round |-> 0,
     roundVoteSets |-> [r \in TrackableRounds |-> IF r = 0 THEN RoundVoteSet ELSE None],
     peerCatchupRounds |-> [p \in Peers |-> <<>>]]

getVoteSet(hvs, r, t) ==
    IF r \in TrackableRounds /\ hvs.roundVoteSets[r] # None THEN hvs.roundVoteSets[r][t] ELSE None

Prevotes(hvs, r) == getVoteSet(hvs, r, "prevote")
Precommits(hvs, r) == getVoteSet(hvs, r, "precommit")

addRound(hvs, r) == [hvs EXCEPT !.roundVoteSets[r] = RoundVoteSet]

SetRoundPanics(hvs, r) == hvs.round # 0 /\ r < hvs.round - 1

SetRound(hvs, r) ==
    [hvs EXCEPT !.round = r,
                !.roundVoteSets = [s \in TrackableRounds |->
                    IF hvs.round - 1 <= s /\ s <= r /\ @[s] = None THEN RoundVoteSet ELSE @[s]]]

\* Mutant: peers may open any number of rounds.
openRoundUnlimited(hvs, r, p) ==
    [addRound(hvs, r) EXCEPT !.peerCatchupRounds[p] = Append(@, r)]

\* A round nobody tracks is opened at the expense of the peer that names it;
\* ErrGotVoteFromUnwantedRound leaves the sets alone.
openRound(hvs, r, p) ==
    IF Len(hvs.peerCatchupRounds[p]) < MaxCatchup
    THEN [addRound(hvs, r) EXCEPT !.peerCatchupRounds[p] = Append(@, r)]
    ELSE hvs

AddVoteFrom(hvs, t, r, v, b, p) ==
    LET open == IF hvs.roundVoteSets[r] = None THEN openRound(hvs, r, p) ELSE hvs
    IN  IF open.roundVoteSets[r] = None
        THEN [set |-> hvs, added |-> FALSE, conflicting |-> FALSE]
        ELSE LET result == AddVote(open.roundVoteSets[r][t], v, b)
             IN  [result EXCEPT !.set = [open EXCEPT !.roundVoteSets[r][t] = result.set]]

\* A claim about a round without sets is dropped.
SetPeerMaj23For(hvs, t, r, p, b) ==
    IF hvs.roundVoteSets[r] = None THEN hvs
    ELSE [hvs EXCEPT !.roundVoteSets[r][t] = SetPeerMaj23(@, p, b)]

\* The last tracked round with a polka, -1 if there is none.
POLRound(hvs) ==
    LET polkas == {r \in 0 .. hvs.round : TwoThirdsMajority(Prevotes(hvs, r)) # None}
    IN  IF polkas = {} THEN -1 ELSE Max(polkas)
=============================================================================
