------------------------------ MODULE MCGossip ------------------------------
EXTENDS Gossip

CONSTANTS v1, v2, blockA, blockB

Vote(h, r, t, val, blk) == [height |-> h, round |-> r, type |-> t, val |-> val, block |-> blk]
VotesOf(h, r, t, vals, blk) == {Vote(h, r, t, val, blk) : val \in vals}

Budget(l, m, t) == [losses |-> l, moves |-> m, talks |-> t, faults |-> {}]

\* The peer lags by two heights; it is still in round 0 of a height that was
\* committed in round 1.
TwoBehind ==
    [commit |-> <<[round |-> 1, block |-> blockA, vals |-> {v1, v2}],
                  [round |-> 0, block |-> blockB, vals |-> {v1, v2}]>>,
     vals |-> {v1, v2}, parts |-> {1}, base |-> 1, ours |-> {}, others |-> {},
     rs |-> RoundState(3),
     peer |-> [PeerAt(1, -1) EXCEPT !.step = Prevote],
     budget |-> Budget(0, 0, 0)]

\* It lags by one and holds a precommit of v1 for another block.
Equivocation ==
    [commit |-> <<[round |-> 0, block |-> blockA, vals |-> {v1, v2}]>>,
     vals |-> {v1, v2}, parts |-> {1}, base |-> 1, ours |-> {}, others |-> {},
     rs |-> RoundState(2),
     peer |-> [PeerAt(1, -1) EXCEPT !.step = Precommit, !.proposal = None,
                                    !.votes = {Vote(1, 0, "precommit", v1, None)}],
     budget |-> Budget(1, 0, 0)]

\* Both are in round 0; the peer learns of the polka for our proposal.
SameHeight ==
    [commit |-> <<[round |-> 0, block |-> blockA, vals |-> {v1, v2}]>>,
     vals |-> {v1, v2}, parts |-> {1, 2}, base |-> 1,
     ours |-> {}, others |-> {},
     rs |-> [RoundState(1) EXCEPT
               !.votes = VotesOf(1, 0, "prevote", {v1, v2}, blockA),
               !.proposal = [height |-> 1, round |-> 0, block |-> blockA, polRound |-> -1],
               !.block = blockA, !.have = {1, 2}],
     peer |-> PeerAt(1, -1),
     budget |-> Budget(0, 0, 0)]

\* We commit while we send.
Committing ==
    [SameHeight EXCEPT !.parts = {1}, !.rs.proposal = None,
        !.ours = VotesOf(1, 0, "precommit", {v2}, blockA),
        !.rs.votes = VotesOf(1, 0, "precommit", {v1}, blockA), !.rs.have = {1},
        !.budget = Budget(1, 0, 0)]

\* We are a round ahead, and the peer moves on.
Moving ==
    [SameHeight EXCEPT !.parts = {1}, !.others = VotesOf(1, 0, "precommit", {v2}, None),
        !.rs.round = 1, !.rs.proposal = None, !.rs.have = {1},
        !.rs.votes = VotesOf(1, 0, "precommit", {v1}, None) \cup VotesOf(1, 1, "prevote", {v1}, blockA),
        !.peer.step = Prevote, !.budget = Budget(0, 2, 1)]

\* The peer has two polkas for one block, in rounds 0 and 1.
Polkas ==
    [SameHeight EXCEPT !.parts = {1}, !.others = VotesOf(1, 0, "prevote", {v1, v2}, blockA),
        !.rs.round = 1, !.rs.proposal = None, !.rs.have = {1},
        !.rs.votes = VotesOf(1, 1, "prevote", {v1, v2}, blockA),
        !.peer.step = Precommit, !.budget = Budget(0, 1, 0)]

\* Both are in round 1, with a proposal that has a polka of round 0.
Reproposal ==
    [commit |-> <<[round |-> 1, block |-> blockA, vals |-> {v1, v2}]>>,
     vals |-> {v1, v2}, parts |-> {1, 2}, base |-> 1, ours |-> {}, others |-> VotesOf(1, 0, "prevote", {v2}, blockA),
     rs |-> [RoundState(1) EXCEPT !.round = 1,
               !.votes = VotesOf(1, 0, "prevote", {v1, v2}, blockA),
               !.proposal = [height |-> 1, round |-> 1, block |-> blockA, polRound |-> 0],
               !.block = blockA, !.have = {1}],
     peer |-> [PeerAt(1, -1) EXCEPT !.round = 1, !.step = Propose],
     budget |-> Budget(0, 0, 1)]

\* The peer is in round 1 with a part of block B, which it sends us, when it learns
\* that block A was committed in round 0: it changes its block within the round.
LateCommit ==
    [Equivocation EXCEPT !.vals = {v1}, !.commit[1].vals = {v1}, !.budget = Budget(1, 0, 1),
        !.peer = [PeerAt(1, -1) EXCEPT !.round = 1, !.step = Prevote, !.block = blockB, !.have = {1},
                    !.proposal = [height |-> 1, round |-> 1, block |-> blockB, polRound |-> -1]]]

\* It does so while we send it the part of block B.
LateCommitSending ==
    [SameHeight EXCEPT !.parts = {1}, !.others = VotesOf(1, 0, "precommit", {v1, v2}, blockA),
        !.rs = [RoundState(1) EXCEPT !.round = 1, !.block = blockB, !.have = {1},
                  !.proposal = [height |-> 1, round |-> 1, block |-> blockB, polRound |-> -1]],
        !.peer = [PeerAt(1, -1) EXCEPT !.round = 1, !.step = Propose]]

Loads == {TwoBehind, Equivocation, SameHeight, Committing, Moving, Polkas, Reproposal,
          LateCommit, LateCommitSending}

MCInit == load \in Loads /\ GossipInit

MCSpec == MCInit /\ [][Next]_vars /\ Fairness
=============================================================================
