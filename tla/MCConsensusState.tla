-------------------------- MODULE MCConsensusState --------------------------
(***************************************************************************)
(* One validator and the rest of the network, small enough for TLC.         *)
(***************************************************************************)
EXTENDS ConsensusState

\* Two thirds of the power need this validator's vote / do without it / may come
\* either way, with a straggler.
MCPivotal == [v \in Validators |-> IF v = Me THEN 1 ELSE 2]
MCFollower == [v \in Validators |-> IF v = Me THEN 1 ELSE 3]
MCThree == [v \in Validators |-> IF v = "q" THEN 2 ELSE 1]

MCOthersPropose == [x \in Heights \X Rounds |-> "q"]
MCMeLater == [x \in Heights \X Rounds |-> IF x[2] = 0 THEN "q" ELSE Me]
MCBlockTime == [b \in Blocks |-> IF b = "b2" THEN 2 ELSE 1]

MCEnv(wait, txs, sign, apply) ==
    [block |-> "b1", wait |-> wait, txs |-> txs, sign |-> sign, apply |-> apply]
MCPlain == {MCEnv(FALSE, FALSE, TRUE, TRUE)}
MCHesitant == {MCEnv(wait, FALSE, sign, TRUE) : wait \in BOOLEAN, sign \in BOOLEAN} \ {MCEnv(TRUE, FALSE, FALSE, TRUE)}
MCApply == {MCEnv(FALSE, FALSE, TRUE, apply) : apply \in BOOLEAN}
MCMempool == {MCEnv(FALSE, txs, TRUE, TRUE) : txs \in BOOLEAN}

MCProposal(b, pol) == [block |-> b, pol |-> pol, timestamp |-> BlockTime[b], timely |-> TRUE]
MCOne == {MCProposal("b1", -1)}
MCFresh == {MCProposal(b, -1) : b \in {"b1", "b2"}}
MCReproposed == {MCProposal("b1", -1), MCProposal("b1", 0), [MCProposal("b2", -1) EXCEPT !.timely = FALSE]}
MCWrongTime == MCFresh \cup {[MCProposal("b1", -1) EXCEPT !.timestamp = 0]}
MCUnlock == {MCProposal("b1", -1), MCProposal("b2", 0), MCProposal("b2", 1)}

\* The configuration every other one is a variation of.
MCBase ==
    [GossipTransactionKeyOnly |-> FALSE, WaitForTxs |-> FALSE, CreateEmptyBlocksInterval |-> FALSE,
     BypassCommitTimeout |-> FALSE, PeerClaims |-> {}, Proposer |-> MCOthersPropose,
     AppAccepts |-> {"b1", "b2"}, Envs |-> MCPlain, PeerProposals |-> MCFresh,
     PeerValues |-> {"b1", "b2", Nil}, LastHeight |-> 1,
     LastRound |-> 1, PeerVotes |-> 3, Backlog |-> 0]

\* One height: own messages overtaken by others, locks that move over three
\* rounds, this validator proposing again, blocks rebuilt from the mempool, and
\* others that vote for an invalid block.
MCOvertaken == [MCBase EXCEPT !.PeerProposals = MCReproposed, !.PeerValues = {"b1", Nil},
                              !.Backlog = 1]
MCMovingLock == [MCBase EXCEPT !.PeerProposals = MCUnlock, !.PeerValues = {"b1", "b2"},
                               !.LastRound = 2]
MCProposing == [MCBase EXCEPT !.Proposer = MCMeLater, !.Envs = MCHesitant,
                              !.PeerValues = {"b1", "b2"}]
MCKeyOnly == [MCBase EXCEPT !.GossipTransactionKeyOnly = TRUE, !.AppAccepts = {"b1", "mix"},
                            !.PeerProposals = MCWrongTime, !.Envs = MCMempool,
                            !.PeerValues = {"b1", "b2", "mix"}, !.PeerVotes = 2]
MCInvalid == [MCBase EXCEPT !.PeerProposals = {MCProposal("bad", -1)}, !.PeerValues = {"bad"}]
MCRounds == {MCOvertaken, MCMovingLock, MCProposing, MCKeyOnly, MCInvalid}

\* Two heights: late precommits and failing ApplyBlock; a validator that signs
\* conflicting votes while peers claim majorities.
MCLate == [MCBase EXCEPT !.BypassCommitTimeout = TRUE, !.Envs = MCApply, !.PeerValues = {"b1"},
                         !.LastHeight = 2]
MCConflicts == [MCBase EXCEPT !.PeerClaims = {"b1"}, !.PeerValues = {"b1", Nil},
                              !.PeerProposals = MCOne, !.LastHeight = 2, !.LastRound = 0,
                              !.PeerVotes = 2]
MCHeights == {MCLate, MCConflicts}

\* Under fairness: one height, and two heights that wait for transactions.
MCOneHeight == [MCBase EXCEPT !.PeerValues = {"b1", Nil}, !.PeerProposals = MCOne,
                              !.PeerVotes = 2, !.Backlog = 1]
MCTxs == [MCBase EXCEPT !.WaitForTxs = TRUE, !.CreateEmptyBlocksInterval = TRUE,
                        !.PeerValues = {"b1"}, !.PeerProposals = MCOne, !.LastHeight = 2,
                        !.PeerVotes = 1]
MCLive == {MCOneHeight, MCTxs}
=============================================================================
