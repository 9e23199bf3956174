--------------------------- MODULE ConsensusState ---------------------------
(***************************************************************************)
(* internal/consensus/state.go: the consensus state machine of one          *)
(* validator.  Everything reaches it through one goroutine, receiveRoutine, *)
(* so a step of this specification is one message, timeout or notification  *)
(* with every state function it calls.  The state functions (enterNewRound, *)
(* enterPropose, ...) are operators from State values to State values, and  *)
(* call each other as in the code.                                          *)
(*                                                                         *)
(* The peers are an open environment: any vote of another validator, any    *)
(* proposal, block part or majority claim may arrive at any time, in any    *)
(* order.  What holds here holds whatever the other validators do.          *)
(*                                                                         *)
(* A block stands for its hash, its part set header and its one part: a     *)
(* part set is complete once the part has arrived.  A hash that is voted    *)
(* for with the header of other parts is not modelled, so nothing is        *)
(* claimed about the panic of finalizeCommit over the header.               *)
(***************************************************************************)
EXTENDS HeightVoteSet, TimeoutTicker

CONSTANTS
    Me,                        \* this validator
    ValidBlocks,               \* blocks that pass ValidateBlock
    Malformed,                 \* part sets that are too large or do not decode
    BlockTime,                 \* Header.Time of each block
    Mixed,                     \* the block built from two proposals
    ProofHeights,              \* heights with needProofBlock
    Equivocators,              \* other validators that sign conflicting votes
    MaxHeight,                 \* bound: the last height of any configuration
    Config                     \* the configurations and surroundings the node may start in

Heights == 1 .. MaxHeight
Rounds == 0 .. MaxRound

\* The answers of the calls out of the state machine during one step.
Env == [block : Blocks \cup {None},    \* createProposalBlock
        wait : BOOLEAN,                \* proposerWaitTime > 0
        txs : BOOLEAN,                 \* the mempool has every tx of the proposal
        sign : BOOLEAN,                \* the private validator signs
        apply : BOOLEAN]               \* ApplyBlock succeeds

\* A member of Config: the consensus section of config.toml, the application, and
\* what the peers may do, the last four fields being bounds.
IsConfig(c) ==
    /\ {c.GossipTransactionKeyOnly, c.WaitForTxs, c.CreateEmptyBlocksInterval,
        c.BypassCommitTimeout} \subseteq BOOLEAN
    /\ c.Proposer \in [Heights \X Rounds -> Validators]   \* Validators.GetProposer()
    /\ c.AppAccepts \subseteq Blocks                      \* ProcessProposal
    /\ c.Envs \subseteq Env
    /\ \A p \in c.PeerProposals : /\ p.block \in Blocks /\ p.timely \in BOOLEAN
                                   /\ p.pol \in -1 .. MaxRound /\ p.timestamp \in Nat
    /\ c.PeerValues \subseteq Values                      \* what other validators vote for
    /\ c.PeerClaims \subseteq Values                      \* what peers claim +2/3 for
    /\ c.LastHeight \in Heights                          \* bound: the last height
    /\ c.LastRound \in Rounds                            \* bound: the last round
    /\ c.PeerVotes \in Nat                               \* bound: votes of others per height
    /\ c.Backlog \in Nat                 \* bound: own messages and timeouts others overtake

ASSUME ConstantsAssumption ==
    /\ Me \in Validators \cap Peers    \* own messages have Me as their peer
    /\ ValidBlocks \subseteq Blocks /\ Malformed \subseteq Blocks
    /\ Mixed \in Blocks
    /\ BlockTime \in [Blocks -> Nat]
    /\ ProofHeights \subseteq Heights /\ 1 \in ProofHeights
    /\ Equivocators \subseteq Validators \ {Me}
    /\ MaxHeight \in Nat \ {0}
    /\ \A c \in Config : IsConfig(c)

\* RoundStepType.
RoundStepNewHeight == 1
RoundStepNewRound == 2
RoundStepPropose == 3
RoundStepPrevote == 4
RoundStepPrevoteWait == 5
RoundStepPrecommit == 6
RoundStepPrecommitWait == 7
RoundStepCommit == 8

Vote == [type : VoteTypes, height : Nat, round : Rounds, val : Validators, block : Values]
Proposal == [height : Nat, round : Rounds, block : Blocks, pol : -1 .. MaxRound,
             timestamp : Nat, timely : BOOLEAN]
PartSet == [header : Blocks, complete : BOOLEAN]
Message == [vote : Vote] \cup [proposal : Proposal] \cup [part : Blocks, height : Nat]

ASSUME NoProposalAssumption == None \notin Proposal /\ None \notin PartSet

VARIABLES
    cs,          \* State
    config       \* the member of Config the node runs with

vars == <<cs, config>>

-----------------------------------------------------------------------------
NewPartSetFromHeader(b) == [header |-> b, complete |-> FALSE]
HasHeader(parts, b) == parts # None /\ parts.header = b

\* sendInternalMessage: a full queue hands the message to a goroutine, so own
\* messages are processed in any order.
sendInternalMessage(c, msg) == [c EXCEPT !.internalMsgQueue = @ \cup {msg}]

scheduleTimeout(c, height, round, step) ==
    [c EXCEPT !.ticker = ScheduleTimeout(@, timeoutInfo(height, round, step))]

updateRoundStep(c, round, step) == [c EXCEPT !.Round = round, !.Step = step]

\* receiveRoutine recovers from a panic and stops.
panic(c, why) == [c EXCEPT !.panicked = why]

\* Mutant: a vote is signed but not sent when the message queue is busy.
signAddVoteDropped(c, type, b, e) ==
    LET vote == [type |-> type, height |-> c.Height, round |-> c.Round, val |-> Me, block |-> b]
    IN  IF ~e.sign THEN c
        ELSE IF c.internalMsgQueue = {}
             THEN [sendInternalMessage(c, [vote |-> vote]) EXCEPT !.signed = @ \cup {vote}]
        ELSE [c EXCEPT !.signed = @ \cup {vote}]

\* signVote: the vote carries State.Round, whatever round is being entered.
signAddVote(c, type, b, e) ==
    LET vote == [type |-> type, height |-> c.Height, round |-> c.Round, val |-> Me, block |-> b]
    IN  IF e.sign THEN [sendInternalMessage(c, [vote |-> vote]) EXCEPT !.signed = @ \cup {vote}]
                  ELSE c

isProposer(c) == config.Proposer[c.Height, c.Round] = Me

needProofBlock(height) == height \in ProofHeights

isProposalComplete(c) ==
    /\ c.Proposal # None /\ c.ProposalBlock # None
    /\ \/ c.Proposal.pol < 0
       \/ TwoThirdsMajority(Prevotes(c.Votes, c.Proposal.pol)) # None

\* buildProposalBlock: the header of one proposal with the transactions of
\* another is a block nobody proposed.
buildProposalBlock(c, header) == IF header = c.Proposal.block THEN header ELSE Mixed

-----------------------------------------------------------------------------
\* Mutant: any polka releases the lock, even one older than it.
prevoteForOldPolka(c) ==
    LET p == c.Proposal
        b == c.ProposalBlock
    IN  IF /\ p # None /\ b # None /\ p.timestamp = BlockTime[b]
           /\ p.pol = -1 /\ c.LockedRound = -1 => p.timely
           /\ b \in ValidBlocks \cap config.AppAccepts
           /\ \/ p.pol = -1 /\ (c.LockedRound = -1 \/ b = c.LockedBlock)
              \/ p.pol >= 0 /\ p.pol < c.Round /\ TwoThirdsMajority(Prevotes(c.Votes, p.pol)) = b
        THEN b ELSE Nil

\* The prevote of defaultDoPrevote, once the block is at hand.
prevoteFor(c) ==
    LET p == c.Proposal
        b == c.ProposalBlock
        acceptable ==
            /\ p # None /\ b # None
            /\ p.timestamp = BlockTime[b]
            /\ p.pol = -1 /\ c.LockedRound = -1 => p.timely
            /\ b \in ValidBlocks \cap config.AppAccepts
        unlocked == p.pol = -1 /\ (c.LockedRound = -1 \/ b = c.LockedBlock)
        polka == /\ p.pol >= 0 /\ p.pol < c.Round
                 /\ TwoThirdsMajority(Prevotes(c.Votes, p.pol)) = b
                 /\ c.LockedRound <= p.pol \/ b = c.LockedBlock
    IN  IF acceptable /\ (unlocked \/ polka) THEN b ELSE Nil

\* With key-only gossip a block whose parts are complete but could not be kept
\* is built again from the mempool before the vote.
rebuildBlock(c, e) ==
    IF /\ config.GossipTransactionKeyOnly /\ c.Proposal # None /\ c.ProposalBlock = None
       /\ c.ProposalBlockParts.complete /\ c.ProposalBlockParts.header \notin Malformed /\ e.txs
    THEN [c EXCEPT !.ProposalBlock = buildProposalBlock(c, c.ProposalBlockParts.header)] ELSE c

defaultDoPrevote(c, e) ==
    LET d == rebuildBlock(c, e) IN signAddVote(d, "prevote", prevoteFor(d), e)

\* Mutant: only a second entry of the Prevote step itself is refused.
enterPrevoteLate(c, round, e) ==
    IF round < c.Round \/ (c.Round = round /\ RoundStepPrevote = c.Step) THEN c
    ELSE updateRoundStep(defaultDoPrevote(c, e), round, RoundStepPrevote)

enterPrevote(c, round, e) ==
    IF round < c.Round \/ (c.Round = round /\ RoundStepPrevote <= c.Step) THEN c
    ELSE updateRoundStep(defaultDoPrevote(c, e), round, RoundStepPrevote)

enterPrevoteWait(c, round) ==
    IF round < c.Round \/ (c.Round = round /\ RoundStepPrevoteWait <= c.Step) THEN c
    ELSE IF ~HasTwoThirdsAny(Prevotes(c.Votes, round)) THEN panic(c, "inconsistent")
    ELSE updateRoundStep(scheduleTimeout(c, c.Height, round, RoundStepPrevoteWait),
                         round, RoundStepPrevoteWait)

\* Mutant: the proposal is precommitted on a polka for any block.
lockAndPrecommitProposal(c, round, e) ==
    LET maj == TwoThirdsMajority(Prevotes(c.Votes, round))
    IN  IF maj \in Blocks /\ c.ProposalBlock \in ValidBlocks
        THEN signAddVote([c EXCEPT !.LockedRound = round, !.LockedBlock = c.ProposalBlock],
                         "precommit", c.ProposalBlock, e)
        ELSE signAddVote(c, "precommit", Nil, e)

\* Mutant: precommitting the locked block again leaves LockedRound behind.
lockAndPrecommitNoRelock(c, round, e) ==
    LET maj == TwoThirdsMajority(Prevotes(c.Votes, round))
    IN  IF maj \notin Blocks \/ c.Proposal = None \/ c.ProposalBlock = None
        THEN signAddVote(c, "precommit", Nil, e)
        ELSE IF c.LockedBlock = maj THEN signAddVote(c, "precommit", maj, e)
        ELSE IF c.ProposalBlock = maj /\ maj \in ValidBlocks
             THEN signAddVote([c EXCEPT !.LockedRound = round, !.LockedBlock = maj],
                              "precommit", maj, e)
        ELSE signAddVote(c, "precommit", Nil, e)

\* The lock and the precommit of enterPrecommit.
lockAndPrecommit(c, round, e) ==
    LET maj == TwoThirdsMajority(Prevotes(c.Votes, round))
        precommitNil(d) == signAddVote(d, "precommit", Nil, e)
    IN  IF maj = None THEN precommitNil(c)
        ELSE IF POLRound(c.Votes) < round THEN panic(c, "inconsistent")
        ELSE IF \/ maj = Nil
                \/ c.Proposal = None \/ c.ProposalBlock = None
                \/ c.Proposal.timestamp # BlockTime[c.ProposalBlock]
             THEN precommitNil(c)
        ELSE IF c.LockedBlock = maj
             THEN signAddVote([c EXCEPT !.LockedRound = round], "precommit", maj, e)
        ELSE IF c.ProposalBlock = maj
             THEN IF maj \notin ValidBlocks THEN panic(c, "invalidBlock")
                  ELSE signAddVote([c EXCEPT !.LockedRound = round, !.LockedBlock = maj],
                                   "precommit", maj, e)
        ELSE IF HasHeader(c.ProposalBlockParts, maj) THEN precommitNil(c)
        ELSE precommitNil([c EXCEPT !.ProposalBlock = None,
                                    !.ProposalBlockParts = NewPartSetFromHeader(maj)])

enterPrecommit(c, round, e) ==
    IF round < c.Round \/ (c.Round = round /\ RoundStepPrecommit <= c.Step) THEN c
    ELSE updateRoundStep(lockAndPrecommit(c, round, e), round, RoundStepPrecommit)

enterPrecommitWait(c, round) ==
    IF round < c.Round \/ (c.Round = round /\ c.TriggeredTimeoutPrecommit) THEN c
    ELSE IF ~HasTwoThirdsAny(Precommits(c.Votes, round)) THEN panic(c, "inconsistent")
    ELSE [scheduleTimeout(c, c.Height, round, RoundStepPrecommitWait)
             EXCEPT !.TriggeredTimeoutPrecommit = TRUE]

-----------------------------------------------------------------------------
\* Mutant: LastCommit is taken from the round the node has reached.
updateToStateRound(c) ==
    [c EXCEPT !.Height = @ + 1, !.Round = 0, !.Step = RoundStepNewHeight,
              !.Proposal = None, !.ProposalBlock = None, !.ProposalBlockParts = None,
              !.LockedRound = -1, !.LockedBlock = None,
              !.ValidRound = -1, !.ValidBlock = None,
              !.LastCommit = Precommits(c.Votes, c.Round), !.LastCommitRound = c.Round,
              !.Votes = NewHeightVoteSet,
              !.CommitRound = -1, !.TriggeredTimeoutPrecommit = FALSE]

\* The commit becomes LastCommit and everything about the height is reset.
updateToState(c) ==
    [c EXCEPT !.Height = @ + 1, !.Round = 0, !.Step = RoundStepNewHeight,
              !.Proposal = None, !.ProposalBlock = None, !.ProposalBlockParts = None,
              !.LockedRound = -1, !.LockedBlock = None,
              !.ValidRound = -1, !.ValidBlock = None,
              !.LastCommit = Precommits(c.Votes, c.CommitRound), !.LastCommitRound = c.CommitRound,
              !.Votes = NewHeightVoteSet,
              !.CommitRound = -1, !.TriggeredTimeoutPrecommit = FALSE]

scheduleRound0(c) == scheduleTimeout(c, c.Height, 0, RoundStepNewHeight)

\* A block that could not be applied leaves the node in the Commit step, to be
\* applied by the handshake of the next start.
finalizeCommit(c, e) ==
    LET b == TwoThirdsMajority(Precommits(c.Votes, c.CommitRound))
        stored == [c EXCEPT !.blockStore = IF Len(@) < c.Height THEN Append(@, b) ELSE @]
    IN  IF ~HasHeader(c.ProposalBlockParts, b) THEN panic(c, "header")
        ELSE IF c.ProposalBlock # b THEN panic(c, "inconsistent")
        ELSE IF b \notin ValidBlocks THEN panic(c, "invalidBlock")
        ELSE IF ~e.apply THEN stored
        ELSE scheduleRound0(updateToState(stored))

\* Mutant: the block need not be at hand.
tryFinalizeCommitEarly(c, e) ==
    IF TwoThirdsMajority(Precommits(c.Votes, c.CommitRound)) \in Blocks THEN finalizeCommit(c, e) ELSE c

tryFinalizeCommit(c, e) ==
    LET maj == TwoThirdsMajority(Precommits(c.Votes, c.CommitRound))
    IN  IF maj \in Blocks /\ c.ProposalBlock = maj THEN finalizeCommit(c, e) ELSE c

\* Mutant: parts that are being collected are kept, whatever block they are of.
enterCommitKeep(c, commitRound, e) ==
    LET maj == TwoThirdsMajority(Precommits(c.Votes, commitRound))
        fetching == IF c.ProposalBlockParts # None THEN c
                    ELSE [c EXCEPT !.ProposalBlockParts = NewPartSetFromHeader(maj)]
    IN  IF RoundStepCommit <= c.Step THEN c
        ELSE tryFinalizeCommit([fetching EXCEPT !.Step = RoundStepCommit, !.CommitRound = commitRound], e)

enterCommit(c, commitRound, e) ==
    LET maj == TwoThirdsMajority(Precommits(c.Votes, commitRound))
        locked == IF c.LockedBlock = maj
                  THEN [c EXCEPT !.ProposalBlock = maj,
                                 !.ProposalBlockParts = [header |-> maj, complete |-> TRUE]]
                  ELSE c
        fetching == IF locked.ProposalBlock = maj \/ HasHeader(locked.ProposalBlockParts, maj)
                    THEN locked
                    ELSE [locked EXCEPT !.ProposalBlock = None,
                                        !.ProposalBlockParts = NewPartSetFromHeader(maj)]
    IN  IF RoundStepCommit <= c.Step THEN c
        ELSE IF maj = None THEN panic(c, "inconsistent")
        ELSE tryFinalizeCommit([fetching EXCEPT !.Step = RoundStepCommit,
                                                !.CommitRound = commitRound], e)

-----------------------------------------------------------------------------
\* A valid block is proposed again with the round of its polka.
defaultDecideProposal(c, round, e) ==
    LET b == IF c.ValidBlock # None THEN c.ValidBlock
             ELSE IF c.Height > 1 /\ TwoThirdsMajority(c.LastCommit) = None THEN None
             ELSE e.block
        proposal == [height |-> c.Height, round |-> round, block |-> b, pol |-> c.ValidRound,
                     timestamp |-> BlockTime[b], timely |-> TRUE]
    IN  IF b = None \/ ~e.sign THEN c
        ELSE [sendInternalMessage(sendInternalMessage(c, [proposal |-> proposal]),
                                  [part |-> b, height |-> c.Height])
                 EXCEPT !.proposed = @ \cup {proposal}]

enterPropose(c, round, e) ==
    LET waiting == scheduleTimeout(c, c.Height, round, RoundStepNewRound)
        timed == scheduleTimeout(c, c.Height, round, RoundStepPropose)
        decided == IF isProposer(c) THEN defaultDecideProposal(timed, round, e) ELSE timed
        entered == updateRoundStep(decided, round, RoundStepPropose)
    IN  IF round < c.Round \/ (c.Round = round /\ RoundStepPropose <= c.Step) THEN c
        ELSE IF isProposer(c) /\ e.wait THEN waiting
        ELSE IF isProposalComplete(entered) THEN enterPrevote(entered, round, e)
        ELSE entered

enterNewRound(c, round, e) ==
    LET kept(x) == IF round = 0 THEN x ELSE None
        entered == [updateRoundStep(c, round, RoundStepNewRound)
                       EXCEPT !.Proposal = kept(@), !.ProposalBlock = kept(@),
                              !.ProposalBlockParts = kept(@),
                              !.Votes = SetRound(@, round + 1),
                              !.TriggeredTimeoutPrecommit = FALSE]
        waitForTxs == config.WaitForTxs /\ round = 0 /\ ~needProofBlock(c.Height)
    IN  IF round < c.Round \/ (c.Round = round /\ c.Step # RoundStepNewHeight) THEN c
        ELSE IF SetRoundPanics(c.Votes, round + 1) THEN panic(c, "inconsistent")
        ELSE IF ~waitForTxs THEN enterPropose(entered, round, e)
        ELSE IF config.CreateEmptyBlocksInterval
             THEN scheduleTimeout(entered, c.Height, round, RoundStepNewRound)
        ELSE entered

-----------------------------------------------------------------------------
handleCompleteProposal(c, e) ==
    LET maj == TwoThirdsMajority(Prevotes(c.Votes, c.Round))
        updated == IF maj \in Blocks /\ c.ValidRound < c.Round /\ c.ProposalBlock = maj
                   THEN [c EXCEPT !.ValidRound = c.Round, !.ValidBlock = maj] ELSE c
        prevoted == enterPrevote(updated, c.Round, e)
    IN  IF c.Step <= RoundStepPropose /\ isProposalComplete(updated)
        THEN IF maj # None THEN enterPrecommit(prevoted, c.Round, e) ELSE prevoted
        ELSE IF c.Step = RoundStepCommit THEN tryFinalizeCommit(updated, e)
        ELSE updated

defaultSetProposal(c, p) ==
    IF \/ c.Proposal # None \/ p.height # c.Height \/ p.round # c.Round
       \/ p.pol >= p.round
    THEN c
    ELSE [c EXCEPT !.Proposal = p,
                   !.ProposalBlockParts = IF @ = None THEN NewPartSetFromHeader(p.block) ELSE @]

\* With key-only gossip any proposal message of the height, even one that was
\* not taken, makes the node build the block from its mempool.
tryCreateProposalBlock(c, p, e) ==
    IF /\ config.GossipTransactionKeyOnly /\ ~isProposer(c) /\ c.ProposalBlock = None
       /\ p.height = c.Height /\ c.Proposal # None /\ e.txs
    THEN LET b == buildProposalBlock(c, p.block)
         IN  handleCompleteProposal([c EXCEPT !.ProposalBlock = b,
                                              !.ProposalBlockParts = [header |-> b, complete |-> TRUE]], e)
    ELSE c

\* handleMsg, ProposalMessage.
handleProposalMsg(c, p, e) ==
    LET rejected == c.Proposal = None /\ p.height = c.Height /\ p.round = c.Round /\ p.pol >= p.round
    IN  IF rejected THEN c ELSE tryCreateProposalBlock(defaultSetProposal(c, p), p, e)

addProposalBlockPart(c, b) ==
    [c EXCEPT !.ProposalBlockParts.complete = TRUE,
              !.ProposalBlock = IF b \in Malformed THEN @ ELSE b]

\* handleMsg, BlockPartMessage.  The lock is released and taken again between
\* the two halves; only the goroutine that runs this writes the round state.
handleBlockPartMsg(c, b, height, e) ==
    LET added == /\ height = c.Height
                 /\ HasHeader(c.ProposalBlockParts, b) /\ ~c.ProposalBlockParts.complete
    IN  IF ~added THEN c
        ELSE IF b \in Malformed THEN addProposalBlockPart(c, b)
        ELSE handleCompleteProposal(addProposalBlockPart(c, b), e)

-----------------------------------------------------------------------------
\* addVote: a polka of the current round makes its block the valid block, or
\* the block to fetch.
updateValidBlock(c, round) ==
    LET maj == TwoThirdsMajority(Prevotes(c.Votes, round))
        known == IF c.ProposalBlock = maj
                 THEN [c EXCEPT !.ValidRound = round, !.ValidBlock = maj]
                 ELSE [c EXCEPT !.ProposalBlock = None]
    IN  IF maj \notin Blocks \/ c.ValidRound >= round \/ round # c.Round THEN c
        ELSE IF HasHeader(c.ProposalBlockParts, maj) THEN known
        ELSE [known EXCEPT !.ProposalBlockParts = NewPartSetFromHeader(maj)]

prevoteAdded(c, round, e) ==
    LET d == updateValidBlock(c, round)
        prevotes == Prevotes(d.Votes, round)
        maj == TwoThirdsMajority(prevotes)
    IN  IF d.Round < round /\ HasTwoThirdsAny(prevotes) THEN enterNewRound(d, round, e)
        ELSE IF d.Round = round /\ RoundStepPrevote <= d.Step
             THEN IF maj # None /\ (isProposalComplete(d) \/ maj = Nil)
                  THEN enterPrecommit(d, round, e)
                  ELSE IF HasTwoThirdsAny(prevotes) THEN enterPrevoteWait(d, round)
                  ELSE d
        ELSE IF d.Proposal # None /\ d.Proposal.pol = round /\ isProposalComplete(d)
             THEN enterPrevote(d, d.Round, e)
        ELSE d

precommitAdded(c, round, e) ==
    LET precommits == Precommits(c.Votes, round)
        maj == TwoThirdsMajority(precommits)
        entered == enterNewRound(c, round, e)
        precommitted == enterPrecommit(entered, round, e)
        committed == enterCommit(precommitted, round, e)
    IN  IF maj \in Blocks
        THEN IF config.BypassCommitTimeout /\ HasAll(precommits) /\ committed.Height <= config.LastHeight
             THEN enterNewRound(committed, 0, e) ELSE committed
        ELSE IF maj = Nil THEN enterPrecommitWait(precommitted, round)
        ELSE IF c.Round <= round /\ HasTwoThirdsAny(precommits)
             THEN enterPrecommitWait(entered, round)
        ELSE c

\* Mutant: a conflicting vote that is counted all the same is not reported.
reportConflictRefused(c, v, result) ==
    IF result.conflicting /\ ~result.added /\ v.val # Me
    THEN [c EXCEPT !.evpool = @ \cup {[v EXCEPT !.block = Nil]}] ELSE c

\* tryAddVote: a conflicting vote of another validator goes to the evidence pool.
reportConflict(c, v, result) ==
    IF result.conflicting /\ v.val # Me
    THEN [c EXCEPT !.evpool = @ \cup {[v EXCEPT !.block = Nil]}] ELSE c

\* A precommit of the previous height is of use until round 0 starts, if it is of
\* the round LastCommit was made in.  At the first height there is no LastCommit,
\* and AddVote panics on the nil set.
addLastCommitVote(c, v, e) ==
    LET result == AddVote(c.LastCommit, v.val, v.block)
        d == reportConflict([c EXCEPT !.LastCommit = result.set], v, result)
    IN  IF c.Step # RoundStepNewHeight THEN c
        ELSE IF c.LastCommit = None THEN panic(c, "nilLastCommit")
        ELSE IF v.round # c.LastCommitRound THEN c
        ELSE IF result.added /\ config.BypassCommitTimeout /\ HasAll(d.LastCommit)
             THEN enterNewRound(d, 0, e) ELSE d

\* handleMsg, VoteMessage.
addVote(c, v, peer, e) ==
    LET result == AddVoteFrom(c.Votes, v.type, v.round, v.val, v.block, peer)
        d == reportConflict([c EXCEPT !.Votes = result.set], v, result)
    IN  IF v.height + 1 = c.Height /\ v.type = "precommit" THEN addLastCommitVote(c, v, e)
        ELSE IF v.height # c.Height THEN c
        ELSE IF ~result.added THEN d
        ELSE IF v.type = "prevote" THEN prevoteAdded(d, v.round, e)
        ELSE precommitAdded(d, v.round, e)

-----------------------------------------------------------------------------
handleTimeout(c, ti, e) ==
    IF \/ ti.height # c.Height \/ ti.round < c.Round
       \/ (ti.round = c.Round /\ ti.step < c.Step)
    THEN c
    ELSE CASE ti.step = RoundStepNewHeight -> enterNewRound(c, 0, e)
           [] ti.step = RoundStepNewRound -> enterPropose(c, 0, e)
           [] ti.step = RoundStepPropose -> enterPrevote(c, ti.round, e)
           [] ti.step = RoundStepPrevoteWait -> enterPrecommit(c, ti.round, e)
           [] ti.step = RoundStepPrecommitWait ->
                  enterNewRound(enterPrecommit(c, ti.round, e), ti.round + 1, e)

handleTxsAvailable(c, e) ==
    IF c.Round # 0 THEN c
    ELSE IF c.Step = RoundStepNewHeight
         THEN IF needProofBlock(c.Height) THEN c
              ELSE scheduleTimeout(c, c.Height, 0, RoundStepNewRound)
    ELSE IF c.Step = RoundStepNewRound THEN enterPropose(c, 0, e)
    ELSE c

-----------------------------------------------------------------------------
\* OnStart on an empty chain.
NewState ==
    [Height |-> 1, Round |-> 0, Step |-> RoundStepNewHeight,
     Proposal |-> None, ProposalBlock |-> None, ProposalBlockParts |-> None,
     LockedRound |-> -1, LockedBlock |-> None, ValidRound |-> -1, ValidBlock |-> None,
     Votes |-> NewHeightVoteSet, CommitRound |-> -1,
     LastCommit |-> None, LastCommitRound |-> -1,
     TriggeredTimeoutPrecommit |-> FALSE,
     internalMsgQueue |-> {}, ticker |-> NewTimeoutTicker,
     blockStore |-> <<>>,      \* the blocks saved, by height
     evpool |-> {},            \* the conflicts reported
     signed |-> {},            \* history: own votes
     proposed |-> {},          \* history: own proposals
     panicked |-> "no"]        \* or why

Init == cs = scheduleRound0(NewState) /\ config \in Config

Running == cs.panicked = "no" /\ cs.Height <= config.LastHeight

Backlog == Cardinality(cs.internalMsgQueue) + Cardinality(cs.ticker.tocks)

\* receiveRoutine's select takes any of its channels.
Listening == Running /\ Backlog <= config.Backlog

\* The vote set a vote goes to.
Slot(v) == IF v.height = cs.Height THEN getVoteSet(cs.Votes, v.round, v.type) ELSE cs.LastCommit

PeerVotes ==
    {x \in VoteTypes \X Rounds \X (Validators \ {Me}) :
        LET set == getVoteSet(cs.Votes, x[2], x[1]) IN set # None /\ set.votes[x[3]] # None}

PeerVote(v, peer, e) ==
    /\ Listening
    /\ Cardinality(PeerVotes) < config.PeerVotes
    /\ v.height \in {cs.Height, cs.Height - 1}
    /\ Slot(v) # None /\ Slot(v).votes[v.val] \notin {None, v.block} => v.val \in Equivocators
    /\ cs' = addVote(cs, v, peer, e)
    /\ UNCHANGED config

PeerProposal(p, e) ==
    /\ Listening
    /\ p.height = cs.Height /\ config.Proposer[p.height, p.round] # Me
    /\ cs' = handleProposalMsg(cs, p, e)
    /\ UNCHANGED config

PeerBlockPart(b, e) ==
    /\ Listening
    /\ cs' = handleBlockPartMsg(cs, b, cs.Height, e)
    /\ UNCHANGED config

\* The reactor records a peer's majority claim directly.
PeerMaj23(type, round, peer, b) ==
    /\ Listening
    /\ cs' = [cs EXCEPT !.Votes = SetPeerMaj23For(@, type, round, peer, b)]
    /\ UNCHANGED config

InternalMsg(msg, e) ==
    /\ Running /\ msg \in cs.internalMsgQueue
    /\ LET c == [cs EXCEPT !.internalMsgQueue = @ \ {msg}]
       IN  cs' = CASE "vote" \in DOMAIN msg -> addVote(c, msg.vote, Me, e)
                   [] "proposal" \in DOMAIN msg -> handleProposalMsg(c, msg.proposal, e)
                   [] "part" \in DOMAIN msg -> handleBlockPartMsg(c, msg.part, msg.height, e)
    /\ UNCHANGED config

TimerElapses ==
    /\ Listening /\ cs.ticker.armed
    /\ cs' = [cs EXCEPT !.ticker = elapse(@)]
    /\ UNCHANGED config

\* Bound: the timeout that would start round LastRound + 1 is never delivered.
Timeout(ti, e) ==
    /\ Running /\ ti \in cs.ticker.tocks
    /\ ti.step = RoundStepPrecommitWait => ti.round < config.LastRound
    /\ cs' = handleTimeout([cs EXCEPT !.ticker = take(@, ti)], ti, e)
    /\ UNCHANGED config

TxsAvailable(e) ==
    /\ Listening /\ config.WaitForTxs
    /\ cs' = handleTxsAvailable(cs, e)
    /\ UNCHANGED config

Next ==
    \/ \E e \in config.Envs :
          \/ \E v \in [type : VoteTypes, height : 0 .. MaxHeight, round : 0 .. config.LastRound,
                       val : Validators \ {Me}, block : config.PeerValues], peer \in Peers \ {Me} :
                PeerVote(v, peer, e)
          \/ \E q \in config.PeerProposals, r \in 0 .. config.LastRound :
                PeerProposal([height |-> cs.Height, round |-> r, block |-> q.block, pol |-> q.pol,
                              timestamp |-> q.timestamp, timely |-> q.timely], e)
          \/ \E b \in Blocks : PeerBlockPart(b, e)
          \/ \E msg \in cs.internalMsgQueue : InternalMsg(msg, e)
          \/ \E ti \in cs.ticker.tocks : Timeout(ti, e)
          \/ TxsAvailable(e)
    \/ \E t \in VoteTypes, r \in 0 .. config.LastRound, peer \in Peers \ {Me}, b \in config.PeerClaims :
          PeerMaj23(t, r, peer, b)
    \/ TimerElapses

Spec == Init /\ [][Next]_vars

\* receiveRoutine never stops taking its own messages and timeouts, and an armed
\* timer elapses.  Peers may fall silent.
Fairness ==
    /\ \* WF_cs of InternalMsg, with its ENABLED written out
       \/ []<>(~Running \/ cs.internalMsgQueue = {})
       \/ []<><<\E e \in config.Envs, msg \in cs.internalMsgQueue : InternalMsg(msg, e)>>_cs
    /\ WF_cs(TimerElapses)
    /\ WF_cs(\E e \in config.Envs, ti \in cs.ticker.tocks : Timeout(ti, e))

FairSpec == Spec /\ Fairness

-----------------------------------------------------------------------------
(***************************************************************************)
(* Properties                                                              *)
(***************************************************************************)

Polka(r) == TwoThirdsMajority(Prevotes(cs.Votes, r))
SignedNow == {v \in cs.signed : v.height = cs.Height}
PrecommittedNow == {v \in SignedNow : v.type = "precommit" /\ v.block \in Blocks}

\* A block is precommitted only with a polka for it in that very round among
\* the votes the node holds, although the vote takes its round from State.Round.
PrecommitHasPolka ==
    \A v \in PrecommittedNow : Polka(v.round) = v.block

\* After precommitting one block a validator prevotes another one only on the
\* strength of a polka for it in that round or a later one: the rule that
\* keeps two blocks from being committed, across any number of lock changes.
PrevoteJustified ==
    \A v \in PrecommittedNow, w \in SignedNow :
        w.type = "prevote" /\ w.block \in Blocks \ {v.block} /\ v.round < w.round =>
            \E pr \in v.round .. w.round - 1 : Polka(pr) = w.block

\* The lock remembers the last precommit: no precommitted block is later than
\* LockedRound, and the lock has its polka; so has the block of a proposal with a
\* POLRound, which is the valid round when it is signed.
LockCoversPrecommits ==
    /\ \A v \in PrecommittedNow :
          v.round <= cs.LockedRound /\ (v.round = cs.LockedRound => v.block = cs.LockedBlock)
    /\ cs.LockedRound >= 0 => Polka(cs.LockedRound) = cs.LockedBlock
    /\ \A p \in cs.proposed : p.height = cs.Height /\ p.pol >= 0 => Polka(p.pol) = p.block

\* A block is stored only with +2/3 precommits for it, and they stay at hand as
\* LastCommit for the next block.
CommitHasQuorum ==
    /\ Len(cs.blockStore) \in {cs.Height - 1, cs.Height}
    /\ cs.Height > 1 => TwoThirdsMajority(cs.LastCommit) = cs.blockStore[cs.Height - 1]
    /\ Len(cs.blockStore) = cs.Height =>
          TwoThirdsMajority(Precommits(cs.Votes, cs.CommitRound)) = cs.blockStore[cs.Height]

\* None of the checks that the state functions make of their own state and answer
\* with a panic ever fails, in any order of messages and timeouts: +2/3 prevotes in
\* enterPrevoteWait, +2/3 precommits in enterPrecommitWait and enterCommit, POLRound
\* in enterPrecommit, the block in finalizeCommit, the next round in SetRound.  What
\* others can make the node panic over is not excluded: +2/3 votes for an invalid
\* block ("invalidBlock") or with the header of other parts ("header"), and a
\* precommit of height 0 before round 0 of the first height ("nilLastCommit").
NoPanic == cs.panicked # "inconsistent"

\* While the node waits in the Commit step it collects the parts of the block
\* that was committed, whatever proposals, parts and polkas still arrive ("We don't
\* update cs.ProposalBlockParts if it is already set", defaultSetProposal).  With
\* GossipTransactionKeyOnly it may not: tryCreateProposalBlock replaces the parts.
CommitFetchesBlock ==
    cs.Step = RoundStepCommit =>
        HasHeader(cs.ProposalBlockParts, TwoThirdsMajority(Precommits(cs.Votes, cs.CommitRound)))

\* Exactly the equivocators are reported, however votes are duplicated, reordered
\* or counted late in LastCommit: evidence names only validators that signed
\* conflicting votes, and a validator counted for two values of one round, which
\* the majority claims of peers make possible, has been reported.
EvidenceIsExact ==
    /\ \A x \in cs.evpool : x.val \in Equivocators
    /\ \A t \in VoteTypes, r \in Rounds, v \in Validators \ {Me} :
          LET set == getVoteSet(cs.Votes, r, t)
          IN  set # None /\ Cardinality({b \in Values : CountedFor(set, v, b)}) > 1 =>
                  \E x \in cs.evpool : x.val = v /\ x.type = t /\ x.height = cs.Height /\ x.round = r

\* Votes are signed in strictly increasing height, round and step, so the state
\* machine asks for at most one prevote and one precommit per round and never
\* relies on the private validator to refuse a second one.
VotesInOrder ==
    [][\A v \in cs'.signed \ cs.signed, w \in cs.signed :
          \/ w.height < v.height
          \/ w.height = v.height /\ w.round < v.round
          \/ w.height = v.height /\ w.round = v.round /\ w.type = "prevote" /\ v.type = "precommit"]_cs

\* A node that waits for a timeout, and has not panicked, gets it, even when its
\* peers are silent: the single timer is never replaced or refused in a way that leaves NewHeight,
\* Propose, PrevoteWait or the wait for precommits without an end.
WaitsEnd ==
    \A h \in Heights, r \in 0 .. MaxRound - 1 :
        LET In(steps) == Running /\ cs.Height = h /\ cs.Round = r /\ cs.Step \in steps
            Wait == In(RoundStepNewHeight .. RoundStepPrecommit) /\ cs.TriggeredTimeoutPrecommit
        IN  /\ \A step \in {RoundStepNewHeight, RoundStepPropose, RoundStepPrevoteWait} :
                  In({step}) ~> ~In({step})
            /\ Wait ~> ~Wait

\* Every vote the node signs is in its own vote set in the end, or its height is
\* over: no own vote is dropped because its round is not tracked.
OwnVotesCounted ==
    \A t \in VoteTypes, h \in Heights, r \in Rounds :
        LET Signed == \E v \in cs.signed : v.type = t /\ v.height = h /\ v.round = r
            Counted == cs.Height = h /\ getVoteSet(cs.Votes, r, t) # None
                       /\ getVoteSet(cs.Votes, r, t).votes[Me] # None
        IN  Signed ~> cs.Height > h \/ Counted
=============================================================================
