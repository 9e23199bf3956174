------------------------ MODULE ConsensusRoundProofs ------------------------
(***************************************************************************)
(* The inductive invariant of ConsensusState, and the state functions that   *)
(* stay within a height: enterNewRound, enterPropose, enterPrevote,          *)
(* enterPrecommit and the waits.  A state is Good when it satisfies the      *)
(* invariant; every function is shown to lead from Good states to Good       *)
(* states, along the calls the code makes.  ConsensusStateProofs goes on     *)
(* with the commit, the messages and the steps of Next.                      *)
(***************************************************************************)
EXTENDS ConsensusState, VoteSetInvariant, TLAPS

OwnVote == {v \in Vote : v.val = Me /\ v.height > 0}
OwnMessage == [vote : OwnVote] \cup [proposal : Proposal] \cup [part : Blocks, height : Nat]
TimedSteps == {RoundStepNewHeight, RoundStepNewRound, RoundStepPropose, RoundStepPrevoteWait, RoundStepPrecommitWait}
Ticks == [height : Nat, round : Rounds, step : TimedSteps]
Tickers == [ti : Ticks, armed : BOOLEAN, tocks : SUBSET Ticks]

\* The types of the fields.
HeightT == Nat \ {0}
StepT == 1 .. 8
RoundT == -1 .. MaxRound
BlockT == Blocks \cup {None}
ProposalT == Proposal \cup {None}
PartsT == PartSet \cup {None}
LastCommitT == VoteSets \cup {None}
QueueT == SUBSET OwnMessage
StoreT == Seq(Blocks)
PoolT == SUBSET Vote
SignedT == SUBSET OwnVote
ProposedT == SUBSET Proposal
FlagT == BOOLEAN
PanicT == {"no", "inconsistent", "invalidBlock", "header", "nilLastCommit"}

States ==
    [Height : HeightT, Round : Rounds, Step : StepT,
     Proposal : ProposalT, ProposalBlock : BlockT, ProposalBlockParts : PartsT,
     LockedRound : RoundT, LockedBlock : BlockT, ValidRound : RoundT, ValidBlock : BlockT,
     Votes : HeightVoteSets, CommitRound : RoundT, LastCommit : LastCommitT, LastCommitRound : RoundT,
     TriggeredTimeoutPrecommit : FlagT, internalMsgQueue : QueueT, ticker : Tickers,
     blockStore : StoreT, evpool : PoolT, signed : SignedT, proposed : ProposedT, panicked : PanicT]

PolkaOf(c, r) == Majority(c.Votes, "prevote", r)
CommitOf(c, r) == Majority(c.Votes, "precommit", r)

\* The vote sets follow the round.  A timeout of TxsAvailable may start round 0
\* without enterNewRound.
RoundsOK(c) ==
    /\ VotesOK(c.Votes)
    /\ c.Votes.round = c.Round + 1 \/ (c.Round = 0 /\ c.Votes.round = 0)
    /\ c.CommitRound <= c.Round

LockOK(c) ==
    /\ c.LockedRound <= c.Round
    /\ c.LockedRound = c.Round => c.Step >= RoundStepPrecommit
    /\ c.LockedRound = -1 => c.LockedBlock = None
    /\ c.LockedRound >= 0 => c.LockedBlock \in Blocks /\ PolkaOf(c, c.LockedRound) = c.LockedBlock

ValidOK(c) ==
    \/ c.ValidRound = -1 /\ c.ValidBlock = None
    \/ c.ValidRound >= 0 /\ c.ValidBlock \in Blocks /\ PolkaOf(c, c.ValidRound) = c.ValidBlock

\* No vote is of a later height, round or step than the state.
SignedOK(c) ==
    \A v \in c.signed :
        /\ v.height <= c.Height
        /\ v.height = c.Height => v.round <= c.Round
        /\ v.height = c.Height /\ v.round = c.Round =>
              c.Step >= IF v.type = "prevote" THEN RoundStepPrevote ELSE RoundStepPrecommit

Precommitted(c) == {v \in c.signed : v.height = c.Height /\ v.type = "precommit" /\ v.block \in Blocks}
Prevoted(c) == {v \in c.signed : v.height = c.Height /\ v.type = "prevote" /\ v.block \in Blocks}

PrecommitsOK(c) ==
    \A v \in Precommitted(c) : v.round <= c.LockedRound /\ PolkaOf(c, v.round) = v.block

PrevotesOK(c) ==
    \A v \in Precommitted(c), w \in Prevoted(c) :
        w.block # v.block /\ v.round < w.round => \E r \in v.round .. w.round - 1 : PolkaOf(c, r) = w.block

ProposedOK(c) ==
    \A p \in c.proposed : /\ p.height <= c.Height
                          /\ p.height = c.Height /\ p.pol >= 0 => PolkaOf(c, p.pol) = p.block

\* No timeout is of a later round than the state.
TicksOK(c) ==
    \A ti \in c.ticker.tocks \cup {c.ticker.ti} :
        ti.height < c.Height \/ (ti.height = c.Height /\ ti.round <= c.Round)

\* The parts are those of the block at hand, unless that was put together from two
\* proposals.
PartsOK(c) ==
    /\ c.Proposal # None => c.ProposalBlockParts # None
    /\ c.ProposalBlock \in Blocks /\ c.ProposalBlock # Mixed => HasHeader(c.ProposalBlockParts, c.ProposalBlock)
    /\ c.ProposalBlock \in Blocks /\ ~config.GossipTransactionKeyOnly =>
          HasHeader(c.ProposalBlockParts, c.ProposalBlock)

LastCommitOK(c) ==
    /\ c.Height > 1 => TwoThirdsMajority(c.LastCommit) \in Blocks
    /\ c.LastCommit # None => SetOK(c.LastCommit) /\ TwoThirdsMajority(c.LastCommit) \in Blocks

\* The commit being worked on has its majority, and so has a block that is stored.
CommitOK(c) ==
    /\ c.CommitRound >= 0 => CommitOf(c, c.CommitRound) \in Blocks
    /\ c.Step = RoundStepCommit => c.CommitRound >= 0
    /\ Len(c.blockStore) \in {c.Height - 1, c.Height}
    /\ Len(c.blockStore) = c.Height =>
          /\ c.CommitRound >= 0
          /\ \E r \in TrackableRounds : CommitOf(c, r) = c.blockStore[c.Height]

\* Whoever is counted twice in a round has been reported, and nobody else.
EvidenceOK(c) ==
    /\ \A x \in c.evpool : x.val \in Equivocators
    /\ \A t \in VoteTypes, r \in Rounds, v \in Validators \ {Me}, a, b \in Values :
          a # b /\ Voted(c.Votes, t, r, v, a) /\ Voted(c.Votes, t, r, v, b) =>
              \E x \in c.evpool : x.val = v /\ x.type = t /\ x.height = c.Height /\ x.round = r

Good(c) ==
    /\ c \in States
    /\ RoundsOK(c) /\ LockOK(c) /\ ValidOK(c) /\ SignedOK(c) /\ PrecommitsOK(c) /\ PrevotesOK(c)
    /\ ProposedOK(c) /\ TicksOK(c) /\ PartsOK(c) /\ LastCommitOK(c) /\ CommitOK(c) /\ EvidenceOK(c)

IInv == config \in Config /\ Good(cs)

LEMMA Steps ==
    /\ RoundStepNewHeight \in 1 .. 8 /\ RoundStepNewRound \in 1 .. 8 /\ RoundStepPropose \in 1 .. 8
    /\ RoundStepPrevote \in 1 .. 8 /\ RoundStepPrevoteWait \in 1 .. 8 /\ RoundStepPrecommit \in 1 .. 8
    /\ RoundStepPrecommitWait \in 1 .. 8 /\ RoundStepCommit \in 1 .. 8
BY DEF RoundStepNewHeight, RoundStepNewRound, RoundStepPropose, RoundStepPrevote, RoundStepPrevoteWait,
       RoundStepPrecommit, RoundStepPrecommitWait, RoundStepCommit

LEMMA Numbers ==
    ASSUME NEW c \in States
    PROVE  /\ c.Height \in Nat \ {0} /\ c.Step \in 1 .. 8 /\ c.Step \in Int
           /\ c.Round \in Rounds /\ c.Round \in Nat
           /\ c.LockedRound \in -1 .. MaxRound /\ c.LockedRound \in Int
           /\ c.ValidRound \in -1 .. MaxRound /\ c.ValidRound \in Int
           /\ c.CommitRound \in -1 .. MaxRound /\ c.CommitRound \in Int
BY MaxRoundAssumption DEF States, Rounds, HeightT, StepT, RoundT

LEMMA FieldTypes ==
    ASSUME NEW c \in States
    PROVE  /\ c.Proposal \in Proposal \cup {None} /\ c.ProposalBlock \in Blocks \cup {None}
           /\ c.ProposalBlockParts \in PartSet \cup {None}
           /\ c.ValidBlock \in Blocks \cup {None} /\ c.Votes \in HeightVoteSets
           /\ c.LastCommit \in VoteSets \cup {None} /\ c.ticker \in Tickers
           /\ c.internalMsgQueue \subseteq OwnMessage /\ c.blockStore \in Seq(Blocks)
           /\ c.evpool \subseteq Vote /\ c.proposed \subseteq Proposal
BY Zenon DEF States, ProposalT, BlockT, PartsT, LastCommitT, QueueT, StoreT, PoolT, ProposedT

LEMMA OwnVotes ==
    ASSUME NEW c \in States, NEW v \in c.signed
    PROVE  /\ v.type \in VoteTypes /\ v.height \in Nat /\ v.round \in Rounds /\ v.round \in Nat
           /\ v.block \in Values /\ v.val = Me
<1>1. c.signed \subseteq OwnVote
  BY Zenon DEF States, SignedT
<1>2. v \in Vote /\ v.val = Me
  BY Zenon, <1>1 DEF OwnVote
<1> QED
  BY <1>2, MaxRoundAssumption DEF Vote, Rounds

LEMMA TickTypes ==
    ASSUME NEW c \in States, NEW x \in c.ticker.tocks \cup {c.ticker.ti}
    PROVE  x \in Ticks /\ x.height \in Nat /\ x.round \in Rounds /\ x.round \in Int /\ x.step \in TimedSteps
<1>1. c.ticker \in Tickers
  BY Zenon DEF States
<1>2. x \in Ticks
  BY Zenon, <1>1 DEF Tickers
<1> QED
  BY <1>2 DEF Ticks, Rounds

-----------------------------------------------------------------------------
(***************************************************************************)
(* Steps within a height                                                   *)
(***************************************************************************)

\* The votes d has and c has not are later than all those of c.
Later(c, d) ==
    \A v \in d.signed \ c.signed, w \in c.signed :
        \/ w.height < v.height
        \/ w.height = v.height /\ w.round < v.round
        \/ w.height = v.height /\ w.round = v.round /\ w.type = "prevote" /\ v.type = "precommit"

\* With key-only gossip the parts may be replaced at any time.
KeepsHeader(c, d) ==
    \/ config.GossipTransactionKeyOnly
    \/ \A b \in Blocks : HasHeader(c.ProposalBlockParts, b) => HasHeader(d.ProposalBlockParts, b)

\* d is a Good state the functions of c's height lead to.
Proceeds(c, d) ==
    /\ Good(d)
    /\ d.Height = c.Height /\ c.Round <= d.Round /\ SameVotes(c.Votes, d.Votes)
    /\ c.signed \subseteq d.signed /\ Later(c, d)
    /\ d.evpool = c.evpool /\ d.LastCommit = c.LastCommit /\ d.blockStore = c.blockStore
    /\ d.CommitRound = c.CommitRound
    /\ d.panicked = "inconsistent" => c.panicked = "inconsistent"
    /\ d.Step = RoundStepCommit => c.Step = RoundStepCommit /\ KeepsHeader(c, d)

\* Everything the invariant is about but the proposal, the timer and the step.
Frame(c, d) ==
    /\ d \in States
    /\ d.Height = c.Height /\ d.Round = c.Round /\ d.Votes = c.Votes
    /\ d.LockedRound = c.LockedRound /\ d.LockedBlock = c.LockedBlock
    /\ (d.ValidRound = c.ValidRound /\ d.ValidBlock = c.ValidBlock) \/ ValidOK(d)
    /\ d.signed = c.signed /\ d.evpool = c.evpool
    /\ d.proposed = c.proposed \/ ProposedOK(d)
    /\ d.LastCommit = c.LastCommit /\ d.blockStore = c.blockStore

LEMMA TrackedRounds ==
    /\ TrackableRounds \subseteq Int /\ 0 .. MaxRound \subseteq TrackableRounds
    /\ Rounds \subseteq TrackableRounds
BY MaxRoundAssumption DEF TrackableRounds, Rounds

LEMMA TrackedRound ==
    ASSUME NEW h, VotesOK(h)
    PROVE  h \in HeightVoteSets /\ h.round \in 0 .. MaxRound + 1 /\ h.round \in Int
<1>1. h \in HeightVoteSets
  BY Zenon DEF VotesOK
<1> QED
  BY <1>1 DEF HeightVoteSets

LEMMA SameVotesRefl == \A h : SameVotes(h, h)
BY Zenon DEF SameVotes

LEMMA SameVotesTrans ==
    ASSUME NEW f, NEW g, NEW h, SameVotes(f, g), SameVotes(g, h)
    PROVE  SameVotes(f, h)
BY Zenon DEF SameVotes

LEMMA SamePolkas ==
    ASSUME NEW c, NEW d, SameVotes(c.Votes, d.Votes)
    PROVE  \A r \in Int : PolkaOf(d, r) = PolkaOf(c, r) /\ CommitOf(d, r) = CommitOf(c, r)
BY Zenon DEF SameVotes, PolkaOf, CommitOf, VoteTypes

LEMMA ProceedsRefl ==
    ASSUME NEW c, Good(c)
    PROVE  Proceeds(c, c)
<1>1. c.Round \in Int
  BY Numbers DEF Good
<1> QED
  BY <1>1, SameVotesRefl DEF Proceeds, Later, KeepsHeader

LEMMA ProceedsTrans ==
    ASSUME NEW c, Good(c), NEW d, NEW f, Proceeds(c, d), Proceeds(d, f)
    PROVE  Proceeds(c, f)
<1>1. c.Round \in Int /\ d.Round \in Int /\ f.Round \in Int
  BY Numbers DEF Good, Proceeds
<1>2. /\ Good(f) /\ f.Height = c.Height /\ c.Round <= f.Round /\ SameVotes(c.Votes, f.Votes)
      /\ f.evpool = c.evpool /\ f.LastCommit = c.LastCommit /\ f.blockStore = c.blockStore
      /\ f.CommitRound = c.CommitRound /\ c.signed \subseteq f.signed
  BY <1>1, SameVotesTrans DEF Proceeds
<1>3. Later(c, f)
  BY Zenon DEF Proceeds, Later
<1>4. f.panicked = "inconsistent" => c.panicked = "inconsistent"
  BY Zenon DEF Proceeds
<1>5. f.Step = RoundStepCommit => c.Step = RoundStepCommit /\ KeepsHeader(c, f)
  BY Zenon DEF Proceeds, KeepsHeader
<1> QED
  BY Zenon, <1>2, <1>3, <1>4, <1>5 DEF Proceeds

\* A step that signs nothing and does not go back keeps a state Good.
LEMMA FrameGood ==
    ASSUME NEW c, Good(c), NEW d, Frame(c, d), c.Step <= d.Step, d.CommitRound <= d.Round,
           TicksOK(d), PartsOK(d), CommitOK(d)
    PROVE  Good(d)
<1> c \in States /\ d \in States /\ c.Step \in Int /\ d.Step \in Int /\ c.Round \in Int
  BY Numbers DEF Good, Frame
<1> \A r : PolkaOf(d, r) = PolkaOf(c, r)
  BY Zenon DEF Frame, PolkaOf
<1>3. RoundsOK(d) /\ ValidOK(d)
  BY Zenon DEF Good, Frame, RoundsOK, ValidOK
<1>4. LockOK(d)
  BY DEF Good, Frame, LockOK, RoundStepPrecommit
<1>5. SignedOK(d)
  BY DEF Good, Frame, SignedOK, RoundStepPrecommit, RoundStepPrevote
<1>6. Precommitted(d) = Precommitted(c) /\ Prevoted(d) = Prevoted(c)
  BY Zenon DEF Frame, Precommitted, Prevoted
<1>7. PrecommitsOK(d) /\ PrevotesOK(d)
  BY <1>6 DEF Good, Frame, PrecommitsOK, PrevotesOK
<1>8. ProposedOK(d) /\ LastCommitOK(d)
  BY Zenon DEF Good, Frame, ProposedOK, LastCommitOK
<1>9. EvidenceOK(d)
  BY DEF Good, Frame, EvidenceOK
<1> QED
  BY Zenon, <1>3, <1>4, <1>5, <1>7, <1>8, <1>9 DEF Good

LEMMA FrameProceeds ==
    ASSUME NEW c, Good(c), NEW d, Frame(c, d), c.Step <= d.Step, d.CommitRound = c.CommitRound,
           TicksOK(d), PartsOK(d),
           d.panicked = "inconsistent" => c.panicked = "inconsistent",
           d.Step = RoundStepCommit => c.Step = RoundStepCommit /\ KeepsHeader(c, d)
    PROVE  Proceeds(c, d)
<1>1. c.Round \in Int /\ d.CommitRound <= d.Round
  BY Numbers DEF Good, Frame, RoundsOK
<1>3. CommitOK(d)
  BY Zenon DEF Good, Frame, CommitOK, CommitOf
<1>2. Good(d)
  BY Zenon, <1>1, <1>3, FrameGood
<1> QED
  BY <1>1, <1>2, SameVotesRefl DEF Proceeds, Frame, Later

\* A timeout for the round of the state is scheduled.
LEMMA ScheduledOK ==
    ASSUME NEW c, Good(c), NEW round \in Rounds, NEW step \in TimedSteps,
           NEW d, d.ticker = ScheduleTimeout(c.ticker, timeoutInfo(c.Height, round, step)),
           d.Height = c.Height, d.Round \in Rounds, round <= d.Round, c.Round <= d.Round
    PROVE  d.ticker \in Tickers /\ TicksOK(d)
<1> DEFINE ti == timeoutInfo(c.Height, round, step)
<1>0. c \in States /\ Rounds \subseteq Int
  BY DEF Good, Rounds
<1> /\ c.ticker \in Tickers /\ c.Height \in Nat /\ c.Round \in Int /\ d.Round \in Int /\ round \in Int
  BY Zenon, <1>0, Numbers, FieldTypes
<1>2. ti \in Ticks /\ ti.height = c.Height /\ ti.round = round
  BY Zenon DEF timeoutInfo, Ticks
<1> HIDE DEF ti
<1>3. /\ d.ticker \in Tickers /\ d.ticker.tocks = c.ticker.tocks /\ d.ticker.ti \in {c.ticker.ti, ti}
  BY Zenon, <1>2 DEF ScheduleTimeout, Tickers, ti
<1>4. ASSUME NEW x \in c.ticker.tocks \cup {c.ticker.ti}
      PROVE  x.height < d.Height \/ (x.height = d.Height /\ x.round <= d.Round)
  <2>1. x.height < c.Height \/ (x.height = c.Height /\ x.round <= c.Round)
    BY Zenon DEF Good, TicksOK
  <2>2. x \in Ticks
    BY Zenon DEF Tickers
  <2>3. x.height \in Int /\ x.round \in Int
    BY <2>2 DEF Ticks, Rounds
  <2> QED
    BY <2>1, <2>3
<1> QED
  BY Zenon, <1>2, <1>3, <1>4 DEF TicksOK

\* What the round and the step of the vote have to be for the order of the votes.
LEMMA LaterVote ==
    ASSUME NEW c, Good(c), NEW t \in VoteTypes, NEW v,
           v.height = c.Height, v.round = c.Round, v.type = t,
           c.Step < IF t = "prevote" THEN RoundStepPrevote ELSE RoundStepPrecommit,
           NEW d, d.signed \subseteq c.signed \cup {v}
    PROVE  Later(c, d) /\ \A w \in c.signed : w.height = c.Height /\ w.type = t => w.round < c.Round
<1>0. c \in States
  BY Zenon DEF Good
<1>1. \A w \in c.signed : /\ w.height \in Nat /\ w.round \in Int /\ w.type \in VoteTypes
                          /\ w.height <= c.Height
                          /\ w.height = c.Height => w.round <= c.Round
                          /\ w.height = c.Height /\ w.round = c.Round =>
                                 c.Step >= IF w.type = "prevote" THEN RoundStepPrevote ELSE RoundStepPrecommit
  BY <1>0, OwnVotes DEF Good, SignedOK
<1>2. c.Step \in Int /\ c.Round \in Int /\ c.Height \in Int
  BY <1>0, Numbers
<1> QED
  BY <1>1, <1>2 DEF Later, VoteTypes, RoundStepPrevote, RoundStepPrecommit

\* d is c after its prevote or its precommit, with everything else that stays.
Signs(c, d, type, b) ==
    /\ d \in States
    /\ d.Height = c.Height /\ d.Round = c.Round /\ d.Votes = c.Votes
    /\ d.ValidRound = c.ValidRound /\ d.ValidBlock = c.ValidBlock
    /\ d.proposed = c.proposed /\ d.evpool = c.evpool /\ d.ticker = c.ticker
    /\ d.LastCommit = c.LastCommit /\ d.blockStore = c.blockStore /\ d.CommitRound = c.CommitRound
    /\ d.signed \in {c.signed, c.signed \cup
           {[type |-> type, height |-> c.Height, round |-> c.Round, val |-> Me, block |-> b]}}

\* A prevote for b is safe: it keeps the lock or has a polka since.
Justified(c, b) ==
    b \in Blocks => \/ c.LockedRound = -1 \/ b = c.LockedBlock
                    \/ \E r \in 0 .. c.Round - 1 : c.LockedRound <= r /\ PolkaOf(c, r) = b

LEMMA PrevoteProceeds ==
    ASSUME NEW c, Good(c), c.Step < RoundStepPrevote, NEW b \in Values, Justified(c, b),
           NEW d, Signs(c, d, "prevote", b), d.Step = RoundStepPrevote,
           d.LockedRound = c.LockedRound, d.LockedBlock = c.LockedBlock,
           d.panicked = c.panicked, PartsOK(d)
    PROVE  Proceeds(c, d)
<1> DEFINE v == [type |-> "prevote", height |-> c.Height, round |-> c.Round, val |-> Me, block |-> b]
<1> /\ c \in States /\ d \in States /\ c.Step \in Int /\ c.Round \in Nat /\ c.Height \in Nat
    /\ c.LockedRound \in Int
  BY Zenon, Numbers DEF Good, Signs
<1> /\ v.type = "prevote" /\ v.height = c.Height /\ v.round = c.Round /\ v.block = b
    /\ d.signed \subseteq c.signed \cup {v} /\ c.signed \subseteq d.signed
  BY Zenon DEF Signs
<1> HIDE DEF v
<1>3. Later(c, d) /\ \A w \in c.signed : w.height = c.Height /\ w.type = "prevote" => w.round < c.Round
  BY Zenon, LaterVote DEF VoteTypes
<1> \A r : PolkaOf(d, r) = PolkaOf(c, r)
  BY Zenon DEF Signs, PolkaOf
<1>5. RoundsOK(d) /\ ValidOK(d) /\ ProposedOK(d) /\ LastCommitOK(d) /\ TicksOK(d)
  BY Zenon DEF Good, Signs, RoundsOK, ValidOK, ProposedOK, LastCommitOK, TicksOK
<1>6. LockOK(d)
  BY DEF Good, Signs, LockOK, RoundStepPrecommit, RoundStepPrevote
<1>7. SignedOK(d)
  <2> SUFFICES ASSUME NEW w \in d.signed
               PROVE  /\ w.height <= d.Height /\ (w.height = d.Height => w.round <= d.Round)
                      /\ w.height = d.Height /\ w.round = d.Round =>
                             d.Step >= IF w.type = "prevote" THEN RoundStepPrevote ELSE RoundStepPrecommit
    BY Zenon DEF SignedOK
  <2>1. CASE w = v
    BY <2>1 DEF Signs, RoundStepPrevote
  <2>2. CASE w \in c.signed
    BY <2>2 DEF Good, Signs, SignedOK, RoundStepPrevote, RoundStepPrecommit
  <2> QED
    BY Zenon, <2>1, <2>2
<1> Precommitted(d) = Precommitted(c) /\ Prevoted(d) \subseteq Prevoted(c) \cup {v}
  BY Zenon DEF Signs, Precommitted, Prevoted
<1>9. PrecommitsOK(d)
  BY Zenon DEF Good, PrecommitsOK
<1>10. ASSUME NEW u \in Precommitted(c), NEW w \in Prevoted(d), w.block # u.block, u.round < w.round
       PROVE  \E r \in u.round .. w.round - 1 : PolkaOf(c, r) = w.block
  <2>1. CASE w = v
    <3> u.round \in Nat /\ u.round <= c.LockedRound /\ PolkaOf(c, u.round) = u.block
      BY Zenon, OwnVotes DEF Good, PrecommitsOK, Precommitted
    <3> w.round = c.Round /\ w.block = b /\ b \in Blocks
      BY Zenon, <2>1 DEF Prevoted
    <3>3. CASE b = c.LockedBlock
      <4>1. c.LockedRound < c.Round /\ PolkaOf(c, c.LockedRound) = b
        BY <3>3 DEF Good, LockOK, RoundStepPrecommit, RoundStepPrevote
      <4> QED
        BY <4>1
    <3>4. CASE \E r \in 0 .. c.Round - 1 : c.LockedRound <= r /\ PolkaOf(c, r) = b
      BY <3>4
    <3> QED
      BY <3>3, <3>4 DEF Justified
  <2>2. CASE w \in Prevoted(c)
    BY Zenon, <1>10, <2>2 DEF Good, PrevotesOK
  <2> QED
    BY Zenon, <2>1, <2>2
<1>11. PrevotesOK(d)
  BY <1>10 DEF PrevotesOK
<1>12. EvidenceOK(d)
  BY DEF Good, Signs, EvidenceOK
<1>14. CommitOK(d)
  BY DEF Good, Signs, CommitOK, CommitOf, RoundStepCommit, RoundStepPrevote
<1>13. Good(d)
  BY Zenon, <1>5, <1>6, <1>7, <1>9, <1>11, <1>12, <1>14 DEF Good
<1> QED
  BY <1>3, <1>13, SameVotesRefl DEF Proceeds, Signs, RoundStepCommit, RoundStepPrevote

\* The lock moves to this round's polka for b, or stays with a precommit for nil.
LEMMA PrecommitProceeds ==
    ASSUME NEW c, Good(c), c.Step < RoundStepPrecommit, NEW b \in Values,
           NEW d, Signs(c, d, "precommit", b), d.Step = RoundStepPrecommit,
           \/ b \notin Blocks /\ d.LockedRound = c.LockedRound /\ d.LockedBlock = c.LockedBlock
           \/ /\ b \in Blocks /\ PolkaOf(c, c.Round) = b
              /\ d.LockedRound = c.Round /\ d.LockedBlock = b,
           d.panicked = "inconsistent" => c.panicked = "inconsistent", PartsOK(d)
    PROVE  Proceeds(c, d)
<1> DEFINE v == [type |-> "precommit", height |-> c.Height, round |-> c.Round, val |-> Me, block |-> b]
<1> /\ c \in States /\ d \in States /\ c.Step \in Int /\ c.Round \in Nat /\ c.Height \in Nat
    /\ c.LockedRound \in Int
  BY Zenon, Numbers DEF Good, Signs
<1> /\ v.type = "precommit" /\ v.height = c.Height /\ v.round = c.Round /\ v.block = b
    /\ d.signed \subseteq c.signed \cup {v} /\ c.signed \subseteq d.signed
  BY Zenon DEF Signs
<1> HIDE DEF v
<1>3. Later(c, d)
  BY Zenon, LaterVote DEF VoteTypes
<1> \A r : PolkaOf(d, r) = PolkaOf(c, r)
  BY Zenon DEF Signs, PolkaOf
<1>5. RoundsOK(d) /\ ValidOK(d) /\ ProposedOK(d) /\ LastCommitOK(d) /\ TicksOK(d)
  BY Zenon DEF Good, Signs, RoundsOK, ValidOK, ProposedOK, LastCommitOK, TicksOK
<1>6. LockOK(d) /\ c.LockedRound <= d.LockedRound
  <2> LockOK(c) /\ d.Round = c.Round
    BY Zenon DEF Good, Signs
  <2> CASE b \in Blocks
    <3>1. PolkaOf(d, c.Round) = b /\ d.LockedRound = c.Round /\ d.LockedBlock = b
      BY Zenon
    <3>2. c.LockedRound <= c.Round
      BY Zenon DEF LockOK
    <3> QED
      BY <3>1, <3>2 DEF LockOK, RoundStepPrecommit
  <2>3. CASE b \notin Blocks
    <3>1. d.LockedRound = c.LockedRound /\ d.LockedBlock = c.LockedBlock
      BY Zenon, <2>3
    <3> QED
      BY <3>1 DEF LockOK, RoundStepPrecommit
  <2> QED
    BY Zenon, <2>3
<1>7. SignedOK(d)
  <2> SUFFICES ASSUME NEW w \in d.signed
               PROVE  /\ w.height <= d.Height /\ (w.height = d.Height => w.round <= d.Round)
                      /\ w.height = d.Height /\ w.round = d.Round =>
                             d.Step >= IF w.type = "prevote" THEN RoundStepPrevote ELSE RoundStepPrecommit
    BY Zenon DEF SignedOK
  <2>1. CASE w = v
    BY <2>1 DEF Signs, RoundStepPrecommit
  <2>2. CASE w \in c.signed
    BY <2>2 DEF Good, Signs, SignedOK, RoundStepPrevote, RoundStepPrecommit
  <2> QED
    BY Zenon, <2>1, <2>2
<1> Prevoted(d) = Prevoted(c) /\ Precommitted(d) \subseteq Precommitted(c) \cup {v}
  BY Zenon DEF Signs, Precommitted, Prevoted
<1>9. PrecommitsOK(d)
  <2> SUFFICES ASSUME NEW u \in Precommitted(d)
               PROVE  u.round <= d.LockedRound /\ PolkaOf(c, u.round) = u.block
    BY Zenon DEF PrecommitsOK
  <2>1. CASE u \in Precommitted(c)
    <3>1. u.round <= c.LockedRound /\ PolkaOf(c, u.round) = u.block /\ u.round \in Nat
      BY Zenon, <2>1, OwnVotes DEF Good, PrecommitsOK, Precommitted
    <3>2. d.LockedRound \in Int
      BY Zenon, Numbers
    <3> QED
      BY <1>6, <3>1, <3>2
  <2>2. CASE u = v
    <3>1. b \in Blocks /\ u.round = c.Round /\ u.block = b
      BY Zenon, <2>2 DEF Precommitted
    <3> QED
      BY <3>1
  <2> QED
    BY Zenon, <2>1, <2>2
<1> ASSUME NEW u \in Precommitted(d), NEW w \in Prevoted(c), w.block # u.block, u.round < w.round
    PROVE  \E r \in u.round .. w.round - 1 : PolkaOf(c, r) = w.block
  <2>1. CASE u \in Precommitted(c)
    BY Zenon, <2>1 DEF Good, PrevotesOK
  <2>2. CASE u = v
    <3>1. u.round = c.Round /\ w.round <= c.Round /\ w.round \in Nat
      BY Zenon, <2>2, OwnVotes DEF Good, SignedOK, Prevoted
    <3> QED
      BY <3>1
  <2> QED
    BY Zenon, <2>1, <2>2
<1>11. PrevotesOK(d)
  BY Zenon DEF PrevotesOK
<1>12. EvidenceOK(d)
  BY DEF Good, Signs, EvidenceOK
<1>14. CommitOK(d)
  BY DEF Good, Signs, CommitOK, CommitOf, RoundStepCommit, RoundStepPrecommit
<1>13. Good(d)
  BY Zenon, <1>5, <1>6, <1>7, <1>9, <1>11, <1>12, <1>14 DEF Good
<1> QED
  BY <1>3, <1>13, SameVotesRefl DEF Proceeds, Signs, RoundStepCommit, RoundStepPrecommit

-----------------------------------------------------------------------------
(***************************************************************************)
(* The state functions                                                     *)
(***************************************************************************)

LEMMA OwnVoteOK ==
    ASSUME NEW c \in States, NEW type \in VoteTypes, NEW b \in Values
    PROVE  [type |-> type, height |-> c.Height, round |-> c.Round, val |-> Me, block |-> b] \in OwnVote
BY Numbers, ConstantsAssumption DEF OwnVote, Vote

LEMMA QueuedMessage ==
    ASSUME NEW c \in States, NEW msg \in OwnMessage
    PROVE  sendInternalMessage(c, msg) \in States
<1>1. c.internalMsgQueue \cup {msg} \in QueueT
  BY Zenon, FieldTypes DEF QueueT
<1>2. PICK q \in QueueT : sendInternalMessage(c, msg) = [c EXCEPT !.internalMsgQueue = q]
  BY Zenon, <1>1 DEF sendInternalMessage
<1> QED
  BY <1>2 DEF States

\* signAddVote changes the votes and the queue only.
LEMMA SignAddVote ==
    ASSUME NEW c \in States, NEW type \in VoteTypes, NEW b \in Values, NEW e \in Env,
           NEW d, d = signAddVote(c, type, b, e)
    PROVE  /\ d \in States /\ Signs(c, d, type, b)
           /\ d.Step = c.Step /\ d.LockedRound = c.LockedRound /\ d.LockedBlock = c.LockedBlock
           /\ d.Proposal = c.Proposal /\ d.ProposalBlock = c.ProposalBlock
           /\ d.ProposalBlockParts = c.ProposalBlockParts /\ d.panicked = c.panicked
<1> DEFINE v == [type |-> type, height |-> c.Height, round |-> c.Round, val |-> Me, block |-> b]
<1>1. v \in OwnVote
  BY Zenon, OwnVoteOK
<1> HIDE DEF v
<1>2. CASE ~e.sign
  BY Zenon, <1>2 DEF signAddVote, Signs
<1>3. CASE e.sign
  <2>1. PICK q : q = sendInternalMessage(c, [vote |-> v])
    BY Zenon
  <2>5. d = [q EXCEPT !.signed = @ \cup {v}]
    BY Zenon, <1>3, <2>1 DEF signAddVote, v
  <2>2. [vote |-> v] \in OwnMessage
    BY Zenon, <1>1 DEF OwnMessage
  <2>6. q \in States
    BY Zenon, <2>1, <2>2, QueuedMessage
  <2>7. PICK s \in SignedT : d = [q EXCEPT !.signed = s]
    <3>1. q.signed \cup {v} \in SignedT
      BY Zenon, <1>1, <2>6 DEF States, SignedT
    <3> QED
      BY Zenon, <2>5, <3>1
  <2>3. d \in States
    BY <2>6, <2>7 DEF States
  <2>4. /\ d.Height = c.Height /\ d.Round = c.Round /\ d.Votes = c.Votes
        /\ d.ValidRound = c.ValidRound /\ d.ValidBlock = c.ValidBlock
        /\ d.proposed = c.proposed /\ d.evpool = c.evpool /\ d.ticker = c.ticker
        /\ d.LastCommit = c.LastCommit /\ d.blockStore = c.blockStore /\ d.CommitRound = c.CommitRound
        /\ d.signed = c.signed \cup {v}
        /\ d.Step = c.Step /\ d.LockedRound = c.LockedRound /\ d.LockedBlock = c.LockedBlock
        /\ d.Proposal = c.Proposal /\ d.ProposalBlock = c.ProposalBlock
        /\ d.ProposalBlockParts = c.ProposalBlockParts /\ d.panicked = c.panicked
    BY <2>1, <2>5 DEF States, sendInternalMessage
  <2> QED
    BY Zenon, <2>3, <2>4 DEF Signs, v
<1> QED
  BY Zenon, <1>2, <1>3

\* What a change of the round, the step and the timer leaves alone.
SameData(c, d) ==
    /\ d.Height = c.Height /\ d.Votes = c.Votes
    /\ d.Proposal = c.Proposal /\ d.ProposalBlock = c.ProposalBlock
    /\ d.ProposalBlockParts = c.ProposalBlockParts
    /\ d.LockedRound = c.LockedRound /\ d.LockedBlock = c.LockedBlock
    /\ d.ValidRound = c.ValidRound /\ d.ValidBlock = c.ValidBlock
    /\ d.signed = c.signed /\ d.proposed = c.proposed /\ d.evpool = c.evpool
    /\ d.LastCommit = c.LastCommit /\ d.blockStore = c.blockStore /\ d.CommitRound = c.CommitRound

Stepped(c, d, round, step) ==
    /\ d \in States /\ SameData(c, d) /\ d.Round = round /\ d.Step = step
    /\ d.ticker = c.ticker /\ d.panicked = c.panicked

LEMMA UpdateRoundStep ==
    ASSUME NEW c \in States, NEW round \in Rounds, NEW step \in 1 .. 8
    PROVE  Stepped(c, updateRoundStep(c, round, step), round, step)
<1>1. PICK d : d = updateRoundStep(c, round, step)
  BY Zenon
<1>2. d \in States
  BY Zenon, <1>1 DEF States, updateRoundStep, StepT
<1>3. SameData(c, d)
  BY Zenon, <1>1 DEF States, updateRoundStep, SameData
<1>4. d.Round = round /\ d.Step = step /\ d.ticker = c.ticker /\ d.panicked = c.panicked
  BY Zenon, <1>1 DEF States, updateRoundStep
<1> QED
  BY Zenon, <1>1, <1>2, <1>3, <1>4 DEF Stepped

LEMMA Scheduled ==
    ASSUME NEW c, Good(c), NEW round \in Rounds, round <= c.Round, NEW step \in TimedSteps,
           NEW d, d = scheduleTimeout(c, c.Height, round, step)
    PROVE  /\ d \in States /\ SameData(c, d) /\ d.Round = c.Round /\ d.Step = c.Step
           /\ d.panicked = c.panicked /\ TicksOK(d) /\ Proceeds(c, d)
<1> c \in States
  BY Zenon DEF Good
<1> /\ SameData(c, d) /\ d.Round = c.Round /\ d.Step = c.Step /\ d.panicked = c.panicked
    /\ d.ticker = ScheduleTimeout(c.ticker, timeoutInfo(c.Height, round, step))
  BY Zenon DEF States, scheduleTimeout, SameData
<1>3. c.Round \in Rounds /\ c.Round <= c.Round /\ c.Step <= c.Step
  BY Numbers
<1> d.ticker \in Tickers /\ TicksOK(d)
  BY Zenon, <1>3, ScheduledOK DEF SameData
<1>5. d \in States
  BY Zenon DEF States, scheduleTimeout
<1>6. Frame(c, d) /\ d.CommitRound = c.CommitRound /\ d.ProposalBlockParts = c.ProposalBlockParts
  BY Zenon, <1>5 DEF Frame, SameData
<1>7. PartsOK(d)
  BY Zenon DEF SameData, Good, PartsOK
<1>8. Proceeds(c, d)
  BY Zenon, <1>3, <1>6, <1>7, FrameProceeds DEF KeepsHeader
<1> QED
  BY Zenon, <1>5, <1>8

\* The block of a proposal without a POLRound is not against the lock; a proposal
\* with one has its polka, and the lock is older or for the same block.
LEMMA PrevoteFor ==
    ASSUME NEW c \in States
    PROVE  prevoteFor(c) \in Values /\ Justified(c, prevoteFor(c))
<1>1. CASE prevoteFor(c) = Nil
  BY Zenon, <1>1, NilNoneAssumption DEF Values, Justified
<1>2. CASE prevoteFor(c) # Nil
  <2>1. PICK p : p = c.Proposal
    BY Zenon
  <2>2. PICK b : b = c.ProposalBlock
    BY Zenon
  <2>3. /\ p # None /\ b # None /\ prevoteFor(c) = b
        /\ \/ p.pol = -1 /\ (c.LockedRound = -1 \/ b = c.LockedBlock)
           \/ /\ p.pol >= 0 /\ p.pol < c.Round /\ PolkaOf(c, p.pol) = b
              /\ c.LockedRound <= p.pol \/ b = c.LockedBlock
    BY Zenon, <1>2, <2>1, <2>2 DEF prevoteFor, PolkaOf, Majority, Prevotes
  <2>4. b \in Blocks /\ p \in Proposal
    BY Zenon, <2>1, <2>2, <2>3, FieldTypes
  <2>5. p.pol \in Int /\ c.Round \in Int
    BY <2>4, Numbers DEF Proposal
  <2> QED
    BY <2>3, <2>4, <2>5 DEF Justified, Values
<1> QED
  BY Zenon, <1>1, <1>2

LEMMA RebuildBlock ==
    ASSUME NEW c, Good(c), NEW e \in Env, NEW d, d = rebuildBlock(c, e)
    PROVE  /\ Frame(c, d) /\ d.Step = c.Step /\ d.CommitRound = c.CommitRound
           /\ d.ProposalBlockParts = c.ProposalBlockParts /\ d.panicked = c.panicked
           /\ Proceeds(c, d)
<1> c \in States /\ c.Step <= c.Step
  BY Numbers DEF Good
<1>2. CASE d = c
  BY Zenon, <1>2, ProceedsRefl DEF Frame
<1>3. CASE d # c
  <2>1. PICK b : b = buildProposalBlock(c, c.ProposalBlockParts.header)
    BY Zenon
  <2> config.GossipTransactionKeyOnly /\ c.Proposal # None /\ d = [c EXCEPT !.ProposalBlock = b]
    BY Zenon, <1>3, <2>1 DEF rebuildBlock
  <2>3. c.ProposalBlockParts # None /\ c.ProposalBlockParts \in PartSet
    BY Zenon, FieldTypes DEF Good, PartsOK
  <2>4. b \in Blocks /\ (b = Mixed \/ HasHeader(c.ProposalBlockParts, b))
    BY Zenon, <2>1, <2>3, ConstantsAssumption DEF buildProposalBlock, HasHeader, PartSet
  <2>7. d \in States
    BY <2>4 DEF States, BlockT
  <2>5. /\ Frame(c, d) /\ d.Step = c.Step /\ d.CommitRound = c.CommitRound
        /\ d.Proposal = c.Proposal /\ d.ProposalBlock = b /\ d.ticker = c.ticker
        /\ d.ProposalBlockParts = c.ProposalBlockParts /\ d.panicked = c.panicked
    BY Zenon, <2>7 DEF States, Frame
  <2>6. PartsOK(d) /\ TicksOK(d)
    BY Zenon, <2>3, <2>4, <2>5 DEF PartsOK, TicksOK, Good, Frame
  <2> QED
    BY Zenon, <2>5, <2>6, FrameProceeds DEF KeepsHeader
<1> QED
  BY Zenon, <1>2, <1>3

LEMMA EnterPrevote ==
    ASSUME NEW c, Good(c), NEW round \in Rounds, round <= c.Round, NEW e \in Env
    PROVE  Proceeds(c, enterPrevote(c, round, e))
<1> c.Round \in Int /\ c.Step \in Int /\ round \in Int
  BY Numbers DEF Good, Rounds
<1>2. CASE round < c.Round \/ RoundStepPrevote <= c.Step
  BY <1>2, ProceedsRefl DEF enterPrevote
<1> CASE round = c.Round /\ c.Step < RoundStepPrevote
  <2>1. PICK d : d = rebuildBlock(c, e)
    BY Zenon
  <2>2. PICK b : b = prevoteFor(d)
    BY Zenon
  <2>3. PICK x : x = signAddVote(d, "prevote", b, e)
    BY Zenon
  <2>4. PICK f : f = updateRoundStep(x, round, RoundStepPrevote)
    BY Zenon
  <2>5. enterPrevote(c, round, e) = f
    BY <2>1, <2>2, <2>3, <2>4 DEF enterPrevote, defaultDoPrevote, RoundStepPrevote
  <2> Proceeds(c, d) /\ d.Step = c.Step /\ d.Round = c.Round
    BY <2>1, RebuildBlock DEF Frame
  <2> Good(d) /\ d \in States
    BY Zenon DEF Proceeds, Good
  <2>8. b \in Values /\ Justified(d, b)
    BY Zenon, <2>2, PrevoteFor
  <2> /\ x \in States /\ Signs(d, x, "prevote", b) /\ x.LockedRound = d.LockedRound
      /\ x.LockedBlock = d.LockedBlock /\ x.Proposal = d.Proposal /\ x.ProposalBlock = d.ProposalBlock
      /\ x.ProposalBlockParts = d.ProposalBlockParts /\ x.panicked = d.panicked
    BY <2>3, <2>8, SignAddVote DEF VoteTypes
  <2>14. Stepped(x, f, round, RoundStepPrevote)
    BY Zenon, <2>4, Steps, UpdateRoundStep
  <2> /\ f \in States /\ SameData(x, f) /\ f.Round = round /\ f.Step = RoundStepPrevote
      /\ f.ticker = x.ticker /\ f.panicked = x.panicked
    BY Zenon, <2>14 DEF Stepped
  <2>11. Signs(d, f, "prevote", b)
    BY Zenon DEF Signs, SameData
  <2>12. PartsOK(f)
    BY Zenon DEF Good, PartsOK, SameData
  <2>13. Proceeds(d, f)
    BY Zenon, <2>8, <2>11, <2>12, PrevoteProceeds DEF SameData
  <2> QED
    BY Zenon, <2>5, <2>13, ProceedsTrans
<1> QED
  BY <1>2 DEF RoundStepPrevote

LEMMA EnterPrevoteWait ==
    ASSUME NEW c, Good(c), NEW round \in Rounds, round <= c.Round,
           HasTwoThirdsAny(Prevotes(c.Votes, round))
    PROVE  Proceeds(c, enterPrevoteWait(c, round))
<1> c.Round \in Int /\ c.Step \in Int /\ round \in Int /\ c \in States
  BY Numbers DEF Good, Rounds
<1>2. CASE round < c.Round \/ RoundStepPrevoteWait <= c.Step
  BY <1>2, ProceedsRefl DEF enterPrevoteWait
<1> CASE round = c.Round /\ c.Step < RoundStepPrevoteWait
  <2>1. PICK d : d = scheduleTimeout(c, c.Height, round, RoundStepPrevoteWait)
    BY Zenon
  <2>2. PICK f : f = updateRoundStep(d, round, RoundStepPrevoteWait)
    BY Zenon
  <2>3. enterPrevoteWait(c, round) = f
    BY <2>1, <2>2 DEF enterPrevoteWait, RoundStepPrevoteWait
  <2>4. RoundStepPrevoteWait \in TimedSteps /\ RoundStepPrevoteWait \in 1 .. 8
    BY Zenon, Steps DEF TimedSteps
  <2> /\ d \in States /\ SameData(c, d) /\ d.Round = c.Round /\ d.Step = c.Step
      /\ d.panicked = c.panicked /\ TicksOK(d)
    BY <2>1, <2>4, Scheduled
  <2>10. Stepped(d, f, round, RoundStepPrevoteWait)
    BY Zenon, <2>2, <2>4, UpdateRoundStep
  <2> /\ f \in States /\ SameData(d, f) /\ f.Round = round /\ f.Step = RoundStepPrevoteWait
      /\ f.ticker = d.ticker /\ f.panicked = d.panicked
    BY Zenon, <2>10 DEF Stepped
  <2>7. Frame(c, f) /\ f.CommitRound = c.CommitRound /\ f.panicked = c.panicked
    BY Zenon DEF Frame, SameData
  <2>8. TicksOK(f) /\ PartsOK(f)
    BY Zenon DEF Good, TicksOK, PartsOK, SameData
  <2>9. c.Step <= f.Step /\ f.Step # RoundStepCommit
    BY DEF RoundStepPrevoteWait, RoundStepCommit
  <2> QED
    BY Zenon, <2>3, <2>7, <2>8, <2>9, FrameProceeds
<1> QED
  BY <1>2 DEF RoundStepPrevoteWait

LEMMA EnterPrecommitWait ==
    ASSUME NEW c, Good(c), NEW round \in Rounds, round <= c.Round,
           HasTwoThirdsAny(Precommits(c.Votes, round))
    PROVE  Proceeds(c, enterPrecommitWait(c, round))
<1>1. CASE enterPrecommitWait(c, round) = c
  BY Zenon, <1>1, ProceedsRefl
<1>2. CASE enterPrecommitWait(c, round) # c
  <2>1. PICK d : d = scheduleTimeout(c, c.Height, round, RoundStepPrecommitWait)
    BY Zenon
  <2>2. PICK f : f = [d EXCEPT !.TriggeredTimeoutPrecommit = TRUE]
    BY Zenon
  <2>3. enterPrecommitWait(c, round) = f
    BY Zenon, <1>2, <2>1, <2>2 DEF enterPrecommitWait
  <2>4. RoundStepPrecommitWait \in TimedSteps
    BY Zenon DEF TimedSteps
  <2> /\ d \in States /\ d.Step \in Int /\ Proceeds(c, d)
    BY Zenon, <2>1, <2>4, Scheduled, Numbers
  <2>9. f \in States
    BY Zenon, <2>2 DEF States, FlagT
  <2> /\ Frame(d, f) /\ f.CommitRound = d.CommitRound /\ f.panicked = d.panicked
      /\ f.Step = d.Step /\ f.ticker = d.ticker /\ f.Proposal = d.Proposal
      /\ f.ProposalBlock = d.ProposalBlock /\ f.ProposalBlockParts = d.ProposalBlockParts
    BY <2>2, <2>9 DEF States, Frame
  <2>10. Good(d) /\ d.Height = f.Height /\ d.Round = f.Round
    BY Zenon DEF Proceeds, Frame
  <2>7. TicksOK(f) /\ PartsOK(f)
    BY Zenon, <2>10 DEF Good, TicksOK, PartsOK
  <2>8. Proceeds(d, f)
    BY <2>7, <2>10, FrameProceeds DEF KeepsHeader
  <2> QED
    BY Zenon, <2>3, <2>8, ProceedsTrans
<1> QED
  BY Zenon, <1>1, <1>2

\* m is c with what enterPrecommit changes before it signs a precommit for b.
Prepared(c, m, b) ==
    /\ m \in States /\ m.Height = c.Height /\ m.Round = c.Round /\ m.Votes = c.Votes
    /\ m.ValidRound = c.ValidRound /\ m.ValidBlock = c.ValidBlock
    /\ m.proposed = c.proposed /\ m.evpool = c.evpool /\ m.ticker = c.ticker
    /\ m.LastCommit = c.LastCommit /\ m.blockStore = c.blockStore /\ m.CommitRound = c.CommitRound
    /\ m.signed = c.signed /\ (m.panicked = "inconsistent" => c.panicked = "inconsistent") /\ PartsOK(m)
    /\ \/ b \notin Blocks /\ m.LockedRound = c.LockedRound /\ m.LockedBlock = c.LockedBlock
       \/ /\ b \in Blocks /\ PolkaOf(c, c.Round) = b
          /\ m.LockedRound = c.Round /\ m.LockedBlock = b

LEMMA PrecommitSigned ==
    ASSUME NEW c, Good(c), c.Step < RoundStepPrecommit, NEW e \in Env, NEW b \in Values,
           NEW m, Prepared(c, m, b),
           NEW x, x = signAddVote(m, "precommit", b, e) \/ (x = m /\ b \notin Blocks)
    PROVE  Proceeds(c, updateRoundStep(x, c.Round, RoundStepPrecommit))
<1>1. c.Round \in Rounds
  BY Zenon, Numbers DEF Good
<1> /\ x \in States /\ Signs(m, x, "precommit", b)
    /\ x.LockedRound = m.LockedRound /\ x.LockedBlock = m.LockedBlock
    /\ x.Proposal = m.Proposal /\ x.ProposalBlock = m.ProposalBlock
    /\ x.ProposalBlockParts = m.ProposalBlockParts /\ x.panicked = m.panicked
  <2>1. m \in States
    BY Zenon DEF Prepared
  <2>2. CASE x = signAddVote(m, "precommit", b, e)
    BY <2>1, <2>2, SignAddVote DEF VoteTypes
  <2>3. CASE x = m
    BY Zenon, <2>1, <2>3 DEF Signs
  <2> QED
    BY Zenon, <2>2, <2>3
<1>3. PICK f : f = updateRoundStep(x, c.Round, RoundStepPrecommit)
  BY Zenon
<1>8. Stepped(x, f, c.Round, RoundStepPrecommit)
  BY Zenon, <1>1, <1>3, Steps, UpdateRoundStep
<1> /\ f \in States /\ SameData(x, f) /\ f.Round = c.Round /\ f.Step = RoundStepPrecommit
    /\ f.ticker = x.ticker /\ f.panicked = x.panicked
  BY Zenon, <1>8 DEF Stepped
<1>5. Signs(c, f, "precommit", b)
  BY Zenon DEF Signs, SameData, Prepared
<1>6. PartsOK(f)
  BY Zenon DEF PartsOK, SameData, Prepared
<1>7. /\ f.panicked = "inconsistent" => c.panicked = "inconsistent"
      /\ \/ b \notin Blocks /\ f.LockedRound = c.LockedRound /\ f.LockedBlock = c.LockedBlock
         \/ /\ b \in Blocks /\ PolkaOf(c, c.Round) = b
            /\ f.LockedRound = c.Round /\ f.LockedBlock = b
  BY Zenon DEF SameData, Prepared
<1> QED
  BY Zenon, <1>3, <1>5, <1>6, <1>7, PrecommitProceeds

\* The lock moves to the polka of the round or stays, and POLRound knows the polka.
LEMMA LockAndPrecommit ==
    ASSUME VoteLaws, NEW c, Good(c), c.Step < RoundStepPrecommit, NEW e \in Env
    PROVE  Proceeds(c, updateRoundStep(lockAndPrecommit(c, c.Round, e), c.Round, RoundStepPrecommit))
<1>1. PICK x : x = lockAndPrecommit(c, c.Round, e)
  BY Zenon
<1>2. PICK maj : maj = TwoThirdsMajority(Prevotes(c.Votes, c.Round))
  BY Zenon
<1> c \in States /\ VotesOK(c.Votes) /\ c.Round \in Rounds /\ c.Round \in Nat
  BY Zenon, Numbers DEF Good, RoundsOK
<1> maj = PolkaOf(c, c.Round) /\ maj = Majority(c.Votes, "prevote", c.Round) /\ maj \in Values \cup {None}
  BY <1>2 DEF VoteLaws, MajorityLaw, PolkaOf, Majority, Prevotes, VoteTypes
<1> Nil \in Values /\ Nil \notin Blocks /\ None \notin Blocks /\ None # Nil
  BY Zenon, NilNoneAssumption DEF Values
<1>6. Prepared(c, c, Nil)
  BY Zenon DEF Prepared, Good
<1>7. CASE x = signAddVote(c, "precommit", Nil, e)
  BY Zenon, <1>1, <1>6, <1>7, PrecommitSigned
<1> CASE maj \in Blocks /\ c.LockedBlock = maj /\ x = signAddVote([c EXCEPT !.LockedRound = c.Round], "precommit", maj, e)
  <2>1. PICK m : m = [c EXCEPT !.LockedRound = c.Round]
    BY Zenon
  <2>2. c.Round \in -1 .. MaxRound
    BY DEF Rounds
  <2>3. /\ m.Height = c.Height /\ m.Round = c.Round /\ m.Votes = c.Votes
        /\ m.Proposal = c.Proposal /\ m.ProposalBlock = c.ProposalBlock
        /\ m.ProposalBlockParts = c.ProposalBlockParts
        /\ m.ValidRound = c.ValidRound /\ m.ValidBlock = c.ValidBlock
        /\ m.proposed = c.proposed /\ m.evpool = c.evpool /\ m.ticker = c.ticker
        /\ m.LastCommit = c.LastCommit /\ m.blockStore = c.blockStore /\ m.CommitRound = c.CommitRound
        /\ m.signed = c.signed /\ m.panicked = c.panicked
        /\ m.LockedRound = c.Round /\ m.LockedBlock = c.LockedBlock
    BY Zenon, <2>1 DEF States
  <2>4. m \in States
    BY Zenon, <2>1, <2>2 DEF States, RoundT
  <2>5. PartsOK(m)
    BY Zenon, <2>3 DEF Good, PartsOK
  <2>6. Prepared(c, m, maj)
    BY Zenon, <2>3, <2>4, <2>5 DEF Prepared
  <2>7. maj \in Values
    BY Zenon DEF Values
  <2> QED
    BY Zenon, <1>1, <2>1, <2>6, <2>7, PrecommitSigned
<1> CASE /\ maj \in Blocks /\ c.ProposalBlock = maj
         /\ x = signAddVote([c EXCEPT !.LockedRound = c.Round, !.LockedBlock = maj], "precommit", maj, e)
  <2>1. PICK m : m = [c EXCEPT !.LockedRound = c.Round, !.LockedBlock = maj]
    BY Zenon
  <2>2. c.Round \in -1 .. MaxRound
    BY DEF Rounds
  <2>3. /\ m.Height = c.Height /\ m.Round = c.Round /\ m.Votes = c.Votes
        /\ m.Proposal = c.Proposal /\ m.ProposalBlock = c.ProposalBlock
        /\ m.ProposalBlockParts = c.ProposalBlockParts
        /\ m.ValidRound = c.ValidRound /\ m.ValidBlock = c.ValidBlock
        /\ m.proposed = c.proposed /\ m.evpool = c.evpool /\ m.ticker = c.ticker
        /\ m.LastCommit = c.LastCommit /\ m.blockStore = c.blockStore /\ m.CommitRound = c.CommitRound
        /\ m.signed = c.signed /\ m.panicked = c.panicked
        /\ m.LockedRound = c.Round /\ m.LockedBlock = maj
    BY Zenon, <2>1 DEF States
  <2>4. m \in States
    BY Zenon, <2>1, <2>2 DEF States, RoundT, BlockT
  <2>5. PartsOK(m)
    BY Zenon, <2>3 DEF Good, PartsOK
  <2>6. Prepared(c, m, maj)
    BY Zenon, <2>3, <2>4, <2>5 DEF Prepared
  <2>7. maj \in Values
    BY Zenon DEF Values
  <2> QED
    BY Zenon, <1>1, <2>1, <2>6, <2>7, PrecommitSigned
<1> CASE x = panic(c, "invalidBlock")
  <2>5. x \in States
    BY Zenon DEF States, panic, PanicT
  <2>2. /\ x.Height = c.Height /\ x.Round = c.Round /\ x.Votes = c.Votes
        /\ x.Proposal = c.Proposal /\ x.ProposalBlock = c.ProposalBlock
        /\ x.ProposalBlockParts = c.ProposalBlockParts
        /\ x.ValidRound = c.ValidRound /\ x.ValidBlock = c.ValidBlock
        /\ x.proposed = c.proposed /\ x.evpool = c.evpool /\ x.ticker = c.ticker
        /\ x.LastCommit = c.LastCommit /\ x.blockStore = c.blockStore /\ x.CommitRound = c.CommitRound
        /\ x.signed = c.signed /\ x.LockedRound = c.LockedRound /\ x.LockedBlock = c.LockedBlock
        /\ x.panicked = "invalidBlock"
    BY Zenon DEF States, panic
  <2>3. PartsOK(x)
    BY Zenon, <2>2 DEF Good, PartsOK
  <2>4. Prepared(c, x, Nil)
    BY Zenon, <2>2, <2>3, <2>5 DEF Prepared
  <2> QED
    BY Zenon, <1>1, <2>4, PrecommitSigned
<1> CASE /\ maj \in Blocks
         /\ x = signAddVote([c EXCEPT !.ProposalBlock = None,
                                      !.ProposalBlockParts = NewPartSetFromHeader(maj)], "precommit", Nil, e)
  <2>1. PICK m : m = [c EXCEPT !.ProposalBlock = None, !.ProposalBlockParts = NewPartSetFromHeader(maj)]
    BY Zenon
  <2>2. NewPartSetFromHeader(maj) \in PartSet
    BY Zenon DEF NewPartSetFromHeader, PartSet
  <2>3. /\ m.Height = c.Height /\ m.Round = c.Round /\ m.Votes = c.Votes
        /\ m.ProposalBlock = None /\ m.ProposalBlockParts = NewPartSetFromHeader(maj)
        /\ m.ValidRound = c.ValidRound /\ m.ValidBlock = c.ValidBlock
        /\ m.proposed = c.proposed /\ m.evpool = c.evpool /\ m.ticker = c.ticker
        /\ m.LastCommit = c.LastCommit /\ m.blockStore = c.blockStore /\ m.CommitRound = c.CommitRound
        /\ m.signed = c.signed /\ m.panicked = c.panicked
        /\ m.LockedRound = c.LockedRound /\ m.LockedBlock = c.LockedBlock
    BY Zenon, <2>1 DEF States
  <2>4. m \in States
    BY Zenon, <2>1, <2>2 DEF States, BlockT, PartsT
  <2>5. PartsOK(m)
    BY Zenon, <2>2, <2>3, NoProposalAssumption DEF PartsOK
  <2>6. Prepared(c, m, Nil)
    BY Zenon, <2>3, <2>4, <2>5 DEF Prepared
  <2> QED
    BY Zenon, <1>1, <2>1, <2>6, PrecommitSigned
<1>12. maj # None => ~(POLRound(c.Votes) < c.Round)
  <2>1. c.Round \in 0 .. c.Votes.round
    BY TrackedRound DEF Good, RoundsOK
  <2> QED
    BY <2>1 DEF VoteLaws, POLRoundLaw
<1>13. maj \in Blocks \/ maj = Nil \/ maj = None
  BY Zenon DEF Values
<1> QED
  BY Zenon, <1>1, <1>2, <1>7, <1>12, <1>13 DEF lockAndPrecommit

LEMMA EnterPrecommit ==
    ASSUME VoteLaws, NEW c, Good(c), NEW round \in Rounds, round <= c.Round, NEW e \in Env
    PROVE  Proceeds(c, enterPrecommit(c, round, e))
<1> c.Round \in Int /\ c.Step \in Int /\ round \in Int
  BY Numbers DEF Good, Rounds
<1>2. CASE round < c.Round \/ RoundStepPrecommit <= c.Step
  BY <1>2, ProceedsRefl DEF enterPrecommit
<1> CASE round = c.Round /\ c.Step < RoundStepPrecommit
  <2>1. enterPrecommit(c, round, e) = updateRoundStep(lockAndPrecommit(c, c.Round, e), c.Round, RoundStepPrecommit)
    BY DEF enterPrecommit, RoundStepPrecommit
  <2> QED
    BY Zenon, <2>1, LockAndPrecommit
<1> QED
  BY <1>2 DEF RoundStepPrecommit

\* The round stays and the step goes on.
LEMMA NextStep ==
    ASSUME NEW c, Good(c), NEW step \in 1 .. 8, c.Step <= step, step # RoundStepCommit
    PROVE  LET d == updateRoundStep(c, c.Round, step) IN Proceeds(c, d) /\ d.Round = c.Round
<1>1. PICK d : d = updateRoundStep(c, c.Round, step)
  BY Zenon
<1>2. c \in States /\ c.Round \in Rounds
  BY Zenon, Numbers DEF Good
<1>3. Stepped(c, d, c.Round, step)
  BY Zenon, <1>1, <1>2, UpdateRoundStep
<1>4. Frame(c, d) /\ d.CommitRound = c.CommitRound /\ d.panicked = c.panicked /\ d.Step = step
  BY Zenon, <1>3 DEF Stepped, Frame, SameData
<1>5. TicksOK(d) /\ PartsOK(d)
  BY Zenon, <1>3 DEF Stepped, SameData, Good, TicksOK, PartsOK
<1>6. Proceeds(c, d)
  BY Zenon, <1>4, <1>5, FrameProceeds
<1> QED
  BY Zenon, <1>1, <1>4, <1>6 DEF Frame

\* A proposal with a POLRound is for the valid block, which has its polka.
LEMMA DecideProposal ==
    ASSUME NEW c, Good(c), NEW round \in Rounds, NEW e \in Env
    PROVE  LET d == defaultDecideProposal(c, round, e)
           IN  Proceeds(c, d) /\ d.Round = c.Round /\ d.Step = c.Step
<1>1. PICK d : d = defaultDecideProposal(c, round, e)
  BY Zenon
<1> c \in States /\ c.Height \in Nat /\ c.ValidRound \in -1 .. MaxRound /\ c.Step <= c.Step
  BY Numbers DEF Good
<1>3. PICK b : b = IF c.ValidBlock # None THEN c.ValidBlock
                   ELSE IF c.Height > 1 /\ TwoThirdsMajority(c.LastCommit) = None THEN None
                   ELSE e.block
  BY Zenon
<1>4. CASE d = c
  BY Zenon, <1>1, <1>4, ProceedsRefl
<1>5. CASE d # c
  <2>1. PICK p : p = [height |-> c.Height, round |-> round, block |-> b, pol |-> c.ValidRound,
                      timestamp |-> BlockTime[b], timely |-> TRUE]
    BY Zenon
  <2>2. PICK x : x = sendInternalMessage(c, [proposal |-> p])
    BY Zenon
  <2>3. PICK y : y = sendInternalMessage(x, [part |-> b, height |-> c.Height])
    BY Zenon
  <2> b # None /\ d = [y EXCEPT !.proposed = @ \cup {p}]
    BY Zenon, <1>1, <1>3, <1>5, <2>1, <2>2, <2>3 DEF defaultDecideProposal
  <2>5. c.ValidBlock \in Blocks \cup {None} /\ e.block \in Blocks \cup {None}
    BY Zenon, FieldTypes DEF Env
  <2>6. b \in Blocks
    BY Zenon, <1>3, <2>5
  <2> p \in Proposal /\ p.height = c.Height /\ p.pol = c.ValidRound /\ p.block = b
    BY Zenon, <2>1, <2>6, ConstantsAssumption DEF Proposal
  <2>8. [proposal |-> p] \in OwnMessage /\ [part |-> b, height |-> c.Height] \in OwnMessage
    BY Zenon, <2>6 DEF OwnMessage
  <2>9. x \in States
    BY Zenon, <2>2, <2>8, QueuedMessage
  <2> y \in States
    BY Zenon, <2>3, <2>8, <2>9, QueuedMessage
  <2>11. PICK P \in ProposedT : d = [y EXCEPT !.proposed = P]
    <3>1. y.proposed \cup {p} \in ProposedT
      BY Zenon, FieldTypes DEF ProposedT
    <3> QED
      BY Zenon, <3>1
  <2>12. d \in States
    BY Zenon, <2>11 DEF States
  <2> SameData(c, x) /\ x.Round = c.Round /\ x.Step = c.Step /\ x.ticker = c.ticker /\ x.panicked = c.panicked
    BY Zenon, <2>2 DEF States, sendInternalMessage, SameData
  <2> SameData(x, y) /\ y.Round = x.Round /\ y.Step = x.Step /\ y.ticker = x.ticker /\ y.panicked = x.panicked
    BY <2>3, <2>9 DEF States, sendInternalMessage, SameData
  <2> /\ d.Height = y.Height /\ d.Votes = y.Votes /\ d.Round = y.Round /\ d.Step = y.Step
      /\ d.Proposal = y.Proposal /\ d.ProposalBlock = y.ProposalBlock
      /\ d.ProposalBlockParts = y.ProposalBlockParts
      /\ d.LockedRound = y.LockedRound /\ d.LockedBlock = y.LockedBlock
      /\ d.ValidRound = y.ValidRound /\ d.ValidBlock = y.ValidBlock
      /\ d.signed = y.signed /\ d.proposed = y.proposed \cup {p} /\ d.evpool = y.evpool
      /\ d.LastCommit = y.LastCommit /\ d.blockStore = y.blockStore /\ d.CommitRound = y.CommitRound
      /\ d.ticker = y.ticker /\ d.panicked = y.panicked
    BY Zenon DEF States
  <2>16. d.proposed = c.proposed \cup {p} /\ d.Height = c.Height /\ \A r : PolkaOf(d, r) = PolkaOf(c, r)
    BY Zenon DEF SameData, PolkaOf
  <2>17. c.ValidRound >= 0 => PolkaOf(c, c.ValidRound) = b
    BY <1>3, NilNoneAssumption DEF Good, ValidOK
  <2>18. ProposedOK(d)
    <3>1. ProposedOK(c)
      BY Zenon DEF Good
    <3>2. p.height = c.Height /\ p.pol = c.ValidRound /\ p.block = b /\ c.Height <= c.Height
      BY Numbers
    <3>3. ASSUME NEW q \in d.proposed
          PROVE  q.height <= d.Height /\ (q.height = d.Height /\ q.pol >= 0 => PolkaOf(d, q.pol) = q.block)
      <4>1. CASE q \in c.proposed
        BY Zenon, <2>16, <3>1, <4>1 DEF ProposedOK
      <4>2. CASE q = p
        BY Zenon, <2>16, <2>17, <3>2, <4>2
      <4> QED
        BY Zenon, <2>16, <3>3, <4>1, <4>2
    <3> QED
      BY Zenon, <3>3 DEF ProposedOK
  <2>19. /\ Frame(c, d) /\ d.CommitRound = c.CommitRound /\ d.panicked = c.panicked
         /\ d.Step = c.Step /\ d.Round = c.Round
    BY <2>12, <2>18 DEF Frame, SameData
  <2>22. /\ d.Proposal = c.Proposal /\ d.ProposalBlock = c.ProposalBlock /\ d.Round = c.Round
         /\ d.ProposalBlockParts = c.ProposalBlockParts /\ d.ticker = c.ticker
    BY Zenon DEF SameData
  <2>20. TicksOK(d) /\ PartsOK(d)
    BY Zenon, <2>16, <2>22 DEF Good, TicksOK, PartsOK
  <2>21. Proceeds(c, d)
    BY Zenon, <2>19, <2>20, <2>22, FrameProceeds DEF KeepsHeader
  <2> QED
    BY Zenon, <1>1, <2>19, <2>21
<1> QED
  BY Zenon, <1>4, <1>5

LEMMA EnterPropose ==
    ASSUME NEW c, Good(c), NEW round \in Rounds, round <= c.Round, NEW e \in Env
    PROVE  Proceeds(c, enterPropose(c, round, e))
<1> c.Round \in Int /\ c.Step \in Int /\ round \in Int /\ c.Round \in Rounds
  BY Numbers DEF Good, Rounds
<1>2. CASE round < c.Round \/ RoundStepPropose <= c.Step
  BY <1>2, ProceedsRefl DEF enterPropose
<1> CASE round = c.Round /\ c.Step < RoundStepPropose
  <2>1. PICK w : w = scheduleTimeout(c, c.Height, round, RoundStepNewRound)
    BY Zenon
  <2>2. PICK t : t = scheduleTimeout(c, c.Height, round, RoundStepPropose)
    BY Zenon
  <2>3. PICK d : d = IF isProposer(c) THEN defaultDecideProposal(t, round, e) ELSE t
    BY Zenon
  <2>4. PICK n : n = updateRoundStep(d, round, RoundStepPropose)
    BY Zenon
  <2>5. RoundStepNewRound \in TimedSteps /\ RoundStepPropose \in TimedSteps
    BY Zenon DEF TimedSteps
  <2>6. Proceeds(c, w)
    BY Zenon, <2>1, <2>5, Scheduled
  <2> Proceeds(c, t) /\ t.Round = c.Round /\ t.Step = c.Step
    BY <2>2, <2>5, Scheduled
  <2> Proceeds(t, d) /\ d.Round = t.Round /\ d.Step = t.Step
    <3>1. Good(t)
      BY Zenon DEF Proceeds
    <3>2. CASE isProposer(c)
      BY Zenon, <2>3, <3>1, <3>2, DecideProposal
    <3>3. CASE ~isProposer(c)
      BY Zenon, <2>3, <3>1, <3>3, ProceedsRefl
    <3> QED
      BY Zenon, <3>2, <3>3
  <2>9. Proceeds(d, n) /\ n.Round = c.Round
    <3>1. Good(d)
      BY Zenon DEF Proceeds
    <3>2. /\ n = updateRoundStep(d, d.Round, RoundStepPropose) /\ d.Step <= RoundStepPropose
          /\ RoundStepPropose # RoundStepCommit
      BY <2>4 DEF RoundStepPropose, RoundStepCommit
    <3> QED
      BY Zenon, <3>1, <3>2, Steps, NextStep
  <2>10. Proceeds(c, n) /\ Good(n)
    BY Zenon, <2>9, ProceedsTrans DEF Proceeds
  <2>11. Proceeds(c, enterPrevote(n, round, e))
    BY Zenon, <2>9, <2>10, EnterPrevote, ProceedsTrans
  <2>12. enterPropose(c, round, e) \in {c, w, n, enterPrevote(n, round, e)}
    BY Zenon, <2>1, <2>2, <2>3, <2>4 DEF enterPropose
  <2> QED
    BY Zenon, <2>6, <2>10, <2>11, <2>12, ProceedsRefl
<1> QED
  BY <1>2 DEF RoundStepPropose

\* d is c after the assignments of enterNewRound.
Entered(c, d, round) ==
    /\ d.Height = c.Height /\ d.Round = round /\ d.Step = RoundStepNewRound
    /\ d.Votes = SetRound(c.Votes, round + 1)
    /\ \/ /\ d.Proposal = c.Proposal /\ d.ProposalBlock = c.ProposalBlock
          /\ d.ProposalBlockParts = c.ProposalBlockParts
       \/ d.Proposal = None /\ d.ProposalBlock = None /\ d.ProposalBlockParts = None
    /\ d.LockedRound = c.LockedRound /\ d.LockedBlock = c.LockedBlock
    /\ d.ValidRound = c.ValidRound /\ d.ValidBlock = c.ValidBlock
    /\ d.signed = c.signed /\ d.proposed = c.proposed /\ d.evpool = c.evpool
    /\ d.LastCommit = c.LastCommit /\ d.blockStore = c.blockStore /\ d.CommitRound = c.CommitRound
    /\ d.ticker = c.ticker /\ d.panicked = c.panicked

\* The evidence is complete while no vote is recorded.
LEMMA SameEvidence ==
    ASSUME NEW c, EvidenceOK(c), NEW d, d.evpool = c.evpool, d.Height = c.Height,
           \A t \in VoteTypes, r \in Rounds, v \in Validators, b \in Values :
               Voted(d.Votes, t, r, v, b) => Voted(c.Votes, t, r, v, b)
    PROVE  EvidenceOK(d)
<1> SUFFICES ASSUME NEW t \in VoteTypes, NEW r \in Rounds, NEW v \in Validators \ {Me},
                    NEW a \in Values, NEW b \in Values,
                    a # b, Voted(d.Votes, t, r, v, a), Voted(d.Votes, t, r, v, b)
             PROVE  \E x \in c.evpool : x.val = v /\ x.type = t /\ x.height = c.Height /\ x.round = r
  BY DEF EvidenceOK
<1>1. Voted(c.Votes, t, r, v, a) /\ Voted(c.Votes, t, r, v, b)
  OBVIOUS
<1> QED
  BY <1>1 DEF EvidenceOK

LEMMA EnteredProceeds ==
    ASSUME VoteLaws, NEW c, Good(c), NEW round \in Rounds,
           c.Round < round \/ (c.Round = round /\ c.Step = RoundStepNewHeight),
           NEW d, d \in States, Entered(c, d, round)
    PROVE  Proceeds(c, d)
<1> /\ c \in States /\ c.Round \in Nat /\ round \in Nat /\ c.Step \in Int /\ c.Height \in Nat
    /\ c.LockedRound \in Int /\ c.CommitRound \in Int
  BY Numbers DEF Good, Rounds
<1> /\ VotesOK(d.Votes) /\ d.Votes.round = round + 1 /\ SameVotes(c.Votes, d.Votes)
  <2>1. VotesOK(c.Votes) /\ c.Votes.round <= round + 1 /\ round + 1 \in 0 .. MaxRound + 1
    <3>1. RoundsOK(c) /\ round \in 0 .. MaxRound
      BY Zenon DEF Good, Rounds
    <3> QED
      BY <3>1, MaxRoundAssumption DEF RoundsOK
  <2> QED
    BY <2>1 DEF VoteLaws, SetRoundLaw, Entered
<1> \A r \in Int : PolkaOf(d, r) = PolkaOf(c, r) /\ CommitOf(d, r) = CommitOf(c, r)
  BY Zenon, SamePolkas
<1> d.Height = c.Height /\ d.Round = round /\ c.Round <= d.Round /\ d.signed = c.signed
  BY DEF Entered
<1>5. RoundsOK(d)
  BY DEF Good, RoundsOK, Entered
<1>6. LockOK(d)
  BY DEF Good, LockOK, Entered, RoundStepPrecommit, RoundStepNewHeight
<1>7. ValidOK(d)
  <2>1. c.ValidRound \in Int
    BY Zenon, Numbers
  <2> QED
    BY Zenon, <2>1 DEF Good, ValidOK, Entered
<1>8. SignedOK(d)
  <2> SUFFICES ASSUME NEW w \in d.signed
               PROVE  /\ w.height <= d.Height /\ (w.height = d.Height => w.round <= d.Round)
                      /\ w.height = d.Height /\ w.round = d.Round =>
                             d.Step >= IF w.type = "prevote" THEN RoundStepPrevote ELSE RoundStepPrecommit
    BY Zenon DEF SignedOK
  <2>1. w.height <= c.Height /\ (w.height = c.Height => w.round <= c.Round)
    BY Zenon DEF Good, SignedOK
  <2>2. w.round \in Nat
    BY Zenon, OwnVotes
  <2>3. ~(w.height = c.Height /\ w.round = round)
    <3>1. CASE c.Round < round
      BY <2>1, <2>2, <3>1
    <3>2. CASE c.Round = round /\ c.Step = RoundStepNewHeight
      BY <3>2 DEF Good, SignedOK, RoundStepNewHeight, RoundStepPrevote, RoundStepPrecommit
    <3> QED
      BY Zenon, <3>1, <3>2
  <2> QED
    BY <2>1, <2>2, <2>3
<1>9. Precommitted(d) = Precommitted(c) /\ Prevoted(d) = Prevoted(c)
  BY Zenon DEF Precommitted, Prevoted
<1>10. PrecommitsOK(d)
  <2>1. \A v \in Precommitted(c) : v.round \in Int
    BY OwnVotes DEF Precommitted
  <2>2. PrecommitsOK(c) /\ d.LockedRound = c.LockedRound
    BY Zenon DEF Good, Entered
  <2> QED
    BY Zenon, <1>9, <2>1, <2>2 DEF PrecommitsOK
<1>11. PrevotesOK(d)
  <2> SUFFICES ASSUME NEW v \in Precommitted(c), NEW w \in Prevoted(c), w.block # v.block, v.round < w.round
               PROVE  \E r \in v.round .. w.round - 1 : PolkaOf(d, r) = w.block
    BY Zenon, <1>9 DEF PrevotesOK
  <2>1. PICK r \in v.round .. w.round - 1 : PolkaOf(c, r) = w.block
    BY Zenon DEF Good, PrevotesOK
  <2>2. v.round \in Int /\ w.round \in Int
    BY OwnVotes DEF Precommitted, Prevoted
  <2> QED
    BY <2>1, <2>2
<1>12. ProposedOK(d)
  <2>1. \A p \in c.proposed : p.pol \in Int
    BY FieldTypes DEF Proposal
  <2>2. d.proposed = c.proposed /\ ProposedOK(c)
    BY Zenon DEF Good, Entered
  <2> QED
    BY Zenon, <2>1, <2>2 DEF ProposedOK
<1>13. TicksOK(d)
  <2>1. \A x \in c.ticker.tocks \cup {c.ticker.ti} : x.round \in Int
    BY Zenon, TickTypes
  <2>2. d.ticker = c.ticker /\ TicksOK(c)
    BY Zenon DEF Good, Entered
  <2> QED
    BY <2>1, <2>2 DEF TicksOK
<1>14. PartsOK(d)
  <2>1. PartsOK(c)
    BY Zenon DEF Good
  <2> QED
    BY Zenon, <2>1, NilNoneAssumption DEF PartsOK, Entered
<1>15. LastCommitOK(d)
  BY Zenon DEF Good, LastCommitOK, Entered
<1>16. CommitOK(d)
  <2>1. CommitOK(c) /\ d.CommitRound = c.CommitRound /\ d.blockStore = c.blockStore /\ d.Step # RoundStepCommit
    BY DEF Good, Entered, RoundStepNewRound, RoundStepCommit
  <2>2. \A r \in TrackableRounds : CommitOf(d, r) = CommitOf(c, r)
    BY Zenon, TrackedRounds
  <2>3. CommitOf(d, d.CommitRound) = CommitOf(c, c.CommitRound)
    BY Zenon, <2>1
  <2> QED
    BY Zenon, <2>1, <2>2, <2>3 DEF CommitOK
<1>17. EvidenceOK(d)
  <2>1. Rounds \subseteq TrackableRounds
    BY Zenon, TrackedRounds DEF Rounds
  <2>2. EvidenceOK(c) /\ d.evpool = c.evpool
    BY Zenon DEF Good, Entered
  <2>3. \A t \in VoteTypes, r \in Rounds, v \in Validators, b \in Values :
            Voted(d.Votes, t, r, v, b) => Voted(c.Votes, t, r, v, b)
    BY Zenon, <2>1 DEF SameVotes
  <2> QED
    BY Zenon, <2>2, <2>3, SameEvidence
<1>18. Good(d)
  BY Zenon, <1>5, <1>6, <1>7, <1>8, <1>10, <1>11, <1>12, <1>13, <1>14, <1>15, <1>16, <1>17 DEF Good
<1>19. Later(c, d)
  BY Zenon DEF Later
<1> QED
  BY <1>18, <1>19 DEF Proceeds, Entered, RoundStepNewRound, RoundStepCommit

\* No round is entered that SetRound refuses.
LEMMA EnterNewRound ==
    ASSUME VoteLaws, NEW c, Good(c), NEW round \in Rounds, NEW e \in Env
    PROVE  LET d == enterNewRound(c, round, e) IN Proceeds(c, d) /\ round <= d.Round
<1> c \in States /\ c.Round \in Nat /\ c.Round \in Rounds /\ round \in Nat /\ c.Votes.round \in Int /\ VotesOK(c.Votes)
  <2>1. c \in States /\ VotesOK(c.Votes)
    BY Zenon DEF Good, RoundsOK
  <2> QED
    BY <2>1, Numbers, TrackedRound DEF Rounds
<1>2. CASE round < c.Round \/ (c.Round = round /\ c.Step # RoundStepNewHeight)
  BY <1>2, ProceedsRefl DEF enterNewRound
<1> CASE c.Round < round \/ (c.Round = round /\ c.Step = RoundStepNewHeight)
  <2>1. ~SetRoundPanics(c.Votes, round + 1)
    BY DEF SetRoundPanics, Good, RoundsOK
  <2>2. PICK x : x = updateRoundStep(c, round, RoundStepNewRound)
    BY Zenon
  <2>15. Stepped(c, x, round, RoundStepNewRound)
    BY Zenon, <2>2, Steps, UpdateRoundStep
  <2> x \in States /\ x.Votes = c.Votes
    BY Zenon, <2>15 DEF Stepped, SameData
  <2>4. PICK d : d = [x EXCEPT !.Proposal = IF round = 0 THEN @ ELSE None,
                               !.ProposalBlock = IF round = 0 THEN @ ELSE None,
                               !.ProposalBlockParts = IF round = 0 THEN @ ELSE None,
                               !.Votes = SetRound(@, round + 1),
                               !.TriggeredTimeoutPrecommit = FALSE]
    BY Zenon
  <2>5. Entered(c, d, round)
    BY Zenon, <2>4, <2>15 DEF Stepped, SameData, Entered, States
  <2>6. SetRound(c.Votes, round + 1) \in HeightVoteSets
    <3>1. c.Votes.round <= round + 1 /\ round + 1 \in 0 .. MaxRound + 1
      BY MaxRoundAssumption DEF Good, RoundsOK, Rounds
    <3> QED
      BY Zenon, <3>1, TrackedRound DEF VoteLaws, SetRoundLaw
  <2>7. d \in States
    <3>1. /\ (IF round = 0 THEN x.Proposal ELSE None) \in ProposalT
          /\ (IF round = 0 THEN x.ProposalBlock ELSE None) \in BlockT
          /\ (IF round = 0 THEN x.ProposalBlockParts ELSE None) \in PartsT
      BY Zenon, FieldTypes DEF ProposalT, BlockT, PartsT
    <3>2. SetRound(x.Votes, round + 1) \in HeightVoteSets
      BY Zenon, <2>6
    <3>3. PICK P \in ProposalT, B \in BlockT, T \in PartsT, V \in HeightVoteSets :
             d = [x EXCEPT !.Proposal = P, !.ProposalBlock = B, !.ProposalBlockParts = T,
                           !.Votes = V, !.TriggeredTimeoutPrecommit = FALSE]
      BY Zenon, <2>4, <3>1, <3>2
    <3> QED
      BY Zenon, <3>3 DEF States, FlagT
  <2> Proceeds(c, d) /\ Good(d) /\ d.Round = round /\ d.Height = c.Height
    BY Zenon, <2>5, <2>7, EnteredProceeds DEF Proceeds, Entered
  <2>9. PICK w : w = scheduleTimeout(d, c.Height, round, RoundStepNewRound)
    BY Zenon
  <2>10. Proceeds(d, w) /\ w.Round = round
    <3>1. RoundStepNewRound \in TimedSteps
      BY Zenon DEF TimedSteps
    <3> QED
      BY <2>9, <3>1, Scheduled
  <2>11. PICK p : p = enterPropose(d, round, e)
    BY Zenon
  <2>12. Proceeds(d, p) /\ round <= p.Round
    BY <2>11, EnterPropose DEF Proceeds
  <2>13. Proceeds(c, w) /\ Proceeds(c, p)
    BY Zenon, <2>10, <2>12, ProceedsTrans
  <2>14. enterNewRound(c, round, e) \in {d, w, p}
    BY <2>1, <2>2, <2>4, <2>9, <2>11 DEF enterNewRound
  <2> QED
    BY <2>10, <2>12, <2>13, <2>14
<1> QED
  BY <1>2
=============================================================================
