------------------------ MODULE ConsensusStateProofs ------------------------
(***************************************************************************)
(* The commit, the messages and the timeouts of ConsensusState keep its      *)
(* invariant IInv (ConsensusRoundProofs), and what each of them changes.     *)
(***************************************************************************)
EXTENDS ConsensusRoundProofs

\* The parts of the committed block are being collected.
FetchOK(c) == c.Step = RoundStepCommit => HasHeader(c.ProposalBlockParts, CommitOf(c, c.CommitRound))

\* From the commit on the polkas of the height are for the committed block.
PolkasFollow(c) ==
    c.Step = RoundStepCommit =>
        \A r \in Rounds : r >= c.CommitRound /\ PolkaOf(c, r) \in Blocks => PolkaOf(c, r) = CommitOf(c, c.CommitRound)

Fetches(c, d) == ~config.GossipTransactionKeyOnly /\ FetchOK(c) /\ PolkasFollow(d) => FetchOK(d)

\* d is of the height of c and has the same votes.
Stays(c, d) ==
    /\ d.Height = c.Height /\ c.Round <= d.Round /\ SameVotes(c.Votes, d.Votes)
    /\ d.LastCommit = c.LastCommit
    /\ \A i \in 1 .. c.Height - 1 : d.blockStore[i] = c.blockStore[i]

\* d is of the next height, and what was stored is the block of LastCommit,
\* unless a block was stored before.
Commits(c, d) ==
    /\ d.Height = c.Height + 1 /\ d.Step # RoundStepCommit
    /\ \A t \in VoteTypes, r \in Int : Majority(d.Votes, t, r) = None
    /\ TwoThirdsMajority(d.LastCommit) \in ValidBlocks
    /\ Len(c.blockStore) = c.Height => d.blockStore[c.Height] = c.blockStore[c.Height]
    /\ Len(c.blockStore) # c.Height => d.blockStore[c.Height] = TwoThirdsMajority(d.LastCommit)

\* d is a Good state the functions that may commit lead to.
Moves(c, d) ==
    /\ Good(d)
    /\ c.signed \subseteq d.signed /\ Later(c, d)
    /\ d.panicked = "inconsistent" => c.panicked = "inconsistent"
    /\ Stays(c, d) \/ Commits(c, d)
    /\ Fetches(c, d)

LEMMA CommitRounds ==
    ASSUME NEW c, Good(c)
    PROVE  c \in States /\ c.CommitRound \in Int /\ c.CommitRound <= c.Round /\ c.Round \in Rounds /\ c.Round \in Nat
BY Zenon, Numbers DEF Good, RoundsOK

\* d is c on the way to a commit: nothing is stored yet.
Leads(c, d) ==
    /\ Good(d)
    /\ d.Height = c.Height /\ c.Round <= d.Round /\ SameVotes(c.Votes, d.Votes)
    /\ d.LastCommit = c.LastCommit /\ d.blockStore = c.blockStore
    /\ c.signed \subseteq d.signed /\ Later(c, d)
    /\ d.panicked = "inconsistent" => c.panicked = "inconsistent"
    /\ ~config.GossipTransactionKeyOnly /\ FetchOK(c) => FetchOK(d)

LEMMA SameCommit ==
    ASSUME NEW c, Good(c), NEW d, Proceeds(c, d)
    PROVE  CommitOf(d, d.CommitRound) = CommitOf(c, c.CommitRound)
<1>1. c.CommitRound \in Int /\ d.CommitRound = c.CommitRound /\ SameVotes(c.Votes, d.Votes)
  BY Zenon, CommitRounds DEF Proceeds
<1> QED
  BY Zenon, <1>1, SamePolkas

\* A step within the height fetches what was fetched.
LEMMA ProceedsFetch ==
    ASSUME NEW c, Good(c), NEW d, Proceeds(c, d), ~config.GossipTransactionKeyOnly, FetchOK(c)
    PROVE  FetchOK(d)
<1>1. SUFFICES ASSUME d.Step = RoundStepCommit
               PROVE  HasHeader(d.ProposalBlockParts, CommitOf(d, d.CommitRound))
  BY Zenon DEF FetchOK
<1>2. c.Step = RoundStepCommit /\ KeepsHeader(c, d)
  BY Zenon, <1>1 DEF Proceeds
<1>3. CommitOf(c, c.CommitRound) \in Blocks
  BY Zenon, <1>2 DEF Good, CommitOK
<1> QED
  BY Zenon, <1>2, <1>3, SameCommit DEF FetchOK, KeepsHeader

LEMMA ProceedsLeads ==
    ASSUME NEW c, Good(c), NEW d, Proceeds(c, d)
    PROVE  Leads(c, d)
BY Zenon, ProceedsFetch DEF Proceeds, Leads

LEMMA LeadsMoves ==
    ASSUME NEW c, NEW d, Leads(c, d)
    PROVE  Moves(c, d) /\ Stays(c, d)
<1>1. Stays(c, d)
  BY Zenon DEF Leads, Stays
<1> QED
  BY Zenon, <1>1 DEF Leads, Moves, Fetches

LEMMA ProceedsMoves ==
    ASSUME NEW c, Good(c), NEW d, Proceeds(c, d)
    PROVE  Moves(c, d) /\ Stays(c, d)
BY Zenon, ProceedsLeads, LeadsMoves

LEMMA LeadsToMoves ==
    ASSUME NEW c, Good(c), NEW d, Leads(c, d), NEW f, Moves(d, f)
    PROVE  Moves(c, f) /\ (Stays(d, f) => Stays(c, f))
<1>1. /\ Good(d) /\ Good(f) /\ c.signed \subseteq f.signed /\ d.Height = c.Height
      /\ c.Round \in Int /\ d.Round \in Int /\ f.Round \in Int /\ c.Round <= d.Round
  <2>1. Good(d) /\ Good(f) /\ c.signed \subseteq f.signed /\ d.Height = c.Height /\ c.Round <= d.Round
    BY Zenon DEF Moves, Leads
  <2> QED
    BY <2>1, CommitRounds
<1>2. Later(c, f)
  BY Zenon DEF Moves, Leads, Later
<1>3. f.panicked = "inconsistent" => c.panicked = "inconsistent"
  BY Zenon DEF Moves, Leads
<1>4. ASSUME Stays(d, f) PROVE Stays(c, f)
  <2>1. SameVotes(c.Votes, f.Votes)
    BY Zenon, <1>4, SameVotesTrans DEF Stays, Leads
  <2>2. c.Round <= f.Round
    BY <1>1, <1>4 DEF Stays
  <2> QED
    BY Zenon, <1>4, <2>1, <2>2 DEF Stays, Leads
<1>5. ASSUME Commits(d, f) PROVE Commits(c, f)
  BY Zenon, <1>5 DEF Commits, Leads
<1>6. Fetches(c, f)
  BY Zenon DEF Fetches, Moves, Leads
<1> QED
  BY Zenon, <1>1, <1>2, <1>3, <1>4, <1>5, <1>6 DEF Moves

LEMMA MovesProceeds ==
    ASSUME NEW c, Good(c), NEW d, Moves(c, d), NEW f, Proceeds(d, f)
    PROVE  Moves(c, f) /\ (Stays(c, d) => Stays(c, f))
<1>1. /\ Good(d) /\ Good(f) /\ c.signed \subseteq f.signed /\ f.Height = d.Height
      /\ c.Round \in Int /\ d.Round \in Int /\ f.Round \in Int /\ d.Round <= f.Round
  <2>1. Good(d) /\ Good(f) /\ c.signed \subseteq f.signed /\ f.Height = d.Height /\ d.Round <= f.Round
    BY Zenon DEF Moves, Proceeds
  <2> QED
    BY <2>1, CommitRounds
<1>2. Later(c, f)
  BY Zenon DEF Moves, Proceeds, Later
<1>3. f.LastCommit = d.LastCommit /\ f.blockStore = d.blockStore /\ SameVotes(d.Votes, f.Votes)
  BY Zenon DEF Proceeds
<1>4. ASSUME Stays(c, d) PROVE Stays(c, f)
  <2>1. SameVotes(c.Votes, f.Votes)
    BY Zenon, <1>3, <1>4, SameVotesTrans DEF Stays
  <2>2. c.Round <= f.Round
    BY <1>1, <1>4 DEF Stays
  <2> QED
    BY Zenon, <1>1, <1>3, <1>4, <2>1, <2>2 DEF Stays
<1>5. ASSUME Commits(c, d) PROVE Commits(c, f)
  <2>1. f.Step # RoundStepCommit
    BY Zenon, <1>5 DEF Commits, Proceeds
  <2>2. \A t \in VoteTypes, r \in Int : Majority(f.Votes, t, r) = None
    BY Zenon, <1>3, <1>5 DEF Commits, SameVotes
  <2> QED
    BY Zenon, <1>1, <1>3, <1>5, <2>1, <2>2 DEF Commits
<1>6. f.panicked = "inconsistent" => c.panicked = "inconsistent"
  BY Zenon DEF Moves, Proceeds
<1>7. ASSUME ~config.GossipTransactionKeyOnly, FetchOK(c), PolkasFollow(f)
      PROVE  FetchOK(f)
  <2>1. CASE f.Step # RoundStepCommit
    BY Zenon, <2>1 DEF FetchOK
  <2>2. CASE f.Step = RoundStepCommit
    <3>1. d.Step = RoundStepCommit /\ d.CommitRound = f.CommitRound
      BY Zenon, <2>2 DEF Proceeds
    <3>2. \A r \in Rounds : PolkaOf(d, r) = PolkaOf(f, r)
      BY <1>3, SamePolkas DEF Rounds
    <3>3. PolkasFollow(d)
      BY Zenon, <1>1, <1>7, <2>2, <3>1, <3>2, SameCommit DEF PolkasFollow
    <3>4. FetchOK(d)
      BY Zenon, <1>7, <3>3 DEF Moves, Fetches
    <3> QED
      BY Zenon, <1>1, <1>7, <3>4, ProceedsFetch
  <2> QED
    BY Zenon, <2>1, <2>2
<1> QED
  BY Zenon, <1>1, <1>2, <1>4, <1>5, <1>6, <1>7 DEF Moves, Fetches

-----------------------------------------------------------------------------
(***************************************************************************)
(* What is recorded: votes, evidence and blocks                            *)
(***************************************************************************)

\* d is c with other votes, evidence or blocks.
Recorded(c, d) ==
    /\ d \in States
    /\ d.Height = c.Height /\ d.Round = c.Round /\ d.Step = c.Step
    /\ d.Proposal = c.Proposal /\ d.ProposalBlock = c.ProposalBlock
    /\ d.ProposalBlockParts = c.ProposalBlockParts
    /\ d.LockedRound = c.LockedRound /\ d.LockedBlock = c.LockedBlock
    /\ d.ValidRound = c.ValidRound /\ d.ValidBlock = c.ValidBlock
    /\ d.CommitRound = c.CommitRound /\ d.ticker = c.ticker
    /\ d.signed = c.signed /\ d.proposed = c.proposed /\ d.panicked = c.panicked
    /\ VotesOK(d.Votes) /\ d.Votes.round = c.Votes.round /\ KeepsMajorities(c.Votes, d.Votes)

LEMMA RecordedMajorities ==
    ASSUME NEW c, NEW d, Recorded(c, d), NEW r \in Int
    PROVE  /\ PolkaOf(c, r) \in Blocks => PolkaOf(d, r) = PolkaOf(c, r)
           /\ CommitOf(c, r) \in Blocks => CommitOf(d, r) = CommitOf(c, r)
<1>1. KeepsMajorities(c.Votes, d.Votes)
  BY Zenon DEF Recorded
<1> QED
  BY Zenon, <1>1, NilNoneAssumption DEF KeepsMajorities, PolkaOf, CommitOf, VoteTypes

\* The commit is that of c while nothing is stored.
LEMMA RecordedCommit ==
    ASSUME NEW c, Good(c), NEW d, Recorded(c, d), d.blockStore = c.blockStore
    PROVE  CommitOK(d)
<1>1. CommitOK(c) /\ c.CommitRound \in Int /\ c.Height \in Nat \ {0} /\ c.blockStore \in Seq(Blocks)
  <2>1. CommitOK(c) /\ c \in States
    BY Zenon DEF Good
  <2> QED
    BY Zenon, <2>1, Numbers, FieldTypes
<1>2. d.CommitRound = c.CommitRound /\ d.Step = c.Step /\ d.Height = c.Height
  BY Zenon DEF Recorded
<1>3. \A r \in Int : CommitOf(c, r) \in Blocks => CommitOf(d, r) = CommitOf(c, r)
  BY Zenon, RecordedMajorities
<1>4. Len(c.blockStore) = c.Height => c.blockStore[c.Height] \in Blocks
  BY <1>1
<1> QED
  BY Zenon, <1>1, <1>2, <1>3, <1>4, TrackedRounds DEF CommitOK

LEMMA RecordedGood ==
    ASSUME NEW c, Good(c), NEW d, Recorded(c, d), LastCommitOK(d), CommitOK(d), EvidenceOK(d)
    PROVE  Good(d)
<1>0. c \in States /\ d \in States /\ c.LockedRound \in Int /\ c.ValidRound \in Int
  <2>1. c \in States /\ d \in States
    BY Zenon DEF Good, Recorded
  <2> QED
    BY Zenon, <2>1, Numbers
<1>1. \A r \in Int : PolkaOf(c, r) \in Blocks => PolkaOf(d, r) = PolkaOf(c, r)
  BY Zenon, RecordedMajorities
<1>2. RoundsOK(d)
  BY Zenon DEF Good, RoundsOK, Recorded
<1>3. LockOK(d)
  <2>1. /\ LockOK(c) /\ d.Round = c.Round /\ d.Step = c.Step
        /\ d.LockedRound = c.LockedRound /\ d.LockedBlock = c.LockedBlock
    BY Zenon DEF Good, Recorded
  <2> QED
    BY Zenon, <1>0, <1>1, <2>1 DEF LockOK
<1>4. ValidOK(d)
  <2>1. ValidOK(c) /\ d.ValidRound = c.ValidRound /\ d.ValidBlock = c.ValidBlock
    BY Zenon DEF Good, Recorded
  <2> QED
    BY Zenon, <1>0, <1>1, <2>1 DEF ValidOK
<1>5. SignedOK(d)
  <2>1. SignedOK(c) /\ d.signed = c.signed /\ d.Height = c.Height /\ d.Round = c.Round /\ d.Step = c.Step
    BY Zenon DEF Good, Recorded
  <2> QED
    BY Zenon, <2>1 DEF SignedOK
<1>6. /\ Precommitted(d) = Precommitted(c) /\ Prevoted(d) = Prevoted(c)
      /\ d.LockedRound = c.LockedRound /\ PrecommitsOK(c) /\ PrevotesOK(c)
  BY Zenon DEF Good, Recorded, Precommitted, Prevoted
<1>7. /\ \A v \in Precommitted(c) : v.round \in Int /\ v.block \in Blocks
      /\ \A v \in Prevoted(c) : v.round \in Int /\ v.block \in Blocks
  BY <1>0, OwnVotes DEF Precommitted, Prevoted
<1>8. PrecommitsOK(d)
  BY Zenon, <1>1, <1>6, <1>7 DEF PrecommitsOK
<1>9. PrevotesOK(d)
  BY <1>1, <1>6, <1>7 DEF PrevotesOK
<1>10. ProposedOK(d)
  <2>1. ProposedOK(c) /\ d.proposed = c.proposed /\ d.Height = c.Height
    BY Zenon DEF Good, Recorded
  <2>2. \A p \in c.proposed : p.pol \in Int /\ p.block \in Blocks
    BY <1>0, FieldTypes DEF Proposal
  <2> QED
    BY Zenon, <1>1, <2>1, <2>2 DEF ProposedOK
<1>11. TicksOK(d)
  <2>1. TicksOK(c) /\ d.ticker = c.ticker /\ d.Height = c.Height /\ d.Round = c.Round
    BY Zenon DEF Good, Recorded
  <2> QED
    BY Zenon, <2>1 DEF TicksOK
<1>12. PartsOK(d)
  <2>1. /\ PartsOK(c) /\ d.Proposal = c.Proposal /\ d.ProposalBlock = c.ProposalBlock
        /\ d.ProposalBlockParts = c.ProposalBlockParts
    BY Zenon DEF Good, Recorded
  <2> QED
    BY Zenon, <2>1 DEF PartsOK
<1> QED
  BY Zenon, <1>0, <1>2, <1>3, <1>4, <1>5, <1>8, <1>9, <1>10, <1>11, <1>12 DEF Good

-----------------------------------------------------------------------------
(***************************************************************************)
(* The commit                                                              *)
(***************************************************************************)

\* What finalizeCommit does to the block store.
SaveBlock(c, b) == [c EXCEPT !.blockStore = IF Len(@) < c.Height THEN Append(@, b) ELSE @]

\* finalizeCommit saves the block unless one is saved.
LEMMA StoredGood ==
    ASSUME NEW c, Good(c), c.CommitRound >= 0, NEW b \in Blocks, b = CommitOf(c, c.CommitRound),
           NEW d, d = SaveBlock(c, b)
    PROVE  /\ Moves(c, d) /\ Stays(c, d) /\ d.Votes = c.Votes /\ d.CommitRound = c.CommitRound
           /\ Len(d.blockStore) = c.Height
           /\ Len(c.blockStore) = c.Height => d.blockStore[c.Height] = c.blockStore[c.Height]
           /\ Len(c.blockStore) # c.Height => d.blockStore[c.Height] = b
<1>1. c \in States /\ c.Height \in Nat \ {0} /\ c.blockStore \in Seq(Blocks) /\ c.Round <= c.Round
  <2>1. c \in States
    BY Zenon DEF Good
  <2> QED
    BY <2>1, Numbers, FieldTypes
<1>2. Len(c.blockStore) \in {c.Height - 1, c.Height}
  BY Zenon DEF Good, CommitOK
<1>3. PICK s \in StoreT : s = IF Len(c.blockStore) < c.Height THEN Append(c.blockStore, b) ELSE c.blockStore
  <2>1. Append(c.blockStore, b) \in Seq(Blocks)
    BY <1>1
  <2> QED
    BY Zenon, <1>1, <2>1 DEF StoreT
<1>4. /\ Len(s) = c.Height /\ \A i \in 1 .. c.Height - 1 : s[i] = c.blockStore[i]
      /\ Len(c.blockStore) = c.Height => s[c.Height] = c.blockStore[c.Height]
      /\ Len(c.blockStore) # c.Height => s[c.Height] = b
  <2>1. CASE Len(c.blockStore) = c.Height
    BY <1>1, <1>3, <2>1
  <2>2. CASE Len(c.blockStore) = c.Height - 1
    BY <1>1, <1>3, <2>2
  <2> QED
    BY Zenon, <1>2, <2>1, <2>2
<1>5. d = [c EXCEPT !.blockStore = s]
  BY Zenon, <1>3 DEF SaveBlock
<1>6. d \in States
  BY Zenon, <1>1, <1>5 DEF States
<1>7. Recorded(c, d)
  <2>1. VotesOK(c.Votes) /\ KeepsMajorities(c.Votes, c.Votes)
    BY Zenon DEF Good, RoundsOK, KeepsMajorities
  <2> QED
    BY Zenon, <1>1, <1>5, <1>6, <2>1 DEF States, Recorded
<1>8. d.Votes = c.Votes /\ d.evpool = c.evpool /\ d.LastCommit = c.LastCommit /\ d.blockStore = s
  BY Zenon, <1>1, <1>5 DEF States
<1>9. /\ d.Height = c.Height /\ d.Round = c.Round /\ d.signed = c.signed /\ d.Step = c.Step
      /\ d.CommitRound = c.CommitRound /\ d.panicked = c.panicked
      /\ d.ProposalBlockParts = c.ProposalBlockParts
  BY Zenon, <1>7 DEF Recorded
<1>10. \A r : CommitOf(d, r) = CommitOf(c, r)
  BY Zenon, <1>8 DEF CommitOf
<1>11. LastCommitOK(d) /\ EvidenceOK(d)
  <2>1. LastCommitOK(c) /\ EvidenceOK(c)
    BY Zenon DEF Good
  <2>2. LastCommitOK(d)
    BY Zenon, <1>8, <1>9, <2>1 DEF LastCommitOK
  <2> QED
    BY Zenon, <1>8, <1>9, <2>1, <2>2, SameEvidence
<1>13. CommitOK(d)
  <2>1. \E r \in TrackableRounds : CommitOf(d, r) = d.blockStore[d.Height]
    <3>1. CASE Len(c.blockStore) = c.Height
      BY Zenon, <1>4, <1>8, <1>9, <1>10, <3>1 DEF Good, CommitOK
    <3>2. CASE Len(c.blockStore) # c.Height
      <4>1. c.CommitRound \in TrackableRounds
        BY CommitRounds, TrackedRounds, MaxRoundAssumption DEF Rounds
      <4> QED
        BY Zenon, <1>4, <1>8, <1>9, <1>10, <3>2, <4>1
    <3> QED
      BY Zenon, <3>1, <3>2
  <2>2. CommitOK(c)
    BY Zenon DEF Good
  <2> QED
    BY Zenon, <1>4, <1>8, <1>9, <1>10, <2>1, <2>2 DEF CommitOK
<1>14. Good(d)
  BY Zenon, <1>7, <1>11, <1>13, RecordedGood
<1>15. Stays(c, d)
  BY Zenon, <1>1, <1>4, <1>8, <1>9, SameVotesRefl DEF Stays
<1>16. Later(c, d) /\ Fetches(c, d)
  BY Zenon, <1>9, <1>10 DEF Later, Fetches, FetchOK
<1> QED
  BY Zenon, <1>4, <1>8, <1>9, <1>14, <1>15, <1>16 DEF Moves

\* What updateToState assigns.
Reset(c, H, z, S, P, B, T, m, L, C, V, F) ==
    [c EXCEPT !.Height = H, !.Round = z, !.Step = S,
              !.Proposal = P, !.ProposalBlock = B, !.ProposalBlockParts = T,
              !.LockedRound = m, !.LockedBlock = B, !.ValidRound = m, !.ValidBlock = B,
              !.LastCommit = L, !.LastCommitRound = C, !.Votes = V,
              !.CommitRound = m, !.TriggeredTimeoutPrecommit = F]

LEMMA ResetState ==
    ASSUME NEW c \in States, NEW H \in HeightT, NEW z \in Rounds, NEW S \in StepT, NEW P \in ProposalT,
           NEW B \in BlockT, NEW T \in PartsT, NEW m \in RoundT, NEW L \in LastCommitT, NEW C \in RoundT,
           NEW V \in HeightVoteSets, NEW F \in FlagT
    PROVE  Reset(c, H, z, S, P, B, T, m, L, C, V, F) \in States
BY Zenon DEF States, Reset

\* updateToState starts the next height with the commit as LastCommit.
LEMMA NextHeightGood ==
    ASSUME VoteLaws, NEW c, Good(c), NEW b \in Blocks, b = CommitOf(c, c.CommitRound),
           Len(c.blockStore) = c.Height, NEW d, d = updateToState(c)
    PROVE  /\ Good(d) /\ d.Height = c.Height + 1 /\ d.Round = 0 /\ d.Step = RoundStepNewHeight
           /\ \A t \in VoteTypes, r \in Int : Majority(d.Votes, t, r) = None
           /\ TwoThirdsMajority(d.LastCommit) = b
           /\ d.signed = c.signed /\ d.blockStore = c.blockStore /\ d.panicked = c.panicked
<1>1. /\ c \in States /\ c.Height \in Nat /\ c.CommitRound \in Int /\ c.CommitRound \in RoundT
      /\ VotesOK(c.Votes)
  <2>1. c \in States /\ VotesOK(c.Votes)
    BY Zenon DEF Good, RoundsOK
  <2> QED
    BY Zenon, <2>1, Numbers DEF RoundT
<1>2. PICK L : L = Precommits(c.Votes, c.CommitRound)
  BY Zenon
<1>3. TwoThirdsMajority(L) = b
  BY Zenon, <1>2 DEF CommitOf, Majority, Precommits
<1>4. SetOK(L)
  <2>1. Majority(c.Votes, "precommit", c.CommitRound) # None
    BY Zenon, NilNoneAssumption DEF CommitOf
  <2>2. /\ c.CommitRound \in TrackableRounds /\ c.Votes.roundVoteSets[c.CommitRound] # None
        /\ getVoteSet(c.Votes, c.CommitRound, "precommit") = c.Votes.roundVoteSets[c.CommitRound]["precommit"]
    BY Zenon, <1>1, <2>1 DEF VoteLaws, MajorityLaw, VoteTypes
  <2> QED
    BY Zenon, <1>1, <1>2, <2>2 DEF VotesOK, VoteTypes, Precommits
<1>5. L \in LastCommitT
  BY Zenon, <1>4 DEF SetOK, LastCommitT
<1>6. c.Height + 1 \in HeightT /\ 0 \in Rounds /\ RoundStepNewHeight \in StepT /\ -1 \in RoundT
  BY <1>1, MaxRoundAssumption DEF HeightT, Rounds, StepT, RoundT, RoundStepNewHeight
<1>7. None \in ProposalT /\ None \in BlockT /\ None \in PartsT /\ FALSE \in FlagT
  BY Zenon DEF ProposalT, BlockT, PartsT, FlagT
<1>8. NewHeightVoteSet \in HeightVoteSets
  BY Zenon DEF VoteLaws, NewVotesLaw, VotesOK
<1>9. PICK H \in HeightT, z \in Rounds, S \in StepT, P \in ProposalT, B \in BlockT, T \in PartsT,
           m \in RoundT, C \in RoundT, V \in HeightVoteSets, F \in FlagT :
          /\ H = c.Height + 1 /\ z = 0 /\ S = RoundStepNewHeight /\ m = -1 /\ V = NewHeightVoteSet
          /\ P = None /\ B = None /\ T = None /\ C = c.CommitRound /\ F = FALSE
  BY Zenon, <1>1, <1>6, <1>7, <1>8
<1>25. d = Reset(c, H, z, S, P, B, T, m, L, C, V, F)
  BY Zenon, <1>2, <1>9 DEF updateToState, Reset
<1>26. Reset(c, H, z, S, P, B, T, m, L, C, V, F) \in States
  BY SMT, <1>1, <1>5, ResetState
<1>10. d \in States
  BY Zenon, <1>25, <1>26
<1>11. /\ d.Height = c.Height + 1 /\ d.Round = 0 /\ d.Step = RoundStepNewHeight
       /\ d.Proposal = None /\ d.ProposalBlock = None /\ d.LockedRound = -1 /\ d.LockedBlock = None
       /\ d.ValidRound = -1 /\ d.ValidBlock = None /\ d.Votes = NewHeightVoteSet
       /\ d.CommitRound = -1 /\ d.LastCommit = L
  BY <1>1, <1>9, <1>25 DEF States, Reset
<1>12. /\ d.ticker = c.ticker /\ d.blockStore = c.blockStore /\ d.evpool = c.evpool
       /\ d.signed = c.signed /\ d.proposed = c.proposed /\ d.panicked = c.panicked
  BY Zenon, <1>1, <1>9, <1>25 DEF States, Reset
<1>13. RoundsOK(d) /\ LockOK(d) /\ ValidOK(d)
  BY <1>11 DEF VoteLaws, NewVotesLaw, RoundsOK, LockOK, ValidOK
<1>14. \A v \in c.signed : v.height \in Nat /\ v.height <= c.Height
  BY Zenon, <1>1, OwnVotes DEF Good, SignedOK
<1>15. SignedOK(d)
  BY <1>1, <1>11, <1>12, <1>14 DEF SignedOK
<1>16. Precommitted(d) = {} /\ Prevoted(d) = {}
  BY <1>1, <1>11, <1>12, <1>14 DEF Precommitted, Prevoted
<1>17. PrecommitsOK(d) /\ PrevotesOK(d)
  BY Zenon, <1>16 DEF PrecommitsOK, PrevotesOK
<1>18. ProposedOK(d)
  <2>1. \A p \in c.proposed : p.height \in Nat /\ p.height <= c.Height
    BY Zenon, <1>1, FieldTypes DEF Good, ProposedOK, Proposal
  <2> QED
    BY <1>1, <1>11, <1>12, <2>1 DEF ProposedOK
<1>19. TicksOK(d)
  <2>1. \A x \in c.ticker.tocks \cup {c.ticker.ti} : x.height \in Nat /\ x.height <= c.Height
    BY <1>1, TickTypes DEF Good, TicksOK
  <2> QED
    BY <1>1, <1>11, <1>12, <2>1 DEF TicksOK
<1>20. PartsOK(d)
  BY Zenon, <1>11, NilNoneAssumption DEF PartsOK
<1>21. LastCommitOK(d)
  BY Zenon, <1>3, <1>4, <1>11 DEF LastCommitOK
<1>22. CommitOK(d)
  BY <1>1, <1>11, <1>12 DEF CommitOK, RoundStepNewHeight, RoundStepCommit
<1>23. EvidenceOK(d)
  <2>1. Rounds \subseteq TrackableRounds
    BY Zenon, TrackedRounds
  <2>2. \A x \in c.evpool : x.val \in Equivocators
    BY Zenon DEF Good, EvidenceOK
  <2> QED
    BY Zenon, <1>11, <1>12, <2>1, <2>2 DEF VoteLaws, NewVotesLaw, EvidenceOK
<1>24. Good(d)
  BY Zenon, <1>10, <1>13, <1>15, <1>17, <1>18, <1>19, <1>20, <1>21, <1>22, <1>23 DEF Good
<1> QED
  BY Zenon, <1>3, <1>11, <1>12, <1>24 DEF VoteLaws, NewVotesLaw

\* The panics that others bring about.
LEMMA PanicProceeds ==
    ASSUME NEW c, Good(c), NEW why \in PanicT \ {"inconsistent"}, NEW d, d = panic(c, why)
    PROVE  Proceeds(c, d) /\ d.Height = c.Height
<1>1. c \in States /\ c.Step <= c.Step
  BY Numbers DEF Good
<1>2. d \in States
  BY Zenon, <1>1 DEF States, panic
<1>3. Frame(c, d) /\ d.CommitRound = c.CommitRound /\ d.Step = c.Step
  BY Zenon, <1>1, <1>2 DEF States, panic, Frame
<1>4. /\ d.ticker = c.ticker /\ d.Proposal = c.Proposal /\ d.ProposalBlock = c.ProposalBlock
      /\ d.ProposalBlockParts = c.ProposalBlockParts /\ d.Height = c.Height /\ d.Round = c.Round
      /\ d.panicked = why
  BY Zenon, <1>1 DEF States, panic
<1>5. TicksOK(d) /\ PartsOK(d)
  BY Zenon, <1>4 DEF Good, TicksOK, PartsOK
<1> QED
  BY Zenon, <1>1, <1>3, <1>4, <1>5, FrameProceeds DEF KeepsHeader

\* finalizeCommit: the panics are those over the header and over an invalid block.
LEMMA FinalizeCommit ==
    ASSUME VoteLaws, NEW c, Good(c), c.CommitRound >= 0, NEW b \in Blocks, b = CommitOf(c, c.CommitRound),
           c.ProposalBlock = b, NEW e \in Env, NEW d, d = finalizeCommit(c, e)
    PROVE  Moves(c, d) /\ (d.Height # c.Height => TwoThirdsMajority(d.LastCommit) = b)
<1>1. b = TwoThirdsMajority(Precommits(c.Votes, c.CommitRound))
  BY Zenon DEF CommitOf, Majority, Precommits
<1>2. CASE ~HasHeader(c.ProposalBlockParts, b) \/ b \notin ValidBlocks
  <2>1. d = panic(c, "header") \/ d = panic(c, "invalidBlock")
    BY Zenon, <1>1, <1>2 DEF finalizeCommit
  <2>2. "header" \in PanicT \ {"inconsistent"} /\ "invalidBlock" \in PanicT \ {"inconsistent"}
    BY DEF PanicT
  <2> QED
    BY Zenon, <2>1, <2>2, PanicProceeds, ProceedsMoves
<1>3. CASE HasHeader(c.ProposalBlockParts, b) /\ b \in ValidBlocks
  <2>1. PICK s : s = SaveBlock(c, b)
    BY Zenon
  <2>3. d = IF e.apply THEN scheduleRound0(updateToState(s)) ELSE s
    BY Zenon, <1>1, <1>3, <2>1 DEF finalizeCommit, SaveBlock
  <2>4. /\ Moves(c, s) /\ Stays(c, s) /\ s.Votes = c.Votes /\ s.CommitRound = c.CommitRound
        /\ Len(s.blockStore) = c.Height
        /\ Len(c.blockStore) = c.Height => s.blockStore[c.Height] = c.blockStore[c.Height]
        /\ Len(c.blockStore) # c.Height => s.blockStore[c.Height] = b
    BY <2>1, StoredGood
  <2>5. s.Height = c.Height /\ Good(s) /\ b = CommitOf(s, s.CommitRound)
    BY Zenon, <2>4 DEF Stays, Moves, CommitOf
  <2>6. CASE ~e.apply
    BY Zenon, <2>3, <2>4, <2>5, <2>6
  <2>7. CASE e.apply
    <3>1. PICK x : x = updateToState(s)
      BY Zenon
    <3>2. /\ Good(x) /\ x.Height = c.Height + 1 /\ x.Round = 0 /\ x.Step = RoundStepNewHeight
          /\ \A t \in VoteTypes, r \in Int : Majority(x.Votes, t, r) = None
          /\ TwoThirdsMajority(x.LastCommit) = b
          /\ x.signed = s.signed /\ x.blockStore = s.blockStore /\ x.panicked = s.panicked
      BY <2>4, <2>5, <3>1, NextHeightGood
    <3>3. 0 \in Rounds /\ RoundStepNewHeight \in TimedSteps /\ 0 <= x.Round
      BY <3>2, MaxRoundAssumption DEF Rounds, TimedSteps
    <3>4. d = scheduleTimeout(x, x.Height, 0, RoundStepNewHeight)
      BY Zenon, <2>3, <2>7, <3>1 DEF scheduleRound0
    <3>5. SameData(x, d) /\ d.Step = x.Step /\ d.panicked = x.panicked /\ Proceeds(x, d)
      BY <3>2, <3>3, <3>4, Scheduled
    <3>6. /\ d.Height = x.Height /\ d.Votes = x.Votes /\ d.LastCommit = x.LastCommit
          /\ d.blockStore = x.blockStore /\ d.signed = x.signed /\ Good(d)
      BY Zenon, <3>5 DEF SameData, Proceeds
    <3>7. d.Step # RoundStepCommit
      BY <3>2, <3>5 DEF RoundStepNewHeight, RoundStepCommit
    <3>8. Commits(c, d)
      BY Zenon, <1>3, <2>4, <3>2, <3>6, <3>7 DEF Commits
    <3>9. c.signed \subseteq d.signed /\ Later(c, d)
      BY <2>4, <3>2, <3>6 DEF Moves, Later
    <3>10. d.panicked = "inconsistent" => c.panicked = "inconsistent"
      BY Zenon, <2>4, <3>2, <3>5 DEF Moves
    <3>11. Fetches(c, d)
      BY Zenon, <3>7 DEF Fetches, FetchOK
    <3> QED
      BY Zenon, <3>2, <3>6, <3>8, <3>9, <3>10, <3>11 DEF Moves
  <2> QED
    BY Zenon, <2>6, <2>7
<1> QED
  BY Zenon, <1>2, <1>3

LEMMA TryFinalizeCommit ==
    ASSUME VoteLaws, NEW c, Good(c), c.CommitRound >= 0, NEW e \in Env, NEW d, d = tryFinalizeCommit(c, e)
    PROVE  Moves(c, d) /\ (d.Height # c.Height => TwoThirdsMajority(d.LastCommit) = CommitOf(c, c.CommitRound))
<1>1. PICK b : b = CommitOf(c, c.CommitRound)
  BY Zenon
<1>2. b = TwoThirdsMajority(Precommits(c.Votes, c.CommitRound))
  BY Zenon, <1>1 DEF CommitOf, Majority, Precommits
<1>3. CASE b \in Blocks /\ c.ProposalBlock = b
  <2>1. d = finalizeCommit(c, e)
    BY Zenon, <1>2, <1>3 DEF tryFinalizeCommit
  <2> QED
    BY <1>1, <1>3, <2>1, FinalizeCommit
<1>4. CASE ~(b \in Blocks /\ c.ProposalBlock = b)
  <2>1. d = c
    BY Zenon, <1>2, <1>4 DEF tryFinalizeCommit
  <2> QED
    BY Zenon, <2>1, ProceedsRefl, ProceedsMoves
<1> QED
  BY Zenon, <1>3, <1>4

\* The block and the parts enterCommit starts with, and everything else of c.
Fetching(c, f, b) ==
    /\ Frame(c, f) /\ f.Step = c.Step /\ f.ticker = c.ticker /\ f.panicked = c.panicked
    /\ f.CommitRound = c.CommitRound /\ f.Proposal = c.Proposal /\ f.proposed = c.proposed
    /\ f.ValidRound = c.ValidRound /\ f.ValidBlock = c.ValidBlock
    /\ PartsOK(f) /\ (config.GossipTransactionKeyOnly \/ HasHeader(f.ProposalBlockParts, b))

LEMMA NewParts ==
    ASSUME NEW b \in Blocks, NEW k \in BOOLEAN
    PROVE  [header |-> b, complete |-> k] \in PartSet /\ HasHeader([header |-> b, complete |-> k], b)
<1>1. [header |-> b, complete |-> k] \in PartSet
  BY DEF PartSet
<1> QED
  BY <1>1, NoProposalAssumption DEF HasHeader

LEMMA FetchingOther ==
    ASSUME NEW c, Good(c), NEW b \in Blocks, NEW P \in BlockT, NEW T \in PartSet,
           HasHeader(T, b), P \in {b, None}, NEW f,
           f = [c EXCEPT !.ProposalBlock = P, !.ProposalBlockParts = T]
    PROVE  Fetching(c, f, b)
<1>1. c \in States /\ T \in PartsT
  BY Zenon DEF Good, PartsT
<1>2. f \in States
  BY Zenon, <1>1 DEF States
<1>3. /\ Frame(c, f) /\ f.Step = c.Step /\ f.ticker = c.ticker /\ f.panicked = c.panicked
      /\ f.CommitRound = c.CommitRound /\ f.Proposal = c.Proposal /\ f.proposed = c.proposed
      /\ f.ValidRound = c.ValidRound /\ f.ValidBlock = c.ValidBlock
      /\ f.ProposalBlock = P /\ f.ProposalBlockParts = T
  BY <1>1, <1>2 DEF States, Frame
<1>4. PartsOK(f)
  BY Zenon, <1>3, NilNoneAssumption DEF PartsOK, HasHeader
<1> QED
  BY Zenon, <1>3, <1>4 DEF Fetching

LEMMA FetchingOK ==
    ASSUME NEW c, Good(c), NEW b \in Blocks, NEW locked,
           locked = IF c.LockedBlock = b
                    THEN [c EXCEPT !.ProposalBlock = b, !.ProposalBlockParts = [header |-> b, complete |-> TRUE]]
                    ELSE c,
           NEW f, f = IF locked.ProposalBlock = b \/ HasHeader(locked.ProposalBlockParts, b) THEN locked
                      ELSE [locked EXCEPT !.ProposalBlock = None, !.ProposalBlockParts = NewPartSetFromHeader(b)]
    PROVE  Fetching(c, f, b)
<1>1. c \in States
  BY Zenon DEF Good
<1>2. CASE c.LockedBlock = b
  <2>1. locked.ProposalBlock = b
    BY Zenon, <1>1, <1>2 DEF States
  <2>2. f = [c EXCEPT !.ProposalBlock = b, !.ProposalBlockParts = [header |-> b, complete |-> TRUE]]
    BY Zenon, <1>2, <2>1
  <2>3. PICK T \in PartSet : T = [header |-> b, complete |-> TRUE] /\ HasHeader(T, b)
    BY Zenon, NewParts
  <2>4. b \in BlockT /\ f = [c EXCEPT !.ProposalBlock = b, !.ProposalBlockParts = T]
    BY Zenon, <2>2, <2>3 DEF BlockT
  <2> QED
    BY Zenon, <2>3, <2>4, FetchingOther
<1>3. CASE c.LockedBlock # b /\ (c.ProposalBlock = b \/ HasHeader(c.ProposalBlockParts, b))
  <2>1. f = c
    BY Zenon, <1>3
  <2>2. PartsOK(c) /\ (config.GossipTransactionKeyOnly \/ HasHeader(c.ProposalBlockParts, b))
    BY Zenon, <1>3 DEF Good, PartsOK
  <2> QED
    BY Zenon, <1>1, <2>1, <2>2 DEF Fetching, Frame
<1>4. CASE c.LockedBlock # b /\ ~(c.ProposalBlock = b \/ HasHeader(c.ProposalBlockParts, b))
  <2>1. f = [c EXCEPT !.ProposalBlock = None, !.ProposalBlockParts = NewPartSetFromHeader(b)]
    BY Zenon, <1>4
  <2>2. PICK T \in PartSet : T = NewPartSetFromHeader(b) /\ HasHeader(T, b)
    BY Zenon, NewParts DEF NewPartSetFromHeader
  <2>3. None \in BlockT /\ f = [c EXCEPT !.ProposalBlock = None, !.ProposalBlockParts = T]
    BY Zenon, <2>1, <2>2 DEF BlockT
  <2> QED
    BY Zenon, <2>2, <2>3, FetchingOther
<1> QED
  BY Zenon, <1>2, <1>3, <1>4

\* enterCommit starts to collect the block and commits it if it is at hand.
LEMMA EnterCommit ==
    ASSUME VoteLaws, NEW c, Good(c), NEW round \in Rounds, round <= c.Round, NEW b \in Blocks, b = CommitOf(c, round),
           NEW e \in Env, NEW d, d = enterCommit(c, round, e)
    PROVE  Moves(c, d) /\ (d.Height # c.Height => TwoThirdsMajority(d.LastCommit) = b)
<1>1. c \in States /\ c.Step \in Int /\ c.Step <= 8 /\ c.Round \in Int /\ round \in Nat /\ c.Round <= c.Round
  BY Numbers, MaxRoundAssumption DEF Good, Rounds
<1>2. CASE RoundStepCommit <= c.Step
  <2>1. d = c
    BY Zenon, <1>2 DEF enterCommit
  <2> QED
    BY Zenon, <2>1, ProceedsRefl, ProceedsMoves
<1>3. CASE ~(RoundStepCommit <= c.Step)
  <2>1. b = TwoThirdsMajority(Precommits(c.Votes, round)) /\ b # None
    BY Zenon, NilNoneAssumption DEF CommitOf, Majority, Precommits
  <2>2. PICK locked :
           locked = IF c.LockedBlock = b
                    THEN [c EXCEPT !.ProposalBlock = b, !.ProposalBlockParts = [header |-> b, complete |-> TRUE]]
                    ELSE c
    BY Zenon
  <2>3. PICK f : f = IF locked.ProposalBlock = b \/ HasHeader(locked.ProposalBlockParts, b) THEN locked
                     ELSE [locked EXCEPT !.ProposalBlock = None, !.ProposalBlockParts = NewPartSetFromHeader(b)]
    BY Zenon
  <2>4. PICK x : x = [f EXCEPT !.Step = RoundStepCommit, !.CommitRound = round]
    BY Zenon
  <2>5. d = tryFinalizeCommit(x, e)
    BY Zenon, <1>3, <2>1, <2>2, <2>3, <2>4 DEF enterCommit
  <2>6. Fetching(c, f, b)
    BY Zenon, <2>2, <2>3, FetchingOK
  <2>7. f \in States /\ Frame(c, f) /\ PartsOK(f) /\ RoundStepCommit \in StepT /\ round \in RoundT
    BY <1>1, <2>6, Steps, MaxRoundAssumption DEF Fetching, Frame, StepT, RoundT, Rounds
  <2>8. x \in States
    BY Zenon, <2>4, <2>7 DEF States
  <2>9. Frame(f, x) /\ x.Step = RoundStepCommit /\ x.CommitRound = round
    BY Zenon, <2>4, <2>7, <2>8 DEF States, Frame
  <2>10. /\ x.ticker = f.ticker /\ x.Proposal = f.Proposal /\ x.ProposalBlock = f.ProposalBlock
         /\ x.ProposalBlockParts = f.ProposalBlockParts /\ x.panicked = f.panicked
         /\ x.ValidRound = f.ValidRound /\ x.ValidBlock = f.ValidBlock /\ x.proposed = f.proposed
    BY Zenon, <2>4, <2>7 DEF States
  <2>11. /\ x.Height = c.Height /\ x.Round = c.Round /\ x.Votes = c.Votes /\ x.blockStore = c.blockStore
         /\ x.LastCommit = c.LastCommit /\ x.signed = c.signed /\ x.panicked = c.panicked /\ x.ticker = c.ticker
    BY Zenon, <2>6, <2>9, <2>10 DEF Fetching, Frame
  <2>12. Frame(c, x)
    BY Zenon, <2>6, <2>8, <2>9, <2>10 DEF Fetching, Frame
  <2>13. TicksOK(x) /\ PartsOK(x)
    <3>1. TicksOK(c)
      BY Zenon DEF Good
    <3> QED
      BY Zenon, <2>7, <2>10, <2>11, <3>1 DEF TicksOK, PartsOK
  <2>14. CommitOK(x) /\ CommitOf(x, x.CommitRound) = b
    <3>1. CommitOK(c) /\ \A r : CommitOf(x, r) = CommitOf(c, r)
      BY Zenon, <2>11 DEF Good, CommitOf
    <3> QED
      BY <1>1, <2>9, <2>11, <3>1 DEF CommitOK
  <2>15. c.Step <= x.Step /\ x.CommitRound <= x.Round
    BY Zenon, <1>1, <1>3, <2>9, <2>11 DEF RoundStepCommit
  <2>16. Good(x)
    BY Zenon, <2>12, <2>13, <2>14, <2>15, FrameGood
  <2>17. Leads(c, x)
    <3>1. ~config.GossipTransactionKeyOnly => FetchOK(x)
      BY Zenon, <2>6, <2>10, <2>14 DEF Fetching, FetchOK
    <3>2. SameVotes(c.Votes, x.Votes) /\ Later(c, x)
      BY Zenon, <2>11, SameVotesRefl DEF Later
    <3> QED
      BY Zenon, <1>1, <2>11, <2>16, <3>1, <3>2 DEF Leads
  <2>18. Moves(x, d) /\ (d.Height # x.Height => TwoThirdsMajority(d.LastCommit) = b)
    BY <1>1, <2>5, <2>9, <2>14, <2>16, TryFinalizeCommit
  <2> QED
    BY Zenon, <2>11, <2>17, <2>18, LeadsToMoves
<1> QED
  BY Zenon, <1>2, <1>3

-----------------------------------------------------------------------------
(***************************************************************************)
(* Proposals and block parts                                               *)
(***************************************************************************)

MakeValid(c, r, b) == [c EXCEPT !.ValidRound = r, !.ValidBlock = b]

\* A state with another valid block, for which there is a polka.
LEMMA ValidUpdated ==
    ASSUME NEW c, Good(c), NEW r \in Rounds, NEW b \in Blocks, PolkaOf(c, r) = b,
           NEW d, d = MakeValid(c, r, b)
    PROVE  /\ Proceeds(c, d) /\ d.Height = c.Height /\ d.Round = c.Round /\ d.Step = c.Step
           /\ d.CommitRound = c.CommitRound /\ d.Votes = c.Votes
<1>1. c \in States /\ c.Step <= c.Step /\ r \in RoundT /\ b \in BlockT /\ r >= 0
  BY Numbers, MaxRoundAssumption DEF Good, Rounds, RoundT, BlockT
<1>2. d \in States
  BY Zenon, <1>1 DEF States, MakeValid
<1>3. /\ d.Height = c.Height /\ d.Round = c.Round /\ d.Step = c.Step /\ d.CommitRound = c.CommitRound
      /\ d.Votes = c.Votes /\ d.ValidRound = r /\ d.ValidBlock = b /\ d.ticker = c.ticker
      /\ d.Proposal = c.Proposal /\ d.ProposalBlock = c.ProposalBlock
      /\ d.ProposalBlockParts = c.ProposalBlockParts /\ d.panicked = c.panicked
  BY Zenon, <1>1 DEF States, MakeValid
<1>4. ValidOK(d)
  BY Zenon, <1>1, <1>3 DEF ValidOK, PolkaOf
<1>5. Frame(c, d)
  BY Zenon, <1>1, <1>2, <1>4 DEF States, Frame, MakeValid
<1>6. TicksOK(d) /\ PartsOK(d)
  BY Zenon, <1>3 DEF Good, TicksOK, PartsOK
<1>7. Proceeds(c, d)
  BY Zenon, <1>1, <1>3, <1>5, <1>6, FrameProceeds DEF KeepsHeader
<1> QED
  BY Zenon, <1>3, <1>7

\* handleCompleteProposal votes for the proposal, or commits it.
LEMMA CompleteProposal ==
    ASSUME VoteLaws, NEW c, Good(c), NEW e \in Env, NEW d, d = handleCompleteProposal(c, e)
    PROVE  Moves(c, d)
<1>1. c \in States /\ c.Round \in Rounds /\ c.Round \in Int /\ c.Round <= c.Round
  BY CommitRounds
<1>2. PICK maj : maj = PolkaOf(c, c.Round) /\ maj = TwoThirdsMajority(Prevotes(c.Votes, c.Round))
  BY Zenon DEF PolkaOf, Majority, Prevotes
<1>3. PICK u : u = IF maj \in Blocks /\ c.ValidRound < c.Round /\ c.ProposalBlock = maj
                   THEN MakeValid(c, c.Round, maj) ELSE c
  BY Zenon
<1>4. /\ Proceeds(c, u) /\ u.Height = c.Height /\ u.Round = c.Round /\ u.Step = c.Step
      /\ u.CommitRound = c.CommitRound /\ Good(u)
  <2>1. CASE u = c
    BY Zenon, <2>1, ProceedsRefl
  <2>2. CASE u # c
    <3>1. maj \in Blocks /\ u = MakeValid(c, c.Round, maj)
      BY Zenon, <1>3, <2>2
    <3>2. /\ Proceeds(c, u) /\ u.Height = c.Height /\ u.Round = c.Round /\ u.Step = c.Step
          /\ u.CommitRound = c.CommitRound
      <4>1. c.Round \in Rounds /\ PolkaOf(c, c.Round) = maj
        BY Zenon, <1>1, <1>2
      <4>2. PICK r \in Rounds : r = c.Round
        BY Zenon, <1>1
      <4>3. maj \in Blocks /\ PolkaOf(c, r) = maj /\ u = MakeValid(c, r, maj)
        BY Zenon, <3>1, <4>1, <4>2
      <4> QED
        BY <4>3, ValidUpdated
    <3> QED
      BY Zenon, <3>2 DEF Proceeds
  <2> QED
    BY Zenon, <2>1, <2>2
<1>5. PICK p : p = enterPrevote(u, c.Round, e)
  BY Zenon
<1>6. Proceeds(u, p) /\ Proceeds(c, p) /\ Good(p) /\ c.Round <= p.Round
  <2>1. Proceeds(u, p)
    BY <1>1, <1>4, <1>5, EnterPrevote
  <2>2. Proceeds(c, p)
    BY Zenon, <1>4, <2>1, ProceedsTrans
  <2> QED
    BY Zenon, <2>1, <2>2 DEF Proceeds
<1>7. CASE d = p
  BY Zenon, <1>6, <1>7, ProceedsMoves
<1>8. CASE d = enterPrecommit(p, c.Round, e)
  <2>1. Proceeds(p, d)
    BY Zenon, <1>1, <1>6, <1>8, EnterPrecommit
  <2> QED
    BY Zenon, <1>6, <2>1, ProceedsTrans, ProceedsMoves
<1>9. CASE c.Step = RoundStepCommit /\ d = tryFinalizeCommit(u, e)
  <2>1. u.CommitRound >= 0
    BY Zenon, <1>4, <1>9 DEF Good, CommitOK
  <2>2. Moves(u, d)
    BY <1>4, <1>9, <2>1, TryFinalizeCommit
  <2> QED
    BY Zenon, <1>4, <2>2, ProceedsLeads, LeadsToMoves
<1>10. CASE d = u
  BY Zenon, <1>4, <1>10, ProceedsMoves
<1>11. \/ d = p \/ d = enterPrecommit(p, c.Round, e) \/ d = u
       \/ c.Step = RoundStepCommit /\ d = tryFinalizeCommit(u, e)
  BY Zenon, <1>2, <1>3, <1>5 DEF handleCompleteProposal, MakeValid
<1> QED
  BY Zenon, <1>7, <1>8, <1>9, <1>10, <1>11

\* The proposal, the block and the parts of a proposal that is taken.
LEMMA ProposalTaken ==
    ASSUME NEW c, Good(c), NEW P \in ProposalT, NEW B \in BlockT, NEW T \in PartsT,
           NEW d, d = [c EXCEPT !.Proposal = P, !.ProposalBlock = B, !.ProposalBlockParts = T],
           PartsOK(d), KeepsHeader(c, d)
    PROVE  Proceeds(c, d)
<1>1. c \in States /\ c.Step <= c.Step
  BY Numbers DEF Good
<1>2. d \in States
  BY Zenon, <1>1 DEF States
<1>3. d.Step = c.Step /\ d.CommitRound = c.CommitRound /\ d.ticker = c.ticker /\ d.panicked = c.panicked
  BY Zenon, <1>1 DEF States
<1>4. Frame(c, d)
  BY Zenon, <1>1, <1>2 DEF States, Frame
<1>5. TicksOK(d)
  <2>1. TicksOK(c)
    BY Zenon DEF Good
  <2> QED
    BY Zenon, <1>3, <1>4, <2>1 DEF TicksOK, Frame
<1> QED
  BY Zenon, <1>1, <1>3, <1>4, <1>5, FrameProceeds

LEMMA SetProposal ==
    ASSUME NEW c, Good(c), NEW p \in Proposal, NEW d, d = defaultSetProposal(c, p)
    PROVE  Proceeds(c, d)
<1>1. CASE d = c
  BY Zenon, <1>1, ProceedsRefl
<1>2. CASE d # c
  <2>1. c \in States /\ PartsOK(c)
    BY Zenon DEF Good
  <2>2. PICK T : T = IF c.ProposalBlockParts = None THEN NewPartSetFromHeader(p.block) ELSE c.ProposalBlockParts
    BY Zenon
  <2>3. c.ProposalBlock \in BlockT /\ c.ProposalBlockParts \in PartSet \cup {None} /\ p \in ProposalT
    BY Zenon, <2>1, FieldTypes DEF BlockT, ProposalT
  <2>4. T \in PartSet /\ T # None
    <3>1. p.block \in Blocks
      BY DEF Proposal
    <3>2. NewPartSetFromHeader(p.block) \in PartSet
      BY Zenon, <3>1, NewParts DEF NewPartSetFromHeader
    <3> QED
      BY Zenon, <2>2, <2>3, <3>2, NoProposalAssumption
  <2>5. T \in PartsT
    BY Zenon, <2>4 DEF PartsT
  <2>6. d = [c EXCEPT !.Proposal = p, !.ProposalBlockParts = T]
    BY Zenon, <1>2, <2>2 DEF defaultSetProposal
  <2>7. d = [c EXCEPT !.Proposal = p, !.ProposalBlock = c.ProposalBlock, !.ProposalBlockParts = T]
    BY Zenon, <2>1, <2>6 DEF States
  <2>8. d.ProposalBlock = c.ProposalBlock /\ d.ProposalBlockParts = T
    BY Zenon, <2>1, <2>6 DEF States
  <2>9. \A b \in Blocks : HasHeader(c.ProposalBlockParts, b) => HasHeader(T, b)
    BY Zenon, <2>2 DEF HasHeader
  <2>10. PartsOK(d) /\ KeepsHeader(c, d)
    BY Zenon, <2>1, <2>4, <2>8, <2>9 DEF PartsOK, KeepsHeader
  <2> QED
    BY Zenon, <2>3, <2>5, <2>7, <2>10, ProposalTaken
<1> QED
  BY Zenon, <1>1, <1>2

\* With key-only gossip the block is put together from the mempool.
LEMMA CreateProposalBlock ==
    ASSUME VoteLaws, NEW c, Good(c), NEW p \in Proposal, NEW e \in Env, NEW d, d = tryCreateProposalBlock(c, p, e)
    PROVE  Moves(c, d)
<1>1. CASE d = c
  BY Zenon, <1>1, ProceedsRefl, ProceedsMoves
<1>2. CASE d # c
  <2>1. c \in States /\ c.Proposal \in ProposalT
    BY Zenon, FieldTypes DEF Good, ProposalT
  <2>2. PICK b : b = buildProposalBlock(c, p.block)
    BY Zenon
  <2>3. b \in Blocks /\ b \in BlockT
    <3>1. p.block \in Blocks
      BY DEF Proposal
    <3> QED
      BY Zenon, <2>2, <3>1, ConstantsAssumption DEF buildProposalBlock, BlockT
  <2>4. PICK T \in PartSet : T = [header |-> b, complete |-> TRUE] /\ HasHeader(T, b)
    BY Zenon, <2>3, NewParts
  <2>5. PICK m : m = [c EXCEPT !.ProposalBlock = b, !.ProposalBlockParts = T]
    BY Zenon
  <2>6. config.GossipTransactionKeyOnly /\ d = handleCompleteProposal(m, e)
    BY Zenon, <1>2, <2>2, <2>4, <2>5 DEF tryCreateProposalBlock
  <2>7. m = [c EXCEPT !.Proposal = c.Proposal, !.ProposalBlock = b, !.ProposalBlockParts = T]
    BY Zenon, <2>1, <2>5 DEF States
  <2>8. m.ProposalBlock = b /\ m.ProposalBlockParts = T
    BY Zenon, <2>1, <2>5 DEF States
  <2>9. PartsOK(m) /\ KeepsHeader(c, m) /\ T \in PartsT
    BY Zenon, <2>4, <2>6, <2>8 DEF PartsOK, KeepsHeader, HasHeader, PartsT
  <2>10. Proceeds(c, m)
    BY Zenon, <2>1, <2>3, <2>7, <2>9, ProposalTaken
  <2>11. Moves(m, d)
    BY Zenon, <2>6, <2>10, CompleteProposal DEF Proceeds
  <2> QED
    BY Zenon, <2>10, <2>11, ProceedsLeads, LeadsToMoves
<1> QED
  BY Zenon, <1>1, <1>2

LEMMA HandleProposal ==
    ASSUME VoteLaws, NEW c, Good(c), NEW p \in Proposal, NEW e \in Env, NEW d, d = handleProposalMsg(c, p, e)
    PROVE  Moves(c, d)
<1>1. CASE d = c
  BY Zenon, <1>1, ProceedsRefl, ProceedsMoves
<1>2. CASE d # c
  <2>1. PICK m : m = defaultSetProposal(c, p)
    BY Zenon
  <2>2. d = tryCreateProposalBlock(m, p, e)
    BY Zenon, <1>2, <2>1 DEF handleProposalMsg
  <2>3. Proceeds(c, m)
    BY Zenon, <2>1, SetProposal
  <2>4. Moves(m, d)
    BY Zenon, <2>2, <2>3, CreateProposalBlock DEF Proceeds
  <2> QED
    BY Zenon, <2>3, <2>4, ProceedsLeads, LeadsToMoves
<1> QED
  BY Zenon, <1>1, <1>2

LEMMA HandleBlockPart ==
    ASSUME VoteLaws, NEW c, Good(c), NEW b \in Blocks, NEW height, NEW e \in Env,
           NEW d, d = handleBlockPartMsg(c, b, height, e)
    PROVE  Moves(c, d)
<1>1. CASE d = c
  BY Zenon, <1>1, ProceedsRefl, ProceedsMoves
<1>2. CASE d # c
  <2>1. c \in States /\ c.Proposal \in ProposalT /\ c.ProposalBlock \in BlockT /\ PartsOK(c)
    BY Zenon, FieldTypes DEF Good, ProposalT, BlockT
  <2>2. PICK m : m = addProposalBlockPart(c, b)
    BY Zenon
  <2>3. HasHeader(c.ProposalBlockParts, b) /\ (d = m \/ d = handleCompleteProposal(m, e))
    BY Zenon, <1>2, <2>2 DEF handleBlockPartMsg
  <2>4. PICK T : T = [c.ProposalBlockParts EXCEPT !.complete = TRUE]
    BY Zenon
  <2>5. T \in PartSet /\ HasHeader(T, b) /\ \A x \in Blocks : HasHeader(c.ProposalBlockParts, x) => x = b
    <3>1. c.ProposalBlockParts \in PartSet /\ c.ProposalBlockParts.header = b
      BY Zenon, <2>1, <2>3, FieldTypes DEF HasHeader
    <3>2. T \in PartSet /\ T.header = b
      BY Zenon, <2>4, <3>1 DEF PartSet
    <3> QED
      BY Zenon, <3>1, <3>2, NoProposalAssumption DEF HasHeader
  <2>6. PICK B : B = IF b \in Malformed THEN c.ProposalBlock ELSE b
    BY Zenon
  <2>7. B \in BlockT /\ B \in {b, c.ProposalBlock} /\ T \in PartsT
    BY Zenon, <2>1, <2>5, <2>6 DEF BlockT, PartsT
  <2>8. m = [c EXCEPT !.ProposalBlock = B, !.ProposalBlockParts = T]
    BY Zenon, <2>1, <2>2, <2>4, <2>6 DEF addProposalBlockPart, States
  <2>9. m = [c EXCEPT !.Proposal = c.Proposal, !.ProposalBlock = B, !.ProposalBlockParts = T]
    BY Zenon, <2>1, <2>8 DEF States
  <2>10. m.ProposalBlock = B /\ m.ProposalBlockParts = T /\ m.Proposal = c.Proposal
    BY Zenon, <2>1, <2>8 DEF States
  <2>11. PartsOK(m) /\ KeepsHeader(c, m)
    BY Zenon, <2>1, <2>5, <2>7, <2>10 DEF PartsOK, KeepsHeader, HasHeader
  <2>12. Proceeds(c, m)
    BY Zenon, <2>1, <2>7, <2>9, <2>11, ProposalTaken
  <2>13. Moves(m, d)
    BY Zenon, <2>3, <2>12, CompleteProposal, ProceedsRefl, ProceedsMoves DEF Proceeds
  <2> QED
    BY Zenon, <2>12, <2>13, ProceedsLeads, LeadsToMoves
<1> QED
  BY Zenon, <1>1, <1>2

-----------------------------------------------------------------------------
(***************************************************************************)
(* Votes                                                                   *)
(***************************************************************************)

UpdateValid(c, R, V, P, T) ==
    [c EXCEPT !.ValidRound = R, !.ValidBlock = V, !.ProposalBlock = P, !.ProposalBlockParts = T]

\* A polka of the current round makes its block the valid block, or the one whose
\* parts are collected: in the Commit step too, where they are those of the
\* committed block as long as the polkas follow the commit.
LEMMA ValidOrFetched ==
    ASSUME NEW c, Good(c), NEW b \in Blocks, PolkaOf(c, c.Round) = b,
           NEW R \in RoundT, NEW V \in BlockT, NEW P \in BlockT, NEW T \in PartSet,
           (R = c.ValidRound /\ V = c.ValidBlock) \/ (R = c.Round /\ V = b),
           P \in {b, None}, HasHeader(T, b), NEW d, d = UpdateValid(c, R, V, P, T)
    PROVE  Moves(c, d) /\ Stays(c, d) /\ d.Round = c.Round /\ d.Votes = c.Votes /\ d.Height = c.Height
<1>1. c \in States /\ T \in PartsT /\ c.Step <= c.Step /\ c.Round <= c.Round /\ c.Round \in Rounds
      /\ c.Round >= 0 /\ c.CommitRound <= c.Round
  BY Numbers DEF Good, PartsT, RoundsOK
<1>2. d \in States
  BY Zenon, <1>1 DEF States, UpdateValid
<1>3. /\ d.Height = c.Height /\ d.Round = c.Round /\ d.Step = c.Step /\ d.CommitRound = c.CommitRound
      /\ d.Votes = c.Votes /\ d.ValidRound = R /\ d.ValidBlock = V /\ d.ticker = c.ticker
      /\ d.Proposal = c.Proposal /\ d.ProposalBlock = P /\ d.ProposalBlockParts = T
      /\ d.panicked = c.panicked /\ d.signed = c.signed /\ d.LastCommit = c.LastCommit
      /\ d.blockStore = c.blockStore
  BY Zenon, <1>1 DEF States, UpdateValid
<1>4. \A r : PolkaOf(d, r) = PolkaOf(c, r) /\ CommitOf(d, r) = CommitOf(c, r)
  BY Zenon, <1>3 DEF PolkaOf, CommitOf
<1>5. (d.ValidRound = c.ValidRound /\ d.ValidBlock = c.ValidBlock) \/ ValidOK(d)
  BY Zenon, <1>1, <1>3, <1>4 DEF ValidOK
<1>6. Frame(c, d)
  BY Zenon, <1>1, <1>2, <1>5 DEF States, Frame, UpdateValid
<1>7. TicksOK(d) /\ PartsOK(d)
  <2>1. TicksOK(c)
    BY Zenon DEF Good
  <2> QED
    BY Zenon, <1>3, <2>1, NilNoneAssumption DEF TicksOK, PartsOK, HasHeader
<1>8. CommitOK(d)
  <2>1. CommitOK(c)
    BY Zenon DEF Good
  <2> QED
    BY Zenon, <1>3, <1>4, <2>1 DEF CommitOK
<1>9. Good(d)
  BY Zenon, <1>1, <1>3, <1>6, <1>7, <1>8, FrameGood
<1>10. Stays(c, d)
  BY Zenon, <1>1, <1>3, SameVotesRefl DEF Stays
<1>11. Fetches(c, d)
  <2>1. ASSUME PolkasFollow(d), d.Step = RoundStepCommit
        PROVE  b = CommitOf(d, d.CommitRound)
    <3>1. d.Round \in Rounds /\ d.Round >= d.CommitRound /\ PolkaOf(d, d.Round) = b
      BY <1>1, <1>3, <1>4
    <3> QED
      BY Zenon, <2>1, <3>1 DEF PolkasFollow
  <2> QED
    BY Zenon, <1>3, <2>1 DEF Fetches, FetchOK
<1> QED
  BY Zenon, <1>3, <1>9, <1>10, <1>11 DEF Moves, Later

LEMMA UpdateValidBlock ==
    ASSUME NEW c, Good(c), NEW round \in Rounds, NEW d, d = updateValidBlock(c, round)
    PROVE  Moves(c, d) /\ Stays(c, d) /\ d.Round = c.Round /\ d.Votes = c.Votes /\ d.Height = c.Height
<1>1. PICK b : b = PolkaOf(c, round) /\ b = TwoThirdsMajority(Prevotes(c.Votes, round))
  BY Zenon DEF PolkaOf, Majority, Prevotes
<1>2. CASE b \notin Blocks \/ c.ValidRound >= round \/ round # c.Round
  <2>1. d = c
    BY Zenon, <1>1, <1>2 DEF updateValidBlock
  <2> QED
    BY Zenon, <2>1, ProceedsRefl, ProceedsMoves
<1>3. CASE ~(b \notin Blocks \/ c.ValidRound >= round \/ round # c.Round)
  <2>1. /\ c \in States /\ b \in Blocks /\ b \in BlockT /\ round = c.Round /\ None \in BlockT
        /\ c.ProposalBlockParts \in PartSet \cup {None} /\ c.ValidBlock \in BlockT
    BY Zenon, <1>3, FieldTypes DEF Good, BlockT
  <2>2. c.ValidRound \in RoundT /\ round \in RoundT
    BY <2>1, Numbers, MaxRoundAssumption DEF RoundT, Rounds
  <2>3. PICK T : T = IF HasHeader(c.ProposalBlockParts, b) THEN c.ProposalBlockParts ELSE NewPartSetFromHeader(b)
    BY Zenon
  <2>4. T \in PartSet /\ HasHeader(T, b)
    BY Zenon, <2>1, <2>3, NewParts DEF NewPartSetFromHeader, HasHeader
  <2>5. CASE c.ProposalBlock = b
    <3>1. d = UpdateValid(c, round, b, b, T)
      <4>1. CASE HasHeader(c.ProposalBlockParts, b)
        <5>1. d = [c EXCEPT !.ValidRound = round, !.ValidBlock = b]
          BY Zenon, <1>1, <1>3, <2>5, <4>1 DEF updateValidBlock
        <5> QED
          BY Zenon, <2>1, <2>3, <2>5, <4>1, <5>1 DEF UpdateValid, States
      <4>2. CASE ~HasHeader(c.ProposalBlockParts, b)
        <5>1. d = [[c EXCEPT !.ValidRound = round, !.ValidBlock = b] EXCEPT !.ProposalBlockParts = T]
          BY Zenon, <1>1, <1>3, <2>3, <2>5, <4>2 DEF updateValidBlock
        <5> QED
          BY Zenon, <2>1, <2>5, <5>1 DEF UpdateValid, States
      <4> QED
        BY Zenon, <4>1, <4>2
    <3>2. PICK R \in RoundT, V \in BlockT, P \in BlockT : R = round /\ V = b /\ P = b
      BY Zenon, <2>1, <2>2
    <3>3. PolkaOf(c, c.Round) = b /\ T \in PartSet /\ HasHeader(T, b) /\ b \in Blocks
      BY Zenon, <1>1, <2>1, <2>4
    <3>4. /\ (R = c.ValidRound /\ V = c.ValidBlock) \/ (R = c.Round /\ V = b)
          /\ P \in {b, None} /\ d = UpdateValid(c, R, V, P, T)
      BY Zenon, <2>1, <3>1, <3>2
    <3> QED
      BY <3>3, <3>4, ValidOrFetched
  <2>6. CASE c.ProposalBlock # b
    <3>1. d = UpdateValid(c, c.ValidRound, c.ValidBlock, None, T)
      <4>1. CASE HasHeader(c.ProposalBlockParts, b)
        <5>1. d = [c EXCEPT !.ProposalBlock = None]
          BY Zenon, <1>1, <1>3, <2>6, <4>1 DEF updateValidBlock
        <5> QED
          BY Zenon, <2>1, <2>3, <4>1, <5>1 DEF UpdateValid, States
      <4>2. CASE ~HasHeader(c.ProposalBlockParts, b)
        <5>1. d = [[c EXCEPT !.ProposalBlock = None] EXCEPT !.ProposalBlockParts = T]
          BY Zenon, <1>1, <1>3, <2>3, <2>6, <4>2 DEF updateValidBlock
        <5> QED
          BY Zenon, <2>1, <5>1 DEF UpdateValid, States
      <4> QED
        BY Zenon, <4>1, <4>2
    <3>2. PICK R \in RoundT, V \in BlockT, P \in BlockT : R = c.ValidRound /\ V = c.ValidBlock /\ P = None
      BY Zenon, <2>1, <2>2
    <3>3. PolkaOf(c, c.Round) = b /\ T \in PartSet /\ HasHeader(T, b) /\ b \in Blocks
      BY Zenon, <1>1, <2>1, <2>4
    <3>4. /\ (R = c.ValidRound /\ V = c.ValidBlock) \/ (R = c.Round /\ V = b)
          /\ P \in {b, None} /\ d = UpdateValid(c, R, V, P, T)
      BY Zenon, <2>1, <3>1, <3>2
    <3> QED
      BY <3>3, <3>4, ValidOrFetched
  <2> QED
    BY Zenon, <2>5, <2>6
<1> QED
  BY Zenon, <1>2, <1>3

LEMMA PrevoteAdded ==
    ASSUME VoteLaws, NEW c, Good(c), NEW round \in Rounds, NEW e \in Env, NEW d, d = prevoteAdded(c, round, e)
    PROVE  Moves(c, d) /\ Stays(c, d)
<1>1. PICK u : u = updateValidBlock(c, round)
  BY Zenon
<1>2. Moves(c, u) /\ Stays(c, u) /\ Good(u)
  BY Zenon, <1>1, UpdateValidBlock DEF Moves
<1>3. u.Round \in Rounds /\ u.Round <= u.Round
  BY <1>2, CommitRounds
<1>4. Proceeds(u, d)
  <2>1. CASE d = u
    BY Zenon, <1>2, <2>1, ProceedsRefl
  <2>2. CASE d = enterNewRound(u, round, e)
    BY Zenon, <1>2, <2>2, EnterNewRound
  <2>3. CASE u.Round = round /\ d = enterPrecommit(u, round, e)
    BY Zenon, <1>2, <1>3, <2>3, EnterPrecommit
  <2>4. CASE u.Round = round /\ HasTwoThirdsAny(Prevotes(u.Votes, round)) /\ d = enterPrevoteWait(u, round)
    BY Zenon, <1>2, <1>3, <2>4, EnterPrevoteWait
  <2>5. CASE d = enterPrevote(u, u.Round, e)
    BY Zenon, <1>2, <1>3, <2>5, EnterPrevote
  <2> QED
    BY Zenon, <1>1, <2>1, <2>2, <2>3, <2>4, <2>5 DEF prevoteAdded
<1> QED
  BY Zenon, <1>2, <1>4, MovesProceeds

\* The power of the precommits is the same after the calls of the height.
LEMMA SamePower ==
    ASSUME VoteLaws, NEW c, Good(c), NEW d, Proceeds(c, d), NEW round \in Rounds,
           CommitOf(c, round) # None \/ HasTwoThirdsAny(Precommits(c.Votes, round))
    PROVE  HasTwoThirdsAny(Precommits(d.Votes, round))
<1>1. VotesOK(c.Votes) /\ VotesOK(d.Votes) /\ SameVotes(c.Votes, d.Votes) /\ round \in Int
  BY DEF Proceeds, Good, RoundsOK, Rounds
<1> QED
  BY Zenon, <1>1 DEF VoteLaws, PowerLaw, CommitOf, Precommits, VoteTypes

\* precommitAdded leaves the height only with the majority of the round.
LEMMA PrecommitAdded ==
    ASSUME VoteLaws, NEW c, Good(c), NEW round \in Rounds, NEW e \in Env, NEW d, d = precommitAdded(c, round, e)
    PROVE  Moves(c, d) /\ (d.Height # c.Height => TwoThirdsMajority(d.LastCommit) = CommitOf(c, round))
<1>1. PICK b : b = CommitOf(c, round) /\ b = TwoThirdsMajority(Precommits(c.Votes, round))
  BY Zenon DEF CommitOf, Majority, Precommits
<1>2. PICK n : n = enterNewRound(c, round, e)
  BY Zenon
<1>3. PICK p : p = enterPrecommit(n, round, e)
  BY Zenon
<1>4. PICK k : k = enterCommit(p, round, e)
  BY Zenon
<1>5. Proceeds(c, n) /\ Good(n) /\ round <= n.Round /\ n.Height = c.Height
  <2>1. Proceeds(c, n) /\ round <= n.Round
    BY Zenon, <1>2, EnterNewRound
  <2> QED
    BY Zenon, <2>1 DEF Proceeds
<1>6. Proceeds(c, p) /\ Good(p) /\ round <= p.Round /\ p.Height = c.Height
  <2>1. Proceeds(n, p)
    BY Zenon, <1>3, <1>5, EnterPrecommit
  <2>2. n.Round \in Int /\ p.Round \in Int /\ n.Round <= p.Round /\ Good(p)
    BY <1>5, <2>1, CommitRounds DEF Proceeds
  <2>3. round <= p.Round
    BY <1>5, <2>2 DEF Rounds
  <2>4. Proceeds(c, p)
    BY Zenon, <1>5, <2>1, ProceedsTrans
  <2> QED
    BY Zenon, <2>2, <2>3, <2>4 DEF Proceeds
<1>7. CASE b \in Blocks
  <2>1. CommitOf(p, round) = b
    <3>1. round \in Int
      BY DEF Rounds
    <3>2. SameVotes(c.Votes, p.Votes)
      BY Zenon, <1>6 DEF Proceeds
    <3> QED
      BY Zenon, <1>1, <3>1, <3>2, SamePolkas
  <2>2. Moves(p, k) /\ (k.Height # p.Height => TwoThirdsMajority(k.LastCommit) = b)
    BY <1>4, <1>6, <1>7, <2>1, EnterCommit
  <2>3. Moves(c, k) /\ (k.Height # c.Height => TwoThirdsMajority(k.LastCommit) = b) /\ Good(k)
    <3>1. Moves(c, k)
      BY Zenon, <1>6, <2>2, ProceedsLeads, LeadsToMoves
    <3> QED
      BY Zenon, <1>6, <2>2, <3>1 DEF Moves
  <2>4. CASE d = k
    BY Zenon, <1>1, <2>3, <2>4
  <2>5. CASE d = enterNewRound(k, 0, e)
    <3>1. 0 \in Rounds
      BY MaxRoundAssumption DEF Rounds
    <3>2. Proceeds(k, d)
      BY Zenon, <2>3, <2>5, <3>1, EnterNewRound
    <3>3. Moves(c, d)
      BY Zenon, <2>3, <3>2, MovesProceeds
    <3> QED
      BY Zenon, <1>1, <2>3, <3>2, <3>3 DEF Proceeds
  <2> QED
    BY Zenon, <1>1, <1>2, <1>3, <1>4, <1>7, <2>4, <2>5 DEF precommitAdded
<1>8. CASE b = Nil /\ b \notin Blocks
  <2>1. d = enterPrecommitWait(p, round)
    BY Zenon, <1>1, <1>2, <1>3, <1>8 DEF precommitAdded
  <2>2. HasTwoThirdsAny(Precommits(p.Votes, round))
    BY Zenon, <1>1, <1>6, <1>8, SamePower, NilNoneAssumption
  <2>3. Proceeds(p, d)
    BY Zenon, <1>6, <2>1, <2>2, EnterPrecommitWait
  <2>4. Proceeds(c, d)
    BY Zenon, <1>6, <2>3, ProceedsTrans
  <2> QED
    BY Zenon, <2>4, ProceedsMoves DEF Proceeds
<1>9. CASE b # Nil /\ b \notin Blocks
  <2>1. CASE d = c
    BY Zenon, <2>1, ProceedsRefl, ProceedsMoves
  <2>2. CASE d # c
    <3>1. HasTwoThirdsAny(Precommits(c.Votes, round)) /\ d = enterPrecommitWait(n, round)
      BY Zenon, <1>1, <1>2, <1>9, <2>2 DEF precommitAdded
    <3>2. HasTwoThirdsAny(Precommits(n.Votes, round))
      BY Zenon, <1>5, <3>1, SamePower
    <3>3. Proceeds(n, d)
      BY Zenon, <1>5, <3>1, <3>2, EnterPrecommitWait
    <3>4. Proceeds(c, d)
      BY Zenon, <1>5, <3>3, ProceedsTrans
    <3> QED
      BY Zenon, <3>4, ProceedsMoves DEF Proceeds
  <2> QED
    BY Zenon, <2>1, <2>2
<1> QED
  BY Zenon, <1>7, <1>8, <1>9

-----------------------------------------------------------------------------
(***************************************************************************)
(* What a step does: votes, timeouts and majority claims.                    *)
(***************************************************************************)

\* What a step of Next does.
Advances(c, d) ==
    /\ Good(d)
    /\ c.signed \subseteq d.signed /\ Later(c, d)
    /\ d.panicked = "inconsistent" => c.panicked = "inconsistent"
    /\ Fetches(c, d)
    /\ \/ /\ d.Height = c.Height
          /\ c.Height > 1 => TwoThirdsMajority(d.LastCommit) = TwoThirdsMajority(c.LastCommit)
          /\ \A i \in 1 .. c.Height - 1 : d.blockStore[i] = c.blockStore[i]
       \/ /\ d.Height = c.Height + 1
          /\ d.blockStore[c.Height] = IF Len(c.blockStore) = c.Height THEN c.blockStore[c.Height]
                                      ELSE TwoThirdsMajority(d.LastCommit)

\* What is recorded, and then a function of the height.
LEMMA RecordedMoves ==
    ASSUME NEW c, Good(c), NEW m, Recorded(c, m), Good(m), m.blockStore = c.blockStore,
           c.Height > 1 => TwoThirdsMajority(m.LastCommit) = TwoThirdsMajority(c.LastCommit),
           NEW d, Moves(m, d)
    PROVE  Advances(c, d)
<1>1. /\ m.Height = c.Height /\ m.signed = c.signed /\ m.panicked = c.panicked /\ m.Step = c.Step
      /\ m.CommitRound = c.CommitRound /\ m.ProposalBlockParts = c.ProposalBlockParts
  BY Zenon DEF Recorded
<1>2. Good(d) /\ c.signed \subseteq d.signed /\ Later(c, d)
  BY Zenon, <1>1 DEF Moves, Later
<1>3. d.panicked = "inconsistent" => c.panicked = "inconsistent"
  BY Zenon, <1>1 DEF Moves
<1>4. FetchOK(c) => FetchOK(m)
  <2>1. SUFFICES ASSUME FetchOK(c), c.Step = RoundStepCommit
                 PROVE  HasHeader(c.ProposalBlockParts, CommitOf(m, c.CommitRound))
    BY Zenon, <1>1 DEF FetchOK
  <2>2. CommitOf(c, c.CommitRound) \in Blocks /\ c.CommitRound \in Int
    BY Zenon, <2>1, CommitRounds DEF Good, CommitOK
  <2> QED
    BY Zenon, <2>1, <2>2, RecordedMajorities DEF FetchOK
<1>5. Fetches(c, d)
  BY Zenon, <1>4 DEF Fetches, Moves
<1>6. CASE Stays(m, d)
  BY Zenon, <1>1, <1>2, <1>3, <1>5, <1>6 DEF Stays, Advances
<1>7. CASE Commits(m, d)
  BY Zenon, <1>1, <1>2, <1>3, <1>5, <1>7 DEF Commits, Advances
<1> QED
  BY Zenon, <1>6, <1>7 DEF Moves

LEMMA MovesAdvances ==
    ASSUME NEW c, Good(c), NEW d, Moves(c, d)
    PROVE  Advances(c, d)
<1>1. c \in States /\ VotesOK(c.Votes) /\ KeepsMajorities(c.Votes, c.Votes)
  BY Zenon DEF Good, RoundsOK, KeepsMajorities
<1>2. Recorded(c, c)
  BY Zenon, <1>1 DEF Recorded
<1> QED
  BY Zenon, <1>2, RecordedMoves

LEMMA ProceedsAdvances ==
    ASSUME NEW c, Good(c), NEW m, Proceeds(c, m), NEW d, Advances(m, d)
    PROVE  Advances(c, d)
<1>1. /\ m.Height = c.Height /\ c.signed \subseteq m.signed /\ Later(c, m) /\ m.LastCommit = c.LastCommit
      /\ m.blockStore = c.blockStore /\ (m.panicked = "inconsistent" => c.panicked = "inconsistent")
  BY Zenon DEF Proceeds
<1>2. Good(d) /\ c.signed \subseteq d.signed
  BY Zenon, <1>1 DEF Advances
<1>3. Later(c, d)
  BY Zenon, <1>1 DEF Advances, Later
<1>4. d.panicked = "inconsistent" => c.panicked = "inconsistent"
  BY Zenon, <1>1 DEF Advances
<1>5. Fetches(c, d)
  BY Zenon, ProceedsFetch DEF Advances, Fetches
<1> QED
  BY Zenon, <1>1, <1>2, <1>3, <1>4, <1>5 DEF Advances

LEMMA ProceedsStep ==
    ASSUME NEW c, Good(c), NEW d, Proceeds(c, d)
    PROVE  Advances(c, d)
BY Zenon, ProceedsMoves, MovesAdvances

-----------------------------------------------------------------------------
(***************************************************************************)
(* Votes                                                                   *)
(***************************************************************************)

Reported(v) == [v EXCEPT !.block = Nil]

LEMMA VoteTyped ==
    ASSUME NEW v \in Vote
    PROVE  /\ v.type \in VoteTypes /\ v.height \in Nat /\ v.round \in Rounds /\ v.round \in 0 .. MaxRound
           /\ v.round \in TrackableRounds /\ v.round \in Int
           /\ v.val \in Validators /\ v.block \in Values
           /\ Reported(v) \in Vote /\ Reported(v).val = v.val /\ Reported(v).type = v.type
           /\ Reported(v).height = v.height /\ Reported(v).round = v.round
<1>1. /\ v.type \in VoteTypes /\ v.height \in Nat /\ v.round \in Rounds /\ v.val \in Validators /\ v.block \in Values
  BY Zenon DEF Vote
<1>2. Nil \in Values
  BY Zenon DEF Values
<1>3. /\ Reported(v) \in Vote /\ Reported(v).val = v.val /\ Reported(v).type = v.type
      /\ Reported(v).height = v.height /\ Reported(v).round = v.round
  BY Zenon, <1>1, <1>2 DEF Vote, Reported
<1>4. v.round \in 0 .. MaxRound /\ v.round \in TrackableRounds /\ v.round \in Int
  BY Zenon, <1>1, TrackedRounds DEF Rounds
<1> QED
  BY Zenon, <1>1, <1>3, <1>4

\* Counted votes have been heard.
LEMMA CountedHeard ==
    ASSUME NEW h, VotesOK(h), NEW t \in VoteTypes, NEW r \in TrackableRounds, NEW v, NEW b, Voted(h, t, r, v, b)
    PROVE  Heard(h, t, r, v)
<1>1. SumsOK(h.roundVoteSets[r][t]) /\ CountedFor(h.roundVoteSets[r][t], v, b)
  BY Zenon DEF VotesOK, SetOK, Voted
<1> QED
  BY Zenon, <1>1 DEF SumsOK, CountedFor, Heard, Voted

\* The vote is counted, and evidence of a conflict goes to the pool.
RecordVote(c, S, E) == [c EXCEPT !.Votes = S, !.evpool = E]

LEMMA VoteRecordedState ==
    ASSUME NEW c, Good(c), NEW S, VotesOK(S), S.round = c.Votes.round, KeepsMajorities(c.Votes, S),
           NEW E \in PoolT, NEW m, m = RecordVote(c, S, E)
    PROVE  /\ Recorded(c, m) /\ m.LastCommit = c.LastCommit /\ m.blockStore = c.blockStore
           /\ m.Votes = S /\ m.evpool = E
<1>1. c \in States /\ S \in HeightVoteSets
  BY Zenon DEF Good, VotesOK
<1>2. m \in States
  BY Zenon, <1>1 DEF States, RecordVote
<1>3. m.LastCommit = c.LastCommit /\ m.blockStore = c.blockStore /\ m.Votes = S /\ m.evpool = E
  BY Zenon, <1>1 DEF States, RecordVote
<1>4. Recorded(c, m)
  BY Zenon, <1>1, <1>2, <1>3 DEF States, RecordVote, Recorded
<1> QED
  BY Zenon, <1>3, <1>4

\* The pool after a vote: evidence of whoever is counted twice.
LEMMA EvidenceAdded ==
    ASSUME NEW c, Good(c), NEW v \in Vote, v.height = c.Height, NEW g, NEW added, NEW conflicting,
           VoteAdded(c.Votes, v.type, v.round, v.val, v.block, g, added, conflicting),
           conflicting => v.val = Me \/ v.val \in Equivocators,
           NEW E, E = IF conflicting /\ v.val # Me THEN c.evpool \cup {Reported(v)} ELSE c.evpool,
           NEW m, m.Votes = g, m.evpool = E, m.Height = c.Height
    PROVE  EvidenceOK(m)
<1>1. EvidenceOK(c) /\ VotesOK(c.Votes)
  BY Zenon DEF Good, RoundsOK
<1>2. \A x \in m.evpool : x.val \in Equivocators
  <2>1. \A x \in c.evpool : x.val \in Equivocators
    BY Zenon, <1>1 DEF EvidenceOK
  <2>2. Reported(v).val = v.val
    BY Zenon, VoteTyped
  <2>3. CASE conflicting /\ v.val # Me
    BY Zenon, <2>1, <2>2, <2>3
  <2>4. CASE ~(conflicting /\ v.val # Me)
    BY Zenon, <2>1, <2>4
  <2> QED
    BY Zenon, <2>3, <2>4
<1>3. ASSUME NEW t \in VoteTypes, NEW r \in Rounds, NEW w \in Validators \ {Me}, NEW a \in Values, NEW b \in Values,
             a # b, Voted(m.Votes, t, r, w, a), Voted(m.Votes, t, r, w, b)
      PROVE  \E x \in m.evpool : x.val = w /\ x.type = t /\ x.height = m.Height /\ x.round = r
  <2>1. r \in TrackableRounds /\ w \in Validators /\ w # Me
    BY Zenon, TrackedRounds
  <2>2. CASE Voted(c.Votes, t, r, w, a) /\ Voted(c.Votes, t, r, w, b)
    <3>1. \E x \in c.evpool : x.val = w /\ x.type = t /\ x.height = c.Height /\ x.round = r
      BY <1>1, <1>3, <2>2 DEF EvidenceOK
    <3> QED
      BY Zenon, <3>1
  <2>3. CASE ~(Voted(c.Votes, t, r, w, a) /\ Voted(c.Votes, t, r, w, b))
    <3>1. /\ \A z \in Values : Voted(m.Votes, t, r, w, z) <=>
                Voted(c.Votes, t, r, w, z) \/ (added /\ t = v.type /\ r = v.round /\ w = v.val /\ z = v.block)
          /\ added /\ Heard(c.Votes, v.type, v.round, v.val) => conflicting
      BY Zenon, <2>1 DEF VoteAdded
    <3>2. /\ added /\ t = v.type /\ r = v.round /\ w = v.val
          /\ Voted(c.Votes, t, r, w, a) \/ Voted(c.Votes, t, r, w, b)
      BY Zenon, <1>3, <2>3, <3>1
    <3>3. Heard(c.Votes, t, r, w)
      BY Zenon, <1>1, <2>1, <3>2, CountedHeard
    <3>4. Reported(v) \in m.evpool
      BY Zenon, <2>1, <3>1, <3>2, <3>3
    <3> QED
      BY Zenon, <3>2, <3>4, VoteTyped
  <2> QED
    BY Zenon, <2>2, <2>3
<1> QED
  BY <1>2, <1>3 DEF EvidenceOK

\* The guard of PeerVote: only equivocators conflict with themselves.
Honest(c, v) ==
    LET set == IF v.height = c.Height THEN getVoteSet(c.Votes, v.round, v.type) ELSE c.LastCommit
    IN  v.val = Me \/ (set # None /\ set.votes[v.val] \notin {None, v.block} => v.val \in Equivocators)

\* addVote before the calls that depend on the vote.
LEMMA VoteRecorded ==
    ASSUME VoteLaws, NEW c, Good(c), NEW v \in Vote, v.height = c.Height, Honest(c, v), NEW peer \in Peers,
           NEW result, result = AddVoteFrom(c.Votes, v.type, v.round, v.val, v.block, peer),
           NEW m, m = reportConflict([c EXCEPT !.Votes = result.set], v, result)
    PROVE  /\ Recorded(c, m) /\ Good(m) /\ m.LastCommit = c.LastCommit /\ m.blockStore = c.blockStore
           /\ \A s \in Int, u \in VoteTypes :
                 s # v.round \/ u # v.type => Majority(m.Votes, u, s) = Majority(c.Votes, u, s)
<1>1. /\ v.type \in VoteTypes /\ v.round \in 0 .. MaxRound /\ v.round \in TrackableRounds /\ v.round \in Int
      /\ v.val \in Validators /\ v.block \in Values /\ Reported(v) \in Vote
  BY Zenon, VoteTyped
<1>2. c \in States /\ VotesOK(c.Votes) /\ LastCommitOK(c) /\ c.evpool \subseteq Vote
  BY Zenon, FieldTypes DEF Good, RoundsOK
<1>3. VoteAdded(c.Votes, v.type, v.round, v.val, v.block, result.set, result.added, result.conflicting)
  BY Zenon, <1>1, <1>2 DEF VoteLaws, AddVoteFromLaw
<1>4. result.conflicting => v.val = Me \/ v.val \in Equivocators
  <2>1. SUFFICES ASSUME result.conflicting, v.val # Me
                 PROVE  v.val \in Equivocators
    BY Zenon
  <2>2. Heard(c.Votes, v.type, v.round, v.val) /\ c.Votes.roundVoteSets[v.round][v.type].votes[v.val] # v.block
    BY Zenon, <1>3, <2>1 DEF VoteAdded
  <2>3. /\ getVoteSet(c.Votes, v.round, v.type) = c.Votes.roundVoteSets[v.round][v.type]
        /\ getVoteSet(c.Votes, v.round, v.type) # None
    BY Zenon, <1>1, <1>2, <2>2 DEF VoteLaws, MajorityLaw, Heard
  <2>4. getVoteSet(c.Votes, v.round, v.type).votes[v.val] \notin {None, v.block}
    BY Zenon, <2>2, <2>3 DEF Heard, HeardFrom
  <2> QED
    BY Zenon, <2>1, <2>3, <2>4 DEF Honest
<1>5. PICK E : E = IF result.conflicting /\ v.val # Me THEN c.evpool \cup {Reported(v)} ELSE c.evpool
  BY Zenon
<1>6. E \in PoolT
  BY Zenon, <1>1, <1>2, <1>5 DEF PoolT
<1>7. m = RecordVote(c, result.set, E)
  BY Zenon, <1>2, <1>5 DEF reportConflict, RecordVote, Reported, States
<1>8. VotesOK(result.set) /\ result.set.round = c.Votes.round /\ KeepsMajorities(c.Votes, result.set)
  BY Zenon, <1>3 DEF VoteAdded
<1>9. /\ Recorded(c, m) /\ m.LastCommit = c.LastCommit /\ m.blockStore = c.blockStore
      /\ m.Votes = result.set /\ m.evpool = E
  BY <1>6, <1>7, <1>8, VoteRecordedState
<1>10. m.Height = c.Height
  BY Zenon, <1>9 DEF Recorded
<1>11. EvidenceOK(m)
  <2>1. PICK g, added, conflicting : g = result.set /\ added = result.added /\ conflicting = result.conflicting
    BY Zenon
  <2>2. /\ VoteAdded(c.Votes, v.type, v.round, v.val, v.block, g, added, conflicting)
        /\ conflicting => v.val = Me \/ v.val \in Equivocators
        /\ E = IF conflicting /\ v.val # Me THEN c.evpool \cup {Reported(v)} ELSE c.evpool
        /\ m.Votes = g /\ m.evpool = E
    BY Zenon, <1>3, <1>4, <1>5, <1>9, <2>1
  <2> QED
    BY Zenon, <1>10, <2>2, EvidenceAdded
<1>12. LastCommitOK(m) /\ CommitOK(m)
  BY Zenon, <1>2, <1>9, <1>10, RecordedCommit DEF LastCommitOK
<1>13. Good(m)
  BY Zenon, <1>9, <1>11, <1>12, RecordedGood
<1> QED
  BY Zenon, <1>3, <1>9, <1>13 DEF VoteAdded

\* A late precommit of the previous height.
RecordLate(c, L, E) == [c EXCEPT !.LastCommit = L, !.evpool = E]

LEMMA LateRecorded ==
    ASSUME NEW c, Good(c), c.LastCommit # None,
           NEW L, SetOK(L), TwoThirdsMajority(L) = TwoThirdsMajority(c.LastCommit),
           NEW E \in PoolT, c.evpool \subseteq E, \A x \in E : x.val \in Equivocators,
           NEW m, m = RecordLate(c, L, E)
    PROVE  Recorded(c, m) /\ Good(m) /\ m.blockStore = c.blockStore /\ m.LastCommit = L
<1>1. c \in States /\ L \in LastCommitT /\ VotesOK(c.Votes) /\ KeepsMajorities(c.Votes, c.Votes)
  BY Zenon DEF Good, RoundsOK, SetOK, LastCommitT, KeepsMajorities
<1>2. m \in States
  BY Zenon, <1>1 DEF States, RecordLate
<1>3. m.LastCommit = L /\ m.blockStore = c.blockStore /\ m.Votes = c.Votes /\ m.evpool = E /\ m.Height = c.Height
  BY Zenon, <1>1 DEF States, RecordLate
<1>4. Recorded(c, m)
  BY Zenon, <1>1, <1>2, <1>3 DEF States, RecordLate, Recorded
<1>5. LastCommitOK(m)
  <2>1. LastCommitOK(c)
    BY Zenon DEF Good
  <2> QED
    BY Zenon, <1>3, <2>1 DEF LastCommitOK
<1>6. EvidenceOK(m)
  <2>1. EvidenceOK(c)
    BY Zenon DEF Good
  <2> QED
    BY <1>3, <2>1 DEF EvidenceOK
<1> QED
  BY Zenon, <1>3, <1>4, <1>5, <1>6, RecordedCommit, RecordedGood

LEMMA AddLastCommitVote ==
    ASSUME VoteLaws, NEW c, Good(c), NEW v \in Vote, v.height + 1 = c.Height, Honest(c, v),
           NEW e \in Env, NEW d, d = addLastCommitVote(c, v, e)
    PROVE  Advances(c, d)
<1>1. CASE d = c
  BY Zenon, <1>1, ProceedsRefl, ProceedsStep
<1>3. CASE d = panic(c, "nilLastCommit")
  <2>1. "nilLastCommit" \in PanicT \ {"inconsistent"}
    BY DEF PanicT
  <2> QED
    BY Zenon, <1>3, <2>1, PanicProceeds, ProceedsStep
<1>2. CASE d # c /\ d # panic(c, "nilLastCommit")
  <2>1. PICK result : result = AddVote(c.LastCommit, v.val, v.block)
    BY Zenon
  <2>2. PICK m : m = reportConflict([c EXCEPT !.LastCommit = result.set], v, result)
    BY Zenon
  <2>3. c.LastCommit # None /\ (d = m \/ d = enterNewRound(m, 0, e))
    BY Zenon, <1>2, <2>1, <2>2 DEF addLastCommitVote
  <2>4. /\ v.height \in Nat /\ v.val \in Validators /\ v.block \in Values
        /\ Reported(v) \in Vote /\ Reported(v).val = v.val
    BY Zenon, VoteTyped
  <2>5. v.height # c.Height
    BY <2>4
  <2>6. /\ c \in States /\ c.evpool \subseteq Vote /\ TwoThirdsMajority(c.LastCommit) \in Blocks
        /\ \A x \in c.evpool : x.val \in Equivocators
    BY Zenon, <2>3, FieldTypes DEF Good, LastCommitOK, EvidenceOK
  <2>7. c.LastCommit # None /\ SetOK(c.LastCommit) /\ c.LastCommit.maj23 # None
    BY Zenon, <2>3, <2>6, NilNoneAssumption DEF Good, LastCommitOK, TwoThirdsMajority
  <2>8. Added(c.LastCommit, v.val, v.block, result)
    BY Zenon, <2>1, <2>4, <2>7 DEF VoteLaws, AddVoteLaw
  <2>9. SetOK(result.set) /\ TwoThirdsMajority(result.set) = TwoThirdsMajority(c.LastCommit)
    <3>1. SetOK(result.set) /\ result.set.maj23 = c.LastCommit.maj23
      BY Zenon, <2>7, <2>8 DEF Added
    <3>2. result.set # None
      BY Zenon, <3>1, NoneAssumption DEF SetOK
    <3> QED
      BY Zenon, <2>7, <3>1, <3>2 DEF TwoThirdsMajority
  <2>10. result.conflicting => v.val = Me \/ v.val \in Equivocators
    BY Zenon, <2>5, <2>7, <2>8 DEF Added, Honest
  <2>11. PICK E : E = IF result.conflicting /\ v.val # Me THEN c.evpool \cup {Reported(v)} ELSE c.evpool
    BY Zenon
  <2>12. E \in PoolT /\ c.evpool \subseteq E /\ \A x \in E : x.val \in Equivocators
    <3>1. CASE result.conflicting /\ v.val # Me
      BY Zenon, <2>4, <2>6, <2>10, <2>11, <3>1 DEF PoolT
    <3>2. CASE ~(result.conflicting /\ v.val # Me)
      BY Zenon, <2>6, <2>11, <3>2 DEF PoolT
    <3> QED
      BY Zenon, <3>1, <3>2
  <2>13. m = RecordLate(c, result.set, E)
    BY Zenon, <2>2, <2>6, <2>11 DEF reportConflict, RecordLate, Reported, States
  <2>14. PICK L : L = result.set
    BY Zenon
  <2>15. Recorded(c, m) /\ Good(m) /\ m.blockStore = c.blockStore /\ m.LastCommit = L
    BY <2>3, <2>9, <2>12, <2>13, <2>14, LateRecorded
  <2>16. 0 \in Rounds
    BY MaxRoundAssumption DEF Rounds
  <2>17. Moves(m, d) /\ Stays(m, d)
    BY Zenon, <2>3, <2>15, <2>16, EnterNewRound, ProceedsRefl, ProceedsMoves
  <2>18. TwoThirdsMajority(m.LastCommit) = TwoThirdsMajority(c.LastCommit)
    BY Zenon, <2>9, <2>14, <2>15
  <2> QED
    BY Zenon, <2>15, <2>17, <2>18, RecordedMoves
<1> QED
  BY Zenon, <1>1, <1>2, <1>3

\* handleMsg, VoteMessage.
LEMMA AddsVote ==
    ASSUME VoteLaws, NEW c, Good(c), NEW v \in Vote, Honest(c, v), NEW peer \in Peers,
           NEW e \in Env, NEW d, d = addVote(c, v, peer, e)
    PROVE  Advances(c, d)
<1>1. CASE v.height + 1 = c.Height /\ v.type = "precommit"
  <2>1. d = addLastCommitVote(c, v, e)
    BY Zenon, <1>1 DEF addVote
  <2> QED
    BY Zenon, <1>1, <2>1, AddLastCommitVote
<1>2. CASE ~(v.height + 1 = c.Height /\ v.type = "precommit") /\ v.height # c.Height
  <2>1. d = c
    BY Zenon, <1>2 DEF addVote
  <2> QED
    BY Zenon, <2>1, ProceedsRefl, ProceedsStep
<1>3. CASE ~(v.height + 1 = c.Height /\ v.type = "precommit") /\ v.height = c.Height
  <2>1. PICK result : result = AddVoteFrom(c.Votes, v.type, v.round, v.val, v.block, peer)
    BY Zenon
  <2>2. PICK m : m = reportConflict([c EXCEPT !.Votes = result.set], v, result)
    BY Zenon
  <2>3. /\ Recorded(c, m) /\ Good(m) /\ m.LastCommit = c.LastCommit /\ m.blockStore = c.blockStore
        /\ \A s \in Int, u \in VoteTypes :
              s # v.round \/ u # v.type => Majority(m.Votes, u, s) = Majority(c.Votes, u, s)
    BY <1>3, <2>1, <2>2, VoteRecorded
  <2>4. v.round \in Rounds /\ v.type \in VoteTypes
    BY Zenon, VoteTyped
  <2>5. CASE d = m
    BY Zenon, <2>3, <2>5, ProceedsRefl, ProceedsMoves, RecordedMoves
  <2>6. CASE v.type = "prevote" /\ d = prevoteAdded(m, v.round, e)
    BY Zenon, <2>3, <2>4, <2>6, PrevoteAdded, RecordedMoves
  <2>7. CASE v.type = "precommit" /\ d = precommitAdded(m, v.round, e)
    BY Zenon, <2>3, <2>4, <2>7, PrecommitAdded, RecordedMoves
  <2> QED
    BY Zenon, <1>3, <2>1, <2>2, <2>4, <2>5, <2>6, <2>7 DEF addVote, VoteTypes
<1> QED
  BY Zenon, <1>1, <1>2, <1>3

-----------------------------------------------------------------------------
(***************************************************************************)
(* Queues, timeouts and notifications                                      *)
(***************************************************************************)

SetQueues(c, Q, K) == [c EXCEPT !.internalMsgQueue = Q, !.ticker = K]

\* A message taken from the queue, or a change of the timer.
LEMMA QueueChanged ==
    ASSUME NEW c, Good(c), NEW Q \in QueueT, NEW K \in Tickers,
           K.tocks \cup {K.ti} \subseteq c.ticker.tocks \cup {c.ticker.ti},
           NEW d, d = SetQueues(c, Q, K)
    PROVE  /\ Proceeds(c, d) /\ Good(d) /\ d.Height = c.Height /\ d.Round = c.Round /\ d.Votes = c.Votes
           /\ d.LastCommit = c.LastCommit
<1>1. c \in States /\ c.Step <= c.Step
  BY Numbers DEF Good
<1>2. d \in States
  BY Zenon, <1>1 DEF States, SetQueues
<1>3. /\ d.Height = c.Height /\ d.Round = c.Round /\ d.Votes = c.Votes /\ d.LastCommit = c.LastCommit
      /\ d.Step = c.Step /\ d.CommitRound = c.CommitRound /\ d.ticker = K /\ d.panicked = c.panicked
      /\ d.Proposal = c.Proposal /\ d.ProposalBlock = c.ProposalBlock
      /\ d.ProposalBlockParts = c.ProposalBlockParts
  BY Zenon, <1>1 DEF States, SetQueues
<1>4. Frame(c, d)
  BY Zenon, <1>1, <1>2 DEF States, Frame, SetQueues
<1>5. TicksOK(d) /\ PartsOK(d)
  <2>1. TicksOK(c) /\ PartsOK(c)
    BY Zenon DEF Good
  <2>2. TicksOK(d)
    BY Zenon, <1>3, <2>1 DEF TicksOK
  <2> QED
    BY Zenon, <1>3, <2>1, <2>2 DEF PartsOK
<1>6. Proceeds(c, d)
  BY Zenon, <1>1, <1>3, <1>4, <1>5, FrameProceeds DEF KeepsHeader
<1> QED
  BY Zenon, <1>3, <1>6 DEF Proceeds

TakeMessage(c, msg) == [c EXCEPT !.internalMsgQueue = @ \ {msg}]

LEMMA MessageTaken ==
    ASSUME NEW c, Good(c), NEW msg, NEW d, d = TakeMessage(c, msg)
    PROVE  /\ Proceeds(c, d) /\ Good(d) /\ d.Height = c.Height /\ d.Round = c.Round /\ d.Votes = c.Votes
           /\ d.LastCommit = c.LastCommit
<1>1. c \in States /\ c.ticker \in Tickers /\ c.internalMsgQueue \in QueueT
  BY Zenon DEF Good, States
<1>2. PICK Q \in QueueT, K \in Tickers : Q = c.internalMsgQueue \ {msg} /\ K = c.ticker
  BY Zenon, <1>1 DEF QueueT
<1>3. d = SetQueues(c, Q, K)
  BY Zenon, <1>1, <1>2 DEF States, SetQueues, TakeMessage
<1>4. K.tocks \cup {K.ti} \subseteq c.ticker.tocks \cup {c.ticker.ti}
  BY Zenon, <1>2
<1> QED
  BY <1>3, <1>4, QueueChanged

LEMMA TickerChanged ==
    ASSUME NEW c, Good(c), NEW K \in Tickers, K.tocks \cup {K.ti} \subseteq c.ticker.tocks \cup {c.ticker.ti},
           NEW d, d = [c EXCEPT !.ticker = K]
    PROVE  Proceeds(c, d) /\ Good(d) /\ d.Height = c.Height /\ d.Round = c.Round
<1>1. c \in States /\ c.internalMsgQueue \in QueueT
  BY Zenon DEF Good, States
<1>2. PICK Q \in QueueT : Q = c.internalMsgQueue
  BY Zenon, <1>1
<1>3. d = SetQueues(c, Q, K)
  BY Zenon, <1>1, <1>2 DEF States, SetQueues
<1> QED
  BY <1>3, QueueChanged

LEMMA TimeoutTaken ==
    ASSUME NEW c, Good(c), NEW ti, NEW d, d = [c EXCEPT !.ticker = take(@, ti)]
    PROVE  Proceeds(c, d) /\ Good(d) /\ d.Height = c.Height /\ d.Round = c.Round
<1>1. c.ticker \in Tickers
  BY Zenon DEF Good, States
<1>2. PICK K : K = take(c.ticker, ti)
  BY Zenon
<1>3. K \in Tickers /\ K.tocks \cup {K.ti} \subseteq c.ticker.tocks \cup {c.ticker.ti}
  BY Zenon, <1>1, <1>2 DEF take, Tickers
<1>4. d = [c EXCEPT !.ticker = K]
  BY Zenon, <1>2
<1> QED
  BY <1>3, <1>4, TickerChanged

LEMMA TimerElapsed ==
    ASSUME NEW c, Good(c), NEW d, d = [c EXCEPT !.ticker = elapse(@)]
    PROVE  Proceeds(c, d)
<1>1. c.ticker \in Tickers
  BY Zenon DEF Good, States
<1>2. PICK K : K = elapse(c.ticker)
  BY Zenon
<1>3. K \in Tickers /\ K.tocks \cup {K.ti} \subseteq c.ticker.tocks \cup {c.ticker.ti}
  BY Zenon, <1>1, <1>2 DEF elapse, Tickers
<1>4. d = [c EXCEPT !.ticker = K]
  BY Zenon, <1>2
<1> QED
  BY Zenon, <1>3, <1>4, TickerChanged

\* handleTimeout takes only a timeout of the current round.
LEMMA HandleTimeout ==
    ASSUME VoteLaws, NEW c, Good(c), NEW ti \in Ticks,
           ti.height < c.Height \/ (ti.height = c.Height /\ ti.round <= c.Round),
           ti.step = RoundStepPrecommitWait => ti.round + 1 \in Rounds,
           NEW e \in Env, NEW d, d = handleTimeout(c, ti, e)
    PROVE  Proceeds(c, d)
<1>1. c.Height \in Nat /\ c.Round \in Nat /\ 0 <= c.Round
  BY Numbers DEF Good
<1>2. /\ ti.height \in Nat /\ ti.round \in Rounds /\ ti.round \in Nat /\ ti.step \in TimedSteps
      /\ 0 \in Rounds
  BY MaxRoundAssumption DEF Ticks, Rounds
<1>3. CASE \/ ti.height # c.Height \/ ti.round < c.Round \/ (ti.round = c.Round /\ ti.step < c.Step)
  <2>1. d = c
    BY Zenon, <1>3 DEF handleTimeout
  <2> QED
    BY Zenon, <2>1, ProceedsRefl
<1>4. CASE ~(\/ ti.height # c.Height \/ ti.round < c.Round \/ (ti.round = c.Round /\ ti.step < c.Step))
  <2>1. ti.round <= c.Round
    BY <1>1, <1>2, <1>4
  <2>2. d = CASE ti.step = RoundStepNewHeight -> enterNewRound(c, 0, e)
              [] ti.step = RoundStepNewRound -> enterPropose(c, 0, e)
              [] ti.step = RoundStepPropose -> enterPrevote(c, ti.round, e)
              [] ti.step = RoundStepPrevoteWait -> enterPrecommit(c, ti.round, e)
              [] ti.step = RoundStepPrecommitWait ->
                     enterNewRound(enterPrecommit(c, ti.round, e), ti.round + 1, e)
    BY Zenon, <1>4 DEF handleTimeout
  <2>3. CASE ti.step = RoundStepNewHeight
    <3>1. d = enterNewRound(c, 0, e)
      BY <2>2, <2>3 DEF RoundStepNewHeight, RoundStepNewRound, RoundStepPropose, RoundStepPrevoteWait, RoundStepPrecommitWait
    <3> QED
      BY Zenon, <1>2, <3>1, EnterNewRound
  <2>4. CASE ti.step = RoundStepNewRound
    <3>1. d = enterPropose(c, 0, e)
      BY <2>2, <2>4 DEF RoundStepNewHeight, RoundStepNewRound, RoundStepPropose, RoundStepPrevoteWait, RoundStepPrecommitWait
    <3> QED
      BY Zenon, <1>1, <1>2, <3>1, EnterPropose
  <2>5. CASE ti.step = RoundStepPropose
    <3>1. d = enterPrevote(c, ti.round, e)
      BY <2>2, <2>5 DEF RoundStepNewHeight, RoundStepNewRound, RoundStepPropose, RoundStepPrevoteWait, RoundStepPrecommitWait
    <3> QED
      BY Zenon, <1>2, <2>1, <3>1, EnterPrevote
  <2>6. CASE ti.step = RoundStepPrevoteWait
    <3>1. d = enterPrecommit(c, ti.round, e)
      BY <2>2, <2>6 DEF RoundStepNewHeight, RoundStepNewRound, RoundStepPropose, RoundStepPrevoteWait, RoundStepPrecommitWait
    <3> QED
      BY Zenon, <1>2, <2>1, <3>1, EnterPrecommit
  <2>7. CASE ti.step = RoundStepPrecommitWait
    <3>1. PICK p, n : p = enterPrecommit(c, ti.round, e) /\ n = ti.round + 1
      BY Zenon
    <3>2. d = enterNewRound(p, n, e)
      BY <2>2, <2>7, <3>1 DEF RoundStepNewHeight, RoundStepNewRound, RoundStepPropose, RoundStepPrevoteWait, RoundStepPrecommitWait
    <3>3. Proceeds(c, p) /\ Good(p)
      BY Zenon, <1>2, <2>1, <3>1, EnterPrecommit DEF Proceeds
    <3>4. Proceeds(p, d)
      BY Zenon, <2>7, <3>1, <3>2, <3>3, EnterNewRound
    <3> QED
      BY Zenon, <3>3, <3>4, ProceedsTrans
  <2> QED
    BY Zenon, <1>2, <2>3, <2>4, <2>5, <2>6, <2>7 DEF TimedSteps
<1> QED
  BY Zenon, <1>3, <1>4

LEMMA HandleTxsAvailable ==
    ASSUME NEW c, Good(c), NEW e \in Env, NEW d, d = handleTxsAvailable(c, e)
    PROVE  Proceeds(c, d)
<1>1. 0 \in Rounds /\ 0 <= c.Round /\ RoundStepNewRound \in TimedSteps
  BY Numbers, MaxRoundAssumption DEF Good, Rounds, TimedSteps
<1>2. CASE d = c
  BY Zenon, <1>2, ProceedsRefl
<1>3. CASE d = scheduleTimeout(c, c.Height, 0, RoundStepNewRound)
  BY Zenon, <1>1, <1>3, Scheduled
<1>4. CASE d = enterPropose(c, 0, e)
  BY Zenon, <1>1, <1>4, EnterPropose
<1> QED
  BY Zenon, <1>2, <1>3, <1>4 DEF handleTxsAvailable

TakeClaim(c, t, r, peer, b) == [c EXCEPT !.Votes = SetPeerMaj23For(@, t, r, peer, b)]

\* A claim of a peer changes no vote.
LEMMA ClaimRecorded ==
    ASSUME VoteLaws, NEW c, Good(c), NEW t \in VoteTypes, NEW r \in Rounds, NEW peer \in Peers, NEW b \in Values,
           NEW d, d = TakeClaim(c, t, r, peer, b)
    PROVE  Advances(c, d)
<1>1. c \in States /\ VotesOK(c.Votes) /\ r \in 0 .. MaxRound /\ c.evpool \in PoolT /\ LastCommitOK(c) /\ EvidenceOK(c)
  BY Zenon DEF Good, RoundsOK, Rounds, States
<1>2. PICK S : S = SetPeerMaj23For(c.Votes, t, r, peer, b)
  BY Zenon
<1>3. VotesOK(S) /\ S.round = c.Votes.round /\ SameVotes(c.Votes, S)
  BY Zenon, <1>1, <1>2 DEF VoteLaws, ClaimLaw
<1>4. KeepsMajorities(c.Votes, S)
  BY Zenon, <1>3 DEF SameVotes, KeepsMajorities
<1>5. PICK E \in PoolT : E = c.evpool
  BY Zenon, <1>1
<1>6. d = RecordVote(c, S, E)
  BY Zenon, <1>1, <1>2, <1>5 DEF States, RecordVote, TakeClaim
<1>7. /\ Recorded(c, d) /\ d.LastCommit = c.LastCommit /\ d.blockStore = c.blockStore
      /\ d.Votes = S /\ d.evpool = c.evpool
  <2>1. Recorded(c, d) /\ d.LastCommit = c.LastCommit /\ d.blockStore = c.blockStore /\ d.Votes = S /\ d.evpool = E
    BY <1>3, <1>4, <1>6, VoteRecordedState
  <2> QED
    BY Zenon, <1>5, <2>1
<1>8. d.Height = c.Height
  BY Zenon, <1>7 DEF Recorded
<1>9. \A u \in VoteTypes, s \in Rounds, v \in Validators, x \in Values : Voted(d.Votes, u, s, v, x) => Voted(c.Votes, u, s, v, x)
  BY Zenon, <1>3, <1>7, TrackedRounds DEF SameVotes
<1>10. EvidenceOK(d)
  BY Zenon, <1>1, <1>7, <1>8, <1>9, SameEvidence
<1>11. LastCommitOK(d)
  BY Zenon, <1>1, <1>7, <1>8 DEF LastCommitOK
<1>12. Good(d)
  BY Zenon, <1>7, <1>10, <1>11, RecordedCommit, RecordedGood
<1>13. Moves(d, d) /\ Stays(d, d)
  BY Zenon, <1>12, ProceedsRefl, ProceedsMoves
<1> QED
  BY Zenon, <1>7, <1>12, <1>13, RecordedMoves
=============================================================================
