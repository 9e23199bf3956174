-------------------------- MODULE ConsensusTheorems --------------------------
(***************************************************************************)
(* Every step of ConsensusState keeps the invariant IInv of                 *)
(* ConsensusRoundProofs, and the properties of ConsensusState follow from   *)
(* it for any validators, powers, blocks, rounds and configurations.        *)
(***************************************************************************)
EXTENDS ConsensusStateProofs, VoteSetProofs, FiniteSetTheorems

-----------------------------------------------------------------------------
(***************************************************************************)
(* The invariant                                                           *)
(***************************************************************************)

Started(H, z, S, P, B, T, m, V, L, F, Q, K, A, E, G, J, N) ==
    [Height |-> H, Round |-> z, Step |-> S,
     Proposal |-> P, ProposalBlock |-> B, ProposalBlockParts |-> T,
     LockedRound |-> m, LockedBlock |-> B, ValidRound |-> m, ValidBlock |-> B,
     Votes |-> V, CommitRound |-> m, LastCommit |-> L, LastCommitRound |-> m,
     TriggeredTimeoutPrecommit |-> F, internalMsgQueue |-> Q, ticker |-> K,
     blockStore |-> A, evpool |-> E, signed |-> G, proposed |-> J, panicked |-> N]

LEMMA StartedState ==
    ASSUME NEW H \in HeightT, NEW z \in Rounds, NEW S \in StepT, NEW P \in ProposalT, NEW B \in BlockT,
           NEW T \in PartsT, NEW m \in RoundT, NEW V \in HeightVoteSets, NEW L \in LastCommitT, NEW F \in FlagT,
           NEW Q \in QueueT, NEW K \in Tickers, NEW A \in StoreT, NEW E \in PoolT, NEW G \in SignedT, NEW J \in ProposedT,
           NEW N \in PanicT
    PROVE  Started(H, z, S, P, B, T, m, V, L, F, Q, K, A, E, G, J, N) \in States
BY Zenon DEF States, Started

SetTicker(c, K) == [c EXCEPT !.ticker = K]

\* The state OnStart begins with, its timer armed for round 0.
LEMMA InitGood ==
    ASSUME VoteLaws
    PROVE  Good(scheduleRound0(NewState))
<1>1. PICK K : K = [ti |-> timeoutInfo(1, 0, RoundStepNewHeight), armed |-> TRUE, tocks |-> {}]
  BY Zenon
<1>2. ScheduleTimeout(NewTimeoutTicker, timeoutInfo(1, 0, RoundStepNewHeight)) = K
  <2>1. PICK n : n = timeoutInfo(1, 0, RoundStepNewHeight)
    BY Zenon
  <2>2. n.height = 1 /\ NewTimeoutTicker.ti.height = 0
    BY Zenon, <2>1 DEF timeoutInfo, NewTimeoutTicker
  <2>3. ~isOld(n, NewTimeoutTicker.ti)
    BY <2>2 DEF isOld
  <2>4. ScheduleTimeout(NewTimeoutTicker, n) = [NewTimeoutTicker EXCEPT !.ti = n, !.armed = TRUE]
    BY Zenon, <2>3 DEF ScheduleTimeout
  <2> QED
    BY Zenon, <1>1, <2>1, <2>4 DEF NewTimeoutTicker
<1>3. K \in Tickers /\ K.tocks = {} /\ K.ti.height = 1 /\ K.ti.round = 0
  <2>1. 0 \in Rounds /\ RoundStepNewHeight \in TimedSteps /\ 1 \in Nat
    BY MaxRoundAssumption DEF Rounds, TimedSteps
  <2>2. timeoutInfo(1, 0, RoundStepNewHeight) \in Ticks
    BY Zenon, <2>1 DEF timeoutInfo, Ticks
  <2> QED
    BY Zenon, <1>1, <2>2 DEF Tickers, timeoutInfo
<1>4. PICK d : d = Started(1, 0, RoundStepNewHeight, None, None, None, -1, NewHeightVoteSet, None, FALSE,
                           {}, K, <<>>, {}, {}, {}, "no")
  BY Zenon
<1>5. d = scheduleRound0(NewState)
  <2>1. NewState.Height = 1 /\ NewState.ticker = NewTimeoutTicker
    BY Zenon DEF NewState
  <2>3. NewState = Started(1, 0, RoundStepNewHeight, None, None, None, -1, NewHeightVoteSet, None, FALSE,
                           {}, NewTimeoutTicker, <<>>, {}, {}, {}, "no")
    BY Zenon DEF NewState, Started
  <2>2. scheduleRound0(NewState) = SetTicker(NewState, K)
    BY Zenon, <1>2, <2>1 DEF scheduleRound0, scheduleTimeout, SetTicker
  <2>4. PICK H, z, S, P, m, V, F, Q, A, k, N :
            /\ H = 1 /\ z = 0 /\ S = RoundStepNewHeight /\ P = None /\ m = -1 /\ V = NewHeightVoteSet
            /\ F = FALSE /\ Q = {} /\ A = <<>> /\ k = NewTimeoutTicker /\ N = "no"
    BY Zenon
  <2>5. /\ NewState = Started(H, z, S, P, P, P, m, V, P, F, Q, k, A, Q, Q, Q, N)
        /\ d = Started(H, z, S, P, P, P, m, V, P, F, Q, K, A, Q, Q, Q, N)
    BY Zenon, <1>4, <2>3, <2>4
  <2>6. SetTicker(Started(H, z, S, P, P, P, m, V, P, F, Q, k, A, Q, Q, Q, N), K)
           = Started(H, z, S, P, P, P, m, V, P, F, Q, K, A, Q, Q, Q, N)
    BY SMT DEF Started, SetTicker
  <2> QED
    BY Zenon, <2>2, <2>5, <2>6
<1>6. d \in States
  <2>1. 1 \in HeightT /\ 0 \in Rounds /\ RoundStepNewHeight \in StepT /\ -1 \in RoundT
    BY MaxRoundAssumption DEF HeightT, Rounds, StepT, RoundT, RoundStepNewHeight
  <2>2. /\ None \in ProposalT /\ None \in BlockT /\ None \in PartsT /\ None \in LastCommitT /\ FALSE \in FlagT
        /\ "no" \in PanicT
    BY Zenon DEF ProposalT, BlockT, PartsT, LastCommitT, FlagT, PanicT
  <2>3. {} \in QueueT /\ {} \in PoolT /\ {} \in SignedT /\ {} \in ProposedT
    BY Zenon DEF QueueT, PoolT, SignedT, ProposedT
  <2>4. <<>> \in StoreT
    BY DEF StoreT
  <2>5. NewHeightVoteSet \in HeightVoteSets
    BY Zenon DEF VoteLaws, NewVotesLaw, VotesOK
  <2>6. PICK H \in HeightT, z \in Rounds, S \in StepT, P \in ProposalT, B \in BlockT, T \in PartsT, m \in RoundT,
             V \in HeightVoteSets, L \in LastCommitT, F \in FlagT, Q \in QueueT, A \in StoreT, E \in PoolT,
             G \in SignedT, J \in ProposedT, N \in PanicT :
            /\ H = 1 /\ z = 0 /\ S = RoundStepNewHeight /\ P = None /\ B = None /\ T = None /\ m = -1
            /\ V = NewHeightVoteSet /\ L = None /\ F = FALSE /\ Q = {} /\ A = <<>> /\ E = {} /\ G = {} /\ J = {}
            /\ N = "no"
    BY Zenon, <2>1, <2>2, <2>3, <2>4, <2>5
  <2>7. d = Started(H, z, S, P, B, T, m, V, L, F, Q, K, A, E, G, J, N)
    BY Zenon, <1>4, <2>6
  <2>8. Started(H, z, S, P, B, T, m, V, L, F, Q, K, A, E, G, J, N) \in States
    BY SMT, <1>3, StartedState
  <2> QED
    BY Zenon, <2>7, <2>8
<1>7. /\ d.Height = 1 /\ d.Round = 0 /\ d.Step = RoundStepNewHeight /\ d.Proposal = None
      /\ d.ProposalBlock = None /\ d.LockedRound = -1 /\ d.LockedBlock = None
      /\ d.ValidRound = -1 /\ d.ValidBlock = None /\ d.Votes = NewHeightVoteSet
      /\ d.CommitRound = -1 /\ d.LastCommit = None /\ d.ticker = K
  BY Zenon, <1>4 DEF Started
<1>8. d.blockStore = <<>> /\ d.evpool = {} /\ d.signed = {} /\ d.proposed = {}
  BY Zenon, <1>4 DEF Started
<1>9. RoundsOK(d) /\ LockOK(d) /\ ValidOK(d)
  BY <1>7 DEF VoteLaws, NewVotesLaw, RoundsOK, LockOK, ValidOK
<1>10. SignedOK(d) /\ PrecommitsOK(d) /\ PrevotesOK(d) /\ ProposedOK(d)
  BY Zenon, <1>8 DEF SignedOK, PrecommitsOK, PrevotesOK, ProposedOK, Precommitted, Prevoted
<1>11. TicksOK(d)
  BY <1>3, <1>7 DEF TicksOK
<1>12. PartsOK(d)
  BY Zenon, <1>7, NilNoneAssumption DEF PartsOK
<1>13. LastCommitOK(d)
  BY <1>7 DEF LastCommitOK
<1>14. CommitOK(d)
  BY <1>7, <1>8 DEF CommitOK, RoundStepNewHeight, RoundStepCommit
<1>15. EvidenceOK(d)
  <2>1. Rounds \subseteq TrackableRounds
    BY Zenon, TrackedRounds
  <2> QED
    BY Zenon, <1>7, <1>8, <2>1 DEF VoteLaws, NewVotesLaw, EvidenceOK
<1> QED
  BY Zenon, <1>5, <1>6, <1>9, <1>10, <1>11, <1>12, <1>13, <1>14, <1>15 DEF Good

LEMMA PeerVoteStep ==
    ASSUME VoteLaws, IInv, NEW e \in config.Envs, NEW peer \in Peers \ {Me},
           NEW v \in [type : VoteTypes, height : 0 .. MaxHeight, round : 0 .. config.LastRound,
                      val : Validators \ {Me}, block : config.PeerValues],
           PeerVote(v, peer, e)
    PROVE  Advances(cs, cs')
<1>1. IsConfig(config) /\ Good(cs)
  BY Zenon, ConstantsAssumption DEF IInv
<1>2. v \in Vote /\ e \in Env
  BY <1>1, MaxRoundAssumption, ConstantsAssumption DEF Vote, IsConfig, Rounds, Heights
<1>3. Honest(cs, v)
  BY Zenon DEF PeerVote, Honest, Slot
<1>4. cs' = addVote(cs, v, peer, e)
  BY Zenon DEF PeerVote
<1> QED
  BY Zenon, <1>1, <1>2, <1>3, <1>4, AddsVote

LEMMA PeerProposalStep ==
    ASSUME VoteLaws, IInv, NEW e \in config.Envs, NEW q \in config.PeerProposals, NEW r \in 0 .. config.LastRound,
           PeerProposal([height |-> cs.Height, round |-> r, block |-> q.block, pol |-> q.pol,
                         timestamp |-> q.timestamp, timely |-> q.timely], e)
    PROVE  Advances(cs, cs')
<1>1. IsConfig(config) /\ Good(cs) /\ cs \in States
  BY Zenon, ConstantsAssumption DEF IInv, Good
<1>2. PICK p : p = [height |-> cs.Height, round |-> r, block |-> q.block, pol |-> q.pol,
                    timestamp |-> q.timestamp, timely |-> q.timely]
  BY Zenon
<1>3. p \in Proposal /\ e \in Env
  <2>1. cs.Height \in Nat
    BY Zenon, <1>1, Numbers
  <2>2. r \in Rounds
    BY <1>1, MaxRoundAssumption DEF IsConfig, Rounds
  <2>3. /\ q.block \in Blocks /\ q.timely \in BOOLEAN /\ q.pol \in -1 .. MaxRound /\ q.timestamp \in Nat
        /\ e \in Env
    BY Zenon, <1>1 DEF IsConfig
  <2> QED
    BY Zenon, <1>2, <2>1, <2>2, <2>3 DEF Proposal
<1>4. cs' = handleProposalMsg(cs, p, e)
  BY Zenon, <1>2 DEF PeerProposal
<1> QED
  BY Zenon, <1>1, <1>3, <1>4, HandleProposal, MovesAdvances

LEMMA PeerBlockPartStep ==
    ASSUME VoteLaws, IInv, NEW e \in config.Envs, NEW b \in Blocks, PeerBlockPart(b, e)
    PROVE  Advances(cs, cs')
<1>1. IsConfig(config) /\ Good(cs) /\ e \in Env
  BY Zenon, ConstantsAssumption DEF IInv, IsConfig
<1>2. cs' = handleBlockPartMsg(cs, b, cs.Height, e)
  BY Zenon DEF PeerBlockPart
<1> QED
  BY Zenon, <1>1, <1>2, HandleBlockPart, MovesAdvances

LEMMA PeerMaj23Step ==
    ASSUME VoteLaws, IInv, NEW t \in VoteTypes, NEW r \in 0 .. config.LastRound, NEW peer \in Peers \ {Me},
           NEW b \in config.PeerClaims, PeerMaj23(t, r, peer, b)
    PROVE  Advances(cs, cs')
<1>1. IsConfig(config) /\ Good(cs)
  BY Zenon, ConstantsAssumption DEF IInv
<1>2. r \in Rounds /\ b \in Values /\ peer \in Peers
  BY <1>1, MaxRoundAssumption DEF IsConfig, Rounds
<1>3. cs' = TakeClaim(cs, t, r, peer, b)
  BY Zenon DEF PeerMaj23, TakeClaim
<1> QED
  BY Zenon, <1>1, <1>2, <1>3, ClaimRecorded

\* The vote, the proposal or the part of an own message.
LEMMA OwnMessageParts ==
    ASSUME NEW msg \in OwnMessage
    PROVE  \/ "vote" \in DOMAIN msg /\ msg.vote \in Vote /\ msg.vote.val = Me /\ msg.vote.height > 0
           \/ "vote" \notin DOMAIN msg /\ "proposal" \in DOMAIN msg /\ msg.proposal \in Proposal
           \/ /\ "vote" \notin DOMAIN msg /\ "proposal" \notin DOMAIN msg /\ "part" \in DOMAIN msg
              /\ msg.part \in Blocks
<1>1. CASE msg \in [vote : OwnVote]
  <2>1. "vote" \in DOMAIN msg /\ msg.vote \in OwnVote
    BY Zenon, <1>1
  <2> QED
    BY Zenon, <2>1 DEF OwnVote
<1>2. CASE msg \in [proposal : Proposal]
  BY Zenon, <1>2
<1>3. CASE msg \in [part : Blocks, height : Nat]
  BY Zenon, <1>3
<1> QED
  BY Zenon, <1>1, <1>2, <1>3 DEF OwnMessage

LEMMA InternalMsgStep ==
    ASSUME VoteLaws, IInv, NEW e \in config.Envs, NEW msg \in cs.internalMsgQueue, InternalMsg(msg, e)
    PROVE  Advances(cs, cs')
<1>1. IsConfig(config) /\ Good(cs) /\ e \in Env /\ cs \in States /\ Me \in Peers
  BY Zenon, ConstantsAssumption DEF IInv, IsConfig, Good
<1>2. PICK c : c = TakeMessage(cs, msg)
  BY Zenon
<1>3. Proceeds(cs, c) /\ Good(c)
  BY Zenon, <1>1, <1>2, MessageTaken
<1>4. msg \in OwnMessage
  BY Zenon, <1>1, FieldTypes
<1>5. cs' = CASE "vote" \in DOMAIN msg -> addVote(c, msg.vote, Me, e)
              [] "proposal" \in DOMAIN msg -> handleProposalMsg(c, msg.proposal, e)
              [] "part" \in DOMAIN msg -> handleBlockPartMsg(c, msg.part, msg.height, e)
  BY Zenon, <1>2 DEF InternalMsg, TakeMessage
<1>6. CASE "vote" \in DOMAIN msg /\ msg.vote \in Vote /\ msg.vote.val = Me /\ msg.vote.height > 0
  <2>1. cs' = addVote(c, msg.vote, Me, e)
    BY <1>4, <1>5, <1>6 DEF OwnMessage
  <2>2. Honest(c, msg.vote)
    BY Zenon, <1>6 DEF Honest
  <2>3. Advances(c, cs')
    BY Zenon, <1>1, <1>3, <1>6, <2>1, <2>2, AddsVote
  <2> QED
    BY Zenon, <1>1, <1>3, <2>3, ProceedsAdvances
<1>7. CASE "vote" \notin DOMAIN msg /\ "proposal" \in DOMAIN msg /\ msg.proposal \in Proposal
  <2>1. cs' = handleProposalMsg(c, msg.proposal, e)
    BY <1>4, <1>5, <1>7 DEF OwnMessage
  <2>2. Advances(c, cs')
    BY Zenon, <1>1, <1>3, <1>7, <2>1, HandleProposal, MovesAdvances
  <2> QED
    BY Zenon, <1>1, <1>3, <2>2, ProceedsAdvances
<1>8. CASE /\ "vote" \notin DOMAIN msg /\ "proposal" \notin DOMAIN msg /\ "part" \in DOMAIN msg
           /\ msg.part \in Blocks
  <2>1. cs' = handleBlockPartMsg(c, msg.part, msg.height, e)
    BY Zenon, <1>5, <1>8
  <2>2. Advances(c, cs')
    BY Zenon, <1>1, <1>3, <1>8, <2>1, HandleBlockPart, MovesAdvances
  <2> QED
    BY Zenon, <1>1, <1>3, <2>2, ProceedsAdvances
<1> QED
  BY Zenon, <1>4, <1>6, <1>7, <1>8, OwnMessageParts

LEMMA TimeoutStep ==
    ASSUME VoteLaws, IInv, NEW e \in config.Envs, NEW ti \in cs.ticker.tocks, Timeout(ti, e)
    PROVE  Advances(cs, cs')
<1>1. IsConfig(config) /\ Good(cs) /\ e \in Env /\ cs \in States
  BY Zenon, ConstantsAssumption DEF IInv, IsConfig, Good
<1>2. PICK c : c = [cs EXCEPT !.ticker = take(@, ti)]
  BY Zenon
<1>3. Proceeds(cs, c) /\ Good(c) /\ c.Height = cs.Height /\ c.Round = cs.Round
  BY Zenon, <1>1, <1>2, TimeoutTaken
<1>4. ti \in Ticks /\ ti.round \in Rounds
  BY Zenon, <1>1, TickTypes
<1>5. ti.height < c.Height \/ (ti.height = c.Height /\ ti.round <= c.Round)
  <2>1. ti.height < cs.Height \/ (ti.height = cs.Height /\ ti.round <= cs.Round)
    BY Zenon, <1>1 DEF Good, TicksOK
  <2> QED
    BY Zenon, <1>3, <2>1
<1>6. ti.step = RoundStepPrecommitWait => ti.round + 1 \in Rounds
  <2>1. (ti.step = RoundStepPrecommitWait => ti.round < config.LastRound) /\ config.LastRound \in Rounds
    BY Zenon, <1>1 DEF Timeout, IsConfig
  <2> QED
    BY <1>4, <2>1, MaxRoundAssumption DEF Rounds
<1>7. cs' = handleTimeout(c, ti, e)
  BY Zenon, <1>2 DEF Timeout
<1>8. Proceeds(c, cs')
  BY Zenon, <1>1, <1>3, <1>4, <1>5, <1>6, <1>7, HandleTimeout
<1> QED
  BY Zenon, <1>1, <1>3, <1>8, ProceedsTrans, ProceedsStep

LEMMA TxsAvailableStep ==
    ASSUME IInv, NEW e \in config.Envs, TxsAvailable(e)
    PROVE  Advances(cs, cs')
<1>1. IsConfig(config) /\ Good(cs) /\ e \in Env
  BY Zenon, ConstantsAssumption DEF IInv, IsConfig
<1>2. cs' = handleTxsAvailable(cs, e)
  BY Zenon DEF TxsAvailable
<1> QED
  BY Zenon, <1>1, <1>2, HandleTxsAvailable, ProceedsStep

LEMMA TimerElapsesStep ==
    ASSUME IInv, TimerElapses
    PROVE  Advances(cs, cs')
<1>1. Good(cs)
  BY Zenon DEF IInv
<1>2. cs' = [cs EXCEPT !.ticker = elapse(@)]
  BY Zenon DEF TimerElapses
<1> QED
  BY Zenon, <1>1, <1>2, TimerElapsed, ProceedsStep

\* Every step leaves the configuration alone, and starts from a node that runs.
LEMMA NextAdvances ==
    ASSUME IInv, Next
    PROVE  Advances(cs, cs') /\ config' = config /\ cs.panicked = "no"
<1>1. VoteLaws
  BY Zenon, VoteLawsHold
<1>2. ASSUME NEW e \in config.Envs, NEW peer \in Peers \ {Me},
             NEW v \in [type : VoteTypes, height : 0 .. MaxHeight, round : 0 .. config.LastRound,
                        val : Validators \ {Me}, block : config.PeerValues],
             PeerVote(v, peer, e)
      PROVE  Advances(cs, cs') /\ config' = config /\ cs.panicked = "no"
  BY Zenon, <1>1, <1>2, PeerVoteStep DEF PeerVote, Listening, Running
<1>3. ASSUME NEW e \in config.Envs, NEW q \in config.PeerProposals, NEW r \in 0 .. config.LastRound,
             PeerProposal([height |-> cs.Height, round |-> r, block |-> q.block, pol |-> q.pol,
                           timestamp |-> q.timestamp, timely |-> q.timely], e)
      PROVE  Advances(cs, cs') /\ config' = config /\ cs.panicked = "no"
  <2>1. Advances(cs, cs')
    BY Zenon, <1>1, <1>3, PeerProposalStep
  <2> QED
    BY Zenon, <1>3, <2>1 DEF PeerProposal, Listening, Running
<1>4. ASSUME NEW e \in config.Envs, NEW b \in Blocks, PeerBlockPart(b, e)
      PROVE  Advances(cs, cs') /\ config' = config /\ cs.panicked = "no"
  BY Zenon, <1>1, <1>4, PeerBlockPartStep DEF PeerBlockPart, Listening, Running
<1>5. ASSUME NEW e \in config.Envs, NEW msg \in cs.internalMsgQueue, InternalMsg(msg, e)
      PROVE  Advances(cs, cs') /\ config' = config /\ cs.panicked = "no"
  <2>1. Advances(cs, cs')
    BY Zenon, <1>1, <1>5, InternalMsgStep
  <2> QED
    BY Zenon, <1>5, <2>1 DEF InternalMsg, Running
<1>6. ASSUME NEW e \in config.Envs, NEW ti \in cs.ticker.tocks, Timeout(ti, e)
      PROVE  Advances(cs, cs') /\ config' = config /\ cs.panicked = "no"
  BY Zenon, <1>1, <1>6, TimeoutStep DEF Timeout, Running
<1>7. ASSUME NEW e \in config.Envs, TxsAvailable(e)
      PROVE  Advances(cs, cs') /\ config' = config /\ cs.panicked = "no"
  BY Zenon, <1>7, TxsAvailableStep DEF TxsAvailable, Listening, Running
<1>8. ASSUME NEW t \in VoteTypes, NEW r \in 0 .. config.LastRound, NEW peer \in Peers \ {Me},
             NEW b \in config.PeerClaims, PeerMaj23(t, r, peer, b)
      PROVE  Advances(cs, cs') /\ config' = config /\ cs.panicked = "no"
  BY Zenon, <1>1, <1>8, PeerMaj23Step DEF PeerMaj23, Listening, Running
<1>9. ASSUME TimerElapses
      PROVE  Advances(cs, cs') /\ config' = config /\ cs.panicked = "no"
  BY Zenon, <1>9, TimerElapsesStep DEF TimerElapses, Listening, Running
<1> QED
  BY Zenon, <1>2, <1>3, <1>4, <1>5, <1>6, <1>7, <1>8, <1>9 DEF Next

\* The invariant is preserved.
LEMMA Inductive ==
    ASSUME IInv, [Next]_vars
    PROVE  IInv'
<1>1. CASE Next
  <2>1. config' = config /\ Good(cs')
    BY Zenon, <1>1, NextAdvances DEF Advances
  <2> QED
    BY Zenon, <2>1 DEF IInv, Good, PartsOK
<1>2. CASE UNCHANGED vars
  BY Zenon, <1>2 DEF vars, IInv, Good, PartsOK
<1> QED
  BY Zenon, <1>1, <1>2

LEMMA InvariantHolds == Spec => []IInv
<1>1. Init => IInv
  BY Zenon, InitGood, VoteLawsHold DEF Init, IInv
<1>2. IInv /\ [Next]_vars => IInv'
  BY Zenon, Inductive
<1> QED
  BY <1>1, <1>2, PTL DEF Spec

-----------------------------------------------------------------------------
(***************************************************************************)
(* Theorems                                                                *)
(***************************************************************************)

\* The round state of state.go keeps its types in every configuration: rounds,
\* steps, vote sets, messages of the queue and timeouts.
THEOREM StateTyped == Spec => [](cs \in States /\ config \in Config)
<1>1. IInv => cs \in States /\ config \in Config
  BY Zenon DEF IInv, Good
<1> QED
  BY <1>1, InvariantHolds, PTL

LEMMA PrecommittedNowIs ==
    PrecommittedNow = Precommitted(cs) /\ \A r : Polka(r) = PolkaOf(cs, r)
BY Zenon DEF PrecommittedNow, SignedNow, Precommitted, Polka, PolkaOf, Majority, Prevotes

\* enterPrecommit signs a precommit for a block only with a polka for that block
\* in the round the vote carries.
THEOREM PrecommitsHavePolkas == Spec => []PrecommitHasPolka
<1>1. IInv => PrecommitHasPolka
  BY Zenon, PrecommittedNowIs DEF IInv, Good, PrecommitsOK, PrecommitHasPolka
<1> QED
  BY <1>1, InvariantHolds, PTL

\* defaultDoPrevote prevotes against an earlier precommit only on a polka of that
\* round or a later one, whatever the peers send.
THEOREM PrevotesAreJustified == Spec => []PrevoteJustified
<1>1. ASSUME IInv
      PROVE  PrevoteJustified
  <2>1. PrevotesOK(cs)
    BY Zenon, <1>1 DEF IInv, Good
  <2>2. SUFFICES ASSUME NEW v \in PrecommittedNow, NEW w \in SignedNow, w.type = "prevote",
                        w.block \in Blocks \ {v.block}, v.round < w.round
                 PROVE  \E pr \in v.round .. w.round - 1 : Polka(pr) = w.block
    BY Zenon DEF PrevoteJustified
  <2>3. v \in Precommitted(cs) /\ w \in Prevoted(cs) /\ w.block # v.block
    BY Zenon, <2>2, PrecommittedNowIs DEF SignedNow, Prevoted
  <2>4. \E pr \in v.round .. w.round - 1 : PolkaOf(cs, pr) = w.block
    BY Zenon, <2>1, <2>2, <2>3 DEF PrevotesOK
  <2> QED
    BY Zenon, <2>4, PrecommittedNowIs
<1> QED
  BY <1>1, InvariantHolds, PTL

\* LockedRound and LockedBlock are those of the last precommit for a block, and the
\* POLRound of an own proposal has its polka.
THEOREM LockIsLastPrecommit == Spec => []LockCoversPrecommits
<1>1. ASSUME IInv
      PROVE  LockCoversPrecommits
  <2>1. cs \in States /\ LockOK(cs) /\ PrecommitsOK(cs) /\ ProposedOK(cs)
    BY Zenon, <1>1 DEF IInv, Good
  <2>2. ASSUME NEW v \in PrecommittedNow
        PROVE  v.round <= cs.LockedRound /\ (v.round = cs.LockedRound => v.block = cs.LockedBlock)
    <3>1. v \in Precommitted(cs) /\ v \in cs.signed
      BY Zenon, PrecommittedNowIs DEF Precommitted
    <3>2. v.round <= cs.LockedRound /\ PolkaOf(cs, v.round) = v.block /\ v.round >= 0
      BY <2>1, <3>1, OwnVotes DEF PrecommitsOK
    <3> QED
      BY Zenon, <2>1, <3>2 DEF LockOK
  <2>3. cs.LockedRound >= 0 => Polka(cs.LockedRound) = cs.LockedBlock
    BY Zenon, <2>1, PrecommittedNowIs DEF LockOK
  <2>4. \A p \in cs.proposed : p.height = cs.Height /\ p.pol >= 0 => Polka(p.pol) = p.block
    BY Zenon, <2>1, PrecommittedNowIs DEF ProposedOK
  <2> QED
    BY Zenon, <2>2, <2>3, <2>4 DEF LockCoversPrecommits
<1> QED
  BY <1>1, InvariantHolds, PTL

\* A set of more than one member has two.
LEMMA TwoMembers ==
    ASSUME NEW S, Cardinality(S) > 1
    PROVE  \E a, b \in S : a # b
<1>1. CASE S = {}
  <2>1. Cardinality(S) = 0
    BY Zenon, <1>1, FS_EmptySet
  <2> QED
    BY <2>1
<1>2. CASE S # {}
  <2>1. PICK a \in S : TRUE
    BY Zenon, <1>2
  <2>2. CASE S = {a}
    <3>1. Cardinality(S) = 1
      BY Zenon, <2>2, FS_Singleton
    <3> QED
      BY <3>1
  <2>3. CASE S # {a}
    BY Zenon, <2>1, <2>3
  <2> QED
    BY Zenon, <2>2, <2>3
<1> QED
  BY Zenon, <1>1, <1>2

\* tryAddVote reports exactly the validators that signed conflicting votes, whatever
\* the order of the votes and the majority claims that make both of them count.
THEOREM EvidenceExact == Spec => []EvidenceIsExact
<1>1. ASSUME IInv
      PROVE  EvidenceIsExact
  <2>1. EvidenceOK(cs) /\ VotesOK(cs.Votes)
    BY Zenon, <1>1 DEF IInv, Good, RoundsOK
  <2>2. ASSUME NEW t \in VoteTypes, NEW r \in Rounds, NEW v \in Validators \ {Me},
               NEW set, set = getVoteSet(cs.Votes, r, t), set # None,
               Cardinality({b \in Values : CountedFor(set, v, b)}) > 1
        PROVE  \E x \in cs.evpool : x.val = v /\ x.type = t /\ x.height = cs.Height /\ x.round = r
    <3>1. r \in TrackableRounds
      BY Zenon, TrackedRounds
    <3>2. cs.Votes.roundVoteSets[r] # None /\ set = cs.Votes.roundVoteSets[r][t]
      BY Zenon, <2>2, <3>1 DEF getVoteSet
    <3>3. PICK a, b \in {b \in Values : CountedFor(set, v, b)} : a # b
      BY Zenon, <2>2, TwoMembers
    <3>4. a \in Values /\ b \in Values /\ Voted(cs.Votes, t, r, v, a) /\ Voted(cs.Votes, t, r, v, b)
      BY Zenon, <3>2, <3>3 DEF Voted
    <3> QED
      BY <2>1, <3>3, <3>4 DEF EvidenceOK
  <2> QED
    BY <2>1, <2>2 DEF EvidenceIsExact, EvidenceOK
<1> QED
  BY <1>1, InvariantHolds, PTL

\* State.signVote asks for signatures in order: a new vote of this validator is of a
\* later height, round or step than all it has signed, so no two conflict.
THEOREM VotesAreInOrder == Spec => VotesInOrder
<1>1. ASSUME IInv, [Next]_vars
      PROVE  [Later(cs, cs')]_cs
  <2>1. CASE Next
    BY Zenon, <1>1, <2>1, NextAdvances DEF Advances
  <2>2. CASE UNCHANGED vars
    BY Zenon, <2>2 DEF vars
  <2> QED
    BY Zenon, <1>1, <2>1, <2>2
<1>2. Spec => [][Later(cs, cs')]_cs
  BY <1>1, InvariantHolds, PTL DEF Spec
<1> QED
  BY <1>2, PTL DEF VotesInOrder, Later

\* Where the machine starts.
LEMMA InitFields ==
    ASSUME Init
    PROVE  cs.Height = 1 /\ cs.Step = RoundStepNewHeight /\ cs.panicked = "no"
BY Zenon DEF Init, scheduleRound0, scheduleTimeout, NewState

\* None of the checks that the state functions make of their own state and answer with
\* a panic ever fails (enterPrevoteWait, enterPrecommit, enterPrecommitWait, enterCommit,
\* finalizeCommit, SetRound), in any order of messages and timeouts and whatever the
\* other validators vote for.
THEOREM NeverPanics == Spec => []NoPanic
<1>1. Init => NoPanic
  BY InitFields DEF NoPanic
<1>2. ASSUME IInv, NoPanic, [Next]_vars
      PROVE  NoPanic'
  <2>1. CASE Next
    BY Zenon, <1>2, <2>1, NextAdvances DEF Advances, NoPanic
  <2>2. CASE UNCHANGED vars
    BY Zenon, <1>2, <2>2 DEF vars, NoPanic
  <2> QED
    BY Zenon, <1>2, <2>1, <2>2
<1> QED
  BY <1>1, <1>2, InvariantHolds, PTL DEF Spec

\* Agreement among the majorities of precommits that this node counts at one height,
\* and with the one that is complete when it leaves the height: TendermintVoting shows
\* it for validators of which less than a third of the power is faulty.
CommitsAgree ==
    \A r, s \in TrackableRounds :
        CommitOf(cs, r) \in Blocks /\ CommitOf(cs, s) \in Blocks => CommitOf(cs, r) = CommitOf(cs, s)

LeavesWithCommit ==
    cs'.Height # cs.Height =>
        \A r \in TrackableRounds : CommitOf(cs, r) \in Blocks => CommitOf(cs, r) = TwoThirdsMajority(cs'.LastCommit)

StoredHasQuorum == cs.Height > 1 => TwoThirdsMajority(cs.LastCommit) = cs.blockStore[cs.Height - 1]

\* A step keeps the stored blocks and the commits they were stored with together.
LEMMA StoredKept ==
    ASSUME IInv, StoredHasQuorum, Next, [LeavesWithCommit]_cs
    PROVE  StoredHasQuorum'
<1>1. Advances(cs, cs') /\ Good(cs)
  BY Zenon, NextAdvances DEF IInv
<1>2. cs.Height \in Nat \ {0} /\ cs.blockStore \in Seq(Blocks) /\ CommitOK(cs)
  BY Zenon, <1>1, FieldTypes, Numbers DEF Good
<1>3. CASE cs'.Height = cs.Height
  <2>1. cs.Height > 1 => TwoThirdsMajority(cs'.LastCommit) = TwoThirdsMajority(cs.LastCommit)
    BY <1>1, <1>2, <1>3 DEF Advances
  <2>2. \A i \in 1 .. cs.Height - 1 : cs'.blockStore[i] = cs.blockStore[i]
    BY <1>1, <1>2, <1>3 DEF Advances
  <2>3. cs.Height > 1 => cs.Height - 1 \in 1 .. cs.Height - 1
    BY <1>2
  <2> QED
    BY Zenon, <1>3, <2>1, <2>2, <2>3 DEF StoredHasQuorum
<1>4. CASE cs'.Height # cs.Height
  <2>1. cs'.Height = cs.Height + 1
    BY Zenon, <1>1, <1>4 DEF Advances
  <2>2. cs'.blockStore[cs.Height] = IF Len(cs.blockStore) = cs.Height THEN cs.blockStore[cs.Height]
                                    ELSE TwoThirdsMajority(cs'.LastCommit)
    BY Zenon, <1>1, <1>4 DEF Advances
  <2>3. ASSUME Len(cs.blockStore) = cs.Height
        PROVE  cs.blockStore[cs.Height] = TwoThirdsMajority(cs'.LastCommit)
    <3>1. cs.blockStore[cs.Height] \in Blocks
      BY <1>2, <2>3
    <3>2. LeavesWithCommit
      BY Zenon, <1>4
    <3> QED
      BY Zenon, <1>2, <1>4, <2>3, <3>1, <3>2 DEF CommitOK, LeavesWithCommit
  <2>4. cs'.blockStore[cs.Height] = TwoThirdsMajority(cs'.LastCommit)
    BY Zenon, <2>2, <2>3
  <2>5. cs'.Height - 1 = cs.Height
    BY <1>2, <2>1
  <2> QED
    BY Zenon, <2>4, <2>5 DEF StoredHasQuorum
<1> QED
  BY Zenon, <1>3, <1>4

\* finalizeCommit saves a block only with a +2/3 majority of precommits for it, and the
\* next height starts from that commit (updateToState), as long as the commits of a
\* height agree.
THEOREM CommitsHaveQuorums == Spec /\ []CommitsAgree /\ [][LeavesWithCommit]_cs => []CommitHasQuorum
<1>1. Init => StoredHasQuorum
  BY InitFields DEF StoredHasQuorum
<1>2. ASSUME IInv, StoredHasQuorum, [Next]_vars, [LeavesWithCommit]_cs
      PROVE  StoredHasQuorum'
  <2>1. CASE UNCHANGED vars
    BY Zenon, <1>2, <2>1 DEF vars, StoredHasQuorum
  <2> QED
    BY Zenon, <1>2, <2>1, StoredKept
<1>3. ASSUME IInv, StoredHasQuorum, CommitsAgree
      PROVE  CommitHasQuorum
  <2>1. CommitOK(cs)
    BY Zenon, <1>3 DEF IInv, Good
  <2>2. ASSUME Len(cs.blockStore) = cs.Height
        PROVE  TwoThirdsMajority(Precommits(cs.Votes, cs.CommitRound)) = cs.blockStore[cs.Height]
    <3>1. PICK r \in TrackableRounds : CommitOf(cs, r) = cs.blockStore[cs.Height]
      BY Zenon, <2>1, <2>2 DEF CommitOK
    <3>2. cs.CommitRound >= 0 /\ CommitOf(cs, cs.CommitRound) \in Blocks
      BY Zenon, <2>1, <2>2 DEF CommitOK
    <3>3. cs.Height \in Nat \ {0} /\ cs.blockStore \in Seq(Blocks)
      BY Zenon, <1>3, FieldTypes, Numbers DEF IInv, Good
    <3>4. cs.blockStore[cs.Height] \in Blocks
      BY <2>2, <3>3
    <3>5. cs.CommitRound \in TrackableRounds
      <4>1. cs.CommitRound \in Int /\ cs.CommitRound <= cs.Round /\ cs.Round \in Rounds
        BY Zenon, <1>3, CommitRounds DEF IInv
      <4> QED
        BY <3>2, <4>1, TrackedRounds, MaxRoundAssumption DEF Rounds
    <3>6. CommitOf(cs, cs.CommitRound) = cs.blockStore[cs.Height]
      BY Zenon, <1>3, <3>1, <3>2, <3>4, <3>5 DEF CommitsAgree
    <3> QED
      BY Zenon, <3>6 DEF CommitOf, Majority, Precommits
  <2> QED
    BY Zenon, <1>3, <2>1, <2>2 DEF CommitHasQuorum, CommitOK, StoredHasQuorum
<1> QED
  BY <1>1, <1>2, <1>3, InvariantHolds, PTL DEF Spec

\* The polkas of the committed round and of later ones are for the committed block,
\* which the locks of the validators that precommitted it see to (TendermintVoting's
\* CommitBlocksLaterPolkas), and blocks travel as parts.
CommitIsFetchable == ~config.GossipTransactionKeyOnly /\ PolkasFollow(cs)

\* In the Commit step the node always has the block with +2/3 precommits or a part set
\* for it that gossip can fill (enterCommit, addProposalBlockPart, addVote, defaultSetProposal).
THEOREM CommitIsFetched == Spec /\ []CommitIsFetchable => []CommitFetchesBlock
<1>1. Init => FetchOK(cs)
  BY InitFields DEF FetchOK, RoundStepNewHeight, RoundStepCommit
<1>2. ASSUME IInv, FetchOK(cs), [Next]_vars, CommitIsFetchable, CommitIsFetchable'
      PROVE  FetchOK(cs)'
  <2>1. CASE Next
    BY Zenon, <1>2, <2>1, NextAdvances DEF Advances, Fetches, CommitIsFetchable
  <2>2. CASE UNCHANGED vars
    BY Zenon, <1>2, <2>2 DEF vars
  <2> QED
    BY Zenon, <1>2, <2>1, <2>2
<1>3. FetchOK(cs) => CommitFetchesBlock
  BY Zenon DEF FetchOK, CommitFetchesBlock, CommitOf, Majority, Precommits
<1> QED
  BY <1>1, <1>2, <1>3, InvariantHolds, PTL DEF Spec
=============================================================================
