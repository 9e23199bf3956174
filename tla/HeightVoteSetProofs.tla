------------------------ MODULE HeightVoteSetProofs ------------------------
(***************************************************************************)
(* The properties of HeightVoteSetMachine for any validators, voting powers, *)
(* blocks, peers and rounds.  Everything about single calls comes from       *)
(* VoteSetProofs; here it is carried through behaviours.                     *)
(***************************************************************************)
EXTENDS HeightVoteSetMachine, VoteSetProofs, FiniteSetTheorems

\* The inductive invariant: the sets are sound, follow the round of the state, and
\* hold exactly the votes that were reported as added.
IInv ==
    /\ TypeOK /\ VotesOK(hvs)
    /\ hvs.round = round + 1
    /\ \A t \in VoteTypes, r \in TrackableRounds, v \in Validators, b \in Values :
          /\ Voted(hvs, t, r, v, b) <=> <<t, r, v, b>> \in counted
          /\ <<t, r, v, b>> \in backed => Majority(hvs, t, r) = b \/ Voted(hvs, t, r, v, b)

LEMMA InitIInv == Init => IInv
<1> SUFFICES ASSUME Init PROVE IInv
  BY Zenon
<1>1. VotesOK(hvs) /\ hvs.round = 0 /\ round = -1 /\ counted = {} /\ backed = {} /\ inputs \in Inputs
  BY Zenon, NewVotesOK DEF Init
<1>2. TypeOK
  BY <1>1, VotesType, MaxRoundAssumption DEF TypeOK
<1>3. \A t \in VoteTypes, r \in TrackableRounds, v \in Validators, b \in Values : ~Voted(hvs, t, r, v, b)
  BY Zenon, NewVotesOK DEF Init
<1> QED
  BY <1>1, <1>2, <1>3 DEF IInv

\* Claims and new rounds move no vote.
LEMMA SameVotesStep ==
    ASSUME IInv, VotesOK(hvs'), SameVotes(hvs, hvs'), hvs'.round = round' + 1, round' \in -1 .. MaxRound,
           UNCHANGED <<counted, backed, inputs>>
    PROVE  IInv'
<1>1. TypeOK'
  <2>1. hvs' \in HeightVoteSets
    BY Zenon DEF VotesOK
  <2> QED
    BY Zenon, <2>1 DEF IInv, TypeOK
<1>2. ASSUME NEW t \in VoteTypes, NEW r \in TrackableRounds, NEW v \in Validators, NEW b \in Values
      PROVE  /\ Voted(hvs', t, r, v, b) <=> <<t, r, v, b>> \in counted'
             /\ <<t, r, v, b>> \in backed' => Majority(hvs', t, r) = b \/ Voted(hvs', t, r, v, b)
  <2>1. Voted(hvs', t, r, v, b) <=> Voted(hvs, t, r, v, b)
    BY Zenon DEF SameVotes
  <2>2. Majority(hvs', t, r) = Majority(hvs, t, r)
    BY Zenon, RoundsAreInts DEF SameVotes
  <2> QED
    BY Zenon, <2>1, <2>2 DEF IInv
<1> QED
  BY Zenon, <1>1, <1>2 DEF IInv

LEMMA VoteStep ==
    ASSUME IInv, NEW t \in VoteTypes, NEW r \in 0 .. MaxRound, NEW v \in Validators, NEW b \in Values,
           NEW p \in Peers, Vote(t, r, v, b, p)
    PROVE  IInv'
<1>1. PICK result : result = AddVoteFrom(hvs, t, r, v, b, p)
  BY Zenon
<1>2. VoteAdded(hvs, t, r, v, b, result.set, result.added, result.conflicting) /\ r \in TrackableRounds /\ r \in Int
  BY Zenon, <1>1, AddVoteFromOK, RoundsAreInts DEF IInv
<1>3. /\ hvs' = result.set /\ round' = round /\ inputs' = inputs
      /\ counted' = IF result.added THEN counted \cup {<<t, r, v, b>>} ELSE counted
      /\ backed' = IF getVoteSet(hvs, r, t) # None /\ b \in Claimed(getVoteSet(hvs, r, t))
                   THEN backed \cup {<<t, r, v, b>>} ELSE backed
  BY Zenon, <1>1 DEF Vote
<1>4. TypeOK'
  <2>1. hvs' \in HeightVoteSets
    BY Zenon, <1>2, <1>3 DEF VoteAdded, VotesOK
  <2>2. <<t, r, v, b>> \in VoteTypes \X (0 .. MaxRound) \X Validators \X Values
    BY Zenon
  <2>3. (counted' \cup backed') \subseteq (counted \cup backed) \cup {<<t, r, v, b>>}
    BY Zenon, <1>3
  <2> QED
    BY Zenon, <1>3, <2>1, <2>2, <2>3 DEF IInv, TypeOK
<1>5. ASSUME NEW u \in VoteTypes, NEW s \in TrackableRounds, NEW w \in Validators, NEW c \in Values
      PROVE  /\ Voted(hvs', u, s, w, c) <=> <<u, s, w, c>> \in counted'
             /\ <<u, s, w, c>> \in backed' => Majority(hvs', u, s) = c \/ Voted(hvs', u, s, w, c)
  <2>1. Voted(hvs', u, s, w, c) <=> Voted(hvs, u, s, w, c) \/ (result.added /\ u = t /\ s = r /\ w = v /\ c = b)
    BY Zenon, <1>2, <1>3 DEF VoteAdded
  <2>2. Voted(hvs', u, s, w, c) <=> <<u, s, w, c>> \in counted'
    BY Zenon, <1>2, <1>3, <2>1 DEF IInv, VoteAdded
  <2>3. ASSUME <<u, s, w, c>> \in backed
        PROVE  Majority(hvs', u, s) = c \/ Voted(hvs', u, s, w, c)
    <3>1. c # None /\ s \in Int
      BY Zenon, NilNoneAssumption, RoundsAreInts DEF Values
    <3>2. Majority(hvs, u, s) = c => Majority(hvs', u, s) = c
      BY Zenon, <1>2, <1>3, <3>1 DEF VoteAdded, KeepsMajorities
    <3> QED
      BY Zenon, <2>1, <2>3, <3>2 DEF IInv
  <2>4. ASSUME getVoteSet(hvs, r, t) # None, b \in Claimed(getVoteSet(hvs, r, t))
        PROVE  Majority(hvs', t, r) = b \/ Voted(hvs', t, r, v, b)
    BY Zenon, <1>2, <1>3, <2>4 DEF getVoteSet, VoteAdded
  <2> QED
    BY Zenon, <1>3, <2>2, <2>3, <2>4
<1> QED
  BY Zenon, <1>2, <1>3, <1>4, <1>5 DEF IInv, VoteAdded

LEMMA NextIInv == IInv /\ [Next]_vars => IInv'
<1> SUFFICES ASSUME IInv, [Next]_vars PROVE IInv'
  BY Zenon
<1>1. CASE UNCHANGED vars
  BY Zenon, <1>1 DEF vars, IInv, TypeOK
<1> USE InputsAssumption
<1>2. inputs \in Inputs
  BY Zenon DEF IInv, TypeOK
<1>3. ASSUME NEW t \in inputs.types, NEW r \in inputs.rounds, NEW p \in Peers,
             NEW v \in inputs.validators, NEW b \in inputs.values, Vote(t, r, v, b, p)
      PROVE  IInv'
  BY Zenon, <1>2, <1>3, VoteStep
<1>4. ASSUME NEW t \in inputs.types, NEW r \in inputs.rounds, NEW p \in Peers, NEW b \in inputs.claims,
             Claim(t, r, p, b)
      PROVE  IInv'
  <2>1. t \in VoteTypes /\ r \in 0 .. MaxRound /\ b \in Values
    BY Zenon, <1>2
  <2>2. VotesOK(hvs') /\ hvs'.round = hvs.round /\ SameVotes(hvs, hvs')
    BY <1>4, <2>1, SetPeerMaj23ForOK DEF Claim, IInv
  <2>3. hvs'.round = round' + 1 /\ round' \in -1 .. MaxRound
    BY Zenon, <1>4, <2>2 DEF Claim, IInv, TypeOK
  <2> QED
    BY Zenon, <1>4, <2>2, <2>3, SameVotesStep DEF Claim
<1>5. ASSUME NEW r \in inputs.rounds, EnterNewRound(r)
      PROVE  IInv'
  <2>1. r \in 0 .. MaxRound /\ r + 1 \in 0 .. MaxRound + 1 /\ r > round /\ round \in -1 .. MaxRound /\ round' = r
    BY <1>2, <1>5, MaxRoundAssumption DEF EnterNewRound, IInv, TypeOK
  <2>2. hvs.round <= r + 1
    BY <2>1 DEF IInv
  <2>3. VotesOK(hvs') /\ hvs'.round = r + 1 /\ SameVotes(hvs, hvs')
    BY Zenon, <1>5, <2>1, <2>2, SetRoundOK DEF EnterNewRound, IInv
  <2>4. hvs'.round = round' + 1 /\ round' \in -1 .. MaxRound
    BY <2>1, <2>3, MaxRoundAssumption
  <2> QED
    BY Zenon, <1>5, <2>3, <2>4, SameVotesStep DEF EnterNewRound
<1> QED
  BY Zenon, <1>1, <1>3, <1>4, <1>5 DEF Next

LEMMA Invariance == Spec => []IInv
BY InitIInv, NextIInv, PTL DEF Spec

\* The vote sets keep their types in every behaviour: rounds never leave the
\* tracked range and only votes that can be cast are counted.
THEOREM TypeCorrect == Spec => []TypeOK
<1>1. IInv => TypeOK
  BY Zenon DEF IInv
<1> QED
  BY <1>1, Invariance, PTL

LEMMA OpenSets ==
    ASSUME IInv, NEW x \in Open
    PROVE  /\ x[1] \in VoteTypes /\ x[2] \in 0 .. MaxRound + 1 /\ x[2] \in TrackableRounds
           /\ hvs.roundVoteSets[x[2]] # None /\ At(x) = hvs.roundVoteSets[x[2]][x[1]]
           /\ SetOK(At(x)) /\ x = <<x[1], x[2]>>
<1>1. x[1] \in VoteTypes /\ x[2] \in 0 .. MaxRound + 1 /\ x[2] \in TrackableRounds /\ x = <<x[1], x[2]>>
  BY RoundsAreInts DEF Open
<1>2. hvs.roundVoteSets[x[2]] # None /\ At(x) = hvs.roundVoteSets[x[2]][x[1]]
  BY Zenon, <1>1 DEF Open, At, getVoteSet
<1> QED
  BY Zenon, <1>1, <1>2 DEF IInv, VotesOK

\* MajorityIsProvable for every validator set and every assignment of power: sums
\* are the power heard, and a majority is backed by a quorum that really voted and
\* is among the votes to share, whatever conflicting votes and claims arrived.
THEOREM MajorityProvable == Spec => []MajorityIsProvable
<1>1. IInv => MajorityIsProvable
  <2> SUFFICES ASSUME IInv, NEW x \in Open,
                      NEW set, set = At(x),
                      NEW Proof, Proof = {v \in Validators : /\ set.votes[v] = set.maj23
                                                             /\ <<x[1], x[2], v, set.maj23>> \in counted}
               PROVE  /\ set.sum = PowerOf(HeardFrom(set))
                      /\ \A b \in Tracked(set) : set.votesByBlock[b].sum = PowerOf(set.votesByBlock[b].voters)
                      /\ set.maj23 # None => PowerOf(Proof) >= Quorum
    BY Zenon DEF MajorityIsProvable
  <2>1. /\ x[1] \in VoteTypes /\ x[2] \in TrackableRounds /\ SetOK(set)
        /\ hvs.roundVoteSets[x[2]] # None /\ set = hvs.roundVoteSets[x[2]][x[1]]
    BY Zenon, OpenSets
  <2>2. ASSUME set.maj23 # None
        PROVE  PowerOf(Proof) >= Quorum
    <3> DEFINE voters == set.votesByBlock[set.maj23].voters
    <3>1. /\ set.maj23 \in Tracked(set) /\ set.votesByBlock[set.maj23].sum >= Quorum
          /\ \A v \in voters : set.votes[v] = set.maj23
          /\ set.votesByBlock[set.maj23].sum = PowerOf(voters) /\ voters \subseteq HeardFrom(set)
      BY Zenon, <2>1, <2>2 DEF SetOK, SumsOK, MajorityOK
    <3>2. set.maj23 \in Values /\ voters \subseteq Validators
      BY Zenon, <3>1 DEF Tracked, HeardFrom
    <3> HIDE DEF voters
    <3>3. \A v \in voters : Voted(hvs, x[1], x[2], v, set.maj23)
      BY Zenon, <2>1, <3>1 DEF Voted, CountedFor, voters
    <3>4. voters \subseteq Proof /\ Proof \subseteq Validators
      BY Zenon, <2>1, <3>1, <3>2, <3>3 DEF IInv
    <3>5. PowerOf(voters) <= PowerOf(Proof) /\ PowerOf(voters) \in Nat /\ PowerOf(Proof) \in Nat
      BY Zenon, <3>2, <3>4, PowerMonotone, PowerType
    <3> QED
      BY <3>1, <3>5, TotalPower
  <2> QED
    BY Zenon, <2>1, <2>2 DEF SetOK, SumsOK
<1> QED
  BY <1>1, Invariance, PTL

\* VotesCount for every instance: no vote reported as added is ever lost, and a
\* vote for a block that was claimed before it came counts.
THEOREM NoVoteLost == Spec => []VotesCount
<1>1. ASSUME IInv PROVE VotesCount
  <2>1. ASSUME NEW x \in counted
        PROVE  getVote(getVoteSet(hvs, x[2], x[1]), x[3], x[4])
    <3>1. /\ x[1] \in VoteTypes /\ x[2] \in TrackableRounds /\ x[3] \in Validators /\ x[4] \in Values
          /\ x = <<x[1], x[2], x[3], x[4]>>
      BY <1>1, RoundsAreInts DEF IInv, TypeOK
    <3>2. Voted(hvs, x[1], x[2], x[3], x[4])
      BY Zenon, <1>1, <3>1 DEF IInv
    <3> QED
      BY Zenon, <3>1, <3>2 DEF Voted, CountedFor, Tracked, getVote, getVoteSet
  <2>2. ASSUME NEW x \in backed, NEW set, set = getVoteSet(hvs, x[2], x[1])
        PROVE  set.maj23 = x[4] \/ x[3] \in set.votesByBlock[x[4]].voters
    <3>1. /\ x[1] \in VoteTypes /\ x[2] \in TrackableRounds /\ x[3] \in Validators /\ x[4] \in Values
          /\ x = <<x[1], x[2], x[3], x[4]>> /\ x[4] # None /\ x[2] \in Int
      BY <1>1, RoundsAreInts, NilNoneAssumption DEF IInv, TypeOK, Values
    <3>2. Majority(hvs, x[1], x[2]) = x[4] \/ Voted(hvs, x[1], x[2], x[3], x[4])
      BY Zenon, <1>1, <3>1 DEF IInv
    <3>3. CASE Majority(hvs, x[1], x[2]) = x[4]
      BY Zenon, <2>2, <3>1, <3>3 DEF Majority, TwoThirdsMajority
    <3>4. CASE Voted(hvs, x[1], x[2], x[3], x[4])
      BY Zenon, <2>2, <3>1, <3>4 DEF Voted, CountedFor, getVoteSet
    <3> QED
      BY Zenon, <3>2, <3>3, <3>4
  <2> QED
    BY Zenon, <2>1, <2>2 DEF VotesCount
<1> QED
  BY <1>1, Invariance, PTL

\* A relation that reaches every member of S, and no two from the same member of T.
LEMMA NoLarger ==
    ASSUME NEW S, NEW T, IsFiniteSet(T), NEW R,
           \A x \in S : \E y \in T : <<x, y>> \in R,
           \A x1, x2 \in S, y \in T : <<x1, y>> \in R /\ <<x2, y>> \in R => x1 = x2
    PROVE  IsFiniteSet(S) /\ Cardinality(S) <= Cardinality(T)
<1> DEFINE f == [x \in S |-> CHOOSE y \in T : <<x, y>> \in R]
<1>1. \A x \in S : f[x] \in T /\ <<x, f[x]>> \in R
  BY Zenon
<1>2. f \in [S -> T]
  BY Zenon, <1>1
<1> HIDE DEF f
<1>3. f \in Injection(S, T)
  BY Zenon, <1>1, <1>2 DEF Injection, IsInjective
<1> QED
  BY Zenon, <1>3, FS_Injection

\* MemoryIsBounded for every number of peers and any MaxCatchup: the rounds beyond
\* the tracked ones are each in some peer's short list, and the blocks a set tracks
\* without a claim have voters of their own.
THEOREM BoundedMemory == Spec => []MemoryIsBounded
<1>1. ASSUME IInv PROVE MemoryIsBounded
  <2>1. Cardinality({x \in Open : x[2] > hvs.round}) <= Cardinality(VoteTypes) * MaxCatchup * Cardinality(Peers)
    <3> DEFINE S == {x \in Open : x[2] > hvs.round}
               Slots == VoteTypes \X (1 .. MaxCatchup)
               T == Slots \X Peers
               R == {z \in S \X T : z[1][1] = z[2][1][1] /\ z[2][1][2] \in 1 .. Len(hvs.peerCatchupRounds[z[2][2]])
                                    /\ z[1][2] = hvs.peerCatchupRounds[z[2][2]][z[2][1][2]]}
    <3>1. IsFiniteSet(T) /\ Cardinality(T) = Cardinality(VoteTypes) * MaxCatchup * Cardinality(Peers)
      <4>1. IsFiniteSet(VoteTypes)
        <5>1. IsFiniteSet({}) /\ IsFiniteSet({} \cup {"prevote"})
          BY Zenon, FS_EmptySet, FS_AddElement
        <5>2. IsFiniteSet(({} \cup {"prevote"}) \cup {"precommit"})
          BY Zenon, <5>1, FS_AddElement
        <5>3. VoteTypes = ({} \cup {"prevote"}) \cup {"precommit"}
          BY Zenon DEF VoteTypes
        <5> QED
          BY Zenon, <5>2, <5>3
      <4>2. IsFiniteSet(1 .. MaxCatchup) /\ Cardinality(1 .. MaxCatchup) = MaxCatchup
        BY FS_Interval, MaxRoundAssumption
      <4>3. IsFiniteSet(Slots) /\ Cardinality(Slots) = Cardinality(VoteTypes) * MaxCatchup
        BY Zenon, <4>1, <4>2, FS_Product
      <4> HIDE DEF Slots
      <4> QED
        BY Zenon, <4>3, PeersAssumption, FS_Product
    <3>2. ASSUME NEW x \in S PROVE \E y \in T : <<x, y>> \in R
      <4>1. /\ x[1] \in VoteTypes /\ x[2] \in 0 .. MaxRound + 1 /\ hvs.roundVoteSets[x[2]] # None
            /\ x[2] > hvs.round /\ hvs.round \in 0 .. MaxRound + 1
        BY Zenon, <1>1, OpenSets, VotesType DEF IInv
      <4>2. x[2] \in hvs.round + 1 .. MaxRound + 1
        BY <4>1
      <4>3. PICK p \in Peers : \E i \in 1 .. Len(hvs.peerCatchupRounds[p]) : hvs.peerCatchupRounds[p][i] = x[2]
        BY Zenon, <1>1, <4>1, <4>2 DEF IInv, VotesOK
      <4>4. PICK i \in 1 .. Len(hvs.peerCatchupRounds[p]) : hvs.peerCatchupRounds[p][i] = x[2]
        BY Zenon, <4>3
      <4>5. Len(hvs.peerCatchupRounds[p]) <= MaxCatchup /\ Len(hvs.peerCatchupRounds[p]) \in Nat
        BY <1>1, VotesType DEF IInv, VotesOK
      <4>6. i \in 1 .. MaxCatchup
        BY <4>5, MaxRoundAssumption
      <4>7. <<<<x[1], i>>, p>> \in T
        BY Zenon, <4>1, <4>6
      <4>8. <<x, <<<<x[1], i>>, p>>>> \in R
        BY Zenon, <4>4, <4>7
      <4> QED
        BY Zenon, <4>7, <4>8
    <3>3. ASSUME NEW x1 \in S, NEW x2 \in S, NEW y \in T, <<x1, y>> \in R, <<x2, y>> \in R
          PROVE  x1 = x2
      <4>1. x1[1] = x2[1] /\ x1[2] = x2[2]
        BY Zenon, <3>3
      <4>2. x1 = <<x1[1], x1[2]>> /\ x2 = <<x2[1], x2[2]>>
        BY Zenon, <1>1, OpenSets
      <4> QED
        BY Zenon, <4>1, <4>2
    <3> HIDE DEF S, T, R
    <3>4. Cardinality(S) <= Cardinality(T)
      BY Zenon, <3>1, <3>2, <3>3, NoLarger
    <3> QED
      BY Zenon, <3>1, <3>4 DEF S
  <2>2. ASSUME NEW x \in Open
        PROVE  Cardinality(Tracked(At(x)) \ Claimed(At(x))) <= Cardinality(HeardFrom(At(x)))
    <3>1. PICK set : set = At(x)
      BY Zenon
    <3>2. SetOK(set)
      BY Zenon, <1>1, <3>1, OpenSets
    <3> DEFINE S == Tracked(set) \ Claimed(set)
               T == HeardFrom(set)
               R == {z \in S \X T : z[2] \in set.votesByBlock[z[1]].voters}
    <3>3. IsFiniteSet(T)
      BY Zenon, PowerAssumption, FS_Subset DEF HeardFrom
    <3>4. \A b \in S : set.votesByBlock[b].voters # {} /\ set.votesByBlock[b].voters \subseteq T
                       /\ ~set.votesByBlock[b].peerMaj23
      BY Zenon, <3>2 DEF SetOK, SumsOK, BlocksOK
    <3>5. ASSUME NEW b \in S PROVE \E v \in T : <<b, v>> \in R
      BY Zenon, <3>4
    <3>6. ASSUME NEW b1 \in S, NEW b2 \in S, NEW v \in T, <<b1, v>> \in R, <<b2, v>> \in R
          PROVE  b1 = b2
      <4>1. v \in set.votesByBlock[b1].voters \cap set.votesByBlock[b2].voters
        BY Zenon, <3>6
      <4> QED
        BY Zenon, <3>2, <3>4, <4>1 DEF SetOK, BlocksOK
    <3> HIDE DEF S, T, R
    <3>7. Cardinality(S) <= Cardinality(T)
      BY Zenon, <3>3, <3>5, <3>6, NoLarger
    <3> QED
      BY Zenon, <3>1, <3>7 DEF S, T
  <2> QED
    BY Zenon, <2>1, <2>2 DEF MemoryIsBounded
<1> QED
  BY <1>1, Invariance, PTL
=============================================================================
