------------------------ MODULE HeightVoteSetMachine ------------------------
(***************************************************************************)
(* A HeightVoteSet under the calls the consensus state machine and its      *)
(* reactor make: votes of any round from any peer, conflicting ones          *)
(* included, majority claims of peers, and SetRound(r + 1) on entering       *)
(* round r.                                                                 *)
(***************************************************************************)
EXTENDS HeightVoteSet

CONSTANT Inputs    \* bounds: each member limits the calls of one behaviour

ASSUME InputsAssumption ==
    \A i \in Inputs : /\ i.types \subseteq VoteTypes /\ i.rounds \subseteq 0 .. MaxRound
                      /\ i.validators \subseteq Validators /\ i.values \subseteq Values
                      /\ i.claims \subseteq Values /\ i.votes \in Nat

VARIABLES
    hvs,
    round,      \* State.Round, which only grows within a height
    counted,    \* history: the votes AddVote reported as added
    backed,     \* history: the votes that came after a claim for their block
    inputs

vars == <<hvs, round, counted, backed, inputs>>

Init ==
    /\ hvs = NewHeightVoteSet
    /\ round = -1
    /\ counted = {} /\ backed = {}
    /\ inputs \in Inputs

Vote(t, r, v, b, p) ==
    LET result == AddVoteFrom(hvs, t, r, v, b, p)
    IN  /\ result.added => Cardinality(counted) < inputs.votes
        /\ hvs' = result.set
        /\ counted' = IF result.added THEN counted \cup {<<t, r, v, b>>} ELSE counted
        /\ LET set == getVoteSet(hvs, r, t)
           IN  backed' = IF set # None /\ b \in Claimed(set) THEN backed \cup {<<t, r, v, b>>} ELSE backed
        /\ UNCHANGED <<round, inputs>>

Claim(t, r, p, b) ==
    /\ hvs' = SetPeerMaj23For(hvs, t, r, p, b)
    /\ UNCHANGED <<round, counted, backed, inputs>>

EnterNewRound(r) ==
    /\ r > round
    /\ round' = r
    /\ hvs' = SetRound(hvs, r + 1)
    /\ UNCHANGED <<counted, backed, inputs>>

Next ==
    \/ \E t \in inputs.types, r \in inputs.rounds, p \in Peers :
          \/ \E v \in inputs.validators, b \in inputs.values : Vote(t, r, v, b, p)
          \/ \E b \in inputs.claims : Claim(t, r, p, b)
    \/ \E r \in inputs.rounds : EnterNewRound(r)

Spec == Init /\ [][Next]_vars

-----------------------------------------------------------------------------
(***************************************************************************)
(* Properties                                                              *)
(***************************************************************************)

TypeOK ==
    /\ hvs \in HeightVoteSets
    /\ round \in -1 .. MaxRound
    /\ counted \cup backed \subseteq VoteTypes \X (0 .. MaxRound) \X Validators \X Values
    /\ inputs \in Inputs

Open == {x \in VoteTypes \X (0 .. MaxRound + 1) : getVoteSet(hvs, x[2], x[1]) # None}
At(x) == getVoteSet(hvs, x[2], x[1])

\* The sums of a vote set are the power of the validators it heard from, each
\* counted once however many conflicting votes it sent, so HasTwoThirdsAny and
\* HasAll say what they mean; and the majority is provable: validators with more
\* than 2/3 of the power really voted for it and the votes to share still show
\* it, so MakeExtendedCommit builds a commit for maj23 after any later conflict.
MajorityIsProvable ==
    \A x \in Open :
        LET set == At(x)
            Proof == {v \in Validators : /\ set.votes[v] = set.maj23
                                         /\ <<x[1], x[2], v, set.maj23>> \in counted}
        IN  /\ set.sum = PowerOf(HeardFrom(set))
            /\ \A b \in Tracked(set) : set.votesByBlock[b].sum = PowerOf(set.votesByBlock[b].voters)
            /\ set.maj23 # None => PowerOf(Proof) >= Quorum

\* No vote is lost. One that was reported as added stays in its set: entering rounds
\* never makes a set anew, not even one a peer opened as a catchup round, and no later
\* vote or claim takes it out. And a peer's claim heals equivocation: a vote for a
\* block that was claimed before counts, whatever else its signer sent, unless the
\* block has its majority anyway.
VotesCount ==
    /\ \A x \in counted : getVote(getVoteSet(hvs, x[2], x[1]), x[3], x[4])
    /\ \A x \in backed :
          LET set == getVoteSet(hvs, x[2], x[1])
          IN  set.maj23 = x[4] \/ x[3] \in set.votesByBlock[x[4]].voters

\* What votes can make the node remember is bounded.  A peer opens at most two
\* rounds nobody is in ("We let each peer provide us with up to 2 unexpected
\* catchup rounds"), and a set tracks a block for a validator's first vote or for
\* the one claim a peer may make, however many blocks equivocators name.
MemoryIsBounded ==
    /\ Cardinality({x \in Open : x[2] > hvs.round})
           <= Cardinality(VoteTypes) * MaxCatchup * Cardinality(Peers)
    /\ \A x \in Open :
          Cardinality(Tracked(At(x)) \ Claimed(At(x))) <= Cardinality(HeardFrom(At(x)))
=============================================================================
