-------------------------- MODULE VoteSetInvariant --------------------------
(***************************************************************************)
(* What the operations of VoteSet and HeightVoteSet keep true, and what each *)
(* of them does to the votes and the majorities.                             *)
(***************************************************************************)
EXTENDS HeightVoteSet

-----------------------------------------------------------------------------
(***************************************************************************)
(* types.VoteSet                                                           *)
(***************************************************************************)

\* The sums are those of the votes, and a block with a quorum makes a majority.
SumsOK(vs) ==
    /\ vs.sum = PowerOf(HeardFrom(vs))
    /\ \A b \in Tracked(vs) : /\ vs.votesByBlock[b].sum = PowerOf(vs.votesByBlock[b].voters)
                              /\ vs.votesByBlock[b].voters \subseteq HeardFrom(vs)
                              /\ vs.votesByBlock[b].sum >= Quorum => vs.maj23 # None

\* The majority has a quorum, and its votes are the ones to share.
MajorityOK(vs) ==
    vs.maj23 # None => /\ vs.maj23 \in Tracked(vs)
                       /\ vs.votesByBlock[vs.maj23].sum >= Quorum
                       /\ \A v \in vs.votesByBlock[vs.maj23].voters : vs.votes[v] = vs.maj23

\* A vote to share is counted, except one that was put in for the majority.
SharedOK(vs) ==
    \A v \in HeardFrom(vs) : vs.votes[v] = vs.maj23 \/ CountedFor(vs, v, vs.votes[v])

ClaimsOK(vs) ==
    \A p \in Peers : vs.peerMaj23s[p] # None =>
        vs.peerMaj23s[p] \in Tracked(vs) /\ vs.votesByBlock[vs.peerMaj23s[p]].peerMaj23

\* A block is claimed by a peer, or has the first votes of some validators.
BlocksOK(vs) ==
    \A b \in Tracked(vs) :
        IF vs.votesByBlock[b].peerMaj23 THEN b \in Claimed(vs)
        ELSE /\ vs.votesByBlock[b].voters # {}
             /\ \A c \in Tracked(vs) \ {b} :
                   ~vs.votesByBlock[c].peerMaj23 => vs.votesByBlock[b].voters \cap vs.votesByBlock[c].voters = {}

\* What AddVote and SetPeerMaj23 keep true of a set.
SetOK(vs) ==
    vs \in VoteSets /\ SumsOK(vs) /\ MajorityOK(vs) /\ SharedOK(vs) /\ ClaimsOK(vs) /\ BlocksOK(vs)

\* What AddVote does to a set: it counts the vote or leaves the counted votes as
\* they are, a majority is never lost or replaced, and a vote for a claimed block
\* counts, whatever else its validator sent.
Added(vs, v, b, result) ==
    /\ SetOK(result.set)
    /\ result.added \in BOOLEAN /\ result.conflicting \in BOOLEAN
    /\ \A w \in Validators, c \in Values :
          CountedFor(result.set, w, c) <=> CountedFor(vs, w, c) \/ (result.added /\ w = v /\ c = b)
    /\ vs.maj23 # None => result.set.maj23 = vs.maj23
    /\ result.set.peerMaj23s = vs.peerMaj23s
    /\ HeardFrom(result.set) = HeardFrom(vs) \cup {v}
    /\ b \in Claimed(vs) => result.set.maj23 = b \/ CountedFor(result.set, v, b)
    /\ result.conflicting => vs.votes[v] \notin {None, b}
    /\ result.added /\ v \in HeardFrom(vs) => result.conflicting

-----------------------------------------------------------------------------
(***************************************************************************)
(* HeightVoteSet                                                           *)
(***************************************************************************)

\* What AddVote, SetPeerMaj23 and SetRound keep true of the sets of a height.
VotesOK(h) ==
    /\ h \in HeightVoteSets
    /\ \A r \in TrackableRounds, t \in VoteTypes :
          h.roundVoteSets[r] # None => SetOK(h.roundVoteSets[r][t])
    /\ \A r \in 0 .. h.round : h.roundVoteSets[r] # None
    /\ \A r \in h.round + 1 .. MaxRound + 1 :
          h.roundVoteSets[r] # None =>
              \E p \in Peers : \E i \in 1 .. Len(h.peerCatchupRounds[p]) : h.peerCatchupRounds[p][i] = r
    /\ \A p \in Peers : Len(h.peerCatchupRounds[p]) <= MaxCatchup

\* v's vote for b in round r is counted.
Voted(h, t, r, v, b) == h.roundVoteSets[r] # None /\ CountedFor(h.roundVoteSets[r][t], v, b)

Heard(h, t, r, v) == h.roundVoteSets[r] # None /\ v \in HeardFrom(h.roundVoteSets[r][t])

Majority(h, t, r) == TwoThirdsMajority(getVoteSet(h, r, t))

\* No majority of g is another one than that of h.
KeepsMajorities(h, g) ==
    \A t \in VoteTypes, r \in Int : Majority(h, t, r) # None => Majority(g, t, r) = Majority(h, t, r)

\* h and g hold the same votes and the same majorities.
SameVotes(h, g) ==
    /\ \A t \in VoteTypes, r \in TrackableRounds, v \in Validators :
          /\ Heard(h, t, r, v) <=> Heard(g, t, r, v)
          /\ \A b \in Values : Voted(h, t, r, v, b) <=> Voted(g, t, r, v, b)
    /\ \A t \in VoteTypes, r \in Int : Majority(g, t, r) = Majority(h, t, r)

\* What a vote does to the sets of a height, which it turns from h into g.
VoteAdded(h, t, r, v, b, g, added, conflicting) ==
    /\ VotesOK(g) /\ g.round = h.round
    /\ added \in BOOLEAN /\ conflicting \in BOOLEAN
    /\ \A u \in VoteTypes, s \in TrackableRounds, w \in Validators :
          /\ Heard(h, u, s, w) => Heard(g, u, s, w)
          /\ \A c \in Values : Voted(g, u, s, w, c) <=>
                Voted(h, u, s, w, c) \/ (added /\ u = t /\ s = r /\ w = v /\ c = b)
    /\ KeepsMajorities(h, g)
    /\ \A s \in Int, u \in VoteTypes : s # r \/ u # t => Majority(g, u, s) = Majority(h, u, s)
    /\ h.roundVoteSets[r] # None /\ b \in Claimed(h.roundVoteSets[r][t]) =>
          Majority(g, t, r) = b \/ Voted(g, t, r, v, b)
    /\ conflicting => Heard(h, t, r, v) /\ h.roundVoteSets[r][t].votes[v] # b
    /\ added => Heard(g, t, r, v)
    /\ added /\ Heard(h, t, r, v) => conflicting

-----------------------------------------------------------------------------
(***************************************************************************)
(* What ConsensusStateProofs uses of the sets, shown in VoteSetProofs       *)
(***************************************************************************)

\* A fresh height has no votes and no majorities.
NewVotesLaw ==
    /\ VotesOK(NewHeightVoteSet) /\ NewHeightVoteSet.round = 0
    /\ \A t \in VoteTypes, r \in TrackableRounds, v \in Validators, b \in Values :
          ~Voted(NewHeightVoteSet, t, r, v, b)
    /\ \A t \in VoteTypes, r \in Int : Majority(NewHeightVoteSet, t, r) = None

\* A set that is there has the majority it holds.
MajorityLaw ==
    \A h : \A t \in VoteTypes, r \in Int :
        VotesOK(h) =>
            /\ Majority(h, t, r) \in Values \cup {None}
            /\ r \in TrackableRounds /\ h.roundVoteSets[r] # None =>
                  getVoteSet(h, r, t) = h.roundVoteSets[r][t] /\ getVoteSet(h, r, t) # None
            /\ Majority(h, t, r) # None => r \in TrackableRounds /\ h.roundVoteSets[r] # None

SetRoundLaw ==
    \A h : \A r \in 0 .. MaxRound + 1 :
        VotesOK(h) /\ h.round <= r =>
            LET g == SetRound(h, r) IN VotesOK(g) /\ g.round = r /\ SameVotes(h, g)

ClaimLaw ==
    \A h : \A t \in VoteTypes, r \in 0 .. MaxRound, p \in Peers, b \in Values :
        VotesOK(h) =>
            LET g == SetPeerMaj23For(h, t, r, p, b) IN VotesOK(g) /\ g.round = h.round /\ SameVotes(h, g)

AddVoteLaw ==
    \A vs : \A v \in Validators, b \in Values : SetOK(vs) => Added(vs, v, b, AddVote(vs, v, b))

AddVoteFromLaw ==
    \A h : \A t \in VoteTypes, r \in 0 .. MaxRound, v \in Validators, b \in Values, p \in Peers :
        VotesOK(h) => LET result == AddVoteFrom(h, t, r, v, b, p)
                      IN  VoteAdded(h, t, r, v, b, result.set, result.added, result.conflicting)

\* +2/3 for one value are +2/3 of any votes, and the same votes are the same power.
PowerLaw ==
    \A h : \A t \in VoteTypes, r \in Int :
        VotesOK(h) =>
            /\ Majority(h, t, r) # None => HasTwoThirdsAny(getVoteSet(h, r, t))
            /\ \A g : VotesOK(g) /\ SameVotes(h, g) /\ HasTwoThirdsAny(getVoteSet(h, r, t)) =>
                         HasTwoThirdsAny(getVoteSet(g, r, t))

\* POLRound is no earlier than any tracked round with a polka.
POLRoundLaw ==
    \A h : \A r \in 0 .. h.round :
        VotesOK(h) /\ Majority(h, "prevote", r) # None => POLRound(h) \in Int /\ POLRound(h) >= r

VoteLaws ==
    /\ NewVotesLaw /\ MajorityLaw /\ SetRoundLaw /\ ClaimLaw
    /\ AddVoteLaw /\ AddVoteFromLaw /\ PowerLaw /\ POLRoundLaw
=============================================================================
