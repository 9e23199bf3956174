------------------------------- MODULE Gossip -------------------------------
(***************************************************************************)
(* The consensus reactor and one peer. The reactor keeps a picture of the  *)
(* peer (PeerState), made of what the peer says and of what was sent to    *)
(* it, and three goroutines send what the peer lacks by that picture: one  *)
(* for the proposal and block parts, one for votes, and one that asks for  *)
(* the votes the peer has of a majority. Messages of different channels    *)
(* overtake each other; a message may be dropped by a full queue.          *)
(* The peer runs the same consensus code; it is modelled by what it counts *)
(* and announces (see ConsensusState for what it decides).                 *)
(***************************************************************************)
EXTENDS Integers, Sequences, FiniteSets, FiniteSetsExt, SequencesExt, TLC

CONSTANTS
    None,       \* nil
    Indexes,    \* of block parts
    Cap,        \* bound: the peer acts when fewer of its messages wait in the state channel
    MaxInFlight \* bound: messages to the peer in a channel

VARIABLES
    load,       \* what is committed, who has which votes, and what goes wrong
    rs,         \* our round state: height, round, votes, proposal, parts
    ps,         \* PeerState.PRS
    voting,     \* gossipVotesRoutine: the vote it has sent and not noted yet
    data,       \* gossipDataRoutine: what it is about to do with ps
    dataToPeer, \* data channel, to the peer, in order
    toPeer,     \* votes and claims on their way to the peer
    toUs,       \* state channel, from the peer, in order
    bitsToUs,   \* vote set bits, votes and data from the peer, in any order
    peer,       \* round state of the peer
    budget      \* bound: what may still be lost, moved or said; history: what went wrong

vars == <<load, rs, ps, voting, data, dataToPeer, toPeer, toUs, bitsToUs, peer, budget>>

Vals  == load.vals      \* validators, of equal power
Parts == load.parts     \* the indexes of the parts of a block

NewHeight == 1
Propose   == 3
Prevote   == 4
Precommit == 6
Commit    == 8

quorum(S) == 3 * Cardinality(S) > 2 * Cardinality(Vals)

\* Votes are [height, round, type, val, block]; a vote set holds the first of a
\* validator for gossip.
In(votes, r, t) == {v \in votes : v.round = r /\ v.type = t}
ValsOf(votes)   == {v.val : v \in votes}
By(votes, r, t, b) == ValsOf({v \in In(votes, r, t) : v.block = b})
maj23(votes, r, t) == {b \in {v.block : v \in In(votes, r, t)} : quorum(By(votes, r, t, b))}

\* The commit of a height below ours
CommitVotes(h) ==
    {[height |-> h, round |-> load.commit[h].round, type |-> "precommit", val |-> v,
      block |-> load.commit[h].block] : v \in load.commit[h].vals}

-----------------------------------------------------------------------------
(* PeerState. shared: Precommits and CatchupCommit are one bit array.       *)

NewPeerState ==
    [height |-> 0, round |-> -1, step |-> 0, proposal |-> FALSE, header |-> None, parts |-> None,
     polRound |-> -1, pol |-> None, prevotes |-> None, precommits |-> None,
     lastCommitRound |-> -1, lastCommit |-> None, catchupRound |-> -1, catchup |-> None,
     shared |-> FALSE]

\* getVoteBitArray: the field, or "none"
bitArray(prs, h, r, t) ==
    CASE prs.height = h /\ prs.round = r -> IF t = "prevote" THEN "prevotes" ELSE "precommits"
      [] prs.height = h /\ prs.round # r /\ prs.catchupRound = r ->
            IF t = "precommit" THEN "catchup" ELSE "none"
      [] prs.height = h /\ prs.round # r /\ prs.catchupRound # r /\ prs.polRound = r ->
            IF t = "prevote" THEN "pol" ELSE "none"
      [] prs.height = h + 1 /\ prs.lastCommitRound = r /\ t = "precommit" -> "lastCommit"
      [] OTHER -> "none"

update(prs, f, bits) ==
    IF prs.shared /\ f \in {"precommits", "catchup"}
    THEN [prs EXCEPT !.precommits = bits, !.catchup = bits]
    ELSE [prs EXCEPT ![f] = bits]

known(prs, f) == f # "none" /\ prs[f] # None

setHasVote(prs, h, r, t, val) ==
    LET f == bitArray(prs, h, r, t)
    IN  IF known(prs, f) THEN update(prs, f, prs[f] \cup {val}) ELSE prs

ensureCatchupCommitRound(prs, h, r) ==
    IF prs.height # h \/ prs.catchupRound = r THEN prs
    ELSE [prs EXCEPT !.catchupRound = r,
                     !.catchup = IF r = prs.round THEN prs.precommits ELSE {},
                     !.shared = r = prs.round /\ prs.precommits # None]

ensureVoteBitArrays(prs, h) ==
    LET fields == IF prs.height = h THEN {"prevotes", "precommits", "catchup", "pol"}
                  ELSE IF prs.height = h + 1 THEN {"lastCommit"} ELSE {}
    IN  [f \in DOMAIN prs |-> IF f \in fields /\ prs[f] = None THEN {} ELSE prs[f]]

SetHasProposal(prs, p) ==
    IF prs.height # p.height \/ prs.round # p.round \/ prs.proposal THEN prs
    ELSE IF prs.parts # None THEN [prs EXCEPT !.proposal = TRUE]
    ELSE [prs EXCEPT !.proposal = TRUE, !.header = p.block, !.parts = {},
                     !.polRound = p.polRound, !.pol = None]

InitProposalBlockParts(prs, b) ==
    IF prs.parts # None THEN prs ELSE [prs EXCEPT !.header = b, !.parts = {}]

SetHasProposalBlockPart(prs, h, r, i) ==
    IF prs.height # h \/ prs.round # r \/ prs.parts = None THEN prs
    ELSE [prs EXCEPT !.parts = @ \cup {i}]

later(h, r, s, prs) ==
    \/ h > prs.height
    \/ h = prs.height /\ (r > prs.round \/ (r = prs.round /\ s > prs.step))

\* Mutant: the votes of the last round are taken for those of the new one.
ApplyNewRoundStepKeep(prs, m) ==
    IF ~later(m.height, m.round, m.step, prs) THEN prs
    ELSE [prs EXCEPT !.height = m.height, !.round = m.round, !.step = m.step]

\* ApplyNewRoundStepMessage. Precommits are nil already when they are shifted to
\* LastCommit.
ApplyNewRoundStep(prs, m) ==
    LET sameHeight == prs.height = m.height
        sameRound  == sameHeight /\ prs.round = m.round
        moved == [prs EXCEPT !.height = m.height, !.round = m.round, !.step = m.step]
        fresh == IF sameRound THEN moved
                 ELSE [moved EXCEPT !.proposal = FALSE, !.header = None, !.parts = None,
                         !.polRound = -1, !.pol = None, !.prevotes = None, !.precommits = None,
                         !.shared = FALSE]
        caught == IF sameHeight /\ ~sameRound /\ m.round = prs.catchupRound
                  THEN [fresh EXCEPT !.precommits = prs.catchup, !.shared = prs.catchup # None]
                  ELSE fresh
    IN  CASE ~later(m.height, m.round, m.step, prs) -> prs
          [] later(m.height, m.round, m.step, prs) /\ sameHeight -> caught
          [] OTHER ->
               [caught EXCEPT !.lastCommitRound = m.lastCommitRound,
                    !.lastCommit = IF prs.height + 1 = m.height /\ prs.round = m.lastCommitRound
                                   THEN caught.precommits ELSE None,
                    !.catchupRound = -1, !.catchup = None, !.shared = FALSE]

ApplyNewValidBlock(prs, m) ==
    IF prs.height # m.height \/ (prs.round # m.round /\ ~m.isCommit) THEN prs
    ELSE [prs EXCEPT !.header = m.block, !.parts = m.parts]

ApplyProposalPOL(prs, m) ==
    IF prs.height # m.height \/ prs.polRound # m.polRound THEN prs
    ELSE [prs EXCEPT !.pol = m.bits]

ApplyHasVote(prs, m) ==
    IF prs.height # m.height THEN prs
    ELSE setHasVote(prs, m.height, m.round, m.type, m.val)

\* Mutant: what we have is believed to be had by the peer.
ApplyVoteSetBitsMerge(prs, m, ours) ==
    LET f == bitArray(prs, m.height, m.round, m.type)
    IN  IF ~known(prs, f) THEN prs
        ELSE update(prs, f, IF m.bits = None THEN prs[f] ELSE prs[f] \cup m.bits)

\* ApplyVoteSetBitsMessage; an empty answer leaves the bits alone when ours is nil.
ApplyVoteSetBits(prs, m, ours) ==
    LET f == bitArray(prs, m.height, m.round, m.type)
        theirs == IF m.bits = None THEN {} ELSE m.bits
    IN  IF ~known(prs, f) THEN prs
        ELSE update(prs, f, CASE ours # None -> (prs[f] \ ours) \cup theirs
                              [] ours = None /\ m.bits # None -> m.bits
                              [] OTHER -> prs[f])

-----------------------------------------------------------------------------
(* Our side.                                                                *)

ours   == <<rs, ps, voting, data>>
theirs == <<peer, toUs, bitsToUs>>
sent   == <<dataToPeer, toPeer>>

Votes(r, t) ==
    [height |-> rs.height, round |-> r, type |-> t, votes |-> In(rs.votes, r, t),
     isCommit |-> t = "precommit" /\ maj23(rs.votes, r, t) # {}]

CommitOf(h) ==
    [height |-> h, round |-> load.commit[h].round, type |-> "precommit",
     votes |-> CommitVotes(h), isCommit |-> TRUE]

Stored(h) == load.base <= h /\ h < rs.height

\* The vote sets gossipVotesRoutine and gossipVotesForHeight try, in their order
VoteOffers ==
    LET same == rs.height = ps.height
        lastCommit == IF Stored(rs.height - 1) THEN <<CommitOf(rs.height - 1)>> ELSE <<>>
        inRound == ps.round # -1 /\ ps.round <= rs.round
        pol == ps.polRound # -1 /\ ps.polRound <= rs.round + 1
        If(c, offers) == IF c THEN offers ELSE <<>>
    IN  If(same /\ ps.step = NewHeight, lastCommit)
        \o If(same /\ ps.step <= Propose /\ inRound /\ pol, <<Votes(ps.polRound, "prevote")>>)
        \o If(same /\ ps.step < Precommit /\ inRound, <<Votes(ps.round, "prevote")>>)
        \o If(same /\ ps.step < Commit /\ inRound, <<Votes(ps.round, "precommit")>>)
        \o If(same /\ inRound, <<Votes(ps.round, "prevote")>>)
        \o If(same /\ pol, <<Votes(ps.polRound, "prevote")>>)
        \o If(ps.height # 0 /\ rs.height = ps.height + 1, lastCommit)
        \o If(ps.height # 0 /\ rs.height >= ps.height + 2 /\ Stored(ps.height),
              <<CommitOf(ps.height)>>)

\* PickVoteToSend: the picture it leaves, and the votes to pick from
PickVoteToSend(prs, offer) ==
    LET q == ensureVoteBitArrays(IF offer.isCommit
                                 THEN ensureCatchupCommitRound(prs, offer.height, offer.round)
                                 ELSE prs, offer.height)
        f == bitArray(q, offer.height, offer.round, offer.type)
    IN  [prs |-> q,
         picks |-> IF known(q, f) THEN {v \in offer.votes : v.val \notin q[f]} ELSE {}]

\* The outcome of trying the offers in turn, as a singleton
tries ==
    FoldLeft(LAMBDA outcomes, offer :
                 {IF o.picks # {} THEN o ELSE PickVoteToSend(o.prs, offer) : o \in outcomes},
             {[prs |-> ps, picks |-> {}]}, VoteOffers)

inFlight(kind) == Cardinality({m \in toPeer : m.kind = kind})

\* pickSendVote up to the send
SendVote(val) ==
    /\ voting = None
    /\ inFlight("vote") < MaxInFlight
    /\ \E o \in tries : \E v \in o.picks :
          /\ v.val = val
          /\ voting' = v
          /\ toPeer' = toPeer \cup {[kind |-> "vote", vote |-> v]}
          /\ ps' = o.prs
    /\ UNCHANGED <<load, rs, data, dataToPeer, theirs, budget>>

\* A pass that sends nothing still sets up bit arrays.
NothingToSend ==
    /\ voting = None
    /\ \E o \in tries : o.picks = {} /\ o.prs # ps /\ ps' = o.prs
    /\ UNCHANGED <<load, rs, voting, data, sent, theirs, budget>>

SetHasVote ==
    /\ voting # None
    /\ ps' = setHasVote(ps, voting.height, voting.round, voting.type, voting.val)
    /\ voting' = None
    /\ UNCHANGED <<load, rs, data, sent, theirs, budget>>

Idle == [pc |-> "idle"]

\* Send blocks while the channel is full.
SendData(m) ==
    /\ Len(dataToPeer) < MaxInFlight
    /\ dataToPeer' = Append(dataToPeer, m)

missingParts == IF rs.block # None /\ rs.block = ps.header /\ ps.parts # None
                THEN rs.have \ ps.parts ELSE {}

\* gossipDataRoutine, up to the send or to the change of the picture
SendPart(i) ==
    /\ data = Idle
    /\ i \in missingParts
    /\ SendData([kind |-> "part", height |-> rs.height, round |-> rs.round,
                 block |-> rs.block, index |-> i, noted |-> TRUE])
    /\ data' = [pc |-> "part", height |-> ps.height, round |-> ps.round, index |-> i,
                block |-> rs.block]
    /\ UNCHANGED <<load, rs, ps, voting, toPeer, theirs, budget>>

Lagging == load.base > 0 /\ 0 < ps.height /\ Stored(ps.height)

InitParts ==
    /\ data = Idle
    /\ missingParts = {} /\ Lagging /\ ps.parts = None
    /\ data' = [pc |-> "init", block |-> load.commit[ps.height].block]
    /\ UNCHANGED <<load, rs, ps, voting, sent, theirs, budget>>

\* The part is not noted in the picture: it is sent again and again.
gossipDataForCatchup(i) ==
    LET m == [kind |-> "part", height |-> ps.height, round |-> ps.round, block |-> ps.header,
              index |-> i, noted |-> FALSE]
    IN  /\ data = Idle
        /\ missingParts = {} /\ Lagging /\ ps.parts # None
        /\ i \in Parts \ ps.parts
        /\ ps.header = load.commit[ps.height].block
        /\ ~Contains(dataToPeer, m)
        /\ SendData(m)
        /\ UNCHANGED <<load, ours, toPeer, theirs, budget>>

SendProposal ==
    /\ data = Idle
    /\ missingParts = {} /\ ~Lagging
    /\ rs.height = ps.height /\ rs.round = ps.round
    /\ rs.proposal # None /\ ~ps.proposal
    /\ SendData([kind |-> "proposal", proposal |-> rs.proposal])
    /\ data' = [pc |-> "proposal", proposal |-> rs.proposal]
    /\ UNCHANGED <<load, rs, ps, voting, toPeer, theirs, budget>>

\* History: the part of a block is noted for the height and round, where the picture
\* has another block by now.
Noted(h, r, b) ==
    IF ps.height = h /\ ps.round = r /\ ps.parts # None /\ ps.header # b
    THEN [budget EXCEPT !.faults = @ \cup {"otherBlock"}] ELSE budget

NoteData ==
    /\ data # Idle
    /\ ps' = CASE data.pc = "part" ->
                    SetHasProposalBlockPart(ps, data.height, data.round, data.index)
               [] data.pc = "init" -> InitProposalBlockParts(ps, data.block)
               [] data.pc = "proposal" -> SetHasProposal(ps, data.proposal)
    /\ data' = Idle
    /\ budget' = IF data.pc = "part" THEN Noted(data.height, data.round, data.block) ELSE budget
    /\ UNCHANGED <<load, rs, voting, sent, theirs>>

\* The VoteSetMaj23 messages of one pass of queryMaj23Routine
Maj23Claims ==
    LET claim(h, r, t, b) == [kind |-> "maj23", height |-> h, round |-> r, type |-> t, block |-> b]
        sets == {<<ps.round, "prevote">>, <<ps.round, "precommit">>}
                \cup (IF ps.polRound >= 0 THEN {<<ps.polRound, "prevote">>} ELSE {})
    IN  (IF rs.height # ps.height THEN {}
         ELSE UNION {{claim(ps.height, s[1], s[2], b) : b \in maj23(rs.votes, s[1], s[2])}
                       : s \in sets})
        \cup (IF ps.catchupRound = -1 \/ ps.height = 0 \/ ~Stored(ps.height) THEN {}
              ELSE {claim(ps.height, load.commit[ps.height].round, "precommit",
                          load.commit[ps.height].block)})

queryMaj23 ==
    /\ inFlight("maj23") < MaxInFlight
    /\ \E m \in Maj23Claims \ toPeer : toPeer' = toPeer \cup {m}
    /\ UNCHANGED <<load, ours, dataToPeer, theirs, budget>>

\* handleStateMessage, for all but VoteSetMaj23
handleState ==
    /\ toUs # <<>>
    /\ LET m == Head(toUs)
       IN  ps' = CASE m.kind = "step"  -> ApplyNewRoundStep(ps, m)
                   [] m.kind = "valid" -> ApplyNewValidBlock(ps, m)
                   [] m.kind = "has"   -> ApplyHasVote(ps, m)
    /\ toUs' = Tail(toUs)
    /\ UNCHANGED <<load, rs, voting, data, sent, bitsToUs, peer, budget>>

\* BitArrayByBlockID of our votes, nil at another height
ourVotes(m) ==
    LET vals == By(rs.votes, m.round, m.type, m.block)
    IN  IF rs.height = m.height /\ vals # {} THEN vals ELSE None

\* addVote, as far as this peer and the gossip see it
counted(votes, v) ==
    IF v.height # rs.height \/ v.val \in ValsOf(In(votes, v.round, v.type)) THEN votes
    ELSE votes \cup {v}

\* handleVoteSetBitsMessage, handleVoteMessage, handleDataMessage
handleOther ==
    \E m \in bitsToUs :
        /\ ps' = CASE m.kind = "bits" -> ApplyVoteSetBits(ps, m, ourVotes(m))
                   [] m.kind = "vote" ->
                        setHasVote(ensureVoteBitArrays(ensureVoteBitArrays(ps, rs.height),
                                                       rs.height - 1),
                                   m.vote.height, m.vote.round, m.vote.type, m.vote.val)
                   [] m.kind = "proposal" -> SetHasProposal(ps, m.proposal)
                   [] m.kind = "pol" -> ApplyProposalPOL(ps, m)
                   [] m.kind = "part" -> SetHasProposalBlockPart(ps, m.height, m.round, m.index)
        /\ rs' = IF m.kind = "vote" THEN [rs EXCEPT !.votes = counted(@, m.vote)] ELSE rs
        /\ bitsToUs' = bitsToUs \ {m}
        /\ budget' = IF m.kind = "part" THEN Noted(m.height, m.round, m.block) ELSE budget
        /\ UNCHANGED <<load, voting, data, sent, toUs, peer>>

\* Our consensus state receives a vote from another peer, or finalizes its height.
OurVote ==
    /\ \E v \in load.ours \ rs.votes :
          /\ v.height = rs.height
          /\ rs' = [rs EXCEPT !.votes = counted(@, v)]
          /\ rs' # rs
    /\ UNCHANGED <<load, ps, voting, data, sent, theirs, budget>>

RoundState(h) == [height |-> h, round |-> 0, votes |-> {}, proposal |-> None,
                  block |-> None, have |-> {}]

OurCommit ==
    /\ rs.height \in DOMAIN load.commit
    /\ CommitVotes(rs.height) \subseteq rs.votes
    /\ rs.block = load.commit[rs.height].block /\ rs.have = Parts
    /\ rs' = RoundState(rs.height + 1)
    /\ UNCHANGED <<load, ps, voting, data, sent, theirs, budget>>

-----------------------------------------------------------------------------
(* The peer. An operator takes and returns [p, out]: its round state and    *)
(* what it broadcasts on the state channel.                                 *)

PeerAt(h, lastRound) ==
    [height |-> h, round |-> 0, step |-> NewHeight, votes |-> {}, claims |-> {}, opened |-> {},
     proposal |-> None, block |-> None, have |-> {}, lastCommitRound |-> lastRound,
     commitRound |-> -1]

makeRoundStepMessage(p) ==
    [kind |-> "step", height |-> p.height, round |-> p.round, step |-> p.step,
     lastCommitRound |-> p.lastCommitRound]

newValidBlockMessage(p) ==
    [kind |-> "valid", height |-> p.height, round |-> p.round, block |-> p.block,
     parts |-> p.have, isCommit |-> p.step = Commit]

tell(s, m) == [s EXCEPT !.out = Append(@, m)]

\* enterNewRound and the steps of the round: a later round drops the proposal.
enter(s, r, step) ==
    LET p == s.p
        q == [p EXCEPT !.round = r, !.step = step,
                       !.proposal = IF r = p.round THEN @ ELSE None,
                       !.block = IF r = p.round THEN @ ELSE None,
                       !.have = IF r = p.round THEN @ ELSE {}]
    IN  IF r > p.round \/ (r = p.round /\ step > p.step)
        THEN tell([s EXCEPT !.p = q], makeRoundStepMessage(q)) ELSE s

wantBlock(s, b) == IF s.p.block = b THEN s ELSE [s EXCEPT !.p.block = b, !.p.have = {}]

finalizeCommit(s) ==
    LET q == PeerAt(s.p.height + 1, s.p.commitRound)
    IN  IF s.p.step = Commit /\ s.p.have = Parts
        THEN [p |-> q, out |-> Append(s.out, makeRoundStepMessage(q))] ELSE s

\* NewValidBlock is fired before the step is Commit.
enterCommit(s, r, b) ==
    LET w == wantBlock(s, b)
        fired == IF s.p.block = b THEN w ELSE tell(w, newValidBlockMessage(w.p))
    IN  IF s.p.step = Commit THEN s
        ELSE finalizeCommit(enter([fired EXCEPT !.p.commitRound = r], s.p.round, Commit))

tracked(p) == (IF p.step = NewHeight THEN {0} ELSE 0..p.round + 1) \cup p.opened

\* What addVote does once the vote is in the set
react(s, v, before) ==
    LET any == quorum(ValsOf(In(s.p.votes, v.round, v.type)))
        maj == maj23(s.p.votes, v.round, v.type)
        b   == CHOOSE x \in maj : TRUE
    IN  CASE v.type = "prevote" /\ v.round = s.p.round /\ maj \notin {{}, {None}}
                /\ ~(maj23(before, v.round, v.type) = maj /\ s.p.have = Parts) ->
                LET w == wantBlock(s, b) IN tell(w, newValidBlockMessage(w.p))
          [] v.type = "prevote" /\ v.round > s.p.round /\ any -> enter(s, v.round, Propose)
          [] v.type = "precommit" /\ maj = {None} -> enter(s, v.round, Precommit)
          [] v.type = "precommit" /\ maj \notin {{}, {None}} ->
                enterCommit(enter(s, v.round, Precommit), v.round, b)
          [] v.type = "precommit" /\ maj = {} /\ any -> enter(s, v.round, Propose)
          [] OTHER -> s

PeerCounts(s, v) ==
    LET p == s.p
        opens == v.round \notin tracked(p)
        firstOf == v.val \notin ValsOf(In(p.votes, v.round, v.type))
        claimed == <<v.round, v.type, v.block>> \in p.claims
        q == [p EXCEPT !.votes = @ \cup {v}, !.opened = IF opens THEN @ \cup {v.round} ELSE @]
    IN  IF v.height # p.height \/ (opens /\ Cardinality(p.opened) >= 2) \/ v \in p.votes
           \/ (~firstOf /\ ~claimed)
        THEN s
        ELSE react(tell([s EXCEPT !.p = q],
                        [kind |-> "has", height |-> v.height, round |-> v.round,
                         type |-> v.type, val |-> v.val]), v, p.votes)

PeerPart(s, m) ==
    IF m.height # s.p.height \/ m.block # s.p.block THEN s
    ELSE finalizeCommit([s EXCEPT !.p.have = @ \cup {m.index}])

PeerProposal(s, m) ==
    IF m.height # s.p.height \/ m.round # s.p.round \/ s.p.proposal # None THEN s
    ELSE [s EXCEPT !.p.proposal = m, !.p.block = IF @ = None THEN m.block ELSE @]

PeerMaj23(s, m) ==
    IF m.height # s.p.height \/ m.round \notin tracked(s.p) THEN s
    ELSE [s EXCEPT !.p.claims = @ \cup {<<m.round, m.type, m.block>>}]

answer(m, p) ==
    IF m.kind # "maj23" \/ m.height # peer.height THEN {}
    ELSE {[kind |-> "bits", height |-> m.height, round |-> m.round, type |-> m.type,
           block |-> m.block,
           bits |-> IF m.round \in tracked(p) THEN By(p.votes, m.round, m.type, m.block)
                    ELSE None]}

PeerSays(s) ==
    /\ Len(toUs) < Cap
    /\ peer' = s.p
    /\ toUs' = toUs \o s.out

Received == [p |-> peer, out |-> <<>>]

DeliverData ==
    /\ dataToPeer # <<>>
    /\ LET m == Head(dataToPeer)
       IN  PeerSays(IF m.kind = "part" THEN PeerPart(Received, m)
                    ELSE PeerProposal(Received, m.proposal))
    /\ dataToPeer' = Tail(dataToPeer)
    /\ UNCHANGED <<load, ours, toPeer, bitsToUs, budget>>

Deliver(m) ==
    LET s == IF m.kind = "vote" THEN PeerCounts(Received, m.vote) ELSE PeerMaj23(Received, m)
    IN  /\ m \in toPeer
        /\ Cardinality(bitsToUs) < MaxInFlight \/ answer(m, s.p) = {}
        /\ PeerSays(s)
        /\ toPeer' = toPeer \ {m}
        /\ bitsToUs' = bitsToUs \cup answer(m, s.p)
        /\ UNCHANGED <<load, ours, dataToPeer, budget>>

DeliverVote  == \E m \in toPeer : m.kind = "vote" /\ Deliver(m)
DeliverMaj23 == \E m \in toPeer : m.kind = "maj23" /\ Deliver(m)

\* Other peers send it votes; its timeouts and its own rules take it on.
PeerHears ==
    /\ \E v \in load.others \ peer.votes :
          v.height = peer.height /\ v.round \in tracked(peer) /\ PeerSays(PeerCounts(Received, v))
    /\ peer' # peer
    /\ UNCHANGED <<load, ours, sent, bitsToUs, budget>>

PeerMoves ==
    /\ budget.moves > 0
    /\ peer.step < Commit
    /\ \E step \in {Propose, Prevote, Precommit} :
          \/ step > peer.step /\ PeerSays(enter(Received, peer.round, step))
          \/ peer.step = Precommit /\ step = Propose
               /\ PeerSays(enter(Received, peer.round + 1, step))
    /\ budget' = [budget EXCEPT !.moves = @ - 1]
    /\ UNCHANGED <<load, ours, sent, bitsToUs>>

\* Its own gossip routines send us what it has.
PeerTalks ==
    /\ budget.talks > 0 /\ Cardinality(bitsToUs) < MaxInFlight
    /\ \E m \in {[kind |-> "vote", vote |-> v] : v \in peer.votes}
              \cup {[kind |-> "part", height |-> peer.height, round |-> peer.round,
                     block |-> peer.block, index |-> i] : i \in peer.have}
              \cup (IF peer.proposal = None THEN {}
                    ELSE {[kind |-> "proposal", proposal |-> peer.proposal]}
                         \cup (IF peer.proposal.polRound < 0 THEN {}
                               ELSE {[kind |-> "pol", height |-> peer.height,
                                      polRound |-> peer.proposal.polRound,
                                      bits |-> ValsOf(In(peer.votes, peer.proposal.polRound,
                                                         "prevote"))]})) :
          bitsToUs' = bitsToUs \cup {m}
    /\ budget' = [budget EXCEPT !.talks = @ - 1]
    /\ UNCHANGED <<load, ours, sent, toUs, peer>>

\* A full queue of the router drops any message of any channel.  A part that was
\* not noted as sent is lost under a name of its own.
Lose ==
    LET lost(kind) == [budget EXCEPT !.losses = @ - 1, !.faults = @ \cup {kind}]
        dataKind(m) == IF m.kind = "part" /\ ~m.noted THEN "catchupPart" ELSE m.kind
    IN  /\ budget.losses > 0
        /\ \/ /\ \E m \in toPeer : toPeer' = toPeer \ {m} /\ budget' = lost(m.kind)
              /\ UNCHANGED <<dataToPeer, toUs, bitsToUs>>
           \/ /\ \E k \in DOMAIN dataToPeer : /\ dataToPeer' = RemoveAt(dataToPeer, k)
                                               /\ budget' = lost(dataKind(dataToPeer[k]))
              /\ UNCHANGED <<toPeer, toUs, bitsToUs>>
           \/ /\ \E k \in DOMAIN toUs : toUs' = RemoveAt(toUs, k) /\ budget' = lost(toUs[k].kind)
              /\ UNCHANGED <<toPeer, dataToPeer, bitsToUs>>
           \/ /\ \E m \in bitsToUs : bitsToUs' = bitsToUs \ {m} /\ budget' = lost("answer")
              /\ UNCHANGED <<toPeer, dataToPeer, toUs>>
        /\ UNCHANGED <<load, ours, peer>>

GossipInit ==
    /\ rs = load.rs
    /\ peer = load.peer
    /\ budget = load.budget
    /\ ps = NewPeerState
    /\ voting = None /\ data = Idle
    /\ dataToPeer = <<>> /\ toPeer = {} /\ bitsToUs = {}
    /\ toUs = <<makeRoundStepMessage(load.peer)>>     \* sendNewRoundStepMessage

Next ==
    \/ \E v \in Vals : SendVote(v)
    \/ NothingToSend
    \/ SetHasVote
    \/ \E i \in Parts : SendPart(i)
    \/ InitParts
    \/ \E i \in Parts : gossipDataForCatchup(i)
    \/ SendProposal
    \/ NoteData
    \/ queryMaj23
    \/ handleState
    \/ handleOther
    \/ OurVote
    \/ OurCommit
    \/ DeliverData
    \/ DeliverVote
    \/ DeliverMaj23
    \/ PeerHears
    \/ PeerMoves
    \/ PeerTalks
    \/ Lose

\* Three lanes: a goroutine of ours, and what takes in what it sends.
votesLane == (\E v \in Vals : SendVote(v)) \/ NothingToSend \/ SetHasVote \/ DeliverVote
dataLane  == (\E i \in Parts : SendPart(i) \/ gossipDataForCatchup(i))
                \/ InitParts \/ SendProposal \/ NoteData \/ DeliverData
maj23Lane == queryMaj23 \/ DeliverMaj23 \/ handleOther

\* ~ENABLED of two of the lanes, which TLC would take long to find out
votesIdle ==
    /\ voting = None
    /\ \A o \in tries : IF o.picks = {} THEN o.prs = ps ELSE inFlight("vote") >= MaxInFlight
    /\ inFlight("vote") = 0 \/ Len(toUs) >= Cap

maj23Idle ==
    /\ bitsToUs = {}
    /\ inFlight("maj23") = 0 \/ Len(toUs) >= Cap
    /\ inFlight("maj23") >= MaxInFlight \/ Maj23Claims \subseteq toPeer

\* Weak fairness of each lane: the goroutines run until the peer is removed, and
\* the router delivers what it does not drop. Each part is picked in the end: the
\* pick is random.
Fairness ==
    /\ []<>votesIdle \/ []<><<votesLane>>_vars
    /\ []<>maj23Idle \/ []<><<maj23Lane>>_vars
    /\ WF_vars(dataLane) /\ WF_vars(handleState)
    /\ \A i \in Indexes : SF_vars(gossipDataForCatchup(i))

-----------------------------------------------------------------------------
(* Properties                                                               *)

\* What leaves the reactor with a wrong picture that nothing corrects in the same
\* round of the peer: a part that was noted as sent is lost, or noted for another
\* block than its own; what the peer says of its round or of its block is lost.
Misled == budget.faults \cap {"part", "otherBlock", "step", "valid"} # {}

\* A peer below a height we have committed and still store commits it too, from
\* us alone, unless the reactor was misled in one of these ways: although it holds
\* conflicting votes, although votes, claims, answers, proposals and the parts of
\* catch-up are lost (gossipVotesRoutine, gossipDataRoutine, queryMaj23Routine).
PeerCatchesUp == Stored(peer.height) ~> (peer.height >= rs.height \/ Misled)

believed(f, r, t) ==
    ps[f] = None \/ r = -1 \/
    \A val \in ps[f] :
        \/ val \in ValsOf(In(peer.votes, r, t))
        \/ \E m \in toPeer : m.kind = "vote" /\ m.vote.height = peer.height /\ m.vote.round = r
                               /\ m.vote.type = t /\ m.vote.val = val

\* A vote the reactor will not send because the peer is taken to have it (any bit
\* of PeerState) is one the peer has, in that very round, or one that is on its
\* way, as long as no vote was dropped.  So is a part, of the block that the peer
\* wants and is taken to want, as long as no part was dropped and none was noted
\* for another block: SetHasProposalBlockPart goes by height and round, and the
\* peer may change its block within a round.
BeliefsHold ==
    ps.height = peer.height =>
        /\ "vote" \notin budget.faults =>
              /\ believed("prevotes", ps.round, "prevote")
              /\ believed("precommits", ps.round, "precommit")
              /\ believed("catchup", ps.catchupRound, "precommit")
              /\ believed("pol", ps.polRound, "prevote")
        /\ ps.parts # None /\ ps.header = peer.block /\ budget.faults \cap {"part", "otherBlock"} = {} =>
              \A i \in ps.parts :
                  \/ i \in peer.have
                  \/ \E k \in DOMAIN dataToPeer :
                        /\ dataToPeer[k].kind = "part" /\ dataToPeer[k].index = i
                        /\ dataToPeer[k].block = peer.block

=============================================================================
