----------------------- MODULE TendermintVotingProofs -----------------------
(***************************************************************************)
(* Agreement for every validator set, every quorum system in which two      *)
(* quorums share a correct validator, and any number of rounds.             *)
(*                                                                         *)
(* Agreement is not inductive.  The invariant says of the signed votes      *)
(*  - a correct validator signs once per round and type (OneVote);          *)
(*  - it precommits a block only with its polka (PrecommitHasPolka);        *)
(*  - its prevotes stay justified against its earlier precommits            *)
(*    (PrevoteJustified);                                                   *)
(*  - a polka for b excludes every other block from ever being committed in *)
(*    an earlier round (PolkaExcludes).                                     *)
(* The last one is what survives while a commit is still being assembled:   *)
(* every quorum has a correct member that left the round without            *)
(* precommitting the other block.                                           *)
(***************************************************************************)
EXTENDS TendermintVoting, TLAPS, WellFoundedInduction

OneVote ==
    \A x, y \in votes :
        x.val \in Correct /\ x.val = y.val /\ x.type = y.type /\ x.round = y.round => x = y

PrecommitHasPolka ==
    \A x \in votes :
        x.val \in Correct /\ x.type = "precommit" /\ x.block \in Blocks => Polka(x.round, x.block)

PrevoteJustified ==
    \A x, y \in votes :
        /\ x.val \in Correct /\ x.val = y.val
        /\ x.type = "prevote" /\ x.block \in Blocks
        /\ y.type = "precommit" /\ y.block \in Blocks /\ y.block # x.block
        /\ y.round < x.round
        => \E pr \in Rounds : y.round <= pr /\ pr < x.round /\ Polka(pr, x.block)

\* v signed a vote of a round after r, so it signs nothing in round r any more.
Passed(v, r) == \E x \in votes : x.val = v /\ x.round > r

NotChoosable(r, b) ==
    \A Q \in Quorums : \E v \in Correct :
        v \in Q /\ Passed(v, r) /\ vote("precommit", v, r, b) \notin votes

PolkaExcludes ==
    \A r1, r2 \in Rounds, b1, b2 \in Blocks :
        r1 < r2 /\ b1 # b2 /\ Polka(r2, b2) => NotChoosable(r1, b1)

DecisionHasQuorum ==
    \A v \in Correct : decision[v] # NoDecision =>
        \E r \in Rounds : HasQuorum("precommit", r, decision[v])

VInv ==
    /\ TypeOK
    /\ OneVote
    /\ PrecommitHasPolka
    /\ PrevoteJustified
    /\ PolkaExcludes
    /\ DecisionHasQuorum

-----------------------------------------------------------------------------
LEMMA VoteType ==
    ASSUME NEW t \in {"prevote", "precommit"}, NEW v \in Validators, NEW r \in Rounds,
           NEW b \in Blocks \cup {Nil}
    PROVE  /\ vote(t, v, r, b) \in Vote
           /\ vote(t, v, r, b).type = t
           /\ vote(t, v, r, b).val = v
           /\ vote(t, v, r, b).round = r
           /\ vote(t, v, r, b).block = b
BY DEF vote, Vote

\* Votes are never withdrawn, so neither is a +2/3 majority.
LEMMA QuorumStable ==
    ASSUME votes \subseteq votes', NEW t, NEW r, NEW b, HasQuorum(t, r, b)
    PROVE  HasQuorum(t, r, b)'
BY DEF HasQuorum, vote

\* A quorum contains a correct validator.
LEMMA CorrectInQuorum ==
    ASSUME NEW Q \in Quorums
    PROVE  \E v \in Correct : v \in Q
BY QuorumAssumption

\* Two polkas of one round are for one block.
LEMMA OnePolka ==
    ASSUME TypeOK, OneVote, NEW t \in {"prevote", "precommit"}, NEW r \in Rounds,
           NEW b1 \in Blocks, NEW b2 \in Blocks,
           HasQuorum(t, r, b1), HasQuorum(t, r, b2)
    PROVE  b1 = b2
<1>1. PICK Q1 \in Quorums : \A v \in Q1 : vote(t, v, r, b1) \in votes
  BY DEF HasQuorum
<1>2. PICK Q2 \in Quorums : \A v \in Q2 : vote(t, v, r, b2) \in votes
  BY DEF HasQuorum
<1>3. PICK v \in Correct : v \in Q1 /\ v \in Q2
  BY QuorumAssumption
<1>4. v \in Validators
  BY DEF Correct
<1>5. vote(t, v, r, b1) = vote(t, v, r, b2)
  BY <1>1, <1>2, <1>3, <1>4, VoteType DEF OneVote
<1> QED
  BY <1>4, <1>5, VoteType

-----------------------------------------------------------------------------
LEMMA InitVInv == Init => VInv
<1> SUFFICES ASSUME Init PROVE VInv
  OBVIOUS
<1>1. \A x \in votes : x.val \notin Correct
  BY DEF Init, FaultyVotes, Correct
<1>2. TypeOK
  <2>1. FaultyVotes \subseteq [type : {"prevote", "precommit"}, val : Validators \cup Faulty,
                              round : Rounds, block : Blocks \cup {Nil}]
    BY DEF FaultyVotes
  <2> QED
    BY FaultyAssumption, <2>1 DEF Init, TypeOK, Vote
<1>3. OneVote /\ PrecommitHasPolka /\ PrevoteJustified
  BY <1>1 DEF OneVote, PrecommitHasPolka, PrevoteJustified
<1>4. \A r \in Rounds, b \in Blocks : ~Polka(r, b)
  <2> SUFFICES ASSUME NEW r \in Rounds, NEW b \in Blocks, Polka(r, b) PROVE FALSE
    OBVIOUS
  <2>1. PICK Q \in Quorums : \A v \in Q : vote("prevote", v, r, b) \in votes
    BY DEF Polka, HasQuorum
  <2>2. PICK v \in Correct : v \in Q
    BY CorrectInQuorum
  <2> QED
    BY <1>1, <2>1, <2>2, VoteType DEF Correct
<1>5. PolkaExcludes
  BY <1>4 DEF PolkaExcludes
<1> QED
  BY <1>2, <1>3, <1>5 DEF VInv, DecisionHasQuorum, Init

\* A validator that passed a round stays past it without the precommit, so
\* what cannot be committed stays so.
LEMMA NotChoosableStable ==
    ASSUME TypeOK, NEW v \in Correct, NEW t \in {"prevote", "precommit"}, NEW r \in Rounds,
           NEW b \in Blocks \cup {Nil},
           \A x \in VotesOf(v) : x.round <= r,
           votes' = votes \cup {vote(t, v, r, b)},
           NEW r1 \in Rounds, NEW b1 \in Blocks, NotChoosable(r1, b1)
    PROVE  NotChoosable(r1, b1)'
<1> SUFFICES ASSUME NEW Q \in Quorums
             PROVE  \E w \in Correct : w \in Q /\ Passed(w, r1)'
                        /\ vote("precommit", w, r1, b1) \notin votes'
  BY DEF NotChoosable, vote
<1>1. PICK w \in Correct : w \in Q /\ Passed(w, r1) /\ vote("precommit", w, r1, b1) \notin votes
  BY DEF NotChoosable
<1>2. Passed(w, r1)'
  BY <1>1 DEF Passed
<1>3. vote("precommit", w, r1, b1) # vote(t, v, r, b)
  <2> SUFFICES ASSUME vote("precommit", w, r1, b1) = vote(t, v, r, b) PROVE FALSE
    OBVIOUS
  <2>1. w = v /\ r1 = r
    BY VoteType DEF Correct
  <2>2. PICK x \in votes : x.val = v /\ x.round > r
    BY <1>1, <2>1 DEF Passed
  <2>3. x.round <= r /\ x.round \in Int /\ r \in Int
    <3>1. x \in Vote /\ Rounds \subseteq Int
      BY RoundsAssumption DEF TypeOK
    <3>2. x.round \in Rounds
      BY <3>1 DEF Vote
    <3> QED
      BY <2>2, <3>1, <3>2 DEF VotesOf
  <2> QED
    BY <2>2, <2>3
<1> QED
  BY <1>1, <1>2, <1>3

-----------------------------------------------------------------------------
\* The step that adds vote(t, v, r, b), whichever kind of vote it is.
LEMMA VoteVInv ==
    ASSUME VInv, NEW v \in Correct, NEW r \in Rounds, NEW b \in Blocks \cup {Nil},
           Prevote(v, r, b) \/ Precommit(v, r, b)
    PROVE  VInv'
<1>t. PICK t \in {"prevote", "precommit"} :
         \/ t = "prevote" /\ Prevote(v, r, b)
         \/ t = "precommit" /\ Precommit(v, r, b)
  OBVIOUS
<1> DEFINE new == vote(t, v, r, b)
<1>0. v \in Validators
  BY DEF Correct
<1>1. /\ votes' = votes \cup {new} /\ decision' = decision
      /\ new \in Vote /\ new.type = t /\ new.val = v /\ new.round = r /\ new.block = b
  BY <1>t, <1>0, VoteType DEF Prevote, Precommit
<1> HIDE DEF new
<1>2. votes \subseteq Vote /\ \A x \in votes : x.round \in Int /\ r \in Int
  <2>1. votes \subseteq Vote /\ Rounds \subseteq Int
    BY RoundsAssumption DEF VInv, TypeOK
  <2>2. \A x \in Vote : x.round \in Rounds
    BY DEF Vote
  <2> QED
    BY <2>1, <2>2
<1>3. \A x \in VotesOf(v) : x.round < r \/ (x.round = r /\ x.type = "prevote" /\ t = "precommit")
  BY <1>t DEF Prevote, Precommit
<1>4. TypeOK'
  BY <1>1 DEF VInv, TypeOK
<1>5. OneVote'
  <2>1. \A x \in votes : x.val = v /\ x.type = t => x.round # r
    BY <1>2, <1>3 DEF VotesOf
  <2> QED
    BY <1>1, <2>1 DEF VInv, OneVote
<1>6. PrecommitHasPolka'
  <2> SUFFICES ASSUME NEW x \in votes', x.val \in Correct, x.type = "precommit", x.block \in Blocks
               PROVE  Polka(x.round, x.block)'
    BY DEF PrecommitHasPolka, Polka, HasQuorum, vote
  <2>1. Polka(x.round, x.block)
    <3>1. CASE x \in votes
      BY <3>1 DEF VInv, PrecommitHasPolka
    <3>2. CASE x = new
      BY <1>1, <1>t, <3>2 DEF Precommit
    <3> QED
      BY <1>1, <3>1, <3>2
  <2> QED
    BY <1>1, <2>1, QuorumStable DEF Polka
<1>7. PrevoteJustified'
  <2> SUFFICES ASSUME NEW x \in votes', NEW y \in votes',
                      x.val \in Correct, x.val = y.val,
                      x.type = "prevote", x.block \in Blocks,
                      y.type = "precommit", y.block \in Blocks, y.block # x.block,
                      y.round < x.round
               PROVE  \E pr \in Rounds : y.round <= pr /\ pr < x.round /\ Polka(pr, x.block)'
    BY DEF PrevoteJustified, Polka, HasQuorum, vote
  <2>1. \E pr \in Rounds : y.round <= pr /\ pr < x.round /\ Polka(pr, x.block)
    <3>1. CASE x \in votes /\ y \in votes
      BY <3>1 DEF VInv, PrevoteJustified
    <3>2. CASE x = new /\ y \in votes
      <4>1. t = "prevote" /\ b \in Blocks /\ Justified(v, r, b) /\ y \in VotesOf(v)
        BY <1>1, <1>t, <3>2 DEF Prevote, VotesOf
      <4> QED
        BY <1>1, <3>2, <4>1 DEF Justified
    <3>3. CASE x \in votes /\ y = new
      BY <1>1, <1>2, <1>3, <3>3 DEF VotesOf
    <3>4. CASE x = new /\ y = new
      BY <3>4
    <3> QED
      BY <1>1, <3>1, <3>2, <3>3, <3>4
  <2> QED
    BY <1>1, <2>1, QuorumStable DEF Polka
<1>8. PolkaExcludes'
  <2> SUFFICES ASSUME NEW r1 \in Rounds, NEW r2 \in Rounds, NEW b1 \in Blocks, NEW b2 \in Blocks,
                      r1 < r2, b1 # b2, Polka(r2, b2)'
               PROVE  NotChoosable(r1, b1)'
    BY DEF PolkaExcludes, Polka, HasQuorum, NotChoosable, Passed, vote
  <2>0. \A x \in VotesOf(v) : x.round <= r
    BY <1>2, <1>3 DEF VotesOf
  <2>1. \A q1 \in Rounds, c1 \in Blocks : NotChoosable(q1, c1) => NotChoosable(q1, c1)'
    BY <1>1, <2>0, NotChoosableStable DEF VInv, new
  <2>2. CASE Polka(r2, b2)
    BY <2>1, <2>2 DEF VInv, PolkaExcludes
  <2>3. CASE ~Polka(r2, b2)
    <3>1. PICK Q2 \in Quorums : \A w \in Q2 : vote("prevote", w, r2, b2) \in votes'
      BY DEF Polka, HasQuorum, vote
    <3>2. r2 = r
      <4>1. PICK w \in Q2 : vote("prevote", w, r2, b2) \notin votes
        BY <2>3, <3>1 DEF Polka, HasQuorum
      <4>2. w \in Validators /\ vote("prevote", w, r2, b2) = new
        BY <1>1, <3>1, <4>1, QuorumAssumption
      <4> QED
        BY <1>1, <4>2, VoteType
    <3> SUFFICES ASSUME ~NotChoosable(r1, b1)' PROVE FALSE
      OBVIOUS
    <3>3. PICK Q1 \in Quorums : \A w \in Correct :
             w \in Q1 /\ Passed(w, r1)' => vote("precommit", w, r1, b1) \in votes'
      BY DEF NotChoosable, Passed, vote
    <3>4. PICK w \in Correct : w \in Q1 /\ w \in Q2
      BY QuorumAssumption
    <3> DEFINE x == vote("prevote", w, r2, b2)
               y == vote("precommit", w, r1, b1)
    <3>5. /\ x \in votes' /\ x.type = "prevote" /\ x.val = w /\ x.round = r2 /\ x.block = b2
          /\ y.type = "precommit" /\ y.val = w /\ y.round = r1 /\ y.block = b1
      BY <3>1, <3>4, VoteType DEF Correct
    <3>6. Passed(w, r1)'
      BY <3>5, RoundsAssumption DEF Passed
    <3>7. y \in votes'
      BY <3>3, <3>4, <3>6
    <3> HIDE DEF x, y
    <3>8. PICK pr \in Rounds : r1 <= pr /\ pr < r2 /\ Polka(pr, b2)'
      BY <1>7, <3>4, <3>5, <3>7 DEF PrevoteJustified, Polka, HasQuorum, vote
    <3>9. Polka(pr, b2)
      <4>1. PICK Q3 \in Quorums : \A u \in Q3 : vote("prevote", u, pr, b2) \in votes'
        BY <3>8 DEF Polka, HasQuorum, vote
      <4>2. \A u \in Q3 : vote("prevote", u, pr, b2) # new
        BY <1>1, <3>2, <3>8, RoundsAssumption, QuorumAssumption, <4>1, VoteType
      <4> QED
        BY <1>1, <4>1, <4>2 DEF Polka, HasQuorum
    <3>10. CASE pr = r1
      <4>1. Polka(r1, b1)'
        BY <1>6, <3>4, <3>5, <3>7 DEF PrecommitHasPolka, Polka, HasQuorum, vote
      <4>2. Polka(r1, b2)'
        BY <3>8, <3>10
      <4>3. b1 = b2
        <5>1. PICK P1 \in Quorums : \A u \in P1 : vote("prevote", u, r1, b1) \in votes'
          BY <4>1 DEF Polka, HasQuorum, vote
        <5>2. PICK P2 \in Quorums : \A u \in P2 : vote("prevote", u, r1, b2) \in votes'
          BY <4>2 DEF Polka, HasQuorum, vote
        <5>3. PICK u \in Correct : u \in P1 /\ u \in P2
          BY QuorumAssumption
        <5>4. vote("prevote", u, r1, b1) = vote("prevote", u, r1, b2)
          BY <1>5, <5>1, <5>2, <5>3, VoteType DEF OneVote, Correct
        <5> QED
          BY <5>3, <5>4, VoteType DEF Correct
      <4> QED
        BY <4>3
    <3>11. CASE r1 < pr
      BY <2>1, <3>9, <3>11 DEF VInv, PolkaExcludes
    <3> QED
      BY <3>8, <3>10, <3>11, RoundsAssumption
  <2> QED
    BY <2>2, <2>3
<1>9. DecisionHasQuorum'
  <2> SUFFICES ASSUME NEW w \in Correct, decision[w] # NoDecision
               PROVE  \E q \in Rounds : HasQuorum("precommit", q, decision[w])'
    BY <1>1 DEF DecisionHasQuorum, HasQuorum, vote
  <2> QED
    BY <1>1, QuorumStable DEF VInv, DecisionHasQuorum
<1> QED
  BY <1>4, <1>5, <1>6, <1>7, <1>8, <1>9 DEF VInv

\* A decision adds no vote.
LEMMA DecideVInv ==
    ASSUME VInv, NEW v \in Correct, NEW b \in Blocks, Decide(v, b)
    PROVE  VInv'
<1>1. votes' = votes /\ decision' = [decision EXCEPT ![v] = b] /\ decision \in [Correct -> Blocks \cup {NoDecision}]
  BY DEF Decide, VInv, TypeOK
<1>2. TypeOK'
  BY <1>1 DEF VInv, TypeOK
<1>3. OneVote' /\ PrecommitHasPolka' /\ PrevoteJustified' /\ PolkaExcludes'
  BY <1>1 DEF VInv, OneVote, PrecommitHasPolka, PrevoteJustified, PolkaExcludes, NotChoosable,
              Passed, Polka, HasQuorum, vote
<1>4. DecisionHasQuorum'
  BY <1>1 DEF VInv, DecisionHasQuorum, Decide, HasQuorum, vote
<1> QED
  BY <1>2, <1>3, <1>4 DEF VInv

LEMMA NextVInv == VInv /\ [Next]_vars => VInv'
<1> SUFFICES ASSUME VInv, [Next]_vars PROVE VInv'
  OBVIOUS
<1>1. CASE Next
  BY <1>1, VoteVInv, DecideVInv DEF Next
<1>2. CASE UNCHANGED vars
  BY <1>2 DEF vars, VInv, TypeOK, OneVote, PrecommitHasPolka, PrevoteJustified, PolkaExcludes,
              NotChoosable, Passed, Polka, HasQuorum, vote, DecisionHasQuorum
<1> QED
  BY <1>1, <1>2

-----------------------------------------------------------------------------
\* +2/3 precommits for b1 contradict a polka for b2 in a later round.
LEMMA CommitExcludes ==
    ASSUME VInv, NEW r1 \in Rounds, NEW r2 \in Rounds, NEW b1 \in Blocks, NEW b2 \in Blocks,
           r1 < r2, HasQuorum("precommit", r1, b1), Polka(r2, b2)
    PROVE  b1 = b2
<1> SUFFICES ASSUME b1 # b2 PROVE FALSE
  OBVIOUS
<1>1. NotChoosable(r1, b1)
  BY DEF VInv, PolkaExcludes
<1> QED
  BY <1>1 DEF NotChoosable, HasQuorum

\* Two +2/3 majorities of precommits are for one block.
LEMMA OneCommit ==
    ASSUME VInv, NEW r1 \in Rounds, NEW r2 \in Rounds, NEW b1 \in Blocks, NEW b2 \in Blocks,
           r1 <= r2, HasQuorum("precommit", r1, b1), HasQuorum("precommit", r2, b2)
    PROVE  b1 = b2
<1>1. CASE r1 = r2
  BY <1>1, OnePolka DEF VInv
<1>2. CASE r1 < r2
  <2>1. PICK Q \in Quorums : \A v \in Q : vote("precommit", v, r2, b2) \in votes
    BY DEF HasQuorum
  <2>2. PICK v \in Correct : v \in Q
    BY CorrectInQuorum
  <2>3. Polka(r2, b2)
    BY <2>1, <2>2, VoteType DEF VInv, PrecommitHasPolka, Correct
  <2> QED
    BY <1>2, <2>3, CommitExcludes
<1> QED
  BY <1>1, <1>2, RoundsAssumption

\* The votes and decisions keep their types.
THEOREM TypeCorrect == Spec => []TypeOK
BY InitVInv, NextVInv, PTL DEF Spec, VInv

\* No two correct validators finalize different blocks at one height.
THEOREM AgreementHolds == Spec => []Agreement
<1>1. VInv => Agreement
  <2> SUFFICES ASSUME VInv, NEW v \in Correct, NEW w \in Correct,
                      decision[v] # NoDecision, decision[w] # NoDecision
               PROVE  decision[v] = decision[w]
    BY DEF Agreement
  <2>1. decision[v] \in Blocks /\ decision[w] \in Blocks
    BY DEF VInv, TypeOK
  <2>2. PICK r1 \in Rounds : HasQuorum("precommit", r1, decision[v])
    BY DEF VInv, DecisionHasQuorum
  <2>3. PICK r2 \in Rounds : HasQuorum("precommit", r2, decision[w])
    BY DEF VInv, DecisionHasQuorum
  <2>4. r1 <= r2 \/ r2 <= r1
    BY RoundsAssumption
  <2> QED
    BY <2>1, <2>2, <2>3, <2>4, OneCommit
<1> QED
  BY <1>1, InitVInv, NextVInv, PTL DEF Spec

\* +2/3 precommits for a block exclude a polka for another one in every later round.
THEOREM CommitIsFinal == Spec => []CommitBlocksLaterPolkas
<1>1. VInv => CommitBlocksLaterPolkas
  BY CommitExcludes DEF CommitBlocksLaterPolkas
<1> QED
  BY <1>1, InitVInv, NextVInv, PTL DEF Spec

-----------------------------------------------------------------------------
\* The rules ConsensusState keeps locally, whatever the order in which the votes
\* of a node were signed.
LocalRules == TypeOK /\ OneVote /\ PrecommitHasPolka /\ PrevoteJustified /\ DecisionHasQuorum

LEMMA MinimalRound ==
    ASSUME NEW T, T \subseteq Nat, T # {}
    PROVE  \E x \in T : \A y \in T : x <= y
<1> DEFINE R == OpToRel(<, Nat)
<1>1. IsWellFoundedOn(R, Nat)
  BY NatLessThanWellFounded
<1>2. \A x, y \in Nat : y < x => <<y, x>> \in R
  BY DEF OpToRel
<1> HIDE DEF R
<1>3. PICK x \in T : \A y \in T : ~ (<<y, x>> \in R)
  BY <1>1, WFMin
<1>4. ASSUME NEW y \in T PROVE x <= y
  <2>1. x \in Nat /\ y \in Nat
    OBVIOUS
  <2>2. ~ (y < x)
    BY <1>2, <1>3, <2>1
  <2> QED
    BY <2>1, <2>2
<1> QED
  BY <1>4

\* A precommit in round r1 for b1 and a polka for b2 in r1 or later, taken in the
\* least such round, have no way to have come about.
LEMMA RulesExclude ==
    ASSUME LocalRules, NEW r1 \in Rounds, NEW r2 \in Rounds, NEW b1 \in Blocks, NEW b2 \in Blocks,
           r1 <= r2, HasQuorum("precommit", r1, b1), Polka(r2, b2)
    PROVE  b1 = b2
<1> SUFFICES ASSUME b1 # b2 PROVE FALSE
  OBVIOUS
<1> DEFINE T == {r \in Rounds : r1 <= r /\ Polka(r, b2)}
<1>1. PICK m \in T : \A y \in T : m <= y
  <2>1. T \subseteq Nat /\ T # {}
    BY RoundsAssumption
  <2> HIDE DEF T
  <2> QED
    BY <2>1, MinimalRound
<1>2. PICK Q1 \in Quorums : \A v \in Q1 : vote("precommit", v, r1, b1) \in votes
  BY DEF HasQuorum
<1>3. PICK Q2 \in Quorums : \A v \in Q2 : vote("prevote", v, m, b2) \in votes
  BY <1>1 DEF Polka, HasQuorum
<1>4. PICK v \in Correct : v \in Q1 /\ v \in Q2
  BY QuorumAssumption
<1> DEFINE x == vote("prevote", v, m, b2)
           y == vote("precommit", v, r1, b1)
<1>5. /\ x \in votes /\ x.type = "prevote" /\ x.val = v /\ x.round = m /\ x.block = b2
      /\ y \in votes /\ y.type = "precommit" /\ y.val = v /\ y.round = r1 /\ y.block = b1
  BY <1>1, <1>2, <1>3, <1>4, VoteType DEF Correct
<1> HIDE DEF x, y
<1>6. CASE m = r1
  <2>1. Polka(r1, b1)
    BY <1>4, <1>5 DEF LocalRules, PrecommitHasPolka
  <2> QED
    BY <1>1, <1>6, <2>1, OnePolka DEF LocalRules, Polka
<1>7. CASE r1 < m
  <2>1. PICK pr \in Rounds : r1 <= pr /\ pr < m /\ Polka(pr, b2)
    BY <1>4, <1>5, <1>7 DEF LocalRules, PrevoteJustified
  <2> QED
    BY <1>1, <2>1, RoundsAssumption
<1> QED
  BY <1>1, <1>6, <1>7, RoundsAssumption

\* Agreement follows from the local rules alone: any set of votes and decisions
\* in which each correct validator signs one vote per round and type, precommits
\* with a polka, prevotes within its justification and decides on +2/3
\* precommits has one decision, in whatever steps it came about.  These are
\* the rules ConsensusState's runs check of state.go: OneVotePerRound,
\* PrecommitHasPolka, PrevoteJustified and CommitHasQuorum.
THEOREM LocalRulesSuffice == LocalRules => Agreement /\ CommitBlocksLaterPolkas
<1> SUFFICES ASSUME LocalRules PROVE Agreement /\ CommitBlocksLaterPolkas
  OBVIOUS
<1>1. ASSUME NEW r1 \in Rounds, NEW r2 \in Rounds, NEW b1 \in Blocks, NEW b2 \in Blocks,
             r1 <= r2, HasQuorum("precommit", r1, b1), HasQuorum("precommit", r2, b2)
      PROVE  b1 = b2
  <2>1. PICK Q \in Quorums : \A v \in Q : vote("precommit", v, r2, b2) \in votes
    BY <1>1 DEF HasQuorum
  <2>2. PICK v \in Correct : v \in Q
    BY CorrectInQuorum
  <2>3. Polka(r2, b2)
    BY <1>1, <2>1, <2>2, VoteType DEF LocalRules, PrecommitHasPolka, Correct
  <2> QED
    BY <1>1, <2>3, RulesExclude
<1>2. Agreement
  <2> SUFFICES ASSUME NEW v \in Correct, NEW w \in Correct,
                      decision[v] # NoDecision, decision[w] # NoDecision
               PROVE  decision[v] = decision[w]
    BY DEF Agreement
  <2>1. decision[v] \in Blocks /\ decision[w] \in Blocks
    BY DEF LocalRules, TypeOK
  <2>2. PICK r1 \in Rounds : HasQuorum("precommit", r1, decision[v])
    BY DEF LocalRules, DecisionHasQuorum
  <2>3. PICK r2 \in Rounds : HasQuorum("precommit", r2, decision[w])
    BY DEF LocalRules, DecisionHasQuorum
  <2>4. r1 <= r2 \/ r2 <= r1
    BY RoundsAssumption
  <2> QED
    BY <1>1, <2>1, <2>2, <2>3, <2>4
<1>3. CommitBlocksLaterPolkas
  BY RulesExclude, RoundsAssumption DEF CommitBlocksLaterPolkas
<1> QED
  BY <1>2, <1>3
=============================================================================
