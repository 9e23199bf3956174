------------------------------- MODULE FilePV -------------------------------
(***************************************************************************)
(* The file-backed private validator of privval/file.go.                   *)
(*                                                                         *)
(* FilePV signs votes and proposals and remembers, in memory and in a      *)
(* state file, the last height/round/step (HRS) it signed together with    *)
(* the bytes it signed.  A request runs in the steps in which a crash can  *)
(* tell them apart: check and sign in memory (SignVote, SignProposal), the *)
(* atomic replacement of the state file (Save), and the return of the      *)
(* signature to the caller (Return).  The caller is sequential: consensus  *)
(* signs from its receive routine, a signer server from its service loop.  *)
(*                                                                         *)
(* A canonical message is a record; a signature over it is represented by  *)
(* the message it covers, so "released" holds what the world has seen.     *)
(* Keys, chain ids and the vote extension, which is signed afresh on every *)
(* request and never compared, are left out.                               *)
(***************************************************************************)
EXTENDS Integers

CONSTANTS
    Heights,      \* heights for which a signature is requested
    Rounds,       \* rounds for which a signature is requested
    BlockIDs,     \* block ids, the nil block id being one of them
    Timestamps,   \* timestamps a message may carry
    NoSignBytes   \* SignBytes == nil

ASSUME HeightsAssumption == Heights \subseteq Nat \ {0}
ASSUME RoundsAssumption == Rounds \subseteq Nat

stepNone == 0
stepPropose == 1
stepPrevote == 2
stepPrecommit == 3

\* VoteSignBytes / ProposalSignBytes: the canonical message that is signed.
Message == [height : Heights, round : Rounds, step : stepPropose..stepPrecommit,
            block : BlockIDs, time : Timestamps]

ASSUME NoSignBytesAssumption == NoSignBytes \notin Message

\* FilePVLastSignState; Signature is the one over SignBytes.
LastSignState == [height : {0} \cup Heights, round : {0} \cup Rounds,
                  step : stepNone..stepPrecommit,
                  signBytes : Message \cup {NoSignBytes}]

emptyState == [height |-> 0, round |-> 0, step |-> stepNone, signBytes |-> NoSignBytes]

VARIABLES
    lss,       \* pv.LastSignState in memory
    file,      \* the contents of the state file
    pc,        \* "idle", "save" (before Save), "return" (after it), "down"
    reply,     \* the signed message the running request will return
    released   \* every signed message returned to a caller so far

vars == <<lss, file, pc, reply, released>>

-----------------------------------------------------------------------------
\* The lexicographic order on height, round and step.
HRSLess(a, b) ==
    \/ a.height < b.height
    \/ a.height = b.height /\ a.round < b.round
    \/ a.height = b.height /\ a.round = b.round /\ a.step < b.step

HRSEqual(a, b) ==
    a.height = b.height /\ a.round = b.round /\ a.step = b.step

\* checkHRS: a request may not regress, and one for the HRS last signed is
\* answered from the recorded sign bytes.
checkHRSRegression(state, m) == HRSLess(m, state)
checkHRSSame(state, m) == HRSEqual(state, m) /\ state.signBytes # NoSignBytes

\* checkVotesOnlyDifferByTimestamp
OnlyDifferByTimestamp(last, m) == [last EXCEPT !.time = m.time] = m

\* saveSigned up to the call of Save: the new in-memory state.
signedState(m) ==
    [height |-> m.height, round |-> m.round, step |-> m.step, signBytes |-> m]

-----------------------------------------------------------------------------
Init ==
    /\ lss = emptyState
    /\ file = emptyState
    /\ pc = "idle"
    /\ reply = NoSignBytes
    /\ released = {}

\* Mutant: the signature is returned without having been persisted.
SignFreshUnsaved(m) ==
    /\ ~checkHRSRegression(lss, m)
    /\ ~HRSEqual(lss, m)
    /\ lss' = signedState(m)
    /\ reply' = m
    /\ pc' = "return"
    /\ UNCHANGED <<file, released>>

\* A fresh signature: memory is updated first, Save follows.
SignFresh(m) ==
    /\ ~checkHRSRegression(lss, m)
    /\ ~HRSEqual(lss, m)
    /\ lss' = signedState(m)
    /\ reply' = m
    /\ pc' = "save"
    /\ UNCHANGED <<file, released>>

\* A request for the HRS last signed returns the recorded signature, and with
\* it the recorded timestamp.
SignAgain(last) ==
    /\ reply' = last
    /\ pc' = "return"
    /\ UNCHANGED <<lss, file, released>>

\* signVote.  An error return (regression, conflicting data) changes nothing.
SignVote(m) ==
    /\ pc = "idle"
    /\ m.step \in {stepPrevote, stepPrecommit}
    /\ \/ SignFresh(m)
       \/ /\ checkHRSSame(lss, m)
          /\ OnlyDifferByTimestamp(lss.signBytes, m)
          /\ SignAgain(lss.signBytes)

\* signProposal: the sign bytes must be the recorded ones, timestamp included.
SignProposal(m) ==
    /\ pc = "idle"
    /\ m.step = stepPropose
    /\ \/ SignFresh(m)
       \/ /\ checkHRSSame(lss, m)
          /\ lss.signBytes = m
          /\ SignAgain(lss.signBytes)

\* FilePVLastSignState.Save: WriteFileAtomic swaps the file in one step.
Save ==
    /\ pc = "save"
    /\ file' = lss
    /\ pc' = "return"
    /\ UNCHANGED <<lss, reply, released>>

\* The signature reaches the caller.
Return ==
    /\ pc = "return"
    /\ released' = released \cup {reply}
    /\ reply' = NoSignBytes
    /\ pc' = "idle"
    /\ UNCHANGED <<lss, file>>

\* The process dies; memory is lost.
Crash ==
    /\ pc # "down"
    /\ lss' = emptyState
    /\ reply' = NoSignBytes
    /\ pc' = "down"
    /\ UNCHANGED <<file, released>>

\* Mutant: the process restarts with LoadFilePVEmptyState.
LoadFilePVForgetful ==
    /\ pc = "down"
    /\ lss' = emptyState
    /\ pc' = "idle"
    /\ UNCHANGED <<file, reply, released>>

\* LoadFilePV: the last sign state is read back from the file.
LoadFilePV ==
    /\ pc = "down"
    /\ lss' = file
    /\ pc' = "idle"
    /\ UNCHANGED <<file, reply, released>>

Next ==
    \/ \E m \in Message : SignVote(m) \/ SignProposal(m)
    \/ Save
    \/ Return
    \/ Crash
    \/ LoadFilePV

Spec == Init /\ [][Next]_vars

\* Save returns an error: the request fails, the memory of it stays.
SaveFails ==
    /\ pc = "save"
    /\ reply' = NoSignBytes
    /\ pc' = "idle"
    /\ UNCHANGED <<lss, file, released>>

SpecSaveMayFail == Init /\ [][Next \/ SaveFails]_vars

-----------------------------------------------------------------------------
(***************************************************************************)
(* Properties                                                              *)
(***************************************************************************)

\* The type invariant of memory, file and the signatures handed out.
TypeOK ==
    /\ lss \in LastSignState
    /\ file \in LastSignState
    /\ pc \in {"idle", "save", "return", "down"}
    /\ reply \in Message \cup {NoSignBytes}
    /\ released \subseteq Message

\* No double signing (type FilePV: "using data persisted to disk to prevent
\* double signing"): whatever the crashes and restarts, two messages released
\* for one height, round and step are the same message, timestamp included.
NoDoubleSign ==
    \A m1, m2 \in released : HRSEqual(m1, m2) => m1 = m2

\* signVote and signProposal persist before they return: the state file is
\* never behind a signature that has left the process, so a restart from the
\* file at any instant finds every such signature accounted for.
ReleasedIsPersisted ==
    \A m \in released :
        /\ ~HRSLess(file, m)
        /\ HRSEqual(file, m) => file.signBytes = m

\* checkHRS guards the file: no sequence of requests, crashes and restarts
\* moves the persisted height/round/step backwards.
FileNeverRegresses ==
    [][~HRSLess(file', file)]_vars
=============================================================================
