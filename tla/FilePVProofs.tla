---------------------------- MODULE FilePVProofs -----------------------------
(****************************************************************************)
(* Proofs about FilePV, alone and behind the remote signer, for every set   *)
(* of heights, rounds, block ids and timestamps, and any number of retries, *)
(* connections and faults.                                                  *)
(*                                                                          *)
(* NoDoubleSign is not inductive: a step may only be shown harmless when    *)
(* the file is known to cover what was released, and when memory is known   *)
(* to agree with the file whenever no Save is pending.  PVInv adds both.    *)
(* SignerInv, in the second part, adds what is under way on each connection *)
(* between the client and the signer.                                       *)
(****************************************************************************)
EXTENDS RemoteSigner, SequenceTheorems, TLAPS

\* A last sign state is empty or carries the message it was recorded for.
WellFormed(s) ==
    s = emptyState \/ (s.signBytes \in Message /\ s = signedState(s.signBytes))

\* What memory, file and reply owe each other at each point of a request.
MemoryAgrees ==
    /\ WellFormed(file)
    /\ pc = "idle" => lss = file
    /\ pc = "return" => lss = file /\ reply \in Message /\ reply = file.signBytes
    /\ pc = "save" => reply \in Message /\ lss = signedState(reply) /\ HRSLess(file, lss)

PVInv == TypeOK /\ MemoryAgrees /\ ReleasedIsPersisted /\ NoDoubleSign

-----------------------------------------------------------------------------
\* checkHRS compares totally: two states are ordered one way, the other or equal.
LEMMA HRSTotal ==
    ASSUME NEW a, NEW b,
           a.height \in Int, a.round \in Int, a.step \in Int,
           b.height \in Int, b.round \in Int, b.step \in Int
    PROVE  HRSLess(a, b) \/ HRSLess(b, a) \/ HRSEqual(a, b)
BY DEF HRSLess, HRSEqual

\* The order checkHRS uses is transitive and irreflexive, and respects equality.
LEMMA HRSOrder ==
    ASSUME NEW a, NEW b, NEW c,
           a.height \in Int, a.round \in Int, a.step \in Int,
           b.height \in Int, b.round \in Int, b.step \in Int,
           c.height \in Int, c.round \in Int, c.step \in Int
    PROVE  /\ HRSLess(a, b) /\ HRSLess(b, c) => HRSLess(a, c)
           /\ HRSLess(a, b) => ~HRSLess(b, a) /\ ~HRSEqual(a, b) /\ ~HRSEqual(b, a)
           /\ HRSEqual(a, b) /\ HRSLess(b, c) => HRSLess(a, c)
BY DEF HRSLess, HRSEqual

\* Heights, rounds and steps of messages and sign states are integers.
LEMMA HRSTypes ==
    /\ \A m \in Message : m.height \in Int /\ m.round \in Int /\ m.step \in Int
    /\ \A s \in LastSignState : s.height \in Int /\ s.round \in Int /\ s.step \in Int
<1>1. Heights \subseteq Int /\ Rounds \subseteq Int /\ 0 \in Int
  BY HeightsAssumption, RoundsAssumption
<1>2. stepPropose..stepPrecommit \subseteq Int /\ stepNone..stepPrecommit \subseteq Int
  BY DEF stepNone, stepPropose, stepPrecommit
<1>3. ASSUME NEW m \in Message PROVE m.height \in Int /\ m.round \in Int /\ m.step \in Int
  BY Zenon, <1>1, <1>2, <1>3 DEF Message
<1>4. ASSUME NEW s \in LastSignState PROVE s.height \in Int /\ s.round \in Int /\ s.step \in Int
  BY Zenon, <1>1, <1>2, <1>4 DEF LastSignState
<1> QED
  BY <1>3, <1>4

\* A freshly signed state is a last sign state with the HRS of its message.
LEMMA SignedState ==
    ASSUME NEW m \in Message
    PROVE  /\ signedState(m) \in LastSignState
           /\ HRSEqual(signedState(m), m)
           /\ signedState(m).signBytes = m
BY DEF signedState, Message, LastSignState, HRSEqual, stepNone, stepPropose, stepPrecommit

LEMMA EmptyState == emptyState \in LastSignState
BY DEF emptyState, LastSignState, stepNone, stepPrecommit

-----------------------------------------------------------------------------
\* The invariant holds when a fresh validator starts.
LEMMA InitPVInv == Init => PVInv
BY EmptyState
   DEF Init, PVInv, TypeOK, MemoryAgrees, WellFormed, ReleasedIsPersisted, NoDoubleSign

\* A fresh signature moves memory strictly past the file.
LEMMA FreshPVInv ==
    ASSUME PVInv, pc = "idle", NEW m \in Message, SignFresh(m)
    PROVE  PVInv'
<1>1. lss' \in LastSignState /\ lss' = signedState(m) /\ reply' = m /\ pc' = "save"
      /\ file' = file /\ released' = released
  BY SignedState DEF SignFresh
<1>2. TypeOK'
  BY <1>1 DEF PVInv, TypeOK
<1>3. HRSLess(file, lss')
  <2>1. lss = file /\ lss \in LastSignState
    BY DEF PVInv, TypeOK, MemoryAgrees
  <2>2. HRSLess(lss, m)
    BY <2>1, HRSTypes, HRSTotal DEF SignFresh, checkHRSRegression
  <2> QED
    BY <1>1, <2>1, <2>2 DEF HRSLess, signedState
<1>4. MemoryAgrees'
  BY <1>1, <1>3 DEF PVInv, MemoryAgrees, WellFormed
<1> QED
  BY <1>1, <1>2, <1>4 DEF PVInv, ReleasedIsPersisted, NoDoubleSign

\* Answering from the recorded signature changes neither memory nor file.
LEMMA AgainPVInv ==
    ASSUME PVInv, pc = "idle", NEW m \in Message, checkHRSSame(lss, m), SignAgain(lss.signBytes)
    PROVE  PVInv'
<1>1. lss = file /\ lss.signBytes \in Message
  BY DEF PVInv, MemoryAgrees, WellFormed, TypeOK, LastSignState, checkHRSSame
<1>2. TypeOK' /\ MemoryAgrees'
  BY <1>1 DEF PVInv, TypeOK, MemoryAgrees, SignAgain
<1> QED
  BY <1>2 DEF PVInv, ReleasedIsPersisted, NoDoubleSign, SignAgain

\* Save only moves the file forward, past everything released.
LEMMA SavePVInv ==
    ASSUME PVInv, Save
    PROVE  PVInv'
<1>1. lss \in LastSignState /\ file \in LastSignState /\ released \subseteq Message
      /\ HRSLess(file, lss) /\ reply \in Message /\ lss = signedState(reply)
  BY DEF PVInv, TypeOK, MemoryAgrees, Save
<1>2. file' = lss /\ pc' = "return" /\ lss' = lss /\ reply' = reply /\ released' = released
  BY DEF Save
<1>3. TypeOK'
  BY <1>1, <1>2 DEF PVInv, TypeOK
<1>4. MemoryAgrees'
  BY <1>1, <1>2, SignedState DEF PVInv, MemoryAgrees, WellFormed
<1>5. ReleasedIsPersisted'
  <2> SUFFICES ASSUME NEW m \in released
               PROVE  HRSLess(m, lss)
    BY <1>1, <1>2, HRSTypes, HRSOrder DEF ReleasedIsPersisted
  <2>1. HRSLess(m, file) \/ HRSEqual(m, file)
    BY <1>1, HRSTypes, HRSTotal DEF PVInv, ReleasedIsPersisted, HRSEqual
  <2> QED
    BY <1>1, <2>1, HRSTypes, HRSOrder
<1> QED
  BY <1>2, <1>3, <1>4, <1>5 DEF PVInv, NoDoubleSign

\* What Return releases is what the file holds.
LEMMA ReturnPVInv ==
    ASSUME PVInv, Return
    PROVE  PVInv'
<1>1. reply \in Message /\ reply = file.signBytes /\ lss = file /\ file \in LastSignState
  BY DEF PVInv, TypeOK, MemoryAgrees, Return
<1>2. released' = released \cup {reply} /\ pc' = "idle" /\ lss' = lss /\ file' = file
      /\ reply' = NoSignBytes
  BY DEF Return
<1>3. HRSEqual(file, reply)
  BY <1>1, SignedState, NoSignBytesAssumption DEF PVInv, MemoryAgrees, WellFormed, emptyState
<1>4. TypeOK' /\ MemoryAgrees'
  BY <1>1, <1>2 DEF PVInv, TypeOK, MemoryAgrees
<1>5. ReleasedIsPersisted'
  <2>1. ~HRSLess(file, reply) /\ file.signBytes = reply
    BY <1>1, <1>3, HRSTypes, HRSOrder
  <2> QED
    BY <1>2, <2>1 DEF PVInv, ReleasedIsPersisted
<1>6. NoDoubleSign'
  <2>1. \A m \in released : HRSEqual(m, reply) => m = reply
    BY <1>1, <1>3 DEF PVInv, ReleasedIsPersisted, HRSEqual
  <2> QED
    BY <1>2, <2>1 DEF PVInv, NoDoubleSign, HRSEqual
<1> QED
  BY <1>4, <1>5, <1>6 DEF PVInv

\* A crash loses memory only, and LoadFilePV restores it from the file.
LEMMA RestartPVInv ==
    ASSUME PVInv, Crash \/ LoadFilePV
    PROVE  PVInv'
BY EmptyState
   DEF PVInv, TypeOK, MemoryAgrees, ReleasedIsPersisted, NoDoubleSign, Crash, LoadFilePV

\* Every step preserves the invariant.
LEMMA NextPVInv == PVInv /\ [Next]_vars => PVInv'
<1> SUFFICES ASSUME PVInv, [Next]_vars PROVE PVInv'
  OBVIOUS
<1>1. ASSUME NEW m \in Message, SignVote(m) \/ SignProposal(m) PROVE PVInv'
  <2>1. pc = "idle"
    BY <1>1 DEF SignVote, SignProposal
  <2>2. SignFresh(m) \/ (checkHRSSame(lss, m) /\ SignAgain(lss.signBytes))
    BY <1>1 DEF SignVote, SignProposal
  <2> QED
    BY <2>1, <2>2, FreshPVInv, AgainPVInv
<1>2. CASE UNCHANGED vars
  BY <1>2 DEF vars, PVInv, TypeOK, MemoryAgrees, ReleasedIsPersisted, NoDoubleSign
<1> QED
  BY <1>1, <1>2, SavePVInv, ReturnPVInv, RestartPVInv DEF Next

-----------------------------------------------------------------------------
\* FilePV's memory, file and signatures always have their types.
THEOREM TypeCorrect == Spec => []TypeOK
BY InitPVInv, NextPVInv, PTL DEF Spec, PVInv

\* FilePV never signs two different messages for one height, round and step,
\* over any sequence of requests, crashes and restarts.
THEOREM DoubleSignSafety == Spec => []NoDoubleSign
BY InitPVInv, NextPVInv, PTL DEF Spec, PVInv

\* The state file always covers every signature that was returned.
THEOREM PersistBeforeRelease == Spec => []ReleasedIsPersisted
BY InitPVInv, NextPVInv, PTL DEF Spec, PVInv

\* No step moves the persisted height/round/step backwards.
THEOREM FileMonotone == Spec => FileNeverRegresses
<1>1. PVInv /\ [Next]_vars => [~HRSLess(file', file)]_vars
  <2> SUFFICES ASSUME PVInv, Next PROVE ~HRSLess(file', file)
    OBVIOUS
  <2>1. file \in LastSignState /\ lss \in LastSignState
    BY DEF PVInv, TypeOK
  <2>2. CASE Save
    BY <2>1, <2>2, HRSTypes, HRSOrder DEF Save, PVInv, MemoryAgrees
  <2>3. CASE file' = file
    BY <2>1, <2>3, HRSTypes DEF HRSLess
  <2> QED
    BY <2>2, <2>3 DEF Next, SignVote, SignProposal, SignFresh, SignAgain, Return, Crash, LoadFilePV
<1> QED
  BY <1>1, InitPVInv, NextPVInv, PTL DEF Spec, FileNeverRegresses
-----------------------------------------------------------------------------
(****************************************************************************)
(* The remote signer.  AnswersMatch is not inductive: what is read from a   *)
(* connection is the answer to the request in hand because at most one      *)
(* request is under way on a connection that the node still uses.           *)
(****************************************************************************)
Sent == Message \cup {Ping}
Response == [kind : {"ping", "proposal", "vote"}, ok : BOOLEAN, message : Sent]
Link == [requests : Seq(Sent), responses : Seq(Response), accepted : BOOLEAN, node : BOOLEAN, signer : BOOLEAN]

\* The types of the node and of the signer, and who is in a call.
NodeTypes ==
    /\ sign \in [pc : {"idle", "call"}, request : Sent, attempt : Nat, calls : Nat]
    /\ sign.pc = "call" => sign.request \in Message
    /\ call \in [user : {"none", "sign", "ping"}, pc : {"free", "connect", "write", "read"}]
    /\ call.pc # "free" => call.user = "ping" \/ (call.user = "sign" /\ sign.pc = "call")
    /\ links \in Seq(Link)
    /\ conn \in 0 .. Len(links)
    /\ acceptor \in [pc : {"accept", "offer", "wait"}, conn : 0 .. Len(links)]
    /\ acceptor.pc = "offer" => acceptor.conn # 0

ServerTypes ==
    /\ remote \/ server.pc = "dial"
    /\ server \in [pc : {"dial", "stopped", "read", "handle", "sign", "write"},
                   conn : 0 .. Len(links), message : Sent \cup Response]
    /\ server.pc \in {"dial", "stopped"} <=> server.conn = 0
    /\ server.pc = "handle" => server.message \in Sent
    /\ server.pc = "sign" => /\ server.message \in Message /\ reply \in Message /\ pc \in {"save", "return"}
                             /\ HRSEqual(server.message, reply) /\ server.message.block = reply.block
    /\ server.pc = "write" => server.message \in Response

\* The response x is one to the request r.
Fits(r, x) == r \in Message /\ x.ok => HRSEqual(r, x.message) /\ r.block = x.message.block

\* The signer is at connection k, waits there and has nothing to read.
Waiting(k) == links[k].signer => server.pc = "read" /\ links[k].requests = <<>>

\* Nothing is under way on connection k, or the one request r or its response.
Quiet(k) == links[k].responses = <<>> /\ Waiting(k)

Asked(k, r) ==
    \/ /\ links[k].responses = <<>>
       /\ links[k].signer =>
             \/ server.pc = "read" /\ links[k].requests = <<r>>
             \/ links[k].requests = <<>> /\ server.pc \in {"handle", "sign"} /\ server.message = r
             \/ links[k].requests = <<>> /\ server.pc = "write" /\ Fits(r, server.message)
    \/ \E x \in Response : links[k].responses = <<x>> /\ Fits(r, x) /\ Waiting(k)

Request == IF call.user = "ping" THEN Ping ELSE sign.request

Connections ==
    /\ \A k \in 1 .. Len(links) : links[k].signer <=> server.conn = k
    /\ \A k \in 1 .. Len(links) : ~links[k].accepted => Quiet(k)
    /\ acceptor.pc = "offer" =>
          links[acceptor.conn].accepted /\ acceptor.conn # conn /\ Quiet(acceptor.conn)
    /\ conn # 0 => links[conn].accepted
    /\ conn # 0 => IF call.pc = "read" THEN Asked(conn, Request) ELSE Quiet(conn)

SignerInv == PVInv /\ NodeTypes /\ ServerTypes /\ Connections /\ AnswersMatch

\* A type invariant of FilePV is enough for the steps that leave it alone.
LEMMA SameVars ==
    ASSUME SignerInv, UNCHANGED vars
    PROVE  PVInv' /\ pc' = pc /\ reply' = reply /\ lss' = lss
BY Zenon, NextPVInv DEF SignerInv, vars

LEMMA Types ==
    /\ Ping \in Sent /\ Ping \notin Message /\ Message \subseteq Sent
    /\ \A m \in Sent : Signed(m) \in Response /\ Refused(m) \in Response
<1>1. Ping \notin Message
  BY DEF Ping, Message, stepNone, stepPropose, stepPrecommit
<1>2. ASSUME NEW m \in Sent
      PROVE  Signed(m) \in Response /\ Refused(m) \in Response
  <2>1. kind(m) \in {"ping", "proposal", "vote"}
    BY Zenon DEF kind
  <2> QED
    BY Zenon, <2>1 DEF Signed, Refused, Response
<1> QED
  BY Zenon, <1>1, <1>2 DEF Sent

LEMMA SignerInit == RemoteInit => SignerInv
<1> SUFFICES ASSUME RemoteInit PROVE SignerInv
  BY Zenon
<1>1. PVInv
  BY Zenon, InitPVInv DEF RemoteInit
<1>2. links = <<>> /\ Len(links) = 0 /\ links \in Seq(Link) /\ conn = 0
  BY DEF RemoteInit
<1>3. /\ sign = [pc |-> "idle", request |-> Ping, attempt |-> 0, calls |-> 0]
      /\ call = [user |-> "none", pc |-> "free"] /\ acceptor = [pc |-> "accept", conn |-> 0] /\ answers = {}
      /\ server = [pc |-> "dial", conn |-> 0, message |-> Ping]
  BY DEF RemoteInit, Free, Idle
<1>4. NodeTypes
  BY <1>2, <1>3, Types DEF NodeTypes
<1>5. ServerTypes
  <2>1. server.pc = "dial" /\ server.conn = 0 /\ Ping \in Sent \cup Response
    BY <1>3, Types
  <2> QED
    BY <1>2, <1>3, <2>1 DEF ServerTypes
<1>6. Connections
  BY <1>2, <1>3 DEF Connections
<1> QED
  BY Zenon, <1>1, <1>3, <1>4, <1>5, <1>6 DEF SignerInv, AnswersMatch

-----------------------------------------------------------------------------
\* The node

\* What the steps of the node leave alone.
LEMMA NodeStep ==
    ASSUME SignerInv, UNCHANGED <<vars, remote, server>>, Len(links') = Len(links)
    PROVE  PVInv' /\ ServerTypes'
<1>1. ServerTypes /\ PVInv' /\ pc' = pc /\ reply' = reply
  BY Zenon, SameVars DEF SignerInv
<1> QED
  BY Zenon, <1>1 DEF ServerTypes

LEMMA NoLinkStep ==
    ASSUME SignerInv, UNCHANGED <<links, server>>
    PROVE  /\ \A k : Quiet(k)' <=> Quiet(k)
           /\ \A k, r : Asked(k, r)' <=> Asked(k, r)
<1>1. \A k : Waiting(k)' <=> Waiting(k)
  BY Zenon DEF Waiting
<1> QED
  BY Zenon, <1>1 DEF Quiet, Asked

\* Consensus and pingLoop start a call, or ask for a connection.
LEMMA SignRequestInv ==
    ASSUME SignerInv, NEW m \in Requests, SignRequest(m)
    PROVE  SignerInv'
<1>1. UNCHANGED <<vars, remote, call, conn, acceptor, server, links, answers>> /\ sign.pc = "idle"
  BY Zenon DEF SignRequest
<1>2. PVInv' /\ ServerTypes'
  BY Zenon, <1>1, NodeStep
<1>3. sign'.pc = "call" /\ sign'.request = m /\ m \in Message
  BY RequestsAssumption DEF SignRequest
<1>7. sign' \in [pc : {"idle", "call"}, request : Sent, attempt : Nat, calls : Nat]
  BY <1>3, Types DEF SignRequest, SignerInv, NodeTypes
<1>4. NodeTypes' /\ (call.pc # "free" => call.user = "ping")
  BY Zenon, <1>1, <1>3, <1>7 DEF SignerInv, NodeTypes
<1>5. call.pc = "read" => Request' = Request
  BY Zenon, <1>1, <1>4 DEF Request
<1>6. Connections'
  BY Zenon, <1>1, <1>5, NoLinkStep DEF SignerInv, Connections
<1> QED
  BY Zenon, <1>1, <1>2, <1>4, <1>6 DEF SignerInv, AnswersMatch

LEMMA PingTickInv ==
    ASSUME SignerInv, PingTick
    PROVE  SignerInv'
<1>1. UNCHANGED <<vars, remote, sign, call, conn, acceptor, server, links, answers>>
  BY Zenon DEF PingTick
<1>2. PVInv' /\ ServerTypes'
  BY Zenon, <1>1, NodeStep
<1>3. NodeTypes' /\ Request' = Request
  BY Zenon, <1>1 DEF SignerInv, NodeTypes, Request
<1>4. Connections'
  BY Zenon, <1>1, <1>3, NoLinkStep DEF SignerInv, Connections
<1> QED
  BY Zenon, <1>1, <1>2, <1>3, <1>4 DEF SignerInv, AnswersMatch

\* A failed call gives up the connection's turn, and consensus tries again or gives up.
LEMMA FailsTypes ==
    ASSUME NodeTypes, Fails
    PROVE  /\ call' = Free /\ sign' \in [pc : {"idle", "call"}, request : Sent, attempt : Nat, calls : Nat]
           /\ sign'.pc = "call" => sign'.request \in Message
<1>1. CASE UNCHANGED sign
  BY <1>1 DEF NodeTypes, Fails
<1>2. CASE sign' = [sign EXCEPT !.attempt = @ + 1]
  BY <1>2 DEF NodeTypes, Fails
<1>3. CASE sign' = [sign EXCEPT !.pc = "idle", !.request = Ping, !.attempt = 0]
  BY Zenon, <1>3, Types DEF NodeTypes, Fails
<1> QED
  BY Zenon, <1>1, <1>2, <1>3 DEF Fails

LEMMA FreeType ==
    Free \in [user : {"none", "sign", "ping"}, pc : {"free", "connect", "write", "read"}] /\ Free.pc = "free"
BY DEF Free

\* A call takes the connection that is there.
LEMMA UsesConnection ==
    ASSUME SignerInv, UNCHANGED <<vars, remote, sign, conn, server, links, answers>>,
           acceptor' = acceptor \/ acceptor' = [acceptor EXCEPT !.pc = "accept"],
           call' \in [user : {"sign", "ping"}, pc : {"connect", "write"}],
           call'.user = "sign" => sign.pc = "call", call.pc # "read"
    PROVE  SignerInv'
<1>1. PVInv' /\ ServerTypes'
  BY Zenon, NodeStep
<1>2. /\ acceptor' \in [pc : {"accept", "offer", "wait"}, conn : 0 .. Len(links)]
      /\ acceptor'.pc = "offer" => acceptor' = acceptor
  BY DEF SignerInv, NodeTypes
<1>3. call' \in [user : {"none", "sign", "ping"}, pc : {"free", "connect", "write", "read"}] /\ call'.pc # "read"
  OBVIOUS
<1>4. NodeTypes'
  BY Zenon, <1>2, <1>3 DEF SignerInv, NodeTypes
<1>5. Connections'
  BY Zenon, <1>2, <1>3, NoLinkStep DEF SignerInv, Connections
<1> QED
  BY Zenon, <1>1, <1>4, <1>5 DEF SignerInv, AnswersMatch

\* A call takes the connection that is offered.
LEMMA TakesOffer ==
    ASSUME SignerInv, UNCHANGED <<vars, remote, sign, server, links, answers>>,
           acceptor.pc = "offer", conn' = acceptor.conn, acceptor' = [pc |-> "wait", conn |-> 0],
           call' \in [user : {"sign", "ping"}, pc : {"write"}], call'.user = "sign" => sign.pc = "call"
    PROVE  SignerInv'
<1>1. PVInv' /\ ServerTypes'
  BY Zenon, NodeStep
<1>2. acceptor' \in [pc : {"accept", "offer", "wait"}, conn : 0 .. Len(links)] /\ acceptor'.pc = "wait"
  BY DEF SignerInv, NodeTypes
<1>3. call' \in [user : {"none", "sign", "ping"}, pc : {"free", "connect", "write", "read"}] /\ call'.pc = "write"
  OBVIOUS
<1>4. NodeTypes' /\ conn' # 0
  BY <1>2, <1>3 DEF SignerInv, NodeTypes
<1>5. Connections'
  BY Zenon, <1>2, <1>3, NoLinkStep DEF SignerInv, Connections
<1> QED
  BY Zenon, <1>1, <1>4, <1>5 DEF SignerInv, AnswersMatch

LEMMA EnsureConnectionInv ==
    ASSUME SignerInv, NEW user \in {"sign", "ping"}, ensureConnection(user)
    PROVE  SignerInv'
<1>1. UNCHANGED <<vars, remote, sign, server, links, answers>> /\ call.pc # "read"
  BY FreeType DEF ensureConnection
<1>2. ASSUME NEW p \in {"connect", "write"}, call' = [user |-> user, pc |-> p]
      PROVE  call' \in [user : {"sign", "ping"}, pc : {p}] /\ (call'.user = "sign" => sign.pc = "call")
  BY <1>2 DEF ensureConnection
<1>3. CASE acceptor.pc = "offer" /\ conn = 0
  <2>1. /\ call' = [user |-> user, pc |-> "write"] /\ conn' = acceptor.conn
        /\ acceptor' = [pc |-> "wait", conn |-> 0]
    BY Zenon, <1>3 DEF ensureConnection
  <2> QED
    BY Zenon, <1>1, <1>2, <1>3, <2>1, TakesOffer
<1>4. CASE ~(acceptor.pc = "offer" /\ conn = 0)
  <2>1. /\ \E p \in {"connect", "write"} : call' = [user |-> user, pc |-> p]
        /\ UNCHANGED conn /\ (acceptor' = acceptor \/ acceptor' = [acceptor EXCEPT !.pc = "accept"])
    BY Zenon, <1>4 DEF ensureConnection, triggerConnect
  <2>2. call' \in [user : {"sign", "ping"}, pc : {"connect", "write"}] /\ (call'.user = "sign" => sign.pc = "call")
    BY <1>2, <2>1
  <2> QED
    BY Zenon, <1>1, <2>1, <2>2, UsesConnection
<1> QED
  BY Zenon, <1>3, <1>4

\* What the connections carry, and which of them the signer has.
SameTraffic ==
    /\ links' \in Seq(Link) /\ Len(links') = Len(links)
    /\ \A k \in 1 .. Len(links) : /\ links'[k].responses = links[k].responses
                                  /\ links'[k].requests = links[k].requests
                                  /\ links'[k].signer = links[k].signer

LEMMA TrafficKept ==
    ASSUME UNCHANGED server, SameTraffic
    PROVE  /\ \A k \in 1 .. Len(links) : Quiet(k)' <=> Quiet(k)
           /\ \A k \in 1 .. Len(links) : \A r : Asked(k, r)' <=> Asked(k, r)
<1>1. \A k \in 1 .. Len(links) : Waiting(k)' <=> Waiting(k)
  BY Zenon DEF Waiting, SameTraffic
<1> QED
  BY Zenon, <1>1 DEF Quiet, Asked, SameTraffic

LEMMA LinkTypes ==
    ASSUME NodeTypes, NEW k \in 1 .. Len(links)
    PROVE  links[k] \in Link
BY DEF NodeTypes

LEMMA ChangedLink ==
    ASSUME NEW s \in Seq(Link), NEW k \in 1 .. Len(s), NEW l \in Link, NEW t, t = [s EXCEPT ![k] = l]
    PROVE  /\ t \in Seq(Link) /\ Len(t) = Len(s) /\ t[k] = l
           /\ \A j \in 1 .. Len(s) : j # k => t[j] = s[j]
BY ExceptSeq

\* The node closes its end.
LEMMA DropsConnection ==
    ASSUME NodeTypes, conn # 0, dropConnection
    PROVE  /\ conn' = 0 /\ SameTraffic
           /\ \A k \in 1 .. Len(links) : links'[k].accepted = links[k].accepted
<1>1. conn \in 1 .. Len(links) /\ links \in Seq(Link)
  BY DEF NodeTypes
<1>2. PICK l : l = [links[conn] EXCEPT !.node = FALSE]
  BY Zenon
<1>3. links[conn] \in Link
  BY <1>1
<1>4. /\ l \in Link /\ l.responses = links[conn].responses /\ l.requests = links[conn].requests
      /\ l.signer = links[conn].signer /\ l.accepted = links[conn].accepted
  BY Zenon, <1>2, <1>3 DEF Link
<1>5. links' = [links EXCEPT ![conn] = l]
  BY Zenon, <1>2 DEF dropConnection
<1>6. /\ links' \in Seq(Link) /\ Len(links') = Len(links) /\ links'[conn] = l
      /\ \A k \in 1 .. Len(links) : k # conn => links'[k] = links[k]
  BY <1>1, <1>4, <1>5, ChangedLink
<1> QED
  BY Zenon, <1>4, <1>6 DEF SameTraffic, dropConnection

\* SendRequest returns an error, and the connection is dropped or has nothing under way.
LEMMA CallFails ==
    ASSUME SignerInv, UNCHANGED <<vars, remote, server, acceptor, answers>>, Fails,
           \/ UNCHANGED <<conn, links>> /\ (conn # 0 => Quiet(conn))
           \/ conn # 0 /\ dropConnection
    PROVE  SignerInv'
<1>1. /\ SameTraffic /\ (conn' = 0 \/ (conn' = conn /\ (conn # 0 => Quiet(conn))))
      /\ \A k \in 1 .. Len(links) : links'[k].accepted = links[k].accepted
  BY Zenon, DropsConnection DEF SameTraffic, SignerInv, NodeTypes
<1>2. PVInv' /\ ServerTypes'
  BY Zenon, <1>1, NodeStep DEF SameTraffic
<1>3. /\ call' \in [user : {"none", "sign", "ping"}, pc : {"free", "connect", "write", "read"}] /\ call'.pc = "free"
      /\ sign' \in [pc : {"idle", "call"}, request : Sent, attempt : Nat, calls : Nat]
      /\ sign'.pc = "call" => sign'.request \in Message
  BY Zenon, FailsTypes, FreeType DEF SignerInv
<1>4. conn' \in 0 .. Len(links)
  BY <1>1 DEF SignerInv, NodeTypes, SameTraffic
<1>5. NodeTypes'
  BY Zenon, <1>1, <1>3, <1>4 DEF SignerInv, NodeTypes, SameTraffic
<1>6. acceptor.pc = "offer" => acceptor.conn \in 1 .. Len(links)
  BY DEF SignerInv, NodeTypes
<1>7. conn # 0 => conn \in 1 .. Len(links)
  BY DEF SignerInv, NodeTypes
<1>8. Connections'
  <2>1. Connections /\ UNCHANGED <<server, acceptor>> /\ Len(links') = Len(links)
    BY Zenon, <1>1 DEF SignerInv, SameTraffic
  <2>2. \A k \in 1 .. Len(links) : Quiet(k) => Quiet(k)'
    BY Zenon, <1>1, TrafficKept
  <2>3. \A k \in 1 .. Len(links) : links'[k].signer <=> server'.conn = k
    <3>1. \A k \in 1 .. Len(links) : links'[k].signer = links[k].signer
      BY Zenon, <1>1 DEF SameTraffic
    <3>2. \A k \in 1 .. Len(links) : links[k].signer <=> server.conn = k
      BY Zenon, <2>1 DEF Connections
    <3> QED
      BY Zenon, <2>1, <3>1, <3>2
  <2>4. \A k \in 1 .. Len(links) : ~links'[k].accepted => Quiet(k)'
    BY Zenon, <1>1, <2>1, <2>2 DEF Connections
  <2>5. PICK a : a = acceptor.conn
    BY Zenon
  <2>6. acceptor.pc = "offer" => links'[a].accepted /\ Quiet(a)' /\ a # conn'
    <3>1. acceptor.pc = "offer" => a # 0
      BY Zenon, <2>5 DEF SignerInv, NodeTypes
    <3> QED
      BY Zenon, <1>1, <1>6, <2>1, <2>2, <2>5, <3>1 DEF Connections
  <2>7. PICK c : c = conn
    BY Zenon
  <2>8. conn' # 0 => conn' = c /\ links'[c].accepted /\ Quiet(c)'
    BY Zenon, <1>1, <1>7, <2>1, <2>2, <2>7 DEF Connections
  <2> QED
    BY Zenon, <1>3, <2>1, <2>3, <2>4, <2>5, <2>6, <2>8 DEF Connections
<1> QED
  BY Zenon, <1>2, <1>5, <1>8 DEF SignerInv, AnswersMatch

LEMMA WaitConnectionInv ==
    ASSUME SignerInv, WaitConnection
    PROVE  SignerInv'
<1>1. UNCHANGED <<vars, remote, server, links, answers>> /\ call.pc = "connect"
  BY Zenon DEF WaitConnection
<1>2. CASE Fails /\ UNCHANGED <<conn, acceptor>>
  <2>1. conn # 0 => Quiet(conn)
    BY Zenon, <1>1 DEF SignerInv, Connections
  <2> QED
    BY Zenon, <1>1, <1>2, <2>1, CallFails
<1>3. CASE /\ acceptor.pc = "offer" /\ conn' = acceptor.conn /\ acceptor' = [pc |-> "wait", conn |-> 0]
           /\ call' = [call EXCEPT !.pc = "write"] /\ UNCHANGED sign
  <2>1. call' \in [user : {"sign", "ping"}, pc : {"write"}] /\ (call'.user = "sign" => sign.pc = "call")
    BY <1>1, <1>3 DEF SignerInv, NodeTypes
  <2> QED
    BY Zenon, <1>1, <1>3, <2>1, TakesOffer
<1> QED
  BY Zenon, <1>2, <1>3 DEF WaitConnection

\* The link l in place of that of connection k.
LinkTo(k, l) ==
    /\ links' \in Seq(Link) /\ Len(links') = Len(links) /\ links'[k] = l
    /\ \A j \in 1 .. Len(links) : j # k => links'[j] = links[j]

RequestWritten(r) == links' = [links EXCEPT ![conn].requests = Append(@, r)]
ResponseRead == links' = [links EXCEPT ![conn].responses = Tail(@)]

LEMMA WritesRequest ==
    ASSUME NodeTypes, conn # 0, NEW r \in Sent, RequestWritten(r)
    PROVE  \E l \in Link :
               /\ LinkTo(conn, l) /\ l.requests = Append(links[conn].requests, r)
               /\ l.responses = links[conn].responses /\ l.accepted = links[conn].accepted
               /\ l.signer = links[conn].signer
<1>1. conn \in 1 .. Len(links) /\ links \in Seq(Link)
  BY DEF NodeTypes
<1>2. links[conn] \in Link
  BY <1>1
<1>3. PICK q : q = Append(links[conn].requests, r)
  BY Zenon
<1>4. q \in Seq(Sent)
  BY <1>2, <1>3 DEF Link
<1>5. PICK l : l = [links[conn] EXCEPT !.requests = q]
  BY Zenon
<1>6. /\ l \in Link /\ l.requests = q /\ l.responses = links[conn].responses
      /\ l.accepted = links[conn].accepted /\ l.signer = links[conn].signer
  BY Zenon, <1>2, <1>4, <1>5 DEF Link
<1>7. links' = [links EXCEPT ![conn] = l] /\ l \in Link
  BY Zenon, <1>3, <1>5, <1>6 DEF RequestWritten
<1>8. LinkTo(conn, l)
  <2>1. /\ links' \in Seq(Link) /\ Len(links') = Len(links) /\ links'[conn] = l
        /\ \A j \in 1 .. Len(links) : j # conn => links'[j] = links[j]
    BY <1>1, <1>7, ChangedLink
  <2> QED
    BY Zenon, <2>1 DEF LinkTo
<1> QED
  BY Zenon, <1>3, <1>6, <1>8

LEMMA ReadsResponse ==
    ASSUME NodeTypes, conn # 0, NEW x, links[conn].responses = <<x>>, ResponseRead
    PROVE  \E l \in Link :
               /\ LinkTo(conn, l) /\ l.responses = <<>>
               /\ l.requests = links[conn].requests /\ l.accepted = links[conn].accepted
               /\ l.signer = links[conn].signer
<1>1. conn \in 1 .. Len(links) /\ links \in Seq(Link)
  BY DEF NodeTypes
<1>2. links[conn] \in Link
  BY <1>1
<1>3. PICK q : q = Tail(links[conn].responses)
  BY Zenon
<1>4. q = <<>> /\ q \in Seq(Response)
  BY <1>2, <1>3 DEF Link
<1>5. PICK l : l = [links[conn] EXCEPT !.responses = q]
  BY Zenon
<1>6. /\ l \in Link /\ l.responses = q /\ l.requests = links[conn].requests
      /\ l.accepted = links[conn].accepted /\ l.signer = links[conn].signer
  BY Zenon, <1>2, <1>4, <1>5 DEF Link
<1>7. links' = [links EXCEPT ![conn] = l] /\ l \in Link
  BY Zenon, <1>3, <1>5, <1>6 DEF ResponseRead
<1>8. LinkTo(conn, l)
  <2>1. /\ links' \in Seq(Link) /\ Len(links') = Len(links) /\ links'[conn] = l
        /\ \A j \in 1 .. Len(links) : j # conn => links'[j] = links[j]
    BY <1>1, <1>7, ChangedLink
  <2> QED
    BY Zenon, <2>1 DEF LinkTo
<1> QED
  BY Zenon, <1>4, <1>6, <1>8

\* Only the connection in use carries something else: the rest of Connections.
LEMMA OtherLinks ==
    ASSUME SignerInv, UNCHANGED <<server, conn, acceptor>>, conn # 0, NEW l \in Link, LinkTo(conn, l),
           l.accepted = links[conn].accepted, l.signer = links[conn].signer,
           IF call'.pc = "read" THEN Asked(conn, Request)' ELSE Quiet(conn)'
    PROVE  Connections'
<1>1. \A k \in 1 .. Len(links) : k # conn => (Quiet(k)' <=> Quiet(k))
  BY Zenon DEF Quiet, Waiting, LinkTo
<1>2. \A k \in 1 .. Len(links) : links'[k].accepted = links[k].accepted /\ links'[k].signer = links[k].signer
  BY Zenon DEF LinkTo
<1>3. acceptor.pc = "offer" => acceptor.conn \in 1 .. Len(links)
  BY DEF SignerInv, NodeTypes
<1>4. links[conn].accepted /\ conn \in 1 .. Len(links)
  BY DEF SignerInv, Connections, NodeTypes
<1>5. Connections
  BY Zenon DEF SignerInv
<1>6. \A k \in 1 .. Len(links) : links'[k].signer <=> server.conn = k
  BY Zenon, <1>2, <1>5 DEF Connections
<1>7. \A k \in 1 .. Len(links) : ~links'[k].accepted => Quiet(k)'
  BY Zenon, <1>1, <1>2, <1>4, <1>5 DEF Connections
<1>8. acceptor.pc = "offer" => links'[acceptor.conn].accepted /\ acceptor.conn # conn /\ Quiet(acceptor.conn)'
  BY Zenon, <1>1, <1>2, <1>3, <1>5 DEF Connections
<1> QED
  BY Zenon, <1>2, <1>4, <1>6, <1>7, <1>8 DEF Connections, LinkTo

LEMMA WriteMessageInv ==
    ASSUME SignerInv, WriteMessage
    PROVE  SignerInv'
<1>1. UNCHANGED <<vars, remote, acceptor, server, answers>> /\ call.pc = "write"
  BY Zenon DEF WriteMessage
<1>2. NodeTypes /\ (conn # 0 => Quiet(conn))
  BY Zenon, <1>1 DEF SignerInv, Connections
<1>3. CASE /\ conn # 0 /\ RequestWritten(Request) /\ call' = [call EXCEPT !.pc = "read"]
           /\ UNCHANGED <<conn, sign>>
  <2>1. call' \in [user : {"none", "sign", "ping"}, pc : {"free", "connect", "write", "read"}]
        /\ call'.pc = "read" /\ call'.user = call.user
    BY <1>2, <1>3 DEF NodeTypes
  <2>2. Request' = Request
    BY Zenon, <1>3, <2>1 DEF Request
  <2>3. Request \in Sent
    BY Zenon, <1>1, <1>2, Types DEF NodeTypes, Request
  <2>4. PICK l \in Link :
            /\ LinkTo(conn, l) /\ l.requests = Append(links[conn].requests, Request)
            /\ l.responses = links[conn].responses /\ l.accepted = links[conn].accepted
            /\ l.signer = links[conn].signer
    BY Zenon, <1>2, <1>3, <2>3, WritesRequest
  <2>5. PVInv' /\ ServerTypes'
    BY Zenon, <1>1, <2>4, NodeStep DEF LinkTo
  <2>6. NodeTypes'
    BY Zenon, <1>1, <1>2, <1>3, <2>1, <2>4 DEF NodeTypes, LinkTo
  <2>7. l.responses = <<>> /\ (l.signer => l.requests = <<Request>> /\ server.pc = "read")
    <3>1. Append(<<>>, Request) = <<Request>>
      BY <2>3
    <3> QED
      BY Zenon, <1>2, <1>3, <2>4, <3>1 DEF Quiet, Waiting
  <2>8. Asked(conn, Request)'
    BY Zenon, <1>1, <1>3, <2>2, <2>4, <2>7 DEF Asked, LinkTo
  <2>9. Connections'
    BY Zenon, <1>1, <1>3, <2>1, <2>4, <2>8, OtherLinks
  <2> QED
    BY Zenon, <1>1, <2>5, <2>6, <2>9 DEF SignerInv, AnswersMatch
<1>4. CASE Fails /\ (UNCHANGED <<conn, links>> \/ (conn # 0 /\ dropConnection))
  BY Zenon, <1>1, <1>2, <1>4, CallFails
<1> QED
  BY Zenon, <1>3, <1>4 DEF WriteMessage, RequestWritten, Request

\* SendRequest returns the one response there is, which is to the request.
LEMMA ReturnsInv ==
    ASSUME SignerInv, UNCHANGED <<vars, remote, acceptor, server, conn>>, call.pc = "read", conn # 0,
           links[conn].responses # <<>>, Returns(Head(links[conn].responses)), ResponseRead
    PROVE  SignerInv'
<1>1. NodeTypes /\ AnswersMatch /\ Asked(conn, Request)
  BY Zenon DEF SignerInv, Connections
<1>2. PICK x \in Response : links[conn].responses = <<x>> /\ Fits(Request, x) /\ Waiting(conn)
  BY Zenon, <1>1 DEF Asked
<1>3. Head(links[conn].responses) = x
  BY <1>2
<1>4. PICK l \in Link : /\ LinkTo(conn, l) /\ l.responses = <<>>
                        /\ l.requests = links[conn].requests /\ l.accepted = links[conn].accepted
                        /\ l.signer = links[conn].signer
  BY Zenon, <1>1, <1>2, ReadsResponse
<1>5. PVInv' /\ ServerTypes'
  BY Zenon, <1>4, NodeStep DEF LinkTo
<1>6. /\ call' = Free /\ sign' \in [pc : {"idle", "call"}, request : Sent, attempt : Nat, calls : Nat]
      /\ sign'.pc = "call" => sign'.request \in Message
  <2>1. CASE Fails
    BY Zenon, <1>1, <2>1, FailsTypes
  <2>2. CASE sign' = [sign EXCEPT !.pc = "idle", !.request = Ping, !.attempt = 0] /\ call' = Free
    BY Zenon, <1>1, <2>2, Types DEF NodeTypes
  <2>3. CASE UNCHANGED sign /\ call' = Free
    BY Zenon, <1>1, <2>3 DEF NodeTypes
  <2> QED
    BY Zenon, <2>1, <2>2, <2>3 DEF Returns
<1>7. NodeTypes' /\ call'.pc # "read"
  BY Zenon, <1>1, <1>4, <1>6, FreeType DEF NodeTypes, LinkTo
<1>8. Quiet(conn)'
  BY Zenon, <1>2, <1>4 DEF Quiet, Waiting, LinkTo
<1>9. Connections'
  BY Zenon, <1>4, <1>7, <1>8, OtherLinks
<1>10. AnswersMatch'
  <2>1. CASE answers' = answers
    BY Zenon, <1>1, <2>1 DEF AnswersMatch
  <2>2. CASE call.user # "ping" /\ x.ok /\ answers' = answers \cup {<<sign.request, x.message>>}
    <3>1. Request = sign.request /\ sign.request \in Message
      BY Zenon, <1>1, <2>2 DEF Request, NodeTypes
    <3>2. HRSEqual(sign.request, x.message) /\ sign.request.block = x.message.block
      BY Zenon, <1>2, <2>2, <3>1 DEF Fits
    <3> QED
      BY <1>1, <2>2, <3>2 DEF AnswersMatch
  <2> QED
    BY Zenon, <1>3, <2>1, <2>2 DEF Returns
<1> QED
  BY Zenon, <1>5, <1>7, <1>9, <1>10 DEF SignerInv

LEMMA ReadMessageInv ==
    ASSUME SignerInv, ReadMessage
    PROVE  SignerInv'
<1>1. UNCHANGED <<vars, remote, acceptor, server>> /\ call.pc = "read"
  BY Zenon DEF ReadMessage
<1>2. CASE /\ conn # 0 /\ links[conn].responses # <<>> /\ Returns(Head(links[conn].responses))
           /\ ResponseRead /\ UNCHANGED conn
  BY Zenon, <1>1, <1>2, ReturnsInv
<1>3. CASE conn = 0 /\ Fails /\ UNCHANGED <<conn, links, answers>>
  BY Zenon, <1>1, <1>3, CallFails
<1>4. CASE /\ conn # 0 /\ links[conn].responses = <<>> /\ ~links[conn].signer
           /\ Fails /\ UNCHANGED <<conn, links, answers>>
  <2>1. Quiet(conn)
    BY Zenon, <1>4 DEF Quiet, Waiting
  <2> QED
    BY Zenon, <1>1, <1>4, <2>1, CallFails
<1>5. CASE conn # 0 /\ dropConnection /\ Fails /\ UNCHANGED answers
  BY Zenon, <1>1, <1>5, CallFails
<1> QED
  BY Zenon, <1>2, <1>3, <1>4, <1>5 DEF ReadMessage, ResponseRead

\* pingLoop drops the connection in use, whoever uses it.
LEMMA TriggerReconnectInv ==
    ASSUME SignerInv, triggerReconnect
    PROVE  SignerInv'
<1>1. UNCHANGED <<vars, remote, sign, call, server, answers>>
  BY Zenon DEF triggerReconnect
<1>2. /\ SameTraffic /\ conn' = 0
      /\ \A k \in 1 .. Len(links) : links'[k].accepted = links[k].accepted
  BY Zenon, DropsConnection DEF SameTraffic, SignerInv, NodeTypes, triggerReconnect
<1>3. PVInv' /\ ServerTypes'
  BY Zenon, <1>1, <1>2, NodeStep DEF SameTraffic
<1>4. /\ acceptor' \in [pc : {"accept", "offer", "wait"}, conn : 0 .. Len(links)]
      /\ acceptor'.pc = "offer" => acceptor' = acceptor
  BY DEF SignerInv, NodeTypes, triggerReconnect, triggerConnect
<1>5. NodeTypes' /\ (acceptor.pc = "offer" => acceptor.conn \in 1 .. Len(links))
  BY <1>1, <1>2, <1>4 DEF SignerInv, NodeTypes, SameTraffic
<1>6. PICK k : k = acceptor.conn
  BY Zenon
<1>8. acceptor'.pc = "offer" => acceptor' = acceptor /\ links'[k].accepted /\ k # 0 /\ Quiet(k)'
  BY Zenon, <1>1, <1>2, <1>4, <1>5, <1>6, TrafficKept DEF SignerInv, Connections, NodeTypes
<1>9. \A j \in 1 .. Len(links) : (links'[j].signer <=> server.conn = j) /\ (~links'[j].accepted => Quiet(j)')
  BY Zenon, <1>1, <1>2, TrafficKept DEF SignerInv, Connections, SameTraffic
<1>7. Connections'
  BY Zenon, <1>1, <1>2, <1>6, <1>8, <1>9 DEF Connections, SameTraffic
<1> QED
  BY Zenon, <1>1, <1>3, <1>5, <1>7 DEF SignerInv, AnswersMatch

Accepts(k) == links' = [links EXCEPT ![k].accepted = TRUE]

LEMMA LinkAccepted ==
    ASSUME NodeTypes, NEW k \in 1 .. Len(links), Accepts(k)
    PROVE  SameTraffic /\ links'[k].accepted /\ \A j \in 1 .. Len(links) : j # k => links'[j] = links[j]
<1>1. links \in Seq(Link) /\ links[k] \in Link
  BY DEF NodeTypes
<1>2. PICK l : l = [links[k] EXCEPT !.accepted = TRUE]
  BY Zenon
<1>3. /\ l \in Link /\ l.responses = links[k].responses /\ l.requests = links[k].requests
      /\ l.signer = links[k].signer /\ l.accepted
  BY Zenon, <1>1, <1>2 DEF Link
<1>4. links' = [links EXCEPT ![k] = l] /\ l \in Link
  BY Zenon, <1>2, <1>3 DEF Accepts
<1>5. LinkTo(k, l)
  <2>1. /\ links' \in Seq(Link) /\ Len(links') = Len(links) /\ links'[k] = l
        /\ \A j \in 1 .. Len(links) : j # k => links'[j] = links[j]
    BY <1>1, <1>4, ChangedLink
  <2> QED
    BY Zenon, <2>1 DEF LinkTo
<1> QED
  BY Zenon, <1>3, <1>5 DEF SameTraffic, LinkTo

\* A connection is offered that carries nothing.
LEMMA AcceptInv ==
    ASSUME SignerInv, acceptNewConnection
    PROVE  SignerInv'
<1>1. UNCHANGED <<vars, remote, sign, call, conn, server, answers>> /\ acceptor.pc = "accept" /\ Request' = Request
  BY Zenon DEF acceptNewConnection, Request
<1>2. CASE acceptor' = [pc |-> "wait", conn |-> 0] /\ UNCHANGED links
  <2>1. PVInv' /\ ServerTypes'
    BY Zenon, <1>1, <1>2, NodeStep
  <2>2. acceptor' \in [pc : {"accept", "offer", "wait"}, conn : 0 .. Len(links)] /\ acceptor'.pc = "wait"
    BY <1>2 DEF SignerInv, NodeTypes
  <2>3. NodeTypes'
    BY Zenon, <1>1, <1>2, <2>2 DEF SignerInv, NodeTypes
  <2>4. Connections'
    BY Zenon, <1>1, <1>2, <2>2, NoLinkStep DEF SignerInv, Connections
  <2> QED
    BY Zenon, <1>1, <2>1, <2>3, <2>4 DEF SignerInv, AnswersMatch
<1>3. ASSUME NEW k \in DOMAIN links, ~links[k].accepted, Accepts(k), acceptor' = [pc |-> "offer", conn |-> k]
      PROVE  SignerInv'
  <2>1. k \in 1 .. Len(links) /\ NodeTypes /\ Connections
    BY <1>3 DEF SignerInv, NodeTypes
  <2>2. SameTraffic /\ links'[k].accepted /\ \A j \in 1 .. Len(links) : j # k => links'[j] = links[j]
    BY Zenon, <1>3, <2>1, LinkAccepted
  <2>3. PVInv' /\ ServerTypes'
    BY Zenon, <1>1, <2>2, NodeStep DEF SameTraffic
  <2>4. acceptor' \in [pc : {"accept", "offer", "wait"}, conn : 0 .. Len(links)] /\ acceptor'.conn = k /\ k # 0
    BY <1>3, <2>1
  <2>5. NodeTypes'
    BY Zenon, <1>1, <2>1, <2>2, <2>4 DEF NodeTypes, SameTraffic
  <2>6. Quiet(k) /\ k # conn
    BY Zenon, <1>3, <2>1, <2>4 DEF Connections
  <2>7. conn # 0 => conn \in 1 .. Len(links)
    BY <2>1 DEF NodeTypes
  <2>12. PICK c, r : c = conn /\ r = Request
    BY Zenon
  <2>13. c # 0 => links'[c].accepted /\ IF call.pc = "read" THEN Asked(c, r)' ELSE Quiet(c)'
    BY Zenon, <1>1, <2>1, <2>2, <2>6, <2>7, <2>12, TrafficKept DEF Connections
  <2>8. conn # 0 => links'[conn].accepted /\ IF call.pc = "read" THEN Asked(conn, Request)' ELSE Quiet(conn)'
    BY Zenon, <1>1, <2>12, <2>13
  <2>9. \A j \in 1 .. Len(links) : /\ links'[j].signer <=> server.conn = j
                                   /\ ~links'[j].accepted => Quiet(j)'
    BY Zenon, <1>1, <2>1, <2>2, TrafficKept DEF Connections, SameTraffic
  <2>10. Quiet(k)'
    BY Zenon, <1>1, <2>1, <2>2, <2>6, TrafficKept
  <2>11. Connections'
    BY Zenon, <1>1, <2>2, <2>4, <2>6, <2>8, <2>9, <2>10 DEF Connections, SameTraffic
  <2> QED
    BY Zenon, <1>1, <2>3, <2>5, <2>11 DEF SignerInv, AnswersMatch
<1> QED
  BY Zenon, <1>2, <1>3 DEF acceptNewConnection, Accepts

LEMMA LinksAre ==
    ASSUME NEW n \in Nat, NEW t, t = [k \in 1 .. n |-> t[k]], \A k \in 1 .. n : t[k] \in Link
    PROVE  t \in Seq(Link) /\ Len(t) = n
OBVIOUS

\* A restart of the node closes every connection of it.
LEMMA NodeRestartsInv ==
    ASSUME SignerInv, NodeRestarts
    PROVE  SignerInv'
<1>1. UNCHANGED <<vars, remote, server, answers>> /\ conn' = 0 /\ call' = Free /\ NodeTypes
  BY Zenon DEF NodeRestarts, SignerInv
<1>2. DOMAIN links = 1 .. Len(links) /\ Len(links) \in Nat /\ \A k \in 1 .. Len(links) : links[k] \in Link
  BY <1>1 DEF NodeTypes
<1>3. PICK t : t = [k \in 1 .. Len(links) |-> [links[k] EXCEPT !.node = FALSE, !.accepted = TRUE]]
  BY Zenon
<1>4. ASSUME NEW k \in 1 .. Len(links)
      PROVE  /\ t[k] \in Link /\ t[k].responses = links[k].responses /\ t[k].requests = links[k].requests
             /\ t[k].signer = links[k].signer /\ t[k].accepted
  <2>1. t[k] = [links[k] EXCEPT !.node = FALSE, !.accepted = TRUE] /\ links[k] \in Link
    BY Zenon, <1>2, <1>3
  <2> QED
    BY Zenon, <2>1 DEF Link
<1>5. links' = t
  BY Zenon, <1>2, <1>3 DEF NodeRestarts
<1>6. t \in Seq(Link) /\ Len(t) = Len(links)
  <2>1. t = [k \in 1 .. Len(links) |-> t[k]]
    BY Zenon, <1>3
  <2> QED
    BY <1>2, <1>4, <2>1, LinksAre
<1>7. SameTraffic /\ \A k \in 1 .. Len(links) : links'[k].accepted
  BY Zenon, <1>4, <1>5, <1>6 DEF SameTraffic
<1>8. PVInv' /\ ServerTypes'
  BY Zenon, <1>1, <1>7, NodeStep DEF SameTraffic
<1>13. acceptor' = [pc |-> "accept", conn |-> 0]
  BY Zenon DEF NodeRestarts
<1>9. acceptor' \in [pc : {"accept", "offer", "wait"}, conn : 0 .. Len(links)] /\ acceptor'.pc = "accept"
  BY <1>2, <1>13
<1>12. sign' \in [pc : {"idle", "call"}, request : Sent, attempt : Nat, calls : Nat] /\ sign'.pc = "idle"
  BY Zenon, <1>1, <1>2, Types DEF NodeRestarts, NodeTypes
<1>10. NodeTypes'
  BY <1>1, <1>2, <1>5, <1>6, <1>9, <1>12, FreeType DEF NodeTypes
<1>11. Connections'
  BY Zenon, <1>1, <1>5, <1>6, <1>7, <1>9, FreeType DEF SignerInv, Connections, SameTraffic
<1> QED
  BY Zenon, <1>1, <1>8, <1>10, <1>11 DEF SignerInv, AnswersMatch

-----------------------------------------------------------------------------
\* The signer

\* What the steps of the signer leave alone.
LEMMA SignerStep ==
    ASSUME SignerInv, UNCHANGED <<remote, nodeVars, answers>>, links' \in Seq(Link), Len(links') = Len(links)
    PROVE  NodeTypes' /\ Request' = Request /\ AnswersMatch'
<1>1. UNCHANGED <<sign, call, conn, acceptor>>
  BY Zenon DEF nodeVars
<1> QED
  BY Zenon, <1>1 DEF SignerInv, NodeTypes, Request, AnswersMatch

\* What the signer does on its own connection c, or on none.
LEMMA SignerConnections ==
    ASSUME SignerInv, UNCHANGED <<remote, nodeVars, answers>>, links' \in Seq(Link), Len(links') = Len(links),
           NEW c, c = server.conn,
           \A k \in 1 .. Len(links) : k # c => links'[k] = links[k],
           \A k \in 1 .. Len(links) : links'[k].signer <=> server'.conn = k,
           c # 0 => links'[c].accepted = links[c].accepted,
           c # 0 => (Quiet(c) => Quiet(c)'),
           c # 0 => \A r \in Sent : Asked(c, r) => Asked(c, r)'
    PROVE  Connections'
<1>1. UNCHANGED <<sign, call, conn, acceptor>> /\ Request' = Request
  BY Zenon, SignerStep DEF nodeVars
<1>2. Connections /\ NodeTypes /\ ServerTypes
  BY Zenon DEF SignerInv
<1>3. ASSUME NEW k \in 1 .. Len(links), k # c
      PROVE  (Quiet(k) => Quiet(k)') /\ \A r : Asked(k, r) => Asked(k, r)'
  <2>1. ~links[k].signer /\ ~links'[k].signer /\ links'[k] = links[k]
    BY Zenon, <1>2, <1>3 DEF Connections
  <2> QED
    BY Zenon, <2>1 DEF Quiet, Asked, Waiting
<1>4. \A k \in 1 .. Len(links) : /\ links'[k].accepted = links[k].accepted
                                 /\ Quiet(k) => Quiet(k)'
                                 /\ \A r \in Sent : Asked(k, r) => Asked(k, r)'
  <2>1. \A k \in 1 .. Len(links) : k = c => c # 0
    OBVIOUS
  <2> QED
    BY Zenon, <1>3, <2>1
<1>5. acceptor.pc = "offer" => acceptor.conn \in 1 .. Len(links)
  BY <1>2 DEF NodeTypes
<1>6. conn # 0 => conn \in 1 .. Len(links)
  BY <1>2 DEF NodeTypes
<1>7. call.pc = "read" => Request \in Sent
  BY Zenon, <1>2, Types DEF NodeTypes, Request
<1>8. PICK a, n, r : a = acceptor.conn /\ n = conn /\ r = Request
  BY Zenon
<1>9. acceptor.pc = "offer" => links'[a].accepted /\ a # n /\ Quiet(a)'
  BY Zenon, <1>2, <1>4, <1>5, <1>8 DEF Connections
<1>10. n # 0 => links'[n].accepted /\ IF call.pc = "read" THEN Asked(n, r)' ELSE Quiet(n)'
  BY Zenon, <1>2, <1>4, <1>6, <1>7, <1>8 DEF Connections
<1>11. \A k \in 1 .. Len(links) : ~links'[k].accepted => Quiet(k)'
  BY Zenon, <1>2, <1>4 DEF Connections
<1> QED
  BY Zenon, <1>1, <1>8, <1>9, <1>10, <1>11 DEF Connections

Servers(n) == [pc : {"dial", "stopped", "read", "handle", "sign", "write"}, conn : 0 .. n, message : Sent \cup Response]

LEMMA IdleServer ==
    ASSUME NEW n \in Nat
    PROVE  Idle \in Servers(n) /\ Idle.pc = "dial" /\ Idle.conn = 0
<1>1. Ping \in Sent \cup Response
  BY Zenon, Types
<1> QED
  BY <1>1 DEF Idle, Servers

\* Where the signer is.
LEMMA AtConnection ==
    ASSUME SignerInv, server.conn # 0
    PROVE  /\ server.conn \in 1 .. Len(links) /\ links \in Seq(Link)
           /\ links[server.conn] \in Link /\ links[server.conn].signer
<1>1. server.conn \in 0 .. Len(links) /\ links \in Seq(Link)
  BY DEF SignerInv, ServerTypes, NodeTypes
<1>2. server.conn \in 1 .. Len(links)
  BY <1>1
<1> QED
  BY <1>1, <1>2 DEF SignerInv, Connections

\* The signer closes its end.
LEMMA SignerDrops ==
    ASSUME SignerInv, UNCHANGED <<remote, nodeVars, answers>>, PVInv', serverDrops, server.conn # 0
    PROVE  SignerInv'
<1>1. PICK c : c = server.conn
  BY Zenon
<1>2. c \in 1 .. Len(links) /\ links \in Seq(Link) /\ links[c] \in Link /\ links[c].signer /\ c # 0
  BY Zenon, <1>1, AtConnection
<1>3. PICK l : l = [links[c] EXCEPT !.signer = FALSE]
  BY Zenon
<1>4. /\ l \in Link /\ l.responses = links[c].responses /\ l.requests = links[c].requests
      /\ ~l.signer /\ l.accepted = links[c].accepted
  BY Zenon, <1>2, <1>3 DEF Link
<1>5. links' = [links EXCEPT ![c] = l] /\ l \in Link /\ server' = Idle
  BY Zenon, <1>1, <1>3, <1>4 DEF serverDrops
<1>6. /\ links' \in Seq(Link) /\ Len(links') = Len(links) /\ links'[c] = l
      /\ \A j \in 1 .. Len(links) : j # c => links'[j] = links[j]
  BY <1>2, <1>5, ChangedLink
<1>7. NodeTypes' /\ AnswersMatch' /\ Len(links) \in Nat
  BY Zenon, <1>2, <1>6, SignerStep, LenProperties
<1>8. ServerTypes'
  BY Zenon, <1>5, <1>6, <1>7, IdleServer DEF ServerTypes, Servers
<1>9. \A k \in 1 .. Len(links) : links'[k].signer <=> server'.conn = k
  <2>1. \A k \in 1 .. Len(links) : links[k].signer <=> c = k
    BY Zenon, <1>1 DEF SignerInv, Connections
  <2>2. \A k \in 1 .. Len(links) : k # 0
    OBVIOUS
  <2> QED
    BY Zenon, <1>4, <1>5, <1>6, <1>7, <2>1, <2>2, IdleServer
<1>10. (Quiet(c) => Quiet(c)') /\ \A r \in Sent : Asked(c, r) => Asked(c, r)'
  BY Zenon, <1>4, <1>6 DEF Quiet, Asked, Waiting
<1>11. Connections'
  BY Zenon, <1>1, <1>4, <1>6, <1>9, <1>10, SignerConnections
<1> QED
  BY Zenon, <1>7, <1>8, <1>11 DEF SignerInv

RequestRead(c) == links' = [links EXCEPT ![c].requests = Tail(@)]

\* servicePendingRequest takes the one request there is.
LEMMA RequestTaken ==
    ASSUME SignerInv, UNCHANGED <<vars, remote, nodeVars, answers>>, server.pc = "read",
           links[server.conn].requests # <<>>, RequestRead(server.conn),
           server' = [server EXCEPT !.pc = "handle", !.message = Head(links[server.conn].requests)]
    PROVE  SignerInv'
<1>1. PICK c : c = server.conn
  BY Zenon
<1>2. c # 0 /\ ServerTypes
  BY Zenon, <1>1 DEF SignerInv, ServerTypes
<1>3. c \in 1 .. Len(links) /\ links \in Seq(Link) /\ links[c] \in Link /\ links[c].signer
  BY Zenon, <1>1, <1>2, AtConnection
<1>4. PICK q, m : q = Tail(links[c].requests) /\ m = Head(links[c].requests)
  BY Zenon
<1>5. q \in Seq(Sent) /\ m \in Sent /\ \A r : links[c].requests = <<r>> => q = <<>> /\ m = r
  <2>1. links[c].requests \in Seq(Sent)
    BY Zenon, <1>3 DEF Link
  <2> QED
    BY <1>1, <1>4, <2>1
<1>6. PICK l : l = [links[c] EXCEPT !.requests = q]
  BY Zenon
<1>7. /\ l \in Link /\ l.responses = links[c].responses /\ l.requests = q
      /\ l.signer = links[c].signer /\ l.accepted = links[c].accepted
  BY Zenon, <1>3, <1>5, <1>6 DEF Link
<1>8. links' = [links EXCEPT ![c] = l] /\ l \in Link
  BY Zenon, <1>1, <1>4, <1>6, <1>7 DEF RequestRead
<1>9. /\ links' \in Seq(Link) /\ Len(links') = Len(links) /\ links'[c] = l
      /\ \A j \in 1 .. Len(links) : j # c => links'[j] = links[j]
  BY <1>3, <1>8, ChangedLink
<1>10. NodeTypes' /\ AnswersMatch' /\ PVInv'
  BY Zenon, <1>9, SignerStep, SameVars
<1>11. /\ server' \in Servers(Len(links)) /\ server'.pc = "handle" /\ server'.conn = c /\ server'.message = m
  BY Zenon, <1>1, <1>2, <1>4, <1>5 DEF ServerTypes, Servers
<1>12. ServerTypes'
  BY Zenon, <1>2, <1>5, <1>9, <1>11 DEF ServerTypes, Servers
<1>13. \A k \in 1 .. Len(links) : links'[k].signer <=> server'.conn = k
  <2>1. \A k \in 1 .. Len(links) : links'[k].signer = links[k].signer
    BY Zenon, <1>7, <1>9
  <2>2. \A k \in 1 .. Len(links) : links[k].signer <=> c = k
    BY Zenon, <1>1 DEF SignerInv, Connections
  <2> QED
    BY Zenon, <1>11, <2>1, <2>2
<1>14. (Quiet(c) => Quiet(c)') /\ \A r \in Sent : Asked(c, r) => Asked(c, r)'
  <2>1. ~Waiting(c)
    BY Zenon, <1>1, <1>3 DEF Waiting
  <2>2. ASSUME NEW r \in Sent, Asked(c, r)
        PROVE  Asked(c, r)'
    <3>1. links[c].responses = <<>> /\ links[c].requests = <<r>>
      BY Zenon, <1>1, <1>3, <2>1, <2>2 DEF Asked
    <3>2. l.responses = <<>> /\ l.requests = <<>> /\ server'.message = r
      BY Zenon, <1>5, <1>7, <1>11, <3>1
    <3> QED
      BY Zenon, <1>9, <1>11, <3>2 DEF Asked
  <2> QED
    BY Zenon, <2>1, <2>2 DEF Quiet
<1>15. Connections'
  BY Zenon, <1>1, <1>7, <1>9, <1>13, <1>14, SignerConnections
<1> QED
  BY Zenon, <1>10, <1>12, <1>15 DEF SignerInv

LEMMA ServerReadsInv ==
    ASSUME SignerInv, ServerReads
    PROVE  SignerInv'
<1>1. UNCHANGED <<vars, remote, nodeVars, answers>> /\ server.pc = "read"
  BY Zenon DEF ServerReads
<1>2. CASE serverDrops
  <2>1. server.conn # 0
    BY Zenon, <1>1 DEF SignerInv, ServerTypes
  <2> QED
    BY Zenon, <1>1, <1>2, <2>1, SignerDrops, SameVars
<1>3. CASE /\ links[server.conn].requests # <<>> /\ RequestRead(server.conn)
           /\ server' = [server EXCEPT !.pc = "handle", !.message = Head(links[server.conn].requests)]
  BY Zenon, <1>1, <1>3, RequestTaken
<1> QED
  BY Zenon, <1>2, <1>3 DEF ServerReads, RequestRead

\* The signer goes on with the request in hand: its connection stays as it is.
LEMMA RequestHandled ==
    ASSUME SignerInv, UNCHANGED <<remote, nodeVars, links, answers>>, PVInv', server.conn # 0,
           server.pc # "read", server' \in Servers(Len(links)), server'.conn = server.conn, ServerTypes',
           NEW c, c = server.conn, \A r \in Sent : Asked(c, r) => Asked(c, r)'
    PROVE  SignerInv'
<1>1. c \in 1 .. Len(links) /\ links \in Seq(Link) /\ links[c].signer /\ c # 0
  BY Zenon, AtConnection
<1>2. NodeTypes' /\ AnswersMatch'
  BY Zenon, <1>1, SignerStep
<1>3. ~Quiet(c)
  BY Zenon, <1>1 DEF Quiet, Waiting
<1>4. \A k \in 1 .. Len(links) : links'[k].signer <=> server'.conn = k
  BY Zenon DEF SignerInv, Connections
<1>5. Connections'
  BY Zenon, <1>1, <1>3, <1>4, SignerConnections
<1> QED
  BY Zenon, <1>2, <1>5 DEF SignerInv

\* What is signed is for the height, round, step and block of the request.
LEMMA SignedFits ==
    ASSUME PVInv, NEW m \in Message, SignVote(m) \/ SignProposal(m)
    PROVE  /\ PVInv' /\ reply' \in Message /\ pc' \in {"save", "return"}
           /\ HRSEqual(m, reply') /\ m.block = reply'.block
<1>1. PVInv'
  BY Zenon, NextPVInv DEF Next
<1>2. CASE reply' = m /\ pc' = "save"
  BY Zenon, <1>1, <1>2 DEF HRSEqual
<1>3. CASE checkHRSSame(lss, m) /\ SignAgain(lss.signBytes) /\ (OnlyDifferByTimestamp(lss.signBytes, m) \/ lss.signBytes = m)
  <2>1. lss.signBytes \in Message /\ reply' = lss.signBytes /\ pc' = "return"
    BY Zenon, <1>3 DEF PVInv, TypeOK, LastSignState, checkHRSSame, SignAgain
  <2>2. PICK a : a = lss.signBytes
    BY Zenon
  <2>3. a \in Message /\ (m = [a EXCEPT !.time = m.time] \/ m = a)
    BY Zenon, <1>3, <2>1, <2>2 DEF OnlyDifferByTimestamp
  <2>4. m.height = a.height /\ m.round = a.round /\ m.step = a.step /\ m.block = a.block
    BY <2>3 DEF Message
  <2> QED
    BY Zenon, <1>1, <2>1, <2>2, <2>4 DEF HRSEqual
<1> QED
  BY Zenon, <1>2, <1>3 DEF SignVote, SignProposal, SignFresh

LEMMA ServerSignsInv ==
    ASSUME SignerInv, ServerSigns
    PROVE  SignerInv'
<1>1. UNCHANGED <<remote, nodeVars, links, answers>> /\ server.pc = "handle" /\ server' = [server EXCEPT !.pc = "sign"]
  BY Zenon DEF ServerSigns
<1>2. ServerTypes /\ PVInv /\ server.message \in Message
  BY Zenon, <1>1 DEF ServerSigns, SignerInv, ServerTypes, Sent
<1>3. PICK m \in Message : m = server.message
  BY Zenon, <1>2
<1>4. /\ PVInv' /\ reply' \in Message /\ pc' \in {"save", "return"}
      /\ HRSEqual(m, reply') /\ m.block = reply'.block
  BY Zenon, <1>2, <1>3, SignedFits DEF ServerSigns
<1>5. PICK c : c = server.conn
  BY Zenon
<1>6. server' \in Servers(Len(links)) /\ server'.pc = "sign" /\ server'.conn = c /\ server'.message = m
  BY Zenon, <1>1, <1>2, <1>3, <1>5 DEF ServerTypes, Servers
<1>7. c # 0 /\ ServerTypes'
  BY Zenon, <1>1, <1>2, <1>3, <1>4, <1>5, <1>6 DEF ServerTypes, Servers
<1>8. links[c].signer
  BY Zenon, <1>5, <1>7, AtConnection
<1>9. \A r \in Sent : Asked(c, r) => Asked(c, r)'
  BY Zenon, <1>1, <1>3, <1>6, <1>8 DEF Asked, Waiting
<1> QED
  BY Zenon, <1>1, <1>4, <1>5, <1>6, <1>7, <1>9, RequestHandled

\* The response in hand is one to the request that was.
LEMMA ResponseMade ==
    ASSUME SignerInv, UNCHANGED <<remote, nodeVars, links, answers>>, PVInv', server.pc \in {"handle", "sign"},
           NEW x \in Response, Responds(x), Fits(server.message, x)
    PROVE  SignerInv'
<1>1. PICK c, m : c = server.conn /\ m = server.message
  BY Zenon
<1>2. server' = [pc |-> "write", conn |-> c, message |-> x] /\ ServerTypes
  BY Zenon, <1>1 DEF Responds, SignerInv
<1>3. server' \in Servers(Len(links)) /\ server'.pc = "write" /\ server'.conn = c /\ server'.message = x
  BY Zenon, <1>1, <1>2 DEF ServerTypes, Servers
<1>4. c # 0 /\ ServerTypes'
  BY Zenon, <1>1, <1>2, <1>3 DEF ServerTypes, Servers
<1>5. links[c].signer
  BY Zenon, <1>1, <1>4, AtConnection
<1>6. \A r \in Sent : Asked(c, r) => Asked(c, r)'
  <2>1. SUFFICES ASSUME NEW r \in Sent, Asked(c, r)
                 PROVE  Asked(c, r)'
    BY Zenon
  <2>2. links[c].responses = <<>> /\ links[c].requests = <<>> /\ r = m
    BY Zenon, <1>1, <1>5, <2>1 DEF Asked, Waiting
  <2>3. Fits(r, x)
    BY Zenon, <1>1, <2>2
  <2> QED
    BY Zenon, <1>3, <2>2, <2>3 DEF Asked, Fits
<1> QED
  BY Zenon, <1>1, <1>3, <1>4, <1>6, RequestHandled

LEMMA ServerRespondsInv ==
    ASSUME SignerInv, ServerResponds
    PROVE  SignerInv'
<1>1. UNCHANGED <<remote, nodeVars, links, answers>>
  BY Zenon DEF ServerResponds
<1>2. CASE server.pc = "handle" /\ server.message = Ping /\ Responds(Signed(Ping)) /\ UNCHANGED vars
  <2>1. Fits(server.message, Signed(Ping)) /\ Signed(Ping) \in Response
    BY Zenon, <1>2, Types DEF Fits
  <2> QED
    BY Zenon, <1>1, <1>2, <2>1, ResponseMade, SameVars
<1>3. CASE server.pc = "handle" /\ Responds(Refused(server.message)) /\ UNCHANGED vars
  <2>1. Fits(server.message, Refused(server.message))
    BY DEF Fits, Refused
  <2>2. Refused(server.message) \in Response
    BY Zenon, <1>3, Types DEF SignerInv, ServerTypes
  <2> QED
    BY Zenon, <1>1, <1>3, <2>1, <2>2, ResponseMade, SameVars
<1>4. CASE server.pc = "sign" /\ Responds(Signed(reply)) /\ Return
  <2>1. reply \in Message /\ HRSEqual(server.message, reply) /\ server.message.block = reply.block
    BY Zenon, <1>4 DEF SignerInv, ServerTypes
  <2>2. PICK x : x = Signed(reply)
    BY Zenon
  <2>3. x \in Response /\ x.message = reply
    BY Zenon, <2>1, <2>2, Types DEF Signed
  <2>4. Fits(server.message, x)
    BY Zenon, <2>1, <2>3 DEF Fits
  <2>5. PVInv'
    BY Zenon, <1>4, NextPVInv DEF Next, SignerInv
  <2> QED
    BY Zenon, <1>1, <1>4, <2>2, <2>3, <2>4, <2>5, ResponseMade
<1> QED
  BY Zenon, <1>2, <1>3, <1>4 DEF ServerResponds

ResponseWritten(c, x) == links' = [links EXCEPT ![c].responses = Append(@, x)]

\* The response goes to the connection the request came from.
LEMMA ResponseSent ==
    ASSUME SignerInv, UNCHANGED <<vars, remote, nodeVars, answers>>, server.pc = "write",
           ResponseWritten(server.conn, server.message), server' = [server EXCEPT !.pc = "read", !.message = Ping]
    PROVE  SignerInv'
<1>1. PICK c, x : c = server.conn /\ x = server.message
  BY Zenon
<1>2. c # 0 /\ ServerTypes /\ x \in Response
  BY Zenon, <1>1 DEF SignerInv, ServerTypes
<1>3. c \in 1 .. Len(links) /\ links \in Seq(Link) /\ links[c] \in Link /\ links[c].signer
  BY Zenon, <1>1, <1>2, AtConnection
<1>4. PICK q : q = Append(links[c].responses, x)
  BY Zenon
<1>5. q \in Seq(Response) /\ (links[c].responses = <<>> => q = <<x>>)
  <2>1. links[c].responses \in Seq(Response) /\ x \in Response
    BY Zenon, <1>2, <1>3 DEF Link
  <2>2. q \in Seq(Response)
    BY <1>4, <2>1
  <2>3. Append(<<>>, x) = <<x>>
    BY <2>1
  <2> QED
    BY Zenon, <1>4, <2>2, <2>3
<1>6. PICK l : l = [links[c] EXCEPT !.responses = q]
  BY Zenon
<1>7. /\ l \in Link /\ l.responses = q /\ l.requests = links[c].requests
      /\ l.signer = links[c].signer /\ l.accepted = links[c].accepted
  BY Zenon, <1>3, <1>5, <1>6 DEF Link
<1>8. links' = [links EXCEPT ![c] = l] /\ l \in Link
  BY Zenon, <1>1, <1>4, <1>6, <1>7 DEF ResponseWritten
<1>9. /\ links' \in Seq(Link) /\ Len(links') = Len(links) /\ links'[c] = l
      /\ \A j \in 1 .. Len(links) : j # c => links'[j] = links[j]
  BY <1>3, <1>8, ChangedLink
<1>10. NodeTypes' /\ AnswersMatch' /\ PVInv'
  BY Zenon, <1>9, SignerStep, SameVars
<1>11. Ping \in Sent \cup Response
  BY Zenon, Types
<1>12. server' \in Servers(Len(links)) /\ server'.pc = "read" /\ server'.conn = c
  BY Zenon, <1>1, <1>2, <1>11 DEF ServerTypes, Servers
<1>13. ServerTypes'
  BY Zenon, <1>2, <1>9, <1>12 DEF ServerTypes, Servers
<1>14. \A k \in 1 .. Len(links) : links'[k].signer <=> server'.conn = k
  <2>1. \A k \in 1 .. Len(links) : links'[k].signer = links[k].signer
    BY Zenon, <1>7, <1>9
  <2>2. \A k \in 1 .. Len(links) : links[k].signer <=> c = k
    BY Zenon, <1>1 DEF SignerInv, Connections
  <2> QED
    BY Zenon, <1>12, <2>1, <2>2
<1>15. (Quiet(c) => Quiet(c)') /\ \A r \in Sent : Asked(c, r) => Asked(c, r)'
  <2>1. ~Waiting(c)
    BY Zenon, <1>1, <1>3 DEF Waiting
  <2>2. ASSUME NEW r \in Sent, Asked(c, r)
        PROVE  Asked(c, r)'
    <3>1. links[c].responses = <<>> /\ links[c].requests = <<>> /\ Fits(r, x)
      BY Zenon, <1>1, <1>3, <2>1, <2>2 DEF Asked
    <3>2. links'[c].responses = <<x>> /\ Waiting(c)'
      BY Zenon, <1>5, <1>7, <1>9, <1>12, <3>1 DEF Waiting
    <3> QED
      BY Zenon, <1>2, <3>1, <3>2 DEF Asked, Fits
  <2> QED
    BY Zenon, <2>1, <2>2 DEF Quiet
<1>16. Connections'
  BY Zenon, <1>1, <1>7, <1>9, <1>14, <1>15, SignerConnections
<1> QED
  BY Zenon, <1>10, <1>13, <1>16 DEF SignerInv

LEMMA ServerWritesInv ==
    ASSUME SignerInv, ServerWrites
    PROVE  SignerInv'
<1>1. UNCHANGED <<vars, remote, nodeVars, answers>> /\ server.pc = "write"
  BY Zenon DEF ServerWrites
<1>2. CASE serverDrops
  <2>1. server.conn # 0
    BY Zenon, <1>1 DEF SignerInv, ServerTypes
  <2> QED
    BY Zenon, <1>1, <1>2, <2>1, SignerDrops, SameVars
<1>3. CASE /\ ResponseWritten(server.conn, server.message)
           /\ server' = [server EXCEPT !.pc = "read", !.message = Ping]
  BY Zenon, <1>1, <1>3, ResponseSent
<1> QED
  BY Zenon, <1>2, <1>3 DEF ServerWrites, ResponseWritten

\* A signer without a connection stops, or crashes.
LEMMA SignerRests ==
    ASSUME SignerInv, UNCHANGED <<remote, nodeVars, links, answers>>, PVInv', server.conn = 0, remote,
           server' \in Servers(Len(links)), server'.pc \in {"dial", "stopped"}, server'.conn = 0
    PROVE  SignerInv'
<1>1. NodeTypes' /\ AnswersMatch'
  BY Zenon, SignerStep DEF SignerInv, NodeTypes
<1>2. ServerTypes'
  BY Zenon DEF ServerTypes, Servers, SignerInv
<1>3. \A k \in 1 .. Len(links) : links'[k].signer <=> server'.conn = k
  BY Zenon DEF SignerInv, Connections
<1>4. Connections'
  BY Zenon, <1>3, SignerConnections DEF SignerInv, NodeTypes
<1> QED
  BY Zenon, <1>1, <1>2, <1>4 DEF SignerInv

LEMMA SignerCrashesInv ==
    ASSUME SignerInv, SignerCrashes, remote
    PROVE  SignerInv'
<1>1. UNCHANGED <<remote, nodeVars, answers>> /\ Crash
  BY Zenon DEF SignerCrashes
<1>2. PVInv'
  BY Zenon, <1>1, NextPVInv DEF Next, SignerInv
<1>3. CASE server.conn # 0
  BY Zenon, <1>1, <1>2, <1>3, SignerDrops DEF SignerCrashes
<1>4. CASE server.conn = 0
  <2>1. server' = Idle /\ UNCHANGED links
    BY Zenon, <1>4 DEF SignerCrashes
  <2>2. Len(links) \in Nat
    BY DEF SignerInv, NodeTypes
  <2> QED
    BY Zenon, <1>1, <1>2, <1>4, <2>1, <2>2, SignerRests, IdleServer
<1> QED
  BY Zenon, <1>3, <1>4

\* A new connection is at the end of the sequence, open at both ends, and nothing
\* is on it.
LEMMA Appended ==
    ASSUME NEW s \in Seq(Link), NEW t, t = Append(s, NewLink)
    PROVE  /\ t \in Seq(Link) /\ Len(t) = Len(s) + 1 /\ t[Len(t)] = NewLink /\ Len(s) \in Nat
           /\ \A k \in 1 .. Len(s) : t[k] = s[k]
<1>1. NewLink \in Link
  <2>1. <<>> \in Seq(Sent) /\ <<>> \in Seq(Response)
    OBVIOUS
  <2> QED
    BY Zenon, <2>1 DEF NewLink, Link
<1> QED
  BY <1>1

LEMMA DialInv ==
    ASSUME SignerInv, Dial, remote
    PROVE  SignerInv'
<1>1. UNCHANGED <<vars, remote, nodeVars, answers>> /\ server.pc = "dial"
  BY Zenon DEF Dial
<1>2. NodeTypes /\ ServerTypes /\ Connections /\ links \in Seq(Link) /\ server.conn = 0
  BY Zenon, <1>1 DEF SignerInv, ServerTypes, NodeTypes
<1>3. CASE links' = Append(links, NewLink) /\ server' = [server EXCEPT !.pc = "read", !.conn = Len(links')]
  <2>1. /\ links' \in Seq(Link) /\ Len(links') = Len(links) + 1 /\ links'[Len(links')] = NewLink /\ Len(links) \in Nat
        /\ \A k \in 1 .. Len(links) : links'[k] = links[k]
    BY <1>2, <1>3, Appended
  <2>2. PICK n : n = Len(links')
    BY Zenon
  <2>3. n \in 0 .. n /\ n # 0 /\ (\A k \in 1 .. n : k = n \/ k \in 1 .. Len(links)) /\ 0 .. Len(links) \subseteq 0 .. n
        /\ (\A k \in 1 .. Len(links) : k # n /\ k # 0)
    BY <2>1, <2>2
  <2>4. server' \in Servers(n) /\ server'.pc = "read" /\ server'.conn = n
    BY Zenon, <1>2, <1>3, <2>2, <2>3 DEF ServerTypes, Servers
  <2>5. ServerTypes'
    BY Zenon, <2>2, <2>3, <2>4, <1>1 DEF ServerTypes, Servers
  <2>6. UNCHANGED <<sign, call, conn, acceptor>>
    BY Zenon, <1>1 DEF nodeVars
  <2>7. NodeTypes'
    BY Zenon, <1>2, <2>1, <2>2, <2>3, <2>6 DEF NodeTypes
  <2>8. \A k \in 1 .. Len(links) : ~links[k].signer /\ ~links'[k].signer
    <3>1. \A k \in 1 .. Len(links) : ~links[k].signer
      BY Zenon, <1>2, <2>3 DEF Connections
    <3> QED
      BY Zenon, <2>1, <3>1
  <2>9. NewLink.signer /\ ~NewLink.accepted /\ NewLink.requests = <<>> /\ NewLink.responses = <<>>
    BY DEF NewLink
  <2>10. \A k \in 1 .. Len(links) : (Quiet(k) => Quiet(k)') /\ \A r : Asked(k, r) => Asked(k, r)'
    BY Zenon, <2>1, <2>8 DEF Quiet, Asked, Waiting
  <2>11. Quiet(n)'
    BY Zenon, <2>1, <2>2, <2>4, <2>9 DEF Quiet, Waiting
  <2>12. \A k \in 1 .. n : links'[k].signer <=> server'.conn = k
    <3>1. ASSUME NEW k \in 1 .. Len(links)
          PROVE  links'[k].signer <=> server'.conn = k
      BY Zenon, <2>3, <2>4, <2>8, <3>1
    <3>2. links'[n].signer <=> server'.conn = n
      BY Zenon, <2>1, <2>2, <2>4, <2>9
    <3> QED
      BY Zenon, <2>3, <3>1, <3>2
  <2>13. \A k \in 1 .. n : ~links'[k].accepted => Quiet(k)'
    <3>1. ASSUME NEW k \in 1 .. Len(links), ~links'[k].accepted
          PROVE  Quiet(k)'
      BY Zenon, <1>2, <2>1, <2>10, <3>1 DEF Connections
    <3> QED
      BY Zenon, <2>3, <2>11, <3>1
  <2>14. acceptor.pc = "offer" => acceptor.conn \in 1 .. Len(links)
    BY <1>2 DEF NodeTypes
  <2>15. conn # 0 => conn \in 1 .. Len(links)
    BY <1>2 DEF NodeTypes
  <2>16. acceptor'.pc = "offer" => links'[acceptor'.conn].accepted /\ acceptor'.conn # conn'
    BY Zenon, <1>2, <2>1, <2>6, <2>14 DEF Connections
  <2>17. acceptor.pc = "offer" => Quiet(acceptor.conn)'
    <3>1. PICK a : a = acceptor.conn
      BY Zenon
    <3> QED
      BY Zenon, <1>2, <2>6, <2>10, <2>14, <3>1 DEF Connections
  <2>18. /\ conn' # 0 => links'[conn'].accepted
         /\ conn' # 0 => IF call'.pc = "read" THEN Asked(conn, Request)' ELSE Quiet(conn)'
    <3>1. Request' = Request
      BY Zenon, <2>6 DEF Request
    <3>2. PICK c, r : c = conn /\ r = Request
      BY Zenon
    <3> QED
      BY Zenon, <1>2, <2>1, <2>6, <2>10, <2>15, <3>1, <3>2 DEF Connections
  <2>19. Connections'
    BY Zenon, <2>2, <2>6, <2>12, <2>13, <2>16, <2>17, <2>18 DEF Connections
  <2> QED
    BY Zenon, <1>1, <2>5, <2>7, <2>19, SameVars DEF SignerInv, AnswersMatch
<1>4. CASE server' = [server EXCEPT !.pc = "stopped"] /\ UNCHANGED links
  <2>1. server' \in Servers(Len(links)) /\ server'.pc = "stopped" /\ server'.conn = 0
    BY Zenon, <1>2, <1>4 DEF ServerTypes, Servers
  <2> QED
    BY Zenon, <1>1, <1>2, <1>4, <2>1, SignerRests, SameVars
<1> QED
  BY Zenon, <1>3, <1>4 DEF Dial

\* FilePV alone moves: the signer is in its call or takes none.
LEMMA FilePVMoves ==
    ASSUME SignerInv, Next, UNCHANGED remoteVars, server.pc = "sign" => pc' \in {"save", "return"} /\ reply' = reply
    PROVE  SignerInv'
<1>1. PVInv' /\ UNCHANGED <<remote, nodeVars, server, links, answers>>
  BY Zenon, NextPVInv DEF SignerInv, remoteVars
<1>2. UNCHANGED <<sign, call, conn, acceptor>>
  BY Zenon, <1>1 DEF nodeVars
<1>3. NodeTypes' /\ AnswersMatch'
  BY Zenon, <1>1, <1>2 DEF SignerInv, NodeTypes, AnswersMatch
<1>4. ServerTypes'
  BY Zenon, <1>1 DEF SignerInv, ServerTypes
<1>5. Connections'
  BY Zenon, <1>1, <1>2 DEF SignerInv, Connections, Quiet, Asked, Waiting, Request
<1> QED
  BY Zenon, <1>1, <1>3, <1>4, <1>5 DEF SignerInv

\* Every step of the node, of the signer and of FilePV, and every fault, preserves
\* the invariant.
LEMMA SignerNextInv == SignerInv /\ [SignerNext]_<<vars, remoteVars>> => SignerInv'
<1> SUFFICES ASSUME SignerInv, [SignerNext]_<<vars, remoteVars>> PROVE SignerInv'
  OBVIOUS
<1>1. ASSUME remote, NEW m \in Requests, SignRequest(m) PROVE SignerInv'
  BY Zenon, <1>1, RequestsAssumption, SignRequestInv
<1>2. CASE PingTick
  BY Zenon, <1>2, PingTickInv
<1>3. CASE triggerReconnect
  BY Zenon, <1>3, TriggerReconnectInv
<1>4. ASSUME NEW user \in {"sign", "ping"}, ensureConnection(user) PROVE SignerInv'
  BY Zenon, <1>4, EnsureConnectionInv
<1>5. CASE WaitConnection
  BY Zenon, <1>5, WaitConnectionInv
<1>6. CASE WriteMessage
  BY Zenon, <1>6, WriteMessageInv
<1>7. CASE ReadMessage
  BY Zenon, <1>7, ReadMessageInv
<1>8. CASE acceptNewConnection
  BY Zenon, <1>8, AcceptInv
<1>9. CASE NodeRestarts
  BY Zenon, <1>9, NodeRestartsInv
<1>10. CASE remote /\ Dial
  BY Zenon, <1>10, DialInv
<1>11. CASE remote /\ ServerReads
  BY Zenon, <1>11, ServerReadsInv
<1>12. CASE remote /\ ServerSigns
  BY Zenon, <1>12, ServerSignsInv
<1>13. CASE remote /\ ServerResponds
  BY Zenon, <1>13, ServerRespondsInv
<1>14. CASE ServerWrites
  BY Zenon, <1>14, ServerWritesInv
<1>15. CASE remote /\ SignerCrashes
  BY Zenon, <1>15, SignerCrashesInv
<1>16. CASE (Save \/ LoadFilePV) /\ UNCHANGED remoteVars
  <2>1. Next
    BY Zenon, <1>16 DEF Next
  <2>2. server.pc = "sign" => pc \in {"save", "return"}
    BY Zenon DEF SignerInv, ServerTypes
  <2>3. server.pc = "sign" => pc' \in {"save", "return"} /\ reply' = reply
    BY Zenon, <1>16, <2>2 DEF Save, LoadFilePV
  <2> QED
    BY Zenon, <1>16, <2>1, <2>3, FilePVMoves
<1>17. CASE ~remote /\ Next /\ UNCHANGED remoteVars
  <2>1. server.pc # "sign"
    BY Zenon, <1>17 DEF SignerInv, ServerTypes
  <2> QED
    BY Zenon, <1>17, <2>1, FilePVMoves
<1>18. CASE UNCHANGED <<vars, remoteVars>>
  <2>1. UNCHANGED vars /\ UNCHANGED <<remote, sign, call, conn, acceptor, server, links, answers>>
    BY Zenon, <1>18 DEF remoteVars, nodeVars
  <2>2. NodeTypes' /\ AnswersMatch'
    BY Zenon, <2>1 DEF SignerInv, NodeTypes, AnswersMatch
  <2>3. PVInv' /\ ServerTypes'
    BY Zenon, <2>1, SameVars DEF SignerInv, ServerTypes
  <2>4. Connections'
    BY Zenon, <2>1 DEF SignerInv, Connections, Quiet, Asked, Waiting, Request
  <2> QED
    BY Zenon, <2>2, <2>3, <2>4 DEF SignerInv
<1> QED
  BY Zenon, <1>1, <1>2, <1>3, <1>4, <1>5, <1>6, <1>7, <1>8, <1>9, <1>10, <1>11, <1>12, <1>13, <1>14, <1>15,
     <1>16, <1>17, <1>18 DEF SignerNext, RemoteNext

LEMMA SignerSafe == SignerSpec => []SignerInv
BY SignerInit, SignerNextInv, PTL DEF SignerSpec

\* What SignVote and SignProposal of the client return is signed for what consensus
\* asked for, whatever connections are dropped, however often a call is tried again
\* and whichever of the two processes restarts.
THEOREM AnswersAreToRequests == SignerSpec => []AnswersMatch
<1>1. SignerInv => AnswersMatch
  BY Zenon DEF SignerInv
<1> QED
  BY <1>1, SignerSafe, PTL

\* FilePV behind the remote signer, with requests repeated by the client and calls
\* cut off by crashes, releases no two signatures that differ for one height, round
\* and step.
THEOREM RemoteNoDoubleSign == SignerSpec => []NoDoubleSign
<1>1. SignerInv => NoDoubleSign
  BY Zenon DEF SignerInv, PVInv
<1> QED
  BY <1>1, SignerSafe, PTL

\* Nor does it answer with a signature that is not in the file of the last sign state.
THEOREM RemoteReleasedPersisted == SignerSpec => []ReleasedIsPersisted
<1>1. SignerInv => ReleasedIsPersisted
  BY Zenon DEF SignerInv, PVInv
<1> QED
  BY <1>1, SignerSafe, PTL
=============================================================================
