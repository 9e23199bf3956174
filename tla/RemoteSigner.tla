---------------------------- MODULE RemoteSigner ----------------------------
(***************************************************************************)
(* A node whose private validator is its own FilePV, or one in another     *)
(* process: RetrySignerClient and SignerClient over the listener endpoint  *)
(* on the side of the node, SignerServer over the dialer endpoint on the   *)
(* side of the key (privval/signer_*.go, retry_signer_client.go).          *)
(*                                                                         *)
(* A request of consensus and the pings of pingLoop take turns on one      *)
(* connection; nothing in an answer but its kind says which request it is  *)
(* for.  A connection is a pair of queues with two ends, and what one end  *)
(* wrote may be read after the other was closed.  Durations are left out:  *)
(* a timeout may come whenever what is waited for is not there.            *)
(***************************************************************************)
EXTENDS FilePV, Sequences, FiniteSets

CONSTANTS
    Requests,    \* what consensus asks a remote signer to sign
    retries,     \* attempts of RetrySignerClient (50 in the node)
    MaxCalls,    \* bound: calls of consensus
    MaxPings,    \* bound: pings
    MaxConns,    \* bound: connections
    MaxFaults    \* bound: timeouts, resets and crashes

ASSUME RequestsAssumption == Requests \subseteq Message

VARIABLES
    remote,      \* whether the signer is remote, fixed
    sign,        \* the call of consensus: pc, request, attempt; calls made so far
    ping,        \* pingLoop: pc; pings so far
    call,        \* SendRequest of the one that holds instanceMtx: user, pc
    conn,        \* the connection of the listener endpoint, or 0
    acceptor,    \* serviceLoop of the endpoint: pc, the connection it offers
    server,      \* SignerServer: pc, connection or 0, the message in hand
    links,       \* the connections dialed so far
    answers,     \* pairs of a request and the signed message consensus got for it
    faults       \* timeouts, resets and crashes so far

nodeVars == <<sign, ping, call, conn, acceptor>>
remoteVars == <<remote, nodeVars, server, links, answers, faults>>

Ping == [step |-> stepNone]
Free == [user |-> "none", pc |-> "free"]
Idle == [pc |-> "dial", conn |-> 0, message |-> Ping]

kind(m) == IF m = Ping THEN "ping" ELSE IF m.step = stepPropose THEN "proposal" ELSE "vote"
Signed(m) == [kind |-> kind(m), ok |-> TRUE, message |-> m]
Refused(m) == [kind |-> kind(m), ok |-> FALSE, message |-> m]

NewLink == [requests |-> <<>>, responses |-> <<>>, accepted |-> FALSE, node |-> TRUE, signer |-> TRUE]

Fault == faults < MaxFaults /\ faults' = faults + 1
NoFault == UNCHANGED faults

RemoteInit ==
    /\ Init
    /\ remote \in BOOLEAN
    /\ sign = [pc |-> "idle", request |-> Ping, attempt |-> 0, calls |-> 0]
    /\ ping = [pc |-> "idle", pings |-> 0]
    /\ call = Free
    /\ conn = 0
    /\ acceptor = [pc |-> "accept", conn |-> 0]
    /\ server = Idle
    /\ links = <<>>
    /\ answers = {}
    /\ faults = 0

-----------------------------------------------------------------------------
(***************************************************************************)
(* The node: who calls SendRequest, and what they do with its result.      *)
(***************************************************************************)

\* Consensus asks for a signature.
SignRequest(m) ==
    /\ sign.pc = "idle" /\ sign.calls < MaxCalls
    /\ sign' = [pc |-> "call", request |-> m, attempt |-> 1, calls |-> sign.calls + 1]
    /\ UNCHANGED <<vars, remote, ping, call, conn, acceptor, server, links, answers, faults>>

PingTick ==
    /\ ping.pc = "idle" /\ ping.pings < MaxPings
    /\ ping' = [pc |-> "call", pings |-> ping.pings + 1]
    /\ UNCHANGED <<vars, remote, sign, call, conn, acceptor, server, links, answers, faults>>

\* The acceptor hears of it only if it is waiting for it.
triggerConnect ==
    \/ UNCHANGED acceptor
    \/ acceptor.pc = "wait" /\ acceptor' = [acceptor EXCEPT !.pc = "accept"]

\* SendRequest takes instanceMtx; ensureConnection uses a connection that is there or
\* offered, or asks for one.
ensureConnection(user) ==
    /\ call = Free
    /\ user = "sign" => sign.pc = "call"
    /\ user = "ping" => ping.pc = "call"
    /\ IF conn # 0
       THEN /\ call' = [user |-> user, pc |-> "write"]
            /\ UNCHANGED <<conn, acceptor>>
       ELSE IF acceptor.pc = "offer"
       THEN /\ call' = [user |-> user, pc |-> "write"]
            /\ conn' = acceptor.conn
            /\ acceptor' = [pc |-> "wait", conn |-> 0]
       ELSE /\ call' = [user |-> user, pc |-> "connect"]
            /\ triggerConnect
            /\ UNCHANGED conn
    /\ UNCHANGED <<vars, remote, sign, ping, server, links, answers, faults>>

\* SendRequest returns an error: consensus tries again after a while, pingLoop goes
\* on to triggerReconnect.
Fails ==
    /\ call' = Free
    /\ IF call.user = "ping"
       THEN ping' = [ping EXCEPT !.pc = "reconnect"] /\ UNCHANGED sign
       ELSE /\ sign' = IF sign.attempt < retries THEN [sign EXCEPT !.attempt = @ + 1]
                       ELSE [sign EXCEPT !.pc = "idle", !.request = Ping, !.attempt = 0]
            /\ UNCHANGED ping

\* SendRequest returns a response.  One of another kind is an error, an error of the
\* signer ends the call, and a signed message is taken for the one requested.
Returns(response) ==
    IF call.user = "ping"
    THEN /\ call' = Free /\ ping' = [ping EXCEPT !.pc = "idle"]
         /\ UNCHANGED <<sign, answers>>
    ELSE IF response.kind # kind(sign.request)
    THEN Fails /\ UNCHANGED answers
    ELSE /\ call' = Free
         /\ sign' = [sign EXCEPT !.pc = "idle", !.request = Ping, !.attempt = 0]
         /\ answers' = IF response.ok THEN answers \cup {<<sign.request, response.message>>} ELSE answers
         /\ UNCHANGED ping

WaitConnection ==
    /\ call.pc = "connect"
    /\ \/ /\ acceptor.pc = "offer"
          /\ conn' = acceptor.conn
          /\ acceptor' = [pc |-> "wait", conn |-> 0]
          /\ call' = [call EXCEPT !.pc = "write"]
          /\ NoFault
          /\ UNCHANGED <<sign, ping>>
       \/ Fails /\ Fault /\ UNCHANGED <<conn, acceptor>>
    /\ UNCHANGED <<vars, remote, server, links, answers>>

dropConnection == conn' = 0 /\ links' = [links EXCEPT ![conn].node = FALSE]

\* A request to an end that is closed may pass for sent.
WriteMessage ==
    LET request == IF call.user = "ping" THEN Ping ELSE sign.request
    IN  /\ call.pc = "write"
        /\ \/ conn = 0 /\ Fails /\ NoFault /\ UNCHANGED <<conn, links>>
           \/ /\ conn # 0
              /\ links' = [links EXCEPT ![conn].requests = Append(@, request)]
              /\ call' = [call EXCEPT !.pc = "read"]
              /\ NoFault
              /\ UNCHANGED <<conn, sign, ping>>
           \/ /\ conn # 0
              /\ dropConnection /\ Fails
              /\ IF links[conn].signer THEN Fault ELSE NoFault
        /\ UNCHANGED <<vars, remote, acceptor, server, answers>>

\* Mutant: the connection survives a read that timed out.
ReadMessageKeeps ==
    /\ call.pc = "read"
    /\ \/ conn = 0 /\ Fails /\ NoFault /\ UNCHANGED <<conn, links, answers>>
       \/ /\ conn # 0 /\ links[conn].responses # <<>>
          /\ Returns(Head(links[conn].responses))
          /\ links' = [links EXCEPT ![conn].responses = Tail(@)]
          /\ NoFault /\ UNCHANGED conn
       \/ /\ conn # 0 /\ Fails /\ Fault
          /\ UNCHANGED <<conn, links, answers>>
    /\ UNCHANGED <<vars, remote, acceptor, server>>

\* A timeout or a reset drops the connection; the end of the stream, which is neither,
\* leaves it.
ReadMessage ==
    /\ call.pc = "read"
    /\ \/ conn = 0 /\ Fails /\ NoFault /\ UNCHANGED <<conn, links, answers>>
       \/ /\ conn # 0 /\ links[conn].responses # <<>>
          /\ Returns(Head(links[conn].responses))
          /\ links' = [links EXCEPT ![conn].responses = Tail(@)]
          /\ NoFault /\ UNCHANGED conn
       \/ /\ conn # 0 /\ links[conn].responses = <<>> /\ ~links[conn].signer
          /\ Fails /\ NoFault /\ UNCHANGED <<conn, links, answers>>
       \/ /\ conn # 0
          /\ dropConnection /\ Fails
          /\ IF links[conn].signer THEN Fault ELSE NoFault
          /\ UNCHANGED answers
    /\ UNCHANGED <<vars, remote, acceptor, server>>

\* pingLoop drops the connection after it has given up instanceMtx, so it may be the
\* one that consensus is using.
triggerReconnect ==
    /\ ping.pc = "reconnect"
    /\ ping' = [ping EXCEPT !.pc = "idle"]
    /\ IF conn # 0 THEN dropConnection ELSE UNCHANGED <<conn, links>>
    /\ triggerConnect
    /\ UNCHANGED <<vars, remote, sign, call, server, answers, faults>>

\* serviceLoop of the endpoint: the oldest connection that was dialed, or none in time.
acceptNewConnection ==
    /\ acceptor.pc = "accept"
    /\ \/ \E k \in DOMAIN links :
             /\ ~links[k].accepted /\ \A j \in 1 .. k - 1 : links[j].accepted
             /\ links' = [links EXCEPT ![k].accepted = TRUE]
             /\ acceptor' = [pc |-> "offer", conn |-> k]
             /\ NoFault
       \/ /\ acceptor' = [pc |-> "wait", conn |-> 0]
          /\ Fault /\ UNCHANGED links
    /\ UNCHANGED <<vars, remote, sign, ping, call, conn, server, answers>>

\* The node stops and starts again.
NodeRestarts ==
    /\ Fault
    /\ sign' = [sign EXCEPT !.pc = "idle", !.request = Ping, !.attempt = 0]
    /\ ping' = [ping EXCEPT !.pc = "idle"]
    /\ call' = Free
    /\ conn' = 0
    /\ acceptor' = [pc |-> "accept", conn |-> 0]
    /\ links' = [k \in DOMAIN links |-> [links[k] EXCEPT !.node = FALSE, !.accepted = TRUE]]
    /\ UNCHANGED <<vars, remote, server, answers>>

-----------------------------------------------------------------------------
(***************************************************************************)
(* The signer: serviceLoop of SignerServer.                                *)
(***************************************************************************)
serverDrops ==
    /\ server' = Idle
    /\ links' = [links EXCEPT ![server.conn].signer = FALSE]

\* ensureConnection of the dialer endpoint, which gives up after some attempts.
Dial ==
    /\ pc # "down" /\ server.pc = "dial"
    /\ \/ /\ Len(links) < MaxConns
          /\ links' = Append(links, NewLink)
          /\ server' = [server EXCEPT !.pc = "read", !.conn = Len(links')]
          /\ NoFault
       \/ /\ server' = [server EXCEPT !.pc = "stopped"]
          /\ Fault /\ UNCHANGED links
    /\ UNCHANGED <<vars, remote, nodeVars, answers>>

\* servicePendingRequest reads.  At the end of the stream it reads again for ever,
\* unless that shows as a reset.
ServerReads ==
    LET link == links[server.conn]
    IN  /\ server.pc = "read"
        /\ \/ /\ link.requests # <<>>
              /\ server' = [server EXCEPT !.pc = "handle", !.message = Head(link.requests)]
              /\ links' = [links EXCEPT ![server.conn].requests = Tail(@)]
              /\ NoFault
           \/ /\ ~link.node \/ link.requests = <<>>
              /\ serverDrops
              /\ IF link.node THEN Fault ELSE NoFault
        /\ UNCHANGED <<vars, remote, nodeVars, answers>>

\* DefaultValidationRequestHandler calls FilePV, or FilePV returns an error.
ServerSigns ==
    /\ server.pc = "handle" /\ server.message # Ping
    /\ SignVote(server.message) \/ SignProposal(server.message)
    /\ server' = [server EXCEPT !.pc = "sign"]
    /\ UNCHANGED <<remote, nodeVars, links, answers, faults>>

Refuses(m) ==
    \/ checkHRSRegression(lss, m)
    \/ /\ HRSEqual(lss, m)
       /\ ~checkHRSSame(lss, m) \/ (IF m.step = stepPropose THEN lss.signBytes # m
                                    ELSE ~OnlyDifferByTimestamp(lss.signBytes, m))

Responds(response) ==
    server' = [pc |-> "write", conn |-> server.conn, message |-> response]

ServerResponds ==
    /\ \/ /\ server.pc = "handle" /\ server.message = Ping
          /\ Responds(Signed(Ping)) /\ UNCHANGED vars
       \/ /\ server.pc = "handle" /\ server.message # Ping /\ Refuses(server.message)
          /\ Responds(Refused(server.message)) /\ UNCHANGED vars
       \/ /\ server.pc = "sign"
          /\ Responds(Signed(reply)) /\ Return
    /\ UNCHANGED <<remote, nodeVars, links, answers, faults>>

\* A response to an end that is closed may pass for sent.
ServerWrites ==
    /\ server.pc = "write"
    /\ \/ /\ links' = [links EXCEPT ![server.conn].responses = Append(@, server.message)]
          /\ server' = [server EXCEPT !.pc = "read", !.message = Ping]
          /\ NoFault
       \/ serverDrops /\ IF links[server.conn].node THEN Fault ELSE NoFault
    /\ UNCHANGED <<vars, remote, nodeVars, answers>>

\* The process of the signer stops, and starts again with LoadFilePV.
SignerCrashes ==
    /\ Fault /\ Crash
    /\ IF server.conn # 0 THEN serverDrops ELSE server' = Idle /\ UNCHANGED links
    /\ UNCHANGED <<remote, nodeVars, answers>>

-----------------------------------------------------------------------------
RemoteNext ==
    \/ \E m \in Requests : SignRequest(m)
    \/ PingTick \/ triggerReconnect
    \/ \E user \in {"sign", "ping"} : ensureConnection(user)
    \/ WaitConnection \/ WriteMessage \/ ReadMessage
    \/ acceptNewConnection \/ NodeRestarts
    \/ Dial \/ ServerReads \/ ServerSigns \/ ServerResponds \/ ServerWrites
    \/ SignerCrashes
    \/ (Save \/ LoadFilePV) /\ UNCHANGED remoteVars

SignerNext ==
    \/ remote /\ RemoteNext
    \/ ~remote /\ Next /\ UNCHANGED remoteVars

SignerSpec == RemoteInit /\ [][SignerNext]_<<vars, remoteVars>>

-----------------------------------------------------------------------------
\* What SignVote and SignProposal of the client return without an error is signed
\* for the height, round, step and block that consensus asked for, never a late
\* answer to an earlier attempt, an earlier call or a call before a restart: both
\* ends drop a connection before a late answer can be read from it.
AnswersMatch ==
    \A a \in answers : HRSEqual(a[1], a[2]) /\ a[1].block = a[2].block
=============================================================================
