--------------------------- MODULE MCRemoteSigner ---------------------------
(* Requests to a remote signer for TLC. *)
EXTENDS RemoteSigner

CONSTANTS b1, b2, t1, t2

MCPrevote(round, block, time) ==
    [height |-> 1, round |-> round, step |-> stepPrevote, block |-> block, time |-> time]

\* A prevote, one for another block, one of the next round,
\* and a proposal.
MCRequests ==
    {MCPrevote(0, b1, t1), MCPrevote(0, b2, t2), MCPrevote(1, b2, t1),
     [MCPrevote(0, b1, t1) EXCEPT !.step = stepPropose]}
=============================================================================
