--------------------------- MODULE ChainFollower ---------------------------
(***************************************************************************)
(* What catching up promises: the application follows the chain that the   *)
(* validators committed. It may start from the state of one height, it then *)
(* executes every later block once and in order, and at some height the    *)
(* node hands over to consensus, after which catching up executes nothing, *)
(* unless the node falls behind and starts again.                          *)
(***************************************************************************)
EXTENDS Integers

CONSTANTS
    Tip       \* the greatest height of the chain

VARIABLES
    height,   \* the height whose state the application has
    sound,    \* that state is the one the chain has at this height
    mode      \* "restore", "follow" or "consensus"

vars == <<height, sound, mode>>

Init ==
    /\ height \in 0..Tip
    /\ sound = TRUE
    /\ mode \in {"restore", "follow"}

\* The application takes over the state of some height.
Restore(h) ==
    /\ mode = "restore"
    /\ height' = h /\ mode' = "follow"
    /\ UNCHANGED sound

\* The application executes the next block of the chain.
Execute ==
    /\ mode = "follow"
    /\ height' = height + 1
    /\ UNCHANGED <<sound, mode>>

\* Consensus goes on from here.
HandOver ==
    /\ mode = "follow"
    /\ mode' = "consensus"
    /\ UNCHANGED <<height, sound>>

\* A node that fell behind starts to catch up again.
Resume ==
    /\ mode = "consensus"
    /\ mode' = "follow"
    /\ UNCHANGED <<height, sound>>

Next ==
    \/ \E h \in 1..Tip : Restore(h)
    \/ Execute
    \/ HandOver \/ Resume

Spec == Init /\ [][Next]_vars
=============================================================================
