------------------------ MODULE MCProposerSelection -------------------------
(* Instances of ProposerSelection for TLC. *)
EXTENDS ProposerSelection

MCAddresses == 1 .. 3
MCGenesis == {[v \in MCAddresses |-> IF v = 1 THEN 2 ELSE 1]}

MCChange(v, power) == [Address |-> v, VotingPower |-> power]

\* One validator joins, leaves or changes its power; at 29 beside two of power 1 the
\* total is the largest that is accepted, and 100 is refused by itself.  Two change
\* their power at once, one is named twice, or one takes the place of another.
MCOne == {{MCChange(v, power)} : v \in MCAddresses, power \in {0, 1, 8, 29, 100}}
MCTwo == {{MCChange(v, x[1]), MCChange(w, x[2])} :
              v, w \in MCAddresses, x \in {<<8, 8>>, <<8, 1>>, <<2, 1>>, <<29, 0>>}}
MCChanges == MCOne \cup MCTwo
=============================================================================
