------------------------- MODULE MCTendermintVoting -------------------------
(* Four validators of equal power, one of them faulty; see the cfg. *)
EXTENDS TendermintVoting, TLC

MCSymmetry == Permutations(Correct) \cup Permutations(Blocks)
=============================================================================
