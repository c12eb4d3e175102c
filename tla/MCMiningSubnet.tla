--------------------------- MODULE MCMiningSubnet ---------------------------
(***************************************************************************)
(* Three connected nodes; p makes a job that p and q may mine, r keeps the *)
(* books and relays.                                                       *)
(***************************************************************************)
EXTENDS MiningSubnet, TLC

CONSTANTS p, q, r, j1

MCNode == {p, q, r}
MCJob == {j1}
MCAuthor == j1 :> p
MCMiner == {p, q}

=============================================================================
