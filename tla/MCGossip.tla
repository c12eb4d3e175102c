------------------------------ MODULE MCGossip ------------------------------
(***************************************************************************)
(* Three nodes.  p, which has a transaction, a block and a job to announce,*)
(* and r know q and are known to it; r can reach p, p cannot reach r.  p   *)
(* only announces, the others listen, and r mines.                         *)
(***************************************************************************)
EXTENDS Gossip, TLC

CONSTANTS p, q, r, t, b, j

MCNode == {p, q, r}
MCOrigin == t :> p @@ b :> p @@ j :> p
MCAddress == p :> {q} @@ q :> {p, r} @@ r :> {p, q}
MCListening == {q, r}
MCCapable == {r}

=============================================================================
