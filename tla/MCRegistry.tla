----------------------------- MODULE MCRegistry -----------------------------
(***************************************************************************)
(* One other miner, whose port is the node's own or another one.  Four     *)
(* ticks without an announcement are too many for the node's own record.   *)
(***************************************************************************)
EXTENDS Registry

CONSTANTS self, m1

=============================================================================
