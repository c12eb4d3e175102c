-------------------------- MODULE MCJobDistributor --------------------------
(***************************************************************************)
(* One request, for a stream or not, three miners, a server with a p2p     *)
(* node.  Requests share nothing but the sweep, which may take any of the  *)
(* closed ones: two of them only multiply the states.                      *)
(***************************************************************************)
EXTENDS JobDistributor

=============================================================================
