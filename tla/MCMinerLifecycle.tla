--------------------------- MODULE MCMinerLifecycle ---------------------------
(***************************************************************************)
(* Two starts and two callers of stop, who may stop again and again: a     *)
(* start that fails can be followed by one that succeeds, a stop by a      *)
(* start, and any of them can overlap.                                     *)
(***************************************************************************)
EXTENDS MinerLifecycle

=============================================================================
