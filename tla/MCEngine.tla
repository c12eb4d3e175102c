------------------------------ MODULE MCEngine ------------------------------
(***************************************************************************)
(* Two jobs, one of them for another model; three blocks on the genesis    *)
(* block, with timestamps in any order and difficulties around four.       *)
(***************************************************************************)
EXTENDS Engine

CONSTANTS j1, j2

MCJob == {j1, j2}
MCFitting == {j1}
MCStamp == {0, 4, 7}

=============================================================================
