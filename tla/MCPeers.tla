------------------------------ MODULE MCPeers ------------------------------
(***************************************************************************)
(* Three peers and buckets for one: a and b share a bucket.  c answers,    *)
(* and b is named by its lists.                                            *)
(***************************************************************************)
EXTENDS Peers

CONSTANTS a, b, c

MCBucketOf == [m \in {a, b, c} |-> IF m = c THEN 1 ELSE 0]

=============================================================================
