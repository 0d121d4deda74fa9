---------------------------- MODULE MCPoolStatus ----------------------------
(* The status of one pool, for TLC. *)
EXTENDS PoolStatus
=============================================================================
