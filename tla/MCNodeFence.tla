---------------------------- MODULE MCNodeFence ----------------------------
(* The fence of one node, for TLC. *)
EXTENDS NodeFence
=============================================================================
