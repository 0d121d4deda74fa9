---------------------------- MODULE MCMembership ----------------------------
(* Instances of Membership for TLC: two pools that may select the same node. *)
EXTENDS Membership

CONSTANTS A, B
=============================================================================
