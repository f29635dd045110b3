---------------------------- MODULE MCMembership ----------------------------
(* A small instance of Membership for TLC. *)
EXTENDS Membership

CONSTANTS creator, seed, alice
=============================================================================
