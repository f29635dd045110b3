-------------------------- MODULE MCDirectMessages --------------------------
(* A small instance of DirectMessages for TLC. *)
EXTENDS DirectMessages

CONSTANTS alice, bob
=============================================================================
