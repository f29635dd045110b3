----------------------------- MODULE MCMessages -----------------------------
(* A small instance of Messages for TLC. *)
EXTENDS Messages, TLC

CONSTANTS alice, bob

Symmetry == Permutations({alice, bob})
=============================================================================
