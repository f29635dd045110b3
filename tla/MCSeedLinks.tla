---------------------------- MODULE MCSeedLinks ----------------------------
(* Small instances of SeedLinks for TLC. *)
EXTENDS SeedLinks

CONSTANTS a1, a2, a3, h1, h2, me, c1, c2

(* a1 and a2 lead to two hosts; a3 is an address of this node. *)
Listeners == [a \in {a1, a2, a3} |-> IF a = a1 THEN h1 ELSE IF a = a2 THEN h2 ELSE me]

(* One seed for c1; c2 is hosted by this node itself. *)
OwnSeeds == {<<a1, c1>>, <<a3, c2>>}
=============================================================================
