---------------------------- MODULE MCManifests ----------------------------
(* A small instance of Manifests for TLC. *)
EXTENDS Manifests

CONSTANTS admin, seed, alice

(* The two users find each other in the DHT. *)
UserDials == {<<alice, admin>>, <<admin, alice>>}
=============================================================================
