-------------------------------- MODULE MCDht --------------------------------
(* A small instance of Dht for TLC. *)
EXTENDS Dht

Ids3 == {<<0, 0>>, <<1, 0>>, <<1, 1>>}
Seeds == {<<1, 0>>}
Targets == [mailbox |-> <<0, 1>>, info |-> <<1, 1>>, community |-> <<0, 0>>]
=============================================================================
