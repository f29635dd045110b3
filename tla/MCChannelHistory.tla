-------------------------- MODULE MCChannelHistory --------------------------
(* Small instances of ChannelHistory for TLC. *)
EXTENDS ChannelHistory, TLC

CONSTANTS own, far, near, big

(* One message is twice the size of the others. *)
Sizes == [m \in Msgs |-> IF m = big THEN 2 ELSE 1]
=============================================================================
