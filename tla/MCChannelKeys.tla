--------------------------- MODULE MCChannelKeys ---------------------------
(* Small instances of ChannelKeys for TLC. *)
EXTENDS ChannelKeys, TLC

CONSTANTS admin, seed, alice, m1, r1, r2, t1, t2, p1, p2

ByAdmin == [m \in {m1} |-> admin]

Silent == [m \in {} |-> admin]

(* The member dials the admin, or each dials the other; both dial the relay. *)
MemberDials == {<<alice, admin>>}

UserDials == {<<alice, admin>>, <<admin, alice>>}

RelayDials == {<<alice, seed>>, <<admin, seed>>}

Symmetry == Permutations({p1, p2})
=============================================================================
