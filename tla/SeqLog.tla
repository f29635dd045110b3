------------------------------- MODULE SeqLog -------------------------------
(***************************************************************************)
(* What a channel's table in the NodeStore promises its users              *)
(* (node/store.rs): a log numbered without a gap that grows at the end and *)
(* shrinks at the beginning.  ChannelHistory implements it.                *)
(***************************************************************************)
EXTENDS Integers

VARIABLE rows   \* seq -> what is stored there

Init == rows = <<>>

(* The only number a new row may take: the one after all the others, or 0. *)
Follows(n) ==
  /\ \A s \in DOMAIN rows : s < n
  /\ IF DOMAIN rows = {} THEN n = 0 ELSE n - 1 \in DOMAIN rows

(* One new row, of any content; the others stay as they are. *)
Grow ==
  \E n \in {0} \cup {s + 1 : s \in DOMAIN rows} :
    /\ Follows(n)
    /\ DOMAIN rows' = DOMAIN rows \cup {n}
    /\ \A s \in DOMAIN rows : rows'[s] = rows[s]

(* Whatever goes is older than whatever stays. *)
Trim ==
  \E kept \in SUBSET DOMAIN rows :
    /\ \A k \in kept, s \in DOMAIN rows : s > k => s \in kept
    /\ rows' = [s \in kept |-> rows[s]]

Next == Grow \/ Trim

Spec == Init /\ [][Next]_rows
=============================================================================
