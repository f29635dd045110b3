---------------------------- MODULE MessagesProofs ----------------------------
(* Theorems about the messages, edits, deletions and reactions of Messages, for
   every value of its constants: any users and any bounds. *)
EXTENDS Messages, WellFoundedInduction, TLAPS

(* Induction on the naturals, for the set of those that have a property. *)
LEMMA Induction ==
  ASSUME NEW P \in SUBSET Nat, 0 \in P, \A n \in P : n + 1 \in P
  PROVE  \A n \in Nat : n \in P
<1> DEFINE Q == Nat \ P
           Less == OpToRel(<, Nat)
<1>1. SUFFICES ASSUME Q # {} PROVE FALSE
  OBVIOUS
<1>2. \A x, y \in Nat : x < y => <<x, y>> \in Less
  BY DEF OpToRel
<1>3. PICK q \in Q : \A v \in Q : ~(v < q)
  <2>1. IsWellFoundedOn(Less, Nat)
    BY NatLessThanWellFounded, Zenon
  <2>2. Q \subseteq Nat
    OBVIOUS
  <2> HIDE DEF Less, Q
  <2>3. \E x \in Q : \A y \in Q : ~(<<y, x>> \in Less)
    BY <1>1, <2>1, <2>2, WFMin, Zenon
  <2>4. QED BY <1>2, <2>2, <2>3, Zenon
<1>4. q # 0 /\ q - 1 \in Nat
  OBVIOUS
<1>5. q - 1 \in P
  BY <1>3, <1>4
<1>6. QED BY <1>4, <1>5

(* A loop from 0 to N that starts with z and computes a value of S in each round
   from the one of the round before. *)
Loops(N, S, z, G) ==
  \E f \in [0 .. N -> S] : f[0] = z /\ \A n \in 1 .. N : f[n] = G[n][f[n - 1]]

(* Such a loop has a value in every round. *)
LEMMA LoopExists ==
  ASSUME NEW N \in Nat, NEW S, NEW z \in S, NEW G \in [Nat -> [S -> S]]
  PROVE  Loops(N, S, z, G)
<1> DEFINE Runs(f, k) == f \in [0 .. k -> S] /\ f[0] = z /\ \A n \in 1 .. k : f[n] = G[n][f[n - 1]]
           P == {k \in Nat : \E f : Runs(f, k)}
<1>1. 0 \in P
  <2>1. Runs([n \in 0 .. 0 |-> z], 0)
    OBVIOUS
  <2>2. QED BY <2>1, Zenon
<1>2. ASSUME NEW k \in P
      PROVE  k + 1 \in P
  <2>1. PICK f : Runs(f, k)
    OBVIOUS
  <2> DEFINE g == [n \in 0 .. (k + 1) |-> IF n = k + 1 THEN G[k + 1][f[k]] ELSE f[n]]
  <2>2. k \in Nat /\ f[k] \in S
    BY <2>1
  <2>3. G[k + 1][f[k]] \in S
    BY <2>2
  <2>4. g \in [0 .. (k + 1) -> S] /\ g[0] = z
    BY <2>1, <2>2, <2>3
  <2>5. ASSUME NEW n \in 1 .. (k + 1)
        PROVE  g[n] = G[n][g[n - 1]]
    <3>1. CASE n = k + 1
      BY <2>2, <3>1
    <3>2. CASE n \in 1 .. k
      BY <2>1, <2>2, <3>2
    <3>3. QED BY <2>2, <3>1, <3>2
  <2> HIDE DEF g
  <2>6. Runs(g, k + 1)
    BY <2>4, <2>5
  <2>7. QED BY <2>2, <2>6
<1> HIDE DEF P
<1>3. P \subseteq Nat
  BY DEF P
<1>4. N \in P
  BY <1>1, <1>2, <1>3, Induction
<1>5. QED BY <1>4, Zenon DEF P, Loops

-----------------------------------------------------------------------------
(* The reaction entry j still counts: no later entry takes it back. *)
Stands(s, j) ==
  /\ s[j].kind = "add"
  /\ \A k \in DOMAIN s :
       k > j /\ s[k].kind = "remove" =>
         <<s[k].of, s[k].author>> # <<s[j].of, s[j].author>>

(* A reaction is there when an entry that adds it stands. *)
LEMMA ReactionsAre ==
  ASSUME NEW s, NEW x
  PROVE  x \in ReactionsOf(s) <=>
           \E j \in DOMAIN s : Stands(s, j) /\ x = <<s[j].of, s[j].author>>
  BY Zenon DEF ReactionsOf, Stands

(* One more entry changes what the reactions amount to as react and unreact
   change the cache (message_log.rs:147-180). *)
LEMMA ReactAppended ==
  ASSUME NEW s \in Seq(Entries), NEW e \in Entries
  PROVE  ReactionsOf(Append(s, e)) = React(ReactionsOf(s), e)
<1> DEFINE t == Append(s, e)
           n == Len(s) + 1
           p == <<e.of, e.author>>
<1>1. /\ DOMAIN s = 1 .. Len(s) /\ Len(s) \in Nat
      /\ DOMAIN t = 1 .. n
      /\ \A j \in DOMAIN s : t[j] = s[j]
      /\ t[n] = e
  OBVIOUS
<1>2. ASSUME NEW j \in DOMAIN s
      PROVE  Stands(t, j) <=> Stands(s, j) /\ ~(e.kind = "remove" /\ p = <<s[j].of, s[j].author>>)
  <2>1. j \in Nat /\ j < n /\ t[j] = s[j]
    BY <1>1
  <2>2. \A k \in DOMAIN t : k \in DOMAIN s \/ k = n
    BY <1>1
  <2>3. \A k \in DOMAIN s : k \in DOMAIN t /\ t[k] = s[k]
    BY <1>1
  <2>4. n \in DOMAIN t /\ t[n] = e /\ n > j
    BY <1>1, <2>1
  <2> HIDE DEF t, n
  <2>5. QED BY <2>1, <2>2, <2>3, <2>4, Zenon DEF Stands
<1>3. Stands(t, n) <=> e.kind = "add"
  <2>1. \A k \in DOMAIN t : ~(k > n)
    BY <1>1
  <2> HIDE DEF t, n
  <2>2. QED BY <1>1, <2>1 DEF Stands
<1>4. ASSUME NEW x
      PROVE  x \in ReactionsOf(t) <=> x \in React(ReactionsOf(s), e)
  <2>1. x \in ReactionsOf(t) <=>
          \/ \E j \in DOMAIN s : /\ Stands(s, j) /\ x = <<s[j].of, s[j].author>>
                                 /\ ~(e.kind = "remove" /\ p = x)
          \/ e.kind = "add" /\ x = p
    <3>1. \A j : j \in DOMAIN t <=> j \in DOMAIN s \/ j = n
      BY <1>1
    <3> HIDE DEF t, n, p
    <3>2. x \in ReactionsOf(t) <=>
            \E j \in DOMAIN t : Stands(t, j) /\ x = <<t[j].of, t[j].author>>
      BY ReactionsAre, Zenon
    <3>3. \A j \in DOMAIN s : <<t[j].of, t[j].author>> = <<s[j].of, s[j].author>>
      BY <1>1
    <3>4. <<t[n].of, t[n].author>> = p
      BY <1>1 DEF p
    <3>5. QED BY <1>2, <1>3, <3>1, <3>2, <3>3, <3>4, Zenon
  <2>2. x \in ReactionsOf(t) <=>
          \/ x \in ReactionsOf(s) /\ ~(e.kind = "remove" /\ p = x)
          \/ e.kind = "add" /\ x = p
    BY <2>1, ReactionsAre, Zenon
  <2>3. e.kind \in {"text", "add", "remove"}
    BY DEF Entries, Kinds
  <2> HIDE DEF t, p
  <2>4. CASE e.kind = "add"
    BY <2>2, <2>4 DEF React, p
  <2>5. CASE e.kind = "remove"
    BY <2>2, <2>5 DEF React, p
  <2>6. CASE e.kind = "text"
    BY <2>2, <2>6 DEF React, p
  <2>7. QED BY <2>3, <2>4, <2>5, <2>6
<1>5. QED BY <1>4, Zenon DEF t

(* An edit or a tombstone changes no reaction: the same entries, as far as
   reactions go, amount to the same. *)
LEMMA ReactionsSame ==
  ASSUME NEW s, NEW t, DOMAIN t = DOMAIN s,
         \A i \in DOMAIN s : t[i].kind = s[i].kind /\ t[i].of = s[i].of /\ t[i].author = s[i].author
  PROVE  ReactionsOf(t) = ReactionsOf(s)
<1>1. \A j \in DOMAIN s : Stands(t, j) <=> Stands(s, j)
  BY DEF Stands
<1>2. ASSUME NEW x PROVE x \in ReactionsOf(t) <=> x \in ReactionsOf(s)
  <2>1. x \in ReactionsOf(t) <=>
          \E j \in DOMAIN t : Stands(t, j) /\ x = <<t[j].of, t[j].author>>
    BY ReactionsAre
  <2>2. x \in ReactionsOf(s) <=>
          \E j \in DOMAIN s : Stands(s, j) /\ x = <<s[j].of, s[j].author>>
    BY ReactionsAre
  <2>3. \A j \in DOMAIN s : <<t[j].of, t[j].author>> = <<s[j].of, s[j].author>>
    OBVIOUS
  <2>4. QED BY <1>1, <2>1, <2>2, <2>3, Zenon
<1>3. QED BY <1>2, Zenon

(* An empty log has no reactions. *)
LEMMA ReactionsNone == ReactionsOf(<<>>) = {}
<1>1. ASSUME NEW x PROVE x \notin ReactionsOf(<<>>)
  <2>1. DOMAIN <<>> = {}
    OBVIOUS
  <2>2. x \in ReactionsOf(<<>>) <=>
          \E j \in DOMAIN <<>> : Stands(<<>>, j) /\ x = <<<<>>[j].of, <<>>[j].author>>
    BY ReactionsAre, Zenon
  <2>3. QED BY <2>1, <2>2, Zenon
<1>2. QED BY <1>1, Zenon

(* Reactions are pairs of a message and a node. *)
LEMMA ReactionsTyped ==
  ASSUME NEW s \in Seq(Entries)
  PROVE  ReactionsOf(s) \in SUBSET (Ids \X Nodes)
<1>1. ASSUME NEW x, x \in ReactionsOf(s) PROVE x \in Ids \X Nodes
  <2>1. PICK j \in DOMAIN s : Stands(s, j) /\ x = <<s[j].of, s[j].author>>
    BY <1>1, ReactionsAre, Zenon
  <2>2. s[j] \in Entries
    OBVIOUS
  <2>3. s[j].kind = "add"
    BY <2>1 DEF Stands
  <2>4. s[j].of \in Ids /\ s[j].author \in Nodes
    BY <2>2, <2>3 DEF Entries
  <2>5. QED BY <2>1, <2>4
<1>2. QED BY <1>1, Zenon

-----------------------------------------------------------------------------
(* The loop of AppState::new over the entries it loads. *)
Cache(entries) ==
  CHOOSE cache : cache = [k \in 0 .. Len(entries) |->
                            IF k = 0 THEN {} ELSE React(cache[k - 1], entries[k])]

(* The replay of a restart, round by round. *)
LEMMA CacheRuns ==
  ASSUME NEW entries \in Seq(Entries)
  PROVE  LET N == Len(entries)
             cache == Cache(entries)
         IN  /\ Replayed(entries) = cache[N]
             /\ cache[0] = {}
             /\ \A k \in 1 .. N : cache[k] = React(cache[k - 1], entries[k])
<1> DEFINE N == Len(entries)
           S == SUBSET ((Ids \cup {0}) \X Nodes)
           Step(k, x) == IF k \in 1 .. N THEN React(x, entries[k]) ELSE x
           G == [k \in Nat |-> [x \in S |-> Step(k, x)]]
           cache == Cache(entries)
<1>1. N \in Nat
  OBVIOUS
<1>2. ASSUME NEW k \in Nat, NEW x \in S PROVE Step(k, x) \in S
  <2>1. CASE k \in 1 .. N
    <3>1. entries[k] \in Entries
      BY <2>1
    <3>2. entries[k].of \in Ids \cup {0} /\ entries[k].author \in Nodes
      BY <3>1 DEF Entries
    <3>3. <<entries[k].of, entries[k].author>> \in (Ids \cup {0}) \X Nodes
      BY <3>2
    <3>4. QED BY <2>1, <3>3, Zenon DEF React
  <2>2. QED BY <2>1
<1>3. {} \in S
  OBVIOUS
<1> HIDE DEF N, S, Step, cache
<1>4. G \in [Nat -> [S -> S]]
  BY <1>2
<1>5. PICK f \in [0 .. N -> S] : f[0] = {} /\ \A k \in 1 .. N : f[k] = G[k][f[k - 1]]
  <2> HIDE DEF G
  <2>1. Loops(N, S, {}, G)
    BY <1>1, <1>3, <1>4, LoopExists, Zenon
  <2>2. QED BY <2>1, Zenon DEF Loops
<1>6. ASSUME NEW k \in 1 .. N
      PROVE  f[k] = React(f[k - 1], entries[k])
  <2>1. k \in Nat /\ f[k - 1] \in S
    BY <1>1
  <2>2. f[k] = Step(k, f[k - 1])
    BY <1>5, <2>1, Zenon
  <2>3. QED BY <2>2, Zenon DEF Step
<1>7. f = [k \in 0 .. N |-> IF k = 0 THEN {} ELSE React(f[k - 1], entries[k])]
  BY <1>1, <1>5, <1>6
<1>8. cache = [k \in 0 .. N |-> IF k = 0 THEN {} ELSE React(cache[k - 1], entries[k])]
  BY <1>7, Zenon DEF Cache, N, cache
<1>9. Replayed(entries) = cache[N]
  BY DEF Replayed, Cache, N, cache
<1>10. cache[0] = {} /\ \A k \in 1 .. N : cache[k] = React(cache[k - 1], entries[k])
  <2>1. 0 \in 0 .. N /\ \A k \in 1 .. N : k \in 0 .. N /\ k # 0
    BY <1>1
  <2>2. QED BY <1>8, <2>1, Zenon
<1>11. QED BY <1>9, <1>10 DEF N, cache

(* The first entries of a sequence, and one more. *)
LEMMA OneMore ==
  ASSUME NEW entries \in Seq(Entries), NEW k \in Nat, k + 1 <= Len(entries)
  PROVE  /\ SubSeq(entries, 1, k) \in Seq(Entries)
         /\ SubSeq(entries, 1, k + 1) = Append(SubSeq(entries, 1, k), entries[k + 1])
<1> DEFINE a == SubSeq(entries, 1, k)
           b == SubSeq(entries, 1, k + 1)
           c == Append(a, entries[k + 1])
<1>1. /\ a \in Seq(Entries) /\ Len(a) = k
      /\ \A i \in 1 .. k : a[i] = entries[i]
  OBVIOUS
<1>2. /\ b \in Seq(Entries) /\ Len(b) = k + 1
      /\ \A i \in 1 .. (k + 1) : b[i] = entries[i]
  OBVIOUS
<1>3. entries[k + 1] \in Entries
  OBVIOUS
<1> HIDE DEF a, b
<1>4. /\ c \in Seq(Entries) /\ Len(c) = k + 1
      /\ \A i \in 1 .. (k + 1) : c[i] = entries[i]
  BY <1>1, <1>3
<1> HIDE DEF c
<1>5. b = c
  BY <1>2, <1>4
<1>6. QED BY <1>1, <1>5 DEF a, b, c

(* A restart computes from the rows the reactions they amount to
   (api/mod.rs:420-472). *)
LEMMA ReplayedIsReactions ==
  ASSUME NEW entries \in Seq(Entries)
  PROVE  Replayed(entries) = ReactionsOf(entries)
<1> DEFINE N == Len(entries)
           cache == Cache(entries)
           P == {k \in Nat : k <= N => cache[k] = ReactionsOf(SubSeq(entries, 1, k))}
<1>1. /\ Replayed(entries) = cache[N]
      /\ cache[0] = {}
      /\ \A k \in 1 .. N : cache[k] = React(cache[k - 1], entries[k])
  BY CacheRuns
<1> HIDE DEF cache
<1>2. N \in Nat
  OBVIOUS
<1>3. 0 \in P
  <2>1. SubSeq(entries, 1, 0) = <<>>
    OBVIOUS
  <2>2. QED BY <1>1, <2>1, ReactionsNone
<1>4. ASSUME NEW k \in P PROVE k + 1 \in P
  <2>1. SUFFICES ASSUME k + 1 <= N
                 PROVE  cache[k + 1] = ReactionsOf(SubSeq(entries, 1, k + 1))
    OBVIOUS
  <2>2. k \in Nat /\ k + 1 \in 1 .. N /\ (k + 1) - 1 = k /\ entries[k + 1] \in Entries
    BY <2>1
  <2>3. cache[k] = ReactionsOf(SubSeq(entries, 1, k))
    BY <2>1, <2>2
  <2> HIDE DEF P
  <2>4. cache[k + 1] = React(cache[k], entries[k + 1])
    BY <1>1, <2>2
  <2>5. /\ SubSeq(entries, 1, k) \in Seq(Entries)
        /\ SubSeq(entries, 1, k + 1) = Append(SubSeq(entries, 1, k), entries[k + 1])
    BY <2>1, <2>2, OneMore
  <2>6. QED BY <2>2, <2>3, <2>4, <2>5, ReactAppended, Zenon
<1>5. P \subseteq Nat
  OBVIOUS
<1>6. SubSeq(entries, 1, N) = entries
  OBVIOUS
<1> HIDE DEF P
<1>7. N \in P
  BY <1>2, <1>3, <1>4, <1>5, Induction
<1>8. N <= N
  BY <1>2
<1> HIDE DEF N
<1>9. QED BY <1>1, <1>6, <1>7, <1>8, Zenon DEF P

-----------------------------------------------------------------------------
(* What a node keeps of the channel: its log, its cache and its rows. *)
Keeps == [log : Seq(Entries), reactions : SUBSET (Ids \X Nodes), rows : Seq(Entries)]

(* One entry keeps the type of the cache. *)
LEMMA ReactTyped ==
  ASSUME NEW cache \in SUBSET (Ids \X Nodes), NEW e \in Entries
  PROVE  React(cache, e) \in SUBSET (Ids \X Nodes)
<1>1. e.kind = "add" => <<e.of, e.author>> \in Ids \X Nodes
  BY DEF Entries
<1>2. QED BY <1>1, Zenon DEF React

(* One entry of a history answer keeps log and cache typed. *)
LEMMA IntegrateTyped ==
  ASSUME NEW s \in Keeps, NEW e \in Entries
  PROVE  Integrate(s, e) \in Keeps
<1>1. React(s.reactions, e) \in SUBSET (Ids \X Nodes)
  BY ReactTyped DEF Keeps
<1>2. Append(s.log, e) \in Seq(Entries) /\ Append(s.rows, e) \in Seq(Entries)
  BY DEF Keeps
<1>3. QED BY <1>1, <1>2, Zenon DEF Integrate, Keeps

(* The loop of handle_channel_history_received over the entries it gets. *)
After(s, entries) ==
  CHOOSE after : after = [k \in 0 .. Len(entries) |->
                            IF k = 0 THEN s ELSE Integrate(after[k - 1], entries[k])]

(* The loop over a history answer, round by round. *)
LEMMA AfterRuns ==
  ASSUME NEW s \in Keeps, NEW entries \in Seq(Entries)
  PROVE  LET N == Len(entries)
             after == After(s, entries)
         IN  /\ Integrated(s, entries) = after[N]
             /\ after[0] = s
             /\ \A k \in 1 .. N : after[k] = Integrate(after[k - 1], entries[k])
<1> DEFINE N == Len(entries)
           Step(k, x) == IF k \in 1 .. N THEN Integrate(x, entries[k]) ELSE x
           G == [k \in Nat |-> [x \in Keeps |-> Step(k, x)]]
           after == After(s, entries)
<1>1. N \in Nat
  OBVIOUS
<1>2. ASSUME NEW k \in Nat, NEW x \in Keeps PROVE Step(k, x) \in Keeps
  <2>1. CASE k \in 1 .. N
    <3>1. entries[k] \in Entries
      BY <2>1
    <3>2. QED BY <2>1, <3>1, IntegrateTyped, Zenon
  <2>2. QED BY <2>1, Zenon
<1> HIDE DEF N, Step, after
<1>3. G \in [Nat -> [Keeps -> Keeps]]
  BY <1>2
<1>4. PICK f \in [0 .. N -> Keeps] : f[0] = s /\ \A k \in 1 .. N : f[k] = G[k][f[k - 1]]
  <2> HIDE DEF G
  <2>1. Loops(N, Keeps, s, G)
    BY <1>1, <1>3, LoopExists, Zenon
  <2>2. QED BY <2>1, Zenon DEF Loops
<1>5. ASSUME NEW k \in 1 .. N
      PROVE  f[k] = Integrate(f[k - 1], entries[k])
  <2>1. k \in Nat /\ f[k - 1] \in Keeps
    BY <1>1
  <2>2. f[k] = Step(k, f[k - 1])
    BY <1>4, <2>1, Zenon
  <2>3. QED BY <2>2, Zenon DEF Step
<1>6. f = [k \in 0 .. N |-> IF k = 0 THEN s ELSE Integrate(f[k - 1], entries[k])]
  BY <1>1, <1>4, <1>5
<1>7. after = [k \in 0 .. N |-> IF k = 0 THEN s ELSE Integrate(after[k - 1], entries[k])]
  BY <1>6, Zenon DEF After, N, after
<1>8. Integrated(s, entries) = after[N]
  BY DEF Integrated, After, N, after
<1>9. after[0] = s /\ \A k \in 1 .. N : after[k] = Integrate(after[k - 1], entries[k])
  <2>1. 0 \in 0 .. N /\ \A k \in 1 .. N : k \in 0 .. N /\ k # 0
    BY <1>1
  <2>2. QED BY <1>7, <2>1, Zenon
<1>10. QED BY <1>8, <1>9 DEF N, after

(* r is s and some of the entries: the log of s is the beginning of the one of
   r, what is new in the log and in the rows is from the entries, and the cache
   follows the log. *)
Extends(s, entries, r) ==
  /\ r \in Keeps
  /\ r.reactions = ReactionsOf(r.log)
  /\ \A i \in DOMAIN s.log : i \in DOMAIN r.log /\ r.log[i] = s.log[i]
  /\ \A i \in DOMAIN r.log :
       (\E j \in DOMAIN s.log : r.log[i] = s.log[j]) \/ \E j \in DOMAIN entries : r.log[i] = entries[j]
  /\ \A i \in DOMAIN r.rows :
       (\E j \in DOMAIN s.rows : r.rows[i] = s.rows[j]) \/ \E j \in DOMAIN entries : r.rows[i] = entries[j]

(* One entry of a history answer extends the log or leaves it. *)
LEMMA IntegrateExtends ==
  ASSUME NEW s \in Keeps, NEW entries \in Seq(Entries), NEW r, Extends(s, entries, r),
         NEW k \in DOMAIN entries
  PROVE  Extends(s, entries, Integrate(r, entries[k]))
<1> DEFINE e == entries[k]
           q == Integrate(r, e)
<1>1. r \in Keeps /\ e \in Entries
  BY DEF Extends
<1> HIDE DEF e
<1>2. CASE Has(r.log, e.id)
  BY <1>2, Zenon DEF Integrate, e
<1>3. CASE ~Has(r.log, e.id)
  <2>1. q \in Keeps
    BY <1>1, IntegrateTyped
  <2>2. /\ q.log = Append(r.log, e)
        /\ q.reactions = React(r.reactions, e)
        /\ q.rows = Append(r.rows, e)
    BY <1>3 DEF Integrate
  <2>3. r.log \in Seq(Entries) /\ r.rows \in Seq(Entries)
    BY <1>1 DEF Keeps
  <2> HIDE DEF q
  <2>4. q.reactions = ReactionsOf(q.log)
    BY <1>1, <2>2, <2>3, ReactAppended, Zenon DEF Extends
  <2>5. /\ \A i \in DOMAIN r.log : i \in DOMAIN q.log /\ q.log[i] = r.log[i]
        /\ \A i \in DOMAIN q.log : i \in DOMAIN r.log \/ q.log[i] = e
        /\ \A i \in DOMAIN q.rows : (i \in DOMAIN r.rows /\ q.rows[i] = r.rows[i]) \/ q.rows[i] = e
    BY <1>1, <2>2, <2>3
  <2>6. \A i \in DOMAIN s.log : i \in DOMAIN q.log /\ q.log[i] = s.log[i]
    BY <2>5, Zenon DEF Extends
  <2>7. ASSUME NEW i \in DOMAIN q.log
        PROVE  (\E j \in DOMAIN s.log : q.log[i] = s.log[j]) \/ \E j \in DOMAIN entries : q.log[i] = entries[j]
    <3>1. CASE q.log[i] = e
      BY <3>1, Zenon DEF e
    <3>2. CASE i \in DOMAIN r.log /\ q.log[i] = r.log[i]
      BY <3>2, Zenon DEF Extends
    <3>3. QED BY <2>5, <3>1, <3>2, Zenon
  <2>8. ASSUME NEW i \in DOMAIN q.rows
        PROVE  (\E j \in DOMAIN s.rows : q.rows[i] = s.rows[j]) \/ \E j \in DOMAIN entries : q.rows[i] = entries[j]
    <3>1. CASE q.rows[i] = e
      BY <3>1, Zenon DEF e
    <3>2. CASE i \in DOMAIN r.rows /\ q.rows[i] = r.rows[i]
      BY <3>2, Zenon DEF Extends
    <3>3. QED BY <2>5, <3>1, <3>2, Zenon
  <2>9. Extends(s, entries, q)
    BY <2>1, <2>4, <2>6, <2>7, <2>8, Zenon DEF Extends
  <2>10. QED BY <2>9 DEF q, e
<1>4. QED BY <1>2, <1>3

(* A history answer adds to the log and to the rows entries of the answer, takes
   nothing away, and keeps the cache in step (channel_handler.rs:592-632). *)
LEMMA IntegratedExtends ==
  ASSUME NEW s \in Keeps, NEW entries \in Seq(Entries), s.reactions = ReactionsOf(s.log)
  PROVE  Extends(s, entries, Integrated(s, entries))
<1> DEFINE N == Len(entries)
           after == After(s, entries)
           P == {k \in Nat : k <= N => Extends(s, entries, after[k])}
<1>1. /\ Integrated(s, entries) = after[N]
      /\ after[0] = s
      /\ \A k \in 1 .. N : after[k] = Integrate(after[k - 1], entries[k])
  BY AfterRuns
<1> HIDE DEF after
<1>2. N \in Nat /\ N <= N /\ DOMAIN entries = 1 .. N
  OBVIOUS
<1> HIDE DEF N
<1>3. 0 \in P
  <2>1. Extends(s, entries, s)
    BY Zenon DEF Extends
  <2>2. QED BY <1>1, <2>1
<1>4. ASSUME NEW k \in P PROVE k + 1 \in P
  <2>1. SUFFICES ASSUME k + 1 <= N PROVE Extends(s, entries, after[k + 1])
    OBVIOUS
  <2>2. k \in Nat /\ k + 1 \in 1 .. N /\ (k + 1) - 1 = k /\ k <= N
    BY <1>2, <2>1
  <2>3. Extends(s, entries, after[k])
    BY <2>2
  <2>4. after[k + 1] = Integrate(after[k], entries[k + 1])
    BY <1>1, <2>2
  <2>5. QED BY <1>2, <2>2, <2>3, <2>4, IntegrateExtends, Zenon
<1>5. P \subseteq Nat
  OBVIOUS
<1> HIDE DEF P
<1>6. N \in P
  BY <1>2, <1>3, <1>4, <1>5, Induction
<1>7. QED BY <1>1, <1>2, <1>6, Zenon DEF P

-----------------------------------------------------------------------------
(* who names the author of each entry made so far.  Nothing records it in the
   program; that there is one such assignment, the same for every node, is what
   the check of the author in an edit or deletion rests on. *)

(* Entries as their author made them: what rows and events carry. *)
Originals(who) ==
  {e \in Entries : /\ e.rev = 0 /\ e.deleted = FALSE
                   /\ e.id \in DOMAIN who /\ e.author = who[e.id]}

(* Entries that only their author changed, by the changes c. *)
Logged(who, c) ==
  {e \in Entries : /\ e.id \in DOMAIN who /\ e.author = who[e.id]
                   /\ e.rev > 0 => <<e.id, e.rev, e.author>> \in c
                   /\ e.deleted = TRUE => <<e.id, 0, e.author>> \in c}

(* Events that say what was made or changed. *)
Justified(who, c) ==
  [type : {"NewMessage"}, entry : Originals(who)]
    \cup {v \in [type : {"EditMessage"}, id : Ids, author : Nodes, rev : 1 .. MaxChanges] :
            <<v.id, v.rev, v.author>> \in c}
    \cup {v \in [type : {"DeleteMessage"}, id : Ids, author : Nodes] :
            <<v.id, 0, v.author>> \in c}

Pending(who, c) == [row : Originals(who) \cup {None}, event : Justified(who, c)]

(* Wherever entries and events are, they are such. *)
Authored(who) ==
  /\ who \in Seq(Nodes) /\ Len(who) = made
  /\ log \in [Nodes -> Seq(Logged(who, changed))]
  /\ rows \in [Nodes -> Seq(Originals(who))]
  /\ tails \in [Nodes -> SUBSET Pending(who, changed)]
  /\ inbox \in [Nodes -> Seq(Justified(who, changed))]
  /\ answer \in [Nodes -> Seq(Originals(who)) \cup {None}]

Counted ==
  /\ reactions \in [Nodes -> SUBSET (Ids \X Nodes)]
  /\ made \in 0 .. MaxEntries
  /\ edits \in 0 .. MaxChanges
  /\ changed \in SUBSET (Ids \X (0 .. MaxChanges) \X Nodes)
  /\ fetches \in 0 .. MaxFetches
  /\ faults \in 0 .. MaxFaults

MessagesInv == Counted /\ ReactionsMatchLog /\ \E who : Authored(who)

(* Sequences over a set are sequences over a larger set. *)
LEMMA SeqWider ==
  ASSUME NEW S, NEW T, S \subseteq T
  PROVE  Seq(S) \subseteq Seq(T)
  OBVIOUS

(* An entry as it was written may be in a log. *)
LEMMA OriginalsLogged ==
  ASSUME NEW who, NEW c
  PROVE  Originals(who) \subseteq Logged(who, c) /\ Logged(who, c) \subseteq Entries
  BY DEF Originals, Logged

(* More entries, w, and more changes, d, leave what was so. *)
LEMMA Wider ==
  ASSUME NEW who, NEW w, DOMAIN who \subseteq DOMAIN w, \A i \in DOMAIN who : w[i] = who[i],
         NEW c, NEW d, c \subseteq d
  PROVE  /\ Originals(who) \subseteq Originals(w)
         /\ Logged(who, c) \subseteq Logged(w, d)
         /\ Justified(who, c) \subseteq Justified(w, d)
         /\ Pending(who, c) \subseteq Pending(w, d)
<1>1. Originals(who) \subseteq Originals(w)
  BY DEF Originals
<1>2. Logged(who, c) \subseteq Logged(w, d)
  BY DEF Logged
<1>3. Justified(who, c) \subseteq Justified(w, d)
  <2>1. [type : {"NewMessage"}, entry : Originals(who)] \subseteq [type : {"NewMessage"}, entry : Originals(w)]
    BY <1>1
  <2>2. QED BY <2>1, Zenon DEF Justified
<1>4. Pending(who, c) \subseteq Pending(w, d)
  BY <1>1, <1>3 DEF Pending
<1>5. QED BY <1>1, <1>2, <1>3, <1>4

(* An edit of which the author of the message is the maker, and a tombstone
   likewise, leave entries that only their authors changed. *)
LEMMA EditedLogged ==
  ASSUME NEW who, NEW c, NEW l \in Seq(Logged(who, c)),
         NEW id, NEW rev \in 0 .. MaxChanges, NEW a, <<id, rev, a>> \in c,
         \E i \in DOMAIN l : l[i].id = id /\ l[i].author = a
  PROVE  Edited(l, id, rev) \in Seq(Logged(who, c))
<1>1. Len(l) \in Nat /\ DOMAIN l = 1 .. Len(l)
  OBVIOUS
<1>2. ASSUME NEW i \in DOMAIN l, l[i].id = id
      PROVE  [l[i] EXCEPT !.rev = rev] \in Logged(who, c)
  <2>1. l[i] \in Logged(who, c)
    OBVIOUS
  <2>2. PICK j \in DOMAIN l : l[j].id = id /\ l[j].author = a
    OBVIOUS
  <2>3. l[j] \in Logged(who, c)
    OBVIOUS
  <2>4. l[i].author = a
    BY <1>2, <2>1, <2>2, <2>3 DEF Logged
  <2>5. [l[i] EXCEPT !.rev = rev] \in Entries
    BY <2>1, Zenon DEF Logged, Entries
  <2>6. QED BY <1>2, <2>1, <2>4, <2>5 DEF Logged, Entries
<1>3. \A i \in DOMAIN l : l[i] \in Logged(who, c)
  OBVIOUS
<1>4. Edited(l, id, rev) \in [1 .. Len(l) -> Logged(who, c)]
  BY <1>1, <1>2, <1>3, Zenon DEF Edited
<1>5. QED BY <1>1, <1>4

(* A deletion by the author leaves entries that may be in a log. *)
LEMMA TombstonedLogged ==
  ASSUME NEW who, NEW c, NEW l \in Seq(Logged(who, c)),
         NEW id, NEW a, <<id, 0, a>> \in c,
         \E i \in DOMAIN l : l[i].id = id /\ l[i].author = a
  PROVE  Tombstoned(l, id) \in Seq(Logged(who, c))
<1>1. Len(l) \in Nat /\ DOMAIN l = 1 .. Len(l)
  OBVIOUS
<1>2. ASSUME NEW i \in DOMAIN l, l[i].id = id
      PROVE  [l[i] EXCEPT !.deleted = TRUE] \in Logged(who, c)
  <2>1. l[i] \in Logged(who, c)
    OBVIOUS
  <2>2. PICK j \in DOMAIN l : l[j].id = id /\ l[j].author = a
    OBVIOUS
  <2>3. l[j] \in Logged(who, c)
    OBVIOUS
  <2>4. l[i].author = a
    BY <1>2, <2>1, <2>2, <2>3 DEF Logged
  <2>5. [l[i] EXCEPT !.deleted = TRUE] \in Entries
    BY <2>1, Zenon DEF Logged, Entries
  <2>6. QED BY <1>2, <2>1, <2>4, <2>5, Zenon DEF Logged, Entries
<1>3. \A i \in DOMAIN l : l[i] \in Logged(who, c)
  OBVIOUS
<1>4. Tombstoned(l, id) \in [1 .. Len(l) -> Logged(who, c)]
  BY <1>1, <1>2, <1>3, Zenon DEF Tombstoned
<1>5. QED BY <1>1, <1>4

(* What the log l2 keeps of the log l. *)
Kept(l, l2) ==
  \A i \in DOMAIN l :
    /\ i \in DOMAIN l2 /\ l2[i].id = l[i].id
    /\ l[i].deleted => l2[i].deleted

(* They change no reaction, and forget no message and no deletion. *)
LEMMA EditedSame ==
  ASSUME NEW l \in Seq(Entries), NEW id, NEW rev
  PROVE  ReactionsOf(Edited(l, id, rev)) = ReactionsOf(l) /\ Kept(l, Edited(l, id, rev))
<1> DEFINE l2 == Edited(l, id, rev)
<1>1. DOMAIN l2 = DOMAIN l
  BY DEF Edited
<1>2. ASSUME NEW i \in DOMAIN l
      PROVE  /\ l2[i].id = l[i].id /\ l2[i].kind = l[i].kind /\ l2[i].of = l[i].of
             /\ l2[i].author = l[i].author /\ l2[i].deleted = l[i].deleted
  <2>1. l[i] \in Entries
    OBVIOUS
  <2>2. QED BY <2>1 DEF Edited, Entries
<1> HIDE DEF l2
<1>3. ReactionsOf(l2) = ReactionsOf(l)
  BY <1>1, <1>2, ReactionsSame
<1>4. Kept(l, l2)
  BY <1>1, <1>2, Zenon DEF Kept
<1>5. QED BY <1>3, <1>4 DEF l2

(* A deletion changes no reaction and keeps the entries in place. *)
LEMMA TombstonedSame ==
  ASSUME NEW l \in Seq(Entries), NEW id
  PROVE  ReactionsOf(Tombstoned(l, id)) = ReactionsOf(l) /\ Kept(l, Tombstoned(l, id))
<1> DEFINE l2 == Tombstoned(l, id)
<1>1. DOMAIN l2 = DOMAIN l
  BY DEF Tombstoned
<1>2. ASSUME NEW i \in DOMAIN l
      PROVE  /\ l2[i].id = l[i].id /\ l2[i].kind = l[i].kind /\ l2[i].of = l[i].of
             /\ l2[i].author = l[i].author /\ (l[i].deleted => l2[i].deleted)
  <2>1. l[i] \in Entries
    OBVIOUS
  <2>2. QED BY <2>1 DEF Tombstoned, Entries
<1> HIDE DEF l2
<1>3. ReactionsOf(l2) = ReactionsOf(l)
  BY <1>1, <1>2, ReactionsSame
<1>4. Kept(l, l2)
  BY <1>1, <1>2, Zenon DEF Kept
<1>5. QED BY <1>3, <1>4 DEF l2

(* An append keeps the entries in place. *)
LEMMA AppendedKept ==
  ASSUME NEW l \in Seq(Entries), NEW e \in Entries
  PROVE  Kept(l, Append(l, e))
  BY DEF Kept

-----------------------------------------------------------------------------
(* What every action starts from: the sets are typed, and the log of each node
   is a sequence of entries. *)
LEMMA LogTyped ==
  ASSUME NEW who, Authored(who), NEW n \in Nodes
  PROVE  /\ log[n] \in Seq(Logged(who, changed)) /\ log[n] \in Seq(Entries)
         /\ rows[n] \in Seq(Originals(who)) /\ rows[n] \in Seq(Entries)
<1>1. log[n] \in Seq(Logged(who, changed)) /\ rows[n] \in Seq(Originals(who))
  BY DEF Authored
<1>2. Seq(Logged(who, changed)) \subseteq Seq(Entries) /\ Seq(Originals(who)) \subseteq Seq(Entries)
  <2>1. Logged(who, changed) \subseteq Entries /\ Originals(who) \subseteq Entries
    BY OriginalsLogged, Zenon
  <2>2. QED BY <2>1, SeqWider, Zenon
<1>3. QED BY <1>1, <1>2

(* message_send, reaction_add and reaction_remove *)
LEMMA NewEntryStep ==
  ASSUME Counted, ReactionsMatchLog, NEW who, Authored(who),
         NEW n \in Nodes, NEW kind \in Kinds, NEW of \in Ids \cup {0}, kind = "text" <=> of = 0,
         NewEntry(n, kind, of)
  PROVE  /\ Counted' /\ ReactionsMatchLog' /\ \E w : Authored(w)'
         /\ \A m \in Nodes : Kept(log[m], log'[m])
<1>1. PICK e : e = [id |-> made + 1, author |-> n, kind |-> kind, of |-> of,
                    rev |-> 0, deleted |-> FALSE]
  BY Zenon
<1>2. PICK w : w = Append(who, n)
  BY Zenon
<1>3. /\ made < MaxEntries /\ made' = made + 1
      /\ log' = [log EXCEPT ![n] = Append(log[n], e)]
      /\ reactions' = [reactions EXCEPT ![n] = React(reactions[n], e)]
      /\ tails' = [tails EXCEPT ![n] =
                     tails[n] \cup {[row |-> e, event |-> [type |-> "NewMessage", entry |-> e]]}]
      /\ UNCHANGED <<rows, inbox, answer, edits, changed, fetches, faults>>
  BY <1>1 DEF NewEntry, Append1
<1>4. made \in Nat /\ made + 1 \in Ids /\ 0 \in 0 .. MaxChanges
  BY <1>3, ConstantsAssumption DEF Counted, Ids
<1>5. e \in Entries
  BY <1>1, <1>4 DEF Entries
<1>6. /\ w \in Seq(Nodes) /\ Len(w) = made + 1
      /\ DOMAIN who \subseteq DOMAIN w /\ \A i \in DOMAIN who : w[i] = who[i]
      /\ made + 1 \in DOMAIN w /\ w[made + 1] = n
  BY <1>2, <1>4 DEF Authored
<1>7. e \in Originals(w)
  BY <1>1, <1>5, <1>6 DEF Originals
<1>8. PICK c : c = changed
  OBVIOUS
<1>9. /\ Originals(who) \subseteq Originals(w)
      /\ Logged(who, c) \subseteq Logged(w, c)
      /\ Justified(who, c) \subseteq Justified(w, c)
      /\ Pending(who, c) \subseteq Pending(w, c)
  BY <1>6, Wider
<1>10. PICK t : t = [row |-> e, event |-> [type |-> "NewMessage", entry |-> e]]
  BY Zenon
<1>11. t \in Pending(w, c)
  BY <1>7, <1>10 DEF Pending, Justified
<1>12. Authored(w)'
  <2>1. log' \in [Nodes -> Seq(Logged(w, c))]
    <3>1. Seq(Logged(who, c)) \subseteq Seq(Logged(w, c))
      BY <1>9, SeqWider, Zenon
    <3>2. e \in Logged(w, c)
      BY <1>7, OriginalsLogged
    <3>3. log[n] \in Seq(Logged(w, c))
      BY <1>8, <3>1, LogTyped
    <3>4. Append(log[n], e) \in Seq(Logged(w, c))
      BY <3>2, <3>3
    <3>5. QED BY <1>3, <1>8, <3>1, <3>4, Zenon DEF Authored
  <2>2. rows' \in [Nodes -> Seq(Originals(w))]
    <3>1. Seq(Originals(who)) \subseteq Seq(Originals(w))
      BY <1>9, SeqWider, Zenon
    <3>2. QED BY <1>3, <3>1, Zenon DEF Authored
  <2>3. tails' \in [Nodes -> SUBSET Pending(w, c)]
    <3>1. tails' = [tails EXCEPT ![n] = tails[n] \cup {t}]
      BY <1>3, <1>10
    <3>2. QED BY <1>8, <1>9, <1>11, <3>1, Zenon DEF Authored
  <2>4. inbox' \in [Nodes -> Seq(Justified(w, c))]
    <3>1. Seq(Justified(who, c)) \subseteq Seq(Justified(w, c))
      BY <1>9, SeqWider, Zenon
    <3>2. QED BY <1>3, <1>8, <3>1, Zenon DEF Authored
  <2>5. answer' \in [Nodes -> Seq(Originals(w)) \cup {None}]
    <3>1. Seq(Originals(who)) \subseteq Seq(Originals(w))
      BY <1>9, SeqWider, Zenon
    <3>2. QED BY <1>3, <3>1, Zenon DEF Authored
  <2>6. changed' = c /\ Len(w) = made'
    BY <1>3, <1>6, <1>8
  <2>7. QED BY <1>6, <2>1, <2>2, <2>3, <2>4, <2>5, <2>6, Zenon DEF Authored
<1>13. Counted'
  <2>1. React(reactions[n], e) \in SUBSET (Ids \X Nodes)
    BY <1>5, ReactTyped DEF Counted
  <2>2. reactions' \in [Nodes -> SUBSET (Ids \X Nodes)]
    BY <1>3, <2>1, Zenon DEF Counted
  <2>3. made' \in 0 .. MaxEntries
    BY <1>3, <1>4 DEF Ids
  <2>4. QED BY <1>3, <2>2, <2>3 DEF Counted
<1>14. ReactionsMatchLog' /\ \A m \in Nodes : Kept(log[m], log'[m])
  <2>1. ASSUME NEW m \in Nodes
        PROVE  reactions'[m] = ReactionsOf(log'[m]) /\ Kept(log[m], log'[m])
    <3>1. log[m] \in Seq(Entries)
      BY LogTyped
    <3>2. CASE m = n
      <4>1. log'[m] = Append(log[m], e) /\ reactions'[m] = React(reactions[m], e)
        BY <1>3, <3>2 DEF Authored, Counted
      <4>2. reactions[m] = ReactionsOf(log[m])
        BY DEF ReactionsMatchLog
      <4>3. QED BY <1>5, <3>1, <4>1, <4>2, ReactAppended, AppendedKept, Zenon
    <3>3. CASE m # n
      <4>1. log'[m] = log[m] /\ reactions'[m] = reactions[m]
        BY <1>3, <3>3 DEF Authored, Counted
      <4>2. QED BY <4>1, Zenon DEF ReactionsMatchLog, Kept
    <3>4. QED BY <3>2, <3>3
  <2>2. QED BY <2>1, Zenon DEF ReactionsMatchLog
<1>15. QED BY <1>12, <1>13, <1>14, Zenon

(* Only the log of n changes: its cache has to fit, and the rest follows. *)
LEMMA OneLog ==
  ASSUME ReactionsMatchLog, NEW n \in Nodes, NEW l, NEW r,
         log' = [log EXCEPT ![n] = l], DOMAIN log = Nodes,
         reactions' = [reactions EXCEPT ![n] = r], DOMAIN reactions = Nodes,
         r = ReactionsOf(l)
  PROVE  /\ ReactionsMatchLog'
         /\ Kept(log[n], l) => \A m \in Nodes : Kept(log[m], log'[m])
<1>1. log'[n] = l /\ \A m \in Nodes \ {n} : log'[m] = log[m]
  OBVIOUS
<1>2. reactions'[n] = r /\ \A m \in Nodes \ {n} : reactions'[m] = reactions[m]
  OBVIOUS
<1>3. \A m \in Nodes \ {n} : reactions'[m] = ReactionsOf(log'[m]) /\ Kept(log[m], log'[m])
  BY <1>1, <1>2, Zenon DEF ReactionsMatchLog, Kept
<1>4. reactions'[n] = ReactionsOf(log'[n])
  BY <1>1, <1>2, Zenon
<1>5. \A m \in Nodes : m = n \/ m \in Nodes \ {n}
  OBVIOUS
<1>6. QED BY <1>1, <1>3, <1>4, <1>5, Zenon DEF ReactionsMatchLog

(* No log changes. *)
LEMMA NoLog ==
  ASSUME ReactionsMatchLog, UNCHANGED <<log, reactions>>
  PROVE  ReactionsMatchLog' /\ \A m \in Nodes : Kept(log[m], log'[m])
  BY Zenon DEF ReactionsMatchLog, Kept

(* message_edit and message_delete: a change x made by n, the author, an event v
   that tells of it, and the log l that has it. *)
LEMMA ChangeStep ==
  ASSUME Counted, ReactionsMatchLog, NEW who, Authored(who), NEW n \in Nodes,
         NEW x \in Ids \X (0 .. MaxChanges) \X Nodes, NEW v, NEW l,
         NEW c, c = changed \cup {x},
         l \in Seq(Logged(who, c)), ReactionsOf(l) = ReactionsOf(log[n]), Kept(log[n], l),
         v \in Justified(who, c),
         edits < MaxChanges, edits' = edits + 1,
         changed' = c,
         log' = [log EXCEPT ![n] = l],
         tails' = [tails EXCEPT ![n] = tails[n] \cup {[row |-> None, event |-> v]}],
         UNCHANGED <<reactions, rows, inbox, answer, made, fetches, faults>>
  PROVE  /\ Counted' /\ ReactionsMatchLog' /\ \E w : Authored(w)'
         /\ \A m \in Nodes : Kept(log[m], log'[m])
<1>1. /\ Logged(who, changed) \subseteq Logged(who, c)
      /\ Justified(who, changed) \subseteq Justified(who, c)
      /\ Pending(who, changed) \subseteq Pending(who, c)
  <2>1. changed \subseteq c
    OBVIOUS
  <2>2. QED BY <2>1, Wider, Zenon
<1>2. Authored(who)'
  <2>1. log' \in [Nodes -> Seq(Logged(who, c))]
    <3>1. Seq(Logged(who, changed)) \subseteq Seq(Logged(who, c))
      BY <1>1, SeqWider, Zenon
    <3>2. QED BY <3>1, Zenon DEF Authored
  <2>2. tails' \in [Nodes -> SUBSET Pending(who, c)]
    <3>1. [row |-> None, event |-> v] \in Pending(who, c)
      BY DEF Pending
    <3>2. QED BY <1>1, <3>1, Zenon DEF Authored
  <2>3. inbox' \in [Nodes -> Seq(Justified(who, c))]
    <3>1. Seq(Justified(who, changed)) \subseteq Seq(Justified(who, c))
      BY <1>1, SeqWider, Zenon
    <3>2. QED BY <3>1, Zenon DEF Authored
  <2>4. QED BY <2>1, <2>2, <2>3, Zenon DEF Authored
<1>3. Counted'
  <2>1. edits' \in 0 .. MaxChanges
    BY ConstantsAssumption DEF Counted
  <2>2. changed' \in SUBSET (Ids \X (0 .. MaxChanges) \X Nodes)
    BY Zenon DEF Counted
  <2>3. QED BY <2>1, <2>2, Zenon DEF Counted
<1>4. ReactionsMatchLog' /\ \A m \in Nodes : Kept(log[m], log'[m])
  <2>1. reactions[n] = ReactionsOf(l)
    BY DEF ReactionsMatchLog
  <2>2. DOMAIN log = Nodes /\ DOMAIN reactions = Nodes
    BY DEF Authored, Counted
  <2>3. reactions' = [reactions EXCEPT ![n] = reactions[n]]
    BY <2>2 DEF Counted
  <2>4. QED BY <2>1, <2>2, <2>3, OneLog, Zenon
<1>5. QED BY <1>2, <1>3, <1>4, Zenon

(* message_edit. *)
LEMMA EditStep ==
  ASSUME Counted, ReactionsMatchLog, NEW who, Authored(who),
         NEW n \in Nodes, NEW id \in Ids, MessageEdit(n, id)
  PROVE  /\ Counted' /\ ReactionsMatchLog' /\ \E w : Authored(w)'
         /\ \A m \in Nodes : Kept(log[m], log'[m])
<1>1. PICK rev : rev = edits + 1
  BY Zenon
<1>2. PICK v : v = [type |-> "EditMessage", id |-> id, author |-> n, rev |-> rev]
  BY Zenon
<1>3. PICK l : l = Edited(log[n], id, rev)
  BY Zenon
<1>4. PICK c : c = changed \cup {<<id, rev, n>>}
  BY Zenon
<1>5. /\ IsAuthor(n, id, n)
      /\ edits < MaxChanges /\ edits' = edits + 1
      /\ changed' = c
      /\ log' = [log EXCEPT ![n] = l]
      /\ tails' = [tails EXCEPT ![n] = tails[n] \cup {[row |-> None, event |-> v]}]
      /\ UNCHANGED <<reactions, rows, inbox, answer, made, fetches, faults>>
  BY <1>1, <1>2, <1>3, <1>4 DEF MessageEdit
<1>6. rev \in 1 .. MaxChanges /\ rev \in 0 .. MaxChanges
  BY <1>1, <1>5, ConstantsAssumption DEF Counted
<1>7. v \in Justified(who, c)
  BY <1>2, <1>4, <1>6 DEF Justified
<1>8. l \in Seq(Logged(who, c))
  <2>1. Logged(who, changed) \subseteq Logged(who, c)
    BY <1>4, Wider
  <2>2. log[n] \in Seq(Logged(who, c))
    BY <2>1, LogTyped, SeqWider
  <2>3. <<id, rev, n>> \in c
    BY <1>4
  <2>4. \E i \in DOMAIN log[n] : log[n][i].id = id /\ log[n][i].author = n
    BY <1>5, Zenon DEF IsAuthor
  <2>5. QED BY <1>3, <1>6, <2>2, <2>3, <2>4, EditedLogged, Zenon
<1>9. ReactionsOf(l) = ReactionsOf(log[n]) /\ Kept(log[n], l)
  BY <1>3, LogTyped, EditedSame, Zenon
<1>10. <<id, rev, n>> \in Ids \X (0 .. MaxChanges) \X Nodes
  BY <1>6
<1>11. QED BY <1>4, <1>5, <1>7, <1>8, <1>9, <1>10, ChangeStep, Zenon

(* message_delete. *)
LEMMA DeleteStep ==
  ASSUME Counted, ReactionsMatchLog, NEW who, Authored(who),
         NEW n \in Nodes, NEW id \in Ids, MessageDelete(n, id)
  PROVE  /\ Counted' /\ ReactionsMatchLog' /\ \E w : Authored(w)'
         /\ \A m \in Nodes : Kept(log[m], log'[m])
<1>1. PICK v : v = [type |-> "DeleteMessage", id |-> id, author |-> n]
  BY Zenon
<1>2. PICK l : l = Tombstoned(log[n], id)
  BY Zenon
<1>3. PICK c : c = changed \cup {<<id, 0, n>>}
  BY Zenon
<1>4. /\ IsAuthor(n, id, n)
      /\ edits < MaxChanges /\ edits' = edits + 1
      /\ changed' = c
      /\ log' = [log EXCEPT ![n] = l]
      /\ tails' = [tails EXCEPT ![n] = tails[n] \cup {[row |-> None, event |-> v]}]
      /\ UNCHANGED <<reactions, rows, inbox, answer, made, fetches, faults>>
  BY <1>1, <1>2, <1>3 DEF MessageDelete
<1>5. v \in Justified(who, c)
  BY <1>1, <1>3 DEF Justified
<1>6. l \in Seq(Logged(who, c))
  <2>1. Logged(who, changed) \subseteq Logged(who, c)
    BY <1>3, Wider
  <2>2. log[n] \in Seq(Logged(who, c))
    BY <2>1, LogTyped, SeqWider
  <2>3. <<id, 0, n>> \in c
    BY <1>3
  <2>4. \E i \in DOMAIN log[n] : log[n][i].id = id /\ log[n][i].author = n
    BY <1>4, Zenon DEF IsAuthor
  <2>5. QED BY <1>2, <2>2, <2>3, <2>4, TombstonedLogged, Zenon
<1>7. ReactionsOf(l) = ReactionsOf(log[n]) /\ Kept(log[n], l)
  BY <1>2, LogTyped, TombstonedSame, Zenon
<1>8. <<id, 0, n>> \in Ids \X (0 .. MaxChanges) \X Nodes
  BY ConstantsAssumption
<1>9. QED BY <1>3, <1>4, <1>5, <1>6, <1>7, <1>8, ChangeStep, Zenon

(* The rest of a call *)
LEMMA FinishStep ==
  ASSUME Counted, ReactionsMatchLog, NEW who, Authored(who),
         NEW n \in Nodes, NEW t \in tails[n], FinishCall(n, t)
  PROVE  /\ Counted' /\ ReactionsMatchLog' /\ \E w : Authored(w)'
         /\ \A m \in Nodes : Kept(log[m], log'[m])
<1>1. t \in Pending(who, changed)
  BY DEF Authored
<1>2. /\ t.event \in Justified(who, changed)
      /\ t.row # None => t.row \in Originals(who)
  BY <1>1 DEF Pending
<1>3. /\ tails' = [tails EXCEPT ![n] = tails[n] \ {t}]
      /\ rows' = IF t.row = None THEN rows ELSE [rows EXCEPT ![n] = Append(rows[n], t.row)]
      /\ inbox' = [o \in Nodes |-> IF o = n THEN inbox[o] ELSE Append(inbox[o], t.event)]
      /\ UNCHANGED <<log, reactions, answer, counts, fetches, faults>>
  BY DEF FinishCall
<1>4. rows' \in [Nodes -> Seq(Originals(who))]
  <2>1. CASE t.row = None
    BY <1>3, <2>1, Zenon DEF Authored
  <2>2. CASE t.row # None
    <3>1. Append(rows[n], t.row) \in Seq(Originals(who))
      BY <1>2, <2>2, LogTyped
    <3>2. QED BY <1>3, <2>2, <3>1, Zenon DEF Authored
  <2>3. QED BY <2>1, <2>2
<1>5. inbox' \in [Nodes -> Seq(Justified(who, changed))]
  <2>1. \A o \in Nodes : inbox[o] \in Seq(Justified(who, changed))
    BY DEF Authored
  <2>2. \A o \in Nodes : Append(inbox[o], t.event) \in Seq(Justified(who, changed))
    <3>1. ASSUME NEW S, NEW q \in Seq(S), NEW v \in S PROVE Append(q, v) \in Seq(S)
      OBVIOUS
    <3>2. QED BY <1>2, <2>1, <3>1, Zenon
  <2>3. QED BY <1>3, <2>1, <2>2, Zenon
<1>6. tails' \in [Nodes -> SUBSET Pending(who, changed)]
  BY <1>3, Zenon DEF Authored
<1>7. Authored(who)'
  BY <1>3, <1>4, <1>5, <1>6, Zenon DEF Authored, counts
<1>8. Counted'
  BY <1>3 DEF Counted, counts
<1>9. QED BY <1>3, <1>7, <1>8, NoLog, Zenon

(* The event a handler takes, and what remains. *)
LEMMA Taken ==
  ASSUME NEW who, Authored(who), NEW n \in Nodes, inbox[n] # <<>>, TakeEvent(n)
  PROVE  /\ Head(inbox[n]) \in Justified(who, changed)
         /\ inbox' \in [Nodes -> Seq(Justified(who, changed))]
<1>1. inbox[n] \in Seq(Justified(who, changed))
  BY DEF Authored
<1>2. Head(inbox[n]) \in Justified(who, changed) /\ Tail(inbox[n]) \in Seq(Justified(who, changed))
  BY <1>1
<1>3. QED BY <1>2, Zenon DEF TakeEvent, Authored

(* A message or a reaction that gossip brings. *)
LEMMA NewMessageStep ==
  ASSUME Counted, ReactionsMatchLog, NEW who, Authored(who),
         NEW n \in Nodes, HandleNewMessage(n)
  PROVE  /\ Counted' /\ ReactionsMatchLog' /\ \E w : Authored(w)'
         /\ \A m \in Nodes : Kept(log[m], log'[m])
<1>1. PICK e : e = Head(inbox[n]).entry
  BY Zenon
<1>2. /\ inbox[n] # <<>> /\ Head(inbox[n]).type = "NewMessage"
      /\ TakeEvent(n)
      /\ UNCHANGED <<tails, answer, counts, fetches, faults>>
  BY DEF HandleNewMessage, NextEvent
<1>3. e \in Originals(who) /\ inbox' \in [Nodes -> Seq(Justified(who, changed))]
  <2>1. Head(inbox[n]) \in Justified(who, changed) /\ inbox' \in [Nodes -> Seq(Justified(who, changed))]
    BY <1>2, Taken
  <2>2. Head(inbox[n]) \in [type : {"NewMessage"}, entry : Originals(who)]
    BY <1>2, <2>1 DEF Justified
  <2>3. QED BY <1>1, <2>1, <2>2
<1>4. CASE UNCHANGED kept
  <2>1. Authored(who)'
    BY <1>2, <1>3, <1>4, Zenon DEF Authored, kept, counts
  <2>2. Counted'
    BY <1>2, <1>4 DEF Counted, kept, counts
  <2>3. QED BY <1>4, <2>1, <2>2, NoLog, Zenon DEF kept
<1>5. CASE Append1(n, e) /\ rows' = [rows EXCEPT ![n] = Append(rows[n], e)]
  <2>1. e \in Logged(who, changed) /\ e \in Entries
    BY <1>3, OriginalsLogged, SMTT(30)
  <2>2. log' = [log EXCEPT ![n] = Append(log[n], e)]
    BY <1>5 DEF Append1
  <2>3. reactions' = [reactions EXCEPT ![n] = React(reactions[n], e)]
    BY <1>5 DEF Append1
  <2>4. log' \in [Nodes -> Seq(Logged(who, changed))]
    <3>1. Append(log[n], e) \in Seq(Logged(who, changed))
      BY <2>1, LogTyped
    <3>2. QED BY <2>2, <3>1, Zenon DEF Authored
  <2>5. rows' \in [Nodes -> Seq(Originals(who))]
    <3>1. Append(rows[n], e) \in Seq(Originals(who))
      BY <1>3, LogTyped
    <3>2. QED BY <1>5, <3>1, Zenon DEF Authored
  <2>6. Authored(who)'
    BY <1>2, <1>3, <2>4, <2>5, Zenon DEF Authored, counts
  <2>7. React(reactions[n], e) \in SUBSET (Ids \X Nodes)
    BY <2>1, ReactTyped DEF Counted
  <2>8. Counted'
    BY <1>2, <2>3, <2>7, Zenon DEF Counted, counts
  <2>9. React(reactions[n], e) = ReactionsOf(Append(log[n], e)) /\ Kept(log[n], Append(log[n], e))
    <3>1. reactions[n] = ReactionsOf(log[n]) /\ log[n] \in Seq(Entries)
      BY LogTyped DEF ReactionsMatchLog
    <3>2. QED BY <2>1, <3>1, ReactAppended, AppendedKept, Zenon
  <2>10. DOMAIN log = Nodes /\ DOMAIN reactions = Nodes
    BY DEF Authored, Counted
  <2>11. ReactionsMatchLog' /\ \A m \in Nodes : Kept(log[m], log'[m])
    BY <2>2, <2>3, <2>9, <2>10, OneLog, Zenon
  <2>12. QED BY <2>6, <2>8, <2>11, Zenon
<1>6. QED BY <1>1, <1>4, <1>5, Zenon DEF HandleNewMessage

(* A log that changes as its authors changed it, in a handler of n. *)
LEMMA HandledStep ==
  ASSUME Counted, ReactionsMatchLog, NEW who, Authored(who), NEW n \in Nodes, NEW l,
         l \in Seq(Logged(who, changed)), ReactionsOf(l) = ReactionsOf(log[n]), Kept(log[n], l),
         log' = [log EXCEPT ![n] = l],
         inbox' \in [Nodes -> Seq(Justified(who, changed))],
         UNCHANGED <<reactions, rows, tails, answer, counts, fetches, faults>>
  PROVE  /\ Counted' /\ ReactionsMatchLog' /\ \E w : Authored(w)'
         /\ \A m \in Nodes : Kept(log[m], log'[m])
<1>1. log' \in [Nodes -> Seq(Logged(who, changed))]
  BY Zenon DEF Authored
<1>2. Authored(who)'
  BY <1>1, Zenon DEF Authored, counts
<1>3. Counted'
  BY Zenon DEF Counted, counts
<1>4. ReactionsMatchLog' /\ \A m \in Nodes : Kept(log[m], log'[m])
  <2>1. reactions[n] = ReactionsOf(l)
    BY DEF ReactionsMatchLog
  <2>2. DOMAIN log = Nodes /\ DOMAIN reactions = Nodes
    BY DEF Authored, Counted
  <2>3. reactions' = [reactions EXCEPT ![n] = reactions[n]]
    BY <2>2 DEF Counted
  <2>4. QED BY <2>1, <2>2, <2>3, OneLog, Zenon
<1>5. QED BY <1>2, <1>3, <1>4, Zenon

(* A handler that drops its event. *)
LEMMA DroppedStep ==
  ASSUME Counted, ReactionsMatchLog, NEW who, Authored(who),
         inbox' \in [Nodes -> Seq(Justified(who, changed))],
         UNCHANGED <<log, reactions, rows, tails, answer, counts, fetches>>,
         faults' \in 0 .. MaxFaults
  PROVE  /\ Counted' /\ ReactionsMatchLog' /\ \E w : Authored(w)'
         /\ \A m \in Nodes : Kept(log[m], log'[m])
<1>1. Authored(who)'
  BY Zenon DEF Authored, counts
<1>2. Counted'
  BY Zenon DEF Counted, counts
<1>3. QED BY <1>1, <1>2, NoLog, Zenon

(* An edit that gossip brings. *)
LEMMA HandleEditStep ==
  ASSUME Counted, ReactionsMatchLog, NEW who, Authored(who),
         NEW n \in Nodes, HandleEdit(n)
  PROVE  /\ Counted' /\ ReactionsMatchLog' /\ \E w : Authored(w)'
         /\ \A m \in Nodes : Kept(log[m], log'[m])
<1>1. PICK v : v = Head(inbox[n])
  BY Zenon
<1>2. /\ inbox[n] # <<>> /\ v.type = "EditMessage"
      /\ TakeEvent(n)
      /\ log' = IF IsAuthor(n, v.id, v.author)
                THEN [log EXCEPT ![n] = Edited(log[n], v.id, v.rev)] ELSE log
      /\ UNCHANGED <<reactions, rows, tails, answer, counts, fetches, faults>>
  BY <1>1 DEF HandleEdit, NextEvent
<1>3. v \in Justified(who, changed) /\ inbox' \in [Nodes -> Seq(Justified(who, changed))]
  BY <1>1, <1>2, Taken
<1>4. v.rev \in 0 .. MaxChanges /\ <<v.id, v.rev, v.author>> \in changed
  BY <1>2, <1>3, ConstantsAssumption DEF Justified
<1>5. CASE IsAuthor(n, v.id, v.author)
  <2>1. PICK l : l = Edited(log[n], v.id, v.rev)
    BY Zenon
  <2>2. \E i \in DOMAIN log[n] : log[n][i].id = v.id /\ log[n][i].author = v.author
    BY <1>5, Zenon DEF IsAuthor
  <2>3. log[n] \in Seq(Logged(who, changed)) /\ log[n] \in Seq(Entries)
    BY LogTyped, Zenon
  <2>4. l \in Seq(Logged(who, changed))
    BY <1>4, <2>1, <2>2, <2>3, EditedLogged, Zenon
  <2>5. ReactionsOf(l) = ReactionsOf(log[n]) /\ Kept(log[n], l)
    BY <2>1, <2>3, EditedSame, Zenon
  <2>6. log' = [log EXCEPT ![n] = l]
    BY <1>2, <1>5, <2>1
  <2>7. QED BY <1>2, <1>3, <2>4, <2>5, <2>6, HandledStep, Zenon
<1>6. CASE ~IsAuthor(n, v.id, v.author)
  <2>1. log' = log /\ faults' \in 0 .. MaxFaults
    BY <1>2, <1>6 DEF Counted
  <2>2. QED BY <1>2, <1>3, <2>1, DroppedStep, Zenon
<1>7. QED BY <1>5, <1>6

(* A deletion that gossip brings. *)
LEMMA HandleDeleteStep ==
  ASSUME Counted, ReactionsMatchLog, NEW who, Authored(who),
         NEW n \in Nodes, HandleDelete(n)
  PROVE  /\ Counted' /\ ReactionsMatchLog' /\ \E w : Authored(w)'
         /\ \A m \in Nodes : Kept(log[m], log'[m])
<1>1. PICK v : v = Head(inbox[n])
  BY Zenon
<1>2. /\ inbox[n] # <<>> /\ v.type = "DeleteMessage"
      /\ TakeEvent(n)
      /\ log' = IF IsAuthor(n, v.id, v.author)
                THEN [log EXCEPT ![n] = Tombstoned(log[n], v.id)] ELSE log
      /\ UNCHANGED <<reactions, rows, tails, answer, counts, fetches, faults>>
  BY <1>1 DEF HandleDelete, NextEvent
<1>3. v \in Justified(who, changed) /\ inbox' \in [Nodes -> Seq(Justified(who, changed))]
  BY <1>1, <1>2, Taken
<1>4. <<v.id, 0, v.author>> \in changed
  BY <1>2, <1>3 DEF Justified
<1>5. CASE IsAuthor(n, v.id, v.author)
  <2>1. PICK l : l = Tombstoned(log[n], v.id)
    BY Zenon
  <2>2. \E i \in DOMAIN log[n] : log[n][i].id = v.id /\ log[n][i].author = v.author
    BY <1>5, Zenon DEF IsAuthor
  <2>3. log[n] \in Seq(Logged(who, changed)) /\ log[n] \in Seq(Entries)
    BY LogTyped, Zenon
  <2>4. l \in Seq(Logged(who, changed))
    BY <1>4, <2>1, <2>2, <2>3, TombstonedLogged, Zenon
  <2>5. ReactionsOf(l) = ReactionsOf(log[n]) /\ Kept(log[n], l)
    BY <2>1, <2>3, TombstonedSame, Zenon
  <2>6. log' = [log EXCEPT ![n] = l]
    BY <1>2, <1>5, <2>1
  <2>7. QED BY <1>2, <1>3, <2>4, <2>5, <2>6, HandledStep, Zenon
<1>6. CASE ~IsAuthor(n, v.id, v.author)
  <2>1. log' = log /\ faults' \in 0 .. MaxFaults
    BY <1>2, <1>6 DEF Counted
  <2>2. QED BY <1>2, <1>3, <2>1, DroppedStep, Zenon
<1>7. QED BY <1>5, <1>6

(* An event is lost. *)
LEMMA LostStep ==
  ASSUME Counted, ReactionsMatchLog, NEW who, Authored(who),
         NEW n \in Nodes, EventLost(n)
  PROVE  /\ Counted' /\ ReactionsMatchLog' /\ \E w : Authored(w)'
         /\ \A m \in Nodes : Kept(log[m], log'[m])
<1>1. inbox' \in [Nodes -> Seq(Justified(who, changed))]
  BY Taken DEF EventLost
<1>2. faults' \in 0 .. MaxFaults
  BY ConstantsAssumption DEF EventLost, Counted
<1>3. UNCHANGED <<log, reactions, rows, tails, answer, counts, fetches>>
  BY DEF EventLost, kept
<1>4. QED BY <1>1, <1>2, <1>3, DroppedStep, Zenon

(* A history answer is on its way. *)
LEMMA FetchStep ==
  ASSUME Counted, ReactionsMatchLog, NEW who, Authored(who),
         NEW n \in Nodes, NEW m \in Nodes, FetchHistory(n, m)
  PROVE  /\ Counted' /\ ReactionsMatchLog' /\ \E w : Authored(w)'
         /\ \A o \in Nodes : Kept(log[o], log'[o])
<1>1. PICK a : a = SubSeq(rows[m], Len(rows[n]) + 1, Len(rows[m]))
  BY Zenon
<1>2. /\ fetches < MaxFetches /\ fetches' = fetches + 1
      /\ answer' = [answer EXCEPT ![n] = a]
      /\ UNCHANGED <<log, reactions, rows, tails, inbox, counts, faults>>
  BY <1>1 DEF FetchHistory, kept
<1>3. a \in Seq(Originals(who))
  <2>1. rows[m] \in Seq(Originals(who)) /\ rows[n] \in Seq(Originals(who))
    BY LogTyped, Zenon
  <2>2. Len(rows[n]) + 1 \in Nat /\ Len(rows[n]) + 1 >= 1
    BY <2>1
  <2>3. ASSUME NEW S, NEW q \in Seq(S), NEW k \in Nat, k >= 1
        PROVE  SubSeq(q, k, Len(q)) \in Seq(S)
    BY <2>3
  <2>4. QED BY <1>1, <2>1, <2>2, <2>3, Zenon
<1>4. answer' \in [Nodes -> Seq(Originals(who)) \cup {None}]
  BY <1>2, <1>3, Zenon DEF Authored
<1>5. Authored(who)'
  BY <1>2, <1>4, Zenon DEF Authored, counts
<1>6. fetches' \in 0 .. MaxFetches
  BY <1>2, ConstantsAssumption DEF Counted
<1>7. Counted'
  BY <1>2, <1>6, Zenon DEF Counted, counts
<1>8. QED BY <1>2, <1>5, <1>7, NoLog, Zenon

(* handle_channel_history_received *)
LEMMA HistoryStep ==
  ASSUME Counted, ReactionsMatchLog, NEW who, Authored(who),
         NEW n \in Nodes, HandleHistory(n)
  PROVE  /\ Counted' /\ ReactionsMatchLog' /\ \E w : Authored(w)'
         /\ \A m \in Nodes : Kept(log[m], log'[m])
<1>1. PICK s : s = [log |-> log[n], reactions |-> reactions[n], rows |-> rows[n]]
  BY Zenon
<1>2. PICK a : a = answer[n]
  BY Zenon
<1>3. PICK r : r = Integrated(s, a)
  BY Zenon
<1>4. /\ a # None
      /\ log' = [log EXCEPT ![n] = r.log]
      /\ reactions' = [reactions EXCEPT ![n] = r.reactions]
      /\ rows' = [rows EXCEPT ![n] = r.rows]
      /\ answer' = [answer EXCEPT ![n] = None]
      /\ UNCHANGED <<tails, inbox, counts, fetches, faults>>
  BY <1>1, <1>2, <1>3 DEF HandleHistory
<1>5. /\ log[n] \in Seq(Logged(who, changed)) /\ log[n] \in Seq(Entries)
      /\ rows[n] \in Seq(Originals(who)) /\ rows[n] \in Seq(Entries)
  BY LogTyped
<1>6. a \in Seq(Originals(who)) /\ a \in Seq(Entries)
  <2>1. a \in Seq(Originals(who))
    BY <1>2, <1>4 DEF Authored
  <2>2. Originals(who) \subseteq Entries
    BY DEF Originals
  <2>3. QED BY <2>1, <2>2, SeqWider
<1>7. /\ s \in Keeps /\ s.log = log[n] /\ s.rows = rows[n]
      /\ s.reactions = ReactionsOf(s.log)
  <2>1. reactions[n] \in SUBSET (Ids \X Nodes)
    BY DEF Counted
  <2>2. s \in Keeps
    BY <1>1, <1>5, <2>1, Zenon DEF Keeps
  <2>3. s.log = log[n] /\ s.rows = rows[n] /\ s.reactions = reactions[n]
    BY <1>1
  <2>4. QED BY <2>2, <2>3 DEF ReactionsMatchLog
<1>8. Extends(s, a, r)
  BY <1>3, <1>6, <1>7, IntegratedExtends, Zenon
<1>9. /\ r.log \in Seq(Entries) /\ r.rows \in Seq(Entries)
      /\ r.reactions \in SUBSET (Ids \X Nodes)
      /\ r.reactions = ReactionsOf(r.log)
  BY <1>8 DEF Extends, Keeps
<1>10. ASSUME NEW S, NEW q \in Seq(Entries), \A i \in DOMAIN q : q[i] \in S
       PROVE  q \in Seq(S)
  <2>1. Len(q) \in Nat /\ q \in [1 .. Len(q) -> S]
    BY <1>10
  <2>2. QED BY <2>1
<1>11. ASSUME NEW S, NEW q \in Seq(S), NEW i \in DOMAIN q
       PROVE  q[i] \in S
  OBVIOUS
<1>12. r.log \in Seq(Logged(who, changed))
  <2>1. ASSUME NEW i \in DOMAIN r.log
        PROVE  r.log[i] \in Logged(who, changed)
    <3>1. CASE \E j \in DOMAIN s.log : r.log[i] = s.log[j]
      BY <1>5, <1>7, <1>11, <3>1, Zenon
    <3>2. CASE \E j \in DOMAIN a : r.log[i] = a[j]
      <4>1. r.log[i] \in Originals(who)
        BY <1>6, <1>11, <3>2, Zenon
      <4>2. QED BY <4>1, OriginalsLogged
    <3>3. QED BY <1>8, <3>1, <3>2, Zenon DEF Extends
  <2>2. QED BY <1>9, <1>10, <2>1, Zenon
<1>13. r.rows \in Seq(Originals(who))
  <2>1. ASSUME NEW i \in DOMAIN r.rows
        PROVE  r.rows[i] \in Originals(who)
    <3>1. CASE \E j \in DOMAIN s.rows : r.rows[i] = s.rows[j]
      BY <1>5, <1>7, <1>11, <3>1, Zenon
    <3>2. CASE \E j \in DOMAIN a : r.rows[i] = a[j]
      BY <1>6, <1>11, <3>2, Zenon
    <3>3. QED BY <1>8, <3>1, <3>2, Zenon DEF Extends
  <2>2. QED BY <1>9, <1>10, <2>1, Zenon
<1>14. Authored(who)'
  BY <1>4, <1>12, <1>13, Zenon DEF Authored, counts
<1>15. Counted'
  BY <1>4, <1>9, Zenon DEF Counted, counts
<1>16. Kept(log[n], r.log)
  BY <1>7, <1>8, Zenon DEF Extends, Kept
<1>17. DOMAIN log = Nodes /\ DOMAIN reactions = Nodes
  BY DEF Authored, Counted
<1>18. ReactionsMatchLog' /\ \A m \in Nodes : Kept(log[m], log'[m])
  BY <1>4, <1>9, <1>16, <1>17, OneLog, Zenon
<1>19. QED BY <1>14, <1>15, <1>18, Zenon

(* A restart forgets what the rows do not have, and keeps the cache in step. *)
LEMMA RestartStep ==
  ASSUME Counted, ReactionsMatchLog, NEW who, Authored(who),
         NEW n \in Nodes, Restart(n)
  PROVE  Counted' /\ ReactionsMatchLog' /\ (\E w : Authored(w)') /\ faults' # faults
<1>1. PICK r : r = Replayed(rows[n])
  BY Zenon
<1>2. PICK l : l = rows[n]
  BY Zenon
<1>3. /\ faults < MaxFaults /\ faults' = faults + 1
      /\ log' = [log EXCEPT ![n] = l]
      /\ reactions' = [reactions EXCEPT ![n] = r]
      /\ tails' = [tails EXCEPT ![n] = {}]
      /\ inbox' = [inbox EXCEPT ![n] = <<>>]
      /\ answer' = [answer EXCEPT ![n] = None]
      /\ UNCHANGED <<rows, counts, fetches>>
  BY <1>1, <1>2 DEF Restart
<1>4. l \in Seq(Originals(who)) /\ l \in Seq(Entries)
  BY <1>2, LogTyped
<1>5. l \in Seq(Logged(who, changed))
  <2>1. Originals(who) \subseteq Logged(who, changed)
    BY OriginalsLogged, Zenon
  <2>2. QED BY <1>4, <2>1, SeqWider, Zenon
<1>6. r = ReactionsOf(l)
  BY <1>1, <1>2, <1>4, ReplayedIsReactions, Zenon
<1>7. r \in SUBSET (Ids \X Nodes)
  BY <1>4, <1>6, ReactionsTyped, Zenon
<1>8. Authored(who)'
  <2>1. <<>> \in Seq(Justified(who, changed)) /\ {} \in SUBSET Pending(who, changed)
    OBVIOUS
  <2>2. QED BY <1>3, <1>5, <2>1, Zenon DEF Authored, counts
<1>9. faults' \in 0 .. MaxFaults /\ faults' # faults
  BY <1>3, ConstantsAssumption DEF Counted
<1>10. Counted'
  BY <1>3, <1>7, <1>9, Zenon DEF Counted, counts
<1>11. DOMAIN log = Nodes /\ DOMAIN reactions = Nodes
  BY DEF Authored, Counted
<1>12. ReactionsMatchLog'
  BY <1>3, <1>6, <1>11, OneLog, Zenon
<1>13. QED BY <1>8, <1>9, <1>10, <1>12, Zenon

-----------------------------------------------------------------------------
(* Each step keeps the invariant and, short of a restart, what the logs have. *)
LEMMA EachStep ==
  ASSUME MessagesInv, [Next]_vars
  PROVE  MessagesInv' /\ (faults' = faults => \A m \in Nodes : Kept(log[m], log'[m]))
<1>1. PICK who : Authored(who)
  BY Zenon DEF MessagesInv
<1>2. Counted /\ ReactionsMatchLog
  BY DEF MessagesInv
<1>3. ASSUME NEW n \in Nodes, Calls(n)
      PROVE  /\ Counted' /\ ReactionsMatchLog' /\ \E w : Authored(w)'
             /\ \A m \in Nodes : Kept(log[m], log'[m])
  <2>1. CASE MessageSend(n)
    <3>1. "text" \in Kinds /\ 0 \in Ids \cup {0}
      BY DEF Kinds
    <3>2. QED BY <1>1, <1>2, <2>1, <3>1, NewEntryStep, Zenon DEF MessageSend
  <2>2. ASSUME NEW id \in Ids, ReactionAdd(n, id) \/ ReactionRemove(n, id)
        PROVE  /\ Counted' /\ ReactionsMatchLog' /\ \E w : Authored(w)'
               /\ \A m \in Nodes : Kept(log[m], log'[m])
    <3>1. PICK kind \in {"add", "remove"} : NewEntry(n, kind, id)
      BY <2>2 DEF ReactionAdd, ReactionRemove
    <3>2. kind \in Kinds /\ id \in Ids \cup {0} /\ (kind = "text" <=> id = 0)
      BY DEF Kinds, Ids
    <3>3. QED BY <1>1, <1>2, <3>1, <3>2, NewEntryStep, Zenon
  <2>3. ASSUME NEW id \in Ids, MessageEdit(n, id) \/ MessageDelete(n, id)
        PROVE  /\ Counted' /\ ReactionsMatchLog' /\ \E w : Authored(w)'
               /\ \A m \in Nodes : Kept(log[m], log'[m])
    BY <1>1, <1>2, <2>3, EditStep, DeleteStep, Zenon
  <2>4. ASSUME NEW t \in tails[n], FinishCall(n, t)
        PROVE  /\ Counted' /\ ReactionsMatchLog' /\ \E w : Authored(w)'
               /\ \A m \in Nodes : Kept(log[m], log'[m])
    BY <1>1, <1>2, <2>4, FinishStep, Zenon
  <2>5. QED BY <1>3, <2>1, <2>2, <2>3, <2>4, Zenon DEF Calls
<1>4. ASSUME NEW n \in Nodes, EventProcessor(n)
      PROVE  /\ Counted' /\ ReactionsMatchLog' /\ \E w : Authored(w)'
             /\ \A m \in Nodes : Kept(log[m], log'[m])
  BY <1>1, <1>2, <1>4, NewMessageStep, HandleEditStep, HandleDeleteStep, HistoryStep, Zenon DEF EventProcessor
<1>5. ASSUME NEW n \in Nodes, NEW m \in Nodes, FetchHistory(n, m)
      PROVE  /\ Counted' /\ ReactionsMatchLog' /\ \E w : Authored(w)'
             /\ \A o \in Nodes : Kept(log[o], log'[o])
  BY <1>1, <1>2, <1>5, FetchStep, Zenon
<1>6. ASSUME NEW n \in Nodes, Restart(n)
      PROVE  Counted' /\ ReactionsMatchLog' /\ (\E w : Authored(w)') /\ faults' # faults
  BY <1>1, <1>2, <1>6, RestartStep, Zenon
<1>7. ASSUME NEW n \in Nodes, EventLost(n)
      PROVE  /\ Counted' /\ ReactionsMatchLog' /\ \E w : Authored(w)'
             /\ \A m \in Nodes : Kept(log[m], log'[m])
  BY <1>1, <1>2, <1>7, LostStep, Zenon
<1>8. ASSUME UNCHANGED vars
      PROVE  /\ Counted' /\ ReactionsMatchLog' /\ \E w : Authored(w)'
             /\ \A m \in Nodes : Kept(log[m], log'[m])
  <2>1. UNCHANGED <<log, reactions, rows, tails, inbox, answer, made, edits, changed, fetches, faults>>
    BY <1>8 DEF vars, kept, counts
  <2>2. Authored(who)'
    BY <1>1, <2>1, Zenon DEF Authored
  <2>3. Counted'
    BY <1>2, <2>1 DEF Counted
  <2>4. QED BY <1>2, <2>1, <2>2, <2>3, NoLog, Zenon
<1>9. QED
  <2>1. CASE Next
    <3>1. PICK n \in Nodes : \/ Calls(n) \/ EventProcessor(n)
                             \/ \E m \in Nodes \ {n} : FetchHistory(n, m)
                             \/ Restart(n) \/ EventLost(n)
      BY <2>1, Zenon DEF Next
    <3>2. QED BY <1>3, <1>4, <1>5, <1>6, <1>7, <3>1, Zenon DEF MessagesInv
  <2>2. CASE UNCHANGED vars
    BY <1>8, <2>2, Zenon DEF MessagesInv
  <2>3. QED BY <2>1, <2>2

(* The invariant always holds. *)
LEMMA MessagesInvariant == Spec => []MessagesInv
<1>1. ASSUME Init PROVE MessagesInv
  <2>1. Authored(<<>>)
    <3>1. <<>> \in Seq(Nodes) /\ Len(<<>>) = 0
      OBVIOUS
    <3>2. \A S : <<>> \in Seq(S)
      OBVIOUS
    <3>3. QED BY <1>1, <3>1, <3>2, Zenon DEF Init, Authored
  <2>2. Counted
    BY <1>1, ConstantsAssumption DEF Init, Counted
  <2>3. ReactionsMatchLog
    <3>1. ASSUME NEW n \in Nodes PROVE reactions[n] = {} /\ log[n] = <<>>
      BY <1>1 DEF Init
    <3>2. QED BY <3>1, ReactionsNone, Zenon DEF ReactionsMatchLog
  <2>4. QED BY <2>1, <2>2, <2>3, Zenon DEF MessagesInv
<1>2. MessagesInv /\ [Next]_vars => MessagesInv'
  BY EachStep
<1>3. QED BY <1>1, <1>2, PTL DEF Spec

(* The logs, rows, events, answers and counters have their types: in particular
   no call stores a row it does not have, and an edit that a handler applies is
   one that was made. *)
THEOREM MessagesTyped == Spec => []TypeOK
<1>1. ASSUME MessagesInv PROVE TypeOK
  <2>1. PICK who : Authored(who)
    BY <1>1, Zenon DEF MessagesInv
  <2>2. Originals(who) \subseteq Entries /\ Logged(who, changed) \subseteq Entries
    BY DEF Originals, Logged
  <2>3. Justified(who, changed) \subseteq Events
    <3>1. [type : {"NewMessage"}, entry : Originals(who)] \subseteq [type : {"NewMessage"}, entry : Entries]
      BY <2>2
    <3>2. QED BY <3>1, Zenon DEF Justified, Events
  <2>4. Pending(who, changed) \subseteq Tails
    BY <2>2, <2>3 DEF Pending, Tails
  <2>5. /\ Seq(Logged(who, changed)) \subseteq Seq(Entries)
        /\ Seq(Originals(who)) \subseteq Seq(Entries)
        /\ Seq(Justified(who, changed)) \subseteq Seq(Events)
    BY <2>2, <2>3, SeqWider, Zenon
  <2>6. log \in [Nodes -> Seq(Entries)] /\ rows \in [Nodes -> Seq(Entries)]
    BY <2>1, <2>5, Zenon DEF Authored
  <2>7. inbox \in [Nodes -> Seq(Events)] /\ answer \in [Nodes -> Seq(Entries) \cup {None}]
    BY <2>1, <2>5, Zenon DEF Authored
  <2>8. tails \in [Nodes -> SUBSET Tails]
    BY <2>1, <2>4, Zenon DEF Authored
  <2>9. QED BY <1>1, <2>6, <2>7, <2>8, Zenon DEF MessagesInv, Counted, TypeOK
<1>2. QED BY <1>1, MessagesInvariant, PTL

(* The cache of reactions is what the reaction entries of the node's own log
   amount to, whatever order calls, gossip, history answers and restarts bring
   them in: react and unreact (message_log.rs:147-180) are applied exactly when
   an entry is appended. *)
THEOREM ReactionsFollowLog == Spec => []ReactionsMatchLog
<1>1. MessagesInv => ReactionsMatchLog
  BY DEF MessagesInv
<1>2. QED BY <1>1, MessagesInvariant, PTL

(* The text in any log is the original or an edit by the author, and a tombstone
   is the author's: the checks of the author in message_edit, message_delete and
   their handlers suffice because every node has the same author for an entry. *)
THEOREM AuthorsAlone == Spec => []OnlyAuthorChanges
<1>1. ASSUME MessagesInv PROVE OnlyAuthorChanges
  <2>1. PICK who : Authored(who)
    BY <1>1, Zenon DEF MessagesInv
  <2>2. ASSUME NEW n \in Nodes, NEW i \in DOMAIN log[n]
        PROVE  /\ log[n][i].rev > 0 => <<log[n][i].id, log[n][i].rev, log[n][i].author>> \in changed
               /\ log[n][i].deleted => <<log[n][i].id, 0, log[n][i].author>> \in changed
    <3>1. log[n][i] \in Logged(who, changed)
      BY <2>1 DEF Authored
    <3>2. log[n][i].deleted \in BOOLEAN
      BY <3>1 DEF Logged, Entries
    <3>3. QED BY <3>1, <3>2 DEF Logged
  <2>3. QED BY <2>2, Zenon DEF OnlyAuthorChanges
<1>2. QED BY <1>1, MessagesInvariant, PTL

(* Short of a restart a log only grows and a deleted message stays deleted: an
   edit that comes after the deletion changes the text under the tombstone, and
   a history answer with the original is skipped (channel_handler.rs:592-632). *)
THEOREM DeletionsStay == Spec => LogKept
<1>1. ASSUME MessagesInv, [Next]_vars
      PROVE  \A n \in Nodes : faults' = faults => Kept(log[n], log'[n])
  BY <1>1, EachStep, Zenon
<1>2. ASSUME MessagesInv, [Next]_vars
      PROVE  [\A n \in Nodes : faults' = faults =>
                \A i \in DOMAIN log[n] :
                  /\ i \in DOMAIN log'[n] /\ log'[n][i].id = log[n][i].id
                  /\ log[n][i].deleted => log'[n][i].deleted]_vars
  BY <1>1, <1>2, Zenon DEF Kept
<1>3. QED BY <1>2, MessagesInvariant, PTL DEF Spec, LogKept
=============================================================================
