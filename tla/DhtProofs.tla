------------------------------- MODULE DhtProofs -------------------------------
(* Theorems about the routing tables, lookups and records of Dht, for every value
   of its constants: any nodes, ids, bucket sizes, limits and bounds. *)
EXTENDS Dht, FiniteSetTheorems, WellFoundedInduction, TLAPS

(* Induction on the naturals, for the set of those that have a property. *)
LEMMA Induction ==
  ASSUME NEW P \in SUBSET Nat, 0 \in P, \A n \in P : n + 1 \in P
  PROVE  \A n \in Nat : n \in P
<1> DEFINE Q == Nat \ P
           Less == OpToRel(<, Nat)
<1>1. SUFFICES ASSUME Q # {} PROVE FALSE
  OBVIOUS
<1>2. \A x, y \in Nat : x < y => <<x, y>> \in Less
  BY DEF OpToRel
<1>3. PICK q \in Q : \A v \in Q : ~(v < q)
  <2>1. IsWellFoundedOn(Less, Nat)
    BY NatLessThanWellFounded, Zenon
  <2>2. Q \subseteq Nat
    OBVIOUS
  <2> HIDE DEF Less, Q
  <2>3. \E x \in Q : \A y \in Q : ~(<<y, x>> \in Less)
    BY <1>1, <2>1, <2>2, WFMin, Zenon
  <2>4. QED BY <1>2, <2>2, <2>3, Zenon
<1>4. q # 0 /\ q - 1 \in Nat
  OBVIOUS
<1>5. q - 1 \in P
  BY <1>3, <1>4
<1>6. QED BY <1>4, <1>5

(* A loop from 0 to N that starts with z and computes a value of S in each round
   from the one of the round before. *)
Loops(N, S, z, G) ==
  \E f \in [0 .. N -> S] : f[0] = z /\ \A n \in 1 .. N : f[n] = G[n][f[n - 1]]

(* Such a loop has a value in every round. *)
LEMMA LoopExists ==
  ASSUME NEW N \in Nat, NEW S, NEW z \in S, NEW G \in [Nat -> [S -> S]]
  PROVE  Loops(N, S, z, G)
<1> DEFINE Runs(f, k) == f \in [0 .. k -> S] /\ f[0] = z /\ \A n \in 1 .. k : f[n] = G[n][f[n - 1]]
           P == {k \in Nat : \E f : Runs(f, k)}
<1>1. 0 \in P
  <2>1. Runs([n \in 0 .. 0 |-> z], 0)
    OBVIOUS
  <2>2. QED BY <2>1, Zenon
<1>2. ASSUME NEW k \in P
      PROVE  k + 1 \in P
  <2>1. PICK f : Runs(f, k)
    OBVIOUS
  <2> DEFINE g == [n \in 0 .. (k + 1) |-> IF n = k + 1 THEN G[k + 1][f[k]] ELSE f[n]]
  <2>2. k \in Nat /\ f[k] \in S
    BY <2>1
  <2>3. G[k + 1][f[k]] \in S
    BY <2>2
  <2>4. g \in [0 .. (k + 1) -> S] /\ g[0] = z
    BY <2>1, <2>2, <2>3
  <2>5. ASSUME NEW n \in 1 .. (k + 1)
        PROVE  g[n] = G[n][g[n - 1]]
    <3>1. CASE n = k + 1
      BY <2>2, <3>1
    <3>2. CASE n \in 1 .. k
      BY <2>1, <2>2, <3>2
    <3>3. QED BY <2>2, <3>1, <3>2
  <2> HIDE DEF g
  <2>6. Runs(g, k + 1)
    BY <2>4, <2>5
  <2>7. QED BY <2>2, <2>6
<1> HIDE DEF P
<1>3. P \subseteq Nat
  BY DEF P
<1>4. N \in P
  BY <1>1, <1>2, <1>3, Induction
<1>5. QED BY <1>4, Zenon DEF P, Loops

(* A set of naturals that is not empty has a least one. *)
LEMMA Least ==
  ASSUME NEW D \in SUBSET Nat, D # {}
  PROVE  \E m \in D : \A d \in D : m <= d
<1> DEFINE Less == OpToRel(<, Nat)
<1>1. \A x, y \in Nat : x < y => <<x, y>> \in Less
  BY DEF OpToRel
<1>2. IsWellFoundedOn(Less, Nat)
  BY NatLessThanWellFounded, Zenon
<1> HIDE DEF Less
<1>3. PICK m \in D : \A y \in D : ~(<<y, m>> \in Less)
  BY <1>2, WFMin, Zenon
<1>4. \A d \in D : ~(d < m)
  BY <1>1, <1>3, Zenon
<1>5. QED BY <1>4
-----------------------------------------------------------------------------
(* Each id at most once. *)
OnceEach(s) == \A i, j \in DOMAIN s : s[i].id = s[j].id => i = j

(* The loop of Only. *)
OnlyLoop(s, S) ==
  CHOOSE kept : kept = [k \in 0 .. Len(s) |->
    IF k = 0 THEN <<>>
    ELSE IF s[k] \in S THEN Append(kept[k - 1], s[k]) ELSE kept[k - 1]]

(* Only computes what its loop does, round by round. *)
LEMMA OnlyRuns ==
  ASSUME NEW T, NEW s \in Seq(T), NEW S
  PROVE  LET kept == OnlyLoop(s, S)
         IN  /\ Only(s, S) = kept[Len(s)]
             /\ kept[0] = <<>>
             /\ \A k \in 1 .. Len(s) :
                  kept[k] = IF s[k] \in S THEN Append(kept[k - 1], s[k]) ELSE kept[k - 1]
<1> DEFINE N == Len(s)
           Step(k, x) == IF s[k] \in S THEN Append(x, s[k]) ELSE x
           Q == Seq(T)
           G == [k \in Nat |-> [x \in Q |-> IF k \in 1 .. N THEN Step(k, x) ELSE x]]
           kept == OnlyLoop(s, S)
<1>1. N \in Nat
  OBVIOUS
<1>2. ASSUME NEW k \in 1 .. N, NEW x \in Q PROVE Step(k, x) \in Q
  <2>1. s[k] \in T
    OBVIOUS
  <2>2. Append(x, s[k]) \in Q
    BY <2>1
  <2>3. QED BY <2>2
<1>3. <<>> \in Q
  OBVIOUS
<1> HIDE DEF N, Step, Q, kept
<1>4. G \in [Nat -> [Q -> Q]]
  BY <1>2
<1>5. PICK f \in [0 .. N -> Q] : f[0] = <<>> /\ \A k \in 1 .. N : f[k] = G[k][f[k - 1]]
  <2> HIDE DEF G
  <2>1. PICK z : z = <<>>
    BY Zenon
  <2>2. Loops(N, Q, z, G)
    BY <1>1, <1>3, <1>4, <2>1, LoopExists, Zenon
  <2>3. QED BY <2>1, <2>2, Zenon DEF Loops
<1>6. ASSUME NEW k \in 1 .. N
      PROVE  f[k] = Step(k, f[k - 1])
  <2>1. k \in Nat /\ f[k - 1] \in Q
    BY <1>1
  <2>2. QED BY <1>5, <2>1, Zenon
<1>7. f = [k \in 0 .. N |-> IF k = 0 THEN <<>> ELSE Step(k, f[k - 1])]
  BY <1>1, <1>5, <1>6
<1>8. kept = [k \in 0 .. N |-> IF k = 0 THEN <<>> ELSE Step(k, kept[k - 1])]
  BY <1>7, Zenon DEF OnlyLoop, N, Step, kept
<1>9. Only(s, S) = kept[N]
  BY DEF Only, OnlyLoop, N, kept
<1>10. kept[0] = <<>> /\ \A k \in 1 .. N : kept[k] = Step(k, kept[k - 1])
  <2>1. 0 \in 0 .. N /\ \A k \in 1 .. N : k \in 0 .. N /\ k # 0
    BY <1>1
  <2>2. QED BY <1>8, <2>1, Zenon
<1>11. QED BY <1>9, <1>10, Zenon DEF N, Step, kept

(* r has the first k elements of s as far as they are in S, in their order. *)
Picked(r, s, k, S) ==
  /\ Len(r) <= k
  /\ \A i \in DOMAIN r : \E j \in 1 .. k : r[i] = s[j] /\ s[j] \in S
  /\ \A j \in 1 .. k : s[j] \in S => \E i \in DOMAIN r : r[i] = s[j]
  /\ \A i, j \in DOMAIN r : i < j => \E a, b \in 1 .. k : a < b /\ r[i] = s[a] /\ r[j] = s[b]
  /\ \A j \in 1 .. k : s[j] \notin S => Len(r) < k

(* The next element is in S and is appended. *)
LEMMA PickedMore ==
  ASSUME NEW T, NEW s \in Seq(T), NEW S, NEW k \in Nat, k + 1 <= Len(s),
         NEW r \in Seq(T), Picked(r, s, k, S), s[k + 1] \in S
  PROVE  Append(r, s[k + 1]) \in Seq(T) /\ Picked(Append(r, s[k + 1]), s, k + 1, S)
<1> DEFINE x == s[k + 1]
           q == Append(r, x)
           n == Len(r) + 1
<1>1. x \in T
  OBVIOUS
<1>2. /\ q \in Seq(T) /\ Len(q) = n /\ Len(r) \in Nat
      /\ \A i : i \in DOMAIN q <=> i \in DOMAIN r \/ i = n
      /\ \A i \in DOMAIN r : q[i] = r[i] /\ i < n /\ i \in Nat
      /\ q[n] = x
  BY <1>1
<1>3. \A j : j \in 1 .. (k + 1) <=> j \in 1 .. k \/ j = k + 1
  OBVIOUS
<1>4. \A j \in 1 .. k : j < k + 1 /\ ~(k + 1 < j)
  OBVIOUS
<1>5. ~(k + 1 < k + 1) /\ ~(n < n)
  BY <1>2
<1> HIDE DEF q, n
<1>6. Len(q) <= k + 1 /\ (Len(r) < k => Len(q) < k + 1)
  BY <1>2 DEF Picked, n
<1>7. ASSUME NEW i \in DOMAIN q
      PROVE  \E j \in 1 .. (k + 1) : q[i] = s[j] /\ s[j] \in S
  <2>1. CASE i \in DOMAIN r
    <3>1. PICK j \in 1 .. k : r[i] = s[j] /\ s[j] \in S
      BY <2>1, Zenon DEF Picked
    <3>2. q[i] = s[j] /\ j \in 1 .. (k + 1)
      BY <1>2, <1>3, <2>1, <3>1, Zenon
    <3>3. QED BY <3>1, <3>2, Zenon
  <2>2. CASE i = n
    BY <1>2, <1>3, <2>2, Zenon
  <2>3. QED BY <1>2, <2>1, <2>2, Zenon
<1>8. ASSUME NEW j \in 1 .. (k + 1), s[j] \in S
      PROVE  \E i \in DOMAIN q : q[i] = s[j]
  <2>1. CASE j \in 1 .. k
    <3>1. PICK i \in DOMAIN r : r[i] = s[j]
      BY <1>8, <2>1, Zenon DEF Picked
    <3>2. QED BY <1>2, <3>1, Zenon
  <2>2. CASE j = k + 1
    BY <1>2, <2>2, Zenon
  <2>3. QED BY <1>3, <2>1, <2>2, Zenon
<1>9. ASSUME NEW i \in DOMAIN q, NEW j \in DOMAIN q, i < j
      PROVE  \E a, b \in 1 .. (k + 1) : a < b /\ q[i] = s[a] /\ q[j] = s[b]
  <2>1. CASE i \in DOMAIN r /\ j \in DOMAIN r
    <3>1. PICK a \in 1 .. k : \E b \in 1 .. k : a < b /\ r[i] = s[a] /\ r[j] = s[b]
      BY <1>9, <2>1, Zenon DEF Picked
    <3>2. PICK b \in 1 .. k : a < b /\ r[i] = s[a] /\ r[j] = s[b]
      BY <3>1, Zenon
    <3>3. q[i] = s[a] /\ q[j] = s[b] /\ a \in 1 .. (k + 1) /\ b \in 1 .. (k + 1)
      BY <1>2, <1>3, <2>1, <3>2, Zenon
    <3>4. QED BY <3>2, <3>3, Zenon
  <2>2. CASE i \in DOMAIN r /\ j = n
    <3>1. PICK a \in 1 .. k : r[i] = s[a]
      BY <2>2, Zenon DEF Picked
    <3>2. a < k + 1 /\ q[i] = s[a] /\ q[j] = s[k + 1]
      BY <1>2, <1>4, <2>2, <3>1, Zenon
    <3>3. QED BY <1>3, <3>2, Zenon
  <2>3. CASE i = n
    <3>1. i \in Nat /\ j \in Nat /\ j <= n
      BY <1>2, <2>3 DEF n
    <3>2. QED BY <1>9, <2>3, <3>1
  <2>4. QED BY <1>2, <2>1, <2>2, <2>3, Zenon
<1>10. \A j \in 1 .. (k + 1) : s[j] \notin S => Len(q) < k + 1
  BY <1>3, <1>6, Zenon DEF Picked
<1>11. Picked(q, s, k + 1, S)
  BY <1>6, <1>7, <1>8, <1>9, <1>10, Zenon DEF Picked
<1>12. QED BY <1>2, <1>11 DEF q

(* The next element is not in S and is left out. *)
LEMMA PickedSame ==
  ASSUME NEW T, NEW s \in Seq(T), NEW S, NEW k \in Nat, k + 1 <= Len(s),
         NEW r \in Seq(T), Picked(r, s, k, S), s[k + 1] \notin S
  PROVE  Picked(r, s, k + 1, S)
<1>1. \A j : j \in 1 .. (k + 1) <=> j \in 1 .. k \/ j = k + 1
  OBVIOUS
<1>2. Len(r) <= k + 1 /\ Len(r) < k + 1
  BY DEF Picked
<1>3. \A i \in DOMAIN r : \E j \in 1 .. (k + 1) : r[i] = s[j] /\ s[j] \in S
  <2>1. \A i \in DOMAIN r : \E j \in 1 .. k : r[i] = s[j] /\ s[j] \in S
    BY Zenon DEF Picked
  <2>2. QED BY <1>1, <2>1, Zenon
<1>4. \A j \in 1 .. (k + 1) : s[j] \in S => \E i \in DOMAIN r : r[i] = s[j]
  <2>1. \A j \in 1 .. k : s[j] \in S => \E i \in DOMAIN r : r[i] = s[j]
    BY Zenon DEF Picked
  <2>2. QED BY <1>1, <2>1, Zenon
<1>5. ASSUME NEW i \in DOMAIN r, NEW j \in DOMAIN r, i < j
      PROVE  \E a, b \in 1 .. (k + 1) : a < b /\ r[i] = s[a] /\ r[j] = s[b]
  <2>1. \E a, b \in 1 .. k : a < b /\ r[i] = s[a] /\ r[j] = s[b]
    BY <1>5, Zenon DEF Picked
  <2>2. QED BY <1>1, <2>1, Zenon
<1>6. QED BY <1>2, <1>3, <1>4, <1>5, Zenon DEF Picked

(* The loop of Only keeps Picked. *)
LEMMA OnlyPicks ==
  ASSUME NEW T, NEW s \in Seq(T), NEW S
  PROVE  Only(s, S) \in Seq(T) /\ Picked(Only(s, S), s, Len(s), S)
<1> DEFINE kept == OnlyLoop(s, S)
           N == Len(s)
           P == {k \in Nat : k <= N => kept[k] \in Seq(T) /\ Picked(kept[k], s, k, S)}
<1>1. /\ Only(s, S) = kept[N]
      /\ kept[0] = <<>>
      /\ \A k \in 1 .. N :
           kept[k] = IF s[k] \in S THEN Append(kept[k - 1], s[k]) ELSE kept[k - 1]
  BY OnlyRuns
<1> HIDE DEF kept
<1>2. N \in Nat /\ N <= N
  OBVIOUS
<1>3. 0 \in P
  <2>1. <<>> \in Seq(T) /\ Picked(<<>>, s, 0, S)
    BY DEF Picked
  <2>2. QED BY <1>1, <2>1, Zenon
<1>4. ASSUME NEW k \in P PROVE k + 1 \in P
  <2>1. SUFFICES ASSUME k + 1 <= N
                 PROVE  kept[k + 1] \in Seq(T) /\ Picked(kept[k + 1], s, k + 1, S)
    OBVIOUS
  <2>2. k \in Nat /\ k + 1 \in 1 .. N /\ (k + 1) - 1 = k /\ k <= N
    BY <1>2, <2>1
  <2>3. kept[k] \in Seq(T) /\ Picked(kept[k], s, k, S)
    BY <2>2
  <2>4. kept[k + 1] = IF s[k + 1] \in S THEN Append(kept[k], s[k + 1]) ELSE kept[k]
    BY <1>1, <2>2
  <2>5. CASE s[k + 1] \in S
    <3>1. PICK r : r = kept[k]
      BY Zenon
    <3>2. r \in Seq(T) /\ Picked(r, s, k, S)
      BY <2>3, <3>1, Zenon
    <3>3. Append(r, s[k + 1]) \in Seq(T) /\ Picked(Append(r, s[k + 1]), s, k + 1, S)
      BY <2>1, <2>2, <2>5, <3>2, PickedMore, Zenon
    <3>4. QED BY <2>4, <2>5, <3>1, <3>3, Zenon
  <2>6. CASE s[k + 1] \notin S
    BY <2>1, <2>2, <2>3, <2>4, <2>6, PickedSame, Zenon
  <2>7. QED BY <2>5, <2>6
<1>5. P \subseteq Nat
  OBVIOUS
<1> HIDE DEF P
<1>6. N \in P
  BY <1>2, <1>3, <1>4, <1>5, Induction
<1> HIDE DEF N
<1>7. QED BY <1>1, <1>2, <1>6, Zenon DEF P, N

(* What Only returns of s. *)
Selected(r, s, S) ==
  /\ Len(r) <= Len(s)
  /\ \A i \in DOMAIN r : r[i] \in S /\ \E j \in DOMAIN s : r[i] = s[j]
  /\ \A j \in DOMAIN s : s[j] \in S => \E i \in DOMAIN r : r[i] = s[j]
  /\ \A j \in DOMAIN s : s[j] \notin S => Len(r) < Len(s)
  /\ OnceEach(s) => OnceEach(r)

(* Only returns the elements that are in S, in order; an id occurs once where it did. *)
LEMMA OnlySelects ==
  ASSUME NEW T, NEW s \in Seq(T), NEW S
  PROVE  Only(s, S) \in Seq(T) /\ Selected(Only(s, S), s, S)
<1>1. PICK r : r = Only(s, S)
  BY Zenon
<1>2. r \in Seq(T) /\ Picked(r, s, Len(s), S)
  BY <1>1, OnlyPicks, Zenon
<1>3. DOMAIN s = 1 .. Len(s) /\ \A i \in DOMAIN r : i \in Nat
  BY <1>2
<1>4. ASSUME OnceEach(s), NEW i \in DOMAIN r, NEW j \in DOMAIN r, i < j
      PROVE  r[i].id # r[j].id
  <2>1. PICK a \in 1 .. Len(s) : \E b \in 1 .. Len(s) : a < b /\ r[i] = s[a] /\ r[j] = s[b]
    BY <1>2, <1>4, Zenon DEF Picked
  <2>2. PICK b \in 1 .. Len(s) : a < b /\ r[i] = s[a] /\ r[j] = s[b]
    BY <2>1, Zenon
  <2>3. a # b
    BY <2>2
  <2>4. QED BY <1>3, <1>4, <2>2, <2>3, Zenon DEF OnceEach
<1>5. OnceEach(s) => OnceEach(r)
  <2>1. \A i, j \in DOMAIN r : i = j \/ i < j \/ j < i
    BY <1>3
  <2>2. QED BY <1>4, <2>1, Zenon DEF OnceEach
<1>6. Selected(r, s, S)
  <2>1. \A i \in DOMAIN r : r[i] \in S /\ \E j \in DOMAIN s : r[i] = s[j]
    BY <1>2, <1>3, Zenon DEF Picked
  <2>2. QED BY <1>2, <1>3, <1>5, <2>1, Zenon DEF Picked, Selected
<1>7. QED BY <1>1, <1>2, <1>6, Zenon
-----------------------------------------------------------------------------
(* The loop of Joined. *)
JoinedLoop(ss) ==
  CHOOSE all : all = [k \in 0 .. Len(ss) |->
    IF k = 0 THEN <<>>
    ELSE all[k - 1] \o ss[k]]

(* Joined computes what its loop does. *)
LEMMA JoinedRuns ==
  ASSUME NEW T, NEW ss \in Seq(Seq(T))
  PROVE  LET all == JoinedLoop(ss)
         IN  /\ Joined(ss) = all[Len(ss)]
             /\ all[0] = <<>>
             /\ \A k \in 1 .. Len(ss) :
                  all[k] = all[k - 1] \o ss[k]
<1> DEFINE N == Len(ss)
           Step(k, x) == x \o ss[k]
           Q == Seq(T)
           G == [k \in Nat |-> [x \in Q |-> IF k \in 1 .. N THEN Step(k, x) ELSE x]]
           all == JoinedLoop(ss)
<1>1. N \in Nat
  OBVIOUS
<1>2. ASSUME NEW k \in 1 .. N, NEW x \in Q PROVE Step(k, x) \in Q
  <2>1. ss[k] \in Seq(T)
    OBVIOUS
  <2>2. QED BY <2>1
<1>3. <<>> \in Q
  OBVIOUS
<1> HIDE DEF N, Step, Q, all
<1>4. G \in [Nat -> [Q -> Q]]
  BY <1>2
<1>5. PICK f \in [0 .. N -> Q] : f[0] = <<>> /\ \A k \in 1 .. N : f[k] = G[k][f[k - 1]]
  <2> HIDE DEF G
  <2>1. PICK z : z = <<>>
    BY Zenon
  <2>2. Loops(N, Q, z, G)
    BY <1>1, <1>3, <1>4, <2>1, LoopExists, Zenon
  <2>3. QED BY <2>1, <2>2, Zenon DEF Loops
<1>6. ASSUME NEW k \in 1 .. N
      PROVE  f[k] = Step(k, f[k - 1])
  <2>1. k \in Nat /\ f[k - 1] \in Q
    BY <1>1
  <2>2. QED BY <1>5, <2>1, Zenon
<1>7. f = [k \in 0 .. N |-> IF k = 0 THEN <<>> ELSE Step(k, f[k - 1])]
  BY <1>1, <1>5, <1>6
<1>8. all = [k \in 0 .. N |-> IF k = 0 THEN <<>> ELSE Step(k, all[k - 1])]
  BY <1>7, Zenon DEF JoinedLoop, N, Step, all
<1>9. Joined(ss) = all[N]
  BY DEF Joined, JoinedLoop, N, all
<1>10. all[0] = <<>> /\ \A k \in 1 .. N : all[k] = Step(k, all[k - 1])
  <2>1. 0 \in 0 .. N /\ \A k \in 1 .. N : k \in 0 .. N /\ k # 0
    BY <1>1
  <2>2. QED BY <1>8, <2>1, Zenon
<1>11. QED BY <1>9, <1>10, Zenon DEF N, Step, all

(* Entries of different sequences have different ids. *)
Apart(ss) ==
  /\ \A a \in DOMAIN ss : OnceEach(ss[a])
  /\ \A a, b \in DOMAIN ss : \A i \in DOMAIN ss[a], j \in DOMAIN ss[b] :
       ss[a][i].id = ss[b][j].id => a = b

(* r has elements of the first k sequences. *)
JoinOf(r, ss, k) ==
  /\ \A i \in DOMAIN r : \E a \in 1 .. k : \E j \in DOMAIN ss[a] : r[i] = ss[a][j]
  /\ Apart(ss) => OnceEach(r)

(* One more sequence joined. *)
LEMMA JoinMore ==
  ASSUME NEW T, NEW ss \in Seq(Seq(T)), NEW k \in Nat, k + 1 <= Len(ss),
         NEW r \in Seq(T), JoinOf(r, ss, k)
  PROVE  r \o ss[k + 1] \in Seq(T) /\ JoinOf(r \o ss[k + 1], ss, k + 1)
<1>1. PICK b : b = ss[k + 1]
  BY Zenon
<1>2. b \in Seq(T)
  BY <1>1
<1>3. PICK q : q = r \o b
  BY Zenon
<1>4. /\ q \in Seq(T)
      /\ \A i \in DOMAIN q : \/ i \in DOMAIN r /\ q[i] = r[i]
                             \/ i \notin DOMAIN r /\ i - Len(r) \in DOMAIN b /\ q[i] = b[i - Len(r)]
  BY <1>2, <1>3
<1>5. \A j : j \in 1 .. (k + 1) <=> j \in 1 .. k \/ j = k + 1
  OBVIOUS
<1>6. ASSUME NEW i \in DOMAIN q
      PROVE  \E a \in 1 .. (k + 1) : \E j \in DOMAIN ss[a] : q[i] = ss[a][j]
  <2>1. CASE i \in DOMAIN r /\ q[i] = r[i]
    BY <1>5, <2>1, Zenon DEF JoinOf
  <2>2. CASE i - Len(r) \in DOMAIN b /\ q[i] = b[i - Len(r)]
    BY <1>1, <1>5, <2>2, Zenon
  <2>3. QED BY <1>4, <2>1, <2>2, Zenon
<1>7. ASSUME Apart(ss) PROVE OnceEach(q)
  <2>1. OnceEach(r)
    BY <1>7, Zenon DEF JoinOf
  <2>2. /\ DOMAIN ss = 1 .. Len(ss) /\ k + 1 \in DOMAIN ss
        /\ \A a \in 1 .. k : a \in DOMAIN ss /\ a # k + 1
    OBVIOUS
  <2>3. OnceEach(b)
    BY <1>1, <1>7, <2>2, Zenon DEF Apart
  <2>4. ASSUME NEW i \in DOMAIN r, NEW j \in DOMAIN b
        PROVE  r[i].id # b[j].id
    <3>1. PICK a \in 1 .. k : \E m \in DOMAIN ss[a] : r[i] = ss[a][m]
      BY Zenon DEF JoinOf
    <3>2. PICK m \in DOMAIN ss[a] : r[i] = ss[a][m]
      BY <3>1, Zenon
    <3>3. QED BY <1>1, <1>7, <2>2, <3>2, Zenon DEF Apart
  <2>5. \A i, j \in DOMAIN q : i - Len(r) = j - Len(r) => i = j
    BY <1>4
  <2>6. ASSUME NEW i \in DOMAIN q, NEW j \in DOMAIN q, q[i].id = q[j].id
        PROVE  i = j
    <3>1. CASE i \in DOMAIN r /\ j \in DOMAIN r
      BY <1>4, <2>1, <2>6, <3>1, Zenon DEF OnceEach
    <3>2. CASE i \in DOMAIN r /\ j \notin DOMAIN r
      BY <1>4, <2>4, <2>6, <3>2, Zenon
    <3>3. CASE i \notin DOMAIN r /\ j \in DOMAIN r
      BY <1>4, <2>4, <2>6, <3>3, Zenon
    <3>4. CASE i \notin DOMAIN r /\ j \notin DOMAIN r
      BY <1>4, <2>3, <2>5, <2>6, <3>4, Zenon DEF OnceEach
    <3>5. QED BY <3>1, <3>2, <3>3, <3>4, Zenon
  <2>7. QED BY <2>6, Zenon DEF OnceEach
<1>8. JoinOf(q, ss, k + 1)
  BY <1>6, <1>7, Zenon DEF JoinOf
<1>9. QED BY <1>1, <1>3, <1>4, <1>8, Zenon

(* Joined returns elements of the sequences, each id once where they are apart. *)
LEMMA JoinedJoins ==
  ASSUME NEW T, NEW ss \in Seq(Seq(T))
  PROVE  Joined(ss) \in Seq(T) /\ JoinOf(Joined(ss), ss, Len(ss))
<1> DEFINE all == JoinedLoop(ss)
           N == Len(ss)
           P == {k \in Nat : k <= N => all[k] \in Seq(T) /\ JoinOf(all[k], ss, k)}
<1>1. /\ Joined(ss) = all[N]
      /\ all[0] = <<>>
      /\ \A k \in 1 .. N : all[k] = all[k - 1] \o ss[k]
  BY JoinedRuns, Zenon
<1> HIDE DEF all
<1>2. N \in Nat /\ N <= N
  OBVIOUS
<1>3. 0 \in P
  <2>1. <<>> \in Seq(T) /\ JoinOf(<<>>, ss, 0)
    BY DEF JoinOf, OnceEach
  <2>2. QED BY <1>1, <2>1, Zenon
<1>4. ASSUME NEW k \in P PROVE k + 1 \in P
  <2>1. SUFFICES ASSUME k + 1 <= N
                 PROVE  all[k + 1] \in Seq(T) /\ JoinOf(all[k + 1], ss, k + 1)
    OBVIOUS
  <2>2. k \in Nat /\ k + 1 \in 1 .. N /\ (k + 1) - 1 = k /\ k <= N
    BY <1>2, <2>1
  <2>3. all[k] \in Seq(T) /\ JoinOf(all[k], ss, k)
    BY <2>2
  <2>4. all[k + 1] = all[k] \o ss[k + 1]
    BY <1>1, <2>2, Zenon
  <2>5. PICK r : r = all[k]
    BY Zenon
  <2>6. r \o ss[k + 1] \in Seq(T) /\ JoinOf(r \o ss[k + 1], ss, k + 1)
    BY <2>1, <2>2, <2>3, <2>5, JoinMore, Zenon
  <2>7. QED BY <2>4, <2>5, <2>6, Zenon
<1>5. P \subseteq Nat
  OBVIOUS
<1> HIDE DEF P
<1>6. N \in P
  BY <1>2, <1>3, <1>4, <1>5, Induction
<1> HIDE DEF N
<1>7. QED BY <1>1, <1>2, <1>6, Zenon DEF P, N
-----------------------------------------------------------------------------
StrictOrder(R, T) ==
  /\ \A x \in T : <<x, x>> \notin R
  /\ \A x, y, z \in T : <<x, y>> \in R /\ <<y, z>> \in R => <<x, z>> \in R

(* No element precedes an earlier one. *)
Ordered(s, R) == \A i, j \in DOMAIN s : i < j => <<s[j], s[i]>> \notin R

(* q is s with x at the place p. *)
PutAt(q, s, x, p) ==
  /\ p \in 1 .. (Len(s) + 1)
  /\ Len(q) = Len(s) + 1
  /\ \A i \in DOMAIN q : \/ i < p /\ i \in DOMAIN s /\ q[i] = s[i]
                         \/ i = p /\ q[i] = x
                         \/ p < i /\ i - 1 \in DOMAIN s /\ q[i] = s[i - 1]
  /\ p \in DOMAIN q /\ q[p] = x
  /\ \A i \in DOMAIN s : \/ i < p /\ i \in DOMAIN q /\ q[i] = s[i]
                         \/ p <= i /\ i + 1 \in DOMAIN q /\ q[i + 1] = s[i]

(* Insert puts x before the first element it precedes. *)
LEMMA InsertPuts ==
  ASSUME NEW T, NEW s \in Seq(T), NEW x \in T, NEW R
  PROVE  /\ Insert(s, x, R) \in Seq(T)
         /\ \E p : /\ PutAt(Insert(s, x, R), s, x, p)
                   /\ \A i \in DOMAIN s : i < p => <<x, s[i]>> \notin R
                   /\ p \in DOMAIN s => <<x, s[p]>> \in R
<1> DEFINE later == {i \in DOMAIN s : <<x, s[i]>> \in R}
           p == IF later = {} THEN Len(s) + 1 ELSE CHOOSE i \in later : \A j \in later : i <= j
           q == [i \in 1 .. Len(s) + 1 |-> IF i < p THEN s[i] ELSE IF i = p THEN x ELSE s[i - 1]]
<1>1. Len(s) \in Nat /\ DOMAIN s = 1 .. Len(s)
  OBVIOUS
<1>2. /\ p \in 1 .. (Len(s) + 1)
      /\ \A i \in DOMAIN s : i < p => <<x, s[i]>> \notin R
      /\ p \in DOMAIN s => <<x, s[p]>> \in R
  <2>1. CASE later = {}
    <3>1. p = Len(s) + 1
      BY <2>1
    <3>2. \A i \in DOMAIN s : <<x, s[i]>> \notin R
      BY <2>1
    <3> HIDE DEF p
    <3>3. QED BY <1>1, <3>1, <3>2
  <2>2. CASE later # {}
    <3>1. later \subseteq Nat
      BY <1>1
    <3>2. \E m \in later : \A d \in later : m <= d
      BY <2>2, <3>1, Least, Zenon
    <3>3. p = CHOOSE i \in later : \A j \in later : i <= j
      BY <2>2, Zenon
    <3> HIDE DEF p, later
    <3>4. p \in later /\ \A j \in later : p <= j
      BY <3>2, <3>3, Zenon
    <3>5. p \in DOMAIN s /\ <<x, s[p]>> \in R
      BY <3>4 DEF later
    <3>6. ASSUME NEW i \in DOMAIN s, i < p PROVE <<x, s[i]>> \notin R
      <4>1. <<x, s[i]>> \in R => i \in later
        BY Zenon DEF later
      <4>2. i \in later => p <= i
        BY <3>4, Zenon
      <4>3. i \in Nat /\ p \in Nat /\ ~(p <= i)
        BY <1>1, <3>5, <3>6
      <4>4. QED BY <4>1, <4>2, <4>3, Zenon
    <3>7. QED BY <1>1, <3>5, <3>6
  <2>3. QED BY <2>1, <2>2, Zenon
<1>3. Insert(s, x, R) = q
  BY Zenon DEF Insert
<1> HIDE DEF p
<1>4. q \in Seq(T) /\ Len(q) = Len(s) + 1 /\ DOMAIN q = 1 .. (Len(s) + 1)
  <2>1. \A i \in 1 .. Len(s) : s[i] \in T
    OBVIOUS
  <2>2. \A i \in 1 .. (Len(s) + 1) : i < p => i \in 1 .. Len(s)
    BY <1>1, <1>2
  <2>3. \A i \in 1 .. (Len(s) + 1) : ~(i < p) /\ i # p => i - 1 \in 1 .. Len(s)
    BY <1>1, <1>2
  <2>4. \A i \in 1 .. (Len(s) + 1) : (IF i < p THEN s[i] ELSE IF i = p THEN x ELSE s[i - 1]) \in T
    BY <2>1, <2>2, <2>3, Zenon
  <2>5. q \in [1 .. (Len(s) + 1) -> T]
    BY <2>4
  <2> HIDE DEF q
  <2>6. QED BY <1>1, <2>5
<1>5. PutAt(q, s, x, p)
  <2>1. \A i \in DOMAIN q : q[i] = IF i < p THEN s[i] ELSE IF i = p THEN x ELSE s[i - 1]
    OBVIOUS
  <2> HIDE DEF q
  <2>2. \A i \in DOMAIN q : \/ i < p /\ i \in DOMAIN s /\ q[i] = s[i]
                            \/ i = p /\ q[i] = x
                            \/ p < i /\ i - 1 \in DOMAIN s /\ q[i] = s[i - 1]
    BY <1>1, <1>2, <1>4, <2>1
  <2>3. p \in DOMAIN q /\ q[p] = x
    BY <1>1, <1>2, <1>4, <2>1
  <2>4. ASSUME NEW i \in DOMAIN s
        PROVE  \/ i < p /\ i \in DOMAIN q /\ q[i] = s[i]
               \/ p <= i /\ i + 1 \in DOMAIN q /\ q[i + 1] = s[i]
    <3>1. CASE i < p
      BY <1>1, <1>2, <1>4, <2>1, <3>1
    <3>2. CASE p <= i
      <4>1. i + 1 \in DOMAIN q /\ ~(i + 1 < p) /\ i + 1 # p /\ (i + 1) - 1 = i
        BY <1>1, <1>2, <1>4, <3>2
      <4>2. QED BY <2>1, <3>2, <4>1
    <3>3. QED BY <1>1, <1>2, <3>1, <3>2
  <2>5. QED BY <1>2, <1>4, <2>2, <2>3, <2>4, Zenon DEF PutAt
<1>6. QED BY <1>2, <1>3, <1>4, <1>5, Zenon

(* q has the elements of s, and x; it is as free of duplicates as they are, and
   in order where s is. *)
Added(q, s, x, R, T) ==
  /\ Len(q) = Len(s) + 1
  /\ \A i \in DOMAIN q : q[i] = x \/ \E j \in DOMAIN s : q[i] = s[j]
  /\ \E i \in DOMAIN q : q[i] = x
  /\ \A j \in DOMAIN s : \E i \in DOMAIN q : q[i] = s[j]
  /\ OnceEach(s) /\ x.id \notin Ids(s) => OnceEach(q)
  /\ StrictOrder(R, T) /\ Ordered(s, R) => Ordered(q, R)

(* Insert adds x, and keeps what Added says. *)
LEMMA InsertAdds ==
  ASSUME NEW T, NEW s \in Seq(T), NEW x \in T, NEW R
  PROVE  Insert(s, x, R) \in Seq(T) /\ Added(Insert(s, x, R), s, x, R, T)
<1>1. PICK q : q = Insert(s, x, R)
  BY Zenon
<1>2. q \in Seq(T)
  BY <1>1, InsertPuts, Zenon
<1>3. PICK p : /\ PutAt(q, s, x, p)
               /\ \A i \in DOMAIN s : i < p => <<x, s[i]>> \notin R
               /\ p \in DOMAIN s => <<x, s[p]>> \in R
  BY <1>1, InsertPuts, Zenon
<1>4. /\ Len(s) \in Nat /\ DOMAIN s = 1 .. Len(s)
      /\ DOMAIN q = 1 .. (Len(s) + 1) /\ p \in 1 .. (Len(s) + 1)
  BY <1>2, <1>3 DEF PutAt
<1>5. ASSUME NEW i \in DOMAIN q
      PROVE  q[i] = x \/ \E j \in DOMAIN s : q[i] = s[j]
  BY <1>3, Zenon DEF PutAt
<1>6. ASSUME NEW j \in DOMAIN s
      PROVE  \E i \in DOMAIN q : q[i] = s[j]
  BY <1>3, Zenon DEF PutAt
<1>7. ASSUME OnceEach(s), x.id \notin Ids(s), NEW i \in DOMAIN q, NEW j \in DOMAIN q, i < j
      PROVE  q[i].id # q[j].id
  <2>1. \A k \in DOMAIN s : s[k].id # x.id
    BY <1>7, Zenon DEF Ids
  <2>2. CASE j < p
    <3>1. i \in DOMAIN s /\ j \in DOMAIN s /\ q[i] = s[i] /\ q[j] = s[j] /\ i # j
      BY <1>3, <1>4, <1>7, <2>2 DEF PutAt
    <3>2. QED BY <1>7, <3>1, Zenon DEF OnceEach
  <2>3. CASE j = p
    <3>1. i \in DOMAIN s /\ q[i] = s[i] /\ q[j] = x
      BY <1>3, <1>4, <1>7, <2>3 DEF PutAt
    <3>2. QED BY <2>1, <3>1, Zenon
  <2>4. CASE p < j
    <3>1. j - 1 \in DOMAIN s /\ q[j] = s[j - 1]
      BY <1>3, <1>4, <2>4 DEF PutAt
    <3>2. CASE i < p
      <4>1. i \in DOMAIN s /\ q[i] = s[i] /\ i # j - 1
        BY <1>3, <1>4, <1>7, <2>4, <3>2 DEF PutAt
      <4>2. QED BY <1>7, <3>1, <4>1, Zenon DEF OnceEach
    <3>3. CASE i = p
      <4>1. q[i] = x
        BY <1>3, <3>3 DEF PutAt
      <4>2. QED BY <2>1, <3>1, <4>1, Zenon
    <3>4. CASE p < i
      <4>1. i - 1 \in DOMAIN s /\ q[i] = s[i - 1] /\ i - 1 # j - 1
        BY <1>3, <1>4, <1>7, <3>4 DEF PutAt
      <4>2. QED BY <1>7, <3>1, <4>1, Zenon DEF OnceEach
    <3>5. QED BY <1>4, <3>2, <3>3, <3>4
  <2>5. QED BY <1>4, <2>2, <2>3, <2>4
<1>8. OnceEach(s) /\ x.id \notin Ids(s) => OnceEach(q)
  <2>1. \A i, j \in DOMAIN q : i = j \/ i < j \/ j < i
    BY <1>4
  <2>2. QED BY <1>7, <2>1, Zenon DEF OnceEach
<1>9. ASSUME StrictOrder(R, T), Ordered(s, R), NEW i \in DOMAIN q, NEW j \in DOMAIN q, i < j
      PROVE  <<q[j], q[i]>> \notin R
  <2>1. CASE j < p
    <3>1. i \in DOMAIN s /\ j \in DOMAIN s /\ q[i] = s[i] /\ q[j] = s[j]
      BY <1>3, <1>4, <1>9, <2>1 DEF PutAt
    <3>2. QED BY <1>9, <3>1, Zenon DEF Ordered
  <2>2. CASE j = p
    <3>1. i \in DOMAIN s /\ q[i] = s[i] /\ q[j] = x /\ i < p
      BY <1>3, <1>4, <1>9, <2>2 DEF PutAt
    <3>2. QED BY <1>3, <3>1, Zenon
  <2>3. CASE p < j
    <3>1. j - 1 \in DOMAIN s /\ q[j] = s[j - 1]
      BY <1>3, <1>4, <2>3 DEF PutAt
    <3>2. CASE i < p
      <4>1. i \in DOMAIN s /\ q[i] = s[i] /\ i < j - 1
        BY <1>3, <1>4, <1>9, <2>3, <3>2 DEF PutAt
      <4>2. QED BY <1>9, <3>1, <4>1, Zenon DEF Ordered
    <3>3. CASE i = p
      <4>1. q[i] = x /\ p \in DOMAIN s /\ <<x, s[p]>> \in R
        BY <1>3, <1>4, <2>3, <3>3 DEF PutAt
      <4>2. p = j - 1 \/ p < j - 1
        BY <1>4, <2>3
      <4>3. <<s[j - 1], s[p]>> \notin R
        <5>1. CASE p = j - 1
          <6>1. s[p] \in T
            BY <4>1
          <6>2. QED BY <1>9, <5>1, <6>1, Zenon DEF StrictOrder
        <5>2. CASE p < j - 1
          BY <1>9, <3>1, <4>1, <5>2, Zenon DEF Ordered
        <5>3. QED BY <4>2, <5>1, <5>2
      <4>4. s[j - 1] \in T /\ s[p] \in T
        BY <3>1, <4>1
      <4>5. QED BY <1>9, <3>1, <4>1, <4>3, <4>4, Zenon DEF StrictOrder
    <3>4. CASE p < i
      <4>1. i - 1 \in DOMAIN s /\ q[i] = s[i - 1] /\ i - 1 < j - 1
        BY <1>3, <1>4, <1>9, <3>4 DEF PutAt
      <4>2. QED BY <1>9, <3>1, <4>1, Zenon DEF Ordered
    <3>5. QED BY <1>4, <3>2, <3>3, <3>4
  <2>4. QED BY <1>4, <2>1, <2>2, <2>3
<1>10. Len(q) = Len(s) + 1 /\ \E i \in DOMAIN q : q[i] = x
  BY <1>3, Zenon DEF PutAt
<1>11. StrictOrder(R, T) /\ Ordered(s, R) => Ordered(q, R)
  BY <1>9, Zenon DEF Ordered
<1>12. Added(q, s, x, R, T)
  BY <1>5, <1>6, <1>8, <1>10, <1>11, Zenon DEF Added
<1>13. QED BY <1>1, <1>2, <1>12, Zenon

(* The loop of Sorted. *)
SortedLoop(s, R) ==
  CHOOSE sorted : sorted = [k \in 0 .. Len(s) |->
    IF k = 0 THEN <<>>
    ELSE Insert(sorted[k - 1], s[k], R)]

(* Sorted computes what its loop does. *)
LEMMA SortedRuns ==
  ASSUME NEW T, NEW s \in Seq(T), NEW R
  PROVE  LET sorted == SortedLoop(s, R)
         IN  /\ Sorted(s, R) = sorted[Len(s)]
             /\ sorted[0] = <<>>
             /\ \A k \in 1 .. Len(s) :
                  sorted[k] = Insert(sorted[k - 1], s[k], R)
<1> DEFINE N == Len(s)
           Step(k, x) == Insert(x, s[k], R)
           Q == Seq(T)
           G == [k \in Nat |-> [x \in Q |-> IF k \in 1 .. N THEN Step(k, x) ELSE x]]
           sorted == SortedLoop(s, R)
<1>1. N \in Nat
  OBVIOUS
<1>2. ASSUME NEW k \in 1 .. N, NEW x \in Q PROVE Step(k, x) \in Q
  <2>1. s[k] \in T
    OBVIOUS
  <2>2. PICK y : y = s[k]
    BY Zenon
  <2>3. x \in Seq(T) /\ y \in T
    BY <2>1, <2>2
  <2>4. Insert(x, y, R) \in Seq(T)
    BY <2>3, InsertAdds, Zenon
  <2>5. QED BY <2>2, <2>4
<1>3. <<>> \in Q
  OBVIOUS
<1> HIDE DEF N, Step, Q, sorted
<1>4. G \in [Nat -> [Q -> Q]]
  BY <1>2
<1>5. PICK f \in [0 .. N -> Q] : f[0] = <<>> /\ \A k \in 1 .. N : f[k] = G[k][f[k - 1]]
  <2> HIDE DEF G
  <2>1. PICK z : z = <<>>
    BY Zenon
  <2>2. Loops(N, Q, z, G)
    BY <1>1, <1>3, <1>4, <2>1, LoopExists, Zenon
  <2>3. QED BY <2>1, <2>2, Zenon DEF Loops
<1>6. ASSUME NEW k \in 1 .. N
      PROVE  f[k] = Step(k, f[k - 1])
  <2>1. k \in Nat /\ f[k - 1] \in Q
    BY <1>1
  <2>2. QED BY <1>5, <2>1, Zenon
<1>7. f = [k \in 0 .. N |-> IF k = 0 THEN <<>> ELSE Step(k, f[k - 1])]
  BY <1>1, <1>5, <1>6
<1>8. sorted = [k \in 0 .. N |-> IF k = 0 THEN <<>> ELSE Step(k, sorted[k - 1])]
  BY <1>7, Zenon DEF SortedLoop, N, Step, sorted
<1>9. Sorted(s, R) = sorted[N]
  BY DEF Sorted, SortedLoop, N, sorted
<1>10. sorted[0] = <<>> /\ \A k \in 1 .. N : sorted[k] = Step(k, sorted[k - 1])
  <2>1. 0 \in 0 .. N /\ \A k \in 1 .. N : k \in 0 .. N /\ k # 0
    BY <1>1
  <2>2. QED BY <1>8, <2>1, Zenon
<1>11. QED BY <1>9, <1>10, Zenon DEF N, Step, sorted

(* r has the first k elements of s, in order. *)
SortOf(r, s, k, R, T) ==
  /\ Len(r) = k
  /\ \A i \in DOMAIN r : \E j \in 1 .. k : r[i] = s[j]
  /\ \A j \in 1 .. k : \E i \in DOMAIN r : r[i] = s[j]
  /\ OnceEach(s) => OnceEach(r)
  /\ StrictOrder(R, T) => Ordered(r, R)

(* One more element sorted in. *)
LEMMA SortMore ==
  ASSUME NEW T, NEW s \in Seq(T), NEW R, NEW k \in Nat, k + 1 <= Len(s),
         NEW r \in Seq(T), SortOf(r, s, k, R, T)
  PROVE  /\ Insert(r, s[k + 1], R) \in Seq(T)
         /\ SortOf(Insert(r, s[k + 1], R), s, k + 1, R, T)
<1>1. PICK x : x = s[k + 1]
  BY Zenon
<1>2. x \in T
  BY <1>1
<1>3. PICK q : q = Insert(r, x, R)
  BY Zenon
<1>4. q \in Seq(T) /\ Added(q, r, x, R, T)
  BY <1>2, <1>3, InsertAdds, Zenon
<1>5. \A j : j \in 1 .. (k + 1) <=> j \in 1 .. k \/ j = k + 1
  OBVIOUS
<1>6. Len(q) = k + 1
  BY <1>4 DEF Added, SortOf
<1>7. ASSUME NEW i \in DOMAIN q PROVE \E j \in 1 .. (k + 1) : q[i] = s[j]
  <2>1. CASE q[i] = x
    BY <1>1, <1>5, <2>1, Zenon
  <2>2. CASE q[i] # x
    <3>1. PICK m \in DOMAIN r : q[i] = r[m]
      BY <1>4, <2>2, Zenon DEF Added
    <3>2. PICK j \in 1 .. k : r[m] = s[j]
      BY Zenon DEF SortOf
    <3>3. QED BY <1>5, <3>1, <3>2, Zenon
  <2>3. QED BY <2>1, <2>2
<1>8. ASSUME NEW j \in 1 .. (k + 1) PROVE \E i \in DOMAIN q : q[i] = s[j]
  <2>1. CASE j = k + 1
    BY <1>1, <1>4, <2>1, Zenon DEF Added
  <2>2. CASE j \in 1 .. k
    <3>1. PICK m \in DOMAIN r : r[m] = s[j]
      BY <2>2, Zenon DEF SortOf
    <3>2. PICK i \in DOMAIN q : q[i] = r[m]
      BY <1>4, Zenon DEF Added
    <3>3. QED BY <3>1, <3>2, Zenon
  <2>3. QED BY <1>5, <2>1, <2>2, Zenon
<1>9. ASSUME OnceEach(s) PROVE OnceEach(q)
  <2>1. OnceEach(r)
    BY <1>9, Zenon DEF SortOf
  <2>2. ASSUME NEW m \in DOMAIN r PROVE r[m].id # x.id
    <3>1. PICK j \in 1 .. k : r[m] = s[j]
      BY Zenon DEF SortOf
    <3>2. j \in DOMAIN s /\ k + 1 \in DOMAIN s /\ j # k + 1
      OBVIOUS
    <3>3. QED BY <1>1, <1>9, <3>1, <3>2, Zenon DEF OnceEach
  <2>3. x.id \notin Ids(r)
    BY <2>2, Zenon DEF Ids
  <2>4. QED BY <1>4, <2>1, <2>3, Zenon DEF Added
<1>10. StrictOrder(R, T) => Ordered(q, R)
  BY <1>4, Zenon DEF Added, SortOf
<1>11. SortOf(q, s, k + 1, R, T)
  BY <1>6, <1>7, <1>8, <1>9, <1>10, Zenon DEF SortOf
<1>12. QED BY <1>1, <1>3, <1>4, <1>11, Zenon

(* Sorted returns the elements of s in order. *)
LEMMA SortedSorts ==
  ASSUME NEW T, NEW s \in Seq(T), NEW R
  PROVE  Sorted(s, R) \in Seq(T) /\ SortOf(Sorted(s, R), s, Len(s), R, T)
<1> DEFINE sorted == SortedLoop(s, R)
           N == Len(s)
           P == {k \in Nat : k <= N => sorted[k] \in Seq(T) /\ SortOf(sorted[k], s, k, R, T)}
<1>1. /\ Sorted(s, R) = sorted[N]
      /\ sorted[0] = <<>>
      /\ \A k \in 1 .. N : sorted[k] = Insert(sorted[k - 1], s[k], R)
  BY SortedRuns, Zenon
<1> HIDE DEF sorted
<1>2. N \in Nat /\ N <= N
  OBVIOUS
<1>3. 0 \in P
  <2>1. <<>> \in Seq(T) /\ SortOf(<<>>, s, 0, R, T)
    BY DEF SortOf, OnceEach, Ordered
  <2>2. QED BY <1>1, <2>1, Zenon
<1>4. ASSUME NEW k \in P PROVE k + 1 \in P
  <2>1. SUFFICES ASSUME k + 1 <= N
                 PROVE  sorted[k + 1] \in Seq(T) /\ SortOf(sorted[k + 1], s, k + 1, R, T)
    OBVIOUS
  <2>2. k \in Nat /\ k + 1 \in 1 .. N /\ (k + 1) - 1 = k /\ k <= N
    BY <1>2, <2>1
  <2>3. sorted[k] \in Seq(T) /\ SortOf(sorted[k], s, k, R, T)
    BY <2>2
  <2>4. sorted[k + 1] = Insert(sorted[k], s[k + 1], R)
    BY <1>1, <2>2
  <2>5. PICK r : r = sorted[k]
    BY Zenon
  <2>6. Insert(r, s[k + 1], R) \in Seq(T) /\ SortOf(Insert(r, s[k + 1], R), s, k + 1, R, T)
    BY <2>1, <2>2, <2>3, <2>5, SortMore, Zenon
  <2>7. QED BY <2>4, <2>5, <2>6, Zenon
<1>5. P \subseteq Nat
  OBVIOUS
<1> HIDE DEF P
<1>6. N \in P
  BY <1>2, <1>3, <1>4, <1>5, Induction
<1> HIDE DEF N
<1>7. QED BY <1>1, <1>2, <1>6, Zenon DEF P, N

(* The loop of Deduped. *)
DedupedLoop(s) ==
  CHOOSE kept : kept = [k \in 0 .. Len(s) |->
    IF k = 0 THEN <<>>
    ELSE IF k > 1 /\ s[k].id = s[k - 1].id THEN kept[k - 1] ELSE Append(kept[k - 1], s[k])]

(* Deduped computes what its loop does. *)
LEMMA DedupedRuns ==
  ASSUME NEW T, NEW s \in Seq(T)
  PROVE  LET kept == DedupedLoop(s)
         IN  /\ Deduped(s) = kept[Len(s)]
             /\ kept[0] = <<>>
             /\ \A k \in 1 .. Len(s) :
                  kept[k] = IF k > 1 /\ s[k].id = s[k - 1].id THEN kept[k - 1]
                            ELSE Append(kept[k - 1], s[k])
<1> DEFINE N == Len(s)
           Step(k, x) == IF k > 1 /\ s[k].id = s[k - 1].id THEN x ELSE Append(x, s[k])
           Q == Seq(T)
           G == [k \in Nat |-> [x \in Q |-> IF k \in 1 .. N THEN Step(k, x) ELSE x]]
           kept == DedupedLoop(s)
<1>1. N \in Nat
  OBVIOUS
<1>2. ASSUME NEW k \in 1 .. N, NEW x \in Q PROVE Step(k, x) \in Q
  <2>1. s[k] \in T
    OBVIOUS
  <2>2. Append(x, s[k]) \in Q
    BY <2>1
  <2>3. QED BY <2>2
<1>3. <<>> \in Q
  OBVIOUS
<1> HIDE DEF N, Step, Q, kept
<1>4. G \in [Nat -> [Q -> Q]]
  BY <1>2
<1>5. PICK f \in [0 .. N -> Q] : f[0] = <<>> /\ \A k \in 1 .. N : f[k] = G[k][f[k - 1]]
  <2> HIDE DEF G
  <2>1. PICK z : z = <<>>
    BY Zenon
  <2>2. Loops(N, Q, z, G)
    BY <1>1, <1>3, <1>4, <2>1, LoopExists, Zenon
  <2>3. QED BY <2>1, <2>2, Zenon DEF Loops
<1>6. ASSUME NEW k \in 1 .. N
      PROVE  f[k] = Step(k, f[k - 1])
  <2>1. k \in Nat /\ f[k - 1] \in Q
    BY <1>1
  <2>2. QED BY <1>5, <2>1, Zenon
<1>7. f = [k \in 0 .. N |-> IF k = 0 THEN <<>> ELSE Step(k, f[k - 1])]
  BY <1>1, <1>5, <1>6
<1>8. kept = [k \in 0 .. N |-> IF k = 0 THEN <<>> ELSE Step(k, kept[k - 1])]
  BY <1>7, Zenon DEF DedupedLoop, N, Step, kept
<1>9. Deduped(s) = kept[N]
  BY DEF Deduped, DedupedLoop, N, kept
<1>10. kept[0] = <<>> /\ \A k \in 1 .. N : kept[k] = Step(k, kept[k - 1])
  <2>1. 0 \in 0 .. N /\ \A k \in 1 .. N : k \in 0 .. N /\ k # 0
    BY <1>1
  <2>2. QED BY <1>8, <2>1, Zenon
<1>11. QED BY <1>9, <1>10, Zenon DEF N, Step, kept

(* Entries with the same id are next to each other. *)
Grouped(s) ==
  \A i, j, l \in DOMAIN s : i < j /\ j < l /\ s[i].id = s[l].id => s[j].id = s[i].id

(* r has the first k elements of s but for repetitions. *)
DedupOf(r, s, k) ==
  /\ \A i \in DOMAIN r : \E j \in 1 .. k : r[i] = s[j]
  /\ \A j \in 1 .. k : \E i \in DOMAIN r : r[i].id = s[j].id
  /\ Grouped(s) => OnceEach(r)

(* One more element, or a repetition of the last one. *)
LEMMA DedupMore ==
  ASSUME NEW T, NEW s \in Seq(T), NEW k \in Nat, k + 1 <= Len(s),
         NEW r \in Seq(T), DedupOf(r, s, k)
  PROVE  LET q == IF k + 1 > 1 /\ s[k + 1].id = s[(k + 1) - 1].id THEN r ELSE Append(r, s[k + 1])
         IN  q \in Seq(T) /\ DedupOf(q, s, k + 1)
<1>1. PICK x : x = s[k + 1]
  BY Zenon
<1>2. x \in T
  BY <1>1
<1>3. \A j : j \in 1 .. (k + 1) <=> j \in 1 .. k \/ j = k + 1
  OBVIOUS
<1>4. CASE k + 1 > 1 /\ s[k + 1].id = s[(k + 1) - 1].id
  <2>1. k \in 1 .. k /\ s[k + 1].id = s[k].id
    BY <1>4
  <2>2. \A i \in DOMAIN r : \E j \in 1 .. (k + 1) : r[i] = s[j]
    <3>1. \A i \in DOMAIN r : \E j \in 1 .. k : r[i] = s[j]
      BY Zenon DEF DedupOf
    <3>2. QED BY <1>3, <3>1, Zenon
  <2>3. ASSUME NEW j \in 1 .. (k + 1) PROVE \E i \in DOMAIN r : r[i].id = s[j].id
    <3>1. \A m \in 1 .. k : \E i \in DOMAIN r : r[i].id = s[m].id
      BY Zenon DEF DedupOf
    <3>2. CASE j \in 1 .. k
      BY <3>1, <3>2, Zenon
    <3>3. CASE j = k + 1
      <4>1. PICK i \in DOMAIN r : r[i].id = s[k].id
        BY <2>1, <3>1, Zenon
      <4>2. QED BY <2>1, <3>3, <4>1, Zenon
    <3>4. QED BY <1>3, <3>2, <3>3, Zenon
  <2>4. DedupOf(r, s, k + 1)
    BY <2>2, <2>3, Zenon DEF DedupOf
  <2>5. QED BY <1>4, <2>4, Zenon
<1>5. CASE ~(k + 1 > 1 /\ s[k + 1].id = s[(k + 1) - 1].id)
  <2>1. PICK q : q = Append(r, x)
    BY Zenon
  <2>2. PICK n : n = Len(r) + 1
    BY Zenon
  <2>3. /\ q \in Seq(T)
        /\ \A i : i \in DOMAIN q <=> i \in DOMAIN r \/ i = n
        /\ \A i \in DOMAIN r : q[i] = r[i] /\ i # n
        /\ q[n] = x
    BY <1>2, <2>1, <2>2
  <2>4. ASSUME NEW i \in DOMAIN q PROVE \E j \in 1 .. (k + 1) : q[i] = s[j]
    <3>1. CASE i \in DOMAIN r
      <4>1. PICK j \in 1 .. k : r[i] = s[j]
        BY <3>1, Zenon DEF DedupOf
      <4>2. QED BY <1>3, <2>3, <3>1, <4>1, Zenon
    <3>2. CASE i = n
      BY <1>1, <1>3, <2>3, <3>2, Zenon
    <3>3. QED BY <2>3, <3>1, <3>2, Zenon
  <2>5. ASSUME NEW j \in 1 .. (k + 1) PROVE \E i \in DOMAIN q : q[i].id = s[j].id
    <3>1. CASE j \in 1 .. k
      <4>1. PICK i \in DOMAIN r : r[i].id = s[j].id
        BY <3>1, Zenon DEF DedupOf
      <4>2. q[i].id = s[j].id /\ i \in DOMAIN q
        BY <2>3, <4>1, Zenon
      <4>3. QED BY <4>2, Zenon
    <3>2. CASE j = k + 1
      BY <1>1, <2>3, <3>2, Zenon
    <3>3. QED BY <1>3, <3>1, <3>2, Zenon
  <2>6. ASSUME Grouped(s) PROVE OnceEach(q)
    <3>1. ASSUME NEW m \in DOMAIN r PROVE r[m].id # x.id
      <4>1. PICK j \in 1 .. k : r[m] = s[j]
        BY Zenon DEF DedupOf
      <4>2. /\ k + 1 > 1 /\ (k + 1) - 1 = k
            /\ j \in DOMAIN s /\ k \in DOMAIN s /\ k + 1 \in DOMAIN s
            /\ k < k + 1 /\ (j = k \/ j < k)
        OBVIOUS
      <4>3. s[k + 1].id # s[k].id
        BY <1>5, <4>2, Zenon
      <4>4. CASE j = k
        BY <1>1, <4>1, <4>3, <4>4, Zenon
      <4>5. CASE j < k
        BY <1>1, <2>6, <4>1, <4>2, <4>3, <4>5, Zenon DEF Grouped
      <4>6. QED BY <4>2, <4>4, <4>5, Zenon
    <3>2. OnceEach(r)
      BY <2>6, Zenon DEF DedupOf
    <3>3. QED BY <2>3, <3>1, <3>2, Zenon DEF OnceEach
  <2>7. DedupOf(q, s, k + 1)
    BY <2>4, <2>5, <2>6, Zenon DEF DedupOf
  <2>8. QED BY <1>1, <1>5, <2>1, <2>3, <2>7, Zenon
<1>6. QED BY <1>4, <1>5, Zenon

(* Deduped keeps every id, and each once where equal ids are neighbours. *)
LEMMA DedupedOf ==
  ASSUME NEW T, NEW s \in Seq(T)
  PROVE  Deduped(s) \in Seq(T) /\ DedupOf(Deduped(s), s, Len(s))
<1> DEFINE kept == DedupedLoop(s)
           N == Len(s)
           P == {k \in Nat : k <= N => kept[k] \in Seq(T) /\ DedupOf(kept[k], s, k)}
<1>1. /\ Deduped(s) = kept[N]
      /\ kept[0] = <<>>
      /\ \A k \in 1 .. N : kept[k] = IF k > 1 /\ s[k].id = s[k - 1].id THEN kept[k - 1]
                                     ELSE Append(kept[k - 1], s[k])
  BY DedupedRuns, Zenon
<1> HIDE DEF kept
<1>2. N \in Nat /\ N <= N
  OBVIOUS
<1>3. 0 \in P
  <2>1. <<>> \in Seq(T) /\ DedupOf(<<>>, s, 0)
    BY DEF DedupOf, OnceEach
  <2>2. QED BY <1>1, <2>1, Zenon
<1>4. ASSUME NEW k \in P PROVE k + 1 \in P
  <2>1. SUFFICES ASSUME k + 1 <= N
                 PROVE  kept[k + 1] \in Seq(T) /\ DedupOf(kept[k + 1], s, k + 1)
    OBVIOUS
  <2>2. k \in Nat /\ k + 1 \in 1 .. N /\ (k + 1) - 1 = k /\ k <= N
    BY <1>2, <2>1
  <2>3. kept[k] \in Seq(T) /\ DedupOf(kept[k], s, k)
    BY <2>2
  <2>4. kept[k + 1] = IF k + 1 > 1 /\ s[k + 1].id = s[(k + 1) - 1].id THEN kept[k]
                      ELSE Append(kept[k], s[k + 1])
    BY <1>1, <2>2
  <2>5. PICK r : r = kept[k]
    BY Zenon
  <2>6. LET q == IF k + 1 > 1 /\ s[k + 1].id = s[(k + 1) - 1].id THEN r ELSE Append(r, s[k + 1])
        IN  q \in Seq(T) /\ DedupOf(q, s, k + 1)
    BY <2>1, <2>2, <2>3, <2>5, DedupMore, Zenon
  <2>7. QED BY <2>4, <2>5, <2>6, Zenon
<1>5. P \subseteq Nat
  OBVIOUS
<1> HIDE DEF P
<1>6. N \in P
  BY <1>2, <1>3, <1>4, <1>5, Induction
<1> HIDE DEF N
<1>7. QED BY <1>1, <1>2, <1>6, Zenon DEF P, N
-----------------------------------------------------------------------------
(* The assumption on the constants, one by one. *)
LEMMA ConstantTypes ==
  /\ Bits \in Nat \ {0} /\ K \in Nat \ {0} /\ Count \in Nat \ {0} /\ Alpha \in Nat \ {0}
  /\ MaxRounds \in Nat \ {0} /\ CommunityTtl \in Nat \ {0} /\ SlotTtl \in Nat \ {0}
  /\ MaxDials \in Nat /\ MaxOps \in Nat /\ MaxTime \in Nat
  /\ \A n \in Nodes : n \in Keys
  /\ \A k \in Kinds : Target[k] \in Keys
BY ConstantsAssumption

(* A distance is a bit vector as a key is. *)
LEMMA DistanceType ==
  ASSUME NEW a \in Keys, NEW b \in Keys
  PROVE  Distance(a, b) \in Keys
BY DEF Distance, Keys

(* Different keys differ in a bit. *)
LEMMA KeysDiffer ==
  ASSUME NEW a \in Keys, NEW b \in Keys, a # b
  PROVE  \E i \in 1 .. Bits : a[i] # b[i]
<1>1. PICK D : D = 1 .. Bits
  BY Zenon
<1>2. a \in [D -> {0, 1}] /\ b \in [D -> {0, 1}]
  BY <1>1, Zenon DEF Keys
<1>3. \E i \in D : a[i] # b[i]
  BY <1>2
<1>4. QED BY <1>1, <1>3, Zenon

(* Two keys at the same distance from a third are the same. *)
LEMMA DistanceTells ==
  ASSUME NEW t \in Keys, NEW a \in Keys, NEW b \in Keys, Distance(t, a) = Distance(t, b)
  PROVE  a = b
<1>1. ASSUME NEW i \in 1 .. Bits PROVE a[i] = b[i]
  <2>1. Distance(t, a)[i] = Distance(t, b)[i]
    OBVIOUS
  <2>2. (IF t[i] = a[i] THEN 0 ELSE 1) = (IF t[i] = b[i] THEN 0 ELSE 1)
    BY <2>1 DEF Distance
  <2>3. t[i] \in {0, 1} /\ a[i] \in {0, 1} /\ b[i] \in {0, 1}
    BY DEF Keys
  <2>4. QED BY <2>2, <2>3
<1>2. QED BY <1>1, KeysDiffer, Zenon

(* The order of distances is irreflexive and transitive. *)
LEMMA SmallerStrict ==
  /\ \A d \in Keys : ~Smaller(d, d)
  /\ \A d, e, f \in Keys : Smaller(d, e) /\ Smaller(e, f) => Smaller(d, f)
<1>1. ASSUME NEW d \in Keys PROVE ~Smaller(d, d)
  <2>1. \A i \in 1 .. Bits : d[i] \in Nat
    BY DEF Keys
  <2>2. \A i \in 1 .. Bits : ~(d[i] < d[i])
    BY <2>1
  <2>3. QED BY <2>2, Zenon DEF Smaller
<1>2. ASSUME NEW d \in Keys, NEW e \in Keys, NEW f \in Keys, Smaller(d, e), Smaller(e, f)
      PROVE  Smaller(d, f)
  <2>1. PICK i \in 1 .. Bits : d[i] < e[i] /\ \A j \in 1 .. Bits : j < i => d[j] = e[j]
    BY <1>2, Zenon DEF Smaller
  <2>2. PICK k \in 1 .. Bits : e[k] < f[k] /\ \A j \in 1 .. Bits : j < k => e[j] = f[j]
    BY <1>2, Zenon DEF Smaller
  <2>3. \A j \in 1 .. Bits : d[j] \in Nat /\ e[j] \in Nat /\ f[j] \in Nat
    BY DEF Keys
  <2>4. CASE i < k
    <3>1. d[i] < f[i]
      BY <2>1, <2>2, <2>4
    <3>2. \A j \in 1 .. Bits : j < i => d[j] = f[j]
      BY <2>1, <2>2, <2>4
    <3>3. QED BY <3>1, <3>2, Zenon DEF Smaller
  <2>5. CASE k < i
    <3>1. d[k] < f[k]
      BY <2>1, <2>2, <2>5
    <3>2. \A j \in 1 .. Bits : j < k => d[j] = f[j]
      BY <2>1, <2>2, <2>5
    <3>3. QED BY <3>1, <3>2, Zenon DEF Smaller
  <2>6. CASE i = k
    <3>1. d[k] < f[k]
      BY <2>1, <2>2, <2>3, <2>6
    <3>2. \A j \in 1 .. Bits : j < k => d[j] = f[j]
      BY <2>1, <2>2, <2>6
    <3>3. QED BY <3>1, <3>2, Zenon DEF Smaller
  <2>7. QED BY <2>4, <2>5, <2>6
<1>3. QED BY <1>1, <1>2, Zenon

(* The order of distances is total. *)
LEMMA SmallerTotal ==
  ASSUME NEW d \in Keys, NEW e \in Keys, d # e
  PROVE  Smaller(d, e) \/ Smaller(e, d)
<1> DEFINE D == {i \in 1 .. Bits : d[i] # e[i]}
<1>1. D # {}
  BY KeysDiffer
<1>2. D \in SUBSET Nat
  BY ConstantTypes
<1>3. PICK m \in D : \A i \in D : m <= i
  <2> HIDE DEF D
  <2>1. QED BY <1>1, <1>2, Least, Zenon
<1>4. \A j \in 1 .. Bits : j < m => d[j] = e[j]
  <2>1. \A j \in 1 .. Bits : j < m => ~(m <= j)
    BY <1>2
  <2>2. QED BY <1>3, <2>1, Zenon
<1>5. d[m] < e[m] \/ e[m] < d[m]
  BY DEF Keys
<1>6. m \in 1 .. Bits
  OBVIOUS
<1>7. QED BY <1>4, <1>5, <1>6, Zenon DEF Smaller

(* Another node's id belongs into a bucket of the table (bucket_index). *)
LEMMA BucketExists ==
  ASSUME NEW n \in Keys, NEW m \in Keys, n # m
  PROVE  BucketIndex(Distance(n, m)) \in 0 .. Bits - 1
<1>1. PICK d : d = Distance(n, m)
  BY Zenon
<1> DEFINE D == {i \in 1 .. Bits : d[i] = 1}
           First1(i) == d[i] = 1 /\ \A j \in 1 .. Bits : j < i => d[j] = 0
<1>2. d \in Keys
  BY <1>1, DistanceType
<1>3. D # {}
  <2>1. PICK i \in 1 .. Bits : n[i] # m[i]
    BY KeysDiffer, Zenon
  <2>2. d[i] = 1
    BY <1>1, <2>1 DEF Distance
  <2>3. QED BY <2>2
<1>4. D \in SUBSET Nat
  BY ConstantTypes
<1>5. PICK i \in D : \A j \in D : i <= j
  <2> HIDE DEF D
  <2>1. QED BY <1>3, <1>4, Least, Zenon
<1>6. ASSUME NEW j \in 1 .. Bits, j < i PROVE d[j] = 0
  <2>1. ~(i <= j)
    BY <1>4, <1>6
  <2>2. d[j] # 1
    BY <1>5, <2>1, Zenon
  <2>3. QED BY <1>2, <2>2 DEF Keys
<1>7. \E k \in 1 .. Bits : First1(k)
  BY <1>6, Zenon
<1>8. (CHOOSE k \in 1 .. Bits : First1(k)) \in 1 .. Bits
  <2> HIDE DEF First1
  <2>1. QED BY <1>7, Zenon
<1>9. PICK c : c = CHOOSE k \in 1 .. Bits : First1(k)
  BY Zenon
<1>10. BucketIndex(d) = Bits - c
  BY <1>9 DEF BucketIndex
<1>11. c \in 1 .. Bits
  BY <1>8, <1>9, Zenon
<1>12. QED BY <1>1, <1>10, <1>11, ConstantTypes

(* Being nearer to a key is a strict order of entries. *)
LEMMA NearerStrict ==
  ASSUME NEW target \in Keys
  PROVE  StrictOrder(Nearer(target), Entries)
<1>1. \A x, y \in Entries :
        <<x, y>> \in Nearer(target) <=> Smaller(Distance(target, x.id), Distance(target, y.id))
  BY DEF Nearer
<1>2. \A x \in Entries : Distance(target, x.id) \in Keys
  <2>1. \A x \in Entries : x.id \in Keys
    BY ConstantTypes DEF Entries
  <2>2. QED BY <2>1, DistanceType, Zenon
<1>3. QED BY <1>1, <1>2, SmallerStrict, Zenon DEF StrictOrder

(* A list in order of distance has the entries of a node next to each other. *)
LEMMA NearerGroups ==
  ASSUME NEW target \in Keys, NEW s \in Seq(Entries), Ordered(s, Nearer(target))
  PROVE  Grouped(s)
<1>1. SUFFICES ASSUME NEW i \in DOMAIN s, NEW j \in DOMAIN s, NEW l \in DOMAIN s,
                      i < j, j < l, s[i].id = s[l].id, s[j].id # s[i].id
               PROVE  FALSE
  BY Zenon DEF Grouped
<1>2. \A x, y \in Entries :
        <<x, y>> \in Nearer(target) <=> Smaller(Distance(target, x.id), Distance(target, y.id))
  BY DEF Nearer
<1>3. s[i] \in Entries /\ s[j] \in Entries /\ s[l] \in Entries
  OBVIOUS
<1>4. s[i].id \in Keys /\ s[j].id \in Keys
  BY <1>3, ConstantTypes DEF Entries
<1>5. PICK a, b : a = Distance(target, s[i].id) /\ b = Distance(target, s[j].id)
  BY Zenon
<1>6. a \in Keys /\ b \in Keys
  BY <1>4, <1>5, DistanceType, Zenon
<1>7. a # b
  BY <1>1, <1>4, <1>5, DistanceTells, Zenon
<1>8. Smaller(a, b) \/ Smaller(b, a)
  BY <1>6, <1>7, SmallerTotal, Zenon
<1>9. ~Smaller(b, a)
  BY <1>1, <1>2, <1>3, <1>5, Zenon DEF Ordered
<1>10. ~Smaller(a, b)
  <2>1. <<s[l], s[j]>> \notin Nearer(target)
    BY <1>1, Zenon DEF Ordered
  <2>2. Distance(target, s[l].id) = a
    BY <1>1, <1>5, Zenon
  <2>3. QED BY <1>2, <1>3, <1>5, <2>1, <2>2, Zenon
<1>11. QED BY <1>8, <1>9, <1>10
-----------------------------------------------------------------------------
Tables == [0 .. Bits - 1 -> Seq(Entries)]

BucketOk(n, i, b) ==
  /\ Len(b) <= K /\ OnceEach(b)
  /\ \A j \in DOMAIN b : b[j].id # n /\ BucketIndex(Distance(n, b[j].id)) = i

(* A table of n: each bucket has at most K entries, of different nodes other than
   n, that are in it by their distance. *)
TableOk(n, t) == t \in Tables /\ \A i \in 0 .. Bits - 1 : BucketOk(n, i, t[i])

(* What upsert makes of a bucket. *)
Upserted(q, bucket, e) ==
  /\ Len(q) <= K /\ OnceEach(q)
  /\ \A i \in DOMAIN q : q[i] = e \/ \E j \in DOMAIN bucket : q[i] = bucket[j]

(* An entry of a new id appended leaves each id once. *)
LEMMA AppendedOnce ==
  ASSUME NEW T, NEW s \in Seq(T), NEW e \in T, OnceEach(s), e.id \notin Ids(s)
  PROVE  OnceEach(Append(s, e))
<1>1. PICK q : q = Append(s, e)
  BY Zenon
<1>2. PICK n : n = Len(s) + 1
  BY Zenon
<1>3. /\ \A i : i \in DOMAIN q <=> i \in DOMAIN s \/ i = n
      /\ \A i \in DOMAIN s : q[i] = s[i]
      /\ q[n] = e
  BY <1>1, <1>2
<1>4. \A i \in DOMAIN s : s[i].id # e.id
  BY Zenon DEF Ids
<1>5. QED BY <1>1, <1>3, <1>4, Zenon DEF OnceEach

(* KBucket.upsert never exceeds K nor lists a node twice. *)
LEMMA UpsertOk ==
  ASSUME NEW bucket \in Seq(Entries), Len(bucket) <= K, OnceEach(bucket), NEW e \in Entries
  PROVE  Upsert(bucket, e) \in Seq(Entries) /\ Upserted(Upsert(bucket, e), bucket, e)
<1>1. ASSUME NEW s \in Seq(Entries), Len(s) < K, OnceEach(s), e.id \notin Ids(s),
             \A i \in DOMAIN s : \E j \in DOMAIN bucket : s[i] = bucket[j]
      PROVE  Append(s, e) \in Seq(Entries) /\ Upserted(Append(s, e), bucket, e)
  <2>1. PICK q : q = Append(s, e)
    BY Zenon
  <2>2. q \in Seq(Entries) /\ Len(q) <= K
    BY <1>1, <2>1, ConstantTypes
  <2>3. OnceEach(q)
    BY <1>1, <2>1, AppendedOnce, Zenon
  <2>4. \A i \in DOMAIN q : q[i] = e \/ (i \in DOMAIN s /\ q[i] = s[i])
    <3>1. \A i \in DOMAIN q : i \in DOMAIN s \/ i = Len(s) + 1
      BY <2>1
    <3>2. q[Len(s) + 1] = e /\ \A i \in DOMAIN s : q[i] = s[i]
      BY <2>1
    <3>3. QED BY <3>1, <3>2, Zenon
  <2>5. \A i \in DOMAIN q : q[i] = e \/ \E j \in DOMAIN bucket : q[i] = bucket[j]
    BY <1>1, <2>4, Zenon
  <2>6. QED BY <2>1, <2>2, <2>3, <2>5, Zenon DEF Upserted
<1>2. CASE e.id \notin Ids(bucket) /\ Len(bucket) >= K
  <2>1. PICK s : s = Tail(bucket)
    BY Zenon
  <2>2. /\ s \in Seq(Entries) /\ Len(s) < K
        /\ \A i \in DOMAIN s : i \in Nat /\ i + 1 \in DOMAIN bucket /\ s[i] = bucket[i + 1]
    BY <1>2, <2>1, ConstantTypes
  <2>3. \A i \in DOMAIN s : \E j \in DOMAIN bucket : s[i] = bucket[j]
    BY <2>2, Zenon
  <2>4. e.id \notin Ids(s)
    <3>1. \A j \in DOMAIN bucket : bucket[j].id # e.id
      BY <1>2, Zenon DEF Ids
    <3>2. \A i \in DOMAIN s : s[i].id # e.id
      BY <2>3, <3>1, Zenon
    <3>3. QED BY <3>2, Zenon DEF Ids
  <2>5. \A i, j \in DOMAIN s : i + 1 = j + 1 => i = j
    BY <2>2
  <2>6. OnceEach(s)
    BY <2>2, <2>5, Zenon DEF OnceEach
  <2>7. Append(s, e) \in Seq(Entries) /\ Upserted(Append(s, e), bucket, e)
    BY <1>1, <2>2, <2>3, <2>4, <2>6, Zenon
  <2>8. QED BY <1>2, <2>1, <2>7, Zenon DEF Upsert
<1>3. CASE ~(e.id \notin Ids(bucket) /\ Len(bucket) >= K)
  <2>1. PICK O : O = Others(e)
    BY Zenon
  <2>2. PICK s : s = Only(bucket, O)
    BY Zenon
  <2>3. s \in Seq(Entries) /\ Selected(s, bucket, O)
    BY <2>2, OnlySelects, Zenon
  <2>4. \A x \in Entries : x \in O <=> x.id # e.id
    BY <2>1 DEF Others
  <2>5. e.id \notin Ids(s)
    <3>1. \A i \in DOMAIN s : s[i] \in Entries /\ s[i] \in O
      BY <2>3 DEF Selected
    <3>2. QED BY <2>4, <3>1, Zenon DEF Ids
  <2>6. Len(s) < K
    <3>1. CASE e.id \in Ids(bucket)
      <4>1. PICK j \in DOMAIN bucket : bucket[j].id = e.id
        BY <3>1, Zenon DEF Ids
      <4>2. bucket[j] \in Entries
        OBVIOUS
      <4>3. bucket[j] \notin O
        BY <2>4, <4>1, <4>2, Zenon
      <4>4. Len(s) < Len(bucket)
        BY <2>3, <4>3, Zenon DEF Selected
      <4>5. QED BY <2>3, <4>4, ConstantTypes
    <3>2. CASE e.id \notin Ids(bucket)
      BY <1>3, <2>3, <3>2, ConstantTypes DEF Selected
    <3>3. QED BY <3>1, <3>2
  <2>7. OnceEach(s) /\ \A i \in DOMAIN s : \E j \in DOMAIN bucket : s[i] = bucket[j]
    BY <2>3, Zenon DEF Selected
  <2>8. Append(s, e) \in Seq(Entries) /\ Upserted(Append(s, e), bucket, e)
    BY <1>1, <2>3, <2>5, <2>6, <2>7, Zenon
  <2>9. QED BY <1>3, <2>1, <2>2, <2>8, Zenon DEF Upsert
<1>4. QED BY <1>2, <1>3, Zenon

(* add_peer keeps a table in order. *)
LEMMA AddPeerOk ==
  ASSUME NEW n \in Nodes, NEW t, TableOk(n, t), NEW e \in Entries
  PROVE  TableOk(n, AddPeer(n, t, e))
<1>1. CASE e.id = n
  BY <1>1, Zenon DEF AddPeer
<1>2. CASE e.id # n
  <2>1. e.id \in Keys /\ n \in Keys
    BY ConstantTypes DEF Entries
  <2>2. PICK b : b = BucketIndex(Distance(n, e.id))
    BY Zenon
  <2>3. b \in 0 .. Bits - 1
    BY <1>2, <2>1, <2>2, BucketExists, Zenon
  <2>4. PICK old : old = t[b]
    BY Zenon
  <2>5. old \in Seq(Entries) /\ BucketOk(n, b, old)
    BY <2>3, <2>4 DEF TableOk, Tables
  <2>6. PICK q : q = Upsert(old, e)
    BY Zenon
  <2>7. q \in Seq(Entries) /\ Upserted(q, old, e)
    BY <2>5, <2>6, UpsertOk, Zenon DEF BucketOk
  <2>8. BucketOk(n, b, q)
    <3>1. ASSUME NEW i \in DOMAIN q
          PROVE  q[i].id # n /\ BucketIndex(Distance(n, q[i].id)) = b
      <4>1. CASE q[i] = e
        BY <1>2, <2>2, <4>1, Zenon
      <4>2. CASE q[i] # e
        <5>1. PICK j \in DOMAIN old : q[i] = old[j]
          BY <2>7, <4>2, Zenon DEF Upserted
        <5>2. QED BY <2>5, <5>1, Zenon DEF BucketOk
      <4>3. QED BY <4>1, <4>2
    <3>2. QED BY <2>7, <3>1, Zenon DEF BucketOk, Upserted
  <2>9. AddPeer(n, t, e) = [t EXCEPT ![b] = q]
    BY <1>2, <2>2, <2>4, <2>6, Zenon DEF AddPeer
  <2>10. t \in Tables /\ \A i \in 0 .. Bits - 1 : BucketOk(n, i, t[i])
    BY Zenon DEF TableOk
  <2>11. PICK u : u = [t EXCEPT ![b] = q]
    BY Zenon
  <2>12. u \in Tables /\ u[b] = q /\ \A i \in 0 .. Bits - 1 : i # b => u[i] = t[i]
    BY <2>3, <2>7, <2>10, <2>11 DEF Tables
  <2>13. QED BY <2>8, <2>9, <2>10, <2>11, <2>12, Zenon DEF TableOk
<1>3. QED BY <1>1, <1>2

(* The loop of AddPeers. *)
AddPeersLoop(n, t, entries) ==
  CHOOSE after : after = [k \in 0 .. Len(entries) |->
    IF k = 0 THEN t
    ELSE AddPeer(n, after[k - 1], entries[k])]

(* AddPeers computes what its loop does. *)
LEMMA AddPeersRuns ==
  ASSUME NEW n \in Nodes, NEW t, TableOk(n, t), NEW entries \in Seq(Entries)
  PROVE  LET after == AddPeersLoop(n, t, entries)
         IN  /\ AddPeers(n, t, entries) = after[Len(entries)]
             /\ after[0] = t
             /\ \A k \in 1 .. Len(entries) :
                  after[k] = AddPeer(n, after[k - 1], entries[k])
<1> DEFINE N == Len(entries)
           Step(k, x) == AddPeer(n, x, entries[k])
           Q == {u \in Tables : TableOk(n, u)}
           G == [k \in Nat |-> [x \in Q |-> IF k \in 1 .. N THEN Step(k, x) ELSE x]]
           after == AddPeersLoop(n, t, entries)
<1>1. N \in Nat
  OBVIOUS
<1>2. ASSUME NEW k \in 1 .. N, NEW x \in Q PROVE Step(k, x) \in Q
  <2>1. PICK e : e = entries[k]
    BY Zenon
  <2>2. e \in Entries
    BY <2>1
  <2>3. TableOk(n, AddPeer(n, x, e))
    BY <2>2, AddPeerOk, Zenon
  <2>4. QED BY <2>1, <2>3, Zenon DEF TableOk
<1>3. t \in Q
  BY Zenon DEF TableOk
<1> HIDE DEF N, Step, Q, after
<1>4. G \in [Nat -> [Q -> Q]]
  BY <1>2
<1>5. PICK f \in [0 .. N -> Q] : f[0] = t /\ \A k \in 1 .. N : f[k] = G[k][f[k - 1]]
  <2> HIDE DEF G
  <2>1. Loops(N, Q, t, G)
    BY <1>1, <1>3, <1>4, LoopExists, Zenon
  <2>2. QED BY <2>1, Zenon DEF Loops
<1>6. ASSUME NEW k \in 1 .. N
      PROVE  f[k] = Step(k, f[k - 1])
  <2>1. k \in Nat /\ f[k - 1] \in Q
    BY <1>1
  <2>2. QED BY <1>5, <2>1, Zenon
<1>7. f = [k \in 0 .. N |-> IF k = 0 THEN t ELSE Step(k, f[k - 1])]
  BY <1>1, <1>5, <1>6
<1>8. after = [k \in 0 .. N |-> IF k = 0 THEN t ELSE Step(k, after[k - 1])]
  BY <1>7, Zenon DEF AddPeersLoop, N, Step, after
<1>9. AddPeers(n, t, entries) = after[N]
  BY DEF AddPeers, AddPeersLoop, N, after
<1>10. after[0] = t /\ \A k \in 1 .. N : after[k] = Step(k, after[k - 1])
  <2>1. 0 \in 0 .. N /\ \A k \in 1 .. N : k \in 0 .. N /\ k # 0
    BY <1>1
  <2>2. QED BY <1>8, <2>1, Zenon
<1>11. QED BY <1>9, <1>10, Zenon DEF N, Step, after

(* Any number of add_peer calls keeps a table in order. *)
LEMMA AddPeersOk ==
  ASSUME NEW n \in Nodes, NEW t, TableOk(n, t), NEW entries \in Seq(Entries)
  PROVE  TableOk(n, AddPeers(n, t, entries))
<1> DEFINE after == AddPeersLoop(n, t, entries)
           N == Len(entries)
           P == {k \in Nat : k <= N => TableOk(n, after[k])}
<1>1. /\ AddPeers(n, t, entries) = after[N]
      /\ after[0] = t
      /\ \A k \in 1 .. N : after[k] = AddPeer(n, after[k - 1], entries[k])
  BY AddPeersRuns
<1> HIDE DEF after
<1>2. N \in Nat /\ N <= N
  OBVIOUS
<1>3. 0 \in P
  <2>1. TableOk(n, t)
    OBVIOUS
  <2>2. QED BY <1>1, <2>1, Zenon
<1>4. ASSUME NEW k \in P PROVE k + 1 \in P
  <2>1. SUFFICES ASSUME k + 1 <= N
                 PROVE  TableOk(n, after[k + 1])
    OBVIOUS
  <2>2. k \in Nat /\ k + 1 \in 1 .. N /\ (k + 1) - 1 = k /\ k <= N /\ entries[k + 1] \in Entries
    BY <1>2, <2>1
  <2>3. TableOk(n, after[k])
    BY <2>2
  <2>4. after[k + 1] = AddPeer(n, after[k], entries[k + 1])
    BY <1>1, <2>2
  <2>5. PICK r : r = after[k]
    BY Zenon
  <2>6. TableOk(n, AddPeer(n, r, entries[k + 1]))
    BY <2>1, <2>2, <2>3, <2>5, AddPeerOk, Zenon
  <2>7. QED BY <2>4, <2>5, <2>6, Zenon
<1>5. P \subseteq Nat
  OBVIOUS
<1> HIDE DEF P
<1>6. N \in P
  BY <1>2, <1>3, <1>4, <1>5, Induction
<1> HIDE DEF N
<1>7. QED BY <1>1, <1>2, <1>6, Zenon DEF P, N

(* First returns a prefix. *)
LEMMA FirstOf ==
  ASSUME NEW T, NEW s \in Seq(T), NEW n \in Nat
  PROVE  /\ First(s, n) \in Seq(T)
         /\ Len(First(s, n)) = (IF Len(s) < n THEN Len(s) ELSE n)
         /\ \A i \in DOMAIN First(s, n) : i \in DOMAIN s /\ First(s, n)[i] = s[i]
BY DEF First

(* r has the entries of s, those of a node next to each other. *)
Arranged(r, s) ==
  /\ r \in Seq(Entries)
  /\ \A i \in DOMAIN r : \E j \in DOMAIN s : r[i] = s[j]
  /\ \A j \in DOMAIN s : \E i \in DOMAIN r : r[i] = s[j]
  /\ OnceEach(s) => OnceEach(r)
  /\ Grouped(r)

(* Sorting by distance arranges the entries. *)
LEMMA SortedOk ==
  ASSUME NEW target \in Keys, NEW s \in Seq(Entries), NEW r, r = Sorted(s, Nearer(target))
  PROVE  Arranged(r, s)
<1>1. PICK R : R = Nearer(target)
  BY Zenon
<1>2. r \in Seq(Entries) /\ SortOf(r, s, Len(s), R, Entries)
  BY <1>1, SortedSorts, Zenon
<1>3. DOMAIN s = 1 .. Len(s)
  OBVIOUS
<1>4. Ordered(r, R)
  BY <1>1, <1>2, NearerStrict, Zenon DEF SortOf
<1>5. Grouped(r)
  BY <1>1, <1>2, <1>4, NearerGroups, Zenon
<1>6. QED BY <1>2, <1>3, <1>5, Zenon DEF SortOf, Arranged

(* The closest peers of a table are different nodes. *)
LEMMA ClosestOk ==
  ASSUME NEW n, NEW t, TableOk(n, t), NEW target \in Keys
  PROVE  Closest(t, target) \in Seq(Entries) /\ OnceEach(Closest(t, target))
<1>1. PICK ss : ss = [i \in 1 .. Bits |-> t[i - 1]]
  BY Zenon
<1>2. /\ ss \in Seq(Seq(Entries)) /\ DOMAIN ss = 1 .. Bits
      /\ \A a \in DOMAIN ss : ss[a] = t[a - 1] /\ a - 1 \in 0 .. Bits - 1
  <2>1. \A a \in 1 .. Bits : a - 1 \in 0 .. Bits - 1
    BY ConstantTypes
  <2>2. \A a \in 1 .. Bits : t[a - 1] \in Seq(Entries)
    BY <2>1 DEF TableOk, Tables
  <2>3. ss \in [1 .. Bits -> Seq(Entries)] /\ \A a \in 1 .. Bits : ss[a] = t[a - 1]
    BY <1>1, <2>2
  <2>4. QED BY <2>1, <2>3, ConstantTypes
<1>3. \A a \in DOMAIN ss : BucketOk(n, a - 1, ss[a])
  BY <1>2, Zenon DEF TableOk
<1>4. Apart(ss)
  <2>1. \A a \in DOMAIN ss : OnceEach(ss[a])
    BY <1>3, Zenon DEF BucketOk
  <2>2. ASSUME NEW a \in DOMAIN ss, NEW b \in DOMAIN ss,
               NEW i \in DOMAIN ss[a], NEW j \in DOMAIN ss[b], ss[a][i].id = ss[b][j].id
        PROVE  a = b
    <3>1. BucketIndex(Distance(n, ss[a][i].id)) = a - 1
      BY <1>3, Zenon DEF BucketOk
    <3>2. BucketIndex(Distance(n, ss[b][j].id)) = b - 1
      BY <1>3, Zenon DEF BucketOk
    <3>3. a - 1 = b - 1
      BY <2>2, <3>1, <3>2, Zenon
    <3>4. QED BY <1>2, <3>3, ConstantTypes
  <2>3. QED BY <2>1, <2>2, Zenon DEF Apart
<1>5. PICK s : s = Joined(ss)
  BY Zenon
<1>6. s \in Seq(Entries) /\ OnceEach(s)
  BY <1>2, <1>4, <1>5, JoinedJoins, Zenon DEF JoinOf
<1>7. PICK r : r = Sorted(s, Nearer(target))
  BY Zenon
<1>8. r \in Seq(Entries) /\ OnceEach(r)
  BY <1>6, <1>7, SortedOk, Zenon DEF Arranged
<1>9. PICK q : q = First(r, Count)
  BY Zenon
<1>10. Count \in Nat
  BY ConstantTypes
<1>11. q \in Seq(Entries) /\ \A i \in DOMAIN q : i \in DOMAIN r /\ q[i] = r[i]
  BY <1>8, <1>9, <1>10, FirstOf, Zenon
<1>12. OnceEach(q)
  BY <1>8, <1>11, Zenon DEF OnceEach
<1>13. QED BY <1>1, <1>5, <1>7, <1>9, <1>11, <1>12, Zenon DEF Closest

(* q has each node of the rest and of the closer once. *)
Merged(q, rest, closer) ==
  q \in Seq(Entries) /\ OnceEach(q) /\ Ids(q) = Ids(rest) \cup Ids(closer)

(* The next round's list merges what the drain left with the new peers. *)
LEMMA ToVisitOk ==
  ASSUME NEW rest \in Seq(Entries), NEW closer \in Seq(Entries), NEW target \in Keys,
         NEW q, q = ToVisit(rest, closer, target)
  PROVE  Merged(q, rest, closer)
<1>1. PICK s : s = rest \o closer
  BY Zenon
<1>2. /\ s \in Seq(Entries)
      /\ \A i \in DOMAIN s : \/ i \in DOMAIN rest /\ s[i] = rest[i]
                             \/ i - Len(rest) \in DOMAIN closer /\ s[i] = closer[i - Len(rest)]
      /\ \A i \in DOMAIN rest : i \in DOMAIN s /\ s[i] = rest[i]
  BY <1>1
<1>3. \A j \in DOMAIN closer : j + Len(rest) \in DOMAIN s /\ s[j + Len(rest)] = closer[j]
  BY <1>1
<1>4. Ids(s) = Ids(rest) \cup Ids(closer)
  <2>1. \A i \in DOMAIN s : s[i].id \in Ids(rest) \cup Ids(closer)
    BY <1>2, Zenon DEF Ids
  <2>2. \A i \in DOMAIN rest : rest[i].id \in Ids(s)
    BY <1>2, Zenon DEF Ids
  <2>3. \A i \in DOMAIN closer : closer[i].id \in Ids(s)
    BY <1>3, Zenon DEF Ids
  <2>4. QED BY <2>1, <2>2, <2>3 DEF Ids
<1>5. PICK r : r = Sorted(s, Nearer(target))
  BY Zenon
<1>6. /\ r \in Seq(Entries) /\ Grouped(r)
      /\ \A i \in DOMAIN r : \E j \in DOMAIN s : r[i] = s[j]
      /\ \A j \in DOMAIN s : \E i \in DOMAIN r : r[i] = s[j]
  <2>1. Arranged(r, s)
    BY <1>2, <1>5, SortedOk, Zenon
  <2>2. QED BY <2>1, Zenon DEF Arranged
<1>7. Ids(r) = Ids(s)
  <2>1. \A i \in DOMAIN r : r[i].id \in Ids(s)
    BY <1>6, Zenon DEF Ids
  <2>2. \A i \in DOMAIN s : s[i].id \in Ids(r)
    BY <1>6, Zenon DEF Ids
  <2>3. QED BY <2>1, <2>2 DEF Ids
<1>8. q = Deduped(r)
  BY <1>1, <1>5, Zenon DEF ToVisit
<1>9. q \in Seq(Entries) /\ DedupOf(q, r, Len(r))
  BY <1>6, <1>8, DedupedOf, Zenon
<1>10. DOMAIN r = 1 .. Len(r)
  BY <1>6
<1>11. Ids(q) = Ids(r)
  <2>1. \A i \in DOMAIN q : q[i].id \in Ids(r)
    BY <1>9, <1>10, Zenon DEF Ids, DedupOf
  <2>2. \A i \in DOMAIN r : r[i].id \in Ids(q)
    <3>1. ASSUME NEW i \in DOMAIN r PROVE r[i].id \in Ids(q)
      <4>1. PICK j \in DOMAIN q : q[j].id = r[i].id
        BY <1>9, <1>10, Zenon DEF DedupOf
      <4>2. q[j].id \in Ids(q)
        BY Zenon DEF Ids
      <4>3. QED BY <4>1, <4>2, Zenon
    <3>2. QED BY <3>1, Zenon
  <2>3. QED BY <2>1, <2>2 DEF Ids
<1>12. OnceEach(q)
  BY <1>6, <1>9, Zenon DEF DedupOf
<1>13. QED BY <1>4, <1>7, <1>9, <1>11, <1>12, Zenon DEF Merged
-----------------------------------------------------------------------------
AllTables(t) == t \in [Nodes -> Tables] /\ \A n \in Nodes : TableOk(n, t[n])

(* The records that are not newer than the announcements of their nodes. *)
Fresh(a) == {r \in Peers : a[r.node] # None /\ r.at <= a[r.node]}

HeldOk(c, d, a) == c \in [Nodes -> Seq(Fresh(a))] /\ d \in [Nodes -> SUBSET Fresh(a)]

SlotsOk(s) == s \in [Nodes -> [{"mailbox", "info"} -> Slots \cup {None}]]

ConnOk(c) == c \in [Nodes -> [Nodes -> {"none", "live", "dead"}]]

WalkGood(w) ==
  /\ Ids(w.toVisit) \cap w.visited = {}
  /\ OnceEach(w.toVisit)
  /\ w.told = w.visited \cup Ids(w.toVisit)

WalkOk(w) == w # None => w \in Walks /\ WalkGood(w)

TimesOk(c, a) ==
  /\ c \in 0 .. MaxTime /\ a \in [Nodes -> {None} \cup 0 .. MaxTime]
  /\ \A n \in Nodes : a[n] # None => a[n] <= c

CountsOk == dials \in 0 .. MaxDials /\ ops \in 0 .. MaxOps

(* The inductive invariant. *)
DhtInv ==
  /\ AllTables(table) /\ HeldOk(comm, disk, announced) /\ SlotsOk(slots) /\ ConnOk(conn)
  /\ WalkOk(walk) /\ TimesOk(clock, announced) /\ CountsOk

(* What the invariant says of the properties. *)
LEMMA InvImplies ==
  ASSUME DhtInv
  PROVE  TypeOK /\ WalkComplete /\ CommunityFresh
<1>1. \A r \in Fresh(announced) :
        r \in Peers /\ announced[r.node] # None /\ r.at <= announced[r.node]
  BY DEF Fresh
<1>2. comm \in [Nodes -> Seq(Fresh(announced))] /\ disk \in [Nodes -> SUBSET Fresh(announced)]
  BY DEF DhtInv, HeldOk
<1>3. TypeOK
  <2>1. /\ table \in [Nodes -> [0 .. Bits - 1 -> Seq(Entries)]]
        /\ \A n \in Nodes : \A i \in 0 .. Bits - 1 : BucketOk(n, i, table[n][i])
    BY Zenon DEF DhtInv, AllTables, TableOk, Tables
  <2>2. ASSUME NEW n \in Nodes, NEW i \in 0 .. Bits - 1
        PROVE  /\ Len(table[n][i]) <= K
               /\ \A id \in Ids(table[n][i]) : id # n /\ BucketIndex(Distance(n, id)) = i
    BY <2>1, ZenonT(30) DEF BucketOk, Ids
  <2>3. comm \in [Nodes -> Seq(Peers)] /\ disk \in [Nodes -> SUBSET Peers]
    BY <1>1, <1>2
  <2>4. slots \in [Nodes -> [{"mailbox", "info"} -> Slots \cup {None}]]
    BY DEF DhtInv, SlotsOk
  <2>5. conn \in [Nodes -> [Nodes -> {"none", "live", "dead"}]]
    BY DEF DhtInv, ConnOk
  <2>6. walk \in Walks \cup {None}
    BY DEF DhtInv, WalkOk
  <2>7. clock \in 0 .. MaxTime /\ announced \in [Nodes -> {None} \cup 0 .. MaxTime]
    BY DEF DhtInv, TimesOk
  <2>8. dials \in 0 .. MaxDials /\ ops \in 0 .. MaxOps
    BY DEF DhtInv, CountsOk
  <2>9. QED BY <2>1, <2>2, <2>3, <2>4, <2>5, <2>6, <2>7, <2>8, Zenon DEF TypeOK
<1>4. WalkComplete
  BY Zenon DEF DhtInv, WalkOk, WalkGood, OnceEach, WalkComplete
<1>5. CommunityFresh
  <2>1. ASSUME NEW n \in Nodes, NEW r \in Elements(comm[n]) \cup disk[n]
        PROVE  r \in Fresh(announced)
    <3>1. CASE r \in disk[n]
      BY <1>2, <3>1
    <3>2. CASE r \in Elements(comm[n])
      <4>1. comm[n] \in Seq(Fresh(announced))
        BY <1>2
      <4>2. \A i \in DOMAIN comm[n] : comm[n][i] \in Fresh(announced)
        BY <4>1
      <4>3. QED BY <3>2, <4>2, Zenon DEF Elements
    <3>3. QED BY <3>1, <3>2
  <2>2. QED BY <1>1, <2>1, Zenon DEF CommunityFresh
<1>6. QED BY <1>3, <1>4, <1>5

(* The table of a node that starts. *)
LEMMA NoPeersOk ==
  ASSUME NEW n
  PROVE  TableOk(n, NoPeers)
<1>1. NoPeers \in Tables /\ \A i \in 0 .. Bits - 1 : NoPeers[i] = <<>>
  BY DEF NoPeers, Tables
<1>2. \A i \in 0 .. Bits - 1 : BucketOk(n, i, <<>>)
  BY ConstantTypes DEF BucketOk, OnceEach
<1>3. QED BY <1>1, <1>2, Zenon DEF TableOk

(* The initial state. *)
LEMMA Starts ==
  ASSUME Init
  PROVE  DhtInv
<1>1. AllTables(table)
  <2>1. NoPeers \in Tables
    BY NoPeersOk, Zenon DEF TableOk
  <2>2. table = [n \in Nodes |-> NoPeers]
    BY DEF Init
  <2>3. table \in [Nodes -> Tables] /\ \A n \in Nodes : table[n] = NoPeers
    BY <2>1, <2>2
  <2>4. QED BY <2>3, NoPeersOk, Zenon DEF AllTables
<1>2. HeldOk(comm, disk, announced) /\ SlotsOk(slots) /\ ConnOk(conn) /\ WalkOk(walk)
  BY DEF Init, HeldOk, SlotsOk, ConnOk, WalkOk
<1>3. TimesOk(clock, announced) /\ CountsOk
  BY ConstantTypes DEF Init, TimesOk, CountsOk
<1>4. QED BY <1>1, <1>2, <1>3, Zenon DEF DhtInv

(* Authenticate at the nodes asked keeps their tables in order. *)
LEMMA ContactedOk ==
  ASSUME NEW t, AllTables(t), NEW n \in Nodes, NEW ms
  PROVE  AllTables(Contacted(t, n, ms))
<1>1. PICK u : u = Contacted(t, n, ms)
  BY Zenon
<1>2. PICK e : e = [id |-> n, dialable |-> FALSE]
  BY Zenon
<1>3. e \in Entries
  BY <1>2 DEF Entries
<1>4. u = [m \in Nodes |-> IF m \in ms /\ conn[n][m] = "none" /\ m # n
                           THEN AddPeer(m, t[m], e) ELSE t[m]]
  BY <1>1, <1>2, Zenon DEF Contacted
<1>5. ASSUME NEW m \in Nodes
      PROVE  TableOk(m, t[m]) /\ TableOk(m, AddPeer(m, t[m], e))
  BY <1>3, AddPeerOk, Zenon DEF AllTables
<1>6. ASSUME NEW m \in Nodes PROVE TableOk(m, u[m])
  BY <1>4, <1>5, Zenon
<1>7. \A m \in Nodes : u[m] \in Tables
  BY <1>6, Zenon DEF TableOk
<1>8. u \in [Nodes -> Tables]
  BY <1>4, <1>7, Zenon
<1>9. QED BY <1>1, <1>6, <1>8, Zenon DEF AllTables

(* Caching connections keeps the types. *)
LEMMA CachedOk ==
  ASSUME ConnOk(conn), NEW n \in Nodes, NEW ms
  PROVE  ConnOk(Cached(n, ms))
BY DEF ConnOk, Cached

(* An entry of a node. *)
LEMMA EntriesMade ==
  ASSUME NEW n \in Nodes, NEW b \in BOOLEAN
  PROVE  [id |-> n, dialable |-> b] \in Entries
BY DEF Entries

(* Dial and Bootstrap. *)
LEMMA ConnectedStep ==
  ASSUME DhtInv, NEW n \in Nodes, NEW m \in Nodes, Connected(n, m), ConnOk(conn')
  PROVE  DhtInv'
<1>1. PICK e, f : e = [id |-> m, dialable |-> TRUE] /\ f = [id |-> n, dialable |-> FALSE]
  BY Zenon
<1>2. e \in Entries /\ f \in Entries
  BY <1>1 DEF Entries
<1>3. /\ n # m
      /\ table' = [table EXCEPT ![n] = AddPeer(n, table[n], e), ![m] = AddPeer(m, table[m], f)]
  <2>1. n # m /\ table' = [table EXCEPT ![n] = AddPeer(n, @, e), ![m] = AddPeer(m, @, f)]
    BY <1>1, Zenon DEF Connected
  <2>2. QED BY <2>1
<1>4. TableOk(n, AddPeer(n, table[n], e)) /\ TableOk(m, AddPeer(m, table[m], f))
  BY <1>2, AddPeerOk, Zenon DEF DhtInv, AllTables
<1>5. PICK a, b : a = AddPeer(n, table[n], e) /\ b = AddPeer(m, table[m], f)
  BY Zenon
<1>6. a \in Tables /\ b \in Tables /\ TableOk(n, a) /\ TableOk(m, b)
  BY <1>4, <1>5, Zenon DEF TableOk
<1>7. table \in [Nodes -> Tables] /\ \A x \in Nodes : TableOk(x, table[x])
  BY Zenon DEF DhtInv, AllTables
<1>8. /\ table' \in [Nodes -> Tables] /\ table'[n] = a /\ table'[m] = b
      /\ \A x \in Nodes : x # n /\ x # m => table'[x] = table[x]
  BY <1>3, <1>5, <1>6, <1>7
<1>9. AllTables(table')
  BY <1>6, <1>7, <1>8, Zenon DEF AllTables
<1>10. CountsOk'
  BY ConstantTypes DEF DhtInv, CountsOk, Connected
<1>11. /\ slots' = slots /\ comm' = comm /\ disk' = disk /\ walk' = walk /\ clock' = clock
       /\ announced' = announced
  BY DEF Connected, held
<1>12. QED BY <1>9, <1>10, <1>11, Zenon DEF DhtInv

(* The count of operations. *)
LEMMA Operated ==
  ASSUME CountsOk, Operation, dials' = dials
  PROVE  CountsOk'
BY ConstantTypes DEF CountsOk, Operation

(* The ids of entries are nodes. *)
LEMMA IdsAreNodes ==
  ASSUME NEW s \in Seq(Entries)
  PROVE  Ids(s) \subseteq Nodes
<1>1. \A i \in DOMAIN s : s[i] \in Entries
  OBVIOUS
<1>2. \A e \in Entries : e.id \in Nodes
  BY DEF Entries
<1>3. QED BY <1>1, <1>2, Zenon DEF Ids

(* register_mailbox and register_peer_info. *)
LEMMA RegisterSlotStep ==
  ASSUME DhtInv, NEW n \in Nodes, NEW k \in {"mailbox", "info"}, RegisterSlot(n, k)
  PROVE  DhtInv'
<1>1. PICK ms : /\ Propagates(n, ms)
                /\ slots' = [m \in Nodes |-> IF m \in ms \cup {n}
                                             THEN [slots[m] EXCEPT ![k] = [addr |-> n, at |-> clock]]
                                             ELSE slots[m]]
  BY Zenon DEF RegisterSlot
<1>2. /\ Operation /\ comm' = comm /\ disk' = disk /\ walk' = walk /\ clock' = clock
      /\ announced' = announced /\ dials' = dials
  BY DEF RegisterSlot
<1>3. AllTables(table') /\ ConnOk(conn')
  BY <1>1, ContactedOk, CachedOk, Zenon DEF DhtInv, Propagates
<1>4. SlotsOk(slots')
  <2>1. PICK r : r = [addr |-> n, at |-> clock]
    BY Zenon
  <2>2. r \in Slots
    BY <2>1 DEF Slots, DhtInv, TimesOk
  <2>3. slots \in [Nodes -> [{"mailbox", "info"} -> Slots \cup {None}]]
    BY DEF DhtInv, SlotsOk
  <2>4. \A m \in Nodes : [slots[m] EXCEPT ![k] = r] \in [{"mailbox", "info"} -> Slots \cup {None}]
    BY <2>2, <2>3
  <2>5. slots' = [m \in Nodes |-> IF m \in ms \cup {n} THEN [slots[m] EXCEPT ![k] = r]
                                  ELSE slots[m]]
    BY <1>1, <2>1, Zenon
  <2>6. QED BY <2>3, <2>4, <2>5 DEF SlotsOk
<1>5. CountsOk'
  BY <1>2, Operated, Zenon DEF DhtInv
<1>6. QED BY <1>2, <1>3, <1>4, <1>5, Zenon DEF DhtInv

(* add_community_peer_record adds nothing but the record. *)
LEMMA AddRecordOk ==
  ASSUME NEW F, NEW list \in Seq(F), NEW r \in F
  PROVE  AddRecord(list, r) \in Seq(F)
<1>1. CASE \E i \in DOMAIN list : list[i].node = r.node
  <2>1. AddRecord(list, r) = [i \in DOMAIN list |-> IF list[i].node = r.node THEN r ELSE list[i]]
    BY <1>1, Zenon DEF AddRecord
  <2>2. \A i \in DOMAIN list : list[i] \in F
    OBVIOUS
  <2>3. DOMAIN list = 1 .. Len(list) /\ Len(list) \in Nat
    OBVIOUS
  <2>4. AddRecord(list, r) \in [1 .. Len(list) -> F]
    BY <2>1, <2>2, <2>3, Zenon
  <2>5. QED BY <2>3, <2>4
<1>2. CASE ~\E i \in DOMAIN list : list[i].node = r.node
  <2>1. AddRecord(list, r) = Append(list, r)
    BY <1>2, Zenon DEF AddRecord
  <2>2. QED BY <2>1
<1>3. QED BY <1>1, <1>2

(* announce_community_peer adds nothing but the record, also when it sorts and cuts. *)
LEMMA AnnounceOk ==
  ASSUME NEW F, NEW list \in Seq(F), NEW r \in F
  PROVE  Announce(list, r) \in Seq(F)
<1>1. PICK added : added = AddRecord(list, r)
  BY Zenon
<1>2. added \in Seq(F)
  BY <1>1, AddRecordOk, Zenon
<1>3. PICK s : s = Sorted(added, Newer)
  BY Zenon
<1>4. s \in Seq(F)
  BY <1>2, <1>3, SortedSorts, Zenon
<1>5. K \in Nat
  BY ConstantTypes
<1>6. First(s, K) \in Seq(F)
  BY <1>4, <1>5, FirstOf, Zenon
<1>7. Announce(list, r) = IF Len(added) = Len(list) \/ Len(added) <= K THEN added ELSE First(s, K)
  BY <1>1, <1>3, Zenon DEF Announce
<1>8. QED BY <1>2, <1>6, <1>7, Zenon

(* register_community_peer: the record and the announcement have the same time. *)
LEMMA RegisterCommunityStep ==
  ASSUME DhtInv, NEW n \in Nodes, RegisterCommunity(n)
  PROVE  DhtInv'
<1>1. PICK r : r = [node |-> n, at |-> clock]
  BY Zenon
<1>2. PICK ms : /\ Propagates(n, ms)
                /\ comm' = [m \in Nodes |-> IF m = n THEN Announce(comm[n], r)
                                            ELSE IF m \in ms THEN AddRecord(comm[m], r)
                                            ELSE comm[m]]
  BY <1>1, Zenon DEF RegisterCommunity
<1>3. /\ Operation /\ announced' = [announced EXCEPT ![n] = clock]
      /\ slots' = slots /\ disk' = disk /\ walk' = walk /\ clock' = clock /\ dials' = dials
  BY DEF RegisterCommunity
<1>4. AllTables(table') /\ ConnOk(conn')
  BY <1>2, ContactedOk, CachedOk, Zenon DEF DhtInv, Propagates
<1>5. /\ clock \in 0 .. MaxTime /\ announced \in [Nodes -> {None} \cup 0 .. MaxTime]
      /\ \A m \in Nodes : announced[m] # None => announced[m] <= clock
  BY Zenon DEF DhtInv, TimesOk
<1>6. clock # None
  BY <1>5, ConstantsAssumption
<1>7. /\ announced' \in [Nodes -> {None} \cup 0 .. MaxTime] /\ announced'[n] = clock
      /\ \A m \in Nodes : m # n => announced'[m] = announced[m]
  BY <1>3, <1>5
<1>8. TimesOk(clock', announced')
  <2>1. \A m \in Nodes : announced'[m] # None => announced'[m] <= clock
    BY <1>5, <1>7, ConstantTypes
  <2>2. QED BY <1>3, <1>5, <1>7, <2>1, Zenon DEF TimesOk
<1>9. r \in Fresh(announced')
  BY <1>1, <1>5, <1>6, <1>7, ConstantTypes DEF Fresh, Peers
<1>10. \A x \in Fresh(announced) : x \in Fresh(announced')
  <2>1. SUFFICES ASSUME NEW x \in Fresh(announced) PROVE x \in Fresh(announced')
    OBVIOUS
  <2>2. x \in Peers /\ announced[x.node] # None /\ x.at <= announced[x.node]
    BY DEF Fresh
  <2>3. x.node \in Nodes /\ x.at \in 0 .. MaxTime
    BY <2>2 DEF Peers
  <2>4. announced'[x.node] # None /\ x.at <= announced'[x.node]
    <3>1. CASE x.node = n
      <4>1. announced[n] \in 0 .. MaxTime /\ announced[n] <= clock /\ x.at <= announced[n]
        BY <1>5, <2>2, <3>1
      <4>2. x.at <= clock
        BY <1>5, <2>3, <4>1, ConstantTypes
      <4>3. QED BY <1>6, <1>7, <3>1, <4>2, Zenon
    <3>2. CASE x.node # n
      BY <1>7, <2>2, <2>3, <3>2, Zenon
    <3>3. QED BY <3>1, <3>2
  <2>5. QED BY <2>2, <2>4 DEF Fresh
<1>11. PICK F : F = Fresh(announced')
  BY Zenon
<1>12. comm \in [Nodes -> Seq(F)] /\ disk \in [Nodes -> SUBSET F] /\ r \in F
  BY <1>9, <1>10, <1>11 DEF DhtInv, HeldOk
<1>13. ASSUME NEW m \in Nodes
       PROVE  /\ Announce(comm[n], r) \in Seq(F) /\ AddRecord(comm[m], r) \in Seq(F)
              /\ comm[m] \in Seq(F)
  <2>1. comm[n] \in Seq(F) /\ comm[m] \in Seq(F)
    BY <1>12
  <2>2. QED BY <1>12, <2>1, AnnounceOk, AddRecordOk, Zenon
<1>14. comm' \in [Nodes -> Seq(F)]
  BY <1>2, <1>13, Zenon
<1>15. HeldOk(comm', disk', announced')
  BY <1>3, <1>11, <1>12, <1>14, Zenon DEF HeldOk
<1>16. CountsOk'
  BY <1>3, Operated, Zenon DEF DhtInv
<1>17. QED BY <1>3, <1>4, <1>8, <1>15, <1>16, Zenon DEF DhtInv

(* A lookup starts with the closest peers of the table. *)
LEMMA StartLookupStep ==
  ASSUME DhtInv, NEW n \in Nodes, NEW kind \in Kinds, StartLookup(n, kind)
  PROVE  DhtInv'
<1>1. PICK seeds : seeds = Closest(table[n], Target[kind])
  BY Zenon
<1>2. Target[kind] \in Keys
  BY ConstantTypes, Zenon
<1>3. seeds \in Seq(Entries) /\ OnceEach(seeds)
  BY <1>1, <1>2, ClosestOk, Zenon DEF DhtInv, AllTables
<1>4. PICK w : w = [by |-> n, kind |-> kind, toVisit |-> seeds, visited |-> {},
                    round |-> 0, told |-> Ids(seeds)]
  BY Zenon
<1>5. walk' = w
  BY <1>1, <1>4, Zenon DEF StartLookup
<1>6. Ids(seeds) \subseteq Nodes
  BY <1>3, IdsAreNodes, Zenon
<1>7. w \in Walks
  BY <1>3, <1>4, <1>6, ConstantTypes DEF Walks
<1>8. w.toVisit = seeds /\ w.visited = {} /\ w.told = Ids(seeds)
  BY <1>4
<1>9. WalkOk(walk')
  BY <1>3, <1>5, <1>7, <1>8 DEF WalkOk, WalkGood
<1>10. /\ Operation /\ table' = table /\ slots' = slots /\ comm' = comm /\ disk' = disk
       /\ conn' = conn /\ clock' = clock /\ announced' = announced /\ dials' = dials
  BY DEF StartLookup, held
<1>11. CountsOk'
  BY <1>10, Operated, Zenon DEF DhtInv
<1>12. QED BY <1>9, <1>10, <1>11, Zenon DEF DhtInv

(* What a drain of l elements leaves. *)
LEMMA SubSeqOf ==
  ASSUME NEW T, NEW v \in Seq(T), NEW l \in Nat, l <= Len(v), NEW r, r = SubSeq(v, l + 1, Len(v))
  PROVE  /\ r \in Seq(T) /\ DOMAIN r = 1 .. (Len(v) - l)
         /\ \A i \in DOMAIN r : r[i] = v[i + l] /\ i + l \in DOMAIN v
<1>1. r \in Seq(T) /\ Len(r) = Len(v) - l
  OBVIOUS
<1>2. \A i \in 1 .. (Len(v) - l) : r[i] = v[i + l] /\ i + l \in DOMAIN v
  OBVIOUS
<1>3. QED BY <1>1, <1>2

(* A batch and what the drain leaves of the list: no node is in both. *)
Drained(w, batch, rest) ==
  /\ batch \in Seq(Entries) /\ rest \in Seq(Entries)
  /\ Ids(w.toVisit) = Ids(batch) \cup Ids(rest)
  /\ Ids(rest) \cap (w.visited \cup Ids(batch)) = {}

(* A round's batch is all that the drain takes, since nothing listed was visited. *)
LEMMA BatchOk ==
  ASSUME NEW w \in Walks, WalkGood(w), NEW batch, batch = Batch(w), NEW rest,
         rest = SubSeq(w.toVisit, Len(First(w.toVisit, Alpha)) + 1, Len(w.toVisit))
  PROVE  Drained(w, batch, rest)
<1>1. PICK v : v = w.toVisit
  BY Zenon
<1>2. v \in Seq(Entries) /\ OnceEach(v) /\ Ids(v) \cap w.visited = {}
  BY <1>1 DEF Walks, WalkGood
<1>3. PICK f : f = First(v, Alpha)
  BY Zenon
<1>4. Alpha \in Nat
  BY ConstantTypes
<1>5. /\ f \in Seq(Entries) /\ Len(f) = (IF Len(v) < Alpha THEN Len(v) ELSE Alpha)
      /\ \A i \in DOMAIN f : i \in DOMAIN v /\ f[i] = v[i]
  BY <1>2, <1>3, <1>4, FirstOf, Zenon
<1>6. Len(f) \in Nat /\ Len(f) <= Len(v) /\ Len(v) \in Nat
  BY <1>2, <1>4, <1>5
<1>7. rest = SubSeq(v, Len(f) + 1, Len(v))
  BY <1>1, <1>3, Zenon
<1>8. /\ rest \in Seq(Entries)
      /\ \A i \in DOMAIN rest : /\ i + Len(f) \in DOMAIN v /\ rest[i] = v[i + Len(f)]
                                /\ i \in 1 .. (Len(v) - Len(f))
      /\ \A i \in 1 .. (Len(v) - Len(f)) : i \in DOMAIN rest
  <2>1. PICK l : l = Len(f)
    BY Zenon
  <2>2. l \in Nat /\ l <= Len(v) /\ rest = SubSeq(v, l + 1, Len(v))
    BY <1>6, <1>7, <2>1, Zenon
  <2>3. /\ rest \in Seq(Entries) /\ DOMAIN rest = 1 .. (Len(v) - l)
        /\ \A i \in DOMAIN rest : rest[i] = v[i + l] /\ i + l \in DOMAIN v
    BY <1>2, <2>2, SubSeqOf, Zenon
  <2>4. QED BY <2>1, <2>3, Zenon
<1>9. ASSUME NEW i \in DOMAIN v
      PROVE  \/ i \in DOMAIN f /\ f[i] = v[i]
             \/ \E j \in DOMAIN rest : rest[j] = v[i]
  <2>1. CASE i \in 1 .. Len(f)
    <3>1. i \in DOMAIN f
      BY <1>5, <2>1
    <3>2. QED BY <1>5, <3>1, Zenon
  <2>2. CASE i \notin 1 .. Len(f)
    <3>1. i \in Nat /\ i - Len(f) \in 1 .. (Len(v) - Len(f)) /\ (i - Len(f)) + Len(f) = i
      BY <1>2, <1>6, <2>2
    <3>2. i - Len(f) \in DOMAIN rest /\ rest[i - Len(f)] = v[i]
      BY <1>8, <3>1, Zenon
    <3>3. QED BY <3>2, Zenon
  <2>3. QED BY <2>1, <2>2, Zenon
<1>10. PICK U : U = Unvisited(w.visited)
  BY Zenon
<1>11. \A e \in Entries : e \in U <=> e.id \notin w.visited
  BY <1>10 DEF Unvisited
<1>12. batch = Only(f, U)
  BY <1>1, <1>3, <1>10, Zenon DEF Batch
<1>13. batch \in Seq(Entries) /\ Selected(batch, f, U)
  BY <1>5, <1>12, OnlySelects, Zenon
<1>14. \A i \in DOMAIN f : f[i] \in U
  <2>1. SUFFICES ASSUME NEW i \in DOMAIN f PROVE f[i] \in U
    BY Zenon
  <2>2. i \in DOMAIN v /\ f[i] = v[i]
    BY <1>5, Zenon
  <2>3. f[i].id \in Ids(v)
    BY <2>2, Zenon DEF Ids
  <2>4. f[i] \in Entries
    BY <1>5
  <2>5. QED BY <1>2, <1>11, <2>3, <2>4
<1>15. Ids(batch) = Ids(f)
  <2>1. \A i \in DOMAIN batch : batch[i].id \in Ids(f)
    BY <1>13, Zenon DEF Ids, Selected
  <2>2. ASSUME NEW i \in DOMAIN f PROVE f[i].id \in Ids(batch)
    <3>1. PICK j \in DOMAIN batch : batch[j] = f[i]
      BY <1>13, <1>14, Zenon DEF Selected
    <3>2. batch[j].id \in Ids(batch)
      BY Zenon DEF Ids
    <3>3. QED BY <3>1, <3>2, Zenon
  <2>3. QED BY <2>1, <2>2 DEF Ids
<1>16. Ids(v) = Ids(f) \cup Ids(rest)
  <2>1. ASSUME NEW i \in DOMAIN v PROVE v[i].id \in Ids(f) \cup Ids(rest)
    <3>1. CASE i \in DOMAIN f /\ f[i] = v[i]
      <4>1. f[i].id \in Ids(f)
        BY <3>1, Zenon DEF Ids
      <4>2. QED BY <3>1, <4>1, Zenon
    <3>2. CASE \E j \in DOMAIN rest : rest[j] = v[i]
      <4>1. PICK j \in DOMAIN rest : rest[j] = v[i]
        BY <3>2, Zenon
      <4>2. rest[j].id \in Ids(rest)
        BY Zenon DEF Ids
      <4>3. QED BY <4>1, <4>2, Zenon
    <3>3. QED BY <1>9, <3>1, <3>2, Zenon
  <2>2. ASSUME NEW i \in DOMAIN f PROVE f[i].id \in Ids(v)
    BY <1>5, Zenon DEF Ids
  <2>3. ASSUME NEW i \in DOMAIN rest PROVE rest[i].id \in Ids(v)
    BY <1>8, Zenon DEF Ids
  <2>4. Ids(v) \subseteq Ids(f) \cup Ids(rest)
    BY <2>1, Zenon DEF Ids
  <2>5. Ids(f) \subseteq Ids(v)
    BY <2>2, Zenon DEF Ids
  <2>6. Ids(rest) \subseteq Ids(v)
    BY <2>3, Zenon DEF Ids
  <2>7. QED BY <2>4, <2>5, <2>6
<1>17. Ids(rest) \cap Ids(f) = {}
  <2>1. SUFFICES ASSUME NEW i \in DOMAIN rest, NEW j \in DOMAIN f, rest[i].id = f[j].id
                 PROVE  FALSE
    BY Zenon DEF Ids
  <2>2. i + Len(f) \in DOMAIN v /\ rest[i] = v[i + Len(f)] /\ j \in DOMAIN v /\ f[j] = v[j]
    BY <1>5, <1>8, Zenon
  <2>3. i + Len(f) = j
    BY <1>2, <2>1, <2>2, Zenon DEF OnceEach
  <2>4. i \in Nat \ {0} /\ j \in 1 .. Len(f)
    BY <1>5, <1>8
  <2>5. QED BY <1>6, <2>3, <2>4
<1>18. Ids(rest) \cap w.visited = {}
  BY <1>2, <1>16
<1>19. QED BY <1>1, <1>8, <1>13, <1>15, <1>16, <1>17, <1>18 DEF Drained

(* A record put in a slot. *)
LEMMA SlotKept ==
  ASSUME SlotsOk(slots), TimesOk(clock, announced), NEW n \in Nodes,
         NEW k \in {"mailbox", "info"}, NEW a \in Nodes
  PROVE  SlotsOk([slots EXCEPT ![n] = [@ EXCEPT ![k] = [addr |-> a, at |-> clock]]])
<1>1. PICK r : r = [addr |-> a, at |-> clock]
  BY Zenon
<1>2. r \in Slots
  BY <1>1 DEF Slots, TimesOk
<1>3. slots \in [Nodes -> [{"mailbox", "info"} -> Slots \cup {None}]]
  BY DEF SlotsOk
<1>4. [slots[n] EXCEPT ![k] = r] \in [{"mailbox", "info"} -> Slots \cup {None}]
  BY <1>2, <1>3
<1>5. [slots EXCEPT ![n] = [slots[n] EXCEPT ![k] = r]]
        \in [Nodes -> [{"mailbox", "info"} -> Slots \cup {None}]]
  BY <1>3, <1>4
<1>6. QED BY <1>1, <1>5 DEF SlotsOk

(* A live slot has an address. *)
LEMMA SlotAddress ==
  ASSUME SlotsOk(slots), NEW n \in Nodes, NEW k \in {"mailbox", "info"}, LiveSlot(n, k)
  PROVE  slots[n][k] \in Slots /\ slots[n][k].addr \in Nodes
BY DEF SlotsOk, LiveSlot, Slots

(* The next round of a walk. *)
Onward(w, q, v, c) ==
  [w EXCEPT !.toVisit = q, !.visited = v, !.round = @ + 1, !.told = @ \cup c]

WentOn(x, w, q, v, c) ==
  x \in Walks /\ x.toVisit = q /\ x.visited = v /\ x.told = w.told \cup c

(* The next round is a walk again. *)
LEMMA WalkGoesOn ==
  ASSUME NEW w \in Walks, NEW q \in Seq(Entries), NEW v \in SUBSET Nodes, NEW c \in SUBSET Nodes,
         w.round + 1 \in 0 .. MaxRounds,
         NEW x, x = Onward(w, q, v, c)
  PROVE  WentOn(x, w, q, v, c)
<1>1. x.toVisit = q /\ x.visited = v /\ x.told = w.told \cup c
  BY DEF Walks, Onward
<1>2. x.by = w.by /\ x.kind = w.kind /\ x.round = w.round + 1
  BY DEF Walks, Onward
<1>3. x = [by |-> x.by, kind |-> x.kind, toVisit |-> x.toVisit, visited |-> x.visited,
           round |-> x.round, told |-> x.told]
  BY Zenon DEF Walks, Onward
<1>4. QED BY <1>1, <1>2, <1>3 DEF Walks, WentOn

(* A round of a lookup: new peers are not among the visited, the batch moves there. *)
LEMMA WalkRoundStep ==
  ASSUME DhtInv, NEW ms, WalkRound(ms)
  PROVE  DhtInv'
<1> DEFINE w == walk
           batch == Batch(w)
           rest == SubSeq(w.toVisit, Len(First(w.toVisit, Alpha)) + 1, Len(w.toVisit))
           visited == w.visited \cup Ids(batch)
           contacted == Contacted(table, w.by, ms)
           answers == Only(batch, {e \in Entries : e.id \in ms})
           hits == {i \in DOMAIN answers : HasMailbox(answers[i].id)}
           upTo == IF hits = {} THEN Len(answers)
                   ELSE (CHOOSE i \in hits : \A j \in hits : i <= j) - 1
           peers == [i \in 1 .. upTo |-> Closest(contacted[answers[i].id], Target[w.kind])]
           closer == Only(Joined(peers), Unvisited(visited))
           found == [slots EXCEPT ![w.by].mailbox =
                       [addr |-> slots[answers[upTo + 1].id].mailbox.addr, at |-> clock]]
           next == [w EXCEPT !.toVisit = ToVisit(rest, closer, Target[w.kind]),
                             !.visited = visited, !.round = @ + 1,
                             !.told = @ \cup Ids(closer)]
<1>1. /\ w # None /\ w.round < MaxRounds
      /\ conn' = Cached(w.by, ms)
      /\ table' = [contacted EXCEPT ![w.by] = AddPeers(w.by, contacted[w.by], closer)]
      /\ hits # {} => slots' = found /\ walk' = None
      /\ hits = {} => slots' = slots /\ walk' = next
      /\ comm' = comm /\ disk' = disk /\ clock' = clock /\ announced' = announced
      /\ dials' = dials /\ ops' = ops
  BY Zenon DEF WalkRound
<1> HIDE DEF w, batch, rest, visited, contacted, answers, hits, upTo, peers, closer, found, next
<1>2. w \in Walks /\ WalkGood(w)
  BY <1>1 DEF w, DhtInv, WalkOk
<1>3. /\ w.by \in Nodes /\ w.kind \in Kinds /\ w.toVisit \in Seq(Entries)
      /\ w.visited \in SUBSET Nodes /\ w.round \in 0 .. MaxRounds /\ w.told \in SUBSET Nodes
  BY <1>2 DEF Walks
<1>4. /\ batch \in Seq(Entries) /\ rest \in Seq(Entries)
      /\ Ids(w.toVisit) = Ids(batch) \cup Ids(rest)
      /\ Ids(rest) \cap (w.visited \cup Ids(batch)) = {}
  <2>1. Drained(w, batch, rest)
    BY <1>2, BatchOk, Zenon DEF batch, rest
  <2>2. QED BY <2>1, Zenon DEF Drained
<1>5. AllTables(contacted)
  BY <1>3, ContactedOk, Zenon DEF contacted, DhtInv
<1>6. answers \in Seq(Entries)
  BY <1>4, OnlySelects, Zenon DEF answers
<1>7. \A i \in DOMAIN answers : answers[i].id \in Nodes
  <2>1. \A i \in DOMAIN answers : answers[i] \in Entries
    BY <1>6
  <2>2. \A e \in Entries : e.id \in Nodes
    BY DEF Entries
  <2>3. QED BY <2>1, <2>2, Zenon
<1>8. /\ upTo \in Nat /\ upTo <= Len(answers)
      /\ hits # {} => upTo + 1 \in hits
  <2>1. Len(answers) \in Nat /\ DOMAIN answers = 1 .. Len(answers)
    BY <1>6
  <2>2. CASE hits = {}
    BY <2>1, <2>2 DEF upTo
  <2>3. CASE hits # {}
    <3>1. hits \in SUBSET DOMAIN answers
      BY DEF hits
    <3>2. hits \in SUBSET Nat
      BY <2>1, <3>1
    <3>3. \E m \in hits : \A d \in hits : m <= d
      BY <2>3, <3>2, Least, Zenon
    <3>4. PICK c : c = CHOOSE i \in hits : \A j \in hits : i <= j
      BY Zenon
    <3>5. c \in hits
      BY <3>3, <3>4, Zenon
    <3>6. upTo = c - 1
      BY <2>3, <3>4, Zenon DEF upTo
    <3>7. c \in 1 .. Len(answers)
      BY <2>1, <3>1, <3>5
    <3>8. upTo \in Nat /\ upTo <= Len(answers) /\ upTo + 1 = c
      BY <2>1, <3>6, <3>7
    <3>9. QED BY <3>5, <3>8, Zenon
  <2>4. QED BY <2>2, <2>3
<1>9. Target[w.kind] \in Keys
  BY <1>3, ConstantTypes, Zenon
<1>10. peers \in Seq(Seq(Entries))
  <2>1. ASSUME NEW i \in 1 .. upTo
        PROVE  Closest(contacted[answers[i].id], Target[w.kind]) \in Seq(Entries)
    <3>1. i \in DOMAIN answers
      BY <1>6, <1>8
    <3>2. PICK m : m = answers[i].id
      BY Zenon
    <3>3. TableOk(m, contacted[m])
      BY <1>5, <1>7, <3>1, <3>2, Zenon DEF AllTables
    <3>4. QED BY <1>9, <3>2, <3>3, ClosestOk, Zenon
  <2>2. peers \in [1 .. upTo -> Seq(Entries)]
    BY <2>1, Zenon DEF peers
  <2>3. QED BY <1>8, <2>2
<1>11. closer \in Seq(Entries) /\ Selected(closer, Joined(peers), Unvisited(visited))
  <2>1. Joined(peers) \in Seq(Entries)
    BY <1>10, JoinedJoins, Zenon
  <2>2. QED BY <2>1, OnlySelects, Zenon DEF closer
<1>12. Ids(closer) \cap visited = {}
  <2>1. \A e \in Unvisited(visited) : e.id \notin visited
    BY DEF Unvisited
  <2>2. \A i \in DOMAIN closer : closer[i] \in Unvisited(visited)
    BY <1>11, Zenon DEF Selected
  <2>3. QED BY <2>1, <2>2, Zenon DEF Ids
<1>13. AllTables(table')
  <2>1. PICK u : u = AddPeers(w.by, contacted[w.by], closer)
    BY Zenon
  <2>2. contacted \in [Nodes -> Tables] /\ \A n \in Nodes : TableOk(n, contacted[n])
    BY <1>5, Zenon DEF AllTables
  <2>3. TableOk(w.by, u)
    <3>1. PICK n, t : n = w.by /\ t = contacted[n]
      BY Zenon
    <3>2. n \in Nodes /\ TableOk(n, t)
      BY <1>3, <2>2, <3>1, Zenon
    <3>3. TableOk(n, AddPeers(n, t, closer))
      BY <1>11, <3>2, AddPeersOk, Zenon
    <3>4. QED BY <2>1, <3>1, <3>3, Zenon
  <2>4. u \in Tables
    BY <2>3, Zenon DEF TableOk
  <2>5. table' = [contacted EXCEPT ![w.by] = u]
    BY <1>1, <2>1, Zenon
  <2>6. /\ table' \in [Nodes -> Tables] /\ table'[w.by] = u
        /\ \A n \in Nodes : n # w.by => table'[n] = contacted[n]
    BY <1>3, <2>2, <2>4, <2>5
  <2>7. QED BY <2>2, <2>3, <2>6, Zenon DEF AllTables
<1>14. ConnOk(conn')
  BY <1>1, <1>3, CachedOk, Zenon DEF DhtInv
<1>15. SlotsOk(slots')
  <2>1. CASE hits = {}
    BY <1>1, <2>1, Zenon DEF DhtInv
  <2>2. CASE hits # {}
    <3>1. PICK a : a = answers[upTo + 1].id
      BY Zenon
    <3>2. HasMailbox(a) /\ a \in Nodes
      <4>1. upTo + 1 \in hits
        BY <1>8, <2>2, Zenon
      <4>2. upTo + 1 \in DOMAIN answers /\ HasMailbox(answers[upTo + 1].id)
        BY <4>1, Zenon DEF hits
      <4>3. QED BY <1>7, <3>1, <4>2, Zenon
    <3>3. slots[a].mailbox.addr \in Nodes
      BY <3>2, SlotAddress DEF HasMailbox, DhtInv
    <3>4. PICK b : b = slots[a].mailbox.addr
      BY Zenon
    <3>5. slots' = [slots EXCEPT ![w.by] = [@ EXCEPT !["mailbox"] = [addr |-> b, at |-> clock]]]
      BY <1>1, <2>2, <3>1, <3>4 DEF found
    <3>6. b \in Nodes /\ "mailbox" \in {"mailbox", "info"}
      BY <3>3, <3>4
    <3>7. QED BY <1>3, <3>5, <3>6, SlotKept, Zenon DEF DhtInv
  <2>3. QED BY <2>1, <2>2
<1>16. WalkOk(walk')
  <2>1. CASE hits # {}
    BY <1>1, <2>1, Zenon DEF WalkOk
  <2>2. CASE hits = {}
    <3>1. PICK q : q = ToVisit(rest, closer, Target[w.kind])
      BY Zenon
    <3>2. q \in Seq(Entries) /\ OnceEach(q) /\ Ids(q) = Ids(rest) \cup Ids(closer)
      <4>1. PICK target : target = Target[w.kind]
        BY Zenon
      <4>2. rest \in Seq(Entries) /\ closer \in Seq(Entries) /\ target \in Keys
        BY <1>4, <1>9, <1>11, <4>1, Zenon
      <4>3. Merged(q, rest, closer)
        BY <3>1, <4>1, <4>2, ToVisitOk, Zenon
      <4>4. QED BY <4>3, Zenon DEF Merged
    <3>3. Ids(batch) \subseteq Nodes /\ Ids(closer) \subseteq Nodes
      BY <1>4, <1>11, IdsAreNodes, Zenon
    <3>4. visited = w.visited \cup Ids(batch)
      BY DEF visited
    <3>5. PICK c : c = Ids(closer)
      BY Zenon
    <3>6. next = Onward(w, q, visited, c)
      BY <3>1, <3>5, Zenon DEF next, Onward
    <3>7. w.round + 1 \in 0 .. MaxRounds
      BY <1>1, <1>3, ConstantTypes
    <3>8. visited \in SUBSET Nodes /\ c \in SUBSET Nodes
      BY <1>3, <3>3, <3>4, <3>5
    <3>9. next \in Walks /\ next.toVisit = q /\ next.visited = visited /\ next.told = w.told \cup c
      <4>1. WentOn(next, w, q, visited, c)
        BY <1>2, <3>2, <3>6, <3>7, <3>8, WalkGoesOn, Zenon
      <4>2. QED BY <4>1, Zenon DEF WentOn
    <3>10. Ids(q) \cap visited = {}
      BY <1>4, <1>12, <3>2, <3>4
    <3>11. w.told = w.visited \cup Ids(w.toVisit)
      BY <1>2 DEF WalkGood
    <3>12. w.told \cup Ids(closer) = visited \cup Ids(q)
      BY <1>4, <3>2, <3>4, <3>11
    <3>13. WalkGood(next)
      BY <3>2, <3>5, <3>9, <3>10, <3>12 DEF WalkGood
    <3>14. QED BY <1>1, <2>2, <3>9, <3>13, Zenon DEF WalkOk
  <2>3. QED BY <2>1, <2>2
<1>17. CountsOk'
  BY <1>1 DEF DhtInv, CountsOk
<1>18. QED BY <1>1, <1>13, <1>14, <1>15, <1>16, <1>17, Zenon DEF DhtInv

(* The end of a lookup. *)
LEMMA EndLookupStep ==
  ASSUME DhtInv, NEW m \in Nodes, EndLookup(m)
  PROVE  DhtInv'
<1>1. /\ walk # None /\ walk' = None /\ table' = table /\ comm' = comm /\ disk' = disk
      /\ conn' = conn /\ clock' = clock /\ announced' = announced /\ dials' = dials /\ ops' = ops
  BY DEF EndLookup
<1>2. walk.by \in Nodes
  BY <1>1 DEF DhtInv, WalkOk, Walks
<1>3. SlotsOk(slots')
  <2>1. CASE slots' = slots
    BY <2>1, Zenon DEF DhtInv
  <2>2. CASE /\ LiveSlot(m, "info")
             /\ slots' = [slots EXCEPT ![walk.by].info = [slots[m].info EXCEPT !.at = clock]]
    <3>1. PICK r : r = slots[m]["info"]
      BY Zenon
    <3>2. r \in Slots /\ r.addr \in Nodes
      BY <2>2, <3>1, SlotAddress DEF DhtInv
    <3>3. PICK a : a = r.addr
      BY Zenon
    <3>4. [r EXCEPT !.at = clock] = [addr |-> a, at |-> clock]
      BY <3>2, <3>3 DEF Slots
    <3>5. slots' = [slots EXCEPT ![walk.by] = [@ EXCEPT !["info"] = [addr |-> a, at |-> clock]]]
      BY <2>2, <3>1, <3>4, Zenon
    <3>6. a \in Nodes /\ "info" \in {"mailbox", "info"}
      BY <3>2, <3>3
    <3>7. QED BY <1>2, <3>5, <3>6, SlotKept, Zenon DEF DhtInv
  <2>3. QED BY <2>1, <2>2, Zenon DEF EndLookup
<1>4. WalkOk(walk')
  BY <1>1, Zenon DEF WalkOk
<1>5. CountsOk'
  BY <1>1 DEF DhtInv, CountsOk
<1>6. QED BY <1>1, <1>3, <1>4, <1>5, Zenon DEF DhtInv

(* A lookup given up. *)
LEMMA LookupTimesOutStep ==
  ASSUME DhtInv, LookupTimesOut
  PROVE  DhtInv'
<1>1. /\ walk' = None /\ table' = table /\ slots' = slots /\ comm' = comm /\ disk' = disk
      /\ conn' = conn /\ clock' = clock /\ announced' = announced /\ dials' = dials /\ ops' = ops
  BY DEF LookupTimesOut, held
<1>2. WalkOk(walk')
  BY <1>1, Zenon DEF WalkOk
<1>3. CountsOk'
  BY <1>1 DEF DhtInv, CountsOk
<1>4. QED BY <1>1, <1>2, <1>3, Zenon DEF DhtInv

(* Expiry only removes records. *)
LEMMA ExpireStep ==
  ASSUME DhtInv, NEW n \in Nodes, Expire(n)
  PROVE  DhtInv'
<1>1. /\ Operation /\ table' = table /\ conn' = conn /\ walk' = walk /\ clock' = clock
      /\ announced' = announced /\ dials' = dials
  BY DEF Expire
<1>2. SlotsOk(slots')
  <2>1. slots \in [Nodes -> [{"mailbox", "info"} -> Slots \cup {None}]]
    BY DEF DhtInv, SlotsOk
  <2>2. PICK s : s = [k \in DOMAIN slots[n] |-> IF LiveSlot(n, k) THEN slots[n][k] ELSE None]
    BY Zenon
  <2>3. s \in [{"mailbox", "info"} -> Slots \cup {None}]
    BY <2>1, <2>2
  <2>4. slots' = [slots EXCEPT ![n] = s]
    BY <2>2, Zenon DEF Expire
  <2>5. QED BY <2>1, <2>3, <2>4 DEF SlotsOk
<1>3. HeldOk(comm', disk', announced')
  <2>1. PICK F : F = Fresh(announced)
    BY Zenon
  <2>2. comm \in [Nodes -> Seq(F)] /\ disk \in [Nodes -> SUBSET F]
    BY <2>1, Zenon DEF DhtInv, HeldOk
  <2>3. PICK c : c = Only(comm[n], {r \in Peers : Live(r, CommunityTtl)})
    BY Zenon
  <2>4. c \in Seq(F)
    <3>1. PICK l : l = comm[n]
      BY Zenon
    <3>2. l \in Seq(F)
      BY <2>2, <3>1
    <3>3. QED BY <2>3, <3>1, <3>2, OnlySelects, Zenon
  <2>5. comm' = [comm EXCEPT ![n] = c]
    BY <2>3, Zenon DEF Expire
  <2>6. comm' \in [Nodes -> Seq(F)]
    BY <2>2, <2>4, <2>5
  <2>7. PICK d : d = {r \in disk[n] : clock - r.at <= CommunityTtl}
    BY Zenon
  <2>8. d \in SUBSET F
    BY <2>2, <2>7
  <2>9. disk' = [disk EXCEPT ![n] = d]
    BY <2>7, Zenon DEF Expire
  <2>10. disk' \in [Nodes -> SUBSET F]
    BY <2>2, <2>8, <2>9
  <2>11. QED BY <1>1, <2>1, <2>6, <2>10, Zenon DEF HeldOk
<1>4. CountsOk'
  BY <1>1, Operated, Zenon DEF DhtInv
<1>5. QED BY <1>1, <1>2, <1>3, <1>4, Zenon DEF DhtInv

(* A snapshot writes records of memory. *)
LEMMA SnapshotStep ==
  ASSUME DhtInv, NEW n \in Nodes, Snapshot(n)
  PROVE  DhtInv'
<1>1. /\ Operation /\ table' = table /\ slots' = slots /\ comm' = comm /\ conn' = conn
      /\ walk' = walk /\ clock' = clock /\ announced' = announced /\ dials' = dials
  BY DEF Snapshot
<1>2. HeldOk(comm', disk', announced')
  <2>1. PICK F : F = Fresh(announced)
    BY Zenon
  <2>2. comm \in [Nodes -> Seq(F)] /\ disk \in [Nodes -> SUBSET F]
    BY <2>1, Zenon DEF DhtInv, HeldOk
  <2>3. PICK E : E = Elements(comm[n])
    BY Zenon
  <2>4. E \in SUBSET F
    <3>1. comm[n] \in Seq(F)
      BY <2>2
    <3>2. \A i \in DOMAIN comm[n] : comm[n][i] \in F
      BY <3>1
    <3>3. QED BY <2>3, <3>2, Zenon DEF Elements
  <2>5. PICK d : d = {r \in disk[n] : \A x \in E : x.node # r.node} \cup E
    BY Zenon
  <2>6. d \in SUBSET F
    BY <2>2, <2>4, <2>5
  <2>7. disk' = [disk EXCEPT ![n] = d]
    BY <2>3, <2>5, Zenon DEF Snapshot
  <2>8. disk' \in [Nodes -> SUBSET F]
    BY <2>2, <2>6, <2>7
  <2>9. QED BY <1>1, <2>1, <2>2, <2>8, Zenon DEF HeldOk
<1>3. CountsOk'
  BY <1>1, Operated, Zenon DEF DhtInv
<1>4. QED BY <1>1, <1>2, <1>3, Zenon DEF DhtInv

(* There are finitely many records, so a disk holds a list of them. *)
LEMMA PeersFinite == IsFiniteSet(Peers)
<1>1. IsFiniteSet(Nodes)
  BY ConstantsAssumption
<1>2. IsFiniteSet(0 .. MaxTime)
  BY ConstantTypes, FS_Interval
<1>3. IsFiniteSet(Nodes \X (0 .. MaxTime))
  BY <1>1, <1>2, FS_Product, Zenon
<1> DEFINE f == [p \in Nodes \X (0 .. MaxTime) |-> [node |-> p[1], at |-> p[2]]]
<1>4. f \in Surjection(Nodes \X (0 .. MaxTime), Peers)
  <2>1. f \in [Nodes \X (0 .. MaxTime) -> Peers]
    BY DEF Peers
  <2>2. ASSUME NEW r \in Peers PROVE \E p \in Nodes \X (0 .. MaxTime) : f[p] = r
    <3>1. r.node \in Nodes /\ r.at \in 0 .. MaxTime /\ r = [node |-> r.node, at |-> r.at]
      BY DEF Peers
    <3>2. <<r.node, r.at>> \in Nodes \X (0 .. MaxTime) /\ f[<<r.node, r.at>>] = r
      BY <3>1
    <3> HIDE DEF f
    <3>3. QED BY <3>2, Zenon
  <2> HIDE DEF f
  <2>3. QED BY <2>1, <2>2, Zenon DEF Surjection
<1>5. QED BY <1>3, <1>4, FS_Surjection, Zenon

(* A restart lists the records of the disk as they are. *)
LEMMA RestartStep ==
  ASSUME DhtInv, NEW n \in Nodes, Restart(n)
  PROVE  DhtInv'
<1>1. PICK records \in Loaded(n) :
        /\ comm' = [comm EXCEPT ![n] = records]
        /\ table' = [table EXCEPT ![n] = AddPeers(n, NoPeers,
             [i \in DOMAIN records |-> [id |-> records[i].node, dialable |-> TRUE]])]
  BY Zenon DEF Restart
<1>2. /\ Operation /\ slots' = [slots EXCEPT ![n] = [k \in DOMAIN @ |-> None]]
      /\ conn' = [m \in Nodes |->
                   IF m = n THEN [x \in Nodes |-> "none"]
                   ELSE [conn[m] EXCEPT ![n] = IF @ = "live" THEN "dead" ELSE @]]
      /\ walk' = None \/ walk' = walk
      /\ disk' = disk /\ clock' = clock /\ announced' = announced /\ dials' = dials
  BY Zenon DEF Restart
<1>3. PICK F : F = Fresh(announced)
  BY Zenon
<1>4. F \subseteq Peers /\ comm \in [Nodes -> Seq(F)] /\ disk \in [Nodes -> SUBSET F]
  BY <1>3 DEF DhtInv, HeldOk, Fresh
<1>5. records \in Seq(F)
  <2>1. PICK D : D = disk[n]
    BY Zenon
  <2>2. D \subseteq F
    BY <1>4, <2>1
  <2>3. D \subseteq Peers
    BY <1>4, <2>2
  <2>4. IsFiniteSet(D)
    BY <2>3, PeersFinite, FS_Subset, Zenon
  <2>5. Cardinality(D) \in Nat
    BY <2>4, FS_CardinalityType, Zenon
  <2>6. PICK c : c = Cardinality(D)
    BY Zenon
  <2>7. records \in [1 .. c -> D]
    BY <1>1, <2>1, <2>6 DEF Loaded, Listings
  <2>8. records \in [1 .. c -> F]
    BY <2>2, <2>7
  <2>9. QED BY <2>5, <2>6, <2>8
<1>6. HeldOk(comm', disk', announced')
  <2>1. comm' \in [Nodes -> Seq(F)]
    BY <1>1, <1>4, <1>5
  <2>2. QED BY <1>2, <1>3, <1>4, <2>1, Zenon DEF HeldOk
<1>7. AllTables(table')
  <2>1. PICK es : es = [i \in DOMAIN records |-> [id |-> records[i].node, dialable |-> TRUE]]
    BY Zenon
  <2>2. \A i \in DOMAIN records : records[i].node \in Nodes
    <3>1. \A i \in DOMAIN records : records[i] \in F
      BY <1>5
    <3>2. \A r \in F : r.node \in Nodes
      BY <1>4 DEF Peers
    <3>3. QED BY <3>1, <3>2, Zenon
  <2>3. \A i \in DOMAIN records : [id |-> records[i].node, dialable |-> TRUE] \in Entries
    BY <2>2, EntriesMade, Zenon
  <2>4. DOMAIN records = 1 .. Len(records) /\ Len(records) \in Nat
    BY <1>5
  <2>5. es \in [1 .. Len(records) -> Entries]
    BY <2>1, <2>3, <2>4, Zenon
  <2>6. es \in Seq(Entries)
    BY <2>4, <2>5
  <2>7. PICK u : u = AddPeers(n, NoPeers, es)
    BY Zenon
  <2>8. TableOk(n, u)
    BY <2>6, <2>7, NoPeersOk, AddPeersOk, Zenon
  <2>9. u \in Tables
    BY <2>8, Zenon DEF TableOk
  <2>10. table' = [table EXCEPT ![n] = u]
    BY <1>1, <2>1, <2>7, Zenon
  <2>11. table \in [Nodes -> Tables] /\ \A m \in Nodes : TableOk(m, table[m])
    BY Zenon DEF DhtInv, AllTables
  <2>12. /\ table' \in [Nodes -> Tables] /\ table'[n] = u
         /\ \A m \in Nodes : m # n => table'[m] = table[m]
    BY <2>9, <2>10, <2>11
  <2>13. QED BY <2>8, <2>11, <2>12, Zenon DEF AllTables
<1>8. SlotsOk(slots')
  <2>1. slots \in [Nodes -> [{"mailbox", "info"} -> Slots \cup {None}]]
    BY DEF DhtInv, SlotsOk
  <2>2. QED BY <1>2, <2>1 DEF SlotsOk
<1>9. ConnOk(conn')
  <2>1. conn \in [Nodes -> [Nodes -> {"none", "live", "dead"}]]
    BY DEF DhtInv, ConnOk
  <2>2. \A m \in Nodes : [conn[m] EXCEPT ![n] = IF @ = "live" THEN "dead" ELSE @]
                           \in [Nodes -> {"none", "live", "dead"}]
    BY <2>1
  <2>3. [x \in Nodes |-> "none"] \in [Nodes -> {"none", "live", "dead"}]
    OBVIOUS
  <2>4. QED BY <1>2, <2>2, <2>3, Zenon DEF ConnOk
<1>10. WalkOk(walk')
  BY <1>2, Zenon DEF WalkOk, DhtInv
<1>11. CountsOk'
  BY <1>2, Operated, Zenon DEF DhtInv
<1>12. QED BY <1>2, <1>6, <1>7, <1>8, <1>9, <1>10, <1>11, Zenon DEF DhtInv

(* Time passes. *)
LEMMA TickStep ==
  ASSUME DhtInv, Tick
  PROVE  DhtInv'
<1>1. /\ table' = table /\ slots' = slots /\ comm' = comm /\ disk' = disk /\ conn' = conn
      /\ walk' = walk /\ announced' = announced /\ dials' = dials /\ ops' = ops
      /\ clock' = clock + 1 /\ clock < MaxTime
  BY DEF Tick, held
<1>2. /\ clock \in 0 .. MaxTime /\ announced \in [Nodes -> {None} \cup 0 .. MaxTime]
      /\ \A n \in Nodes : announced[n] # None => announced[n] <= clock
  BY Zenon DEF DhtInv, TimesOk
<1>3. TimesOk(clock', announced')
  <2>1. clock + 1 \in 0 .. MaxTime
    BY <1>1, <1>2, ConstantTypes
  <2>2. ASSUME NEW n \in Nodes, announced[n] # None PROVE announced[n] <= clock + 1
    <3>1. announced[n] \in 0 .. MaxTime /\ announced[n] <= clock
      BY <1>2, <2>2
    <3>2. QED BY <1>2, <3>1, ConstantTypes
  <2>3. QED BY <1>1, <1>2, <2>1, <2>2, Zenon DEF TimesOk
<1>4. CountsOk'
  BY <1>1 DEF DhtInv, CountsOk
<1>5. QED BY <1>1, <1>3, <1>4, Zenon DEF DhtInv

(* Every step keeps the invariant. *)
LEMMA EachStep ==
  ASSUME DhtInv, [Next]_vars
  PROVE  DhtInv'
<1>1. ASSUME NEW n \in Nodes, NEW m \in Nodes, Dial(n, m) PROVE DhtInv'
  <2>1. Connected(n, m) /\ ConnOk(conn')
    BY <1>1, Zenon DEF Dial, DhtInv
  <2>2. QED BY <2>1, ConnectedStep, Zenon
<1>2. ASSUME NEW n \in Nodes, NEW m \in Nodes, Bootstrap(n, m) PROVE DhtInv'
  <2>1. Connected(n, m) /\ ConnOk(conn')
    BY <1>2, CachedOk, Zenon DEF Bootstrap, DhtInv
  <2>2. QED BY <2>1, ConnectedStep, Zenon
<1>3. ASSUME NEW n \in Nodes, Announcements(n) PROVE DhtInv'
  <2>1. "mailbox" \in {"mailbox", "info"} /\ "info" \in {"mailbox", "info"}
    OBVIOUS
  <2>2. QED BY <1>3, <2>1, RegisterSlotStep, RegisterCommunityStep, Zenon DEF Announcements
<1>4. CASE Lookup
  BY <1>4, StartLookupStep, WalkRoundStep, EndLookupStep, LookupTimesOutStep, Zenon DEF Lookup
<1>5. CASE \E n \in Nodes : Expire(n) \/ Snapshot(n) \/ Restart(n)
  BY <1>5, ExpireStep, SnapshotStep, RestartStep, Zenon
<1>6. CASE Tick
  BY <1>6, TickStep, Zenon
<1>7. CASE UNCHANGED vars
  <2>1. /\ table' = table /\ slots' = slots /\ comm' = comm /\ disk' = disk /\ conn' = conn
        /\ walk' = walk /\ clock' = clock /\ announced' = announced /\ dials' = dials /\ ops' = ops
    BY <1>7 DEF vars, held
  <2>2. CountsOk'
    BY <2>1 DEF DhtInv, CountsOk
  <2>3. QED BY <2>1, <2>2, Zenon DEF DhtInv
<1>8. QED BY <1>1, <1>2, <1>3, <1>4, <1>5, <1>6, <1>7, Zenon DEF Next

(* The invariant always holds. *)
LEMMA AlwaysInv == Spec => []DhtInv
<1>1. Init => DhtInv
  BY Starts
<1>2. DhtInv /\ [Next]_vars => DhtInv'
  BY EachStep
<1>3. QED BY <1>1, <1>2, PTL DEF Spec
-----------------------------------------------------------------------------
(* Type correctness: no bucket of a routing table exceeds its size, and an entry
   is in the bucket of its distance and never the node's own (KBucket.upsert and
   add_peer). *)
THEOREM TablesBounded == Spec => []TypeOK
<1>1. DhtInv => TypeOK
  BY InvImplies
<1>2. QED BY <1>1, AlwaysInv, PTL

(* A lookup (iterative_find_node) asks every node it is told of and none twice,
   whatever the tables, the answers and the restarts: its list has each node
   once, no visited one, and with the visited ones all it was told of. *)
THEOREM LookupsComplete == Spec => []WalkComplete
<1>1. DhtInv => WalkComplete
  BY InvImplies
<1>2. QED BY <1>1, AlwaysInv, PTL

(* Copies, snapshots to disk and restarts do not make a community peer record
   newer than the last announcement of its node (announce_community_peer,
   add_community_peer_record and DhtStore). *)
THEOREM RecordsNotProlonged == Spec => []CommunityFresh
<1>1. DhtInv => CommunityFresh
  BY InvImplies
<1>2. QED BY <1>1, AlwaysInv, PTL
=============================================================================
