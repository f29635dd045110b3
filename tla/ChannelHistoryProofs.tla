------------------------ MODULE ChannelHistoryProofs ------------------------
(* Theorems about the rows of ChannelHistory, for every value of its
   constants: any messages, sizes, limits and bounds. *)
EXTENDS ChannelHistory, WellFoundedInduction, TLAPS

(* A non-empty set of naturals that has an upper bound has a maximum. *)
LEMMA MaxOfBounded ==
  ASSUME NEW D \in SUBSET Nat, D # {}, NEW b \in Nat, \A d \in D : d <= b
  PROVE  Max(D) \in D /\ \A d \in D : d <= Max(D)
<1> DEFINE U == {u \in Nat : \A d \in D : d <= u}
<1>1. U \subseteq Nat /\ U # {}
  OBVIOUS
<1> DEFINE Less == OpToRel(<, Nat)
<1>2. \A x, y \in Nat : x < y => <<x, y>> \in Less
  BY DEF OpToRel
<1>3. PICK u \in U : \A v \in U : ~(v < u)
  <2>1. IsWellFoundedOn(Less, Nat)
    BY NatLessThanWellFounded, Zenon
  <2> HIDE DEF Less, U
  <2>2. \E x \in U : \A y \in U : ~(<<y, x>> \in Less)
    BY <1>1, <2>1, WFMin, Zenon
  <2>3. QED BY <1>1, <1>2, <2>2, Zenon
<1>4. u \in D
  <2>1. SUFFICES ASSUME u \notin D PROVE FALSE
    OBVIOUS
  <2>2. PICK d \in D : TRUE
    BY Zenon
  <2>3. u > 0
    BY <2>1, <2>2
  <2>4. u - 1 \in U
    BY <2>1, <2>3
  <2>5. QED BY <1>3, <2>3, <2>4
<1>5. \E x \in D : \A y \in D : x >= y
  BY <1>4
<1>6. QED BY <1>5, Zenon DEF Max

(* Induction on the naturals, for the set of those that have a property. *)
LEMMA Induction ==
  ASSUME NEW P \in SUBSET Nat, 0 \in P, \A n \in P : n + 1 \in P
  PROVE  \A n \in Nat : n \in P
<1> DEFINE Q == Nat \ P
           Less == OpToRel(<, Nat)
<1>1. SUFFICES ASSUME Q # {} PROVE FALSE
  OBVIOUS
<1>2. \A x, y \in Nat : x < y => <<x, y>> \in Less
  BY DEF OpToRel
<1>3. PICK q \in Q : \A v \in Q : ~(v < q)
  <2>1. IsWellFoundedOn(Less, Nat)
    BY NatLessThanWellFounded, Zenon
  <2>2. Q \subseteq Nat
    OBVIOUS
  <2> HIDE DEF Less, Q
  <2>3. \E x \in Q : \A y \in Q : ~(<<y, x>> \in Less)
    BY <1>1, <2>1, <2>2, WFMin, Zenon
  <2>4. QED BY <1>2, <2>2, <2>3, Zenon
<1>4. q # 0 /\ q - 1 \in Nat
  OBVIOUS
<1>5. q - 1 \in P
  BY <1>3, <1>4
<1>6. QED BY <1>4, <1>5

(* A loop from 0 to N that starts with z and computes a value of S in each round
   from the one of the round before. *)
Loops(N, S, z, G) ==
  \E f \in [0 .. N -> S] : f[0] = z /\ \A n \in 1 .. N : f[n] = G[n][f[n - 1]]

(* Such a loop has a value in every round. *)
LEMMA LoopExists ==
  ASSUME NEW N \in Nat, NEW S, NEW z \in S, NEW G \in [Nat -> [S -> S]]
  PROVE  Loops(N, S, z, G)
<1> DEFINE Runs(f, k) == f \in [0 .. k -> S] /\ f[0] = z /\ \A n \in 1 .. k : f[n] = G[n][f[n - 1]]
           P == {k \in Nat : \E f : Runs(f, k)}
<1>1. 0 \in P
  <2>1. Runs([n \in 0 .. 0 |-> z], 0)
    OBVIOUS
  <2>2. QED BY <2>1, Zenon
<1>2. ASSUME NEW k \in P
      PROVE  k + 1 \in P
  <2>1. PICK f : Runs(f, k)
    OBVIOUS
  <2> DEFINE g == [n \in 0 .. (k + 1) |-> IF n = k + 1 THEN G[k + 1][f[k]] ELSE f[n]]
  <2>2. k \in Nat /\ f[k] \in S
    BY <2>1
  <2>3. G[k + 1][f[k]] \in S
    BY <2>2
  <2>4. g \in [0 .. (k + 1) -> S] /\ g[0] = z
    BY <2>1, <2>2, <2>3
  <2>5. ASSUME NEW n \in 1 .. (k + 1)
        PROVE  g[n] = G[n][g[n - 1]]
    <3>1. CASE n = k + 1
      BY <2>2, <3>1
    <3>2. CASE n \in 1 .. k
      BY <2>1, <2>2, <3>2
    <3>3. QED BY <2>2, <3>1, <3>2
  <2> HIDE DEF g
  <2>6. Runs(g, k + 1)
    BY <2>4, <2>5
  <2>7. QED BY <2>2, <2>6
<1> HIDE DEF P
<1>3. P \subseteq Nat
  BY DEF P
<1>4. N \in P
  BY <1>1, <1>2, <1>3, Induction
<1>5. QED BY <1>4, Zenon DEF P, Loops

(* Rows form a table: numbered by naturals, of which one is above all others. *)
Table(rows) ==
  DOMAIN rows \subseteq Nat /\ \E b \in Nat : \A s \in DOMAIN rows : s <= b

Gapless(D) == \A i, k \in D : \A j \in i .. k : j \in D

(* The strengthening Contiguous needs: what retention measured is, until it
   deletes it, the oldest part of the rows. *)
RowsInv ==
  /\ Table(store)
  /\ Gapless(DOMAIN store)
  /\ sweep.pc = "delete" =>
       /\ sweep.keys \subseteq DOMAIN store
       /\ \A k \in sweep.keys, s \in DOMAIN store : s <= k => s \in sweep.keys

(* append_message takes a number above every row's, adds one row and keeps the
   others; an unbroken numbering stays unbroken. *)
LEMMA AppendRowFacts ==
  ASSUME NEW rows, NEW m, Table(rows), Gapless(DOMAIN rows)
  PROVE  LET new == AppendRow(rows, m)
         IN  /\ DOMAIN new = DOMAIN rows \cup {NextSeq(rows)}
             /\ \A s \in DOMAIN rows : s < NextSeq(rows) /\ new[s] = rows[s]
             /\ Table(new)
             /\ Gapless(DOMAIN new)
<1> DEFINE D == DOMAIN rows
           n == NextSeq(rows)
           new == AppendRow(rows, m)
<1>1. n \in Nat /\ \A s \in D : s < n
  <2>1. CASE D = {}
    BY <2>1 DEF NextSeq
  <2>2. CASE D # {}
    <3>1. Max(D) \in D /\ \A d \in D : d <= Max(D)
      BY <2>2, MaxOfBounded, Zenon DEF Table
    <3>2. n = Max(D) + 1
      BY <2>2 DEF NextSeq
    <3>3. QED BY <3>1, <3>2 DEF Table
  <2>3. QED BY <2>1, <2>2, Zenon
<1>2. D # {} => n - 1 \in D
  <2>1. SUFFICES ASSUME D # {} PROVE n - 1 \in D
    OBVIOUS
  <2>2. Max(D) \in D
    BY <2>1, MaxOfBounded, Zenon DEF Table
  <2>3. n = Max(D) + 1
    BY <2>1 DEF NextSeq
  <2>4. QED BY <2>2, <2>3 DEF Table
<1>3. DOMAIN new = D \cup {n} /\ \A s \in D : new[s] = rows[s]
  BY <1>1 DEF AppendRow, Table
<1> HIDE DEF n, new
<1>4. Table(new)
  <2>1. D \cup {n} \subseteq Nat
    BY <1>1 DEF Table
  <2>2. \A s \in D \cup {n} : s <= n
    BY <1>1, <2>1
  <2>3. QED BY <1>1, <1>3, <2>1, <2>2 DEF Table
<1>5. Gapless(D \cup {n})
  <2>1. SUFFICES ASSUME NEW i \in D \cup {n}, NEW k \in D \cup {n}, NEW j \in i .. k
                 PROVE  j \in D \cup {n}
    BY DEF Gapless
  <2>2. D \subseteq Nat
    BY DEF Table
  <2>3. CASE k \in D
    <3>1. i \in D
      BY <1>1, <2>2, <2>3
    <3>2. QED BY <2>3, <3>1 DEF Gapless
  <2>4. CASE k = n /\ i \in D
    <3>1. j = n \/ j \in i .. (n - 1)
      BY <1>1, <2>2, <2>4
    <3>2. QED BY <1>2, <2>4, <3>1 DEF Gapless
  <2>5. CASE k = n /\ i = n
    BY <1>1, <2>5
  <2>6. QED BY <2>3, <2>4, <2>5
<1>6. QED BY <1>1, <1>3, <1>4, <1>5 DEF n, new

-----------------------------------------------------------------------------
(* What get_messages has read when it has passed each row number. *)
Read(rows, since) ==
  CHOOSE read : read =
    [n \in 0 .. NextSeq(rows) |->
        IF n = 0 THEN <<>>
        ELSE IF n - 1 \in DOMAIN rows /\ n - 1 >= since
             THEN Append(read[n - 1], [seq |-> n - 1, id |-> rows[n - 1]])
             ELSE read[n - 1]]

(* NextSeq is a number above every row's. *)
LEMMA NextSeqAbove ==
  ASSUME NEW rows, Table(rows)
  PROVE  NextSeq(rows) \in Nat /\ \A s \in DOMAIN rows : s < NextSeq(rows)
<1>1. CASE DOMAIN rows = {}
  BY <1>1 DEF NextSeq
<1>2. CASE DOMAIN rows # {}
  <2>1. Max(DOMAIN rows) \in DOMAIN rows /\ \A d \in DOMAIN rows : d <= Max(DOMAIN rows)
    BY <1>2, MaxOfBounded, Zenon DEF Table
  <2>2. QED BY <1>2, <2>1 DEF NextSeq, Table
<1>3. QED BY <1>1, <1>2, Zenon

(* The loop of get_messages goes through every row number. *)
LEMMA ReadRuns ==
  ASSUME NEW rows, Table(rows), NEW since \in Nat
  PROVE  LET N == NextSeq(rows)
             read == Read(rows, since)
         IN  /\ GetMessages(rows, since) = read[N]
             /\ read[0] = <<>>
             /\ \A n \in 1 .. N :
                  read[n] = IF n - 1 \in DOMAIN rows /\ n - 1 >= since
                            THEN Append(read[n - 1], [seq |-> n - 1, id |-> rows[n - 1]])
                            ELSE read[n - 1]
<1> DEFINE N == NextSeq(rows)
           S == Seq([seq : Nat, id : RowIds(rows)])
           Step(n, x) == IF n - 1 \in DOMAIN rows /\ n - 1 >= since
                         THEN Append(x, [seq |-> n - 1, id |-> rows[n - 1]])
                         ELSE x
           G == [n \in Nat |-> [x \in S |-> Step(n, x)]]
           read == Read(rows, since)
<1>1. N \in Nat
  BY NextSeqAbove
<1>2. G \in [Nat -> [S -> S]]
  <2>1. ASSUME NEW n \in Nat, NEW x \in S
        PROVE  Step(n, x) \in S
    <3>1. CASE n - 1 \in DOMAIN rows /\ n - 1 >= since
      <4>1. [seq |-> n - 1, id |-> rows[n - 1]] \in [seq : Nat, id : RowIds(rows)]
        BY <3>1 DEF Table, RowIds
      <4>2. QED BY <3>1, <4>1
    <3>2. QED BY <3>1
  <2> HIDE DEF Step, S
  <2>2. QED BY <2>1
<1>3. <<>> \in S
  OBVIOUS
<1> HIDE DEF N, S, Step, G, read
<1>4. PICK f \in [0 .. N -> S] : f[0] = <<>> /\ \A n \in 1 .. N : f[n] = G[n][f[n - 1]]
  <2> DEFINE z == <<>>
  <2>1. z \in S
    BY <1>3
  <2> HIDE DEF z
  <2>2. Loops(N, S, z, G)
    BY <1>1, <1>2, <2>1, LoopExists
  <2>3. QED BY <2>2, Zenon DEF z, Loops
<1>5. ASSUME NEW n \in 1 .. N
      PROVE  f[n] = Step(n, f[n - 1])
  <2>1. n \in Nat /\ f[n - 1] \in S
    BY <1>1
  <2>2. QED BY <1>4, <2>1, Zenon DEF G
<1>6. f = [n \in 0 .. N |-> IF n = 0 THEN <<>> ELSE Step(n, f[n - 1])]
  BY <1>1, <1>4, <1>5
<1>7. read = [n \in 0 .. N |-> IF n = 0 THEN <<>> ELSE Step(n, read[n - 1])]
  BY <1>6, Zenon DEF Read, N, Step, read
<1>8. GetMessages(rows, since) = read[N]
  BY DEF GetMessages, Read, N, read
<1>9. read[0] = <<>> /\ \A n \in 1 .. N : read[n] = Step(n, read[n - 1])
  BY <1>1, <1>7
<1>10. QED BY <1>8, <1>9 DEF N, Step, read

(* One more entry at the end of a sequence of entries. *)
LEMMA EntryAdded ==
  ASSUME NEW S, NEW q \in Seq(S), NEW x \in S
  PROVE  /\ Append(q, x) \in Seq(S)
         /\ DOMAIN Append(q, x) = DOMAIN q \cup {Len(q) + 1}
         /\ Len(q) + 1 \notin DOMAIN q
         /\ Len(q) \in Nat /\ DOMAIN q = 1 .. Len(q)
         /\ \A i \in DOMAIN q : Append(q, x)[i] = q[i]
         /\ Append(q, x)[Len(q) + 1] = x
  OBVIOUS

(* e lists the rows from "since" on, each once and in key order. *)
Lists(e, rows, since) ==
  /\ e \in Seq([seq : Nat, id : RowIds(rows)])
  /\ \A i \in DOMAIN e : e[i].seq \in DOMAIN rows /\ e[i].id = rows[e[i].seq]
  /\ \A i, j \in DOMAIN e : i < j => e[i].seq < e[j].seq
  /\ \A s \in DOMAIN rows : s >= since => \E i \in DOMAIN e : e[i].seq = s

(* get_messages returns them (store.rs:218-236). *)
LEMMA MessagesRead ==
  ASSUME NEW rows, Table(rows), NEW since \in Nat
  PROVE  Lists(GetMessages(rows, since), rows, since)
<1> DEFINE N == NextSeq(rows)
           read == Read(rows, since)
           E == [seq : Nat, id : RowIds(rows)]
           Good(e, n) ==
             /\ e \in Seq(E)
             /\ \A i \in DOMAIN e : e[i].seq \in DOMAIN rows /\ e[i].id = rows[e[i].seq]
             /\ \A i \in DOMAIN e : e[i].seq < n
             /\ \A i, j \in DOMAIN e : i < j => e[i].seq < e[j].seq
             /\ \A s \in DOMAIN rows : s >= since /\ s < n => \E i \in DOMAIN e : e[i].seq = s
           P == {n \in Nat : n <= N => Good(read[n], n)}
<1>1. N \in Nat /\ DOMAIN rows \subseteq Nat /\ \A s \in DOMAIN rows : s < N
  BY NextSeqAbove DEF Table
<1>2. /\ GetMessages(rows, since) = read[N]
      /\ read[0] = <<>>
      /\ \A n \in 1 .. N :
           read[n] = IF n - 1 \in DOMAIN rows /\ n - 1 >= since
                     THEN Append(read[n - 1], [seq |-> n - 1, id |-> rows[n - 1]])
                     ELSE read[n - 1]
  BY ReadRuns
<1> HIDE DEF N, read
<1>3. 0 \in P
  <2>1. <<>> \in Seq(E) /\ DOMAIN <<>> = {}
    OBVIOUS
  <2> HIDE DEF E
  <2>2. \A s \in DOMAIN rows : ~(s < 0)
    BY <1>1
  <2>3. QED BY <1>2, <2>1, <2>2, Zenon
<1>4. ASSUME NEW n \in P
      PROVE  n + 1 \in P
  <2>1. SUFFICES ASSUME n + 1 <= N PROVE Good(read[n + 1], n + 1)
    OBVIOUS
  <2>2. n \in Nat /\ n + 1 \in 1 .. N /\ n <= N /\ (n + 1) - 1 = n
    BY <1>1, <2>1
  <2>3. Good(read[n], n)
    BY <2>2
  <2>4. read[n + 1] = IF n \in DOMAIN rows /\ n >= since
                      THEN Append(read[n], [seq |-> n, id |-> rows[n]]) ELSE read[n]
    BY <1>2, <2>2
  <2>5. CASE n \in DOMAIN rows /\ n >= since
    <3> DEFINE q == read[n]
               x == [seq |-> n, id |-> rows[n]]
    <3>1. x \in E /\ x.seq = n /\ x.id = rows[n]
      BY <2>2, <2>5 DEF RowIds
    <3>2. read[n + 1] = Append(q, x)
      BY <2>4, <2>5
    <3>3. q \in Seq(E)
      BY <2>3
    <3> HIDE DEF q, x, E
    <3>4. /\ Append(q, x) \in Seq(E)
          /\ DOMAIN Append(q, x) = DOMAIN q \cup {Len(q) + 1}
          /\ Len(q) \in Nat /\ DOMAIN q = 1 .. Len(q)
          /\ \A i \in DOMAIN q : Append(q, x)[i] = q[i]
          /\ Append(q, x)[Len(q) + 1] = x
      BY <3>1, <3>3, EntryAdded
    <3> DEFINE e == Append(q, x)
    <3>5. Good(q, n)
      BY <2>3 DEF q
    <3> HIDE DEF e
    <3>6. \A i \in DOMAIN e : e[i].seq \in DOMAIN rows /\ e[i].id = rows[e[i].seq] /\ e[i].seq < n + 1
      BY <1>1, <2>2, <2>5, <3>1, <3>4, <3>5 DEF e
    <3>7. \A i, j \in DOMAIN e : i < j => e[i].seq < e[j].seq
      BY <1>1, <2>2, <3>1, <3>4, <3>5 DEF e
    <3>8. \A s \in DOMAIN rows : s >= since /\ s < n + 1 => \E i \in DOMAIN e : e[i].seq = s
      BY <1>1, <2>2, <3>1, <3>4, <3>5 DEF e
    <3>9. QED BY <3>2, <3>4, <3>6, <3>7, <3>8 DEF e
  <2>6. CASE ~(n \in DOMAIN rows /\ n >= since)
    <3>1. read[n + 1] = read[n]
      BY <2>4, <2>6
    <3>2. QED BY <1>1, <2>2, <2>3, <2>6, <3>1
  <2>7. QED BY <2>5, <2>6
<1> HIDE DEF P
<1>5. P \subseteq Nat
  BY DEF P
<1>6. N \in P
  BY <1>1, <1>3, <1>4, <1>5, Induction
<1>7. Good(read[N], N)
  BY <1>1, <1>6 DEF P
<1>8. Lists(read[N], rows, since)
  BY <1>1, <1>7 DEF Lists
<1>9. QED BY <1>2, <1>8

(* What the rows numbered seqs take up to each row number. *)
Total(rows, seqs) ==
  CHOOSE total : total =
    [n \in 0 .. NextSeq(rows) |->
        IF n = 0 THEN 0
        ELSE total[n - 1] + IF n - 1 \in seqs THEN Size[rows[n - 1]] ELSE 0]

(* Some numbers of rows that hold messages. *)
Measured(rows, seqs) ==
  /\ Table(rows) /\ RowIds(rows) \subseteq Msgs
  /\ seqs \subseteq DOMAIN rows

(* The loop of enforce_retention that adds up the rows. *)
LEMMA TotalRuns ==
  ASSUME NEW rows, NEW seqs, Measured(rows, seqs)
  PROVE  LET N == NextSeq(rows)
             total == Total(rows, seqs)
         IN  /\ Bytes(rows, seqs) = total[N]
             /\ total[0] = 0
             /\ \A n \in 0 .. N : total[n] \in Nat
             /\ \A n \in 1 .. N :
                  total[n] = total[n - 1] + IF n - 1 \in seqs THEN Size[rows[n - 1]] ELSE 0
<1> DEFINE N == NextSeq(rows)
           Add(n) == IF n - 1 \in seqs THEN Size[rows[n - 1]] ELSE 0
           G == [n \in Nat |-> [x \in Nat |-> IF Add(n) \in Nat THEN x + Add(n) ELSE x]]
           total == Total(rows, seqs)
<1>1. N \in Nat
  BY NextSeqAbove DEF Measured
<1>2. \A n \in 1 .. N : Add(n) \in Nat
  <2>1. ASSUME NEW n \in 1 .. N, n - 1 \in seqs
        PROVE  Size[rows[n - 1]] \in Nat
    <3>1. rows[n - 1] \in Msgs
      BY <2>1 DEF Measured, RowIds
    <3>2. QED BY <3>1, HistoryAssumption
  <2>2. QED BY <2>1
<1> HIDE DEF N, Add, total
<1>3. G \in [Nat -> [Nat -> Nat]]
  OBVIOUS
<1> HIDE DEF G
<1>4. PICK f \in [0 .. N -> Nat] : f[0] = 0 /\ \A n \in 1 .. N : f[n] = G[n][f[n - 1]]
  <2>1. Loops(N, Nat, 0, G)
    BY <1>1, <1>3, LoopExists, Zenon
  <2>2. QED BY <2>1, Zenon DEF Loops
<1>5. ASSUME NEW n \in 1 .. N
      PROVE  f[n] = f[n - 1] + Add(n)
  <2>1. n \in Nat /\ f[n - 1] \in Nat
    BY <1>1
  <2>2. Add(n) \in Nat
    BY <1>2
  <2>3. QED BY <1>4, <2>1, <2>2, Zenon DEF G
<1>6. f = [n \in 0 .. N |-> IF n = 0 THEN 0 ELSE f[n - 1] + Add(n)]
  BY <1>1, <1>4, <1>5
<1>7. total = [n \in 0 .. N |-> IF n = 0 THEN 0 ELSE total[n - 1] + Add(n)]
  BY <1>6, Zenon DEF Total, N, Add, total
<1>8. Bytes(rows, seqs) = total[N]
  BY DEF Bytes, Total, N, total
<1>9. total[0] = 0 /\ \A n \in 1 .. N : total[n] = total[n - 1] + Add(n)
  BY <1>1, <1>7
<1>10. \A n \in 0 .. N : total[n] \in Nat
  <2> DEFINE P == {n \in Nat : n <= N => total[n] \in Nat}
  <2>1. 0 \in P
    BY <1>9
  <2>2. ASSUME NEW n \in P PROVE n + 1 \in P
    <3>1. SUFFICES ASSUME n + 1 <= N PROVE total[n + 1] \in Nat
      OBVIOUS
    <3>2. n \in Nat /\ n + 1 \in 1 .. N /\ total[n] \in Nat /\ (n + 1) - 1 = n
      BY <1>1, <3>1
    <3>3. total[n + 1] = total[n] + Add(n + 1)
      BY <1>9, <3>2
    <3>4. QED BY <1>2, <3>2, <3>3
  <2>3. P \subseteq Nat
    OBVIOUS
  <2> HIDE DEF P
  <2>4. \A n \in Nat : n \in P
    BY <2>1, <2>2, <2>3, Induction
  <2>5. QED BY <1>1, <2>4 DEF P
<1>11. QED BY <1>8, <1>9, <1>10 DEF N, Add, total

(* Rows counted apart take together what they take each. *)
LEMMA BytesAdd ==
  ASSUME NEW rows, NEW A, NEW B, Measured(rows, A), Measured(rows, B), A \cap B = {}
  PROVE  /\ Bytes(rows, A) \in Nat /\ Bytes(rows, B) \in Nat
         /\ Bytes(rows, A \cup B) = Bytes(rows, A) + Bytes(rows, B)
<1> DEFINE N == NextSeq(rows)
           a == Total(rows, A)
           b == Total(rows, B)
           c == Total(rows, A \cup B)
           P == {n \in Nat : n <= N => c[n] = a[n] + b[n]}
<1>1. Measured(rows, A \cup B)
  BY DEF Measured
<1>2. N \in Nat
  BY NextSeqAbove DEF Measured
<1>3. /\ Bytes(rows, A) = a[N] /\ a[0] = 0 /\ \A n \in 0 .. N : a[n] \in Nat
      /\ \A n \in 1 .. N : a[n] = a[n - 1] + IF n - 1 \in A THEN Size[rows[n - 1]] ELSE 0
  BY TotalRuns
<1>4. /\ Bytes(rows, B) = b[N] /\ b[0] = 0 /\ \A n \in 0 .. N : b[n] \in Nat
      /\ \A n \in 1 .. N : b[n] = b[n - 1] + IF n - 1 \in B THEN Size[rows[n - 1]] ELSE 0
  BY TotalRuns
<1>5. /\ Bytes(rows, A \cup B) = c[N] /\ c[0] = 0
      /\ \A n \in 1 .. N :
           c[n] = c[n - 1] + IF n - 1 \in A \cup B THEN Size[rows[n - 1]] ELSE 0
  <2>1. PICK AB : AB = A \cup B
    BY Zenon
  <2>2. Measured(rows, AB)
    BY <1>1, <2>1
  <2>3. /\ Bytes(rows, AB) = Total(rows, AB)[N] /\ Total(rows, AB)[0] = 0
        /\ \A n \in 1 .. N :
             Total(rows, AB)[n] =
               Total(rows, AB)[n - 1] + IF n - 1 \in AB THEN Size[rows[n - 1]] ELSE 0
    BY <2>2, TotalRuns
  <2>4. QED BY <2>1, <2>3, Zenon
<1>6. \A s \in A \cup B : Size[rows[s]] \in Nat
  BY HistoryAssumption DEF Measured, RowIds
<1> HIDE DEF N, a, b, c
<1>7. 0 \in P
  BY <1>3, <1>4, <1>5
<1>8. ASSUME NEW n \in P PROVE n + 1 \in P
  <2>1. SUFFICES ASSUME n + 1 <= N PROVE c[n + 1] = a[n + 1] + b[n + 1]
    OBVIOUS
  <2>2. n \in Nat /\ n \in 0 .. N /\ n + 1 \in 1 .. N /\ (n + 1) - 1 = n
    BY <1>2, <2>1
  <2>3. c[n] = a[n] + b[n] /\ a[n] \in Nat /\ b[n] \in Nat
    BY <1>2, <1>3, <1>4, <2>2
  <2>4. /\ a[n + 1] = a[n] + IF n \in A THEN Size[rows[n]] ELSE 0
        /\ b[n + 1] = b[n] + IF n \in B THEN Size[rows[n]] ELSE 0
        /\ c[n + 1] = c[n] + IF n \in A \cup B THEN Size[rows[n]] ELSE 0
    BY <1>3, <1>4, <1>5, <2>2
  <2>5. QED BY <1>6, <2>3, <2>4
<1>9. P \subseteq Nat
  OBVIOUS
<1> HIDE DEF P
<1>10. N \in P
  BY <1>2, <1>7, <1>8, <1>9, Induction
<1>11. QED BY <1>2, <1>3, <1>4, <1>5, <1>10 DEF P

(* No rows, no bytes. *)
LEMMA BytesNone ==
  ASSUME NEW rows, Measured(rows, {})
  PROVE  Bytes(rows, {}) = 0
<1>1. {} \cup {} = {} /\ {} \cap {} = {}
  OBVIOUS
<1>2. Bytes(rows, {}) \in Nat /\ Bytes(rows, {}) = Bytes(rows, {}) + Bytes(rows, {})
  BY <1>1, BytesAdd
<1>3. \A x \in Nat : x = x + x => x = 0
  OBVIOUS
<1>4. QED BY <1>2, <1>3, Zenon

(* An append leaves the measure of the rows before it alone. *)
LEMMA BytesAppend ==
  ASSUME NEW rows, NEW seqs, Measured(rows, seqs), Gapless(DOMAIN rows), NEW m \in Msgs
  PROVE  /\ Measured(AppendRow(rows, m), seqs)
         /\ Bytes(AppendRow(rows, m), seqs) = Bytes(rows, seqs)
<1> DEFINE new == AppendRow(rows, m)
           N == NextSeq(rows)
           M == NextSeq(new)
           a == Total(rows, seqs)
           b == Total(new, seqs)
           P == {n \in Nat : n <= N => b[n] = a[n]}
<1>1. /\ DOMAIN new = DOMAIN rows \cup {N}
      /\ \A s \in DOMAIN rows : s < N /\ new[s] = rows[s]
      /\ Table(new)
      /\ N \in Nat /\ M \in Nat /\ M > N
  <2>1. /\ DOMAIN new = DOMAIN rows \cup {N}
        /\ \A s \in DOMAIN rows : s < N /\ new[s] = rows[s]
        /\ Table(new)
    BY AppendRowFacts DEF Measured
  <2>2. N \in Nat /\ M \in Nat /\ \A s \in DOMAIN new : s < M
    BY <2>1, NextSeqAbove DEF Measured
  <2>3. N < M
    BY <2>1, <2>2
  <2>4. QED BY <2>1, <2>2, <2>3
<1>2. new[N] = m
  BY DEF AppendRow
<1> HIDE DEF new, N, M
<1>3. Measured(new, seqs)
  <2>1. RowIds(new) \subseteq Msgs
    BY <1>1, <1>2 DEF Measured, RowIds
  <2>2. QED BY <1>1, <2>1 DEF Measured
<1>4. /\ Bytes(rows, seqs) = a[N] /\ a[0] = 0
      /\ \A n \in 1 .. N : a[n] = a[n - 1] + IF n - 1 \in seqs THEN Size[rows[n - 1]] ELSE 0
  BY TotalRuns DEF N
<1>5. /\ Bytes(new, seqs) = b[M] /\ b[0] = 0 /\ \A n \in 0 .. M : b[n] \in Nat
      /\ \A n \in 1 .. M : b[n] = b[n - 1] + IF n - 1 \in seqs THEN Size[new[n - 1]] ELSE 0
  BY <1>3, TotalRuns DEF M
<1>6. \A s \in seqs : s < N /\ new[s] = rows[s]
  BY <1>1 DEF Measured
<1> HIDE DEF a, b
<1>7. 0 \in P
  BY <1>4, <1>5
<1>8. ASSUME NEW n \in P PROVE n + 1 \in P
  <2>1. SUFFICES ASSUME n + 1 <= N PROVE b[n + 1] = a[n + 1]
    OBVIOUS
  <2>2. n \in Nat /\ n + 1 \in 1 .. N /\ n + 1 \in 1 .. M /\ (n + 1) - 1 = n
    BY <1>1, <2>1
  <2>3. b[n] = a[n]
    BY <1>1, <2>2
  <2>4. /\ a[n + 1] = a[n] + IF n \in seqs THEN Size[rows[n]] ELSE 0
        /\ b[n + 1] = b[n] + IF n \in seqs THEN Size[new[n]] ELSE 0
    BY <1>4, <1>5, <2>2
  <2>5. QED BY <1>6, <2>3, <2>4
<1>9. P \subseteq Nat
  OBVIOUS
<1> HIDE DEF P
<1>10. b[N] = a[N]
  <2>1. N \in P
    BY <1>1, <1>7, <1>8, <1>9, Induction
  <2>2. QED BY <1>1, <2>1 DEF P
<1>11. b[M] = b[N]
  <2> DEFINE Q == {d \in Nat : N + d <= M => b[N + d] = b[N]}
  <2>1. 0 \in Q
    BY <1>1
  <2>2. ASSUME NEW d \in Q PROVE d + 1 \in Q
    <3>1. SUFFICES ASSUME N + (d + 1) <= M PROVE b[N + (d + 1)] = b[N]
      OBVIOUS
    <3>2. d \in Nat /\ N + (d + 1) \in 1 .. M /\ (N + (d + 1)) - 1 = N + d /\ N + d \in 0 .. M
      BY <1>1, <3>1
    <3>3. N + d \notin seqs
      <4>1. seqs \subseteq Nat
        BY DEF Measured, Table
      <4>2. QED BY <1>1, <1>6, <3>2, <4>1
    <3>4. b[N + (d + 1)] = b[N + d] + 0
      BY <1>5, <3>2, <3>3
    <3>5. b[N + d] = b[N] /\ b[N + d] \in Nat
      BY <1>1, <1>5, <3>2
    <3>6. QED BY <3>4, <3>5
  <2>3. Q \subseteq Nat
    OBVIOUS
  <2> HIDE DEF Q
  <2>4. \A d \in Nat : d \in Q
    BY <2>1, <2>2, <2>3, Induction
  <2>5. M - N \in Nat /\ N + (M - N) = M
    BY <1>1
  <2>6. M - N \in Q
    BY <2>4, <2>5
  <2>7. QED BY <1>1, <2>5, <2>6 DEF Q
<1>12. QED BY <1>3, <1>4, <1>5, <1>10, <1>11 DEF new
-----------------------------------------------------------------------------
(* An append keeps the invariant, whatever the retention pass is doing. *)
LEMMA AppendKeepsRowsInv ==
  ASSUME RowsInv, NEW m, store' = AppendRow(store, m), sweep' = sweep
  PROVE  RowsInv'
<1>1. /\ DOMAIN store' = DOMAIN store \cup {NextSeq(store)}
      /\ \A s \in DOMAIN store : s < NextSeq(store)
      /\ Table(store')
      /\ Gapless(DOMAIN store')
  BY AppendRowFacts, Zenon DEF RowsInv
<1>2. DOMAIN store' \subseteq Nat
  BY <1>1 DEF Table
<1>3. ASSUME sweep.pc = "delete", NEW k \in sweep.keys, NEW s \in DOMAIN store', s <= k
      PROVE  s \in sweep.keys
  <2>1. k \in DOMAIN store /\ k \in Nat /\ s \in Nat
    BY <1>1, <1>2, <1>3 DEF RowsInv
  <2>2. s # NextSeq(store)
    BY <1>1, <1>2, <1>3, <2>1
  <2>3. QED BY <1>1, <1>3, <2>2 DEF RowsInv
<1>4. QED BY <1>1, <1>3 DEF RowsInv, Table

(* Deleting what was measured keeps the invariant: only the oldest rows go. *)
LEMMA DeleteKeepsRowsInv ==
  ASSUME RowsInv, SweepDelete
  PROVE  RowsInv' /\ \A s \in DOMAIN store' : s \in DOMAIN store /\ store'[s] = store[s]
<1> DEFINE gone == Evicted(store, sweep.keys, sweep.total)
           kept == DOMAIN store \ gone
<1>1. DOMAIN store' = kept /\ \A s \in kept : store'[s] = store[s]
  BY DEF SweepDelete
<1>2. DOMAIN store \subseteq Nat /\ sweep.keys \subseteq DOMAIN store
  BY DEF RowsInv, Table, SweepDelete
<1>3. ASSUME NEW j \in gone, NEW i \in DOMAIN store, i <= j
      PROVE  i \in gone
  <2>1. j \in sweep.keys /\ i \in sweep.keys
    BY <1>3 DEF RowsInv, SweepDelete, Evicted
  <2>2. \A l \in sweep.keys : l <= i => l <= j
    BY <1>2, <1>3, <2>1
  <2>3. QED BY <2>1, <2>2 DEF Evicted
<1> HIDE DEF gone
<1>4. Gapless(kept)
  <2>1. SUFFICES ASSUME NEW i \in kept, NEW k \in kept, NEW j \in i .. k
                 PROVE  j \in kept
    BY DEF Gapless
  <2>2. j \in DOMAIN store
    BY DEF RowsInv, Gapless
  <2>3. i <= j
    BY <1>2
  <2>4. QED BY <1>3, <2>2, <2>3
<1>5. Table(store')
  BY <1>1, <1>2 DEF RowsInv, Table
<1>6. sweep'.pc # "delete"
  BY DEF SweepDelete, Idle
<1>7. QED BY <1>1, <1>4, <1>5, <1>6 DEF RowsInv

(* Every step keeps the invariant, and no step changes a row that stays. *)
LEMMA RowsStep ==
  ASSUME RowsInv, [Next]_vars
  PROVE  /\ RowsInv'
         /\ \A s \in DOMAIN store \cap DOMAIN store' : store'[s] = store[s]
<1> DEFINE Goal == /\ RowsInv'
                   /\ \A s \in DOMAIN store \cap DOMAIN store' : store'[s] = store[s]
<1>1. ASSUME NEW m, store' = AppendRow(store, m), sweep' = sweep
      PROVE  Goal
  <2>1. RowsInv'
    BY <1>1, AppendKeepsRowsInv
  <2>2. QED BY <1>1, <2>1, AppendRowFacts, Zenon DEF RowsInv
<1>2. CASE store' = store /\ sweep' = sweep
  BY <1>2 DEF RowsInv, Table
<1>3. CASE store' = store /\ sweep' = Idle
  BY <1>3 DEF RowsInv, Table, Idle
<1>4. CASE SweepMeasure
  <2>1. store' = store /\ (sweep' = Idle \/ sweep'.keys = DOMAIN store)
    BY <1>4 DEF SweepMeasure
  <2>2. QED BY <1>3, <2>1 DEF RowsInv, Table
<1>5. CASE SweepDelete
  BY <1>5, DeleteKeepsRowsInv
<1>6. ASSUME NEW m \in Msgs,
             \/ SendLog(m) \/ SendStore(m) \/ SendPublish(m) \/ RelayStore(m)
             \/ RelayPush(m) \/ ServerGossip(m)
      PROVE  Goal
  BY <1>1, <1>2, <1>6
     DEF SendLog, SendStore, SendPublish, RelayStore, RelayPush, ServerGossip
<1>7. CASE \/ HandleNewMessage \/ PersistMessage \/ RequestHistory \/ ServeHistory
           \/ FetchFails \/ HandleHistory \/ IntegrateEntry \/ HistoryDone
  BY <1>1, <1>2, <1>7
     DEF HandleNewMessage, PersistMessage, RequestHistory, ServeHistory, FetchFails,
         HandleHistory, IntegrateEntry, HistoryDone
<1>8. CASE Restart
  BY <1>3, <1>8 DEF Restart
<1>9. CASE UNCHANGED vars
  BY <1>2, <1>9 DEF vars
<1>10. QED BY <1>4, <1>5, <1>6, <1>7, <1>8, <1>9, SMTT(30) DEF Next

(* The rows are numbered without a gap at all times: retention, whatever the
   sizes and the limit, removes the oldest ones although appends run between
   its two transactions (store.rs:168, store.rs:595). *)
THEOREM RowsContiguous == Spec => []Contiguous
<1>1. Init => RowsInv
  BY DEF Init, RowsInv, Table, Gapless, Idle
<1>2. RowsInv /\ [Next]_vars => RowsInv'
  BY RowsStep
<1>3. RowsInv => Contiguous
  BY DEF RowsInv, Gapless, Contiguous
<1>4. QED BY <1>1, <1>2, <1>3, PTL DEF Spec

(* No append ever overwrites a stored row (store.rs:168-189). *)
THEOREM RowsNeverOverwritten == Spec => RowsKept
<1> DEFINE Kept == \A s \in DOMAIN store \cap DOMAIN store' : store'[s] = store[s]
<1>1. Init => RowsInv
  BY DEF Init, RowsInv, Table, Gapless, Idle
<1>2. RowsInv /\ [Next]_vars => RowsInv' /\ [Kept]_store
  BY RowsStep
<1>3. QED BY <1>1, <1>2, PTL DEF Spec, RowsKept

(* One append of the implementation is one append of the abstract log. *)
LEMMA AppendImplements ==
  ASSUME RowsInv, NEW m, store' = AppendRow(store, m)
  PROVE  Rows!Next
<1> DEFINE n == NextSeq(store)
<1>1. \A s \in DOMAIN store : s < n
  BY AppendRowFacts, Zenon DEF RowsInv
<1>2. IF DOMAIN store = {} THEN n = 0 ELSE n - 1 \in DOMAIN store
  <2>1. CASE DOMAIN store = {}
    BY <2>1 DEF NextSeq
  <2>2. CASE DOMAIN store # {}
    <3>1. Max(DOMAIN store) \in DOMAIN store
      BY <2>2, MaxOfBounded, Zenon DEF RowsInv, Table
    <3>2. n = Max(DOMAIN store) + 1
      BY <2>2 DEF NextSeq
    <3>3. QED BY <2>2, <3>1, <3>2 DEF RowsInv, Table
  <2>3. QED BY <2>1, <2>2
<1>3. n \in {0} \cup {s + 1 : s \in DOMAIN store}
  <2>1. CASE DOMAIN store = {}
    BY <1>2, <2>1
  <2>2. CASE DOMAIN store # {}
    <3>1. n - 1 \in DOMAIN store /\ n - 1 \in Nat
      BY <1>2, <2>2 DEF RowsInv, Table
    <3>2. n \in Int
      <4>1. Max(DOMAIN store) \in Nat
        BY <2>2, MaxOfBounded, Zenon DEF RowsInv, Table
      <4>2. n = Max(DOMAIN store) + 1
        BY <2>2 DEF NextSeq
      <4>3. QED BY <4>1, <4>2
    <3>3. n = (n - 1) + 1
      BY <3>2
    <3>4. QED BY <3>1, <3>3
  <2>3. QED BY <2>1, <2>2, Zenon
<1>4. DOMAIN store' = DOMAIN store \cup {n} /\ \A s \in DOMAIN store : store'[s] = store[s]
  BY AppendRowFacts, Zenon DEF RowsInv
<1> HIDE DEF n
<1>5. Rows!Grow
  BY <1>1, <1>2, <1>3, <1>4 DEF Rows!Grow, Rows!Follows
<1>6. QED BY <1>5 DEF Rows!Next

(* What retention deletes is a prefix of the abstract log. *)
LEMMA DeleteImplements ==
  ASSUME RowsInv, SweepDelete
  PROVE  Rows!Next
<1> DEFINE gone == Evicted(store, sweep.keys, sweep.total)
           kept == DOMAIN store \ gone
<1>1. store' = [s \in kept |-> store[s]]
  BY DEF SweepDelete
<1>2. DOMAIN store \subseteq Nat /\ sweep.keys \subseteq DOMAIN store
  BY DEF RowsInv, Table, SweepDelete
<1>3. ASSUME NEW k \in kept, NEW s \in DOMAIN store, s > k
      PROVE  s \in kept
  <2>1. SUFFICES ASSUME s \in gone PROVE k \in gone
    OBVIOUS
  <2>2. s \in sweep.keys /\ k \in sweep.keys
    BY <1>2, <1>3, <2>1 DEF RowsInv, SweepDelete, Evicted
  <2>3. \A l \in sweep.keys : l <= k => l <= s
    BY <1>2, <1>3, <2>2
  <2>4. QED BY <2>1, <2>2, <2>3 DEF Evicted
<1> HIDE DEF gone
<1>4. Rows!Trim
  <2>1. kept \in SUBSET DOMAIN store
    OBVIOUS
  <2>2. QED BY <1>1, <1>3, <2>1 DEF Rows!Trim
<1>5. QED BY <1>4 DEF Rows!Next

(* The table implements the abstract log: whoever writes it, between whichever
   transactions, a step appends at the end, drops from the beginning, or leaves
   it alone (store.rs:151-189, :564-606). *)
THEOREM StoreImplementsLog == Spec => StoreIsLog
<1>1. Init => RowsInv /\ Rows!Init
  BY DEF Init, RowsInv, Table, Gapless, Idle, Rows!Init
<1>2. RowsInv /\ [Next]_vars => RowsInv'
  BY RowsStep
<1>3. RowsInv /\ [Next]_vars => [Rows!Next]_store
  <2> SUFFICES ASSUME RowsInv, [Next]_vars PROVE Rows!Next \/ store' = store
    OBVIOUS
  <2>1. ASSUME NEW m, store' = AppendRow(store, m)
        PROVE  Rows!Next
    BY <2>1, AppendImplements
  <2>2. CASE SweepDelete
    BY <2>2, DeleteImplements
  <2>3. ASSUME NEW m \in Msgs,
               \/ SendLog(m) \/ SendStore(m) \/ SendPublish(m) \/ RelayStore(m)
               \/ RelayPush(m) \/ ServerGossip(m)
        PROVE  Rows!Next \/ store' = store
    BY <2>1, <2>3
       DEF SendLog, SendStore, SendPublish, RelayStore, RelayPush, ServerGossip
  <2>4. CASE \/ HandleNewMessage \/ PersistMessage \/ RequestHistory \/ ServeHistory
             \/ FetchFails \/ HandleHistory \/ IntegrateEntry \/ HistoryDone
             \/ SweepMeasure \/ Restart
    BY <2>1, <2>4
       DEF HandleNewMessage, PersistMessage, RequestHistory, ServeHistory, FetchFails,
           HandleHistory, IntegrateEntry, HistoryDone, SweepMeasure, Restart
  <2>5. CASE UNCHANGED vars
    BY <2>5 DEF vars
  <2>6. QED BY <2>2, <2>3, <2>4, <2>5, SMTT(30) DEF Next
<1>4. QED BY <1>1, <1>2, <1>3, PTL DEF Spec, StoreIsLog, Rows!Spec
-----------------------------------------------------------------------------
(* An append adds its message to those of the rows, and nothing else. *)
LEMMA RowAppended ==
  ASSUME NEW rows, NEW m, Table(rows), Gapless(DOMAIN rows)
  PROVE  LET new == AppendRow(rows, m)
         IN  /\ DOMAIN new = DOMAIN rows \cup {NextSeq(rows)}
             /\ NextSeq(rows) \notin DOMAIN rows
             /\ \A s \in DOMAIN rows : new[s] = rows[s]
             /\ new[NextSeq(rows)] = m
             /\ RowIds(new) = RowIds(rows) \cup {m}
             /\ Table(new) /\ Gapless(DOMAIN new)
<1> DEFINE n == NextSeq(rows)
           new == AppendRow(rows, m)
<1>1. /\ DOMAIN new = DOMAIN rows \cup {n}
      /\ \A s \in DOMAIN rows : s < n /\ new[s] = rows[s]
      /\ Table(new) /\ Gapless(DOMAIN new)
  BY AppendRowFacts
<1>2. new[n] = m
  BY DEF AppendRow
<1>3. n \in Nat
  BY NextSeqAbove
<1> HIDE DEF n, new
<1>4. n \notin DOMAIN rows
  BY <1>1, <1>3
<1>5. RowIds(new) = RowIds(rows) \cup {m}
  BY <1>1, <1>2 DEF RowIds
<1>6. QED BY <1>1, <1>2, <1>4, <1>5 DEF n, new

(* The types, with what they need: the rows at both nodes form tables. *)
TypeInv ==
  /\ TypeOK
  /\ RowsInv
  /\ Table(relay) /\ Gapless(DOMAIN relay)

-----------------------------------------------------------------------------
(* The messages of the answer that is waiting, and those still to be integrated. *)
Fetched == IF fetch.pc = "answered" THEN Ids(fetch.entries) ELSE {}

Left == IF ep.pc = "history" THEN Ids(ep.left) ELSE {}

(* How far the local user's messages have come: not in the log before message_send
   put them there, not in the rows or at the relay before it stored and published
   them, and never among what relays push. *)
CarriedInv ==
  /\ Range(inbox) \cap Own = {}
  /\ Fetched \cup Left \subseteq RowIds(relay)
  /\ ep.pc = "persist" => ep.id \in Ids(log) /\ ep.id \notin Own
  /\ \A m \in Own :
       /\ call[m] = "idle" => m \notin Ids(log)
       /\ call[m] = "logged" => m \in Ids(log)
       /\ call[m] \in {"idle", "logged"} => m \notin RowIds(store)
       /\ call[m] # "done" => m \notin RowIds(relay)

(* A message that came through a relay or from the local user has one row. *)
RowsOnce ==
  \A s, t \in DOMAIN store : store[s] = store[t] /\ store[s] \notin Inbound => s = t

(* What is neither in the log nor on its way there has no row; a message being
   persisted has none yet. *)
OnceInv ==
  /\ RelayedOnce
  /\ RowsOnce
  /\ RowIds(store) \subseteq Ids(log) \cup (Inbound \cap Range(inbox))
  /\ ep.pc = "persist" => ep.id \in Inbound \/ ep.id \notin RowIds(store)

HistoryInv == TypeInv /\ CarriedInv /\ OnceInv

(* The elements of a sequence that grows by one. *)
LEMMA RangeAppended ==
  ASSUME NEW S, NEW q \in Seq(S), NEW x \in S
  PROVE  Range(Append(q, x)) = Range(q) \cup {x}
<1>1. /\ DOMAIN Append(q, x) = DOMAIN q \cup {Len(q) + 1}
      /\ \A i \in DOMAIN q : Append(q, x)[i] = q[i]
      /\ Append(q, x)[Len(q) + 1] = x
  BY EntryAdded
<1> DEFINE r == Append(q, x)
           n == Len(q) + 1
<1> HIDE DEF r, n
<1>2. DOMAIN r = DOMAIN q \cup {n} /\ (\A i \in DOMAIN q : r[i] = q[i]) /\ r[n] = x
  BY <1>1 DEF r, n
<1>3. Range(r) = Range(q) \cup {x}
  BY <1>2 DEF Range
<1>4. QED BY <1>3 DEF r

(* A sequence has its head and the elements of its tail. *)
LEMMA RangeTail ==
  ASSUME NEW S, NEW q \in Seq(S), q # <<>>
  PROVE  Range(q) = {Head(q)} \cup Range(Tail(q)) /\ Tail(q) \in Seq(S) /\ Head(q) \in S
<1>1. /\ Len(q) \in Nat \ {0} /\ DOMAIN q = 1 .. Len(q)
      /\ Tail(q) \in Seq(S) /\ DOMAIN Tail(q) = 1 .. (Len(q) - 1)
      /\ Head(q) = q[1] /\ Head(q) \in S
      /\ \A i \in DOMAIN Tail(q) : Tail(q)[i] = q[i + 1]
  OBVIOUS
<1> DEFINE t == Tail(q)
           h == Head(q)
           n == Len(q)
<1> HIDE DEF t, h, n
<1>2. /\ n \in Nat \ {0} /\ DOMAIN q = 1 .. n /\ DOMAIN t = 1 .. (n - 1)
      /\ h = q[1] /\ \A i \in DOMAIN t : t[i] = q[i + 1]
  BY <1>1 DEF t, h, n
<1>3. ASSUME NEW i \in DOMAIN q PROVE q[i] \in {h} \cup Range(t)
  <2>1. CASE i = 1
    BY <1>2, <2>1
  <2>2. CASE i # 1
    <3>1. i - 1 \in DOMAIN t /\ t[i - 1] = q[i]
      BY <1>2, <2>2
    <3>2. QED BY <3>1 DEF Range
  <2>3. QED BY <2>1, <2>2
<1>4. ASSUME NEW i \in DOMAIN t PROVE t[i] \in Range(q)
  <2>1. i + 1 \in DOMAIN q /\ t[i] = q[i + 1]
    BY <1>2
  <2>2. QED BY <2>1 DEF Range
<1>5. h \in Range(q)
  BY <1>2 DEF Range
<1>6. Range(q) = {h} \cup Range(t)
  BY <1>3, <1>4, <1>5 DEF Range
<1>7. QED BY <1>1, <1>6 DEF t, h

(* One more entry in the log, of a message that was not in it. *)
LEMMA LogOnce ==
  ASSUME TypeInv, OnceInv, NEW e \in Entries, e.id \notin Ids(log), log' = Append(log, e)
  PROVE  RelayedOnce' /\ Ids(log') = Ids(log) \cup {e.id}
<1>1. log \in Seq(Entries)
  BY DEF TypeInv, TypeOK
<1>2. Ids(log') = Ids(log) \cup {e.id}
  <2>1. Range(log') = Range(log) \cup {e}
    BY <1>1, RangeAppended
  <2>2. QED BY <2>1 DEF Ids
<1>3. /\ DOMAIN log' = DOMAIN log \cup {Len(log) + 1}
      /\ \A i \in DOMAIN log : log'[i] = log[i]
      /\ log'[Len(log) + 1] = e
  BY <1>1, EntryAdded
<1>4. PICK n : n = Len(log) + 1
  OBVIOUS
<1>5. DOMAIN log' = DOMAIN log \cup {n} /\ (\A i \in DOMAIN log : log'[i] = log[i]) /\ log'[n] = e
  BY <1>3, <1>4
<1>6. \A i \in DOMAIN log : log[i].id # e.id
  BY DEF Ids, Range
<1>7. SUFFICES ASSUME NEW i \in DOMAIN log', NEW j \in DOMAIN log',
                      log'[i].id = log'[j].id, log'[i].id \notin Inbound
               PROVE  i = j
  BY <1>2 DEF RelayedOnce
<1>8. CASE i \in DOMAIN log /\ j \in DOMAIN log
  BY <1>5, <1>7, <1>8 DEF OnceInv, RelayedOnce
<1>9. QED BY <1>5, <1>6, <1>7, <1>8

(* One more row, of a message that had none or that a client published here. *)
LEMMA RowOnce ==
  ASSUME TypeInv, OnceInv, NEW m \in Msgs, m \in Inbound \/ m \notin RowIds(store),
         store' = AppendRow(store, m)
  PROVE  RowsOnce' /\ RowIds(store') = RowIds(store) \cup {m}
<1>1. PICK n : n = NextSeq(store)
  OBVIOUS
<1>2. /\ DOMAIN store' = DOMAIN store \cup {n}
      /\ \A s \in DOMAIN store : store'[s] = store[s]
      /\ store'[n] = m
      /\ RowIds(store') = RowIds(store) \cup {m}
  <2>1. PICK rows : rows = store
    OBVIOUS
  <2>2. Table(rows) /\ Gapless(DOMAIN rows)
    BY <2>1 DEF TypeInv, RowsInv
  <2>3. /\ DOMAIN AppendRow(rows, m) = DOMAIN rows \cup {NextSeq(rows)}
        /\ \A s \in DOMAIN rows : AppendRow(rows, m)[s] = rows[s]
        /\ AppendRow(rows, m)[NextSeq(rows)] = m
        /\ RowIds(AppendRow(rows, m)) = RowIds(rows) \cup {m}
    BY <2>2, RowAppended
  <2>4. QED BY <1>1, <2>1, <2>3
<1>3. \A s \in DOMAIN store : store[s] \in RowIds(store)
  BY DEF RowIds
<1>4. QED BY <1>2, <1>3 DEF OnceInv, RowsOnce

(* How far the local user's message m has come, as CarriedInv says. *)
OwnAt(m) ==
  /\ call[m] = "idle" => m \notin Ids(log)
  /\ call[m] = "logged" => m \in Ids(log)
  /\ call[m] \in {"idle", "logged"} => m \notin RowIds(store)
  /\ call[m] # "done" => m \notin RowIds(relay)

(* A step that writes the rows or the stage of a call keeps CarriedInv when it
   keeps it for every message of the local user. *)
LEMMA CarriedByCalls ==
  ASSUME CarriedInv, UNCHANGED <<relay, log, inbox, ep>>,
         Fetched' \subseteq Fetched, Left' = Left, \A m \in Own : OwnAt(m)'
  PROVE  CarriedInv'
<1>1. (Range(inbox) \cap Own = {})'
  BY DEF CarriedInv
<1>2. (Fetched \cup Left \subseteq RowIds(relay))'
  BY DEF CarriedInv, RowIds
<1>3. (ep.pc = "persist" => ep.id \in Ids(log) /\ ep.id \notin Own)'
  BY DEF CarriedInv
<1>4. QED BY <1>1, <1>2, <1>3, Zenon DEF CarriedInv, OwnAt

(* A step that changes at most what was fetched keeps CarriedInv. *)
LEMMA CarriedSame ==
  ASSUME CarriedInv, UNCHANGED <<store, relay, log, call, inbox, ep>>,
         Fetched' \subseteq Fetched, Left' = Left
  PROVE  CarriedInv'
<1>1. \A m \in Own : OwnAt(m)
  BY Zenon DEF CarriedInv, OwnAt
<1>2. \A m \in Own : OwnAt(m)'
  BY <1>1, Zenon DEF OwnAt, RowIds
<1>3. QED BY <1>2, CarriedByCalls

(* The local user's message_send, the relay, and the node's own server. *)
LEMMA CallOnce ==
  ASSUME HistoryInv, NEW m \in Msgs,
         \/ SendLog(m) \/ SendStore(m) \/ SendPublish(m) \/ RelayStore(m)
         \/ RelayPush(m) \/ ServerGossip(m)
  PROVE  CarriedInv' /\ OnceInv'
<1> USE DEF HistoryInv
<1>1. Own \cap Inbound = {} /\ Own \cap Remote = {} /\ DOMAIN call = Own \cup Inbound
  BY HistoryAssumption DEF Remote, TypeInv, TypeOK
<1>2. CASE SendLog(m)
  <2>1. PICK e : e = [seq |-> Len(log), id |-> m]
    BY Zenon
  <2>2. e \in Entries /\ e.id = m
    BY <2>1 DEF Entries, TypeInv, TypeOK
  <2>3. m \in Own /\ call[m] = "idle" /\ m \notin Ids(log) /\ log' = Append(log, e)
    BY <1>2, <2>1 DEF SendLog, LogAppend, CarriedInv
  <2>4. RelayedOnce' /\ Ids(log') = Ids(log) \cup {m}
    BY <2>2, <2>3, LogOnce
  <2>5. /\ UNCHANGED <<store, relay, inbox, ep, fetch>>
        /\ \A o \in Own : call'[o] = IF o = m THEN "logged" ELSE call[o]
    BY <1>1, <1>2 DEF SendLog
  <2>6. CarriedInv'
    <3>1. Fetched' = Fetched /\ Left' = Left
      BY <2>5 DEF Fetched, Left
    <3>2. QED BY <2>3, <2>4, <2>5, <3>1 DEF CarriedInv, RowIds
  <2>7. OnceInv'
    BY <2>4, <2>5, ZenonT(30) DEF OnceInv, RowsOnce, RowIds
  <2>8. QED BY <2>6, <2>7
<1>3. CASE SendStore(m)
  <2>1. m \in Own /\ call[m] = "logged" /\ m \notin RowIds(store) /\ m \in Ids(log)
    BY <1>3 DEF SendStore, CarriedInv
  <2>2. RowsOnce' /\ RowIds(store') = RowIds(store) \cup {m}
    BY <1>3, <2>1, RowOnce DEF SendStore
  <2>3. /\ UNCHANGED <<relay, log, inbox, ep, fetch>>
        /\ \A o \in Own : call'[o] = IF o = m THEN "stored" ELSE call[o]
    BY <1>1, <1>3 DEF SendStore
  <2>4. CarriedInv'
    <3>1. Fetched' = Fetched /\ Left' = Left
      BY <2>3 DEF Fetched, Left
    <3>2. ASSUME NEW o \in Own PROVE OwnAt(o)'
      BY <2>1, <2>2, <2>3 DEF CarriedInv, OwnAt, RowIds
    <3>3. QED BY <2>3, <3>1, <3>2, CarriedByCalls
  <2>5. OnceInv'
    BY <2>1, <2>2, <2>3, Zenon DEF OnceInv, RelayedOnce, CarriedInv
  <2>6. QED BY <2>4, <2>5
<1>4. CASE SendPublish(m) \/ RelayStore(m)
  <2>1. RowIds(relay') = RowIds(relay) \/ RowIds(relay') = RowIds(relay) \cup {m}
    BY <1>4, RowAppended, Zenon DEF SendPublish, RelayStore, TypeInv
  <2>2. /\ UNCHANGED <<store, log, inbox, ep, fetch>>
        /\ \A o \in Own : call'[o] = IF o = m THEN "done" ELSE call[o]
    BY <1>1, <1>4 DEF SendPublish, RelayStore
  <2>3. ASSUME NEW o \in Own
        PROVE  /\ call'[o] = "idle" => o \notin Ids(log')
               /\ call'[o] = "logged" => o \in Ids(log')
               /\ call'[o] \in {"idle", "logged"} => o \notin RowIds(store')
               /\ call'[o] # "done" => o \notin RowIds(relay')
    BY <2>1, <2>2, ZenonT(30) DEF CarriedInv
  <2>4. CarriedInv'
    BY <2>1, <2>2, <2>3, ZenonT(30) DEF CarriedInv, Fetched, Left
  <2>5. OnceInv'
    BY <2>2, ZenonT(30) DEF OnceInv, RelayedOnce, RowsOnce, RowIds
  <2>6. QED BY <2>4, <2>5
<1>5. CASE RelayPush(m)
  <2>1. Range(inbox') = Range(inbox) \cup {m} /\ m \notin Own
    BY <1>1, <1>5, RangeAppended DEF RelayPush, TypeInv, TypeOK
  <2>2. UNCHANGED <<store, relay, log, call, ep, fetch>>
    BY <1>5 DEF RelayPush
  <2>3. CarriedInv'
    <3>1. Fetched' = Fetched /\ Left' = Left
      BY <2>2 DEF Fetched, Left
    <3>2. QED BY <2>1, <2>2, <3>1 DEF CarriedInv, RowIds
  <2>4. OnceInv'
    BY <2>1, <2>2, ZenonT(30) DEF OnceInv, RelayedOnce, RowsOnce, RowIds
  <2>5. QED BY <2>3, <2>4
<1>6. CASE ServerGossip(m)
  <2>1. Range(inbox') = Range(inbox) \cup {m} /\ m \in Inbound /\ m \notin Own
    BY <1>1, <1>6, RangeAppended DEF ServerGossip, TypeInv, TypeOK
  <2>2. RowsOnce' /\ RowIds(store') = RowIds(store) \cup {m}
    BY <1>6, <2>1, RowOnce DEF ServerGossip
  <2>3. /\ UNCHANGED <<relay, log, ep, fetch>>
        /\ \A o \in Own : call'[o] = call[o]
    BY <1>1, <1>6, <2>1 DEF ServerGossip
  <2>4. CarriedInv'
    <3>1. Fetched' = Fetched /\ Left' = Left
      BY <2>3 DEF Fetched, Left
    <3>2. QED BY <2>1, <2>2, <2>3, <3>1 DEF CarriedInv, RowIds
  <2>5. OnceInv'
    BY <2>1, <2>2, <2>3, Zenon DEF OnceInv, RelayedOnce
  <2>6. QED BY <2>4, <2>5
<1>7. QED BY <1>2, <1>3, <1>4, <1>5, <1>6

(* The event processor: a message it does not know is appended to the log and
   only then stored. *)
LEMMA EventOnce ==
  ASSUME HistoryInv,
         \/ HandleNewMessage \/ PersistMessage \/ HandleHistory \/ IntegrateEntry
         \/ HistoryDone
  PROVE  CarriedInv' /\ OnceInv'
<1> USE DEF HistoryInv
<1>1. Idle.pc = "idle"
  BY DEF Idle
<1>2. CASE HandleNewMessage
  <2>1. PICK m : m = Head(inbox)
    OBVIOUS
  <2>2. m \in Msgs /\ Range(inbox) = {m} \cup Range(inbox') /\ m \notin Own
    BY <1>2, <2>1, RangeTail DEF HandleNewMessage, TypeInv, TypeOK, CarriedInv
  <2>3. ep = Idle /\ UNCHANGED <<store, relay, call, fetch>>
    BY <1>2 DEF HandleNewMessage
  <2>4. CASE m \in Ids(log) /\ UNCHANGED <<log, ep>>
    <3>1. CarriedInv'
      BY <2>2, <2>3, <2>4 DEF CarriedInv, Fetched, Left, RowIds
    <3>2. OnceInv'
      BY <2>2, <2>3, <2>4 DEF OnceInv, RelayedOnce, RowsOnce, RowIds
    <3>3. QED BY <3>1, <3>2
  <2>5. CASE /\ m \notin Ids(log) /\ log' = Append(log, [seq |-> Len(log), id |-> m])
             /\ ep' = [pc |-> "persist", id |-> m]
    <3>1. PICK e : e = [seq |-> Len(log), id |-> m]
      BY Zenon
    <3>2. e \in Entries /\ e.id = m
      BY <2>2, <3>1 DEF Entries, TypeInv, TypeOK
    <3>3. RelayedOnce' /\ Ids(log') = Ids(log) \cup {m}
      BY <2>5, <3>1, <3>2, LogOnce
    <3>4. ep'.pc = "persist" /\ ep'.id = m
      BY <2>5
    <3>5. m \notin RowIds(store) \/ m \in Inbound
      BY <2>5 DEF OnceInv
    <3>6. CarriedInv'
      <4>1. Fetched' = Fetched /\ Left' = {}
        BY <2>3, <3>4 DEF Fetched, Left
      <4>2. ASSUME NEW o \in Own
            PROVE  /\ call'[o] = "idle" => o \notin Ids(log')
                   /\ call'[o] = "logged" => o \in Ids(log')
                   /\ call'[o] \in {"idle", "logged"} => o \notin RowIds(store')
                   /\ call'[o] # "done" => o \notin RowIds(relay')
        BY <2>2, <2>3, <3>3 DEF CarriedInv, RowIds
      <4>3. QED BY <2>2, <2>3, <3>3, <3>4, <4>1, <4>2 DEF CarriedInv, RowIds
    <3>7. OnceInv'
      BY <2>2, <2>3, <3>3, <3>4, <3>5 DEF OnceInv, RowsOnce, RowIds
    <3>8. QED BY <3>6, <3>7
  <2>6. QED BY <1>2, <2>1, <2>4, <2>5, ZenonT(30) DEF HandleNewMessage, LogAppend, Known
<1>3. CASE PersistMessage
  <2>1. PICK m : m = ep.id
    OBVIOUS
  <2>2. m \in Msgs /\ m \in Ids(log) /\ m \notin Own /\ (m \in Inbound \/ m \notin RowIds(store))
    BY <1>1, <1>3, <2>1, ZenonT(30)
       DEF PersistMessage, CarriedInv, OnceInv, TypeInv, TypeOK, EpStates
  <2>3. RowsOnce' /\ RowIds(store') = RowIds(store) \cup {m}
    BY <1>3, <2>1, <2>2, RowOnce DEF PersistMessage
  <2>4. ep'.pc = "idle" /\ UNCHANGED <<relay, log, call, inbox, fetch>>
    BY <1>1, <1>3 DEF PersistMessage
  <2>5. CarriedInv'
    <3>1. Fetched' = Fetched /\ Left' = {}
      BY <2>4 DEF Fetched, Left
    <3>2. QED BY <2>2, <2>3, <2>4, <3>1 DEF CarriedInv, RowIds
  <2>6. OnceInv'
    BY <2>2, <2>3, <2>4 DEF OnceInv, RelayedOnce
  <2>7. QED BY <2>5, <2>6
<1>4. CASE HandleHistory
  <2>1. /\ Left' = Fetched /\ Fetched' = {} /\ ep'.pc = "history"
        /\ UNCHANGED <<store, relay, log, call, inbox>>
    BY <1>1, <1>4 DEF HandleHistory, Left, Fetched
  <2>2. CarriedInv'
    BY <2>1 DEF CarriedInv, RowIds
  <2>3. OnceInv'
    BY <2>1 DEF OnceInv, RelayedOnce, RowsOnce, RowIds
  <2>4. QED BY <2>2, <2>3
<1>5. CASE IntegrateEntry
  <2>1. ep \in [pc : {"history"}, left : Seq(Entries), held : SUBSET Msgs]
    BY <1>1, <1>5 DEF IntegrateEntry, TypeInv, TypeOK, EpStates
  <2>2. PICK e : e = Head(ep.left)
    OBVIOUS
  <2>3. /\ e \in Entries /\ e.id \in Msgs
        /\ e.id \in Left /\ Left' \subseteq Left
        /\ ep'.pc = "history"
    <3>1. ep.left \in Seq(Entries) /\ ep.left # <<>> /\ ep.pc = "history"
      BY <1>5, <2>1 DEF IntegrateEntry
    <3>2. Range(ep.left) = {e} \cup Range(Tail(ep.left)) /\ e \in Entries
      BY <2>2, <3>1, RangeTail
    <3>3. ep'.left = Tail(ep.left) /\ ep'.pc = "history"
      BY <1>5, <2>1 DEF IntegrateEntry
    <3>4. Left = Ids(ep.left) /\ Left' = Ids(Tail(ep.left))
      BY <3>1, <3>3 DEF Left
    <3>5. Ids(Tail(ep.left)) \subseteq Ids(ep.left) /\ e.id \in Ids(ep.left)
      BY <3>2 DEF Ids
    <3>6. QED BY <3>2, <3>3, <3>4, <3>5 DEF Entries
  <2>4. Fetched' = Fetched /\ UNCHANGED <<relay, call, inbox>>
    BY <1>5 DEF IntegrateEntry, Fetched
  <2>5. \A o \in Own : e.id = o => call[o] = "done"
    BY <2>3 DEF CarriedInv
  <2>6. CASE UNCHANGED <<log, store>>
    <3>1. CarriedInv'
      BY <2>3, <2>4, <2>6 DEF CarriedInv, RowIds
    <3>2. OnceInv'
      BY <2>3, <2>4, <2>6 DEF OnceInv, RelayedOnce, RowsOnce, RowIds
    <3>3. QED BY <3>1, <3>2
  <2>7. CASE /\ e.id \notin Ids(log) /\ log' = Append(log, e)
             /\ store' = AppendRow(store, e.id)
    <3>1. RelayedOnce' /\ Ids(log') = Ids(log) \cup {e.id}
      BY <2>3, <2>7, LogOnce
    <3>2. e.id \in Inbound \/ e.id \notin RowIds(store)
      BY <2>7 DEF OnceInv
    <3>3. RowsOnce' /\ RowIds(store') = RowIds(store) \cup {e.id}
      BY <2>3, <2>7, <3>2, RowOnce
    <3>4. ASSUME NEW o \in Own
          PROVE  /\ call'[o] = "idle" => o \notin Ids(log')
                 /\ call'[o] = "logged" => o \in Ids(log')
                 /\ call'[o] \in {"idle", "logged"} => o \notin RowIds(store')
                 /\ call'[o] # "done" => o \notin RowIds(relay')
      BY <2>4, <2>5, <3>1, <3>3 DEF CarriedInv, RowIds
    <3>5. CarriedInv'
      BY <2>3, <2>4, <3>4 DEF CarriedInv, RowIds
    <3>6. OnceInv'
      BY <2>3, <2>4, <3>1, <3>3 DEF OnceInv
    <3>7. QED BY <3>5, <3>6
  <2>8. QED BY <1>5, <2>2, <2>6, <2>7 DEF IntegrateEntry, Known
<1>6. CASE HistoryDone
  <2>1. ep'.pc = "idle" /\ UNCHANGED <<store, relay, log, call, inbox, fetch>>
    BY <1>1, <1>6 DEF HistoryDone
  <2>2. CarriedInv'
    BY <2>1 DEF CarriedInv, Fetched, Left, RowIds
  <2>3. OnceInv'
    BY <2>1 DEF OnceInv, RelayedOnce, RowsOnce, RowIds
  <2>4. QED BY <2>2, <2>3
<1>7. QED BY <1>2, <1>3, <1>4, <1>5, <1>6

(* The history task, retention and the restart, which rebuilds the log from the
   rows. *)
LEMMA OtherOnce ==
  ASSUME HistoryInv,
         \/ RequestHistory \/ ServeHistory \/ FetchFails \/ SweepMeasure \/ SweepDelete
         \/ Restart \/ UNCHANGED vars
  PROVE  CarriedInv' /\ OnceInv'
<1> USE DEF HistoryInv
<1>1. Idle.pc = "idle"
  BY DEF Idle
<1>2. CASE RequestHistory \/ FetchFails \/ SweepMeasure \/ UNCHANGED vars
  <2>1. /\ fetch' = fetch \/ fetch'.pc \in {"idle", "asked"}
        /\ UNCHANGED <<store, relay, log, call, inbox, ep>>
    BY <1>1, <1>2 DEF RequestHistory, FetchFails, SweepMeasure, vars
  <2>2. CarriedInv'
    <3>1. Fetched' \subseteq Fetched /\ Left' = Left
      BY <2>1 DEF Fetched, Left
    <3>2. QED BY <2>1, <3>1, CarriedSame
  <2>3. OnceInv'
    BY <2>1, ZenonT(30) DEF OnceInv, RelayedOnce, RowsOnce, RowIds
  <2>4. QED BY <2>2, <2>3
<1>3. CASE ServeHistory
  <2>1. fetch.since \in Nat
    BY <1>1, <1>3 DEF ServeHistory, TypeInv, TypeOK, FetchStates
  <2>2. PICK q : q = GetMessages(relay, fetch.since)
    OBVIOUS
  <2>3. Ids(q) \subseteq RowIds(relay)
    <3>1. Lists(q, relay, fetch.since)
      BY <2>1, <2>2, MessagesRead DEF TypeInv
    <3>2. \A i \in DOMAIN q : q[i].seq \in DOMAIN relay /\ q[i].id = relay[q[i].seq]
      BY <3>1 DEF Lists
    <3>3. QED BY <3>2 DEF Ids, Range, RowIds
  <2>4. Fetched' = Ids(q) /\ UNCHANGED <<store, relay, log, call, inbox, ep>>
    BY <1>3, <2>2 DEF ServeHistory, Fetched
  <2>5. CarriedInv'
    BY <2>3, <2>4 DEF CarriedInv, Left, RowIds
  <2>6. OnceInv'
    BY <2>4, Zenon DEF OnceInv, RelayedOnce, RowsOnce, RowIds
  <2>7. QED BY <2>5, <2>6
<1>4. CASE SweepDelete
  <2>1. \A s \in DOMAIN store' : s \in DOMAIN store /\ store'[s] = store[s]
    BY <1>4, DeleteKeepsRowsInv DEF TypeInv
  <2>2. RowIds(store') \subseteq RowIds(store)
    BY <2>1 DEF RowIds
  <2>3. UNCHANGED <<relay, log, call, inbox, ep, fetch>>
    BY <1>4 DEF SweepDelete
  <2>4. RowsOnce'
    BY <2>1 DEF OnceInv, RowsOnce
  <2>5. CarriedInv'
    BY <2>2, <2>3 DEF CarriedInv, Fetched, Left, RowIds
  <2>6. OnceInv'
    BY <2>2, <2>3, <2>4, ZenonT(30) DEF OnceInv, RelayedOnce
  <2>7. QED BY <2>5, <2>6
<1>5. CASE Restart
  <2>1. Table(store) /\ 0 \in Nat
    BY ZenonT(30) DEF TypeInv, RowsInv
  <2>2. /\ log' \in Seq([seq : Nat, id : RowIds(store)])
        /\ \A i \in DOMAIN log' : log'[i].seq \in DOMAIN store /\ log'[i].id = store[log'[i].seq]
        /\ \A i, j \in DOMAIN log' : i < j => log'[i].seq < log'[j].seq
        /\ \A s \in DOMAIN store : s >= 0 => \E i \in DOMAIN log' : log'[i].seq = s
    <3>1. Lists(log', store, 0)
      BY <1>5, <2>1, MessagesRead DEF Restart
    <3>2. QED BY <3>1, Zenon DEF Lists
  <2>3. DOMAIN store \subseteq Nat /\ DOMAIN log' \subseteq Nat
    BY <2>1, <2>2 DEF Table
  <2>4. Ids(log') = RowIds(store)
    <3>1. \A s \in DOMAIN store : \E i \in DOMAIN log' : log'[i].id = store[s]
      BY <2>2, <2>3
    <3>2. \A i \in DOMAIN log' : log'[i].id \in RowIds(store)
      BY <2>2 DEF RowIds
    <3>3. Ids(log') = {log'[i].id : i \in DOMAIN log'}
      BY DEF Ids, Range
    <3>4. QED BY <3>1, <3>2, <3>3 DEF RowIds
  <2>5. RelayedOnce'
    <3>1. SUFFICES ASSUME NEW i \in DOMAIN log', NEW j \in DOMAIN log',
                          log'[i].id = log'[j].id, log'[i].id \notin Inbound
                   PROVE  i = j
      BY DEF RelayedOnce
    <3>2. log'[i].seq = log'[j].seq /\ log'[i].seq \in Nat
      BY <2>2, <2>3, <3>1, Zenon DEF OnceInv, RowsOnce
    <3>3. ~(i < j) /\ ~(j < i)
      BY <2>2, <3>2
    <3>4. QED BY <2>3, <3>3
  <2>6. /\ ep'.pc = "idle" /\ fetch'.pc = "idle" /\ inbox' = <<>>
        /\ UNCHANGED <<store, relay>>
    BY <1>1, <1>5 DEF Restart
  <2>7. \A o \in Own : call'[o] = IF call[o] = "idle" THEN "idle" ELSE "done"
    BY <1>5 DEF Restart, TypeInv, TypeOK
  <2>8. Range(inbox') = {}
    BY <2>6 DEF Range
  <2>9. CarriedInv'
    BY <2>4, <2>6, <2>7, <2>8 DEF CarriedInv, Fetched, Left, RowIds
  <2>10. OnceInv'
    BY <2>4, <2>5, <2>6 DEF OnceInv, RowsOnce, RowIds
  <2>11. QED BY <2>9, <2>10
<1>6. QED BY <1>2, <1>3, <1>4, <1>5

-----------------------------------------------------------------------------
(* An append to the node's own rows keeps their type. *)
LEMMA StoreTyped ==
  ASSUME TypeInv, NEW m \in Msgs, store' = AppendRow(store, m)
  PROVE  DOMAIN store' \subseteq Nat /\ RowIds(store') \subseteq Msgs
<1>1. RowIds(store') = RowIds(store) \cup {m} /\ Table(store')
  BY RowAppended, Zenon DEF TypeInv, RowsInv
<1>2. QED BY <1>1 DEF Table, TypeInv, TypeOK

(* An append to the relay's rows keeps them a table without gaps. *)
LEMMA RelayTyped ==
  ASSUME TypeInv, NEW m \in Msgs, relay' = AppendRow(relay, m)
  PROVE  /\ DOMAIN relay' \subseteq Nat /\ RowIds(relay') \subseteq Msgs
         /\ Table(relay') /\ Gapless(DOMAIN relay')
<1>1. RowIds(relay') = RowIds(relay) \cup {m} /\ Table(relay') /\ Gapless(DOMAIN relay')
  BY RowAppended, Zenon DEF TypeInv
<1>2. QED BY <1>1 DEF Table, TypeInv, TypeOK

(* A sequence over a set is one over a larger set. *)
LEMMA SeqWider ==
  ASSUME NEW S, NEW T, S \subseteq T, NEW q \in Seq(S)
  PROVE  q \in Seq(T)
<1>1. q \in [1 .. Len(q) -> T] /\ Len(q) \in Nat
  OBVIOUS
<1>2. QED BY <1>1

(* What is read from typed rows is typed. *)
LEMMA ReadTyped ==
  ASSUME NEW rows, Table(rows), RowIds(rows) \subseteq Msgs, NEW since \in Nat
  PROVE  GetMessages(rows, since) \in Seq(Entries)
<1>1. GetMessages(rows, since) \in Seq([seq : Nat, id : RowIds(rows)])
  BY MessagesRead DEF Lists
<1>2. [seq : Nat, id : RowIds(rows)] \subseteq Entries
  BY DEF Entries
<1>3. QED BY <1>1, <1>2, SeqWider, Zenon

(* The log after at most one entry more. *)
LEMMA LogTyped ==
  ASSUME log \in Seq(Entries), NEW e \in Entries, log' = log \/ log' = Append(log, e)
  PROVE  log' \in Seq(Entries)
<1>1. Append(log, e) \in Seq(Entries)
  BY EntryAdded
<1>2. QED BY <1>1, Zenon

(* The counters of the bounded steps stay numbers. *)
LEMMA UsedTyped ==
  ASSUME used \in [{"push", "fetch", "sweep", "restart"} -> Nat],
         NEW b \in {"push", "fetch", "sweep", "restart"},
         used' = [used EXCEPT ![b] = @ + 1]
  PROVE  used' \in [{"push", "fetch", "sweep", "restart"} -> Nat]
  OBVIOUS

(* The stages of a call, and the rows of a table of messages. *)
Stages == [Own \cup Inbound -> {"idle", "logged", "stored", "done"}]

RowsTyped(rows) == DOMAIN rows \subseteq Nat /\ RowIds(rows) \subseteq Msgs

(* The types, variable by variable. *)
LEMMA TypesAre ==
  ASSUME TypeOK
  PROVE  /\ RowsTyped(store) /\ RowsTyped(relay)
         /\ log \in Seq(Entries) /\ call \in Stages /\ inbox \in Seq(Msgs)
         /\ ep \in EpStates /\ fetch \in FetchStates /\ sweep \in SweepStates
         /\ used \in [{"push", "fetch", "sweep", "restart"} -> Nat]
  BY Zenon DEF TypeOK, RowsTyped, Stages

(* A step keeps the types when what it changes has its type. *)
LEMMA TypesKept ==
  ASSUME TypeOK,
         store' = store \/ RowsTyped(store'), relay' = relay \/ RowsTyped(relay'),
         log' = log \/ log' \in Seq(Entries), call' = call \/ call' \in Stages,
         inbox' = inbox \/ inbox' \in Seq(Msgs), ep' = ep \/ ep' \in EpStates,
         fetch' = fetch \/ fetch' \in FetchStates, sweep' = sweep \/ sweep' \in SweepStates,
         used' = used \/ used' \in [{"push", "fetch", "sweep", "restart"} -> Nat]
  PROVE  TypeOK'
<1>1. RowsTyped(store') /\ RowsTyped(relay')
  <2>1. RowsTyped(store) /\ RowsTyped(relay)
    BY TypesAre, Zenon
  <2>2. RowsTyped(store')
    BY <2>1, Zenon
  <2>3. RowsTyped(relay')
    BY <2>1, Zenon
  <2>4. QED BY <2>2, <2>3, Zenon
<1>2. log' \in Seq(Entries) /\ call' \in Stages /\ inbox' \in Seq(Msgs)
  BY TypesAre, Zenon
<1>3. ep' \in EpStates /\ fetch' \in FetchStates /\ sweep' \in SweepStates
  BY TypesAre, Zenon
<1>4. used' \in [{"push", "fetch", "sweep", "restart"} -> Nat]
  BY TypesAre, Zenon
<1>5. QED BY <1>1, <1>2, <1>3, <1>4, Zenon DEF TypeOK, RowsTyped, RowIds, Stages

(* The calls that write the log, the rows or the relay. *)
LEMMA CallTypes ==
  ASSUME TypeInv, NEW m \in Msgs,
         \/ SendLog(m) \/ SendStore(m) \/ SendPublish(m) \/ RelayStore(m)
         \/ RelayPush(m) \/ ServerGossip(m)
  PROVE  TypeOK' /\ Table(relay') /\ Gapless(DOMAIN relay')
<1>1. TypeOK /\ Table(relay) /\ Gapless(DOMAIN relay)
  BY Zenon DEF TypeInv
<1>2. call \in Stages /\ log \in Seq(Entries) /\ inbox \in Seq(Msgs)
  BY <1>1, TypesAre, Zenon
<1>3. used \in [{"push", "fetch", "sweep", "restart"} -> Nat]
  BY <1>1, TypesAre, Zenon
<1>4. CASE SendLog(m)
  <2>1. PICK e : e = [seq |-> Len(log), id |-> m]
    BY Zenon
  <2>2. e \in Entries
    BY <1>2, <2>1 DEF Entries
  <2>3. log' = Append(log, e)
    BY <1>4, <2>1, Zenon DEF SendLog, LogAppend
  <2>4. log' \in Seq(Entries)
    BY <1>2, <2>2, <2>3, LogTyped
  <2>5. call' \in Stages /\ UNCHANGED <<store, relay, inbox, ep, fetch, sweep, used>>
    BY <1>2, <1>4 DEF SendLog, Stages
  <2>6. QED BY <1>1, <2>4, <2>5, TypesKept
<1>5. CASE SendStore(m)
  <2>1. RowsTyped(store')
    BY <1>5, StoreTyped, Zenon DEF SendStore, RowsTyped
  <2>2. call' \in Stages /\ UNCHANGED <<relay, log, inbox, ep, fetch, sweep, used>>
    BY <1>2, <1>5 DEF SendStore, Stages
  <2>3. QED BY <1>1, <2>1, <2>2, TypesKept
<1>6. CASE SendPublish(m)
  <2>1. RowsTyped(relay') /\ Table(relay') /\ Gapless(DOMAIN relay')
    <3>1. CASE relay' = AppendRow(relay, m)
      BY <3>1, RelayTyped, Zenon DEF RowsTyped
    <3>2. CASE relay' = relay
      <4>1. RowsTyped(relay)
        BY <1>1, TypesAre, Zenon
      <4>2. QED BY <1>1, <3>2, <4>1, Zenon
    <3>3. QED BY <1>6, <3>1, <3>2, Zenon DEF SendPublish
  <2>2. call' \in Stages /\ UNCHANGED <<store, log, inbox, ep, fetch, sweep, used>>
    BY <1>2, <1>6 DEF SendPublish, Stages
  <2>3. QED BY <1>1, <2>1, <2>2, TypesKept
<1>7. CASE RelayStore(m)
  <2>1. RowsTyped(relay') /\ Table(relay') /\ Gapless(DOMAIN relay')
    BY <1>7, RelayTyped, Zenon DEF RelayStore, RowsTyped
  <2>2. UNCHANGED <<store, log, call, inbox, ep, fetch, sweep, used>>
    BY <1>7, Zenon DEF RelayStore
  <2>3. QED BY <1>1, <2>1, <2>2, TypesKept
<1>8. CASE RelayPush(m)
  <2>1. inbox' \in Seq(Msgs)
    BY <1>2, <1>8 DEF RelayPush
  <2>2. used' \in [{"push", "fetch", "sweep", "restart"} -> Nat]
    BY <1>3, <1>8, UsedTyped DEF RelayPush
  <2>3. UNCHANGED <<store, relay, log, call, ep, fetch, sweep>>
    BY <1>8, Zenon DEF RelayPush
  <2>4. QED BY <1>1, <2>1, <2>2, <2>3, TypesKept
<1>9. CASE ServerGossip(m)
  <2>1. RowsTyped(store')
    BY <1>9, StoreTyped, Zenon DEF ServerGossip, RowsTyped
  <2>2. inbox' \in Seq(Msgs)
    BY <1>2, <1>9 DEF ServerGossip
  <2>3. call' \in Stages /\ UNCHANGED <<relay, log, ep, fetch, sweep, used>>
    BY <1>2, <1>9 DEF ServerGossip, Stages
  <2>4. QED BY <1>1, <2>1, <2>2, <2>3, TypesKept
<1>10. QED BY <1>4, <1>5, <1>6, <1>7, <1>8, <1>9, Zenon

(* The event processor. *)
LEMMA EventTypes ==
  ASSUME TypeInv,
         \/ HandleNewMessage \/ PersistMessage \/ HandleHistory \/ IntegrateEntry \/ HistoryDone
  PROVE  TypeOK' /\ relay' = relay
<1>1. TypeOK
  BY Zenon DEF TypeInv
<1>2. /\ log \in Seq(Entries) /\ inbox \in Seq(Msgs)
      /\ ep \in EpStates /\ fetch \in FetchStates
  BY <1>1, TypesAre, Zenon
<1>3. Idle \in EpStates /\ Idle \in FetchStates /\ Idle.pc = "idle"
  BY DEF EpStates, FetchStates, Idle
<1>4. CASE HandleNewMessage
  <2>1. Head(inbox) \in Msgs /\ inbox' \in Seq(Msgs)
    BY <1>2, <1>4, RangeTail DEF HandleNewMessage
  <2>2. PICK e : e = [seq |-> Len(log), id |-> Head(inbox)]
    BY Zenon
  <2>3. e \in Entries
    BY <1>2, <2>1, <2>2 DEF Entries
  <2>4. log' = log \/ log' = Append(log, e)
    BY <1>4, <2>2, Zenon DEF HandleNewMessage, LogAppend
  <2>5. log' \in Seq(Entries)
    BY <1>2, <2>3, <2>4, LogTyped, Zenon
  <2>6. ep' = ep \/ ep' \in EpStates
    <3>1. [pc |-> "persist", id |-> Head(inbox)] \in EpStates
      BY <2>1 DEF EpStates
    <3>2. QED BY <1>4, <3>1, Zenon DEF HandleNewMessage
  <2>7. UNCHANGED <<store, relay, call, fetch, sweep, used>>
    BY <1>4, Zenon DEF HandleNewMessage
  <2>8. QED BY <1>1, <2>1, <2>5, <2>6, <2>7, TypesKept
<1>5. CASE PersistMessage
  <2>1. ep.id \in Msgs
    BY <1>2, <1>3, <1>5 DEF PersistMessage, EpStates
  <2>2. RowsTyped(store')
    BY <1>5, <2>1, StoreTyped, Zenon DEF PersistMessage, RowsTyped
  <2>3. ep' \in EpStates /\ UNCHANGED <<relay, log, call, inbox, fetch, sweep, used>>
    BY <1>3, <1>5, Zenon DEF PersistMessage
  <2>4. QED BY <1>1, <2>2, <2>3, TypesKept
<1>6. CASE HandleHistory
  <2>1. fetch.entries \in Seq(Entries) /\ fetch.held \subseteq Msgs
    BY <1>2, <1>3, <1>6 DEF HandleHistory, FetchStates
  <2>2. ep' \in EpStates
    BY <1>6, <2>1 DEF HandleHistory, EpStates
  <2>3. fetch' \in FetchStates /\ UNCHANGED <<store, relay, log, call, inbox, sweep, used>>
    BY <1>3, <1>6, Zenon DEF HandleHistory
  <2>4. QED BY <1>1, <2>2, <2>3, TypesKept
<1>7. CASE IntegrateEntry
  <2>1. ep \in [pc : {"history"}, left : Seq(Entries), held : SUBSET Msgs]
    BY <1>2, <1>3, <1>7 DEF IntegrateEntry, EpStates
  <2>2. /\ ep.left \in Seq(Entries) /\ ep.left # <<>>
        /\ Head(ep.left) \in Entries /\ Tail(ep.left) \in Seq(Entries)
    BY <1>7, <2>1 DEF IntegrateEntry
  <2>3. ep' \in EpStates
    <3>1. ep' \in [pc : {"history"}, left : Seq(Entries), held : SUBSET Msgs]
      BY <1>7, <2>1, <2>2, Zenon DEF IntegrateEntry
    <3>2. QED BY <3>1, Zenon DEF EpStates
  <2>4. PICK e \in Entries : e = Head(ep.left)
    BY <2>2, Zenon
  <2>5. log' = log \/ log' = Append(log, e)
    BY <1>7, <2>4, Zenon DEF IntegrateEntry
  <2>6. log' \in Seq(Entries)
    BY <1>2, <2>5, LogTyped, Zenon
  <2>7. store' = store \/ RowsTyped(store')
    <3>1. e.id \in Msgs
      BY DEF Entries
    <3>2. CASE store' = AppendRow(store, e.id)
      BY <3>1, <3>2, StoreTyped, Zenon DEF RowsTyped
    <3>3. QED BY <1>7, <2>4, <3>2, Zenon DEF IntegrateEntry
  <2>8. UNCHANGED <<relay, call, inbox, fetch, sweep, used>>
    BY <1>7, Zenon DEF IntegrateEntry
  <2>9. QED BY <1>1, <2>3, <2>6, <2>7, <2>8, TypesKept
<1>8. CASE HistoryDone
  <2>1. ep' \in EpStates /\ UNCHANGED <<store, relay, log, call, inbox, fetch, sweep, used>>
    BY <1>3, <1>8, Zenon DEF HistoryDone
  <2>2. QED BY <1>1, <2>1, TypesKept
<1>9. QED BY <1>4, <1>5, <1>6, <1>7, <1>8, Zenon

(* The request for history and its answer. *)
LEMMA FetchTypes ==
  ASSUME TypeInv, RequestHistory \/ ServeHistory \/ FetchFails
  PROVE  TypeOK' /\ relay' = relay
<1>1. TypeOK /\ Table(store) /\ Table(relay)
  BY Zenon DEF TypeInv, RowsInv
<1>2. /\ fetch \in FetchStates /\ RowIds(relay) \subseteq Msgs
      /\ used \in [{"push", "fetch", "sweep", "restart"} -> Nat]
  BY <1>1, TypesAre, Zenon DEF RowsTyped
<1>3. Idle \in FetchStates /\ Idle.pc = "idle"
  BY DEF FetchStates, Idle
<1>4. CASE RequestHistory
  <2>1. NextSeq(store) \in Nat
    BY <1>1, NextSeqAbove
  <2>2. fetch' \in FetchStates
    BY <1>4, <2>1 DEF RequestHistory, FetchStates
  <2>3. used' \in [{"push", "fetch", "sweep", "restart"} -> Nat]
    BY <1>2, <1>4, UsedTyped DEF RequestHistory
  <2>4. UNCHANGED <<store, relay, log, call, inbox, ep, sweep>>
    BY <1>4, Zenon DEF RequestHistory
  <2>5. QED BY <1>1, <2>2, <2>3, <2>4, TypesKept
<1>5. CASE ServeHistory
  <2>1. fetch.since \in Nat
    BY <1>2, <1>3, <1>5 DEF ServeHistory, FetchStates
  <2>2. GetMessages(relay, fetch.since) \in Seq(Entries)
    BY <1>1, <1>2, <2>1, ReadTyped, Zenon
  <2>3. fetch' \in FetchStates
    BY <1>2, <1>5, <2>2 DEF ServeHistory, FetchStates
  <2>4. UNCHANGED <<store, relay, log, call, inbox, ep, sweep, used>>
    BY <1>5, Zenon DEF ServeHistory
  <2>5. QED BY <1>1, <2>3, <2>4, TypesKept
<1>6. CASE FetchFails
  <2>1. fetch' \in FetchStates /\ UNCHANGED <<store, relay, log, call, inbox, ep, sweep, used>>
    BY <1>3, <1>6, Zenon DEF FetchFails
  <2>2. QED BY <1>1, <2>1, TypesKept
<1>7. QED BY <1>4, <1>5, <1>6, Zenon

(* The retention pass and the restart. *)
LEMMA SweepTypes ==
  ASSUME TypeInv, SweepMeasure \/ SweepDelete \/ Restart
  PROVE  TypeOK' /\ relay' = relay
<1>1. TypeOK /\ RowsInv /\ Table(store)
  BY Zenon DEF TypeInv, RowsInv
<1>2. /\ DOMAIN store \subseteq Nat /\ RowIds(store) \subseteq Msgs /\ call \in Stages
      /\ used \in [{"push", "fetch", "sweep", "restart"} -> Nat]
  BY <1>1, TypesAre, Zenon DEF RowsTyped
<1>3. Idle \in EpStates /\ Idle \in FetchStates /\ Idle \in SweepStates
  BY DEF EpStates, FetchStates, SweepStates
<1>4. CASE SweepMeasure
  <2>1. PICK keys : keys = DOMAIN store
    BY Zenon
  <2>2. Measured(store, keys) /\ Measured(store, {}) /\ keys \cap {} = {}
    BY <1>1, <1>2, <2>1 DEF Measured
  <2>3. PICK total : total = Bytes(store, keys)
    BY Zenon
  <2>4. total \in Nat
    BY <2>2, <2>3, BytesAdd, Zenon
  <2>5. sweep' = Idle \/ sweep' = [pc |-> "delete", keys |-> keys, total |-> total]
    BY <1>4, <2>1, <2>3, Zenon DEF SweepMeasure
  <2>6. sweep' \in SweepStates
    BY <1>2, <2>1, <2>4, <2>5 DEF SweepStates
  <2>7. used' \in [{"push", "fetch", "sweep", "restart"} -> Nat]
    BY <1>2, <1>4, UsedTyped DEF SweepMeasure
  <2>8. UNCHANGED <<store, relay, log, call, inbox, ep, fetch>>
    BY <1>4, Zenon DEF SweepMeasure
  <2>9. QED BY <1>1, <2>6, <2>7, <2>8, TypesKept
<1>5. CASE SweepDelete
  <2>1. \A s \in DOMAIN store' : s \in DOMAIN store /\ store'[s] = store[s]
    BY <1>1, <1>5, DeleteKeepsRowsInv
  <2>2. RowsTyped(store')
    BY <1>2, <2>1 DEF RowsTyped, RowIds
  <2>3. sweep' \in SweepStates /\ UNCHANGED <<relay, log, call, inbox, ep, fetch, used>>
    BY <1>3, <1>5, Zenon DEF SweepDelete
  <2>4. QED BY <1>1, <2>2, <2>3, TypesKept
<1>6. CASE Restart
  <2>1. log' \in Seq(Entries)
    <3>1. log' = GetMessages(store, 0)
      BY <1>6, Zenon DEF Restart
    <3>2. 0 \in Nat
      OBVIOUS
    <3>3. QED BY <1>1, <1>2, <3>1, <3>2, ReadTyped, Zenon
  <2>2. call' \in Stages
    BY <1>2, <1>6 DEF Restart, Stages
  <2>3. used' \in [{"push", "fetch", "sweep", "restart"} -> Nat]
    BY <1>2, <1>6, UsedTyped DEF Restart
  <2>4. ep' \in EpStates /\ fetch' \in FetchStates /\ sweep' \in SweepStates
    BY <1>3, <1>6, Zenon DEF Restart
  <2>5. inbox' = <<>> /\ UNCHANGED <<store, relay>>
    BY <1>6, Zenon DEF Restart
  <2>6. inbox' \in Seq(Msgs)
    BY <2>5
  <2>7. QED BY <1>1, <2>1, <2>2, <2>3, <2>4, <2>5, <2>6, TypesKept
<1>7. QED BY <1>4, <1>5, <1>6, Zenon

(* TypeInv is inductive. *)
LEMMA TypeInvariant ==
  (Init => TypeInv) /\ (TypeInv /\ [Next]_vars => TypeInv')
<1>1. Init => TypeInv
  <2> SUFFICES ASSUME Init PROVE TypeInv
    OBVIOUS
  <2>1. RowsInv /\ Table(relay) /\ Gapless(DOMAIN relay)
    BY DEF Init, RowsInv, Table, Gapless, Idle
  <2>2. call \in [Own \cup Inbound -> {"idle", "logged", "stored", "done"}]
    BY DEF Init
  <2>3. ep \in EpStates /\ fetch \in FetchStates /\ sweep \in SweepStates
    BY DEF Init, EpStates, FetchStates, SweepStates
  <2>4. TypeOK
    BY <2>2, <2>3 DEF Init, TypeOK, RowIds
  <2>5. QED BY <2>1, <2>4 DEF TypeInv
<1>2. ASSUME TypeInv, [Next]_vars PROVE TypeInv'
  <2>1. RowsInv'
    BY <1>2, RowsStep DEF TypeInv
  <2>2. CASE \E m \in Msgs : \/ SendLog(m) \/ SendStore(m) \/ SendPublish(m)
                             \/ RelayStore(m) \/ RelayPush(m) \/ ServerGossip(m)
    BY <1>2, <2>1, <2>2, CallTypes DEF TypeInv
  <2>3. CASE \/ HandleNewMessage \/ PersistMessage \/ RequestHistory \/ ServeHistory
             \/ FetchFails \/ HandleHistory \/ IntegrateEntry \/ HistoryDone
    <3>1. TypeOK' /\ relay' = relay
      BY <1>2, <2>3, EventTypes, FetchTypes, Zenon
    <3>2. QED BY <1>2, <2>1, <3>1 DEF TypeInv, Table
  <2>4. CASE SweepMeasure \/ SweepDelete \/ Restart
    <3>1. TypeOK' /\ relay' = relay
      BY <1>2, <2>4, SweepTypes, Zenon
    <3>2. QED BY <1>2, <2>1, <3>1 DEF TypeInv, Table
  <2>5. CASE UNCHANGED vars
    BY <1>2, <2>1, <2>5 DEF vars, TypeInv, TypeOK, RowIds, Table
  <2>6. QED BY <1>2, <2>2, <2>3, <2>4, <2>5, Zenon DEF Next
<1>3. QED BY <1>1, <1>2

(* Whatever is received, stored, swept or rebuilt, the rows stay numbered by
   naturals, the log and the answers of the relay are sequences of entries, and
   the measure of a retention pass is a number of bytes (store.rs:151-189,
   message_log.rs:50-57). *)
THEOREM HistoryTyped == Spec => []TypeOK
<1>1. QED BY TypeInvariant, PTL DEF Spec, TypeInv
-----------------------------------------------------------------------------
(* What the retention pass remembers of its first transaction is still what the
   rows it measured take. *)
SizeInv == sweep.pc = "delete" => sweep.total = Bytes(store, sweep.keys)

(* How a step touches the rows and the retention pass. *)
LEMMA RowsAndSweep ==
  ASSUME TypeInv, [Next]_vars
  PROVE  \/ UNCHANGED <<store, sweep>>
         \/ sweep' = sweep /\ \E m \in Msgs : store' = AppendRow(store, m)
         \/ SweepMeasure
         \/ SweepDelete
         \/ store' = store /\ sweep' = Idle /\ used' # used
<1>1. CASE \E m \in Msgs : \/ SendLog(m) \/ SendStore(m) \/ SendPublish(m)
                           \/ RelayStore(m) \/ RelayPush(m) \/ ServerGossip(m)
  BY <1>1 DEF SendLog, SendStore, SendPublish, RelayStore, RelayPush, ServerGossip
<1>2. CASE PersistMessage
  <2>1. ep.id \in Msgs
    BY <1>2 DEF PersistMessage, TypeInv, TypeOK, EpStates, Idle
  <2>2. QED BY <1>2, <2>1 DEF PersistMessage
<1>3. CASE IntegrateEntry
  <2>1. ep.left \in Seq(Entries) /\ ep.left # <<>>
    BY <1>3 DEF IntegrateEntry, TypeInv, TypeOK, EpStates, Idle
  <2>2. Head(ep.left).id \in Msgs
    <3>1. Head(ep.left) \in Entries
      BY <2>1
    <3>2. QED BY <3>1 DEF Entries
  <2>3. QED BY <1>3, <2>2 DEF IntegrateEntry
<1>4. CASE \/ HandleNewMessage \/ RequestHistory \/ ServeHistory
           \/ FetchFails \/ HandleHistory \/ HistoryDone
  BY <1>4 DEF HandleNewMessage, RequestHistory, ServeHistory, FetchFails, HandleHistory,
              HistoryDone
<1>5. CASE Restart
  <2>1. used' # used
    <3>1. used["restart"] \in Nat /\ used'["restart"] = used["restart"] + 1
      BY <1>5 DEF Restart, TypeInv, TypeOK
    <3>2. QED BY <3>1
  <2>2. QED BY <1>5, <2>1 DEF Restart
<1>6. CASE UNCHANGED vars
  BY <1>6 DEF vars
<1>7. QED BY <1>1, <1>2, <1>3, <1>4, <1>5, <1>6, Zenon DEF Next

(* Every step keeps the measure of a retention pass true. *)
LEMMA SizeStep ==
  ASSUME TypeInv, SizeInv, [Next]_vars
  PROVE  SizeInv'
<1>1. CASE UNCHANGED <<store, sweep>>
  BY <1>1 DEF SizeInv
<1>2. ASSUME sweep' = sweep, NEW m \in Msgs, store' = AppendRow(store, m)
      PROVE  SizeInv'
  <2>1. SUFFICES ASSUME sweep.pc = "delete"
                 PROVE  sweep.total = Bytes(store', sweep.keys)
    BY <1>2 DEF SizeInv
  <2>2. Measured(store, sweep.keys) /\ Gapless(DOMAIN store)
    BY <2>1 DEF Measured, TypeInv, TypeOK, RowsInv
  <2>3. Bytes(store', sweep.keys) = Bytes(store, sweep.keys)
    BY <1>2, <2>2, BytesAppend
  <2>4. QED BY <2>1, <2>3 DEF SizeInv
<1>3. CASE SweepMeasure
  BY <1>3 DEF SweepMeasure, SizeInv, Idle
<1>4. CASE sweep' = Idle
  BY <1>4 DEF SizeInv, Idle
<1>5. QED BY <1>1, <1>2, <1>3, <1>4, RowsAndSweep DEF SweepDelete

(* A set of naturals that is not empty has a least element. *)
LEMMA Least ==
  ASSUME NEW D \in SUBSET Nat, D # {}
  PROVE  \E d \in D : \A x \in D : d <= x
<1> DEFINE P == {n \in Nat : \A d \in D : d > n}
<1>1. SUFFICES ASSUME \A d \in D : \E x \in D : x < d PROVE FALSE
  OBVIOUS
<1>2. 0 \in P
  <2>1. \A d \in D : d # 0
    BY <1>1
  <2>2. QED BY <2>1
<1>3. ASSUME NEW n \in P PROVE n + 1 \in P
  <2>1. ASSUME NEW d \in D PROVE d > n + 1
    <3>1. PICK x \in D : x < d
      BY <1>1
    <3>2. x > n /\ x \in Nat /\ d \in Nat /\ n \in Nat
      OBVIOUS
    <3>3. QED BY <3>1, <3>2
  <2>2. QED BY <2>1
<1>4. P \subseteq Nat
  OBVIOUS
<1> HIDE DEF P
<1>5. \A n \in Nat : n \in P
  BY <1>2, <1>3, <1>4, Induction
<1>6. PICK d \in D : TRUE
  BY Zenon
<1>7. d \in P
  BY <1>5
<1>8. QED BY <1>7 DEF P

(* The second pass of enforce_retention removes just enough. *)
LEMMA DeleteExact ==
  ASSUME TypeInv, SizeInv, SweepDelete
  PROVE  LET kept == sweep.keys \cap DOMAIN store'
             gone == DOMAIN store \ DOMAIN store'
         IN  /\ Bytes(store, kept) <= MaxBytes
             /\ gone # {} => Bytes(store, kept \cup {Max(gone)}) > MaxBytes
<1>1. PICK R : R = store
  OBVIOUS
<1>2. PICK K : K = sweep.keys
  OBVIOUS
<1> DEFINE T == Bytes(R, K)
           before(j) == {i \in K \cap DOMAIN R : i < j}
           gone == Evicted(R, K, T)
           kept == K \ gone
<1>3. /\ K \subseteq DOMAIN R /\ DOMAIN R \subseteq Nat
      /\ \A A : A \subseteq K => Measured(R, A)
      /\ Table(R)
  BY <1>1, <1>2 DEF Measured, TypeInv, TypeOK, RowsInv, SweepDelete
<1>4. sweep.total = T
  BY <1>1, <1>2 DEF SizeInv, SweepDelete
<1>5. gone = {k \in K : \A j \in K : j <= k => T - Bytes(R, before(j)) > MaxBytes}
  BY DEF Evicted
<1> HIDE DEF T, gone
<1>6. gone \subseteq K
  BY <1>5
<1>7. DOMAIN store' = DOMAIN R \ gone
  BY <1>1, <1>2, <1>4 DEF SweepDelete, gone
<1>8. kept = sweep.keys \cap DOMAIN store' /\ gone = DOMAIN store \ DOMAIN store'
  BY <1>1, <1>2, <1>3, <1>6, <1>7
<1>9. ASSUME NEW A, NEW B, A \cup B = K, A \cap B = {}
      PROVE  Bytes(R, A) \in Nat /\ Bytes(R, B) \in Nat /\ T = Bytes(R, A) + Bytes(R, B)
  <2>1. Measured(R, A) /\ Measured(R, B)
    BY <1>3, <1>9
  <2>2. QED BY <1>9, <2>1, BytesAdd DEF T
<1>10. ASSUME NEW k \in gone, NEW i \in K, i <= k
       PROVE  i \in gone
  <2>1. \A j \in K : j <= i => j <= k
    BY <1>3, <1>6, <1>10
  <2>2. QED BY <1>5, <1>10, <2>1
<1>11. MaxBytes \in Nat
  BY HistoryAssumption
<1>12. Bytes(R, kept) <= MaxBytes
  <2>1. CASE kept = {}
    <3>1. Measured(R, {})
      BY <1>3
    <3>2. Bytes(R, {}) = 0
      BY <3>1, BytesNone
    <3>3. QED BY <1>11, <2>1, <3>2
  <2>2. CASE kept # {}
    <3>1. PICK j \in kept : \A x \in kept : j <= x
      BY <1>3, <2>2, Least, Zenon
    <3>2. j \in K /\ j \notin gone /\ j \in Nat
      BY <1>3, <3>1
    <3>3. PICK l \in K : l <= j /\ ~(T - Bytes(R, before(l)) > MaxBytes)
      BY <1>5, <3>2, Zenon
    <3>4. l \notin gone
      BY <1>3, <1>5, <3>3
    <3>5. l = j
      BY <1>3, <3>1, <3>2, <3>3, <3>4
    <3>6. before(j) = gone
      <4>1. ASSUME NEW i \in before(j) PROVE i \in gone
        BY <1>3, <3>1, <3>2, <4>1
      <4>2. ASSUME NEW i \in gone PROVE i \in before(j)
        <5>1. i \in K /\ i \in Nat
          BY <1>3, <1>6
        <5>2. ~(j <= i)
          BY <1>10, <3>2
        <5>3. QED BY <1>3, <3>2, <5>1, <5>2
      <4>3. QED BY <4>1, <4>2
    <3>7. Bytes(R, gone) \in Nat /\ Bytes(R, kept) \in Nat /\ T = Bytes(R, gone) + Bytes(R, kept)
      BY <1>6, <1>9
    <3>8. ~(T - Bytes(R, gone) > MaxBytes)
      BY <3>3, <3>5, <3>6
    <3>9. QED BY <1>11, <3>7, <3>8
  <2>3. QED BY <2>1, <2>2
<1>13. ASSUME gone # {}
       PROVE  Bytes(R, kept \cup {Max(gone)}) > MaxBytes
  <2>1. PICK g : g = Max(gone)
    OBVIOUS
  <2>2. g \in gone /\ \A x \in gone : x <= g
    <3>1. gone \in SUBSET Nat
      BY <1>3, <1>6
    <3>2. PICK b \in Nat : \A d \in gone : d <= b
      BY <1>3, <1>6 DEF Table
    <3>3. QED BY <1>13, <2>1, <3>1, <3>2, MaxOfBounded
  <2>3. g \in K /\ g \in Nat
    BY <1>3, <1>6, <2>2
  <2>4. T - Bytes(R, before(g)) > MaxBytes
    BY <1>5, <2>2, <2>3
  <2>5. before(g) \cup (kept \cup {g}) = K
    <3>1. ASSUME NEW i \in K PROVE i \in before(g) \/ i \in kept \/ i = g
      BY <1>3, <2>2, <2>3
    <3>2. QED BY <2>3, <3>1, Zenon
  <2>6. before(g) \cap (kept \cup {g}) = {}
    <3>1. ASSUME NEW i \in before(g) PROVE i \in gone /\ i # g
      BY <1>3, <1>10, <2>2, <2>3
    <3>2. QED BY <3>1
  <2>7. PICK A, B : A = before(g) /\ B = kept \cup {g}
    BY Zenon
  <2>8. Bytes(R, A) \in Nat /\ Bytes(R, B) \in Nat /\ T = Bytes(R, A) + Bytes(R, B)
    BY <1>9, <2>5, <2>6, <2>7
  <2>9. T - Bytes(R, A) > MaxBytes
    BY <2>4, <2>7
  <2>10. Bytes(R, B) > MaxBytes
    BY <1>11, <2>8, <2>9
  <2>11. QED BY <2>1, <2>7, <2>10
<1>14. QED BY <1>1, <1>8, <1>12, <1>13

(* Whatever is appended between the two transactions of a retention pass, it
   brings what it measured down to the limit, and the newest row it removes had
   to go (store.rs:557-558, :564-606). *)
THEOREM RetentionIsExact == Spec => RetentionExact
<1> DEFINE Exact == sweep.pc = "delete" /\ sweep' = Idle /\ used' = used =>
                      LET kept == sweep.keys \cap DOMAIN store'
                          gone == DOMAIN store \ DOMAIN store'
                      IN  /\ Bytes(store, kept) <= MaxBytes
                          /\ gone # {} => Bytes(store, kept \cup {Max(gone)}) > MaxBytes
<1>1. Init => TypeInv /\ SizeInv
  BY TypeInvariant DEF Init, SizeInv, Idle
<1>2. TypeInv /\ SizeInv /\ [Next]_vars => TypeInv' /\ SizeInv'
  BY TypeInvariant, SizeStep
<1>3. ASSUME TypeInv, SizeInv, [Next]_vars PROVE [Exact]_vars
  <2>1. CASE SweepDelete
    BY <1>3, <2>1, DeleteExact
  <2>2. CASE ~SweepDelete
    <3>1. ~(sweep.pc = "delete" /\ sweep' = Idle /\ used' = used)
      BY <1>3, <2>2, RowsAndSweep DEF SweepMeasure, Idle
    <3>2. QED BY <3>1
  <2>3. QED BY <2>1, <2>2
<1>4. QED BY <1>1, <1>2, <1>3, PTL DEF Spec, RetentionExact
-----------------------------------------------------------------------------
(* HistoryInv is inductive. *)
LEMMA HistoryInvariant ==
  (Init => HistoryInv) /\ (HistoryInv /\ [Next]_vars => HistoryInv')
<1>1. Init => HistoryInv
  <2> SUFFICES ASSUME Init PROVE CarriedInv /\ OnceInv
    BY TypeInvariant DEF HistoryInv
  <2>1. Range(inbox) = {} /\ Ids(log) = {} /\ RowIds(store) = {} /\ RowIds(relay) = {}
    BY DEF Init, Range, Ids, RowIds
  <2>2. ep.pc = "idle" /\ fetch.pc = "idle"
    BY DEF Init, Idle
  <2>3. \A m \in Own : call[m] = "idle"
    BY DEF Init
  <2>4. CarriedInv
    BY <2>1, <2>2, <2>3 DEF CarriedInv, Fetched, Left
  <2>5. OnceInv
    BY <2>1, <2>2 DEF Init, OnceInv, RelayedOnce, RowsOnce
  <2>6. QED BY <2>4, <2>5
<1>2. ASSUME HistoryInv, [Next]_vars PROVE HistoryInv'
  <2>1. TypeInv'
    BY <1>2, TypeInvariant DEF HistoryInv
  <2>2. CASE \E m \in Msgs : \/ SendLog(m) \/ SendStore(m) \/ SendPublish(m)
                             \/ RelayStore(m) \/ RelayPush(m) \/ ServerGossip(m)
    BY <1>2, <2>1, <2>2, CallOnce DEF HistoryInv
  <2>3. CASE \/ HandleNewMessage \/ PersistMessage \/ HandleHistory \/ IntegrateEntry
             \/ HistoryDone
    BY <1>2, <2>1, <2>3, EventOnce DEF HistoryInv
  <2>4. CASE \/ RequestHistory \/ ServeHistory \/ FetchFails \/ SweepMeasure \/ SweepDelete
             \/ Restart \/ UNCHANGED vars
    BY <1>2, <2>1, <2>4, OtherOnce DEF HistoryInv
  <2>5. QED BY <1>2, <2>2, <2>3, <2>4, Zenon DEF Next
<1>3. QED BY <1>1, <1>2

(* A message that relays bring, in whichever order gossip, fetched history,
   retention and restarts come, or that the local user sends, is in the log at
   most once (channel_handler.rs:163, :595). *)
THEOREM EachRelayedOnce == Spec => []RelayedOnce
<1>1. HistoryInv => RelayedOnce
  BY DEF HistoryInv, OnceInv
<1>2. QED BY <1>1, HistoryInvariant, PTL DEF Spec

(* Nothing has a row that is not in the log or waiting in the event queue, so a
   restart never brings up a message its user could not have seen
   (channel_handler.rs:182-207). *)
THEOREM StoredIsLogged == Spec => []StoreWithinLog
<1>1. HistoryInv => StoreWithinLog
  BY DEF HistoryInv, OnceInv, StoreWithinLog
<1>2. QED BY <1>1, HistoryInvariant, PTL DEF Spec
=============================================================================
