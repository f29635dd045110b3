--------------------------------- MODULE Dht ---------------------------------
(***************************************************************************)
(* The DHT: the routing table and the records of a node (bitcord-dht),       *)
(* announcements and iterative lookups (dht/mod.rs, dht/kademlia.rs), and    *)
(* the requests that serve them (node/handler.rs).                          *)
(*                                                                         *)
(* There are three kinds of record: where a user's mailbox is, a user's peer  *)
(* info, and the nodes of a community; the model has one key of each.  Time   *)
(* is counted in ticks that are long beside a request or a lookup.  The       *)
(* 60-second cooldown of announcements is left out: an announcement that it   *)
(* skips is no step.  A node that announces knows its address, and one that   *)
(* did not answer during a walk does not answer at its end either.           *)
(***************************************************************************)
EXTENDS Naturals, Sequences, FiniteSets

CONSTANTS
  Nodes,         \* node ids
  Bits,          \* the width of an id (256 in the code)
  Bootstraps,    \* the nodes of BOOTSTRAP_NODES
  Target,        \* [Kinds -> Keys]: the key of each kind of record
  K,             \* the size of a bucket, and of a list that announce makes (20)
  Count,         \* how many of the closest peers are looked at (20)
  Alpha,         \* nodes asked in a round of a lookup (3)
  MaxRounds,     \* rounds of a lookup (8)
  CommunityTtl,  \* ticks until a community peer record expires (1 hour)
  SlotTtl,       \* ticks until a mailbox or peer info record expires (24 hours)
  None,          \* no record, no lookup
  MaxDials,      \* bound: gossip connections made
  MaxOps,        \* bound: announcements, lookups, expiries, snapshots and restarts
  MaxTime        \* bound: the clock

Kinds == {"mailbox", "info", "community"}

(* NodeId: the bits of an id or a key, the highest first. *)
Keys == [1 .. Bits -> {0, 1}]

(* A routing table entry: the address may be one that cannot be dialled. *)
Entries == [id : Nodes, dialable : BOOLEAN]

Slots == [addr : Nodes, at : 0 .. MaxTime]
Peers == [node : Nodes, at : 0 .. MaxTime]

(* A lookup: whom it asks next and asked, and (history) whom it was told of. *)
Walks == [by : Nodes, kind : Kinds, toVisit : Seq(Entries), visited : SUBSET Nodes,
          round : 0 .. MaxRounds, told : SUBSET Nodes]

ASSUME ConstantsAssumption ==
  /\ Nodes \subseteq Keys /\ IsFiniteSet(Nodes) /\ Bootstraps \subseteq Nodes
  /\ Target \in [Kinds -> Keys]
  /\ {Bits, K, Count, Alpha, MaxRounds, CommunityTtl, SlotTtl} \subseteq Nat \ {0}
  /\ {MaxDials, MaxOps, MaxTime} \subseteq Nat
  /\ None \notin Slots /\ None \notin 0 .. MaxTime /\ None \notin Walks

VARIABLES
  table,      \* [Nodes -> [0 .. Bits - 1 -> Seq(Entries)]]: the k-buckets
  slots,      \* [Nodes -> [{"mailbox", "info"} -> Slots or None]]
  comm,       \* [Nodes -> Seq(Peers)]: the community peer records in memory
  disk,       \* [Nodes -> SUBSET Peers]: those in the DhtStore
  conn,       \* [Nodes -> [Nodes -> {"none", "live", "dead"}]]: DhtConnCache
  walk,       \* a lookup under way, or None
  clock,      \* the time
  announced,  \* (history) [Nodes -> time of the last announcement in the community]
  dials,      \* connections so far
  ops         \* operations so far

held == <<slots, comm, disk>>
vars == <<table, held, conn, walk, clock, announced, dials, ops>>
-----------------------------------------------------------------------------
(* The elements of a sequence, and the ids of its entries. *)
Elements(s) == {s[i] : i \in DOMAIN s}

Ids(s) == {s[i].id : i \in DOMAIN s}

First(s, n) == SubSeq(s, 1, IF Len(s) < n THEN Len(s) ELSE n)

(* The elements that are in S, in their order. *)
Only(s, S) ==
  LET kept[k \in 0 .. Len(s)] ==
        IF k = 0 THEN <<>>
        ELSE IF s[k] \in S THEN Append(kept[k - 1], s[k]) ELSE kept[k - 1]
  IN  kept[Len(s)]

(* The sequences one after the other. *)
Joined(ss) ==
  LET all[k \in 0 .. Len(ss)] == IF k = 0 THEN <<>> ELSE all[k - 1] \o ss[k]
  IN  all[Len(ss)]

(* x before the first element that it precedes in the order R. *)
Insert(s, x, R) ==
  LET later == {i \in DOMAIN s : <<x, s[i]>> \in R}
      p == IF later = {} THEN Len(s) + 1 ELSE CHOOSE i \in later : \A j \in later : i <= j
  IN  [i \in 1 .. Len(s) + 1 |->
         IF i < p THEN s[i] ELSE IF i = p THEN x ELSE s[i - 1]]

(* sort_by_key: those that R does not order stay in their order. *)
Sorted(s, R) ==
  LET sorted[k \in 0 .. Len(s)] ==
        IF k = 0 THEN <<>> ELSE Insert(sorted[k - 1], s[k], R)
  IN  sorted[Len(s)]
-----------------------------------------------------------------------------
(* NodeId.distance: the XOR. *)
Distance(a, b) == [i \in 1 .. Bits |-> IF a[i] = b[i] THEN 0 ELSE 1]

(* The order of distances, which is that of arrays. *)
Smaller(d, e) ==
  \E i \in 1 .. Bits : d[i] < e[i] /\ \A j \in 1 .. Bits : j < i => d[j] = e[j]

(* The number of the highest bit of a distance, from 0. *)
BucketIndex(d) ==
  Bits - CHOOSE i \in 1 .. Bits : d[i] = 1 /\ \A j \in 1 .. Bits : j < i => d[j] = 0

(* The entries of other nodes than e's. *)
Others(e) == {x \in Entries : x.id # e.id}

UpsertUnbounded(bucket, e) == Append(Only(bucket, Others(e)), e)

(* KBucket.upsert: the newest entry is the last; a full bucket drops the first. *)
Upsert(bucket, e) ==
  Append(IF e.id \notin Ids(bucket) /\ Len(bucket) >= K THEN Tail(bucket)
         ELSE Only(bucket, Others(e)), e)

(* add_peer of node n, whose table is t. *)
AddPeer(n, t, e) ==
  IF e.id = n THEN t ELSE [t EXCEPT ![BucketIndex(Distance(n, e.id))] = Upsert(@, e)]

(* The entries one after the other. *)
AddPeers(n, t, entries) ==
  LET after[k \in 0 .. Len(entries)] ==
        IF k = 0 THEN t ELSE AddPeer(n, after[k - 1], entries[k])
  IN  after[Len(entries)]

NoPeers == [i \in 0 .. Bits - 1 |-> <<>>]

Nearer(target) ==
  {p \in Entries \X Entries : Smaller(Distance(target, p[1].id), Distance(target, p[2].id))}

(* closest_peers *)
Closest(t, target) ==
  First(Sorted(Joined([i \in 1 .. Bits |-> t[i - 1]]), Nearer(target)), Count)

TypeOK ==
  /\ table \in [Nodes -> [0 .. Bits - 1 -> Seq(Entries)]]
  /\ \A n \in Nodes, i \in 0 .. Bits - 1 :
       /\ Len(table[n][i]) <= K
       /\ \A id \in Ids(table[n][i]) : id # n /\ BucketIndex(Distance(n, id)) = i
  /\ slots \in [Nodes -> [{"mailbox", "info"} -> Slots \cup {None}]]
  /\ comm \in [Nodes -> Seq(Peers)]
  /\ disk \in [Nodes -> SUBSET Peers]
  /\ conn \in [Nodes -> [Nodes -> {"none", "live", "dead"}]]
  /\ walk \in Walks \cup {None}
  /\ clock \in 0 .. MaxTime
  /\ announced \in [Nodes -> {None} \cup 0 .. MaxTime]
  /\ dials \in 0 .. MaxDials /\ ops \in 0 .. MaxOps

Init ==
  /\ table = [n \in Nodes |-> NoPeers]
  /\ slots = [n \in Nodes |-> [k \in {"mailbox", "info"} |-> None]]
  /\ comm = [n \in Nodes |-> <<>>] /\ disk = [n \in Nodes |-> {}]
  /\ conn = [n \in Nodes |-> [m \in Nodes |-> "none"]]
  /\ walk = None /\ clock = 0 /\ dials = 0 /\ ops = 0
  /\ announced = [n \in Nodes |-> None]

Operation == ops < MaxOps /\ ops' = ops + 1
-----------------------------------------------------------------------------
(* A record that has not expired. *)
Live(r, ttl) == clock - r.at < ttl

LiveSlot(n, k) == slots[n][k] # None /\ Live(slots[n][k], SlotTtl)

(* dht_connect of node n to the entry e: a cached client is used whether or not
   its connection is still there; otherwise the address is dialled. *)
Reachable(n, e) ==
  \/ conn[n][e.id] = "live"
  \/ conn[n][e.id] = "none" /\ e.dialable

(* Node n has sent requests to the nodes ms.  A new connection is cached, and
   Authenticate puts n in the other's table, under the port of the connection. *)
Contacted(t, n, ms) ==
  [m \in Nodes |->
     IF m \in ms /\ conn[n][m] = "none" /\ m # n
     THEN AddPeer(m, t[m], [id |-> n, dialable |-> FALSE]) ELSE t[m]]

Cached(n, ms) == [conn EXCEPT ![n] = [m \in Nodes |-> IF m \in ms THEN "live" ELSE @[m]]]

(* The nodes closest to the key of this kind, as far as they can be reached. *)
Candidates(n, kind) ==
  {e.id : e \in {x \in Elements(Closest(table[n], Target[kind])) : Reachable(n, x)}}

(* A record is sent to the nodes ms. *)
Propagates(n, ms) ==
  /\ table' = Contacted(table, n, ms)
  /\ conn' = Cached(n, ms)

(* The two ends of a connection that n makes: n knows an address of m that can
   be dialled, m has the port that Authenticate came from. *)
Connected(n, m) ==
  /\ dials < MaxDials /\ dials' = dials + 1 /\ n # m
  /\ table' = [table EXCEPT ![n] = AddPeer(n, @, [id |-> m, dialable |-> TRUE]),
                            ![m] = AddPeer(m, @, [id |-> n, dialable |-> FALSE])]
  /\ UNCHANGED <<held, walk, clock, announced, ops>>

(* A gossip connection, of which PeerAddrKnown tells. *)
Dial(n, m) == Connected(n, m) /\ UNCHANGED conn

(* DhtHandle::bootstrap, which keeps the client for requests. *)
Bootstrap(n, m) ==
  m \in Bootstraps /\ Connected(n, m) /\ conn' = Cached(n, {m})
-----------------------------------------------------------------------------
(* register_mailbox and register_peer_info, and StoreDhtRecord and StorePeerInfo
   at the nodes reached: a record that is new there too. *)
RegisterSlot(n, k) ==
  /\ Operation
  /\ \E ms \in SUBSET Candidates(n, k) :
       /\ Propagates(n, ms)
       /\ slots' = [m \in Nodes |-> IF m \in ms \cup {n}
                                    THEN [slots[m] EXCEPT ![k] = [addr |-> n, at |-> clock]]
                                    ELSE slots[m]]
  /\ UNCHANGED <<comm, disk, walk, clock, announced, dials>>

(* add_community_peer_record: no limit on the list. *)
AddRecord(list, r) ==
  IF \E i \in DOMAIN list : list[i].node = r.node
  THEN [i \in DOMAIN list |-> IF list[i].node = r.node THEN r ELSE list[i]]
  ELSE Append(list, r)

Newer == {p \in Peers \X Peers : p[1].at > p[2].at}

(* announce_community_peer: beyond K records they are sorted, newest first, and
   K of them stay. *)
Announce(list, r) ==
  LET added == AddRecord(list, r)
  IN  IF Len(added) = Len(list) \/ Len(added) <= K THEN added
      ELSE First(Sorted(added, Newer), K)

(* register_community_peer, and StoreCommunityPeer at the nodes reached. *)
RegisterCommunity(n) ==
  LET record == [node |-> n, at |-> clock]
  IN  /\ Operation
      /\ \E ms \in SUBSET Candidates(n, "community") :
           /\ Propagates(n, ms)
           /\ comm' = [m \in Nodes |-> IF m = n THEN Announce(comm[n], record)
                                       ELSE IF m \in ms THEN AddRecord(comm[m], record)
                                       ELSE comm[m]]
      /\ announced' = [announced EXCEPT ![n] = clock]
      /\ UNCHANGED <<slots, disk, walk, clock, dials>>
-----------------------------------------------------------------------------
(* find_mailbox_peers, find_peer_info and find_community_peers: a live record of
   the first two kinds is answered from memory, without a lookup; without a
   peer to start from there is none either, but for a community. *)
StartLookup(n, kind) ==
  LET seeds == Closest(table[n], Target[kind])
  IN  /\ Operation /\ walk = None
      /\ kind # "community" => ~LiveSlot(n, kind) /\ seeds # <<>>
      /\ walk' = [by |-> n, kind |-> kind, toVisit |-> seeds, visited |-> {},
                  round |-> 0, told |-> Ids(seeds)]
      /\ UNCHANGED <<table, held, conn, clock, announced, dials>>

(* dedup_by_key: of neighbours with the same id the first stays. *)
Deduped(s) ==
  LET kept[k \in 0 .. Len(s)] ==
        IF k = 0 THEN <<>>
        ELSE IF k > 1 /\ s[k].id = s[k - 1].id THEN kept[k - 1]
        ELSE Append(kept[k - 1], s[k])
  IN  kept[Len(s)]

(* The next round's list, of what the drain left only: the others are dropped. *)
VisitKnown(rest, closer, target) == Deduped(Sorted(rest, Nearer(target)))

(* The next round's list: what the drain left, and the new peers. *)
ToVisit(rest, closer, target) == Deduped(Sorted(rest \o closer, Nearer(target)))

(* The entries of nodes that were not asked. *)
Unvisited(visited) == {e \in Entries : e.id \notin visited}

(* The nodes a round asks. *)
Batch(w) == Only(First(w.toVisit, Alpha), Unvisited(w.visited))

HasMailbox(m) == walk.kind = "mailbox" /\ LiveSlot(m, "mailbox")

(* A round: the batch is asked, the nodes ms of it answer FindNode, with the
   asker in their tables already; the answers are taken in the batch's order
   until one has the mailbox. *)
WalkRound(ms) ==
  LET w == walk
      batch == Batch(w)
      rest == SubSeq(w.toVisit, Len(First(w.toVisit, Alpha)) + 1, Len(w.toVisit))
      visited == w.visited \cup Ids(batch)
      contacted == Contacted(table, w.by, ms)
      answers == Only(batch, {e \in Entries : e.id \in ms})
      hits == {i \in DOMAIN answers : HasMailbox(answers[i].id)}
      upTo == IF hits = {} THEN Len(answers)
              ELSE (CHOOSE i \in hits : \A j \in hits : i <= j) - 1
      peers == [i \in 1 .. upTo |-> Closest(contacted[answers[i].id], Target[w.kind])]
      closer == Only(Joined(peers), Unvisited(visited))
  IN  /\ w # None /\ w.round < MaxRounds /\ batch # <<>>
      /\ ms \subseteq {e.id : e \in {x \in Elements(batch) : Reachable(w.by, x)}}
      /\ conn' = Cached(w.by, ms)
      /\ table' = [contacted EXCEPT ![w.by] = AddPeers(w.by, @, closer)]
      /\ IF hits # {}
         THEN /\ slots' = [slots EXCEPT ![w.by].mailbox =
                             [addr |-> slots[answers[upTo + 1].id].mailbox.addr,
                              at |-> clock]]
              /\ walk' = None
         ELSE /\ walk' = [w EXCEPT !.toVisit = ToVisit(rest, closer, Target[w.kind]),
                                   !.visited = visited, !.round = @ + 1,
                                   !.told = @ \cup Ids(closer)]
              /\ UNCHANGED slots
      /\ UNCHANGED <<comm, disk, clock, announced, dials, ops>>

(* The end of a lookup.  That of a peer info asks the nodes found, and keeps
   the first record as if it were announced now; that of a community only
   collects what FindCommunityPeers answers, for DiscoverAndDial. *)
EndLookup(m) ==
  /\ walk # None /\ (Batch(walk) = <<>> \/ walk.round = MaxRounds)
  /\ walk' = None
  /\ slots' = IF walk.kind = "info" /\ m \in walk.visited /\ conn[walk.by][m] = "live"
                   /\ LiveSlot(m, "info")
              THEN [slots EXCEPT ![walk.by].info = [slots[m].info EXCEPT !.at = clock]]
              ELSE slots
  /\ UNCHANGED <<table, comm, disk, conn, clock, announced, dials, ops>>

(* find_mailbox_peers and find_peer_info give up after 5 seconds. *)
LookupTimesOut ==
  /\ walk # None /\ walk.kind # "community"
  /\ walk' = None
  /\ UNCHANGED <<table, held, conn, clock, announced, dials, ops>>
-----------------------------------------------------------------------------
(* The first task of spawn_expiry_task, every 10 minutes: records in memory by
   their age, and those on disk that are older than the TTL. *)
Expire(n) ==
  /\ Operation
  /\ slots' = [slots EXCEPT ![n] = [k \in DOMAIN @ |-> IF LiveSlot(n, k) THEN @[k] ELSE None]]
  /\ comm' = [comm EXCEPT ![n] = Only(@, {r \in Peers : Live(r, CommunityTtl)})]
  /\ disk' = [disk EXCEPT ![n] = {r \in @ : clock - r.at <= CommunityTtl}]
  /\ UNCHANGED <<table, conn, walk, clock, announced, dials>>

(* The second task, every hour: a record of a node replaces the one on disk. *)
Snapshot(n) ==
  /\ Operation
  /\ disk' = [disk EXCEPT ![n] = {r \in @ : \A x \in Elements(comm[n]) : x.node # r.node}
                                   \cup Elements(comm[n])]
  /\ UNCHANGED <<table, slots, comm, conn, walk, clock, announced, dials>>

(* The records of a set in the order of their keys. *)
Listings(S) ==
  {s \in [1 .. Cardinality(S) -> S] :
     \A i, j \in DOMAIN s : i < j => Smaller(s[i].node, s[j].node)}

LoadedAsNew(n) == Listings({[r EXCEPT !.at = clock] : r \in disk[n]})

(* all_community_peer_records: what a node starts with. *)
Loaded(n) == Listings(disk[n])

(* A node stops and starts: DhtHandle::new.  The others' cached clients of it are
   left without a connection. *)
Restart(n) ==
  /\ Operation
  /\ \E records \in Loaded(n) :
       /\ comm' = [comm EXCEPT ![n] = records]
       /\ table' = [table EXCEPT ![n] = AddPeers(n, NoPeers,
            [i \in DOMAIN records |-> [id |-> records[i].node, dialable |-> TRUE]])]
  /\ slots' = [slots EXCEPT ![n] = [k \in DOMAIN @ |-> None]]
  /\ conn' = [m \in Nodes |->
               IF m = n THEN [x \in Nodes |-> "none"]
               ELSE [conn[m] EXCEPT ![n] = IF @ = "live" THEN "dead" ELSE @]]
  /\ walk' = IF walk # None /\ walk.by = n THEN None ELSE walk
  /\ UNCHANGED <<disk, clock, announced, dials>>

Tick ==
  /\ walk = None /\ clock < MaxTime
  /\ clock' = clock + 1
  /\ UNCHANGED <<table, held, conn, walk, announced, dials, ops>>

Announcements(n) ==
  \/ RegisterSlot(n, "mailbox")
  \/ n = Target["info"] /\ RegisterSlot(n, "info")
  \/ RegisterCommunity(n)

Lookup ==
  \/ \E n \in Nodes, kind \in Kinds : StartLookup(n, kind)
  \/ \E ms \in SUBSET Nodes : WalkRound(ms)
  \/ \E m \in Nodes : EndLookup(m)
  \/ LookupTimesOut

Next ==
  \/ \E n, m \in Nodes : Dial(n, m) \/ Bootstrap(n, m)
  \/ \E n \in Nodes : Announcements(n)
  \/ Lookup
  \/ \E n \in Nodes : Expire(n) \/ Snapshot(n) \/ Restart(n)
  \/ Tick

Spec == Init /\ [][Next]_vars
-----------------------------------------------------------------------------
(* A lookup asks every node it is told of, none twice: what is left to visit has
   not been visited and is listed once, and when nothing is left, every node
   that the table or an answer named was asked. *)
WalkComplete ==
  walk # None =>
    /\ Ids(walk.toVisit) \cap walk.visited = {}
    /\ \A i, j \in DOMAIN walk.toVisit : walk.toVisit[i].id = walk.toVisit[j].id => i = j
    /\ walk.told = walk.visited \cup Ids(walk.toVisit)

(* A community peer record that a node answers with, or keeps on disk, is not
   newer than the last announcement of the node it is about: copies, snapshots
   and restarts do not prolong it. *)
CommunityFresh ==
  \A n \in Nodes : \A r \in Elements(comm[n]) \cup disk[n] :
    announced[r.node] # None /\ r.at <= announced[r.node]
=============================================================================
