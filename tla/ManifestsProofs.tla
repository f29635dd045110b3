--------------------------- MODULE ManifestsProofs ---------------------------
(***************************************************************************)
(* Proofs about Manifests, for every set of users and channels, every set  *)
(* of dials and every bound.                                               *)
(*                                                                         *)
(* The three properties of Manifests are not inductive by themselves.      *)
(* OnlyCreatorSigned needs SyncSigned: the manifest on its way to a new    *)
(* seed is the creator's.  RestartKeepsRemoval rests on RemovedAt: when a  *)
(* user's node has no manifest and no removal is under way, its store has  *)
(* none either.  All but SyncSigned is about one node at a time, so a step *)
(* only has to be looked at on the nodes whose copies it writes.           *)
(***************************************************************************)
EXTENDS Manifests, TLAPS

(* What OnlyCreatorSigned says of node k. *)
SignedAt(k) ==
  /\ comm[k] # None => comm[k].by \in {None, Admin, k}
  /\ disk[k] # None => disk[k].by \in {None, Admin, k}
  /\ meta[k] # None /\ meta[k].man # None => meta[k].man.by \in {Admin, k}

(* What DiskHoldsManifest says of node k. *)
SavedAt(k) ==
  /\ disk[k] # None => comm[k] # None /\ (comm[k] = disk[k] \/ comm[k].del)
  /\ comm[k] # None => comm[k] = disk[k] \/ comm[k].del \/ disk[k] = None

(* A user's node without the community, and not removing it, does not store it. *)
RemovedAt(k) ==
  k \in Users /\ comm[k] = None /\ removing[k].pc = "idle"
    => meta[k] = None \/ meta[k].man = None

GoodAt(k) == SignedAt(k) /\ SavedAt(k) /\ RemovedAt(k)

(* The manifest that sync_community_to_seed carries was signed by the creator. *)
SyncSigned == sync.st # "idle" => sync.man.by = Admin

IInv ==
  /\ TypeOK
  /\ SyncSigned
  /\ \A k \in Nodes : GoodAt(k)
-----------------------------------------------------------------------------
(* Signing a manifest again gives a manifest of the signer's, one version on,
   with the same channels and tombstone flag. *)
LEMMA ResignedType ==
  ASSUME TypeOK, NEW n \in Nodes, NEW m \in Manifests
  PROVE  /\ Resigned(n, m) \in Manifests
         /\ Resigned(n, m).by = n
         /\ Resigned(n, m).chans = m.chans
         /\ Resigned(n, m).del = m.del
  <1>1. calls + 1 \in Nat /\ m.ver + 1 \in Nat
    BY ConstantsAssumption DEF TypeOK, Manifests
  <1> QED  BY <1>1 DEF Resigned, Manifests

(* Changing the channels, the seed or the tombstone flag of a manifest keeps
   its signer. *)
LEMMA WithChans ==
  ASSUME NEW m \in Manifests, NEW cs \in SUBSET Chans
  PROVE  /\ [m EXCEPT !.chans = cs] \in Manifests
         /\ [m EXCEPT !.chans = cs].by = m.by
  BY DEF Manifests

(* Changing the seed keeps the signer. *)
LEMMA WithSeed ==
  ASSUME NEW m \in Manifests, NEW b \in BOOLEAN
  PROVE  /\ [m EXCEPT !.seed = b] \in Manifests
         /\ [m EXCEPT !.seed = b].by = m.by
  BY DEF Manifests

(* Setting the tombstone flag keeps the signer. *)
LEMMA Tombstone ==
  ASSUME NEW m \in Manifests
  PROVE  /\ [m EXCEPT !.del = TRUE] \in Manifests
         /\ [m EXCEPT !.del = TRUE].by = m.by
         /\ [m EXCEPT !.del = TRUE].del
  BY DEF Manifests

(* A placeholder is a manifest nobody signed. *)
LEMMA PlaceholderType ==
  ASSUME NEW b \in BOOLEAN
  PROVE  /\ Placeholder(b) \in Manifests
         /\ Placeholder(b).by = None
  BY DEF Placeholder, Manifests

(* The events nodes publish are events. *)
LEMMA EventTypes ==
  ASSUME NEW n \in Nodes, NEW m \in Manifests, NEW cs \in SUBSET Chans
  PROVE  /\ Update(n, m) \in Events
         /\ Channels(cs) \in Events
         /\ CommunityJoined \in Events
  BY DEF Update, Channels, CommunityJoined, Events

(* An entry of the node store. *)
LEMMA MetaType ==
  ASSUME NEW m \in Manifests \cup {None}, NEW cs \in SUBSET Chans
  PROVE  /\ [man |-> m, chans |-> cs] \in Metas
         /\ [man |-> m, chans |-> cs].man = m
  BY DEF Metas

(* What a FetchManifest task may be. *)
LEMMA TaskTypes ==
  ASSUME NEW n \in Nodes, NEW m \in Manifests, NEW cs \in SUBSET Chans
  PROVE  /\ IdleTask \in Tasks
         /\ [st |-> "asked", from |-> n] \in Tasks
         /\ [st |-> "answered", man |-> m, chans |-> cs] \in Tasks
  BY DEF IdleTask, Tasks

(* No task, and no sync. *)
LEMMA IdleTaskType == IdleTask \in Tasks /\ IdleTask \in Syncs /\ IdleTask.st = "idle"
  BY DEF IdleTask, Tasks, Syncs

(* What a removal may be. *)
LEMMA RemovalTypes ==
  ASSUME NEW cs \in SUBSET Chans
  PROVE  /\ IdleRemoval \in Removals
         /\ [pc |-> "dropping", chans |-> cs] \in Removals
         /\ [pc |-> "marked", chans |-> cs] \in Removals
  BY DEF IdleRemoval, Removals
-----------------------------------------------------------------------------
(* Writing both copies in memory and on disk. *)
LEMMA SetManifestType ==
  ASSUME TypeOK, NEW n \in Nodes, NEW m \in Manifests \cup {None}, SetManifest(n, m)
  PROVE  /\ comm' \in [Nodes -> Manifests \cup {None}]
         /\ disk' \in [Nodes -> Manifests \cup {None}]
         /\ comm'[n] = m /\ disk'[n] = m
         /\ \A k \in Nodes : k # n => comm'[k] = comm[k] /\ disk'[k] = disk[k]
  BY DEF TypeOK, SetManifest

(* Writing the copy of the node store, if there is one. *)
LEMMA SetMetaType ==
  ASSUME TypeOK, NEW n \in Nodes, NEW m, NEW cs, SetMeta(n, m, cs),
         meta[n] # None => m \in Manifests \cup {None} /\ cs \in SUBSET Chans
  PROVE  /\ meta' \in [Nodes -> Metas \cup {None}]
         /\ meta[n] = None => meta'[n] = None
         /\ meta[n] # None => meta'[n] # None /\ meta'[n].man = m
         /\ \A k \in Nodes : k # n => meta'[k] = meta[k]
  <1>1. CASE meta[n] = None
    BY <1>1 DEF TypeOK, SetMeta
  <1>2. CASE meta[n] # None
    <2>1. [man |-> m, chans |-> cs] \in Metas /\ [man |-> m, chans |-> cs].man = m
      BY <1>2, MetaType
    <2>2. meta' = [meta EXCEPT ![n] = [man |-> m, chans |-> cs]]
      BY <1>2 DEF TypeOK, SetMeta
    <2> QED  BY <1>2, <2>1, <2>2, ConstantsAssumption DEF TypeOK
  <1> QED  BY <1>1, <1>2

(* Publishing events leaves sequences of events. *)
LEMMA PublishType ==
  ASSUME TypeOK, NEW n \in Nodes, NEW es \in Seq(Events), Publish(n, es)
  PROVE  gossip' \in [Nodes -> Seq(Events)]
  <1>1. \A o \in Nodes : gossip[o] \in Seq(Events) /\ gossip[o] \o es \in Seq(Events)
    BY DEF TypeOK
  <1> QED  BY <1>1 DEF Publish

(* Asking a peer leaves well-typed tasks. *)
LEMMA FetchManifestType ==
  ASSUME TypeOK, NEW n \in Nodes, NEW s \in Nodes, FetchManifest(n, s)
  PROVE  fetch' \in [Nodes -> Tasks]
  <1>1. [st |-> "asked", from |-> s] \in Tasks
    BY DEF Tasks
  <1> QED  BY <1>1 DEF TypeOK, FetchManifest

(* Calls are counted up to their bound. *)
LEMMA CallType ==
  ASSUME TypeOK, Call
  PROVE  calls' \in 0 .. MaxCalls
  BY ConstantsAssumption DEF TypeOK, Call

(* A node whose copies and removal a step leaves alone stays good. *)
LEMMA UntouchedGood ==
  ASSUME NEW k \in Nodes, GoodAt(k),
         comm'[k] = comm[k], disk'[k] = disk[k],
         meta'[k] = meta[k], removing'[k] = removing[k]
  PROVE  GoodAt(k)'
  BY DEF GoodAt, SignedAt, SavedAt, RemovedAt

(* A node whose manifest is replaced, in memory and on disk, by one that node
   may hold stays good if its store gets the same, nothing or no change. *)
LEMMA WrittenGood ==
  ASSUME NEW k \in Nodes, GoodAt(k), NEW m \in Manifests,
         m.by \in {None, Admin, k}, comm'[k] = m, disk'[k] = m,
         \/ meta'[k] = meta[k]
         \/ meta'[k] = None
         \/ /\ meta'[k] # None /\ meta'[k].man = m
            /\ m.by \in {Admin, k}
         \/ /\ meta[k] # None /\ meta'[k].man = meta[k].man
  PROVE  GoodAt(k)'
  BY ConstantsAssumption DEF GoodAt, SignedAt, SavedAt, RemovedAt

(* A node that drops its manifest stays good if the store drops it too, or if
   the removal that does so is under way. *)
LEMMA DroppedGood ==
  ASSUME NEW k \in Nodes, GoodAt(k), comm'[k] = None, disk'[k] = None,
         \/ meta'[k] = None
         \/ meta'[k] = meta[k] /\ removing'[k].pc # "idle"
  PROVE  GoodAt(k)'
  BY DEF GoodAt, SignedAt, SavedAt, RemovedAt

(* A node whose store changes its channels, or gets an entry without a
   manifest, stays good. *)
LEMMA HostedGood ==
  ASSUME NEW k \in Nodes, GoodAt(k), comm'[k] = comm[k], disk'[k] = disk[k],
         removing'[k] = removing[k],
         \/ meta'[k] = meta[k]
         \/ meta'[k].man = None
         \/ meta[k] # None /\ meta'[k].man = meta[k].man
  PROVE  GoodAt(k)'
  BY DEF GoodAt, SignedAt, SavedAt, RemovedAt
-----------------------------------------------------------------------------
(* The inductive invariant holds before the community is created. *)
THEOREM InitGood == Init => IInv
  <1> SUFFICES ASSUME Init PROVE IInv
    OBVIOUS
  <1>1. TypeOK
    <2>1. <<>> \in Seq(Events) /\ {} \in SUBSET Chans
      OBVIOUS
    <2>2. IdleRemoval \in Removals
      BY DEF IdleRemoval, Removals
    <2> QED  BY <2>1, <2>2, IdleTaskType, ConstantsAssumption DEF Init, TypeOK
  <1>2. SyncSigned
    BY IdleTaskType DEF Init, SyncSigned
  <1>3. ASSUME NEW k \in Nodes PROVE GoodAt(k)
    BY DEF Init, GoodAt, SignedAt, SavedAt, RemovedAt
  <1> QED  BY <1>1, <1>2, <1>3 DEF IInv
-----------------------------------------------------------------------------
(* community_create and community_join. *)
LEMMA CreateGood ==
  ASSUME IInv, NEW seed \in BOOLEAN, CommunityCreate(seed)
  PROVE  IInv'
  <1> DEFINE m == Resigned(Admin, Placeholder(seed))
  <1>0. TypeOK /\ Admin \in Nodes
    BY DEF IInv, Nodes, Users
  <1>1. m \in Manifests /\ m.by = Admin
    BY <1>0, PlaceholderType, ResignedType
  <1>2. /\ SetManifest(Admin, m)
        /\ meta' = [meta EXCEPT ![Admin] = [man |-> m, chans |-> {}]]
    BY DEF CommunityCreate
  <1>3. /\ [man |-> m, chans |-> {}] \in Metas
        /\ [man |-> m, chans |-> {}].man = m
    BY <1>1, MetaType
  <1> HIDE DEF m
  <1>4. /\ meta' \in [Nodes -> Metas \cup {None}]
        /\ meta'[Admin] # None /\ meta'[Admin].man = m
        /\ \A k \in Nodes : k # Admin => meta'[k] = meta[k]
    BY <1>0, <1>2, <1>3, ConstantsAssumption DEF TypeOK
  <1>5. /\ comm' \in [Nodes -> Manifests \cup {None}]
        /\ disk' \in [Nodes -> Manifests \cup {None}]
        /\ comm'[Admin] = m /\ disk'[Admin] = m
        /\ \A k \in Nodes : k # Admin => comm'[k] = comm[k] /\ disk'[k] = disk[k]
    BY <1>0, <1>1, <1>2, SetManifestType
  <1>6. TypeOK'
    BY <1>0, <1>4, <1>5 DEF CommunityCreate, TypeOK, bounds
  <1>7. SyncSigned'
    BY DEF IInv, SyncSigned, CommunityCreate
  <1>8. ASSUME NEW k \in Nodes PROVE GoodAt(k)'
    <2>1. GoodAt(k) /\ removing' = removing
      BY DEF IInv, CommunityCreate
    <2>2. CASE k = Admin
      BY <1>1, <1>4, <1>5, <2>1, <2>2, WrittenGood
    <2>3. CASE k # Admin
      BY <1>4, <1>5, <2>1, <2>3, UntouchedGood
    <2> QED  BY <2>2, <2>3
  <1> QED  BY <1>6, <1>7, <1>8 DEF IInv

(* community_join: the placeholder is written in memory and on disk. *)
LEMMA JoinGood ==
  ASSUME IInv, NEW n \in Users, NEW seed \in BOOLEAN, CommunityJoin(n, seed)
  PROVE  IInv'
  <1> DEFINE m == Placeholder(seed)
  <1>0. TypeOK /\ n \in Nodes
    BY DEF IInv, Nodes
  <1>1. m \in Manifests /\ m.by = None
    BY PlaceholderType
  <1>2. SetManifest(n, m) /\ Call
    BY DEF CommunityJoin
  <1> HIDE DEF m
  <1>3. fetch' \in [Nodes -> Tasks]
    BY <1>0, FetchManifestType DEF CommunityJoin
  <1>5. /\ comm' \in [Nodes -> Manifests \cup {None}]
        /\ disk' \in [Nodes -> Manifests \cup {None}]
        /\ comm'[n] = m /\ disk'[n] = m
        /\ \A k \in Nodes : k # n => comm'[k] = comm[k] /\ disk'[k] = disk[k]
    BY <1>0, <1>1, <1>2, SetManifestType
  <1>6. TypeOK'
    BY <1>0, <1>2, <1>3, <1>5, CallType DEF CommunityJoin, TypeOK, bounds
  <1>7. SyncSigned'
    BY DEF IInv, SyncSigned, CommunityJoin
  <1>8. ASSUME NEW k \in Nodes PROVE GoodAt(k)'
    <2>1. GoodAt(k) /\ removing' = removing /\ meta' = meta
      BY DEF IInv, CommunityJoin
    <2>2. CASE k = n
      BY <1>1, <1>5, <2>1, <2>2, WrittenGood
    <2>3. CASE k # n
      BY <1>5, <2>1, <2>3, UntouchedGood
    <2> QED  BY <2>2, <2>3
  <1> QED  BY <1>6, <1>7, <1>8 DEF IInv
-----------------------------------------------------------------------------
(* community_update_manifest, whether or not a fingerprint is given. *)
LEMMA UpdateGood ==
  ASSUME IInv, NEW seed \in BOOLEAN, UpdateManifest(seed),
         \/ UNCHANGED sync
         \/ sync' = [st |-> "join", man |-> comm'[Admin]]
  PROVE  IInv'
  <1> DEFINE m == [Resigned(Admin, comm[Admin]) EXCEPT !.seed = seed]
  <1>0. TypeOK /\ Admin \in Nodes
    BY DEF IInv, Nodes, Users
  <1>1. m \in Manifests /\ m.by = Admin
    <2>1. comm[Admin] \in Manifests
      BY <1>0 DEF TypeOK, UpdateManifest
    <2>2. Resigned(Admin, comm[Admin]) \in Manifests /\ Resigned(Admin, comm[Admin]).by = Admin
      BY <1>0, <2>1, ResignedType
    <2> QED  BY <2>2, WithSeed
  <1>2. SetManifest(Admin, m) /\ Call /\ Publish(Admin, <<Update(Admin, m)>>)
    BY DEF UpdateManifest
  <1> HIDE DEF m
  <1>3. gossip' \in [Nodes -> Seq(Events)]
    <2>1. <<Update(Admin, m)>> \in Seq(Events)
      BY <1>0, <1>1, EventTypes
    <2> QED  BY <1>0, <1>2, <2>1, PublishType
  <1>5. /\ comm' \in [Nodes -> Manifests \cup {None}]
        /\ disk' \in [Nodes -> Manifests \cup {None}]
        /\ comm'[Admin] = m /\ disk'[Admin] = m
        /\ \A k \in Nodes : k # Admin => comm'[k] = comm[k] /\ disk'[k] = disk[k]
    BY <1>0, <1>1, <1>2, SetManifestType
  <1>6. sync' \in Syncs /\ SyncSigned'
    <2>1. CASE UNCHANGED sync
      BY <2>1, <1>0 DEF IInv, SyncSigned, TypeOK
    <2>2. CASE sync' = [st |-> "join", man |-> m]
      BY <2>2, <1>1 DEF SyncSigned, Syncs
    <2> QED  BY <1>5, <2>1, <2>2
  <1>7. TypeOK'
    BY <1>0, <1>2, <1>3, <1>5, <1>6, CallType DEF UpdateManifest, TypeOK, bounds
  <1>8. ASSUME NEW k \in Nodes PROVE GoodAt(k)'
    <2>1. GoodAt(k) /\ removing' = removing /\ meta' = meta
      BY DEF IInv, UpdateManifest
    <2>2. CASE k = Admin
      BY <1>1, <1>5, <2>1, <2>2, WrittenGood
    <2>3. CASE k # Admin
      BY <1>5, <2>1, <2>3, UntouchedGood
    <2> QED  BY <2>2, <2>3
  <1> QED  BY <1>6, <1>7, <1>8 DEF IInv

(* The three calls on channels re-sign the manifest at node n, write the store
   with cs and either the same manifest or the one it had, and publish es. *)
LEMMA ChannelCallGood ==
  ASSUME IInv, NEW n \in Users, NEW m \in Manifests, m.by = n,
         NEW sm, NEW cs, NEW es \in Seq(Events),
         SetManifest(n, m), SetMeta(n, sm, cs), Publish(n, es), Call,
         meta[n] # None => sm \in {m, meta[n].man} /\ cs \in SUBSET Chans,
         chans' \in [Nodes -> SUBSET Chans], made' \in SUBSET Chans,
         UNCHANGED <<fetch, removing, sync, bounds>>
  PROVE  IInv'
  <1>0. TypeOK /\ n \in Nodes
    BY DEF IInv, Nodes
  <1>1. /\ comm' \in [Nodes -> Manifests \cup {None}]
        /\ disk' \in [Nodes -> Manifests \cup {None}]
        /\ comm'[n] = m /\ disk'[n] = m
        /\ \A k \in Nodes : k # n => comm'[k] = comm[k] /\ disk'[k] = disk[k]
    BY <1>0, SetManifestType
  <1>2. meta[n] # None => sm \in Manifests \cup {None} /\ cs \in SUBSET Chans
    <2>1. meta[n] # None => meta[n].man \in Manifests \cup {None}
      BY <1>0 DEF TypeOK, Metas
    <2> QED  BY <2>1
  <1>3. /\ meta' \in [Nodes -> Metas \cup {None}]
        /\ meta[n] = None => meta'[n] = None
        /\ meta[n] # None => meta'[n] # None /\ meta'[n].man = sm
        /\ \A k \in Nodes : k # n => meta'[k] = meta[k]
    BY <1>0, <1>2, SetMetaType
  <1>4. gossip' \in [Nodes -> Seq(Events)]
    BY <1>0, PublishType
  <1>5. calls' \in 0 .. MaxCalls
    BY <1>0, CallType
  <1>6. TypeOK'
    BY <1>0, <1>1, <1>3, <1>4, <1>5 DEF TypeOK, bounds
  <1>7. SyncSigned'
    BY DEF IInv, SyncSigned
  <1>8. ASSUME NEW k \in Nodes PROVE GoodAt(k)'
    <2>1. GoodAt(k)
      BY DEF IInv
    <2>2. CASE k = n
      BY <1>1, <1>3, <2>1, <2>2, WrittenGood
    <2>3. CASE k # n
      BY <1>1, <1>3, <2>1, <2>3, UntouchedGood
    <2> QED  BY <2>2, <2>3
  <1> QED  BY <1>6, <1>7, <1>8 DEF IInv

(* channel_create writes the new manifest to all three copies. *)
LEMMA ChannelCreateGood ==
  ASSUME IInv, NEW n \in Users, NEW c \in Chans, ChannelCreate(n, c)
  PROVE  IInv'
  <1> DEFINE r == Resigned(n, comm[n])
             m == [r EXCEPT !.chans = @ \cup {c}]
  <1>0. TypeOK /\ n \in Nodes /\ comm[n] \in Manifests
    BY DEF IInv, Nodes, TypeOK, ChannelCreate
  <1>1. r \in Manifests /\ r.by = n
    BY <1>0, ResignedType
  <1>2. m \in Manifests /\ m.by = n
    <2>1. r.chans \cup {c} \in SUBSET Chans
      BY <1>1 DEF Manifests
    <2>2. m = [r EXCEPT !.chans = r.chans \cup {c}]
      OBVIOUS
    <2> HIDE DEF m, r
    <2> QED  BY <1>1, <2>1, <2>2, WithChans
  <1>3. /\ SetManifest(n, m) /\ SetMeta(n, m, meta[n].chans \cup {c})
        /\ Publish(n, <<Update(n, m), Channels({c})>>) /\ Call
        /\ chans' = [chans EXCEPT ![n] = @ \cup {c}]
        /\ made' = made \cup {c}
        /\ UNCHANGED <<fetch, removing, sync, bounds>>
    BY DEF ChannelCreate
  <1> HIDE DEF m, r
  <1>4. <<Update(n, m), Channels({c})>> \in Seq(Events)
    <2>1. {c} \in SUBSET Chans
      OBVIOUS
    <2> QED  BY <1>0, <1>2, <2>1, EventTypes
  <1>5. meta[n] # None => meta[n].chans \cup {c} \in SUBSET Chans
    BY <1>0 DEF TypeOK, Metas
  <1>6. chans' \in [Nodes -> SUBSET Chans] /\ made' \in SUBSET Chans
    BY <1>0, <1>3 DEF TypeOK
  <1> QED  BY <1>2, <1>3, <1>4, <1>5, <1>6, ChannelCallGood

(* channel_delete leaves the manifest of the store as it was. *)
LEMMA ChannelDeleteGood ==
  ASSUME IInv, NEW n \in Users, NEW c \in Chans, ChannelDelete(n, c)
  PROVE  IInv'
  <1> DEFINE r == Resigned(n, comm[n])
             m == [r EXCEPT !.chans = @ \ {c}]
  <1>0. TypeOK /\ n \in Nodes /\ comm[n] \in Manifests
    BY DEF IInv, Nodes, TypeOK, ChannelDelete
  <1>1. r \in Manifests /\ r.by = n
    BY <1>0, ResignedType
  <1>2. m \in Manifests /\ m.by = n
    <2>1. r.chans \ {c} \in SUBSET Chans
      BY <1>1 DEF Manifests
    <2>2. m = [r EXCEPT !.chans = r.chans \ {c}]
      OBVIOUS
    <2> HIDE DEF m, r
    <2> QED  BY <1>1, <2>1, <2>2, WithChans
  <1>3. /\ SetManifest(n, m) /\ SetMeta(n, meta[n].man, meta[n].chans \ {c})
        /\ Publish(n, <<Update(n, m)>>) /\ Call
        /\ chans' = [chans EXCEPT ![n] = @ \ {c}]
        /\ UNCHANGED <<fetch, removing, sync, made, bounds>>
    BY DEF ChannelDelete
  <1> HIDE DEF m, r
  <1>4. <<Update(n, m)>> \in Seq(Events)
    BY <1>0, <1>2, EventTypes
  <1>5. meta[n] # None => meta[n].chans \ {c} \in SUBSET Chans
    BY <1>0 DEF TypeOK, Metas
  <1>6. chans' \in [Nodes -> SUBSET Chans] /\ made' \in SUBSET Chans
    BY <1>0, <1>3 DEF TypeOK
  <1> QED  BY <1>2, <1>3, <1>4, <1>5, <1>6, ChannelCallGood

(* channel_reorder writes the new manifest to all three copies. *)
LEMMA ChannelReorderGood ==
  ASSUME IInv, NEW n \in Users, ChannelReorder(n)
  PROVE  IInv'
  <1> DEFINE m == Resigned(n, comm[n])
  <1>0. TypeOK /\ n \in Nodes /\ comm[n] \in Manifests
    BY DEF IInv, Nodes, TypeOK, ChannelReorder
  <1>1. m \in Manifests /\ m.by = n
    BY <1>0, ResignedType
  <1>2. /\ SetManifest(n, m) /\ SetMeta(n, m, meta[n].chans)
        /\ Publish(n, <<Update(n, m)>>) /\ Call
        /\ UNCHANGED <<chans, fetch, removing, sync, made, bounds>>
    BY DEF ChannelReorder
  <1> HIDE DEF m
  <1>3. <<Update(n, m)>> \in Seq(Events)
    BY <1>0, <1>1, EventTypes
  <1>4. meta[n] # None => meta[n].chans \in SUBSET Chans
    BY <1>0 DEF TypeOK, Metas
  <1>5. chans' \in [Nodes -> SUBSET Chans] /\ made' \in SUBSET Chans
    BY <1>0, <1>2 DEF TypeOK
  <1> QED  BY <1>1, <1>2, <1>3, <1>4, <1>5, ChannelCallGood
-----------------------------------------------------------------------------
(* community_leave, and community_delete once the tombstone is out: both copies
   of the manifest go while the store's stays for a moment. *)
LEMMA RemoveManifestGood ==
  ASSUME IInv, NEW n \in Nodes, SetManifest(n, None),
         removing' = [removing EXCEPT ![n] = [pc |-> "dropping", chans |-> chans[n]]],
         calls' \in 0 .. MaxCalls,
         UNCHANGED <<chans, meta, gossip, fetch, sync, made, bounds>>
  PROVE  IInv'
  <1>0. TypeOK
    BY DEF IInv
  <1>1. /\ comm' \in [Nodes -> Manifests \cup {None}]
        /\ disk' \in [Nodes -> Manifests \cup {None}]
        /\ comm'[n] = None /\ disk'[n] = None
        /\ \A k \in Nodes : k # n => comm'[k] = comm[k] /\ disk'[k] = disk[k]
    BY <1>0, SetManifestType
  <1>2. /\ removing' \in [Nodes -> Removals]
        /\ removing'[n].pc # "idle"
        /\ \A k \in Nodes : k # n => removing'[k] = removing[k]
    <2>1. [pc |-> "dropping", chans |-> chans[n]] \in Removals
      BY <1>0, RemovalTypes DEF TypeOK
    <2> QED  BY <1>0, <2>1 DEF TypeOK
  <1>3. TypeOK'
    BY <1>0, <1>1, <1>2 DEF TypeOK, bounds
  <1>4. SyncSigned'
    BY DEF IInv, SyncSigned
  <1>5. ASSUME NEW k \in Nodes PROVE GoodAt(k)'
    <2>1. GoodAt(k) /\ meta' = meta
      BY DEF IInv
    <2>2. CASE k = n
      BY <1>1, <1>2, <2>1, <2>2, DroppedGood
    <2>3. CASE k # n
      BY <1>1, <1>2, <2>1, <2>3, UntouchedGood
    <2> QED  BY <2>2, <2>3
  <1> QED  BY <1>3, <1>4, <1>5 DEF IInv

(* community_delete makes the tombstone in memory only. *)
LEMMA CommunityDeleteGood ==
  ASSUME IInv, CommunityDelete
  PROVE  IInv'
  <1> DEFINE r == Resigned(Admin, comm[Admin])
             m == [r EXCEPT !.del = TRUE]
  <1>0. TypeOK /\ Admin \in Nodes /\ comm[Admin] \in Manifests
    BY DEF IInv, Nodes, Users, TypeOK, CommunityDelete
  <1>1. m \in Manifests /\ m.by = Admin /\ m.del
    <2>1. r \in Manifests /\ r.by = Admin
      BY <1>0, ResignedType
    <2> HIDE DEF r
    <2> QED  BY <2>1, Tombstone
  <1>2. /\ comm' = [comm EXCEPT ![Admin] = m]
        /\ Publish(Admin, <<Update(Admin, m)>>) /\ Call
        /\ removing' = [removing EXCEPT ![Admin] = [pc |-> "marked", chans |-> {}]]
        /\ UNCHANGED <<disk, chans, meta, fetch, sync, made, bounds>>
    BY DEF CommunityDelete
  <1> HIDE DEF m
  <1>3. gossip' \in [Nodes -> Seq(Events)]
    <2>1. <<Update(Admin, m)>> \in Seq(Events)
      BY <1>0, <1>1, EventTypes
    <2> QED  BY <1>0, <1>2, <2>1, PublishType
  <1>4. /\ removing' \in [Nodes -> Removals]
        /\ \A k \in Nodes : k # Admin => removing'[k] = removing[k]
    <2>1. [pc |-> "marked", chans |-> {}] \in Removals
      BY DEF Removals
    <2> QED  BY <1>0, <1>2, <2>1 DEF TypeOK
  <1>5. /\ comm' \in [Nodes -> Manifests \cup {None}]
        /\ comm'[Admin] = m
        /\ \A k \in Nodes : k # Admin => comm'[k] = comm[k]
    BY <1>0, <1>1, <1>2 DEF TypeOK
  <1>6. TypeOK'
    BY <1>0, <1>2, <1>3, <1>4, <1>5, CallType DEF TypeOK, bounds
  <1>7. SyncSigned'
    BY <1>2 DEF IInv, SyncSigned
  <1>8. ASSUME NEW k \in Nodes PROVE GoodAt(k)'
    <2>1. GoodAt(k) /\ meta' = meta /\ disk' = disk
      BY <1>2 DEF IInv
    <2>2. CASE k = Admin
      BY <1>1, <1>5, <2>1, <2>2, ConstantsAssumption DEF GoodAt, SignedAt, SavedAt, RemovedAt
    <2>3. CASE k # Admin
      BY <1>4, <1>5, <2>1, <2>3, UntouchedGood
    <2> QED  BY <2>2, <2>3
  <1> QED  BY <1>6, <1>7, <1>8 DEF IInv

(* The end of remove_community_local. *)
LEMMA RemoveRestGood ==
  ASSUME IInv, NEW n \in Nodes, RemoveRest(n)
  PROVE  IInv'
  <1>0. TypeOK
    BY DEF IInv
  <1>1. /\ removing' \in [Nodes -> Removals]
        /\ \A k \in Nodes : k # n => removing'[k] = removing[k]
    BY <1>0, RemovalTypes DEF TypeOK, RemoveRest
  <1>2. /\ meta' \in [Nodes -> Metas \cup {None}]
        /\ meta'[n] = None
        /\ \A k \in Nodes : k # n => meta'[k] = meta[k]
    BY <1>0 DEF TypeOK, RemoveRest
  <1>3. chans' \in [Nodes -> SUBSET Chans]
    BY <1>0 DEF TypeOK, RemoveRest
  <1>4. TypeOK'
    BY <1>0, <1>1, <1>2, <1>3 DEF TypeOK, bounds, RemoveRest
  <1>5. SyncSigned'
    BY DEF IInv, SyncSigned, RemoveRest
  <1>6. ASSUME NEW k \in Nodes PROVE GoodAt(k)'
    <2>1. GoodAt(k) /\ comm' = comm /\ disk' = disk
      BY DEF IInv, RemoveRest
    <2>2. CASE k = n
      BY <1>2, <2>1, <2>2 DEF GoodAt, SignedAt, SavedAt, RemovedAt
    <2>3. CASE k # n
      BY <1>1, <1>2, <2>1, <2>3, UntouchedGood
    <2> QED  BY <2>2, <2>3
  <1> QED  BY <1>4, <1>5, <1>6 DEF IInv
-----------------------------------------------------------------------------
(* The head of a node's queue is an event, and taking it leaves events. *)
LEMMA QueueType ==
  ASSUME TypeOK, NEW n \in Nodes, gossip[n] # <<>>
  PROVE  /\ Head(gossip[n]) \in Events
         /\ [gossip EXCEPT ![n] = Tail(@)] \in [Nodes -> Seq(Events)]
  <1>1. gossip[n] \in Seq(Events)
    BY DEF TypeOK
  <1>2. Head(gossip[n]) \in Events /\ Tail(gossip[n]) \in Seq(Events)
    BY <1>1
  <1> QED  BY <1>2 DEF TypeOK

(* The fields of each kind of event. *)
LEMMA EventFields ==
  ASSUME NEW e \in Events
  PROVE  /\ e.type = "ManifestUpdate" => e.man \in Manifests /\ e.src \in Nodes
         /\ e.type = "ChannelManifestBroadcast" => e.chans \in SUBSET Chans
  <1>1. CASE e \in [type : {"ManifestUpdate"}, man : Manifests, src : Nodes]
    BY <1>1
  <1>2. CASE e \in [type : {"ChannelManifestBroadcast"}, chans : SUBSET Chans]
    BY <1>2
  <1>3. CASE e \in [type : {"CommunityJoined"}]
    BY <1>3
  <1> QED  BY <1>1, <1>2, <1>3 DEF Events

(* What remove_community_local leaves within one event. *)
LEMMA RemoveLocalGood ==
  ASSUME IInv, NEW n \in Nodes, RemoveLocal(n), UNCHANGED removing
  PROVE  /\ comm' \in [Nodes -> Manifests \cup {None}]
         /\ disk' \in [Nodes -> Manifests \cup {None}]
         /\ chans' \in [Nodes -> SUBSET Chans]
         /\ meta' \in [Nodes -> Metas \cup {None}]
         /\ \A k \in Nodes : GoodAt(k)'
  <1>0. TypeOK
    BY DEF IInv
  <1>1. /\ comm' \in [Nodes -> Manifests \cup {None}]
        /\ disk' \in [Nodes -> Manifests \cup {None}]
        /\ comm'[n] = None /\ disk'[n] = None
        /\ \A k \in Nodes : k # n => comm'[k] = comm[k] /\ disk'[k] = disk[k]
    BY <1>0, SetManifestType DEF RemoveLocal
  <1>2. /\ chans' \in [Nodes -> SUBSET Chans]
        /\ meta' \in [Nodes -> Metas \cup {None}]
        /\ meta'[n] = None
        /\ \A k \in Nodes : k # n => meta'[k] = meta[k]
    BY <1>0 DEF TypeOK, RemoveLocal
  <1>3. ASSUME NEW k \in Nodes PROVE GoodAt(k)'
    <2>1. GoodAt(k)
      BY DEF IInv
    <2>2. CASE k = n
      BY <1>1, <1>2, <2>1, <2>2, DroppedGood
    <2>3. CASE k # n
      BY <1>1, <1>2, <2>1, <2>3, UntouchedGood
    <2> QED  BY <2>2, <2>3
  <1> QED  BY <1>1, <1>2, <1>3

(* handle_community_message, ManifestUpdate. *)
LEMMA HandleUpdateGood ==
  ASSUME IInv, NEW n \in Nodes, HandleUpdate(n)
  PROVE  IInv'
  <1> DEFINE e == Head(gossip[n])
  <1>0. TypeOK /\ gossip[n] # <<>> /\ e.type = "ManifestUpdate"
    BY DEF IInv, HandleUpdate, NextEvent
  <1>1. e \in Events /\ gossip' \in [Nodes -> Seq(Events)]
    BY <1>0, QueueType DEF HandleUpdate, TakeEvent
  <1>2. \/ Accepts(n, e.man) /\ e.man.del /\ RemoveLocal(n) /\ UNCHANGED fetch
        \/ /\ Accepts(n, e.man) /\ ~e.man.del
           /\ SetManifest(n, e.man) /\ SetMeta(n, e.man, meta[n].chans)
           /\ chans' = [chans EXCEPT ![n] = @ \ (comm[n].chans \ e.man.chans)]
           /\ FetchManifest(n, e.src)
        \/ UNCHANGED <<copies, fetch>>
    BY DEF HandleUpdate
  <1> HIDE DEF e
  <1>3. e.man \in Manifests /\ e.src \in Nodes
    BY <1>0, <1>1, EventFields
  <1>4. SyncSigned'
    BY DEF IInv, SyncSigned, HandleUpdate
  <1>5. UNCHANGED <<removing, sync, made, calls, bounds>>
    BY DEF HandleUpdate
  <1>6. CASE RemoveLocal(n) /\ UNCHANGED fetch
    <2>1. /\ comm' \in [Nodes -> Manifests \cup {None}]
          /\ disk' \in [Nodes -> Manifests \cup {None}]
          /\ chans' \in [Nodes -> SUBSET Chans]
          /\ meta' \in [Nodes -> Metas \cup {None}]
          /\ \A k \in Nodes : GoodAt(k)'
      BY <1>5, <1>6, RemoveLocalGood
    <2>2. TypeOK'
      BY <1>0, <1>1, <1>5, <1>6, <2>1 DEF TypeOK, bounds
    <2> QED  BY <1>4, <2>1, <2>2 DEF IInv
  <1>7. CASE /\ Accepts(n, e.man)
             /\ SetManifest(n, e.man) /\ SetMeta(n, e.man, meta[n].chans)
             /\ chans' = [chans EXCEPT ![n] = @ \ (comm[n].chans \ e.man.chans)]
             /\ FetchManifest(n, e.src)
    <2>1. /\ comm' \in [Nodes -> Manifests \cup {None}]
          /\ disk' \in [Nodes -> Manifests \cup {None}]
          /\ comm'[n] = e.man /\ disk'[n] = e.man
          /\ \A k \in Nodes : k # n => comm'[k] = comm[k] /\ disk'[k] = disk[k]
      BY <1>0, <1>3, <1>7, SetManifestType
    <2>2. meta[n] # None => meta[n].chans \in SUBSET Chans
      BY <1>0 DEF TypeOK, Metas
    <2>3. /\ meta' \in [Nodes -> Metas \cup {None}]
          /\ meta[n] = None => meta'[n] = None
          /\ meta[n] # None => meta'[n] # None /\ meta'[n].man = e.man
          /\ \A k \in Nodes : k # n => meta'[k] = meta[k]
      BY <1>0, <1>3, <1>7, <2>2, SetMetaType
    <2>4. fetch' \in [Nodes -> Tasks]
      BY <1>0, <1>3, <1>7, FetchManifestType
    <2>5. chans' \in [Nodes -> SUBSET Chans]
      BY <1>0, <1>7 DEF TypeOK
    <2>6. TypeOK'
      BY <1>0, <1>1, <1>5, <2>1, <2>3, <2>4, <2>5 DEF TypeOK, bounds
    <2>7. ASSUME NEW k \in Nodes PROVE GoodAt(k)'
      <3>1. GoodAt(k) /\ e.man.by = Admin
        BY <1>7 DEF IInv, Accepts, Verifies
      <3>2. CASE k = n
        BY <1>3, <2>1, <2>3, <3>1, <3>2, WrittenGood
      <3>3. CASE k # n
        BY <1>5, <2>1, <2>3, <3>1, <3>3, UntouchedGood
      <3> QED  BY <3>2, <3>3
    <2> QED  BY <1>4, <2>6, <2>7 DEF IInv
  <1>8. CASE UNCHANGED <<copies, fetch>>
    <2>1. TypeOK'
      BY <1>0, <1>1, <1>5, <1>8 DEF TypeOK, bounds, copies
    <2>2. ASSUME NEW k \in Nodes PROVE GoodAt(k)'
      BY <1>5, <1>8, UntouchedGood DEF IInv, copies
    <2> QED  BY <1>4, <2>1, <2>2 DEF IInv
  <1> QED  BY <1>2, <1>6, <1>7, <1>8

(* handle_community_message, ChannelManifestBroadcast. *)
LEMMA HandleChannelGood ==
  ASSUME IInv, NEW n \in Nodes, HandleChannel(n)
  PROVE  IInv'
  <1> DEFINE e == Head(gossip[n])
  <1>0. TypeOK /\ gossip[n] # <<>> /\ e.type = "ChannelManifestBroadcast"
    BY DEF IInv, HandleChannel, NextEvent
  <1>1. e \in Events /\ gossip' \in [Nodes -> Seq(Events)]
    BY <1>0, QueueType DEF HandleChannel, TakeEvent
  <1>2. \/ /\ chans' = [chans EXCEPT ![n] = @ \cup e.chans]
           /\ SetMeta(n, meta[n].man, meta[n].chans \cup e.chans)
        \/ UNCHANGED <<chans, meta>>
    BY DEF HandleChannel
  <1> HIDE DEF e
  <1>3. e.chans \in SUBSET Chans
    BY <1>0, <1>1, EventFields
  <1>4. UNCHANGED <<comm, disk, fetch, removing, sync, made, calls, bounds>>
    BY DEF HandleChannel
  <1>5. /\ meta' \in [Nodes -> Metas \cup {None}]
        /\ chans' \in [Nodes -> SUBSET Chans]
        /\ \A k \in Nodes : \/ meta'[k] = meta[k]
                            \/ meta[k] # None /\ meta'[k].man = meta[k].man
    <2>1. meta[n] # None => /\ meta[n].man \in Manifests \cup {None}
                            /\ meta[n].chans \cup e.chans \in SUBSET Chans
      BY <1>0, <1>3 DEF TypeOK, Metas
    <2>2. CASE UNCHANGED <<chans, meta>>
      BY <1>0, <2>2 DEF TypeOK
    <2>3. CASE /\ chans' = [chans EXCEPT ![n] = @ \cup e.chans]
               /\ SetMeta(n, meta[n].man, meta[n].chans \cup e.chans)
      <3>1. chans' \in [Nodes -> SUBSET Chans]
        BY <1>0, <1>3, <2>3 DEF TypeOK
      <3>2. /\ meta' \in [Nodes -> Metas \cup {None}]
            /\ meta[n] = None => meta'[n] = None
            /\ meta[n] # None => meta'[n] # None /\ meta'[n].man = meta[n].man
            /\ \A k \in Nodes : k # n => meta'[k] = meta[k]
        BY <1>0, <2>1, <2>3, SetMetaType
      <3> QED  BY <3>1, <3>2
    <2> QED  BY <1>2, <2>2, <2>3
  <1>6. TypeOK'
    BY <1>0, <1>1, <1>4, <1>5 DEF TypeOK, bounds
  <1>7. SyncSigned'
    BY <1>4 DEF IInv, SyncSigned
  <1>8. ASSUME NEW k \in Nodes PROVE GoodAt(k)'
    BY <1>4, <1>5, HostedGood DEF IInv
  <1> QED  BY <1>6, <1>7, <1>8 DEF IInv

(* handle_community_joined. *)
LEMMA HandleJoinedGood ==
  ASSUME IInv, NEW n \in Nodes, HandleJoined(n)
  PROVE  IInv'
  <1>0. TypeOK /\ gossip[n] # <<>>
    BY DEF IInv, HandleJoined, NextEvent
  <1>1. gossip' \in [Nodes -> Seq(Events)]
    BY <1>0, QueueType DEF HandleJoined, TakeEvent
  <1>2. UNCHANGED <<chans, meta, fetch, removing, sync, made, calls, bounds>>
    BY DEF HandleJoined
  <1>3. SyncSigned'
    BY <1>2 DEF IInv, SyncSigned
  <1>4. SUFFICES /\ comm' \in [Nodes -> Manifests \cup {None}]
                 /\ disk' \in [Nodes -> Manifests \cup {None}]
                 /\ \A k \in Nodes : GoodAt(k)'
    <2>1. TypeOK'
      BY <1>0, <1>1, <1>2, <1>4 DEF TypeOK, bounds
    <2> QED  BY <1>3, <1>4, <2>1 DEF IInv
  <1>5. CASE UNCHANGED <<comm, disk>>
    <2>1. ASSUME NEW k \in Nodes PROVE GoodAt(k)'
      BY <1>2, <1>5, UntouchedGood DEF IInv
    <2> QED  BY <1>0, <1>5, <2>1 DEF TypeOK
  <1>6. CASE meta[n] # None /\ meta[n].man # None /\ SetManifest(n, meta[n].man)
    <2>1. meta[n].man \in Manifests /\ meta[n].man.by \in {Admin, n}
      BY <1>0, <1>6 DEF TypeOK, Metas, IInv, GoodAt, SignedAt
    <2>2. /\ comm' \in [Nodes -> Manifests \cup {None}]
          /\ disk' \in [Nodes -> Manifests \cup {None}]
          /\ comm'[n] = meta[n].man /\ disk'[n] = meta[n].man
          /\ \A k \in Nodes : k # n => comm'[k] = comm[k] /\ disk'[k] = disk[k]
      BY <1>0, <1>6, <2>1, SetManifestType
    <2>3. ASSUME NEW k \in Nodes PROVE GoodAt(k)'
      <3>1. GoodAt(k)
        BY DEF IInv
      <3>2. CASE k = n
        BY <1>2, <2>1, <2>2, <3>1, <3>2, WrittenGood
      <3>3. CASE k # n
        BY <1>2, <2>2, <3>1, <3>3, UntouchedGood
      <3> QED  BY <3>2, <3>3
    <2> QED  BY <2>2, <2>3
  <1>7. CASE /\ comm[n] = None
             /\ comm' = [comm EXCEPT ![n] = Placeholder(FALSE)] /\ UNCHANGED disk
    <2>1. Placeholder(FALSE) \in Manifests /\ Placeholder(FALSE).by = None
      BY PlaceholderType
    <2>2. /\ comm' \in [Nodes -> Manifests \cup {None}]
          /\ comm'[n] = Placeholder(FALSE)
          /\ \A k \in Nodes : k # n => comm'[k] = comm[k]
      BY <1>0, <1>7, <2>1 DEF TypeOK
    <2>3. ASSUME NEW k \in Nodes PROVE GoodAt(k)'
      <3>1. GoodAt(k) /\ disk' = disk
        BY <1>7 DEF IInv
      <3>2. CASE k = n
        BY <1>2, <1>7, <2>1, <2>2, <3>1, <3>2, ConstantsAssumption
           DEF GoodAt, SignedAt, SavedAt, RemovedAt
      <3>3. CASE k # n
        BY <1>2, <2>2, <3>1, <3>3, UntouchedGood
      <3> QED  BY <3>2, <3>3
    <2> QED  BY <1>0, <1>7, <2>2, <2>3 DEF TypeOK
  <1> QED  BY <1>5, <1>6, <1>7 DEF HandleJoined
-----------------------------------------------------------------------------
(* A peer that is asked to host the community gets at most an entry without a
   manifest. *)
LEMMA HostedType ==
  ASSUME TypeOK, NEW s \in Nodes, meta' = [meta EXCEPT ![s] = HostedMeta(s)]
  PROVE  /\ meta' \in [Nodes -> Metas \cup {None}]
         /\ \A k \in Nodes : meta'[k] = meta[k] \/ meta'[k].man = None
  <1>1. /\ [man |-> None, chans |-> {}] \in Metas
        /\ [man |-> None, chans |-> {}].man = None
    BY MetaType
  <1>2. \/ HostedMeta(s) = [man |-> None, chans |-> {}]
        \/ HostedMeta(s) = meta[s]
    BY DEF HostedMeta
  <1> QED  BY <1>1, <1>2 DEF TypeOK

(* What handle_join_community leaves on the peer. *)
LEMMA JoinAtType ==
  ASSUME TypeOK, NEW s \in Nodes, JoinAt(s)
  PROVE  /\ meta' \in [Nodes -> Metas \cup {None}]
         /\ \A k \in Nodes : meta'[k] = meta[k] \/ meta'[k].man = None
         /\ gossip' \in [Nodes -> Seq(Events)]
  <1>1. CommunityJoined \in Events
    BY DEF CommunityJoined, Events
  <1>2. gossip[s] \in Seq(Events)
    BY DEF TypeOK
  <1>3. Append(gossip[s], CommunityJoined) \in Seq(Events)
    BY <1>1, <1>2
  <1>4. gossip' \in [Nodes -> Seq(Events)]
    BY <1>3 DEF TypeOK, JoinAt
  <1> QED  BY <1>4, HostedType DEF JoinAt

(* A step that writes no manifest anywhere: entries of stores may appear. *)
LEMMA NetworkGood ==
  ASSUME IInv, UNCHANGED <<comm, disk, removing>>, TypeOK', SyncSigned',
         \A k \in Nodes : meta'[k] = meta[k] \/ meta'[k].man = None
  PROVE  IInv'
  <1>1. ASSUME NEW k \in Nodes PROVE GoodAt(k)'
    BY HostedGood DEF IInv
  <1> QED  BY <1>1 DEF IInv

(* The seed is connected, and asked to host the community by the creator. *)
LEMMA SeedPeerConnectedGood ==
  ASSUME IInv, NEW n \in Users, SeedPeerConnected(n)
  PROVE  IInv'
  <1>0. TypeOK /\ n \in Nodes /\ Seed \in Nodes
    BY DEF IInv, Nodes
  <1>1. /\ meta' \in [Nodes -> Metas \cup {None}]
        /\ \A k \in Nodes : meta'[k] = meta[k] \/ meta'[k].man = None
        /\ gossip' \in [Nodes -> Seq(Events)]
    <2>1. CASE n = Admin
      BY <1>0, <2>1, JoinAtType DEF SeedPeerConnected
    <2>2. CASE n # Admin
      BY <1>0, <2>2 DEF SeedPeerConnected, TypeOK
    <2> QED  BY <2>1, <2>2
  <1>2. fetch' \in [Nodes -> Tasks]
    BY <1>0, FetchManifestType DEF SeedPeerConnected
  <1>3. connects' \in 0 .. MaxConnects
    BY <1>0, ConstantsAssumption DEF SeedPeerConnected, TypeOK
  <1>4. UNCHANGED <<comm, disk, chans, removing, sync, made, calls, faults>>
    BY DEF SeedPeerConnected
  <1>5. TypeOK'
    BY <1>0, <1>1, <1>2, <1>3, <1>4 DEF TypeOK
  <1>6. SyncSigned'
    BY <1>4 DEF IInv, SyncSigned
  <1> QED  BY <1>1, <1>4, <1>5, <1>6, NetworkGood

(* A peer is connected: no manifest is written anywhere. *)
LEMMA PeerConnectedGood ==
  ASSUME IInv, NEW n \in Nodes, NEW s \in Nodes, PeerConnected(n, s)
  PROVE  IInv'
  <1>0. TypeOK
    BY DEF IInv
  <1>1. /\ meta' \in [Nodes -> Metas \cup {None}]
        /\ \A k \in Nodes : meta'[k] = meta[k] \/ meta'[k].man = None
        /\ gossip' \in [Nodes -> Seq(Events)]
    <2>1. CASE n = Admin
      <3> DEFINE es == <<Update(n, comm[n]), Channels(comm[n].chans \cap chans[n])>>
                 js(o) == IF o = s THEN <<CommunityJoined>> ELSE <<>>
      <3>1. es \in Seq(Events)
        <4>1. comm[n] \in Manifests /\ comm[n].chans \cap chans[n] \in SUBSET Chans
          BY <1>0 DEF TypeOK, PeerConnected
        <4> QED  BY <4>1, EventTypes
      <3>2. \A o \in Nodes : js(o) \in Seq(Events)
        <4>1. CommunityJoined \in Events
          BY DEF CommunityJoined, Events
        <4>2. <<CommunityJoined>> \in Seq(Events) /\ <<>> \in Seq(Events)
          BY <4>1
        <4> QED  BY <4>2
      <3>3. gossip' = [o \in Nodes |-> IF o = n THEN gossip[o]
                                       ELSE gossip[o] \o js(o) \o es]
        BY <2>1 DEF PeerConnected
      <3> HIDE DEF es, js
      <3>4. \A o \in Nodes : gossip[o] \in Seq(Events) /\ gossip[o] \o js(o) \o es \in Seq(Events)
        BY <1>0, <3>1, <3>2 DEF TypeOK
      <3>5. gossip' \in [Nodes -> Seq(Events)]
        BY <3>3, <3>4
      <3> QED  BY <1>0, <2>1, <3>5, HostedType DEF PeerConnected
    <2>2. CASE n # Admin
      BY <1>0, <2>2 DEF PeerConnected, TypeOK
    <2> QED  BY <2>1, <2>2
  <1>2. fetch' \in [Nodes -> Tasks]
    BY <1>0, FetchManifestType DEF PeerConnected
  <1>3. connects' \in 0 .. MaxConnects
    BY <1>0, ConstantsAssumption DEF PeerConnected, TypeOK
  <1>4. UNCHANGED <<comm, disk, chans, removing, sync, made, calls, faults>>
    BY DEF PeerConnected
  <1>5. TypeOK'
    BY <1>0, <1>1, <1>2, <1>3, <1>4 DEF TypeOK
  <1>6. SyncSigned'
    BY <1>4 DEF IInv, SyncSigned
  <1> QED  BY <1>1, <1>4, <1>5, <1>6, NetworkGood
-----------------------------------------------------------------------------
(* The FetchManifest task. *)
LEMMA ServeManifestGood ==
  ASSUME IInv, NEW n \in Nodes, ServeManifest(n) \/ FetchFails(n)
  PROVE  IInv'
  <1>0. TypeOK /\ fetch[n].st = "asked"
    BY DEF IInv, ServeManifest, FetchFails
  <1>1. fetch' \in [Nodes -> Tasks]
    <2>1. IdleTask \in Tasks
      BY IdleTaskType
    <2>2. CASE FetchFails(n)
      BY <1>0, <2>1, <2>2 DEF FetchFails, TypeOK
    <2>3. CASE ServeManifest(n)
      <3> DEFINE s == fetch[n].from
                 a == [st |-> "answered", man |-> meta[s].man,
                       chans |-> meta[s].chans \cap meta[s].man.chans]
      <3>1. s \in Nodes
        BY <1>0 DEF TypeOK, Tasks
      <3>2. meta[s] # None /\ meta[s].man # None => a \in Tasks
        <4> SUFFICES ASSUME meta[s] # None, meta[s].man # None PROVE a \in Tasks
          OBVIOUS
        <4>1. meta[s].man \in Manifests /\ meta[s].chans \in SUBSET Chans
          BY <1>0, <3>1 DEF TypeOK, Metas
        <4> QED  BY <4>1 DEF Tasks
      <3>3. fetch' = [fetch EXCEPT ![n] =
              IF meta[s] # None /\ meta[s].man # None THEN a ELSE IdleTask]
        BY <2>3 DEF ServeManifest
      <3> HIDE DEF s, a
      <3> QED  BY <1>0, <2>1, <3>2, <3>3 DEF TypeOK
    <2> QED  BY <2>2, <2>3
  <1>2. UNCHANGED <<copies, gossip, removing, sync, made, calls, bounds>>
    BY DEF ServeManifest, FetchFails
  <1>3. TypeOK'
    BY <1>0, <1>1, <1>2 DEF TypeOK, copies, bounds
  <1>4. SyncSigned'
    BY <1>2 DEF IInv, SyncSigned
  <1> QED  BY <1>2, <1>3, <1>4, NetworkGood DEF copies

(* handle_manifest_received. *)
LEMMA HandleManifestGood ==
  ASSUME IInv, NEW n \in Nodes, HandleManifest(n)
  PROVE  IInv'
  <1> DEFINE m == fetch[n].man
             cs == fetch[n].chans
  <1>0. TypeOK
    BY DEF IInv
  <1>1. m \in Manifests /\ cs \in SUBSET Chans
    BY <1>0 DEF TypeOK, Tasks, HandleManifest
  <1>2. fetch' \in [Nodes -> Tasks]
    BY <1>0, IdleTaskType DEF TypeOK, HandleManifest
  <1>3. UNCHANGED <<gossip, removing, sync, made, calls, bounds>>
    BY DEF HandleManifest
  <1>4. \/ RemoveLocal(n)
        \/ /\ Verifies(m) /\ SetManifest(n, m)
           /\ chans' = [chans EXCEPT ![n] = (@ \cup cs) \cap m.chans]
           /\ meta' = [meta EXCEPT ![n] = [man |-> m, chans |-> cs]]
        \/ UNCHANGED copies
    BY DEF HandleManifest
  <1> HIDE DEF m, cs
  <1>5. SyncSigned'
    BY <1>3 DEF IInv, SyncSigned
  <1>6. SUFFICES /\ comm' \in [Nodes -> Manifests \cup {None}]
                 /\ disk' \in [Nodes -> Manifests \cup {None}]
                 /\ chans' \in [Nodes -> SUBSET Chans]
                 /\ meta' \in [Nodes -> Metas \cup {None}]
                 /\ \A k \in Nodes : GoodAt(k)'
    <2>1. TypeOK'
      BY <1>0, <1>2, <1>3, <1>6 DEF TypeOK, bounds
    <2> QED  BY <1>5, <1>6, <2>1 DEF IInv
  <1>7. CASE RemoveLocal(n)
    BY <1>3, <1>7, RemoveLocalGood
  <1>8. CASE UNCHANGED copies
    <2>1. ASSUME NEW k \in Nodes PROVE GoodAt(k)'
      BY <1>3, <1>8, UntouchedGood DEF IInv, copies
    <2> QED  BY <1>0, <1>8, <2>1 DEF TypeOK, copies
  <1>9. CASE /\ Verifies(m) /\ SetManifest(n, m)
             /\ chans' = [chans EXCEPT ![n] = (@ \cup cs) \cap m.chans]
             /\ meta' = [meta EXCEPT ![n] = [man |-> m, chans |-> cs]]
    <2>1. /\ comm' \in [Nodes -> Manifests \cup {None}]
          /\ disk' \in [Nodes -> Manifests \cup {None}]
          /\ comm'[n] = m /\ disk'[n] = m
          /\ \A k \in Nodes : k # n => comm'[k] = comm[k] /\ disk'[k] = disk[k]
      BY <1>0, <1>1, <1>9, SetManifestType
    <2>2. chans' \in [Nodes -> SUBSET Chans]
      BY <1>0, <1>1, <1>9 DEF TypeOK
    <2>3. /\ meta' \in [Nodes -> Metas \cup {None}]
          /\ meta'[n] # None /\ meta'[n].man = m
          /\ \A k \in Nodes : k # n => meta'[k] = meta[k]
      <3>1. [man |-> m, chans |-> cs] \in Metas /\ [man |-> m, chans |-> cs].man = m
        BY <1>1, MetaType
      <3> QED  BY <1>0, <1>9, <3>1, ConstantsAssumption DEF TypeOK
    <2>4. ASSUME NEW k \in Nodes PROVE GoodAt(k)'
      <3>1. GoodAt(k) /\ m.by = Admin
        BY <1>9 DEF IInv, Verifies
      <3>2. CASE k = n
        BY <1>1, <2>1, <2>3, <3>1, <3>2, WrittenGood
      <3>3. CASE k # n
        BY <1>3, <2>1, <2>3, <3>1, <3>3, UntouchedGood
      <3> QED  BY <3>2, <3>3
    <2> QED  BY <2>1, <2>2, <2>3, <2>4
  <1> QED  BY <1>4, <1>7, <1>8, <1>9
-----------------------------------------------------------------------------
(* sync_community_to_seed. *)
LEMMA SyncJoinGood ==
  ASSUME IInv, SyncJoin
  PROVE  IInv'
  <1>0. TypeOK /\ Seed \in Nodes
    BY DEF IInv, Nodes
  <1>1. /\ meta' \in [Nodes -> Metas \cup {None}]
        /\ \A k \in Nodes : meta'[k] = meta[k] \/ meta'[k].man = None
        /\ gossip' \in [Nodes -> Seq(Events)]
    BY <1>0, JoinAtType DEF SyncJoin
  <1>2. sync' \in Syncs /\ SyncSigned'
    <2>1. sync \in [st : {"join", "push"}, man : Manifests] /\ sync.man.by = Admin
      BY <1>0 DEF TypeOK, Syncs, IInv, SyncSigned, SyncJoin
    <2> QED  BY <2>1 DEF SyncJoin, Syncs, SyncSigned
  <1>3. TypeOK'
    BY <1>0, <1>1, <1>2 DEF SyncJoin, TypeOK, bounds
  <1> QED  BY <1>1, <1>2, <1>3, NetworkGood DEF SyncJoin

(* The seed's store gets the manifest of the call, which the creator signed. *)
LEMMA SyncPushGood ==
  ASSUME IInv, SyncPush
  PROVE  IInv'
  <1> DEFINE v == [man |-> sync.man, chans |-> sync.man.chans \cap chans[Admin]]
  <1>0. TypeOK /\ Seed \in Nodes /\ Seed \notin Users
    BY ConstantsAssumption DEF IInv, Nodes, Users
  <1>1. sync.man \in Manifests /\ sync.man.by = Admin
    BY <1>0 DEF TypeOK, Syncs, IInv, SyncSigned, SyncPush
  <1>2. v \in Metas /\ v.man = sync.man
    <2>1. sync.man.chans \cap chans[Admin] \in SUBSET Chans
      BY <1>1 DEF Manifests
    <2> QED  BY <1>1, <2>1, MetaType
  <1>3. meta' = [meta EXCEPT ![Seed] = v]
    BY DEF SyncPush
  <1> HIDE DEF v
  <1>4. meta' \in [Nodes -> Metas \cup {None}]
    BY <1>0, <1>2, <1>3 DEF TypeOK
  <1>5. TypeOK'
    BY <1>0, <1>4, IdleTaskType DEF SyncPush, TypeOK, bounds
  <1>6. SyncSigned'
    BY IdleTaskType DEF SyncPush, SyncSigned
  <1>7. ASSUME NEW k \in Nodes PROVE GoodAt(k)'
    <2>1. GoodAt(k) /\ UNCHANGED <<comm, disk, removing>>
      BY DEF IInv, SyncPush
    <2>2. CASE k = Seed
      <3>1. meta'[k].man.by = Admin
        BY <1>0, <1>1, <1>2, <1>3, <2>2 DEF TypeOK
      <3> QED  BY <1>0, <2>1, <2>2, <3>1 DEF GoodAt, SignedAt, SavedAt, RemovedAt
    <2>3. CASE k # Seed
      BY <1>0, <1>3, <2>1, <2>3, UntouchedGood DEF TypeOK
    <2> QED  BY <2>2, <2>3
  <1> QED  BY <1>5, <1>6, <1>7 DEF IInv

(* A sync that fails writes nothing. *)
LEMMA SyncFailsGood ==
  ASSUME IInv, SyncFails
  PROVE  IInv'
  <1>1. TypeOK'
    BY IdleTaskType DEF IInv, SyncFails, TypeOK, copies, bounds
  <1>2. SyncSigned'
    BY IdleTaskType DEF SyncFails, SyncSigned
  <1> QED  BY <1>1, <1>2, NetworkGood DEF SyncFails, copies
-----------------------------------------------------------------------------
(* A restart, which loads what is on disk and what only the store has. *)
LEMMA RestartGood ==
  ASSUME IInv, NEW n \in Nodes, Restart(n)
  PROVE  IInv'
  <1> DEFINE stored == meta[n] # None /\ meta[n].man # None
             m == IF disk[n] # None THEN disk[n]
                  ELSE IF stored THEN meta[n].man ELSE None
  <1>0. TypeOK /\ GoodAt(n)
    BY DEF IInv
  <1>1. /\ m \in Manifests \cup {None}
        /\ stored => meta[n].chans \in SUBSET Chans
    BY <1>0 DEF TypeOK, Metas
  <1>2. /\ comm' = [comm EXCEPT ![n] = m]
        /\ chans' = [chans EXCEPT ![n] = IF stored THEN @ \cup meta[n].chans ELSE @]
    BY DEF Restart
  <1>3. UNCHANGED <<disk, meta, made, calls, connects>>
    BY DEF Restart
  <1>4. /\ comm' \in [Nodes -> Manifests \cup {None}]
        /\ comm'[n] = m
        /\ \A k \in Nodes : k # n => comm'[k] = comm[k]
    <2> HIDE DEF m
    <2> QED  BY <1>0, <1>1, <1>2 DEF TypeOK
  <1>5. chans' \in [Nodes -> SUBSET Chans]
    <2> HIDE DEF stored
    <2> QED  BY <1>0, <1>1, <1>2 DEF TypeOK
  <1>6. gossip' \in [Nodes -> Seq(Events)] /\ fetch' \in [Nodes -> Tasks]
    <2>1. <<>> \in Seq(Events)
      OBVIOUS
    <2> QED  BY <1>0, <2>1, IdleTaskType DEF Restart, TypeOK
  <1>7. /\ removing' \in [Nodes -> Removals]
        /\ \A k \in Nodes : k # n => removing'[k] = removing[k]
    <2>1. IdleRemoval \in Removals
      BY DEF IdleRemoval, Removals
    <2> QED  BY <1>0, <2>1 DEF Restart, TypeOK
  <1>8. sync' \in Syncs /\ SyncSigned'
    <2>1. sync' = IdleTask \/ sync' = sync
      BY DEF Restart
    <2> QED  BY <1>0, <2>1, IdleTaskType DEF IInv, TypeOK, SyncSigned
  <1>9. faults' \in 0 .. MaxFaults
    BY <1>0, ConstantsAssumption DEF Restart, TypeOK
  <1>10. TypeOK'
    BY <1>0, <1>3, <1>4, <1>5, <1>6, <1>7, <1>8, <1>9 DEF TypeOK
  <1>11. ASSUME NEW k \in Nodes PROVE GoodAt(k)'
    <2>1. GoodAt(k)
      BY DEF IInv
    <2>2. CASE k = n
      BY <1>0, <1>3, <1>4, <2>2 DEF GoodAt, SignedAt, SavedAt, RemovedAt
    <2>3. CASE k # n
      BY <1>3, <1>4, <1>7, <2>1, <2>3, UntouchedGood
    <2> QED  BY <2>2, <2>3
  <1> QED  BY <1>8, <1>10, <1>11 DEF IInv

(* A lost event writes nothing. *)
LEMMA EventLostGood ==
  ASSUME IInv, NEW n \in Nodes, EventLost(n)
  PROVE  IInv'
  <1>0. TypeOK
    BY DEF IInv
  <1>1. gossip' \in [Nodes -> Seq(Events)]
    BY <1>0, QueueType DEF EventLost, TakeEvent
  <1>2. faults' \in 0 .. MaxFaults
    BY <1>0, ConstantsAssumption DEF EventLost, TypeOK
  <1>3. TypeOK'
    BY <1>0, <1>1, <1>2 DEF EventLost, TypeOK, copies
  <1>4. SyncSigned'
    BY DEF IInv, SyncSigned, EventLost
  <1> QED  BY <1>3, <1>4, NetworkGood DEF EventLost, copies
-----------------------------------------------------------------------------
(* Every step keeps the inductive invariant. *)
LEMMA NextGood ==
  ASSUME IInv, [Next]_vars
  PROVE  IInv'
  <1>1. CASE Calls
    <2>1. ASSUME NEW seed \in BOOLEAN, CommunityCreate(seed) PROVE IInv'
      BY <2>1, CreateGood
    <2>2. ASSUME NEW n \in Users, NEW seed \in BOOLEAN, CommunityJoin(n, seed) PROVE IInv'
      BY <2>2, JoinGood
    <2>3. ASSUME NEW seed \in BOOLEAN, UpdateAccepted(seed) PROVE IInv'
      BY <2>3, UpdateGood DEF UpdateAccepted
    <2>4. CASE UpdateRejected
      BY <2>4, UpdateGood DEF UpdateRejected
    <2>5. ASSUME NEW n \in Users, NEW c \in Chans, ChannelCreate(n, c) PROVE IInv'
      BY <2>5, ChannelCreateGood
    <2>6. ASSUME NEW n \in Users, NEW c \in Chans, ChannelDelete(n, c) PROVE IInv'
      BY <2>6, ChannelDeleteGood
    <2>7. ASSUME NEW n \in Users, ChannelReorder(n) PROVE IInv'
      BY <2>7, ChannelReorderGood
    <2>8. ASSUME NEW n \in Users, CommunityLeave(n) PROVE IInv'
      <3>1. n \in Nodes /\ calls' \in 0 .. MaxCalls
        BY <2>8, CallType DEF IInv, CommunityLeave, Nodes
      <3> QED  BY <2>8, <3>1, RemoveManifestGood DEF CommunityLeave
    <2>9. CASE CommunityDelete
      BY <2>9, CommunityDeleteGood
    <2>10. ASSUME NEW n \in Users, RemoveManifest(n) PROVE IInv'
      <3>1. n \in Nodes /\ calls' \in 0 .. MaxCalls
        BY <2>10 DEF IInv, TypeOK, RemoveManifest, Nodes
      <3> QED  BY <2>10, <3>1, RemoveManifestGood DEF RemoveManifest
    <2>11. ASSUME NEW n \in Users, RemoveRest(n) PROVE IInv'
      BY <2>11, RemoveRestGood DEF Nodes
    <2> QED  BY <1>1, <2>1, <2>2, <2>3, <2>4, <2>5, <2>6, <2>7, <2>8, <2>9, <2>10,
                <2>11 DEF Calls
  <1>2. ASSUME NEW n \in Nodes, EventProcessor(n) PROVE IInv'
    BY <1>2, HandleUpdateGood, HandleChannelGood, HandleJoinedGood,
       HandleManifestGood DEF EventProcessor
  <1>3. CASE Network
    <2>1. ASSUME NEW n \in Users, SeedPeerConnected(n) PROVE IInv'
      BY <2>1, SeedPeerConnectedGood
    <2>2. ASSUME NEW n \in Nodes, NEW s \in Nodes, PeerConnected(n, s) PROVE IInv'
      BY <2>2, PeerConnectedGood
    <2>3. ASSUME NEW n \in Nodes, ServeManifest(n) \/ FetchFails(n) PROVE IInv'
      BY <2>3, ServeManifestGood
    <2>4. CASE SyncJoin \/ SyncPush \/ SyncFails
      BY <2>4, SyncJoinGood, SyncPushGood, SyncFailsGood
    <2>5. ASSUME NEW n \in Nodes, Restart(n) \/ EventLost(n) PROVE IInv'
      BY <2>5, RestartGood, EventLostGood
    <2> QED  BY <1>3, <2>1, <2>2, <2>3, <2>4, <2>5 DEF Network
  <1>4. CASE UNCHANGED vars
    <2>1. TypeOK'
      BY <1>4 DEF IInv, TypeOK, vars, copies, bounds
    <2>2. SyncSigned'
      BY <1>4 DEF IInv, SyncSigned, vars
    <2> QED  BY <1>4, <2>1, <2>2, NetworkGood DEF vars, copies
  <1> QED  BY <1>1, <1>2, <1>3, <1>4 DEF Next

(* The inductive invariant holds in every reachable state. *)
THEOREM Inductive == Spec => []IInv
  <1>1. Init => IInv
    BY InitGood
  <1>2. IInv /\ [Next]_vars => IInv'
    BY NextGood
  <1> QED  BY <1>1, <1>2, PTL DEF Spec

(* Every reachable state of the three copies, queues and tasks is well typed. *)
THEOREM TypeCorrect == Spec => []TypeOK
  <1>1. IInv => TypeOK
    BY DEF IInv
  <1> QED  BY <1>1, Inductive, PTL

(* Whatever users sign, gossip carries and peers serve, a node keeps only
   placeholders, manifests of the creator and its own: what channel_create and
   channel_reorder let others sign is refused everywhere else. *)
THEOREM CreatorSigned == Spec => []OnlyCreatorSigned
  <1>1. IInv => OnlyCreatorSigned
    BY DEF IInv, GoodAt, SignedAt, OnlyCreatorSigned
  <1> QED  BY <1>1, Inductive, PTL

(* After every step communities.json holds the manifest in memory, but for a
   tombstone and for a hosted placeholder, which are not saved. *)
THEOREM ManifestSaved == Spec => []DiskHoldsManifest
  <1>1. IInv => DiskHoldsManifest
    BY DEF IInv, GoodAt, SavedAt, DiskHoldsManifest
  <1> QED  BY <1>1, Inductive, PTL

(* A community removed from a user's node does not come back at a restart. *)
THEOREM RemovalKept == Spec => RestartKeepsRemoval
  <1> DEFINE Kept(n) == faults' # faults /\ comm[n] = None /\ removing[n].pc = "idle"
                          => comm'[n] = None
  <1>1. ASSUME IInv, [Next]_vars PROVE [\A n \in Users : Kept(n)]_vars
    <2> SUFFICES ASSUME NEW n \in Users, faults' # faults, comm[n] = None,
                        removing[n].pc = "idle"
                 PROVE  comm'[n] = None
      OBVIOUS
    <2>1. n \in Nodes /\ TypeOK /\ GoodAt(n)
      BY <1>1 DEF IInv, Nodes
    <2>2. disk[n] = None /\ (meta[n] = None \/ meta[n].man = None)
      BY <2>1 DEF GoodAt, SavedAt, RemovedAt
    <2>3. ~Calls /\ ~(\E k \in Nodes : EventProcessor(k)) /\ faults' # faults
      BY DEF Calls, EventProcessor, bounds, CommunityCreate, CommunityJoin,
         UpdateAccepted, UpdateRejected, UpdateManifest, ChannelCreate, ChannelDelete,
         ChannelReorder, CommunityLeave, CommunityDelete, RemoveManifest, RemoveRest,
         HandleUpdate, HandleChannel, HandleJoined, HandleManifest
    <2>4. \E k \in Nodes : Restart(k) \/ EventLost(k)
      BY <1>1, <2>3 DEF Next, Network, vars, bounds, SeedPeerConnected, PeerConnected,
         ServeManifest, FetchFails, SyncJoin, SyncPush, SyncFails
    <2>5. PICK k \in Nodes : Restart(k) \/ EventLost(k)
      BY <2>4
    <2>6. CASE EventLost(k)
      BY <2>6 DEF EventLost, copies
    <2>7. CASE Restart(k)
      BY <2>1, <2>2, <2>7 DEF Restart, TypeOK
    <2> QED  BY <2>5, <2>6, <2>7
  <1>2. Spec => [][\A n \in Users : Kept(n)]_vars
    BY <1>1, Inductive, PTL DEF Spec
  <1> QED  BY <1>2 DEF RestartKeepsRemoval
=============================================================================
