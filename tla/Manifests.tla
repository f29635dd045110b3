------------------------------ MODULE Manifests ------------------------------
(***************************************************************************)
(* The signed manifest of one community and the channels it lists: who     *)
(* changes it (rpc_server/{community,channel}.rs), how the other nodes     *)
(* learn of it (ManifestUpdate and ChannelManifestBroadcast gossip,        *)
(* FetchManifest, PushManifest), how a node comes to host it (JoinCommunity*)
(* and CommunityJoined), and how it is left or deleted.                    *)
(*                                                                         *)
(* A node keeps the manifest three times: in AppState.communities, in      *)
(* communities.json, and in the CommunityMeta of its NodeStore, which is   *)
(* what FetchManifest serves.  Which of the three a step writes is what    *)
(* this module is about; members and keys are in Membership and            *)
(* ChannelKeys, and a channel is only its identity here.                   *)
(***************************************************************************)
EXTENDS Naturals, Sequences, FiniteSets

CONSTANTS
  Admin,        \* the creator: its key is the manifest's public_key
  Members,      \* the other users
  Seed,         \* the node that seed_nodes may name
  Chans,        \* channels that may be created
  PeerDials,    \* pairs <<n, s>>: n finds s in the DHT and dials it
  None,         \* no manifest, no CommunityMeta, no task
  MaxCalls,     \* bound: JSON-RPC calls that change the community
  MaxConnects,  \* bound: connections made
  MaxFaults     \* bound: restarts and lost gossip messages

Users == Members \cup {Admin}

Nodes == Users \cup {Seed}

(* SignedManifest: version, an identity for the name, description and order it
   carries, whose key signed it, the live channels, whether the seed is listed,
   and the tombstone flag. *)
Manifests == [ver : Nat, rev : Nat, by : Nodes \cup {None},
              chans : SUBSET Chans, seed : BOOLEAN, del : BOOLEAN]

(* CommunityMeta of the NodeStore, without certificate, keys and members. *)
Metas == [man : Manifests \cup {None}, chans : SUBSET Chans]

Events == [type : {"ManifestUpdate"}, man : Manifests, src : Nodes]
            \cup [type : {"ChannelManifestBroadcast"}, chans : SUBSET Chans]
            \cup [type : {"CommunityJoined"}]

Tasks == [st : {"idle"}]
           \cup [st : {"asked"}, from : Nodes]
           \cup [st : {"answered"}, man : Manifests, chans : SUBSET Chans]

Removals == [pc : {"idle", "marked", "dropping"}, chans : SUBSET Chans]

Syncs == [st : {"idle"}] \cup [st : {"join", "push"}, man : Manifests]

ASSUME ConstantsAssumption ==
  /\ Admin # Seed /\ Admin \notin Members /\ Seed \notin Members
  /\ PeerDials \subseteq Nodes \X Nodes
  /\ None \notin Nodes /\ None \notin Manifests /\ None \notin Metas
  /\ MaxCalls \in Nat /\ MaxConnects \in Nat /\ MaxFaults \in Nat

VARIABLES
  comm,      \* [Nodes -> manifest or None]: AppState.communities
  disk,      \* [Nodes -> manifest or None]: communities.json
  chans,     \* [Nodes -> SUBSET Chans]: AppState.channels and channels.json
  meta,      \* [Nodes -> meta or None]: CommunityMeta in the NodeStore
  gossip,    \* [Nodes -> Seq(Events)]: events the processor has not handled
  fetch,     \* [Nodes -> Tasks]: the FetchManifest task of a node
  removing,  \* [Nodes -> Removals]: a community_leave or _delete call
  sync,      \* the admin's sync_community_to_seed task
  made,      \* channels created so far
  calls,     \* JSON-RPC calls so far
  connects,  \* connections made so far
  faults     \* restarts and losses so far

copies == <<comm, disk, chans, meta>>
bounds == <<connects, faults>>
vars == <<copies, gossip, fetch, removing, sync, made, calls, bounds>>

IdleTask == [st |-> "idle"]

IdleRemoval == [pc |-> "idle", chans |-> {}]

(* community_join stores an unsigned manifest of version 0 that keeps the
   first seed of the invite; handle_community_joined one that has no seed. *)
Placeholder(seed) ==
  [ver |-> 0, rev |-> 0, by |-> None, chans |-> {}, seed |-> seed, del |-> FALSE]

TypeOK ==
  /\ comm \in [Nodes -> Manifests \cup {None}]
  /\ disk \in [Nodes -> Manifests \cup {None}]
  /\ chans \in [Nodes -> SUBSET Chans]
  /\ meta \in [Nodes -> Metas \cup {None}]
  /\ gossip \in [Nodes -> Seq(Events)]
  /\ fetch \in [Nodes -> Tasks]
  /\ removing \in [Nodes -> Removals]
  /\ sync \in Syncs
  /\ made \in SUBSET Chans
  /\ calls \in 0 .. MaxCalls
  /\ connects \in 0 .. MaxConnects
  /\ faults \in 0 .. MaxFaults

Init ==
  /\ comm = [n \in Nodes |-> None]
  /\ disk = [n \in Nodes |-> None]
  /\ chans = [n \in Nodes |-> {}]
  /\ meta = [n \in Nodes |-> None]
  /\ gossip = [n \in Nodes |-> <<>>]
  /\ fetch = [n \in Nodes |-> IdleTask]
  /\ removing = [n \in Nodes |-> IdleRemoval]
  /\ sync = IdleTask
  /\ made = {}
  /\ calls = 0
  /\ connects = 0
  /\ faults = 0
-----------------------------------------------------------------------------
(* SignedManifest::verify, against the public_key of the manifest. *)
Verifies(m) == m.by = Admin

Update(n, m) == [type |-> "ManifestUpdate", man |-> m, src |-> n]

(* The broadcasts of several channels, which are sent one after the other. *)
Channels(cs) == [type |-> "ChannelManifestBroadcast", chans |-> cs]

CommunityJoined == [type |-> "CommunityJoined"]

(* NetworkCommand::Publish of several events, in order, to every other node. *)
Publish(n, es) ==
  gossip' = [o \in Nodes |-> IF o = n THEN gossip[o] ELSE gossip[o] \o es]

(* The updated manifest, one version on, signed with the caller's key. *)
Resigned(n, m) ==
  [m EXCEPT !.ver = @ + 1, !.rev = calls + 1, !.by = n]

(* communities.insert and save_table of communities.json. *)
SetManifest(n, m) ==
  /\ comm' = [comm EXCEPT ![n] = m]
  /\ disk' = [disk EXCEPT ![n] = m]

(* get_community_meta and set_community_meta, when the store has an entry. *)
SetMeta(n, m, cs) ==
  meta' = [meta EXCEPT ![n] = IF @ = None THEN None ELSE [man |-> m, chans |-> cs]]

(* NetworkCommand::FetchManifest: a task is spawned if the peer is in the
   outbound table; one task per node is modelled. *)
FetchManifest(n, s) ==
  fetch' = IF s # n /\ fetch[n].st = "idle"
           THEN [fetch EXCEPT ![n] = [st |-> "asked", from |-> s]]
           ELSE fetch

(* require_seed_connected, which refuses most of these calls while the seed is not
   connected, is left out: such a call is no step, and it may come later.
   One community_leave or community_delete call of a node is modelled at a
   time; the other calls interleave with it. *)
Idle(n) == removing[n].pc = "idle"

Call == calls < MaxCalls /\ calls' = calls + 1
-----------------------------------------------------------------------------
(* community_create: version 1, in memory, on disk and in the NodeStore. *)
CommunityCreate(seed) ==
  /\ calls = 0 /\ comm[Admin] = None
  /\ LET m == Resigned(Admin, Placeholder(seed))
     IN  /\ SetManifest(Admin, m)
         /\ meta' = [meta EXCEPT ![Admin] = [man |-> m, chans |-> {}]]
  /\ UNCHANGED <<chans, gossip, fetch, removing, sync, made, calls, bounds>>

(* community_join, with an invite the admin signed: refused if the community
   is known; a placeholder in memory and on disk, and a request to a peer that
   is already connected, if there is one. *)
CommunityJoin(n, seed) ==
  /\ n \in Users /\ Call
  /\ calls > 0 \/ comm[Admin] # None
  /\ comm[n] = None
  /\ SetManifest(n, Placeholder(seed))
  /\ \E s \in Nodes : FetchManifest(n, s)
  /\ UNCHANGED <<chans, meta, gossip, removing, sync, made, bounds>>

(* community_update_manifest, up to the broadcast: for those in admin_ids,
   which a placeholder leaves empty.  The NodeStore is not written. *)
UpdateManifest(seed) ==
  LET m == [Resigned(Admin, comm[Admin]) EXCEPT !.seed = seed]
  IN  /\ Call
      /\ comm[Admin] # None /\ comm[Admin].ver > 0
      /\ SetManifest(Admin, m)
      /\ Publish(Admin, <<Update(Admin, m)>>)
      /\ UNCHANGED <<chans, meta, fetch, removing, made, bounds>>

(* The seed is kept or removed, or it changes and its fingerprint is given:
   then all of the community is pushed to it. *)
UpdateAccepted(seed) ==
  /\ UpdateManifest(seed)
  /\ IF seed /\ ~comm[Admin].seed
     THEN sync' = [st |-> "join", man |-> comm'[Admin]]
     ELSE UNCHANGED sync

(* The seed changes and no fingerprint is given: the call fails. *)
UpdateRejected ==
  /\ UpdateManifest(TRUE)
  /\ ~comm[Admin].seed
  /\ UNCHANGED sync

(* channel_create: for any user that knows the community. *)
ChannelCreate(n, c) ==
  LET m == [Resigned(n, comm[n]) EXCEPT !.chans = @ \cup {c}]
  IN  /\ n \in Users /\ c \notin made /\ Call
      /\ comm[n] # None
      /\ made' = made \cup {c}
      /\ chans' = [chans EXCEPT ![n] = @ \cup {c}]
      /\ SetManifest(n, m)
      /\ SetMeta(n, m, meta[n].chans \cup {c})
      /\ Publish(n, <<Update(n, m), Channels({c})>>)
      /\ UNCHANGED <<fetch, removing, sync, bounds>>

(* channel_delete: the NodeStore loses the channel and keeps the manifest that
   still lists it. *)
ChannelDelete(n, c) ==
  LET m == [Resigned(n, comm[n]) EXCEPT !.chans = @ \ {c}]
  IN  /\ n \in Users /\ c \in chans[n] /\ Call
      /\ comm[n] # None
      /\ chans' = [chans EXCEPT ![n] = @ \ {c}]
      /\ SetManifest(n, m)
      /\ SetMeta(n, meta[n].man, meta[n].chans \ {c})
      /\ Publish(n, <<Update(n, m)>>)
      /\ UNCHANGED <<fetch, removing, sync, made, bounds>>

(* channel_reorder: a new order of the same channels. *)
ChannelReorder(n) ==
  LET m == Resigned(n, comm[n])
  IN  /\ n \in Users /\ Call
      /\ comm[n] # None
      /\ SetManifest(n, m)
      /\ SetMeta(n, m, meta[n].chans)
      /\ Publish(n, <<Update(n, m)>>)
      /\ UNCHANGED <<chans, fetch, removing, sync, made, bounds>>
-----------------------------------------------------------------------------
(* community_leave: the community's channels are collected and its manifest
   removed; the rest of remove_community_local follows. *)
CommunityLeave(n) ==
  /\ n \in Users /\ Idle(n) /\ Call
  /\ comm[n] # None
  /\ SetManifest(n, None)
  /\ removing' = [removing EXCEPT ![n] = [pc |-> "dropping", chans |-> chans[n]]]
  /\ UNCHANGED <<chans, meta, gossip, fetch, sync, made, bounds>>

(* community_delete: the tombstone is made in memory only, and broadcast ... *)
CommunityDelete ==
  LET m == [Resigned(Admin, comm[Admin]) EXCEPT !.del = TRUE]
  IN  /\ Idle(Admin) /\ Call
      /\ comm[Admin] # None /\ comm[Admin].ver > 0
      /\ comm' = [comm EXCEPT ![Admin] = m]
      /\ Publish(Admin, <<Update(Admin, m)>>)
      /\ removing' = [removing EXCEPT ![Admin] = [pc |-> "marked", chans |-> {}]]
      /\ UNCHANGED <<disk, chans, meta, fetch, sync, made, bounds>>

(* ... then remove_community_local drops the manifest ... *)
RemoveManifest(n) ==
  /\ removing[n].pc = "marked"
  /\ SetManifest(n, None)
  /\ removing' = [removing EXCEPT ![n] = [pc |-> "dropping", chans |-> chans[n]]]
  /\ UNCHANGED <<chans, meta, gossip, fetch, sync, made, calls, bounds>>

RemoveRestKeepsMeta(n) ==
  /\ removing[n].pc = "dropping"
  /\ chans' = [chans EXCEPT ![n] = @ \ removing[n].chans]
  /\ removing' = [removing EXCEPT ![n] = IdleRemoval]
  /\ UNCHANGED <<comm, disk, meta, gossip, fetch, sync, made, calls, bounds>>

(* ... and, other tasks running in between, the channels collected before and
   the NodeStore's copy. *)
RemoveRest(n) ==
  /\ removing[n].pc = "dropping"
  /\ chans' = [chans EXCEPT ![n] = @ \ removing[n].chans]
  /\ meta' = [meta EXCEPT ![n] = None]
  /\ removing' = [removing EXCEPT ![n] = IdleRemoval]
  /\ UNCHANGED <<comm, disk, gossip, fetch, sync, made, calls, bounds>>

RemoveLocalUnsaved(n) ==
  /\ comm' = [comm EXCEPT ![n] = None]
  /\ UNCHANGED disk
  /\ chans' = [chans EXCEPT ![n] = {}]
  /\ meta' = [meta EXCEPT ![n] = None]

(* remove_community_local within one event of the event processor. *)
RemoveLocal(n) ==
  /\ SetManifest(n, None)
  /\ chans' = [chans EXCEPT ![n] = {}]
  /\ meta' = [meta EXCEPT ![n] = None]
-----------------------------------------------------------------------------
NextEvent(n, type) ==
  gossip[n] # <<>> /\ Head(gossip[n]).type = type

TakeEvent(n) ==
  gossip' = [gossip EXCEPT ![n] = Tail(@)]

AcceptsAnySigner(n, m) ==
  comm[n] # None /\ m.ver > comm[n].ver

(* A ManifestUpdate is applied if it verifies, the community is known and its
   version is newer. *)
Accepts(n, m) ==
  Verifies(m) /\ comm[n] # None /\ m.ver > comm[n].ver

(* handle_community_message, ManifestUpdate: a tombstone removes the
   community; any other newer manifest replaces the three copies, the channels
   it drops are removed, and the sender is asked for the channel manifests. *)
HandleUpdate(n) ==
  /\ NextEvent(n, "ManifestUpdate")
  /\ TakeEvent(n)
  /\ LET m == Head(gossip[n]).man
         s == Head(gossip[n]).src
     IN  \/ /\ Accepts(n, m) /\ m.del
            /\ RemoveLocal(n)
            /\ UNCHANGED fetch
         \/ /\ Accepts(n, m) /\ ~m.del
            /\ SetManifest(n, m)
            /\ SetMeta(n, m, meta[n].chans)
            /\ chans' = [chans EXCEPT ![n] = @ \ (comm[n].chans \ m.chans)]
            /\ FetchManifest(n, s)
         \/ /\ ~Accepts(n, m)
            /\ UNCHANGED <<copies, fetch>>
  /\ UNCHANGED <<removing, sync, made, calls, bounds>>

(* handle_community_message, ChannelManifestBroadcast: kept if the community is
   known, whatever its manifest lists. *)
HandleChannel(n) ==
  /\ NextEvent(n, "ChannelManifestBroadcast")
  /\ TakeEvent(n)
  /\ LET cs == Head(gossip[n]).chans
     IN  IF comm[n] # None
         THEN /\ chans' = [chans EXCEPT ![n] = @ \cup cs]
              /\ SetMeta(n, meta[n].man, meta[n].chans \cup cs)
         ELSE UNCHANGED <<chans, meta>>
  /\ UNCHANGED <<comm, disk, fetch, removing, sync, made, calls, bounds>>

(* handle_community_joined: a node that has a CommunityMeta and does not know
   the community loads the stored manifest, or a placeholder it does not save. *)
HandleJoined(n) ==
  /\ NextEvent(n, "CommunityJoined")
  /\ TakeEvent(n)
  /\ IF meta[n] # None /\ comm[n] = None
     THEN IF meta[n].man # None
          THEN SetManifest(n, meta[n].man)
          ELSE /\ comm' = [comm EXCEPT ![n] = Placeholder(FALSE)]
               /\ UNCHANGED disk
     ELSE UNCHANGED <<comm, disk>>
  /\ UNCHANGED <<chans, meta, fetch, removing, sync, made, calls, bounds>>
-----------------------------------------------------------------------------
(* handle_join_community on s, for a certificate of the admin: an empty
   CommunityMeta if there is none, and CommunityJoined for its event loop. *)
HostedMeta(s) ==
  IF meta[s] = None THEN [man |-> None, chans |-> {}] ELSE meta[s]

JoinAt(s) ==
  /\ meta' = [meta EXCEPT ![s] = HostedMeta(s)]
  /\ gossip' = [gossip EXCEPT ![s] = Append(@, CommunityJoined)]

(* The seed of the manifest is connected: the admin joins it to the community,
   and the node asks it for the manifest. *)
SeedPeerConnected(n) ==
  /\ n \in Users /\ connects < MaxConnects
  /\ comm[n] # None /\ comm[n].seed
  /\ connects' = connects + 1
  /\ IF n = Admin THEN JoinAt(Seed) ELSE UNCHANGED <<meta, gossip>>
  /\ FetchManifest(n, Seed)
  /\ UNCHANGED <<comm, disk, chans, removing, sync, made, calls, faults>>

(* A peer found in the DHT is connected.  handle_peer_connected asks it for
   the manifest; the admin joined it to the community while dialing, and
   publishes its manifest and the channels it holds again. *)
PeerConnected(n, s) ==
  /\ <<n, s>> \in PeerDials /\ connects < MaxConnects
  /\ comm[n] # None
  /\ connects' = connects + 1
  /\ FetchManifest(n, s)
  /\ IF n = Admin
     THEN /\ meta' = [meta EXCEPT ![s] = HostedMeta(s)]
          /\ gossip' = [o \in Nodes |->
               IF o = n THEN gossip[o]
               ELSE gossip[o] \o (IF o = s THEN <<CommunityJoined>> ELSE <<>>)
                      \o <<Update(n, comm[n]), Channels(comm[n].chans \cap chans[n])>>]
     ELSE UNCHANGED <<meta, gossip>>
  /\ UNCHANGED <<comm, disk, chans, removing, sync, made, calls, faults>>
-----------------------------------------------------------------------------
ServeManifestNull(n) ==
  /\ fetch[n].st = "asked"
  /\ LET s == fetch[n].from
     IN  fetch' = [fetch EXCEPT ![n] =
           IF meta[s] # None
           THEN [st |-> "answered", man |-> meta[s].man, chans |-> {}]
           ELSE IdleTask]
  /\ UNCHANGED <<copies, gossip, removing, sync, made, calls, bounds>>

(* FetchManifest on the peer: the stored manifest and its live channels, or
   404 when it has none. *)
ServeManifest(n) ==
  /\ fetch[n].st = "asked"
  /\ LET s == fetch[n].from
     IN  fetch' = [fetch EXCEPT ![n] =
           IF meta[s] # None /\ meta[s].man # None
           THEN [st |-> "answered", man |-> meta[s].man,
                 chans |-> meta[s].chans \cap meta[s].man.chans]
           ELSE IdleTask]
  /\ UNCHANGED <<copies, gossip, removing, sync, made, calls, bounds>>

(* The peer is not in the outbound table or does not answer. *)
FetchFails(n) ==
  /\ fetch[n].st = "asked"
  /\ fetch' = [fetch EXCEPT ![n] = IdleTask]
  /\ UNCHANGED <<copies, gossip, removing, sync, made, calls, bounds>>

(* handle_manifest_received: a manifest that verifies replaces the three
   copies whatever its version and whether or not the community is still
   known; channels it does not list are evicted. *)
HandleManifest(n) ==
  /\ fetch[n].st = "answered"
  /\ fetch' = [fetch EXCEPT ![n] = IdleTask]
  /\ LET m == fetch[n].man
         cs == fetch[n].chans
     IN  \/ /\ Verifies(m) /\ m.del
            /\ RemoveLocal(n)
         \/ /\ Verifies(m) /\ ~m.del
            /\ SetManifest(n, m)
            /\ chans' = [chans EXCEPT ![n] = (@ \cup cs) \cap m.chans]
            /\ meta' = [meta EXCEPT ![n] = [man |-> m, chans |-> cs]]
         \/ /\ ~Verifies(m)
            /\ UNCHANGED copies
  /\ UNCHANGED <<gossip, removing, sync, made, calls, bounds>>

(* sync_community_to_seed: the new seed is joined to the community ... *)
SyncJoin ==
  /\ sync.st = "join"
  /\ JoinAt(Seed)
  /\ sync' = [sync EXCEPT !.st = "push"]
  /\ UNCHANGED <<comm, disk, chans, fetch, removing, made, calls, bounds>>

(* ... and gets the manifest of the call with the channels held now; its
   PushManifest handler writes the NodeStore and nothing else. *)
SyncPush ==
  /\ sync.st = "push"
  /\ meta' = [meta EXCEPT ![Seed] = [man |-> sync.man,
                                    chans |-> sync.man.chans \cap chans[Admin]]]
  /\ sync' = IdleTask
  /\ UNCHANGED <<comm, disk, chans, gossip, fetch, removing, made, calls, bounds>>

(* A step of the sync fails: the rest of it is skipped. *)
SyncFails ==
  /\ sync.st # "idle"
  /\ sync' = IdleTask
  /\ UNCHANGED <<copies, gossip, fetch, removing, made, calls, bounds>>
-----------------------------------------------------------------------------
(* A restart loses tasks, calls and events; AppState::new loads the tables and
   adds what only the NodeStore has. *)
Restart(n) ==
  /\ faults < MaxFaults
  /\ faults' = faults + 1
  /\ LET stored == meta[n] # None /\ meta[n].man # None
     IN  /\ comm' = [comm EXCEPT ![n] =
                       IF disk[n] # None THEN disk[n]
                       ELSE IF stored THEN meta[n].man ELSE None]
         /\ chans' = [chans EXCEPT ![n] = IF stored THEN @ \cup meta[n].chans ELSE @]
  /\ gossip' = [gossip EXCEPT ![n] = <<>>]
  /\ fetch' = [fetch EXCEPT ![n] = IdleTask]
  /\ removing' = [removing EXCEPT ![n] = IdleRemoval]
  /\ sync' = IF n = Admin THEN IdleTask ELSE sync
  /\ UNCHANGED <<disk, meta, made, calls, connects>>

(* A push is lost with the connection that carried it. *)
EventLost(n) ==
  /\ faults < MaxFaults
  /\ gossip[n] # <<>> /\ Head(gossip[n]).type # "CommunityJoined"
  /\ faults' = faults + 1
  /\ TakeEvent(n)
  /\ UNCHANGED <<copies, fetch, removing, sync, made, calls, connects>>

Calls ==
  \/ \E seed \in BOOLEAN : CommunityCreate(seed)
  \/ \E n \in Users, seed \in BOOLEAN : CommunityJoin(n, seed)
  \/ \E seed \in BOOLEAN : UpdateAccepted(seed)
  \/ UpdateRejected
  \/ \E n \in Users, c \in Chans : ChannelCreate(n, c)
  \/ \E n \in Users, c \in Chans : ChannelDelete(n, c)
  \/ \E n \in Users : ChannelReorder(n)
  \/ \E n \in Users : CommunityLeave(n)
  \/ CommunityDelete
  \/ \E n \in Users : RemoveManifest(n) \/ RemoveRest(n)

EventProcessor(n) ==
  \/ HandleUpdate(n)
  \/ HandleChannel(n)
  \/ HandleJoined(n)
  \/ HandleManifest(n)

Network ==
  \/ \E n \in Users : SeedPeerConnected(n)
  \/ \E n, s \in Nodes : PeerConnected(n, s)
  \/ \E n \in Nodes : ServeManifest(n) \/ FetchFails(n)
  \/ SyncJoin \/ SyncPush \/ SyncFails
  \/ \E n \in Nodes : Restart(n) \/ EventLost(n)

Next ==
  \/ Calls
  \/ \E n \in Nodes : EventProcessor(n)
  \/ Network

Spec == Init /\ [][Next]_vars
-----------------------------------------------------------------------------
(* What a node keeps or serves is a placeholder, a manifest the creator signed,
   or one it re-signed itself: channel_create and channel_reorder let any user
   sign, but what anyone else than the creator signed is refused by every
   other node, through gossip and through FetchManifest alike. *)
OnlyCreatorSigned ==
  \A n \in Nodes :
    /\ comm[n] # None => comm[n].by \in {None, Admin, n}
    /\ disk[n] # None => disk[n].by \in {None, Admin, n}
    /\ meta[n] # None /\ meta[n].man # None => meta[n].man.by \in {Admin, n}

(* Except for a tombstone, which community_delete makes in memory only, and
   for a community that is not saved at all, communities.json holds the
   manifest in memory: a crash after any step loses no edit and brings back no
   older one. *)
DiskHoldsManifest ==
  \A n \in Nodes :
    /\ disk[n] # None => comm[n] # None /\ (comm[n] = disk[n] \/ comm[n].del)
    /\ comm[n] # None => comm[n] = disk[n] \/ comm[n].del \/ disk[n] = None

(* Once remove_community_local is through, a restart of the user's node does
   not bring the community back from the NodeStore, whatever gossip, answers
   and JoinCommunity requests reached it in between. *)
RestartKeepsRemoval ==
  [][\A n \in Users :
       faults' # faults /\ comm[n] = None /\ removing[n].pc = "idle"
         => comm'[n] = None]_vars
=============================================================================
