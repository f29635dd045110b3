------------------------------ MODULE Membership ------------------------------
(***************************************************************************)
(* Who is a member of one community, with which role: the member_kick,      *)
(* member_ban and member_update_role calls (rpc_server/message.rs), joining *)
(* and leaving (rpc_server/community.rs), the MemberJoined, MemberLeft and  *)
(* MemberRoleUpdated gossip (community_handler.rs), and the member records  *)
(* that FetchManifest answers carry (manifest_handler.rs).                  *)
(*                                                                         *)
(* A node lists members in AppState.members, saved with every change, and   *)
(* in the CommunityMeta of its NodeStore, which FetchManifest serves.  The   *)
(* users reach each other through the seed; a user whose link to it is down  *)
(* misses what is published, and fetches the manifest when it is up again.   *)
(***************************************************************************)
EXTENDS Naturals, Sequences

CONSTANTS
  Creator,      \* the user whose key is the community's public_key
  Members,      \* the other users
  Seed,         \* the hosting node of the manifest's seed_nodes
  None,         \* no record, no CommunityMeta
  MaxCalls,     \* bound: JSON-RPC calls that change the membership
  MaxPeers,     \* bound: users that the creator finds in the DHT and dials
  MaxFaults     \* bound: restarts and lost links

Users == Members \cup {Creator}

Nodes == Users \cup {Seed}

Roles == {"Admin", "Moderator", "Member"}

(* MembershipRecord: the role it shows and the role its user's signature
   covers; name, keys and joined_at are left out. *)
Records == [role : Roles, sig : Roles]

Lists == [Nodes -> Records \cup {None}]

Events == [type : {"MemberJoined"}, recs : Lists]
            \cup [type : {"MemberLeft"}, user : Nodes, by : Nodes]
            \cup [type : {"MemberRoleUpdated"}, user : Nodes, role : Roles, by : Nodes]
            \cup [type : {"ManifestUpdate"}]

(* FetchManifest tasks: a request, and the member records of its answer. *)
Tasks == [from : {Creator, Seed}, answer : Lists \cup {None}]

ASSUME ConstantsAssumption ==
  /\ Creator # Seed /\ Creator \notin Members /\ Seed \notin Members
  /\ None \notin Nodes /\ None \notin Records /\ None \notin Lists
  /\ MaxCalls \in Nat /\ MaxPeers \in Nat /\ MaxFaults \in Nat

VARIABLES
  known,    \* [Nodes -> BOOLEAN]: AppState.communities has the community
  members,  \* [Nodes -> Lists]: AppState.members and members.json
  store,    \* [Nodes -> Lists or None]: members of the CommunityMeta
  bans,     \* [Nodes -> SUBSET Nodes]: AppState.bans and bans.json
  gossip,   \* [Nodes -> Seq(Events)]: events the processor has not handled
  link,     \* [Users -> BOOLEAN]: the user is connected to the seed
  fetch,    \* [Nodes -> SUBSET Tasks]: the FetchManifest tasks of a node
  granted,  \* (history) pairs <<user, role>> an admin's call has given
  gone,     \* (history) users that have left or been kicked or banned
  calls,    \* JSON-RPC calls so far
  peers,    \* peers dialed by the creator so far
  faults    \* restarts and lost links so far

lists == <<known, members, store>>
history == <<granted, gone>>
vars == <<lists, bans, gossip, link, fetch, history, calls, peers, faults>>

Nobody == [u \in Nodes |-> None]

Unsigned(role) == [role |-> role, sig |-> None]

Signed(role) == [role |-> role, sig |-> role]

TypeOK ==
  /\ known \in [Nodes -> BOOLEAN]
  /\ members \in [Nodes -> Lists]
  /\ store \in [Nodes -> Lists \cup {None}]
  /\ bans \in [Nodes -> SUBSET Nodes]
  /\ gossip \in [Nodes -> Seq(Events)]
  /\ link \in [Users -> BOOLEAN]
  /\ fetch \in [Nodes -> SUBSET Tasks]
  /\ granted \in SUBSET (Nodes \X Roles)
  /\ gone \in SUBSET Nodes
  /\ calls \in 0 .. MaxCalls
  /\ peers \in 0 .. MaxPeers
  /\ faults \in 0 .. MaxFaults

(* community_create has stored the creator's own record, and the seed hosts
   the community. *)
Init ==
  LET created == [Nobody EXCEPT ![Creator] = Signed("Admin")]
  IN  /\ known = [n \in Nodes |-> n \in {Creator, Seed}]
      /\ members = [n \in Nodes |-> IF n \in {Creator, Seed} THEN created ELSE Nobody]
      /\ store = [n \in Nodes |-> IF n \in {Creator, Seed} THEN created ELSE None]
      /\ bans = [n \in Nodes |-> {}]
      /\ gossip = [n \in Nodes |-> <<>>]
      /\ link = [n \in Users |-> n = Creator]
      /\ fetch = [n \in Nodes |-> {}]
      /\ granted = {<<Creator, "Admin">>}
      /\ gone = {}
      /\ calls = 0
      /\ peers = 0
      /\ faults = 0
-----------------------------------------------------------------------------
(* NetworkCommand::Publish: the seed relays to every user that is linked. *)
Publish(n, e) ==
  gossip' = [o \in Nodes |->
    IF n \in Users /\ link[n] /\ o # n /\ (o = Seed \/ link[o])
    THEN Append(gossip[o], e) ELSE gossip[o]]

Joined(u, r) == [type |-> "MemberJoined", recs |-> [Nobody EXCEPT ![u] = r]]

IsAdmin(r) == r # None /\ r.role = "Admin"

IsPrivileged(r) == r # None /\ r.role \in {"Admin", "Moderator"}

Call == calls < MaxCalls /\ calls' = calls + 1

(* NetworkCommand::FetchManifest; requests to the same peer that have no answer
   yet are one. *)
FetchManifest(n, s) ==
  fetch' = [fetch EXCEPT ![n] = @ \cup {[from |-> s, answer |-> None]}]

(* community_join: refused if the community is known or this node's own ban
   list names its user; the record is signed with the role Member, and the
   connected seed, if any, is asked for the manifest. *)
CommunityJoin(n) ==
  /\ Call
  /\ ~known[n] /\ n \notin bans[n]
  /\ known' = [known EXCEPT ![n] = TRUE]
  /\ members' = [members EXCEPT ![n][n] = Signed("Member")]
  /\ Publish(n, Joined(n, Signed("Member")))
  /\ IF link[n] THEN FetchManifest(n, Seed) ELSE UNCHANGED fetch
  /\ UNCHANGED <<store, bans, link, history, peers, faults>>

(* community_leave: MemberLeft, then remove_community_local, which keeps the
   ban list. *)
CommunityLeave(n) ==
  /\ Call
  /\ known[n]
  /\ Publish(n, [type |-> "MemberLeft", user |-> n, by |-> n])
  /\ known' = [known EXCEPT ![n] = FALSE]
  /\ members' = [members EXCEPT ![n] = Nobody]
  /\ store' = [store EXCEPT ![n] = None]
  /\ gone' = gone \cup {n}
  /\ UNCHANGED <<bans, link, fetch, granted, peers, faults>>

(* The target leaves the caller's list; the caller's NodeStore keeps it. *)
Expel(n, u) ==
  /\ Call
  /\ members[n][u] # None
  /\ members' = [members EXCEPT ![n][u] = None]
  /\ Publish(n, [type |-> "MemberLeft", user |-> u, by |-> n])
  /\ gone' = gone \cup {u}
  /\ UNCHANGED <<known, store, link, fetch, granted, peers, faults>>

(* member_kick, for admins and moderators. *)
MemberKick(n, u) ==
  /\ IsPrivileged(members[n][n])
  /\ Expel(n, u)
  /\ UNCHANGED bans

(* member_ban, for admins; the ban is recorded on this node only. *)
MemberBan(n, u) ==
  /\ IsAdmin(members[n][n])
  /\ Expel(n, u)
  /\ bans' = [bans EXCEPT ![n] = @ \cup {u}]

MemberUpdateRoleAnyone(n, u, role) ==
  /\ Call
  /\ members[n][n] # None /\ members[n][u] # None
  /\ ~(known[n] /\ u = Creator)
  /\ members' = [members EXCEPT ![n][u] = [@ EXCEPT !.role = role]]
  /\ granted' = IF IsAdmin(members[n][n]) THEN granted \cup {<<u, role>>} ELSE granted
  /\ Publish(n, [type |-> "MemberRoleUpdated", user |-> u, role |-> role, by |-> n])
  /\ UNCHANGED <<known, store, bans, link, fetch, gone, peers, faults>>

(* member_update_role, for admins; the creator's role is refused where the
   community is known.  The user's signature still covers the old role, and
   the NodeStore keeps the old record. *)
MemberUpdateRole(n, u, role) ==
  /\ Call
  /\ IsAdmin(members[n][n]) /\ members[n][u] # None
  /\ ~(known[n] /\ u = Creator)
  /\ members' = [members EXCEPT ![n][u] = [@ EXCEPT !.role = role]]
  /\ granted' = granted \cup {<<u, role>>}
  /\ Publish(n, [type |-> "MemberRoleUpdated", user |-> u, role |-> role, by |-> n])
  /\ UNCHANGED <<known, store, bans, link, fetch, gone, peers, faults>>

(* An edit of the manifest by the creator, which is published. *)
EditManifest ==
  /\ Call
  /\ known[Creator]
  /\ Publish(Creator, [type |-> "ManifestUpdate"])
  /\ UNCHANGED <<lists, bans, link, fetch, history, peers, faults>>
-----------------------------------------------------------------------------
NextEvent(n, type) ==
  gossip[n] # <<>> /\ Head(gossip[n]).type = type

TakeEvent(n) ==
  gossip' = [gossip EXCEPT ![n] = Tail(@)]

(* handle_member_joined takes a record whose signature covers its role and
   whose user is not in this node's ban list. *)
Admits(n, u, r) == r # None /\ r.role = r.sig /\ u \notin bans[n]

Upsert(list, recs) ==
  [u \in Nodes |-> IF recs[u] # None THEN recs[u] ELSE list[u]]

Admitted(n, recs) ==
  [u \in Nodes |-> IF Admits(n, u, recs[u]) THEN recs[u] ELSE None]

(* handle_member_joined, for the records the creator publishes together: the
   NodeStore is written if the community is known, and gets a CommunityMeta if
   it has none. *)
HandleMemberJoined(n) ==
  /\ NextEvent(n, "MemberJoined")
  /\ TakeEvent(n)
  /\ LET recs == Admitted(n, Head(gossip[n]).recs)
     IN  /\ members' = [members EXCEPT ![n] = Upsert(@, recs)]
         /\ store' = IF known[n] /\ recs # Nobody
                     THEN [store EXCEPT ![n] = Upsert(IF @ = None THEN Nobody ELSE @, recs)]
                     ELSE store
  /\ UNCHANGED <<known, bans, link, fetch, history, calls, peers, faults>>

(* handle_member_left: signed by the user, or by one this node lists as admin
   or moderator. *)
HandleMemberLeft(n) ==
  /\ NextEvent(n, "MemberLeft")
  /\ TakeEvent(n)
  /\ LET u == Head(gossip[n]).user
         by == Head(gossip[n]).by
     IN  IF /\ members[n][by] # None /\ (by = u \/ IsPrivileged(members[n][by]))
            /\ members[n][u] # None
         THEN /\ members' = [members EXCEPT ![n][u] = None]
              /\ store' = IF known[n] /\ store[n] # None
                          THEN [store EXCEPT ![n][u] = None] ELSE store
         ELSE UNCHANGED <<members, store>>
  /\ UNCHANGED <<known, bans, link, fetch, history, calls, peers, faults>>

(* handle_member_role_updated: signed by one this node lists as admin; the
   NodeStore is not written. *)
HandleMemberRoleUpdated(n) ==
  /\ NextEvent(n, "MemberRoleUpdated")
  /\ TakeEvent(n)
  /\ LET e == Head(gossip[n])
     IN  members' = IF IsAdmin(members[n][e.by]) /\ members[n][e.user] # None
                    THEN [members EXCEPT ![n][e.user] = [@ EXCEPT !.role = e.role]]
                    ELSE members
  /\ UNCHANGED <<known, store, bans, link, fetch, history, calls, peers, faults>>
-----------------------------------------------------------------------------
(* ManifestUpdate, which is newer than what the node has: its sender is asked
   for the whole of the manifest. *)
HandleManifestUpdate(n) ==
  /\ NextEvent(n, "ManifestUpdate")
  /\ TakeEvent(n)
  /\ IF known[n] THEN FetchManifest(n, Creator) ELSE UNCHANGED fetch
  /\ UNCHANGED <<lists, bans, link, history, calls, peers, faults>>

SeedPeerConnectedNoFetch(n) ==
  /\ known[n] /\ ~link[n]
  /\ link' = [link EXCEPT ![n] = TRUE]
  /\ UNCHANGED <<lists, bans, gossip, fetch, history, calls, peers, faults>>

(* SeedPeerConnected: the link is up and the seed is asked for the manifest. *)
SeedPeerConnected(n) ==
  /\ known[n] /\ ~link[n]
  /\ link' = [link EXCEPT ![n] = TRUE]
  /\ FetchManifest(n, Seed)
  /\ UNCHANGED <<lists, bans, gossip, history, calls, peers, faults>>

(* handle_peer_connected on the creator's node, for a user found in the DHT:
   every record it lists is published again, whoever signed it. *)
PeerConnected ==
  /\ peers < MaxPeers
  /\ known[Creator]
  /\ peers' = peers + 1
  /\ Publish(Creator, [type |-> "MemberJoined", recs |-> members[Creator]])
  /\ UNCHANGED <<lists, bans, link, fetch, history, calls, faults>>

(* FetchManifest on the peer, which serves the records of its NodeStore, or
   answers 404 if it has no CommunityMeta. *)
ServeManifest(n) ==
  \E t \in fetch[n] :
    /\ t.answer = None
    /\ fetch' = [fetch EXCEPT ![n] = (@ \ {t}) \cup
                   (IF store[t.from] = None THEN {}
                    ELSE {[t EXCEPT !.answer = store[t.from]]})]
    /\ UNCHANGED <<lists, bans, gossip, link, history, calls, peers, faults>>

(* The role a node gives itself when it announces itself again: Admin if the
   manifest's admin_ids have its user, else the one it lists. *)
SelfRole(n, list) ==
  IF n = Creator THEN "Admin" ELSE list[n].role

AnnounceAlways(n, list, served) ==
  LET self == [Nobody EXCEPT ![n] = Signed(IF list[n] = None THEN "Member"
                                           ELSE SelfRole(n, list))]
      recs == Admitted(n, self)
  IN  /\ members' = [members EXCEPT ![n] = Upsert(list, recs)]
      /\ store' = [store EXCEPT ![n] = Upsert(served, recs)]
      /\ Publish(n, [type |-> "MemberJoined", recs |-> self])

(* A node that lists itself signs its record anew, stores it and publishes it;
   one that only hosts the community stays out of the list. *)
Announce(n, list, served) ==
  LET self == [Nobody EXCEPT ![n] = IF list[n] = None THEN None
                                    ELSE Signed(SelfRole(n, list))]
      recs == Admitted(n, self)
  IN  /\ members' = [members EXCEPT ![n] = Upsert(list, recs)]
      /\ store' = [store EXCEPT ![n] = Upsert(served, recs)]
      /\ IF list[n] = None THEN UNCHANGED gossip
         ELSE Publish(n, [type |-> "MemberJoined", recs |-> self])

(* handle_manifest_received: the records served replace those of the NodeStore
   and are put over those of the list, unverified and banned or not; a
   community that was left is known again. *)
HandleManifest(n) ==
  \E t \in fetch[n] :
    /\ t.answer # None
    /\ known' = [known EXCEPT ![n] = TRUE]
    /\ Announce(n, Upsert(members[n], t.answer), t.answer)
    /\ fetch' = [fetch EXCEPT ![n] = @ \ {t}]
    /\ UNCHANGED <<bans, link, history, calls, peers, faults>>
-----------------------------------------------------------------------------
Answered(tasks) == {t \in tasks : t.answer # None}

Fault == faults < MaxFaults /\ faults' = faults + 1

(* The link to the seed is lost, and with it a request that has no answer. *)
LinkDown(n) ==
  /\ Fault
  /\ link[n]
  /\ link' = [link EXCEPT ![n] = FALSE]
  /\ fetch' = [fetch EXCEPT ![n] = Answered(@)]
  /\ UNCHANGED <<lists, bans, gossip, history, calls, peers>>

(* A restart loses events and tasks, and links; AppState::new adds the listed
   records that the NodeStore lacks to it, then those it has to the list. *)
Restart(n) ==
  /\ Fault
  /\ LET st == IF known[n] /\ store[n] # None
               THEN Upsert(members[n], store[n]) ELSE store[n]
     IN  /\ store' = [store EXCEPT ![n] = st]
         /\ members' = [members EXCEPT ![n] = IF st = None THEN @ ELSE Upsert(st, @)]
  /\ gossip' = [gossip EXCEPT ![n] = <<>>]
  /\ link' = [u \in Users |-> n # Seed /\ u # n /\ link[u]]
  /\ fetch' = [u \in Nodes |-> IF u = n THEN {}
                               ELSE IF n = Seed THEN Answered(fetch[u]) ELSE fetch[u]]
  /\ UNCHANGED <<known, bans, history, calls, peers>>

EventProcessor(n) ==
  \/ HandleMemberJoined(n)
  \/ HandleMemberLeft(n)
  \/ HandleMemberRoleUpdated(n)
  \/ HandleManifestUpdate(n)
  \/ HandleManifest(n)

Next ==
  \/ \E n \in Users : CommunityJoin(n) \/ CommunityLeave(n)
  \/ \E n, u \in Users : MemberKick(n, u) \/ MemberBan(n, u)
  \/ \E n, u \in Users, role \in Roles : MemberUpdateRole(n, u, role)
  \/ \E n \in Nodes : EventProcessor(n) \/ ServeManifest(n)
  \/ \E n \in Users : SeedPeerConnected(n) \/ LinkDown(n)
  \/ EditManifest \/ PeerConnected
  \/ \E n \in Nodes : Restart(n)

Spec == Init /\ [][Next]_vars

(* The event processor and the tasks run; a user that knows the community
   keeps dialing its seed. *)
FairSpec ==
  /\ Spec
  /\ \A n \in Nodes : WF_vars(EventProcessor(n)) /\ WF_vars(ServeManifest(n))
  /\ \A n \in Users : WF_vars(SeedPeerConnected(n))
-----------------------------------------------------------------------------
RolesOf(list) == \A u \in Nodes :
  list[u] # None => list[u].role = "Member" \/ <<u, list[u].role>> \in granted

(* No node lists, serves or is sent a role that no admin has given to that
   user, however records are re-signed by handle_manifest_received, put over
   others unverified, published again by the creator, or merged at a restart. *)
RolesGranted ==
  /\ \A n \in Nodes : RolesOf(members[n])
  /\ \A n \in Nodes : store[n] # None => RolesOf(store[n])
  /\ \A n \in Nodes : \A t \in fetch[n] : t.answer # None => RolesOf(t.answer)
  /\ \A n \in Nodes : \A i \in DOMAIN gossip[n] :
       gossip[n][i].type = "MemberJoined" => RolesOf(gossip[n][i].recs)

(* "Hosting-only relay/seed nodes that received the manifest via FetchManifest
   should NOT appear in the member list" (manifest_handler.rs): of no node. *)
SeedNeverListed ==
  \A n \in Nodes :
    members[n][Seed] = None /\ (store[n] # None => store[n][Seed] = None)

(* A user that joins, and neither leaves nor is kicked or banned, comes to be
   listed by the seed, though community_join publishes MemberJoined before it
   dials the seed, and whatever links and nodes fail in between: the manifest
   fetched on the next connection makes it announce itself again. *)
JoinerReachesSeed ==
  \A n \in Members : known[n] ~> members[Seed][n] # None \/ n \in gone
=============================================================================
