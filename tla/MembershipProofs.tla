--------------------------- MODULE MembershipProofs ---------------------------
(***************************************************************************)
(* Proofs about Membership, for every set of users and every bound.        *)
(*                                                                         *)
(* RolesGranted and SeedNeverListed are proved together.  A list is good   *)
(* when it shows only granted roles and does not list the seed; an event   *)
(* is good when a list it carries is good and a role it carries has been   *)
(* granted, an answer when its list is good.  That all lists, queues and   *)
(* tasks are made of good ones is the inductive invariant; it says of the  *)
(* queues what neither property does: a MemberRoleUpdated on its way names *)
(* a role an admin gave.                                                   *)
(***************************************************************************)
EXTENDS Membership, TLAPS

GoodLists == {l \in Lists : l[Seed] = None /\ RolesOf(l)}

GoodEvents ==
  {e \in Events :
     /\ e.type = "MemberJoined" => e.recs \in GoodLists
     /\ e.type = "MemberRoleUpdated" => <<e.user, e.role>> \in granted}

GoodTasks == [from : {Creator, Seed}, answer : GoodLists \cup {None}]

GoodState ==
  /\ members \in [Nodes -> GoodLists]
  /\ store \in [Nodes -> GoodLists \cup {None}]
  /\ gossip \in [Nodes -> Seq(GoodEvents)]
  /\ fetch \in [Nodes -> SUBSET GoodTasks]

Rest ==
  /\ known \in [Nodes -> BOOLEAN]
  /\ bans \in [Nodes -> SUBSET Nodes]
  /\ link \in [Users -> BOOLEAN]
  /\ granted \in SUBSET (Nodes \X Roles)
  /\ gone \in SUBSET Nodes
  /\ calls \in 0 .. MaxCalls
  /\ peers \in 0 .. MaxPeers
  /\ faults \in 0 .. MaxFaults

IInv ==
  /\ Rest
  /\ <<Creator, "Admin">> \in granted
  /\ GoodState
-----------------------------------------------------------------------------
(* Sequences over a smaller set are sequences over a larger one. *)
LEMMA SeqMonotonic ==
  ASSUME NEW S, NEW T, S \subseteq T
  PROVE  Seq(S) \subseteq Seq(T)
  OBVIOUS

(* The seed is a node and not a user. *)
LEMMA NodesOf ==
  /\ Creator \in Users /\ Seed \in Nodes /\ Seed \notin Users
  /\ Users \subseteq Nodes
  BY ConstantsAssumption DEF Users, Nodes

(* The empty list is good. *)
LEMMA NobodyGood == Nobody \in GoodLists
  BY NodesOf DEF Nobody, GoodLists, Lists, RolesOf

(* A record signed with a role shows that role. *)
LEMMA SignedType ==
  ASSUME NEW role \in Roles
  PROVE  Signed(role) \in Records /\ Signed(role).role = role
  BY DEF Signed, Records

(* A record of a granted role may be put in the list of a user. *)
LEMMA PutGood ==
  ASSUME NEW l \in GoodLists, NEW u \in Users, NEW r \in Records,
         r.role = "Member" \/ <<u, r.role>> \in granted
  PROVE  [l EXCEPT ![u] = r] \in GoodLists
  BY NodesOf, ConstantsAssumption DEF GoodLists, Lists, RolesOf

(* Removing a user keeps a list good. *)
LEMMA DropGood ==
  ASSUME NEW l \in GoodLists, NEW u \in Nodes
  PROVE  [l EXCEPT ![u] = None] \in GoodLists
  BY NodesOf DEF GoodLists, Lists, RolesOf

(* Merging lists and dropping what handle_member_joined does not admit. *)
LEMMA UpsertGood ==
  ASSUME NEW a \in GoodLists, NEW b \in GoodLists
  PROVE  Upsert(a, b) \in GoodLists
  BY NodesOf DEF Upsert, GoodLists, Lists, RolesOf

(* The records a node admits from a good list are a good list. *)
LEMMA AdmittedGood ==
  ASSUME NEW n \in Nodes, NEW b \in GoodLists
  PROVE  Admitted(n, b) \in GoodLists
  BY NodesOf DEF Admitted, GoodLists, Lists, RolesOf

(* What users, and the role a user may show, are in a good list. *)
LEMMA ListedIsUser ==
  ASSUME NEW l \in GoodLists, NEW u \in Nodes, l[u] # None
  PROVE  /\ u \in Users
         /\ l[u] \in Records
         /\ l[u].role = "Member" \/ <<u, l[u].role>> \in granted
  BY DEF GoodLists, Lists, RolesOf, Nodes

(* Publishing a good event keeps the queues good. *)
LEMMA PublishGood ==
  ASSUME GoodState, NEW n, NEW e \in GoodEvents, Publish(n, e)
  PROVE  gossip' \in [Nodes -> Seq(GoodEvents)]
  <1>1. \A o \in Nodes : gossip[o] \in Seq(GoodEvents) /\ Append(gossip[o], e) \in Seq(GoodEvents)
    BY DEF GoodState
  <1> QED  BY <1>1 DEF Publish

(* A MemberJoined that carries a good list is good. *)
LEMMA JoinedGood ==
  ASSUME NEW l \in GoodLists
  PROVE  [type |-> "MemberJoined", recs |-> l] \in GoodEvents
  BY DEF GoodEvents, Events, GoodLists

(* Every MemberLeft is good. *)
LEMMA LeftGood ==
  ASSUME NEW u \in Nodes, NEW by \in Nodes
  PROVE  [type |-> "MemberLeft", user |-> u, by |-> by] \in GoodEvents
  BY DEF GoodEvents, Events

(* Every ManifestUpdate is good. *)
LEMMA UpdateEventGood == [type |-> "ManifestUpdate"] \in GoodEvents
  BY DEF GoodEvents, Events

(* A request without an answer is good. *)
LEMMA FetchManifestGood ==
  ASSUME GoodState, NEW n \in Nodes, NEW s \in {Creator, Seed}, FetchManifest(n, s)
  PROVE  fetch' \in [Nodes -> SUBSET GoodTasks]
  <1>1. [from |-> s, answer |-> None] \in GoodTasks
    BY DEF GoodTasks
  <1> QED  BY <1>1 DEF GoodState, FetchManifest

(* The head of a queue is a good event, and taking it leaves good events. *)
LEMMA QueueGood ==
  ASSUME GoodState, NEW n \in Nodes, gossip[n] # <<>>
  PROVE  /\ Head(gossip[n]) \in GoodEvents
         /\ [gossip EXCEPT ![n] = Tail(@)] \in [Nodes -> Seq(GoodEvents)]
  <1>1. gossip[n] \in Seq(GoodEvents)
    BY DEF GoodState
  <1>2. Head(gossip[n]) \in GoodEvents /\ Tail(gossip[n]) \in Seq(GoodEvents)
    BY <1>1
  <1> QED  BY <1>2 DEF GoodState

(* The fields of each kind of event. *)
LEMMA EventFields ==
  ASSUME NEW e \in GoodEvents
  PROVE  /\ e.type = "MemberJoined" => e.recs \in GoodLists
         /\ e.type = "MemberLeft" => e.user \in Nodes /\ e.by \in Nodes
         /\ e.type = "MemberRoleUpdated" =>
              /\ e.user \in Nodes /\ e.by \in Nodes /\ e.role \in Roles
              /\ <<e.user, e.role>> \in granted
  <1>1. CASE e \in [type : {"MemberJoined"}, recs : Lists]
    BY <1>1 DEF GoodEvents
  <1>2. CASE e \in [type : {"MemberLeft"}, user : Nodes, by : Nodes]
    BY <1>2 DEF GoodEvents
  <1>3. CASE e \in [type : {"MemberRoleUpdated"}, user : Nodes, role : Roles, by : Nodes]
    BY <1>3 DEF GoodEvents
  <1>4. CASE e \in [type : {"ManifestUpdate"}]
    BY <1>4 DEF GoodEvents
  <1> QED  BY <1>1, <1>2, <1>3, <1>4 DEF GoodEvents, Events

(* What is good stays so while no role is granted, and when one is. *)
LEMMA GoodKept ==
  ASSUME UNCHANGED granted
  PROVE  GoodLists' = GoodLists /\ GoodEvents' = GoodEvents /\ GoodTasks' = GoodTasks
  BY DEF GoodLists, GoodEvents, GoodTasks, RolesOf

(* Granting a role keeps good what was good. *)
LEMMA GoodGrows ==
  ASSUME granted \subseteq granted'
  PROVE  /\ GoodLists \subseteq GoodLists'
         /\ GoodEvents \subseteq GoodEvents'
         /\ GoodTasks \subseteq GoodTasks'
  <1>1. GoodLists \subseteq GoodLists'
    BY DEF GoodLists, RolesOf
  <1>2. GoodEvents \subseteq GoodEvents'
    BY <1>1 DEF GoodEvents
  <1>3. GoodTasks \subseteq GoodTasks'
    BY <1>1 DEF GoodTasks
  <1> QED  BY <1>1, <1>2, <1>3

(* A state made of good things is well typed. *)
LEMMA GoodTyped ==
  ASSUME IInv
  PROVE  TypeOK
  <1>1. GoodLists \subseteq Lists /\ GoodEvents \subseteq Events /\ GoodTasks \subseteq Tasks
    BY DEF GoodLists, GoodEvents, GoodTasks, Tasks
  <1>2. Seq(GoodEvents) \subseteq Seq(Events)
    BY <1>1, SeqMonotonic
  <1> QED  BY <1>1, <1>2 DEF IInv, Rest, GoodState, TypeOK

(* A step that grants no role and writes good things only. *)
LEMMA StepGood ==
  ASSUME IInv, UNCHANGED granted, Rest',
         members' \in [Nodes -> GoodLists],
         store' \in [Nodes -> GoodLists \cup {None}],
         gossip' \in [Nodes -> Seq(GoodEvents)],
         fetch' \in [Nodes -> SUBSET GoodTasks]
  PROVE  IInv'
  BY GoodKept DEF IInv, GoodState

(* The initial state: the creator's record, signed with the role Admin. *)
THEOREM InitGood == Init => IInv
  <1> SUFFICES ASSUME Init PROVE IInv
    OBVIOUS
  <1> DEFINE created == [Nobody EXCEPT ![Creator] = Signed("Admin")]
  <1>1. <<Creator, "Admin">> \in granted /\ "Admin" \in Roles
    BY DEF Init, Roles
  <1>2. created \in GoodLists
    BY <1>1, NodesOf, NobodyGood, SignedType, PutGood
  <1>3. /\ members = [n \in Nodes |-> IF n \in {Creator, Seed} THEN created ELSE Nobody]
        /\ store = [n \in Nodes |-> IF n \in {Creator, Seed} THEN created ELSE None]
    BY DEF Init
  <1> HIDE DEF created
  <1>4. GoodState
    <2>1. <<>> \in Seq(GoodEvents)
      OBVIOUS
    <2> QED  BY <1>2, <1>3, <2>1, NobodyGood DEF Init, GoodState
  <1>5. Rest
    BY <1>1, NodesOf, ConstantsAssumption DEF Init, Rest
  <1> QED  BY <1>1, <1>4, <1>5 DEF IInv
-----------------------------------------------------------------------------
(* community_join and community_leave. *)
LEMMA CommunityJoinGood ==
  ASSUME IInv, NEW n \in Users, CommunityJoin(n)
  PROVE  IInv'
  <1> DEFINE r == Signed("Member")
  <1>0. GoodState /\ Rest /\ n \in Nodes
    BY NodesOf DEF IInv
  <1>1. r \in Records /\ r.role = "Member"
    BY SignedType DEF Roles
  <1>2. /\ members' = [members EXCEPT ![n][n] = r]
        /\ Publish(n, [type |-> "MemberJoined", recs |-> [Nobody EXCEPT ![n] = r]])
    BY DEF CommunityJoin, Joined
  <1> HIDE DEF r
  <1>3. members' \in [Nodes -> GoodLists]
    <2>1. [members[n] EXCEPT ![n] = r] \in GoodLists
      BY <1>0, <1>1, PutGood DEF GoodState
    <2> QED  BY <1>0, <1>2, <2>1 DEF GoodState
  <1>4. gossip' \in [Nodes -> Seq(GoodEvents)]
    <2>1. [Nobody EXCEPT ![n] = r] \in GoodLists
      BY <1>1, NobodyGood, PutGood
    <2> QED  BY <1>0, <1>2, <2>1, JoinedGood, PublishGood
  <1>5. fetch' \in [Nodes -> SUBSET GoodTasks]
    <2>1. CASE link[n]
      BY <1>0, <2>1, FetchManifestGood DEF CommunityJoin
    <2>2. CASE ~link[n]
      BY <1>0, <2>2 DEF CommunityJoin, GoodState
    <2> QED  BY <2>1, <2>2
  <1>6. Rest' /\ UNCHANGED <<granted, store>>
    BY <1>0, ConstantsAssumption DEF CommunityJoin, Call, history, Rest
  <1> QED  BY <1>0, <1>3, <1>4, <1>5, <1>6, StepGood DEF GoodState

(* community_leave empties the list and the store. *)
LEMMA CommunityLeaveGood ==
  ASSUME IInv, NEW n \in Users, CommunityLeave(n)
  PROVE  IInv'
  <1>0. GoodState /\ Rest /\ n \in Nodes
    BY NodesOf DEF IInv
  <1>1. members' \in [Nodes -> GoodLists] /\ store' \in [Nodes -> GoodLists \cup {None}]
    BY <1>0, NobodyGood DEF CommunityLeave, GoodState
  <1>2. gossip' \in [Nodes -> Seq(GoodEvents)]
    BY <1>0, LeftGood, PublishGood DEF CommunityLeave
  <1>3. Rest' /\ UNCHANGED <<granted, fetch>>
    BY <1>0, ConstantsAssumption DEF CommunityLeave, Call, Rest
  <1> QED  BY <1>0, <1>1, <1>2, <1>3, StepGood DEF GoodState

(* member_kick and member_ban. *)
LEMMA ExpelGood ==
  ASSUME IInv, NEW n \in Users, NEW u \in Users, Expel(n, u),
         bans' \in [Nodes -> SUBSET Nodes]
  PROVE  IInv'
  <1>0. GoodState /\ Rest /\ n \in Nodes /\ u \in Nodes
    BY NodesOf DEF IInv
  <1>1. members' \in [Nodes -> GoodLists]
    <2>1. [members[n] EXCEPT ![u] = None] \in GoodLists
      BY <1>0, DropGood DEF GoodState
    <2> QED  BY <1>0, <2>1 DEF Expel, GoodState
  <1>2. gossip' \in [Nodes -> Seq(GoodEvents)]
    BY <1>0, LeftGood, PublishGood DEF Expel
  <1>3. Rest' /\ UNCHANGED <<granted, store, fetch>>
    BY <1>0, ConstantsAssumption DEF Expel, Call, Rest
  <1> QED  BY <1>0, <1>1, <1>2, <1>3, StepGood DEF GoodState

(* member_update_role: the one call that grants a role. *)
LEMMA MemberUpdateRoleGood ==
  ASSUME IInv, NEW n \in Users, NEW u \in Users, NEW role \in Roles,
         MemberUpdateRole(n, u, role)
  PROVE  IInv'
  <1> DEFINE e == [type |-> "MemberRoleUpdated", user |-> u, role |-> role, by |-> n]
             r == [members[n][u] EXCEPT !.role = role]
  <1>0. GoodState /\ Rest /\ n \in Nodes /\ u \in Nodes
    BY NodesOf DEF IInv
  <1>1. granted \subseteq granted' /\ <<u, role>> \in granted'
    BY DEF MemberUpdateRole
  <1>2. /\ GoodLists \subseteq GoodLists' /\ GoodTasks \subseteq GoodTasks'
        /\ Seq(GoodEvents) \subseteq Seq(GoodEvents')
    BY <1>1, GoodGrows, SeqMonotonic
  <1>3. members' \in [Nodes -> GoodLists']
    <2>1. members[n][u] \in Records
      BY <1>0, ListedIsUser DEF GoodState, MemberUpdateRole
    <2>2. r \in Records /\ r.role = role
      BY <2>1 DEF Records
    <2>3. members' = [members EXCEPT ![n][u] = r]
      BY <1>0 DEF MemberUpdateRole, GoodState
    <2>4. members[n] \in GoodLists'
      BY <1>0, <1>2 DEF GoodState
    <2> HIDE DEF r
    <2>5. [members[n] EXCEPT ![u] = r] \in GoodLists'
      BY <1>0, <1>1, <2>2, <2>4, NodesOf, ConstantsAssumption DEF GoodLists, Lists, RolesOf
    <2> QED  BY <1>0, <1>2, <2>3, <2>5 DEF GoodState
  <1>4. gossip' \in [Nodes -> Seq(GoodEvents')]
    <2>1. e \in GoodEvents'
      BY <1>0, <1>1 DEF GoodEvents, Events
    <2>2. Publish(n, e)
      BY DEF MemberUpdateRole
    <2> HIDE DEF e
    <2>3. \A o \in Nodes : gossip[o] \in Seq(GoodEvents') /\ Append(gossip[o], e) \in Seq(GoodEvents')
      BY <1>0, <1>2, <2>1 DEF GoodState
    <2> QED  BY <2>2, <2>3 DEF Publish
  <1>5. /\ store' \in [Nodes -> GoodLists' \cup {None}]
        /\ fetch' \in [Nodes -> SUBSET GoodTasks']
    BY <1>0, <1>2 DEF GoodState, MemberUpdateRole
  <1>6. Rest'
    BY <1>0, ConstantsAssumption DEF MemberUpdateRole, Call, Rest
  <1>7. <<Creator, "Admin">> \in granted'
    BY <1>1 DEF IInv
  <1> QED  BY <1>3, <1>4, <1>5, <1>6, <1>7 DEF IInv, GoodState

(* Steps that publish one good event and change no list or task. *)
LEMMA EditManifestGood ==
  ASSUME IInv, EditManifest
  PROVE  IInv'
  <1>0. GoodState /\ Rest
    BY DEF IInv
  <1>1. gossip' \in [Nodes -> Seq(GoodEvents)]
    BY <1>0, UpdateEventGood, PublishGood DEF EditManifest
  <1>2. Rest' /\ UNCHANGED <<granted, members, store, fetch>>
    BY <1>0, ConstantsAssumption DEF EditManifest, Call, Rest, lists, history
  <1> QED  BY <1>0, <1>1, <1>2, StepGood DEF GoodState

(* The creator publishes its own list again, which is good. *)
LEMMA PeerConnectedGood ==
  ASSUME IInv, PeerConnected
  PROVE  IInv'
  <1>0. GoodState /\ Rest /\ members[Creator] \in GoodLists
    BY NodesOf DEF IInv, GoodState
  <1>1. gossip' \in [Nodes -> Seq(GoodEvents)]
    BY <1>0, JoinedGood, PublishGood DEF PeerConnected
  <1>2. Rest' /\ UNCHANGED <<granted, members, store, fetch>>
    BY <1>0, ConstantsAssumption DEF PeerConnected, Rest, lists, history
  <1> QED  BY <1>0, <1>1, <1>2, StepGood DEF GoodState
-----------------------------------------------------------------------------
(* handle_member_joined. *)
LEMMA HandleMemberJoinedGood ==
  ASSUME IInv, NEW n \in Nodes, HandleMemberJoined(n)
  PROVE  IInv'
  <1> DEFINE recs == Admitted(n, Head(gossip[n]).recs)
             old == IF store[n] = None THEN Nobody ELSE store[n]
  <1>0. GoodState /\ Rest /\ gossip[n] # <<>>
    BY DEF IInv, HandleMemberJoined, NextEvent
  <1>1. gossip' \in [Nodes -> Seq(GoodEvents)] /\ Head(gossip[n]).recs \in GoodLists
    BY <1>0, QueueGood, EventFields DEF HandleMemberJoined, NextEvent, TakeEvent
  <1>2. recs \in GoodLists /\ old \in GoodLists /\ members[n] \in GoodLists
    BY <1>0, <1>1, AdmittedGood, NobodyGood DEF GoodState
  <1>3. /\ members' = [members EXCEPT ![n] = Upsert(members[n], recs)]
        /\ store' = store \/ store' = [store EXCEPT ![n] = Upsert(old, recs)]
    BY <1>0 DEF HandleMemberJoined, GoodState
  <1> HIDE DEF recs, old
  <1>4. members' \in [Nodes -> GoodLists] /\ store' \in [Nodes -> GoodLists \cup {None}]
    BY <1>0, <1>2, <1>3, UpsertGood DEF GoodState
  <1>5. Rest' /\ UNCHANGED <<granted, fetch>>
    BY <1>0 DEF HandleMemberJoined, Rest, history
  <1> QED  BY <1>0, <1>1, <1>4, <1>5, StepGood DEF GoodState

(* handle_member_left. *)
LEMMA HandleMemberLeftGood ==
  ASSUME IInv, NEW n \in Nodes, HandleMemberLeft(n)
  PROVE  IInv'
  <1> DEFINE u == Head(gossip[n]).user
  <1>0. GoodState /\ Rest /\ gossip[n] # <<>>
    BY DEF IInv, HandleMemberLeft, NextEvent
  <1>1. gossip' \in [Nodes -> Seq(GoodEvents)] /\ u \in Nodes
    BY <1>0, QueueGood, EventFields DEF HandleMemberLeft, NextEvent, TakeEvent
  <1>2. /\ members' = members \/ members' = [members EXCEPT ![n][u] = None]
        /\ store' = store \/ (store[n] # None /\ store' = [store EXCEPT ![n][u] = None])
    BY DEF HandleMemberLeft
  <1> HIDE DEF u
  <1>3. members' \in [Nodes -> GoodLists]
    <2>1. [members[n] EXCEPT ![u] = None] \in GoodLists
      BY <1>0, <1>1, DropGood DEF GoodState
    <2> QED  BY <1>0, <1>2, <2>1 DEF GoodState
  <1>4. store' \in [Nodes -> GoodLists \cup {None}]
    <2>1. store[n] # None => [store[n] EXCEPT ![u] = None] \in GoodLists
      BY <1>0, <1>1, DropGood DEF GoodState
    <2> QED  BY <1>0, <1>2, <2>1 DEF GoodState
  <1>5. Rest' /\ UNCHANGED <<granted, fetch>>
    BY <1>0 DEF HandleMemberLeft, Rest, history
  <1> QED  BY <1>0, <1>1, <1>3, <1>4, <1>5, StepGood DEF GoodState

(* handle_member_role_updated: the role on its way has been granted. *)
LEMMA HandleMemberRoleUpdatedGood ==
  ASSUME IInv, NEW n \in Nodes, HandleMemberRoleUpdated(n)
  PROVE  IInv'
  <1> DEFINE e == Head(gossip[n])
             r == [members[n][e.user] EXCEPT !.role = e.role]
  <1>0. GoodState /\ Rest /\ gossip[n] # <<>>
    BY DEF IInv, HandleMemberRoleUpdated, NextEvent
  <1>1. /\ gossip' \in [Nodes -> Seq(GoodEvents)]
        /\ e.user \in Nodes /\ e.role \in Roles /\ <<e.user, e.role>> \in granted
    BY <1>0, QueueGood, EventFields DEF HandleMemberRoleUpdated, NextEvent, TakeEvent
  <1>2. members' \in [Nodes -> GoodLists]
    <2>1. CASE members' = members
      BY <1>0, <2>1 DEF GoodState
    <2>2. CASE /\ members[n][e.user] # None
               /\ members' = [members EXCEPT ![n][e.user] = [@ EXCEPT !.role = e.role]]
      <3> HIDE DEF e
      <3>1. members[n] \in GoodLists
        BY <1>0 DEF GoodState
      <3>2. e.user \in Users /\ members[n][e.user] \in Records
        BY <1>1, <2>2, <3>1, ListedIsUser
      <3>3. r \in Records /\ r.role = e.role
        BY <1>1, <3>2 DEF Records
      <3>4. members' = [members EXCEPT ![n] = [members[n] EXCEPT ![e.user] = r]]
        BY <1>0, <1>1, <2>2, <3>1 DEF GoodState, GoodLists, Lists
      <3> HIDE DEF r
      <3>5. [members[n] EXCEPT ![e.user] = r] \in GoodLists
        BY <1>1, <3>1, <3>2, <3>3, PutGood
      <3> QED  BY <1>0, <3>4, <3>5 DEF GoodState
    <2> QED  BY <2>1, <2>2 DEF HandleMemberRoleUpdated
  <1>3. Rest' /\ UNCHANGED <<granted, store, fetch>>
    BY <1>0 DEF HandleMemberRoleUpdated, Rest, history
  <1> QED  BY <1>0, <1>1, <1>2, <1>3, StepGood DEF GoodState

(* A ManifestUpdate leads to a request. *)
LEMMA HandleManifestUpdateGood ==
  ASSUME IInv, NEW n \in Nodes, HandleManifestUpdate(n)
  PROVE  IInv'
  <1>0. GoodState /\ Rest /\ gossip[n] # <<>>
    BY DEF IInv, HandleManifestUpdate, NextEvent
  <1>1. gossip' \in [Nodes -> Seq(GoodEvents)]
    BY <1>0, QueueGood DEF HandleManifestUpdate, TakeEvent
  <1>2. fetch' \in [Nodes -> SUBSET GoodTasks]
    <2>1. CASE known[n]
      BY <1>0, <2>1, FetchManifestGood DEF HandleManifestUpdate
    <2>2. CASE ~known[n]
      BY <1>0, <2>2 DEF HandleManifestUpdate, GoodState
    <2> QED  BY <2>1, <2>2
  <1>3. Rest' /\ UNCHANGED <<granted, members, store>>
    BY <1>0 DEF HandleManifestUpdate, Rest, history, lists
  <1> QED  BY <1>0, <1>1, <1>2, <1>3, StepGood DEF GoodState
-----------------------------------------------------------------------------
(* FetchManifest: a request, and the answer with the peer's stored list. *)
LEMMA SeedPeerConnectedGood ==
  ASSUME IInv, NEW n \in Users, SeedPeerConnected(n)
  PROVE  IInv'
  <1>0. GoodState /\ Rest /\ n \in Nodes
    BY NodesOf DEF IInv
  <1>1. fetch' \in [Nodes -> SUBSET GoodTasks]
    BY <1>0, FetchManifestGood DEF SeedPeerConnected
  <1>2. Rest' /\ UNCHANGED <<granted, members, store, gossip>>
    BY <1>0 DEF SeedPeerConnected, Rest, history, lists
  <1> QED  BY <1>0, <1>1, <1>2, StepGood DEF GoodState

(* An answer carries the peer's stored list, which is good. *)
LEMMA ServeManifestGood ==
  ASSUME IInv, NEW n \in Nodes, ServeManifest(n)
  PROVE  IInv'
  <1>0. GoodState /\ Rest
    BY DEF IInv
  <1>1. PICK t \in fetch[n] :
          fetch' = [fetch EXCEPT ![n] = (@ \ {t}) \cup
                      (IF store[t.from] = None THEN {}
                       ELSE {[t EXCEPT !.answer = store[t.from]]})]
    BY DEF ServeManifest
  <1>2. t \in GoodTasks /\ t.from \in Nodes
    BY <1>0, NodesOf DEF GoodState, GoodTasks
  <1>3. store[t.from] # None => [t EXCEPT !.answer = store[t.from]] \in GoodTasks
    BY <1>0, <1>2 DEF GoodState, GoodTasks
  <1>4. fetch' \in [Nodes -> SUBSET GoodTasks]
    BY <1>0, <1>1, <1>3 DEF GoodState
  <1>5. Rest' /\ UNCHANGED <<granted, members, store, gossip>>
    BY <1>0 DEF ServeManifest, Rest, history, lists
  <1> QED  BY <1>0, <1>4, <1>5, StepGood DEF GoodState

(* handle_manifest_received: the role a node signs for itself is Admin if it is
   the creator's, and otherwise one it finds in the merged list. *)
LEMMA HandleManifestGood ==
  ASSUME IInv, NEW n \in Nodes, HandleManifest(n)
  PROVE  IInv'
  <1>0. GoodState /\ Rest
    BY DEF IInv
  <1>1. PICK t \in fetch[n] :
          /\ t.answer # None
          /\ known' = [known EXCEPT ![n] = TRUE]
          /\ Announce(n, Upsert(members[n], t.answer), t.answer)
          /\ fetch' = [fetch EXCEPT ![n] = @ \ {t}]
    BY DEF HandleManifest
  <1> DEFINE list == Upsert(members[n], t.answer)
             own == IF list[n] = None THEN None ELSE Signed(SelfRole(n, list))
             self == [Nobody EXCEPT ![n] = own]
             recs == Admitted(n, self)
  <1>2. t.answer \in GoodLists /\ list \in GoodLists
    <2>1. t.answer \in GoodLists /\ members[n] \in GoodLists
      BY <1>0, <1>1 DEF GoodState, GoodTasks
    <2> QED  BY <2>1, UpsertGood
  <1>3. /\ members' = [members EXCEPT ![n] = Upsert(list, recs)]
        /\ store' = [store EXCEPT ![n] = Upsert(t.answer, recs)]
        /\ \/ UNCHANGED gossip
           \/ Publish(n, [type |-> "MemberJoined", recs |-> self])
    BY <1>1 DEF Announce
  <1> HIDE DEF list
  <1>4. self \in GoodLists
    <2>1. CASE list[n] = None
      <3>1. self = [Nobody EXCEPT ![n] = None]
        BY <2>1
      <3> HIDE DEF self
      <3> QED  BY <3>1, NobodyGood, DropGood
    <2>2. CASE list[n] # None
      <3>1. /\ n \in Users /\ list[n].role \in Roles
            /\ list[n].role = "Member" \/ <<n, list[n].role>> \in granted
        BY <1>2, <2>2, ListedIsUser DEF Records
      <3>2. /\ SelfRole(n, list) \in Roles
            /\ SelfRole(n, list) = "Member" \/ <<n, SelfRole(n, list)>> \in granted
        BY <3>1 DEF SelfRole, Roles, IInv
      <3>3. own = Signed(SelfRole(n, list))
        BY <2>2
      <3>4. own \in Records /\ (own.role = "Member" \/ <<n, own.role>> \in granted)
        BY <3>2, <3>3, SignedType
      <3> HIDE DEF own
      <3> QED  BY <3>1, <3>4, NobodyGood, PutGood
    <2> QED  BY <2>1, <2>2
  <1> HIDE DEF own, self
  <1>5. recs \in GoodLists
    BY <1>4, AdmittedGood
  <1> HIDE DEF recs
  <1>6. members' \in [Nodes -> GoodLists] /\ store' \in [Nodes -> GoodLists \cup {None}]
    BY <1>0, <1>2, <1>3, <1>5, UpsertGood DEF GoodState
  <1>7. gossip' \in [Nodes -> Seq(GoodEvents)]
    <2>1. CASE UNCHANGED gossip
      BY <1>0, <2>1 DEF GoodState
    <2>2. CASE Publish(n, [type |-> "MemberJoined", recs |-> self])
      BY <1>0, <1>4, <2>2, JoinedGood, PublishGood
    <2> QED  BY <1>3, <2>1, <2>2
  <1>8. fetch' \in [Nodes -> SUBSET GoodTasks]
    BY <1>0, <1>1 DEF GoodState
  <1>9. Rest' /\ UNCHANGED granted
    BY <1>0 DEF HandleManifest, Rest, history
  <1> QED  BY <1>6, <1>7, <1>8, <1>9, StepGood
-----------------------------------------------------------------------------
(* Lost links and restarts. *)
LEMMA LinkDownGood ==
  ASSUME IInv, NEW n \in Users, LinkDown(n)
  PROVE  IInv'
  <1>0. GoodState /\ Rest
    BY DEF IInv
  <1>1. fetch' \in [Nodes -> SUBSET GoodTasks]
    BY <1>0 DEF LinkDown, Answered, GoodState
  <1>2. Rest' /\ UNCHANGED <<granted, members, store, gossip>>
    BY <1>0, ConstantsAssumption DEF LinkDown, Fault, Rest, history, lists
  <1> QED  BY <1>0, <1>1, <1>2, StepGood DEF GoodState

(* A restart merges the list and the store, which are both good. *)
LEMMA RestartGood ==
  ASSUME IInv, NEW n \in Nodes, Restart(n)
  PROVE  IInv'
  <1> DEFINE st == IF known[n] /\ store[n] # None
                   THEN Upsert(members[n], store[n]) ELSE store[n]
             l == IF st = None THEN members[n] ELSE Upsert(st, members[n])
  <1>0. GoodState /\ Rest /\ members[n] \in GoodLists
    BY DEF IInv, GoodState
  <1>1. st \in GoodLists \cup {None}
    BY <1>0, UpsertGood DEF GoodState
  <1>2. /\ store' = [store EXCEPT ![n] = st]
        /\ members' = [members EXCEPT ![n] = l]
    BY <1>0 DEF Restart, GoodState
  <1> HIDE DEF st
  <1>3. l \in GoodLists
    BY <1>0, <1>1, UpsertGood
  <1> HIDE DEF l
  <1>4. members' \in [Nodes -> GoodLists] /\ store' \in [Nodes -> GoodLists \cup {None}]
    BY <1>0, <1>1, <1>2, <1>3 DEF GoodState
  <1>5. gossip' \in [Nodes -> Seq(GoodEvents)]
    <2>1. <<>> \in Seq(GoodEvents)
      OBVIOUS
    <2> QED  BY <1>0, <2>1 DEF Restart, GoodState
  <1>6. fetch' \in [Nodes -> SUBSET GoodTasks]
    BY <1>0 DEF Restart, Answered, GoodState
  <1>7. Rest' /\ UNCHANGED granted
    <2>1. link' \in [Users -> BOOLEAN]
      BY <1>0 DEF Restart, Rest
    <2> QED  BY <1>0, <2>1, ConstantsAssumption DEF Restart, Fault, Rest, history
  <1> QED  BY <1>4, <1>5, <1>6, <1>7, StepGood
-----------------------------------------------------------------------------
(* Every step keeps lists, queues and answers good. *)
LEMMA NextGood ==
  ASSUME IInv, [Next]_vars
  PROVE  IInv'
  <1>1. ASSUME NEW n \in Users, CommunityJoin(n) \/ CommunityLeave(n) PROVE IInv'
    BY <1>1, CommunityJoinGood, CommunityLeaveGood
  <1>2. ASSUME NEW n \in Users, NEW u \in Users, MemberKick(n, u) PROVE IInv'
    <2>1. bans' \in [Nodes -> SUBSET Nodes]
      BY <1>2 DEF MemberKick, IInv, Rest
    <2> QED  BY <1>2, <2>1, ExpelGood DEF MemberKick
  <1>3. ASSUME NEW n \in Users, NEW u \in Users, MemberBan(n, u) PROVE IInv'
    <2>1. bans' \in [Nodes -> SUBSET Nodes]
      BY <1>3, NodesOf DEF MemberBan, IInv, Rest
    <2> QED  BY <1>3, <2>1, ExpelGood DEF MemberBan
  <1>4. ASSUME NEW n \in Users, NEW u \in Users, NEW role \in Roles,
               MemberUpdateRole(n, u, role)
        PROVE  IInv'
    BY <1>4, MemberUpdateRoleGood
  <1>5. ASSUME NEW n \in Nodes, EventProcessor(n) PROVE IInv'
    BY <1>5, HandleMemberJoinedGood, HandleMemberLeftGood, HandleMemberRoleUpdatedGood,
       HandleManifestUpdateGood, HandleManifestGood DEF EventProcessor
  <1>6. ASSUME NEW n \in Nodes, ServeManifest(n) \/ Restart(n) PROVE IInv'
    BY <1>6, ServeManifestGood, RestartGood
  <1>7. ASSUME NEW n \in Users, SeedPeerConnected(n) \/ LinkDown(n) PROVE IInv'
    BY <1>7, SeedPeerConnectedGood, LinkDownGood
  <1>8. CASE EditManifest \/ PeerConnected
    BY <1>8, EditManifestGood, PeerConnectedGood
  <1>9. CASE UNCHANGED vars
    <2>1. Rest' /\ UNCHANGED <<granted, members, store, gossip, fetch>>
      BY <1>9 DEF vars, lists, history, IInv, Rest
    <2> QED  BY <2>1, StepGood DEF IInv, GoodState
  <1> QED  BY <1>1, <1>2, <1>3, <1>4, <1>5, <1>6, <1>7, <1>8, <1>9 DEF Next

(* Lists, queues and answers are good in every reachable state. *)
THEOREM Inductive == Spec => []IInv
  <1>1. Init => IInv
    BY InitGood
  <1>2. IInv /\ [Next]_vars => IInv'
    BY NextGood
  <1> QED  BY <1>1, <1>2, PTL DEF Spec

(* Every reachable state of the membership protocol is well typed. *)
THEOREM TypeCorrect == Spec => []TypeOK
  <1>1. IInv => TypeOK
    BY GoodTyped
  <1> QED  BY <1>1, Inductive, PTL

(* No node lists, stores, is sent or is answered a role that no admin's
   member_update_role has given to that user. *)
THEOREM OnlyGrantedRoles == Spec => []RolesGranted
  <1>1. ASSUME IInv PROVE RolesGranted
    <2>1. ASSUME NEW n \in Nodes PROVE RolesOf(members[n])
      BY <1>1 DEF IInv, GoodState, GoodLists
    <2>2. ASSUME NEW n \in Nodes, store[n] # None PROVE RolesOf(store[n])
      BY <1>1, <2>2 DEF IInv, GoodState, GoodLists
    <2>3. ASSUME NEW n \in Nodes, NEW t \in fetch[n], t.answer # None
          PROVE  RolesOf(t.answer)
      BY <1>1, <2>3 DEF IInv, GoodState, GoodTasks, GoodLists
    <2>4. ASSUME NEW n \in Nodes, NEW i \in DOMAIN gossip[n],
                 gossip[n][i].type = "MemberJoined"
          PROVE  RolesOf(gossip[n][i].recs)
      <3>1. gossip[n][i] \in GoodEvents
        BY <1>1 DEF IInv, GoodState
      <3> QED  BY <2>4, <3>1 DEF GoodEvents, GoodLists
    <2> QED  BY <2>1, <2>2, <2>3, <2>4 DEF RolesGranted
  <1>2. IInv => RolesGranted
    BY <1>1
  <1> QED  BY <1>2, Inductive, PTL

(* A node that only hosts the community is in no member list. *)
THEOREM HostNotListed == Spec => []SeedNeverListed
  <1>1. IInv => SeedNeverListed
    BY DEF IInv, GoodState, GoodLists, SeedNeverListed
  <1> QED  BY <1>1, Inductive, PTL
===============================================================================
