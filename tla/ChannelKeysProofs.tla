-------------------------- MODULE ChannelKeysProofs --------------------------
(* Theorems about ChannelKeys, for every value of its constants. *)
EXTENDS ChannelKeys, SequenceTheorems, TLAPS

USE ConstantsAssumption DEF NoKey

(* Gossip is well formed after a publication. *)
LEMMA PublishType ==
  ASSUME gossip \in [Nodes -> [Paths -> Seq(Events)]],
         NEW n \in Nodes, NEW e \in Events, Publish(n, e)
  PROVE  gossip' \in [Nodes -> [Paths -> Seq(Events)]]
BY DEF Publish

(* Taking the next gossip of a path leaves a queue of events. *)
LEMMA TakeGossipType ==
  ASSUME gossip \in [Nodes -> [Paths -> Seq(Events)]],
         NEW n \in Nodes, NEW p \in Paths, gossip[n][p] # <<>>, TakeGossip(n, p)
  PROVE  /\ gossip' \in [Nodes -> [Paths -> Seq(Events)]]
         /\ Head(gossip[n][p]) \in Events
<1>1. /\ Tail(gossip[n][p]) \in Seq(Events)
      /\ Head(gossip[n][p]) \in Events
  BY HeadTailProperties
<1>2. QED BY <1>1 DEF TakeGossip

(* What an event of each type carries. *)
LEMMA EventFields ==
  ASSUME NEW e \in Events
  PROVE  /\ e.type = "NewMessage" => e.id \in Msgs
         /\ e.type # "NewMessage" => e.ch \in Manifests
BY DEF Events

(* Asking for a manifest leaves a table of tasks. *)
LEMMA FetchManifestType ==
  ASSUME fetch \in [Fetchers -> Tasks],
         NEW n \in Nodes, NEW ps \in SUBSET Nodes, FetchManifest(n, ps)
  PROVE  fetch' \in [Fetchers -> Tasks]
<1> DEFINE free == {t \in Fetchers : fetch[t].st = "idle"}
<1>1. CASE ps = {} \/ free = {}
  BY <1>1 DEF FetchManifest
<1>2. CASE ~(ps = {} \/ free = {})
  <2>1. PICK s \in ps : fetch' = [fetch EXCEPT ![CHOOSE t \in free : TRUE] =
                                    [st |-> "asked", by |-> n, from |-> s]]
    BY <1>2 DEF FetchManifest
  <2>2. [st |-> "asked", by |-> n, from |-> s] \in Tasks
    BY DEF Tasks
  <2>3. QED BY <2>1, <2>2
<1>3. QED BY <1>1, <1>2

(* What a task that is not idle carries. *)
LEMMA TaskFields ==
  ASSUME NEW t \in Tasks
  PROVE  /\ t.st # "idle" => t.by \in Nodes /\ t.from \in Nodes
         /\ t.st = "answered" => t.ch \in Manifests
BY DEF Tasks

(* A node serves a well formed manifest. *)
LEMMA ServedManifestType ==
  ASSUME meta \in [Nodes -> [ch : Manifests, key : Keys \cup {NoKey}]],
         NEW s \in Nodes, NEW n \in Nodes
  PROVE  ServedManifest(s, n) \in Manifests
<1>1. meta[s].ch \in Manifests /\ meta[s].key \in Keys \cup {NoKey}
  OBVIOUS
<1>2. ASSUME NEW ch \in Manifests, NEW u \in Users, NEW k \in Keys
      PROVE  [ch EXCEPT !.wraps[u] = k] \in Manifests
  BY <1>2 DEF Manifests
<1>3. QED BY <1>1, <1>2 DEF ServedManifest

(* Delivery leaves a log of messages. *)
LEMMA DeliverType ==
  ASSUME log \in [Nodes -> Seq(Msgs)],
         NEW n \in Nodes, NEW m \in Msgs, Deliver(n, m)
  PROVE  log' \in [Nodes -> Seq(Msgs)]
BY DEF Deliver

(* Adopting a key leaves keys. *)
LEMMA AdoptKeyType ==
  ASSUME key \in [Nodes -> Keys \cup {NoKey}], prev \in [Nodes -> Keys \cup {NoKey}],
         NEW n \in Nodes, NEW k \in Keys, AdoptKey(n, k)
  PROVE  /\ key' \in [Nodes -> Keys \cup {NoKey}]
         /\ prev' \in [Nodes -> Keys \cup {NoKey}]
BY DEF AdoptKey

(* Replacing the stored manifest leaves a well formed store. *)
LEMMA MetaManifestType ==
  ASSUME meta \in [Nodes -> [ch : Manifests, key : Keys \cup {NoKey}]],
         NEW n \in Nodes, NEW ch \in Manifests,
         meta' = [meta EXCEPT ![n] = [@ EXCEPT !.ch = ch]]
  PROVE  meta' \in [Nodes -> [ch : Manifests, key : Keys \cup {NoKey}]]
<1>1. [meta[n] EXCEPT !.ch = ch] \in [ch : Manifests, key : Keys \cup {NoKey}]
  OBVIOUS
<1>2. QED BY <1>1

(* Initial states are well typed. *)
LEMMA InitType == Init => TypeOK
<1> SUFFICES ASSUME Init PROVE TypeOK
  OBVIOUS
<1>1. 1 \in Keys /\ FirstManifest \in Manifests
  BY DEF Keys, FirstManifest, Manifests
<1>2. IdleTask \in Tasks /\ IdleRot \in RotStates
  BY <1>1 DEF IdleTask, Tasks, IdleRot, RotStates
<1>3. QED BY <1>1, <1>2 DEF Init, TypeOK, Nodes

(* The two steps of message_send keep the types. *)
LEMMA SendType ==
  ASSUME TypeOK, NEW m \in Msgs, SendEncrypt(m) \/ SendPublish(m)
  PROVE  TypeOK'
<1>1. Author[m] \in Users /\ Author[m] \in Nodes
  BY DEF Nodes
<1>2. CASE SendEncrypt(m)
  BY <1>1, <1>2 DEF SendEncrypt, TypeOK, keyVars, bufVars, bounds
<1>3. CASE SendPublish(m)
  <2>1. [type |-> "NewMessage", id |-> m] \in Events
    BY DEF Events
  <2>2. gossip' \in [Nodes -> [Paths -> Seq(Events)]]
    BY <1>1, <1>3, <2>1, PublishType DEF SendPublish, TypeOK
  <2>3. log' \in [Nodes -> Seq(Msgs)]
    BY <1>1, <1>3 DEF SendPublish, TypeOK
  <2>4. QED BY <1>3, <2>2, <2>3 DEF SendPublish, TypeOK, keyVars, bufVars, bounds
<1>4. QED BY <1>2, <1>3

(* A rotation call moves on with another program counter, key or manifest. *)
LEMMA RotationMoves ==
  ASSUME NEW x \in RotStates, NEW k \in Keys, NEW ch \in Manifests
  PROVE  /\ [x EXCEPT !.pc = "wrap", !.key = k] \in RotStates
         /\ [x EXCEPT !.pc = "store", !.ch = ch] \in RotStates
         /\ [x EXCEPT !.pc = "announce"] \in RotStates
         /\ [x EXCEPT !.pc = "broadcast"] \in RotStates
<1>1. [x EXCEPT !.pc = "wrap", !.key = k] \in RotStates
  BY DEF RotStates
<1>2. [x EXCEPT !.pc = "store", !.ch = ch] \in RotStates
  BY DEF RotStates
<1>3. [x EXCEPT !.pc = "announce"] \in RotStates
  BY DEF RotStates
<1>4. [x EXCEPT !.pc = "broadcast"] \in RotStates
  BY DEF RotStates
<1>5. QED BY <1>1, <1>2, <1>3, <1>4

(* Replacing one rotation call leaves a table of rotation calls. *)
LEMMA RotationTable ==
  ASSUME rot \in [Rotators -> RotStates], NEW r \in Rotators, NEW x \in RotStates,
         rot' = [rot EXCEPT ![r] = x]
  PROVE  rot' \in [Rotators -> RotStates]
OBVIOUS

(* Every step of channel_rotate_key keeps the types. *)
LEMMA RotateType ==
  ASSUME TypeOK, NEW r \in Rotators, Rotate(r)
  PROVE  TypeOK'
<1> USE DEF keyVars, bufVars, msgVars, bounds
<1>0. /\ Admin \in Nodes
      /\ rot[r].key \in Keys
      /\ rot[r].ch \in Manifests
      /\ rot[r] \in RotStates
  BY DEF TypeOK, Nodes, Users, RotStates
<1>1. CASE RotateGenerate(r)
  <2>1. last + 1 \in Keys /\ last' \in Keys
    BY <1>1 DEF TypeOK, RotateGenerate, Keys
  <2>2. rot' \in [Rotators -> RotStates]
    <3>1. rot' = [rot EXCEPT ![r] = [rot[r] EXCEPT !.pc = "wrap", !.key = last + 1]]
      BY <1>1 DEF RotateGenerate
    <3>2. [rot[r] EXCEPT !.pc = "wrap", !.key = last + 1] \in RotStates
      BY <1>0, <2>1, RotationMoves
    <3>3. QED BY <3>1, <3>2, RotationTable DEF TypeOK
  <2>3. /\ key' \in [Nodes -> Keys \cup {NoKey}]
        /\ prev' \in [Nodes -> Keys \cup {NoKey}]
    BY <1>0, <1>1, <2>1, AdoptKeyType DEF TypeOK, RotateGenerate
  <2>4. QED BY <1>1, <2>1, <2>2, <2>3 DEF TypeOK, RotateGenerate
<1>2. CASE RotateWrap(r)
  <2> DEFINE ch == [version |-> chan[Admin].version + 1,
                    wraps |-> [u \in Users |-> rot[r].key]]
  <2>1. ch \in Manifests
    BY <1>0 DEF TypeOK, Manifests
  <2>2. rot' \in [Rotators -> RotStates]
    <3>1. rot' = [rot EXCEPT ![r] = [rot[r] EXCEPT !.pc = "store", !.ch = ch]]
      BY <1>2 DEF RotateWrap
    <3>2. [rot[r] EXCEPT !.pc = "store", !.ch = ch] \in RotStates
      BY <1>0, <2>1, RotationMoves
    <3>3. QED BY <3>1, <3>2, RotationTable DEF TypeOK
  <2>3. chan' \in [Nodes -> Manifests]
    BY <1>0, <1>2, <2>1 DEF TypeOK, RotateWrap
  <2>4. QED BY <1>2, <2>2, <2>3 DEF TypeOK, RotateWrap
<1>3. CASE RotateStore(r)
  <2>1. rot' \in [Rotators -> RotStates]
    <3>1. rot' = [rot EXCEPT ![r] = [rot[r] EXCEPT !.pc = "announce"]]
      BY <1>3 DEF RotateStore
    <3>2. [rot[r] EXCEPT !.pc = "announce"] \in RotStates
      BY <1>0, RotationMoves
    <3>3. QED BY <3>1, <3>2, RotationTable DEF TypeOK
  <2>2. meta' \in [Nodes -> [ch : Manifests, key : Keys \cup {NoKey}]]
    BY <1>0, <1>3 DEF TypeOK, RotateStore
  <2>3. QED BY <1>3, <2>1, <2>2 DEF TypeOK, RotateStore
<1>4. CASE RotateAnnounce(r)
  <2>1. [type |-> "ChannelKeyRotation", ch |-> rot[r].ch] \in Events
    BY <1>0 DEF Events
  <2>2. gossip' \in [Nodes -> [Paths -> Seq(Events)]]
    BY <1>0, <1>4, <2>1, PublishType DEF TypeOK, RotateAnnounce
  <2>3. rot' \in [Rotators -> RotStates]
    <3>1. rot' = [rot EXCEPT ![r] = [rot[r] EXCEPT !.pc = "broadcast"]]
      BY <1>4 DEF RotateAnnounce
    <3>2. [rot[r] EXCEPT !.pc = "broadcast"] \in RotStates
      BY <1>0, RotationMoves
    <3>3. QED BY <3>1, <3>2, RotationTable DEF TypeOK
  <2>4. QED BY <1>4, <2>2, <2>3 DEF TypeOK, RotateAnnounce
<1>5. CASE RotateBroadcast(r)
  <2>1. [type |-> "ChannelManifestBroadcast", ch |-> rot[r].ch] \in Events
    BY <1>0 DEF Events
  <2>2. gossip' \in [Nodes -> [Paths -> Seq(Events)]]
    BY <1>0, <1>5, <2>1, PublishType DEF TypeOK, RotateBroadcast
  <2>3. IdleRot \in RotStates
    BY DEF IdleRot, RotStates, FirstManifest, Manifests, Keys
  <2>4. rot' \in [Rotators -> RotStates]
    BY <1>5, <2>3 DEF TypeOK, RotateBroadcast
  <2>5. QED BY <1>5, <2>2, <2>4 DEF TypeOK, RotateBroadcast
<1>6. QED BY <1>1, <1>2, <1>3, <1>4, <1>5 DEF Rotate

(* The gossip handlers and the replay loop keep the types. *)
LEMMA EventProcessorType ==
  ASSUME TypeOK, NEW n \in Nodes, EventProcessor(n)
  PROVE  TypeOK'
<1> USE DEF keyVars, bufVars, msgVars, bounds
<1>1. ASSUME NEW p \in Paths, HandleNewMessage(n, p)
      PROVE  TypeOK'
  <2> DEFINE m == Head(gossip[n][p]).id
  <2>1. gossip[n][p] # <<>> /\ TakeGossip(n, p) /\ Head(gossip[n][p]).type = "NewMessage"
    BY <1>1 DEF HandleNewMessage, NextGossip
  <2>2. gossip' \in [Nodes -> [Paths -> Seq(Events)]] /\ m \in Msgs
    BY <2>1, TakeGossipType, EventFields DEF TypeOK
  <2>3. log' \in [Nodes -> Seq(Msgs)]
    <3>1. CASE Deliver(n, m)
      BY <2>2, <3>1, DeliverType DEF TypeOK
    <3>2. CASE UNCHANGED log
      BY <3>2 DEF TypeOK
    <3>3. QED BY <1>1, <3>1, <3>2 DEF HandleNewMessage
  <2>4. buffered' \in [Nodes -> Seq(Msgs)]
    <3>1. CASE buffered' = [buffered EXCEPT ![n] = Append(@, m)]
      BY <2>2, <3>1 DEF TypeOK
    <3>2. CASE UNCHANGED buffered
      BY <3>2 DEF TypeOK
    <3>3. QED BY <1>1, <3>1, <3>2 DEF HandleNewMessage
  <2>5. QED BY <1>1, <2>2, <2>3, <2>4 DEF TypeOK, HandleNewMessage
<1>2. ASSUME NEW p \in Paths, HandleRotation(n, p)
      PROVE  TypeOK'
  <2> DEFINE ch == Head(gossip[n][p]).ch
  <2>1. /\ gossip[n][p] # <<>> /\ TakeGossip(n, p)
        /\ Head(gossip[n][p]).type # "NewMessage"
    BY <1>2 DEF HandleRotation, NextGossip
  <2>2. gossip' \in [Nodes -> [Paths -> Seq(Events)]] /\ ch \in Manifests
    BY <2>1, TakeGossipType, EventFields DEF TypeOK
  <2>3. fetch' \in [Fetchers -> Tasks]
    <3>1. PreferredPeers(n) \in SUBSET Nodes
      BY DEF TypeOK, PreferredPeers, Nodes, Users
    <3>2. CASE FetchManifest(n, PreferredPeers(n))
      BY <3>1, <3>2, FetchManifestType DEF TypeOK
    <3>3. CASE UNCHANGED fetch
      BY <3>3 DEF TypeOK
    <3>4. QED BY <1>2, <3>2, <3>3 DEF HandleRotation
  <2>4. /\ chan' \in [Nodes -> Manifests]
        /\ meta' \in [Nodes -> [ch : Manifests, key : Keys \cup {NoKey}]]
        /\ rotating' \in [Nodes -> BOOLEAN]
    <3> HIDE DEF ch
    <3>1. CASE /\ chan' = [chan EXCEPT ![n] = ch]
               /\ meta' = [meta EXCEPT ![n] = [@ EXCEPT !.ch = ch]]
               /\ rotating' = [rotating EXCEPT ![n] = TRUE]
      BY <2>2, <3>1, MetaManifestType DEF TypeOK
    <3>2. CASE UNCHANGED <<chan, meta, rotating>>
      BY <3>2 DEF TypeOK
    <3>3. QED BY <1>2, <3>1, <3>2 DEF HandleRotation, OpenBuffer, ch
  <2>5. QED BY <1>2, <2>2, <2>3, <2>4 DEF TypeOK, HandleRotation, OpenBuffer
<1>3. ASSUME NEW p \in Paths, HandleBroadcast(n, p)
      PROVE  TypeOK'
  <2> DEFINE ch == Head(gossip[n][p]).ch
  <2>1. /\ gossip[n][p] # <<>> /\ TakeGossip(n, p)
        /\ Head(gossip[n][p]).type # "NewMessage"
    BY <1>3 DEF HandleBroadcast, NextGossip
  <2>2. gossip' \in [Nodes -> [Paths -> Seq(Events)]] /\ ch \in Manifests
    BY <2>1, TakeGossipType, EventFields DEF TypeOK
  <2>3. /\ key' \in [Nodes -> Keys \cup {NoKey}]
        /\ prev' \in [Nodes -> Keys \cup {NoKey}]
    <3>1. CASE n \in Users
      <4>1. ch.wraps[n] \in Keys
        BY <2>2, <3>1 DEF Manifests
      <4>2. QED BY <1>3, <3>1, <4>1, AdoptKeyType DEF TypeOK, HandleBroadcast
    <3>2. CASE n \notin Users
      BY <1>3, <3>2, SMTT(30) DEF TypeOK, HandleBroadcast
    <3>3. QED BY <3>1, <3>2
  <2>4. /\ chan' \in [Nodes -> Manifests]
        /\ meta' \in [Nodes -> [ch : Manifests, key : Keys \cup {NoKey}]]
    BY <1>3, <2>2, MetaManifestType DEF TypeOK, HandleBroadcast
  <2>5. QED BY <1>3, <2>2, <2>3, <2>4 DEF TypeOK, HandleBroadcast
<1>4. CASE ReplayMessage(n)
  <2>1. Head(replay[n]) \in Msgs /\ Tail(replay[n]) \in Seq(Msgs)
    BY <1>4, HeadTailProperties DEF TypeOK, ReplayMessage
  <2>2. log' \in [Nodes -> Seq(Msgs)]
    BY <1>4, <2>1, DeliverType DEF TypeOK, ReplayMessage
  <2>3. QED BY <1>4, <2>1, <2>2 DEF TypeOK, ReplayMessage
<1>5. CASE ReplayDone(n)
  BY <1>5 DEF TypeOK, ReplayDone
<1>6. QED BY <1>1, <1>2, <1>3, <1>4, <1>5 DEF EventProcessor

(* The answer to FetchManifest, served or handled, keeps the types. *)
LEMMA FetchType ==
  ASSUME TypeOK, NEW t \in Fetchers,
         ServeManifest(t) \/ HandleManifest(t) \/ FetchFails(t)
  PROVE  TypeOK'
<1> USE DEF keyVars, bufVars, msgVars, bounds
<1>0. /\ fetch[t] \in Tasks
      /\ IdleTask \in Tasks
      /\ [fetch EXCEPT ![t] = IdleTask] \in [Fetchers -> Tasks]
  BY SMTT(30) DEF TypeOK, Tasks, IdleTask
<1>1. CASE ServeManifest(t)
  <2>1. fetch[t].by \in Nodes /\ fetch[t].from \in Nodes
    BY <1>0, <1>1, TaskFields DEF ServeManifest
  <2>2. ServedManifest(fetch[t].from, fetch[t].by) \in Manifests
    BY <2>1, ServedManifestType DEF TypeOK
  <2>3. [st |-> "answered", by |-> fetch[t].by, from |-> fetch[t].from,
         ch |-> ServedManifest(fetch[t].from, fetch[t].by)] \in Tasks
    BY <2>1, <2>2 DEF Tasks
  <2>4. fetch' \in [Fetchers -> Tasks]
    BY <1>1, <2>3 DEF TypeOK, ServeManifest
  <2>5. QED BY <1>1, <2>4 DEF TypeOK, ServeManifest
<1>2. CASE HandleManifest(t)
  <2> DEFINE n == fetch[t].by
             ch == fetch[t].ch
             from == fetch[t].from
  <2>1. n \in Nodes /\ from \in Nodes /\ ch \in Manifests
    BY <1>0, <1>2, TaskFields DEF HandleManifest
  <2> HIDE DEF n, ch, from
  <2>2. connected' \in [Nodes -> SUBSET Nodes] /\ chan' \in [Nodes -> Manifests]
    <3>1. connected' \in [Nodes -> SUBSET Nodes]
      BY <1>2, <2>1 DEF TypeOK, HandleManifest, n, from
    <3>2. chan' \in [Nodes -> Manifests]
      BY <1>2, <2>1 DEF TypeOK, HandleManifest, n, ch
    <3>3. QED BY <3>1, <3>2
  <2>3. /\ key' \in [Nodes -> Keys \cup {NoKey}]
        /\ prev' \in [Nodes -> Keys \cup {NoKey}]
    <3>1. CASE n \in Members
      <4>1. ch.wraps[n] \in Keys
        BY <2>1, <3>1 DEF Manifests, Users
      <4>2. AdoptKey(n, ch.wraps[n])
        BY <1>2, <3>1 DEF HandleManifest, TakesKey, n, ch
      <4>3. QED BY <2>1, <4>1, <4>2, AdoptKeyType DEF TypeOK
    <3>2. CASE n \notin Members
      BY <1>2, <3>2 DEF TypeOK, HandleManifest, TakesKey, n
    <3>3. QED BY <3>1, <3>2
  <2>4. /\ rotating' \in [Nodes -> BOOLEAN]
        /\ draining' \in [Nodes -> BOOLEAN]
        /\ buffered' \in [Nodes -> Seq(Msgs)]
        /\ replay' \in [Nodes -> Seq(Msgs)]
    <3>1. CASE UNCHANGED bufVars
      BY <3>1 DEF TypeOK
    <3>2. CASE /\ rotating' = [rotating EXCEPT ![n] = FALSE]
               /\ replay' = [replay EXCEPT ![n] = buffered[n]]
               /\ buffered' = [buffered EXCEPT ![n] = <<>>]
               /\ draining' = [draining EXCEPT ![n] = TRUE]
      BY <2>1, <3>2 DEF TypeOK
    <3>3. QED BY <1>2, <3>1, <3>2 DEF HandleManifest, n
  <2>5. meta' \in [Nodes -> [ch : Manifests, key : Keys \cup {NoKey}]]
    <3>1. CASE UNCHANGED meta
      BY <3>1 DEF TypeOK
    <3>2. CASE meta' = [meta EXCEPT ![n] = [ch |-> ch, key |-> key'[n]]]
      BY <2>1, <2>3, <3>2 DEF TypeOK
    <3>3. QED BY <1>2, <3>1, <3>2 DEF HandleManifest, n, ch
  <2>6. fetch' \in [Fetchers -> Tasks]
    <3>1. CASE fetch' = [fetch EXCEPT ![t] = IdleTask]
      BY <1>0, <3>1
    <3>2. ASSUME NEW s \in connected[n],
                 fetch' = [[fetch EXCEPT ![t] = IdleTask] EXCEPT ![t] =
                             [st |-> "asked", by |-> n, from |-> s]]
          PROVE  fetch' \in [Fetchers -> Tasks]
      <4>1. [st |-> "asked", by |-> n, from |-> s] \in Tasks
        BY <2>1 DEF TypeOK, Tasks
      <4>2. QED BY <1>0, <3>2, <4>1
    <3>3. QED BY <1>2, <3>1, <3>2 DEF HandleManifest, n, from
  <2>7. QED
    BY <1>2, <2>2, <2>3, <2>4, <2>5, <2>6 DEF TypeOK, HandleManifest
<1>3. CASE FetchFails(t)
  BY <1>0, <1>3 DEF TypeOK, FetchFails
<1>4. QED BY <1>1, <1>2, <1>3

(* Connections, restarts and losses keep the types. *)
LEMMA EnvironmentType ==
  ASSUME TypeOK, Environment
  PROVE  TypeOK'
<1> USE DEF keyVars, bufVars, msgVars, bounds
<1>1. ASSUME NEW t \in Fetchers, FetchFails(t)
      PROVE  TypeOK'
  BY <1>1, FetchType
<1>2. ASSUME NEW n \in Nodes, NEW s \in Nodes, PeerConnected(n, s)
      PROVE  TypeOK'
  <2>1. fetch' \in [Fetchers -> Tasks]
    BY <1>2, FetchManifestType DEF TypeOK, PeerConnected
  <2>2. gossip' \in [Nodes -> [Paths -> Seq(Events)]]
    <3>1. CASE n = Admin
      <4>1. [type |-> "ChannelManifestBroadcast", ch |-> chan[n]] \in Events
        BY DEF TypeOK, Events
      <4>2. QED BY <1>2, <3>1, <4>1, PublishType DEF TypeOK, PeerConnected
    <3>2. CASE n # Admin
      BY <1>2, <3>2 DEF TypeOK, PeerConnected
    <3>3. QED BY <3>1, <3>2
  <2>3. connected' \in [Nodes -> SUBSET Nodes] /\ connects' \in 0 .. MaxConnects
    BY <1>2 DEF TypeOK, PeerConnected
  <2>4. QED BY <1>2, <2>1, <2>2, <2>3, SMTT(30) DEF TypeOK, PeerConnected
<1>3. ASSUME NEW n \in Nodes, NEW s \in Nodes, SeedPeerConnected(n, s)
      PROVE  TypeOK'
  <2>1. fetch' \in [Fetchers -> Tasks]
    BY <1>3, FetchManifestType DEF TypeOK, SeedPeerConnected
  <2>2. QED BY <1>3, <2>1 DEF TypeOK, SeedPeerConnected
<1>4. ASSUME NEW n \in Nodes, NEW s \in Nodes, PeerDisconnected(n, s)
      PROVE  TypeOK'
  BY <1>4 DEF TypeOK, PeerDisconnected
<1>5. ASSUME NEW n \in Nodes, Restart(n)
      PROVE  TypeOK'
  <2>1. IdleTask \in Tasks /\ IdleRot \in RotStates
    BY DEF IdleTask, Tasks, IdleRot, RotStates, FirstManifest, Manifests, Keys
  <2>2. fetch' \in [Fetchers -> Tasks] /\ rot' \in [Rotators -> RotStates]
    BY <1>5, <2>1 DEF TypeOK, Restart
  <2>3. gossip' \in [Nodes -> [Paths -> Seq(Events)]]
    BY <1>5 DEF TypeOK, Restart
  <2>4. sent' \in [Msgs -> Keys \cup {NoKey}]
    BY <1>5 DEF TypeOK, Restart
  <2>5. QED BY <1>5, <2>2, <2>3, <2>4 DEF TypeOK, Restart
<1>6. ASSUME NEW n \in Nodes, NEW p \in Paths, GossipLost(n, p)
      PROVE  TypeOK'
  <2>1. gossip' \in [Nodes -> [Paths -> Seq(Events)]]
    BY <1>6, TakeGossipType DEF TypeOK, GossipLost
  <2>2. QED BY <1>6, <2>1 DEF TypeOK, GossipLost
<1>7. QED BY <1>1, <1>2, <1>3, <1>4, <1>5, <1>6 DEF Environment

(* Every reachable state is well typed. *)
THEOREM TypeCorrect == Spec => []TypeOK
<1>1. Init => TypeOK
  BY InitType
<1>2. TypeOK /\ [Next]_vars => TypeOK'
  <2> SUFFICES ASSUME TypeOK, [Next]_vars PROVE TypeOK'
    OBVIOUS
  <2>1. CASE Next
    BY <2>1, SendType, RotateType, EventProcessorType, FetchType, EnvironmentType
       DEF Next
  <2>2. CASE UNCHANGED vars
    BY <2>2 DEF vars, keyVars, bufVars, msgVars, bounds, TypeOK
  <2>3. QED BY <2>1, <2>2
<1>3. QED BY <1>1, <1>2, PTL DEF Spec
-----------------------------------------------------------------------------
(* Appending a message that is not there keeps a log free of duplicates. *)
LEMMA AppendDistinct ==
  ASSUME NEW q \in Seq(Msgs), NEW m \in Msgs, m \notin Range(q),
         \A i, j \in DOMAIN q : q[i] = q[j] => i = j
  PROVE  \A i, j \in DOMAIN Append(q, m) : Append(q, m)[i] = Append(q, m)[j] => i = j
<1>1. /\ DOMAIN q = 1 .. Len(q) /\ Len(q) \in Nat
      /\ DOMAIN Append(q, m) = 1 .. Len(q) + 1
      /\ \A i \in 1 .. Len(q) : Append(q, m)[i] = q[i]
      /\ Append(q, m)[Len(q) + 1] = m
  BY LenProperties
<1>2. \A i \in 1 .. Len(q) : q[i] # m
  BY <1>1 DEF Range
<1>3. QED BY <1>1, <1>2

(* Delivering a message keeps every log free of duplicates. *)
LEMMA DeliverDistinct ==
  ASSUME TypeOK, NoDuplicateDelivery, NEW n \in Nodes, NEW m \in Msgs, Deliver(n, m)
  PROVE  NoDuplicateDelivery'
<1>1. log \in [Nodes -> Seq(Msgs)] /\ log[n] \in Seq(Msgs)
  BY DEF TypeOK
<1>2. \A o \in Nodes : o # n => log'[o] = log[o]
  BY <1>1 DEF Deliver
<1>3. CASE m \in Range(log[n])
  <2>1. log'[n] = log[n]
    BY <1>1, <1>3 DEF Deliver
  <2>2. QED BY <1>2, <2>1 DEF NoDuplicateDelivery
<1>4. CASE m \notin Range(log[n])
  <2>1. log'[n] = Append(log[n], m)
    BY <1>1, <1>4 DEF Deliver
  <2>2. \A i, j \in DOMAIN log'[n] : log'[n][i] = log'[n][j] => i = j
    BY <1>1, <1>4, <2>1, AppendDistinct DEF NoDuplicateDelivery
  <2>3. QED BY <1>2, <2>2 DEF NoDuplicateDelivery
<1>5. QED BY <1>3, <1>4

(* No message is ever twice in a node's log, whatever the number of paths it
   travels and however often it is buffered (channel_handler.rs:163). *)
THEOREM DeliveredOnce == Spec => []NoDuplicateDelivery
<1>1. Init => NoDuplicateDelivery
  BY DEF Init, NoDuplicateDelivery
<1>2. TypeOK /\ NoDuplicateDelivery /\ [Next]_vars => NoDuplicateDelivery'
  <2> SUFFICES ASSUME TypeOK, NoDuplicateDelivery, [Next]_vars
               PROVE  NoDuplicateDelivery'
    OBVIOUS
  <2>0. CASE UNCHANGED log
    BY <2>0 DEF NoDuplicateDelivery
  <2>1. ASSUME NEW m \in Msgs, SendPublish(m)
        PROVE  NoDuplicateDelivery'
    <3>1. Author[m] \in Nodes
      BY DEF Nodes
    <3>2. Deliver(Author[m], m)
      BY <2>1, SMTT(30) DEF SendPublish, Deliver
    <3>3. QED BY <3>1, <3>2, DeliverDistinct
  <2>2. ASSUME NEW n \in Nodes, NEW p \in Paths, HandleNewMessage(n, p)
        PROVE  NoDuplicateDelivery'
    <3>1. Head(gossip[n][p]).id \in Msgs
      BY <2>2, TakeGossipType, EventFields DEF HandleNewMessage, NextGossip, TypeOK
    <3>2. QED BY <2>0, <2>2, <3>1, DeliverDistinct DEF HandleNewMessage
  <2>3. ASSUME NEW n \in Nodes, ReplayMessage(n)
        PROVE  NoDuplicateDelivery'
    <3>1. Head(replay[n]) \in Msgs
      BY <2>3, HeadTailProperties DEF ReplayMessage, TypeOK
    <3>2. QED BY <2>3, <3>1, DeliverDistinct DEF ReplayMessage
  <2>4. CASE UNCHANGED vars
    BY <2>0, <2>4 DEF vars, msgVars
  <2>5. ASSUME NEW n \in Nodes, EventProcessor(n)
        PROVE  NoDuplicateDelivery'
    BY <2>0, <2>2, <2>3, <2>5
       DEF EventProcessor, HandleRotation, HandleBroadcast, ReplayDone, msgVars
  <2>6. ASSUME NEW r \in Rotators, Rotate(r)
        PROVE  NoDuplicateDelivery'
    BY <2>0, <2>6, SMTT(30) DEF Rotate, RotateGenerate, RotateWrap, RotateStore,
                      RotateAnnounce, RotateBroadcast, msgVars
  <2>7. CASE Environment
    BY <2>0, <2>7 DEF Environment, FetchFails, PeerConnected, SeedPeerConnected,
                      PeerDisconnected, Restart, GossipLost, msgVars
  <2>8. QED
    BY <2>0, <2>1, <2>4, <2>5, <2>6, <2>7
       DEF Next, SendEncrypt, ServeManifest, HandleManifest, msgVars
<1>3. QED BY <1>1, <1>2, TypeCorrect, PTL DEF Spec
-----------------------------------------------------------------------------
(* Only the admin publishes manifests, and a node skips its own gossip, so the
   admin is never sent one: the strengthening AdminHoldsNewestKeys needs. *)
AdminUntold ==
  \A p \in Paths : \A i \in DOMAIN gossip[Admin][p] :
    gossip[Admin][p][i].type = "NewMessage"

(* A publication of the admin, or of a message, leaves the admin untold. *)
LEMMA PublishUntold ==
  ASSUME TypeOK, AdminUntold, NEW n \in Nodes, NEW e \in Events, Publish(n, e),
         n = Admin \/ e.type = "NewMessage"
  PROVE  AdminUntold'
<1>1. Admin \in Nodes
  BY DEF Nodes, Users
<1>2. SUFFICES ASSUME NEW p \in Paths, NEW i \in DOMAIN gossip'[Admin][p]
               PROVE  gossip'[Admin][p][i].type = "NewMessage"
  BY DEF AdminUntold
<1>3. gossip[Admin][p] \in Seq(Events)
  BY <1>1 DEF TypeOK
<1>4. CASE n = Admin
  <2>1. gossip'[Admin][p] = gossip[Admin][p]
    BY <1>1, <1>4 DEF Publish
  <2>2. QED BY <2>1 DEF AdminUntold
<1>5. CASE n # Admin
  <2> DEFINE q == gossip[Admin][p]
  <2>1. gossip'[Admin][p] = Append(q, e)
    BY <1>1, <1>5 DEF Publish
  <2>2. /\ DOMAIN q = 1 .. Len(q) /\ Len(q) \in Nat
        /\ DOMAIN Append(q, e) = 1 .. Len(q) + 1
        /\ \A j \in 1 .. Len(q) : Append(q, e)[j] = q[j]
        /\ Append(q, e)[Len(q) + 1] = e
    BY <1>3, LenProperties
  <2>3. QED BY <1>5, <2>1, <2>2 DEF AdminUntold
<1>6. QED BY <1>4, <1>5

(* Taking gossip leaves the admin untold. *)
LEMMA TakeUntold ==
  ASSUME TypeOK, AdminUntold, NEW n \in Nodes, NEW p \in Paths,
         gossip[n][p] # <<>>, TakeGossip(n, p)
  PROVE  AdminUntold'
<1>1. Admin \in Nodes
  BY DEF Nodes, Users
<1>2. SUFFICES ASSUME NEW o \in Paths, NEW i \in DOMAIN gossip'[Admin][o]
               PROVE  gossip'[Admin][o][i].type = "NewMessage"
  BY DEF AdminUntold
<1>3. gossip[Admin][o] \in Seq(Events)
  BY <1>1 DEF TypeOK
<1>4. CASE gossip'[Admin][o] = gossip[Admin][o]
  BY <1>4 DEF AdminUntold
<1>5. CASE gossip'[Admin][o] = Tail(gossip[Admin][o]) /\ gossip[Admin][o] # <<>>
  <2>1. /\ DOMAIN gossip[Admin][o] = 1 .. Len(gossip[Admin][o])
        /\ Len(gossip[Admin][o]) \in Nat
        /\ DOMAIN Tail(gossip[Admin][o]) = 1 .. Len(gossip[Admin][o]) - 1
        /\ \A j \in 1 .. Len(gossip[Admin][o]) - 1 :
             Tail(gossip[Admin][o])[j] = gossip[Admin][o][j + 1]
    BY <1>3, <1>5, HeadTailProperties, LenProperties
  <2>2. i + 1 \in DOMAIN gossip[Admin][o]
    BY <1>5, <2>1
  <2>3. QED BY <1>5, <2>1, <2>2 DEF AdminUntold
<1>6. gossip'[Admin][o] = IF n = Admin /\ o = p THEN Tail(gossip[Admin][o])
                                                 ELSE gossip[Admin][o]
  BY <1>1, SMTT(30) DEF TakeGossip, TypeOK
<1>7. QED BY <1>4, <1>5, <1>6

(* The admin encrypts under the newest key and keeps the one before, under any
   number of concurrent rotations and whatever manifests its peers return
   (manifest_handler.rs:168, channel.rs:356). *)
THEOREM AdminNeverFallsBack == Spec => []AdminHoldsNewestKeys
<1> DEFINE IInv == AdminUntold /\ AdminHoldsNewestKeys
<1>1. Init => IInv
  BY DEF Init, AdminUntold, AdminHoldsNewestKeys, Nodes, Users
<1>2. TypeOK /\ IInv /\ [Next]_vars => IInv'
  <2> SUFFICES ASSUME TypeOK, IInv, [Next]_vars PROVE IInv'
    OBVIOUS
  <2> USE DEF keyVars, bufVars, msgVars, bounds
  <2>a. Admin \in Nodes /\ Admin \notin Members
    BY DEF Nodes, Users
  <2>b. UNCHANGED <<key, prev, last>> => AdminHoldsNewestKeys'
    BY DEF AdminHoldsNewestKeys
  <2>c. UNCHANGED gossip => AdminUntold'
    BY DEF AdminUntold
  <2>1. ASSUME NEW m \in Msgs, SendEncrypt(m) \/ SendPublish(m)
        PROVE  IInv'
    <3>1. Author[m] \in Nodes /\ [type |-> "NewMessage", id |-> m] \in Events
      BY DEF Nodes, Events
    <3>2. CASE SendPublish(m)
      BY <2>b, <3>1, <3>2, PublishUntold DEF SendPublish
    <3>3. CASE SendEncrypt(m)
      BY <2>b, <2>c, <3>3 DEF SendEncrypt
    <3>4. QED BY <2>1, <3>2, <3>3
  <2>2. ASSUME NEW r \in Rotators, Rotate(r)
        PROVE  IInv'
    <3>1. rot[r].ch \in Manifests
      BY DEF TypeOK, RotStates
    <3>2. /\ [type |-> "ChannelKeyRotation", ch |-> rot[r].ch] \in Events
          /\ [type |-> "ChannelManifestBroadcast", ch |-> rot[r].ch] \in Events
      BY <3>1 DEF Events
    <3>3. CASE RotateGenerate(r)
      <4>1. AdminHoldsNewestKeys'
        BY <2>a, <3>3
           DEF RotateGenerate, AdoptKey, AdminHoldsNewestKeys, TypeOK, Keys
      <4>2. QED BY <2>c, <3>3, <4>1 DEF RotateGenerate
    <3>4. CASE RotateAnnounce(r)
      BY <2>a, <2>b, <3>2, <3>4, PublishUntold DEF RotateAnnounce
    <3>5. CASE RotateBroadcast(r)
      BY <2>a, <2>b, <3>2, <3>5, PublishUntold DEF RotateBroadcast
    <3>6. CASE RotateWrap(r) \/ RotateStore(r)
      BY <2>b, <2>c, <3>6 DEF RotateWrap, RotateStore
    <3>7. QED BY <2>2, <3>3, <3>4, <3>5, <3>6 DEF Rotate
  <2>3. ASSUME NEW n \in Nodes, EventProcessor(n)
        PROVE  IInv'
    <3>1. ASSUME NEW p \in Paths, HandleNewMessage(n, p) \/ HandleRotation(n, p)
          PROVE  IInv'
      <4>1. gossip[n][p] # <<>> /\ TakeGossip(n, p)
        BY <3>1 DEF HandleNewMessage, HandleRotation, NextGossip
      <4>2. AdminUntold'
        BY <4>1, TakeUntold
      <4>3. QED BY <2>b, <3>1, <4>2 DEF HandleNewMessage, HandleRotation
    <3>2. ASSUME NEW p \in Paths, HandleBroadcast(n, p)
          PROVE  IInv'
      <4>1. /\ gossip[n][p] # <<>> /\ TakeGossip(n, p)
            /\ Head(gossip[n][p]).type = "ChannelManifestBroadcast"
        BY <3>2 DEF HandleBroadcast, NextGossip
      <4>2. n # Admin
        <5>1. gossip[n][p] \in Seq(Events)
          BY DEF TypeOK
        <5>2. 1 \in DOMAIN gossip[n][p] /\ Head(gossip[n][p]) = gossip[n][p][1]
          BY <4>1, <5>1, LenProperties, EmptySeq
        <5>3. QED BY <4>1, <5>2 DEF AdminUntold
      <4>3. AdminUntold'
        BY <4>1, TakeUntold
      <4>4. key'[Admin] = key[Admin] /\ prev'[Admin] = prev[Admin] /\ last' = last
        BY <2>a, <3>2, <4>2, SMTT(30) DEF HandleBroadcast, AdoptKey, TypeOK
      <4>5. QED BY <4>3, <4>4 DEF AdminHoldsNewestKeys
    <3>3. CASE ReplayMessage(n) \/ ReplayDone(n)
      BY <2>b, <2>c, <3>3 DEF ReplayMessage, ReplayDone
    <3>4. QED BY <2>3, <3>1, <3>2, <3>3 DEF EventProcessor
  <2>4. ASSUME NEW t \in Fetchers, ServeManifest(t) \/ HandleManifest(t)
        PROVE  IInv'
    <3>1. CASE ServeManifest(t)
      BY <2>b, <2>c, <3>1 DEF ServeManifest
    <3>2. CASE HandleManifest(t)
      <4>1. key'[Admin] = key[Admin] /\ prev'[Admin] = prev[Admin]
        <5>1. CASE fetch[t].by \in Members
          <6>1. AdoptKey(fetch[t].by, fetch[t].ch.wraps[fetch[t].by])
            BY <3>2, <5>1 DEF HandleManifest, TakesKey
          <6>2. QED BY <2>a, <5>1, <6>1 DEF AdoptKey, TypeOK
        <5>2. CASE fetch[t].by \notin Members
          BY <3>2, <5>2, SMTT(30) DEF HandleManifest, TakesKey
        <5>3. QED BY <5>1, <5>2
      <4>2. last' = last /\ AdminUntold'
        BY <2>c, <3>2 DEF HandleManifest
      <4>3. QED BY <4>1, <4>2 DEF AdminHoldsNewestKeys
    <3>3. QED BY <2>4, <3>1, <3>2
  <2>5. CASE Environment
    <3>1. ASSUME NEW n \in Nodes, NEW s \in Nodes, PeerConnected(n, s)
          PROVE  IInv'
      <4>1. [type |-> "ChannelManifestBroadcast", ch |-> chan[n]] \in Events
        BY DEF Events, TypeOK
      <4>2. AdminUntold'
        BY <2>c, <3>1, <4>1, PublishUntold, SMTT(30) DEF PeerConnected
      <4>3. QED BY <2>b, <3>1, <4>2 DEF PeerConnected
    <3>2. ASSUME NEW n \in Nodes, Restart(n)
          PROVE  IInv'
      <4>1. AdminUntold'
        <5>1. \A p \in Paths : \/ gossip'[Admin][p] = gossip[Admin][p]
                               \/ gossip'[Admin][p] = <<>>
          BY <2>a, <3>2 DEF Restart, TypeOK
        <5>2. QED BY <5>1 DEF AdminUntold
      <4>2. QED BY <2>b, <3>2, <4>1 DEF Restart
    <3>3. ASSUME NEW n \in Nodes, NEW p \in Paths, GossipLost(n, p)
          PROVE  IInv'
      <4>1. AdminUntold'
        BY <3>3, TakeUntold DEF GossipLost
      <4>2. QED BY <2>b, <3>3, <4>1 DEF GossipLost
    <3>4. QED
      BY <2>b, <2>c, <2>5, <3>1, <3>2, <3>3
         DEF Environment, FetchFails, SeedPeerConnected, PeerDisconnected
  <2>6. CASE UNCHANGED vars
    BY <2>b, <2>c, <2>6 DEF vars
  <2>7. QED BY <2>1, <2>2, <2>3, <2>4, <2>5, <2>6 DEF Next
<1>3. QED BY <1>1, <1>2, TypeCorrect, PTL DEF Spec
-----------------------------------------------------------------------------
(* The steps that touch no buffer. *)
LEMMA BuffersUntouched ==
  ASSUME [Next]_vars,
         \A n \in Nodes : ~ReplayMessage(n) /\ ~ReplayDone(n) /\ ~Restart(n),
         \A n \in Nodes, p \in Paths : ~HandleNewMessage(n, p) /\ ~HandleRotation(n, p),
         \A t \in Fetchers : ~HandleManifest(t)
  PROVE  UNCHANGED bufVars
BY DEF Next, SendEncrypt, SendPublish, Rotate, RotateGenerate, RotateWrap,
       RotateStore, RotateAnnounce, RotateBroadcast, EventProcessor,
       HandleBroadcast, ServeManifest, Environment, FetchFails, PeerConnected,
       SeedPeerConnected, PeerDisconnected, GossipLost, vars, bufVars

(* What handle_manifest_received does to the buffers. *)
LEMMA HandleManifestBuffers ==
  ASSUME TypeOK, NEW t \in Fetchers, HandleManifest(t)
  PROVE  LET n == fetch[t].by
         IN  /\ n \in Nodes /\ ~draining[n]
             /\ \/ UNCHANGED bufVars
                \/ /\ rotating' = [rotating EXCEPT ![n] = FALSE]
                   /\ replay' = [replay EXCEPT ![n] = buffered[n]]
                   /\ buffered' = [buffered EXCEPT ![n] = <<>>]
                   /\ draining' = [draining EXCEPT ![n] = TRUE]
<1>1. fetch[t] \in Tasks /\ fetch[t].st = "answered"
  BY DEF TypeOK, HandleManifest
<1>2. fetch[t].by \in Nodes
  BY <1>1, TaskFields
<1>3. QED BY <1>2, ZenonT(30) DEF HandleManifest

(* Messages wait only under a pending rotation, and are replayed only by a
   handler that is draining (channel_handler.rs:506, manifest_handler.rs:245). *)
THEOREM BuffersOwned == Spec => []BufferIsOwned
<1>1. Init => BufferIsOwned
  BY DEF Init, BufferIsOwned
<1>2. TypeOK /\ BufferIsOwned /\ [Next]_vars => BufferIsOwned'
  <2> SUFFICES ASSUME TypeOK, BufferIsOwned, [Next]_vars PROVE BufferIsOwned'
    OBVIOUS
  <2>0. CASE UNCHANGED bufVars
    BY <2>0 DEF BufferIsOwned, bufVars
  <2>1. ASSUME NEW n \in Nodes, NEW p \in Paths, HandleNewMessage(n, p)
        PROVE  BufferIsOwned'
    <3>1. \/ UNCHANGED buffered
          \/ rotating[n] /\ \A o \in Nodes : o # n => buffered'[o] = buffered[o]
      BY <2>1 DEF HandleNewMessage, Buffers, TypeOK
    <3>2. QED BY <2>1, <3>1 DEF HandleNewMessage, BufferIsOwned
  <2>2. ASSUME NEW n \in Nodes, NEW p \in Paths, HandleRotation(n, p)
        PROVE  BufferIsOwned'
    <3>1. \A o \in Nodes : rotating[o] => rotating'[o]
      BY <2>2 DEF HandleRotation, OpenBuffer, TypeOK
    <3>2. QED BY <2>2, <3>1 DEF HandleRotation, OpenBuffer, BufferIsOwned
  <2>3. ASSUME NEW t \in Fetchers, HandleManifest(t)
        PROVE  BufferIsOwned'
    <3> DEFINE n == fetch[t].by
    <3>1. n \in Nodes
      BY <2>3, HandleManifestBuffers
    <3>2. CASE /\ rotating' = [rotating EXCEPT ![n] = FALSE]
               /\ replay' = [replay EXCEPT ![n] = buffered[n]]
               /\ buffered' = [buffered EXCEPT ![n] = <<>>]
               /\ draining' = [draining EXCEPT ![n] = TRUE]
      BY <3>1, <3>2 DEF BufferIsOwned, TypeOK
    <3>3. QED BY <2>0, <2>3, <3>2, HandleManifestBuffers
  <2>4. ASSUME NEW n \in Nodes, ReplayMessage(n) \/ ReplayDone(n) \/ Restart(n)
        PROVE  BufferIsOwned'
    <3>1. CASE ReplayMessage(n)
      BY <3>1 DEF ReplayMessage, BufferIsOwned, TypeOK
    <3>2. CASE ReplayDone(n)
      BY <3>2 DEF ReplayDone, BufferIsOwned, TypeOK
    <3>3. CASE Restart(n)
      BY <3>3 DEF Restart, BufferIsOwned, TypeOK
    <3>4. QED BY <2>4, <3>1, <3>2, <3>3
  <2>5. QED BY <2>0, <2>1, <2>2, <2>3, <2>4, BuffersUntouched
<1>3. QED BY <1>1, <1>2, TypeCorrect, PTL DEF Spec

(* A message taken from the front of the replay queue is the only one to leave
   it. *)
LEMMA RangeOfTail ==
  ASSUME NEW q \in Seq(Msgs), q # <<>>
  PROVE  Range(q) \subseteq Range(Tail(q)) \cup {Head(q)}
<1>1. /\ DOMAIN q = 1 .. Len(q) /\ Len(q) \in Nat
      /\ DOMAIN Tail(q) = 1 .. Len(q) - 1
      /\ \A j \in 1 .. Len(q) - 1 : Tail(q)[j] = q[j + 1]
      /\ Head(q) = q[1]
  BY HeadTailProperties, LenProperties
<1>2. ASSUME NEW i \in DOMAIN q
      PROVE  q[i] \in Range(Tail(q)) \cup {Head(q)}
  <2>1. CASE i = 1
    BY <1>1, <2>1
  <2>2. CASE i # 1
    <3>1. i - 1 \in DOMAIN Tail(q) /\ Tail(q)[i - 1] = q[i]
      BY <1>1, <2>2
    <3>2. QED BY <3>1 DEF Range
  <2>3. QED BY <2>1, <2>2
<1>3. QED BY <1>2 DEF Range

(* Appending keeps what a sequence holds. *)
LEMMA RangeOfAppend ==
  ASSUME NEW q \in Seq(Msgs), NEW m \in Msgs
  PROVE  Range(q) \cup {m} \subseteq Range(Append(q, m))
<1>1. /\ DOMAIN q = 1 .. Len(q) /\ Len(q) \in Nat
      /\ DOMAIN Append(q, m) = 1 .. Len(q) + 1
      /\ \A i \in 1 .. Len(q) : Append(q, m)[i] = q[i]
      /\ Append(q, m)[Len(q) + 1] = m
  BY LenProperties
<1>2. m \in Range(Append(q, m))
  BY <1>1 DEF Range
<1>3. ASSUME NEW i \in DOMAIN q
      PROVE  q[i] \in Range(Append(q, m))
  BY <1>1 DEF Range
<1>4. QED BY <1>2, <1>3 DEF Range

(* No step but a restart drops a buffered message: it stays buffered, moves to
   the replay queue, or is in the log (manifest_handler.rs:243-259). *)
THEOREM BufferedKept == Spec => BufferedNotLost
<1> DEFINE Kept == faults' = faults =>
      \A n \in Nodes :
        Range(buffered[n]) \cup Range(replay[n])
          \subseteq Range(buffered'[n]) \cup Range(replay'[n]) \cup Range(log'[n])
<1>1. TypeOK /\ BufferIsOwned /\ [Next]_vars => [Kept]_vars
  <2> SUFFICES ASSUME TypeOK, BufferIsOwned, [Next]_vars, faults' = faults,
                      NEW o \in Nodes
               PROVE  Range(buffered[o]) \cup Range(replay[o])
                        \subseteq Range(buffered'[o]) \cup Range(replay'[o]) \cup Range(log'[o])
    OBVIOUS
  <2> DEFINE Goal == Range(buffered[o]) \cup Range(replay[o])
                       \subseteq Range(buffered'[o]) \cup Range(replay'[o]) \cup Range(log'[o])
  <2>0. buffered'[o] = buffered[o] /\ replay'[o] = replay[o] => Goal
    OBVIOUS
  <2>1. ASSUME NEW n \in Nodes, NEW p \in Paths, HandleNewMessage(n, p)
        PROVE  Goal
    <3> DEFINE m == Head(gossip[n][p]).id
    <3>1. m \in Msgs
      BY <2>1, TakeGossipType, EventFields DEF HandleNewMessage, NextGossip, TypeOK
    <3>2. CASE buffered' = [buffered EXCEPT ![n] = Append(@, m)]
      <4>1. Range(buffered[o]) \subseteq Range(buffered'[o])
        <5>1. CASE o = n
          BY <3>1, <3>2, <5>1, RangeOfAppend DEF TypeOK
        <5>2. CASE o # n
          BY <3>2, <5>2 DEF TypeOK
        <5>3. QED BY <5>1, <5>2
      <4>2. QED BY <2>1, <4>1 DEF HandleNewMessage
    <3>3. CASE UNCHANGED buffered
      BY <2>1, <3>3 DEF HandleNewMessage
    <3>4. QED BY <2>1, <3>2, <3>3 DEF HandleNewMessage
  <2>2. ASSUME NEW t \in Fetchers, HandleManifest(t)
        PROVE  Goal
    <3> DEFINE n == fetch[t].by
    <3>1. n \in Nodes /\ ~draining[n]
      BY <2>2, HandleManifestBuffers
    <3>2. CASE /\ replay' = [replay EXCEPT ![n] = buffered[n]]
               /\ buffered' = [buffered EXCEPT ![n] = <<>>]
      <4>1. replay[n] = <<>>
        BY <3>1 DEF BufferIsOwned
      <4>2. CASE o = n
        <5>1. Range(replay[o]) = {}
          BY <4>1, <4>2 DEF Range
        <5>2. replay'[o] = buffered[o]
          BY <3>1, <3>2, <4>2 DEF TypeOK
        <5>3. QED BY <5>1, <5>2
      <4>3. CASE o # n
        BY <2>0, <3>1, <3>2, <4>3 DEF TypeOK
      <4>4. QED BY <4>2, <4>3
    <3>3. CASE UNCHANGED bufVars
      BY <2>0, <3>3, SMTT(30) DEF bufVars
    <3>4. QED BY <2>2, <3>2, <3>3, HandleManifestBuffers, SMTT(30)
  <2>3. ASSUME NEW n \in Nodes, ReplayMessage(n)
        PROVE  Goal
    <3>1. /\ replay[n] \in Seq(Msgs) /\ replay[n] # <<>> /\ Head(replay[n]) \in Msgs
      BY <2>3, HeadTailProperties DEF ReplayMessage, TypeOK
    <3>2. CASE o = n
      <4>1. Head(replay[n]) \in Range(log'[n])
        BY <2>3, <3>1, RangeOfAppend DEF ReplayMessage, Deliver, TypeOK
      <4>2. replay'[n] = Tail(replay[n])
        BY <2>3, SMTT(30) DEF ReplayMessage, TypeOK
      <4>3. Range(replay[n]) \subseteq Range(replay'[n]) \cup Range(log'[n])
        BY <3>1, <4>1, <4>2, RangeOfTail
      <4>4. QED BY <2>3, <3>2, <4>3 DEF ReplayMessage
    <3>3. CASE o # n
      BY <2>0, <2>3, <3>3 DEF ReplayMessage, TypeOK
    <3>4. QED BY <3>2, <3>3
  <2>4. ASSUME NEW n \in Nodes, ReplayDone(n)
        PROVE  Goal
    BY <2>0, <2>4 DEF ReplayDone
  <2>5. ASSUME NEW n \in Nodes, Restart(n)
        PROVE  Goal
    BY <2>5 DEF Restart, TypeOK
  <2>6. ASSUME NEW n \in Nodes, NEW p \in Paths, HandleRotation(n, p)
        PROVE  Goal
    BY <2>0, <2>6, SMTT(30) DEF HandleRotation, OpenBuffer
  <2>7. CASE UNCHANGED bufVars
    BY <2>0, <2>7 DEF bufVars
  <2>8. QED BY <2>1, <2>2, <2>3, <2>4, <2>5, <2>6, <2>7, BuffersUntouched
<1>2. QED BY <1>1, TypeCorrect, BuffersOwned, PTL DEF Spec, BufferedNotLost
=============================================================================
