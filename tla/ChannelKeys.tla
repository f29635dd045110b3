----------------------------- MODULE ChannelKeys -----------------------------
(***************************************************************************)
(* The symmetric key of one channel of one community: the admin rotates it *)
(* (rpc_server/channel.rs), the other nodes learn of the rotation by       *)
(* gossip and by FetchManifest (event_processor/{channel,community,        *)
(* manifest}_handler.rs), and messages are encrypted and decrypted while   *)
(* all of that is in flight.                                               *)
(*                                                                         *)
(* Every node runs one sequential event processor; the JSON-RPC calls of   *)
(* the admin and of the authors run beside it, one action per critical     *)
(* section.  Membership is fixed: every user has a wrapped key in every    *)
(* manifest, so wrapping a key for a late joiner does not occur here.      *)
(***************************************************************************)
EXTENDS Naturals, Sequences, FiniteSets, Functions

CONSTANTS
  Admin,        \* the owner of the community
  Seed,         \* the relay that hosts it; not a member, holds no channel key
  Members,      \* the other members
  Msgs,         \* identities of the messages that may be sent
  Author,       \* [Msgs -> users]: who sends each message
  Rotators,     \* concurrent channel_rotate_key calls
  Fetchers,     \* FetchManifest tasks that can be in flight at once
  Paths,        \* relay paths by which gossip reaches a node, each in order
  PeerDials,    \* pairs <<n, s>>: n can report PeerConnected for s
  SeedDials,    \* pairs <<n, s>>: n can report SeedPeerConnected for s
  SeedKey,      \* the key PushManifest left in the relay's store, or NoKey
  MaxKey,       \* bound: keys ever generated
  MaxConnects,  \* bound: connections made
  MaxFaults     \* bound: restarts and lost gossip messages

Users == Members \cup {Admin}

Nodes == Users \cup {Seed}

NoKey == 0

Keys == 1 .. MaxKey

(***************************************************************************)
(* ChannelManifest: version and encrypted_channel_key, the key wrapped for *)
(* each user.                                                              *)
(***************************************************************************)
Manifests == [version : Nat, wraps : [Users -> Keys]]

(* GossipSub payloads on the channel and community topics. *)
Events == [type : {"NewMessage"}, id : Msgs]
            \cup [type : {"ChannelKeyRotation", "ChannelManifestBroadcast"},
                  ch : Manifests]

(* A FetchManifest task: idle, asking s on behalf of n, or answered. *)
Tasks == [st : {"idle"}]
            \cup [st : {"asked"}, by : Nodes, from : Nodes]
            \cup [st : {"answered"}, by : Nodes, from : Nodes, ch : Manifests]

ASSUME ConstantsAssumption ==
  /\ Admin # Seed /\ Admin \notin Members /\ Seed \notin Members
  /\ Author \in [Msgs -> Users]
  /\ PeerDials \subseteq Nodes \X Nodes
  /\ SeedDials \subseteq Nodes \X Nodes
  /\ MaxKey \in Nat \ {0}
  /\ SeedKey \in {NoKey, 1}
  /\ MaxConnects \in Nat /\ MaxFaults \in Nat

VARIABLES
  chan,       \* [Nodes -> Manifests]: AppState.channels
  key,        \* [Nodes -> key or NoKey]: AppState.channel_keys
  prev,       \* [Nodes -> key or NoKey]: AppState.previous_channel_keys
  rotating,   \* [Nodes -> BOOLEAN]: pending_rotation_messages has an entry
  buffered,   \* [Nodes -> Seq(Msgs)]: the messages in that entry
  draining,   \* [Nodes -> BOOLEAN]: handle_manifest_received is replaying
  replay,     \* [Nodes -> Seq(Msgs)]: what it still has to replay
  meta,       \* [Nodes -> manifest and key]: CommunityMeta in the NodeStore
  connected,  \* [Nodes -> SUBSET Nodes]: AppState.connected_peers
  gossip,     \* [Nodes -> [Paths -> Seq(Events)]]: gossip not yet handled
  fetch,      \* [Fetchers -> Tasks]
  rot,        \* [Rotators -> program counter, new key and updated manifest]
  sent,       \* [Msgs -> key it is encrypted under, or NoKey]
  log,        \* [Nodes -> Seq(Msgs)]: AppState.message_log
  last,       \* keys generated so far
  connects,   \* connections made so far
  faults      \* restarts and losses so far

keyVars == <<chan, key, prev, meta>>
bufVars == <<rotating, buffered, draining, replay>>
msgVars == <<sent, log>>
bounds  == <<connects, faults>>
vars == <<keyVars, bufVars, msgVars, bounds, connected, gossip, fetch, rot, last>>

FirstManifest == [version |-> 1, wraps |-> [u \in Users |-> 1]]

IdleTask == [st |-> "idle"]

IdleRot == [pc |-> "idle", key |-> 1, ch |-> FirstManifest]

RotStates == [pc : {"idle", "wrap", "store", "announce", "broadcast"},
              key : Keys, ch : Manifests]

TypeOK ==
  /\ chan \in [Nodes -> Manifests]
  /\ key \in [Nodes -> Keys \cup {NoKey}]
  /\ prev \in [Nodes -> Keys \cup {NoKey}]
  /\ rotating \in [Nodes -> BOOLEAN]
  /\ buffered \in [Nodes -> Seq(Msgs)]
  /\ draining \in [Nodes -> BOOLEAN]
  /\ replay \in [Nodes -> Seq(Msgs)]
  /\ meta \in [Nodes -> [ch : Manifests, key : Keys \cup {NoKey}]]
  /\ connected \in [Nodes -> SUBSET Nodes]
  /\ gossip \in [Nodes -> [Paths -> Seq(Events)]]
  /\ fetch \in [Fetchers -> Tasks]
  /\ rot \in [Rotators -> RotStates]
  /\ sent \in [Msgs -> Keys \cup {NoKey}]
  /\ log \in [Nodes -> Seq(Msgs)]
  /\ last \in Keys
  /\ connects \in 0 .. MaxConnects
  /\ faults \in 0 .. MaxFaults

(***************************************************************************)
(* The community has one channel at version 1, its key wrapped for every   *)
(* user; the relay has the manifest, and the key too when the admin pushed *)
(* the community to it with PushManifest.                                  *)
(***************************************************************************)
Init ==
  /\ chan = [n \in Nodes |-> FirstManifest]
  /\ key = [n \in Nodes |-> IF n \in Users THEN 1 ELSE NoKey]
  /\ prev = [n \in Nodes |-> NoKey]
  /\ rotating = [n \in Nodes |-> FALSE]
  /\ buffered = [n \in Nodes |-> <<>>]
  /\ draining = [n \in Nodes |-> FALSE]
  /\ replay = [n \in Nodes |-> <<>>]
  /\ meta = [n \in Nodes |-> [ch |-> FirstManifest,
                              key |-> IF n \in Users THEN 1 ELSE SeedKey]]
  /\ connected = [n \in Nodes |-> {}]
  /\ gossip = [n \in Nodes |-> [p \in Paths |-> <<>>]]
  /\ fetch = [t \in Fetchers |-> IdleTask]
  /\ rot = [r \in Rotators |-> IdleRot]
  /\ sent = [m \in Msgs |-> NoKey]
  /\ log = [n \in Nodes |-> <<>>]
  /\ last = 1
  /\ connects = 0
  /\ faults = 0
-----------------------------------------------------------------------------
(* NetworkCommand::Publish: the event goes out on every path to every other
   node; a node skips what it published itself. *)
Publish(n, e) ==
  gossip' = [o \in Nodes |-> [p \in Paths |->
               IF o = n THEN gossip[o][p] ELSE Append(gossip[o][p], e)]]

(* NetworkCommand::FetchManifest from one of the peers in ps, if there is one
   and a task can be spawned for it. *)
FetchManifest(n, ps) ==
  LET free == {t \in Fetchers : fetch[t].st = "idle"}
  IN  IF ps = {} \/ free = {}
      THEN UNCHANGED fetch
      ELSE \E s \in ps :
             fetch' = [fetch EXCEPT ![CHOOSE t \in free : TRUE] =
                         [st |-> "asked", by |-> n, from |-> s]]

(* The peer asked after a rotation: the admin if connected, else any peer. *)
PreferredPeers(n) ==
  IF Admin \in connected[n] THEN {Admin} ELSE connected[n]

Readable(n, m) == sent[m] # NoKey /\ sent[m] \in {key[n], prev[n]}

DeliverAgain(n, m) ==
  log' = [log EXCEPT ![n] = Append(@, m)]

(* Append to the message log unless the message is already there. *)
Deliver(n, m) ==
  log' = [log EXCEPT ![n] = IF m \in Range(@) THEN @ ELSE Append(@, m)]

AdoptKeyForgetOld(n, k) ==
  /\ key' = [key EXCEPT ![n] = k]
  /\ UNCHANGED prev

(* channel_keys and previous_channel_keys when the key k is unwrapped. *)
AdoptKey(n, k) ==
  /\ prev' = [prev EXCEPT ![n] =
                IF key[n] \notin {NoKey, k} THEN key[n] ELSE @]
  /\ key' = [key EXCEPT ![n] = k]

-----------------------------------------------------------------------------
(* message_send: the body is encrypted under the author's current key ... *)
SendEncrypt(m) ==
  /\ sent[m] = NoKey
  /\ key[Author[m]] # NoKey
  /\ sent' = [sent EXCEPT ![m] = key[Author[m]]]
  /\ UNCHANGED <<keyVars, bufVars, log, bounds, connected, gossip, fetch, rot, last>>

(* ... and, after other calls may have run, appended and published. *)
SendPublish(m) ==
  /\ sent[m] # NoKey
  /\ m \notin Range(log[Author[m]])
  /\ log' = [log EXCEPT ![Author[m]] = Append(@, m)]
  /\ Publish(Author[m], [type |-> "NewMessage", id |-> m])
  /\ UNCHANGED <<keyVars, bufVars, sent, bounds, connected, fetch, rot, last>>

-----------------------------------------------------------------------------
(* channel_rotate_key, lines 351-375: a fresh key, the old one kept. *)
RotateGenerate(r) ==
  /\ rot[r].pc = "idle"
  /\ last < MaxKey
  /\ last' = last + 1
  /\ AdoptKey(Admin, last + 1)
  /\ rot' = [rot EXCEPT ![r] = [@ EXCEPT !.pc = "wrap", !.key = last + 1]]
  /\ UNCHANGED <<chan, meta, bufVars, msgVars, bounds, connected, gossip, fetch>>

(* Lines 377-405: wrap it for every member, bump the manifest's version. *)
RotateWrap(r) ==
  /\ rot[r].pc = "wrap"
  /\ LET ch == [version |-> chan[Admin].version + 1,
                wraps |-> [u \in Users |-> rot[r].key]]
     IN  /\ chan' = [chan EXCEPT ![Admin] = ch]
         /\ rot' = [rot EXCEPT ![r] = [@ EXCEPT !.pc = "store", !.ch = ch]]
  /\ UNCHANGED <<key, prev, meta, bufVars, msgVars, bounds, connected, gossip,
                 fetch, last>>

(* Lines 407-430: the key and the manifest go to the admin's NodeStore. *)
RotateStore(r) ==
  /\ rot[r].pc = "store"
  /\ meta' = [meta EXCEPT ![Admin] = [ch |-> rot[r].ch, key |-> rot[r].key]]
  /\ rot' = [rot EXCEPT ![r] = [@ EXCEPT !.pc = "announce"]]
  /\ UNCHANGED <<chan, key, prev, bufVars, msgVars, bounds, connected, gossip,
                 fetch, last>>

(* Lines 432-452: ChannelKeyRotation on the channel topic. *)
RotateAnnounce(r) ==
  /\ rot[r].pc = "announce"
  /\ Publish(Admin, [type |-> "ChannelKeyRotation", ch |-> rot[r].ch])
  /\ rot' = [rot EXCEPT ![r] = [@ EXCEPT !.pc = "broadcast"]]
  /\ UNCHANGED <<keyVars, bufVars, msgVars, bounds, connected, fetch, last>>

(* Lines 454-478: ChannelManifestBroadcast on the community topic. *)
RotateBroadcast(r) ==
  /\ rot[r].pc = "broadcast"
  /\ Publish(Admin, [type |-> "ChannelManifestBroadcast", ch |-> rot[r].ch])
  /\ rot' = [rot EXCEPT ![r] = IdleRot]
  /\ UNCHANGED <<keyVars, bufVars, msgVars, bounds, connected, fetch, last>>
-----------------------------------------------------------------------------
(* The event processor of n takes the next gossip of a path, when it is not
   inside the replay loop of handle_manifest_received. *)
NextGossip(n, p, type) ==
  /\ ~draining[n]
  /\ gossip[n][p] # <<>>
  /\ Head(gossip[n][p]).type = type

TakeGossip(n, p) ==
  gossip' = [gossip EXCEPT ![n][p] = Tail(@)]

BufferAlways(n, m) ==
  ~Readable(n, m)

(* A message that cannot be read is kept only while a rotation is pending. *)
Buffers(n, m) ==
  ~Readable(n, m) /\ rotating[n]

(* handle_channel_message, NewMessage: no key, drop; readable, deliver once;
   not readable, buffer if a rotation is pending and drop otherwise. *)
HandleNewMessage(n, p) ==
  /\ NextGossip(n, p, "NewMessage")
  /\ LET m == Head(gossip[n][p]).id
     IN  \/ /\ key[n] # NoKey /\ Readable(n, m)
            /\ Deliver(n, m)
            /\ UNCHANGED buffered
         \/ /\ key[n] # NoKey /\ Buffers(n, m)
            /\ buffered' = [buffered EXCEPT ![n] = Append(@, m)]
            /\ UNCHANGED log
         \/ /\ key[n] = NoKey \/ (~Readable(n, m) /\ ~Buffers(n, m))
            /\ UNCHANGED <<buffered, log>>
  /\ TakeGossip(n, p)
  /\ UNCHANGED <<keyVars, rotating, draining, replay, sent, bounds, connected,
                 fetch, rot, last>>

OpenEmptyBuffer(n) ==
  /\ rotating' = [rotating EXCEPT ![n] = TRUE]
  /\ buffered' = [buffered EXCEPT ![n] = <<>>]

(* pending_rotation_messages.entry(..).or_default(): an entry that is already
   there keeps its messages. *)
OpenBuffer(n) ==
  /\ rotating' = [rotating EXCEPT ![n] = TRUE]
  /\ UNCHANGED buffered

(* handle_channel_key_rotation: a strictly newer manifest is stored, the
   buffer is opened, and only then is the new key asked for. *)
HandleRotation(n, p) ==
  /\ NextGossip(n, p, "ChannelKeyRotation")
  /\ LET ch == Head(gossip[n][p]).ch
     IN  \/ /\ ch.version > chan[n].version
            /\ chan' = [chan EXCEPT ![n] = ch]
            /\ meta' = [meta EXCEPT ![n] = [@ EXCEPT !.ch = ch]]
            /\ OpenBuffer(n)
            /\ FetchManifest(n, PreferredPeers(n))
         \/ /\ ch.version <= chan[n].version
            /\ UNCHANGED <<chan, meta, rotating, buffered, fetch>>
  /\ TakeGossip(n, p)
  /\ UNCHANGED <<key, prev, draining, replay, msgVars, bounds, connected,
                 rot, last>>

(* handle_community_message, ChannelManifestBroadcast: stored whatever its
   version; a user unwraps the key, the relay has no entry of its own.  The
   stored manifest changes, the key stored beside it does not. *)
HandleBroadcast(n, p) ==
  /\ NextGossip(n, p, "ChannelManifestBroadcast")
  /\ LET ch == Head(gossip[n][p]).ch
     IN  /\ chan' = [chan EXCEPT ![n] = ch]
         /\ meta' = [meta EXCEPT ![n] = [@ EXCEPT !.ch = ch]]
         /\ IF n \in Users THEN AdoptKey(n, ch.wraps[n]) ELSE UNCHANGED <<key, prev>>
  /\ TakeGossip(n, p)
  /\ UNCHANGED <<bufVars, msgVars, bounds, connected, fetch, rot, last>>
-----------------------------------------------------------------------------
ServedManifestNoCheck(s, n) ==
  IF n \in Users
  THEN [meta[s].ch EXCEPT !.wraps[n] = meta[s].key]
  ELSE meta[s].ch

(* ConnectionHandler::dispatch, FetchManifest: the stored manifest, with the
   requesting member's entry rewrapped from the stored key if there is one. *)
ServedManifest(s, n) ==
  IF n \in Users /\ meta[s].key # NoKey
  THEN [meta[s].ch EXCEPT !.wraps[n] = meta[s].key]
  ELSE meta[s].ch

ServeManifest(t) ==
  /\ fetch[t].st = "asked"
  /\ fetch' = [fetch EXCEPT ![t] =
                 [st |-> "answered", by |-> fetch[t].by, from |-> fetch[t].from,
                  ch |-> ServedManifest(fetch[t].from, fetch[t].by)]]
  /\ UNCHANGED <<keyVars, bufVars, msgVars, bounds, connected, gossip, rot, last>>

(* The peer is not in the outbound table, or the request fails: only logged. *)
FetchFails(t) ==
  /\ fetch[t].st = "asked"
  /\ fetch' = [fetch EXCEPT ![t] = IdleTask]
  /\ UNCHANGED <<keyVars, bufVars, msgVars, bounds, connected, gossip, rot, last>>

EveryUserTakesKey(n) == n \in Users

(* The admin never takes a key from a peer, and the relay has no wrapped one. *)
TakesKey(n) == n \in Members

(* Whether unwrapping the answer's entry for n changes the key it holds. *)
KeyRotated(n, ch) ==
  TakesKey(n) /\ key[n] \notin {NoKey, ch.wraps[n]}

(* handle_manifest_received: register the peer, store the manifest, unwrap the
   key; then either replay what was buffered, if the key changed, or ask
   another peer, if a rotation is still pending; then write the NodeStore. *)
HandleManifest(t) ==
  /\ fetch[t].st = "answered"
  /\ LET n == fetch[t].by
         ch == fetch[t].ch
         others == connected[n] \ {fetch[t].from}
         done == [fetch EXCEPT ![t] = IdleTask]
     IN  /\ ~draining[n]
         /\ connected' = [connected EXCEPT ![n] = @ \cup {fetch[t].from}]
         /\ chan' = [chan EXCEPT ![n] = ch]
         /\ IF TakesKey(n) THEN AdoptKey(n, ch.wraps[n]) ELSE UNCHANGED <<key, prev>>
         /\ \/ /\ KeyRotated(n, ch) /\ rotating[n]
               /\ rotating' = [rotating EXCEPT ![n] = FALSE]
               /\ replay' = [replay EXCEPT ![n] = buffered[n]]
               /\ buffered' = [buffered EXCEPT ![n] = <<>>]
               /\ draining' = [draining EXCEPT ![n] = TRUE]
               /\ fetch' = done
               /\ UNCHANGED meta
            \/ /\ ~(KeyRotated(n, ch) /\ rotating[n])
               /\ \/ /\ rotating[n] /\ others # {}
                     /\ \E s \in others :
                          fetch' = [done EXCEPT ![t] =
                                      [st |-> "asked", by |-> n, from |-> s]]
                  \/ /\ ~rotating[n] \/ others = {}
                     /\ fetch' = done
               /\ meta' = [meta EXCEPT ![n] = [ch |-> ch, key |-> key'[n]]]
               /\ UNCHANGED bufVars
  /\ UNCHANGED <<msgVars, bounds, gossip, rot, last>>

(* The replay loop holds the lock of pending_rotation_messages; the message
   handler takes that lock again for a message it cannot read, so the loop
   only gets past messages that are readable. *)
ReplayMessage(n) ==
  /\ draining[n] /\ replay[n] # <<>>
  /\ Readable(n, Head(replay[n]))
  /\ Deliver(n, Head(replay[n]))
  /\ replay' = [replay EXCEPT ![n] = Tail(@)]
  /\ UNCHANGED <<keyVars, rotating, buffered, draining, sent, bounds, connected,
                 gossip, fetch, rot, last>>

(* The loop is done: the rest of handle_manifest_received. *)
ReplayDone(n) ==
  /\ draining[n] /\ replay[n] = <<>>
  /\ draining' = [draining EXCEPT ![n] = FALSE]
  /\ meta' = [meta EXCEPT ![n] = [ch |-> chan[n], key |-> key[n]]]
  /\ UNCHANGED <<chan, key, prev, rotating, buffered, replay, msgVars, bounds,
                 connected, gossip, fetch, rot, last>>
-----------------------------------------------------------------------------
(* handle_peer_connected: the peer is registered and asked for the manifest;
   the admin also broadcasts its channel manifest again. *)
PeerConnected(n, s) ==
  /\ ~draining[n]
  /\ connects < MaxConnects
  /\ <<n, s>> \in PeerDials
  /\ connects' = connects + 1
  /\ connected' = [connected EXCEPT ![n] = @ \cup {s}]
  /\ FetchManifest(n, {s})
  /\ IF n = Admin
     THEN Publish(n, [type |-> "ChannelManifestBroadcast", ch |-> chan[n]])
     ELSE UNCHANGED gossip
  /\ UNCHANGED <<keyVars, bufVars, msgVars, faults, rot, last>>

(* SeedPeerConnected: the relay is asked for the manifest, and registered
   when it answers. *)
SeedPeerConnected(n, s) ==
  /\ ~draining[n]
  /\ connects < MaxConnects
  /\ <<n, s>> \in SeedDials
  /\ connects' = connects + 1
  /\ FetchManifest(n, {s})
  /\ UNCHANGED <<keyVars, bufVars, msgVars, faults, connected,
                 gossip, rot, last>>

PeerDisconnected(n, s) ==
  /\ ~draining[n]
  /\ s \in connected[n]
  /\ connected' = [connected EXCEPT ![n] = @ \ {s}]
  /\ UNCHANGED <<keyVars, bufVars, msgVars, bounds, gossip, fetch, rot, last>>

(* The process stops and starts again: the tables saved by save_table and the
   NodeStore survive, tasks, buffers and connections do not, and a message
   that was encrypted but not yet published was never sent. *)
Restart(n) ==
  /\ faults < MaxFaults
  /\ faults' = faults + 1
  /\ rotating' = [rotating EXCEPT ![n] = FALSE]
  /\ buffered' = [buffered EXCEPT ![n] = <<>>]
  /\ draining' = [draining EXCEPT ![n] = FALSE]
  /\ replay' = [replay EXCEPT ![n] = <<>>]
  /\ connected' = [connected EXCEPT ![n] = {}]
  /\ gossip' = [gossip EXCEPT ![n] = [p \in Paths |-> <<>>]]
  /\ fetch' = [t \in Fetchers |->
                 IF fetch[t].st # "idle" /\ fetch[t].by = n THEN IdleTask ELSE fetch[t]]
  /\ rot' = IF n = Admin THEN [r \in Rotators |-> IdleRot] ELSE rot
  /\ sent' = [m \in Msgs |->
                IF Author[m] = n /\ m \notin Range(log[n]) THEN NoKey ELSE sent[m]]
  /\ UNCHANGED <<keyVars, log, connects, last>>

(* A push to n is lost with the connection that carried it. *)
GossipLost(n, p) ==
  /\ faults < MaxFaults
  /\ gossip[n][p] # <<>>
  /\ faults' = faults + 1
  /\ TakeGossip(n, p)
  /\ UNCHANGED <<keyVars, bufVars, msgVars, connects, connected, fetch,
                 rot, last>>
-----------------------------------------------------------------------------
Rotate(r) ==
  \/ RotateGenerate(r)
  \/ RotateWrap(r)
  \/ RotateStore(r)
  \/ RotateAnnounce(r)
  \/ RotateBroadcast(r)

EventProcessor(n) ==
  \/ \E p \in Paths : HandleNewMessage(n, p)
  \/ \E p \in Paths : HandleRotation(n, p)
  \/ \E p \in Paths : HandleBroadcast(n, p)
  \/ ReplayMessage(n)
  \/ ReplayDone(n)

Environment ==
  \/ \E t \in Fetchers : FetchFails(t)
  \/ \E n \in Nodes, s \in Nodes : PeerConnected(n, s)
  \/ \E n \in Nodes, s \in Nodes : SeedPeerConnected(n, s)
  \/ \E n \in Nodes, s \in Nodes : PeerDisconnected(n, s)
  \/ \E n \in Nodes : Restart(n)
  \/ \E n \in Nodes, p \in Paths : GossipLost(n, p)

Next ==
  \/ \E m \in Msgs : SendEncrypt(m)
  \/ \E m \in Msgs : SendPublish(m)
  \/ \E r \in Rotators : Rotate(r)
  \/ \E n \in Nodes : EventProcessor(n)
  \/ \E t \in Fetchers : ServeManifest(t)
  \/ \E t \in Fetchers : HandleManifest(t)
  \/ Environment

Spec == Init /\ [][Next]_vars

(***************************************************************************)
(* Every task that can run is eventually run: the rotation call goes on to *)
(* its last line, the event processor's loop takes every event of every    *)
(* path, and a request that does not fail is answered.                     *)
(***************************************************************************)
Fairness ==
  /\ \A m \in Msgs : WF_vars(SendPublish(m))
  /\ \A r \in Rotators : WF_vars(Rotate(r) /\ rot[r].pc # "idle")
  /\ \A n \in Nodes, p \in Paths :
       WF_vars(HandleNewMessage(n, p) \/ HandleRotation(n, p) \/ HandleBroadcast(n, p))
  /\ \A n \in Nodes : WF_vars(ReplayMessage(n) \/ ReplayDone(n))
  /\ \A t \in Fetchers : WF_vars(ServeManifest(t)) /\ WF_vars(HandleManifest(t))

FairSpec == Spec /\ Fairness
-----------------------------------------------------------------------------
(* A message enters a node's log at most once, although it arrives on several
   relay paths and may be buffered and replayed (channel_handler.rs:163). *)
NoDuplicateDelivery ==
  \A n \in Nodes : \A i, j \in DOMAIN log[n] : log[n][i] = log[n][j] => i = j

(* The admin always encrypts under the newest key ever generated and can still
   read the one before, whatever older manifest a peer hands back, and across
   concurrent rotations and restarts (manifest_handler.rs:168). *)
AdminHoldsNewestKeys ==
  key[Admin] = last /\ prev[Admin] = last - 1

(* Messages wait for a key only while the rotation that will drain them is
   pending, and the event processor replays only while it is draining
   (channel_handler.rs:506, manifest_handler.rs:245). *)
BufferIsOwned ==
  \A n \in Nodes : /\ buffered[n] # <<>> => rotating[n]
                   /\ replay[n] # <<>> => draining[n]

(* A buffered message leaves the buffer only for the log: short of a restart,
   no order of rotations, fetches and replies drops it
   (manifest_handler.rs:243-259). *)
BufferedNotLost ==
  [][faults' = faults =>
       \A n \in Nodes :
         Range(buffered[n]) \cup Range(replay[n])
           \subseteq Range(buffered'[n]) \cup Range(replay'[n]) \cup Range(log'[n])]_vars

(* Once rotations are over, every member holds the admin's key for good, as the
   current key or as the retained one (channel.rs:432-478). *)
RotationReachesMembers ==
  <>[](\A n \in Members : key[Admin] \in {key[n], prev[n]})

(* "channels where FetchManifest returned stale data keep their buffer so
   messages continue to be buffered until the correct key arrives"
   (manifest_handler.rs:239-241): what the loop replays, it can read. *)
OnlyReadableReplayed ==
  \A n \in Nodes : \A i \in DOMAIN replay[n] : Readable(n, replay[n][i])
=============================================================================
