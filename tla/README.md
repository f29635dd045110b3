# A formal model of BitCord

BitCord is a peer-to-peer chat. This directory holds TLA+ models of its core,
the TLC configurations that check them and TLAPS proofs of the main safety
properties. `PROJECT.json` links every definition to the lines it models.

Paths below are relative to `src/crates/bitcord-core/src/` unless they say
otherwise.

## The system

| Part | State | Operations | Module |
|---|---|---|---|
| Channel keys (`api/rpc_server/channel.rs`, `api/event_processor/*`) | current and previous key, channel manifest, buffer of unreadable messages | `channel_rotate_key`, handlers of `NewMessage`, `ChannelKeyRotation`, `ChannelManifestBroadcast`, `ManifestReceived`, connections, restart | `ChannelKeys` |
| Community manifests (`api/rpc_server/{community,channel}.rs`, `api/event_processor/*`, `node/handler.rs`) | the manifest in memory, on disk and in the node store; channels | create, join, update, leave, delete; create, delete and reorder channels; gossip, fetch, hosting, push to a new seed, restart | `Manifests` |
| Membership (`api/event_processor/community_handler.rs`, `api/rpc_server/{community,message}.rs`) | member lists in memory and in the node store, bans | join, leave, kick, ban, role change, their gossip, the lists that manifest answers carry, restart | `Membership` |
| Channel history (`node/store.rs`, `state/message_log.rs`) | rows of the node store, in-memory log | `message_send`, gossip, catch-up, retention, restart | `ChannelHistory`, `SeqLog` |
| Edits, deletions, reactions (`api/rpc_server/message.rs`, `api/event_processor/channel_handler.rs`) | log entries, rows, reaction cache | the `message_` and `reaction_` calls, their gossip, history answers, restart | `Messages` |
| Direct messages (`api/rpc_server/dm.rs`, `network/network_handle/command.rs`, `node/handler.rs`) | conversations, mailboxes, commands and requests under way, announced mailboxes | `dm_send` and its routes, the push to clients, the mailbox fetch, the preferred mailbox, stop and start | `DirectMessages` |
| DHT (`dht/`, `crates/bitcord-dht`) | routing tables, records with their age, cached clients, a lookup under way, the snapshot on disk | connections, announcements, iterative lookups, expiry, snapshot, restart | `Dht` |
| Seed links (`network/network_handle/*`) | peers, seed peers, cancel senders, dial tasks, seed status | dial, discovery, register, publish, reconnect loop, seed events | `SeedLinks` |
| Node server (`node/handler.rs`, `node/server.rs`) | sessions, store | client requests | as used by the others |
| Cryptography, NAT, mDNS, TLS, UI | | | not modelled |

How they interact: the gossip task owns the connections and serves commands
from the application. Everything it learns goes through one event queue to the
event processor, one sequential task per node. JSON-RPC handlers run beside it
and share its tables. Peers reach the node through its QUIC server, which shares
the node store. So the hard behaviours are: RPC calls against the event
processor; gossip that is reordered between relays, duplicated or lost; answers
that are stale when they are applied; restarts between two writes; and
connections whose loss is noticed late.

Each module has the users' calls, the event processor, the network and the
faults of its part, and takes from the others only what its part needs. What is
an idealisation in one module is a subject of another: `Messages` has every key
and every author, which `ChannelKeys` and `Membership` do not.

## The models

**ChannelKeys.** One channel, an admin, members and a relay. A key is a number, a
message remembers the key it was encrypted under, and is readable under the
current or the previous key of a node. `channel_rotate_key` is five actions, one
per critical section (`RotateGenerate` to `RotateBroadcast`); `message_send` is
two. The event processor takes one event at a time; a replay of buffered
messages (`ReplayMessage`, `ReplayDone`) keeps it busy. `gossip[n][p]` is a
FIFO queue per receiver and relay path. `GossipLost` and `Restart` are the
faults. Membership is fixed.

**Manifests.** One community with its creator, other users and one possible seed.
A manifest is its version, an identity for its text, its signer, the live
channels, whether it lists the seed, and the tombstone flag. A node has three
copies (`comm`, `disk`, `meta`), and each action writes the ones its handler
writes: `community_update_manifest` leaves the node store alone,
`channel_delete` stores the old manifest, `community_delete` makes its tombstone
in memory only. A removal by a call is two steps, with the event processor
running in between; a removal by an event is one. A node has one
`FetchManifest` task at a time. `require_seed_connected` is left out: a call it
refuses is no step.

**Membership.** Users around one seed. A record is the role it shows and the role
its signature covers. The seed relays what a linked user publishes; a user whose
link is down misses it. `granted` and `gone` are history variables for the
properties: roles given by an admin's call, and users that left or were removed.

**ChannelHistory.** One channel at one node, with a relay that numbers its rows
independently. `store` maps sequence numbers to messages, `log` is the message
log. `SweepMeasure` and `SweepDelete` are the two transactions of
`enforce_retention`. Every message is readable. Removal of a community during
a retention pass is left out.

**SeqLog** is what the channel's table promises: a log without gaps that grows at
its end and shrinks at its start. `ChannelHistory` implements it, with `rows`
mapped to `store`; the two transactions of a retention pass map to a stutter and
a `Trim`.

**Messages.** The entries of one channel on several nodes. A reaction is an entry
of the log as well as an element of the reaction cache. A call changes the log
in one step, and stores and publishes in a later one. Edits and tombstones are
applied to the log and not to the rows, as in the code. `changed` records which
edits and deletions were made, and by whom. The reaction cache is kept by loops
(`Integrated` over a history answer, `Replayed` at a restart); `ReactionsOf` says
independently what a log amounts to: a reaction is there if some entry adds it
and no later one takes it back.

**DirectMessages.** Two users and a headless node. A user has an Ed25519 and an
X25519 key, which name different mailboxes (`mail`, by node and key). `dm_send` files the message, then
queues a command; the network task picks the route (a connected recipient, the
given or an announced mailbox, an address), and the request may fail before or
after the mailbox has taken it. Which of the announced records a DHT lookup
finds, if any, is a free choice.

**Dht.** An id is its bits, the highest first; distance is their XOR, ordered like
the arrays of the code, and the bucket is the highest bit of it. There is one key
of each of the three kinds of record. A lookup is one action per round, over a
list of its own, while tables change; the nodes asked have the asker in their
tables when they answer. The loops of the code (stable sort, `dedup_by_key`,
filters, repeated `add_peer`) are functions of the round. Time is counted in ticks that are long
beside a lookup. The 60-second cooldown of announcements is left out (an
announcement that it skips is no step), a node that announces is taken to know
its address, and a node that did not answer during a walk does not answer the
question at its end either.

**SeedLinks.** The outbound connections of one node. A task is a dial or a
reconnect loop. A cancel sender is represented by the task that holds its
receiver: replacing the entry cancels the task that was there. A dead connection
stays in `peers` until `Publish` fails on it. A dial succeeds exactly if the host
is up when it ends.

## Runs

Passing runs:

| Run | Shows | Bounds |
|---|---|---|
| `keys_safety` | `NoDuplicateDelivery`, `AdminHoldsNewestKeys`, `BufferIsOwned`, `BufferedNotLost` | one member, one message, one rotation, one fetch task, two relay paths, one connection, two faults: enough for a message to overtake its key, arrive twice, be buffered and be replayed |
| `keys_liveness` | `RotationReachesMembers`, `AdminHoldsNewestKeys` | one rotation, two fetch tasks, two connections, no faults |
| `manifests` | `OnlyCreatorSigned`, `DiskHoldsManifest`, `RestartKeepsRemoval` | a creator, a member and a seed, one channel, creation and two further calls, one connection, one fault: enough for a second version, an answer that arrives after the community was left, and a crash inside a removal |
| `membership` | `RolesGranted`, `SeedNeverListed`, `JoinerReachesSeed` | a creator, a member and a seed, two calls, one peer found in the DHT, one fault |
| `history_safety` | `Contiguous`, `RowsKept`, `RetentionExact`, `RelayedOnce`, `StoreWithinLog`, `StoreIsLog` (the refinement of `SeqLog`) | three messages (own, from a relay, from a client of the own server), one of double size, two rows at the relay, two retention passes, one restart |
| `messages` | `ReactionsMatchLog`, `OnlyAuthorChanges`, `LogKept` | two nodes, three messages or reactions (a message, a reaction and its removal), one edit or deletion, one history answer, one fault |
| `dms` | `FiledWithPeer`, `SendAccounted`, `SendSettles`, `DirectDelivered` | two users and a headless node, one message, two stops or lost connections, one preference or discovered address |
| `dht` | `WalkComplete`, `CommunityFresh` | three nodes with ids of two bits, buckets of one entry so that one overflows, the two closest peers looked at, one node asked per round, two dials, three operations, one tick |
| `links` | `SeedPursued`, `StatusTruthful`, `SeedReconnects` | two remote hosts and one own address, one remote seed, two dials, two losses, three tasks |

`messages` and `keys_safety` use symmetry, over nodes and relay paths that no
definition tells apart; neither checks liveness. Deadlock is not checked: the
workloads are bounded and end.

What the properties say, in short:

- `OnlyCreatorSigned`: `channel_create` and `channel_reorder` let any user sign a
  manifest, but no other node ever keeps one the creator did not sign.
- `DiskHoldsManifest`: what is on disk is what is in memory after every step,
  except for a tombstone and a placeholder, which the code does not save.
- `RestartKeepsRemoval`: once a removal is through, a restart does not bring the
  community back out of the node store. It may be brought back by an answer that
  was under way, which is not a restart.
- `RolesGranted`: records are put over others unverified and re-signed, yet no
  role appears that no admin gave. `SeedNeverListed`: a node that only hosts is
  in no list. `JoinerReachesSeed`: `community_join` publishes before it is
  connected, but the fetch on the next connection makes it known.
- `ReactionsMatchLog`: the cache always equals what the log's entries amount to.
- `SendAccounted`, `SendSettles`: no message stays shown as sent without being
  under way, held by a node or reported, except in the two cases below.
- `WalkComplete`: a lookup forgets no node it was told of and asks none twice.
  `CommunityFresh`: no copy of a record is newer than its announcement.

`RotationReachesMembers` is claimed for a single rotation. With a second one
(three keys, two fetch tasks, two connections) two stale answers applied in a
row can leave a member without the newest key, and TLC reports it.
`StatusTruthful` is checked where no two communities share a seed, and
`SeedPursued` where no seed is also dialled as an ordinary peer. `SendAccounted`
and `SendSettles` except a sender that stops, and a recipient whose key was not
found: `dm_send` then keeps the message as sent and sends nothing.

Runs that exhibit a disagreement between the code and its own documentation:

| Run | Property | What happens |
|---|---|---|
| `keys_replay` | `OnlyReadableReplayed` | a still unreadable message is replayed with the buffer's mutex held; the handler locks it again |
| `history_catchup` | `CatchUpComplete` | sequence numbers of one store are used against another |
| `dms_offline` | `OfflineDelivered` | mail is stored under the recipient's X25519 key and fetched under its Ed25519 key |

### Other disagreements met while modelling

The models show these too; they are not kept as runs.

- A `ChannelManifestBroadcast` that installs a new key before the manifest
  answer leaves the buffer undrained (`community_handler.rs:110`, against
  `api/mod.rs:305`).
- A relay that handles this broadcast updates the manifest it stores but not the
  keys it serves (`community_handler.rs:244`, against
  `rpc_server/channel.rs:454`).
- A message published to the own server is stored by the Gossip handler and by
  the event processor, and shows twice after a restart (`node/handler.rs:579`).
- A seed first met through discovery is not reconnected
  (`network_handle/gossip.rs:211`), and of two communities with one seed only
  one is told of its loss (`network_handle/command.rs:276`).
- Edits and deletions of messages are undone by a restart, since the rows keep
  the original; a member kicked by this node is listed again, for the same
  reason.
- A version number can name two different manifests, when two users re-sign the
  same one.
- A ban is known to the admin's node only, so the banned user's own node lets it
  join again.
- `community_delete` puts no tombstone in the node store, and a node that receives
  one removes the community. Only a channel call that runs during the deletion
  stores one, until the deletion ends. So a node that was offline finds no peer
  "that still holds the tombstone manifest" (`manifest_handler.rs:50-53`).

## Fairness

`ChannelKeys`: started calls run to their end, the event processor takes every
event, requests are answered (`tokio` schedules every ready task). Rotations,
connections and faults are not fair. `Membership`: the event processor and the
fetch tasks run, and a user that knows the community connects to its seed again
(the reconnect loop of `SeedLinks`). `DirectMessages`: tasks and event processors
run, a stopped node is started again, and it connects to its seed; no send,
stop or choice of route is fair. `SeedLinks`: tasks, both event loops and
`Publish` are fair. Publishing goes on because the front end sends a presence
heartbeat every 15 seconds (`src/app/src/layouts/AppLayout.tsx`). Nothing makes
a host come up; `SeedReconnects` assumes it in its premise.

## Proofs

The theorems hold for all values of the constants that satisfy the `ASSUME`s.
These say that bounds and sizes are numbers, that the nodes with a role of their
own (admin, seed) are different ones, and that `None` is not a value; `Dht` adds
that its nodes are finitely many, and `SeedLinks` that the node's own addresses
lead to no other host.

- `ChannelKeysProofs`: `TypeCorrect`, `DeliveredOnce`, `BuffersOwned` and
  `BufferedKept` are inductive relative to `TypeOK`. `AdminNeverFallsBack` needs
  `AdminUntold` as well: the admin never receives a rotation of its own channel.
- `ManifestsProofs`: `TypeCorrect`, `CreatorSigned`, `ManifestSaved` and
  `RemovalKept` rest on `IInv`. It says of each node what the first two
  properties say, and adds two facts they need: the manifest on its way to a new
  seed is the creator's (`SyncSigned`), and a user's node that has no manifest
  and is not removing one stores none (`RemovedAt`), which is what makes
  `RestartKeepsRemoval` an invariant's consequence. Since all but `SyncSigned`
  is about one node, four lemmas (`UntouchedGood`, `WrittenGood`, `DroppedGood`,
  `HostedGood`) cover what any step can do to a node's copies.
- `MembershipProofs`: `TypeCorrect`, `OnlyGrantedRoles` and `HostNotListed` rest
  on one `IInv`: every list, queue and answer is made of good ones. It adds to
  the properties that a `MemberRoleUpdated` in a queue names a granted role, and
  that lists on their way do not list the seed.
- `DirectMessagesProofs`: `TypeCorrect`, `FiledOnce` and `NoSilentLoss` rest on
  one `IInv`. That a message is filed once needs that every message in a
  conversation, mailbox, command, request or event has a number that was given
  out, so that the next one is new (`Data`). That none is lost silently needs that
  a command is its own node's (`CommandsOwn`), since a failure is told to the
  sender, and that an answered request has left its message in the mailbox
  (`AnsweredHeld`).
- `ChannelHistoryProofs`: `RowsContiguous` and `RowsNeverOverwritten` rest on
  `RowsInv`. Contiguity alone is not inductive, because a pending deletion could
  open a gap; the invariant adds that the measured keys are the oldest part of
  the rows until they are deleted. `StoreImplementsLog` uses the same invariant
  for the refinement of `SeqLog`. `RetentionIsExact` adds that the total which a
  retention pass remembers is still what its rows take (`SizeInv`): appends in
  between do not touch them. `HistoryTyped`, `EachRelayedOnce` and
  `StoredIsLogged` rest on `HistoryInv`. That a message is logged once is not
  inductive, since a restart rebuilds the log from the rows; so the rows have to
  be free of duplicates too (`RowsOnce`), a message being persisted must not have
  a row yet, and an own message must not come back from the relay before the call
  has stored it (`CarriedInv`). Messages that clients of the own server send
  are exempt throughout: the code stores those twice (see above).
- `MessagesProofs`: `MessagesTyped`, `ReactionsFollowLog`, `AuthorsAlone` and
  `DeletionsStay` rest on `MessagesInv`. The handlers compare an edit's author with
  the entry they have, so `AuthorsAlone` needs that all nodes have the same author
  for an entry. No variable records it; the invariant says that there is an
  assignment of authors which every log, row, event and answer agrees with
  (`\E who : Authored(who)`). `ReactionsFollowLog` proves of the loops that one more
  entry changes the cache exactly as it changes `ReactionsOf`.
- `DhtProofs`: `TablesBounded`, `LookupsComplete` and `RecordsNotProlonged` rest on
  `DhtInv`. It adds that a bucket lists a node once, or else `upsert`, which
  removes one entry, would leave another; that the announcements so far are not
  in the future; and that the list of a lookup is as `WalkComplete` says.
  `dedup_by_key` removes neighbours only. That it leaves every node once rests on
  the sort before it: XOR distances to one target differ for different ids
  (`DistanceTells`), so entries of one node are neighbours in the sorted list
  (`NearerGroups`). The width of ids, the sizes and the limits are arbitrary.
- `SeedLinksProofs`: `SeedNeverForgotten` rests on `LinksInv`, which adds where
  the addresses of tasks and registrations come from and that a connected seed is
  in `seed_peers`. Its hypothesis `SeedsDialledAsSeeds` excludes a seed that is
  also dialled as an ordinary peer. `TypeCorrect` needs no hypothesis.
  `StatusTrue` has to speak about events on their way: `StatusInv` says that the
  last word on a community, in the queue or in `status`, is true. It needs
  `SeedsUnshared` besides: of two communities with one seed, only one is told of
  its loss. The run `links` checks an instance that satisfies both.

What a loop computes is proved by induction on its rounds. The provers cannot use
induction theorems about operators, so `Induction` states it for the set of the
rounds that satisfy a property and is derived from the well-foundedness of the
naturals, and `LoopExists` shows that a loop has a value in every round.

Only model-checked: the liveness properties (`RotationReachesMembers`,
`JoinerReachesSeed`, `SendSettles`, `DirectDelivered`, `SeedReconnects`), which
are out of the prover's reach, and the three violated properties, which are
refuted by TLC's traces. Every other property of the passing runs has a theorem.

## Not modelled

- Cryptographic algorithms are ideal: a ciphertext is readable exactly under its
  key, and a signature verifies exactly for its signer.
- The capacities of the queues between tasks, the connection limit of the node
  server and the bandwidth limits. A wait of two tasks on each other's full queue
  (`network/network_handle/mod.rs:54`) is therefore outside the models.
- The contents of files: a save is one step, although a crash during the write
  can lose a table (`api/mod.rs:222`).
- The checks of hosting passwords and certificates in `JoinCommunity`: the
  models have the requests that pass them.
- Byte formats, TLS, NAT traversal, mDNS, the RPC transport, the desktop shell
  and the front end are input or output only. Presence and read state are
  display data that nothing else depends on.
- Compositions of the modules: each is checked by itself, with what it takes from
  the others stated in its header; two of them together exceed what TLC can
  enumerate at bounds where something happens.
