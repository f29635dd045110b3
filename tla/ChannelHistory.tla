--------------------------- MODULE ChannelHistory ---------------------------
(***************************************************************************)
(* The history of one channel at one member node: its rows in the          *)
(* NodeStore (node/store.rs), the in-memory MessageLog built from them     *)
(* (state/message_log.rs), and everything that writes either: the local    *)
(* user's message_send, gossip pushed by a relay, gossip published to this *)
(* node's own server, catch-up with FetchChannelHistory, the retention     *)
(* janitor and restarts.                                                   *)
(*                                                                         *)
(* Every message is readable here (ChannelKeys is about keys), and a       *)
(* redb write transaction is one step.                                     *)
(***************************************************************************)
EXTENDS Integers, Sequences, FiniteSets, FiniteSetsExt, Functions

CONSTANTS
  Msgs,         \* message identities
  Own,          \* sent by the local user
  Inbound,      \* published to this node's own server by its clients
  Size,         \* [Msgs -> bytes of the stored entry]
  MaxBytes,     \* per_channel_limit of the retention janitor
  MaxPushes,    \* bound: pushes from relays
  MaxRelayRows, \* bound: rows at the relay
  MaxFetches,   \* bound: history requests
  MaxSweeps,    \* bound: retention passes
  MaxRestarts   \* bound: restarts

(* Published by other members to the relay. *)
Remote == Msgs \ (Own \cup Inbound)

ASSUME HistoryAssumption ==
  /\ Own \subseteq Msgs /\ Inbound \subseteq Msgs /\ Own \cap Inbound = {}
  /\ Size \in [Msgs -> Nat \ {0}]
  /\ MaxBytes \in Nat \ {0}
  /\ {MaxPushes, MaxRelayRows, MaxFetches, MaxSweeps, MaxRestarts} \subseteq Nat

VARIABLES
  store,    \* rows of this node's NodeStore: seq -> message
  relay,    \* rows of the relay's NodeStore
  log,      \* MessageLog: sequence of [seq, id]
  call,     \* [Own \cup Inbound -> progress of the call that carries it]
  inbox,    \* gossip events not yet handled
  ep,       \* the event processor: idle, or inside a handler
  fetch,    \* the FetchChannelHistory task
  sweep,    \* enforce_retention between its two transactions
  used      \* how much of each bound is used up

vars == <<store, relay, log, call, inbox, ep, fetch, sweep, used>>

Idle == [pc |-> "idle"]

Entries == [seq : Nat, id : Msgs]

Ids(entries) == {e.id : e \in Range(entries)}

RowIds(rows) == {rows[s] : s \in DOMAIN rows}

EpStates ==
  {Idle} \cup [pc : {"persist"}, id : Msgs]
         \cup [pc : {"history"}, left : Seq(Entries), held : SUBSET Msgs]

FetchStates ==
  {Idle} \cup [pc : {"asked"}, since : Nat]
         \cup [pc : {"answered"}, entries : Seq(Entries), held : SUBSET Msgs]

SweepStates ==
  {Idle} \cup [pc : {"delete"}, keys : SUBSET Nat, total : Nat]

TypeOK ==
  /\ DOMAIN store \subseteq Nat /\ RowIds(store) \subseteq Msgs
  /\ DOMAIN relay \subseteq Nat /\ RowIds(relay) \subseteq Msgs
  /\ log \in Seq(Entries)
  /\ call \in [Own \cup Inbound -> {"idle", "logged", "stored", "done"}]
  /\ inbox \in Seq(Msgs)
  /\ ep \in EpStates
  /\ fetch \in FetchStates
  /\ sweep \in SweepStates
  /\ used \in [{"push", "fetch", "sweep", "restart"} -> Nat]

Init ==
  /\ store = <<>>
  /\ relay = <<>>
  /\ log = <<>>
  /\ call = [m \in Own \cup Inbound |-> "idle"]
  /\ inbox = <<>>
  /\ ep = Idle
  /\ fetch = Idle
  /\ sweep = Idle
  /\ used = [b \in {"push", "fetch", "sweep", "restart"} |-> 0]
-----------------------------------------------------------------------------
RowCount(rows) == Cardinality(DOMAIN rows)

NextSeqByCount(rows) == RowCount(rows)

(* The seq after the highest one in the table, or 0: append_message,
   and last_seq + 1 in the callers that resume a sync. *)
NextSeq(rows) ==
  IF DOMAIN rows = {} THEN 0 ELSE Max(DOMAIN rows) + 1

(* NodeStore::append_message, one write transaction; it does not look for the
   message among the rows. *)
AppendRow(rows, m) ==
  [s \in DOMAIN rows \cup {NextSeq(rows)} |-> IF s = NextSeq(rows) THEN m ELSE rows[s]]

(* NodeStore::get_messages: the entries from seq "since" on, in key order. *)
GetMessages(rows, since) ==
  LET read[n \in 0 .. NextSeq(rows)] ==
        IF n = 0 THEN <<>>
        ELSE IF n - 1 \in DOMAIN rows /\ n - 1 >= since
             THEN Append(read[n - 1], [seq |-> n - 1, id |-> rows[n - 1]])
             ELSE read[n - 1]
  IN  read[NextSeq(rows)]

LogAppendOffByOne(m) == log' = Append(log, [seq |-> Len(log) - 1, id |-> m])

(* MessageLog::append: seq is the length of the log. *)
LogAppend(m) == log' = Append(log, [seq |-> Len(log), id |-> m])

KnownIfLast(m) == log # <<>> /\ log[Len(log)].id = m

(* MessageLog::get_entry finds the message. *)
Known(m) == m \in Ids(log)

(* The lock on message_log is free: handle_channel_history_received holds it
   over its whole loop. *)
LogFree == ep.pc # "history"
-----------------------------------------------------------------------------
(* message_send of the local user: MessageLog, NodeStore, then Publish. *)
SendLog(m) ==
  /\ m \in Own /\ call[m] = "idle"
  /\ LogFree
  /\ LogAppend(m)
  /\ call' = [call EXCEPT ![m] = "logged"]
  /\ UNCHANGED <<store, relay, inbox, ep, fetch, sweep, used>>

SendStoreFirst(m) ==
  /\ m \in Own /\ call[m] = "idle"
  /\ store' = AppendRow(store, m)
  /\ call' = [call EXCEPT ![m] = "stored"]
  /\ UNCHANGED <<relay, log, inbox, ep, fetch, sweep, used>>

SendStore(m) ==
  /\ m \in Own /\ call[m] = "logged"
  /\ store' = AppendRow(store, m)
  /\ call' = [call EXCEPT ![m] = "stored"]
  /\ UNCHANGED <<relay, log, inbox, ep, fetch, sweep, used>>

(* The relay stores what reaches it; without an outbound peer nothing does. *)
SendPublish(m) ==
  /\ m \in Own /\ call[m] = "stored"
  /\ call' = [call EXCEPT ![m] = "done"]
  /\ \/ RowCount(relay) < MaxRelayRows /\ relay' = AppendRow(relay, m)
     \/ UNCHANGED relay
  /\ UNCHANGED <<store, log, inbox, ep, fetch, sweep, used>>

(* Another member's gossip, or its PushHistory of what it already published,
   reaches the relay; neither looks for the message among the rows. *)
RelayStore(m) ==
  /\ m \in Remote
  /\ RowCount(relay) < MaxRelayRows
  /\ relay' = AppendRow(relay, m)
  /\ UNCHANGED <<store, log, call, inbox, ep, fetch, sweep, used>>

(* A relay pushes a remote message: at any time, in any order, more than once
   over several relays, or never. *)
RelayPush(m) ==
  /\ m \in Remote \cap RowIds(relay)
  /\ used["push"] < MaxPushes
  /\ inbox' = Append(inbox, m)
  /\ used' = [used EXCEPT !["push"] = @ + 1]
  /\ UNCHANGED <<store, relay, log, call, ep, fetch, sweep>>

(* ClientRequest::Gossip at this node's own server: the message is stored and
   pushed to the gossip task of the same node. *)
ServerGossip(m) ==
  /\ m \in Inbound /\ call[m] = "idle"
  /\ store' = AppendRow(store, m)
  /\ inbox' = Append(inbox, m)
  /\ call' = [call EXCEPT ![m] = "done"]
  /\ UNCHANGED <<relay, log, ep, fetch, sweep, used>>
-----------------------------------------------------------------------------
(* handle_channel_message: a message already in the log is discarded, another
   is appended to the log under its lock ... *)
HandleNewMessage ==
  /\ ep = Idle /\ inbox # <<>>
  /\ inbox' = Tail(inbox)
  /\ \/ /\ Known(Head(inbox))
        /\ UNCHANGED <<log, ep>>
     \/ /\ ~Known(Head(inbox))
        /\ LogAppend(Head(inbox))
        /\ ep' = [pc |-> "persist", id |-> Head(inbox)]
  /\ UNCHANGED <<store, relay, call, fetch, sweep, used>>

(* ... and, the lock released, to the NodeStore. *)
PersistMessage ==
  /\ ep.pc = "persist"
  /\ store' = AppendRow(store, ep.id)
  /\ ep' = Idle
  /\ UNCHANGED <<relay, log, call, inbox, fetch, sweep, used>>

(* handle_manifest_received: catch up from the seq after the last stored one. *)
RequestHistory ==
  /\ ep = Idle /\ fetch = Idle
  /\ used["fetch"] < MaxFetches
  /\ fetch' = [pc |-> "asked", since |-> NextSeq(store)]
  /\ used' = [used EXCEPT !["fetch"] = @ + 1]
  /\ UNCHANGED <<store, relay, log, call, inbox, ep, sweep>>

(* ClientRequest::GetMessages at the relay; "held" records what it holds. *)
ServeHistory ==
  /\ fetch.pc = "asked"
  /\ fetch' = [pc |-> "answered", entries |-> GetMessages(relay, fetch.since),
               held |-> RowIds(relay)]
  /\ UNCHANGED <<store, relay, log, call, inbox, ep, sweep, used>>

FetchFails ==
  /\ fetch.pc = "asked"
  /\ fetch' = Idle
  /\ UNCHANGED <<store, relay, log, call, inbox, ep, sweep, used>>

(* handle_channel_history_received takes the lock on the log ... *)
HandleHistory ==
  /\ ep = Idle /\ fetch.pc = "answered"
  /\ ep' = [pc |-> "history", left |-> fetch.entries, held |-> fetch.held]
  /\ fetch' = Idle
  /\ UNCHANGED <<store, relay, log, call, inbox, sweep, used>>

(* ... and goes through the entries: one that is known is skipped, another is
   appended with the seq the relay gave it, and stored. *)
IntegrateEntry ==
  /\ ep.pc = "history" /\ ep.left # <<>>
  /\ ep' = [ep EXCEPT !.left = Tail(@)]
  /\ \/ /\ Known(Head(ep.left).id)
        /\ UNCHANGED <<log, store>>
     \/ /\ ~Known(Head(ep.left).id)
        /\ log' = Append(log, Head(ep.left))
        /\ store' = AppendRow(store, Head(ep.left).id)
  /\ UNCHANGED <<relay, call, inbox, fetch, sweep, used>>

HistoryDone ==
  /\ ep.pc = "history" /\ ep.left = <<>>
  /\ ep' = Idle
  /\ UNCHANGED <<store, relay, log, call, inbox, fetch, sweep, used>>
-----------------------------------------------------------------------------
(* What the rows numbered seqs take, added up row by row. *)
Bytes(rows, seqs) ==
  LET total[n \in 0 .. NextSeq(rows)] ==
        IF n = 0 THEN 0
        ELSE total[n - 1] + IF n - 1 \in seqs THEN Size[rows[n - 1]] ELSE 0
  IN  total[NextSeq(rows)]

(* enforce_retention, first pass: a read transaction measures the channel. *)
SweepMeasure ==
  /\ sweep = Idle
  /\ used["sweep"] < MaxSweeps
  /\ used' = [used EXCEPT !["sweep"] = @ + 1]
  /\ LET total == Bytes(store, DOMAIN store)
     IN  sweep' = IF total <= MaxBytes THEN Idle
                  ELSE [pc |-> "delete", keys |-> DOMAIN store, total |-> total]
  /\ UNCHANGED <<store, relay, log, call, inbox, ep, fetch>>

EvictedNewestFirst(rows, keys, total) ==
  {k \in keys : \A j \in keys : j >= k =>
     total - Bytes(rows, {i \in keys \cap DOMAIN rows : i > j}) > MaxBytes}

EvictedOneShort(rows, keys, total) ==
  {k \in keys : \A j \in keys : j <= k =>
     total - Bytes(rows, {i \in keys \cap DOMAIN rows : i <= j}) > MaxBytes}

(* Second pass: the measured keys in ascending order are removed while what is
   left of the measured total exceeds the limit. *)
Evicted(rows, keys, total) ==
  {k \in keys : \A j \in keys : j <= k =>
     total - Bytes(rows, {i \in keys \cap DOMAIN rows : i < j}) > MaxBytes}

SweepDelete ==
  /\ sweep.pc = "delete"
  /\ LET kept == DOMAIN store \ Evicted(store, sweep.keys, sweep.total)
     IN  store' = [s \in kept |-> store[s]]
  /\ sweep' = Idle
  /\ UNCHANGED <<relay, log, call, inbox, ep, fetch, used>>

(* AppState::new: the log is rebuilt from every stored row; calls, events and
   tasks of the old process are gone. *)
Restart ==
  /\ used["restart"] < MaxRestarts
  /\ used' = [used EXCEPT !["restart"] = @ + 1]
  /\ log' = GetMessages(store, 0)
  /\ call' = [m \in DOMAIN call |-> IF call[m] = "idle" THEN "idle" ELSE "done"]
  /\ inbox' = <<>>
  /\ ep' = Idle
  /\ fetch' = Idle
  /\ sweep' = Idle
  /\ UNCHANGED <<store, relay>>

Next ==
  \/ \E m \in Msgs : SendLog(m)
  \/ \E m \in Msgs : SendStore(m)
  \/ \E m \in Msgs : SendPublish(m)
  \/ \E m \in Msgs : RelayStore(m)
  \/ \E m \in Msgs : RelayPush(m)
  \/ \E m \in Msgs : ServerGossip(m)
  \/ HandleNewMessage
  \/ PersistMessage
  \/ RequestHistory
  \/ ServeHistory
  \/ FetchFails
  \/ HandleHistory
  \/ IntegrateEntry
  \/ HistoryDone
  \/ SweepMeasure
  \/ SweepDelete
  \/ Restart

Spec == Init /\ [][Next]_vars
-----------------------------------------------------------------------------
(* The rows of a channel are numbered without a gap, whatever retention removes
   while messages are being appended (store.rs:168, store.rs:595). *)
Contiguous ==
  \A i, k \in DOMAIN store : \A j \in i .. k : j \in DOMAIN store

Rows == INSTANCE SeqLog WITH rows <- store

(* The rows implement SeqLog: message_send, the event processor, the server's
   gossip handler and retention together only ever append at the end or drop
   from the beginning (store.rs:151-189, :564-606). *)
StoreIsLog == Rows!Spec

(* A stored row is never overwritten by a later append, although retention
   frees numbers and appends run between its two transactions (store.rs:168). *)
RowsKept ==
  [][\A s \in DOMAIN store \cap DOMAIN store' : store'[s] = store[s]]_store

(* A retention pass brings what it measured down to the limit, and removes no
   more than that takes: with the newest row it removed it was still above
   (store.rs:557-558). *)
RetentionExact ==
  [][sweep.pc = "delete" /\ sweep' = Idle /\ used' = used =>
       LET kept == sweep.keys \cap DOMAIN store'
           gone == DOMAIN store \ DOMAIN store'
       IN  /\ Bytes(store, kept) <= MaxBytes
           /\ gone # {} => Bytes(store, kept \cup {Max(gone)}) > MaxBytes]_vars

(* A message that reaches the node through relays, or that its own user sends,
   is in the log once: however many relays push it, when it is also part of the
   history fetched, and after a restart (channel_handler.rs:163, :595). *)
RelayedOnce ==
  \A i, j \in DOMAIN log : log[i].id = log[j].id /\ log[i].id \notin Inbound => i = j

(* Nothing is persisted behind the log's back: a row's message is in the log,
   or still on its way to it (channel_handler.rs:182-207). *)
StoreWithinLog ==
  RowIds(store) \subseteq Ids(log) \cup Range(inbox)

(* "so we correctly resume after messages that arrived via gossip"
   (manifest_handler.rs:606-608): when a catch-up is done, the log has every
   message the relay held when it answered. *)
CatchUpComplete ==
  [][ep.pc = "history" /\ ep' = Idle /\ used' = used => ep.held \subseteq Ids(log)]_vars
=============================================================================
