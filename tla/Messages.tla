------------------------------- MODULE Messages -------------------------------
(***************************************************************************)
(* Sending, editing, deleting and reacting to the messages of one channel    *)
(* (rpc_server/message.rs), the gossip that carries it (channel_handler.rs), *)
(* history answers and restarts.                                            *)
(*                                                                         *)
(* A node keeps a message in the MessageLog, where edits and tombstones are  *)
(* applied, and in a row of the NodeStore, which is what other nodes get as  *)
(* history and what a restart loads.  A reaction is an entry of the log like  *)
(* a message, and also an element of a cache of reactions.  Every node has   *)
(* the channel key and lists every author; see ChannelKeys and Membership    *)
(* for the contrary.  One emoji is enough.                                   *)
(***************************************************************************)
EXTENDS Naturals, Sequences

CONSTANTS
  Nodes,        \* the users that share the channel
  None,         \* no row, no history answer
  MaxEntries,   \* bound: messages and reactions ever made
  MaxChanges,   \* bound: edits and deletions ever made
  MaxFetches,   \* bound: history requests
  MaxFaults     \* bound: restarts and lost events

Ids == 1 .. MaxEntries

Kinds == {"text", "add", "remove"}

(* LogEntry: the message a reaction is about (0: it is a text), and which edit's
   ciphertext it has (0: the original). *)
Entries ==
  {e \in [id : Ids, author : Nodes, kind : Kinds, of : Ids \cup {0},
          rev : 0 .. MaxChanges, deleted : BOOLEAN] : e.kind = "text" <=> e.of = 0}

Events == [type : {"NewMessage"}, entry : Entries]
            \cup [type : {"EditMessage"}, id : Ids, author : Nodes, rev : 1 .. MaxChanges]
            \cup [type : {"DeleteMessage"}, id : Ids, author : Nodes]

(* What a JSON-RPC call has still to do once it has changed the log: to store
   a row, for a new entry, and to publish. *)
Tails == [row : Entries \cup {None}, event : Events]

ASSUME ConstantsAssumption ==
  /\ None \notin Nodes /\ None \notin Entries /\ None \notin Seq(Entries)
  /\ {MaxEntries, MaxChanges, MaxFetches, MaxFaults} \subseteq Nat

VARIABLES
  log,        \* [Nodes -> Seq(Entries)]: MessageLog.channels
  reactions,  \* [Nodes -> SUBSET (Ids \X Nodes)]: MessageLog.reactions
  rows,       \* [Nodes -> Seq(Entries)]: the channel's rows of the NodeStore
  tails,      \* [Nodes -> SUBSET Tails]: JSON-RPC calls under way
  inbox,      \* [Nodes -> Seq(Events)]: events the processor has not handled
  answer,     \* [Nodes -> Seq(Entries) or None]: a history answer on its way
  made,       \* messages and reactions so far
  edits,      \* edits and deletions so far
  changed,    \* (history) <<id, rev, node>>: the edits made; rev 0: the deletions
  fetches,    \* history requests so far
  faults      \* restarts and losses so far

kept == <<log, reactions, rows>>
counts == <<made, edits, changed>>
vars == <<kept, tails, inbox, answer, counts, fetches, faults>>

TypeOK ==
  /\ log \in [Nodes -> Seq(Entries)]
  /\ reactions \in [Nodes -> SUBSET (Ids \X Nodes)]
  /\ rows \in [Nodes -> Seq(Entries)]
  /\ tails \in [Nodes -> SUBSET Tails]
  /\ inbox \in [Nodes -> Seq(Events)]
  /\ answer \in [Nodes -> Seq(Entries) \cup {None}]
  /\ made \in 0 .. MaxEntries
  /\ edits \in 0 .. MaxChanges
  /\ changed \in SUBSET (Ids \X (0 .. MaxChanges) \X Nodes)
  /\ fetches \in 0 .. MaxFetches
  /\ faults \in 0 .. MaxFaults

Init ==
  /\ log = [n \in Nodes |-> <<>>]
  /\ reactions = [n \in Nodes |-> {}]
  /\ rows = [n \in Nodes |-> <<>>]
  /\ tails = [n \in Nodes |-> {}]
  /\ inbox = [n \in Nodes |-> <<>>]
  /\ answer = [n \in Nodes |-> None]
  /\ made = 0
  /\ edits = 0
  /\ changed = {}
  /\ fetches = 0
  /\ faults = 0
-----------------------------------------------------------------------------
(* MessageLog::get_entry *)
Has(entries, id) == \E i \in DOMAIN entries : entries[i].id = id

(* MessageLog::react and ::unreact; a text changes nothing. *)
React(cache, e) ==
  CASE e.kind = "add"    -> cache \cup {<<e.of, e.author>>}
    [] e.kind = "remove" -> cache \ {<<e.of, e.author>>}
    [] OTHER             -> cache

(* MessageLog::edit and ::tombstone, on the entry with the identity. *)
Edited(entries, id, rev) ==
  [i \in DOMAIN entries |->
     IF entries[i].id = id THEN [entries[i] EXCEPT !.rev = rev] ELSE entries[i]]

TombstonedRemoves(entries, id) ==
  SelectSeq(entries, LAMBDA e : e.id # id)

Tombstoned(entries, id) ==
  [i \in DOMAIN entries |->
     IF entries[i].id = id THEN [entries[i] EXCEPT !.deleted = TRUE] ELSE entries[i]]

(* The entry with the identity is one of that author. *)
IsAuthor(n, id, author) ==
  \E i \in DOMAIN log[n] : log[n][i].id = id /\ log[n][i].author = author

(* A new entry at the end of the log, and its reaction in the cache. *)
Append1(n, e) ==
  /\ log' = [log EXCEPT ![n] = Append(@, e)]
  /\ reactions' = [reactions EXCEPT ![n] = React(@, e)]

FinishCallStores(n, t) ==
  /\ t \in tails[n]
  /\ tails' = [tails EXCEPT ![n] = @ \ {t}]
  /\ rows' = [rows EXCEPT ![n] = Append(@, t.row)]
  /\ inbox' = [o \in Nodes |-> IF o = n THEN inbox[o] ELSE Append(inbox[o], t.event)]
  /\ UNCHANGED <<log, reactions, answer, counts, fetches, faults>>

(* The rest of the calls: a row for a new entry, and the event to the others. *)
FinishCall(n, t) ==
  /\ t \in tails[n]
  /\ tails' = [tails EXCEPT ![n] = @ \ {t}]
  /\ rows' = IF t.row = None THEN rows ELSE [rows EXCEPT ![n] = Append(@, t.row)]
  /\ inbox' = [o \in Nodes |-> IF o = n THEN inbox[o] ELSE Append(inbox[o], t.event)]
  /\ UNCHANGED <<log, reactions, answer, counts, fetches, faults>>

(* The first part of message_send, reaction_add and reaction_remove, under the
   lock of the log. *)
NewEntry(n, kind, of) ==
  LET e == [id |-> made + 1, author |-> n, kind |-> kind, of |-> of,
            rev |-> 0, deleted |-> FALSE]
  IN  /\ made < MaxEntries
      /\ made' = made + 1
      /\ Append1(n, e)
      /\ tails' = [tails EXCEPT ![n] =
                     @ \cup {[row |-> e, event |-> [type |-> "NewMessage", entry |-> e]]}]
      /\ UNCHANGED <<rows, inbox, answer, edits, changed, fetches, faults>>

MessageSend(n) == NewEntry(n, "text", 0)

(* The target must be in the log; it may be deleted. *)
ReactionAdd(n, id) == Has(log[n], id) /\ NewEntry(n, "add", id)

ReactionRemove(n, id) == Has(log[n], id) /\ NewEntry(n, "remove", id)

(* The messages message_get_history shows, which are those a client names in a
   call: not the entries of reactions, nor those whose call is under way. *)
Shown(n) ==
  {log[n][i].id : i \in {j \in DOMAIN log[n] : log[n][j].kind = "text"}}
    \ {t.event.entry.id : t \in {u \in tails[n] : u.row # None}}

MessageEditAnyone(n, id) ==
  /\ id \in Shown(n)
  /\ edits < MaxChanges
  /\ edits' = edits + 1
  /\ changed' = changed \cup {<<id, edits + 1, n>>}
  /\ log' = [log EXCEPT ![n] = Edited(@, id, edits + 1)]
  /\ tails' = [tails EXCEPT ![n] = @ \cup {[row |-> None,
       event |-> [type |-> "EditMessage", id |-> id, author |-> n, rev |-> edits + 1]]}]
  /\ UNCHANGED <<reactions, rows, inbox, answer, made, fetches, faults>>

(* message_edit: by the author, in the log and not in the row. *)
MessageEdit(n, id) ==
  /\ id \in Shown(n) /\ IsAuthor(n, id, n)
  /\ edits < MaxChanges
  /\ edits' = edits + 1
  /\ changed' = changed \cup {<<id, edits + 1, n>>}
  /\ log' = [log EXCEPT ![n] = Edited(@, id, edits + 1)]
  /\ tails' = [tails EXCEPT ![n] = @ \cup {[row |-> None,
       event |-> [type |-> "EditMessage", id |-> id, author |-> n, rev |-> edits + 1]]}]
  /\ UNCHANGED <<reactions, rows, inbox, answer, made, fetches, faults>>

(* message_delete: a tombstone, by the author, in the log and not in the row. *)
MessageDelete(n, id) ==
  /\ id \in Shown(n) /\ IsAuthor(n, id, n)
  /\ edits < MaxChanges
  /\ edits' = edits + 1
  /\ changed' = changed \cup {<<id, 0, n>>}
  /\ log' = [log EXCEPT ![n] = Tombstoned(@, id)]
  /\ tails' = [tails EXCEPT ![n] = @ \cup {[row |-> None,
       event |-> [type |-> "DeleteMessage", id |-> id, author |-> n]]}]
  /\ UNCHANGED <<reactions, rows, inbox, answer, made, fetches, faults>>
-----------------------------------------------------------------------------
NextEvent(n, type) ==
  inbox[n] # <<>> /\ Head(inbox[n]).type = type

TakeEvent(n) ==
  inbox' = [inbox EXCEPT ![n] = Tail(@)]

(* NewMessage: a duplicate is dropped; else the log, the cache, the row. *)
HandleNewMessage(n) ==
  /\ NextEvent(n, "NewMessage")
  /\ TakeEvent(n)
  /\ LET e == Head(inbox[n]).entry
     IN  IF Has(log[n], e.id) THEN UNCHANGED kept
         ELSE Append1(n, e) /\ rows' = [rows EXCEPT ![n] = Append(@, e)]
  /\ UNCHANGED <<tails, answer, counts, fetches, faults>>

(* handle_edit_message: dropped for an unknown message or another author; an
   edit that is older than the one in the log is not. *)
HandleEdit(n) ==
  /\ NextEvent(n, "EditMessage")
  /\ TakeEvent(n)
  /\ LET e == Head(inbox[n])
     IN  log' = IF IsAuthor(n, e.id, e.author)
                THEN [log EXCEPT ![n] = Edited(@, e.id, e.rev)] ELSE log
  /\ UNCHANGED <<reactions, rows, tails, answer, counts, fetches, faults>>

(* handle_delete_message *)
HandleDelete(n) ==
  /\ NextEvent(n, "DeleteMessage")
  /\ TakeEvent(n)
  /\ LET e == Head(inbox[n])
     IN  log' = IF IsAuthor(n, e.id, e.author)
                THEN [log EXCEPT ![n] = Tombstoned(@, e.id)] ELSE log
  /\ UNCHANGED <<reactions, rows, tails, answer, counts, fetches, faults>>

(* FetchChannelHistory: the rows of a peer from the number of the own rows on. *)
FetchHistory(n, m) ==
  /\ fetches < MaxFetches /\ answer[n] = None
  /\ fetches' = fetches + 1
  /\ answer' = [answer EXCEPT ![n] = SubSeq(rows[m], Len(rows[n]) + 1, Len(rows[m]))]
  /\ UNCHANGED <<kept, tails, inbox, counts, faults>>

IntegrateReactsFirst(s, e) ==
  [log |-> IF Has(s.log, e.id) THEN s.log ELSE Append(s.log, e),
   reactions |-> React(s.reactions, e),
   rows |-> IF Has(s.log, e.id) THEN s.rows ELSE Append(s.rows, e)]

(* One entry of a history answer: what the log lacks is added to it, to the
   cache and to the rows. *)
Integrate(s, e) ==
  IF Has(s.log, e.id) THEN s
  ELSE [log |-> Append(s.log, e), reactions |-> React(s.reactions, e),
        rows |-> Append(s.rows, e)]

(* What a node keeps after the entries, one after the other. *)
Integrated(s, entries) ==
  LET after[k \in 0 .. Len(entries)] ==
        IF k = 0 THEN s ELSE Integrate(after[k - 1], entries[k])
  IN  after[Len(entries)]

(* handle_channel_history_received *)
HandleHistory(n) ==
  /\ answer[n] # None
  /\ LET s == Integrated([log |-> log[n], reactions |-> reactions[n], rows |-> rows[n]],
                         answer[n])
     IN  /\ log' = [log EXCEPT ![n] = s.log]
         /\ reactions' = [reactions EXCEPT ![n] = s.reactions]
         /\ rows' = [rows EXCEPT ![n] = s.rows]
  /\ answer' = [answer EXCEPT ![n] = None]
  /\ UNCHANGED <<tails, inbox, counts, fetches, faults>>
-----------------------------------------------------------------------------
(* The cache after the reactions of the rows, one after the other. *)
Replayed(entries) ==
  LET cache[k \in 0 .. Len(entries)] ==
        IF k = 0 THEN {} ELSE React(cache[k - 1], entries[k])
  IN  cache[Len(entries)]

(* AppState::new loads the log and the cache from the rows; calls under way
   and events are lost. *)
Restart(n) ==
  /\ faults < MaxFaults
  /\ faults' = faults + 1
  /\ log' = [log EXCEPT ![n] = rows[n]]
  /\ reactions' = [reactions EXCEPT ![n] = Replayed(rows[n])]
  /\ tails' = [tails EXCEPT ![n] = {}]
  /\ inbox' = [inbox EXCEPT ![n] = <<>>]
  /\ answer' = [answer EXCEPT ![n] = None]
  /\ UNCHANGED <<rows, counts, fetches>>

EventLost(n) ==
  /\ faults < MaxFaults
  /\ inbox[n] # <<>>
  /\ faults' = faults + 1
  /\ TakeEvent(n)
  /\ UNCHANGED <<kept, tails, answer, counts, fetches>>

Calls(n) ==
  \/ MessageSend(n)
  \/ \E id \in Ids : ReactionAdd(n, id) \/ ReactionRemove(n, id)
  \/ \E id \in Ids : MessageEdit(n, id) \/ MessageDelete(n, id)
  \/ \E t \in tails[n] : FinishCall(n, t)

EventProcessor(n) ==
  \/ HandleNewMessage(n)
  \/ HandleEdit(n)
  \/ HandleDelete(n)
  \/ HandleHistory(n)

Next ==
  \E n \in Nodes :
    \/ Calls(n)
    \/ EventProcessor(n)
    \/ \E m \in Nodes \ {n} : FetchHistory(n, m)
    \/ Restart(n)
    \/ EventLost(n)

Spec == Init /\ [][Next]_vars
-----------------------------------------------------------------------------
(* The reactions that the entries of a log amount to: those that were added and
   not removed by a later entry. *)
ReactionsOf(entries) ==
  {<<entries[i].of, entries[i].author>> :
     i \in {j \in DOMAIN entries :
              /\ entries[j].kind = "add"
              /\ \A k \in DOMAIN entries :
                   k > j /\ entries[k].kind = "remove" =>
                     <<entries[k].of, entries[k].author>> # <<entries[j].of, entries[j].author>>}}

(* The cache that message_get_history and ReactionUpdated report from is what
   the reaction entries of the node's own log amount to, in their order there,
   whether they came from a call, from gossip, from a history answer that
   repeats some of them, or from a restart. *)
ReactionsMatchLog ==
  \A n \in Nodes : reactions[n] = ReactionsOf(log[n])

(* A message changes only as its author changed it: the text in any log is the
   original or an edit made by the author, and a tombstone is the author's,
   though no handler compares an edit with the one it replaces. *)
OnlyAuthorChanges ==
  \A n \in Nodes : \A i \in DOMAIN log[n] :
    LET e == log[n][i]
    IN  /\ e.rev > 0 => <<e.id, e.rev, e.author>> \in changed
        /\ e.deleted => <<e.id, 0, e.author>> \in changed

(* Short of a restart, the log only grows and a deleted message stays deleted,
   whatever gossip and history answers bring afterwards. *)
LogKept ==
  [][\A n \in Nodes : faults' = faults =>
       \A i \in DOMAIN log[n] :
         /\ i \in DOMAIN log'[n] /\ log'[n][i].id = log[n][i].id
         /\ log[n][i].deleted => log'[n][i].deleted]_vars
=============================================================================
