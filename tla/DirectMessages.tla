---------------------------- MODULE DirectMessages ----------------------------
(***************************************************************************)
(* Direct messages: dm_send and the other dm_ calls (rpc_server/dm.rs), the   *)
(* choice of a route (SendDm in network_handle/command.rs), the mailbox of   *)
(* the node a message is handed to (SendDm and GetDms in node/handler.rs),    *)
(* the push to connected clients, the fetch of a mailbox on connecting, and  *)
(* the recipient's handler (event_processor/dm_handler.rs).                  *)
(*                                                                         *)
(* A user has an Ed25519 key, which authenticates its connections, and an     *)
(* X25519 key, which a message is sealed to.  A DHT record that was ever      *)
(* announced may be the one that a lookup finds, or none is found: see Dht.   *)
(***************************************************************************)
EXTENDS Naturals, Sequences, Functions

CONSTANTS
  Users,      \* nodes with a user
  Seed,       \* a headless node, which holds mailboxes
  None,       \* no record found, no preferred mailbox
  MaxSends,   \* bound: direct messages ever sent
  MaxStops,   \* bound: nodes stopped and connections dropped
  MaxSets     \* bound: mailbox preferences set, and addresses discovered

Nodes == Users \cup {Seed}

Messages == {m \in [id : 1 .. MaxSends, from : Users, to : Users] : m.from # m.to}

(* The keys under which a mailbox may be stored. *)
X25519(u) == <<"x25519", u>>
Ed25519(u) == <<"ed25519", u>>

(* The mailboxes of a NodeStore are ranges of its MAIL table, one per key. *)
MailKeys == {X25519(u) : u \in Users} \cup {Ed25519(u) : u \in Users}

Commands == [msg : Messages, mailbox : Nodes \cup {None}, addr : Nodes \cup {None}]

Events == [type : {"DmReceived"}, key : MailKeys, msg : Messages]
            \cup [type : {"DmSendFailed"}, msg : Messages]

(* A request on its way to the node via, or its answer on the way back. *)
Tasks == [msg : Messages, via : Nodes, answered : BOOLEAN]

ASSUME ConstantsAssumption ==
  /\ Seed \notin Users /\ None \notin Nodes
  /\ {MaxSends, MaxStops, MaxSets} \subseteq Nat

VARIABLES
  up,         \* SUBSET Nodes: the nodes that run
  peers,      \* SUBSET (Users \X Nodes): whom a node is connected to, as a client
  dms,        \* [Nodes -> [Users -> Seq(Messages)]]: dms.json, by the other party
  mail,       \* [Nodes -> [MailKeys -> Seq(Messages)]]: the mailboxes of the NodeStore
  cmds,       \* [Users -> Seq(Commands)]: SendDm commands not yet taken
  tasks,      \* SUBSET Tasks: SendDm requests under way
  inbox,      \* [Nodes -> Seq(Events)]: events the processor has not handled
  failed,     \* SUBSET Messages: those the user was told of as not sent
  mailboxes,  \* [Users -> SUBSET Nodes]: announced mailbox records
  selfAddr,   \* [Nodes -> Nodes]: DhtState.self_addr, by whose address it is
  preferred,  \* [Users -> {Seed, None}]: config.preferred_mailbox_node
  sent,       \* messages so far
  unsealed,   \* (history) messages whose recipient's key was not found
  lost,       \* (history) messages a node had in memory when it stopped
  stops,      \* stops and dropped connections so far
  sets        \* preferences and discoveries so far

stored == <<dms, mail>>
sending == <<cmds, tasks, failed, sent, unsealed>>
records == <<mailboxes, selfAddr, preferred, sets>>
links == <<up, peers>>
history == <<lost, stops>>
vars == <<stored, sending, inbox, records, links, history>>

TypeOK ==
  /\ up \subseteq Nodes
  /\ peers \subseteq Users \X Nodes
  /\ \A p \in peers : p[1] # p[2] /\ p[1] \in up /\ p[2] \in up
  /\ dms \in [Nodes -> [Users -> Seq(Messages)]]
  /\ mail \in [Nodes -> [MailKeys -> Seq(Messages)]]
  /\ cmds \in [Users -> Seq(Commands)]
  /\ tasks \subseteq Tasks /\ \A t \in tasks : t.msg.from \in up
  /\ inbox \in [Nodes -> Seq(Events)]
  /\ \A n \in Nodes \ up : inbox[n] = <<>> /\ (n \in Users => cmds[n] = <<>>)
  /\ failed \subseteq Messages
  /\ mailboxes \in [Users -> SUBSET Nodes]
  /\ selfAddr \in [Nodes -> Nodes]
  /\ \A n \in Nodes : selfAddr[n] \in {n, Seed}
  /\ preferred \in [Users -> {Seed, None}]
  /\ sent \in 0 .. MaxSends
  /\ unsealed \subseteq Messages /\ lost \subseteq Messages
  /\ stops \in 0 .. MaxStops /\ sets \in 0 .. MaxSets

Init ==
  /\ up = Nodes /\ peers = {}
  /\ dms = [n \in Nodes |-> [u \in Users |-> <<>>]]
  /\ mail = [n \in Nodes |-> [k \in MailKeys |-> <<>>]]
  /\ cmds = [n \in Users |-> <<>>] /\ tasks = {}
  /\ inbox = [n \in Nodes |-> <<>>]
  /\ failed = {} /\ unsealed = {} /\ lost = {}
  /\ mailboxes = [u \in Users |-> {}]
  /\ selfAddr = [n \in Nodes |-> n]
  /\ preferred = [u \in Users |-> None]
  /\ sent = 0 /\ stops = 0 /\ sets = 0
-----------------------------------------------------------------------------
(* The addresses in the peer info of a user: the one its server was bound to
   when it started, and the one it announces itself with now. *)
PeerInfo(u) == {u, selfAddr[u]}

(* dm_send: the message is in dms.json before anything else is known.  Without
   the recipient's X25519 key (from the members, dm_peers or the DHT) nothing
   more happens; with it, SendDm carries the addresses found in the DHT. *)
DmSend(n, u, found, mailbox, addr) ==
  LET msg == [id |-> sent + 1, from |-> n, to |-> u]
  IN  /\ n \in up /\ u # n /\ sent < MaxSends
      /\ ~found => mailbox = None /\ addr = None
      /\ sent' = sent + 1
      /\ dms' = [dms EXCEPT ![n][u] = Append(@, msg)]
      /\ unsealed' = IF found THEN unsealed ELSE unsealed \cup {msg}
      /\ cmds' = IF found
                 THEN [cmds EXCEPT ![n] =
                         Append(@, [msg |-> msg, mailbox |-> mailbox, addr |-> addr])]
                 ELSE cmds
      /\ UNCHANGED <<mail, tasks, failed, inbox, records, links, history>>

(* dm_discard, which the client calls for a message that was not sent.  Its
   retain drops one message: none is filed twice, see FiledWithPeer. *)
DmDiscard(n, msg) ==
  /\ n \in up /\ msg \in failed /\ msg.from = n
  /\ \E i \in DOMAIN dms[n][msg.to] :
       /\ dms[n][msg.to][i] = msg
       /\ dms' = [dms EXCEPT ![n][msg.to] =
                     SubSeq(@, 1, i - 1) \o SubSeq(@, i + 1, Len(@))]
  /\ UNCHANGED <<mail, sending, inbox, records, links, history>>

(* What the sender is told when no request was answered. *)
SendFailed(msg) == [type |-> "DmSendFailed", msg |-> msg]

(* SendDm in handle_command, without the event when there is no route. *)
RouteSilently(n) ==
  LET cmd == Head(cmds[n])
      via == IF <<n, cmd.msg.to>> \in peers THEN cmd.msg.to
             ELSE IF cmd.mailbox # None THEN cmd.mailbox ELSE cmd.addr
  IN  /\ cmds[n] # <<>>
      /\ cmds' = [cmds EXCEPT ![n] = Tail(@)]
      /\ tasks' = IF via = None THEN tasks
                  ELSE tasks \cup {[msg |-> cmd.msg, via |-> via, answered |-> FALSE]}
      /\ UNCHANGED <<stored, inbox, failed, sent, unsealed, records, links, history>>

(* SendDm in handle_command: a connected recipient, else the mailbox, else the
   address in the recipient's peer info; one of them, and no other if it fails. *)
Route(n) ==
  LET cmd == Head(cmds[n])
      via == IF <<n, cmd.msg.to>> \in peers THEN cmd.msg.to
             ELSE IF cmd.mailbox # None THEN cmd.mailbox ELSE cmd.addr
  IN  /\ cmds[n] # <<>>
      /\ cmds' = [cmds EXCEPT ![n] = Tail(@)]
      /\ IF via = None
         THEN /\ inbox' = [inbox EXCEPT ![n] = Append(@, SendFailed(cmd.msg))]
              /\ UNCHANGED tasks
         ELSE /\ tasks' = tasks \cup {[msg |-> cmd.msg, via |-> via, answered |-> FALSE]}
              /\ UNCHANGED inbox
      /\ UNCHANGED <<stored, failed, sent, unsealed, records, links, history>>

(* The clients that node m pushes to: those connected, without itself. *)
PushedRemote(m) == {n \in Users : <<n, m>> \in peers}

(* Who gets a push of node m: every authenticated client, and m's own gossip
   task, which subscribes to its server's pushes. *)
Pushed(m) == {n \in Users : <<n, m>> \in peers} \cup {m}

(* append_dm: the next entry of the mailbox of that key. *)
AppendDm(m, key, msg) == [mail EXCEPT ![m][key] = Append(@, msg)]

(* SendDm at the node that holds the mailbox: append_dm under the recipient_pk
   of the request, which is the X25519 key that dm_send found; register_mailbox;
   and a push of the new entry. *)
ServeSendDm(t) ==
  LET key == X25519(t.msg.to)
      push == [type |-> "DmReceived", key |-> key, msg |-> t.msg]
  IN  /\ ~t.answered /\ t.via \in up
      /\ mail' = AppendDm(t.via, key, t.msg)
      /\ mailboxes' = [mailboxes EXCEPT ![t.msg.to] = @ \cup {selfAddr[t.via]}]
      /\ inbox' = [n \in Nodes |-> IF n \in Pushed(t.via) THEN Append(inbox[n], push)
                                   ELSE inbox[n]]
      /\ tasks' = (tasks \ {t}) \cup {[t EXCEPT !.answered = TRUE]}
      /\ UNCHANGED <<dms, cmds, failed, sent, unsealed, selfAddr, preferred,
                     sets, links, history>>

DmAck(t) ==
  /\ t.answered
  /\ tasks' = tasks \ {t}
  /\ UNCHANGED <<stored, cmds, failed, sent, unsealed, inbox, records, links, history>>

(* A send that is put back in the queue instead. *)
SendFailsRequeued(t) ==
  /\ tasks' = tasks \ {t}
  /\ cmds' = [cmds EXCEPT ![t.msg.from] =
                Append(@, [msg |-> t.msg, mailbox |-> t.via, addr |-> None])]
  /\ UNCHANGED <<stored, failed, sent, unsealed, inbox, records, links, history>>

(* The connection cannot be made, or is lost before the request or after it. *)
SendFails(t) ==
  /\ tasks' = tasks \ {t}
  /\ inbox' = [inbox EXCEPT ![t.msg.from] = Append(@, SendFailed(t.msg))]
  /\ UNCHANGED <<stored, cmds, failed, sent, unsealed, records, links, history>>
-----------------------------------------------------------------------------
(* handle_dm_received without the test of recipient_pk and the decryption. *)
OpenAny(n, e) == TRUE

(* The entry is for this node's X25519 key, and its secret opens the envelope. *)
Opens(n, e) == e.key = X25519(n) /\ e.msg.to = n

(* handle_dm_received, and DmSendFailed in process_swarm_events. *)
HandleEvent(n) ==
  LET e == Head(inbox[n])
      new == /\ e.type = "DmReceived"
             /\ Opens(n, e)
             /\ e.msg \notin Range(dms[n][e.msg.from])
  IN  /\ inbox[n] # <<>>
      /\ inbox' = [inbox EXCEPT ![n] = Tail(@)]
      /\ dms' = IF new THEN [dms EXCEPT ![n][e.msg.from] = Append(@, e.msg)] ELSE dms
      /\ failed' = IF e.type = "DmSendFailed" THEN failed \cup {e.msg} ELSE failed
      /\ UNCHANGED <<mail, cmds, tasks, sent, unsealed, records, links, history>>

(* The mailbox at node m that GetDms answers user n with: that of the key which
   the connection is authenticated with, from the first entry. *)
GetDms(n, m) == mail[m][Ed25519(n)]

(* A connection that may be to the node itself. *)
ConnectAny(n, m) ==
  /\ {n, m} \subseteq up /\ <<n, m>> \notin peers
  /\ peers' = peers \cup {<<n, m>>}
  /\ UNCHANGED <<stored, sending, inbox, records, up, history>>

(* A connection to a seed or a peer, and the FetchMailbox that its event sends.
   The fetch is not a step of its own: a mailbox only grows, and what it gets
   after the connection is pushed. *)
Connect(n, m) ==
  /\ {n, m} \subseteq up /\ n # m /\ <<n, m>> \notin peers
  /\ peers' = peers \cup {<<n, m>>}
  /\ inbox' = [inbox EXCEPT ![n] = @ \o
       [i \in DOMAIN GetDms(n, m) |->
          [type |-> "DmReceived", key |-> X25519(n), msg |-> GetDms(n, m)[i]]]]
  /\ UNCHANGED <<stored, sending, records, up, history>>

Disconnect(n, m) ==
  /\ stops < MaxStops /\ stops' = stops + 1
  /\ <<n, m>> \in peers
  /\ peers' = peers \ {<<n, m>>}
  /\ UNCHANGED <<stored, sending, inbox, records, up, lost>>

(* A node stops, with what it has not stored: commands, requests and events. *)
Stop(n) ==
  /\ stops < MaxStops /\ stops' = stops + 1
  /\ n \in up /\ up' = up \ {n}
  /\ peers' = {p \in peers : n \notin {p[1], p[2]}}
  /\ inbox' = [inbox EXCEPT ![n] = <<>>]
  /\ cmds' = IF n \in Users THEN [cmds EXCEPT ![n] = <<>>] ELSE cmds
  /\ tasks' = {t \in tasks : t.msg.from # n}
  /\ lost' = lost \cup {e.msg : e \in Range(inbox[n])}
                  \cup {t.msg : t \in tasks \ tasks'}
                  \cup (IF n \in Users THEN {c.msg : c \in Range(cmds[n])} ELSE {})
  /\ UNCHANGED <<stored, failed, sent, unsealed, records>>

(* A node starts with the address its server is bound to. *)
Start(n) ==
  /\ n \notin up /\ up' = up \cup {n}
  /\ selfAddr' = [selfAddr EXCEPT ![n] = n]
  /\ UNCHANGED <<stored, sending, inbox, mailboxes, preferred, sets, peers,
                 history>>
-----------------------------------------------------------------------------
(* dm_set_preferred_mailbox_community: the seed's address becomes the address
   that the node announces itself with, and is announced as the mailbox. *)
SetPreferredMailbox(n) ==
  /\ n \in up /\ sets < MaxSets /\ sets' = sets + 1
  /\ preferred' = [preferred EXCEPT ![n] = Seed]
  /\ selfAddr' = [selfAddr EXCEPT ![n] = Seed]
  /\ mailboxes' = [mailboxes EXCEPT ![n] = @ \cup {Seed}]
  /\ UNCHANGED <<stored, sending, inbox, links, history>>

ClearPreferredMailbox(n) ==
  /\ n \in up /\ preferred[n] # None
  /\ preferred' = [preferred EXCEPT ![n] = None]
  /\ UNCHANGED <<stored, sending, inbox, mailboxes, selfAddr, sets, links, history>>

(* discover_external_addr has found the node's own address. *)
DiscoverAddr(n) ==
  /\ n \in up /\ sets < MaxSets /\ sets' = sets + 1
  /\ selfAddr' = [selfAddr EXCEPT ![n] = n]
  /\ UNCHANGED <<stored, sending, inbox, mailboxes, preferred, links, history>>

(* The hourly re-announcement of a preferred mailbox. *)
AnnounceMailbox(n) ==
  /\ n \in up /\ preferred[n] # None
  /\ mailboxes' = [mailboxes EXCEPT ![n] = @ \cup {selfAddr[n]}]
  /\ UNCHANGED <<stored, sending, inbox, selfAddr, preferred, sets, links, history>>
-----------------------------------------------------------------------------
Announcements(n) ==
  \/ SetPreferredMailbox(n)
  \/ ClearPreferredMailbox(n)
  \/ DiscoverAddr(n)
  \/ AnnounceMailbox(n)

Calls(n) ==
  \/ \E u \in Users, found \in BOOLEAN :
       \E mailbox \in mailboxes[u] \cup {None}, addr \in PeerInfo(u) \cup {None} :
         DmSend(n, u, found, mailbox, addr)
  \/ \E msg \in failed : DmDiscard(n, msg)

Network ==
  \/ \E n \in Users : Route(n)
  \/ \E t \in tasks : ServeSendDm(t) \/ DmAck(t)
  \/ \E t \in tasks : SendFails(t)

Next ==
  \/ \E n \in Users : Calls(n) \/ Announcements(n)
  \/ Network
  \/ \E n \in Nodes : HandleEvent(n)
  \/ \E n \in Users, m \in Nodes : Connect(n, m) \/ Disconnect(n, m)
  \/ \E n \in Nodes : Stop(n) \/ Start(n)

Spec == Init /\ [][Next]_vars

(* The tasks and the event processor of a node that runs do not stop, a stopped
   node is started again, and it connects to its seed again (reconnect_seed_loop
   and bootstrap_network). *)
Fairness ==
  /\ WF_vars(Network)
  /\ \A n \in Nodes : WF_vars(HandleEvent(n)) /\ WF_vars(Start(n))
  /\ \A n \in Users : WF_vars(Connect(n, Seed))

FairSpec == Spec /\ Fairness
-----------------------------------------------------------------------------
(* Node x has the message in one of its mailboxes. *)
Holds(x, m) == \E k \in MailKeys : m \in Range(mail[x][k])

(* A direct message is kept by its two parties only, each under the other, and
   once, though a node pushes it to every client it has. *)
FiledWithPeer ==
  \A n \in Nodes, u \in Users : \A i \in DOMAIN dms[n][u] :
    /\ {dms[n][u][i].from, dms[n][u][i].to} = {n, u}
    /\ \A j \in DOMAIN dms[n][u] : dms[n][u][i] = dms[n][u][j] => i = j

(* A message that its sender still shows as sent is on its way, or some node
   holds it, or the sender is told; unless the recipient's key was not found or
   the sender stopped meanwhile. *)
SendAccounted ==
  \A n, u \in Users : \A m \in Range(dms[n][u]) : m.from = n =>
    \/ m \in unsealed \cup lost \cup failed
    \/ \E c \in Range(cmds[n]) : c.msg = m
    \/ \E t \in tasks : t.msg = m
    \/ SendFailed(m) \in Range(inbox[n])
    \/ \E x \in Nodes : Holds(x, m)

(* Every message whose recipient's key was found is, in the end, in a mailbox,
   or its sender is told that it was not sent, or the sender stopped. *)
SendSettles ==
  \A m \in Messages :
    m \in Range(dms[m.from][m.to]) \ unsealed
      ~> m \in lost \cup failed \/ \E x \in Nodes : Holds(x, m)

(* A message that the recipient's own node took comes to the conversation, unless
   the node stops before it has handled the event; no one reads that mailbox. *)
DirectDelivered ==
  \A m \in Messages :
    Holds(m.to, m) ~> m \in lost \cup Range(dms[m.to][m.from])

(* README.md: "allowing users to receive messages sent while they were offline". *)
OfflineDelivered ==
  \A m \in Messages :
    Holds(Seed, m) ~> m \in Range(dms[m.to][m.from])
=============================================================================
