------------------------------ MODULE SeedLinks ------------------------------
(***************************************************************************)
(* The outbound links of one node: the gossip task (network_handle/        *)
(* gossip.rs) with its tables of peers, seed peers and cancel senders, the *)
(* dial tasks and reconnect loops it spawns (command.rs, reconnect.rs),    *)
(* and the set of communities the event processor believes to have their   *)
(* seed connected (event_processor/mod.rs).                                *)
(*                                                                         *)
(* An address leads to the host that listens there.  A connection is alive *)
(* or dead; a dead one is only noticed when something is published on it.  *)
(***************************************************************************)
EXTENDS Naturals, Sequences, FiniteSets, Functions

CONSTANTS
  Addrs,        \* addresses that can be dialled
  Hosts,        \* peer ids
  HostOf,       \* [Addrs -> Hosts]: who answers at an address
  Communities,
  SeedDials,    \* pairs <<a, c>>: c names a as a seed node
  PeerDials,    \* addresses dialled without is_seed (DHT discovery, mDNS)
  SelfAddrs,    \* addresses of this very node, which it cannot dial
  Tasks,        \* dial tasks and reconnect loops that can run at once
  MaxDials,     \* bound: Dial commands
  MaxDrops      \* bound: times connections are lost

ASSUME LinksAssumption ==
  /\ HostOf \in [Addrs -> Hosts]
  /\ SeedDials \subseteq Addrs \X Communities
  /\ PeerDials \subseteq Addrs /\ SelfAddrs \subseteq Addrs
  /\ \A a \in SelfAddrs, b \in Addrs \ SelfAddrs : HostOf[a] # HostOf[b]
  /\ MaxDials \in Nat /\ MaxDrops \in Nat

NoComm == "none"

VARIABLES
  up,          \* hosts that can be reached
  peers,       \* connected hosts -> is the connection alive
  seed_peers,  \* hosts tracked as seeds -> address and community dialled
  cancels,     \* seed_reconnect_cancels: address -> task holding the receiver
  task,        \* [Tasks -> dial task or reconnect loop]
  regs,        \* PeerRegistrations not yet handled
  events,      \* Seed(Peer)Connected and SeedPeerDisconnected events under way
  status,      \* AppState.seed_connected_communities
  own_addrs,   \* addresses known to be this node's own
  dials,       \* Dial commands so far
  drops        \* connection losses so far

vars == <<up, peers, seed_peers, cancels, task, regs, events, status, own_addrs,
          dials, drops>>

Targets == [addr : Addrs, comm : Communities]

IdleTask == [pc |-> "idle"]

TaskStates == {IdleTask}
  \cup [pc : {"dial", "wait", "connect"}, seed : {TRUE}, to : Targets]
  \cup [pc : {"dial"}, seed : {FALSE}, to : [addr : Addrs, comm : {NoComm}]]

Registrations ==
  [seed : {TRUE}, to : Targets, alive : BOOLEAN]
    \cup [seed : {FALSE}, to : [addr : Addrs, comm : {NoComm}], alive : BOOLEAN]

SeedEvents == [connected : BOOLEAN, comm : Communities]

TypeOK ==
  /\ up \subseteq Hosts
  /\ DOMAIN peers \subseteq Hosts /\ peers \in [DOMAIN peers -> BOOLEAN]
  /\ DOMAIN seed_peers \subseteq Hosts /\ seed_peers \in [DOMAIN seed_peers -> Targets]
  /\ DOMAIN cancels \subseteq Addrs /\ cancels \in [DOMAIN cancels -> Tasks]
  /\ task \in [Tasks -> TaskStates]
  /\ regs \in Seq(Registrations)
  /\ events \in Seq(SeedEvents)
  /\ status \subseteq Communities
  /\ own_addrs \subseteq SelfAddrs
  /\ dials \in 0 .. MaxDials /\ drops \in 0 .. MaxDrops

Init ==
  /\ up \in SUBSET {HostOf[a] : a \in Addrs \ SelfAddrs}
  /\ peers = <<>>
  /\ seed_peers = <<>>
  /\ cancels = <<>>
  /\ task = [t \in Tasks |-> IdleTask]
  /\ regs = <<>>
  /\ events = <<>>
  /\ status = {}
  /\ own_addrs \in SUBSET SelfAddrs     \* the local listen addresses
  /\ dials = 0
  /\ drops = 0
-----------------------------------------------------------------------------
Free == {t \in Tasks : task[t] = IdleTask}

(* The task a dial is spawned as. *)
Spawned == CHOOSE t \in Free : TRUE

(* Hosts other than this node. *)
Others == {HostOf[a] : a \in Addrs \ SelfAddrs}

SeedEventConnected(b, c) == [connected |-> TRUE, comm |-> c]

(* SeedPeerConnected and SeedPeerDisconnected. *)
SeedEvent(b, c) == [connected |-> b, comm |-> c]

(* A task stores its cancel sender under its address; the sender that was there
   is dropped, which closes the receiver of the task that holds it. *)
Cancelled(t) == cancels[task[t].to.addr] # t

Reachable(a) == HostOf[a] \in up /\ a \notin SelfAddrs
-----------------------------------------------------------------------------
(* NetworkCommand::Dial with is_seed. *)
DialSeed(a, c) ==
  /\ <<a, c>> \in SeedDials
  /\ dials < MaxDials
  /\ dials' = dials + 1
  /\ Free # {}
  /\ task' = [task EXCEPT ![Spawned] =
                [pc |-> "dial", seed |-> TRUE, to |-> [addr |-> a, comm |-> c]]]
  /\ cancels' = [b \in DOMAIN cancels \cup {a} |-> IF b = a THEN Spawned ELSE cancels[b]]
  /\ UNCHANGED <<up, peers, seed_peers, regs, events, status, own_addrs, drops>>

(* Dial without is_seed, and DiscoverAndDial: no cancel channel. *)
DialPeer(a) ==
  /\ a \in PeerDials
  /\ dials < MaxDials
  /\ dials' = dials + 1
  /\ Free # {}
  /\ task' = [task EXCEPT ![Spawned] =
                [pc |-> "dial", seed |-> FALSE, to |-> [addr |-> a, comm |-> NoComm]]]
  /\ UNCHANGED <<up, peers, seed_peers, cancels, regs, events, status, own_addrs, drops>>

(* NodeClient::connect succeeds, in a dial task or in a reconnect loop: the
   connection is handed to the gossip task and the task ends. *)
Connects(t) ==
  /\ task[t].pc \in {"dial", "connect"}
  /\ Reachable(task[t].to.addr)
  /\ regs' = Append(regs, [seed |-> task[t].seed, to |-> task[t].to, alive |-> TRUE])
  /\ task' = [task EXCEPT ![t] = IdleTask]
  /\ UNCHANGED <<up, peers, seed_peers, cancels, events, status, own_addrs, dials, drops>>

DialFailsAnyPeer(t) ==
  /\ task[t].pc = "dial"
  /\ ~Reachable(task[t].to.addr)
  /\ task' = [task EXCEPT ![t] = [@ EXCEPT !.pc = "wait"]]
  /\ events' = Append(events, SeedEvent(FALSE, task[t].to.comm))
  /\ UNCHANGED <<up, peers, seed_peers, cancels, regs, status, own_addrs, dials, drops>>

(* A dial fails: a seed is retried in a loop, unless the address turns out to
   be our own, which counts as connected. *)
DialFails(t) ==
  /\ task[t].pc = "dial"
  /\ ~Reachable(task[t].to.addr)
  /\ LET a == task[t].to.addr
         c == task[t].to.comm
     IN  \/ /\ ~task[t].seed
            /\ task' = [task EXCEPT ![t] = IdleTask]
            /\ UNCHANGED events
         \/ /\ task[t].seed /\ a \in own_addrs
            /\ task' = [task EXCEPT ![t] = IdleTask]
            /\ events' = Append(events, SeedEvent(TRUE, c))
         \/ /\ task[t].seed /\ a \notin own_addrs
            /\ task' = [task EXCEPT ![t] = [@ EXCEPT !.pc = "wait"]]
            /\ events' = Append(events, SeedEvent(FALSE, c))
  /\ UNCHANGED <<up, peers, seed_peers, cancels, regs, status, own_addrs, dials, drops>>

LoopCancelledAlways(t) ==
  /\ task[t].pc = "wait"
  /\ task' = [task EXCEPT ![t] = IdleTask]
  /\ UNCHANGED <<up, peers, seed_peers, cancels, regs, events, status, own_addrs,
                 dials, drops>>

(* reconnect_seed_loop: the cancel receiver resolves when its sender is gone. *)
LoopCancelled(t) ==
  /\ task[t].pc = "wait" /\ Cancelled(t)
  /\ task' = [task EXCEPT ![t] = IdleTask]
  /\ UNCHANGED <<up, peers, seed_peers, cancels, regs, events, status, own_addrs,
                 dials, drops>>

(* The back-off delay is over: try again, or stop if the address is our own. *)
LoopWakes(t) ==
  /\ task[t].pc = "wait"
  /\ task' = [task EXCEPT ![t] = IF task[t].to.addr \in own_addrs THEN IdleTask
                                 ELSE [@ EXCEPT !.pc = "connect"]]
  /\ UNCHANGED <<up, peers, seed_peers, cancels, regs, events, status, own_addrs,
                 dials, drops>>

LoopFailsStops(t) ==
  /\ task[t].pc = "connect"
  /\ ~Reachable(task[t].to.addr)
  /\ task' = [task EXCEPT ![t] = IdleTask]
  /\ UNCHANGED <<up, peers, seed_peers, cancels, regs, events, status, own_addrs,
                 dials, drops>>

LoopFails(t) ==
  /\ task[t].pc = "connect"
  /\ ~Reachable(task[t].to.addr)
  /\ task' = [task EXCEPT ![t] = [@ EXCEPT !.pc = "wait"]]
  /\ UNCHANGED <<up, peers, seed_peers, cancels, regs, events, status, own_addrs,
                 dials, drops>>
-----------------------------------------------------------------------------
(* The gossip task takes a registration: the first connection to a host enters
   the tables, a further one is dropped; either way the community of a seed is
   told. *)
Register ==
  /\ regs # <<>>
  /\ regs' = Tail(regs)
  /\ LET r == Head(regs)
         h == HostOf[r.to.addr]
     IN  /\ \/ /\ h \notin DOMAIN peers
               /\ peers' = [g \in DOMAIN peers \cup {h} |->
                              IF g = h THEN r.alive ELSE peers[g]]
               /\ seed_peers' = IF r.seed
                                THEN [g \in DOMAIN seed_peers \cup {h} |->
                                        IF g = h THEN r.to ELSE seed_peers[g]]
                                ELSE seed_peers
            \/ /\ h \in DOMAIN peers
               /\ UNCHANGED <<peers, seed_peers>>
         /\ events' = IF r.seed THEN Append(events, SeedEvent(TRUE, r.to.comm)) ELSE events
  /\ UNCHANGED <<up, cancels, task, status, own_addrs, dials, drops>>

(* NetworkCommand::Publish: sending on a dead connection fails.  The host leaves
   the tables; for a seed the community is told, in the order of a hash map, and
   a reconnect loop starts, with a cancel channel of its own. *)
Publish ==
  LET dead == {h \in DOMAIN peers : ~peers[h]}
      lost == dead \cap DOMAIN seed_peers
      loop == CHOOSE f \in Injection(lost, Free) : TRUE
      spawned == {loop[h] : h \in lost}
      dialled == {seed_peers[h].addr : h \in lost}
  IN  /\ dead # {}
      /\ Injection(lost, Free) # {}
      /\ peers' = [h \in DOMAIN peers \ dead |-> peers[h]]
      /\ seed_peers' = [h \in DOMAIN seed_peers \ lost |-> seed_peers[h]]
      /\ \E told \in Bijection(1 .. Cardinality(lost), lost) :
           events' = events \o
             [i \in 1 .. Cardinality(lost) |-> SeedEvent(FALSE, seed_peers[told[i]].comm)]
      /\ task' = [t \in Tasks |->
                    IF t \in spawned
                    THEN [pc |-> "wait", seed |-> TRUE,
                          to |-> seed_peers[CHOOSE h \in lost : loop[h] = t]]
                    ELSE task[t]]
      /\ cancels' = [a \in DOMAIN cancels \cup dialled |->
                       IF a \in dialled THEN loop[HostOf[a]] ELSE cancels[a]]
      /\ UNCHANGED <<up, regs, status, own_addrs, dials, drops>>

(* The event processor's handlers of the two seed events. *)
HandleSeedEvent ==
  /\ events # <<>>
  /\ events' = Tail(events)
  /\ LET e == Head(events)
     IN  status' = IF e.connected THEN status \cup {e.comm} ELSE status \ {e.comm}
  /\ UNCHANGED <<up, peers, seed_peers, cancels, task, regs, own_addrs, dials, drops>>

(* NetworkCommand::AddListenAddr: STUN or the router reports an own address. *)
AddListenAddr(a) ==
  /\ a \in SelfAddrs \ own_addrs
  /\ own_addrs' = own_addrs \cup {a}
  /\ UNCHANGED <<up, peers, seed_peers, cancels, task, regs, events, status, dials, drops>>
-----------------------------------------------------------------------------
(* Every connection to h dies, and h stays reachable or not. *)
ConnectionLost(h) ==
  /\ drops < MaxDrops
  /\ drops' = drops + 1
  /\ up' \in {up, up \ {h}}
  /\ peers' = [g \in DOMAIN peers |-> IF g = h THEN FALSE ELSE peers[g]]
  /\ regs' = [i \in DOMAIN regs |->
                IF HostOf[regs[i].to.addr] = h THEN [regs[i] EXCEPT !.alive = FALSE]
                ELSE regs[i]]
  /\ UNCHANGED <<seed_peers, cancels, task, events, status, own_addrs, dials>>

ComesUp(h) ==
  /\ h \notin up
  /\ up' = up \cup {h}
  /\ UNCHANGED <<peers, seed_peers, cancels, task, regs, events, status, own_addrs,
                 dials, drops>>

TaskStep(t) ==
  \/ Connects(t)
  \/ DialFails(t)
  \/ LoopCancelled(t)
  \/ LoopWakes(t)
  \/ LoopFails(t)

Next ==
  \/ \E a \in Addrs, c \in Communities : DialSeed(a, c)
  \/ \E a \in Addrs : DialPeer(a)
  \/ \E t \in Tasks : TaskStep(t)
  \/ Register
  \/ Publish
  \/ HandleSeedEvent
  \/ \E a \in Addrs : AddListenAddr(a)
  \/ \E h \in Others : ConnectionLost(h)
  \/ \E h \in Others : ComesUp(h)

Spec == Init /\ [][Next]_vars

(***************************************************************************)
(* Tasks and both event loops are scheduled, delays end, and the node goes *)
(* on publishing (presence heartbeats).  Nothing makes a host come up.     *)
(***************************************************************************)
Fairness ==
  /\ \A t \in Tasks : WF_vars(TaskStep(t))
  /\ WF_vars(Register)
  /\ WF_vars(Publish)
  /\ WF_vars(HandleSeedEvent)

FairSpec == Spec /\ Fairness
-----------------------------------------------------------------------------
(* Hosts that a Dial command named as a seed and that are not this node. *)
Wanted == {HostOf[a] : a \in DOMAIN cancels \ SelfAddrs}

(* A task on its way to h that is not cancelled. *)
Pursues(t, h) ==
  /\ task[t] # IdleTask
  /\ task[t].seed
  /\ HostOf[task[t].to.addr] = h
  /\ ~Cancelled(t)

(* "When a seed peer drops, we spawn a reconnect loop so the embedded node stays
   connected" (gossip.rs:60-62): a seed that was dialled is connected, about to
   be registered, or pursued by a task nobody cancelled, however the cancel
   channels of several communities with the same seed replace one another. *)
SeedPursued ==
  \A h \in Wanted :
    \/ h \in DOMAIN peers
    \/ \E i \in DOMAIN regs : regs[i].seed /\ HostOf[regs[i].to.addr] = h
    \/ \E t \in Tasks : Pursues(t, h)

(* "Set of community IDs whose seed peer is currently connected" (api/mod.rs:298):
   once the events are handled, a community is in it only while the gossip task
   holds a connection to one of its seeds, or is that seed.  It holds as long as
   no two communities share a seed. *)
StatusTruthful ==
  events = <<>> =>
    \A c \in status : \E a \in Addrs :
      <<a, c>> \in SeedDials /\ (HostOf[a] \in DOMAIN peers \/ a \in own_addrs)

(* A seed that can be reached for good ends up connected for good, whatever was
   lost before: the retries of reconnect_seed_loop (reconnect.rs:16-20) meet in
   the end with a registration that the gossip task keeps. *)
SeedReconnects ==
  \A h \in Hosts :
    <>[](h \in up /\ h \in Wanted) => <>[](h \in DOMAIN peers /\ peers[h])
=============================================================================
