--------------------------- MODULE SeedLinksProofs ---------------------------
(***************************************************************************)
(* For every number of addresses, hosts, communities and tasks: the tables *)
(* keep their shape; a seed that was dialled never falls between the       *)
(* gossip task's tables, the registrations and the reconnect loops,        *)
(* provided that it is only ever dialled as a seed; and what the event     *)
(* processor shows of a community's seed is true if it is that community's *)
(* alone.                                                                  *)
(***************************************************************************)
EXTENDS SeedLinks, FiniteSetTheorems, TLAPS

USE LinksAssumption

SeedAddrs == {d[1] : d \in SeedDials}

SeedHosts == {HostOf[a] : a \in SeedAddrs}

(* DHT discovery and mDNS report ordinary peers only. *)
SeedsDialledAsSeeds == \A a \in PeerDials : HostOf[a] \notin SeedHosts

(* A seed's task or registration carries an address that has a cancel entry,
   another one the address of an ordinary peer. *)
Dialled(x) == IF x.seed THEN x.to.addr \in DOMAIN cancels ELSE x.to.addr \in PeerDials

(* A host that is the target of a seed registration. *)
Registering(h) == \E i \in DOMAIN regs : regs[i].seed /\ HostOf[regs[i].to.addr] = h

(* The inductive invariant: the shapes of the tables, where their addresses come
   from, and that a connected seed is tracked as one. *)
LinksInv ==
  /\ DOMAIN cancels \subseteq SeedAddrs
  /\ own_addrs \subseteq SelfAddrs
  /\ task \in [Tasks -> TaskStates]
  /\ \A t \in Tasks : task[t] # IdleTask => Dialled(task[t])
  /\ regs \in Seq(Registrations)
  /\ \A i \in DOMAIN regs : Dialled(regs[i])
  /\ \A h \in DOMAIN seed_peers :
       /\ seed_peers[h] \in Targets
       /\ seed_peers[h].addr \in DOMAIN cancels
       /\ HostOf[seed_peers[h].addr] = h
  /\ DOMAIN peers \cap SeedHosts \subseteq DOMAIN seed_peers
  /\ SeedPursued

(* The addresses of seeds are addresses. *)
LEMMA SeedAddrsDialled == SeedAddrs \subseteq Addrs
  BY DEF SeedAddrs

(* A task that has a program counter other than "idle" is dialling, and only
   loops for seeds wait and connect. *)
LEMMA BusyTask ==
  ASSUME NEW x \in TaskStates, x.pc # "idle"
  PROVE  x # IdleTask /\ (x.pc # "dial" => x.seed)
<1>1. x # IdleTask
  BY DEF IdleTask
<1>2. QED BY <1>1, Zenon DEF TaskStates

(* An idle task is in a state of tasks. *)
LEMMA IdleIsState == IdleTask \in TaskStates
  BY DEF TaskStates

(* A reconnect loop is in a state of tasks and not idle. *)
LEMMA LoopIsState ==
  ASSUME NEW to \in Targets, NEW pc \in {"dial", "wait", "connect"}
  PROVE  LET x == [pc |-> pc, seed |-> TRUE, to |-> to]
         IN  x \in TaskStates /\ x # IdleTask
  BY DEF TaskStates, IdleTask

(* A seed's task keeps its target wherever it goes on. *)
LEMMA SeedTaskMoves ==
  ASSUME NEW x \in TaskStates, x # IdleTask, x.seed, NEW pc \in {"dial", "wait", "connect"}
  PROVE  LET y == [x EXCEPT !.pc = pc]
         IN  y \in TaskStates /\ y # IdleTask /\ y.seed = x.seed /\ y.to = x.to
<1>1. x \in [pc : {"dial", "wait", "connect"}, seed : {TRUE}, to : Targets]
  BY Zenon DEF TaskStates
<1>2. QED BY <1>1, Zenon DEF TaskStates, IdleTask

(* A registration whose connection is lost stays one of the same target. *)
LEMMA DeadRegistration ==
  ASSUME NEW r \in Registrations
  PROVE  LET d == [r EXCEPT !.alive = FALSE]
         IN  d \in Registrations /\ d.seed = r.seed /\ d.to = r.to
<1>1. CASE r \in [seed : {TRUE}, to : Targets, alive : BOOLEAN]
  BY <1>1, Zenon DEF Registrations
<1>2. CASE r \in [seed : {FALSE}, to : [addr : Addrs, comm : {NoComm}], alive : BOOLEAN]
  BY <1>2, Zenon DEF Registrations
<1>3. QED BY <1>1, <1>2, Zenon DEF Registrations

(* A task that is not idle and is neither changed nor cancelled by a step still
   pursues its host after it. *)
LEMMA StillPursues ==
  ASSUME NEW t \in Tasks, NEW h, Pursues(t, h), task'[t] = task[t],
         cancels'[task[t].to.addr] = cancels[task[t].to.addr]
  PROVE  Pursues(t, h)'
  BY DEF Pursues, Cancelled

(* Steps that leave the tables, the tasks and the registrations alone. *)
LEMMA TablesUnchanged ==
  ASSUME LinksInv, UNCHANGED <<seed_peers, cancels, task, regs>>,
         own_addrs' \subseteq SelfAddrs, DOMAIN peers' = DOMAIN peers
  PROVE  LinksInv'
<1>1. SeedPursued'
  BY DEF LinksInv, SeedPursued, Wanted, Pursues, Cancelled
<1>2. QED BY <1>1 DEF LinksInv, Dialled

(* One task changes state without leaving its target, or ends although it is
   cancelled or heads for this very node. *)
LEMMA TaskChanges ==
  ASSUME LinksInv, NEW t \in Tasks, task[t] # IdleTask, NEW s \in TaskStates,
         task' = [task EXCEPT ![t] = s],
         UNCHANGED <<peers, seed_peers, cancels, regs, own_addrs>>,
         \/ s # IdleTask /\ s.seed = task[t].seed /\ s.to = task[t].to
         \/ s = IdleTask /\ (\/ ~task[t].seed \/ Cancelled(t)
                             \/ task[t].to.addr \in SelfAddrs)
  PROVE  LinksInv'
<1>1. task' \in [Tasks -> TaskStates]
  BY DEF LinksInv
<1>2. \A u \in Tasks : task'[u] # IdleTask => Dialled(task[u])'
  BY DEF LinksInv, Dialled
<1>3. SeedPursued'
  <2>1. SUFFICES ASSUME NEW h \in Wanted, h \notin DOMAIN peers, ~Registering(h)
                 PROVE  \E u \in Tasks : Pursues(u, h)'
    BY DEF SeedPursued, Wanted, Registering
  <2>2. PICK u \in Tasks : Pursues(u, h)
    BY <2>1 DEF LinksInv, SeedPursued, Registering
  <2>3. CASE u # t
    BY <2>2, <2>3, StillPursues DEF LinksInv
  <2>4. CASE u = t
    <3>1. task[t].to.addr \notin SelfAddrs
      <4>1. PICK a \in DOMAIN cancels \ SelfAddrs : HostOf[a] = h
        BY DEF Wanted
      <4>2. a \in Addrs
        BY <4>1, SeedAddrsDialled DEF LinksInv
      <4>3. QED BY <2>2, <2>4, <4>1, <4>2 DEF Pursues
    <3>2. s # IdleTask /\ s.seed = task[t].seed /\ s.to = task[t].to
      BY <2>2, <2>4, <3>1 DEF Pursues
    <3>3. task'[t] = s
      BY DEF LinksInv
    <3>4. QED BY <2>2, <2>4, <3>2, <3>3 DEF Pursues, Cancelled
  <2>5. QED BY <2>3, <2>4
<1>4. QED BY <1>1, <1>2, <1>3 DEF LinksInv, Dialled

(* A dial of a seed. *)
LEMMA DialSeedStep ==
  ASSUME LinksInv, NEW a \in Addrs, NEW c \in Communities, DialSeed(a, c)
  PROVE  LinksInv'
<1> DEFINE n == [pc |-> "dial", seed |-> TRUE, to |-> [addr |-> a, comm |-> c]]
           t == Spawned
<1>1. t \in Tasks /\ task[t] = IdleTask
  BY DEF DialSeed, Spawned, Free
<1>2. n \in TaskStates /\ n # IdleTask
  BY DEF TaskStates, Targets, IdleTask
<1>3. /\ task' = [task EXCEPT ![t] = n]
      /\ DOMAIN cancels' = DOMAIN cancels \cup {a}
      /\ cancels'[a] = t
      /\ \A b \in DOMAIN cancels : b # a => cancels'[b] = cancels[b]
      /\ UNCHANGED <<peers, seed_peers, regs, own_addrs>>
  BY DEF DialSeed
<1> HIDE DEF t
<1>4. DOMAIN cancels' \subseteq SeedAddrs
  BY <1>3 DEF DialSeed, SeedAddrs, LinksInv
<1>5. task' \in [Tasks -> TaskStates] /\ task'[t] = n
  BY <1>1, <1>2, <1>3 DEF LinksInv
<1>6. \A u \in Tasks : task'[u] # IdleTask => Dialled(task[u])'
  <2>1. SUFFICES ASSUME NEW u \in Tasks, task'[u] # IdleTask PROVE Dialled(task[u])'
    OBVIOUS
  <2>2. CASE u = t
    BY <1>3, <1>5, <2>2 DEF Dialled
  <2>3. CASE u # t
    BY <1>3, <2>1, <2>3 DEF LinksInv, Dialled
  <2>4. QED BY <2>2, <2>3
<1>7. \A i \in DOMAIN regs : Dialled(regs[i])'
  BY <1>3 DEF LinksInv, Dialled
<1>8. SeedPursued'
  <2>1. SUFFICES ASSUME NEW h \in Wanted', h \notin DOMAIN peers, ~Registering(h)
                 PROVE  \E u \in Tasks : Pursues(u, h)'
    BY <1>3 DEF SeedPursued, Registering
  <2>2. CASE h = HostOf[a]
    BY <1>1, <1>2, <1>3, <1>5, <2>2, SMTT(30) DEF Pursues, Cancelled
  <2>3. CASE h # HostOf[a]
    <3>1. h \in Wanted
      BY <1>3, <2>3 DEF Wanted
    <3>2. PICK u \in Tasks : Pursues(u, h)
      BY <2>1, <3>1 DEF LinksInv, SeedPursued, Registering
    <3>3. u # t /\ task'[u] = task[u]
      BY <1>1, <1>3, <3>2 DEF Pursues, LinksInv
    <3>4. task[u].to.addr # a /\ task[u].to.addr \in DOMAIN cancels
      BY <2>3, <3>2 DEF Pursues, LinksInv, Dialled
    <3>5. QED BY <1>3, <3>2, <3>3, <3>4, StillPursues, SMTT(30)
  <2>4. QED BY <2>2, <2>3
<1>9. QED BY <1>3, <1>4, <1>5, <1>6, <1>7, <1>8, Zenon DEF LinksInv

(* A dial of an ordinary peer. *)
LEMMA DialPeerStep ==
  ASSUME LinksInv, NEW a \in Addrs, DialPeer(a)
  PROVE  LinksInv'
<1> DEFINE n == [pc |-> "dial", seed |-> FALSE, to |-> [addr |-> a, comm |-> NoComm]]
           t == Spawned
<1>1. t \in Tasks /\ task[t] = IdleTask
  BY DEF DialPeer, Spawned, Free
<1>2. n \in TaskStates /\ n # IdleTask
  BY DEF TaskStates, IdleTask
<1>3. task' = [task EXCEPT ![t] = n] /\ a \in PeerDials
      /\ UNCHANGED <<peers, seed_peers, cancels, regs, own_addrs>>
  BY DEF DialPeer
<1> HIDE DEF t
<1>4. task' \in [Tasks -> TaskStates] /\ task'[t] = n
  BY <1>1, <1>2, <1>3 DEF LinksInv
<1>5. \A u \in Tasks : task'[u] # IdleTask => Dialled(task[u])'
  <2>1. SUFFICES ASSUME NEW u \in Tasks, task'[u] # IdleTask PROVE Dialled(task[u])'
    OBVIOUS
  <2>2. CASE u = t
    BY <1>3, <1>4, <2>2 DEF Dialled
  <2>3. CASE u # t
    BY <1>3, <2>1, <2>3, SMTT(30) DEF LinksInv, Dialled
  <2>4. QED BY <2>2, <2>3
<1>6. SeedPursued'
  <2>1. SUFFICES ASSUME NEW h \in Wanted, h \notin DOMAIN peers, ~Registering(h)
                 PROVE  \E u \in Tasks : Pursues(u, h)'
    BY <1>3 DEF SeedPursued, Wanted, Registering
  <2>2. PICK u \in Tasks : Pursues(u, h)
    BY <2>1 DEF LinksInv, SeedPursued, Registering
  <2>3. task'[u] = task[u]
    BY <1>1, <1>3, <2>2, SMTT(30) DEF Pursues, LinksInv
  <2>4. QED BY <1>3, <2>2, <2>3, StillPursues, Zenon
<1>7. QED BY <1>3, <1>4, <1>5, <1>6 DEF LinksInv, Dialled

(* The connection of a task that ends is in the registrations. *)
LEMMA ConnectsStep ==
  ASSUME LinksInv, NEW t \in Tasks, Connects(t)
  PROVE  LinksInv'
<1> DEFINE r == [seed |-> task[t].seed, to |-> task[t].to, alive |-> TRUE]
<1>1. task[t] \in TaskStates /\ task[t] # IdleTask
  BY DEF LinksInv, Connects, IdleTask
<1>2. r \in Registrations
  BY <1>1, Zenon DEF TaskStates, Registrations
<1>3. /\ regs' = Append(regs, r)
      /\ task' = [task EXCEPT ![t] = IdleTask]
      /\ UNCHANGED <<peers, seed_peers, cancels, own_addrs>>
  BY DEF Connects
<1>4. Dialled(r)
  BY <1>1 DEF LinksInv, Dialled
<1>5. r.seed = task[t].seed /\ r.to = task[t].to
  OBVIOUS
<1> HIDE DEF r
<1>6. task' \in [Tasks -> TaskStates]
  BY <1>3, Zenon DEF LinksInv, TaskStates
<1>7. /\ regs' \in Seq(Registrations)
      /\ DOMAIN regs' = 1 .. (Len(regs) + 1)
      /\ regs'[Len(regs) + 1] = r
      /\ \A i \in DOMAIN regs : i \in DOMAIN regs' /\ regs'[i] = regs[i]
  BY <1>2, <1>3 DEF LinksInv
<1>8. \A i \in DOMAIN regs' : Dialled(regs[i])'
  <2>1. SUFFICES ASSUME NEW i \in DOMAIN regs' PROVE Dialled(regs'[i])
    BY <1>3 DEF Dialled
  <2>2. i \in DOMAIN regs \/ i = Len(regs) + 1
    BY <1>7 DEF LinksInv
  <2>3. QED BY <1>4, <1>7, <2>2 DEF LinksInv
<1>9. SeedPursued'
  <2>1. SUFFICES ASSUME NEW h \in Wanted, h \notin DOMAIN peers, ~Registering(h)'
                 PROVE  \E u \in Tasks : Pursues(u, h)'
    BY <1>3 DEF SeedPursued, Wanted, Registering
  <2>2. ~Registering(h)
    BY <1>7, <2>1 DEF Registering
  <2>3. PICK u \in Tasks : Pursues(u, h)
    BY <2>1, <2>2 DEF LinksInv, SeedPursued, Registering
  <2>4. u # t
    <3>1. Len(regs) + 1 \in DOMAIN regs'
      BY <1>7 DEF LinksInv
    <3>2. ~(r.seed /\ HostOf[r.to.addr] = h)
      BY <1>7, <2>1, <3>1, SMTT(30) DEF Registering
    <3>3. QED BY <1>5, <2>3, <3>2 DEF Pursues
  <2>5. QED BY <1>3, <2>3, <2>4, StillPursues DEF LinksInv
<1>10. QED BY <1>3, <1>6, <1>7, <1>8, <1>9, SMTT(30) DEF LinksInv, Dialled

(* What leaves the registrations is connected afterwards, and a connected seed
   is tracked because nobody dialled it otherwise. *)
LEMMA RegisterStep ==
  ASSUME LinksInv, SeedsDialledAsSeeds, Register
  PROVE  LinksInv'
<1> DEFINE r == Head(regs)
           h0 == HostOf[r.to.addr]
<1>1. regs # <<>> /\ r \in Registrations /\ r = regs[1] /\ 1 \in DOMAIN regs
  BY DEF LinksInv, Register
<1>2. /\ regs' = Tail(regs) /\ UNCHANGED <<cancels, task, own_addrs>>
      /\ DOMAIN peers' = DOMAIN peers \cup {h0}
      /\ \/ seed_peers' = seed_peers
         \/ /\ r.seed
            /\ DOMAIN seed_peers' = DOMAIN seed_peers \cup {h0}
            /\ \A g \in DOMAIN seed_peers' :
                 seed_peers'[g] = IF g = h0 THEN r.to ELSE seed_peers[g]
      /\ r.seed /\ h0 \notin DOMAIN peers => h0 \in DOMAIN seed_peers'
  <2>1. regs' = Tail(regs) /\ UNCHANGED <<cancels, task, own_addrs>>
    BY DEF Register
  <2>2. CASE h0 \in DOMAIN peers
    <3>1. UNCHANGED <<peers, seed_peers>>
      BY <2>2 DEF Register
    <3>2. QED BY <2>1, <2>2, <3>1, Zenon
  <2>3. CASE h0 \notin DOMAIN peers
    <3>1. /\ peers' = [g \in DOMAIN peers \cup {h0} |->
                         IF g = h0 THEN r.alive ELSE peers[g]]
          /\ seed_peers' = IF r.seed
                           THEN [g \in DOMAIN seed_peers \cup {h0} |->
                                   IF g = h0 THEN r.to ELSE seed_peers[g]]
                           ELSE seed_peers
      BY <2>3, Zenon DEF Register
    <3> HIDE DEF r, h0
    <3>2. DOMAIN peers' = DOMAIN peers \cup {h0}
      BY <3>1
    <3>3. CASE r.seed
      BY <2>1, <3>1, <3>2, <3>3
    <3>4. CASE ~r.seed
      BY <2>1, <3>1, <3>2, <3>4
    <3>5. QED BY <3>3, <3>4
  <2>4. QED BY <2>2, <2>3
<1>3. Dialled(r)
  BY <1>1 DEF LinksInv
<1>4. r.seed => r.to \in Targets
  BY <1>1, Zenon DEF Registrations
<1>5. /\ regs' \in Seq(Registrations)
      /\ \A i \in DOMAIN regs' : i + 1 \in DOMAIN regs /\ regs'[i] = regs[i + 1]
      /\ \A i \in DOMAIN regs : i # 1 => i - 1 \in DOMAIN regs' /\ regs'[i - 1] = regs[i]
  BY <1>1, <1>2 DEF LinksInv
<1> HIDE DEF r, h0
<1>6. \A i \in DOMAIN regs' : Dialled(regs[i])'
  BY <1>2, <1>5 DEF LinksInv, Dialled
<1>7. \A g \in DOMAIN seed_peers' :
        /\ seed_peers'[g] \in Targets
        /\ seed_peers'[g].addr \in DOMAIN cancels'
        /\ HostOf[seed_peers'[g].addr] = g
  <2>1. SUFFICES ASSUME NEW g \in DOMAIN seed_peers', seed_peers' # seed_peers
                 PROVE  /\ seed_peers'[g] \in Targets
                        /\ seed_peers'[g].addr \in DOMAIN cancels
                        /\ HostOf[seed_peers'[g].addr] = g
    BY <1>2 DEF LinksInv
  <2>2. CASE g = h0
    BY <1>2, <1>3, <1>4, <2>1, <2>2 DEF Dialled, h0
  <2>3. CASE g # h0
    BY <1>2, <2>1, <2>3 DEF LinksInv
  <2>4. QED BY <2>2, <2>3
<1>8. DOMAIN peers' \cap SeedHosts \subseteq DOMAIN seed_peers'
  <2>1. SUFFICES ASSUME NEW g \in DOMAIN peers', g \in SeedHosts
                 PROVE  g \in DOMAIN seed_peers'
    OBVIOUS
  <2>2. DOMAIN seed_peers \subseteq DOMAIN seed_peers'
    BY <1>2
  <2>3. CASE g \in DOMAIN peers
    BY <2>1, <2>2, <2>3, SMTT(30) DEF LinksInv
  <2>4. CASE g \notin DOMAIN peers
    <3>1. g = h0
      BY <1>2, <2>4, SMTT(30)
    <3>2. r.seed
      BY <1>3, <2>1, <3>1, SMTT(30) DEF Dialled, SeedsDialledAsSeeds, h0
    <3>3. QED BY <1>2, <2>4, <3>1, <3>2, SMTT(30)
  <2>5. QED BY <2>3, <2>4
<1>9. SeedPursued'
  <2>1. SUFFICES ASSUME NEW h \in Wanted, h \notin DOMAIN peers', ~Registering(h)'
                 PROVE  \E u \in Tasks : Pursues(u, h)'
    BY <1>2 DEF SeedPursued, Wanted, Registering
  <2>2. ~Registering(h)
    <3>1. SUFFICES ASSUME NEW i \in DOMAIN regs, regs[i].seed, HostOf[regs[i].to.addr] = h
                   PROVE  FALSE
      BY DEF Registering
    <3>2. CASE i = 1
      BY <1>1, <1>2, <2>1, <3>1, <3>2, SMTT(30) DEF h0
    <3>3. CASE i # 1
      BY <1>5, <2>1, <3>1, <3>3, SMTT(30) DEF Registering
    <3>4. QED BY <3>2, <3>3
  <2>3. PICK u \in Tasks : Pursues(u, h)
    BY <1>2, <2>1, <2>2 DEF LinksInv, SeedPursued, Registering
  <2>4. QED BY <1>2, <2>3, StillPursues
<1>10. QED BY <1>2, <1>5, <1>6, <1>7, <1>8, <1>9 DEF LinksInv, Dialled

(* A seed found dead gets a loop that holds the cancel channel of its address;
   a task of another host keeps its own. *)
LEMMA PublishStep ==
  ASSUME LinksInv, Publish
  PROVE  LinksInv'
<1> DEFINE dead == {h \in DOMAIN peers : ~peers[h]}
           lost == dead \cap DOMAIN seed_peers
           loop == CHOOSE f \in Injection(lost, Free) : TRUE
           spawned == {loop[h] : h \in lost}
           dialled == {seed_peers[h].addr : h \in lost}
           begun(t) == [pc |-> "wait", seed |-> TRUE,
                        to |-> seed_peers[CHOOSE h \in lost : loop[h] = t]]
<1>1. loop \in Injection(lost, Free)
  BY Zenon DEF Publish
<1>2. /\ DOMAIN loop = lost
      /\ \A h \in lost : loop[h] \in Tasks /\ task[loop[h]] = IdleTask
      /\ \A g, h \in lost : loop[g] = loop[h] => g = h
  BY <1>1, Zenon DEF Injection, IsInjective, Free
<1>3. /\ DOMAIN peers' = DOMAIN peers \ dead
      /\ DOMAIN seed_peers' = DOMAIN seed_peers \ lost
      /\ \A h \in DOMAIN seed_peers' : seed_peers'[h] = seed_peers[h]
      /\ DOMAIN cancels' = DOMAIN cancels \cup dialled
      /\ \A a \in DOMAIN cancels' :
           cancels'[a] = IF a \in dialled THEN loop[HostOf[a]] ELSE cancels[a]
      /\ task' = [t \in Tasks |-> IF t \in spawned THEN begun(t) ELSE task[t]]
      /\ UNCHANGED <<regs, own_addrs>>
  BY DEF Publish
<1>4. \A h \in lost : /\ seed_peers[h] \in Targets
                      /\ seed_peers[h].addr \in DOMAIN cancels
                      /\ HostOf[seed_peers[h].addr] = h
  BY DEF LinksInv
<1>5. \A h \in lost : (CHOOSE g \in lost : loop[g] = loop[h]) = h
  BY <1>2, SMTT(30)
<1>6. \A h \in lost : task'[loop[h]] = [pc |-> "wait", seed |-> TRUE, to |-> seed_peers[h]]
  <2>1. SUFFICES ASSUME NEW h \in lost
                 PROVE  task'[loop[h]] = [pc |-> "wait", seed |-> TRUE, to |-> seed_peers[h]]
    BY Zenon
  <2>2. loop[h] \in spawned /\ loop[h] \in Tasks
    BY <1>2, Zenon
  <2>3. begun(loop[h]) = [pc |-> "wait", seed |-> TRUE, to |-> seed_peers[h]]
    BY <1>5, Zenon
  <2> HIDE DEF begun, spawned, loop, lost
  <2>4. QED BY <1>3, <2>2, <2>3, SMTT(30)
<1>7. \A t \in Tasks : t \notin spawned => task'[t] = task[t]
  BY <1>3
<1>8. DOMAIN cancels' = DOMAIN cancels
  <2>1. dialled \subseteq DOMAIN cancels
    BY <1>4
  <2> HIDE DEF dialled
  <2>2. QED BY <1>3, <2>1, Zenon
<1> HIDE DEF dead, loop
<1>9. \A t \in Tasks : task'[t] \in TaskStates /\ (task'[t] # IdleTask => Dialled(task[t])')
  <2>1. SUFFICES ASSUME NEW t \in Tasks
                 PROVE  task'[t] \in TaskStates /\ (task'[t] # IdleTask => Dialled(task'[t]))
    BY <1>8 DEF Dialled
  <2>2. CASE t \in spawned
    <3>1. PICK h \in lost : t = loop[h]
      BY <2>2
    <3>2. task'[t] = [pc |-> "wait", seed |-> TRUE, to |-> seed_peers[h]]
      BY <1>6, <3>1
    <3>3. task'[t] \in TaskStates
      BY <1>4, <3>2, LoopIsState, Zenon
    <3>4. Dialled(task'[t])
      BY <1>4, <3>2 DEF Dialled
    <3>5. QED BY <3>3, <3>4
  <2>3. CASE t \notin spawned
    BY <1>7, <2>3 DEF LinksInv
  <2>4. QED BY <2>2, <2>3
<1>10. task' \in [Tasks -> TaskStates]
  <2>1. task' = [t \in Tasks |-> task'[t]]
    BY <1>3
  <2>2. QED BY <1>9, <2>1, SMTT(30)
<1>11. DOMAIN peers' \cap SeedHosts \subseteq DOMAIN seed_peers'
  BY <1>3 DEF LinksInv
<1>12. SeedPursued'
  <2>1. SUFFICES ASSUME NEW h \in Wanted, h \notin DOMAIN peers', ~Registering(h)
                 PROVE  \E u \in Tasks : Pursues(u, h)'
    BY <1>3, <1>8, SMTT(30) DEF SeedPursued, Wanted, Registering
  <2>2. h \in SeedHosts
    BY DEF Wanted, LinksInv, SeedHosts
  <2>3. CASE h \in lost
    <3> DEFINE u == loop[h]
    <3>1. u \in Tasks /\ task'[u] = [pc |-> "wait", seed |-> TRUE, to |-> seed_peers[h]]
      BY <1>2, <1>6, <2>3, SMTT(30)
    <3>2. cancels'[seed_peers[h].addr] = u
      BY <1>3, <1>4, <2>3, SMTT(30)
    <3>3. task'[u] # IdleTask /\ task'[u].seed /\ task'[u].to.addr = seed_peers[h].addr
      BY <3>1 DEF IdleTask
    <3>4. QED BY <1>4, <2>3, <3>1, <3>2, <3>3, SMTT(30) DEF Pursues, Cancelled
  <2>4. CASE h \notin lost
    <3>1. h \notin DOMAIN peers
      BY <1>3, <2>1, <2>2, <2>4, SMTT(30) DEF LinksInv
    <3>2. PICK u \in Tasks : Pursues(u, h)
      BY <2>1, <3>1 DEF LinksInv, SeedPursued, Registering
    <3>3. task[u] # IdleTask /\ u \notin spawned
      BY <1>2, <3>2 DEF Pursues
    <3>4. task[u].to.addr \in DOMAIN cancels /\ HostOf[task[u].to.addr] = h
      BY <3>2 DEF Pursues, LinksInv, Dialled
    <3>5. task[u].to.addr \notin dialled
      BY <1>4, <2>4, <3>4
    <3>6. cancels'[task[u].to.addr] = cancels[task[u].to.addr]
      BY <1>3, <1>8, <3>4, <3>5, SMTT(30)
    <3>7. QED BY <1>7, <3>2, <3>3, <3>6, StillPursues, SMTT(30)
  <2>5. QED BY <2>3, <2>4
<1>13. QED BY <1>3, <1>8, <1>9, <1>10, <1>11, <1>12, SMTT(30) DEF LinksInv, Dialled

(* A connection breaks, unnoticed. *)
LEMMA ConnectionLostStep ==
  ASSUME LinksInv, NEW h0 \in Hosts, ConnectionLost(h0)
  PROVE  LinksInv'
<1>1. /\ DOMAIN peers' = DOMAIN peers
      /\ UNCHANGED <<seed_peers, cancels, task, own_addrs>>
  BY DEF ConnectionLost
<1>2. DOMAIN regs' = DOMAIN regs /\ DOMAIN regs = 1 .. Len(regs) /\ Len(regs) \in Nat
  BY DEF ConnectionLost, LinksInv
<1>3. \A i \in DOMAIN regs :
        regs'[i] \in Registrations /\ regs'[i].seed = regs[i].seed /\ regs'[i].to = regs[i].to
  <2>1. SUFFICES ASSUME NEW i \in DOMAIN regs
                 PROVE  /\ regs'[i] \in Registrations
                        /\ regs'[i].seed = regs[i].seed /\ regs'[i].to = regs[i].to
    OBVIOUS
  <2>2. regs[i] \in Registrations
    BY <1>2 DEF LinksInv
  <2>3. regs'[i] = regs[i] \/ regs'[i] = [regs[i] EXCEPT !.alive = FALSE]
    BY DEF ConnectionLost
  <2>4. QED BY <2>2, <2>3, DeadRegistration, Zenon
<1>4. regs' \in Seq(Registrations)
  <2>1. regs' \in [1 .. Len(regs) -> Registrations]
    <3>1. regs' = [i \in DOMAIN regs |-> regs'[i]]
      BY DEF ConnectionLost
    <3>2. QED BY <1>2, <1>3, <3>1
  <2>2. QED BY <1>2, <2>1
<1>5. SeedPursued'
  <2>1. SUFFICES ASSUME NEW h \in Wanted
                 PROVE  \/ h \in DOMAIN peers'
                        \/ \E i \in DOMAIN regs' : regs'[i].seed /\ HostOf[regs'[i].to.addr] = h
                        \/ \E t \in Tasks : Pursues(t, h)'
    BY <1>1 DEF SeedPursued, Wanted
  <2>2. \A t \in Tasks : Pursues(t, h) => Pursues(t, h)'
    BY <1>1 DEF Pursues, Cancelled
  <2>3. CASE \E i \in DOMAIN regs : regs[i].seed /\ HostOf[regs[i].to.addr] = h
    BY <1>2, <1>3, <2>3
  <2>4. QED BY <1>1, <2>2, <2>3 DEF LinksInv, SeedPursued
<1>6. QED BY <1>1, <1>2, <1>3, <1>4, <1>5, SMTT(30) DEF LinksInv, Dialled

(* One step of a dial task or of a reconnect loop. *)
LEMMA TaskStepKeeps ==
  ASSUME LinksInv, NEW t \in Tasks, TaskStep(t)
  PROVE  LinksInv'
<1>1. CASE Connects(t)
  BY <1>1, ConnectsStep
<1>2. CASE DialFails(t)
  <2> DEFINE s == [task[t] EXCEPT !.pc = "wait"]
  <2>1. task[t] # IdleTask /\ task[t] \in TaskStates /\ IdleTask \in TaskStates
    BY <1>2, BusyTask, IdleIsState DEF DialFails, LinksInv
  <2>2. CASE ~task[t].seed
    BY <1>2, <2>1, <2>2, TaskChanges, Zenon DEF DialFails
  <2>3. CASE task[t].seed /\ task[t].to.addr \in own_addrs
    BY <1>2, <2>1, <2>3, TaskChanges, Zenon DEF DialFails, LinksInv
  <2>4. CASE task[t].seed /\ task[t].to.addr \notin own_addrs
    <3>1. s \in TaskStates /\ s # IdleTask /\ s.seed = task[t].seed /\ s.to = task[t].to
      BY <2>1, <2>4, SeedTaskMoves, Zenon
    <3>2. task' = [task EXCEPT ![t] = s]
      BY <1>2, <2>4, Zenon DEF DialFails, LinksInv
    <3> HIDE DEF s
    <3>3. QED BY <1>2, <2>1, <3>1, <3>2, TaskChanges, Zenon DEF DialFails
  <2>5. QED BY <2>2, <2>3, <2>4
<1>3. CASE LoopCancelled(t)
  <2>1. task[t] # IdleTask /\ IdleTask \in TaskStates
    BY <1>3, BusyTask, IdleIsState DEF LoopCancelled, LinksInv
  <2>2. QED BY <1>3, <2>1, TaskChanges, Zenon DEF LoopCancelled
<1>4. CASE LoopWakes(t)
  <2> DEFINE s == [task[t] EXCEPT !.pc = "connect"]
  <2>1. /\ task[t] # IdleTask /\ task[t] \in TaskStates /\ task[t].seed
        /\ IdleTask \in TaskStates
    BY <1>4, BusyTask, IdleIsState DEF LoopWakes, LinksInv
  <2>2. CASE task[t].to.addr \in own_addrs
    BY <1>4, <2>1, <2>2, TaskChanges, Zenon DEF LoopWakes, LinksInv
  <2>3. CASE task[t].to.addr \notin own_addrs
    <3>1. s \in TaskStates /\ s # IdleTask /\ s.seed = task[t].seed /\ s.to = task[t].to
      BY <2>1, SeedTaskMoves, Zenon
    <3>2. task' = [task EXCEPT ![t] = s]
      BY <1>4, <2>3 DEF LoopWakes, LinksInv
    <3> HIDE DEF s
    <3>3. QED BY <1>4, <2>1, <3>1, <3>2, TaskChanges, Zenon DEF LoopWakes
  <2>4. QED BY <2>2, <2>3
<1>5. CASE LoopFails(t)
  <2> DEFINE s == [task[t] EXCEPT !.pc = "wait"]
  <2>1. task[t] # IdleTask /\ task[t] \in TaskStates /\ task[t].seed
    BY <1>5, BusyTask DEF LoopFails, LinksInv
  <2>2. s \in TaskStates /\ s # IdleTask /\ s.seed = task[t].seed /\ s.to = task[t].to
    BY <2>1, SeedTaskMoves, Zenon
  <2>3. task' = [task EXCEPT ![t] = s]
    BY <1>5 DEF LoopFails, LinksInv
  <2> HIDE DEF s
  <2>4. QED BY <1>5, <2>1, <2>2, <2>3, TaskChanges, Zenon DEF LoopFails
<1>6. QED BY <1>1, <1>2, <1>3, <1>4, <1>5 DEF TaskStep

(* The inductive invariant holds throughout. *)
LEMMA LinksInvariant ==
  ASSUME SeedsDialledAsSeeds
  PROVE  Spec => []LinksInv
<1>1. Init => LinksInv
  BY DEF Init, LinksInv, SeedPursued, Wanted, TaskStates
<1>2. LinksInv /\ [Next]_vars => LinksInv'
  <2>1. SUFFICES ASSUME LinksInv, [Next]_vars PROVE LinksInv'
    OBVIOUS
  <2>2. ASSUME NEW a \in Addrs, NEW c \in Communities, DialSeed(a, c) PROVE LinksInv'
    BY <2>1, <2>2, DialSeedStep
  <2>3. ASSUME NEW a \in Addrs, DialPeer(a) PROVE LinksInv'
    BY <2>1, <2>3, DialPeerStep
  <2>4. ASSUME NEW t \in Tasks, TaskStep(t) PROVE LinksInv'
    BY <2>1, <2>4, TaskStepKeeps
  <2>5. CASE Register
    BY <2>1, <2>5, RegisterStep
  <2>6. CASE Publish
    BY <2>1, <2>6, PublishStep, SMTT(30)
  <2>7. CASE HandleSeedEvent \/ UNCHANGED vars
    BY <2>1, <2>7, TablesUnchanged, SMTT(30) DEF HandleSeedEvent, vars, LinksInv
  <2>8. ASSUME NEW a \in Addrs, AddListenAddr(a) PROVE LinksInv'
    BY <2>1, <2>8, TablesUnchanged DEF AddListenAddr, LinksInv
  <2>9. ASSUME NEW h \in Others, ConnectionLost(h) PROVE LinksInv'
    BY <2>1, <2>9, ConnectionLostStep, SMTT(30) DEF Others
  <2>10. ASSUME NEW h \in Others, ComesUp(h) PROVE LinksInv'
    BY <2>1, <2>10, TablesUnchanged DEF ComesUp, LinksInv
  <2>11. QED BY <2>1, <2>2, <2>3, <2>4, <2>5, <2>6, <2>7, <2>8, <2>9, <2>10, SMTT(30) DEF Next
<1>3. QED BY <1>1, <1>2, PTL DEF Spec

(* A seed is never forgotten: whatever dials, losses, registrations and
   cancellations happen, and in whatever order, one of the gossip task's table,
   its registrations and an uncancelled task has it - as long as no peer
   discovery dials the same host without is_seed (gossip.rs:60-62). *)
THEOREM SeedNeverForgotten ==
  ASSUME SeedsDialledAsSeeds
  PROVE  Spec => []SeedPursued
<1>1. LinksInv => SeedPursued
  BY DEF LinksInv
<1>2. QED BY <1>1, LinksInvariant, PTL
-----------------------------------------------------------------------------
(* The types, and that the gossip task tracks a seed under the host that its
   address leads to: Publish needs it to find the loop of an address, and that
   the hosts it goes through are finitely many. *)
TypeInv ==
  /\ TypeOK
  /\ IsFiniteSet(DOMAIN peers)
  /\ \A h \in DOMAIN seed_peers : HostOf[seed_peers[h].addr] = h

(* A table with a new entry is a function of the same type. *)
LEMMA TableEntry ==
  ASSUME NEW K, NEW S, NEW f, DOMAIN f \subseteq K, f \in [DOMAIN f -> S],
         NEW k \in K, NEW v \in S, NEW g,
         g = [x \in DOMAIN f \cup {k} |-> IF x = k THEN v ELSE f[x]]
  PROVE  /\ DOMAIN g = DOMAIN f \cup {k} /\ DOMAIN g \subseteq K /\ g \in [DOMAIN g -> S]
         /\ g[k] = v /\ \A x \in DOMAIN f : x # k => g[x] = f[x]
  OBVIOUS

(* An event about a seed's status joins the queue. *)
LEMMA EventAdded ==
  ASSUME events \in Seq(SeedEvents), NEW b \in BOOLEAN, NEW c \in Communities,
         events' = Append(events, SeedEvent(b, c))
  PROVE  events' \in Seq(SeedEvents)
<1>1. SeedEvent(b, c) \in SeedEvents
  BY DEF SeedEvent, SeedEvents
<1>2. QED BY <1>1

(* A registration keeps the types. *)
LEMMA RegisterTypes ==
  ASSUME TypeInv, Register
  PROVE  TypeInv'
<1> DEFINE r == Head(regs)
           h0 == HostOf[r.to.addr]
<1>1. /\ regs' \in Seq(Registrations) /\ r \in Registrations
      /\ UNCHANGED <<up, cancels, task, status, own_addrs, dials, drops>>
  BY DEF TypeInv, TypeOK, Register
<1>2. r.to.addr \in Addrs /\ r.alive \in BOOLEAN /\ (r.seed => r.to \in Targets)
  BY <1>1, Zenon DEF Registrations, Targets
<1>3. h0 \in Hosts
  BY <1>2
<1>4. events' \in Seq(SeedEvents)
  <2>1. CASE r.seed
    <3>1. r.to.comm \in Communities
      BY <1>2, <2>1 DEF Targets
    <3>2. events' = Append(events, SeedEvent(TRUE, r.to.comm))
      BY <2>1, Zenon DEF Register
    <3>3. QED BY <3>1, <3>2, EventAdded, Zenon DEF TypeInv, TypeOK
  <2>2. CASE ~r.seed
    BY <2>2 DEF Register, TypeInv, TypeOK
  <2>3. QED BY <2>1, <2>2
<1>5. CASE h0 \in DOMAIN peers
  <2>1. UNCHANGED <<peers, seed_peers>>
    BY <1>5 DEF Register
  <2>2. QED BY <1>1, <1>4, <2>1 DEF TypeInv, TypeOK
<1>6. CASE h0 \notin DOMAIN peers
  <2>1. /\ peers' = [g \in DOMAIN peers \cup {h0} |-> IF g = h0 THEN r.alive ELSE peers[g]]
        /\ r.seed => seed_peers' = [g \in DOMAIN seed_peers \cup {h0} |->
                                      IF g = h0 THEN r.to ELSE seed_peers[g]]
        /\ ~r.seed => seed_peers' = seed_peers
    BY <1>6, Zenon DEF Register
  <2>2. r.to.addr \in Addrs /\ HostOf[r.to.addr] = h0
    BY <1>2
  <2> HIDE DEF r, h0
  <2>3. DOMAIN peers' = DOMAIN peers \cup {h0}
        /\ DOMAIN peers' \subseteq Hosts /\ peers' \in [DOMAIN peers' -> BOOLEAN]
    BY <1>2, <1>3, <2>1, TableEntry DEF TypeInv, TypeOK
  <2>7. IsFiniteSet(DOMAIN peers')
    BY <2>3, FS_AddElement DEF TypeInv
  <2>4. CASE r.seed
    <3>1. /\ DOMAIN seed_peers' = DOMAIN seed_peers \cup {h0}
          /\ DOMAIN seed_peers' \subseteq Hosts
          /\ seed_peers' \in [DOMAIN seed_peers' -> Targets]
          /\ seed_peers'[h0] = r.to
          /\ \A h \in DOMAIN seed_peers : h # h0 => seed_peers'[h] = seed_peers[h]
      BY <1>2, <1>3, <2>1, <2>4, TableEntry DEF TypeInv, TypeOK
    <3>2. \A h \in DOMAIN seed_peers' : HostOf[seed_peers'[h].addr] = h
      BY <2>2, <3>1 DEF TypeInv
    <3>3. QED BY <1>1, <1>4, <2>3, <2>7, <3>1, <3>2 DEF TypeInv, TypeOK
  <2>5. CASE ~r.seed
    BY <1>1, <1>4, <2>1, <2>3, <2>5, <2>7, Zenon DEF TypeInv, TypeOK
  <2>6. QED BY <2>4, <2>5
<1>7. QED BY <1>5, <1>6

(* A publish, which drops dead peers, keeps the types. *)
LEMMA PublishTypes ==
  ASSUME TypeInv, Publish
  PROVE  TypeInv'
<1> DEFINE dead == {h \in DOMAIN peers : ~peers[h]}
           lost == dead \cap DOMAIN seed_peers
           loop == CHOOSE f \in Injection(lost, Free) : TRUE
           spawned == {loop[h] : h \in lost}
           dialled == {seed_peers[h].addr : h \in lost}
           begun(t) == [pc |-> "wait", seed |-> TRUE,
                        to |-> seed_peers[CHOOSE h \in lost : loop[h] = t]]
           n == Cardinality(lost)
<1>1. loop \in Injection(lost, Free)
  BY Zenon DEF Publish
<1>2. \A h \in lost : loop[h] \in Tasks
  BY <1>1, Zenon DEF Injection, Free
<1>3. /\ peers' = [h \in DOMAIN peers \ dead |-> peers[h]]
      /\ seed_peers' = [h \in DOMAIN seed_peers \ lost |-> seed_peers[h]]
      /\ task' = [t \in Tasks |-> IF t \in spawned THEN begun(t) ELSE task[t]]
      /\ cancels' = [a \in DOMAIN cancels \cup dialled |->
                       IF a \in dialled THEN loop[HostOf[a]] ELSE cancels[a]]
      /\ UNCHANGED <<up, regs, status, own_addrs, dials, drops>>
  BY ZenonT(30) DEF Publish
<1>4. PICK told \in Bijection(1 .. n, lost) :
        events' = events \o [i \in 1 .. n |-> SeedEvent(FALSE, seed_peers[told[i]].comm)]
  BY Zenon DEF Publish
<1>5. \A h \in lost : /\ seed_peers[h] \in Targets /\ seed_peers[h].addr \in Addrs
                      /\ seed_peers[h].comm \in Communities
                      /\ HostOf[seed_peers[h].addr] = h
  BY DEF TypeInv, TypeOK, Targets
<1>6. IsFiniteSet(DOMAIN peers') /\ IsFiniteSet(lost) /\ n \in Nat
  <2>1. DOMAIN peers' \subseteq DOMAIN peers /\ lost \subseteq DOMAIN peers
    BY <1>3
  <2> HIDE DEF lost
  <2>2. QED BY <2>1, FS_Subset, FS_CardinalityType DEF TypeInv
<1> HIDE DEF loop, n, dead
<1>7. events' \in Seq(SeedEvents)
  <2> DEFINE told2(i) == SeedEvent(FALSE, seed_peers[told[i]].comm)
             new == [i \in 1 .. n |-> told2(i)]
  <2>1. \A i \in 1 .. n : told[i] \in lost
    BY <1>4, Zenon DEF Bijection, Injection
  <2>2. \A i \in 1 .. n : told2(i) \in SeedEvents
    BY <1>5, <2>1 DEF SeedEvent, SeedEvents
  <2>5. events \in Seq(SeedEvents) /\ events' = events \o new
    BY <1>4 DEF TypeInv, TypeOK
  <2> HIDE DEF told2
  <2>4. new \in Seq(SeedEvents)
    BY <1>6, <2>2
  <2> HIDE DEF new
  <2>6. QED BY <2>4, <2>5
<1>8. task' \in [Tasks -> TaskStates]
  <2>1. \A t \in spawned : begun(t) \in TaskStates
    <3>1. SUFFICES ASSUME NEW t \in spawned PROVE begun(t) \in TaskStates
      BY Zenon
    <3>2. (CHOOSE h \in lost : loop[h] = t) \in lost
      BY <3>1
    <3>3. QED BY <1>5, <3>2, LoopIsState, Zenon
  <2> HIDE DEF begun, spawned
  <2>2. QED BY <1>3, <2>1 DEF TypeInv, TypeOK
<1>9. DOMAIN cancels' \subseteq Addrs /\ cancels' \in [DOMAIN cancels' -> Tasks]
  <2>1. ASSUME NEW a \in dialled PROVE a \in Addrs /\ loop[HostOf[a]] \in Tasks
    <3>1. PICK h \in lost : a = seed_peers[h].addr
      BY <2>1
    <3>2. QED BY <1>2, <1>5, <3>1
  <2> HIDE DEF dialled
  <2>2. QED BY <1>3, <2>1 DEF TypeInv, TypeOK
<1>10. /\ DOMAIN peers' \subseteq Hosts /\ peers' \in [DOMAIN peers' -> BOOLEAN]
       /\ DOMAIN seed_peers' \subseteq Hosts
       /\ seed_peers' \in [DOMAIN seed_peers' -> Targets]
       /\ \A h \in DOMAIN seed_peers' : HostOf[seed_peers'[h].addr] = h
  <2> HIDE DEF lost
  <2>1. QED BY <1>3 DEF TypeInv, TypeOK
<1>11. QED BY <1>3, <1>6, <1>7, <1>8, <1>9, <1>10, Zenon DEF TypeInv, TypeOK

(* Dials keep the types. *)
LEMMA DialTypes ==
  ASSUME TypeInv,
         \/ \E a \in Addrs, c \in Communities : DialSeed(a, c)
         \/ \E a \in Addrs : DialPeer(a)
  PROVE  TypeInv'
<1>1. ASSUME NEW a \in Addrs, NEW c \in Communities, DialSeed(a, c) PROVE TypeInv'
  <2> DEFINE t == Spawned
             n == [pc |-> "dial", seed |-> TRUE, to |-> [addr |-> a, comm |-> c]]
  <2>1. t \in Tasks /\ n \in TaskStates
    BY <1>1, LoopIsState, Zenon DEF DialSeed, Spawned, Free, Targets
  <2>2. /\ task' = [task EXCEPT ![t] = n]
        /\ cancels' = [b \in DOMAIN cancels \cup {a} |-> IF b = a THEN t ELSE cancels[b]]
        /\ dials < MaxDials /\ dials' = dials + 1
        /\ UNCHANGED <<up, peers, seed_peers, regs, events, status, own_addrs, drops>>
    BY <1>1 DEF DialSeed
  <2> HIDE DEF t, n
  <2>3. task' \in [Tasks -> TaskStates] /\ dials' \in 0 .. MaxDials
    BY <2>1, <2>2 DEF TypeInv, TypeOK
  <2>4. DOMAIN cancels' \subseteq Addrs /\ cancels' \in [DOMAIN cancels' -> Tasks]
    BY <2>1, <2>2, TableEntry DEF TypeInv, TypeOK
  <2>5. QED BY <2>2, <2>3, <2>4 DEF TypeInv, TypeOK
<1>2. ASSUME NEW a \in Addrs, DialPeer(a) PROVE TypeInv'
  <2> DEFINE t == Spawned
             n == [pc |-> "dial", seed |-> FALSE, to |-> [addr |-> a, comm |-> NoComm]]
  <2>1. t \in Tasks /\ n \in TaskStates
    BY <1>2 DEF DialPeer, Spawned, Free, TaskStates
  <2>2. /\ task' = [task EXCEPT ![t] = n]
        /\ dials < MaxDials /\ dials' = dials + 1
        /\ UNCHANGED <<up, peers, seed_peers, cancels, regs, events, status, own_addrs, drops>>
    BY <1>2 DEF DialPeer
  <2> HIDE DEF t, n
  <2>3. task' \in [Tasks -> TaskStates] /\ dials' \in 0 .. MaxDials
    BY <2>1, <2>2 DEF TypeInv, TypeOK
  <2>4. QED BY <2>2, <2>3 DEF TypeInv, TypeOK
<1>3. QED BY <1>1, <1>2

(* A step of a task replaces its state by another one, and adds at most one
   registration or event. *)
LEMMA TaskTypes ==
  ASSUME TypeInv, NEW t \in Tasks, NEW s \in TaskStates, task' = [task EXCEPT ![t] = s],
         UNCHANGED <<up, peers, seed_peers, cancels, status, own_addrs, dials, drops>>,
         regs' \in Seq(Registrations), events' \in Seq(SeedEvents)
  PROVE  TypeInv'
<1>1. task' \in [Tasks -> TaskStates]
  BY DEF TypeInv, TypeOK
<1>2. QED BY <1>1 DEF TypeInv, TypeOK

(* A step of a dialling task or a reconnect loop keeps the types. *)
LEMMA TaskStepTypes ==
  ASSUME TypeInv, NEW t \in Tasks, TaskStep(t)
  PROVE  TypeInv'
<1> DEFINE wait == [task[t] EXCEPT !.pc = "wait"]
           connect == [task[t] EXCEPT !.pc = "connect"]
<1>1. /\ task[t] \in TaskStates /\ task \in [Tasks -> TaskStates] /\ IdleTask \in TaskStates
      /\ regs \in Seq(Registrations) /\ events \in Seq(SeedEvents)
  BY IdleIsState DEF TypeInv, TypeOK
<1>2. task[t] # IdleTask /\ (task[t].pc # "dial" => task[t].seed)
  BY <1>1, BusyTask, Zenon
     DEF TaskStep, Connects, DialFails, LoopCancelled, LoopWakes, LoopFails
<1>3. task[t].seed => /\ wait \in TaskStates /\ connect \in TaskStates
                      /\ task[t].to.comm \in Communities
  <2>1. task[t].seed => wait \in TaskStates /\ connect \in TaskStates
    BY <1>1, <1>2, SeedTaskMoves, Zenon
  <2>2. task[t].seed => task[t].to.comm \in Communities
    BY <1>1, <1>2, Zenon DEF TaskStates, Targets
  <2>3. QED BY <2>1, <2>2
<1>4. CASE Connects(t)
  <2> DEFINE r == [seed |-> task[t].seed, to |-> task[t].to, alive |-> TRUE]
  <2>1. r \in Registrations
    BY <1>1, <1>2, Zenon DEF TaskStates, Registrations
  <2>2. regs' = Append(regs, r)
    BY <1>4 DEF Connects
  <2> HIDE DEF r
  <2>3. regs' \in Seq(Registrations)
    BY <1>1, <2>1, <2>2
  <2>4. QED BY <1>1, <1>4, <2>3, TaskTypes, Zenon DEF Connects
<1>5. CASE DialFails(t)
  <2>1. CASE ~task[t].seed
    BY <1>1, <1>5, <2>1, TaskTypes, Zenon DEF DialFails
  <2>2. CASE task[t].seed
    <3>1. \E b \in BOOLEAN : events' = Append(events, SeedEvent(b, task[t].to.comm))
      BY <1>5, <2>2, Zenon DEF DialFails
    <3>2. events' \in Seq(SeedEvents)
      BY <1>1, <1>3, <2>2, <3>1, EventAdded
    <3>3. task' = [task EXCEPT ![t] = wait] \/ task' = [task EXCEPT ![t] = IdleTask]
      BY <1>1, <1>5, <2>2, Zenon DEF DialFails
    <3> HIDE DEF wait
    <3>4. QED BY <1>1, <1>3, <1>5, <2>2, <3>2, <3>3, TaskTypes DEF DialFails
  <2>3. QED BY <2>1, <2>2
<1>6. CASE LoopCancelled(t)
  BY <1>1, <1>6, TaskTypes, Zenon DEF LoopCancelled
<1>7. CASE LoopWakes(t)
  <2>1. task[t].seed
    BY <1>2, <1>7 DEF LoopWakes
  <2>2. task' = [task EXCEPT ![t] = connect] \/ task' = [task EXCEPT ![t] = IdleTask]
    BY <1>1, <1>7, Zenon DEF LoopWakes
  <2> HIDE DEF connect
  <2>3. QED BY <1>1, <1>3, <1>7, <2>1, <2>2, TaskTypes, Zenon DEF LoopWakes
<1>8. CASE LoopFails(t)
  <2>1. task[t].seed
    BY <1>2, <1>8 DEF LoopFails
  <2>2. task' = [task EXCEPT ![t] = wait]
    BY <1>1, <1>8 DEF LoopFails
  <2> HIDE DEF wait
  <2>3. QED BY <1>1, <1>3, <1>8, <2>1, <2>2, TaskTypes, Zenon DEF LoopFails
<1>9. QED BY <1>4, <1>5, <1>6, <1>7, <1>8 DEF TaskStep

(* A broken connection keeps the types. *)
LEMMA ConnectionLostTypes ==
  ASSUME TypeInv, NEW h0 \in Others, ConnectionLost(h0)
  PROVE  TypeInv'
<1>1. /\ drops < MaxDrops /\ drops' = drops + 1 /\ up' \in {up, up \ {h0}}
      /\ peers' = [g \in DOMAIN peers |-> IF g = h0 THEN FALSE ELSE peers[g]]
      /\ UNCHANGED <<seed_peers, cancels, task, events, status, own_addrs, dials>>
  BY DEF ConnectionLost
<1>2. \A i \in DOMAIN regs : regs[i] \in Registrations
  BY DEF TypeInv, TypeOK
<1>3. /\ DOMAIN regs = 1 .. Len(regs) /\ Len(regs) \in Nat
      /\ regs' = [i \in DOMAIN regs |->
                    IF HostOf[regs[i].to.addr] = h0 THEN [regs[i] EXCEPT !.alive = FALSE]
                    ELSE regs[i]]
  BY DEF TypeInv, TypeOK, ConnectionLost
<1>4. \A i \in DOMAIN regs : [regs[i] EXCEPT !.alive = FALSE] \in Registrations
  BY <1>2, DeadRegistration
<1>5. regs' \in Seq(Registrations)
  <2> DEFINE dead(i) == [regs[i] EXCEPT !.alive = FALSE]
             hit(i) == HostOf[regs[i].to.addr] = h0
  <2>1. regs' = [i \in 1 .. Len(regs) |-> IF hit(i) THEN dead(i) ELSE regs[i]]
    BY <1>3
  <2>2. \A i \in 1 .. Len(regs) : dead(i) \in Registrations /\ regs[i] \in Registrations
    BY <1>2, <1>3, <1>4
  <2> HIDE DEF dead, hit
  <2>3. regs' \in [1 .. Len(regs) -> Registrations]
    BY <2>1, <2>2
  <2>4. QED BY <1>3, <2>3
<1>6. /\ up' \subseteq Hosts /\ drops' \in 0 .. MaxDrops
      /\ DOMAIN peers' = DOMAIN peers /\ peers' \in [DOMAIN peers -> BOOLEAN]
  <2>1. up' \subseteq Hosts
    BY <1>1 DEF TypeInv, TypeOK
  <2>2. drops' \in 0 .. MaxDrops
    BY <1>1 DEF TypeInv, TypeOK
  <2>3. DOMAIN peers' = DOMAIN peers /\ peers' \in [DOMAIN peers -> BOOLEAN]
    BY <1>1, Zenon DEF TypeInv, TypeOK
  <2>4. QED BY <2>1, <2>2, <2>3
<1>7. QED BY <1>1, <1>5, <1>6, Zenon DEF TypeInv, TypeOK

(* The types hold always. *)
LEMMA TypeInvariant == Spec => []TypeInv
<1>1. Init => TypeInv
  <2>1. SUFFICES ASSUME Init PROVE TypeInv
    OBVIOUS
  <2>2. up \subseteq Hosts
    BY <2>1 DEF Init
  <2>3. IsFiniteSet(DOMAIN peers)
    BY <2>1, FS_EmptySet DEF Init
  <2>4. QED BY <2>1, <2>2, <2>3, IdleIsState DEF Init, TypeInv, TypeOK
<1>2. TypeInv /\ [Next]_vars => TypeInv'
  <2>1. SUFFICES ASSUME TypeInv, [Next]_vars PROVE TypeInv'
    OBVIOUS
  <2>2. CASE \/ \E a \in Addrs, c \in Communities : DialSeed(a, c)
             \/ \E a \in Addrs : DialPeer(a)
    BY <2>1, <2>2, DialTypes
  <2>3. ASSUME NEW t \in Tasks, TaskStep(t) PROVE TypeInv'
    BY <2>1, <2>3, TaskStepTypes
  <2>4. CASE Register
    BY <2>1, <2>4, RegisterTypes
  <2>5. CASE Publish
    BY <2>1, <2>5, PublishTypes
  <2>6. CASE HandleSeedEvent
    <3>1. events' \in Seq(SeedEvents) /\ Head(events) \in SeedEvents
      BY <2>1, <2>6 DEF HandleSeedEvent, TypeInv, TypeOK
    <3>2. status' \subseteq Communities
      BY <2>1, <2>6, <3>1 DEF HandleSeedEvent, TypeInv, TypeOK, SeedEvents
    <3>3. QED BY <2>1, <2>6, <3>1, <3>2 DEF HandleSeedEvent, TypeInv, TypeOK
  <2>7. ASSUME NEW a \in Addrs, AddListenAddr(a) PROVE TypeInv'
    BY <2>1, <2>7 DEF AddListenAddr, TypeInv, TypeOK
  <2>8. ASSUME NEW h \in Others, ConnectionLost(h) PROVE TypeInv'
    BY <2>1, <2>8, ConnectionLostTypes
  <2>9. ASSUME NEW h \in Others, ComesUp(h) PROVE TypeInv'
    BY <2>1, <2>9 DEF ComesUp, TypeInv, TypeOK, Others
  <2>10. CASE UNCHANGED vars
    BY <2>1, <2>10 DEF vars, TypeInv, TypeOK
  <2>11. QED BY <2>1, <2>2, <2>3, <2>4, <2>5, <2>6, <2>7, <2>8, <2>9, <2>10 DEF Next
<1>3. QED BY <1>1, <1>2, PTL DEF Spec

(* Every table, task, registration and event keeps its shape: what discovery
   dials never enters the seed tables (gossip.rs:150-230). *)
THEOREM TypeCorrect == Spec => []TypeOK
<1>1. TypeInv => TypeOK
  BY DEF TypeInv
<1>2. QED BY <1>1, TypeInvariant, PTL
-----------------------------------------------------------------------------
(* No two communities name the same host as a seed. *)
SeedsUnshared ==
  \A d, e \in SeedDials : HostOf[d[1]] = HostOf[e[1]] => d[2] = e[2]

(* The gossip task holds a connection to a seed of the community, or is one. *)
Linked(c) ==
  \E a \in Addrs : <<a, c>> \in SeedDials /\ (HostOf[a] \in DOMAIN peers \/ a \in own_addrs)

(* What the status of the community will be once the events are handled: what
   the last event about it says or, without one, what it is now. *)
Says(c) ==
  \/ c \in status /\ \A i \in DOMAIN events : events[i].comm # c
  \/ \E i \in DOMAIN events :
       /\ events[i].connected /\ events[i].comm = c
       /\ \A j \in DOMAIN events : j > i => events[j].comm # c

(* The target of a seed's task or registration is one a community names. *)
Named(x) == x.seed => <<x.to.addr, x.to.comm>> \in SeedDials

(* The strengthening StatusTruthful needs: the last word on a community holds
   while it is still on its way. *)
StatusInv ==
  /\ \A t \in Tasks : task[t] # IdleTask => Named(task[t])
  /\ \A i \in DOMAIN regs : Named(regs[i])
  /\ \A h \in DOMAIN seed_peers : <<seed_peers[h].addr, seed_peers[h].comm>> \in SeedDials
  /\ \A c \in Communities : Says(c) => Linked(c)

(* A new event is the last word on its community, and leaves the others'. *)
LEMMA EventSays ==
  ASSUME events \in Seq(SeedEvents), NEW b \in BOOLEAN, NEW c \in Communities,
         events' = Append(events, SeedEvent(b, c)), UNCHANGED status
  PROVE  /\ Says(c)' => b
         /\ \A d \in Communities : d # c /\ Says(d)' => Says(d)
<1> DEFINE n == Len(events) + 1
           e == SeedEvent(b, c)
<1>1. e.comm = c /\ e.connected = b
  BY DEF SeedEvent
<1> HIDE DEF e
<1>2. /\ n \in Nat /\ DOMAIN events = 1 .. n - 1 /\ DOMAIN events' = 1 .. n
      /\ events'[n] = e
      /\ \A i \in 1 .. n - 1 : events'[i] = events[i]
  BY DEF e
<1> HIDE DEF n
<1>3. Says(c)' => b
  BY <1>1, <1>2 DEF Says
<1>4. ASSUME NEW d \in Communities, d # c, Says(d)' PROVE Says(d)
  BY <1>1, <1>2, <1>4 DEF Says
<1>5. QED BY <1>3, <1>4

(* A community keeps its link while no peer is removed. *)
LEMMA LinkedKept ==
  ASSUME NEW c, Linked(c), DOMAIN peers \subseteq DOMAIN peers', own_addrs \subseteq own_addrs'
  PROVE  Linked(c)'
  BY DEF Linked

(* Steps that say nothing of a community and lose no connection. *)
LEMMA SaysKept ==
  ASSUME StatusInv, UNCHANGED <<events, status>>,
         DOMAIN peers \subseteq DOMAIN peers', own_addrs \subseteq own_addrs'
  PROVE  \A c \in Communities : Says(c)' => Linked(c)'
  BY LinkedKept DEF StatusInv, Says

(* Steps that say a community has its seed, or that it has lost it, of which the
   first is true. *)
LEMMA SaysTruth ==
  ASSUME StatusInv, events \in Seq(SeedEvents), NEW b \in BOOLEAN, NEW c \in Communities,
         events' = Append(events, SeedEvent(b, c)), UNCHANGED status,
         DOMAIN peers \subseteq DOMAIN peers', own_addrs \subseteq own_addrs',
         b => Linked(c)'
  PROVE  \A d \in Communities : Says(d)' => Linked(d)'
<1>1. SUFFICES ASSUME NEW d \in Communities, Says(d)' PROVE Linked(d)'
  OBVIOUS
<1>2. CASE d = c
  BY <1>1, <1>2, EventSays
<1>3. CASE d # c
  <2>1. Linked(d)
    BY <1>1, <1>3, EventSays DEF StatusInv
  <2>2. QED BY <2>1, LinkedKept
<1>4. QED BY <1>2, <1>3

(* Dials keep the status true. *)
LEMMA DialStatus ==
  ASSUME TypeInv, StatusInv,
         \/ \E a \in Addrs, c \in Communities : DialSeed(a, c)
         \/ \E a \in Addrs : DialPeer(a)
  PROVE  StatusInv'
<1>1. PICK t \in Tasks : \E n : /\ task' = [task EXCEPT ![t] = n] /\ Named(n)
                                  /\ UNCHANGED <<peers, seed_peers, regs, events, status, own_addrs>>
  <2>1. ASSUME NEW a \in Addrs, NEW c \in Communities, DialSeed(a, c)
        PROVE  \E t \in Tasks : \E n : /\ task' = [task EXCEPT ![t] = n] /\ Named(n)
                 /\ UNCHANGED <<peers, seed_peers, regs, events, status, own_addrs>>
    <3> DEFINE n == [pc |-> "dial", seed |-> TRUE, to |-> [addr |-> a, comm |-> c]]
    <3>1. Spawned \in Tasks
      BY <2>1 DEF DialSeed, Spawned, Free
    <3>2. Named(n)
      BY <2>1 DEF DialSeed, Named
    <3>3. /\ task' = [task EXCEPT ![Spawned] = n]
          /\ UNCHANGED <<peers, seed_peers, regs, events, status, own_addrs>>
      BY <2>1 DEF DialSeed
    <3> HIDE DEF n
    <3>4. QED BY <3>1, <3>2, <3>3, Zenon
  <2>2. ASSUME NEW a \in Addrs, DialPeer(a)
        PROVE  \E t \in Tasks : \E n : /\ task' = [task EXCEPT ![t] = n] /\ Named(n)
                 /\ UNCHANGED <<peers, seed_peers, regs, events, status, own_addrs>>
    <3> DEFINE n == [pc |-> "dial", seed |-> FALSE, to |-> [addr |-> a, comm |-> NoComm]]
    <3>1. Spawned \in Tasks
      BY <2>2 DEF DialPeer, Spawned, Free
    <3>2. Named(n)
      BY DEF Named
    <3>3. /\ task' = [task EXCEPT ![Spawned] = n]
          /\ UNCHANGED <<peers, seed_peers, regs, events, status, own_addrs>>
      BY <2>2 DEF DialPeer
    <3> HIDE DEF n
    <3>4. QED BY <3>1, <3>2, <3>3, Zenon
  <2>3. QED BY <2>1, <2>2
<1>2. \A u \in Tasks : task'[u] # IdleTask => Named(task'[u])
  BY <1>1 DEF StatusInv, TypeInv, TypeOK
<1>3. \A c \in Communities : Says(c)' => Linked(c)'
  BY <1>1, SaysKept
<1>4. QED BY <1>1, <1>2, <1>3 DEF StatusInv, Named

(* A task that changes keeps its target or ends. *)
LEMMA TaskStatus ==
  ASSUME TypeInv, StatusInv, NEW t \in Tasks, NEW s, task' = [task EXCEPT ![t] = s],
         s = IdleTask \/ (task[t] # IdleTask /\ s.seed = task[t].seed /\ s.to = task[t].to)
  PROVE  \A u \in Tasks : task'[u] # IdleTask => Named(task'[u])
  BY DEF TypeInv, TypeOK, StatusInv, Named

(* A step of a task keeps the status true. *)
LEMMA TaskStepStatus ==
  ASSUME TypeInv, StatusInv, NEW t \in Tasks, TaskStep(t)
  PROVE  StatusInv'
<1>1. task[t] \in TaskStates /\ events \in Seq(SeedEvents) /\ regs \in Seq(Registrations)
  BY DEF TypeInv, TypeOK
<1>2. task[t] # IdleTask /\ (task[t].pc # "dial" => task[t].seed)
  BY <1>1, BusyTask, Zenon
     DEF TaskStep, Connects, DialFails, LoopCancelled, LoopWakes, LoopFails
<1>3. Named(task[t])
  BY <1>2 DEF StatusInv
<1>4. task[t].seed => /\ task[t].to \in Targets
                      /\ \A pc \in {"wait", "connect"} :
                           LET s == [task[t] EXCEPT !.pc = pc]
                           IN  s.seed = task[t].seed /\ s.to = task[t].to
  <2>1. task[t].seed => task[t].to \in Targets
    BY <1>1, <1>2, Zenon DEF TaskStates
  <2>2. QED BY <1>1, <1>2, <2>1, SeedTaskMoves, Zenon
<1>5. UNCHANGED <<peers, seed_peers, own_addrs, status>>
  BY Zenon DEF TaskStep, Connects, DialFails, LoopCancelled, LoopWakes, LoopFails
<1>6. \A u \in Tasks : task'[u] # IdleTask => Named(task'[u])
  <2>1. PICK s : /\ task' = [task EXCEPT ![t] = s]
                 /\ s = IdleTask \/ (s.seed = task[t].seed /\ s.to = task[t].to)
    <3>1. CASE Connects(t) \/ LoopCancelled(t)
      BY <3>1 DEF Connects, LoopCancelled
    <3>2. CASE DialFails(t)
      <4>1. CASE ~task[t].seed \/ task[t].to.addr \in own_addrs
        BY <3>2, <4>1, Zenon DEF DialFails
      <4>2. CASE task[t].seed /\ task[t].to.addr \notin own_addrs
        <5>1. task' = [task EXCEPT ![t] = [task[t] EXCEPT !.pc = "wait"]]
          BY <3>2, <4>2, Zenon DEF DialFails, TypeInv, TypeOK
        <5>2. QED BY <1>4, <4>2, <5>1, Zenon
      <4>3. QED BY <4>1, <4>2
    <3>3. CASE LoopWakes(t)
      <4>1. task[t].seed /\ (task' = [task EXCEPT ![t] = IdleTask]
            \/ task' = [task EXCEPT ![t] = [@ EXCEPT !.pc = "connect"]])
        BY <1>2, <3>3, Zenon DEF LoopWakes, TypeInv, TypeOK
      <4>2. QED BY <1>4, <4>1, Zenon DEF TypeInv, TypeOK
    <3>4. CASE LoopFails(t)
      <4>1. task[t].seed /\ task' = [task EXCEPT ![t] = [@ EXCEPT !.pc = "wait"]]
        BY <1>2, <3>4 DEF LoopFails
      <4>2. QED BY <1>4, <4>1, Zenon DEF TypeInv, TypeOK
    <3>5. QED BY <3>1, <3>2, <3>3, <3>4 DEF TaskStep
  <2>2. QED BY <1>2, <2>1, TaskStatus, Zenon
<1>7. \A i \in DOMAIN regs' : Named(regs'[i])
  <2>1. CASE Connects(t)
    <3> DEFINE r == [seed |-> task[t].seed, to |-> task[t].to, alive |-> TRUE]
    <3>1. Named(r) /\ regs' = Append(regs, r)
      BY <1>3, <2>1 DEF Connects, Named
    <3> HIDE DEF r
    <3>2. /\ DOMAIN regs' = 1 .. Len(regs) + 1 /\ regs'[Len(regs) + 1] = r
          /\ DOMAIN regs = 1 .. Len(regs)
          /\ \A i \in 1 .. Len(regs) : regs'[i] = regs[i]
      BY <1>1, <3>1
    <3>3. QED BY <1>1, <3>1, <3>2 DEF StatusInv
  <2>2. CASE regs' = regs
    BY <2>2 DEF StatusInv
  <2>3. QED BY <2>1, <2>2, Zenon DEF TaskStep, DialFails, LoopCancelled, LoopWakes, LoopFails
<1>8. \A c \in Communities : Says(c)' => Linked(c)'
  <2>1. CASE DialFails(t) /\ task[t].seed
    <3>1. PICK a \in Addrs, c \in Communities :
            a = task[t].to.addr /\ c = task[t].to.comm /\ <<a, c>> \in SeedDials
      BY <1>3, <1>4, <2>1 DEF Targets, Named
    <3>2. PICK b \in BOOLEAN : /\ events' = Append(events, SeedEvent(b, c))
                               /\ b => a \in own_addrs
      BY <2>1, <3>1, Zenon DEF DialFails
    <3>3. b => Linked(c)'
      BY <1>5, <3>1, <3>2, Zenon DEF Linked
    <3>4. QED BY <1>1, <1>5, <3>1, <3>2, <3>3, SaysTruth
  <2>2. CASE events' = events
    BY <1>5, <2>2, SaysKept
  <2>3. QED BY <2>1, <2>2, Zenon DEF TaskStep, Connects, DialFails, LoopCancelled, LoopWakes, LoopFails
<1>9. QED BY <1>5, <1>6, <1>7, <1>8, ZenonT(30) DEF StatusInv, Named

(* A registration says that the community has its seed when it does. *)
LEMMA RegisterStatus ==
  ASSUME TypeInv, StatusInv, Register
  PROVE  StatusInv'
<1> DEFINE r == Head(regs)
           h0 == HostOf[r.to.addr]
<1>1. /\ regs \in Seq(Registrations) /\ events \in Seq(SeedEvents)
      /\ regs # <<>> /\ r = regs[1] /\ 1 \in DOMAIN regs /\ r \in Registrations
      /\ regs' = Tail(regs)
      /\ UNCHANGED <<task, status, own_addrs>>
  BY DEF TypeInv, TypeOK, Register
<1>2. /\ Named(r) /\ r.to.addr \in Addrs
      /\ r.seed => r.to.comm \in Communities
  BY <1>1, Zenon DEF StatusInv, Registrations, Targets
<1>3. /\ \A i \in DOMAIN regs' : i + 1 \in DOMAIN regs /\ regs'[i] = regs[i + 1]
  BY <1>1
<1>4. /\ DOMAIN peers' = DOMAIN peers \cup {h0}
      /\ \A h \in DOMAIN seed_peers' :
           \/ h \in DOMAIN seed_peers /\ seed_peers'[h] = seed_peers[h]
           \/ r.seed /\ seed_peers'[h] = r.to
  <2>1. CASE h0 \in DOMAIN peers
    <3>1. UNCHANGED <<peers, seed_peers>>
      BY <2>1 DEF Register
    <3>2. QED BY <2>1, <3>1, ZenonT(30)
  <2>2. CASE h0 \notin DOMAIN peers
    <3>1. /\ peers' = [g \in DOMAIN peers \cup {h0} |->
                         IF g = h0 THEN r.alive ELSE peers[g]]
          /\ seed_peers' = IF r.seed
                           THEN [g \in DOMAIN seed_peers \cup {h0} |->
                                   IF g = h0 THEN r.to ELSE seed_peers[g]]
                           ELSE seed_peers
      BY <2>2, Zenon DEF Register
    <3> HIDE DEF r, h0
    <3>2. QED BY <3>1
  <2>3. QED BY <2>1, <2>2, ZenonT(30)
<1>5. ASSUME r.seed
      PROVE  \E c \in Communities : c = r.to.comm /\ Linked(c)'
  BY <1>2, <1>4, <1>5 DEF Named, Linked
<1>6. /\ r.seed => events' = Append(events, SeedEvent(TRUE, r.to.comm))
      /\ ~r.seed => events' = events
  BY Zenon DEF Register
<1> HIDE DEF r, h0
<1>7. \A c \in Communities : Says(c)' => Linked(c)'
  <2>1. CASE r.seed
    <3>1. PICK c \in Communities : c = r.to.comm /\ Linked(c)'
      BY <1>5, <2>1
    <3>2. QED BY <1>1, <1>4, <1>6, <2>1, <3>1, SaysTruth, Zenon
  <2>2. CASE ~r.seed
    BY <1>1, <1>4, <1>6, <2>2, SaysKept
  <2>3. QED BY <2>1, <2>2
<1>8. \A h \in DOMAIN seed_peers' : <<seed_peers'[h].addr, seed_peers'[h].comm>> \in SeedDials
  BY <1>2, <1>4 DEF StatusInv, Named
<1>9. \A i \in DOMAIN regs' : Named(regs'[i])
  BY <1>3 DEF StatusInv
<1>10. QED BY <1>1, <1>7, <1>8, <1>9 DEF StatusInv, Named

(* The elements of two sequences joined. *)
LEMMA Appended ==
  ASSUME NEW S, NEW s \in Seq(S), NEW t \in Seq(S)
  PROVE  /\ Len(s) \in Nat /\ DOMAIN s = 1 .. Len(s)
         /\ DOMAIN (s \o t) = 1 .. Len(s) + Len(t)
         /\ \A i \in 1 .. Len(s) : (s \o t)[i] = s[i]
         /\ \A i \in 1 .. Len(t) : (s \o t)[Len(s) + i] = t[i]
  OBVIOUS

(* Whoever is found dead takes a community's link with it only if the community
   is told: the host is tracked as a seed, and of no other community. *)
LEMMA PublishStatus ==
  ASSUME TypeInv, LinksInv, SeedsUnshared, StatusInv, Publish
  PROVE  StatusInv'
<1> DEFINE dead == {h \in DOMAIN peers : ~peers[h]}
           lost == dead \cap DOMAIN seed_peers
           loop == CHOOSE f \in Injection(lost, Free) : TRUE
           spawned == {loop[h] : h \in lost}
           begun(t) == [pc |-> "wait", seed |-> TRUE,
                        to |-> seed_peers[CHOOSE h \in lost : loop[h] = t]]
           n == Cardinality(lost)
<1>1. /\ peers' = [h \in DOMAIN peers \ dead |-> peers[h]]
      /\ seed_peers' = [h \in DOMAIN seed_peers \ lost |-> seed_peers[h]]
      /\ task' = [t \in Tasks |-> IF t \in spawned THEN begun(t) ELSE task[t]]
      /\ UNCHANGED <<regs, status, own_addrs>>
  BY ZenonT(30) DEF Publish
<1>2. PICK told \in Bijection(1 .. n, lost) :
        events' = events \o [i \in 1 .. n |-> SeedEvent(FALSE, seed_peers[told[i]].comm)]
  BY Zenon DEF Publish
<1>3. n \in Nat
  <2>1. lost \subseteq DOMAIN peers
    BY ZenonT(30)
  <2> HIDE DEF lost
  <2>2. QED BY <2>1, FS_Subset, FS_CardinalityType DEF TypeInv
<1>4. \A h \in lost : /\ <<seed_peers[h].addr, seed_peers[h].comm>> \in SeedDials
                      /\ HostOf[seed_peers[h].addr] = h
  BY ZenonT(30) DEF StatusInv, TypeInv
<1>5. DOMAIN peers' = DOMAIN peers \ dead
  BY <1>1, ZenonT(30)
<1>6. \A t \in Tasks : task'[t] # IdleTask => Named(task'[t])
  <2>1. SUFFICES ASSUME NEW t \in Tasks, task'[t] # IdleTask PROVE Named(task'[t])
    BY ZenonT(30)
  <2>2. CASE t \in spawned
    <3>1. (CHOOSE h \in lost : loop[h] = t) \in lost
      BY <2>2
    <3>2. Named(begun(t))
      BY <1>4, <3>1 DEF Named
    <3> HIDE DEF begun, spawned
    <3>3. QED BY <1>1, <2>2, <3>2, ZenonT(30)
  <2>3. CASE t \notin spawned
    BY <1>1, <2>1, <2>3, ZenonT(30) DEF StatusInv
  <2>4. QED BY <2>2, <2>3, ZenonT(30)
<1>7. \A h \in DOMAIN seed_peers' : <<seed_peers'[h].addr, seed_peers'[h].comm>> \in SeedDials
  BY <1>1 DEF StatusInv
<1>8. \A c \in Communities : Says(c)' => Linked(c)'
  <2> HIDE DEF n, loop, begun, spawned
  <2>1. SUFFICES ASSUME NEW c \in Communities, Says(c)' PROVE Linked(c)'
    OBVIOUS
  <2> DEFINE m == Len(events)
  <2>2. /\ m \in Nat /\ DOMAIN events = 1 .. m /\ DOMAIN events' = 1 .. m + n
        /\ \A i \in 1 .. m : events'[i] = events[i]
        /\ \A i \in 1 .. n : events'[m + i] = SeedEvent(FALSE, seed_peers[told[i]].comm)
    <3> DEFINE e(i) == SeedEvent(FALSE, seed_peers[told[i]].comm)
               new == [i \in 1 .. n |-> e(i)]
    <3>1. events \in Seq(SeedEvents) /\ events' = events \o new
      BY <1>2 DEF TypeInv, TypeOK
    <3>2. \A i \in 1 .. n : e(i) \in SeedEvents
      <4>1. \A i \in 1 .. n : told[i] \in DOMAIN seed_peers
        BY <1>2, Zenon DEF Bijection, Injection
      <4>2. \A h \in DOMAIN seed_peers : seed_peers[h].comm \in Communities
        BY DEF TypeInv, TypeOK, Targets
      <4>3. QED BY <4>1, <4>2 DEF SeedEvent, SeedEvents
    <3> HIDE DEF e
    <3>3. new \in Seq(SeedEvents) /\ Len(new) = n /\ \A i \in 1 .. n : new[i] = e(i)
      BY <1>3, <3>2
    <3> HIDE DEF new
    <3>4. /\ m \in Nat /\ DOMAIN events = 1 .. m /\ DOMAIN events' = 1 .. m + n
          /\ \A i \in 1 .. m : events'[i] = events[i]
          /\ \A i \in 1 .. n : events'[m + i] = new[i]
      BY <3>1, <3>3, Appended
    <3>5. QED BY <3>3, <3>4, Zenon DEF e
  <2>3. \A i \in 1 .. n : /\ ~events'[m + i].connected
                          /\ events'[m + i].comm = seed_peers[told[i]].comm
    <3>1. \A c1 : SeedEvent(FALSE, c1).connected = FALSE /\ SeedEvent(FALSE, c1).comm = c1
      BY DEF SeedEvent
    <3> HIDE DEF m
    <3>2. QED BY <2>2, <3>1, Zenon
  <2>4. \A h \in lost : \E i \in 1 .. n : told[i] = h
    BY <1>2, Zenon DEF Bijection, Surjection
  <2> HIDE DEF m, lost
  <2>5. \A i \in 1 .. n : m + i \in DOMAIN events' /\ m + i > m
    BY <1>3, <2>2
  <2>6. \A i \in DOMAIN events' : i > m => i - m \in 1 .. n /\ i = m + (i - m)
    BY <1>3, <2>2
  <2>7. \A h \in lost : seed_peers[h].comm # c
    <3>1. SUFFICES ASSUME NEW h \in lost, seed_peers[h].comm = c PROVE FALSE
      OBVIOUS
    <3>2. PICK k \in 1 .. n : told[k] = h
      BY <2>4
    <3>3. events'[m + k].comm = c /\ m + k \in DOMAIN events'
      BY <2>3, <2>5, <3>1, <3>2
    <3>4. PICK i \in DOMAIN events' :
            /\ events'[i].connected /\ events'[i].comm = c
            /\ \A j \in DOMAIN events' : j > i => events'[j].comm # c
      BY <2>1, <3>3 DEF Says
    <3>5. i > m
      BY <1>3, <2>2, <2>5, <3>3, <3>4
    <3>6. QED BY <2>3, <2>6, <3>4, <3>5
  <2>8. Says(c)
    <3>1. CASE c \in status' /\ \A i \in DOMAIN events' : events'[i].comm # c
      BY <1>1, <1>3, <2>2, <3>1 DEF Says
    <3>2. ASSUME NEW i \in DOMAIN events', events'[i].connected, events'[i].comm = c,
                 \A j \in DOMAIN events' : j > i => events'[j].comm # c
          PROVE  Says(c)
      <4>1. i \in DOMAIN events
        BY <1>3, <2>2, <2>3, <2>6, <3>2
      <4>2. QED BY <1>3, <2>2, <3>2, <4>1 DEF Says
    <3>3. QED BY <2>1, <3>1, <3>2 DEF Says
  <2>9. PICK a \in Addrs : <<a, c>> \in SeedDials /\ (HostOf[a] \in DOMAIN peers \/ a \in own_addrs)
    BY <2>8 DEF StatusInv, Linked
  <2>10. CASE a \in own_addrs
    BY <1>1, <2>9, <2>10, Zenon DEF Linked
  <2>11. CASE HostOf[a] \in DOMAIN peers
    <3>1. HostOf[a] \in SeedHosts
      BY <2>9 DEF SeedHosts, SeedAddrs
    <3>2. HostOf[a] \notin dead
      <4>1. SUFFICES ASSUME HostOf[a] \in dead PROVE FALSE
        OBVIOUS
      <4>2. HostOf[a] \in lost
        BY <2>11, <3>1, <4>1 DEF LinksInv, lost
      <4>3. seed_peers[HostOf[a]].comm = c
        BY <1>4, <2>9, <4>2, ZenonT(30) DEF SeedsUnshared
      <4>4. QED BY <2>7, <4>2, <4>3
    <3> HIDE DEF dead
    <3>3. QED BY <1>5, <2>9, <2>11, <3>2 DEF Linked
  <2>12. QED BY <2>9, <2>10, <2>11
<1>9. QED BY <1>1, <1>6, <1>7, <1>8, Zenon DEF StatusInv, Named

(* The event processor sets the status that the event says. *)
LEMMA HandleEventStatus ==
  ASSUME TypeInv, StatusInv, HandleSeedEvent
  PROVE  StatusInv'
<1> DEFINE e == Head(events)
<1>1. /\ events # <<>> /\ e = events[1] /\ Len(events) \in Nat \ {0}
      /\ DOMAIN events = 1 .. Len(events) /\ DOMAIN events' = 1 .. Len(events) - 1
      /\ \A i \in DOMAIN events' : events'[i] = events[i + 1]
      /\ UNCHANGED <<peers, seed_peers, task, regs, own_addrs>>
  BY DEF TypeInv, TypeOK, HandleSeedEvent
<1>2. status' = IF e.connected THEN status \cup {e.comm} ELSE status \ {e.comm}
  BY DEF HandleSeedEvent
<1> HIDE DEF e
<1>3. ASSUME NEW c \in Communities, Says(c)' PROVE Says(c)
  <2>1. ASSUME NEW i \in DOMAIN events', events'[i].connected, events'[i].comm = c,
               \A j \in DOMAIN events' : j > i => events'[j].comm # c
        PROVE  Says(c)
    <3>1. /\ i + 1 \in DOMAIN events
          /\ \A j \in DOMAIN events : j > i + 1 => j - 1 \in DOMAIN events' /\ j - 1 > i
                                                   /\ events'[j - 1] = events[j]
      BY <1>1
    <3>2. \A j \in DOMAIN events : j > i + 1 => events[j].comm # c
      BY <2>1, <3>1
    <3>3. QED BY <1>1, <2>1, <3>1, <3>2 DEF Says
  <2>2. CASE c \in status' /\ \A i \in DOMAIN events' : events'[i].comm # c
    <3>1. \A j \in DOMAIN events : j # 1 => j - 1 \in DOMAIN events' /\ events'[j - 1] = events[j]
      BY <1>1
    <3>2. \A j \in DOMAIN events : j # 1 => events[j].comm # c
      BY <2>2, <3>1
    <3>3. CASE e.comm = c
      <4>1. e.connected
        BY <1>2, <2>2, <3>3
      <4>2. \A j \in DOMAIN events : j > 1 => events[j].comm # c
        BY <1>1, <3>2
      <4>3. QED BY <1>1, <3>3, <4>1, <4>2 DEF Says
    <3>4. CASE e.comm # c
      <4>1. c \in status
        BY <1>2, <2>2, <3>4
      <4>2. QED BY <1>1, <3>2, <3>4, <4>1 DEF Says
    <3>5. QED BY <3>3, <3>4
  <2>3. QED BY <1>3, <2>1, <2>2 DEF Says
<1>4. \A c \in Communities : Says(c)' => Linked(c)'
  BY <1>1, <1>3, LinkedKept DEF StatusInv
<1>5. QED BY <1>1, <1>4, ZenonT(30) DEF StatusInv, Named

(* The other steps keep the status true. *)
LEMMA OtherStatus ==
  ASSUME TypeInv, StatusInv,
         \/ \E a \in Addrs : AddListenAddr(a)
         \/ \E h \in Others : ConnectionLost(h) \/ ComesUp(h)
         \/ UNCHANGED vars
  PROVE  StatusInv'
<1>1. /\ UNCHANGED <<seed_peers, task, events, status>>
      /\ DOMAIN peers' = DOMAIN peers /\ own_addrs \subseteq own_addrs'
  BY Zenon DEF AddListenAddr, ConnectionLost, ComesUp, vars
<1>2. \A i \in DOMAIN regs' : Named(regs'[i])
  <2>1. ASSUME NEW h \in Others, ConnectionLost(h)
        PROVE  \A i \in DOMAIN regs' : Named(regs'[i])
    <3>1. SUFFICES ASSUME NEW i \in DOMAIN regs' PROVE Named(regs'[i])
      OBVIOUS
    <3>2. i \in DOMAIN regs /\ regs[i] \in Registrations
      BY <2>1 DEF ConnectionLost, TypeInv, TypeOK
    <3>3. regs'[i] = regs[i] \/ regs'[i] = [regs[i] EXCEPT !.alive = FALSE]
      BY <2>1, <3>2 DEF ConnectionLost
    <3>4. regs'[i].seed = regs[i].seed /\ regs'[i].to = regs[i].to
      BY <3>2, <3>3, DeadRegistration, Zenon
    <3>5. QED BY <3>2, <3>4, Zenon DEF StatusInv, Named
  <2>2. CASE regs' = regs
    BY <2>2 DEF StatusInv
  <2>3. QED BY <2>1, <2>2 DEF AddListenAddr, ComesUp, vars
<1>3. \A c \in Communities : Says(c)' => Linked(c)'
  BY <1>1, SaysKept
<1>4. QED BY <1>1, <1>2, <1>3 DEF StatusInv, Named

(* What the event processor shows of a community's seed is true once the events
   are handled, in whatever order tasks, registrations, losses and events
   interleave - as long as no two communities share a seed, and no peer
   discovery dials one without is_seed (api/mod.rs:298). *)
THEOREM StatusTrue ==
  ASSUME SeedsDialledAsSeeds, SeedsUnshared
  PROVE  Spec => []StatusTruthful
<1>1. Init => StatusInv
  BY DEF Init, StatusInv, Says
<1>2. StatusInv /\ TypeInv /\ LinksInv /\ [Next]_vars => StatusInv'
  <2>1. SUFFICES ASSUME StatusInv, TypeInv, LinksInv, [Next]_vars PROVE StatusInv'
    OBVIOUS
  <2>2. CASE \/ \E a \in Addrs, c \in Communities : DialSeed(a, c)
             \/ \E a \in Addrs : DialPeer(a)
    BY <2>1, <2>2, DialStatus
  <2>3. ASSUME NEW t \in Tasks, TaskStep(t) PROVE StatusInv'
    BY <2>1, <2>3, TaskStepStatus
  <2>4. CASE Register
    BY <2>1, <2>4, RegisterStatus
  <2>5. CASE Publish
    BY <2>1, <2>5, PublishStatus
  <2>6. CASE HandleSeedEvent
    BY <2>1, <2>6, HandleEventStatus
  <2>7. CASE \/ \E a \in Addrs : AddListenAddr(a)
             \/ \E h \in Others : ConnectionLost(h) \/ ComesUp(h)
             \/ UNCHANGED vars
    BY <2>1, <2>7, OtherStatus
  <2>8. QED BY <2>1, <2>2, <2>3, <2>4, <2>5, <2>6, <2>7 DEF Next
<1>3. StatusInv /\ TypeInv => StatusTruthful
  <2>1. SUFFICES ASSUME StatusInv, TypeInv, events = <<>>, NEW c \in status PROVE Linked(c)
    BY Zenon DEF StatusTruthful, Linked
  <2>2. c \in Communities /\ Says(c)
    BY <2>1 DEF TypeInv, TypeOK, Says
  <2>3. QED BY <2>1, <2>2 DEF StatusInv
<1>4. QED BY <1>1, <1>2, <1>3, TypeInvariant, LinksInvariant, PTL DEF Spec
=============================================================================
