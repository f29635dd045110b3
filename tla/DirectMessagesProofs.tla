------------------------ MODULE DirectMessagesProofs ------------------------
(***************************************************************************)
(* Proofs about DirectMessages, for every set of users and every bound.    *)
(*                                                                         *)
(* FiledWithPeer and SendAccounted are proved together.  The inductive      *)
(* invariant adds that every message anywhere has a number that was given   *)
(* out (Data), so that the next one is new to every conversation; and that  *)
(* a command is its own node's (CommandsOwn) and an answered request has    *)
(* left its message in the mailbox (AnsweredHeld), so that the end of       *)
(* either loses nothing.                                                   *)
(***************************************************************************)
EXTENDS DirectMessages, TLAPS

(* The messages whose number was given out. *)
Numbered == {m \in Messages : m.id <= sent}

NumberedEvents == {e \in Events : e.msg \in Numbered}

NumberedCommands == {c \in Commands : c.msg \in Numbered}

Data ==
  /\ dms \in [Nodes -> [Users -> Seq(Numbered)]]
  /\ mail \in [Nodes -> [MailKeys -> Seq(Numbered)]]
  /\ cmds \in [Users -> Seq(NumberedCommands)]
  /\ inbox \in [Nodes -> Seq(NumberedEvents)]
  /\ tasks \subseteq Tasks /\ \A t \in tasks : t.msg \in Numbered

Links ==
  /\ up \subseteq Nodes
  /\ peers \subseteq Users \X Nodes
  /\ \A p \in peers : p[1] # p[2] /\ p[1] \in up /\ p[2] \in up
  /\ \A t \in tasks : t.msg.from \in up
  /\ \A n \in Nodes \ up : inbox[n] = <<>> /\ (n \in Users => cmds[n] = <<>>)

Rest ==
  /\ failed \subseteq Messages
  /\ mailboxes \in [Users -> SUBSET Nodes]
  /\ selfAddr \in [Nodes -> Nodes]
  /\ \A n \in Nodes : selfAddr[n] \in {n, Seed}
  /\ preferred \in [Users -> {Seed, None}]
  /\ sent \in 0 .. MaxSends
  /\ unsealed \subseteq Messages /\ lost \subseteq Messages
  /\ stops \in 0 .. MaxStops /\ sets \in 0 .. MaxSets

CommandsOwn == \A n \in Users : \A c \in Range(cmds[n]) : c.msg.from = n

AnsweredHeld == \A t \in tasks : t.answered => Holds(t.via, t.msg)

IInv ==
  /\ Data /\ Links /\ Rest /\ CommandsOwn
  /\ FiledWithPeer /\ SendAccounted /\ AnsweredHeld
-----------------------------------------------------------------------------
(* Sequences over a smaller set are sequences over a larger one. *)
LEMMA SeqMonotonic ==
  ASSUME NEW S, NEW T, S \subseteq T
  PROVE  Seq(S) \subseteq Seq(T)
  OBVIOUS

(* A sequence without its i-th element, as dm_discard leaves a conversation. *)
Without(s, i) == SubSeq(s, 1, i - 1) \o SubSeq(s, i + 1, Len(s))

(* It has the others, in their order. *)
LEMMA WithoutElements ==
  ASSUME NEW S, NEW s \in Seq(S), NEW i \in DOMAIN s
  PROVE  /\ Without(s, i) \in Seq(S) /\ Len(Without(s, i)) = Len(s) - 1
         /\ \A j \in DOMAIN Without(s, i) :
              Without(s, i)[j] = IF j < i THEN s[j] ELSE s[j + 1]
  <1> DEFINE a == SubSeq(s, 1, i - 1)
             b == SubSeq(s, i + 1, Len(s))
  <1>1. /\ a \in Seq(S) /\ Len(a) = i - 1
        /\ \A j \in 1 .. i - 1 : a[j] = s[j]
    OBVIOUS
  <1>2. /\ b \in Seq(S) /\ Len(b) = Len(s) - i
        /\ \A j \in 1 .. Len(s) - i : b[j] = s[j + i]
    OBVIOUS
  <1>3. Without(s, i) = a \o b
    BY DEF Without
  <1> HIDE DEF a, b
  <1>4. QED
    BY <1>1, <1>2, <1>3

(* The seed is a node and not a user; None is not a node. *)
LEMMA NodesOf ==
  /\ Seed \in Nodes /\ Seed \notin Users /\ Users \subseteq Nodes /\ None \notin Nodes
  BY ConstantsAssumption DEF Nodes

(* The parties of a message are two users, and its number is one that was. *)
LEMMA MessageOf ==
  ASSUME NEW m \in Messages
  PROVE  /\ m.id \in 1 .. MaxSends /\ m.from \in Users /\ m.to \in Users
         /\ m.from # m.to
  BY DEF Messages

(* Both keys of a user name a mailbox. *)
LEMMA KeysOf ==
  ASSUME NEW u \in Users
  PROVE  X25519(u) \in MailKeys /\ Ed25519(u) \in MailKeys
  BY DEF MailKeys

(* The inductive invariant implies the type invariant. *)
LEMMA IInvType == IInv => TypeOK
  <1> SUFFICES ASSUME IInv PROVE TypeOK
    OBVIOUS
  <1>1. /\ Seq(Numbered) \subseteq Seq(Messages)
        /\ Seq(NumberedEvents) \subseteq Seq(Events)
        /\ Seq(NumberedCommands) \subseteq Seq(Commands)
    <2>1. Numbered \subseteq Messages /\ NumberedEvents \subseteq Events
            /\ NumberedCommands \subseteq Commands
      BY DEF Numbered, NumberedEvents, NumberedCommands
    <2>2. QED
      BY <2>1, SeqMonotonic
  <1>2. /\ dms \in [Nodes -> [Users -> Seq(Messages)]]
        /\ mail \in [Nodes -> [MailKeys -> Seq(Messages)]]
    BY <1>1 DEF IInv, Data
  <1>3. cmds \in [Users -> Seq(Commands)] /\ inbox \in [Nodes -> Seq(Events)]
    BY <1>1 DEF IInv, Data
  <1>4. QED
    BY <1>2, <1>3 DEF IInv, Data, Links, Rest, TypeOK

(* It holds before anything was sent. *)
LEMMA InitIInv == Init => IInv
  <1> SUFFICES ASSUME Init PROVE IInv
    OBVIOUS
  <1> USE NodesOf
  <1>1. Data
    BY DEF Init, Data
  <1>2. Links
    BY DEF Init, Links
  <1>3. Rest
    BY ConstantsAssumption DEF Init, Rest
  <1>4. FiledWithPeer
    BY DEF Init, FiledWithPeer
  <1>5. SendAccounted
    BY DEF Init, SendAccounted, Range
  <1>6. AnsweredHeld
    BY DEF Init, AnsweredHeld
  <1>7. CommandsOwn
    BY DEF Init, CommandsOwn, Range
  <1>8. QED
    BY <1>1, <1>2, <1>3, <1>4, <1>5, <1>6, <1>7 DEF IInv
-----------------------------------------------------------------------------
(* Append adds one element. *)
LEMMA AppendElements ==
  ASSUME NEW S, NEW s \in Seq(S), NEW x \in S
  PROVE  /\ Append(s, x) \in Seq(S)
         /\ Range(Append(s, x)) = Range(s) \cup {x}
  <1>1. /\ Append(s, x) \in Seq(S) /\ Len(Append(s, x)) = Len(s) + 1
        /\ \A i \in 1 .. Len(s) : Append(s, x)[i] = s[i]
        /\ Append(s, x)[Len(s) + 1] = x
    OBVIOUS
  <1>2. DOMAIN s = 1 .. Len(s) /\ DOMAIN Append(s, x) = 1 .. Len(s) + 1
    BY <1>1
  <1>3. \A y : y \in Range(Append(s, x)) <=> y \in Range(s) \cup {x}
    BY <1>1, <1>2 DEF Range
  <1>4. QED
    BY <1>1, <1>3

(* The head and the tail hold all elements of a sequence. *)
LEMMA TailElements ==
  ASSUME NEW S, NEW s \in Seq(S), s # <<>>
  PROVE  /\ Tail(s) \in Seq(S) /\ Head(s) \in S
         /\ Range(s) = Range(Tail(s)) \cup {Head(s)}
  <1>1. /\ Tail(s) \in Seq(S) /\ Len(Tail(s)) = Len(s) - 1 /\ Len(s) \in Nat \ {0}
        /\ \A i \in 1 .. Len(s) - 1 : Tail(s)[i] = s[i + 1]
        /\ Head(s) = s[1] /\ s[1] \in S
    OBVIOUS
  <1>2. DOMAIN s = 1 .. Len(s) /\ DOMAIN Tail(s) = 1 .. Len(s) - 1
    BY <1>1
  <1>3. ASSUME NEW y \in Range(s) PROVE y \in Range(Tail(s)) \cup {Head(s)}
    <2>1. PICK i \in 1 .. Len(s) : y = s[i]
      BY <1>2 DEF Range
    <2>2. CASE i = 1
      BY <2>1, <2>2, <1>1
    <2>3. CASE i # 1
      <3>1. i - 1 \in 1 .. Len(s) - 1 /\ y = Tail(s)[i - 1]
        BY <2>1, <2>3, <1>1
      <3>2. QED
        BY <3>1, <1>2, Zenon DEF Range
    <2>4. QED
      BY <2>2, <2>3
  <1>4. ASSUME NEW y \in Range(Tail(s)) \cup {Head(s)} PROVE y \in Range(s)
    BY <1>1, <1>2 DEF Range
  <1>5. QED
    BY <1>1, <1>3, <1>4

(* A sequence that is continued keeps its elements. *)
LEMMA ConcatElements ==
  ASSUME NEW S, NEW s \in Seq(S), NEW r \in Seq(S)
  PROVE  s \o r \in Seq(S) /\ Range(s) \subseteq Range(s \o r)
  <1>1. /\ s \o r \in Seq(S) /\ Len(s \o r) = Len(s) + Len(r)
        /\ \A i \in 1 .. Len(s) : (s \o r)[i] = s[i]
    OBVIOUS
  <1>2. DOMAIN s = 1 .. Len(s) /\ DOMAIN (s \o r) = 1 .. Len(s) + Len(r)
    BY <1>1
  <1>3. QED
    BY <1>1, <1>2 DEF Range

-----------------------------------------------------------------------------
(* What SendAccounted asks for one message of one sender. *)
Accounted(n, m) ==
  \/ m \in unsealed \cup lost \cup failed
  \/ \E c \in Range(cmds[n]) : c.msg = m
  \/ \E t \in tasks : t.msg = m
  \/ SendFailed(m) \in Range(inbox[n])
  \/ \E x \in Nodes : Holds(x, m)

(* SendAccounted is kept when no message is added to a sender's conversation
   and every message of it stays accounted for. *)
LEMMA AccountedKept ==
  ASSUME SendAccounted,
         \A n, u \in Users : \A m \in Range(dms'[n][u]) :
           m.from = n => m \in Range(dms[n][u]) \/ Accounted(n, m)',
         \A n, u \in Users : \A m \in Range(dms[n][u]) :
           m.from = n /\ Accounted(n, m) => Accounted(n, m)'
  PROVE  SendAccounted'
  BY DEF SendAccounted, Accounted

(* Steps that touch neither messages nor requests. *)
LEMMA UntouchedData ==
  ASSUME IInv, UNCHANGED <<stored, sending, inbox, lost>>
  PROVE  Data' /\ CommandsOwn' /\ FiledWithPeer' /\ SendAccounted' /\ AnsweredHeld'
  <1> USE DEF IInv, stored, sending
  <1>1. Data'
    BY DEF Data, Numbered, NumberedEvents, NumberedCommands
  <1>2. FiledWithPeer'
    BY DEF FiledWithPeer
  <1>3. SendAccounted'
    BY DEF SendAccounted, Holds
  <1>4. AnsweredHeld'
    BY DEF AnsweredHeld, Holds
  <1>5. CommandsOwn'
    BY DEF CommandsOwn
  <1>6. QED
    BY <1>1, <1>2, <1>3, <1>4, <1>5

(* Steps that touch no conversation. *)
LEMMA UntouchedFiled ==
  ASSUME IInv, dms' = dms
  PROVE  FiledWithPeer'
  BY DEF IInv, FiledWithPeer

(* The announcements of a mailbox or an address touch no message. *)
LEMMA AnnouncementsStep ==
  ASSUME IInv, NEW n \in Users, Announcements(n)
  PROVE  IInv'
  <1>1. UNCHANGED <<stored, sending, inbox, links, history>>
    BY DEF Announcements, SetPreferredMailbox, ClearPreferredMailbox, DiscoverAddr,
           AnnounceMailbox
  <1>2. Links'
    BY <1>1 DEF IInv, Links, sending, links
  <1>3. Rest'
    <2> USE <1>1, NodesOf DEF IInv, Rest, sending, history
    <2>1. CASE SetPreferredMailbox(n)
      BY <2>1, ConstantsAssumption DEF SetPreferredMailbox
    <2>2. CASE ClearPreferredMailbox(n)
      BY <2>2 DEF ClearPreferredMailbox
    <2>3. CASE DiscoverAddr(n)
      BY <2>3, ConstantsAssumption DEF DiscoverAddr
    <2>4. CASE AnnounceMailbox(n)
      BY <2>4 DEF AnnounceMailbox
    <2>5. QED
      BY <2>1, <2>2, <2>3, <2>4 DEF Announcements
  <1>4. QED
    BY <1>1, <1>2, <1>3, UntouchedData DEF IInv, history

(* A lost connection touches no message. *)
LEMMA DisconnectStep ==
  ASSUME IInv, NEW n \in Users, NEW m \in Nodes, Disconnect(n, m)
  PROVE  IInv'
  <1>1. UNCHANGED <<stored, sending, inbox, records, up, lost>> /\ peers' \subseteq peers
    BY DEF Disconnect
  <1>2. Links'
    BY <1>1 DEF IInv, Links, sending
  <1>3. Rest'
    BY <1>1, ConstantsAssumption DEF Disconnect, IInv, Rest, sending, records
  <1>4. QED
    BY <1>1, <1>2, <1>3, UntouchedData DEF IInv

(* A node that starts finds what it stored. *)
LEMMA StartStep ==
  ASSUME IInv, NEW n \in Nodes, Start(n)
  PROVE  IInv'
  <1>1. UNCHANGED <<stored, sending, inbox, history, peers>>
    BY DEF Start
  <1>2. Links'
    BY <1>1 DEF Start, IInv, Links, sending
  <1>3. Rest'
    BY <1>1 DEF Start, IInv, Rest, sending, history
  <1>4. QED
    BY <1>1, <1>2, <1>3, UntouchedData DEF IInv, history
-----------------------------------------------------------------------------
(* A number that is given out is new to every conversation. *)
LEMMA DmSendStep ==
  ASSUME IInv, NEW n \in Users, NEW u \in Users, NEW found \in BOOLEAN,
         NEW mailbox \in Nodes \cup {None}, NEW addr \in Nodes \cup {None},
         DmSend(n, u, found, mailbox, addr)
  PROVE  IInv'
  <1> DEFINE msg == [id |-> sent + 1, from |-> n, to |-> u]
             cmd == [msg |-> msg, mailbox |-> mailbox, addr |-> addr]
  <1>1. /\ n \in up /\ u # n /\ sent < MaxSends /\ sent' = sent + 1
        /\ dms' = [dms EXCEPT ![n][u] = Append(@, msg)]
        /\ unsealed' = IF found THEN unsealed ELSE unsealed \cup {msg}
        /\ cmds' = IF found THEN [cmds EXCEPT ![n] = Append(@, cmd)] ELSE cmds
        /\ UNCHANGED <<mail, tasks, failed, inbox, records, links, history>>
    BY DEF DmSend
  <1>2. sent \in Nat /\ sent + 1 \in 1 .. MaxSends /\ MaxSends \in Nat
    BY <1>1, ConstantsAssumption DEF IInv, Rest
  <1>3. /\ msg \in Messages /\ msg \in Numbered' /\ msg \notin Numbered
        /\ msg.from = n /\ msg.to = u
    BY <1>1, <1>2 DEF Messages, Numbered
  <1>4. cmd \in NumberedCommands' /\ cmd.msg = msg
    BY <1>3 DEF Commands, NumberedCommands
  <1>5. /\ Numbered \subseteq Numbered' /\ NumberedEvents \subseteq NumberedEvents'
        /\ NumberedCommands \subseteq NumberedCommands'
    <2>1. Numbered \subseteq Numbered'
      BY <1>1, <1>2, MessageOf DEF Numbered
    <2>2. QED
      BY <2>1 DEF NumberedEvents, NumberedCommands
  <1> HIDE DEF msg, cmd
  <1>6. /\ Seq(Numbered) \subseteq Seq(Numbered')
        /\ Seq(NumberedEvents) \subseteq Seq(NumberedEvents')
        /\ Seq(NumberedCommands) \subseteq Seq(NumberedCommands')
    BY <1>5, SeqMonotonic
  <1>7. dms[n][u] \in Seq(Numbered) /\ cmds[n] \in Seq(NumberedCommands)
    BY NodesOf DEF IInv, Data
  <1>8. /\ Append(dms[n][u], msg) \in Seq(Numbered')
        /\ Range(Append(dms[n][u], msg)) = Range(dms[n][u]) \cup {msg}
    BY <1>3, <1>6, <1>7, AppendElements
  <1>9. /\ Append(cmds[n], cmd) \in Seq(NumberedCommands')
        /\ Range(Append(cmds[n], cmd)) = Range(cmds[n]) \cup {cmd}
    BY <1>4, <1>6, <1>7, AppendElements
  <1>10. Data'
    <2>1. dms' \in [Nodes -> [Users -> Seq(Numbered')]]
      <3>1. dms \in [Nodes -> [Users -> Seq(Numbered')]]
        BY <1>6 DEF IInv, Data
      <3>2. dms' = [dms EXCEPT ![n][u] = Append(dms[n][u], msg)]
        BY <1>1
      <3>3. QED
        BY <3>1, <3>2, <1>8, ZenonT(30)
    <2>2. cmds' \in [Users -> Seq(NumberedCommands')]
      BY <1>1, <1>6, <1>9 DEF IInv, Data
    <2>3. mail' \in [Nodes -> [MailKeys -> Seq(Numbered')]]
      BY <1>1, <1>6 DEF IInv, Data
    <2>4. inbox' \in [Nodes -> Seq(NumberedEvents')]
      BY <1>1, <1>6 DEF IInv, Data
    <2>5. tasks' \subseteq Tasks /\ \A t \in tasks' : t.msg \in Numbered'
      BY <1>1, <1>5 DEF IInv, Data
    <2>6. QED
      BY <2>1, <2>2, <2>3, <2>4, <2>5 DEF Data
  <1>11. Links'
    BY <1>1, SMTT(30) DEF IInv, Links, links, Data
  <1>12. Rest'
    BY <1>1, <1>2, <1>3 DEF IInv, Rest, records, history
  <1>13. FiledWithPeer'
    <2> SUFFICES ASSUME NEW x \in Nodes, NEW v \in Users, NEW i \in DOMAIN dms'[x][v]
                 PROVE  /\ {dms'[x][v][i].from, dms'[x][v][i].to} = {x, v}
                        /\ \A j \in DOMAIN dms'[x][v] :
                             dms'[x][v][i] = dms'[x][v][j] => i = j
      BY DEF FiledWithPeer
    <2>1. CASE ~(x = n /\ v = u)
      <3>1. dms'[x][v] = dms[x][v]
        BY <1>1, <2>1 DEF IInv, Data
      <3>2. QED
        BY <3>1, ZenonT(30) DEF IInv, FiledWithPeer
    <2>2. CASE x = n /\ v = u
      <3> DEFINE old == dms[n][u]
                 new == dms'[n][u]
      <3>1. new = Append(old, msg)
        BY <1>1, NodesOf, Zenon DEF IInv, Data
      <3>2. /\ DOMAIN old = 1 .. Len(old) /\ DOMAIN new = 1 .. Len(old) + 1
            /\ Len(old) \in Nat /\ new[Len(old) + 1] = msg
            /\ \A j \in 1 .. Len(old) : new[j] = old[j] /\ old[j] # msg
        BY <3>1, <1>3, <1>7
      <3>3. \A j, k \in 1 .. Len(old) : old[j] = old[k] => j = k
        BY <3>2 DEF IInv, FiledWithPeer, Nodes
      <3>4. \A j \in 1 .. Len(old) : {old[j].from, old[j].to} = {n, u}
        BY <3>2, Zenon DEF IInv, FiledWithPeer, Nodes
      <3> HIDE DEF old, new
      <3>5. i \in 1 .. Len(old) + 1
        BY <2>2, <3>2 DEF new
      <3>6. {new[i].from, new[i].to} = {n, u}
        <4>1. CASE i = Len(old) + 1
          BY <4>1, <3>2, <1>3
        <4>2. CASE i # Len(old) + 1
          <5>1. i \in 1 .. Len(old) /\ new[i] = old[i]
            BY <4>2, <3>2, <3>5
          <5>2. QED
            BY <5>1, <3>4, ZenonT(30)
        <4>3. QED
          BY <4>1, <4>2
      <3>7. \A j \in DOMAIN new : new[i] = new[j] => i = j
        BY <3>2, <3>3, <3>5
      <3>8. QED
        BY <2>2, <3>6, <3>7 DEF new
    <2>3. QED
      BY <2>1, <2>2
  <1>14. SendAccounted'
    <2>1. ASSUME NEW x \in Users, NEW v \in Users, NEW m \in Range(dms'[x][v]), m.from = x
          PROVE  m \in Range(dms[x][v]) \/ Accounted(x, m)'
      <3>1. CASE ~(x = n /\ v = u)
        <4>1. dms'[x][v] = dms[x][v]
          BY <1>1, <3>1, NodesOf DEF IInv, Data
        <4>2. QED
          BY <4>1, <2>1
      <3>2. CASE x = n /\ v = u /\ m # msg
        <4>1. dms'[x][v] = Append(dms[n][u], msg)
          BY <1>1, <3>2, NodesOf, ZenonT(30) DEF IInv, Data
        <4>2. QED
          BY <4>1, <2>1, <3>2, <1>8
      <3>3. CASE x = n /\ m = msg
        <4>1. CASE found
          <5>1. cmd \in Range(cmds'[x])
            BY <4>1, <3>3, <1>1, <1>9 DEF IInv, Data
          <5>2. QED
            BY <5>1, <3>3, <1>4 DEF Accounted
        <4>2. CASE ~found
          BY <4>2, <3>3, <1>1 DEF Accounted
        <4>3. QED
          BY <4>1, <4>2
      <3>4. QED
        BY <3>1, <3>2, <3>3
    <2>2. ASSUME NEW x \in Users, NEW m, Accounted(x, m) PROVE Accounted(x, m)'
      <3>1. Range(cmds[x]) \subseteq Range(cmds'[x])
        BY <1>1, <1>9 DEF IInv, Data
      <3>2. unsealed \subseteq unsealed' /\ UNCHANGED <<lost, failed, tasks, inbox, mail>>
        BY <1>1 DEF history
      <3>3. QED
        BY <2>2, <3>1, <3>2 DEF Accounted, Holds
    <2>3. SendAccounted
      BY DEF IInv
    <2>4. QED
      BY <2>1, <2>2, <2>3, AccountedKept
  <1>15. AnsweredHeld'
    BY <1>1 DEF IInv, AnsweredHeld, Holds
  <1>16. CommandsOwn'
    BY <1>1, <1>3, <1>4, <1>9 DEF IInv, CommandsOwn, Data
  <1>17. QED
    BY <1>10, <1>11, <1>12, <1>13, <1>14, <1>15, <1>16 DEF IInv

(* A discarded message leaves the others of the conversation where they are. *)
LEMMA DmDiscardStep ==
  ASSUME IInv, NEW n \in Users, NEW msg \in failed, DmDiscard(n, msg)
  PROVE  IInv'
  <1>1. /\ msg \in Messages /\ msg.to \in Users
        /\ UNCHANGED <<mail, sending, inbox, records, links, history>>
    BY MessageOf DEF DmDiscard, IInv, Rest
  <1> DEFINE u == msg.to
             old == dms[n][u]
  <1>2. PICK k \in DOMAIN old : dms' = [dms EXCEPT ![n][u] = Without(@, k)]
    BY Zenon DEF DmDiscard, Without
  <1> DEFINE new == Without(old, k)
  <1>3. old \in Seq(Numbered)
    BY <1>1, NodesOf DEF IInv, Data
  <1>4. /\ new \in Seq(Numbered) /\ Len(new) = Len(old) - 1
        /\ \A j \in DOMAIN new : new[j] = IF j < k THEN old[j] ELSE old[j + 1]
    BY <1>2, <1>3, WithoutElements, Zenon
  <1>5. dms'[n][u] = new
    BY <1>1, <1>2, NodesOf DEF IInv, Data
  <1>6. \A x \in Nodes, v \in Users : ~(x = n /\ v = u) => dms'[x][v] = dms[x][v]
    BY <1>1, <1>2 DEF IInv, Data
  <1>7. dms' \in [Nodes -> [Users -> Seq(Numbered)]]
    BY <1>1, <1>2, <1>4, NodesOf DEF IInv, Data
  <1> HIDE DEF u, old, new
  <1>8. DOMAIN old = 1 .. Len(old) /\ Len(old) \in Nat /\ DOMAIN new = 1 .. Len(old) - 1
    BY <1>3, <1>4
  <1>9. Data'
    BY <1>1, <1>7 DEF IInv, Data, Numbered, NumberedEvents, NumberedCommands, sending
  <1>10. Links'
    BY <1>1 DEF IInv, Links, links, sending
  <1>11. Rest'
    BY <1>1 DEF IInv, Rest, sending, records, history
  <1>12. FiledWithPeer'
    <2> SUFFICES ASSUME NEW x \in Nodes, NEW v \in Users, NEW i \in DOMAIN dms'[x][v]
                 PROVE  /\ {dms'[x][v][i].from, dms'[x][v][i].to} = {x, v}
                        /\ \A j \in DOMAIN dms'[x][v] :
                             dms'[x][v][i] = dms'[x][v][j] => i = j
      BY DEF FiledWithPeer
    <2>1. CASE ~(x = n /\ v = u)
      <3>1. dms'[x][v] = dms[x][v]
        BY <1>6, <2>1
      <3>2. QED
        BY <3>1 DEF IInv, FiledWithPeer
    <2>2. CASE x = n /\ v = u
      <3>1. \A j, h \in 1 .. Len(old) : old[j] = old[h] => j = h
        BY <2>2, <1>8 DEF IInv, FiledWithPeer, old
      <3>2. \A j \in 1 .. Len(old) : {old[j].from, old[j].to} = {x, v}
        BY <2>2, <1>8, Zenon DEF IInv, FiledWithPeer, old
      <3>3. i \in 1 .. Len(old) - 1
        BY <2>2, <1>5, <1>8
      <3>4. \A j \in DOMAIN new : new[i] = new[j] => i = j
        BY <3>1, <3>3, <1>2, <1>4, <1>8
      <3>5. \E j \in 1 .. Len(old) : new[i] = old[j]
        BY <3>3, <1>2, <1>4, <1>8
      <3>6. {new[i].from, new[i].to} = {x, v}
        BY <3>2, <3>5
      <3>7. QED
        BY <2>2, <3>4, <3>6, <1>5
    <2>3. QED
      BY <2>1, <2>2, Zenon
  <1>13. SendAccounted'
    <2>1. Range(new) \subseteq Range(old)
      <3>1. \A j \in DOMAIN new : \E h \in DOMAIN old : new[j] = old[h]
        BY <1>2, <1>4, <1>8
      <3>2. QED
        BY <3>1 DEF Range
    <2>2. \A x, v \in Users : Range(dms'[x][v]) \subseteq Range(dms[x][v])
      BY <2>1, <1>5, <1>6, NodesOf DEF old
    <2>3. \A x, m : Accounted(x, m) => Accounted(x, m)'
      BY <1>1 DEF Accounted, Holds, sending, history
    <2>4. SendAccounted
      BY DEF IInv
    <2>5. QED
      BY <2>2, <2>3, <2>4, AccountedKept
  <1>14. AnsweredHeld'
    BY <1>1 DEF IInv, AnsweredHeld, Holds, sending
  <1>15. CommandsOwn'
    BY <1>1 DEF IInv, CommandsOwn, sending
  <1>16. QED
    BY <1>9, <1>10, <1>11, <1>12, <1>13, <1>14, <1>15 DEF IInv

(* A command that is taken becomes a request, or its failure is reported. *)
LEMMA RouteStep ==
  ASSUME IInv, NEW n \in Users, Route(n)
  PROVE  IInv'
  <1> DEFINE cmd == Head(cmds[n])
             via == IF <<n, cmd.msg.to>> \in peers THEN cmd.msg.to
                    ELSE IF cmd.mailbox # None THEN cmd.mailbox ELSE cmd.addr
             task == [msg |-> cmd.msg, via |-> via, answered |-> FALSE]
  <1>1. /\ cmds[n] # <<>>
        /\ cmds' = [cmds EXCEPT ![n] = Tail(@)]
        /\ \/ /\ via = None
              /\ inbox' = [inbox EXCEPT ![n] = Append(@, SendFailed(cmd.msg))]
              /\ tasks' = tasks
           \/ via # None /\ tasks' = tasks \cup {task} /\ inbox' = inbox
        /\ UNCHANGED <<stored, failed, sent, unsealed, records, links, history>>
    BY SMTT(30) DEF Route
  <1>2. /\ cmds[n] \in Seq(NumberedCommands) /\ inbox[n] \in Seq(NumberedEvents)
    BY NodesOf DEF IInv, Data
  <1>3. /\ Tail(cmds[n]) \in Seq(NumberedCommands) /\ cmd \in NumberedCommands
        /\ Range(cmds[n]) = Range(Tail(cmds[n])) \cup {cmd}
    BY <1>1, <1>2, TailElements
  <1>4. /\ cmd.msg \in Numbered /\ cmd.msg \in Messages
        /\ cmd.mailbox \in Nodes \cup {None} /\ cmd.addr \in Nodes \cup {None}
    BY <1>3 DEF NumberedCommands, Numbered, Commands
  <1>5. cmd.msg.to \in Users /\ via \in Nodes \cup {None}
    BY <1>4, MessageOf, NodesOf
  <1>6. /\ SendFailed(cmd.msg) \in NumberedEvents
        /\ Append(inbox[n], SendFailed(cmd.msg)) \in Seq(NumberedEvents)
        /\ Range(Append(inbox[n], SendFailed(cmd.msg)))
             = Range(inbox[n]) \cup {SendFailed(cmd.msg)}
    <2>1. SendFailed(cmd.msg) \in NumberedEvents
      BY <1>4 DEF SendFailed, NumberedEvents, Events
    <2>2. QED
      BY <2>1, <1>2, AppendElements
  <1>7. task.msg = cmd.msg /\ ~task.answered /\ (via # None => task \in Tasks)
    BY <1>4, <1>5 DEF Tasks
  <1>8. n \in up
    BY <1>1, NodesOf DEF IInv, Links
  <1> HIDE DEF cmd, via, task
  <1>9. Data'
    <2>1. /\ Numbered' = Numbered /\ NumberedEvents' = NumberedEvents
          /\ NumberedCommands' = NumberedCommands
      BY <1>1 DEF Numbered, NumberedEvents, NumberedCommands
    <2>2. cmds' \in [Users -> Seq(NumberedCommands)]
      BY <1>1, <1>3 DEF IInv, Data
    <2>3. inbox' \in [Nodes -> Seq(NumberedEvents)]
      BY <1>1, <1>6, NodesOf, Zenon DEF IInv, Data
    <2>4. tasks' \subseteq Tasks /\ \A t \in tasks' : t.msg \in Numbered
      BY <1>1, <1>4, <1>7 DEF IInv, Data
    <2>5. QED
      BY <1>1, <2>1, <2>2, <2>3, <2>4 DEF IInv, Data, stored
  <1>10. cmd.msg.from = n
    BY <1>3 DEF IInv, CommandsOwn
  <1>11. Links'
    <2>1. \A t \in tasks' : t.msg.from \in up
      BY <1>1, <1>7, <1>8, <1>10 DEF IInv, Links
    <2>2. \A x \in Nodes \ up : inbox'[x] = <<>> /\ (x \in Users => cmds'[x] = <<>>)
      BY <1>1, <1>8 DEF IInv, Links, Data
    <2>3. QED
      BY <1>1, <2>1, <2>2 DEF IInv, Links, links
  <1>12. Rest'
    BY <1>1 DEF IInv, Rest, records, history
  <1>13. CommandsOwn'
    BY <1>1, <1>3 DEF IInv, CommandsOwn, Data
  <1>14. FiledWithPeer'
    BY <1>1, Zenon DEF IInv, FiledWithPeer, stored
  <1>15. SendAccounted'
    <2>1. ASSUME NEW x \in Users, NEW m, Accounted(x, m) PROVE Accounted(x, m)'
      <3>1. /\ UNCHANGED <<unsealed, lost, failed, mail>>
            /\ tasks \subseteq tasks' /\ Range(inbox[x]) \subseteq Range(inbox'[x])
        BY <1>1, <1>6, NodesOf, Zenon DEF IInv, Data, stored, history
      <3>2. CASE x = n /\ m = cmd.msg
        <4>1. CASE via = None
          <5>1. SendFailed(m) \in Range(inbox'[n])
            BY <4>1, <3>2, <1>1, <1>6, NodesOf, ZenonT(30) DEF IInv, Data
          <5>2. QED
            BY <5>1, <3>2 DEF Accounted
        <4>2. CASE via # None
          BY <4>2, <3>2, <1>1, <1>7 DEF Accounted
        <4>3. QED
          BY <4>1, <4>2
      <3>3. CASE ~(x = n /\ m = cmd.msg)
        <4>1. \A c \in Range(cmds[x]) : c.msg = m => c \in Range(cmds'[x])
          BY <3>3, <1>1, <1>3 DEF IInv, Data
        <4>2. QED
          BY <2>1, <3>1, <4>1 DEF Accounted, Holds, SendFailed
      <3>4. QED
        BY <3>2, <3>3
    <2>2. dms' = dms /\ SendAccounted
      BY <1>1 DEF IInv, stored
    <2>3. QED
      BY <2>1, <2>2, AccountedKept
  <1>16. AnsweredHeld'
    BY <1>1, <1>7 DEF IInv, AnsweredHeld, Holds, stored
  <1>17. QED
    BY <1>9, <1>11, <1>12, <1>13, <1>14, <1>15, <1>16 DEF IInv

(* A request that is served leaves its message in a mailbox. *)
LEMMA ServeSendDmStep ==
  ASSUME IInv, NEW t \in tasks, ServeSendDm(t)
  PROVE  IInv'
  <1> DEFINE key == X25519(t.msg.to)
             push == [type |-> "DmReceived", key |-> key, msg |-> t.msg]
             done == [t EXCEPT !.answered = TRUE]
  <1>1. /\ ~t.answered /\ t.via \in up
        /\ mail' = [mail EXCEPT ![t.via][key] = Append(@, t.msg)]
        /\ mailboxes' = [mailboxes EXCEPT ![t.msg.to] = @ \cup {selfAddr[t.via]}]
        /\ inbox' = [n \in Nodes |-> IF n \in Pushed(t.via) THEN Append(inbox[n], push)
                                     ELSE inbox[n]]
        /\ tasks' = (tasks \ {t}) \cup {done}
        /\ UNCHANGED <<dms, cmds, failed, sent, unsealed, selfAddr, preferred,
                       sets, links, history>>
    BY DEF ServeSendDm, AppendDm
  <1>2. /\ t \in Tasks /\ t.msg \in Numbered /\ t.msg \in Messages /\ t.via \in Nodes
        /\ t.msg.from \in up
    BY DEF IInv, Data, Links, Numbered, Tasks
  <1>3. /\ done \in Tasks /\ done.msg = t.msg /\ done.via = t.via
    BY <1>2, Zenon DEF Tasks
  <1>4. t.msg.to \in Users /\ key \in MailKeys
    BY <1>2, MessageOf, KeysOf
  <1>5. push \in NumberedEvents
    BY <1>2, <1>4 DEF NumberedEvents, Events
  <1>6. /\ Append(mail[t.via][key], t.msg) \in Seq(Numbered)
        /\ Range(Append(mail[t.via][key], t.msg)) = Range(mail[t.via][key]) \cup {t.msg}
    <2>1. mail[t.via][key] \in Seq(Numbered)
      BY <1>2, <1>4 DEF IInv, Data
    <2>2. QED
      BY <2>1, <1>2, AppendElements
  <1>7. \A n \in Nodes : /\ Append(inbox[n], push) \in Seq(NumberedEvents)
                         /\ Range(inbox[n]) \subseteq Range(Append(inbox[n], push))
    BY <1>5, AppendElements DEF IInv, Data
  <1>8. Pushed(t.via) \subseteq up
    BY <1>1 DEF Pushed, IInv, Links
  <1> HIDE DEF key, push, done
  <1>9. mail' \in [Nodes -> [MailKeys -> Seq(Numbered)]]
    <2>1. mail \in [Nodes -> [MailKeys -> Seq(Numbered)]]
      BY DEF IInv, Data
    <2>2. mail' = [mail EXCEPT ![t.via][key] = Append(mail[t.via][key], t.msg)]
      BY <1>1
    <2>3. QED
      BY <2>1, <2>2, <1>6, Zenon
  <1>10. Data'
    <2>1. /\ Numbered' = Numbered /\ NumberedEvents' = NumberedEvents
          /\ NumberedCommands' = NumberedCommands
      BY <1>1 DEF Numbered, NumberedEvents, NumberedCommands
    <2>2. inbox' \in [Nodes -> Seq(NumberedEvents)]
      BY <1>1, <1>7 DEF IInv, Data
    <2>3. tasks' \subseteq Tasks /\ \A s \in tasks' : s.msg \in Numbered
      BY <1>1, <1>2, <1>3 DEF IInv, Data
    <2>4. dms' = dms /\ cmds' = cmds
      BY <1>1
    <2>5. QED
      BY <2>1, <2>2, <2>3, <2>4, <1>9 DEF IInv, Data
  <1>11. Links'
    <2>1. \A s \in tasks' : s.msg.from \in up
      BY <1>1, <1>2, <1>3 DEF IInv, Links
    <2>2. \A x \in Nodes \ up : inbox'[x] = <<>> /\ (x \in Users => cmds'[x] = <<>>)
      BY <1>1, <1>8 DEF IInv, Links
    <2>3. QED
      BY <1>1, <2>1, <2>2 DEF IInv, Links, links
  <1>12. Rest'
    <2>1. mailboxes' \in [Users -> SUBSET Nodes]
      BY <1>1, <1>2, <1>4 DEF IInv, Rest
    <2>2. QED
      BY <1>1, <2>1 DEF IInv, Rest, history
  <1>13. CommandsOwn' /\ FiledWithPeer'
    <2>1. dms' = dms /\ cmds' = cmds
      BY <1>1
    <2>2. CommandsOwn'
      BY <2>1 DEF IInv, CommandsOwn
    <2>3. QED
      BY <2>1, <2>2, UntouchedFiled
  <1>14. /\ \A x \in Nodes : \A m : Holds(x, m) => Holds(x, m)'
         /\ Holds(t.via, t.msg)'
    <2>1. \A x \in Nodes, k \in MailKeys : Range(mail[x][k]) \subseteq Range(mail'[x][k])
      BY <1>1, <1>6 DEF IInv, Data
    <2>2. t.msg \in Range(mail'[t.via][key])
      BY <1>1, <1>2, <1>4, <1>6, ZenonT(30) DEF IInv, Data
    <2>3. QED
      BY <2>1, <2>2, <1>2, <1>4 DEF Holds
  <1>15. SendAccounted'
    <2>1. ASSUME NEW x \in Users, NEW m, Accounted(x, m) PROVE Accounted(x, m)'
      <3>1. UNCHANGED <<unsealed, lost, failed, cmds>>
        BY <1>1 DEF history
      <3>2. Range(inbox[x]) \subseteq Range(inbox'[x])
        BY <1>1, <1>7, NodesOf, ZenonT(30)
      <3>3. (\E s \in tasks : s.msg = m) => \E s \in tasks' : s.msg = m
        BY <1>1, <1>3
      <3>4. QED
        BY <2>1, <3>1, <3>2, <3>3, <1>14 DEF Accounted, SendFailed
    <2>2. dms' = dms /\ SendAccounted
      BY <1>1 DEF IInv
    <2>3. QED
      BY <2>1, <2>2, AccountedKept
  <1>16. AnsweredHeld'
    <2>1. \A s \in tasks : s.via \in Nodes
      BY DEF IInv, Data, Tasks
    <2>2. QED
      BY <1>1, <1>3, <1>14, <2>1 DEF IInv, AnsweredHeld
  <1>17. QED
    BY <1>10, <1>11, <1>12, <1>13, <1>15, <1>16 DEF IInv

(* The message of a request that was answered is in a mailbox. *)
LEMMA DmAckStep ==
  ASSUME IInv, NEW t \in tasks, DmAck(t)
  PROVE  IInv'
  <1>1. /\ t.answered /\ tasks' = tasks \ {t}
        /\ UNCHANGED <<stored, cmds, failed, sent, unsealed, inbox, records, links, history>>
    BY DEF DmAck
  <1>2. Data'
    BY <1>1 DEF IInv, Data, Numbered, NumberedEvents, NumberedCommands, stored
  <1>3. Links'
    BY <1>1 DEF IInv, Links, links
  <1>4. Rest'
    BY <1>1 DEF IInv, Rest, records, history
  <1>5. CommandsOwn' /\ FiledWithPeer'
    <2>1. dms' = dms /\ cmds' = cmds
      BY <1>1 DEF stored
    <2>2. CommandsOwn'
      BY <2>1 DEF IInv, CommandsOwn
    <2>3. QED
      BY <2>1, <2>2, UntouchedFiled
  <1>6. SendAccounted'
    <2>1. ASSUME NEW x \in Users, NEW m, Accounted(x, m) PROVE Accounted(x, m)'
      <3>1. UNCHANGED <<unsealed, lost, failed, cmds, inbox, mail>>
        BY <1>1 DEF stored, history
      <3>2. t.via \in Nodes /\ Holds(t.via, t.msg)
        BY <1>1 DEF IInv, AnsweredHeld, Data, Tasks
      <3>3. QED
        BY <2>1, <1>1, <3>1, <3>2 DEF Accounted, Holds, SendFailed
    <2>2. dms' = dms /\ SendAccounted
      BY <1>1 DEF IInv, stored
    <2>3. QED
      BY <2>1, <2>2, AccountedKept
  <1>7. AnsweredHeld'
    BY <1>1 DEF IInv, AnsweredHeld, Holds, stored
  <1>8. QED
    BY <1>2, <1>3, <1>4, <1>5, <1>6, <1>7 DEF IInv

(* The failure of a request is reported to its sender. *)
LEMMA SendFailsStep ==
  ASSUME IInv, NEW t \in tasks, SendFails(t)
  PROVE  IInv'
  <1> DEFINE n == t.msg.from
             event == SendFailed(t.msg)
  <1>1. /\ tasks' = tasks \ {t}
        /\ inbox' = [inbox EXCEPT ![n] = Append(@, event)]
        /\ UNCHANGED <<stored, cmds, failed, sent, unsealed, records, links, history>>
    BY DEF SendFails
  <1>2. t.msg \in Numbered /\ t.msg \in Messages /\ n \in up
    BY DEF IInv, Data, Links, Numbered
  <1>3. n \in Users /\ n \in Nodes
    BY <1>2, MessageOf, NodesOf
  <1>4. event \in NumberedEvents
    BY <1>2 DEF SendFailed, NumberedEvents, Events
  <1> HIDE DEF n, event
  <1>5. /\ Append(inbox[n], event) \in Seq(NumberedEvents)
        /\ Range(Append(inbox[n], event)) = Range(inbox[n]) \cup {event}
    BY <1>3, <1>4, AppendElements DEF IInv, Data
  <1>6. Data'
    <2>1. inbox' \in [Nodes -> Seq(NumberedEvents)]
      BY <1>1, <1>5, ZenonT(30) DEF IInv, Data
    <2>2. QED
      BY <1>1, <2>1 DEF IInv, Data, Numbered, NumberedEvents, NumberedCommands, stored
  <1>7. Links'
    BY <1>1, <1>2 DEF IInv, Links, links
  <1>8. Rest'
    BY <1>1 DEF IInv, Rest, records, history
  <1>9. CommandsOwn' /\ FiledWithPeer'
    <2>1. dms' = dms /\ cmds' = cmds
      BY <1>1 DEF stored
    <2>2. CommandsOwn'
      BY <2>1 DEF IInv, CommandsOwn
    <2>3. QED
      BY <2>1, <2>2, UntouchedFiled
  <1>10. SendAccounted'
    <2>1. ASSUME NEW x \in Users, NEW m, m.from = x, Accounted(x, m)
          PROVE  Accounted(x, m)'
      <3>1. UNCHANGED <<unsealed, lost, failed, cmds, mail>>
        BY <1>1 DEF stored, history
      <3>2. /\ Range(inbox[x]) \subseteq Range(inbox'[x])
            /\ event \in Range(inbox'[n])
        BY <1>1, <1>3, <1>5, NodesOf DEF IInv, Data
      <3>3. m = t.msg => SendFailed(m) \in Range(inbox'[x])
        BY <2>1, <3>2 DEF n, event
      <3>4. QED
        BY <2>1, <1>1, <3>1, <3>2, <3>3 DEF Accounted, Holds, SendFailed
    <2>2. dms' = dms /\ SendAccounted
      BY <1>1 DEF IInv, stored
    <2>3. QED
      BY <2>1, <2>2, AccountedKept
  <1>11. AnsweredHeld'
    BY <1>1 DEF IInv, AnsweredHeld, Holds, stored
  <1>12. QED
    BY <1>6, <1>7, <1>8, <1>9, <1>10, <1>11 DEF IInv
-----------------------------------------------------------------------------
(* A message is filed by its recipient only, under its sender, and if it is new
   there; a failure is told to the user. *)
LEMMA HandleEventStep ==
  ASSUME IInv, NEW n \in Nodes, HandleEvent(n)
  PROVE  IInv'
  <1> DEFINE e == Head(inbox[n])
             v == e.msg.from
             new == e.type = "DmReceived" /\ Opens(n, e) /\ e.msg \notin Range(dms[n][v])
  <1>1. /\ inbox[n] # <<>>
        /\ inbox' = [inbox EXCEPT ![n] = Tail(@)]
        /\ dms' = IF new THEN [dms EXCEPT ![n][v] = Append(@, e.msg)] ELSE dms
        /\ failed' = IF e.type = "DmSendFailed" THEN failed \cup {e.msg} ELSE failed
        /\ UNCHANGED <<mail, cmds, tasks, sent, unsealed, records, links, history>>
    BY Zenon DEF HandleEvent
  <1>2. inbox[n] \in Seq(NumberedEvents)
    BY DEF IInv, Data
  <1>3. /\ Tail(inbox[n]) \in Seq(NumberedEvents) /\ e \in NumberedEvents
        /\ Range(inbox[n]) = Range(Tail(inbox[n])) \cup {e}
    BY <1>1, <1>2, TailElements, ZenonT(30)
  <1>4. e.msg \in Numbered /\ e.msg \in Messages
    BY <1>3 DEF NumberedEvents, Numbered
  <1>5. v \in Users /\ e.msg.from # e.msg.to /\ (new => e.msg.to = n)
    BY <1>4, MessageOf DEF Opens
  <1>6. dms[n][v] \in Seq(Numbered)
    BY <1>5 DEF IInv, Data
  <1>7. /\ Append(dms[n][v], e.msg) \in Seq(Numbered)
        /\ Range(Append(dms[n][v], e.msg)) = Range(dms[n][v]) \cup {e.msg}
    BY <1>4, <1>6, AppendElements
  <1>8. new => e.msg \notin Range(dms[n][v])
    OBVIOUS
  <1> HIDE DEF e, v, new
  <1>9. \A x \in Nodes, u \in Users : ~(new /\ x = n /\ u = v) => dms'[x][u] = dms[x][u]
    BY <1>1 DEF IInv, Data
  <1>10. new => dms'[n][v] = Append(dms[n][v], e.msg)
    BY <1>1, <1>5 DEF IInv, Data
  <1>11. dms' \in [Nodes -> [Users -> Seq(Numbered)]]
    <2>1. dms \in [Nodes -> [Users -> Seq(Numbered)]]
      BY DEF IInv, Data
    <2>2. CASE new
      <3>1. dms' = [dms EXCEPT ![n][v] = Append(dms[n][v], e.msg)]
        BY <1>1, <2>2
      <3>2. QED
        BY <2>1, <3>1, <1>7, ZenonT(30)
    <2>3. CASE ~new
      BY <1>1, <2>1, <2>3
    <2>4. QED
      BY <2>2, <2>3
  <1>12. Data'
    <2>1. inbox' \in [Nodes -> Seq(NumberedEvents)]
      BY <1>1, <1>3 DEF IInv, Data
    <2>2. QED
      BY <1>1, <1>11, <2>1 DEF IInv, Data, Numbered, NumberedEvents, NumberedCommands
  <1>13. Links'
    <2>1. \A x \in Nodes \ up : inbox'[x] = <<>>
      BY <1>1 DEF IInv, Links, Data
    <2>2. QED
      BY <1>1, <2>1 DEF IInv, Links, links
  <1>14. Rest'
    BY <1>1, <1>4 DEF IInv, Rest, records, history
  <1>15. CommandsOwn' /\ AnsweredHeld'
    BY <1>1 DEF IInv, CommandsOwn, AnsweredHeld, Holds
  <1>16. FiledWithPeer'
    <2> SUFFICES ASSUME NEW x \in Nodes, NEW u \in Users, NEW i \in DOMAIN dms'[x][u]
                 PROVE  /\ {dms'[x][u][i].from, dms'[x][u][i].to} = {x, u}
                        /\ \A j \in DOMAIN dms'[x][u] :
                             dms'[x][u][i] = dms'[x][u][j] => i = j
      BY DEF FiledWithPeer
    <2>1. CASE ~(new /\ x = n /\ u = v)
      <3>1. dms'[x][u] = dms[x][u]
        BY <1>9, <2>1
      <3>2. QED
        BY <3>1 DEF IInv, FiledWithPeer
    <2>2. CASE new /\ x = n /\ u = v
      <3> DEFINE old == dms[n][v]
                 longer == dms'[n][v]
      <3>1. /\ DOMAIN old = 1 .. Len(old) /\ Len(old) \in Nat
            /\ DOMAIN longer = 1 .. Len(old) + 1 /\ longer[Len(old) + 1] = e.msg
            /\ \A j \in 1 .. Len(old) : longer[j] = old[j]
        BY <2>2, <1>4, <1>6, <1>10
      <3>2. \A j \in 1 .. Len(old) : old[j] # e.msg
        BY <2>2, <3>1, <1>8 DEF Range
      <3>3. \A j, k \in 1 .. Len(old) : old[j] = old[k] => j = k
        BY <2>2, <3>1 DEF IInv, FiledWithPeer
      <3>4. \A j \in 1 .. Len(old) : {old[j].from, old[j].to} = {n, v}
        BY <2>2, <3>1, Zenon DEF IInv, FiledWithPeer
      <3>5. {e.msg.from, e.msg.to} = {n, v}
        BY <2>2, <1>5 DEF v
      <3> HIDE DEF old, longer
      <3>6. i \in 1 .. Len(old) + 1
        BY <2>2, <3>1 DEF longer
      <3>7. {longer[i].from, longer[i].to} = {n, v}
        <4>1. CASE i = Len(old) + 1
          BY <4>1, <3>1, <3>5, Zenon
        <4>2. CASE i # Len(old) + 1
          <5>1. i \in 1 .. Len(old) /\ longer[i] = old[i]
            BY <4>2, <3>1, <3>6
          <5>2. QED
            BY <5>1, <3>4, ZenonT(30)
        <4>3. QED
          BY <4>1, <4>2
      <3>8. \A j \in DOMAIN longer : longer[i] = longer[j] => i = j
        BY <3>1, <3>2, <3>3, <3>6
      <3>9. QED
        BY <2>2, <3>7, <3>8 DEF longer
    <2>3. QED
      BY <2>1, <2>2
  <1>17. SendAccounted'
    <2>1. ASSUME NEW x \in Users, NEW u \in Users, NEW m \in Range(dms'[x][u]), m.from = x
          PROVE  m \in Range(dms[x][u])
      <3>1. CASE ~(new /\ x = n /\ u = v)
        BY <3>1, <2>1, <1>9, NodesOf
      <3>2. CASE new /\ x = n /\ u = v
        <4>1. m \in Range(dms[n][v]) \cup {e.msg}
          BY <3>2, <2>1, <1>7, <1>10, ZenonT(30)
        <4>2. m # e.msg
          BY <3>2, <2>1, <1>5
        <4>3. QED
          BY <4>1, <4>2, <3>2
      <3>3. QED
        BY <3>1, <3>2
    <2>2. ASSUME NEW x \in Users, NEW m, Accounted(x, m) PROVE Accounted(x, m)'
      <3>1. UNCHANGED <<unsealed, lost, cmds, tasks, mail>> /\ failed \subseteq failed'
        BY <1>1 DEF history
      <3>2. SendFailed(m) \in Range(inbox[x]) => SendFailed(m) \in Range(inbox'[x]) \/ m \in failed'
        <4>1. CASE x # n
          BY <4>1, <1>1, NodesOf DEF IInv, Data
        <4>2. CASE x = n
          <5>1. inbox'[x] = Tail(inbox[n])
            BY <4>2, <1>1 DEF IInv, Data
          <5>2. SendFailed(m) = e => m \in failed'
            BY <1>1 DEF SendFailed
          <5>3. QED
            BY <4>2, <5>1, <5>2, <1>3
        <4>3. QED
          BY <4>1, <4>2
      <3>3. QED
        BY <2>2, <3>1, <3>2 DEF Accounted, Holds, SendFailed
    <2>3. SendAccounted
      BY DEF IInv
    <2>4. QED
      BY <2>1, <2>2, <2>3, AccountedKept
  <1>18. QED
    BY <1>12, <1>13, <1>14, <1>15, <1>16, <1>17 DEF IInv

(* The answer of a mailbox fetch is made of numbered messages. *)
LEMMA ConnectStep ==
  ASSUME IInv, NEW n \in Users, NEW m \in Nodes, Connect(n, m)
  PROVE  IInv'
  <1> DEFINE got == [i \in DOMAIN GetDms(n, m) |->
                       [type |-> "DmReceived", key |-> X25519(n), msg |-> GetDms(n, m)[i]]]
  <1>1. /\ n \in up /\ m \in up /\ n # m /\ peers' = peers \cup {<<n, m>>}
        /\ inbox' = [inbox EXCEPT ![n] = @ \o got]
        /\ UNCHANGED <<stored, sending, records, up, history>>
    BY DEF Connect
  <1>2. GetDms(n, m) \in Seq(Numbered)
    BY KeysOf DEF GetDms, IInv, Data
  <1>3. got \in Seq(NumberedEvents)
    <2>1. \A i \in DOMAIN GetDms(n, m) : GetDms(n, m)[i] \in Numbered
      BY <1>2
    <2>2. \A i \in DOMAIN GetDms(n, m) : got[i] \in NumberedEvents
      BY <2>1, KeysOf DEF NumberedEvents, Numbered, Events
    <2>3. DOMAIN GetDms(n, m) = 1 .. Len(GetDms(n, m)) /\ Len(GetDms(n, m)) \in Nat
      BY <1>2
    <2>4. QED
      BY <2>2, <2>3
  <1> HIDE DEF got
  <1>4. /\ inbox[n] \o got \in Seq(NumberedEvents)
        /\ Range(inbox[n]) \subseteq Range(inbox[n] \o got)
    BY <1>3, NodesOf, ConcatElements DEF IInv, Data
  <1>5. Data'
    <2>1. inbox' \in [Nodes -> Seq(NumberedEvents)]
      <3>1. inbox \in [Nodes -> Seq(NumberedEvents)]
        BY DEF IInv, Data
      <3>2. QED
        BY <1>1, <1>4, <3>1, Zenon
    <2>2. QED
      BY <1>1, <2>1 DEF IInv, Data, Numbered, NumberedEvents, NumberedCommands, stored,
                        sending
  <1>6. Links'
    <2>1. peers' \subseteq Users \X Nodes
      BY <1>1 DEF IInv, Links
    <2>2. \A p \in peers' : p[1] # p[2] /\ p[1] \in up /\ p[2] \in up
      BY <1>1 DEF IInv, Links
    <2>3. \A x \in Nodes \ up : inbox'[x] = <<>>
      BY <1>1 DEF IInv, Links, Data
    <2>4. UNCHANGED <<up, tasks, cmds>>
      BY <1>1 DEF sending
    <2>5. QED
      BY <2>1, <2>2, <2>3, <2>4 DEF IInv, Links
  <1>7. Rest'
    BY <1>1 DEF IInv, Rest, sending, records, history
  <1>8. CommandsOwn' /\ FiledWithPeer' /\ AnsweredHeld'
    <2>1. UNCHANGED <<dms, mail, cmds, tasks>>
      BY <1>1 DEF stored, sending
    <2>2. CommandsOwn'
      BY <2>1 DEF IInv, CommandsOwn
    <2>3. AnsweredHeld'
      BY <2>1 DEF IInv, AnsweredHeld, Holds
    <2>4. QED
      BY <2>1, <2>2, <2>3, UntouchedFiled
  <1>9. SendAccounted'
    <2>1. ASSUME NEW x \in Users, NEW msg, Accounted(x, msg) PROVE Accounted(x, msg)'
      <3>1. UNCHANGED <<unsealed, lost, failed, cmds, tasks, mail>>
        BY <1>1 DEF stored, sending, history
      <3>2. Range(inbox[x]) \subseteq Range(inbox'[x])
        BY <1>1, <1>4, NodesOf DEF IInv, Data
      <3>3. QED
        BY <2>1, <3>1, <3>2 DEF Accounted, Holds, SendFailed
    <2>2. dms' = dms /\ SendAccounted
      BY <1>1 DEF IInv, stored
    <2>3. QED
      BY <2>1, <2>2, AccountedKept
  <1>10. QED
    BY <1>5, <1>6, <1>7, <1>8, <1>9 DEF IInv

(* What a node has only in memory when it stops counts as lost. *)
LEMMA StopStep ==
  ASSUME IInv, NEW n \in Nodes, Stop(n)
  PROVE  IInv'
  <1>1. /\ inbox' = [inbox EXCEPT ![n] = <<>>]
        /\ cmds' = IF n \in Users THEN [cmds EXCEPT ![n] = <<>>] ELSE cmds
    BY DEF Stop
  <1>2. tasks' = {t \in tasks : t.msg.from # n}
    BY DEF Stop
  <1>3. up' = up \ {n} /\ peers' = {p \in peers : n \notin {p[1], p[2]}}
    BY DEF Stop
  <1>4. lost' = lost \cup {e.msg : e \in Range(inbox[n])}
                     \cup {t.msg : t \in tasks \ tasks'}
                     \cup (IF n \in Users THEN {c.msg : c \in Range(cmds[n])} ELSE {})
    BY DEF Stop
  <1>5. UNCHANGED <<dms, mail, failed, sent, unsealed, mailboxes, selfAddr, preferred, sets>>
    BY DEF Stop, stored, records
  <1>6. /\ \A x \in Nodes : inbox'[x] = IF x = n THEN <<>> ELSE inbox[x]
        /\ \A x \in Users : cmds'[x] = IF x = n THEN <<>> ELSE cmds[x]
    BY <1>1 DEF IInv, Data
  <1>7. Data'
    <2>1. inbox' \in [Nodes -> Seq(NumberedEvents)]
      <3>1. inbox \in [Nodes -> Seq(NumberedEvents)]
        BY DEF IInv, Data
      <3>2. QED
        BY <1>1, <3>1
    <2>2. cmds' \in [Users -> Seq(NumberedCommands)]
      <3>1. cmds \in [Users -> Seq(NumberedCommands)]
        BY DEF IInv, Data
      <3>2. QED
        BY <1>1, <3>1
    <2>3. tasks' \subseteq Tasks /\ \A t \in tasks' : t.msg \in Numbered
      BY <1>2 DEF IInv, Data
    <2>4. /\ Numbered' = Numbered /\ NumberedEvents' = NumberedEvents
          /\ NumberedCommands' = NumberedCommands
      BY <1>5 DEF Numbered, NumberedEvents, NumberedCommands
    <2>5. QED
      BY <1>5, <2>1, <2>2, <2>3, <2>4 DEF IInv, Data
  <1>8. Links'
    <2>1. peers' \subseteq peers /\ up' \subseteq up
      BY <1>3
    <2>2. \A p \in peers' : p[1] # p[2] /\ p[1] \in up' /\ p[2] \in up'
      BY <1>3 DEF IInv, Links
    <2>3. \A t \in tasks' : t.msg.from \in up'
      BY <1>2, <1>3 DEF IInv, Links
    <2>4. \A x \in Nodes \ up' : inbox'[x] = <<>> /\ (x \in Users => cmds'[x] = <<>>)
      BY <1>3, <1>6 DEF IInv, Links
    <2>5. QED
      BY <2>1, <2>2, <2>3, <2>4 DEF IInv, Links
  <1>9. Rest'
    <2>1. lost' \subseteq Messages
      <3>1. \A e \in Range(inbox[n]) : e.msg \in Messages
        <4>1. inbox[n] \in Seq(NumberedEvents)
          BY DEF IInv, Data
        <4>2. QED
          BY <4>1 DEF Range, NumberedEvents, Numbered
      <3>2. n \in Users => \A c \in Range(cmds[n]) : c.msg \in Messages
        <4>1. n \in Users => cmds[n] \in Seq(NumberedCommands)
          BY DEF IInv, Data
        <4>2. QED
          BY <4>1 DEF Range, NumberedCommands, Numbered
      <3>3. \A t \in tasks : t.msg \in Messages
        BY DEF IInv, Data, Numbered
      <3>4. lost \subseteq Messages
        BY DEF IInv, Rest
      <3>5. QED
        BY <1>4, <3>1, <3>2, <3>3, <3>4
    <2>2. stops' \in 0 .. MaxStops
      BY ConstantsAssumption DEF Stop, IInv, Rest
    <2>3. QED
      BY <1>5, <2>1, <2>2 DEF IInv, Rest
  <1>10. CommandsOwn'
    BY <1>6 DEF IInv, CommandsOwn, Range
  <1>11. AnsweredHeld'
    BY <1>2, <1>5 DEF IInv, AnsweredHeld, Holds
  <1>12. SendAccounted'
    <2>1. ASSUME NEW x \in Users, NEW m, Accounted(x, m) PROVE Accounted(x, m)'
      <3>1. lost \subseteq lost'
        BY <1>4
      <3>2. (\E t \in tasks : t.msg = m) => (\E t \in tasks' : t.msg = m) \/ m \in lost'
        BY <1>4
      <3>3. (\E c \in Range(cmds[x]) : c.msg = m)
              => (\E c \in Range(cmds'[x]) : c.msg = m) \/ m \in lost'
        BY <1>4, <1>6
      <3>4. SendFailed(m) \in Range(inbox[x])
              => SendFailed(m) \in Range(inbox'[x]) \/ m \in lost'
        <4>1. SendFailed(m).msg = m
          BY DEF SendFailed
        <4>2. QED
          BY <4>1, <1>4, <1>6, NodesOf
      <3>5. QED
        BY <2>1, <1>5, <3>1, <3>2, <3>3, <3>4 DEF Accounted, Holds, SendFailed
    <2>2. SendAccounted
      BY DEF IInv
    <2>3. QED
      BY <1>5, <2>1, <2>2, AccountedKept
  <1>13. QED
    BY <1>5, <1>7, <1>8, <1>9, <1>10, <1>11, <1>12, UntouchedFiled DEF IInv
-----------------------------------------------------------------------------
(* The inductive step, one case per action. *)
LEMMA NextIInv == IInv /\ [Next]_vars => IInv'
  <1> SUFFICES ASSUME IInv, [Next]_vars PROVE IInv'
    OBVIOUS
  <1>1. ASSUME NEW n \in Users, Calls(n) PROVE IInv'
    <2>1. ASSUME NEW u \in Users, NEW found \in BOOLEAN,
                 NEW mailbox \in mailboxes[u] \cup {None},
                 NEW addr \in PeerInfo(u) \cup {None},
                 DmSend(n, u, found, mailbox, addr)
          PROVE  IInv'
      <3>1. mailbox \in Nodes \cup {None} /\ addr \in Nodes \cup {None}
        BY NodesOf DEF IInv, Rest, PeerInfo
      <3>2. QED
        BY <2>1, <3>1, DmSendStep
    <2>2. ASSUME NEW msg \in failed, DmDiscard(n, msg) PROVE IInv'
      BY <2>2, DmDiscardStep
    <2>3. QED
      BY <1>1, <2>1, <2>2, ZenonT(30) DEF Calls
  <1>2. ASSUME NEW n \in Users, Announcements(n) PROVE IInv'
    BY <1>2, AnnouncementsStep
  <1>3. CASE Network
    BY <1>3, RouteStep, ServeSendDmStep, DmAckStep, SendFailsStep DEF Network
  <1>4. ASSUME NEW n \in Nodes, HandleEvent(n) \/ Stop(n) \/ Start(n) PROVE IInv'
    BY <1>4, HandleEventStep, StopStep, StartStep
  <1>5. ASSUME NEW n \in Users, NEW m \in Nodes, Connect(n, m) \/ Disconnect(n, m)
        PROVE  IInv'
    BY <1>5, ConnectStep, DisconnectStep
  <1>6. CASE UNCHANGED vars
    <2>1. UNCHANGED <<stored, sending, inbox, records, links, history>>
      BY <1>6 DEF vars
    <2>2. Links' /\ Rest'
      BY <2>1 DEF IInv, Links, Rest, sending, records, links, history
    <2>3. QED
      BY <2>1, <2>2, UntouchedData DEF IInv, history
  <1>7. QED
    BY <1>1, <1>2, <1>3, <1>4, <1>5, <1>6 DEF Next

(* The inductive invariant holds in every reachable state. *)
LEMMA AlwaysIInv == Spec => []IInv
  BY InitIInv, NextIInv, PTL DEF Spec

(* Every reachable state is well typed; in particular a node that is down has no
   events, commands, requests or connections. *)
THEOREM TypeCorrect == Spec => []TypeOK
  BY AlwaysIInv, IInvType, PTL

(* dm_send and handle_dm_received: a message is kept by its two parties only,
   each under the other, and once. *)
THEOREM FiledOnce == Spec => []FiledWithPeer
  <1>1. IInv => FiledWithPeer
    BY DEF IInv
  <1>2. QED
    BY <1>1, AlwaysIInv, PTL

(* SendDm: no message stays shown as sent that is neither on its way, nor held
   by a node, nor reported, but for a missing key or a stop. *)
THEOREM NoSilentLoss == Spec => []SendAccounted
  <1>1. IInv => SendAccounted
    BY DEF IInv
  <1>2. QED
    BY <1>1, AlwaysIInv, PTL
=============================================================================
