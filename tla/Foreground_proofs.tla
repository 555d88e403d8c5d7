-------------------------- MODULE Foreground_proofs --------------------------
(***************************************************************************)
(* For any number of processes, csockets and changes, queues of any        *)
(* length, and processes that crash at any moment: no process leaks or     *)
(* takes for open a descriptor it got from another, and every csocket a    *)
(* process counts is open or news of its end is on its way; for a process  *)
(* that has not mixed up two streams (mixed) and in which ~CSocket has not *)
(* closed a descriptor that somebody else had got by then (clashed).       *)
(*                                                                         *)
(* Both rest on the order in which a process hears of the csockets of one  *)
(* number: never of a second before the end of the first.  The reader      *)
(* learns a number from a packet and a descriptor from the datagram after  *)
(* it, so the argument has four layers: what the threads are doing; that   *)
(* a descriptor comes right after its packet, or the reader is about to    *)
(* find out that it does not (Paired, HalfSent); and, for a reader that    *)
(* has not, that the descriptors of a number are kept apart by removals    *)
(* (NoTwo), because a process that has a descriptor will be told of its    *)
(* removal or was dropped before anybody had the number again (Marked);    *)
(* and that a csocket whose connect failed was never told of (FreedInv).   *)
(***************************************************************************)
EXTENDS Foreground, WellFoundedInduction, TLAPS

Adding == {"add_or_remove", "add", "writelock"}
Starting == Adding \cup {"targets"}
Sending == {"send", "packet", "descriptor"}
Writing == {"packet", "descriptor"}
AtStates == {"none", "open", "closed"} \cup Starting \cup Sending

Reading == Adding \cup {"ancil_recv_fd"}
ThreadStates == {"none", "select", "ended"} \cup Reading

Numbers == Fds \cup {None}
Entry == [pid : Procs, fd : Numbers, sock : Csocks \cup {None}]
Held == [pid : Procs \cup {None}, fd : Numbers, remove : BOOLEAN, sock : Csocks \cup {None}]
Packets == [type : {"packet"}, pid : Procs, fd : Numbers, remove : BOOLEAN]
Descriptors == [type : {"descriptor"}, sock : Csocks]
Msgs == Packets \cup Descriptors \cup {Interrupt}

-----------------------------------------------------------------------------
\* First layer: the threads.

SenderTypes ==
    /\ owner \in [Csocks -> Procs \cup {None}] /\ fd \in [Csocks -> Numbers]
    /\ at \in [Csocks -> AtStates] /\ removing \in [Csocks -> BOOLEAN]
    /\ todo \in [Csocks -> SUBSET Procs] /\ failed \in [Csocks -> SUBSET Procs]

ProcessTypes ==
    /\ intnw_pids \subseteq Procs /\ DOMAIN proc = Procs
    /\ thread \in [Procs -> ThreadStates]
    /\ held \in [Procs -> Held]
    /\ queue \in [Procs -> Seq(Msgs)]
    /\ table \in [Procs -> SUBSET Entry]
    /\ dups \in [Procs -> SUBSET Csocks]

\* A csocket has targets only while it sends, never its own process among them.
SendersInv ==
    \A s \in Csocks :
        /\ at[s] # "none" => owner[s] \in Procs /\ proc[owner[s]] # "none"
        /\ IsOpen(s) => Alive(owner[s])
        /\ at[s] \notin Sending => todo[s] = {} /\ failed[s] = {}
        /\ at[s] \in Writing => todo[s] # {}
        /\ at[s] = "descriptor" => ~removing[s]
        /\ owner[s] \notin todo[s]

SameKey(s1, s2) == owner[s1] = owner[s2] /\ fd[s1] = fd[s2]

\* proc_local_lock, and the numbers of open descriptors.
Exclusive ==
    \A s1, s2 \in Csocks :
        /\ owner[s1] = owner[s2] /\ at[s1] \in Writing /\ at[s2] \in Writing => s1 = s2
        /\ IsOpen(s1) /\ IsOpen(s2) /\ SameKey(s1, s2) => s1 = s2

\* A thread holds something only between reading it and using it.
ReaderInv(p) ==
    /\ thread[p] \notin Reading => held[p] = Nothing
    /\ thread[p] \in Reading => held[p].pid \in Procs \ {p}
    /\ thread[p] = "ancil_recv_fd" => ~held[p].remove
    /\ thread[p] = "ancil_recv_fd" \/ held[p].remove => held[p].sock = None
    /\ thread[p] \in {"none", "ended"} => queue[p] = <<>>
    /\ thread[p] = "none" => \A e \in table[p] : e.pid = p
    /\ proc[p] = "none" => thread[p] = "none"
    /\ proc[p] = "gone" => thread[p] = "ended"

IsDesc(m) == m.type = "descriptor"
IsPacket(m) == m.type = "packet"

\* Nobody sends to itself.
QueueInv(p) ==
    \A i \in DOMAIN queue[p] :
        /\ IsPacket(queue[p][i]) => queue[p][i].pid # p
        /\ IsDesc(queue[p][i]) => /\ at[queue[p][i].sock] # "none"
                                  /\ owner[queue[p][i].sock] # p

ReadersInv == \A p \in Procs : ReaderInv(p)
QueuesInv == \A p \in Procs : QueueInv(p)

Basic == SenderTypes /\ ProcessTypes /\ SendersInv /\ Exclusive /\ ReadersInv /\ QueuesInv

-----------------------------------------------------------------------------
\* Second layer: a packet and its descriptor.

Of(s, pid, number) == at[s] # "none" /\ owner[s] = pid /\ fd[s] = number

\* Place 0 is what the thread has in its hands.
AddAt(p, i) ==
    IF i = 0 THEN thread[p] = "ancil_recv_fd"
    ELSE IsPacket(queue[p][i]) /\ ~queue[p][i].remove

AddOf(p, i, s) ==
    /\ AddAt(p, i)
    /\ IF i = 0 THEN held[p].pid = owner[s] /\ held[p].fd = fd[s]
       ELSE queue[p][i].pid = owner[s] /\ queue[p][i].fd = fd[s]

\* Before place i a packet is followed by what is not a descriptor.
Spoilt(p, i) ==
    \E j \in 0 .. Len(queue[p]) - 1 : j < i /\ AddAt(p, j) /\ ~IsDesc(queue[p][j + 1])

Paired(p) ==
    \A i \in 0 .. Len(queue[p]) - 1 :
        IsDesc(queue[p][i + 1]) => AddOf(p, i, queue[p][i + 1].sock) \/ Spoilt(p, i)

HalfSent(p) ==
    \A s \in Csocks :
        at[s] = "descriptor" /\ Target(s) = p =>
            \/ thread[p] = "ended"
            \/ thread[p] # "none" /\ (AddOf(p, Len(queue[p]), s) \/ Spoilt(p, Len(queue[p])))

HeldInv(p) ==
    thread[p] \in Adding /\ ~held[p].remove =>
        held[p].sock \in Csocks /\ Of(held[p].sock, held[p].pid, held[p].fd)

PairsInv(p) == Paired(p) /\ HalfSent(p) /\ HeldInv(p)
Pairs == \A p \in Procs \ mixed : PairsInv(p)

-----------------------------------------------------------------------------
\* Third layer: what a process has and will hear of the csockets of others.

OwnEntries(p) ==
    \A e \in table[p] : e.pid = p =>
        /\ e.sock \in Csocks /\ Of(e.sock, p, e.fd) /\ IsOpen(e.sock)
        /\ removing[e.sock] => at[e.sock] \in Adding

OneEntryPerNumber(p) ==
    \A e1, e2 \in table[p] : e1.pid = e2.pid /\ e1.fd = e2.fd => e1 = e2

EntriesMatch(p) == \A e \in table[p] : e.sock \in Csocks /\ Of(e.sock, e.pid, e.fd)

\* Place -1 is the table.
MarkAt(p, i, s) ==
    IF i = -1 THEN \E e \in table[p] : e.pid # p /\ e.sock = s
    ELSE IF i = 0 THEN held[p].sock = s
    ELSE IsDesc(queue[p][i]) /\ queue[p][i].sock = s

RemAt(p, i, s) ==
    IF i = 0 THEN held[p].remove /\ held[p].pid = owner[s] /\ held[p].fd = fd[s]
    ELSE /\ IsPacket(queue[p][i]) /\ queue[p][i].remove
         /\ queue[p][i].pid = owner[s] /\ queue[p][i].fd = fd[s]

Places(p) == -1 .. Len(queue[p])

NoTwo(p) ==
    \A i, j \in Places(p) : \A s1, s2 \in Csocks :
        MarkAt(p, i, s1) /\ MarkAt(p, j, s2) /\ i < j /\ SameKey(s1, s2) =>
            \E m \in i + 1 .. j - 1 : RemAt(p, m, s1)

\* The process has its descriptor and will hear of its removal ...
WillBeTold(s, p) ==
    /\ IsOpen(s)
    /\ removing[s] => at[s] \in Starting \/ p \in todo[s] \cup failed[s] \/ p \notin intnw_pids
    /\ ~removing[s] => at[s] \notin Starting /\ p \notin todo[s]

\* ... or is not told of anything any more.
Dropped(s, p) ==
    /\ p \notin intnw_pids
    /\ \A s1 \in Csocks : IsOpen(s1) /\ SameKey(s1, s) => p \notin todo[s1]

Told(s, p) == WillBeTold(s, p) \/ Dropped(s, p)

Marked(p) ==
    \A i \in Places(p) : \A s \in Csocks :
        /\ MarkAt(p, i, s) /\ thread[p] # "ended" /\ Alive(owner[s])
        /\ \A m \in i + 1 .. Len(queue[p]) : ~RemAt(p, m, s)
        => Told(s, p)

Accounted(p) == dups[p] = (Others(p, table[p]) \cup {held[p].sock}) \ {None}

OwnInv(p) == OwnEntries(p) /\ OneEntryPerNumber(p)
TableInv(p) == EntriesMatch(p) /\ NoTwo(p) /\ Marked(p) /\ Accounted(p)
Tables ==
    /\ \A p \in Procs : OwnInv(p)
    /\ \A p \in Procs \ mixed : TableInv(p)

\* Nobody has the number of a csocket that failed.
Apart == ~clashed /\ \A s \in Csocks : taken[s] = None

\* No process has an entry or a descriptor of csocket s, or will get one.
UnseenBy(p, s) ==
    /\ \A e \in table[p] : e.sock # s
    /\ held[p].sock # s
    /\ \A i \in DOMAIN queue[p] : IsDesc(queue[p][i]) => queue[p][i].sock # s

Unseen(s) == \A p \in Procs : UnseenBy(p, s)

\* A csocket whose connect failed was never added anywhere.
FreedInv ==
    /\ freed \subseteq Csocks
    /\ \A s \in freed : removing[s] /\ at[s] # "none"
    /\ \A s \in Csocks : at[s] = "none" \/ s \in freed => Unseen(s)

IInv == Apart /\ Basic /\ Pairs /\ Tables /\ FreedInv

-----------------------------------------------------------------------------
\* Facts about data.

\* The least of a set of processes is one of them.
LEMMA MinFacts ==
  ASSUME NEW T, T \subseteq Procs, T # {}
  PROVE  Min(T) \in T
  <1>1. T \subseteq Nat
    BY ForegroundAssumption
  <1>2. PICK x \in T : \A y \in T : ~(<<y, x>> \in OpToRel(<, Nat))
    BY <1>1, NatLessThanWellFounded, WFMin
  <1>3. ASSUME NEW y \in T PROVE x <= y
    <2>1. CASE y < x
      <3>1. <<y, x>> \in Nat \X Nat /\ <<y, x>>[1] < <<y, x>>[2]
        BY <1>1, <2>1
      <3>2. <<y, x>> \in OpToRel(<, Nat)
        BY <3>1, Zenon DEF OpToRel
      <3> QED
        BY <1>2, <3>2, Zenon
    <2> QED
      BY <1>1, <2>1
  <1> QED
    BY <1>3 DEF Min

\* A csocket that sends has a target, which is another process.
LEMMA TargetFacts ==
  ASSUME Basic, NEW s \in Csocks, at[s] \in Writing
  PROVE  Target(s) \in todo[s] /\ Target(s) \in Procs /\ Target(s) # owner[s]
  <1>1. todo[s] \subseteq Procs /\ todo[s] # {} /\ owner[s] \notin todo[s]
    BY DEF Basic, SenderTypes, SendersInv
  <1> QED
    BY <1>1, MinFacts DEF Target

\* The three kinds of datagrams.
LEMMA MsgFacts ==
  /\ Interrupt \in Msgs /\ ~IsDesc(Interrupt) /\ ~IsPacket(Interrupt)
  /\ \A m \in Msgs : /\ IsDesc(m) => m.sock \in Csocks /\ ~IsPacket(m)
                     /\ IsPacket(m) => m.pid \in Procs /\ m.fd \in Numbers /\ m.remove \in BOOLEAN
  <1>1. Interrupt \in Msgs
    BY DEF Msgs
  <1>2. Interrupt.type = "interrupt"
    BY DEF Interrupt
  <1>3. \A m \in Packets : m.type = "packet" /\ m.pid \in Procs /\ m.fd \in Numbers /\ m.remove \in BOOLEAN
    BY DEF Packets
  <1>4. \A m \in Descriptors : m.type = "descriptor" /\ m.sock \in Csocks
    BY DEF Descriptors
  <1> QED
    BY <1>1, <1>2, <1>3, <1>4 DEF Msgs, IsDesc, IsPacket

\* What a csocket sends are datagrams.
LEMMA SentFacts ==
  ASSUME SenderTypes, NEW s \in Csocks, owner[s] \in Procs
  PROVE  /\ Packet(s) \in Msgs /\ IsPacket(Packet(s)) /\ ~IsDesc(Packet(s))
         /\ Packet(s).pid = owner[s] /\ Packet(s).fd = fd[s] /\ Packet(s).remove = removing[s]
         /\ Descriptor(s) \in Msgs /\ IsDesc(Descriptor(s)) /\ ~IsPacket(Descriptor(s))
         /\ Descriptor(s).sock = s
  <1>1. fd[s] \in Numbers /\ removing[s] \in BOOLEAN
    BY DEF SenderTypes
  <1>2. /\ Packet(s).type = "packet"
        /\ Packet(s).pid = owner[s] /\ Packet(s).fd = fd[s] /\ Packet(s).remove = removing[s]
    BY DEF Packet
  <1>3. Packet(s) \in Packets
    BY <1>1 DEF Packet, Packets
  <1>4. Descriptor(s).type = "descriptor" /\ Descriptor(s).sock = s /\ Descriptor(s) \in Descriptors
    BY DEF Descriptor, Descriptors
  <1> QED
    BY <1>2, <1>3, <1>4 DEF Msgs, IsDesc, IsPacket

\* A thread that holds nothing holds no csocket.
LEMMA NothingFacts ==
  /\ Nothing \in Held /\ Nothing.sock = None /\ ~Nothing.remove
  /\ None \notin Csocks /\ None \notin Procs
  BY ForegroundAssumption DEF Nothing, Held, Numbers

\* Append, place by place.
LEMMA AppendFacts ==
  ASSUME NEW S, NEW s \in Seq(S), NEW e \in S
  PROVE  /\ Append(s, e) \in Seq(S) /\ Len(s) \in Nat /\ Len(Append(s, e)) = Len(s) + 1
         /\ \A i \in 1 .. Len(s) : Append(s, e)[i] = s[i]
         /\ Append(s, e)[Len(s) + 1] = e
         /\ DOMAIN s = 1 .. Len(s) /\ DOMAIN Append(s, e) = 1 .. Len(s) + 1
  OBVIOUS

\* Tail, place by place.
LEMMA TailFacts ==
  ASSUME NEW S, NEW s \in Seq(S), s # <<>>
  PROVE  /\ Tail(s) \in Seq(S) /\ Len(s) \in Nat \ {0} /\ Len(Tail(s)) = Len(s) - 1
         /\ \A i \in 1 .. Len(s) - 1 : Tail(s)[i] = s[i + 1]
         /\ Head(s) = s[1] /\ Head(s) \in S
         /\ DOMAIN s = 1 .. Len(s) /\ DOMAIN Tail(s) = 1 .. Len(s) - 1
  OBVIOUS

\* The empty queue.
LEMMA EmptyFacts == \A S : <<>> \in Seq(S) /\ Len(<<>>) = 0
  OBVIOUS

-----------------------------------------------------------------------------
\* First layer: the csockets.

\* A step of csocket s leaves the others where they are.
OthersStay(s) ==
    \A s1 \in Csocks \ {s} :
        /\ at'[s1] = at[s1] /\ owner'[s1] = owner[s1] /\ fd'[s1] = fd[s1]
        /\ removing'[s1] = removing[s1] /\ todo'[s1] = todo[s1] /\ failed'[s1] = failed[s1]

\* A step of csocket s keeps the types, leaves the other csockets and all
\* readers alone, and s keeps its process and number once it has them.
LEMMA CsocketMoves ==
  ASSUME Basic, NEW s \in Csocks, CsocketStep(s)
  PROVE  /\ SenderTypes' /\ OthersStay(s)
         /\ UNCHANGED <<proc, thread, held, mixed>>
         /\ at'[s] # "none" /\ (at[s] # "none" => owner'[s] = owner[s] /\ fd'[s] = fd[s])
  <1>1. SenderTypes /\ intnw_pids \subseteq Procs
    BY DEF Basic, ProcessTypes
  <1> USE DEF SenderTypes, OthersStay, AtStates, Adding, Starting, Sending, Place
  <1>2. ASSUME NEW p \in Apps, NEW number \in Fds, Socket(p, s, number)
        PROVE  /\ SenderTypes' /\ OthersStay(s)
               /\ UNCHANGED <<proc, thread, held, mixed>>
               /\ at'[s] # "none" /\ at[s] = "none"
    <2>1. /\ owner' = [owner EXCEPT ![s] = p] /\ fd' = [fd EXCEPT ![s] = number]
          /\ at' = [at EXCEPT ![s] = "add_or_remove"] /\ at[s] = "none"
          /\ UNCHANGED <<todo, failed, proc, thread, held, mixed>>
      BY <1>2 DEF Socket, reader, bounds
    <2>2. PICK fails \in BOOLEAN : removing' = [removing EXCEPT ![s] = fails]
      BY <1>2 DEF Socket
    <2>3. p \in Procs /\ number \in Numbers
      BY DEF Apps, Numbers
    <2>4. SenderTypes'
      BY <1>1, <2>1, <2>2, <2>3
    <2>5. OthersStay(s) /\ at'[s] = "add_or_remove"
      BY <1>1, <2>1, <2>2
    <2> QED
      BY <2>1, <2>4, <2>5
  <1>3. CASE Destroy(s)
    BY <1>1, <1>3 DEF Destroy, reader, bounds
  <1>4. CASE CsocketAddsPair(s)
    BY <1>1, <1>4 DEF CsocketAddsPair, AddMissingPair, reader, bounds
  <1>5. CASE CsocketUpdates(s)
    BY <1>1, <1>5 DEF CsocketUpdates, reader, bounds
  <1>6. CASE CopyTargets(s)
    BY <1>1, <1>6 DEF CopyTargets, reader, bounds
  <1>7. CASE LockToSend(s)
    BY <1>1, <1>7 DEF LockToSend, reader, bounds
  <1>8. CASE SendPacket(s) \/ SendDescriptor(s)
    <2>1. /\ at[s] \in Writing
          /\ UNCHANGED <<proc, thread, held, mixed, owner, fd, removing>>
      BY <1>8 DEF SendPacket, SendDescriptor, reader, bounds, Writing
    <2>2. Target(s) \in Procs
      BY <2>1, TargetFacts
    <2>3. /\ at' = [at EXCEPT ![s] = "send"] \/ at' = [at EXCEPT ![s] = "descriptor"]
          /\ todo' = [todo EXCEPT ![s] = todo[s] \ {Target(s)}] \/ todo' = todo
          /\ failed' = [failed EXCEPT ![s] = failed[s] \cup {Target(s)}] \/ failed' = failed
      BY <1>8 DEF SendPacket, SendDescriptor, Refused, Sent
    <2>4. SenderTypes' /\ at'[s] # "none"
      BY <1>1, <2>1, <2>2, <2>3
    <2>5. OthersStay(s)
      BY <1>1, <2>1, <2>3
    <2> QED
      BY <2>1, <2>4, <2>5
  <1>9. CASE RemoveFailed(s)
    BY <1>1, <1>9 DEF RemoveFailed, reader, bounds
  <1> QED
    BY <1>2, <1>3, <1>4, <1>5, <1>6, <1>7, <1>8, <1>9 DEF CsocketStep

\* What has to be seen of a step of csocket s.
LEMMA SenderMoves ==
  ASSUME Basic, NEW s \in Csocks, CsocketStep(s),
         owner'[s] \in Procs, proc[owner'[s]] # "none", IsOpen(s)' => Alive(owner'[s]),
         at'[s] \notin Sending => todo'[s] = {} /\ failed'[s] = {},
         at'[s] \in Writing => todo'[s] # {} /\ (at[s] \in Writing \/ ~Locked(owner[s])),
         at'[s] \in Writing => at[s] # "none",
         at'[s] = "descriptor" => ~removing'[s],
         owner'[s] \notin todo'[s],
         \A s1 \in Csocks \ {s} : IsOpen(s)' /\ IsOpen(s1) => ~SameKey(s, s1)'
  PROVE  SendersInv' /\ Exclusive'
  <1>1. /\ SenderTypes' /\ OthersStay(s) /\ proc' = proc
        /\ (at[s] # "none" => owner'[s] = owner[s] /\ fd'[s] = fd[s])
    BY CsocketMoves
  <1>2. SendersInv'
    <2> SUFFICES ASSUME NEW s1 \in Csocks
                 PROVE  /\ at'[s1] # "none" => owner'[s1] \in Procs /\ proc'[owner'[s1]] # "none"
                        /\ IsOpen(s1)' => Alive(owner[s1])'
                        /\ at'[s1] \notin Sending => todo'[s1] = {} /\ failed'[s1] = {}
                        /\ at'[s1] \in Writing => todo'[s1] # {}
                        /\ at'[s1] = "descriptor" => ~removing'[s1]
                        /\ owner'[s1] \notin todo'[s1]
      BY DEF SendersInv
    <2>1. CASE s1 = s
      BY <1>1, <2>1 DEF Alive
    <2>2. CASE s1 # s
      BY <1>1, <2>2 DEF OthersStay, Basic, SendersInv, IsOpen, Alive
    <2> QED
      BY <2>1, <2>2
  <1>3. Exclusive'
    <2> SUFFICES ASSUME NEW s1 \in Csocks, NEW s2 \in Csocks, s1 # s2
                 PROVE  /\ ~(owner'[s1] = owner'[s2] /\ at'[s1] \in Writing /\ at'[s2] \in Writing)
                        /\ ~(IsOpen(s1)' /\ IsOpen(s2)' /\ SameKey(s1, s2)')
      BY DEF Exclusive
    <2>0. Exclusive
      BY DEF Basic
    <2>1. CASE s1 # s /\ s2 # s
      BY <1>1, <2>0, <2>1 DEF OthersStay, Exclusive, IsOpen, SameKey
    <2>2. ASSUME NEW s3 \in Csocks \ {s}
          PROVE  /\ ~(owner'[s] = owner'[s3] /\ at'[s] \in Writing /\ at'[s3] \in Writing)
                 /\ ~(IsOpen(s)' /\ IsOpen(s3)' /\ SameKey(s, s3)')
      <3>1. at'[s3] = at[s3] /\ owner'[s3] = owner[s3]
        BY <1>1 DEF OthersStay
      <3>2. IsOpen(s3)' <=> IsOpen(s3)
        BY <3>1 DEF IsOpen
      <3>3. CASE at'[s] \in Writing /\ at'[s3] \in Writing /\ owner'[s] = owner'[s3]
        <4>1. owner[s] = owner[s3] /\ at[s3] \in Writing
          BY <1>1, <3>1, <3>3
        <4>2. Locked(owner[s])
          BY <4>1 DEF Locked, Writing
        <4> QED
          BY <2>0, <3>3, <4>1, <4>2 DEF Exclusive
      <3> QED
        BY <3>2, <3>3
    <2> QED
      BY <2>1, <2>2 DEF SameKey
  <1> QED
    BY <1>2, <1>3

\* The same for a csocket that was there before.
LEMMA OpenSenderMoves ==
  ASSUME Basic, NEW s \in Csocks, CsocketStep(s), IsOpen(s),
         at'[s] \notin Sending => todo'[s] = {} /\ failed'[s] = {},
         at'[s] \in Writing => todo'[s] # {} /\ (at[s] \in Writing \/ ~Locked(owner[s])),
         at'[s] = "descriptor" => ~removing'[s],
         owner[s] \notin todo'[s]
  PROVE  SendersInv' /\ Exclusive'
  <1>1. OthersStay(s) /\ owner'[s] = owner[s] /\ fd'[s] = fd[s] /\ at[s] # "none"
    BY CsocketMoves DEF IsOpen
  <1>2. owner'[s] \in Procs /\ Alive(owner'[s]) /\ proc[owner'[s]] # "none"
    BY <1>1 DEF Basic, SendersInv
  <1>3. ASSUME NEW s1 \in Csocks \ {s}, IsOpen(s1) PROVE ~SameKey(s, s1)'
    <2>1. SameKey(s, s1)' <=> SameKey(s, s1)
      BY <1>1 DEF OthersStay, SameKey
    <2> QED
      BY <1>3, <2>1 DEF Basic, Exclusive
  <1> QED
    BY <1>1, <1>2, <1>3, SenderMoves

\* No step of a csocket lets two of them have the lock of a process or one
\* number.
LEMMA CsocketsStayApart ==
  ASSUME Basic, NEW s \in Csocks, CsocketStep(s), ~clashed'
  PROVE  SendersInv' /\ Exclusive'
  <1>1. SenderTypes /\ SendersInv /\ intnw_pids \subseteq Procs
    BY DEF Basic, ProcessTypes
  <1> USE DEF Place, Sending, Writing, IsOpen
  <1>2. ASSUME NEW p \in Apps, NEW number \in Fds, Socket(p, s, number)
        PROVE  SendersInv' /\ Exclusive'
    <2>1. /\ owner'[s] = p /\ fd'[s] = number /\ at'[s] = "add_or_remove"
          /\ todo' = todo /\ failed' = failed /\ at[s] = "none" /\ proc[p] = "up"
      BY <1>1, <1>2 DEF Socket, SenderTypes
    <2>2. todo'[s] = {} /\ failed'[s] = {} /\ p \in Procs /\ Alive(p)
      BY <1>1, <2>1 DEF SendersInv, Apps, Alive
    <2>3. ASSUME NEW s1 \in Csocks \ {s}, IsOpen(s1) PROVE ~SameKey(s, s1)'
      <3>1. owner'[s1] = owner[s1] /\ fd'[s1] = fd[s1]
        BY CsocketMoves DEF OthersStay
      <3>2. ~(IsOpen(s1) /\ owner[s1] = p /\ fd[s1] = number)
        BY <1>2, Zenon DEF Socket
      <3> QED
        BY <2>1, <2>3, <3>1, <3>2 DEF SameKey
    <2> QED
      BY <2>1, <2>2, <2>3, SenderMoves
  <1>3. CASE Destroy(s)
    <2>1. at[s] = "open" /\ at'[s] = "add_or_remove" /\ todo' = todo /\ failed' = failed
      BY <1>1, <1>3 DEF Destroy, SenderTypes
    <2> QED
      BY <1>1, <2>1, OpenSenderMoves DEF SendersInv
  <1>4. CASE CsocketAddsPair(s)
    <2>1. at[s] \in Adding /\ at'[s] \in Adding /\ todo' = todo /\ failed' = failed
      BY <1>1, <1>4 DEF CsocketAddsPair, AddMissingPair, Adding, SenderTypes
    <2> QED
      BY <1>1, <2>1, OpenSenderMoves DEF SendersInv, Adding
  <1>5. CASE CsocketUpdates(s)
    <2>1. at[s] \in {"add_or_remove", "writelock"} /\ at'[s] = "targets" /\ todo' = todo /\ failed' = failed
      BY <1>1, <1>5 DEF CsocketUpdates, SenderTypes
    <2> QED
      BY <1>1, <2>1, OpenSenderMoves DEF SendersInv
  <1>6. CASE CopyTargets(s)
    <2>1. at[s] = "targets" /\ at'[s] = "send" /\ todo'[s] = intnw_pids \ {owner[s]}
      BY <1>1, <1>6 DEF CopyTargets, SenderTypes
    <2> QED
      BY <1>1, <2>1, OpenSenderMoves
  <1>7. CASE LockToSend(s)
    <2>1. /\ at[s] = "send" /\ at'[s] = "packet" /\ todo' = todo /\ todo[s] # {}
          /\ ~Locked(owner[s])
      BY <1>1, <1>7 DEF LockToSend, SenderTypes
    <2> QED
      BY <1>1, <2>1, OpenSenderMoves DEF SendersInv
  <1>8. CASE SendPacket(s) \/ SendDescriptor(s)
    <2>1. at[s] \in {"packet", "descriptor"} /\ removing' = removing
      BY <1>8 DEF SendPacket, SendDescriptor
    <2>2. \/ at'[s] = "send" /\ todo'[s] = todo[s] \ {Target(s)}
          \/ at'[s] = "descriptor" /\ todo' = todo /\ ~removing[s]
      BY <1>1, <1>8 DEF SendPacket, SendDescriptor, Refused, Sent, SenderTypes
    <2> QED
      BY <1>1, <2>1, <2>2, OpenSenderMoves DEF SendersInv
  <1>9. CASE RemoveFailed(s)
    <2>1. /\ at[s] = "send" /\ todo[s] = {} /\ todo' = todo /\ failed'[s] = {}
          /\ at'[s] \in {"closed", "open"}
      BY <1>1, <1>9 DEF RemoveFailed, SenderTypes
    <2> QED
      BY <1>1, <2>1, OpenSenderMoves
  <1> QED
    BY <1>2, <1>3, <1>4, <1>5, <1>6, <1>7, <1>8, <1>9 DEF CsocketStep

\* Csocket s sends datagram m to its target.
Sends(s, m) ==
    /\ at[s] \in Writing /\ Bound(owner[s]) /\ Bound(Target(s))
    /\ queue' = [queue EXCEPT ![Target(s)] = Append(queue[Target(s)], m)]

\* A step of a csocket changes queues only by sending.
LEMMA CsocketQueues ==
  ASSUME Basic, NEW s \in Csocks, CsocketStep(s)
  PROVE  \/ queue' = queue
         \/ SendPacket(s) /\ Sends(s, Packet(s))
         \/ SendDescriptor(s) /\ Sends(s, Descriptor(s))
  <1>1. CASE SendPacket(s)
    BY <1>1 DEF SendPacket, Refused, Put, Sends, Writing
  <1>2. CASE SendDescriptor(s)
    BY <1>2 DEF SendDescriptor, Refused, Put, Sends, Writing
  <1>3. ASSUME NEW p \in Apps, NEW number \in Fds, Socket(p, s, number)
        PROVE  queue' = queue
    BY <1>3 DEF Socket
  <1>4. CASE CsocketAddsPair(s)
    BY <1>4 DEF CsocketAddsPair, AddMissingPair
  <1> QED
    BY <1>1, <1>2, <1>3, <1>4
       DEF CsocketStep, Destroy, CsocketUpdates, CopyTargets, LockToSend, RemoveFailed

\* The table of a process changes by one entry of its own, or loses entries.
LEMMA CsocketTables ==
  ASSUME Basic, NEW s \in Csocks, CsocketStep(s)
  PROVE  /\ table' \in [Procs -> SUBSET Entry] /\ dups' \in [Procs -> SUBSET Csocks]
         /\ intnw_pids' \subseteq intnw_pids
         /\ \A p \in Procs \ {owner[s]} : table'[p] = table[p] /\ dups'[p] = dups[p]
         /\ \A p \in Procs : \A e \in table'[p] :
                e \in table[p] \/ (e.pid = p /\ e.fd = fd[s] /\ e.sock = s /\ p = owner[s])
  <1>1. /\ table \in [Procs -> SUBSET Entry] /\ dups \in [Procs -> SUBSET Csocks]
        /\ SenderTypes
    BY DEF Basic, ProcessTypes
  <1>2. CASE CsocketUpdates(s)
    <2>1. owner[s] \in Procs /\ fd[s] \in Numbers
      BY <1>1, <1>2 DEF CsocketUpdates, Basic, SendersInv, SenderTypes
    <2>2. [pid |-> owner[s], fd |-> fd[s], sock |-> s] \in Entry
      BY <2>1 DEF Entry
    <2>3. UpdateTable(owner[s], owner[s], fd[s], removing[s], s) /\ intnw_pids' = intnw_pids
      BY <1>2 DEF CsocketUpdates, shared
    <2>4. CASE removing[s]
      <3>1. /\ table' = [table EXCEPT ![owner[s]] = table[owner[s]] \ Entries(owner[s], owner[s], fd[s])]
            /\ dups' = [dups EXCEPT ![owner[s]] =
                            dups[owner[s]] \ Others(owner[s], Entries(owner[s], owner[s], fd[s]))]
        BY <2>3, <2>4 DEF UpdateTable
      <3> QED
        BY <1>1, <2>1, <2>3, <3>1
    <2>5. CASE ~removing[s]
      <3>1. /\ \/ table' = table
               \/ table' = [table EXCEPT ![owner[s]] = table[owner[s]] \cup {[pid |-> owner[s], fd |-> fd[s], sock |-> s]}]
            /\ dups' = dups
        BY <2>3, <2>5 DEF UpdateTable
      <3> QED
        BY <1>1, <2>1, <2>2, <2>3, <3>1
    <2> QED
      BY <2>4, <2>5
  <1>3. CASE RemoveFailed(s)
    <2>1. owner[s] \in Procs
      BY <1>3 DEF RemoveFailed, Basic, SendersInv
    <2>2. PICK gone, lost :
              /\ table' = [table EXCEPT ![owner[s]] = table[owner[s]] \ gone]
              /\ dups' = [dups EXCEPT ![owner[s]] = dups[owner[s]] \ lost]
              /\ intnw_pids' \subseteq intnw_pids
      BY <1>3 DEF RemoveFailed, Forget
    <2> QED
      BY <1>1, <2>1, <2>2
  <1>4. CASE table' = table /\ dups' = dups /\ intnw_pids' = intnw_pids
    BY <1>1, <1>4
  <1>5. ASSUME NEW p \in Apps, NEW number \in Fds, Socket(p, s, number)
        PROVE  table' = table /\ dups' = dups /\ intnw_pids' = intnw_pids
    BY <1>5 DEF Socket, local, shared
  <1>6. CASE CsocketAddsPair(s)
    BY <1>4, <1>6 DEF CsocketAddsPair, AddMissingPair
  <1> QED
    BY <1>2, <1>3, <1>4, <1>5, <1>6
       DEF CsocketStep, Destroy, CopyTargets, LockToSend, SendPacket, SendDescriptor, local, shared

\* A datagram at the end of one queue.
LEMMA QueueGrows ==
  ASSUME Basic, NEW p \in Procs, NEW m \in Msgs,
         queue' = [queue EXCEPT ![p] = Append(queue[p], m)]
  PROVE  /\ queue' \in [Procs -> Seq(Msgs)]
         /\ \A q \in Procs \ {p} : queue'[q] = queue[q]
         /\ Len(queue[p]) \in Nat /\ Len(queue'[p]) = Len(queue[p]) + 1
         /\ \A i \in 1 .. Len(queue[p]) : queue'[p][i] = queue[p][i]
         /\ queue'[p][Len(queue[p]) + 1] = m
         /\ DOMAIN queue[p] = 1 .. Len(queue[p]) /\ DOMAIN queue'[p] = 1 .. Len(queue[p]) + 1
  <1>1. queue \in [Procs -> Seq(Msgs)]
    BY DEF Basic, ProcessTypes
  <1>2. queue[p] \in Seq(Msgs) /\ queue'[p] = Append(queue[p], m)
    BY <1>1
  <1>3. Append(queue[p], m) \in Seq(Msgs)
    BY <1>2, AppendFacts
  <1>4. queue' \in [Procs -> Seq(Msgs)] /\ \A q \in Procs \ {p} : queue'[q] = queue[q]
    BY <1>1, <1>3
  <1> QED
    BY <1>2, <1>4, AppendFacts

\* The first layer survives the step of a csocket.
LEMMA CsocketBasic ==
  ASSUME Basic, NEW s \in Csocks, CsocketStep(s), ~clashed'
  PROVE  Basic'
  <1>1. SenderTypes' /\ SendersInv' /\ Exclusive'
    BY CsocketMoves, CsocketsStayApart
  <1>2. UNCHANGED <<proc, thread, held, mixed>>
    BY CsocketMoves
  <1>3. \A s1 \in Csocks : at[s1] # "none" => at'[s1] # "none" /\ owner'[s1] = owner[s1]
    BY CsocketMoves DEF OthersStay
  <1>4. CASE queue' = queue
    <2>1. ProcessTypes'
      BY <1>2, <1>4, CsocketTables DEF Basic, ProcessTypes
    <2>2. ReadersInv'
      BY <1>2, <1>4, CsocketTables DEF Basic, ReadersInv, ReaderInv
    <2>3. QueuesInv'
      <3> SUFFICES ASSUME NEW p \in Procs, NEW i \in DOMAIN queue[p]
                   PROVE  /\ IsPacket(queue[p][i]) => queue[p][i].pid # p
                          /\ IsDesc(queue[p][i]) => /\ at'[queue[p][i].sock] # "none"
                                                    /\ owner'[queue[p][i].sock] # p
        BY <1>4 DEF QueuesInv, QueueInv
      <3>1. queue[p][i] \in Msgs
        BY DEF Basic, ProcessTypes
      <3> QED
        BY <1>3, <3>1, MsgFacts DEF Basic, QueuesInv, QueueInv
    <2> QED
      BY <1>1, <2>1, <2>2, <2>3 DEF Basic
  <1>5. ASSUME NEW m, m = Packet(s) \/ m = Descriptor(s), Sends(s, m)
        PROVE  Basic'
    <2>1. at[s] \in Writing /\ at[s] # "none"
      BY <1>5 DEF Sends, Writing
    <2>2. owner[s] \in Procs /\ Target(s) \in Procs /\ Target(s) # owner[s]
      BY <2>1, TargetFacts DEF Basic, SendersInv
    <2>3. m \in Msgs /\ (IsPacket(m) => m.pid = owner[s]) /\ (IsDesc(m) => m.sock = s)
      BY <1>5, <2>2, SentFacts DEF Basic
    <2> DEFINE t == Target(s)
    <2>4. /\ queue' = [queue EXCEPT ![t] = Append(queue[t], m)]
          /\ thread[t] \notin {"none", "ended"}
      BY <1>5 DEF Sends, Bound
    <2> HIDE DEF t
    <2>5. t \in Procs /\ t # owner[s]
      BY <2>2 DEF t
    <2>6. ProcessTypes'
      BY <1>2, <2>3, <2>4, <2>5, QueueGrows, CsocketTables DEF Basic, ProcessTypes
    <2>7. ReadersInv'
      <3>1. \A p \in Procs : thread[p] \in {"none", "ended"} => queue'[p] = queue[p]
        BY <2>3, <2>4, <2>5, QueueGrows
      <3> QED
        BY <1>2, <3>1, CsocketTables DEF Basic, ReadersInv, ReaderInv
    <2>8. QueuesInv'
      <3> SUFFICES ASSUME NEW p \in Procs, NEW i \in DOMAIN queue'[p]
                   PROVE  /\ IsPacket(queue'[p][i]) => queue'[p][i].pid # p
                          /\ IsDesc(queue'[p][i]) => /\ at'[queue'[p][i].sock] # "none"
                                                     /\ owner'[queue'[p][i].sock] # p
        BY DEF QueuesInv, QueueInv, IsPacket, IsDesc
      <3>1. CASE p = t /\ i = Len(queue[p]) + 1
        <4>1. queue'[p][i] = m
          BY <2>3, <2>4, <2>5, <3>1, QueueGrows
        <4> QED
          BY <1>3, <2>1, <2>3, <2>5, <3>1, <4>1
      <3>2. CASE ~(p = t /\ i = Len(queue[p]) + 1)
        <4>1. i \in DOMAIN queue[p] /\ queue'[p][i] = queue[p][i]
          BY <2>3, <2>4, <2>5, <3>2, QueueGrows
        <4>2. queue[p][i] \in Msgs
          BY <4>1 DEF Basic, ProcessTypes
        <4> QED
          BY <1>3, <4>1, <4>2, MsgFacts DEF Basic, QueuesInv, QueueInv
      <3> QED
        BY <3>1, <3>2
    <2> QED
      BY <1>1, <2>6, <2>7, <2>8 DEF Basic
  <1> QED
    BY <1>4, <1>5, CsocketQueues

-----------------------------------------------------------------------------
\* First layer: the processes.

ProcessStays(p) ==
    /\ proc'[p] = proc[p] /\ thread'[p] = thread[p] /\ held'[p] = held[p]
    /\ queue'[p] = queue[p] /\ table'[p] = table[p] /\ dups'[p] = dups[p]

CsocketsStay == UNCHANGED <<owner, fd, at, removing, todo, failed>>

\* What has to be seen of a step of process p that leaves the csockets alone.
LEMMA ProcessMoves ==
  ASSUME Basic, NEW p \in Procs, CsocketsStay, ProcessTypes',
         \A q \in Procs \ {p} : ProcessStays(q),
         Alive(p) => Alive(p)', proc[p] # "none" => proc'[p] # "none",
         ReaderInv(p)', QueueInv(p)'
  PROVE  Basic'
  <1>1. SenderTypes' /\ Exclusive'
    BY DEF Basic, SenderTypes, Exclusive, CsocketsStay, IsOpen, SameKey
  <1>2. SendersInv'
    <2>1. \A q \in Procs : (Alive(q) => Alive(q)') /\ (proc[q] # "none" => proc'[q] # "none")
      BY DEF ProcessStays, Alive
    <2> QED
      BY <2>1 DEF Basic, SendersInv, CsocketsStay, IsOpen, Alive
  <1>3. ReadersInv'
    <2> SUFFICES ASSUME NEW q \in Procs PROVE ReaderInv(q)'
      BY DEF ReadersInv
    <2>1. CASE q # p
      BY <2>1 DEF Basic, ReadersInv, ReaderInv, ProcessStays
    <2> QED
      BY <2>1
  <1>4. QueuesInv'
    <2> SUFFICES ASSUME NEW q \in Procs PROVE QueueInv(q)'
      BY DEF QueuesInv
    <2>1. CASE q # p
      BY <2>1 DEF Basic, QueuesInv, QueueInv, ProcessStays, CsocketsStay
    <2> QED
      BY <2>1
  <1> QED
    BY <1>1, <1>2, <1>3, <1>4 DEF Basic

\* The first datagram is taken from a queue, or all of them.
LEMMA QueueShrinks ==
  ASSUME Basic, NEW p \in Procs, queue[p] # <<>>,
         queue' = [queue EXCEPT ![p] = Tail(queue[p])]
  PROVE  /\ queue' \in [Procs -> Seq(Msgs)]
         /\ \A q \in Procs \ {p} : queue'[q] = queue[q]
         /\ Len(queue[p]) \in Nat \ {0} /\ Len(queue'[p]) = Len(queue[p]) - 1
         /\ \A i \in 1 .. Len(queue[p]) - 1 : queue'[p][i] = queue[p][i + 1]
         /\ Head(queue[p]) = queue[p][1] /\ Head(queue[p]) \in Msgs
         /\ DOMAIN queue[p] = 1 .. Len(queue[p]) /\ DOMAIN queue'[p] = 1 .. Len(queue[p]) - 1
  <1>1. queue \in [Procs -> Seq(Msgs)]
    BY DEF Basic, ProcessTypes
  <1>2. queue[p] \in Seq(Msgs) /\ queue'[p] = Tail(queue[p])
    BY <1>1
  <1>3. Tail(queue[p]) \in Seq(Msgs)
    BY <1>2, TailFacts
  <1>4. queue' \in [Procs -> Seq(Msgs)] /\ \A q \in Procs \ {p} : queue'[q] = queue[q]
    BY <1>1, <1>3
  <1> QED
    BY <1>2, <1>4, TailFacts

\* A queue that is closed is empty.
LEMMA QueueEmptied ==
  ASSUME Basic, NEW p \in Procs, queue' = [queue EXCEPT ![p] = <<>>]
  PROVE  /\ queue' \in [Procs -> Seq(Msgs)]
         /\ \A q \in Procs \ {p} : queue'[q] = queue[q]
         /\ queue'[p] = <<>> /\ Len(queue'[p]) = 0 /\ DOMAIN queue'[p] = {}
  <1>1. queue \in [Procs -> Seq(Msgs)]
    BY DEF Basic, ProcessTypes
  <1>2. <<>> \in Seq(Msgs) /\ Len(<<>>) = 0
    BY EmptyFacts
  <1>3. queue' \in [Procs -> Seq(Msgs)] /\ queue'[p] = <<>>
    BY <1>1, <1>2
  <1>4. DOMAIN queue'[p] = 1 .. 0
    BY <1>2, <1>3
  <1> QED
    BY <1>1, <1>2, <1>3, <1>4

\* Nobody sends to itself: what is left of a queue.
LEMMA ShrunkQueueInv ==
  ASSUME Basic, CsocketsStay, NEW p \in Procs, queue[p] # <<>>,
         queue' = [queue EXCEPT ![p] = Tail(queue[p])]
  PROVE  QueueInv(p)'
  <1> SUFFICES ASSUME NEW i \in DOMAIN queue'[p]
               PROVE  /\ IsPacket(queue'[p][i]) => queue'[p][i].pid # p
                      /\ IsDesc(queue'[p][i]) => /\ at'[queue'[p][i].sock] # "none"
                                                 /\ owner'[queue'[p][i].sock] # p
    BY DEF QueueInv, IsPacket, IsDesc
  <1>0. /\ \A j \in 1 .. Len(queue[p]) - 1 : queue'[p][j] = queue[p][j + 1]
        /\ Len(queue[p]) \in Nat
        /\ DOMAIN queue[p] = 1 .. Len(queue[p]) /\ DOMAIN queue'[p] = 1 .. Len(queue[p]) - 1
    BY QueueShrinks, Zenon
  <1>1. i + 1 \in DOMAIN queue[p] /\ queue'[p][i] = queue[p][i + 1]
    BY <1>0
  <1>2. /\ IsPacket(queue[p][i + 1]) => queue[p][i + 1].pid # p
        /\ IsDesc(queue[p][i + 1]) => /\ at[queue[p][i + 1].sock] # "none"
                                      /\ owner[queue[p][i + 1].sock] # p
    BY <1>1 DEF Basic, QueuesInv, QueueInv
  <1> QED
    BY <1>1, <1>2 DEF CsocketsStay

\* The first layer survives StopReading.
LEMMA StopReadingBasic ==
  ASSUME Basic, NEW p \in Procs, thread[p] = "select", StopReading(p)
  PROVE  Basic'
  <1>1. /\ thread' = [thread EXCEPT ![p] = "ended"] /\ held' = [held EXCEPT ![p] = Nothing]
        /\ queue' = [queue EXCEPT ![p] = <<>>]
        /\ UNCHANGED <<intnw_pids, proc, table, dups>> /\ CsocketsStay
    BY DEF StopReading, Go, shared, local, csocket, CsocketsStay
  <1>2. ProcessTypes /\ ReaderInv(p)
    BY DEF Basic, ReadersInv
  <1>3. ProcessTypes'
    BY <1>1, <1>2, QueueEmptied, NothingFacts DEF ProcessTypes, ThreadStates
  <1>4. \A q \in Procs \ {p} : ProcessStays(q)
    BY <1>1, <1>2 DEF ProcessStays, ProcessTypes
  <1>5. ReaderInv(p)'
    BY <1>1, <1>2, QueueEmptied, NothingFacts DEF Adding, ReaderInv, ProcessTypes, Reading
  <1>6. QueueInv(p)'
    BY <1>1, QueueEmptied DEF QueueInv
  <1> QED
    BY <1>1, <1>3, <1>4, <1>5, <1>6, ProcessMoves DEF Alive

\* The first layer survives ReceivePacket: the pid of a packet is another's.
LEMMA ReceivePacketBasic ==
  ASSUME Basic, NEW p \in Procs, ReceivePacket(p)
  PROVE  Basic'
  <1>1. thread[p] = "select" /\ queue[p] # <<>>
    BY DEF ReceivePacket
  <1> DEFINE m == Head(queue[p])
             h == [pid |-> m.pid, fd |-> m.fd, remove |-> m.remove, sock |-> None]
             where == IF m.remove THEN "add_or_remove" ELSE "ancil_recv_fd"
  <1>2. CASE m.type # "packet"
    BY <1>1, <1>2, StopReadingBasic DEF ReceivePacket
  <1>3. CASE m.type = "packet"
    <2>1. /\ thread' = [thread EXCEPT ![p] = where] /\ held' = [held EXCEPT ![p] = h]
          /\ queue' = [queue EXCEPT ![p] = Tail(queue[p])]
          /\ UNCHANGED <<intnw_pids, proc, table, dups>> /\ CsocketsStay
      BY <1>3 DEF ReceivePacket, Go, shared, local, csocket, CsocketsStay
    <2>2. ProcessTypes /\ ReaderInv(p) /\ QueueInv(p)
      BY DEF Basic, ReadersInv, QueuesInv
    <2>3. m = queue[p][1] /\ 1 \in DOMAIN queue[p] /\ m \in Msgs
      <3>1. /\ Len(queue[p]) \in Nat \ {0} /\ Head(queue[p]) = queue[p][1]
            /\ DOMAIN queue[p] = 1 .. Len(queue[p]) /\ Head(queue[p]) \in Msgs
        BY <1>1, <2>1, QueueShrinks, Zenon
      <3>2. 1 \in 1 .. Len(queue[p])
        BY <3>1
      <3> QED
        BY <3>1, <3>2, Zenon
    <2>4. m.pid \in Procs \ {p} /\ m.fd \in Numbers /\ m.remove \in BOOLEAN
      <3>1. IsPacket(m)
        BY <1>3 DEF IsPacket
      <3>2. IsPacket(queue[p][1]) => queue[p][1].pid # p
        BY <2>2, <2>3 DEF QueueInv
      <3> HIDE DEF m
      <3> QED
        BY <2>3, <3>1, <3>2, MsgFacts
    <2>5. h \in Held /\ h.pid = m.pid /\ h.remove = m.remove /\ h.sock = None
      BY <2>4 DEF Held
    <2>6. where \in ThreadStates /\ where \in Reading /\ (where = "ancil_recv_fd" <=> ~m.remove)
      BY DEF Adding, ThreadStates, Reading
    <2> HIDE DEF h, where, m
    <2>7. ProcessTypes'
      BY <1>1, <2>1, <2>2, <2>5, <2>6, QueueShrinks DEF ProcessTypes
    <2>8. \A q \in Procs \ {p} : ProcessStays(q)
      BY <2>1, <2>2 DEF ProcessStays, ProcessTypes
    <2>9. thread'[p] = where /\ held'[p] = h
      BY <2>1, <2>2 DEF ProcessTypes
    <2>10. ReaderInv(p)'
      <3>1. where \notin {"none", "ended"}
        BY <2>6 DEF Adding, Reading
      <3> QED
        BY <1>1, <2>1, <2>2, <2>4, <2>5, <2>6, <2>9, <3>1 DEF ReaderInv
    <2>11. QueueInv(p)'
      BY <1>1, <2>1, ShrunkQueueInv
    <2> QED
      BY <2>1, <2>7, <2>8, <2>10, <2>11, ProcessMoves DEF Alive
  <1> QED
    BY <1>2, <1>3

\* The first layer survives ReceiveDescriptor, whatever the datagram is.
LEMMA ReceiveDescriptorBasic ==
  ASSUME Basic, NEW p \in Procs, ReceiveDescriptor(p)
  PROVE  Basic'
  <1>1. thread[p] = "ancil_recv_fd" /\ queue[p] # <<>>
    BY DEF ReceiveDescriptor
  <1> DEFINE m == Head(queue[p])
             s == IF m.type = "descriptor" THEN m.sock ELSE None
             h == [held[p] EXCEPT !.sock = s]
  <1>2. /\ thread' = [thread EXCEPT ![p] = "add_or_remove"] /\ held' = [held EXCEPT ![p] = h]
        /\ queue' = [queue EXCEPT ![p] = Tail(queue[p])]
        /\ dups' = [dups EXCEPT ![p] = dups[p] \cup ({s} \ {None})]
        /\ UNCHANGED <<intnw_pids, proc, table>> /\ CsocketsStay
    BY DEF ReceiveDescriptor, Go, shared, csocket, CsocketsStay
  <1>3. ProcessTypes /\ ReaderInv(p)
    BY DEF Basic, ReadersInv
  <1>4. s \in Csocks \cup {None}
    BY <1>1, <1>2, QueueShrinks, MsgFacts DEF IsDesc
  <1> HIDE DEF s
  <1>5. held[p] \in Held
    BY <1>3 DEF ProcessTypes
  <1>6. /\ h \in Held /\ h.pid = held[p].pid /\ h.remove = held[p].remove
    BY <1>4, <1>5 DEF Held
  <1> HIDE DEF h
  <1>7. ProcessTypes'
    BY <1>1, <1>2, <1>3, <1>4, <1>6, QueueShrinks DEF Adding, ProcessTypes, ThreadStates, Reading
  <1>8. \A q \in Procs \ {p} : ProcessStays(q)
    BY <1>2, <1>3 DEF ProcessStays, ProcessTypes
  <1>9. thread'[p] = "add_or_remove" /\ held'[p] = h
    BY <1>2, <1>3 DEF ProcessTypes
  <1>10. ReaderInv(p)'
    BY <1>1, <1>2, <1>3, <1>6, <1>9 DEF Adding, ReaderInv, Reading
  <1>11. QueueInv(p)'
    BY <1>1, <1>2, ShrunkQueueInv
  <1> QED
    BY <1>2, <1>7, <1>8, <1>10, <1>11, ProcessMoves DEF Alive

\* The first layer survives ReceiverUpdates, and only entries of others are new.
LEMMA ReceiverUpdatesBasic ==
  ASSUME Basic, NEW p \in Procs, ReceiverUpdates(p)
  PROVE  /\ Basic'
         /\ \A q \in Procs : \A e \in table'[q] :
                e \in table[q] \/ (q = p /\ e.pid = held[p].pid /\ e.pid # p)
  <1>1. /\ thread[p] \in {"writelock", "add_or_remove"} /\ thread[p] \in Reading
        /\ UpdateTable(p, held[p].pid, held[p].fd, held[p].remove, held[p].sock)
        /\ thread' = [thread EXCEPT ![p] = IF proc[p] = "leaving" THEN "ended" ELSE "select"]
        /\ held' = [held EXCEPT ![p] = Nothing]
        /\ IF proc[p] = "leaving" THEN queue' = [queue EXCEPT ![p] = <<>>] ELSE queue' = queue
        /\ UNCHANGED <<intnw_pids, proc>> /\ CsocketsStay
    BY DEF Adding, ReceiverUpdates, Go, shared, csocket, CsocketsStay, Reading
  <1>2. ProcessTypes /\ ReaderInv(p) /\ QueueInv(p)
    BY DEF Basic, ReadersInv, QueuesInv
  <1>3. held[p] \in Held /\ held[p].pid \in Procs \ {p}
    BY <1>1, <1>2 DEF ProcessTypes, ReaderInv
  <1>4. [pid |-> held[p].pid, fd |-> held[p].fd, sock |-> held[p].sock] \in Entry
    BY <1>3 DEF Held, Entry
  <1>5. /\ table' \in [Procs -> SUBSET Entry] /\ dups' \in [Procs -> SUBSET Csocks]
        /\ \A q \in Procs \ {p} : table'[q] = table[q] /\ dups'[q] = dups[q]
        /\ \A e \in table'[p] : e \in table[p] \/ e.pid = held[p].pid
    <2>1. table \in [Procs -> SUBSET Entry] /\ dups \in [Procs -> SUBSET Csocks]
      BY <1>2 DEF ProcessTypes
    <2>2. CASE held[p].remove
      <3>1. PICK gone, lost : /\ table' = [table EXCEPT ![p] = table[p] \ gone]
                              /\ dups' = [dups EXCEPT ![p] = dups[p] \ lost]
        BY <1>1, <2>2 DEF UpdateTable
      <3> QED
        BY <2>1, <3>1
    <2>3. CASE ~held[p].remove
      <3> DEFINE e1 == [pid |-> held[p].pid, fd |-> held[p].fd, sock |-> held[p].sock]
      <3>1. /\ table' = table \/ table' = [table EXCEPT ![p] = table[p] \cup {e1}]
            /\ dups' = dups
        BY <1>1, <2>3 DEF UpdateTable
      <3>2. e1 \in Entry /\ e1.pid = held[p].pid
        BY <1>4
      <3> HIDE DEF e1
      <3> QED
        BY <2>1, <3>1, <3>2
    <2> QED
      BY <2>2, <2>3
  <1>6. /\ queue' \in [Procs -> Seq(Msgs)] /\ \A q \in Procs \ {p} : queue'[q] = queue[q]
        /\ queue' = queue \/ queue'[p] = <<>>
    BY <1>1, <1>2, QueueEmptied DEF ProcessTypes
  <1>7. /\ thread'[p] = IF proc[p] = "leaving" THEN "ended" ELSE "select"
        /\ held'[p] = Nothing
    BY <1>1, <1>2 DEF ProcessTypes
  <1>8. ProcessTypes'
    BY <1>1, <1>2, <1>5, <1>6, NothingFacts DEF ProcessTypes, ThreadStates
  <1>9. \A q \in Procs \ {p} : ProcessStays(q)
    BY <1>1, <1>2, <1>5, <1>6 DEF ProcessStays, ProcessTypes
  <1>10. ReaderInv(p)'
    <2>1. thread'[p] = "ended" => queue'[p] = <<>>
      BY <1>1, <1>2, <1>7 DEF ProcessTypes
    <2> QED
      BY <1>1, <1>2, <1>7, <2>1, NothingFacts DEF Adding, ReaderInv, Reading
  <1>11. QueueInv(p)'
    <2>1. CASE queue' = queue
      BY <1>1, <1>2, <2>1 DEF QueueInv, CsocketsStay
    <2>2. CASE queue'[p] = <<>>
      BY <2>2 DEF QueueInv
    <2> QED
      BY <1>6, <2>1, <2>2
  <1> QED
    BY <1>1, <1>3, <1>5, <1>8, <1>9, <1>10, <1>11, ProcessMoves DEF Alive

\* The first layer survives the step of a reader.
LEMMA ReaderBasic ==
  ASSUME Basic, NEW p \in Procs, ReaderStep(p)
  PROVE  Basic'
  <1>1. CASE ReceivePacket(p)
    BY <1>1, ReceivePacketBasic
  <1>2. CASE NoticeInterrupt(p)
    BY <1>2, StopReadingBasic DEF NoticeInterrupt
  <1>3. CASE ReceiveDescriptor(p)
    BY <1>3, ReceiveDescriptorBasic
  <1>4. CASE ReceiverAddsPair(p)
    <2>0. PICK there \in {"add", "writelock"} :
                 AddMissingPair(p, thread[p], there) /\ Go(p, there, held[p]) /\ UNCHANGED csocket
      BY <1>4 DEF ReceiverAddsPair
    <2>1. /\ thread[p] \in Adding /\ thread' = [thread EXCEPT ![p] = there]
          /\ held' = [held EXCEPT ![p] = held[p]]
          /\ UNCHANGED <<intnw_pids, proc, table, dups, queue>> /\ CsocketsStay
      BY <2>0 DEF AddMissingPair, Go, csocket, CsocketsStay, Adding
    <2>2. ProcessTypes /\ ReaderInv(p) /\ QueueInv(p)
      BY DEF Basic, ReadersInv, QueuesInv
    <2>3. held' = held /\ thread'[p] \in Adding /\ there \in ThreadStates
          /\ thread'[p] # "ancil_recv_fd" /\ thread'[p] \notin {"none", "ended"}
          /\ thread[p] \notin {"none", "ended"}
      BY <2>1, <2>2 DEF ProcessTypes, Adding, Reading, ThreadStates
    <2>4. ProcessTypes'
      BY <2>1, <2>2, <2>3 DEF ProcessTypes
    <2>5. \A q \in Procs \ {p} : ProcessStays(q)
      BY <2>1, <2>2, <2>3 DEF ProcessStays, ProcessTypes
    <2>6. ReaderInv(p)'
      BY <2>1, <2>2, <2>3 DEF ReaderInv, Reading
    <2>7. QueueInv(p)'
      BY <2>1, <2>2 DEF QueueInv, CsocketsStay
    <2> QED
      BY <2>1, <2>4, <2>5, <2>6, <2>7, ProcessMoves DEF Alive
  <1>5. CASE ReceiverUpdates(p)
    BY <1>5, ReceiverUpdatesBasic
  <1> QED
    BY <1>1, <1>2, <1>3, <1>4, <1>5 DEF ReaderStep

\* A step of a process that touches neither its table nor its thread.
Quiet(p) ==
    /\ UNCHANGED <<thread, held, queue, table, dups, mixed>> /\ CsocketsStay
    /\ \/ UNCHANGED <<proc, intnw_pids>>
       \/ /\ proc[p] = "joined" /\ proc' = [proc EXCEPT ![p] = "up"]
          /\ thread[p] # "none" /\ intnw_pids' = intnw_pids
       \/ /\ proc[p] = "none" /\ proc' = [proc EXCEPT ![p] = "joined"]
          /\ intnw_pids' = intnw_pids \cup {p}

\* Joining, and adding or removing the pair in shared memory, are quiet.
LEMMA QuietSteps ==
  ASSUME NEW p,
         \/ Join(p) \/ InitMap(p) \/ AddIfacePair(p) \/ AddIfacePairLocally(p)
         \/ RemoveIfacePair(p)
  PROVE  Quiet(p)
  BY DEF Quiet, CsocketsStay, csocket, reader, local, shared, bounds,
         Join, InitMap, AddIfacePair, AddIfacePairLocally, RemoveIfacePair

\* The first layer survives a quiet step.
LEMMA QuietBasic ==
  ASSUME Basic, NEW p \in Procs, Quiet(p)
  PROVE  Basic'
  <1>1. ProcessTypes /\ ReaderInv(p) /\ QueueInv(p)
    BY DEF Basic, ReadersInv, QueuesInv
  <1>2. ProcessTypes'
    BY <1>1 DEF ProcessTypes, Quiet
  <1>3. \A q \in Procs \ {p} : ProcessStays(q)
    BY <1>1 DEF ProcessStays, ProcessTypes, Quiet
  <1>4. proc'[p] = proc[p] \/ (proc[p] = "joined" /\ proc'[p] = "up") \/ proc'[p] = "joined"
    BY <1>1 DEF ProcessTypes, Quiet
  <1>5. ReaderInv(p)'
    BY <1>1, <1>4 DEF ReaderInv, Quiet
  <1>6. QueueInv(p)'
    BY <1>1 DEF QueueInv, Quiet, CsocketsStay
  <1>7. Alive(p) => Alive(p)'
    BY <1>4 DEF Alive
  <1> QED
    BY <1>2, <1>3, <1>4, <1>5, <1>6, <1>7, ProcessMoves DEF Quiet

\* The first layer survives BindSocket.
LEMMA BindSocketBasic ==
  ASSUME Basic, NEW p \in Procs, BindSocket(p)
  PROVE  Basic'
  <1>1. /\ proc[p] = "joined" /\ thread[p] = "none" /\ thread' = [thread EXCEPT ![p] = "select"]
        /\ UNCHANGED <<proc, held, queue, table, dups, intnw_pids>> /\ CsocketsStay
    BY DEF BindSocket, local, csocket, shared, CsocketsStay
  <1>2. ProcessTypes /\ ReaderInv(p) /\ QueueInv(p)
    BY DEF Basic, ReadersInv, QueuesInv
  <1>3. ProcessTypes'
    BY <1>1, <1>2 DEF ProcessTypes, ThreadStates
  <1>4. \A q \in Procs \ {p} : ProcessStays(q)
    BY <1>1, <1>2 DEF ProcessStays, ProcessTypes
  <1>5. ReaderInv(p)'
    BY <1>1, <1>2 DEF Adding, ReaderInv, Reading, ProcessTypes
  <1>6. QueueInv(p)'
    BY <1>1, <1>2 DEF QueueInv, CsocketsStay
  <1> QED
    BY <1>1, <1>3, <1>4, <1>5, <1>6, ProcessMoves DEF Alive

\* The first layer survives RemoveIfacePairLocally.
LEMMA RemovePairBasic ==
  ASSUME Basic, NEW p \in Procs, RemoveIfacePairLocally(p)
  PROVE  Basic'
  <1>1. /\ table' = [table EXCEPT ![p] = {}]
        /\ dups' = [dups EXCEPT ![p] = dups[p] \ Others(p, table[p])]
        /\ UNCHANGED <<proc, thread, held, queue, intnw_pids>> /\ CsocketsStay
    BY DEF RemoveIfacePairLocally, reader, csocket, shared, CsocketsStay
  <1>2. ProcessTypes /\ ReaderInv(p) /\ QueueInv(p)
    BY DEF Basic, ReadersInv, QueuesInv
  <1>3. ProcessTypes'
    BY <1>1, <1>2 DEF ProcessTypes
  <1>4. \A q \in Procs \ {p} : ProcessStays(q)
    BY <1>1, <1>2 DEF ProcessStays, ProcessTypes
  <1>5. ReaderInv(p)'
    BY <1>1, <1>2 DEF ReaderInv, ProcessTypes
  <1>6. QueueInv(p)'
    BY <1>1, <1>2 DEF QueueInv, CsocketsStay
  <1> QED
    BY <1>1, <1>3, <1>4, <1>5, <1>6, ProcessMoves DEF Alive

\* The first layer survives Deinit: an interrupt is neither packet nor
\* descriptor.
LEMMA DeinitBasic ==
  ASSUME Basic, NEW p \in Procs, Deinit(p)
  PROVE  Basic'
  <1>1. /\ proc[p] = "up" /\ proc' = [proc EXCEPT ![p] = "leaving"]
        /\ IF Bound(p) THEN queue' = [queue EXCEPT ![p] = Append(queue[p], Interrupt)]
                       ELSE queue' = queue
        /\ UNCHANGED <<thread, held, table, dups, intnw_pids>> /\ CsocketsStay
    BY DEF Deinit, reader, local, csocket, shared, CsocketsStay
  <1>2. ProcessTypes /\ ReaderInv(p) /\ QueueInv(p)
    BY DEF Basic, ReadersInv, QueuesInv
  <1>3. /\ queue' \in [Procs -> Seq(Msgs)] /\ \A q \in Procs \ {p} : queue'[q] = queue[q]
        /\ ~Bound(p) => queue' = queue
    BY <1>1, <1>2, QueueGrows, MsgFacts DEF ProcessTypes
  <1>4. ProcessTypes'
    BY <1>1, <1>2, <1>3 DEF ProcessTypes
  <1>5. \A q \in Procs \ {p} : ProcessStays(q)
    BY <1>1, <1>2, <1>3 DEF ProcessStays, ProcessTypes
  <1>6. ReaderInv(p)'
    BY <1>1, <1>2, <1>3 DEF ReaderInv, ProcessTypes, Bound
  <1>7. QueueInv(p)'
    <2>1. CASE queue' = queue
      BY <1>1, <1>2, <2>1 DEF QueueInv, CsocketsStay
    <2>2. CASE queue' = [queue EXCEPT ![p] = Append(queue[p], Interrupt)]
      <3> SUFFICES ASSUME NEW i \in DOMAIN queue'[p]
                   PROVE  /\ IsPacket(queue'[p][i]) => queue'[p][i].pid # p
                          /\ IsDesc(queue'[p][i]) => /\ at[queue'[p][i].sock] # "none"
                                                     /\ owner[queue'[p][i].sock] # p
        BY <1>1 DEF QueueInv, IsPacket, IsDesc, CsocketsStay
      <3>1. CASE i = Len(queue[p]) + 1
        BY <2>2, <3>1, QueueGrows, MsgFacts
      <3>2. CASE i # Len(queue[p]) + 1
        <4>1. i \in DOMAIN queue[p] /\ queue'[p][i] = queue[p][i]
          BY <2>2, <3>2, QueueGrows, MsgFacts
        <4> QED
          BY <1>2, <4>1 DEF QueueInv
      <3> QED
        BY <3>1, <3>2
    <2> QED
      BY <1>1, <2>1, <2>2
  <1> QED
    BY <1>1, <1>2, <1>4, <1>5, <1>6, <1>7, ProcessMoves DEF Alive, ProcessTypes

\* What the end of process p does to a csocket.
LEMMA EndMoves ==
  ASSUME Basic, NEW p \in Procs, End(p)
  PROVE  /\ owner' = owner /\ fd' = fd /\ mixed' = mixed
         /\ SenderTypes'
         /\ \A s \in Csocks :
                IF owner[s] = p
                THEN at'[s] = "closed" /\ todo'[s] = {} /\ failed'[s] = {} /\ removing'[s]
                ELSE /\ at'[s] = at[s] /\ removing'[s] = removing[s]
                     /\ todo'[s] = todo[s] /\ failed'[s] = failed[s]
         /\ \A q \in Procs \ {p} : ProcessStays(q)
         /\ proc'[p] = "gone" /\ thread'[p] = "ended" /\ held'[p] = Nothing
         /\ table'[p] = {} /\ dups'[p] = {} /\ queue'[p] = <<>> /\ DOMAIN queue'[p] = {}
         /\ Len(queue'[p]) = 0
  <1>1. SenderTypes /\ ProcessTypes
    BY DEF Basic
  <1>2. owner' = owner /\ fd' = fd /\ mixed' = mixed
    BY DEF End
  <1>3. SenderTypes'
    BY <1>1 DEF End, SenderTypes, AtStates
  <1>4. \A s \in Csocks :
            IF owner[s] = p
            THEN at'[s] = "closed" /\ todo'[s] = {} /\ failed'[s] = {} /\ removing'[s]
            ELSE /\ at'[s] = at[s] /\ removing'[s] = removing[s]
                 /\ todo'[s] = todo[s] /\ failed'[s] = failed[s]
    BY <1>1 DEF End, SenderTypes
  <1>5. queue' = [queue EXCEPT ![p] = <<>>]
    BY DEF End
  <1>6. \A q \in Procs \ {p} : ProcessStays(q)
    BY <1>1, <1>5, QueueEmptied DEF End, ProcessTypes, ProcessStays
  <1>7. /\ proc'[p] = "gone" /\ thread'[p] = "ended" /\ held'[p] = Nothing
        /\ table'[p] = {} /\ dups'[p] = {}
    BY <1>1 DEF End, ProcessTypes
  <1> QED
    BY <1>2, <1>3, <1>4, <1>5, <1>6, <1>7, QueueEmptied

\* The first layer survives the end of a process, orderly or not.
LEMMA EndBasic ==
  ASSUME Basic, NEW p \in Procs, End(p), intnw_pids' \subseteq intnw_pids
  PROVE  Basic'
  <1>1. SenderTypes'
    BY EndMoves
  <1>2. ProcessTypes'
    <2>1. queue' \in [Procs -> Seq(Msgs)]
      BY QueueEmptied DEF End
    <2> QED
      BY <2>1, NothingFacts DEF End, Basic, ProcessTypes, ThreadStates
  <1>3. SendersInv'
    <2> SUFFICES ASSUME NEW s \in Csocks
                 PROVE  /\ at'[s] # "none" => owner'[s] \in Procs /\ proc'[owner'[s]] # "none"
                        /\ IsOpen(s)' => Alive(owner[s])'
                        /\ at'[s] \notin Sending => todo'[s] = {} /\ failed'[s] = {}
                        /\ at'[s] \in Writing => todo'[s] # {}
                        /\ at'[s] = "descriptor" => ~removing'[s]
                        /\ owner'[s] \notin todo'[s]
      BY DEF SendersInv
    <2>1. CASE owner[s] = p
      BY <2>1, EndMoves DEF IsOpen, Writing
    <2>2. CASE owner[s] # p
      <3>1. /\ owner'[s] = owner[s] /\ at'[s] = at[s] /\ removing'[s] = removing[s]
            /\ todo'[s] = todo[s] /\ failed'[s] = failed[s]
        BY <2>2, EndMoves
      <3>2. owner[s] \in Procs => proc'[owner[s]] = proc[owner[s]]
        BY <2>2, EndMoves DEF ProcessStays
      <3> QED
        BY <3>1, <3>2 DEF Basic, SendersInv, IsOpen, Alive
    <2> QED
      BY <2>1, <2>2
  <1>4. Exclusive'
    <2>1. \A s \in Csocks : /\ at'[s] = at[s] \/ at'[s] = "closed"
                            /\ owner'[s] = owner[s] /\ fd'[s] = fd[s]
      BY EndMoves
    <2> QED
      BY <2>1 DEF Basic, Exclusive, IsOpen, SameKey, Writing
  <1>5. ReadersInv'
    <2> SUFFICES ASSUME NEW q \in Procs PROVE ReaderInv(q)'
      BY DEF ReadersInv
    <2>1. CASE q = p
      BY <2>1, EndMoves, NothingFacts DEF Adding, ReaderInv, Reading
    <2>2. CASE q # p
      <3>1. ProcessStays(q)
        BY <2>2, EndMoves
      <3> QED
        BY <3>1 DEF ReaderInv, ProcessStays, Basic, ReadersInv
    <2> QED
      BY <2>1, <2>2
  <1>6. QueuesInv'
    <2> SUFFICES ASSUME NEW q \in Procs, NEW i \in DOMAIN queue'[q]
                 PROVE  /\ IsPacket(queue'[q][i]) => queue'[q][i].pid # q
                        /\ IsDesc(queue'[q][i]) => /\ at'[queue'[q][i].sock] # "none"
                                                   /\ owner'[queue'[q][i].sock] # q
      BY DEF QueuesInv, QueueInv, IsPacket, IsDesc
    <2>1. q # p
      BY EndMoves
    <2>2. queue'[q] = queue[q]
      BY <2>1, EndMoves DEF ProcessStays
    <2>3. queue[q][i] \in Msgs /\ i \in DOMAIN queue[q]
      BY <2>2 DEF Basic, ProcessTypes
    <2>4. \A s \in Csocks : at[s] # "none" => at'[s] # "none" /\ owner'[s] = owner[s]
      BY EndMoves
    <2>5. /\ IsPacket(queue[q][i]) => queue[q][i].pid # q
          /\ IsDesc(queue[q][i]) => /\ queue[q][i].sock \in Csocks
                                    /\ at[queue[q][i].sock] # "none" /\ owner[queue[q][i].sock] # q
      BY <2>3, MsgFacts DEF Basic, QueuesInv, QueueInv
    <2> QED
      BY <2>2, <2>4, <2>5
  <1> QED
    BY <1>1, <1>2, <1>3, <1>4, <1>5, <1>6 DEF Basic

\* The first layer survives the step of an application.
LEMMA AppBasic ==
  ASSUME Basic, NEW p \in Procs, AppStep(p)
  PROVE  Basic'
  <1>1. CASE Leave(p) \/ Crash(p)
    <2>1. End(p) /\ intnw_pids' \subseteq intnw_pids
      BY <1>1 DEF Leave, Crash
    <2> QED
      BY <2>1, EndBasic
  <1> QED
    BY <1>1, QuietSteps, QuietBasic, BindSocketBasic, RemovePairBasic, DeinitBasic DEF AppStep

\* The first layer holds at the start.
LEMMA InitBasic == Init => Basic
  <1> SUFFICES ASSUME Init PROVE Basic
    OBVIOUS
  <1>1. SenderTypes
    BY DEF Init, SenderTypes, AtStates, Numbers
  <1>2. ProcessTypes
    BY NothingFacts, EmptyFacts, ForegroundAssumption DEF Init, ProcessTypes, ThreadStates
  <1>3. SendersInv /\ Exclusive
    BY DEF Init, SendersInv, Exclusive, IsOpen, Sending, Writing
  <1>4. ReadersInv
    BY NothingFacts DEF Adding, Init, ReadersInv, ReaderInv, Reading
  <1>5. QueuesInv
    BY DEF Init, QueuesInv, QueueInv
  <1> QED
    BY <1>1, <1>2, <1>3, <1>4, <1>5 DEF Basic

\* The first layer is inductive.
LEMMA BasicNext ==
  ASSUME Basic, Next, ~clashed'
  PROVE  Basic'
  BY AppBasic, ReaderBasic, CsocketBasic DEF Next, Apps

-----------------------------------------------------------------------------
\* Second layer.

\* No csocket starts to send process p a descriptor.
Settled(p) ==
    \A s \in Csocks :
        /\ at[s] # "none" => at'[s] # "none" /\ owner'[s] = owner[s] /\ fd'[s] = fd[s]
        /\ at'[s] = "descriptor" /\ Target(s)' = p => at[s] = "descriptor" /\ Target(s) = p

\* What the first layer says about one queue.
LEMMA QueueTypes ==
  ASSUME Basic, NEW p \in Procs
  PROVE  /\ Len(queue[p]) \in Nat /\ DOMAIN queue[p] = 1 .. Len(queue[p])
         /\ \A i \in 1 .. Len(queue[p]) :
                /\ queue[p][i] \in Msgs
                /\ IsPacket(queue[p][i]) => ~IsDesc(queue[p][i]) /\ queue[p][i].pid # p
                /\ IsDesc(queue[p][i]) => /\ queue[p][i].sock \in Csocks
                                          /\ at[queue[p][i].sock] # "none"
                                          /\ owner[queue[p][i].sock] # p
  <1>1. queue[p] \in Seq(Msgs)
    BY DEF Basic, ProcessTypes
  <1>2. Len(queue[p]) \in Nat /\ DOMAIN queue[p] = 1 .. Len(queue[p])
    BY <1>1
  <1>3. ASSUME NEW i \in 1 .. Len(queue[p])
        PROVE  /\ queue[p][i] \in Msgs
               /\ IsPacket(queue[p][i]) => queue[p][i].pid # p
               /\ IsDesc(queue[p][i]) => /\ at[queue[p][i].sock] # "none"
                                         /\ owner[queue[p][i].sock] # p
    BY <1>1, <1>2 DEF Basic, QueuesInv, QueueInv
  <1> QED
    BY <1>2, <1>3, MsgFacts

\* A step that leaves the queue of p alone and does not let go of a packet.
LEMMA PairsKept ==
  ASSUME Basic, NEW p \in Procs, PairsInv(p), Settled(p), queue'[p] = queue[p],
         thread[p] = "none" => thread'[p] \in {"none", "select"},
         thread[p] # "none" => thread'[p] # "none",
         thread[p] = "ended" => thread'[p] = "ended",
         \/ thread'[p] = thread[p] /\ held'[p] = held[p]
         \/ thread[p] # "ancil_recv_fd" /\ thread'[p] # "ancil_recv_fd",
         HeldInv(p)'
  PROVE  PairsInv(p)'
  <1>1. /\ Len(queue[p]) \in Nat
        /\ \A i \in 1 .. Len(queue[p]) : IsDesc(queue[p][i]) =>
              queue[p][i].sock \in Csocks /\ at[queue[p][i].sock] # "none"
    BY QueueTypes
  <1>2. \A i \in 0 .. Len(queue[p]) : AddAt(p, i)' <=> AddAt(p, i)
    BY DEF AddAt
  <1>3. \A s \in Csocks : \A i \in 0 .. Len(queue[p]) :
            at[s] # "none" => (AddOf(p, i, s)' <=> AddOf(p, i, s))
    BY <1>2 DEF AddOf, AddAt, Settled
  <1>4. \A i \in 0 .. Len(queue[p]) : Spoilt(p, i)' <=> Spoilt(p, i)
    <2> SUFFICES ASSUME NEW i \in 0 .. Len(queue[p]) PROVE Spoilt(p, i)' <=> Spoilt(p, i)
      OBVIOUS
    <2>1. \A j \in 0 .. Len(queue[p]) - 1 : AddAt(p, j)' <=> AddAt(p, j)
      BY <1>1, <1>2
    <2> QED
      BY <2>1 DEF Spoilt, IsDesc
  <1>5. Paired(p)'
    <2> SUFFICES ASSUME NEW i \in 0 .. Len(queue[p]) - 1, IsDesc(queue[p][i + 1])
                 PROVE  AddOf(p, i, queue[p][i + 1].sock)' \/ Spoilt(p, i)'
      BY DEF Paired, IsDesc
    <2> DEFINE s == queue[p][i + 1].sock
    <2>1. s \in Csocks /\ at[s] # "none" /\ i \in 0 .. Len(queue[p])
      BY <1>1
    <2>2. AddOf(p, i, s) \/ Spoilt(p, i)
      BY DEF PairsInv, Paired
    <2>3. AddOf(p, i, s)' <=> AddOf(p, i, queue[p][i + 1].sock)'
      OBVIOUS
    <2> QED
      BY <1>3, <1>4, <2>1, <2>2
  <1>6. HalfSent(p)'
    <2> SUFFICES ASSUME NEW s \in Csocks, at'[s] = "descriptor", Target(s)' = p
                 PROVE  \/ thread'[p] = "ended"
                        \/ /\ thread'[p] # "none"
                           /\ AddOf(p, Len(queue[p]), s)' \/ Spoilt(p, Len(queue[p]))'
      BY DEF HalfSent
    <2>1. at[s] = "descriptor" /\ Target(s) = p
      BY DEF Settled
    <2>2. \/ thread[p] = "ended"
          \/ thread[p] # "none" /\ (AddOf(p, Len(queue[p]), s) \/ Spoilt(p, Len(queue[p])))
      BY <2>1 DEF PairsInv, HalfSent
    <2>3. Len(queue[p]) \in 0 .. Len(queue[p])
      BY <1>1
    <2>4. AddOf(p, Len(queue[p]), s)' <=> AddOf(p, Len(queue[p]), s)
      BY <1>2, <2>1, <2>3 DEF AddOf, AddAt, Settled
    <2>5. Spoilt(p, Len(queue[p]))' <=> Spoilt(p, Len(queue[p]))
      <3>1. \A j \in 0 .. Len(queue[p]) - 1 : AddAt(p, j)' <=> AddAt(p, j)
        BY <1>1, <1>2
      <3> QED
        BY <3>1 DEF Spoilt, IsDesc
    <2> QED
      BY <2>2, <2>4, <2>5
  <1> QED
    BY <1>5, <1>6 DEF PairsInv

\* A datagram for p: it has its packet before it if it is a descriptor, and what
\* follows a packet that waits for its descriptor spoils the queue.
LEMMA PairsGrow ==
  ASSUME Basic, NEW p \in Procs, PairsInv(p), NEW m \in Msgs, Bound(p),
         NEW n \in Nat, n = Len(queue[p]),
         queue' = [queue EXCEPT ![p] = Append(queue[p], m)],
         thread'[p] = thread[p], held'[p] = held[p],
         \A s \in Csocks : at[s] # "none" =>
             at'[s] # "none" /\ owner'[s] = owner[s] /\ fd'[s] = fd[s],
         IsDesc(m) => /\ m.sock \in Csocks /\ at[m.sock] # "none"
                      /\ AddOf(p, n, m.sock) \/ Spoilt(p, n),
         \A s \in Csocks : at'[s] = "descriptor" /\ Target(s)' = p =>
             \/ AddOf(p, n + 1, s)'
             \/ /\ at[s] = "descriptor" /\ Target(s) = p
                /\ IsDesc(m) /\ AddOf(p, n, s) => Spoilt(p, n)
  PROVE  PairsInv(p)'
  <1>1. /\ n \in Nat /\ Len(queue'[p]) = n + 1
        /\ \A i \in 1 .. n : queue'[p][i] = queue[p][i]
        /\ queue'[p][n + 1] = m
    BY QueueGrows
  <1>2. \A i \in 1 .. n : IsDesc(queue[p][i]) =>
            queue[p][i].sock \in Csocks /\ at[queue[p][i].sock] # "none"
    BY QueueTypes
  <1>3. \A i \in 0 .. n : AddAt(p, i)' <=> AddAt(p, i)
    BY <1>1 DEF AddAt
  <1>4. \A s \in Csocks : \A i \in 0 .. n : at[s] # "none" => (AddOf(p, i, s)' <=> AddOf(p, i, s))
    BY <1>1, <1>3 DEF AddOf
  <1>5. ASSUME NEW i \in 0 .. n + 1, NEW k \in 0 .. n, k <= i, Spoilt(p, k)
        PROVE  Spoilt(p, i)'
    <2>1. PICK j \in 0 .. n - 1 : j < k /\ AddAt(p, j) /\ ~IsDesc(queue[p][j + 1])
      BY <1>5 DEF Spoilt
    <2>2. j \in 0 .. n /\ j + 1 \in 1 .. n /\ j < i
      BY <1>1, <1>5, <2>1
    <2>3. AddAt(p, j)' /\ queue'[p][j + 1] = queue[p][j + 1]
      BY <1>1, <1>3, <2>1, <2>2
    <2>4. j \in 0 .. Len(queue'[p]) - 1
      BY <1>1, <2>1
    <2> QED
      BY <2>1, <2>2, <2>3, <2>4 DEF Spoilt, IsDesc
  <1>6. Paired(p)'
    <2> SUFFICES ASSUME NEW i \in 0 .. n, IsDesc(queue'[p][i + 1])
                 PROVE  AddOf(p, i, queue[p][i + 1].sock)' \/ Spoilt(p, i)'
      <3>1. 0 .. Len(queue'[p]) - 1 = 0 .. n
        BY <1>1
      <3> QED
        BY <3>1 DEF Paired, IsDesc
    <2> DEFINE s == queue'[p][i + 1].sock
    <2>1. s \in Csocks /\ at[s] # "none" /\ (AddOf(p, i, s) \/ Spoilt(p, i))
      <3>1. CASE i = n
        BY <1>1, <3>1
      <3>2. CASE i # n
        <4>1. i + 1 \in 1 .. n /\ i \in 0 .. n - 1 /\ queue'[p][i + 1] = queue[p][i + 1]
          BY <1>1, <3>2
        <4> QED
          BY <1>2, <4>1 DEF PairsInv, Paired
      <3> QED
        BY <3>1, <3>2
    <2>2. AddOf(p, i, queue[p][i + 1].sock)' <=>
             /\ AddAt(p, i)'
             /\ IF i = 0 THEN held'[p].pid = owner'[s] /\ held'[p].fd = fd'[s]
                ELSE queue'[p][i].pid = owner'[s] /\ queue'[p][i].fd = fd'[s]
      BY DEF AddOf
    <2>3. AddOf(p, i, s) => AddOf(p, i, queue[p][i + 1].sock)'
      <3> HIDE DEF s
      <3>1. owner'[s] = owner[s] /\ fd'[s] = fd[s] /\ (AddAt(p, i)' <=> AddAt(p, i))
        BY <1>3, <2>1
      <3>2. i # 0 => queue'[p][i] = queue[p][i]
        BY <1>1
      <3> QED
        BY <2>2, <3>1, <3>2 DEF AddOf
    <2> QED
      BY <1>1, <1>5, <2>1, <2>3
  <1>7. HalfSent(p)'
    <2> SUFFICES ASSUME NEW s \in Csocks, at'[s] = "descriptor", Target(s)' = p
                 PROVE  AddOf(p, n + 1, s)' \/ Spoilt(p, n + 1)'
      <3>1. thread'[p] # "none" /\ Len(queue'[p]) = n + 1
        BY <1>1 DEF Bound
      <3> QED
        BY <3>1 DEF HalfSent
    <2>1. CASE AddOf(p, n + 1, s)'
      BY <2>1
    <2>2. CASE /\ at[s] = "descriptor" /\ Target(s) = p
               /\ IsDesc(m) /\ AddOf(p, n, s) => Spoilt(p, n)
      <3>1. AddOf(p, n, s) \/ Spoilt(p, n)
        BY <2>2 DEF PairsInv, HalfSent, Bound
      <3>2. n \in 0 .. n /\ n + 1 \in 0 .. n + 1 /\ n <= n + 1
        BY <1>1
      <3>3. CASE Spoilt(p, n)
        BY <1>5, <3>2, <3>3
      <3>4. CASE AddOf(p, n, s) /\ ~IsDesc(m)
        <4>1. AddAt(p, n)'
          BY <1>3, <3>2, <3>4 DEF AddOf
        <4>2. n \in 0 .. Len(queue'[p]) - 1 /\ n < n + 1 /\ ~IsDesc(queue'[p][n + 1])
          BY <1>1, <3>4
        <4> QED
          BY <4>1, <4>2 DEF Spoilt, IsDesc
      <3> QED
        BY <2>2, <3>1, <3>3, <3>4
    <2> QED
      BY <2>1, <2>2
  <1>8. HeldInv(p)'
    BY DEF PairsInv, HeldInv, Of
  <1> QED
    BY <1>6, <1>7, <1>8 DEF PairsInv

\* The thread of p takes the first datagram: every place moves down by one.
LEMMA PairsShift ==
  ASSUME Basic, NEW p \in Procs, PairsInv(p), CsocketsStay,
         queue[p] # <<>>, queue' = [queue EXCEPT ![p] = Tail(queue[p])],
         thread'[p] # "none",
         AddAt(p, 0)' <=> AddAt(p, 1),
         \A s \in Csocks : AddOf(p, 0, s)' <=> AddOf(p, 1, s),
         AddAt(p, 0) => IsDesc(queue[p][1]),
         HeldInv(p)'
  PROVE  PairsInv(p)'
  <1> DEFINE N == Len(queue[p])
  <1>1. /\ N \in Nat \ {0} /\ Len(queue'[p]) = N - 1
        /\ \A i \in 1 .. N - 1 : queue'[p][i] = queue[p][i + 1]
    BY QueueShrinks, Zenon
  <1>2. \A i \in 1 .. N : IsDesc(queue[p][i]) => queue[p][i].sock \in Csocks
    BY QueueTypes
  <1>3. thread[p] # "ended"
    BY DEF Basic, ReadersInv, ReaderInv
  <1>4. ASSUME NEW n, n = N PROVE PairsInv(p)'
    <2>1. /\ n \in Nat \ {0} /\ Len(queue[p]) = n /\ Len(queue'[p]) = n - 1
          /\ \A i \in 1 .. n - 1 : queue'[p][i] = queue[p][i + 1]
      BY <1>1, <1>4
    <2> HIDE DEF N
    <2>2. ASSUME NEW i \in 0 .. n - 1 PROVE AddAt(p, i)' <=> AddAt(p, i + 1)
      <3>1. CASE i = 0
        BY <3>1
      <3>2. CASE i # 0
        <4>1. i \in 1 .. n - 1 /\ i + 1 # 0
          BY <2>1, <3>2
        <4>2. queue'[p][i] = queue[p][i + 1]
          BY <2>1, <4>1
        <4> QED
          BY <3>2, <4>1, <4>2 DEF AddAt, IsPacket
      <3> QED
        BY <3>1, <3>2
    <2>3. ASSUME NEW s \in Csocks, NEW i \in 0 .. n - 1
          PROVE  AddOf(p, i, s)' <=> AddOf(p, i + 1, s)
      <3>1. CASE i = 0
        BY <3>1
      <3>2. CASE i # 0
        <4>1. i \in 1 .. n - 1 /\ i + 1 # 0
          BY <2>1, <3>2
        <4>2. queue'[p][i] = queue[p][i + 1] /\ owner' = owner /\ fd' = fd
          BY <2>1, <4>1 DEF CsocketsStay
        <4> QED
          BY <2>2, <3>2, <4>1, <4>2 DEF AddOf
      <3> QED
        BY <3>1, <3>2
    <2>4. ASSUME NEW i \in 0 .. n - 1, Spoilt(p, i + 1) PROVE Spoilt(p, i)'
      <3>1. PICK j \in 0 .. n - 1 : j < i + 1 /\ AddAt(p, j) /\ ~IsDesc(queue[p][j + 1])
        BY <2>1, <2>4 DEF Spoilt
      <3>2. j # 0
        BY <3>1
      <3>3. j - 1 \in 0 .. (n - 1) - 1 /\ j - 1 < i /\ j \in 1 .. n - 1 /\ (j - 1) + 1 = j /\ j - 1 \in 0 .. n - 1
        BY <2>1, <3>1, <3>2
      <3>4. AddAt(p, j - 1)'
        <4>1. AddAt(p, (j - 1) + 1)
          BY <3>1, <3>3
        <4> QED
          BY <2>2, <3>3, <4>1
      <3>5. ~IsDesc(queue'[p][(j - 1) + 1])
        BY <2>1, <3>1, <3>3
      <3>6. j - 1 \in 0 .. Len(queue'[p]) - 1
        BY <2>1, <3>3
      <3> QED
        BY <3>3, <3>4, <3>5, <3>6 DEF Spoilt, IsDesc
    <2>5. Paired(p)'
      <3> SUFFICES ASSUME NEW i \in 0 .. (n - 1) - 1, IsDesc(queue'[p][i + 1])
                   PROVE  AddOf(p, i, queue[p][i + 1].sock)' \/ Spoilt(p, i)'
        BY <2>1 DEF Paired, IsDesc
      <3> DEFINE s == queue'[p][i + 1].sock
      <3>1. i \in 0 .. n - 1 /\ i + 1 \in 0 .. n - 1 /\ i + 1 \in 1 .. n - 1 /\ (i + 1) + 1 \in 1 .. n
        BY <2>1
      <3>2. queue'[p][i + 1] = queue[p][(i + 1) + 1]
        BY <2>1, <3>1
      <3>3. s \in Csocks /\ (AddOf(p, i + 1, s) \/ Spoilt(p, i + 1))
        BY <1>2, <1>4, <2>1, <3>1, <3>2 DEF PairsInv, Paired
      <3>4. AddOf(p, i, queue[p][i + 1].sock)' <=>
               /\ AddAt(p, i)'
               /\ IF i = 0 THEN held'[p].pid = owner'[s] /\ held'[p].fd = fd'[s]
                  ELSE queue'[p][i].pid = owner'[s] /\ queue'[p][i].fd = fd'[s]
        BY DEF AddOf
      <3>5. AddOf(p, i + 1, s) => AddOf(p, i, queue[p][i + 1].sock)'
        <4>1. PICK s1 \in Csocks : s1 = s
          BY <3>3
        <4>2. AddOf(p, i, s1)' <=> AddOf(p, i + 1, s1)
          BY <2>3, <3>1
        <4>3. AddOf(p, i, s1)' <=>
                 /\ AddAt(p, i)'
                 /\ IF i = 0 THEN held'[p].pid = owner'[s1] /\ held'[p].fd = fd'[s1]
                    ELSE queue'[p][i].pid = owner'[s1] /\ queue'[p][i].fd = fd'[s1]
          BY DEF AddOf
        <4> HIDE DEF s
        <4> QED
          BY <3>4, <4>1, <4>2, <4>3
      <3> QED
        BY <2>4, <3>1, <3>3, <3>5
    <2>6. HalfSent(p)'
      <3> SUFFICES ASSUME NEW s \in Csocks, at'[s] = "descriptor", Target(s)' = p
                   PROVE  AddOf(p, n - 1, s)' \/ Spoilt(p, n - 1)'
        BY <2>1 DEF HalfSent
      <3>1. at[s] = "descriptor" /\ Target(s) = p
        BY DEF CsocketsStay, Target
      <3>2. AddOf(p, n, s) \/ Spoilt(p, n)
        BY <1>3, <2>1, <3>1 DEF PairsInv, HalfSent
      <3>3. n - 1 \in 0 .. n - 1 /\ (n - 1) + 1 = n
        BY <2>1
      <3>4. AddOf(p, (n - 1) + 1, s) \/ Spoilt(p, (n - 1) + 1)
        BY <3>2, <3>3
      <3> QED
        BY <2>3, <2>4, <3>3, <3>4
    <2> QED
      BY <2>5, <2>6 DEF PairsInv
  <1> QED
    BY <1>4

\* A csocket has a descriptor left to send only after its packet.
LEMMA CsocketHalfSends ==
  ASSUME Basic, NEW s \in Csocks, CsocketStep(s), at'[s] = "descriptor"
  PROVE  /\ SendPacket(s) /\ Sends(s, Packet(s)) /\ ~removing[s]
         /\ todo' = todo /\ Target(s)' = Target(s)
  <1>1. at \in [Csocks -> AtStates]
    BY DEF Basic, SenderTypes
  <1>2. ASSUME ~SendPacket(s) PROVE FALSE
    <2>1. ASSUME NEW p \in Apps, NEW number \in Fds PROVE ~Socket(p, s, number)
      BY <1>1 DEF Socket, Place
    <2>2. ~SendDescriptor(s)
      BY <1>1 DEF SendDescriptor, Refused, Sent, Place
    <2>3. ~RemoveFailed(s)
      BY <1>1 DEF RemoveFailed, Place
    <2> QED
      BY <1>1, <1>2, <2>1, <2>2, <2>3
         DEF CsocketStep, Destroy, CsocketAddsPair, CsocketUpdates, CopyTargets, LockToSend, Place
  <1>3. SendPacket(s)
    BY <1>2
  <1>4. Sends(s, Packet(s)) /\ ~removing[s] /\ todo' = todo
    BY <1>1, <1>3 DEF SendPacket, Refused, Put, Sent, Place, Sends, Writing
  <1> QED
    BY <1>3, <1>4 DEF Target

\* A csocket that is there keeps its process and its number.
LEMMA CsocketsRemain ==
  ASSUME Basic, NEW s \in Csocks, CsocketStep(s)
  PROVE  \A s1 \in Csocks : at[s1] # "none" =>
             at'[s1] # "none" /\ owner'[s1] = owner[s1] /\ fd'[s1] = fd[s1]
  BY CsocketMoves DEF OthersStay

\* Processes that do not get a datagram.
LEMMA CsocketPairsElsewhere ==
  ASSUME Basic, NEW s \in Csocks, CsocketStep(s),
         NEW p \in Procs, PairsInv(p), queue'[p] = queue[p]
  PROVE  PairsInv(p)'
  <1>1. Settled(p)
    <2> SUFFICES ASSUME NEW s1 \in Csocks, at'[s1] = "descriptor", Target(s1)' = p
                 PROVE  at[s1] = "descriptor" /\ Target(s1) = p
      BY CsocketsRemain DEF Settled
    <2>1. CASE s1 # s
      BY <2>1, CsocketMoves DEF OthersStay, Target
    <2>2. CASE s1 = s
      <3>1. Sends(s, Packet(s)) /\ Target(s) = p
        BY <2>2, CsocketHalfSends
      <3>2. at[s] \in Writing /\ at[s] # "none" /\ queue' = [queue EXCEPT ![p] = Append(queue[p], Packet(s))]
        BY <3>1 DEF Sends, Writing
      <3>3. Packet(s) \in Msgs
        BY <3>2, SentFacts DEF Basic, SendersInv
      <3>4. Len(queue[p]) \in Nat /\ Len(queue'[p]) = Len(queue[p]) + 1
        BY <3>2, <3>3, QueueGrows
      <3> QED
        BY <3>4
    <2> QED
      BY <2>1, <2>2
  <1>2. thread' = thread /\ held' = held
    BY CsocketMoves
  <1>3. HeldInv(p)'
    BY <1>2, CsocketsRemain DEF PairsInv, HeldInv, Of
  <1> QED
    BY <1>1, <1>2, <1>3, PairsKept

\* The process that does.
LEMMA CsocketPairsThere ==
  ASSUME Basic, NEW s \in Csocks, CsocketStep(s), NEW m,
         \/ SendPacket(s) /\ m = Packet(s)
         \/ SendDescriptor(s) /\ m = Descriptor(s),
         Sends(s, m), NEW p \in Procs, p = Target(s), PairsInv(p)
  PROVE  PairsInv(p)'
  <1>1. /\ at[s] \in Writing /\ at[s] # "none" /\ Bound(p)
        /\ queue' = [queue EXCEPT ![p] = Append(queue[p], m)]
    BY DEF Sends, Writing
  <1>2. thread' = thread /\ held' = held
    BY CsocketMoves
  <1>3. owner[s] \in Procs
    BY <1>1 DEF Basic, SendersInv
  <1>4. PICK n \in Nat : n = Len(queue[p])
    BY QueueTypes
  <1>5. CASE SendPacket(s) /\ m = Packet(s)
    <2>1. m \in Msgs /\ ~IsDesc(m) /\ IsPacket(m) /\ m.pid = owner[s] /\ m.fd = fd[s] /\ m.remove = removing[s]
      BY <1>3, <1>5, SentFacts DEF Basic
    <2>2. ASSUME NEW s1 \in Csocks, at'[s1] = "descriptor", Target(s1)' = p
          PROVE  AddOf(p, n + 1, s1)' \/ (at[s1] = "descriptor" /\ Target(s1) = p)
      <3>1. CASE s1 # s
        BY <2>2, <3>1, CsocketMoves DEF OthersStay, Target
      <3>2. CASE s1 = s
        <4>1. ~removing[s] /\ owner'[s] = owner[s] /\ fd'[s] = fd[s]
          BY <1>1, <2>2, <3>2, CsocketHalfSends, CsocketsRemain
        <4>2. queue'[p][n + 1] = m /\ n + 1 # 0
          <5>1. queue'[p][Len(queue[p]) + 1] = m
            BY <1>1, <2>1, QueueGrows, Zenon
          <5> QED
            BY <1>4, <5>1
        <4>3. AddAt(p, n + 1)'
          <5>1. m.type = "packet" /\ ~m.remove
            BY <2>1, <4>1 DEF IsPacket
          <5> QED
            BY <4>2, <5>1 DEF AddAt, IsPacket
        <4>4. queue'[p][n + 1].pid = owner'[s] /\ queue'[p][n + 1].fd = fd'[s]
          BY <2>1, <4>1, <4>2
        <4> QED
          BY <3>2, <4>2, <4>3, <4>4 DEF AddOf
      <3> QED
        BY <3>1, <3>2
    <2> QED
      BY <1>1, <1>2, <1>4, <2>1, <2>2, CsocketsRemain, PairsGrow
  <1>6. CASE SendDescriptor(s) /\ m = Descriptor(s)
    <2>1. m \in Msgs /\ IsDesc(m) /\ m.sock = s
      BY <1>3, <1>6, SentFacts DEF Basic
    <2>2. at[s] = "descriptor"
      BY <1>6 DEF SendDescriptor
    <2>3. AddOf(p, n, s) \/ Spoilt(p, n)
      BY <1>1, <1>4, <2>2 DEF PairsInv, HalfSent, Bound
    <2>4. at'[s] = "send"
      BY <1>6 DEF SendDescriptor, Refused, Sent, Place, Basic, SenderTypes
    <2>5. ASSUME NEW s1 \in Csocks, at'[s1] = "descriptor", Target(s1)' = p
          PROVE  /\ at[s1] = "descriptor" /\ Target(s1) = p
                 /\ AddOf(p, n, s1) => Spoilt(p, n)
      <3>1. s1 # s
        BY <2>4, <2>5
      <3>2. at[s1] = "descriptor" /\ Target(s1) = p
        BY <2>5, <3>1, CsocketMoves DEF OthersStay, Target
      <3>3. ~(AddOf(p, n, s1) /\ AddOf(p, n, s))
        BY <2>2, <3>1, <3>2 DEF AddOf, Basic, Exclusive, Writing
      <3> QED
        BY <2>3, <3>2, <3>3
    <2> QED
      BY <1>1, <1>2, <1>4, <2>1, <2>3, <2>5, CsocketsRemain, PairsGrow
  <1> QED
    BY <1>5, <1>6

\* The second layer survives the step of a csocket.
LEMMA CsocketPairs ==
  ASSUME Basic, Pairs, NEW s \in Csocks, CsocketStep(s)
  PROVE  Pairs'
  <1> SUFFICES ASSUME NEW p \in Procs \ mixed PROVE PairsInv(p)'
    BY CsocketMoves DEF Pairs
  <1>1. PairsInv(p)
    BY DEF Pairs
  <1>2. CASE queue'[p] = queue[p]
    BY <1>1, <1>2, CsocketPairsElsewhere
  <1>3. CASE queue'[p] # queue[p]
    <2>1. PICK m : /\ \/ SendPacket(s) /\ m = Packet(s)
                      \/ SendDescriptor(s) /\ m = Descriptor(s)
                   /\ Sends(s, m)
      BY <1>3, CsocketQueues
    <2>2. p = Target(s)
      BY <1>3, <2>1 DEF Sends, Basic, ProcessTypes
    <2> QED
      BY <1>1, <2>1, <2>2, CsocketPairsThere
  <1> QED
    BY <1>2, <1>3

\* A step of the reader of p leaves csockets and other processes alone.
LEMMA ReaderMoves ==
  ASSUME Basic, NEW p \in Procs, ReaderStep(p)
  PROVE  /\ CsocketsStay /\ UNCHANGED <<proc, intnw_pids>>
         /\ mixed \subseteq mixed' /\ mixed' \subseteq mixed \cup {p}
         /\ \A q \in Procs \ {p} : ProcessStays(q)
  <1>1. ProcessTypes
    BY DEF Basic
  <1> USE DEF Go, ProcessStays, ProcessTypes, CsocketsStay, csocket, shared, local, bounds
  <1>2. ASSUME StopReading(p)
        PROVE  /\ CsocketsStay /\ UNCHANGED <<proc, intnw_pids, mixed>>
               /\ \A q \in Procs \ {p} : ProcessStays(q)
    BY <1>1, <1>2 DEF StopReading
  <1>3. CASE ReceivePacket(p)
    <2>1. CASE Head(queue[p]).type = "packet"
      BY <1>1, <1>3, <2>1 DEF ReceivePacket
    <2> QED
      BY <1>2, <1>3, <2>1 DEF ReceivePacket
  <1>4. CASE NoticeInterrupt(p)
    BY <1>2, <1>4 DEF NoticeInterrupt
  <1>5. CASE ReceiveDescriptor(p)
    BY <1>1, <1>5 DEF ReceiveDescriptor
  <1>6. CASE ReceiverAddsPair(p)
    BY <1>1, <1>6 DEF ReceiverAddsPair, AddMissingPair
  <1>7. CASE ReceiverUpdates(p)
    <2>1. /\ CsocketsStay /\ UNCHANGED <<proc, intnw_pids, mixed>>
          /\ \A q \in Procs \ {p} : thread'[q] = thread[q] /\ held'[q] = held[q] /\ queue'[q] = queue[q]
      BY <1>1, <1>7 DEF ReceiverUpdates
    <2>2. UpdateTable(p, held[p].pid, held[p].fd, held[p].remove, held[p].sock)
      BY <1>7 DEF ReceiverUpdates
    <2>3. \A q \in Procs \ {p} : table'[q] = table[q] /\ dups'[q] = dups[q]
      BY <1>1, <2>2 DEF UpdateTable
    <2> QED
      BY <2>1, <2>3
  <1> QED
    BY <1>3, <1>4, <1>5, <1>6, <1>7 DEF ReaderStep

\* A process whose thread takes no step.
LEMMA PairsElsewhere ==
  ASSUME Basic, NEW p \in Procs, PairsInv(p), Settled(p),
         queue'[p] = queue[p], thread'[p] = thread[p], held'[p] = held[p]
  PROVE  PairsInv(p)'
  <1>1. HeldInv(p)'
    BY DEF PairsInv, HeldInv, Of, Settled
  <1> QED
    BY <1>1, PairsKept

\* When no csocket takes a step, none starts to send.
LEMMA CsocketsSettled ==
  ASSUME CsocketsStay
  PROVE  \A p : Settled(p)
  BY DEF Settled, CsocketsStay, Target

\* Nothing is claimed of a reader that has stopped.
LEMMA PairsEnded ==
  ASSUME NEW p, thread'[p] = "ended", queue'[p] = <<>>
  PROVE  PairsInv(p)'
  <1>1. Len(queue'[p]) = 0
    BY EmptyFacts
  <1>2. 0 .. Len(queue'[p]) - 1 = {}
    BY <1>1
  <1> QED
    BY <1>2 DEF Adding, PairsInv, Paired, HalfSent, HeldInv

\* The second layer at a process that receives a packet: its thread now waits
\* for the descriptor that the queue has next, if it has.
LEMMA ReceivePacketPairs ==
  ASSUME Basic, NEW p \in Procs, PairsInv(p), ReceivePacket(p)
  PROVE  PairsInv(p)'
  <1>1. ProcessTypes /\ thread[p] = "select" /\ queue[p] # <<>>
    BY DEF ReceivePacket, Basic
  <1> DEFINE m == Head(queue[p])
             h == [pid |-> m.pid, fd |-> m.fd, remove |-> m.remove, sock |-> None]
             where == IF m.remove THEN "add_or_remove" ELSE "ancil_recv_fd"
  <1>2. CASE m.type # "packet"
    BY <1>1, <1>2, PairsEnded DEF ReceivePacket, StopReading, Go, ProcessTypes
  <1>3. CASE m.type = "packet"
    <2>1. /\ thread' = [thread EXCEPT ![p] = where] /\ held' = [held EXCEPT ![p] = h]
          /\ queue' = [queue EXCEPT ![p] = Tail(queue[p])] /\ CsocketsStay
      BY <1>3 DEF ReceivePacket, Go, csocket, CsocketsStay
    <2>2. thread'[p] = where /\ held'[p] = h
      BY <1>1, <2>1 DEF ProcessTypes
    <2>3. m = queue[p][1]
      BY <1>1, <2>1, QueueShrinks, Zenon
    <2>4. h.pid = m.pid /\ h.fd = m.fd /\ h.remove = m.remove
      OBVIOUS
    <2>5. where \in {"add_or_remove", "ancil_recv_fd"} /\ (where = "ancil_recv_fd" <=> ~m.remove)
      OBVIOUS
    <2> HIDE DEF where, h
    <2>6. AddAt(p, 0)' <=> AddAt(p, 1)
      BY <1>3, <2>2, <2>3, <2>5 DEF AddAt, IsPacket
    <2>7. \A s \in Csocks : AddOf(p, 0, s)' <=> AddOf(p, 1, s)
      <3> SUFFICES ASSUME NEW s \in Csocks PROVE AddOf(p, 0, s)' <=> AddOf(p, 1, s)
        OBVIOUS
      <3> QED
        BY <2>1, <2>2, <2>3, <2>4, <2>6 DEF AddOf, CsocketsStay
    <2>8. HeldInv(p)'
      BY <2>2, <2>4, <2>5 DEF Adding, HeldInv
    <2> QED
      BY <1>1, <2>1, <2>2, <2>5, <2>6, <2>7, <2>8, PairsShift DEF AddAt
  <1> QED
    BY <1>2, <1>3

\* The second layer at a process that receives a descriptor and is not mixed
\* up: it is the descriptor of the packet received before.
LEMMA ReceiveDescriptorPairs ==
  ASSUME Basic, NEW p \in Procs, PairsInv(p), ReceiveDescriptor(p), p \notin mixed'
  PROVE  PairsInv(p)' /\ IsDesc(queue[p][1])
  <1>1. ProcessTypes /\ thread[p] = "ancil_recv_fd" /\ queue[p] # <<>>
    BY DEF ReceiveDescriptor, Basic
  <1> DEFINE m == Head(queue[p])
             s == IF m.type = "descriptor" THEN m.sock ELSE None
             h == [held[p] EXCEPT !.sock = s]
  <1>2. /\ thread' = [thread EXCEPT ![p] = "add_or_remove"] /\ held' = [held EXCEPT ![p] = h]
        /\ queue' = [queue EXCEPT ![p] = Tail(queue[p])] /\ CsocketsStay
        /\ mixed' = IF s = None THEN mixed \cup {p} ELSE mixed
    BY DEF ReceiveDescriptor, Go, csocket, CsocketsStay
  <1>3. /\ m = queue[p][1] /\ Len(queue[p]) \in Nat \ {0}
    BY <1>1, <1>2, QueueShrinks, Zenon
  <1>4. 1 \in 1 .. Len(queue[p]) /\ 0 \in 0 .. Len(queue[p]) - 1
    BY <1>3
  <1>5. IsDesc(m) /\ s = m.sock
    BY <1>2 DEF IsDesc
  <1>6. s \in Csocks /\ at[s] # "none" /\ ~IsPacket(m)
    BY <1>3, <1>4, <1>5, QueueTypes
  <1>7. AddOf(p, 0, s)
    <2>1. IsDesc(queue[p][0 + 1]) /\ queue[p][0 + 1].sock = s
      BY <1>3, <1>5
    <2>2. ~Spoilt(p, 0)
      BY DEF Spoilt
    <2> HIDE DEF s
    <2> QED
      BY <1>4, <2>1, <2>2 DEF PairsInv, Paired
  <1>8. held[p].pid = owner[s] /\ held[p].fd = fd[s]
    BY <1>7 DEF AddOf
  <1> HIDE DEF s
  <1>9. h.pid = held[p].pid /\ h.fd = held[p].fd /\ h.sock = s
    BY <1>1 DEF ProcessTypes, Held
  <1> HIDE DEF h, m
  <1>10. thread'[p] = "add_or_remove" /\ held'[p] = h
    BY <1>1, <1>2 DEF ProcessTypes
  <1>11. ~AddAt(p, 1) /\ ~AddAt(p, 0)'
    BY <1>3, <1>6, <1>10 DEF AddAt
  <1>12. HeldInv(p)'
    BY <1>2, <1>6, <1>8, <1>9, <1>10 DEF HeldInv, Of, CsocketsStay
  <1>13. IsDesc(queue[p][1])
    BY <1>3, <1>5
  <1> QED
    BY <1>1, <1>2, <1>10, <1>11, <1>12, <1>13, PairsShift DEF AddOf

\* The second layer survives the step of a reader.
LEMMA ReaderPairs ==
  ASSUME Basic, Pairs, NEW p \in Procs, ReaderStep(p)
  PROVE  Pairs'
  <1> SUFFICES ASSUME NEW q \in Procs \ mixed' PROVE PairsInv(q)'
    BY DEF Pairs
  <1>1. PairsInv(q) /\ CsocketsStay /\ Settled(q)
    BY ReaderMoves, CsocketsSettled DEF Pairs
  <1>2. CASE q # p
    BY <1>1, <1>2, ReaderMoves, PairsElsewhere DEF ProcessStays
  <1>3. CASE q = p
    <2>1. CASE ReceivePacket(p)
      BY <1>1, <1>3, <2>1, ReceivePacketPairs
    <2>2. CASE NoticeInterrupt(p)
      BY <1>3, <2>2, PairsEnded DEF NoticeInterrupt, StopReading, Go, Basic, ProcessTypes
    <2>3. CASE ReceiveDescriptor(p)
      BY <1>1, <1>3, <2>3, ReceiveDescriptorPairs
    <2>4. CASE ReceiverAddsPair(p)
      <3>1. /\ thread[p] \in Adding /\ thread'[p] \in Adding
            /\ held'[p] = held[p] /\ queue' = queue
        BY <2>4 DEF Adding, ReceiverAddsPair, AddMissingPair, Go, Basic, ProcessTypes
      <3>2. HeldInv(p)'
        BY <1>1, <1>3, <3>1 DEF Adding, PairsInv, HeldInv, Of, CsocketsStay
      <3> QED
        BY <1>1, <1>3, <3>1, <3>2, PairsKept DEF Adding
    <2>5. CASE ReceiverUpdates(p)
      <3>1. /\ thread[p] \in {"add_or_remove", "writelock"}
            /\ IF proc[p] = "leaving" THEN thread'[p] = "ended" /\ queue'[p] = <<>>
                                      ELSE thread'[p] = "select" /\ queue' = queue
        BY <2>5 DEF ReceiverUpdates, Go, Basic, ProcessTypes
      <3>2. CASE proc[p] = "leaving"
        BY <1>3, <3>1, <3>2, PairsEnded
      <3>3. CASE proc[p] # "leaving"
        <4>1. HeldInv(p)'
          BY <3>1, <3>3 DEF Adding, HeldInv
        <4> QED
          BY <1>1, <1>3, <3>1, <3>3, <4>1, PairsKept
      <3> QED
        BY <3>2, <3>3
    <2> QED
      BY <2>1, <2>2, <2>3, <2>4, <2>5 DEF ReaderStep
  <1> QED
    BY <1>2, <1>3

\* The second layer at a process that sends itself an interrupt.
LEMMA DeinitPairs ==
  ASSUME Basic, NEW p \in Procs, PairsInv(p), Deinit(p)
  PROVE  PairsInv(p)'
  <1>1. /\ IF Bound(p) THEN queue' = [queue EXCEPT ![p] = Append(queue[p], Interrupt)]
                       ELSE queue' = queue
        /\ UNCHANGED <<thread, held>> /\ CsocketsStay
    BY DEF Deinit, reader, csocket, CsocketsStay
  <1>2. CASE ~Bound(p)
    BY <1>1, <1>2, PairsElsewhere, CsocketsSettled
  <1>3. CASE Bound(p)
    <2>1. PICK n \in Nat : n = Len(queue[p])
      BY QueueTypes
    <2>2. \A s \in Csocks : at'[s] = "descriptor" /\ Target(s)' = p => at[s] = "descriptor" /\ Target(s) = p
      BY <1>1, CsocketsSettled DEF Settled
    <2>3. Interrupt \in Msgs /\ ~IsDesc(Interrupt)
      BY MsgFacts
    <2> QED
      BY <1>1, <1>3, <2>1, <2>2, <2>3, PairsGrow DEF CsocketsStay
  <1> QED
    BY <1>2, <1>3

\* What a step of process p leaves alone.
LEMMA AppMoves ==
  ASSUME Basic, NEW p \in Procs, AppStep(p), ~Leave(p), ~Crash(p)
  PROVE  /\ CsocketsStay /\ mixed' = mixed
         /\ \A q \in Procs \ {p} : ProcessStays(q)
  <1>1. ProcessTypes
    BY DEF Basic
  <1> USE DEF ProcessTypes, ProcessStays, CsocketsStay, csocket, reader, local, shared, bounds
  <1>2. CASE Quiet(p)
    BY <1>1, <1>2 DEF Quiet
  <1>3. CASE BindSocket(p)
    BY <1>1, <1>3 DEF BindSocket
  <1>4. CASE Deinit(p)
    BY <1>1, <1>4 DEF Deinit
  <1>5. CASE RemoveIfacePairLocally(p)
    BY <1>1, <1>5 DEF RemoveIfacePairLocally
  <1> QED
    BY <1>2, <1>3, <1>4, <1>5, QuietSteps DEF AppStep

\* The second layer survives the step of an application.
LEMMA AppPairs ==
  ASSUME Basic, Pairs, NEW p \in Procs, AppStep(p)
  PROVE  Pairs'
  <1>1. CASE Leave(p) \/ Crash(p)
    <2>1. End(p)
      BY <1>1 DEF Leave, Crash
    <2> SUFFICES ASSUME NEW q \in Procs \ mixed PROVE PairsInv(q)'
      BY <2>1, EndMoves DEF Pairs
    <2>2. PairsInv(q)
      BY DEF Pairs
    <2>3. CASE q = p
      BY <2>1, <2>3, EndMoves, PairsEnded
    <2>4. CASE q # p
      <3>1. Settled(q)
        BY <2>1, EndMoves DEF Settled, Target
      <3> QED
        BY <2>1, <2>2, <2>4, <3>1, EndMoves, PairsElsewhere DEF ProcessStays
    <2> QED
      BY <2>3, <2>4
  <1>2. CASE ~Leave(p) /\ ~Crash(p)
    <2> SUFFICES ASSUME NEW q \in Procs \ mixed PROVE PairsInv(q)'
      BY <1>2, AppMoves DEF Pairs
    <2>1. PairsInv(q) /\ CsocketsStay /\ Settled(q)
      BY <1>2, AppMoves, CsocketsSettled DEF Pairs
    <2>2. CASE q # p
      BY <1>2, <2>1, <2>2, AppMoves, PairsElsewhere DEF ProcessStays
    <2>3. CASE q = p
      <3>1. CASE Quiet(p)
        BY <2>1, <2>3, <3>1, PairsElsewhere DEF Quiet
      <3>2. CASE RemoveIfacePairLocally(p)
        BY <2>1, <2>3, <3>2, PairsElsewhere DEF RemoveIfacePairLocally, reader
      <3>3. CASE BindSocket(p)
        <4>1. thread[p] = "none" /\ thread'[p] = "select" /\ queue' = queue /\ held' = held
          BY <3>3 DEF BindSocket, Basic, ProcessTypes
        <4>2. HeldInv(p)'
          BY <4>1 DEF Adding, HeldInv
        <4> QED
          BY <2>1, <2>3, <4>1, <4>2, PairsKept
      <3>4. CASE Deinit(p)
        BY <2>1, <2>3, <3>4, DeinitPairs
      <3> QED
        BY <1>2, <3>1, <3>2, <3>3, <3>4, QuietSteps DEF AppStep
    <2> QED
      BY <2>2, <2>3
  <1> QED
    BY <1>1, <1>2

\* The second layer holds at the start.
LEMMA InitPairs == Init => Pairs
  <1> SUFFICES ASSUME Init, NEW p \in Procs PROVE PairsInv(p)
    BY DEF Pairs
  <1>1. queue[p] = <<>> /\ Len(queue[p]) = 0
    BY EmptyFacts DEF Init
  <1>2. 0 .. Len(queue[p]) - 1 = {}
    BY <1>1
  <1> QED
    BY <1>2 DEF Adding, PairsInv, Paired, HalfSent, HeldInv, Init

\* The second layer is inductive, given the first.
LEMMA PairsNext ==
  ASSUME Basic, Pairs, Next
  PROVE  Pairs'
  BY AppPairs, ReaderPairs, CsocketPairs DEF Next, Apps

-----------------------------------------------------------------------------
\* Third layer: a table.

\* Entries of one number come one at a time.
LEMMA UpdateKeepsOne ==
  ASSUME Basic, NEW p \in Procs, OneEntryPerNumber(p),
         NEW pid, NEW number, NEW remove, NEW s, UpdateTable(p, pid, number, remove, s)
  PROVE  OneEntryPerNumber(p)'
  <1>1. table \in [Procs -> SUBSET Entry]
    BY DEF Basic, ProcessTypes
  <1>2. CASE remove
    BY <1>1, <1>2 DEF UpdateTable, OneEntryPerNumber
  <1>3. CASE ~remove
    <2>1. CASE Entries(p, pid, number) = {}
      <3> DEFINE e == [pid |-> pid, fd |-> number, sock |-> s]
      <3>1. table'[p] = table[p] \cup {e}
        BY <1>1, <1>3, <2>1 DEF UpdateTable
      <3>2. \A e1 \in table[p] : ~(e1.pid = pid /\ e1.fd = number)
        BY <2>1 DEF Entries
      <3>3. e.pid = pid /\ e.fd = number
        OBVIOUS
      <3> HIDE DEF e
      <3> QED
        BY <3>1, <3>2, <3>3 DEF OneEntryPerNumber
    <2>2. CASE Entries(p, pid, number) # {}
      BY <1>3, <2>2 DEF UpdateTable, OneEntryPerNumber
    <2> QED
      BY <2>1, <2>2
  <1> QED
    BY <1>2, <1>3

\* A removal leaves at most one entry of a number.
LEMMA FewerKeepOne ==
  ASSUME NEW p, OneEntryPerNumber(p), table'[p] \subseteq table[p]
  PROVE  OneEntryPerNumber(p)'
  BY DEF OneEntryPerNumber

\* How a step of csocket s changes tables.
LEMMA CsocketTableCases ==
  ASSUME Basic, NEW s \in Csocks, CsocketStep(s), NEW p \in Procs
  PROVE  \/ /\ p = owner[s] /\ CsocketUpdates(s)
            /\ UpdateTable(p, p, fd[s], removing[s], s)
         \/ /\ p = owner[s] /\ RemoveFailed(s)
            /\ Forget(p, failed[s], IF removing[s] THEN {taken[s]} ELSE {})
         \/ table'[p] = table[p] /\ dups'[p] = dups[p]
  <1>1. CASE CsocketUpdates(s)
    <2>1. CASE p = owner[s]
      BY <1>1, <2>1 DEF CsocketUpdates
    <2> QED
      BY <2>1, CsocketTables
  <1>2. CASE RemoveFailed(s)
    <2>1. CASE p = owner[s]
      BY <1>2, <2>1 DEF RemoveFailed
    <2> QED
      BY <2>1, CsocketTables
  <1>3. ASSUME NEW q \in Apps, NEW number \in Fds, Socket(q, s, number)
        PROVE  table' = table /\ dups' = dups
    BY <1>3 DEF Socket, local
  <1>4. CASE CsocketAddsPair(s)
    BY <1>4 DEF CsocketAddsPair, AddMissingPair
  <1> QED
    BY <1>1, <1>2, <1>3, <1>4
       DEF CsocketStep, Destroy, CopyTargets, LockToSend, SendPacket, SendDescriptor, local

\* A process's entries of its own csockets survive the step of a csocket: a
\* csocket removes its entry before it can close.
LEMMA CsocketOwn ==
  ASSUME Basic, NEW s \in Csocks, CsocketStep(s), NEW p \in Procs, OwnInv(p)
  PROVE  OwnInv(p)'
  <1>0. SenderTypes /\ table \in [Procs -> SUBSET Entry]
    BY DEF Basic, ProcessTypes
  <1>1. OneEntryPerNumber(p)'
    <2>1. CASE UpdateTable(p, p, fd[s], removing[s], s)
      BY <2>1, UpdateKeepsOne DEF OwnInv
    <2>2. CASE Forget(p, failed[s], IF removing[s] THEN {taken[s]} ELSE {})
      <3>1. table'[p] \subseteq table[p]
        BY <1>0, <2>2 DEF Forget
      <3> QED
        BY <3>1, FewerKeepOne DEF OwnInv
    <2>3. CASE table'[p] = table[p]
      BY <2>3, FewerKeepOne DEF OwnInv
    <2> QED
      BY <2>1, <2>2, <2>3, CsocketTableCases
  <1>2. OwnEntries(p)'
    <2> SUFFICES ASSUME NEW e \in table'[p], e.pid = p
                 PROVE  /\ e.sock \in Csocks /\ Of(e.sock, p, e.fd)' /\ IsOpen(e.sock)'
                        /\ removing'[e.sock] => at'[e.sock] \in Adding
      BY DEF OwnEntries
    <2>1. CASE e \notin table[p]
      <3>1. e.fd = fd[s] /\ e.sock = s /\ p = owner[s]
        BY <2>1, CsocketTables
      <3>2. CsocketUpdates(s) /\ UpdateTable(p, p, fd[s], removing[s], s)
        <4>1. ~Forget(p, failed[s], IF removing[s] THEN {taken[s]} ELSE {})
          BY <1>0, <2>1 DEF Forget
        <4> QED
          BY <2>1, <4>1, CsocketTableCases
      <3>3. at'[s] = "targets" /\ removing' = removing /\ owner' = owner /\ fd' = fd
        BY <1>0, <3>2 DEF CsocketUpdates, Place, SenderTypes
      <3>4. ~removing[s]
        BY <1>0, <2>1, <3>2 DEF UpdateTable
      <3> QED
        BY <3>1, <3>3, <3>4 DEF Of, IsOpen
    <2>2. CASE e \in table[p]
      <3>1. /\ e.sock \in Csocks /\ Of(e.sock, p, e.fd) /\ IsOpen(e.sock)
            /\ removing[e.sock] => at[e.sock] \in Adding
        BY <2>2 DEF OwnInv, OwnEntries
      <3>2. Of(e.sock, p, e.fd)'
        BY <3>1, CsocketsRemain DEF Of
      <3>3. CASE e.sock # s
        BY <3>1, <3>2, <3>3, CsocketMoves DEF OthersStay, IsOpen
      <3>4. CASE e.sock = s
        <4>0. /\ at[s] \notin {"none", "closed"} /\ owner[s] = p /\ fd[s] = e.fd
              /\ removing[s] => at[s] \in Adding
          BY <3>1, <3>4 DEF Of, IsOpen
        <4>1. /\ at'[s] \notin {"none", "closed"}
              /\ removing'[s] => at'[s] \in Adding
          <5>1. ASSUME NEW q \in Apps, NEW number \in Fds PROVE ~Socket(q, s, number)
            BY <4>0 DEF Socket
          <5>2. CASE Destroy(s)
            BY <1>0, <5>2 DEF Destroy, Place, SenderTypes, Adding
          <5>3. CASE CsocketAddsPair(s)
            BY <1>0, <5>3 DEF CsocketAddsPair, Place, SenderTypes, Adding
          <5>4. CASE CsocketUpdates(s)
            <6>1. at'[s] = "targets" /\ removing' = removing /\ UpdateTable(p, p, fd[s], removing[s], s)
              BY <1>0, <4>0, <5>4 DEF CsocketUpdates, Place, SenderTypes
            <6>2. ~removing[s]
              BY <1>0, <2>2, <4>0, <6>1 DEF UpdateTable, Entries
            <6> QED
              BY <6>1, <6>2
          <5>5. CASE CopyTargets(s) \/ LockToSend(s)
            BY <1>0, <4>0, <5>5 DEF Adding, CopyTargets, LockToSend, Place, SenderTypes
          <5>6. CASE SendPacket(s) \/ SendDescriptor(s)
            BY <1>0, <4>0, <5>6 DEF Adding, SendPacket, SendDescriptor, Refused, Sent, Place, SenderTypes
          <5>7. CASE RemoveFailed(s)
            BY <1>0, <4>0, <5>7 DEF Adding, RemoveFailed, Place, SenderTypes
          <5> QED
            BY <5>1, <5>2, <5>3, <5>4, <5>5, <5>6, <5>7 DEF CsocketStep
        <4> QED
          BY <3>1, <3>2, <3>4, <4>1 DEF IsOpen
      <3> QED
        BY <3>3, <3>4
    <2> QED
      BY <2>1, <2>2
  <1> QED
    BY <1>1, <1>2 DEF OwnInv

\* A process's entries of its own csockets, when no csocket takes a step.
LEMMA OwnKept ==
  ASSUME NEW p \in Procs, OwnInv(p), CsocketsStay, OneEntryPerNumber(p)',
         \A e \in table'[p] : e.pid = p => e \in table[p]
  PROVE  OwnInv(p)'
  <1>1. OwnEntries(p)'
    <2> SUFFICES ASSUME NEW e \in table'[p], e.pid = p
                 PROVE  /\ e.sock \in Csocks /\ Of(e.sock, p, e.fd)' /\ IsOpen(e.sock)'
                        /\ removing'[e.sock] => at'[e.sock] \in Adding
      BY DEF OwnEntries
    <2>1. /\ e.sock \in Csocks /\ Of(e.sock, p, e.fd) /\ IsOpen(e.sock)
          /\ removing[e.sock] => at[e.sock] \in Adding
      BY DEF OwnInv, OwnEntries
    <2> QED
      BY <2>1 DEF CsocketsStay, Of, IsOpen
  <1> QED
    BY <1>1 DEF OwnInv

\* Only ReceiverUpdates changes the table of a reader.
LEMMA ReaderTables ==
  ASSUME Basic, NEW p \in Procs, ReaderStep(p), ~ReceiverUpdates(p)
  PROVE  table' = table
  BY DEF ReaderStep, ReceivePacket, NoticeInterrupt, StopReading, ReceiveDescriptor,
         ReceiverAddsPair, AddMissingPair, local

\* A process's entries of its own csockets survive the step of a reader.
LEMMA ReaderOwn ==
  ASSUME Basic, NEW q \in Procs, ReaderStep(q), NEW p \in Procs, OwnInv(p)
  PROVE  OwnInv(p)'
  <1>1. CsocketsStay
    BY ReaderMoves
  <1>2. CASE table'[p] = table[p]
    BY <1>1, <1>2, OwnKept, FewerKeepOne DEF OwnInv
  <1>3. CASE p = q /\ ReceiverUpdates(p)
    <2>1. UpdateTable(p, held[p].pid, held[p].fd, held[p].remove, held[p].sock)
      BY <1>3 DEF ReceiverUpdates
    <2>2. OneEntryPerNumber(p)'
      BY <2>1, UpdateKeepsOne DEF OwnInv
    <2>3. \A e \in table'[p] : e.pid = p => e \in table[p]
      BY <1>3, ReceiverUpdatesBasic
    <2> QED
      BY <1>1, <2>2, <2>3, OwnKept
  <1> QED
    BY <1>2, <1>3, ReaderTables, ReaderMoves DEF ProcessStays

\* A process's entries of its own csockets survive the step of an application.
LEMMA AppOwn ==
  ASSUME Basic, NEW q \in Procs, AppStep(q), NEW p \in Procs, OwnInv(p)
  PROVE  OwnInv(p)'
  <1>1. CASE Leave(q) \/ Crash(q)
    <2>1. End(q)
      BY <1>1 DEF Leave, Crash
    <2>2. CASE p = q
      BY <2>1, <2>2, EndMoves DEF OwnInv, OwnEntries, OneEntryPerNumber
    <2>3. CASE p # q
      <3>1. table'[p] = table[p]
        BY <2>1, <2>3, EndMoves DEF ProcessStays
      <3>2. OwnEntries(p)'
        <4> SUFFICES ASSUME NEW e \in table[p], e.pid = p
                     PROVE  /\ e.sock \in Csocks /\ Of(e.sock, p, e.fd)' /\ IsOpen(e.sock)'
                            /\ removing'[e.sock] => at'[e.sock] \in Adding
          BY <3>1 DEF OwnEntries
        <4>1. /\ e.sock \in Csocks /\ Of(e.sock, p, e.fd) /\ IsOpen(e.sock)
              /\ removing[e.sock] => at[e.sock] \in Adding
          BY DEF OwnInv, OwnEntries
        <4>2. owner[e.sock] # q
          BY <2>3, <4>1 DEF Of
        <4> QED
          BY <2>1, <4>1, <4>2, EndMoves DEF Of, IsOpen
      <3> QED
        BY <3>1, <3>2, FewerKeepOne DEF OwnInv
    <2> QED
      BY <2>2, <2>3
  <1>2. CASE ~Leave(q) /\ ~Crash(q)
    <2>1. CsocketsStay
      BY <1>2, AppMoves
    <2>2. table'[p] = table[p] \/ table'[p] = {}
      <3>1. CASE p # q
        BY <1>2, <3>1, AppMoves DEF ProcessStays
      <3>2. CASE p = q
        BY <1>2, <3>2, QuietSteps
           DEF AppStep, Quiet, BindSocket, Deinit, RemoveIfacePairLocally, local, Basic, ProcessTypes
      <3> QED
        BY <3>1, <3>2
    <2>3. OneEntryPerNumber(p)'
      BY <2>2, FewerKeepOne DEF OwnInv
    <2> QED
      BY <2>1, <2>2, <2>3, OwnKept
  <1> QED
    BY <1>1, <1>2

-----------------------------------------------------------------------------
\* Third layer: the descriptors of others.

\* A csocket of which a process has or will get a descriptor is another's.
LEMMA MarkFacts ==
  ASSUME Basic, NEW p \in Procs, PairsInv(p), EntriesMatch(p),
         NEW i \in Places(p), NEW s \in Csocks, MarkAt(p, i, s)
  PROVE  at[s] # "none" /\ owner[s] \in Procs \ {p} /\ thread[p] # "none"
  <1>1. ReaderInv(p) /\ thread[p] \in ThreadStates
    BY DEF Basic, ReadersInv, ProcessTypes
  <1>2. at[s] # "none" => owner[s] \in Procs
    BY DEF Basic, SendersInv
  <1>3. CASE i = -1
    BY <1>1, <1>2, <1>3 DEF MarkAt, EntriesMatch, Of, ReaderInv
  <1>4. CASE i = 0
    <2>1. held[p].sock = s /\ held[p].sock # None
      BY <1>4, NothingFacts DEF MarkAt
    <2>2. held[p] # Nothing
      BY <2>1, NothingFacts
    <2>3. thread[p] \in Adding /\ ~held[p].remove /\ held[p].pid # p
      BY <1>1, <2>1, <2>2 DEF ReaderInv, Reading
    <2> QED
      BY <1>2, <2>1, <2>3 DEF Adding, PairsInv, HeldInv, Of
  <1>5. CASE i # -1 /\ i # 0
    <2>1. Len(queue[p]) \in Nat
      BY QueueTypes
    <2>2. i \in 1 .. Len(queue[p])
      BY <1>5, <2>1 DEF Places
    <2>3. IsDesc(queue[p][i]) /\ queue[p][i].sock = s
      BY <1>5 DEF MarkAt
    <2>4. at[s] # "none" /\ owner[s] # p
      BY <2>2, <2>3, QueueTypes
    <2>5. thread[p] # "none"
      <3>1. CASE thread[p] = "none"
        <4>1. queue[p] = <<>>
          BY <1>1, <3>1 DEF ReaderInv
        <4> QED
          BY <2>1, <2>2, <4>1, EmptyFacts
      <3> QED
        BY <3>1
    <2> QED
      BY <1>2, <2>4, <2>5
  <1> QED
    BY <1>3, <1>4, <1>5

\* What the thread has in its hands is not in the table.
LEMMA HeldIsNew ==
  ASSUME Basic, NEW p \in Procs, EntriesMatch(p), NoTwo(p),
         NEW e \in table[p], e.pid # p, held[p].sock \in Csocks
  PROVE  ~SameKey(e.sock, held[p].sock)
  <1>1. e.sock \in Csocks
    BY DEF EntriesMatch
  <1>2. -1 \in Places(p) /\ 0 \in Places(p)
    BY QueueTypes DEF Places
  <1>3. MarkAt(p, -1, e.sock) /\ MarkAt(p, 0, held[p].sock)
    BY DEF MarkAt
  <1>4. ~(\E m \in (-1) + 1 .. 0 - 1 : RemAt(p, m, e.sock))
    OBVIOUS
  <1> QED
    BY <1>1, <1>2, <1>3, <1>4 DEF NoTwo

\* Entries are removed, and their descriptors with them.
LEMMA DroppedAccounted ==
  ASSUME Basic, NEW p \in Procs, EntriesMatch(p), NoTwo(p), OneEntryPerNumber(p), Accounted(p),
         NEW gone, gone \subseteq table[p], table'[p] = table[p] \ gone,
         dups'[p] = dups[p] \ Others(p, gone), held'[p].sock = held[p].sock
  PROVE  Accounted(p)'
  <1>1. \A e1 \in gone : \A e2 \in table[p] \ gone : e1.sock # e2.sock
    BY DEF EntriesMatch, Of, OneEntryPerNumber
  <1>2. held[p].sock \notin Others(p, gone)
    <2> SUFFICES ASSUME NEW e \in gone, e.pid # p, e.sock = held[p].sock
                 PROVE  FALSE
      BY DEF Others
    <2>1. held[p].sock \in Csocks
      BY DEF EntriesMatch
    <2> QED
      BY <2>1, HeldIsNew DEF SameKey
  <1>3. Others(p, table[p]) \ Others(p, gone) = Others(p, table[p] \ gone)
    BY <1>1 DEF Others
  <1>4. dups[p] = (Others(p, table[p]) \cup {held[p].sock}) \ {None}
    BY DEF Accounted
  <1>5. dups'[p] = (Others(p, table'[p]) \cup {held'[p].sock}) \ {None}
    BY <1>2, <1>3, <1>4
  <1> QED
    BY <1>5 DEF Accounted, Others

\* Neither the update of a csocket nor remove_proc leaks a descriptor.
LEMMA CsocketAccounted ==
  ASSUME Apart, Basic, NEW s \in Csocks, CsocketStep(s),
         NEW p \in Procs, OwnInv(p), EntriesMatch(p), NoTwo(p), Accounted(p)
  PROVE  Accounted(p)'
  <1>0. /\ table \in [Procs -> SUBSET Entry] /\ dups \in [Procs -> SUBSET Csocks]
        /\ held' = held
    BY CsocketMoves DEF Basic, ProcessTypes
  <1>1. CASE UpdateTable(p, p, fd[s], removing[s], s)
    <2>1. CASE removing[s]
      BY <1>0, <1>1, <2>1, DroppedAccounted DEF UpdateTable, Entries, OwnInv
    <2>2. CASE ~removing[s]
      <3> DEFINE e == [pid |-> p, fd |-> fd[s], sock |-> s]
      <3>1. dups' = dups /\ (table'[p] = table[p] \/ table'[p] = table[p] \cup {e})
        BY <1>0, <1>1, <2>2 DEF UpdateTable
      <3>2. e.pid = p
        OBVIOUS
      <3> HIDE DEF e
      <3>3. Others(p, table'[p]) = Others(p, table[p])
        BY <3>1, <3>2 DEF Others
      <3>4. dups'[p] = (Others(p, table'[p]) \cup {held'[p].sock}) \ {None}
        BY <1>0, <3>1, <3>3 DEF Accounted
      <3> QED
        BY <3>4 DEF Accounted, Others
    <2> QED
      BY <2>1, <2>2
  <1>2. CASE Forget(p, failed[s], IF removing[s] THEN {taken[s]} ELSE {})
    <2> DEFINE gone == {e \in table[p] : e.pid \in failed[s] \ {p}}
    <2>0. PICK closed \in SUBSET {None} :
                 Forget(p, failed[s], closed)
      <3>1. taken[s] = None
        BY DEF Apart
      <3> QED
        BY <1>2, <3>1
    <2>1. table'[p] = table[p] \ gone /\ dups'[p] = dups[p] \ (Others(p, gone) \cup closed)
      BY <1>0, <2>0 DEF Forget
    <2>2. None \notin dups[p]
      BY <1>0, ForegroundAssumption
    <2>3. dups'[p] = dups[p] \ Others(p, gone)
      BY <2>1, <2>2
    <2> QED
      BY <1>0, <2>1, <2>3, DroppedAccounted DEF OwnInv
  <1>3. CASE table'[p] = table[p] /\ dups'[p] = dups[p]
    BY <1>0, <1>3 DEF Accounted, Others
  <1> QED
    BY <1>1, <1>2, <1>3, CsocketTableCases

\* Entries name csockets by process and number: the step of a csocket.
LEMMA CsocketEntriesMatch ==
  ASSUME Basic, NEW s \in Csocks, CsocketStep(s), NEW p \in Procs, EntriesMatch(p)
  PROVE  EntriesMatch(p)'
  <1> SUFFICES ASSUME NEW e \in table'[p]
               PROVE  e.sock \in Csocks /\ Of(e.sock, e.pid, e.fd)'
    BY DEF EntriesMatch
  <1>1. CASE e \in table[p]
    BY <1>1, CsocketsRemain DEF EntriesMatch, Of
  <1>2. CASE e \notin table[p]
    <2>1. e.pid = p /\ e.fd = fd[s] /\ e.sock = s /\ p = owner[s]
      BY <1>2, CsocketTables
    <2>2. at[s] # "none"
      BY <1>2, CsocketTableCases DEF CsocketUpdates, RemoveFailed
    <2> QED
      BY <2>1, <2>2, CsocketsRemain DEF Of
  <1> QED
    BY <1>1, <1>2

\* The queue of p stays or gets one more datagram.
LEMMA MarksGrow ==
  ASSUME Basic, NEW p \in Procs, PairsInv(p), EntriesMatch(p), NoTwo(p), Marked(p),
         NEW n \in Nat, n = Len(queue[p]), NEW k \in {n, n + 1}, Len(queue'[p]) = k,
         \A i \in 1 .. n : queue'[p][i] = queue[p][i],
         held'[p] = held[p],
         \A e \in table'[p] : e.pid # p => e \in table[p],
         \A s \in Csocks : at[s] # "none" => owner'[s] = owner[s] /\ fd'[s] = fd[s],
         k = n + 1 => \A s \in Csocks : MarkAt(p, n + 1, s)' =>
             /\ at[s] # "none" /\ Told(s, p)'
             /\ \A i \in -1 .. n : \A s1 \in Csocks : MarkAt(p, i, s1) /\ SameKey(s1, s) =>
                    \E m \in i + 1 .. n : RemAt(p, m, s1),
         \A s \in Csocks :
             /\ at[s] # "none" /\ owner[s] \in Procs \ {p} /\ thread[p] # "none"
             /\ thread'[p] # "ended" /\ Alive(owner[s])'
             /\ thread[p] # "ended" /\ Alive(owner[s]) => Told(s, p)
             => Told(s, p)' \/ (k = n + 1 /\ RemAt(p, n + 1, s)')
  PROVE  NoTwo(p)' /\ Marked(p)'
  <1>1. /\ Places(p) = -1 .. n /\ Places(p)' = -1 .. k
        /\ k \in Nat /\ n <= k /\ k <= n + 1
    BY DEF Places
  <1>2. ASSUME NEW i \in -1 .. n, NEW s \in Csocks, MarkAt(p, i, s)'
        PROVE  MarkAt(p, i, s) /\ at[s] # "none" /\ owner[s] \in Procs \ {p} /\ thread[p] # "none"
    <2>1. MarkAt(p, i, s)
      <3>1. CASE i = -1
        BY <1>2, <3>1 DEF MarkAt
      <3>2. CASE i = 0
        BY <1>2, <3>2 DEF MarkAt
      <3>3. CASE i # -1 /\ i # 0
        <4>1. i \in 1 .. n
          BY <3>3
        <4> QED
          BY <1>2, <3>3, <4>1 DEF MarkAt, IsDesc
      <3> QED
        BY <3>1, <3>2, <3>3
    <2> QED
      BY <1>1, <2>1, MarkFacts
  <1>3. ASSUME NEW i \in 0 .. n, NEW s \in Csocks, at[s] # "none"
        PROVE  RemAt(p, i, s)' <=> RemAt(p, i, s)
    <2>1. owner'[s] = owner[s] /\ fd'[s] = fd[s]
      BY <1>3
    <2>2. CASE i = 0
      BY <2>1, <2>2 DEF RemAt
    <2>3. CASE i # 0
      <3>1. queue'[p][i] = queue[p][i]
        BY <2>3
      <3> QED
        BY <2>1, <2>3, <3>1 DEF RemAt, IsPacket
    <2> QED
      BY <2>2, <2>3
  <1>4. NoTwo(p)'
    <2> SUFFICES ASSUME NEW i \in -1 .. k, NEW j \in -1 .. k, NEW s1 \in Csocks, NEW s2 \in Csocks,
                        MarkAt(p, i, s1)', MarkAt(p, j, s2)', i < j, SameKey(s1, s2)'
                 PROVE  \E m \in i + 1 .. j - 1 : RemAt(p, m, s1)'
      BY <1>1 DEF NoTwo
    <2>1. i \in -1 .. n /\ i + 1 \in Nat
      BY <1>1
    <2>2. MarkAt(p, i, s1) /\ at[s1] # "none"
      BY <1>2, <2>1
    <2>3. at[s2] # "none"
      BY <1>1, <1>2
    <2>4. SameKey(s1, s2)
      BY <2>2, <2>3 DEF SameKey
    <2>5. \E m \in i + 1 .. j - 1 : RemAt(p, m, s1)
      <3>1. CASE j \in -1 .. n
        BY <1>1, <1>2, <2>1, <2>2, <2>4, <3>1 DEF NoTwo
      <3>2. CASE j \notin -1 .. n
        <4>1. j = n + 1 /\ k = n + 1 /\ j - 1 = n
          BY <1>1, <3>2
        <4> QED
          BY <2>1, <2>2, <2>4, <4>1
      <3> QED
        BY <3>1, <3>2
    <2>6. PICK m \in i + 1 .. j - 1 : RemAt(p, m, s1)
      BY <2>5
    <2>7. m \in 0 .. n
      BY <1>1, <2>1
    <2> QED
      BY <1>3, <2>2, <2>6, <2>7
  <1>5. Marked(p)'
    <2> SUFFICES ASSUME NEW i \in -1 .. k, NEW s \in Csocks,
                        MarkAt(p, i, s)', thread'[p] # "ended", Alive(owner[s])',
                        \A m \in i + 1 .. k : ~RemAt(p, m, s)'
                 PROVE  Told(s, p)'
      BY <1>1 DEF Marked
    <2>1. CASE i \in -1 .. n
      <3>1. /\ MarkAt(p, i, s) /\ at[s] # "none"
            /\ owner[s] \in Procs \ {p} /\ thread[p] # "none"
        BY <1>2, <2>1
      <3>2. ASSUME NEW m \in i + 1 .. n PROVE ~RemAt(p, m, s)
        <4>1. m \in 0 .. n /\ m \in i + 1 .. k
          BY <1>1, <2>1
        <4> QED
          BY <1>3, <3>1, <4>1
      <3>3. thread[p] # "ended" /\ Alive(owner[s]) => Told(s, p)
        BY <1>1, <2>1, <3>1, <3>2 DEF Marked
      <3>4. k = n + 1 => ~RemAt(p, n + 1, s)'
        <4>1. k = n + 1 => n + 1 \in i + 1 .. k
          BY <1>1, <2>1
        <4> QED
          BY <4>1
      <3> QED
        BY <3>1, <3>3, <3>4
    <2>2. CASE i \notin -1 .. n
      <3>1. i = n + 1 /\ k = n + 1
        BY <1>1, <2>2
      <3> QED
        BY <3>1
    <2> QED
      BY <2>1, <2>2
  <1> QED
    BY <1>4, <1>5

\* The news that s is told to send p reaches the queue of p, is still to be
\* sent, or p is dropped.
LEMMA OwnStepTold ==
  ASSUME Basic, NEW s \in Csocks, CsocketStep(s), NEW p \in Procs, owner[s] # p, WillBeTold(s, p)
  PROVE  \/ Told(s, p)'
         \/ removing[s] /\ SendPacket(s) /\ Sends(s, Packet(s)) /\ Target(s) = p
  <1>1. SenderTypes
    BY DEF Basic
  <1>2. /\ at[s] \notin {"none", "closed"}
        /\ removing[s] => at[s] \in Starting \/ p \in todo[s] \cup failed[s] \/ p \notin intnw_pids
        /\ ~removing[s] => at[s] \notin Starting /\ p \notin todo[s]
    BY DEF WillBeTold, IsOpen
  <1>3. intnw_pids' \subseteq intnw_pids
    BY CsocketTables
  <1>4. ASSUME /\ at'[s] \notin {"none", "closed"}
               /\ removing'[s] => \/ at'[s] \in Starting \/ p \in todo'[s] \cup failed'[s]
                                  \/ p \notin intnw_pids'
               /\ ~removing'[s] => at'[s] \notin Starting /\ p \notin todo'[s]
        PROVE  Told(s, p)'
    BY <1>4 DEF Told, WillBeTold, IsOpen
  <1> USE DEF Place, Adding, Starting
  <1>5. ASSUME NEW q \in Apps, NEW number \in Fds PROVE ~Socket(q, s, number)
    BY <1>2 DEF Socket
  <1>6. CASE Destroy(s)
    <2>1. at'[s] = "add_or_remove" /\ removing'[s]
      BY <1>1, <1>6 DEF Destroy, SenderTypes
    <2> QED
      BY <1>4, <2>1
  <1>7. CASE CsocketAddsPair(s)
    <2>1. at[s] \in Adding /\ at'[s] \in Adding /\ removing' = removing
      BY <1>1, <1>7 DEF CsocketAddsPair, AddMissingPair, SenderTypes
    <2> QED
      BY <1>2, <1>4, <2>1
  <1>8. CASE CsocketUpdates(s)
    <2>1. at[s] \in {"add_or_remove", "writelock"} /\ at'[s] = "targets" /\ removing' = removing
      BY <1>1, <1>8 DEF CsocketUpdates, SenderTypes
    <2> QED
      BY <1>2, <1>4, <2>1
  <1>9. CASE CopyTargets(s)
    <2>1. /\ at[s] = "targets" /\ at'[s] = "send" /\ removing' = removing
          /\ todo'[s] = intnw_pids \ {owner[s]}
      BY <1>1, <1>9 DEF CopyTargets, SenderTypes
    <2> QED
      BY <1>2, <1>3, <1>4, <2>1
  <1>10. CASE LockToSend(s)
    <2>1. /\ at[s] = "send" /\ at'[s] = "packet"
          /\ removing' = removing /\ todo' = todo /\ failed' = failed
      BY <1>1, <1>10 DEF LockToSend, SenderTypes
    <2> QED
      BY <1>2, <1>3, <1>4, <2>1
  <1>11. CASE SendPacket(s)
    <2>1. at[s] = "packet" /\ removing' = removing
      BY <1>11 DEF SendPacket
    <2>2. CASE Refused(s)
      <3>1. /\ at'[s] = "send" /\ todo'[s] = todo[s] \ {Target(s)}
            /\ failed'[s] = failed[s] \cup {Target(s)}
        BY <1>1, <2>2 DEF Refused, SenderTypes
      <3> QED
        BY <1>2, <1>3, <1>4, <2>1, <3>1
    <2>3. CASE Put(s, Packet(s)) /\ removing[s] /\ Sent(s)
      <3>1. /\ at'[s] = "send" /\ todo'[s] = todo[s] \ {Target(s)} /\ failed' = failed
            /\ Sends(s, Packet(s))
        BY <1>1, <2>1, <2>3 DEF Sent, Put, Sends, Writing, SenderTypes
      <3>2. CASE Target(s) = p
        BY <1>11, <2>3, <3>1, <3>2
      <3>3. CASE Target(s) # p
        BY <1>2, <1>3, <1>4, <2>1, <3>1, <3>3
      <3> QED
        BY <3>2, <3>3
    <2>4. CASE ~removing[s] /\ Place(s, "descriptor") /\ todo' = todo
      <3>1. at'[s] = "descriptor"
        BY <1>1, <2>4 DEF SenderTypes
      <3> QED
        BY <1>2, <1>4, <2>1, <2>4, <3>1
    <2> QED
      BY <1>11, <2>2, <2>3, <2>4 DEF SendPacket
  <1>12. CASE SendDescriptor(s)
    <2>1. at[s] = "descriptor" /\ removing' = removing /\ ~removing[s]
      BY <1>12 DEF SendDescriptor, Basic, SendersInv
    <2>2. at'[s] = "send" /\ todo'[s] = todo[s] \ {Target(s)}
      BY <1>1, <1>12 DEF SendDescriptor, Refused, Sent, SenderTypes
    <2> QED
      BY <1>2, <1>4, <2>1, <2>2
  <1>13. CASE RemoveFailed(s)
    <2>1. /\ at[s] = "send" /\ todo[s] = {} /\ todo' = todo /\ removing' = removing
          /\ at'[s] = IF removing[s] THEN "closed" ELSE "open"
          /\ intnw_pids' = intnw_pids \ failed[s] /\ owner' = owner /\ fd' = fd
      BY <1>1, <1>13 DEF RemoveFailed, Forget, SenderTypes
    <2>2. CASE ~removing[s]
      BY <1>2, <1>4, <2>1, <2>2
    <2>3. CASE removing[s]
      <3>1. p \notin intnw_pids'
        BY <1>2, <2>1, <2>3
      <3>2. ASSUME NEW s1 \in Csocks, IsOpen(s1)', SameKey(s1, s)' PROVE FALSE
        <4>1. s1 # s
          BY <2>1, <2>3, <3>2 DEF IsOpen
        <4>2. IsOpen(s1)
          BY <3>2, <4>1, CsocketMoves DEF OthersStay, IsOpen
        <4>3. SameKey(s1, s)
          BY <2>1, <3>2 DEF SameKey
        <4> QED
          BY <1>2, <4>1, <4>2, <4>3 DEF Basic, Exclusive, IsOpen
      <3> QED
        BY <3>1, <3>2 DEF Told, Dropped
    <2> QED
      BY <2>2, <2>3
  <1> QED
    BY <1>5, <1>6, <1>7, <1>8, <1>9, <1>10, <1>11, <1>12, <1>13 DEF CsocketStep

\* A csocket takes a process for a target only from intnw_pids.
LEMMA NewTargets ==
  ASSUME Basic, NEW s \in Csocks, CsocketStep(s)
  PROVE  todo'[s] \subseteq todo[s] \cup intnw_pids /\ (at[s] \in {"none", "closed"} => todo'[s] = {})
  <1>1. SenderTypes /\ (at[s] \in {"none", "closed"} => todo[s] = {})
    BY DEF Basic, SendersInv, Sending
  <1>2. CASE CopyTargets(s)
    BY <1>1, <1>2 DEF CopyTargets, SenderTypes
  <1>3. CASE SendPacket(s) \/ SendDescriptor(s)
    BY <1>1, <1>3 DEF SendPacket, SendDescriptor, Refused, Sent, SenderTypes
  <1>4. ASSUME NEW q \in Apps, NEW number \in Fds, Socket(q, s, number) PROVE todo' = todo
    BY <1>4 DEF Socket
  <1>5. CASE todo' = todo
    BY <1>1, <1>5
  <1> QED
    BY <1>2, <1>3, <1>4, <1>5
       DEF CsocketStep, Destroy, CsocketAddsPair, CsocketUpdates, LockToSend, RemoveFailed

\* A process that is to be told of a removal or was dropped stays so, whatever
\* csocket takes a step, unless that is the sending of the removal.
LEMMA CsocketTold ==
  ASSUME Basic, NEW s0 \in Csocks, CsocketStep(s0), NEW p \in Procs,
         NEW s \in Csocks, at[s] # "none", owner[s] # p, Told(s, p)
  PROVE  \/ Told(s, p)'
         \/ s = s0 /\ removing[s] /\ SendPacket(s) /\ Sends(s, Packet(s)) /\ Target(s) = p
  <1>1. intnw_pids' \subseteq intnw_pids
    BY CsocketTables
  <1>2. CASE WillBeTold(s, p) /\ s = s0
    BY <1>2, OwnStepTold
  <1>3. CASE WillBeTold(s, p) /\ s # s0
    BY <1>1, <1>3, CsocketMoves DEF OthersStay, Told, WillBeTold, IsOpen
  <1>4. CASE Dropped(s, p)
    <2>1. p \notin intnw_pids'
      BY <1>1, <1>4 DEF Dropped
    <2>2. ASSUME NEW s1 \in Csocks, IsOpen(s1)', SameKey(s1, s)' PROVE p \notin todo'[s1]
      <3>1. owner'[s] = owner[s] /\ fd'[s] = fd[s]
        BY CsocketsRemain
      <3>2. CASE s1 # s0
        <4>1. IsOpen(s1) /\ SameKey(s1, s) /\ todo'[s1] = todo[s1]
          BY <2>2, <3>1, <3>2, CsocketMoves DEF OthersStay, IsOpen, SameKey
        <4> QED
          BY <1>4, <4>1 DEF Dropped
      <3>3. CASE s1 = s0 /\ IsOpen(s0)
        <4>1. SameKey(s0, s)
          BY <2>2, <3>1, <3>3, CsocketsRemain DEF SameKey, IsOpen
        <4>2. p \notin todo[s0] /\ p \notin intnw_pids
          BY <1>4, <3>3, <4>1 DEF Dropped
        <4> QED
          BY <3>3, <4>2, NewTargets
      <3>4. CASE s1 = s0 /\ ~IsOpen(s0)
        BY <3>4, NewTargets DEF IsOpen
      <3> QED
        BY <3>2, <3>3, <3>4
    <2> QED
      BY <2>1, <2>2 DEF Told, Dropped
  <1> QED
    BY <1>2, <1>3, <1>4 DEF Told

\* What has been sent is at the end of the target's queue.
LEMMA SentIsSeen ==
  ASSUME Basic, NEW s \in Csocks, NEW m, m = Packet(s) \/ m = Descriptor(s), Sends(s, m),
         NEW p \in Procs, p = Target(s)
  PROVE  /\ m \in Msgs /\ owner[s] \in Procs /\ at[s] \in Writing /\ at[s] # "none" /\ Bound(p)
         /\ queue' = [queue EXCEPT ![p] = Append(queue[p], m)]
         /\ queue'[p] # queue[p]
  <1>1. at[s] \in Writing /\ at[s] # "none" /\ Bound(p) /\ queue' = [queue EXCEPT ![p] = Append(queue[p], m)]
    BY DEF Sends, Writing
  <1>2. owner[s] \in Procs
    BY <1>1 DEF Basic, SendersInv
  <1>3. m \in Msgs
    BY <1>2, SentFacts DEF Basic
  <1>4. Len(queue[p]) \in Nat /\ Len(queue'[p]) = Len(queue[p]) + 1
    BY <1>1, <1>3, QueueGrows
  <1>5. queue'[p] # queue[p]
    BY <1>4
  <1> QED
    BY <1>1, <1>2, <1>3, <1>5

\* Marks of a process that gets no datagram.
LEMMA CsocketMarksElsewhere ==
  ASSUME Basic, NEW s0 \in Csocks, CsocketStep(s0), NEW p \in Procs, queue'[p] = queue[p],
         PairsInv(p), EntriesMatch(p), NoTwo(p), Marked(p)
  PROVE  NoTwo(p)' /\ Marked(p)'
  <1>1. PICK n \in Nat : n = Len(queue[p])
    BY QueueTypes
  <1>2. UNCHANGED <<proc, thread, held>>
    BY CsocketMoves
  <1>3. \A e \in table'[p] : e.pid # p => e \in table[p]
    BY CsocketTables
  <1>4. ASSUME NEW s \in Csocks, at[s] # "none", owner[s] \in Procs \ {p},
               thread'[p] # "ended", Alive(owner[s])',
               thread[p] # "ended" /\ Alive(owner[s]) => Told(s, p)
        PROVE  Told(s, p)'
    <2>1. owner'[s] = owner[s]
      BY <1>4, CsocketsRemain
    <2>2. Told(s, p)
      BY <1>2, <1>4, <2>1 DEF Alive
    <2>3. ~(Sends(s, Packet(s)) /\ Target(s) = p)
      BY SentIsSeen
    <2> QED
      BY <1>4, <2>2, <2>3, CsocketTold
  <1> QED
    BY <1>1, <1>2, <1>3, <1>4, CsocketsRemain, MarksGrow

\* Marks of a process that gets a descriptor or a packet.  A descriptor of a
\* number that p still has would be sent to a process that was to be told of
\* the removal of the earlier one, which then is the same csocket, or to one
\* that was dropped, which is nobody's target.
LEMMA CsocketMarksThere ==
  ASSUME Basic, NEW s0 \in Csocks, CsocketStep(s0), NEW m,
         \/ SendPacket(s0) /\ m = Packet(s0)
         \/ SendDescriptor(s0) /\ m = Descriptor(s0),
         Sends(s0, m), NEW p \in Procs, p = Target(s0),
         PairsInv(p), EntriesMatch(p), NoTwo(p), Marked(p)
  PROVE  NoTwo(p)' /\ Marked(p)'
  <1>1. PICK n \in Nat : n = Len(queue[p])
    BY QueueTypes
  <1>2. UNCHANGED <<proc, thread, held>>
    BY CsocketMoves
  <1>3. \A e \in table'[p] : e.pid # p => e \in table[p]
    BY CsocketTables
  <1>4. /\ m \in Msgs /\ owner[s0] \in Procs /\ at[s0] \in Writing /\ at[s0] # "none" /\ Bound(p)
        /\ queue' = [queue EXCEPT ![p] = Append(queue[p], m)]
    BY SentIsSeen
  <1>5. /\ Len(queue'[p]) = Len(queue[p]) + 1
        /\ \A i \in 1 .. Len(queue[p]) : queue'[p][i] = queue[p][i]
        /\ queue'[p][Len(queue[p]) + 1] = m
    BY <1>4, QueueGrows, Zenon
  <1>6. /\ Len(queue'[p]) = n + 1 /\ \A i \in 1 .. n : queue'[p][i] = queue[p][i]
        /\ queue'[p][n + 1] = m
    BY <1>1, <1>5
  <1>7. ASSUME NEW s \in Csocks, MarkAt(p, n + 1, s)'
        PROVE  /\ at[s] # "none" /\ Told(s, p)'
               /\ \A i \in -1 .. n : \A s1 \in Csocks : MarkAt(p, i, s1) /\ SameKey(s1, s) =>
                      \E j \in i + 1 .. n : RemAt(p, j, s1)
    <2>1. IsDesc(m) /\ m.sock = s
      <3>1. n + 1 # -1 /\ n + 1 # 0
        OBVIOUS
      <3> QED
        BY <1>6, <1>7, <3>1 DEF MarkAt, IsDesc
    <2>2. SendDescriptor(s) /\ s = s0
      BY <1>4, <2>1, SentFacts DEF Basic
    <2>3. at[s] = "descriptor" /\ ~removing[s] /\ IsOpen(s) /\ Alive(owner[s])
      BY <2>2 DEF SendDescriptor, Basic, SendersInv, IsOpen
    <2>4. p \in todo[s] /\ at[s] # "none"
      BY <1>4, <2>2, TargetFacts
    <2>5. Told(s, p)'
      <3>1. /\ at'[s] = "send" /\ removing' = removing
        BY <2>2 DEF SendDescriptor, Refused, Sent, Place, Basic, SenderTypes
      <3>2. todo'[s] = todo[s] \ {p}
        BY <2>2 DEF SendDescriptor, Refused, Sent, Basic, SenderTypes
      <3> QED
        BY <2>3, <3>1, <3>2 DEF Adding, Told, WillBeTold, IsOpen, Starting
    <2>6. ASSUME NEW i \in -1 .. n, NEW s1 \in Csocks, MarkAt(p, i, s1), SameKey(s1, s),
                 \A j \in i + 1 .. n : ~RemAt(p, j, s1)
          PROVE  FALSE
      <3>1. i \in Places(p) /\ \A j \in i + 1 .. Len(queue[p]) : ~RemAt(p, j, s1)
        BY <1>1, <2>6 DEF Places
      <3>2. thread[p] # "ended" /\ Alive(owner[s1])
        BY <1>4, <2>3, <2>6 DEF Bound, SameKey
      <3>3. Told(s1, p)
        BY <2>6, <3>1, <3>2 DEF Marked
      <3>4. CASE WillBeTold(s1, p)
        <4>1. s1 = s
          BY <2>3, <2>6, <3>4 DEF WillBeTold, Basic, Exclusive
        <4> QED
          BY <2>3, <2>4, <3>4, <4>1 DEF WillBeTold
      <3>5. CASE Dropped(s1, p)
        BY <2>3, <2>4, <2>6, <3>5 DEF Dropped, SameKey
      <3> QED
        BY <3>3, <3>4, <3>5 DEF Told
    <2> QED
      BY <2>4, <2>5, <2>6
  <1>8. ASSUME NEW s \in Csocks, at[s] # "none", owner[s] \in Procs \ {p},
               thread'[p] # "ended", Alive(owner[s])',
               thread[p] # "ended" /\ Alive(owner[s]) => Told(s, p)
        PROVE  Told(s, p)' \/ RemAt(p, n + 1, s)'
    <2>1. owner'[s] = owner[s] /\ fd'[s] = fd[s]
      BY <1>8, CsocketsRemain
    <2>2. Told(s, p)
      BY <1>2, <1>8, <2>1 DEF Alive
    <2>3. CASE s = s0 /\ removing[s] /\ SendPacket(s)
      <3>1. m = Packet(s)
        BY <2>3 DEF SendPacket, SendDescriptor
      <3>2. IsPacket(m) /\ m.remove /\ m.pid = owner[s] /\ m.fd = fd[s]
        BY <1>4, <2>3, <3>1, SentFacts DEF Basic
      <3>3. n + 1 # 0
        OBVIOUS
      <3> QED
        BY <1>6, <2>1, <3>2, <3>3 DEF RemAt, IsPacket
    <2> QED
      BY <1>8, <2>2, <2>3, CsocketTold
  <1> QED
    BY <1>1, <1>2, <1>3, <1>6, <1>7, <1>8, CsocketsRemain, MarksGrow

\* The third layer survives the step of a csocket.
LEMMA CsocketTableInv ==
  ASSUME Apart, Basic, NEW s \in Csocks, CsocketStep(s), NEW p \in Procs,
         PairsInv(p), OwnInv(p), TableInv(p)
  PROVE  TableInv(p)'
  <1>1. EntriesMatch(p)' /\ Accounted(p)'
    BY CsocketEntriesMatch, CsocketAccounted DEF TableInv
  <1>2. CASE queue'[p] = queue[p]
    BY <1>1, <1>2, CsocketMarksElsewhere DEF TableInv
  <1>3. CASE queue'[p] # queue[p]
    <2>1. PICK m : /\ \/ SendPacket(s) /\ m = Packet(s)
                      \/ SendDescriptor(s) /\ m = Descriptor(s)
                   /\ Sends(s, m)
      BY <1>3, CsocketQueues
    <2>2. p = Target(s)
      BY <1>3, <2>1 DEF Sends, Basic, ProcessTypes
    <2> QED
      BY <1>1, <2>1, <2>2, CsocketMarksThere DEF TableInv
  <1> QED
    BY <1>2, <1>3

\* A step that leaves what p has alone.
LEMMA ToldStays ==
  ASSUME CsocketsStay, NEW p, p \notin intnw_pids => p \notin intnw_pids',
         NEW s \in Csocks, Told(s, p)
  PROVE  Told(s, p)'
  BY DEF CsocketsStay, Told, WillBeTold, Dropped, IsOpen, SameKey

\* The third layer at a process whose table, thread and queue stay.
LEMMA TableKept ==
  ASSUME Basic, NEW p \in Procs, PairsInv(p), TableInv(p), CsocketsStay,
         queue'[p] = queue[p], held'[p] = held[p], table'[p] = table[p], dups'[p] = dups[p],
         thread[p] # "none" /\ p \notin intnw_pids => p \notin intnw_pids',
         thread'[p] # "ended" => thread[p] # "ended",
         \A s \in Csocks : at[s] # "none" /\ Alive(owner[s])' => Alive(owner[s])
  PROVE  TableInv(p)'
  <1>1. EntriesMatch(p)' /\ Accounted(p)'
    BY DEF TableInv, EntriesMatch, Of, Accounted, Others, CsocketsStay
  <1>2. PICK n \in Nat : n = Len(queue[p])
    BY QueueTypes
  <1>3. ASSUME NEW s \in Csocks, at[s] # "none", thread[p] # "none",
               thread'[p] # "ended", Alive(owner[s])',
               thread[p] # "ended" /\ Alive(owner[s]) => Told(s, p)
        PROVE  Told(s, p)'
    BY <1>3, ToldStays
  <1>4. NoTwo(p)' /\ Marked(p)'
    BY <1>2, <1>3, MarksGrow DEF TableInv, CsocketsStay
  <1> QED
    BY <1>1, <1>4 DEF TableInv

\* The third layer at a process whose reader has stopped.
LEMMA TableEnded ==
  ASSUME NEW p, thread'[p] = "ended", queue'[p] = <<>>, held'[p].sock = None,
         EntriesMatch(p)', Accounted(p)'
  PROVE  TableInv(p)'
  <1>1. Len(queue'[p]) = 0
    BY EmptyFacts
  <1>2. Places(p)' = {-1, 0}
    BY <1>1 DEF Places
  <1>3. \A s \in Csocks : ~MarkAt(p, 0, s)'
    BY NothingFacts DEF MarkAt
  <1>4. NoTwo(p)'
    BY <1>2, <1>3 DEF NoTwo
  <1>5. Marked(p)'
    BY DEF Marked
  <1> QED
    BY <1>4, <1>5 DEF TableInv

\* The thread of p takes the first datagram.
LEMMA MarksShift ==
  ASSUME Basic, NEW p \in Procs, PairsInv(p), NoTwo(p), Marked(p), CsocketsStay,
         queue[p] # <<>>, queue' = [queue EXCEPT ![p] = Tail(queue[p])],
         table'[p] = table[p], UNCHANGED <<proc, intnw_pids>>,
         \A s \in Csocks : ~MarkAt(p, 0, s) /\ ~RemAt(p, 0, s),
         \A s \in Csocks : (MarkAt(p, 0, s)' <=> MarkAt(p, 1, s)) /\ (RemAt(p, 0, s)' <=> RemAt(p, 1, s))
  PROVE  NoTwo(p)' /\ Marked(p)'
  <1>1. /\ Len(queue[p]) \in Nat \ {0} /\ Len(queue'[p]) = Len(queue[p]) - 1
        /\ \A i \in 1 .. Len(queue[p]) - 1 : queue'[p][i] = queue[p][i + 1]
    BY QueueShrinks, Zenon
  <1>2. PICK n \in Nat \ {0} : n = Len(queue[p])
    BY <1>1
  <1>3. /\ Places(p) = -1 .. n /\ Places(p)' = -1 .. n - 1
        /\ Len(queue'[p]) = n - 1
        /\ \A i \in 1 .. n - 1 : queue'[p][i] = queue[p][i + 1]
    BY <1>1, <1>2 DEF Places
  <1>4. thread[p] # "ended"
    BY DEF Basic, ReadersInv, ReaderInv
  <1>5. ASSUME NEW s \in Csocks PROVE MarkAt(p, -1, s)' <=> MarkAt(p, -1, s)
    BY DEF MarkAt
  <1>6. ASSUME NEW s \in Csocks, NEW i \in 0 .. n - 1
        PROVE  /\ MarkAt(p, i, s)' <=> MarkAt(p, i + 1, s)
               /\ RemAt(p, i, s)' <=> RemAt(p, i + 1, s)
    <2>1. CASE i = 0
      BY <2>1
    <2>2. CASE i # 0
      <3>1. i \in 1 .. n - 1 /\ i # -1 /\ i + 1 # 0 /\ i + 1 # -1
        BY <2>2
      <3>2. queue'[p][i] = queue[p][i + 1] /\ owner' = owner /\ fd' = fd
        BY <1>3, <3>1 DEF CsocketsStay
      <3>3. MarkAt(p, i, s)' <=> MarkAt(p, i + 1, s)
        BY <2>2, <3>1, <3>2 DEF MarkAt, IsDesc
      <3>4. RemAt(p, i, s)' <=> RemAt(p, i + 1, s)
        BY <2>2, <3>1, <3>2 DEF RemAt, IsPacket
      <3> QED
        BY <3>3, <3>4
    <2> QED
      BY <2>1, <2>2
  <1> DEFINE up(i) == IF i = -1 THEN -1 ELSE i + 1
  <1>7. ASSUME NEW s \in Csocks, NEW i \in -1 .. n - 1, MarkAt(p, i, s)'
        PROVE  up(i) \in -1 .. n /\ MarkAt(p, up(i), s)
    <2>1. CASE i = -1
      BY <1>5, <1>7, <2>1
    <2>2. CASE i # -1
      <3>1. i \in 0 .. n - 1 /\ i + 1 \in -1 .. n
        BY <2>2
      <3> QED
        BY <1>6, <1>7, <2>2, <3>1
    <2> QED
      BY <2>1, <2>2
  <1>8. ASSUME NEW s \in Csocks, NEW i \in -1 .. n - 1, NEW m \in up(i) + 1 .. n, RemAt(p, m, s)
        PROVE  m - 1 \in i + 1 .. n - 1 /\ RemAt(p, m - 1, s)'
    <2>1. m # 0
      BY <1>8
    <2>2. m - 1 \in i + 1 .. n - 1 /\ m - 1 \in 0 .. n - 1 /\ (m - 1) + 1 = m
      BY <2>1
    <2>3. RemAt(p, (m - 1) + 1, s)
      BY <1>8, <2>2
    <2> QED
      BY <1>6, <2>2, <2>3
  <1>9. NoTwo(p)'
    <2> SUFFICES ASSUME NEW i \in -1 .. n - 1, NEW j \in -1 .. n - 1,
                        NEW s1 \in Csocks, NEW s2 \in Csocks,
                        MarkAt(p, i, s1)', MarkAt(p, j, s2)', i < j, SameKey(s1, s2)'
                 PROVE  \E m \in i + 1 .. j - 1 : RemAt(p, m, s1)'
      BY <1>3 DEF NoTwo
    <2>1. /\ up(i) \in -1 .. n /\ MarkAt(p, up(i), s1)
          /\ up(j) \in -1 .. n /\ MarkAt(p, up(j), s2)
      BY <1>7
    <2>2. up(i) < up(j) /\ SameKey(s1, s2) /\ up(j) = j + 1
      BY DEF SameKey, CsocketsStay
    <2>3. PICK m \in up(i) + 1 .. up(j) - 1 : RemAt(p, m, s1)
      BY <1>3, <2>1, <2>2 DEF NoTwo
    <2>4. m \in up(i) + 1 .. n /\ m <= j /\ m \in Int
      BY <2>2
    <2>5. m - 1 \in i + 1 .. n - 1 /\ RemAt(p, m - 1, s1)'
      BY <1>8, <2>3, <2>4
    <2>6. m - 1 \in i + 1 .. j - 1
      BY <2>4, <2>5
    <2> QED
      BY <2>5, <2>6
  <1>10. Marked(p)'
    <2> SUFFICES ASSUME NEW i \in -1 .. n - 1, NEW s \in Csocks, MarkAt(p, i, s)', Alive(owner[s])',
                        \A m \in i + 1 .. n - 1 : ~RemAt(p, m, s)'
                 PROVE  Told(s, p)'
      BY <1>3 DEF Marked
    <2>1. up(i) \in -1 .. n /\ MarkAt(p, up(i), s) /\ Alive(owner[s])
      BY <1>7 DEF Alive, CsocketsStay
    <2>2. \A m \in up(i) + 1 .. n : ~RemAt(p, m, s)
      BY <1>8
    <2> HIDE DEF up
    <2>3. Told(s, p)
      BY <1>2, <1>3, <1>4, <2>1, <2>2 DEF Marked
    <2> QED
      BY <2>3, ToldStays
  <1> QED
    BY <1>9, <1>10

\* The third layer survives StopReading.
LEMMA StopReadingTable ==
  ASSUME Basic, NEW p \in Procs, TableInv(p), thread[p] = "select", StopReading(p)
  PROVE  TableInv(p)'
  <1>1. /\ thread'[p] = "ended" /\ held'[p] = Nothing /\ queue'[p] = <<>>
        /\ UNCHANGED <<table, dups>> /\ CsocketsStay
    BY DEF StopReading, Go, local, csocket, CsocketsStay, Basic, ProcessTypes
  <1>2. held[p] = Nothing
    BY DEF Adding, Basic, ReadersInv, ReaderInv, Reading
  <1>3. EntriesMatch(p)' /\ Accounted(p)'
    BY <1>1, <1>2 DEF TableInv, EntriesMatch, Of, Accounted, Others, CsocketsStay
  <1> QED
    BY <1>1, <1>3, NothingFacts, TableEnded

\* The third layer at a process that receives a packet.
LEMMA ReceivePacketTable ==
  ASSUME Basic, NEW p \in Procs, PairsInv(p), TableInv(p), ReceivePacket(p)
  PROVE  TableInv(p)'
  <1>1. ProcessTypes /\ thread[p] = "select" /\ queue[p] # <<>>
    BY DEF ReceivePacket, Basic
  <1> DEFINE m == Head(queue[p])
             h == [pid |-> m.pid, fd |-> m.fd, remove |-> m.remove, sock |-> None]
             where == IF m.remove THEN "add_or_remove" ELSE "ancil_recv_fd"
  <1>2. CASE m.type # "packet"
    BY <1>1, <1>2, StopReadingTable DEF ReceivePacket
  <1>3. CASE m.type = "packet"
    <2>1. /\ held' = [held EXCEPT ![p] = h]
          /\ queue' = [queue EXCEPT ![p] = Tail(queue[p])] /\ CsocketsStay
          /\ UNCHANGED <<table, dups, proc, intnw_pids>>
      BY <1>3 DEF ReceivePacket, Go, csocket, local, shared, CsocketsStay
    <2>2. held'[p] = h /\ held[p] = Nothing
      BY <1>1, <2>1 DEF Adding, ProcessTypes, Basic, ReadersInv, ReaderInv, Reading
    <2>3. m = queue[p][1]
      BY <1>1, <2>1, QueueShrinks, Zenon
    <2>4. h.pid = m.pid /\ h.fd = m.fd /\ h.remove = m.remove /\ h.sock = None
      OBVIOUS
    <2>5. IsPacket(m) /\ ~IsDesc(m)
      BY <1>3 DEF IsPacket, IsDesc
    <2> HIDE DEF h, m
    <2>6. ASSUME NEW s \in Csocks PROVE ~MarkAt(p, 0, s) /\ ~RemAt(p, 0, s)
      BY <2>2, NothingFacts DEF MarkAt, RemAt
    <2>7. ASSUME NEW s \in Csocks
          PROVE  /\ MarkAt(p, 0, s)' <=> MarkAt(p, 1, s)
                 /\ RemAt(p, 0, s)' <=> RemAt(p, 1, s)
      <3>1. ~MarkAt(p, 0, s)' /\ ~MarkAt(p, 1, s)
        BY <2>2, <2>3, <2>4, <2>5, NothingFacts DEF MarkAt
      <3>2. RemAt(p, 0, s)' <=> RemAt(p, 1, s)
        BY <2>1, <2>2, <2>3, <2>4, <2>5 DEF RemAt, CsocketsStay
      <3> QED
        BY <3>1, <3>2
    <2>8. NoTwo(p)' /\ Marked(p)'
      BY <1>1, <2>1, <2>6, <2>7, MarksShift DEF TableInv
    <2>9. held'[p].sock = held[p].sock
      BY <2>2, <2>4, NothingFacts
    <2>10. EntriesMatch(p)' /\ Accounted(p)'
      BY <2>1, <2>9 DEF TableInv, EntriesMatch, Of, Accounted, Others, CsocketsStay
    <2> QED
      BY <2>8, <2>10 DEF TableInv
  <1> QED
    BY <1>2, <1>3

\* The third layer at a process that receives a descriptor.
LEMMA ReceiveDescriptorTable ==
  ASSUME Basic, NEW p \in Procs, PairsInv(p), TableInv(p), ReceiveDescriptor(p), p \notin mixed'
  PROVE  TableInv(p)'
  <1>1. /\ ProcessTypes /\ thread[p] = "ancil_recv_fd" /\ queue[p] # <<>>
        /\ held[p].sock = None /\ ~held[p].remove
    BY DEF ReceiveDescriptor, Basic, ReadersInv, ReaderInv
  <1> DEFINE m == Head(queue[p])
             s0 == IF m.type = "descriptor" THEN m.sock ELSE None
             h == [held[p] EXCEPT !.sock = s0]
  <1>2. /\ held' = [held EXCEPT ![p] = h]
        /\ queue' = [queue EXCEPT ![p] = Tail(queue[p])] /\ CsocketsStay
        /\ dups' = [dups EXCEPT ![p] = dups[p] \cup ({s0} \ {None})]
        /\ UNCHANGED <<table, proc, intnw_pids>>
    BY DEF ReceiveDescriptor, Go, csocket, shared, CsocketsStay
  <1>3. m = queue[p][1]
    BY <1>1, <1>2, QueueShrinks, Zenon
  <1>4. IsDesc(m) /\ m.sock = s0 /\ ~IsPacket(m)
    BY <1>3, ReceiveDescriptorPairs DEF IsDesc, IsPacket
  <1> HIDE DEF s0, m
  <1>5. h.sock = s0 /\ h.remove = held[p].remove
    BY <1>1 DEF ProcessTypes, Held
  <1> HIDE DEF h
  <1>6. held'[p] = h /\ dups'[p] = dups[p] \cup ({s0} \ {None})
    BY <1>1, <1>2 DEF ProcessTypes
  <1>7. ASSUME NEW s \in Csocks PROVE ~MarkAt(p, 0, s) /\ ~RemAt(p, 0, s)
    BY <1>1, NothingFacts DEF MarkAt, RemAt
  <1>8. ASSUME NEW s \in Csocks
        PROVE  /\ MarkAt(p, 0, s)' <=> MarkAt(p, 1, s)
               /\ RemAt(p, 0, s)' <=> RemAt(p, 1, s)
    <2>1. MarkAt(p, 0, s)' <=> MarkAt(p, 1, s)
      BY <1>3, <1>4, <1>5, <1>6 DEF MarkAt
    <2>2. ~RemAt(p, 0, s)' /\ ~RemAt(p, 1, s)
      BY <1>1, <1>3, <1>4, <1>5, <1>6 DEF RemAt
    <2> QED
      BY <2>1, <2>2
  <1>9. NoTwo(p)' /\ Marked(p)'
    BY <1>1, <1>2, <1>7, <1>8, MarksShift DEF TableInv
  <1>10. EntriesMatch(p)'
    BY <1>2 DEF TableInv, EntriesMatch, Of, CsocketsStay
  <1>11. Accounted(p)'
    <2>1. dups[p] = (Others(p, table[p]) \cup {None}) \ {None}
      BY <1>1 DEF TableInv, Accounted
    <2>2. dups'[p] = (Others(p, table[p]) \cup {held'[p].sock}) \ {None}
      BY <1>5, <1>6, <2>1
    <2> QED
      BY <1>2, <2>2 DEF Accounted, Others
  <1> QED
    BY <1>9, <1>10, <1>11 DEF TableInv

\* What the thread of p had in its hands goes into the table or empties it.
LEMMA MarksTaken ==
  ASSUME Basic, NEW p \in Procs, NoTwo(p), Marked(p), CsocketsStay,
         queue'[p] = queue[p], UNCHANGED <<proc, intnw_pids>>, thread[p] # "ended",
         \A s \in Csocks : ~MarkAt(p, 0, s)' /\ ~RemAt(p, 0, s)',
         \A s \in Csocks : MarkAt(p, -1, s)' =>
             (MarkAt(p, -1, s) /\ ~RemAt(p, 0, s)) \/ MarkAt(p, 0, s)
  PROVE  NoTwo(p)' /\ Marked(p)'
  <1>1. PICK n \in Nat : n = Len(queue[p])
    BY QueueTypes
  <1>2. Places(p) = -1 .. n /\ Places(p)' = -1 .. n
    BY <1>1 DEF Places
  <1>3. ASSUME NEW s \in Csocks, NEW i \in 1 .. n
        PROVE  (MarkAt(p, i, s)' <=> MarkAt(p, i, s)) /\ (RemAt(p, i, s)' <=> RemAt(p, i, s))
    BY DEF MarkAt, RemAt, CsocketsStay
  \* A mark has come from a place with nothing to remove it on the way.
  <1>4. ASSUME NEW s \in Csocks, NEW i \in -1 .. n, MarkAt(p, i, s)'
        PROVE  \E k \in -1 .. n : /\ k >= i /\ MarkAt(p, k, s)
                                  /\ k = 0 \/ k = i
                                  /\ i # 0
                                  /\ i = -1 /\ k = -1 => ~RemAt(p, 0, s)
                                  /\ k = 0 => i = -1
    <2>1. CASE i = -1
      <3>1. CASE MarkAt(p, -1, s) /\ ~RemAt(p, 0, s)
        BY <2>1, <3>1
      <3>2. CASE MarkAt(p, 0, s)
        BY <2>1, <3>2
      <3> QED
        BY <1>4, <2>1, <3>1, <3>2
    <2>2. CASE i = 0
      BY <1>4, <2>2
    <2>3. CASE i # -1 /\ i # 0
      <3>1. i \in 1 .. n
        BY <2>3
      <3>2. MarkAt(p, i, s)
        BY <1>3, <1>4, <3>1
      <3> QED
        BY <2>3, <3>2
    <2> QED
      BY <2>1, <2>2, <2>3
  <1>5. NoTwo(p)'
    <2> SUFFICES ASSUME NEW i \in -1 .. n, NEW j \in -1 .. n, NEW s1 \in Csocks, NEW s2 \in Csocks,
                        MarkAt(p, i, s1)', MarkAt(p, j, s2)', i < j, SameKey(s1, s2)'
                 PROVE  \E m \in i + 1 .. j - 1 : RemAt(p, m, s1)'
      BY <1>2 DEF NoTwo
    <2>1. PICK k \in -1 .. n : /\ k >= i /\ MarkAt(p, k, s1)
                               /\ k = 0 \/ k = i
                               /\ i # 0
                               /\ i = -1 /\ k = -1 => ~RemAt(p, 0, s1)
                               /\ k = 0 => i = -1
      BY <1>4
    <2>2. j \in 1 .. n /\ k < j
      BY <1>4, <2>1
    <2>3. MarkAt(p, j, s2) /\ SameKey(s1, s2)
      BY <1>3, <2>2 DEF SameKey, CsocketsStay
    <2>4. PICK m \in k + 1 .. j - 1 : RemAt(p, m, s1)
      BY <1>2, <2>1, <2>2, <2>3 DEF NoTwo
    <2>5. m \in 1 .. n /\ m \in i + 1 .. j - 1
      <3>1. m # 0
        BY <2>1, <2>4
      <3> QED
        BY <2>1, <2>2, <3>1
    <2> QED
      BY <1>3, <2>4, <2>5
  <1>6. Marked(p)'
    <2> SUFFICES ASSUME NEW i \in -1 .. n, NEW s \in Csocks, MarkAt(p, i, s)', Alive(owner[s])',
                        \A m \in i + 1 .. n : ~RemAt(p, m, s)'
                 PROVE  Told(s, p)'
      BY <1>1, <1>2 DEF Marked
    <2>1. PICK k \in -1 .. n : /\ k >= i /\ MarkAt(p, k, s)
                               /\ k = 0 \/ k = i
                               /\ i # 0
                               /\ i = -1 /\ k = -1 => ~RemAt(p, 0, s)
                               /\ k = 0 => i = -1
      BY <1>4
    <2>2. ASSUME NEW m \in k + 1 .. n PROVE ~RemAt(p, m, s)
      <3>1. CASE m = 0
        BY <2>1, <3>1
      <3>2. CASE m # 0
        <4>1. m \in 1 .. n /\ m \in i + 1 .. n
          BY <2>1, <3>2
        <4> QED
          BY <1>3, <4>1
      <3> QED
        BY <3>1, <3>2
    <2>3. Alive(owner[s])
      BY DEF Alive, CsocketsStay
    <2>4. Told(s, p)
      BY <1>1, <1>2, <2>1, <2>2, <2>3 DEF Marked
    <2> QED
      BY <2>4, ToldStays
  <1> QED
    BY <1>5, <1>6

\* The third layer survives ReceiverUpdates: an insertion always finds its
\* place free, so that no descriptor is dropped on the floor.
LEMMA ReceiverUpdatesTable ==
  ASSUME Basic, NEW p \in Procs, PairsInv(p), OwnInv(p), TableInv(p), ReceiverUpdates(p)
  PROVE  TableInv(p)'
  <1>1. /\ thread[p] \in {"add_or_remove", "writelock"}
        /\ IF proc[p] = "leaving" THEN thread'[p] = "ended" /\ queue'[p] = <<>>
                                  ELSE queue' = queue
        /\ held'[p] = Nothing /\ UNCHANGED <<proc, intnw_pids>> /\ CsocketsStay
    BY DEF ReceiverUpdates, Go, shared, csocket, CsocketsStay, Basic, ProcessTypes
  <1>2. UpdateTable(p, held[p].pid, held[p].fd, held[p].remove, held[p].sock)
    BY DEF ReceiverUpdates
  <1>3. table \in [Procs -> SUBSET Entry] /\ dups \in [Procs -> SUBSET Csocks]
    BY DEF Basic, ProcessTypes
  <1>4. EntriesMatch(p) /\ NoTwo(p) /\ Marked(p) /\ Accounted(p) /\ OneEntryPerNumber(p)
    BY DEF TableInv, OwnInv
  <1>5. \A s \in Csocks : ~MarkAt(p, 0, s)' /\ ~RemAt(p, 0, s)'
    BY <1>1, NothingFacts DEF MarkAt, RemAt
  <1>6. ASSUME EntriesMatch(p)', Accounted(p)',
               \A s \in Csocks : MarkAt(p, -1, s)' =>
                   (MarkAt(p, -1, s) /\ ~RemAt(p, 0, s)) \/ MarkAt(p, 0, s)
        PROVE  TableInv(p)'
    <2>1. CASE proc[p] = "leaving"
      BY <1>1, <1>6, <2>1, TableEnded, NothingFacts
    <2>2. CASE proc[p] # "leaving"
      <3>1. NoTwo(p)' /\ Marked(p)'
        BY <1>1, <1>4, <1>5, <1>6, <2>2, MarksTaken
      <3> QED
        BY <1>6, <3>1 DEF TableInv
    <2> QED
      BY <2>1, <2>2
  <1>7. CASE held[p].remove
    <2> DEFINE gone == Entries(p, held[p].pid, held[p].fd)
    <2>1. /\ table'[p] = table[p] \ gone /\ dups'[p] = dups[p] \ Others(p, gone)
          /\ held[p].sock = None
      BY <1>2, <1>3, <1>7 DEF UpdateTable, Basic, ReadersInv, ReaderInv
    <2>2. gone \subseteq table[p]
      BY DEF Entries
    <2>3. Accounted(p)'
      BY <1>1, <1>4, <2>1, <2>2, NothingFacts, DroppedAccounted
    <2>4. EntriesMatch(p)'
      BY <1>1, <1>4, <2>1 DEF EntriesMatch, Of, CsocketsStay
    <2>5. ASSUME NEW s \in Csocks, MarkAt(p, -1, s)' PROVE MarkAt(p, -1, s) /\ ~RemAt(p, 0, s)
      <3>1. PICK e \in table[p] \ gone : e.pid # p /\ e.sock = s
        BY <2>1, <2>5 DEF MarkAt
      <3>2. e.pid = owner[s] /\ e.fd = fd[s]
        BY <1>4, <3>1 DEF EntriesMatch, Of
      <3>3. ~(e.pid = held[p].pid /\ e.fd = held[p].fd)
        BY <3>1 DEF Entries
      <3> QED
        BY <3>1, <3>2, <3>3 DEF MarkAt, RemAt
    <2> QED
      BY <1>6, <2>3, <2>4, <2>5
  <1>8. CASE ~held[p].remove
    <2> DEFINE e0 == [pid |-> held[p].pid, fd |-> held[p].fd, sock |-> held[p].sock]
    <2>1. held[p].sock \in Csocks /\ Of(held[p].sock, held[p].pid, held[p].fd) /\ held[p].pid # p
      BY <1>1, <1>8 DEF Adding, PairsInv, HeldInv, Basic, ReadersInv, ReaderInv, Reading
    <2>2. Entries(p, held[p].pid, held[p].fd) = {}
      <3> SUFFICES ASSUME NEW e \in table[p], e.pid = held[p].pid, e.fd = held[p].fd PROVE FALSE
        BY DEF Entries
      <3>1. SameKey(e.sock, held[p].sock)
        BY <1>4, <2>1 DEF EntriesMatch, Of, SameKey
      <3> QED
        BY <1>4, <2>1, <3>1, HeldIsNew
    <2>3. table'[p] = table[p] \cup {e0} /\ dups' = dups
      BY <1>2, <1>3, <1>8, <2>2 DEF UpdateTable
    <2>4. e0.pid = held[p].pid /\ e0.fd = held[p].fd /\ e0.sock = held[p].sock
      OBVIOUS
    <2> HIDE DEF e0
    <2>5. EntriesMatch(p)'
      <3> SUFFICES ASSUME NEW e \in table'[p] PROVE e.sock \in Csocks /\ Of(e.sock, e.pid, e.fd)'
        BY DEF EntriesMatch
      <3>1. e.sock \in Csocks /\ Of(e.sock, e.pid, e.fd)
        BY <1>4, <2>1, <2>3, <2>4 DEF EntriesMatch
      <3> QED
        BY <1>1, <3>1 DEF Of, CsocketsStay
    <2>6. Accounted(p)'
      <3>1. Others(p, table'[p]) = Others(p, table[p]) \cup {held[p].sock}
        BY <2>1, <2>3, <2>4 DEF Others
      <3>2. dups'[p] = (Others(p, table'[p]) \cup {held'[p].sock}) \ {None}
        BY <1>1, <1>4, <2>3, <3>1, NothingFacts DEF Accounted
      <3> QED
        BY <3>2 DEF Accounted, Others
    <2>7. ASSUME NEW s \in Csocks, MarkAt(p, -1, s)'
          PROVE  (MarkAt(p, -1, s) /\ ~RemAt(p, 0, s)) \/ MarkAt(p, 0, s)
      BY <1>8, <2>3, <2>4, <2>7 DEF MarkAt, RemAt
    <2> QED
      BY <1>6, <2>5, <2>6, <2>7
  <1> QED
    BY <1>7, <1>8

\* The third layer survives the step of a reader.
LEMMA ReaderTableInv ==
  ASSUME Basic, NEW q \in Procs, ReaderStep(q), NEW p \in Procs, p \notin mixed',
         PairsInv(p), OwnInv(p), TableInv(p)
  PROVE  TableInv(p)'
  <1>1. CsocketsStay /\ UNCHANGED <<proc, intnw_pids>>
    BY ReaderMoves
  <1>2. \A s \in Csocks : Alive(owner[s])' => Alive(owner[s])
    BY <1>1 DEF Alive, CsocketsStay
  <1>3. CASE p # q
    <2>1. ProcessStays(p)
      BY <1>3, ReaderMoves
    <2> QED
      BY <1>1, <1>2, <2>1, TableKept DEF ProcessStays
  <1>4. CASE p = q
    <2>1. CASE ReceivePacket(p)
      BY <2>1, ReceivePacketTable
    <2>2. CASE NoticeInterrupt(p)
      BY <2>2, StopReadingTable DEF NoticeInterrupt
    <2>3. CASE ReceiveDescriptor(p)
      BY <2>3, ReceiveDescriptorTable
    <2>4. CASE ReceiverAddsPair(p)
      <3>1. /\ thread[p] \in Adding /\ held'[p] = held[p]
            /\ UNCHANGED <<queue, table, dups>>
        BY <2>4 DEF Adding, ReceiverAddsPair, AddMissingPair, Go, Basic, ProcessTypes
      <3> QED
        BY <1>1, <1>2, <3>1, TableKept DEF Adding
    <2>5. CASE ReceiverUpdates(p)
      BY <2>5, ReceiverUpdatesTable
    <2> QED
      BY <1>4, <2>1, <2>2, <2>3, <2>4, <2>5 DEF ReaderStep
  <1> QED
    BY <1>3, <1>4

\* The end of another process.
LEMMA EndTableElsewhere ==
  ASSUME Basic, NEW q \in Procs, End(q), intnw_pids' \subseteq intnw_pids,
         NEW p \in Procs \ {q}, PairsInv(p), TableInv(p)
  PROVE  TableInv(p)'
  <1>1. ProcessStays(p) /\ owner' = owner /\ fd' = fd
    BY EndMoves
  <1>2. \A s \in Csocks : at[s] # "none" => at'[s] # "none"
    BY EndMoves
  <1>3. EntriesMatch(p)' /\ Accounted(p)'
    BY <1>1, <1>2 DEF TableInv, EntriesMatch, Of, Accounted, Others, ProcessStays
  <1>4. PICK n \in Nat : n = Len(queue[p])
    BY QueueTypes
  <1>5. ASSUME NEW s \in Csocks, owner[s] \in Procs, thread'[p] # "ended", Alive(owner[s])',
               thread[p] # "ended" /\ Alive(owner[s]) => Told(s, p)
        PROVE  Told(s, p)'
    <2>1. owner[s] # q
      BY <1>1, <1>5, EndMoves DEF Alive
    <2>2. proc'[owner[s]] = proc[owner[s]]
      BY <1>5, <2>1, EndMoves DEF ProcessStays
    <2>3. Told(s, p)
      BY <1>1, <1>5, <2>2 DEF Alive, ProcessStays
    <2>4. ASSUME NEW s1 \in Csocks, owner[s1] = owner[s]
          PROVE  /\ at'[s1] = at[s1] /\ removing'[s1] = removing[s1]
                 /\ todo'[s1] = todo[s1] /\ failed'[s1] = failed[s1]
      BY <2>1, <2>4, EndMoves
    <2>5. CASE WillBeTold(s, p)
      BY <2>4, <2>5 DEF Told, WillBeTold, IsOpen
    <2>6. CASE Dropped(s, p)
      BY <1>1, <2>4, <2>6 DEF Told, Dropped, IsOpen, SameKey
    <2> QED
      BY <2>3, <2>5, <2>6 DEF Told
  <1>6. NoTwo(p)' /\ Marked(p)'
    BY <1>1, <1>4, <1>5, MarksGrow DEF TableInv, ProcessStays
  <1> QED
    BY <1>3, <1>6 DEF TableInv

\* The third layer survives RemoveIfacePairLocally.
LEMMA RemovePairTable ==
  ASSUME Basic, NEW p \in Procs, PairsInv(p), OwnInv(p), TableInv(p), RemoveIfacePairLocally(p)
  PROVE  TableInv(p)'
  <1>1. /\ table'[p] = {} /\ dups'[p] = dups[p] \ Others(p, table[p])
        /\ UNCHANGED <<proc, thread, held, queue, intnw_pids>> /\ CsocketsStay
    BY DEF RemoveIfacePairLocally, reader, csocket, shared, CsocketsStay, Basic, ProcessTypes
  <1>2. table'[p] = table[p] \ table[p]
    BY <1>1
  <1>3. Accounted(p)'
    BY <1>1, <1>2, DroppedAccounted DEF TableInv, OwnInv
  <1>4. EntriesMatch(p)'
    BY <1>1 DEF EntriesMatch
  <1>5. PICK n \in Nat : n = Len(queue[p])
    BY QueueTypes
  <1>6. ASSUME NEW s \in Csocks, thread'[p] # "ended", Alive(owner[s])',
               thread[p] # "ended" /\ Alive(owner[s]) => Told(s, p)
        PROVE  Told(s, p)'
    <2>1. Told(s, p)
      BY <1>1, <1>6 DEF Alive, CsocketsStay
    <2> QED
      BY <1>1, <2>1, ToldStays
  <1>7. NoTwo(p)' /\ Marked(p)'
    BY <1>1, <1>5, <1>6, MarksGrow DEF TableInv, CsocketsStay
  <1> QED
    BY <1>3, <1>4, <1>7 DEF TableInv

\* The third layer survives Deinit.
LEMMA DeinitTable ==
  ASSUME Basic, NEW p \in Procs, PairsInv(p), TableInv(p), Deinit(p)
  PROVE  TableInv(p)'
  <1>1. /\ proc[p] = "up" /\ proc' = [proc EXCEPT ![p] = "leaving"]
        /\ IF Bound(p) THEN queue' = [queue EXCEPT ![p] = Append(queue[p], Interrupt)]
                       ELSE queue' = queue
        /\ UNCHANGED <<thread, held, table, dups, intnw_pids>> /\ CsocketsStay
    BY DEF Deinit, reader, local, csocket, shared, CsocketsStay
  <1>2. \A s \in Csocks : at[s] # "none" /\ Alive(owner[s])' => Alive(owner[s])
    BY <1>1 DEF Alive, CsocketsStay, Basic, ProcessTypes, SendersInv
  <1>3. CASE ~Bound(p)
    BY <1>1, <1>2, <1>3, TableKept
  <1>4. CASE Bound(p)
    <2>1. PICK n \in Nat : n = Len(queue[p])
      BY QueueTypes
    <2>2. Interrupt \in Msgs /\ ~IsDesc(Interrupt)
      BY MsgFacts
    <2>3. /\ Len(queue'[p]) = Len(queue[p]) + 1
          /\ \A i \in 1 .. Len(queue[p]) : queue'[p][i] = queue[p][i]
          /\ queue'[p][Len(queue[p]) + 1] = Interrupt
      BY <1>1, <1>4, <2>2, QueueGrows, Zenon
    <2>4. /\ Len(queue'[p]) = n + 1 /\ \A i \in 1 .. n : queue'[p][i] = queue[p][i]
          /\ queue'[p][n + 1] = Interrupt
      BY <2>1, <2>3
    <2>5. ASSUME NEW s \in Csocks PROVE ~MarkAt(p, n + 1, s)'
      <3>1. n + 1 # -1 /\ n + 1 # 0
        OBVIOUS
      <3> QED
        BY <2>2, <2>4, <3>1 DEF MarkAt
    <2>6. ASSUME NEW s \in Csocks, at[s] # "none", thread'[p] # "ended", Alive(owner[s])',
                 thread[p] # "ended" /\ Alive(owner[s]) => Told(s, p)
          PROVE  Told(s, p)'
      BY <1>1, <1>2, <2>6, ToldStays
    <2>7. NoTwo(p)' /\ Marked(p)'
      BY <1>1, <2>1, <2>4, <2>5, <2>6, MarksGrow DEF TableInv, CsocketsStay
    <2>8. EntriesMatch(p)' /\ Accounted(p)'
      BY <1>1 DEF TableInv, EntriesMatch, Of, Accounted, Others, CsocketsStay
    <2> QED
      BY <2>7, <2>8 DEF TableInv
  <1> QED
    BY <1>3, <1>4

\* Nobody comes to life that has or had a csocket, and no reader joins again.
LEMMA AppJoins ==
  ASSUME Basic, NEW q \in Procs, AppStep(q), ~Leave(q), ~Crash(q)
  PROVE  /\ \A s \in Csocks : at[s] # "none" /\ Alive(owner[s])' => Alive(owner[s])
         /\ \A p \in Procs : thread[p] # "none" /\ p \notin intnw_pids => p \notin intnw_pids'
  <1>1. CsocketsStay /\ DOMAIN proc = Procs
    BY AppMoves DEF Basic, ProcessTypes
  <1>2. \A s \in Csocks : at[s] # "none" => owner[s] \in Procs /\ proc[owner[s]] # "none"
    BY DEF Basic, SendersInv
  <1>3. ASSUME \A r \in Procs : proc[r] # "none" /\ Alive(r)' => Alive(r)
        PROVE  \A s \in Csocks : at[s] # "none" /\ Alive(owner[s])' => Alive(owner[s])
    <2> SUFFICES ASSUME NEW s \in Csocks, at[s] # "none", Alive(owner[s])' PROVE Alive(owner[s])
      OBVIOUS
    <2>1. proc'[owner[s]] \notin {"none", "gone"}
      BY <1>1 DEF Alive, CsocketsStay
    <2> QED
      BY <1>2, <1>3, <2>1 DEF Alive
  <1>4. CASE Quiet(q)
    <2>1. \A r \in Procs : proc[r] # "none" /\ Alive(r)' => Alive(r)
      BY <1>1, <1>4 DEF Quiet, Alive
    <2>2. proc[q] = "none" => thread[q] = "none"
      BY DEF Basic, ReadersInv, ReaderInv
    <2>3. \A p \in Procs : thread[p] # "none" /\ p \notin intnw_pids => p \notin intnw_pids'
      BY <1>4, <2>2 DEF Quiet
    <2> QED
      BY <1>3, <2>1, <2>3
  <1>5. CASE BindSocket(q) \/ RemoveIfacePairLocally(q)
    <2>1. proc' = proc /\ intnw_pids' = intnw_pids
      BY <1>5 DEF BindSocket, RemoveIfacePairLocally, shared
    <2> QED
      BY <1>3, <2>1 DEF Alive
  <1>6. CASE Deinit(q)
    <2>1. proc[q] = "up" /\ proc' = [proc EXCEPT ![q] = "leaving"] /\ intnw_pids' = intnw_pids
      BY <1>6 DEF Deinit, shared
    <2>2. \A r \in Procs : proc[r] # "none" /\ Alive(r)' => Alive(r)
      BY <1>1, <2>1 DEF Alive
    <2> QED
      BY <1>3, <2>1, <2>2
  <1> QED
    BY <1>4, <1>5, <1>6, QuietSteps DEF AppStep

\* The third layer survives the step of an application.
LEMMA AppTableInv ==
  ASSUME Basic, NEW q \in Procs, AppStep(q), NEW p \in Procs,
         PairsInv(p), OwnInv(p), TableInv(p)
  PROVE  TableInv(p)'
  <1>1. CASE Leave(q) \/ Crash(q)
    <2>1. End(q) /\ intnw_pids' \subseteq intnw_pids
      BY <1>1 DEF Leave, Crash
    <2>2. CASE p # q
      BY <2>1, <2>2, EndTableElsewhere
    <2>3. CASE p = q
      <3>1. /\ thread'[p] = "ended" /\ queue'[p] = <<>> /\ held'[p].sock = None
            /\ table'[p] = {} /\ dups'[p] = {}
        BY <2>1, <2>3, EndMoves, NothingFacts
      <3>2. EntriesMatch(p)'
        BY <3>1 DEF EntriesMatch
      <3>3. Accounted(p)'
        BY <3>1 DEF Accounted, Others
      <3> QED
        BY <3>1, <3>2, <3>3, TableEnded
    <2> QED
      BY <2>2, <2>3
  <1>2. CASE ~Leave(q) /\ ~Crash(q)
    <2>1. CsocketsStay
      BY <1>2, AppMoves
    <2>2. CASE p # q
      <3>1. ProcessStays(p)
        BY <1>2, <2>2, AppMoves
      <3> QED
        BY <1>2, <2>1, <3>1, AppJoins, TableKept DEF ProcessStays
    <2>3. CASE p = q /\ Deinit(q)
      BY <2>3, DeinitTable
    <2>4. CASE p = q /\ RemoveIfacePairLocally(q)
      BY <2>4, RemovePairTable
    <2>5. CASE p = q /\ BindSocket(q)
      <3>1. thread[p] = "none" /\ UNCHANGED <<held, queue, table, dups>>
        BY <2>5 DEF BindSocket, local
      <3> QED
        BY <1>2, <2>1, <3>1, AppJoins, TableKept
    <2>6. CASE p = q /\ Quiet(q)
      BY <1>2, <2>1, <2>6, AppJoins, TableKept DEF Quiet
    <2> QED
      BY <1>2, <2>2, <2>3, <2>4, <2>5, <2>6, QuietSteps DEF AppStep
  <1> QED
    BY <1>1, <1>2

\* The third layer holds at the start.
LEMMA InitTables == Init => Tables
  <1> SUFFICES ASSUME Init, NEW p \in Procs PROVE OwnInv(p) /\ TableInv(p)
    BY DEF Tables
  <1>1. table[p] = {} /\ dups[p] = {} /\ held[p].sock = None /\ queue[p] = <<>>
    BY NothingFacts DEF Init
  <1>2. Len(queue[p]) = 0
    BY <1>1, EmptyFacts
  <1>3. Places(p) = {-1, 0}
    BY <1>2 DEF Places
  <1>4. \A i \in Places(p) : \A s \in Csocks : ~MarkAt(p, i, s)
    BY <1>1, <1>3, NothingFacts DEF MarkAt
  <1>5. NoTwo(p) /\ Marked(p)
    BY <1>4 DEF NoTwo, Marked
  <1>6. Accounted(p)
    BY <1>1 DEF Accounted, Others
  <1> QED
    BY <1>1, <1>5, <1>6 DEF OwnInv, OwnEntries, OneEntryPerNumber, TableInv, EntriesMatch

\* The third layer is inductive, given the others.
LEMMA TablesNext ==
  ASSUME Apart, Basic, Pairs, Tables, Next, ~clashed'
  PROVE  Tables'
  <1>1. mixed \subseteq mixed'
    <2>1. ASSUME NEW p \in Apps, AppStep(p) PROVE mixed' = mixed
      <3>1. p \in Procs
        BY DEF Apps
      <3>2. CASE Leave(p) \/ Crash(p)
        BY <3>1, <3>2, EndMoves DEF Leave, Crash
      <3> QED
        BY <2>1, <3>1, <3>2, AppMoves
    <2> QED
      BY <2>1, ReaderMoves, CsocketMoves DEF Next
  <1>2. ASSUME NEW p \in Procs PROVE OwnInv(p)'
    <2>1. OwnInv(p)
      BY DEF Tables
    <2> QED
      BY <2>1, AppOwn, ReaderOwn, CsocketOwn DEF Next, Apps
  <1>3. ASSUME NEW p \in Procs \ mixed' PROVE TableInv(p)'
    <2>1. OwnInv(p) /\ TableInv(p) /\ PairsInv(p)
      BY <1>1 DEF Tables, Pairs
    <2> QED
      BY <2>1, AppTableInv, ReaderTableInv, CsocketTableInv DEF Next, Apps
  <1> QED
    BY <1>2, <1>3 DEF Tables

-----------------------------------------------------------------------------
\* Fourth layer: csockets whose connect failed.

\* A reader learns of a csocket only from a descriptor.
LEMMA ReaderUnseen ==
  ASSUME Basic, NEW q \in Procs, ReaderStep(q), NEW s \in Csocks, Unseen(s)
  PROVE  Unseen(s)'
  <1> SUFFICES ASSUME NEW p \in Procs PROVE UnseenBy(p, s)'
    BY DEF Unseen
  <1>1. UnseenBy(p, s) /\ None # s
    BY NothingFacts DEF Unseen
  <1>2. CASE p # q
    BY <1>1, <1>2, ReaderMoves DEF ProcessStays, UnseenBy
  <1>3. CASE p = q
    <2>0. held \in [Procs -> Held] /\ table \in [Procs -> SUBSET Entry]
      BY DEF Basic, ProcessTypes
    <2>1. ASSUME StopReading(p) PROVE UnseenBy(p, s)'
      <3>1. held'[p] = Nothing /\ table' = table /\ DOMAIN queue'[p] = {}
        BY <2>0, <2>1, QueueEmptied DEF StopReading, Go, local
      <3> QED
        BY <1>1, <3>1, NothingFacts DEF UnseenBy
    <2>2. CASE ReceivePacket(p) /\ ~StopReading(p)
      <3>1. /\ held'[p].sock = None /\ table' = table /\ queue[p] # <<>>
            /\ queue' = [queue EXCEPT ![p] = Tail(queue[p])]
        BY <2>0, <2>2 DEF ReceivePacket, Go, local
      <3>2. \A i \in DOMAIN queue'[p] : i + 1 \in DOMAIN queue[p] /\ queue'[p][i] = queue[p][i + 1]
        <4>1. PICK n \in Nat \ {0} : n = Len(queue[p])
          BY <3>1, QueueShrinks
        <4>2. /\ DOMAIN queue[p] = 1 .. n /\ DOMAIN queue'[p] = 1 .. n - 1
              /\ Head(queue[p]) = queue[p][1]
              /\ \A i \in 1 .. n - 1 : queue'[p][i] = queue[p][i + 1]
          BY <3>1, <4>1, QueueShrinks
        <4> QED
          BY <4>2
      <3> QED
        BY <1>1, <3>1, <3>2 DEF UnseenBy
    <2>3. CASE ReceiveDescriptor(p)
      <3>1. /\ table' = table /\ queue[p] # <<>>
            /\ queue' = [queue EXCEPT ![p] = Tail(queue[p])]
            /\ held'[p].sock = IF IsDesc(Head(queue[p])) THEN Head(queue[p]).sock ELSE None
        BY <2>0, <2>3 DEF ReceiveDescriptor, Go, IsDesc, Held
      <3>2. /\ 1 \in DOMAIN queue[p] /\ Head(queue[p]) = queue[p][1]
            /\ \A i \in DOMAIN queue'[p] : i + 1 \in DOMAIN queue[p] /\ queue'[p][i] = queue[p][i + 1]
        <4>1. PICK n \in Nat \ {0} : n = Len(queue[p])
          BY <3>1, QueueShrinks
        <4>2. /\ DOMAIN queue[p] = 1 .. n /\ DOMAIN queue'[p] = 1 .. n - 1
              /\ Head(queue[p]) = queue[p][1]
              /\ \A i \in 1 .. n - 1 : queue'[p][i] = queue[p][i + 1]
          BY <3>1, <4>1, QueueShrinks
        <4> QED
          BY <4>2
      <3> QED
        BY <1>1, <3>1, <3>2 DEF UnseenBy
    <2>4. CASE ReceiverAddsPair(p)
      <3>1. held'[p] = held[p] /\ table' = table /\ queue' = queue
        BY <2>0, <2>4 DEF ReceiverAddsPair, AddMissingPair, Go
      <3> QED
        BY <1>1, <3>1 DEF UnseenBy
    <2>5. CASE ReceiverUpdates(p)
      <3>1. /\ held'[p] = Nothing
            /\ UpdateTable(p, held[p].pid, held[p].fd, held[p].remove, held[p].sock)
            /\ queue' = queue \/ queue' = [queue EXCEPT ![p] = <<>>]
        BY <2>0, <2>5 DEF ReceiverUpdates, Go
      <3>2. \A e \in table'[p] : e \in table[p] \/ e.sock = held[p].sock
        BY <2>0, <3>1 DEF UpdateTable
      <3>3. queue' = queue \/ DOMAIN queue'[p] = {}
        BY <3>1, QueueEmptied
      <3> QED
        BY <1>1, <3>1, <3>2, <3>3, NothingFacts DEF UnseenBy
    <2> QED
      BY <1>3, <2>1, <2>2, <2>3, <2>4, <2>5 DEF ReaderStep, NoticeInterrupt
  <1> QED
    BY <1>2, <1>3

\* An application's own steps teach nobody of a csocket.
LEMMA AppUnseen ==
  ASSUME Basic, NEW q \in Procs, AppStep(q), NEW s \in Csocks, Unseen(s)
  PROVE  Unseen(s)'
  <1> SUFFICES ASSUME NEW p \in Procs PROVE UnseenBy(p, s)'
    BY DEF Unseen
  <1>1. UnseenBy(p, s) /\ None # s
    BY NothingFacts DEF Unseen
  <1>2. CASE Leave(q) \/ Crash(q)
    <2>1. End(q)
      BY <1>2 DEF Leave, Crash
    <2> QED
      BY <1>1, <2>1, EndMoves, NothingFacts DEF ProcessStays, UnseenBy
  <1>3. CASE ~Leave(q) /\ ~Crash(q) /\ p # q
    BY <1>1, <1>3, AppMoves DEF ProcessStays, UnseenBy
  <1>4. CASE ~Leave(q) /\ ~Crash(q) /\ p = q
    <2>0. table \in [Procs -> SUBSET Entry]
      BY DEF Basic, ProcessTypes
    <2>1. CASE Quiet(p)
      BY <1>1, <2>1 DEF Quiet, UnseenBy
    <2>2. CASE BindSocket(p)
      BY <1>1, <2>2 DEF BindSocket, local, UnseenBy
    <2>3. CASE RemoveIfacePairLocally(p)
      BY <1>1, <2>0, <2>3 DEF RemoveIfacePairLocally, reader, UnseenBy
    <2>4. CASE Deinit(p)
      <3>1. /\ table' = table /\ held' = held
            /\ queue' = queue \/ queue' = [queue EXCEPT ![p] = Append(queue[p], Interrupt)]
        BY <2>4 DEF Deinit, local, reader
      <3>2. \A i \in DOMAIN queue'[p] :
                (i \in DOMAIN queue[p] /\ queue'[p][i] = queue[p][i]) \/ ~IsDesc(queue'[p][i])
        BY <3>1, MsgFacts, QueueGrows
      <3> QED
        BY <1>1, <3>1, <3>2 DEF UnseenBy
    <2> QED
      BY <1>4, <2>1, <2>2, <2>3, <2>4, QuietSteps DEF AppStep
  <1> QED
    BY <1>2, <1>3, <1>4

\* A csocket tells of itself only, and only when it is there to stay.
LEMMA CsocketUnseen ==
  ASSUME Basic, NEW t \in Csocks, CsocketStep(t), NEW s \in Csocks, Unseen(s),
         s # t \/ removing[t] \/ at[t] = "none"
  PROVE  Unseen(s)'
  <1> SUFFICES ASSUME NEW p \in Procs PROVE UnseenBy(p, s)'
    BY DEF Unseen
  <1>1. UnseenBy(p, s) /\ held' = held
    BY CsocketMoves DEF Unseen
  <1>2. ASSUME NEW e \in table'[p] PROVE e.sock # s
    <2>0. table \in [Procs -> SUBSET Entry]
      BY DEF Basic, ProcessTypes
    <2>1. e \in table[p] \/ e.sock = t
      BY CsocketTables
    <2>2. CASE s # t
      BY <1>1, <2>1, <2>2 DEF UnseenBy
    <2>3. CASE s = t
      <3>1. CASE UpdateTable(p, p, fd[t], removing[t], t) /\ CsocketUpdates(t)
        <4>1. removing[t]
          BY <2>3, <3>1 DEF CsocketUpdates
        <4>2. table' = [table EXCEPT ![p] = table[p] \ Entries(p, p, fd[t])]
          BY <3>1, <4>1 DEF UpdateTable
        <4> QED
          BY <1>1, <2>0, <4>2 DEF UnseenBy
      <3>2. CASE Forget(p, failed[t], IF removing[t] THEN {taken[t]} ELSE {})
        BY <1>1, <2>0, <3>2 DEF Forget, UnseenBy
      <3> QED
        BY <1>1, <3>1, <3>2, CsocketTableCases DEF UnseenBy
    <2> QED
      BY <2>2, <2>3
  <1>3. ASSUME NEW i \in DOMAIN queue'[p], IsDesc(queue'[p][i]) PROVE queue'[p][i].sock # s
    <2>1. CASE queue' = queue
      BY <1>1, <1>3, <2>1 DEF UnseenBy
    <2>2. ASSUME NEW m \in Msgs, Sends(t, m), IsDesc(m) => m.sock # s
          PROVE  queue'[p][i].sock # s
      <3>1. Target(t) \in Procs /\ queue' = [queue EXCEPT ![Target(t)] = Append(queue[Target(t)], m)]
        BY <2>2, TargetFacts DEF Sends
      <3>2. (i \in DOMAIN queue[p] /\ queue'[p][i] = queue[p][i]) \/ queue'[p][i] = m
        BY <3>1, QueueGrows
      <3> QED
        BY <1>1, <1>3, <2>2, <3>2 DEF UnseenBy
    <2>3. owner[t] \in Procs \/ at[t] \notin Writing
      BY DEF Writing, Basic, SendersInv
    <2>4. CASE SendPacket(t) /\ Sends(t, Packet(t))
      <3>1. owner[t] \in Procs
        BY <2>3, <2>4 DEF Sends
      <3>2. Packet(t) \in Msgs /\ ~IsDesc(Packet(t))
        BY <3>1, SentFacts DEF Basic
      <3> QED
        BY <2>2, <2>4, <3>2
    <2>5. CASE SendDescriptor(t) /\ Sends(t, Descriptor(t))
      <3>1. at[t] = "descriptor" /\ ~removing[t] /\ owner[t] \in Procs
        BY <2>3, <2>5 DEF SendDescriptor, Sends, Basic, SendersInv
      <3>2. s # t /\ Descriptor(t) \in Msgs /\ Descriptor(t).sock = t
        BY <3>1, SentFacts DEF Basic
      <3> QED
        BY <2>2, <2>5, <3>2
    <2> QED
      BY <2>1, <2>4, <2>5, CsocketQueues
  <1> QED
    BY <1>1, <1>2, <1>3 DEF UnseenBy

\* The second close of a failed csocket's number hits nobody, and only a csocket
\* that fails adds to those without a descriptor.
LEMMA CsocketFreed ==
  ASSUME Basic, FreedInv, NEW t \in Csocks, CsocketStep(t)
  PROVE  FreedInv'
  <1>1. /\ OthersStay(t) /\ at'[t] # "none" /\ SenderTypes'
    BY CsocketMoves
  <1>2. ASSUME NEW p \in Apps, NEW number \in Fds, Socket(p, t, number)
        PROVE  /\ \A s \in freed' : s \in freed \/ (s = t /\ at[t] = "none")
               /\ t \in freed' => removing'[t]
    <2>1. PICK fails \in BOOLEAN : /\ removing' = [removing EXCEPT ![t] = fails]
                                   /\ freed' = IF fails THEN freed \cup {t} ELSE freed
      BY <1>2 DEF Socket
    <2>2. at[t] = "none" /\ removing \in [Csocks -> BOOLEAN] /\ t \notin freed
      BY <1>2 DEF Socket, Basic, SenderTypes, FreedInv
    <2>3. CASE fails
      <3>1. removing'[t] = fails
        BY <2>1, <2>2
      <3> QED
        BY <2>1, <2>2, <2>3, <3>1
    <2>4. CASE ~fails
      BY <2>1, <2>2, <2>4
    <2> QED
      BY <2>3, <2>4
  <1>3. ASSUME RemoveFailed(t)
        PROVE  freed' \subseteq freed /\ removing' = removing
    <2>1. IsOpen(t) /\ removing' = removing
      BY <1>3 DEF RemoveFailed, IsOpen
    <2>2. \A s1 \in Csocks : IsOpen(s1) /\ owner[s1] = owner[t] /\ fd[s1] = fd[t] => s1 = t
      BY <2>1 DEF Basic, Exclusive, SameKey
    <2>3. CASE removing[t]
      <3>1. freed' = (freed \cup {s1 \in Csocks : /\ IsOpen(s1) /\ owner[s1] = owner[t]
                                                  /\ fd[s1] = fd[t]}) \ {t}
        BY <1>3, <2>3 DEF RemoveFailed
      <3> QED
        BY <2>1, <2>2, <3>1
    <2>4. CASE ~removing[t]
      BY <1>3, <2>1, <2>4 DEF RemoveFailed
    <2> QED
      BY <2>3, <2>4
  <1>4. ASSUME \A p \in Apps, number \in Fds : ~Socket(p, t, number), ~RemoveFailed(t)
        PROVE  freed' = freed /\ (removing'[t] = removing[t] \/ removing'[t])
    <2>1. CASE Destroy(t)
      BY <2>1 DEF Destroy, bounds, closes, Basic, SenderTypes
    <2>2. CASE CsocketAddsPair(t)
      BY <2>2 DEF CsocketAddsPair, AddMissingPair, bounds, closes
    <2> QED
      BY <1>4, <2>1, <2>2 DEF CsocketStep, CsocketUpdates, CopyTargets, LockToSend, SendPacket,
                              SendDescriptor, bounds, closes
  <1>5. /\ \A s \in freed' : s \in freed \/ (s = t /\ at[t] = "none")
        /\ t \in freed' => removing'[t]
    BY <1>2, <1>3, <1>4 DEF FreedInv
  <1>6. ASSUME NEW s \in Csocks, at'[s] = "none" \/ s \in freed' PROVE Unseen(s)'
    <2>1. Unseen(s)
      BY <1>1, <1>5, <1>6 DEF FreedInv, OthersStay
    <2>2. s # t \/ removing[t] \/ at[t] = "none"
      BY <1>1, <1>5, <1>6 DEF FreedInv
    <2> QED
      BY <2>1, <2>2, CsocketUnseen
  <1>7. ASSUME NEW s \in freed' PROVE s \in Csocks /\ removing'[s] /\ at'[s] # "none"
    BY <1>1, <1>5 DEF FreedInv, OthersStay
  <1> QED
    BY <1>6, <1>7 DEF FreedInv

\* The fourth layer is inductive, given the first.
LEMMA FreedNext ==
  ASSUME Basic, FreedInv, Next
  PROVE  FreedInv'
  <1> USE DEF bounds, closes
  <1>1. ASSUME NEW p \in Procs, AppStep(p) PROVE FreedInv'
    <2>1. freed' = freed
      BY <1>1 DEF AppStep, Join, BindSocket, InitMap, Deinit, Leave, Crash, End, AddIfacePair,
                  AddIfacePairLocally, RemoveIfacePair, RemoveIfacePairLocally
    <2>2. \A s \in Csocks : /\ at'[s] = "none" => at[s] = "none"
                            /\ removing[s] => removing'[s]
      <3>1. CASE Leave(p) \/ Crash(p)
        <4>1. End(p)
          BY <3>1 DEF Leave, Crash
        <4> QED
          BY <4>1, EndMoves
      <3>2. CASE ~Leave(p) /\ ~Crash(p)
        BY <1>1, <3>2, AppMoves DEF CsocketsStay
      <3> QED
        BY <3>1, <3>2
    <2> QED
      BY <1>1, <2>1, <2>2, AppUnseen DEF FreedInv
  <1>2. ASSUME NEW p \in Procs, ReaderStep(p) PROVE FreedInv'
    <2>1. freed' = freed
      BY <1>2 DEF ReaderStep, ReceivePacket, NoticeInterrupt, StopReading, ReceiveDescriptor,
                  ReceiverAddsPair, AddMissingPair, ReceiverUpdates
    <2>2. at' = at /\ removing' = removing
      BY <1>2, ReaderMoves DEF CsocketsStay
    <2> QED
      BY <1>2, <2>1, <2>2, ReaderUnseen DEF FreedInv
  <1> QED
    BY <1>1, <1>2, CsocketFreed DEF Next, Apps

-----------------------------------------------------------------------------
\* The four layers, and what follows from them.

\* A clash is not forgotten.
LEMMA ClashesStay ==
  ASSUME Next, clashed PROVE clashed'
  <1> USE DEF bounds, closes
  <1>1. ASSUME NEW p \in Apps, AppStep(p) PROVE clashed'
    BY <1>1 DEF AppStep, Join, BindSocket, InitMap, Deinit, Leave, Crash, End, AddIfacePair,
                AddIfacePairLocally, RemoveIfacePair, RemoveIfacePairLocally
  <1>2. ASSUME NEW p \in Procs, ReaderStep(p) PROVE clashed'
    BY <1>2 DEF ReaderStep, ReceivePacket, NoticeInterrupt, StopReading, ReceiveDescriptor,
                ReceiverAddsPair, AddMissingPair, ReceiverUpdates
  <1>3. ASSUME NEW s \in Csocks, CsocketStep(s) PROVE clashed'
    <2>1. ASSUME NEW p \in Apps, NEW number \in Fds, Socket(p, s, number) PROVE clashed'
      BY <2>1, Zenon DEF Socket
    <2> QED
      BY <1>3, <2>1 DEF CsocketStep, Destroy, CsocketAddsPair, AddMissingPair, CsocketUpdates,
                        CopyTargets, LockToSend, SendPacket, SendDescriptor, RemoveFailed
  <1> QED
    BY <1>1, <1>2, <1>3 DEF Next

\* Only a clash lets a duplicate have the number of a csocket.
LEMMA ApartNext ==
  ASSUME Apart, Next, ~clashed' PROVE Apart'
  <1> USE DEF bounds, closes
  <1>1. ASSUME NEW p \in Apps, AppStep(p) PROVE taken' = taken
    BY <1>1 DEF AppStep, Join, BindSocket, InitMap, Deinit, Leave, Crash, End, AddIfacePair,
                AddIfacePairLocally, RemoveIfacePair, RemoveIfacePairLocally
  <1>2. ASSUME NEW p \in Procs, ReaderStep(p) PROVE taken' = taken
    BY <1>2 DEF ReaderStep, ReceivePacket, NoticeInterrupt, StopReading, ReceiveDescriptor,
                ReceiverAddsPair, AddMissingPair, ReceiverUpdates
  <1>3. ASSUME NEW s \in Csocks, CsocketStep(s) PROVE taken' = taken
    BY <1>3 DEF CsocketStep, Socket, Destroy, CsocketAddsPair, AddMissingPair, CsocketUpdates,
                CopyTargets, LockToSend, SendPacket, SendDescriptor, RemoveFailed
  <1>4. taken' = taken
    BY <1>1, <1>2, <1>3 DEF Next
  <1> QED
    BY <1>4 DEF Apart

\* The invariant holds in every reachable state, up to a clash.
LEMMA Inductive == Spec => [](~clashed => IInv)
  <1>1. Init => IInv
    <2>1. ASSUME Init PROVE FreedInv
      <3>1. /\ freed = {} /\ held = [p \in Procs |-> Nothing] /\ table = [p \in Procs |-> {}]
            /\ queue = [p \in Procs |-> <<>>]
        BY <2>1 DEF Init
      <3>2. \A p \in Procs : held[p].sock = None /\ table[p] = {} /\ DOMAIN queue[p] = {}
        BY <3>1, EmptyFacts, NothingFacts
      <3> QED
        BY <3>1, <3>2, NothingFacts DEF FreedInv, Unseen, UnseenBy
    <2> QED
      BY <2>1, InitBasic, InitPairs, InitTables DEF IInv, Apart, Init
  <1>2. (~clashed => IInv) /\ [Next]_vars => (~clashed => IInv)'
    <2> SUFFICES ASSUME ~clashed => IInv, [Next]_vars, ~clashed' PROVE IInv'
      OBVIOUS
    <2>1. CASE Next
      <3>1. IInv
        BY <2>1, ClashesStay
      <3> QED
        BY <2>1, <3>1, ApartNext, BasicNext, PairsNext, TablesNext, FreedNext DEF IInv
    <2>2. CASE UNCHANGED vars
      <3> USE <2>2 DEF vars, shared, local, reader, csocket, bounds, closes
      <3>0. IInv /\ Apart'
        BY DEF IInv, Apart
      <3>1. CsocketsStay /\ UNCHANGED <<intnw_pids, mixed, proc, thread, held, queue, table, dups>>
        BY DEF CsocketsStay
      <3>2. Basic'
        BY <3>0, <3>1 DEF IInv, Basic, SenderTypes, ProcessTypes, SendersInv, Exclusive, ReadersInv,
                    ReaderInv, QueuesInv, QueueInv, CsocketsStay, IsOpen, Alive, SameKey
      <3>3. Pairs'
        BY <3>0, <3>1, PairsElsewhere, CsocketsSettled DEF IInv, Pairs
      <3>4. ASSUME NEW p \in Procs PROVE OwnInv(p)'
        BY <3>0, <3>1, OwnKept, FewerKeepOne DEF IInv, Tables, OwnInv
      <3>5. ASSUME NEW p \in Procs \ mixed PROVE TableInv(p)'
        <4>1. \A s \in Csocks : Alive(owner[s])' => Alive(owner[s])
          BY <3>1 DEF Alive, CsocketsStay
        <4> QED
          BY <3>0, <3>1, <4>1, TableKept DEF IInv, Pairs, Tables
      <3>6. FreedInv'
        BY <3>0, <3>1 DEF IInv, FreedInv, Unseen, UnseenBy, CsocketsStay
      <3> QED
        BY <3>0, <3>1, <3>2, <3>3, <3>4, <3>5, <3>6 DEF IInv, Tables
    <2> QED
      BY <2>1, <2>2
  <1> QED
    BY <1>1, <1>2, PTL DEF Spec

\* As long as no two senders' datagrams have got between each other, and nobody
\* has got the number of a failed csocket before ~CSocket closes it again, every
\* descriptor a process got from another one is in its table or in the hands of
\* its reader, and every descriptor in the table is open: neither
\* add_or_remove_csocket nor remove_proc nor the removal of a pair of interfaces
\* leaks one or closes one that is still in use (libcmm_shmem).
THEOREM DescriptorsNeverLeak == Spec => []DescriptorsAreAccountedFor
  <1>1. (~clashed => IInv) => DescriptorsAreAccountedFor
    BY DEF IInv, Tables, TableInv, Accounted, DescriptorsAreAccountedFor
  <1> QED
    BY <1>1, Inductive, PTL

\* A csocket that a process counts as in use is open, or the packet with its
\* removal is on its way to the process, or one of the two has ended, been
\* dropped by remove_proc or mixed up two senders; all as long as nobody has got
\* the number of a failed csocket before ~CSocket closes it again.
THEOREM CountedIsNeverStale == Spec => []CountedIsOpenOrOnItsWayOut
  <1>1. ASSUME IInv, NEW p \in Procs, NEW e \in table[p]
        PROVE  \/ \E s \in Csocks : /\ IsOpen(s) /\ s \notin freed /\ owner[s] = e.pid /\ fd[s] = e.fd
                                    /\ e.sock = s \/ p \in mixed
               \/ /\ e.pid # p
                  /\ \/ RemovalOnItsWay(p, e) \/ ~Alive(e.pid)
                     \/ p \notin intnw_pids \/ thread[p] = "ended" \/ p \in mixed
    <2>0. e.sock \in Csocks => e.sock \notin freed
      BY <1>1 DEF IInv, FreedInv, Unseen, UnseenBy
    <2>1. CASE e.pid = p
      BY <1>1, <2>0, <2>1 DEF IInv, Tables, OwnInv, OwnEntries, Of
    <2>2. CASE e.pid # p /\ p \in mixed
      BY <2>2
    <2>3. CASE e.pid # p /\ p \notin mixed /\ thread[p] # "ended" /\ Alive(e.pid) /\ ~RemovalOnItsWay(p, e)
      <3> DEFINE s == e.sock
      <3>1. Basic /\ TableInv(p)
        BY <1>1, <2>3 DEF IInv, Tables
      <3>2. s \in Csocks /\ at[s] # "none" /\ owner[s] = e.pid /\ fd[s] = e.fd
        BY <3>1 DEF TableInv, EntriesMatch, Of
      <3>3. Len(queue[p]) \in Nat
        BY <3>1, QueueTypes
      <3>4. -1 \in Places(p) /\ MarkAt(p, -1, s)
        BY <2>3, <3>3 DEF Places, MarkAt
      <3> HIDE DEF s
      <3>5. ASSUME NEW m \in (-1) + 1 .. Len(queue[p]), RemAt(p, m, s) PROVE FALSE
        <4>1. CASE m = 0
          BY <2>3, <3>2, <3>5, <4>1 DEF RemAt, RemovalOnItsWay
        <4>2. CASE m # 0
          <5>1. m \in 1 .. Len(queue[p])
            BY <3>3, <4>2
          <5> QED
            BY <2>3, <3>2, <3>5, <4>2, <5>1 DEF RemAt, RemovalOnItsWay, IsPacket
        <4> QED
          BY <4>1, <4>2
      <3>6. Told(s, p)
        BY <2>3, <3>1, <3>2, <3>4, <3>5 DEF TableInv, Marked
      <3>7. s = e.sock
        BY DEF s
      <3> QED
        BY <2>0, <2>3, <3>2, <3>6, <3>7 DEF Told, WillBeTold, Dropped
    <2> QED
      BY <2>1, <2>2, <2>3
  <1>2. (~clashed => IInv) => CountedIsOpenOrOnItsWayOut
    BY <1>1 DEF CountedIsOpenOrOnItsWayOut
  <1> QED
    BY <1>2, Inductive, PTL

==============================================================================
