---------------------------- MODULE Scout_proofs ----------------------------
(***************************************************************************)
(* For any number of applications, interfaces, changes and restarts: what  *)
(* the scout has written to a subscriber adds up to the interfaces as they *)
(* are.                                                                    *)
(*                                                                         *)
(* While the main thread walks over the map that is not so, and what the   *)
(* listener thread writes to a new subscriber was copied some time before. *)
(* The invariant says of each interface that the subscriber, or what the   *)
(* listener is about to write to it, has its present state, or that the    *)
(* walk has not come to the subscriber and carries news of the interface.  *)
(* It rests on who may write where: a descriptor belongs to one process,   *)
(* and an entry whose ipc_sock is not set to the listener.                 *)
(*                                                                         *)
(* The last part is about the connecting multisocket whose handshake the   *)
(* scout's reports of interfaces interrupt (Bootstrap): a status of 0      *)
(* means a connection that both ends have.  It outlives the turn of the    *)
(* loop that set it, so the invariant follows it through a retry.          *)
(***************************************************************************)
EXTENDS Scout, Bootstrap, FiniteSetTheorems, TLAPS

Msg == (Ifaces \cup {"none"}) \X Nat

States == {"running", "stopping", "stopped", "deaf", "exiting", "crashed"}
ListenerType == [pc : {"select", "accept", "read", "copy", "write", "assert"},
                 fd : Nat, ifaces : Seq(Msg), ready : SUBSET Fds]
MainType == [pc : {"idle", "notify", "remove", "erase"},
             msgs : Seq(Ifaces \X Nat), at : Nat, failed : Seq(Nat)]

TypeInv ==
    /\ scout \in States
    /\ net_interfaces \in [Ifaces -> Nat]
    /\ subscriber_procs \in [Fds -> {"none", "new", "set"}]
    /\ active_fds \subseteq Fds
    /\ open \in [Fds -> Procs \cup {NoProc}]
    /\ listener \in ListenerType
    /\ main \in MainType
    /\ backlog \in Seq(Procs)
    /\ request \in [Procs -> Requests]
    /\ client \in [Procs -> {"out", "init", "running", "left", "failed", "cut"}]
    /\ view \in [Procs -> [Ifaces -> Nat]]
    /\ chan \in [Procs -> Seq(Msg)]

\* A process has at most one connection, which waits to be accepted or is open.
Placed ==
    /\ \A f, g \in Fds : open[f] = open[g] /\ open[f] # NoProc => f = g
    /\ \A m, n \in DOMAIN backlog : backlog[m] = backlog[n] => m = n
    /\ \A n \in DOMAIN backlog : /\ client[backlog[n]] # "out"
                                 /\ \A f \in Fds : open[f] # backlog[n]
    /\ \A f \in Fds : open[f] # NoProc => client[open[f]] # "out"
    /\ listener.pc = "accept" => backlog # <<>>

\* The listener has a connection in hand.
InHand == listener.pc \in {"copy", "write"}

\* An entry whose ipc_sock is not set belongs to the subscriber in hand; the
\* main thread erases only others.
Entries ==
    /\ InHand => /\ listener.fd \in Fds /\ open[listener.fd] # NoProc
                 /\ request[open[listener.fd]] = "subscribe" =>
                       subscriber_procs[listener.fd] = "new"
    /\ \A f \in Fds : subscriber_procs[f] = "new" =>
          InHand /\ listener.fd = f /\ request[open[f]] = "subscribe"
    /\ main.pc = "erase" /\ main.at \in Fds => subscriber_procs[main.at] = "set"

Untold(p) == chan[p] = <<>> /\ view[p] = Nothing

\* Nothing is written to a process before its subscription is complete.
Fresh ==
    /\ \A p \in Procs : client[p] = "out" => Untold(p)
    /\ \A n \in DOMAIN backlog :
          request[backlog[n]] = "subscribe" => Untold(backlog[n])
    /\ InHand /\ request[open[listener.fd]] = "subscribe" => Untold(open[listener.fd])

About(q, i) == \E n \in DOMAIN q : q[n][1] = i

\* All that the messages q say of i is v.
Agree(q, i, v) == \A n \in DOMAIN q : q[n][1] = i => q[n][2] = v

\* WillKnow, for what was written and is known of one interface
Ends(q, known, i, v) ==
    \/ known = v /\ \A n \in DOMAIN q : q[n][1] # i
    \/ \E n \in DOMAIN q : q[n] = <<i, v>> /\ \A m \in n + 1 .. Len(q) : q[m][1] # i

\* News of i for descriptor f is on its way.
Pending(f, i) == main.pc = "notify" /\ f > main.at /\ About(main.msgs, i)

\* The main thread tells what is the case.
NewsIsCurrent ==
    scout = "running" /\ main.pc = "notify" =>
        \A i \in Ifaces : Agree(main.msgs, i, net_interfaces[i])

\* A subscriber that is there and was not missed.
Listens(f) ==
    /\ open[f] # NoProc /\ request[open[f]] = "subscribe"
    /\ open[f] \notin missed /\ client[open[f]] # "left"

Informed ==
    scout = "running" =>
        \A f \in Fds : subscriber_procs[f] = "set" /\ Listens(f) =>
            \A i \in Ifaces :
                \/ Ends(chan[open[f]], view[open[f]][i], i, net_interfaces[i])
                \/ Pending(f, i)

\* What the listener copied for the subscriber in hand is still so.
Copied ==
    scout = "running" /\ listener.pc = "write" /\ Listens(listener.fd) =>
        \A i \in Ifaces :
            \/ /\ Agree(listener.ifaces, i, net_interfaces[i])
               /\ About(listener.ifaces, i) \/ net_interfaces[i] = Down
            \/ Pending(listener.fd, i)

\* A service that was stopped has no connections to subscribers.
Disconnected ==
    scout = "stopped" =>
        /\ listener.pc = "select"
        /\ \A f \in Fds : subscriber_procs[f] = "set" => open[f] = NoProc

IInv == /\ TypeInv /\ Placed /\ Entries /\ Fresh
        /\ NewsIsCurrent /\ Informed /\ Copied /\ Disconnected

-----------------------------------------------------------------------------
\* Messages

\* A set of numbers has a least one.
LEMMA LeastNumber ==
  ASSUME NEW T, T \subseteq Nat, T # {}
  PROVE  \E x \in T : \A y \in T : x <= y
  <1>1. PICK x \in T : \A y \in T : ~(<<y, x>> \in OpToRel(<, Nat))
    BY NatLessThanWellFounded, WFMin
  <1>2. ASSUME NEW y \in T PROVE x <= y
    <2>1. CASE y < x
      <3>1. <<y, x>> \in Nat \X Nat /\ <<y, x>>[1] < <<y, x>>[2]
        BY <2>1
      <3>2. <<y, x>> \in OpToRel(<, Nat)
        BY <3>1, Zenon DEF OpToRel
      <3> QED
        BY <1>1, <3>2, Zenon
    <2> QED
      BY <2>1
  <1> QED
    BY <1>2

\* A process reads the first message.
LEMMA EndsTail ==
  ASSUME NEW q \in Seq(Msg), q # <<>>, NEW known, NEW i, NEW v, Ends(q, known, i, v)
  PROVE  Ends(Tail(q), IF Head(q)[1] = i THEN Head(q)[2] ELSE known, i, v)
  <1> DEFINE t == Tail(q)
  <1>1. /\ Len(q) \in Nat /\ Len(q) >= 1 /\ Len(t) = Len(q) - 1
        /\ DOMAIN q = 1 .. Len(q) /\ DOMAIN t = 1 .. Len(t)
        /\ \A n \in DOMAIN t : t[n] = q[n + 1] /\ n + 1 \in DOMAIN q
        /\ Head(q) = q[1]
    OBVIOUS
  <1> HIDE DEF t
  <1>2. CASE known = v /\ \A n \in DOMAIN q : q[n][1] # i
    BY <1>1, <1>2 DEF Ends
  <1>3. ASSUME NEW n \in DOMAIN q, q[n] = <<i, v>>, \A m \in n + 1 .. Len(q) : q[m][1] # i
        PROVE  Ends(t, IF Head(q)[1] = i THEN Head(q)[2] ELSE known, i, v)
    <2>1. CASE n = 1
      BY <1>1, <1>3, <2>1 DEF Ends
    <2>2. CASE n # 1
      <3>1. n - 1 \in DOMAIN t /\ t[n - 1] = <<i, v>>
        BY <1>1, <1>3, <2>2
      <3>2. \A m \in (n - 1) + 1 .. Len(t) : t[m][1] # i
        BY <1>1, <1>3, <2>2
      <3> QED
        BY <3>1, <3>2 DEF Ends
    <2> QED
      BY <2>1, <2>2
  <1> QED
    BY <1>2, <1>3 DEF Ends, t

\* What is written after the last message about i is about others.
LEMMA EndsApart ==
  ASSUME NEW q \in Seq(Msg), NEW r \in Seq(Msg), NEW known, NEW i, NEW v,
         Ends(q, known, i, v), ~About(r, i)
  PROVE  Ends(q \o r, known, i, v)
  <1> DEFINE t == q \o r
  <1>1. /\ Len(q) \in Nat /\ Len(r) \in Nat /\ Len(t) = Len(q) + Len(r)
        /\ DOMAIN q = 1 .. Len(q) /\ DOMAIN r = 1 .. Len(r) /\ DOMAIN t = 1 .. Len(t)
        /\ \A n \in DOMAIN q : t[n] = q[n]
        /\ \A n \in DOMAIN t : n \notin DOMAIN q => n - Len(q) \in DOMAIN r /\ t[n] = r[n - Len(q)]
    OBVIOUS
  <1> HIDE DEF t
  <1>2. \A n \in DOMAIN t : n \notin DOMAIN q => t[n][1] # i
    BY <1>1 DEF About
  <1>3. CASE known = v /\ \A n \in DOMAIN q : q[n][1] # i
    BY <1>1, <1>2, <1>3 DEF Ends
  <1>4. ASSUME NEW n \in DOMAIN q, q[n] = <<i, v>>, \A m \in n + 1 .. Len(q) : q[m][1] # i
        PROVE  Ends(t, known, i, v)
    <2>1. n \in DOMAIN t /\ t[n] = <<i, v>>
      BY <1>1, <1>4
    <2>2. \A m \in n + 1 .. Len(t) : t[m][1] # i
      BY <1>1, <1>2, <1>4
    <2> QED
      BY <2>1, <2>2 DEF Ends
  <1> QED
    BY <1>3, <1>4 DEF Ends, t

\* What is written says v of i.
LEMMA EndsSaid ==
  ASSUME NEW q \in Seq(Msg), NEW r \in Seq(Msg), NEW known, NEW i, NEW v,
         About(r, i), Agree(r, i, v)
  PROVE  Ends(q \o r, known, i, v)
  <1> DEFINE t == q \o r
             T == {k \in Nat : k < Len(r) /\ r[Len(r) - k][1] = i}
  <1>1. /\ Len(q) \in Nat /\ Len(r) \in Nat /\ Len(t) = Len(q) + Len(r)
        /\ DOMAIN q = 1 .. Len(q) /\ DOMAIN r = 1 .. Len(r) /\ DOMAIN t = 1 .. Len(t)
        /\ \A n \in DOMAIN r : /\ n + Len(q) \in DOMAIN t /\ t[n + Len(q)] = r[n]
                               /\ r[n] = <<r[n][1], r[n][2]>>
    BY DEF Msg
  <1> HIDE DEF t
  <1>2. PICK n \in DOMAIN r : r[n][1] = i
    BY DEF About
  <1>3. Len(r) - n \in T
    BY <1>1, <1>2
  <1>4. PICK k \in T : \A l \in T : k <= l
    BY <1>3, LeastNumber
  <1>5. Len(r) - k \in DOMAIN r /\ r[Len(r) - k] = <<i, v>>
    <2>1. k \in Nat /\ k < Len(r) /\ r[Len(r) - k][1] = i
      BY <1>4
    <2>2. Len(r) - k \in DOMAIN r
      BY <1>1, <2>1
    <2> QED
      BY <1>1, <2>1, <2>2 DEF Agree
  <1>6. ASSUME NEW m \in Len(r) - k + 1 .. Len(r), r[m][1] = i PROVE FALSE
    <2>1. Len(r) - m \in T
      BY <1>1, <1>4, <1>6
    <2>2. k <= Len(r) - m
      BY <1>4, <2>1
    <2> QED
      BY <1>1, <1>4, <1>6, <2>2
  <1> DEFINE N == Len(r) - k + Len(q)
  <1>7. N \in DOMAIN t /\ t[N] = <<i, v>>
    BY <1>1, <1>5
  <1>8. ASSUME NEW m \in N + 1 .. Len(t) PROVE t[m][1] # i
    <2>1. m - Len(q) \in Len(r) - k + 1 .. Len(r) /\ m - Len(q) \in DOMAIN r
      BY <1>1, <1>4, <1>8
    <2>2. t[m] = r[m - Len(q)]
      BY <1>1, <2>1
    <2> QED
      BY <1>6, <2>1, <2>2
  <1> HIDE DEF N
  <1> QED
    BY <1>7, <1>8 DEF Ends, t

\* A set listed as a sequence: every element is there.
LEMMA SetToSeqFacts ==
  ASSUME NEW S, IsFiniteSet(S)
  PROVE  /\ Cardinality(S) \in Nat
         /\ SetToSeq(S) \in [1 .. Cardinality(S) -> S]
         /\ \A x \in S : \E n \in 1 .. Cardinality(S) : SetToSeq(S)[n] = x
  <1> DEFINE N == Cardinality(S)
             s == SetToSeq(S)
  <1>1. N \in Nat /\ ExistsBijection(1 .. N, S)
    BY FS_CardinalityType
  <1>2. \E g \in [1 .. N -> S] : IsInjective(g)
    BY <1>1 DEF ExistsBijection, Bijection, Injection
  <1>3. s \in [1 .. N -> S] /\ IsInjective(s)
    BY <1>2 DEF SetToSeq
  <1>4. s \in Injection(1 .. N, S)
    BY <1>3 DEF Injection
  <1>5. Cardinality(1 .. N) = N
    BY <1>1, FS_Interval
  <1> HIDE DEF s
  <1>6. s \in Surjection(1 .. N, S)
    BY <1>4, <1>5, FS_Injection
  <1> QED
    BY <1>1, <1>3, <1>6 DEF Surjection, s

\* Descriptors are as many as processes, and none is 0.
LEMMA FdsAreNumbers == /\ Cardinality(Procs) \in Nat /\ Fds = 1 .. Cardinality(Procs)
                       /\ Fds \subseteq Nat \ {0}
  BY FS_CardinalityType, ScoutAssumption DEF Fds

\* There is a descriptor for the connection that is accepted, and the lowest one.
LEMMA FreeDescriptor ==
  ASSUME IInv, listener.pc = "accept"
  PROVE  /\ Head(backlog) \in Procs /\ backlog # <<>>
         /\ LET f == CHOOSE g \in Fds : open[g] = NoProc /\ \A h \in 1 .. g - 1 : open[h] # NoProc
            IN  f \in Fds /\ open[f] = NoProc
  <1> DEFINE p == Head(backlog)
             N == Cardinality(Procs)
             Free == {g \in Fds : open[g] = NoProc}
  <1>1. backlog # <<>> /\ p \in Procs /\ p = backlog[1] /\ 1 \in DOMAIN backlog
    BY DEF IInv, TypeInv, Placed
  <1>2. \A f \in Fds : open[f] # p
    BY <1>1 DEF IInv, Placed
  <1>3. N \in Nat /\ Fds = 1 .. N
    BY FdsAreNumbers
  <1>4. IsFiniteSet(Fds) /\ Cardinality(Fds) = N
    BY <1>3, FS_Interval
  <1>5. IsFiniteSet(Procs \ {p}) /\ Cardinality(Procs \ {p}) = N - 1
    BY <1>1, FS_RemoveElement, ScoutAssumption
  <1>6. Free # {}
    <2> SUFFICES ASSUME Free = {} PROVE FALSE
      OBVIOUS
    <2>1. open \in [Fds -> Procs \ {p}]
      BY <1>2 DEF IInv, TypeInv
    <2>2. \E x, y \in Fds : x # y /\ open[x] = open[y]
      BY <1>3, <1>4, <1>5, <2>1, FS_PigeonHole
    <2> QED
      BY <2>2 DEF IInv, Placed
  <1>7. PICK g \in Free : \A h \in Free : g <= h
    <2>1. Free \subseteq Nat
      BY <1>3
    <2> HIDE DEF Free
    <2> QED
      BY <1>6, <2>1, LeastNumber
  <1>8. g \in Fds /\ open[g] = NoProc /\ \A h \in 1 .. g - 1 : open[h] # NoProc
    BY <1>3, <1>7
  <1> QED
    BY <1>1, <1>8

-----------------------------------------------------------------------------

\* At the start nobody is connected.
LEMMA Initial == Init => IInv
  <1> SUFFICES ASSUME Init PROVE IInv
    OBVIOUS
  <1> USE DEF Init
  <1>1. <<>> \in Seq(Msg) /\ <<>> \in Seq(Ifaces \X Nat) /\ <<>> \in Seq(Nat) /\ <<>> \in Seq(Procs)
    OBVIOUS
  <1>2. /\ listener.pc = "select" /\ main.pc = "idle" /\ backlog = <<>>
        /\ listener \in ListenerType /\ main \in MainType
    BY <1>1 DEF ListenerType, MainType, Selecting, Idle
  <1>3. net_interfaces \in [Ifaces -> Nat] /\ view \in [Procs -> [Ifaces -> Nat]]
    BY DEF Nothing, Down
  <1>4. TypeInv
    BY <1>1, <1>2, <1>3 DEF TypeInv, States, Requests
  <1> QED
    BY <1>2, <1>4 DEF IInv, Placed, Entries, InHand, Fresh, Untold, NewsIsCurrent, Informed, Copied,
                      Disconnected

-----------------------------------------------------------------------------
\* The applications

\* A process that connects has been told nothing, and waits to be accepted.
LEMMA ConnectStep ==
  ASSUME IInv, NEW p \in Procs, NEW r \in Requests, ConnectToScout(p, r)
  PROVE  IInv'
  <1> USE DEF IInv, ConnectToScout, table, bounds
  <1>0. /\ Len(backlog) \in Nat /\ DOMAIN backlog = 1 .. Len(backlog)
        /\ DOMAIN backlog' = 1 .. Len(backlog) + 1
        /\ \A n \in DOMAIN backlog : backlog'[n] = backlog[n] /\ backlog[n] \in Procs \ {p}
        /\ backlog'[Len(backlog) + 1] = p /\ backlog' # <<>>
        /\ \A f \in Fds : open[f] # p
    <2>1. backlog \in Seq(Procs) /\ backlog' = Append(backlog, p)
      BY DEF TypeInv
    <2>2. /\ Len(backlog) \in Nat /\ DOMAIN backlog = 1 .. Len(backlog)
          /\ DOMAIN backlog' = 1 .. Len(backlog) + 1
          /\ \A n \in DOMAIN backlog : backlog'[n] = backlog[n] /\ backlog[n] \in Procs
          /\ backlog'[Len(backlog) + 1] = p
      BY <2>1
    <2>3. client[p] = "out" /\ backlog' # <<>>
      BY <2>1
    <2>4. (\A f \in Fds : open[f] # p) /\ \A n \in DOMAIN backlog : backlog[n] # p
      <3>1. p # NoProc
        BY ScoutAssumption
      <3> QED
        BY <2>3, <3>1 DEF Placed
    <2> QED
      BY <2>2, <2>3, <2>4
  <1>1. TypeInv'
    BY DEF TypeInv
  <1>2. Placed'
    BY <1>0 DEF Placed, TypeInv
  <1>3. Entries'
    BY DEF Entries, InHand, TypeInv, Placed
  <1>4. Fresh'
    <2>1. \A q \in Procs : (client'[q] = "out" => client[q] = "out") /\ Untold(q)' = Untold(q)
      BY DEF Untold, TypeInv
    <2>2. Untold(p)
      BY DEF Fresh
    <2>3. \A n \in DOMAIN backlog' : request'[backlog'[n]] = "subscribe" => Untold(backlog'[n])
      BY <1>0, <2>2 DEF Fresh, TypeInv
    <2>4. InHand => open[listener.fd] # p /\ open[listener.fd] \in Procs
      BY <1>0 DEF Entries, TypeInv
    <2> QED
      BY <1>0, <2>1, <2>3, <2>4 DEF Fresh, InHand, TypeInv, Untold
  <1>5. NewsIsCurrent' /\ Disconnected'
    BY DEF NewsIsCurrent, Disconnected
  <1>6. Informed'
    BY DEF Informed, Pending, Listens, TypeInv, Placed
  <1>7. Copied'
    BY DEF Copied, Pending, Listens, TypeInv, Placed, Entries, InHand
  <1> QED
    BY <1>1, <1>2, <1>3, <1>4, <1>5, <1>6, <1>7

\* A message of the channel is about an interface or the sentinel.
LEMMA HeadFacts ==
  ASSUME IInv, NEW p \in Procs, chan[p] # <<>>
  PROVE  /\ Tail(chan[p]) \in Seq(Msg) /\ Head(chan[p]) \in Msg
         /\ Apply(view[p], Head(chan[p])) \in [Ifaces -> Nat]
         /\ \A i \in Ifaces : Apply(view[p], Head(chan[p]))[i] =
               IF Head(chan[p])[1] = i THEN Head(chan[p])[2] ELSE view[p][i]
  <1>1. chan[p] \in Seq(Msg) /\ view[p] \in [Ifaces -> Nat]
    BY DEF IInv, TypeInv
  <1>2. Tail(chan[p]) \in Seq(Msg) /\ Head(chan[p]) \in Msg
    BY <1>1
  <1>3. Head(chan[p])[2] \in Nat
    BY <1>2 DEF Msg
  <1> QED
    BY <1>1, <1>2, <1>3 DEF Apply

\* Reading a message moves it from what was written to what is known.
LEMMA UpdateStep ==
  ASSUME IInv, NEW p \in Procs, Update(p)
  PROVE  IInv'
  <1> USE DEF IInv, Update, table, bounds
  <1> DEFINE m == Head(chan[p])
  <1>0. /\ chan' = [chan EXCEPT ![p] = Tail(chan[p])] /\ chan[p] # <<>>
        /\ view' = [view EXCEPT ![p] = Apply(view[p], m)]
        /\ Tail(chan[p]) \in Seq(Msg) /\ Apply(view[p], m) \in [Ifaces -> Nat]
        /\ \A i \in Ifaces : Apply(view[p], m)[i] = IF m[1] = i THEN m[2] ELSE view[p][i]
    BY HeadFacts
  <1>1. TypeInv'
    BY <1>0 DEF TypeInv
  <1>2. Placed'
    BY DEF Placed, TypeInv
  <1>3. Entries'
    BY DEF Entries, InHand, TypeInv, Placed
  <1>4. Fresh'
    BY DEF Fresh, Untold, InHand, TypeInv, Placed, Entries
  <1>5. NewsIsCurrent' /\ Disconnected'
    BY DEF NewsIsCurrent, Disconnected
  <1>6. Informed'
    <2> SUFFICES ASSUME scout = "running", NEW f \in Fds, subscriber_procs[f] = "set", Listens(f)',
                        NEW i \in Ifaces
                 PROVE  \/ Ends(chan'[open[f]], view'[open[f]][i], i, net_interfaces[i])
                        \/ Pending(f, i)
      BY DEF Informed, Pending
    <2>1. Listens(f) /\ open[f] \in Procs
      BY DEF Listens, TypeInv
    <2>2. Ends(chan[open[f]], view[open[f]][i], i, net_interfaces[i]) \/ Pending(f, i)
      BY <2>1 DEF Informed
    <2>3. CASE open[f] = p /\ Ends(chan[p], view[p][i], i, net_interfaces[i])
      <3>1. Ends(Tail(chan[p]), IF m[1] = i THEN m[2] ELSE view[p][i], i, net_interfaces[i])
        BY <1>0, <2>3, EndsTail DEF TypeInv
      <3>2. view'[p][i] = (IF m[1] = i THEN m[2] ELSE view[p][i]) /\ chan'[p] = Tail(chan[p])
        BY <1>0 DEF TypeInv
      <3> QED
        BY <2>3, <3>1, <3>2
    <2>4. CASE open[f] # p
      BY <2>1, <2>2, <2>4 DEF TypeInv
    <2> QED
      BY <2>2, <2>3, <2>4
  <1>7. Copied'
    BY DEF Copied, Pending, Listens, TypeInv, Placed, Entries, InHand
  <1> QED
    BY <1>1, <1>2, <1>3, <1>4, <1>5, <1>6, <1>7

\* A program that asked and does not subscribe is nobody's subscriber.
LEMMA AnswerStep ==
  ASSUME IInv, NEW p \in Procs, Answer(p)
  PROVE  IInv'
  <1> USE DEF IInv, Answer, table, bounds
  <1>0. /\ chan' = [chan EXCEPT ![p] = Tail(chan[p])] /\ chan[p] # <<>>
        /\ \E k \in [Ifaces -> Nat] : view' = [view EXCEPT ![p] = k]
        /\ \E c \in {"left", "init"} : client' = [client EXCEPT ![p] = c]
        /\ Tail(chan[p]) \in Seq(Msg) /\ request[p] # "subscribe" /\ client[p] = "init"
        /\ UNCHANGED <<scout, net_interfaces, table, listener, main, backlog, request, missed, bounds>>
    <2>1. Nothing \in [Ifaces -> Nat]
      BY DEF Nothing, Down
    <2>2. Apply(view[p], Head(chan[p])) \in [Ifaces -> Nat] /\ Tail(chan[p]) \in Seq(Msg)
      BY HeadFacts
    <2> QED
      BY <2>1, <2>2
  <1> USE <1>0 DEF table
  <1> HIDE DEF Answer
  <1>1. TypeInv'
    BY DEF TypeInv
  <1>2. Placed'
    BY DEF Placed, TypeInv
  <1>3. Entries'
    BY DEF Entries, InHand, TypeInv, Placed
  <1>4. Fresh'
    BY DEF Fresh, Untold, InHand, TypeInv, Placed, Entries
  <1>5. NewsIsCurrent' /\ Disconnected'
    BY DEF NewsIsCurrent, Disconnected
  <1>6. Informed'
    BY DEF Informed, Pending, Listens, TypeInv
  <1>7. Copied'
    BY DEF Copied, Pending, Listens, TypeInv, Entries, InHand
  <1> QED
    BY <1>1, <1>2, <1>3, <1>4, <1>5, <1>6, <1>7

\* A client that loses the scout keeps what it knows.
LEMMA EndOfStreamStep ==
  ASSUME IInv, NEW p \in Procs, EndOfStream(p)
  PROVE  IInv'
  <1> USE DEF IInv, EndOfStream, table, bounds
  <1>1. TypeInv'
    BY DEF TypeInv
  <1>2. Placed'
    BY DEF Placed, TypeInv
  <1>3. Entries'
    BY DEF Entries, InHand, TypeInv, Placed
  <1>4. Fresh'
    BY DEF Fresh, Untold, InHand, TypeInv, Placed, Entries
  <1>5. NewsIsCurrent' /\ Disconnected'
    BY DEF NewsIsCurrent, Disconnected
  <1>6. Informed'
    BY DEF Informed, Pending, Listens, TypeInv, Placed
  <1>7. Copied'
    BY DEF Copied, Pending, Listens, TypeInv, Placed, Entries, InHand
  <1> QED
    BY <1>1, <1>2, <1>3, <1>4, <1>5, <1>6, <1>7

\* A process that leaves asks nothing more of the scout.
LEMMA LeaveStep ==
  ASSUME IInv, NEW p \in Procs, Leave(p)
  PROVE  IInv'
  <1> USE DEF IInv, Leave, table, bounds
  <1>1. TypeInv'
    <2>1. Nothing \in [Ifaces -> Nat] /\ <<>> \in Seq(Msg)
      BY DEF Nothing, Down
    <2> QED
      BY <2>1 DEF TypeInv
  <1>2. Placed'
    BY DEF Placed, TypeInv
  <1>3. Entries'
    BY DEF Entries, InHand, TypeInv, Placed
  <1>4. Fresh'
    BY DEF Fresh, Untold, InHand, TypeInv, Placed, Entries
  <1>5. NewsIsCurrent' /\ Disconnected'
    BY DEF NewsIsCurrent, Disconnected
  <1>6. Informed'
    BY DEF Informed, Pending, Listens, TypeInv, Placed
  <1>7. Copied'
    BY DEF Copied, Pending, Listens, TypeInv, Placed, Entries, InHand
  <1> QED
    BY <1>1, <1>2, <1>3, <1>4, <1>5, <1>6, <1>7

-----------------------------------------------------------------------------
\* The listener thread

\* The states in which the two threads have nothing in hand.
LEMMA RestingTypes ==
  /\ Selecting \in ListenerType /\ Selecting.pc = "select"
  /\ Idle \in MainType /\ Idle.pc = "idle"
  <1>1. <<>> \in Seq(Msg) /\ <<>> \in Seq(Ifaces \X Nat) /\ <<>> \in Seq(Nat)
    OBVIOUS
  <1> QED
    BY <1>1 DEF ListenerType, MainType, Selecting, Idle

\* A scout that crashes has no connections.
LEMMA CrashStep ==
  ASSUME IInv, Crash
  PROVE  IInv'
  <1>1. /\ scout' = "crashed" /\ listener'.pc = "select" /\ main'.pc = "idle" /\ backlog' = <<>>
        /\ listener' \in ListenerType /\ main' \in MainType /\ active_fds' = {}
        /\ subscriber_procs' = [f \in Fds |-> "none"] /\ open' = [f \in Fds |-> NoProc]
        /\ UNCHANGED <<net_interfaces, request, client, view, chan, missed>>
    BY RestingTypes DEF Crash, procs
  <1>2. TypeInv'
    <2>1. <<>> \in Seq(Procs)
      OBVIOUS
    <2> QED
      BY <1>1, <2>1 DEF IInv, TypeInv, States
  <1> QED
    BY <1>1, <1>2 DEF IInv, Placed, Entries, InHand, Fresh, Untold, NewsIsCurrent, Informed,
                      Copied, Disconnected, TypeInv

\* IPC_Listener ends; the entries that were set have no connection then.
LEMMA LeaveListenerStep ==
  ASSUME IInv, NEW how \in {"stopped", "deaf"}, listener.pc \in {"select", "accept"},
         LeaveListener(how)
  PROVE  IInv'
  <1>1. /\ scout' = how /\ listener'.pc = "select" /\ backlog' = <<>> /\ active_fds' = {}
        /\ listener' \in ListenerType
        /\ open' = [f \in Fds |-> IF subscriber_procs[f] = "set" THEN NoProc ELSE open[f]]
        /\ UNCHANGED <<net_interfaces, subscriber_procs, main, request, client, view, chan, missed>>
    BY RestingTypes DEF LeaveListener, procs
  <1>2. TypeInv'
    <2>1. <<>> \in Seq(Procs)
      OBVIOUS
    <2> QED
      BY <1>1, <2>1 DEF IInv, TypeInv, States
  <1>3. Placed'
    BY <1>1 DEF IInv, Placed, TypeInv
  <1>4. Entries' /\ Disconnected'
    BY <1>1 DEF IInv, Entries, InHand, Disconnected, TypeInv
  <1> QED
    BY <1>1, <1>2, <1>3, <1>4 DEF IInv, Fresh, Untold, InHand, NewsIsCurrent, Informed, Copied, TypeInv

\* The listener chooses what to do next and changes nothing else.
LEMMA SelectStep ==
  ASSUME IInv, Select
  PROVE  IInv'
  <1>1. /\ listener' \in ListenerType /\ listener'.pc \in {"accept", "read"}
        /\ listener'.pc = "accept" => backlog # <<>>
        /\ listener.pc = "select" /\ scout = "running"
        /\ UNCHANGED <<scout, net_interfaces, subscriber_procs, active_fds, open, main, backlog,
                       request, client, view, chan, missed>>
    <2>1. Readable \subseteq Fds
      BY DEF IInv, TypeInv, Readable
    <2> QED
      BY <2>1 DEF Select, IInv, TypeInv, ListenerType, table, procs
  <1>2. TypeInv'
    BY <1>1 DEF IInv, TypeInv
  <1>3. Placed' /\ Entries' /\ Fresh'
    BY <1>1 DEF IInv, Placed, Entries, Fresh, Untold, InHand
  <1>4. Informed' /\ NewsIsCurrent'
    BY <1>1 DEF IInv, Informed, NewsIsCurrent, Listens, Pending
  <1> QED
    BY <1>1, <1>2, <1>3, <1>4 DEF IInv, Copied, Disconnected

\* An accepted connection gets a descriptor of its own, and a subscriber an
\* entry whose ipc_sock is not set.
LEMMA AcceptStep ==
  ASSUME IInv, Accept
  PROVE  IInv'
  <1>1. CASE Crash
    BY <1>1, CrashStep
  <1>2. CASE ~Crash
    <2> DEFINE f == CHOOSE g \in Fds : open[g] = NoProc /\ \A h \in 1 .. g - 1 : open[h] # NoProc
               p == Head(backlog)
    <2>1. /\ scout = "running" /\ listener.pc = "accept"
          /\ backlog' = Tail(backlog)
          /\ open' = [open EXCEPT ![f] = p]
          /\ request[p] = "subscribe" => subscriber_procs[f] = "none"
          /\ subscriber_procs' = IF request[p] = "subscribe"
                                 THEN [subscriber_procs EXCEPT ![f] = "new"] ELSE subscriber_procs
          /\ listener' = [listener EXCEPT !.pc = "copy", !.fd = f]
          /\ UNCHANGED <<scout, net_interfaces, active_fds, main, request, client, view, chan, missed>>
      BY <1>2 DEF Accept, Insert, procs
    <2>2. p \in Procs /\ backlog # <<>> /\ f \in Fds /\ open[f] = NoProc
      BY <2>1, FreeDescriptor
    <2> HIDE DEF f
    <2>3. /\ backlog \in Seq(Procs) /\ backlog' \in Seq(Procs) /\ p = backlog[1] /\ 1 \in DOMAIN backlog
          /\ \A n \in DOMAIN backlog' : /\ n \in Nat /\ n + 1 \in DOMAIN backlog
                                        /\ n + 1 # 1 /\ backlog'[n] = backlog[n + 1]
          /\ \A n \in DOMAIN backlog : backlog[n] \in Procs
      BY <2>1, <2>2 DEF IInv, TypeInv
    <2> HIDE DEF p
    <2>4. /\ listener' \in ListenerType /\ listener'.pc = "copy" /\ listener'.fd = f
          /\ p # NoProc
      <3>1. f \in Nat
        BY <2>2, FdsAreNumbers
      <3> QED
        BY <2>1, <2>2, <3>1, ScoutAssumption DEF IInv, TypeInv, ListenerType
    <2>5. TypeInv'
      BY <2>1, <2>2, <2>3, <2>4 DEF IInv, TypeInv
    <2>6. /\ \A g \in Fds : g # f => open'[g] = open[g] /\ open[g] # p
          /\ open'[f] = p /\ client[p] # "out"
          /\ \A n \in DOMAIN backlog' : backlog'[n] # p
      BY <2>1, <2>2, <2>3 DEF IInv, TypeInv, Placed
    <2>7. Placed'
      <3>1. \A m, n \in DOMAIN backlog' : backlog'[m] = backlog'[n] => m = n
        <4> SUFFICES ASSUME NEW m \in DOMAIN backlog', NEW n \in DOMAIN backlog',
                            backlog'[m] = backlog'[n]
                     PROVE  m = n
          OBVIOUS
        <4>1. m + 1 = n + 1
          BY <2>3 DEF IInv, Placed
        <4> QED
          BY <2>3, <4>1
      <3>2. \A n \in DOMAIN backlog' : /\ client[backlog'[n]] # "out"
                                       /\ \A g \in Fds : open'[g] # backlog'[n]
        <4> TAKE n \in DOMAIN backlog'
        <4>1. n + 1 \in DOMAIN backlog /\ backlog'[n] = backlog[n + 1]
          BY <2>3
        <4>2. client[backlog[n + 1]] # "out" /\ \A g \in Fds : open[g] # backlog[n + 1]
          BY <4>1 DEF IInv, Placed
        <4>3. backlog'[n] # p
          BY <2>6
        <4> QED
          BY <2>6, <4>1, <4>2, <4>3
      <3>3. \A g, h \in Fds : open'[g] = open'[h] /\ open'[g] # NoProc => g = h
        BY <2>6 DEF IInv, Placed
      <3>4. \A g \in Fds : open'[g] # NoProc => client[open'[g]] # "out"
        BY <2>6 DEF IInv, Placed
      <3> QED
        BY <2>1, <2>4, <3>1, <3>2, <3>3, <3>4 DEF Placed
    <2>8. Entries'
      <3>1. \A g \in Fds : subscriber_procs[g] # "new"
        BY <2>1 DEF IInv, Entries, InHand
      <3> QED
        BY <2>1, <2>2, <2>4, <2>6, <3>1 DEF IInv, Entries, InHand, TypeInv
    <2>9. Fresh'
      <3>1. request[p] = "subscribe" => Untold(p)
        BY <2>3 DEF IInv, Fresh
      <3>2. \A n \in DOMAIN backlog' : request[backlog'[n]] = "subscribe" => Untold(backlog'[n])
        BY <2>3 DEF IInv, Fresh
      <3> QED
        BY <2>1, <2>4, <2>6, <3>1, <3>2 DEF IInv, Fresh, Untold, InHand
    <2>10. Informed'
      BY <2>1, <2>2, <2>6 DEF IInv, Informed, Listens, Pending, TypeInv
    <2>11. NewsIsCurrent' /\ Copied' /\ Disconnected'
      BY <2>1, <2>4 DEF IInv, NewsIsCurrent, Copied, Disconnected
    <2> QED
      BY <2>5, <2>7, <2>8, <2>9, <2>10, <2>11 DEF IInv
  <1> QED
    BY <1>1, <1>2

\* What init_subscriber copies: the interfaces that are up, as they are.
LEMMA CopyIfacesStep ==
  ASSUME IInv, CopyIfaces
  PROVE  IInv'
  <1> DEFINE kind == request[open[listener.fd]]
             List(asked) == [n \in 1 .. Cardinality(asked) |->
                               LET i == SetToSeq(asked)[n] IN <<i, net_interfaces[i]>>]
             More == IF kind = "get_ifaces" THEN <<Sentinel>> ELSE <<>>
  <1>1. PICK asked \in IF kind = "is_ip_connected" THEN {{i} : i \in Ifaces} ELSE {UpIfaces} :
           listener' = [listener EXCEPT !.pc = "write", !.ifaces = List(asked) \o More]
    BY DEF CopyIfaces
  <1>2. /\ listener.pc = "copy"
        /\ UNCHANGED <<scout, net_interfaces, subscriber_procs, active_fds, open, main, backlog,
                       request, client, view, chan, missed>>
    BY DEF CopyIfaces, table, procs
  <1>3. asked \subseteq Ifaces /\ (kind = "subscribe" => asked = UpIfaces)
    BY <1>1 DEF UpIfaces
  <1>4. IsFiniteSet(asked)
    BY <1>3, FS_Subset, ScoutAssumption
  <1>5. /\ Cardinality(asked) \in Nat
        /\ SetToSeq(asked) \in [1 .. Cardinality(asked) -> asked]
        /\ \A x \in asked : \E n \in 1 .. Cardinality(asked) : SetToSeq(asked)[n] = x
    BY <1>4, SetToSeqFacts
  <1> DEFINE s == List(asked)
             N == Cardinality(asked)
  <1>6. \A n \in 1 .. N : /\ s[n] = <<SetToSeq(asked)[n], net_interfaces[SetToSeq(asked)[n]]>>
                          /\ SetToSeq(asked)[n] \in asked
                          /\ s[n] \in Msg
    BY <1>3, <1>5 DEF IInv, TypeInv, Msg
  <1>7. s \in Seq(Msg) /\ Len(s) = N /\ DOMAIN s = 1 .. N
    <2>1. s \in [1 .. N -> Msg]
      BY <1>6
    <2> HIDE DEF s
    <2> QED
      BY <1>5, <2>1
  <1>8. More \in Seq(Msg)
    <2>1. Sentinel \in Msg
      BY DEF Sentinel, Msg, Down
    <2> QED
      BY <2>1
  <1>9. kind = "subscribe" => s \o More = s
    <2> HIDE DEF s
    <2> QED
      BY <1>7
  <1> HIDE DEF s, More
  <1>10. /\ listener' \in ListenerType /\ listener'.pc = "write" /\ listener'.fd = listener.fd
         /\ listener'.ifaces = s \o More
    <2>1. listener' = [listener EXCEPT !.pc = "write", !.ifaces = s \o More]
      BY <1>1 DEF s
    <2>2. s \o More \in Seq(Msg)
      BY <1>7, <1>8
    <2> QED
      BY <2>1, <2>2 DEF IInv, TypeInv, ListenerType
  <1>11. TypeInv'
    BY <1>2, <1>10 DEF IInv, TypeInv
  <1>12. Placed' /\ Entries'
    BY <1>2, <1>10 DEF IInv, Placed, Entries, InHand
  <1>13. Fresh'
    BY <1>2, <1>10 DEF IInv, Fresh, InHand, Untold
  <1>14. NewsIsCurrent' /\ Disconnected' /\ Informed'
    BY <1>2, <1>10 DEF IInv, NewsIsCurrent, Disconnected, Informed, Listens, Pending
  <1>15. Copied'
    <2> SUFFICES ASSUME kind = "subscribe", NEW i \in Ifaces
                 PROVE  /\ Agree(s, i, net_interfaces[i])
                        /\ About(s, i) \/ net_interfaces[i] = Down
      BY <1>2, <1>9, <1>10 DEF Copied, Listens
    <2>1. Agree(s, i, net_interfaces[i])
      BY <1>6, <1>7 DEF Agree
    <2>2. CASE i \in UpIfaces
      <3>1. PICK n \in 1 .. N : SetToSeq(asked)[n] = i
        BY <1>3, <1>5, <2>2
      <3>2. s[n][1] = i
        BY <1>6, <3>1
      <3> QED
        BY <1>7, <2>1, <3>2 DEF About
    <2> QED
      BY <2>1, <2>2 DEF UpIfaces
  <1> QED
    BY <1>11, <1>12, <1>13, <1>14, <1>15 DEF IInv

\* Only processes wait to be accepted.
LEMMA NobodyWaits == IInv => \A n \in DOMAIN backlog : backlog[n] # NoProc
  BY ScoutAssumption DEF IInv, TypeInv

\* A subscription is complete, or a question answered.
LEMMA SubscribedStep ==
  ASSUME IInv, Subscribed
  PROVE  IInv'
  <1> DEFINE f == listener.fd
             p == open[f]
             stays == request[p] = "subscribe" /\ (client[p] # "left" \/ listener.ifaces = <<>>)
             written == IF client[p] = "left" THEN chan[p] ELSE chan[p] \o listener.ifaces
             entry == IF stays THEN "set"
                      ELSE IF request[p] = "subscribe" THEN "none" ELSE subscriber_procs[f]
  <1>1. /\ listener.pc = "write"
        /\ chan' = [chan EXCEPT ![p] = written]
        /\ open' = IF stays THEN open ELSE [open EXCEPT ![f] = NoProc]
        /\ subscriber_procs' = [subscriber_procs EXCEPT ![f] = entry]
        /\ active_fds' = IF stays THEN active_fds \cup {f} ELSE active_fds
        /\ listener' = [pc |-> IF listener.ready = {} THEN "select" ELSE "assert",
                        fd |-> 0, ifaces |-> <<>>, ready |-> listener.ready]
        /\ UNCHANGED <<scout, net_interfaces, main, backlog, request, client, view, missed>>
    BY DEF Subscribed
  <1>2. /\ f \in Fds /\ p \in Procs /\ p # NoProc
        /\ request[p] = "subscribe" => subscriber_procs[f] = "new" /\ Untold(p)
        /\ \A g \in Fds : g # f => open[g] # p /\ subscriber_procs[g] # "new"
        /\ request[p] # "subscribe" => subscriber_procs[f] # "new"
    BY <1>1 DEF IInv, TypeInv, Entries, InHand, Placed, Fresh
  <1>3. chan[p] \in Seq(Msg) /\ listener.ifaces \in Seq(Msg) /\ written \in Seq(Msg)
    BY <1>2 DEF IInv, TypeInv, ListenerType
  <1>4. listener' \in ListenerType /\ listener'.pc \in {"select", "assert"}
    <2>1. <<>> \in Seq(Msg) /\ listener.ready \subseteq Fds
      BY DEF IInv, TypeInv, ListenerType
    <2> QED
      BY <1>1, <2>1 DEF ListenerType
  <1>5. entry \in {"none", "set"}
    BY <1>2 DEF IInv, TypeInv
  <1>6. /\ \A g \in Fds : g # f => open'[g] = open[g] /\ subscriber_procs'[g] = subscriber_procs[g]
        /\ open'[f] = IF stays THEN p ELSE NoProc
        /\ subscriber_procs'[f] = entry
        /\ \A q \in Procs : q # p => chan'[q] = chan[q]
        /\ chan'[p] = written
    BY <1>1, <1>2 DEF IInv, TypeInv
  <1> HIDE DEF written, entry, stays
  <1>7. TypeInv'
    BY <1>1, <1>2, <1>3, <1>4, <1>5 DEF IInv, TypeInv
  <1>8. Placed'
    <2>1. \A g \in Fds : open'[g] \in {open[g], NoProc}
      BY <1>2, <1>6
    <2> QED
      BY <1>1, <1>4, <2>1, NobodyWaits DEF IInv, Placed
  <1>9. Entries'
    <2>1. main.pc = "erase" /\ main.at = f => entry = "set"
      BY <1>2 DEF IInv, Entries, entry
    <2> QED
      BY <1>1, <1>2, <1>4, <1>5, <1>6, <2>1 DEF IInv, Entries, InHand
  <1>10. Fresh'
    <2>1. \A q \in Procs : q # p => Untold(q)' = Untold(q)
      BY <1>1, <1>6 DEF Untold
    <2>2. client[p] # "out" /\ \A n \in DOMAIN backlog : backlog[n] # p /\ backlog[n] \in Procs
      BY <1>2 DEF IInv, Placed, TypeInv
    <2> QED
      BY <1>1, <1>4, <2>1, <2>2 DEF IInv, Fresh, InHand, Untold
  <1>11. NewsIsCurrent' /\ Copied' /\ Disconnected'
    BY <1>1, <1>2, <1>4 DEF IInv, NewsIsCurrent, Copied, Disconnected
  <1>12. Informed'
    <2> SUFFICES ASSUME scout = "running", NEW g \in Fds, subscriber_procs'[g] = "set", Listens(g)',
                        NEW i \in Ifaces
                 PROVE  \/ Ends(chan'[open'[g]], view[open'[g]][i], i, net_interfaces[i])
                        \/ Pending(g, i)
      BY <1>1 DEF Informed, Pending
    <2>1. CASE g # f
      <3>1. open'[g] = open[g] /\ subscriber_procs[g] = "set" /\ Listens(g)
        BY <1>1, <1>6, <2>1 DEF Listens
      <3>2. open[g] \in Procs /\ open[g] # p
        BY <1>2, <2>1, <3>1 DEF Listens, IInv, TypeInv
      <3> QED
        BY <1>6, <3>1, <3>2 DEF IInv, Informed
    <2>2. CASE g = f
      <3>1. open'[f] = p /\ stays /\ Listens(f) /\ client[p] # "left" /\ request[p] = "subscribe"
        BY <1>1, <1>6, <2>2 DEF Listens
      <3>2. /\ chan[p] = <<>> /\ view[p][i] = Down
            /\ chan'[p] = chan[p] \o listener.ifaces
        BY <1>2, <1>6, <3>1 DEF Untold, Nothing, written
      <3>3. \/ /\ Agree(listener.ifaces, i, net_interfaces[i])
               /\ About(listener.ifaces, i) \/ net_interfaces[i] = Down
            \/ Pending(f, i)
        BY <1>1, <3>1 DEF IInv, Copied
      <3>4. CASE Agree(listener.ifaces, i, net_interfaces[i]) /\ About(listener.ifaces, i)
        <4>1. Ends(chan[p] \o listener.ifaces, Down, i, net_interfaces[i])
          BY <1>3, <3>4, EndsSaid
        <4> QED
          BY <2>2, <3>1, <3>2, <4>1
      <3>5. CASE ~About(listener.ifaces, i) /\ net_interfaces[i] = Down
        <4>1. Ends(chan[p], Down, i, Down)
          BY <3>2 DEF Ends
        <4>2. Ends(chan[p] \o listener.ifaces, Down, i, Down)
          BY <1>3, <3>5, <4>1, EndsApart
        <4> QED
          BY <2>2, <3>1, <3>2, <3>5, <4>2
      <3> QED
        BY <2>2, <3>3, <3>4, <3>5
    <2> QED
      BY <2>1, <2>2
  <1> QED
    BY <1>7, <1>8, <1>9, <1>10, <1>11, <1>12 DEF IInv

\* A connection at its end goes with its entry, wherever the walk is.
LEMMA ForgetSubscriberStep ==
  ASSUME IInv, ForgetSubscriber
  PROVE  IInv'
  <1>1. CASE Crash
    BY <1>1, CrashStep
  <1>2. CASE ~Crash
    <2>1. PICK f :
             /\ ~(main.pc = "erase" /\ main.at = f)
             /\ open' = [open EXCEPT ![f] = NoProc]
             /\ subscriber_procs' = [subscriber_procs EXCEPT ![f] = "none"]
             /\ active_fds' = active_fds \ {f}
             /\ listener' = [listener EXCEPT
                               !.ready = listener.ready \ {f},
                               !.pc = IF listener.ready = {f} THEN "select" ELSE "read"]
      BY <1>2 DEF ForgetSubscriber
    <2>2. /\ listener.pc = "read"
          /\ UNCHANGED <<scout, net_interfaces, main, backlog, request, client, view, chan, missed>>
      BY <1>2 DEF ForgetSubscriber, procs
    <2>3. listener' \in ListenerType /\ listener'.pc \in {"select", "read"}
      BY <2>1 DEF IInv, TypeInv, ListenerType
    <2>4. \A g \in Fds : \/ open'[g] = open[g] /\ subscriber_procs'[g] = subscriber_procs[g]
                         \/ g = f /\ open'[g] = NoProc /\ subscriber_procs'[g] = "none"
      BY <2>1 DEF IInv, TypeInv
    <2>5. TypeInv'
      BY <2>1, <2>2, <2>3 DEF IInv, TypeInv
    <2>6. Placed'
      BY <2>2, <2>3, <2>4, NobodyWaits DEF IInv, Placed
    <2>7. Entries'
      BY <2>1, <2>2, <2>3, <2>4 DEF IInv, Entries, InHand
    <2>8. Fresh'
      BY <2>2, <2>3 DEF IInv, Fresh, InHand, Untold
    <2>9. Informed'
      BY <2>2, <2>4 DEF IInv, Informed, Listens, Pending
    <2>10. NewsIsCurrent' /\ Copied' /\ Disconnected'
      BY <2>2, <2>3 DEF IInv, NewsIsCurrent, Copied, Disconnected
    <2> QED
      BY <2>5, <2>6, <2>7, <2>8, <2>9, <2>10 DEF IInv
  <1> QED
    BY <1>1, <1>2

-----------------------------------------------------------------------------
\* The main thread

\* What the main thread sends speaks of one interface ...
LEMMA OneNews ==
  ASSUME NEW i \in Ifaces, NEW v \in Nat
  PROVE  /\ << <<i, v>> >> \in Seq(Ifaces \X Nat)
         /\ \A k, x : /\ About(<< <<i, v>> >>, k) <=> k = i
                      /\ Agree(<< <<i, v>> >>, k, x) <=> (k = i => v = x)
  BY DEF About, Agree

\* ... or of two.
LEMMA TwoNews ==
  ASSUME NEW i \in Ifaces, NEW v \in Nat, NEW j \in Ifaces, NEW w \in Nat
  PROVE  /\ << <<i, v>>, <<j, w>> >> \in Seq(Ifaces \X Nat)
         /\ \A k, x : /\ About(<< <<i, v>>, <<j, w>> >>, k) <=> k \in {i, j}
                      /\ Agree(<< <<i, v>>, <<j, w>> >>, k, x) <=>
                            (k = i => v = x) /\ (k = j => w = x)
  BY DEF About, Agree

\* The interfaces change, and the walk begins: of those that changed there is
\* news for every descriptor.
LEMMA ChangeStep ==
  ASSUME IInv, Updating, NEW msgs \in Seq(Ifaces \X Nat), Notify(msgs),
         net_interfaces' \in [Ifaces -> Nat],
         \A i \in Ifaces : /\ net_interfaces'[i] # net_interfaces[i] => About(msgs, i)
                           /\ Agree(msgs, i, net_interfaces'[i])
  PROVE  IInv'
  <1>1. /\ main' \in MainType /\ main'.pc = "notify" /\ main'.at = 0 /\ main'.msgs = msgs
        /\ main.pc = "idle" /\ scout \in {"running", "deaf"}
        /\ UNCHANGED <<scout, subscriber_procs, active_fds, open, listener, backlog, request, client,
                       view, chan, missed>>
    <2>1. <<>> \in Seq(Nat)
      OBVIOUS
    <2> QED
      BY <2>1 DEF Notify, Updating, MainType, table, procs
  <1>2. TypeInv'
    BY <1>1 DEF IInv, TypeInv
  <1>3. Placed' /\ Entries' /\ Fresh' /\ Disconnected'
    BY <1>1 DEF IInv, Placed, Entries, Fresh, InHand, Untold, Disconnected
  <1>4. NewsIsCurrent'
    BY <1>1 DEF NewsIsCurrent
  <1>5. \A f \in Fds, i \in Ifaces : /\ ~Pending(f, i)
                                     /\ net_interfaces'[i] # net_interfaces[i] => Pending(f, i)'
    BY <1>1, FdsAreNumbers DEF Pending
  <1>6. Informed'
    BY <1>1, <1>5 DEF IInv, Informed, Listens
  <1>7. Copied'
    BY <1>1, <1>5 DEF IInv, Copied, Listens, Entries, InHand
  <1> QED
    BY <1>2, <1>3, <1>4, <1>6, <1>7 DEF IInv

\* A change of one interface, and the walk that tells of it.
LEMMA UpdateNetworkStep ==
  ASSUME IInv, NEW i \in Ifaces, NEW v \in 0 .. MaxValue, UpdateNetwork(i, v)
  PROVE  IInv'
  <1>1. v \in Nat
    BY ScoutAssumption
  <1>2. net_interfaces' = [net_interfaces EXCEPT ![i] = v] /\ Updating /\ Notify(<< <<i, v>> >>)
    BY DEF UpdateNetwork
  <1>3. /\ net_interfaces' \in [Ifaces -> Nat] /\ net_interfaces'[i] = v
        /\ \A j \in Ifaces : j # i => net_interfaces'[j] = net_interfaces[j]
    BY <1>1, <1>2 DEF IInv, TypeInv
  <1>4. /\ << <<i, v>> >> \in Seq(Ifaces \X Nat)
        /\ \A j \in Ifaces : /\ net_interfaces'[j] # net_interfaces[j] => About(<< <<i, v>> >>, j)
                             /\ Agree(<< <<i, v>> >>, j, net_interfaces'[j])
    BY <1>1, <1>3, OneNews
  <1> QED
    BY <1>2, <1>3, <1>4, ChangeStep

\* A slice of a trace changes both networks and tells of both.
LEMMA EmulateSliceStep ==
  ASSUME IInv, NEW i \in Ifaces, NEW v \in 0 .. MaxValue, NEW w \in 0 .. MaxValue,
         EmulateSlice(i, v, w)
  PROVE  IInv'
  <1> DEFINE c == Cellular
             both == << <<i, v>>, <<c, w>> >>
             swapped == << <<c, w>>, <<i, v>> >>
             one == << <<c, w>> >>
             msgs == IF v # Down THEN both ELSE IF net_interfaces[i] # Down THEN swapped ELSE one
  <1>1. v \in Nat /\ w \in Nat /\ c \in Ifaces
    BY ScoutAssumption
  <1>2. /\ net_interfaces' = [net_interfaces EXCEPT ![i] = v, ![c] = w] /\ Updating /\ i # c
        /\ Notify(msgs)
    BY DEF EmulateSlice
  <1>3. /\ net_interfaces' \in [Ifaces -> Nat] /\ net_interfaces'[i] = v /\ net_interfaces'[c] = w
        /\ \A j \in Ifaces \ {i, c} : net_interfaces'[j] = net_interfaces[j]
    BY <1>1, <1>2 DEF IInv, TypeInv
  <1>4. ASSUME NEW q \in {both, swapped}
        PROVE  /\ q \in Seq(Ifaces \X Nat)
               /\ \A j \in Ifaces : /\ net_interfaces'[j] # net_interfaces[j] => About(q, j)
                                    /\ Agree(q, j, net_interfaces'[j])
    <2>1. CASE q = both
      BY <1>1, <1>2, <1>3, <2>1, TwoNews
    <2>2. CASE q = swapped
      BY <1>1, <1>2, <1>3, <2>2, TwoNews
    <2> QED
      BY <2>1, <2>2
  <1>5. ASSUME net_interfaces[i] = Down, v = Down
        PROVE  /\ one \in Seq(Ifaces \X Nat)
               /\ \A j \in Ifaces : /\ net_interfaces'[j] # net_interfaces[j] => About(one, j)
                                    /\ Agree(one, j, net_interfaces'[j])
    BY <1>1, <1>2, <1>3, <1>5, OneNews
  <1>6. /\ msgs \in Seq(Ifaces \X Nat)
        /\ \A j \in Ifaces : /\ net_interfaces'[j] # net_interfaces[j] => About(msgs, j)
                             /\ Agree(msgs, j, net_interfaces'[j])
    BY <1>4, <1>5
  <1> HIDE DEF msgs
  <1> QED
    BY <1>2, <1>3, <1>6, ChangeStep

\* The walk comes to the next entry.
LEMMA NotifySubscriberStep ==
  ASSUME IInv, NotifySubscriber
  PROVE  IInv'
  <1> DEFINE f == CHOOSE g \in Rest : \A h \in Rest : g <= h
             p == open[f]
  <1>1. /\ main.pc = "notify" /\ Rest # {}
        /\ UNCHANGED <<scout, net_interfaces, subscriber_procs, active_fds, open, listener, backlog,
                       request, client, view>>
        /\ \/ main' = [main EXCEPT !.at = f, !.failed = Append(main.failed, f)]
           \/ main' = [main EXCEPT !.at = f]
        /\ \/ subscriber_procs[f] = "new" /\ missed' = missed \cup {p} /\ UNCHANGED chan
           \/ /\ subscriber_procs[f] = "set" /\ UNCHANGED missed
              /\ IF p = NoProc \/ client[p] = "left" THEN UNCHANGED chan
                 ELSE chan' = [chan EXCEPT ![p] = chan[p] \o main.msgs]
    BY DEF NotifySubscriber, table
  <1>2. f \in Rest /\ \A h \in Rest : f <= h
    <2>1. Rest \subseteq Nat
      BY FdsAreNumbers DEF Rest
    <2> QED
      BY <1>1, <2>1, LeastNumber
  <1> HIDE DEF f
  <1>3. f \in Fds /\ f \in Nat /\ f > main.at
    BY <1>2, FdsAreNumbers DEF Rest
  <1>4. /\ main' \in MainType /\ main'.pc = "notify" /\ main'.at = f /\ main'.msgs = main.msgs
        /\ main.at \in Nat /\ main.msgs \in Seq(Msg)
    <2>1. main \in MainType /\ Append(main.failed, f) \in Seq(Nat)
      BY <1>3 DEF IInv, TypeInv, MainType
    <2>2. main.msgs \in Seq(Ifaces \X Nat)
      BY <2>1 DEF MainType
    <2>3. Ifaces \X Nat \subseteq Msg
      BY DEF Msg
    <2>4. main.msgs \in Seq(Msg)
      BY <2>2, <2>3
    <2> QED
      BY <1>1, <1>3, <2>1, <2>4 DEF MainType
  <1>5. /\ DOMAIN chan' = Procs
        /\ \A q \in Procs : \/ chan'[q] = chan[q]
                            \/ /\ q = p /\ chan'[q] = chan[q] \o main.msgs
                               /\ subscriber_procs[f] = "set"
    BY <1>1 DEF IInv, TypeInv
  <1>6. chan' \in [Procs -> Seq(Msg)]
    <2>1. CASE p = NoProc \/ UNCHANGED chan
      BY <1>1, <2>1 DEF IInv, TypeInv
    <2>2. CASE p # NoProc /\ chan' = [chan EXCEPT ![p] = chan[p] \o main.msgs]
      <3>1. p \in Procs /\ chan \in [Procs -> Seq(Msg)]
        BY <1>3, <2>2 DEF IInv, TypeInv
      <3>2. chan[p] \o main.msgs \in Seq(Msg)
        BY <1>4, <3>1
      <3> QED
        BY <2>2, <3>1, <3>2
    <2> QED
      BY <1>1, <2>1, <2>2
  <1>7. TypeInv'
    BY <1>1, <1>4, <1>6 DEF IInv, TypeInv
  <1>8. Placed' /\ Entries' /\ NewsIsCurrent' /\ Disconnected'
    BY <1>1, <1>4 DEF IInv, Placed, Entries, InHand, NewsIsCurrent, Disconnected
  <1>9. Fresh'
    <2>1. ASSUME NEW q \in Procs, q # p \/ subscriber_procs[f] # "set" PROVE Untold(q)' = Untold(q)
      BY <1>1, <1>5, <2>1 DEF Untold
    <2>2. \A n \in DOMAIN backlog : backlog[n] # p /\ backlog[n] \in Procs
      BY <1>3 DEF IInv, Placed, TypeInv
    <2>3. p \in Procs => client[p] # "out"
      BY <1>3, ScoutAssumption DEF IInv, Placed
    <2>4. InHand /\ request[open[listener.fd]] = "subscribe" =>
             open[listener.fd] \in Procs /\ (open[listener.fd] # p \/ subscriber_procs[f] # "set")
      BY <1>3 DEF IInv, TypeInv, Entries, Placed
    <2> QED
      BY <1>1, <2>1, <2>2, <2>3, <2>4 DEF IInv, Fresh, InHand, Untold
  <1>10. \A g \in Fds, i \in Ifaces :
            Pending(g, i) /\ g # f /\ subscriber_procs[g] # "none" => Pending(g, i)'
    BY <1>1, <1>2, <1>3, <1>4, FdsAreNumbers DEF Pending, Rest
  <1>11. Informed'
    <2> SUFFICES ASSUME scout = "running", NEW g \in Fds, subscriber_procs[g] = "set", Listens(g)',
                        NEW i \in Ifaces
                 PROVE  \/ Ends(chan'[open[g]], view[open[g]][i], i, net_interfaces[i])
                        \/ Pending(g, i)'
      BY <1>1 DEF Informed
    <2>1. Listens(g) /\ open[g] \in Procs /\ open[g] # NoProc /\ client[open[g]] # "left"
      BY <1>1 DEF Listens, IInv, TypeInv
    <2>2. Ends(chan[open[g]], view[open[g]][i], i, net_interfaces[i]) \/ Pending(g, i)
      BY <2>1 DEF IInv, Informed
    <2>3. CASE g # f
      <3>1. open[g] # p
        BY <1>3, <2>1, <2>3 DEF IInv, Placed
      <3> QED
        BY <1>5, <1>10, <2>1, <2>2, <2>3, <3>1
    <2>4. CASE g = f
      <3>1. chan'[p] = chan[p] \o main.msgs /\ chan[p] \in Seq(Msg)
        BY <1>1, <2>1, <2>4 DEF IInv, TypeInv
      <3>2. CASE About(main.msgs, i)
        <4>1. Agree(main.msgs, i, net_interfaces[i])
          BY <1>1 DEF IInv, NewsIsCurrent
        <4>2. Ends(chan[p] \o main.msgs, view[p][i], i, net_interfaces[i])
          BY <1>4, <3>1, <3>2, <4>1, EndsSaid
        <4> QED
          BY <2>4, <3>1, <4>2
      <3>3. CASE ~About(main.msgs, i)
        <4>1. Ends(chan[p], view[p][i], i, net_interfaces[i])
          BY <2>2, <2>4, <3>3 DEF Pending
        <4>2. Ends(chan[p] \o main.msgs, view[p][i], i, net_interfaces[i])
          BY <1>4, <3>1, <3>3, <4>1, EndsApart
        <4> QED
          BY <2>4, <3>1, <4>2
      <3> QED
        BY <3>2, <3>3
    <2> QED
      BY <2>3, <2>4
  <1>12. Copied'
    <2> SUFFICES ASSUME scout = "running", listener.pc = "write", Listens(listener.fd)',
                        NEW i \in Ifaces, Pending(listener.fd, i)
                 PROVE  Pending(listener.fd, i)'
      BY <1>1 DEF IInv, Copied, Listens
    <2>1. listener.fd \in Fds /\ subscriber_procs[listener.fd] = "new"
      BY <1>1 DEF IInv, Entries, InHand, Listens
    <2>2. listener.fd # f
      BY <1>1, <2>1 DEF Listens
    <2> QED
      BY <1>1, <1>10, <2>1, <2>2 DEF Pending
  <1> QED
    BY <1>7, <1>8, <1>9, <1>11, <1>12 DEF IInv

\* The walk is over: nothing is pending for an entry of the map.
LEMMA EndOfMapStep ==
  ASSUME IInv, EndOfMap
  PROVE  IInv'
  <1>1. /\ main.pc = "notify" /\ Rest = {} /\ main' \in MainType /\ main'.pc = "remove"
        /\ UNCHANGED <<scout, net_interfaces, subscriber_procs, active_fds, open, listener, backlog,
                       request, client, view, chan, missed>>
    BY DEF EndOfMap, table, procs, IInv, TypeInv, MainType
  <1>2. \A f \in Fds, i \in Ifaces : Pending(f, i) => subscriber_procs[f] = "none"
    BY <1>1 DEF Pending, Rest
  <1>3. TypeInv'
    BY <1>1 DEF IInv, TypeInv
  <1>4. Placed' /\ Entries' /\ Fresh' /\ NewsIsCurrent' /\ Disconnected'
    BY <1>1 DEF IInv, Placed, Entries, Fresh, Untold, InHand, NewsIsCurrent, Disconnected
  <1>5. Informed'
    BY <1>1, <1>2 DEF IInv, Informed, Listens
  <1>6. Copied'
    BY <1>1, <1>2 DEF IInv, Copied, Listens, Entries, InHand
  <1> QED
    BY <1>3, <1>4, <1>5, <1>6 DEF IInv

\* The walk's failures are closed; the entry of a subscriber in hand is not
\* among them.
LEMMA CloseFailedStep ==
  ASSUME IInv, CloseFailed
  PROVE  IInv'
  <1> DEFINE f == Head(main.failed)
  <1>1. /\ main.pc = "remove" /\ main.failed # <<>>
        /\ ~(InHand /\ listener.fd = f)
        /\ main' = [main EXCEPT !.at = f,
                                !.pc = IF subscriber_procs[f] = "none" THEN main.pc ELSE "erase",
                                !.failed = Tail(main.failed)]
        /\ open' = IF subscriber_procs[f] = "none" THEN open ELSE [open EXCEPT ![f] = NoProc]
        /\ UNCHANGED <<scout, net_interfaces, subscriber_procs, active_fds, listener, backlog,
                       request, client, view, chan, missed>>
    BY DEF CloseFailed, procs, InHand
  <1>2. /\ main' \in MainType /\ main'.pc \in {"remove", "erase"} /\ main'.at = f
        /\ main'.pc = "erase" => subscriber_procs[f] # "none"
    <2>1. f \in Nat /\ Tail(main.failed) \in Seq(Nat)
      BY <1>1 DEF IInv, TypeInv, MainType
    <2> QED
      BY <1>1, <2>1 DEF IInv, TypeInv, MainType
  <1> HIDE DEF f
  <1>3. \A g \in Fds : open'[g] = open[g] \/ (g = f /\ open'[g] = NoProc)
    BY <1>1 DEF IInv, TypeInv
  <1>4. TypeInv'
    BY <1>1, <1>2 DEF IInv, TypeInv
  <1>5. Placed'
    BY <1>1, <1>3, NobodyWaits DEF IInv, Placed
  <1>6. InHand => open'[listener.fd] = open[listener.fd] /\ listener.fd \in Fds
    BY <1>1, <1>3 DEF IInv, Entries
  <1>7. Entries'
    <2>1. \A g \in Fds : subscriber_procs[g] = "new" => open'[g] = open[g]
      BY <1>6 DEF IInv, Entries
    <2>2. f \in Fds /\ subscriber_procs[f] # "none" => subscriber_procs[f] = "set"
      BY <1>1 DEF IInv, Entries, TypeInv
    <2> QED
      BY <1>1, <1>2, <1>6, <2>1, <2>2 DEF IInv, Entries, InHand
  <1>8. Fresh'
    BY <1>1, <1>6 DEF IInv, Fresh, InHand, Untold
  <1>9. Informed' /\ NewsIsCurrent' /\ Disconnected'
    BY <1>1, <1>2, <1>3 DEF IInv, Informed, Listens, Pending, NewsIsCurrent, Disconnected
  <1>10. Copied'
    BY <1>1, <1>2, <1>6 DEF IInv, Copied, Listens, Pending, InHand
  <1> QED
    BY <1>4, <1>5, <1>7, <1>8, <1>9, <1>10 DEF IInv

\* The entry whose socket was closed goes.
LEMMA EraseFailedStep ==
  ASSUME IInv, EraseFailed
  PROVE  IInv'
  <1>1. /\ main.pc = "erase" /\ main' \in MainType /\ main'.pc = "remove"
        /\ subscriber_procs' = [subscriber_procs EXCEPT ![main.at] = "none"]
        /\ UNCHANGED <<scout, net_interfaces, active_fds, open, listener, backlog, request, client,
                       view, chan, missed>>
    BY DEF EraseFailed, procs, IInv, TypeInv, MainType
  <1>2. \A g \in Fds : \/ subscriber_procs'[g] = subscriber_procs[g]
                       \/ subscriber_procs[g] = "set" /\ subscriber_procs'[g] = "none"
    BY <1>1 DEF IInv, Entries, TypeInv
  <1>3. TypeInv'
    BY <1>1 DEF IInv, TypeInv
  <1>4. Placed' /\ Fresh' /\ NewsIsCurrent' /\ Disconnected'
    BY <1>1, <1>2 DEF IInv, Placed, Fresh, Untold, InHand, NewsIsCurrent, Disconnected
  <1>5. Entries'
    BY <1>1, <1>2 DEF IInv, Entries, InHand
  <1>6. Informed' /\ Copied'
    BY <1>1, <1>2 DEF IInv, Informed, Copied, Listens, Pending
  <1> QED
    BY <1>3, <1>4, <1>5, <1>6 DEF IInv

\* The walk is over: no news is on its way, so everybody is informed.
LEMMA NotifiedStep ==
  ASSUME IInv, Notified
  PROVE  IInv'
  <1>1. /\ main.pc = "remove" /\ main' \in MainType /\ main'.pc = "idle"
        /\ UNCHANGED <<scout, net_interfaces, subscriber_procs, active_fds, open, listener, backlog,
                       request, client, view, chan, missed>>
    BY RestingTypes DEF Notified, table, procs
  <1>2. TypeInv'
    BY <1>1 DEF IInv, TypeInv
  <1>3. Placed' /\ Entries' /\ Fresh' /\ NewsIsCurrent' /\ Disconnected'
    BY <1>1 DEF IInv, Placed, Entries, Fresh, Untold, InHand, NewsIsCurrent, Disconnected
  <1>4. Informed' /\ Copied'
    BY <1>1 DEF IInv, Informed, Copied, Listens, Pending
  <1> QED
    BY <1>2, <1>3, <1>4 DEF IInv

\* A service that is stopping owes its subscribers nothing, and one that is
\* started has none.
LEMMA StopAndStart ==
  ASSUME IInv, HandleTerm \/ StopScoutIPC \/ StartScout
  PROVE  IInv'
  <1>1. /\ scout' \in {"stopping", "exiting"} \/ (scout = "stopped" /\ main.pc = "idle" /\ scout' = "running")
        /\ net_interfaces' \in [Ifaces -> Nat]
        /\ UNCHANGED <<subscriber_procs, active_fds, open, listener, main, backlog, request, client,
                       view, chan, missed>>
    BY DEF HandleTerm, StopScoutIPC, StartScout, table, procs, IInv, TypeInv, Down
  <1>2. TypeInv'
    BY <1>1 DEF IInv, TypeInv, States
  <1>3. Placed' /\ Entries' /\ Fresh' /\ Disconnected'
    BY <1>1 DEF IInv, Placed, Entries, Fresh, Untold, InHand, Disconnected
  <1>4. NewsIsCurrent' /\ Informed' /\ Copied'
    BY <1>1 DEF IInv, NewsIsCurrent, Informed, Copied, Listens, Disconnected
  <1> QED
    BY <1>2, <1>3, <1>4 DEF IInv

-----------------------------------------------------------------------------

\* No step of any thread or process breaks the invariant.
LEMMA Inductive == IInv /\ [Next]_vars => IInv'
  <1> SUFFICES ASSUME IInv, [Next]_vars PROVE IInv'
    OBVIOUS
  <1>1. CASE \E p \in Procs : Application(p)
    BY <1>1, ConnectStep, UpdateStep, AnswerStep, EndOfStreamStep, LeaveStep DEF Application
  <1>2. CASE SelectFails \/ StopListening
    BY <1>2, LeaveListenerStep DEF SelectFails, StopListening
  <1>3. CASE Listener
    <2>1. MeetsListeningSocket => Crash
      BY DEF MeetsListeningSocket
    <2> QED
      BY <1>2, <1>3, <2>1, SelectStep, AcceptStep, CopyIfacesStep, SubscribedStep, CrashStep,
         ForgetSubscriberStep DEF Listener
  <1>4. CASE Main
    <2>1. IteratorDangles => Crash
      BY DEF IteratorDangles
    <2> QED
      BY <1>4, <2>1, UpdateNetworkStep, EmulateSliceStep, NotifySubscriberStep, CrashStep,
         EndOfMapStep, CloseFailedStep, EraseFailedStep, NotifiedStep DEF Main
  <1>5. CASE UNCHANGED vars
    BY <1>5 DEF IInv, TypeInv, Placed, Entries, Fresh, Untold, InHand, NewsIsCurrent, Informed, Copied,
                Listens, Pending, Disconnected, vars, table, procs
  <1> QED
    BY <1>1, <1>3, <1>4, <1>5, StopAndStart, CrashStep DEF Next, Exit

\* ViewCurrent: for any number of applications, interfaces, changes and
\* restarts, once notify_all_subscribers has returned, what was written to a
\* subscriber that is there and was not missed adds up to net_interfaces.
THEOREM SubscribersAreCurrent == Spec => []ViewCurrent
  <1>1. IInv => ViewCurrent
    <2> SUFFICES ASSUME IInv, scout = "running", main.pc = "idle",
                        NEW f \in Fds, subscriber_procs[f] = "set", Listens(f), NEW i \in Ifaces
                 PROVE  WillKnow(open[f], i, net_interfaces[i])
      BY DEF ViewCurrent, Listens
    <2>1. Ends(chan[open[f]], view[open[f]][i], i, net_interfaces[i])
      BY DEF IInv, Informed, Pending
    <2> QED
      BY <2>1 DEF Ends, WillKnow
  <1> QED
    BY <1>1, Initial, Inductive, PTL DEF Spec

-----------------------------------------------------------------------------
\* How a multisocket is connected: Bootstrap.

\* Where the bootstrapper has a socket that is connected.
Talking == {"send_hello", "recv_hello", "startup", "wait", "send_listeners",
            "recv_listeners", "succeed"}

\* What is in transit to the connecting end.
Transit == Seq({"hello", "listeners"})

\* Types of what the argument speaks of.
BTyped ==
    /\ local_ifaces \subseteq AllIfaces
    /\ pc \in Talking \cup {"start", "accept_path", "connect", "caught", "end_of_loop",
                              "returned", "finished"}
    /\ status \in {"EINPROGRESS", "0", "errno", "ECONNREFUSED"}
    /\ retry \in BOOLEAN /\ shut \in BOOLEAN
    /\ attempt \in Nat /\ downs \in Nat
    /\ DOMAIN acc = Attempts
    /\ asocks \in [Attempts -> SUBSET AllIfaces]
    /\ to_conn \in [Attempts -> Transit]

\* An interface went down for each attempt but the first, so that there are no
\* more than the accepting end is modelled for.
BCounted ==
    /\ downs <= MaxDowns /\ attempt <= downs + 1
    /\ pc \in {"start", "connect"} \/ retry => attempt <= downs
    /\ retry => shut
    /\ pc \in Talking => attempt > 0

\* The socket is there from when it is bound until it is given up.
BBound == pc \in Talking \cup {"connect"} => bootstrap_sock # None

\* The list of listeners is among the messages.
Lists(q) == \E k \in 1 .. Len(q) : q[k] = "listeners"

\* The accepting end sends its list only when it has a connection, and keeps that.
BListed ==
    \A n \in Attempts :
        acc[n] \in {"send_listeners", "ok"} \/ Lists(to_conn[n]) => asocks[n] # {}

\* A status of 0 stays until the socket that it was reached with is given up;
\* a thread that comes to the start with it takes the other way.
BSucceeded ==
    /\ pc = "succeed" => asocks[attempt] # {}
    /\ status = "0" =>
          /\ pc \in {"end_of_loop", "start", "accept_path", "caught", "returned", "finished"}
          /\ attempt > 0 /\ asocks[attempt] # {}
          /\ pc \in {"start", "end_of_loop"} => bootstrap_sock # None

BInv == BTyped /\ BCounted /\ BBound /\ BListed /\ BSucceeded

\* Messages that are sent and read, as far as the list of listeners is concerned.
LEMMA ListsFacts ==
  ASSUME NEW q \in Transit
  PROVE  /\ \A x \in {"hello", "listeners"} :
               Append(q, x) \in Transit /\ (Lists(Append(q, x)) => Lists(q) \/ x = "listeners")
         /\ q # <<>> => /\ Tail(q) \in Transit /\ (Lists(Tail(q)) => Lists(q))
                        /\ Head(q) = "listeners" => Lists(q)
         /\ <<>> \in Transit /\ ~Lists(<<>>)
  <1>1. ASSUME NEW x \in {"hello", "listeners"}, Lists(Append(q, x)), x # "listeners"
        PROVE  Lists(q)
    BY <1>1 DEF Lists, Transit
  <1>2. ASSUME q # <<>>, Lists(Tail(q)) PROVE Lists(q)
    <2>1. PICK k \in 1 .. Len(Tail(q)) : Tail(q)[k] = "listeners"
      BY <1>2 DEF Lists
    <2>2. k + 1 \in 1 .. Len(q) /\ q[k + 1] = "listeners"
      BY <1>2, <2>1 DEF Transit
    <2> QED
      BY <2>2 DEF Lists
  <1>3. ASSUME q # <<>>, Head(q) = "listeners" PROVE Lists(q)
    BY <1>3 DEF Lists, Transit
  <1>4. /\ \A x \in {"hello", "listeners"} : Append(q, x) \in Transit
        /\ q # <<>> => Tail(q) \in Transit
        /\ <<>> \in Transit
    BY DEF Transit
  <1>5. ~Lists(<<>>)
    BY DEF Lists
  <1> QED
    BY <1>1, <1>2, <1>3, <1>4, <1>5, Zenon

\* The bootstrapper starts with nothing.
LEMMA BInitial ==
  ASSUME BootstrapInit
  PROVE  BInv
  <1>1. <<>> \in Transit /\ ~Lists(<<>>)
    BY DEF Transit, Lists
  <1> USE BootstrapAssumption DEF BootstrapInit, Talking
  <1>2. /\ asocks \in [Attempts -> SUBSET AllIfaces]
        /\ to_conn \in [Attempts -> Transit]
    BY <1>1
  <1>3. BTyped
    BY <1>2 DEF BTyped
  <1>4. BListed
    BY <1>1 DEF BListed
  <1> QED
    BY <1>3, <1>4 DEF BInv, BCounted, BBound, BSucceeded

\* The least interface is one, and so not None.
LEMMA BMin ==
  ASSUME BTyped, local_ifaces # {}
  PROVE  Min(local_ifaces) # None
  <1>1. local_ifaces \subseteq Nat \ {0}
    BY BootstrapAssumption DEF BTyped, AllIfaces, Talking
  <1>2. \E x \in local_ifaces : \A z \in local_ifaces : x <= z
    BY <1>1, LeastNumber
  <1> QED
    BY <1>1, <1>2 DEF Min, None

\* What the csockets and the interfaces do.
LEMMA BOthers ==
  ASSUME BInv, Ipc \/ \E i \in AllIfaces : Csocket(i)
  PROVE  BInv'
  <1> USE DEF BInv, BTyped, BCounted, BBound, BListed, BSucceeded, connecting, accepting,
             net, Talking
  <1>1. ASSUME NEW i \in AllIfaces, Restart(i) PROVE BInv'
    <2>1. CASE bootstrap_sock = i
      BY <1>1, <2>1, BootstrapAssumption DEF Restart
    <2>2. CASE bootstrap_sock # i
      BY <1>1, <2>2, BootstrapAssumption DEF Restart
    <2> QED
      BY <2>1, <2>2
  <1>2. ASSUME NEW i \in AllIfaces, InterfaceUp(i) PROVE BInv'
    BY <1>2 DEF InterfaceUp
  <1>3. ASSUME NEW i \in AllIfaces, AddConnection(i) PROVE BInv'
    <2>1. /\ DOMAIN asocks' = Attempts
          /\ \A n \in Attempts : asocks'[n] \subseteq AllIfaces /\ asocks[n] \subseteq asocks'[n]
      BY <1>3 DEF AddConnection
    <2>2. BTyped'
      BY <1>3, <2>1 DEF AddConnection
    <2>3. pc = "succeed" \/ status = "0" => attempt \in Attempts
      BY BootstrapAssumption DEF Attempts
    <2>4. BListed' /\ BSucceeded'
      BY <1>3, <2>1, <2>3 DEF AddConnection
    <2> QED
      BY <1>3, <2>2, <2>4 DEF AddConnection
  <1>4. ASSUME NEW i \in AllIfaces, CsockConnected(i) \/ CsockFails(i) PROVE BInv'
    BY <1>4 DEF CsockConnected, CsockFails
  <1>5. CASE BeginTeardown
    BY <1>5 DEF BeginTeardown
  <1>6. CASE Teardown
    BY <1>6 DEF Teardown
  <1> QED
    BY <1>1, <1>2, <1>3, <1>4, <1>5, <1>6 DEF Ipc, Csocket

\* The accepting end.
LEMMA BAcceptor ==
  ASSUME BInv, NEW n \in Attempts, Acceptor(n)
  PROVE  BInv'
  <1> USE DEF BInv, BTyped, BCounted, BBound, BListed, BSucceeded, connecting, accepting,
             net, Talking,
              AccMoves
  <1>1. CASE AccRecv(n, "recv_hello", "hello", "send_hello")
    BY <1>1 DEF AccRecv
  <1>2. CASE AccSend(n, "send_hello", "hello", "recv_listeners")
    <2>1. CASE to_conn' = [to_conn EXCEPT ![n] = Append(@, "hello")] /\ acc[n] = "send_hello"
      <3>1. /\ to_conn' \in [Attempts -> Transit]
            /\ \A m \in Attempts \ {n} : to_conn'[m] = to_conn[m]
            /\ Lists(to_conn'[n]) => Lists(to_conn[n])
        BY <2>1, ListsFacts
      <3> QED
        BY <1>2, <3>1 DEF AccSend
    <2>2. CASE UNCHANGED to_conn
      BY <1>2, <2>2 DEF AccSend
    <2> QED
      BY <1>2, <2>1, <2>2 DEF AccSend
  <1>3. CASE AccRecv(n, "recv_listeners", "listeners", "wait")
    BY <1>3 DEF AccRecv
  <1>4. CASE AccWait(n)
    BY <1>4 DEF AccWait
  <1>5. CASE AccSend(n, "send_listeners", "listeners", "ok")
    <2>1. CASE to_conn' = [to_conn EXCEPT ![n] = Append(@, "listeners")] /\ acc[n] = "send_listeners"
      <3>1. /\ to_conn' \in [Attempts -> Transit]
            /\ \A m \in Attempts \ {n} : to_conn'[m] = to_conn[m]
            /\ Lists(to_conn'[n]) => Lists(to_conn[n]) \/ acc[n] = "send_listeners"
        BY <2>1, ListsFacts
      <3> QED
        BY <1>5, <3>1 DEF AccSend
    <2>2. CASE UNCHANGED to_conn
      BY <1>5, <2>2 DEF AccSend
    <2> QED
      BY <1>5, <2>1, <2>2 DEF AccSend
  <1>6. CASE AccClose(n)
    BY <1>6 DEF AccClose
  <1> QED
    BY <1>1, <1>2, <1>3, <1>4, <1>5, <1>6 DEF Acceptor

\* The bootstrapper of the connecting end.
LEMMA BBootstrapper ==
  ASSUME BInv, Bootstrapper
  PROVE  BInv'
  <1>a. pc \in Talking => attempt \in Attempts
    BY BootstrapAssumption DEF BInv, BTyped, BCounted, Attempts, Talking
  <1> USE DEF BInv, BTyped, BCounted, BBound, BListed, BSucceeded, accepting, net, Throw, Talking
  <1>1. CASE Begin
    BY <1>1, BMin DEF Begin
  <1>2. CASE AcceptPath \/ ConnectFails
    BY <1>2 DEF AcceptPath, ConnectFails
  <1>3. CASE Connect
    BY <1>3 DEF Connect
  <1>4. CASE Send("send_hello", "hello", "recv_hello")
    BY <1>4 DEF Send
  <1>5. CASE Recv("recv_hello", "hello", "startup")
    <2>1. CASE UNCHANGED to_conn /\ Throw
      BY <1>5, <2>1 DEF Recv
    <2>2. CASE /\ to_conn[attempt] # <<>>
               /\ to_conn' = [to_conn EXCEPT ![attempt] = Tail(@)]
               /\ pc' = IF Head(to_conn[attempt]) = "hello" THEN "startup" ELSE "caught"
      <3>1. /\ to_conn' \in [Attempts -> Transit]
            /\ \A m \in Attempts : Lists(to_conn'[m]) => Lists(to_conn[m])
        BY <1>5, <1>a, <2>2, ListsFacts DEF Recv
      <3>2. pc' = "succeed" => asocks[attempt] # {}
        BY <1>5, <1>a, <2>2, ListsFacts DEF Recv
      <3>3. BTyped' /\ BListed'
        BY <1>5, <2>2, <3>1 DEF Recv
      <3> QED
        BY <1>5, <2>2, <3>2, <3>3 DEF Recv
    <2> QED
      BY <1>5, <2>1, <2>2 DEF Recv
  <1>6. CASE StartupCsocks \/ WaitForConnections
    BY <1>6 DEF StartupCsocks, WaitForConnections
  <1>7. CASE Send("send_listeners", "listeners", "recv_listeners")
    BY <1>7 DEF Send
  <1>8. CASE Recv("recv_listeners", "listeners", "succeed")
    <2>1. CASE UNCHANGED to_conn /\ Throw
      BY <1>8, <2>1 DEF Recv
    <2>2. CASE /\ to_conn[attempt] # <<>>
               /\ to_conn' = [to_conn EXCEPT ![attempt] = Tail(@)]
               /\ pc' = IF Head(to_conn[attempt]) = "listeners" THEN "succeed" ELSE "caught"
      <3>1. /\ to_conn' \in [Attempts -> Transit]
            /\ \A m \in Attempts : Lists(to_conn'[m]) => Lists(to_conn[m])
        BY <1>8, <1>a, <2>2, ListsFacts DEF Recv
      <3>2. pc' = "succeed" => asocks[attempt] # {}
        BY <1>8, <1>a, <2>2, ListsFacts DEF Recv
      <3>3. BTyped' /\ BListed'
        BY <1>8, <2>2, <3>1 DEF Recv
      <3> QED
        BY <1>8, <2>2, <3>2, <3>3 DEF Recv
    <2> QED
      BY <1>8, <2>1, <2>2 DEF Recv
  <1>9. CASE Succeed
    BY <1>9 DEF Succeed
  <1>10. CASE Catch
    BY <1>10 DEF Catch
  <1>11. CASE EndOfLoop \/ Finish
    BY <1>11 DEF EndOfLoop, Finish
  <1> QED
    BY <1>1, <1>2, <1>3, <1>4, <1>5, <1>6, <1>7, <1>8, <1>9, <1>10, <1>11 DEF Bootstrapper

\* SuccessIsShared: for any number of interfaces, attempts and changes, when
\* the bootstrapper of cmm_connect ends its loop with status 0, the multisocket
\* of the accepting end it last talked to has added a connection.
THEOREM ConnectionIsShared == BootstrapSpec => []SuccessIsShared
  <1>1. BootstrapInit => BInv
    BY BInitial
  <1>2. BInv /\ [BootstrapNext]_bootstrapvars => BInv'
    <2> SUFFICES ASSUME BInv, [BootstrapNext]_bootstrapvars PROVE BInv'
      OBVIOUS
    <2>1. CASE Bootstrapper
      BY <2>1, BBootstrapper
    <2>2. CASE Ipc \/ \E i \in AllIfaces : Csocket(i)
      BY <2>2, BOthers
    <2>3. CASE \E n \in Attempts : Acceptor(n)
      BY <2>3, BAcceptor
    <2>4. CASE UNCHANGED bootstrapvars
      BY <2>4 DEF BInv, BTyped, BCounted, BBound, BListed, BSucceeded, bootstrapvars, connecting,
                  accepting, net
    <2> QED
      BY <2>1, <2>2, <2>3, <2>4 DEF BootstrapNext
  <1>3. BInv => SuccessIsShared
    BY DEF BInv, BSucceeded, SuccessIsShared
  <1> QED
    BY <1>1, <1>2, <1>3, PTL DEF BootstrapSpec
==============================================================================
