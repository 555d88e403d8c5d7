-------------------------- MODULE Shutdown_proofs --------------------------
(***************************************************************************)
(* Theorems about Shutdown, for any number of connections and any bounds.  *)
(***************************************************************************)
EXTENDS Shutdown, FiniteSetTheorems, TLAPS

Says(e, c) == sender[e][c] = "writing"
Carries(e, c) == \E i \in DOMAIN net[e][c] : net[e][c][i] = "goodbye"

\* A thread that writes a GOODBYE has claimed it, and one that is in transit
\* has been noted.
Announced ==
    \A e \in Endpoints : \A c \in Conns :
        /\ Says(e, c) => e \in sending_goodbye
        /\ Carries(Peer(e), c) => e \in goodbye_sent

\* A thread says GOODBYE only if none has been said before.
SaidOnce ==
    \A e \in Endpoints : \A c, d \in Conns :
        /\ Says(e, c) => ~Carries(Peer(e), d)
        /\ Says(e, c) /\ Says(e, d) => c = d
        /\ Carries(e, c) /\ Carries(e, d) => c = d

IInv == TypeOK /\ Announced /\ SaidOnce

\* Steps that say no GOODBYE: no thread starts to write one, none is put on a
\* connection, and none is taken back.  (With what TypeOK needs of such steps.)
SendersQuiet ==
    /\ sender' \in [Endpoints -> [Conns -> SenderStates]]
    /\ csock_map' \in [Endpoints -> SUBSET Conns]
    /\ \A e \in Endpoints : \A c \in Conns :
          /\ sender'[e][c] = "writing" => sender[e][c] = "writing"
          /\ c \in csock_map'[e] => sender'[e][c] \notin {"none", "gone"}

NetQuiet ==
    /\ net' \in [Endpoints -> [Conns -> Seq(Items \cup {"goodbye"})]]
    /\ \A e \in Endpoints : \A c \in Conns : Carries(e, c)' => Carries(e, c)

FlagsQuiet ==
    /\ shutting_down' \subseteq Endpoints /\ remote_shutdown' \subseteq Endpoints
    /\ goodbye_sent' \subseteq Endpoints /\ sending_goodbye' \subseteq Endpoints
    /\ sending_goodbye \subseteq sending_goodbye' /\ goodbye_sent \subseteq goodbye_sent'

-----------------------------------------------------------------------------
(***************************************************************************)
(* Lemmas on the operators                                                 *)
(***************************************************************************)

\* There are two ends.
LEMMA PeerFacts ==
    /\ Peer("connecting") = "accepting"
    /\ Peer("accepting") = "connecting"
    /\ \A e \in Endpoints : Peer(e) \in Endpoints /\ Peer(Peer(e)) = e /\ Peer(e) # e
  <1>1. Peer("connecting") = "accepting"
    BY DEF Peer, Endpoints
  <1>2. Peer("accepting") = "connecting"
    BY DEF Peer, Endpoints
  <1>3. QED
    BY <1>1, <1>2 DEF Endpoints

\* A broadcast wakes threads, and does nothing else to them.
LEMMA BroadcastFacts ==
    ASSUME TypeOK, NEW e \in Endpoints
    PROVE  /\ Broadcast(e, sender) \in [Endpoints -> [Conns -> SenderStates]]
           /\ \A p \in Endpoints, c \in Conns :
                 \/ Broadcast(e, sender)[p][c] = sender[p][c]
                 \/ sender[p][c] = "waiting" /\ Broadcast(e, sender)[p][c] = "running"
  BY DEF TypeOK, Broadcast, SenderStates

\* What is transmitted is in transit, or is lost.
LEMMA TransmitFacts ==
    ASSUME TypeOK, NEW e \in Endpoints, NEW c \in Conns,
           NEW msgs \in Seq(Items \cup {"goodbye"}), Transmit(e, c, msgs)
    PROVE  /\ net' \in [Endpoints -> [Conns -> Seq(Items \cup {"goodbye"})]]
           /\ \A p \in Endpoints, d \in Conns :
                 Carries(p, d)' =>
                    \/ Carries(p, d)
                    \/ p = Peer(e) /\ d = c /\ \E i \in DOMAIN msgs : msgs[i] = "goodbye"
  <1> DEFINE M == Items \cup {"goodbye"}
  <1>1. CASE net' = net
    BY <1>1 DEF TypeOK, Carries
  <1>2. CASE net' = [net EXCEPT ![Peer(e)][c] = @ \o msgs]
    <2>1. Peer(e) \in Endpoints
      BY PeerFacts
    <2>2. net[Peer(e)][c] \in Seq(M)
      BY <2>1 DEF TypeOK
    <2>3. /\ net[Peer(e)][c] \o msgs \in Seq(M)
          /\ \A i \in DOMAIN (net[Peer(e)][c] \o msgs) :
                \/ /\ i \in DOMAIN net[Peer(e)][c]
                   /\ (net[Peer(e)][c] \o msgs)[i] = net[Peer(e)][c][i]
                \/ \E j \in DOMAIN msgs : (net[Peer(e)][c] \o msgs)[i] = msgs[j]
      <3> DEFINE s == net[Peer(e)][c]
      <3> HIDE DEF s, M
      <3>1. s \in Seq(M) /\ msgs \in Seq(M)
        BY <2>2 DEF s, M
      <3>2. QED
        BY <3>1 DEF s
    <2>4. net' \in [Endpoints -> [Conns -> Seq(M)]]
      BY <1>2, <2>1, <2>3 DEF TypeOK
    <2>5. ASSUME NEW p \in Endpoints, NEW d \in Conns, Carries(p, d)', ~Carries(p, d)
          PROVE  p = Peer(e) /\ d = c /\ \E i \in DOMAIN msgs : msgs[i] = "goodbye"
      <3>1. p = Peer(e) /\ d = c
        BY <1>2, <2>5, <2>1 DEF TypeOK, Carries
      <3>2. net'[p][d] = net[Peer(e)][c] \o msgs
        BY <1>2, <2>1, <3>1 DEF TypeOK
      <3>3. QED
        BY <2>3, <2>5, <3>1, <3>2 DEF Carries
    <2>6. QED
      BY <2>4, <2>5
  <1>3. QED
    BY <1>1, <1>2 DEF Transmit

\* No piece of work makes a GOODBYE.
LEMMA MessagesFacts ==
    ASSUME NEW e \in Endpoints, NEW item \in Items
    PROVE  /\ Messages(e, item) \in Seq(Items)
           /\ \A i \in DOMAIN Messages(e, item) : Messages(e, item)[i] # "goodbye"
  <1>1. Messages(e, item)
           \in {<<>>, <<"irob">>, <<"check">>, <<"irob", "check">>, <<"ack">>}
    <2>1. CASE item = "irob"
      BY <2>1 DEF Messages
    <2>2. CASE item = "check"
      BY <2>2 DEF Messages
    <2>3. CASE item = "ack"
      BY <2>3 DEF Messages
    <2>4. QED
      BY <2>1, <2>2, <2>3 DEF Items
  <1>2. /\ <<>> \in Seq(Items) /\ <<"irob">> \in Seq(Items) /\ <<"check">> \in Seq(Items)
        /\ <<"irob", "check">> \in Seq(Items) /\ <<"ack">> \in Seq(Items)
    BY DEF Items
  <1>3. Messages(e, item) \in Seq(Items)
    BY <1>1, <1>2
  <1>4. \A i \in DOMAIN Messages(e, item) : Messages(e, item)[i] \in Items
    BY <1>3
  <1>5. QED
    BY <1>3, <1>4 DEF Items

\* A thread moves on while others are woken.
LEMMA SetSender ==
    ASSUME NEW w \in [Endpoints -> [Conns -> SenderStates]],
           NEW e \in Endpoints, NEW c \in Conns, NEW st \in SenderStates
    PROVE  /\ [w EXCEPT ![e][c] = st] \in [Endpoints -> [Conns -> SenderStates]]
           /\ \A p \in Endpoints, d \in Conns :
                 [w EXCEPT ![e][c] = st][p][d] = IF p = e /\ d = c THEN st ELSE w[p][d]
  OBVIOUS

\* One of the indexes gets other contents.
LEMMA SetWork ==
    ASSUME NEW w \in [Endpoints -> [Conns \cup {AnyConn} -> SUBSET Items]],
           NEW e \in Endpoints, NEW index \in Conns \cup {AnyConn},
           NEW items \in SUBSET Items
    PROVE  [w EXCEPT ![e][index] = items]
              \in [Endpoints -> [Conns \cup {AnyConn} -> SUBSET Items]]
  OBVIOUS

\* Work is passed on to indexes that exist.
LEMMA PassOnType ==
    ASSUME TypeOK, NEW e \in Endpoints, NEW c \in Conns, NEW index, PassOn(e, c, index)
    PROVE  work' \in [Endpoints -> [Conns \cup {AnyConn} -> SUBSET Items]]
  BY DEF PassOn, DataCheck, TypeOK, Items

\* What is behind the first message was in transit before.
LEMMA TailFacts ==
    ASSUME NEW M, NEW s \in Seq(M), s # <<>>
    PROVE  /\ Tail(s) \in Seq(M)
           /\ \A i \in DOMAIN Tail(s) : \E j \in DOMAIN s : Tail(s)[i] = s[j]
  OBVIOUS

\* A quiet step preserves the invariant.
LEMMA Quiet ==
    ASSUME IInv, SendersQuiet, NetQuiet, FlagsQuiet, TypeOK'
    PROVE  IInv'
  BY PeerFacts DEF IInv, Announced, SaidOnce, SendersQuiet, NetQuiet, FlagsQuiet, Says

\* What does not change is quiet.
LEMMA QuietSteps ==
    ASSUME TypeOK
    PROVE  /\ UNCHANGED <<sender, csock_map>> => SendersQuiet
           /\ UNCHANGED net => NetQuiet
           /\ UNCHANGED flags => FlagsQuiet
  BY DEF TypeOK, SendersQuiet, NetQuiet, FlagsQuiet, flags, Carries

\* A thread moves on, and leaves the map if it is gone.
LEMMA Moves ==
    ASSUME TypeOK, NEW e \in Endpoints, NEW c \in Conns,
           NEW st \in SenderStates \ {"none", "writing"},
           sender' \in {[sender EXCEPT ![e][c] = st],
                        [Broadcast(e, sender) EXCEPT ![e][c] = st]},
           csock_map' \in [Endpoints -> SUBSET Conns],
           \A p \in Endpoints : csock_map'[p] \subseteq csock_map[p],
           st = "gone" => c \notin csock_map'[e]
    PROVE  SendersQuiet
  <1> DEFINE woken == Broadcast(e, sender)
  <1>1. /\ woken \in [Endpoints -> [Conns -> SenderStates]]
        /\ \A p \in Endpoints, d \in Conns :
              \/ woken[p][d] = sender[p][d]
              \/ sender[p][d] = "waiting" /\ woken[p][d] = "running"
    BY BroadcastFacts
  <1>2. /\ sender \in [Endpoints -> [Conns -> SenderStates]]
        /\ \A p \in Endpoints : \A d \in csock_map[p] : sender[p][d] \notin {"none", "gone"}
    BY DEF TypeOK
  <1> HIDE DEF woken
  <1>3. PICK w \in {sender, woken} : sender' = [w EXCEPT ![e][c] = st]
    BY DEF woken
  <1>4. /\ sender' \in [Endpoints -> [Conns -> SenderStates]]
        /\ \A p \in Endpoints, d \in Conns :
              sender'[p][d] = IF p = e /\ d = c THEN st ELSE w[p][d]
    BY <1>1, <1>2, <1>3, SetSender
  <1>5. ASSUME NEW p \in Endpoints, NEW d \in Conns
        PROVE  /\ sender'[p][d] = "writing" => sender[p][d] = "writing"
               /\ d \in csock_map'[p] => sender'[p][d] \notin {"none", "gone"}
    <2>1. CASE p = e /\ d = c
      BY <1>4, <2>1
    <2>2. CASE ~(p = e /\ d = c)
      <3>1. sender'[p][d] = w[p][d]
        BY <1>4, <2>2
      <3>2. sender'[p][d] = sender[p][d]
               \/ (sender[p][d] = "waiting" /\ sender'[p][d] = "running")
        BY <1>1, <1>3, <3>1
      <3>3. d \in csock_map'[p] => sender[p][d] \notin {"none", "gone"}
        BY <1>2
      <3>4. QED
        BY <3>2, <3>3
    <2>3. QED
      BY <2>1, <2>2
  <1>6. QED
    BY <1>4, <1>5 DEF SendersQuiet

\* A thread moves on, and stays in the map.
LEMMA MovesOn ==
    ASSUME TypeOK, NEW e \in Endpoints, NEW c \in Conns,
           NEW st \in {"failed", "waiting", "finishing"},
           sender' \in {[sender EXCEPT ![e][c] = st],
                        [Broadcast(e, sender) EXCEPT ![e][c] = st]},
           UNCHANGED csock_map
    PROVE  SendersQuiet
  <1>1. st \in SenderStates \ {"none", "writing"} /\ st # "gone"
    BY DEF SenderStates
  <1>2. /\ csock_map' \in [Endpoints -> SUBSET Conns]
        /\ \A p \in Endpoints : csock_map'[p] \subseteq csock_map[p]
    BY DEF TypeOK
  <1>3. QED
    BY <1>1, <1>2, Moves

\* Threads are woken.
LEMMA Wakes ==
    ASSUME TypeOK, NEW e \in Endpoints,
           sender' \in {sender, Broadcast(e, sender)}, UNCHANGED csock_map
    PROVE  SendersQuiet
  <1> DEFINE woken == Broadcast(e, sender)
  <1>1. /\ woken \in [Endpoints -> [Conns -> SenderStates]]
        /\ \A p \in Endpoints, d \in Conns :
              \/ woken[p][d] = sender[p][d]
              \/ sender[p][d] = "waiting" /\ woken[p][d] = "running"
    BY BroadcastFacts
  <1>2. sender' \in {sender, woken}
    OBVIOUS
  <1> HIDE DEF woken
  <1>3. /\ sender \in [Endpoints -> [Conns -> SenderStates]]
        /\ csock_map \in [Endpoints -> SUBSET Conns]
        /\ \A p \in Endpoints : \A d \in csock_map[p] : sender[p][d] \notin {"none", "gone"}
    BY DEF TypeOK
  <1>4. CASE sender' = sender
    BY <1>3, <1>4 DEF SendersQuiet
  <1>5. CASE sender' = woken
    BY <1>1, <1>3, <1>5 DEF SendersQuiet
  <1>6. QED
    BY <1>2, <1>4, <1>5

\* A message is taken from a connection.
LEMMA ReceiveQuiet ==
    ASSUME TypeOK, NEW e \in Endpoints, NEW c \in Conns, NEW msg, Receive(e, c, msg)
    PROVE  NetQuiet
  BY TailFacts DEF Receive, TypeOK, NetQuiet, Carries

\* goodbye sets flags, and may ask for a data check.
LEMMA GoodbyeFlags ==
    ASSUME TypeOK, NEW e \in Endpoints, NEW remote_initiated \in BOOLEAN,
           Goodbye(e, remote_initiated)
    PROVE  FlagsQuiet /\ work' \in [Endpoints -> [Conns \cup {AnyConn} -> SUBSET Items]]
  <1>1. FlagsQuiet
    BY DEF Goodbye, TypeOK, FlagsQuiet, flags
  <1> DEFINE items == work[e][AnyConn] \cup {"check"}
  <1>2. work \in [Endpoints -> [Conns \cup {AnyConn} -> SUBSET Items]]
    BY DEF TypeOK
  <1>3. items \in SUBSET Items
    <2>1. "check" \in Items
      BY DEF Items
    <2>2. work[e][AnyConn] \in SUBSET Items
      BY <1>2
    <2>3. QED
      BY <2>1, <2>2
  <1>4. work' = work \/ work' = [work EXCEPT ![e][AnyConn] = items]
    BY DEF Goodbye
  <1> HIDE DEF items
  <1>5. [work EXCEPT ![e][AnyConn] = items]
           \in [Endpoints -> [Conns \cup {AnyConn} -> SUBSET Items]]
    BY <1>2, <1>3, SetWork
  <1>6. QED
    BY <1>1, <1>2, <1>4, <1>5

\* An end that gives up sets flags only.
LEMMA GiveUpFlags ==
    ASSUME TypeOK, NEW e \in Endpoints, GiveUp(e)
    PROVE  FlagsQuiet
  BY DEF GiveUp, TypeOK, FlagsQuiet

\* Nothing has been said at the start.
LEMMA InitIInv == Init => IInv
  <1> SUFFICES ASSUME Init PROVE IInv
    OBVIOUS
  <1>1. TypeOK
    BY ShutdownAssumption DEF Init, TypeOK, Items, SenderStates, ReceiverStates
  <1>2. \A e \in Endpoints, c \in Conns : ~Says(e, c) /\ ~Carries(e, c)
    BY DEF Init, Says, Carries
  <1>3. QED
    BY <1>1, <1>2, PeerFacts DEF IInv, Announced, SaidOnce

-----------------------------------------------------------------------------
(***************************************************************************)
(* Every action preserves the invariant.  All but the last three say no    *)
(* GOODBYE and take back none (Quiet).                                     *)
(***************************************************************************)

\* An IROB begins, which says nothing.
LEMMA BeginIrobIInv ==
    ASSUME IInv, NEW e \in Endpoints,
           BeginIrob(e)
    PROVE  IInv'
  <1> USE DEF IInv
  <1>1. SendersQuiet
    BY QuietSteps DEF BeginIrob
  <1>2. NetQuiet
    BY QuietSteps DEF BeginIrob
  <1>3. FlagsQuiet
    BY QuietSteps DEF BeginIrob
  <1>4. TypeOK'
    BY <1>1, <1>2, <1>3
    DEF BeginIrob, history, TypeOK, SendersQuiet, NetQuiet, FlagsQuiet
  <1>5. QED
    BY <1>1, <1>2, <1>3, <1>4, Quiet

\* An IROB is inserted; threads wake up.
LEMMA InsertIrobIInv ==
    ASSUME IInv, NEW e \in Endpoints, NEW c \in Conns,
           InsertIrob(e, c)
    PROVE  IInv'
  <1> USE DEF IInv
  <1>1. SendersQuiet
    BY Wakes DEF InsertIrob
  <1>2. NetQuiet
    BY QuietSteps DEF InsertIrob
  <1>3. FlagsQuiet
    BY QuietSteps DEF InsertIrob
  <1>4. work' \in [Endpoints -> [Conns \cup {AnyConn} -> SUBSET Items]]
    BY DEF InsertIrob, IsConnected, TypeOK, Items
  <1>5. TypeOK'
    BY <1>1, <1>2, <1>3, <1>4
    DEF InsertIrob, TypeOK, SendersQuiet, NetQuiet, FlagsQuiet
  <1>6. QED
    BY <1>1, <1>2, <1>3, <1>5, Quiet

\* close sets flags; threads wake up.
LEMMA CloseIInv ==
    ASSUME IInv, NEW e \in Endpoints,
           Close(e)
    PROVE  IInv'
  <1> USE DEF IInv
  <1>1. SendersQuiet
    BY Wakes DEF Close
  <1>2. NetQuiet
    BY QuietSteps DEF Close
  <1>3. FlagsQuiet /\ work' \in [Endpoints -> [Conns \cup {AnyConn} -> SUBSET Items]]
    BY GoodbyeFlags DEF Close
  <1>4. TypeOK'
    BY <1>1, <1>2, <1>3
    DEF Close, TypeOK, SendersQuiet, NetQuiet, FlagsQuiet
  <1>5. QED
    BY <1>1, <1>2, <1>3, <1>4, Quiet

\* Messages other than a GOODBYE are put on a connection.
LEMMA ScheduleWorkIInv ==
    ASSUME IInv, NEW e \in Endpoints, NEW c \in Conns,
           NEW index \in {c, AnyConn}, NEW item \in Items,
           ScheduleWork(e, c, index, item)
    PROVE  IInv'
  <1> USE DEF IInv
  <1>1. SendersQuiet
    BY QuietSteps DEF ScheduleWork
  <1>2. NetQuiet
    <2>1. Messages(e, item) \in Seq(Items \cup {"goodbye"})
      <3>1. Messages(e, item) \in Seq(Items)
        BY MessagesFacts
      <3>2. QED
        BY <3>1
    <2>2. Transmit(e, c, Messages(e, item))
      BY DEF ScheduleWork
    <2>3. QED
      BY <2>1, <2>2, MessagesFacts, TransmitFacts DEF NetQuiet
  <1>3. FlagsQuiet
    BY QuietSteps DEF ScheduleWork
  <1>4. sending_ifaces' \in [Endpoints -> SUBSET Conns]
    BY DEF ScheduleWork, TypeOK
  <1>5. work' \in [Endpoints -> [Conns \cup {AnyConn} -> SUBSET Items]]
    BY DEF ScheduleWork, TypeOK
  <1>6. TypeOK'
    BY <1>1, <1>2, <1>3, <1>4, <1>5
    DEF ScheduleWork, history, TypeOK, SendersQuiet, NetQuiet, FlagsQuiet
  <1>7. QED
    BY <1>1, <1>2, <1>3, <1>6, Quiet

\* A write that fails leaves the connections as they are.
LEMMA WriteFailsIInv ==
    ASSUME IInv, NEW e \in Endpoints, NEW c \in Conns,
           NEW index \in {c, AnyConn}, NEW item \in Items,
           WriteFails(e, c, index, item)
    PROVE  IInv'
  <1> USE DEF IInv
  <1>1. SendersQuiet
    BY MovesOn DEF WriteFails
  <1>2. NetQuiet
    BY QuietSteps DEF WriteFails
  <1>3. FlagsQuiet
    BY QuietSteps DEF WriteFails
  <1>4. sending_ifaces' \in [Endpoints -> SUBSET Conns]
    BY DEF WriteFails, TypeOK
  <1>5. work' \in [Endpoints -> [Conns \cup {AnyConn} -> SUBSET Items]]
    BY DEF WriteFails, TypeOK, Items
  <1>6. TypeOK'
    BY <1>1, <1>2, <1>3, <1>4, <1>5
    DEF WriteFails, history, TypeOK, SendersQuiet, NetQuiet, FlagsQuiet
  <1>7. QED
    BY <1>1, <1>2, <1>3, <1>6, Quiet

\* A thread that finds the GOODBYE said or claimed writes none.
LEMMA AwaitGoodbyeIInv ==
    ASSUME IInv, NEW e \in Endpoints, NEW c \in Conns,
           AwaitGoodbye(e, c)
    PROVE  IInv'
  <1> USE DEF IInv
  <1>1. SendersQuiet
    BY MovesOn DEF AwaitGoodbye, Await
  <1>2. NetQuiet
    BY QuietSteps DEF AwaitGoodbye
  <1>3. FlagsQuiet
    BY QuietSteps DEF AwaitGoodbye
  <1>4. TypeOK'
    BY <1>1, <1>2, <1>3
    DEF AwaitGoodbye, history, TypeOK, SendersQuiet, NetQuiet, FlagsQuiet
  <1>5. QED
    BY <1>1, <1>2, <1>3, <1>4, Quiet

\* A thread whose receiver is gone leaves or fails.
LEMMA ReceiverDiedIInv ==
    ASSUME IInv, NEW e \in Endpoints, NEW c \in Conns,
           ReceiverDied(e, c)
    PROVE  IInv'
  <1> USE DEF IInv
  <1>1. SendersQuiet
    BY MovesOn DEF ReceiverDied
  <1>2. NetQuiet
    BY QuietSteps DEF ReceiverDied
  <1>3. FlagsQuiet
    BY QuietSteps DEF ReceiverDied
  <1>4. TypeOK'
    BY <1>1, <1>2, <1>3
    DEF ReceiverDied, history, TypeOK, SendersQuiet, NetQuiet, FlagsQuiet
  <1>5. QED
    BY <1>1, <1>2, <1>3, <1>4, Quiet

\* A thread that leaves takes its csocket out of the map.
LEMMA FinishIInv ==
    ASSUME IInv, NEW e \in Endpoints, NEW c \in Conns,
           Finish(e, c)
    PROVE  IInv'
  <1> USE DEF IInv
  <1>1. SendersQuiet
    <2>1. /\ csock_map' \in [Endpoints -> SUBSET Conns]
          /\ \A p \in Endpoints : csock_map'[p] \subseteq csock_map[p]
          /\ c \notin csock_map'[e]
      BY DEF Finish, TypeOK
    <2>2. QED
      BY <2>1, Moves DEF Finish, SenderStates
  <1>2. NetQuiet
    BY QuietSteps DEF Finish
  <1>3. FlagsQuiet
    BY QuietSteps DEF Finish
  <1>4. ended' \subseteq Endpoints \X Conns
    BY PeerFacts DEF Finish, TypeOK
  <1>5. work' \in [Endpoints -> [Conns \cup {AnyConn} -> SUBSET Items]]
    BY DEF Finish, TypeOK
  <1>6. TypeOK'
    BY <1>1, <1>2, <1>3, <1>4, <1>5
    DEF Finish, history, TypeOK, SendersQuiet, NetQuiet, FlagsQuiet
  <1>7. QED
    BY <1>1, <1>2, <1>3, <1>6, Quiet

\* An IROB is taken from a connection.
LEMMA DoIrobIInv ==
    ASSUME IInv, NEW e \in Endpoints, NEW c \in Conns,
           DoIrob(e, c)
    PROVE  IInv'
  <1> USE DEF IInv
  <1>1. SendersQuiet
    BY Wakes DEF DoIrob, Receive
  <1>2. NetQuiet
    BY ReceiveQuiet DEF DoIrob
  <1>3. FlagsQuiet
    BY QuietSteps DEF DoIrob
  <1>4. work' \in [Endpoints -> [Conns \cup {AnyConn} -> SUBSET Items]]
    BY DEF DoIrob, TypeOK, Items
  <1>5. TypeOK'
    BY <1>1, <1>2, <1>3, <1>4
    DEF DoIrob, Receive, history, TypeOK, SendersQuiet, NetQuiet, FlagsQuiet
  <1>6. QED
    BY <1>1, <1>2, <1>3, <1>5, Quiet

\* An ACK is taken from a connection.
LEMMA DoAckIInv ==
    ASSUME IInv, NEW e \in Endpoints, NEW c \in Conns,
           DoAck(e, c)
    PROVE  IInv'
  <1> USE DEF IInv
  <1>1. SendersQuiet
    BY Wakes DEF DoAck, Receive
  <1>2. NetQuiet
    BY ReceiveQuiet DEF DoAck
  <1>3. FlagsQuiet
    BY QuietSteps DEF DoAck
  <1>4. TypeOK'
    BY <1>1, <1>2, <1>3
    DEF DoAck, Receive, history, TypeOK, SendersQuiet, NetQuiet, FlagsQuiet
  <1>5. QED
    BY <1>1, <1>2, <1>3, <1>4, Quiet

\* A data check is taken from a connection.
LEMMA DoDataCheckIInv ==
    ASSUME IInv, NEW e \in Endpoints, NEW c \in Conns,
           DoDataCheck(e, c)
    PROVE  IInv'
  <1> USE DEF IInv
  <1>1. SendersQuiet
    BY Wakes DEF DoDataCheck, Receive
  <1>2. NetQuiet
    BY ReceiveQuiet DEF DoDataCheck
  <1>3. FlagsQuiet
    BY QuietSteps DEF DoDataCheck
  <1>4. work' \in [Endpoints -> [Conns \cup {AnyConn} -> SUBSET Items]]
    BY DEF DoDataCheck, TypeOK, Items
  <1>5. TypeOK'
    BY <1>1, <1>2, <1>3, <1>4
    DEF DoDataCheck, Receive, history, TypeOK, SendersQuiet, NetQuiet, FlagsQuiet
  <1>6. QED
    BY <1>1, <1>2, <1>3, <1>5, Quiet

\* A GOODBYE is taken from a connection, and none is put on one.
LEMMA DoGoodbyeIInv ==
    ASSUME IInv, NEW e \in Endpoints, NEW c \in Conns,
           DoGoodbye(e, c)
    PROVE  IInv'
  <1> USE DEF IInv
  <1>1. SendersQuiet
    BY Wakes DEF DoGoodbye, Receive
  <1>2. NetQuiet
    BY ReceiveQuiet DEF DoGoodbye
  <1>3. FlagsQuiet
    BY DEF DoGoodbye, TypeOK, FlagsQuiet
  <1>4. recvr' \in [Endpoints -> [Conns -> ReceiverStates]]
    <2>1. /\ recvr \in [Endpoints -> [Conns -> ReceiverStates]]
          /\ "finishing" \in ReceiverStates /\ "told" \in ReceiverStates
      BY DEF TypeOK, ReceiverStates
    <2>2. \/ recvr' = [recvr EXCEPT ![e][c] = "finishing"]
          \/ recvr' = [recvr EXCEPT ![e][c] = "told"]
      BY DEF DoGoodbye
    <2>3. QED
      BY <2>1, <2>2
  <1>5. TypeOK'
    BY <1>1, <1>2, <1>3, <1>4
    DEF DoGoodbye, Receive, history, TypeOK, SendersQuiet, NetQuiet, FlagsQuiet
  <1>6. QED
    BY <1>1, <1>2, <1>3, <1>5, Quiet

\* goodbye sets flags, and clears neither goodbye_sent nor sending_goodbye.
LEMMA RemoteGoodbyeIInv ==
    ASSUME IInv, NEW e \in Endpoints, NEW c \in Conns,
           RemoteGoodbye(e, c)
    PROVE  IInv'
  <1> USE DEF IInv
  <1>1. SendersQuiet
    BY Wakes DEF RemoteGoodbye
  <1>2. NetQuiet
    BY QuietSteps DEF RemoteGoodbye
  <1>3. FlagsQuiet /\ work' \in [Endpoints -> [Conns \cup {AnyConn} -> SUBSET Items]]
    BY GoodbyeFlags DEF RemoteGoodbye
  <1>4. recvr' \in [Endpoints -> [Conns -> ReceiverStates]]
    BY DEF RemoteGoodbye, TypeOK, ReceiverStates
  <1>5. TypeOK'
    BY <1>1, <1>2, <1>3, <1>4
    DEF RemoteGoodbye, history, TypeOK, SendersQuiet, NetQuiet, FlagsQuiet
  <1>6. QED
    BY <1>1, <1>2, <1>3, <1>5, Quiet

\* What is left on a connection is dropped.
LEMMA ReceiverFinishesIInv ==
    ASSUME IInv, NEW e \in Endpoints, NEW c \in Conns,
           ReceiverFinishes(e, c)
    PROVE  IInv'
  <1> USE DEF IInv
  <1>1. SendersQuiet
    BY Wakes DEF ReceiverFinishes
  <1>2. NetQuiet
    BY DEF ReceiverFinishes, TypeOK, NetQuiet, Carries
  <1>3. FlagsQuiet
    BY QuietSteps DEF ReceiverFinishes
  <1>4. recvr' \in [Endpoints -> [Conns -> ReceiverStates]]
    BY DEF ReceiverFinishes, TypeOK, ReceiverStates
  <1>5. TypeOK'
    BY <1>1, <1>2, <1>3, <1>4
    DEF ReceiverFinishes, history, TypeOK, SendersQuiet, NetQuiet, FlagsQuiet
  <1>6. QED
    BY <1>1, <1>2, <1>3, <1>5, Quiet

\* A thread that has waited in vain leaves.
LEMMA TimeOutIInv ==
    ASSUME IInv, NEW e \in Endpoints, NEW c \in Conns,
           TimeOut(e, c)
    PROVE  IInv'
  <1> USE DEF IInv
  <1>1. SendersQuiet
    BY MovesOn DEF TimeOut
  <1>2. NetQuiet
    BY QuietSteps DEF TimeOut
  <1>3. FlagsQuiet
    BY QuietSteps DEF TimeOut
  <1>4. ended' \subseteq Endpoints \X Conns
    BY DEF TimeOut, TypeOK
  <1>5. TypeOK'
    BY <1>1, <1>2, <1>3, <1>4
    DEF TimeOut, history, TypeOK, SendersQuiet, NetQuiet, FlagsQuiet
  <1>6. QED
    BY <1>1, <1>2, <1>3, <1>5, Quiet

\* The accepting end takes a failed csocket out of the map, and may give up.
LEMMA AcceptingEndRecoversIInv ==
    ASSUME IInv, NEW c \in Conns,
           AcceptingEndRecovers(c)
    PROVE  IInv'
  <1> USE DEF IInv
  <1>1. SendersQuiet
    <2>1. /\ csock_map' \in [Endpoints -> SUBSET Conns]
          /\ \A p \in Endpoints : csock_map'[p] \subseteq csock_map[p]
      BY DEF AcceptingEndRecovers, TypeOK
    <2>2. "accepting" \in Endpoints /\ "finishing" \in SenderStates \ {"none", "writing"}
      BY DEF Endpoints, SenderStates
    <2>3. QED
      BY <2>1, <2>2, Moves DEF AcceptingEndRecovers
  <1>2. NetQuiet
    BY QuietSteps DEF AcceptingEndRecovers
  <1>3. FlagsQuiet
    BY QuietSteps, GiveUpFlags DEF AcceptingEndRecovers, Endpoints
  <1>4. work' \in [Endpoints -> [Conns \cup {AnyConn} -> SUBSET Items]]
    BY PassOnType DEF AcceptingEndRecovers, Endpoints
  <1>5. TypeOK'
    BY <1>1, <1>2, <1>3, <1>4
    DEF AcceptingEndRecovers, history, TypeOK, SendersQuiet, NetQuiet, FlagsQuiet
  <1>6. QED
    BY <1>1, <1>2, <1>3, <1>5, Quiet

\* The connecting end takes a failed csocket out of the map.
LEMMA ConnectingEndRecoversIInv ==
    ASSUME IInv, NEW c \in Conns,
           ConnectingEndRecovers(c)
    PROVE  IInv'
  <1> USE DEF IInv
  <1>1. SendersQuiet
    <2>1. /\ csock_map' \in [Endpoints -> SUBSET Conns]
          /\ \A p \in Endpoints : csock_map'[p] \subseteq csock_map[p]
      BY DEF ConnectingEndRecovers, TypeOK
    <2>2. "connecting" \in Endpoints /\ "finishing" \in SenderStates \ {"none", "writing"}
      BY DEF Endpoints, SenderStates
    <2>3. QED
      BY <2>1, <2>2, Moves DEF ConnectingEndRecovers
  <1>2. NetQuiet
    BY QuietSteps DEF ConnectingEndRecovers
  <1>3. FlagsQuiet
    BY QuietSteps DEF ConnectingEndRecovers
  <1>4. work' \in [Endpoints -> [Conns \cup {AnyConn} -> SUBSET Items]]
    <2>1. PICK index : PassOn("connecting", c, index)
      BY DEF ConnectingEndRecovers
    <2>2. QED
      BY <2>1, PassOnType DEF Endpoints
  <1>5. TypeOK'
    BY <1>1, <1>2, <1>3, <1>4
    DEF ConnectingEndRecovers, history, TypeOK, SendersQuiet, NetQuiet, FlagsQuiet
  <1>6. QED
    BY <1>1, <1>2, <1>3, <1>5, Quiet

\* A process that aborts takes its threads with it, and says nothing.
LEMMA AbortIInv ==
    ASSUME IInv, NEW c \in Conns,
           Abort(c)
    PROVE  IInv'
  <1> USE DEF IInv
  <1>1. SendersQuiet
    BY DEF Abort, TypeOK, SendersQuiet, SenderStates
  <1>2. NetQuiet
    <2>1. net' \in [Endpoints -> [Conns -> Seq(Items \cup {"goodbye"})]]
      <3>1. <<>> \in Seq(Items \cup {"goodbye"})
        OBVIOUS
      <3>2. QED
        BY <3>1 DEF Abort, TypeOK
    <2>2. \A e \in Endpoints, d \in Conns : net'[e][d] \in {net[e][d], <<>>}
      BY DEF Abort, TypeOK
    <2>3. \A e \in Endpoints, d \in Conns : Carries(e, d)' => Carries(e, d)
      BY <2>2 DEF Carries
    <2>4. QED
      BY <2>1, <2>3 DEF NetQuiet
  <1>3. FlagsQuiet
    BY QuietSteps DEF Abort
  <1>4. work' \in [Endpoints -> [Conns \cup {AnyConn} -> SUBSET Items]]
    BY DEF Abort, TypeOK
  <1>5. recvr' \in [Endpoints -> [Conns -> ReceiverStates]]
    BY DEF Abort, TypeOK, ReceiverStates
  <1>6. /\ ended' \subseteq Endpoints \X Conns
        /\ aborted' \subseteq Endpoints
    BY PeerFacts DEF Abort, TypeOK, Endpoints
  <1>7. TypeOK'
    BY <1>1, <1>2, <1>3, <1>4, <1>5, <1>6
    DEF Abort, TypeOK, SendersQuiet, NetQuiet, FlagsQuiet
  <1>8. QED
    BY <1>1, <1>2, <1>3, <1>7, Quiet

\* A thread starts, to connect.
LEMMA MakeCsocketIInv ==
    ASSUME IInv, NEW c \in Conns,
           MakeCsocket(c)
    PROVE  IInv'
  <1> USE DEF IInv
  <1>1. SendersQuiet
    BY DEF MakeCsocket, TypeOK, SendersQuiet, Endpoints, SenderStates
  <1>2. NetQuiet
    BY QuietSteps DEF MakeCsocket
  <1>3. FlagsQuiet
    BY QuietSteps DEF MakeCsocket
  <1>4. TypeOK'
    BY <1>1, <1>2, <1>3
    DEF MakeCsocket, history, TypeOK, SendersQuiet, NetQuiet, FlagsQuiet
  <1>5. QED
    BY <1>1, <1>2, <1>3, <1>4, Quiet

\* New threads start to run at both ends, and write nothing yet.
LEMMA ConnectedIInv ==
    ASSUME IInv, NEW c \in Conns,
           Connected(c)
    PROVE  IInv'
  <1> USE DEF IInv
  <1>1. SendersQuiet
    BY DEF Connected, TypeOK, SendersQuiet, Endpoints, SenderStates
  <1>2. NetQuiet
    BY QuietSteps DEF Connected
  <1>3. FlagsQuiet
    BY QuietSteps DEF Connected
  <1>4. recvr' \in [Endpoints -> [Conns -> ReceiverStates]]
    BY DEF Connected, TypeOK, ReceiverStates
  <1>5. TypeOK'
    BY <1>1, <1>2, <1>3, <1>4
    DEF Connected, history, TypeOK, SendersQuiet, NetQuiet, FlagsQuiet
  <1>6. QED
    BY <1>1, <1>2, <1>3, <1>5, Quiet

\* The connecting end may give up, which sets flags only.
LEMMA ConnectFailsIInv ==
    ASSUME IInv, NEW c \in Conns,
           ConnectFails(c)
    PROVE  IInv'
  <1> USE DEF IInv
  <1>1. SendersQuiet
    <2>1. "connecting" \in Endpoints /\ "finishing" \in SenderStates \ {"none", "writing"}
      BY DEF Endpoints, SenderStates
    <2>2. QED
      BY <2>1, Moves DEF ConnectFails, TypeOK
  <1>2. NetQuiet
    BY QuietSteps DEF ConnectFails
  <1>3. FlagsQuiet
    BY QuietSteps, GiveUpFlags DEF ConnectFails, Endpoints
  <1>4. TypeOK'
    BY <1>1, <1>2, <1>3
    DEF ConnectFails, history, TypeOK, SendersQuiet, NetQuiet, FlagsQuiet
  <1>5. QED
    BY <1>1, <1>2, <1>3, <1>4, Quiet

\* A connection that breaks carries nothing any more.
LEMMA BreakIInv ==
    ASSUME IInv, NEW c \in Conns,
           Break(c)
    PROVE  IInv'
  <1> USE DEF IInv
  <1>1. SendersQuiet
    BY QuietSteps DEF Break
  <1>2. NetQuiet
    BY DEF Break, TypeOK, NetQuiet, Carries
  <1>3. FlagsQuiet
    BY QuietSteps DEF Break
  <1>4. TypeOK'
    BY <1>1, <1>2, <1>3
    DEF Break, history, TypeOK, SendersQuiet, NetQuiet, FlagsQuiet
  <1>5. QED
    BY <1>1, <1>2, <1>3, <1>4, Quiet

\* A thread claims the GOODBYE when nobody has said or claimed it.
LEMMA SayGoodbyeIInv ==
    ASSUME IInv, NEW e \in Endpoints, NEW c \in Conns,
           SayGoodbye(e, c)
    PROVE  IInv'
  <1> USE DEF IInv, flags, history
  <1>1. TypeOK'
    BY DEF SayGoodbye, TypeOK, Endpoints, SenderStates
  <1>2. \A p \in Endpoints, d \in Conns :
           /\ Says(p, d)' <=> Says(p, d) \/ (p = e /\ d = c)
           /\ Carries(p, d)' <=> Carries(p, d)
    BY DEF SayGoodbye, TypeOK, Says, Carries
  <1>3. \A d \in Conns : ~Says(e, d) /\ ~Carries(Peer(e), d)
    BY DEF SayGoodbye, Announced
  <1>4. Announced'
    BY <1>2, PeerFacts DEF SayGoodbye, Announced
  <1>5. SaidOnce'
    BY <1>2, <1>3, PeerFacts DEF SaidOnce
  <1>6. QED
    BY <1>1, <1>4, <1>5

\* The only thread that writes is done, so the GOODBYE in transit is the only one.
LEMMA GoodbyeWrittenIInv ==
    ASSUME IInv, NEW e \in Endpoints, NEW c \in Conns,
           GoodbyeWritten(e, c)
    PROVE  IInv'
  <1> USE DEF IInv, flags, history
  <1>1. <<"goodbye">> \in Seq(Items \cup {"goodbye"})
    OBVIOUS
  <1>2. /\ sender' \in [Endpoints -> [Conns -> SenderStates]]
        /\ \A p \in Endpoints, d \in Conns :
              /\ Says(p, d)' => Says(p, d) /\ ~(p = e /\ d = c)
              /\ d \in csock_map'[p] => sender'[p][d] \notin {"none", "gone"}
    <2> DEFINE woken == Broadcast(e, sender)
               next == Await(e, c)
    <2>1. /\ woken \in [Endpoints -> [Conns -> SenderStates]]
          /\ \A p \in Endpoints, d \in Conns :
                \/ woken[p][d] = sender[p][d]
                \/ sender[p][d] = "waiting" /\ woken[p][d] = "running"
      BY BroadcastFacts
    <2>2. sender' = [woken EXCEPT ![e][c] = next]
      BY DEF GoodbyeWritten
    <2>3. next \in SenderStates /\ next \notin {"none", "gone", "writing"}
      BY DEF Await, SenderStates
    <2> HIDE DEF woken, next
    <2>4. /\ sender' \in [Endpoints -> [Conns -> SenderStates]]
          /\ \A p \in Endpoints, d \in Conns :
                sender'[p][d] = IF p = e /\ d = c THEN next ELSE woken[p][d]
      BY <2>1, <2>2, <2>3, SetSender
    <2>5. \A p \in Endpoints, d \in Conns :
             d \in csock_map'[p] => sender[p][d] \notin {"none", "gone"}
      BY DEF GoodbyeWritten, TypeOK
    <2>6. QED
      BY <2>1, <2>3, <2>4, <2>5 DEF Says
  <1>3. /\ net' \in [Endpoints -> [Conns -> Seq(Items \cup {"goodbye"})]]
        /\ \A p \in Endpoints, d \in Conns :
              Carries(p, d)' => Carries(p, d) \/ (p = Peer(e) /\ d = c)
    BY <1>1, TransmitFacts DEF GoodbyeWritten
  <1>4. TypeOK'
    BY <1>2, <1>3 DEF GoodbyeWritten, TypeOK
  <1>5. Says(e, c)
    BY DEF GoodbyeWritten, Says
  <1>6. \A d \in Conns : ~Says(e, d)' /\ ~Carries(Peer(e), d)
    BY <1>2, <1>5 DEF SaidOnce
  <1>7. Announced'
    BY <1>2, <1>3, PeerFacts DEF GoodbyeWritten, Announced
  <1>8. SaidOnce'
    BY <1>2, <1>3, <1>6, PeerFacts DEF SaidOnce
  <1>9. QED
    BY <1>4, <1>7, <1>8

\* The only thread that writes gives the claim back.
LEMMA GoodbyeFailsIInv ==
    ASSUME IInv, NEW e \in Endpoints, NEW c \in Conns,
           GoodbyeFails(e, c)
    PROVE  IInv'
  <1> USE DEF IInv, flags, history
  <1>1. /\ sender' \in [Endpoints -> [Conns -> SenderStates]]
        /\ \A p \in Endpoints, d \in Conns :
              /\ Says(p, d)' => Says(p, d) /\ ~(p = e /\ d = c)
              /\ d \in csock_map'[p] => sender'[p][d] \notin {"none", "gone"}
    <2> DEFINE woken == Broadcast(e, sender)
               next == "failed"
    <2>1. /\ woken \in [Endpoints -> [Conns -> SenderStates]]
          /\ \A p \in Endpoints, d \in Conns :
                \/ woken[p][d] = sender[p][d]
                \/ sender[p][d] = "waiting" /\ woken[p][d] = "running"
      BY BroadcastFacts
    <2>2. sender' = [woken EXCEPT ![e][c] = next]
      BY DEF GoodbyeFails
    <2>3. next \in SenderStates /\ next \notin {"none", "gone", "writing"}
      BY DEF SenderStates
    <2> HIDE DEF woken, next
    <2>4. /\ sender' \in [Endpoints -> [Conns -> SenderStates]]
          /\ \A p \in Endpoints, d \in Conns :
                sender'[p][d] = IF p = e /\ d = c THEN next ELSE woken[p][d]
      BY <2>1, <2>2, <2>3, SetSender
    <2>5. \A p \in Endpoints, d \in Conns :
             d \in csock_map'[p] => sender[p][d] \notin {"none", "gone"}
      BY DEF GoodbyeFails, TypeOK
    <2>6. QED
      BY <2>1, <2>3, <2>4, <2>5 DEF Says
  <1>2. TypeOK'
    BY <1>1 DEF GoodbyeFails, TypeOK
  <1>3. \A p \in Endpoints, d \in Conns : Carries(p, d)' <=> Carries(p, d)
    BY DEF GoodbyeFails, Carries
  <1>4. Says(e, c)
    BY DEF GoodbyeFails, Says
  <1>5. \A d \in Conns : ~Says(e, d)'
    BY <1>1, <1>4 DEF SaidOnce
  <1>6. Announced'
    BY <1>1, <1>3, <1>5, PeerFacts DEF GoodbyeFails, Announced
  <1>7. SaidOnce'
    BY <1>1, <1>3, PeerFacts DEF SaidOnce
  <1>8. QED
    BY <1>2, <1>6, <1>7

\* One case per action.
LEMMA NextIInv == IInv /\ [Next]_vars => IInv'
  <1> SUFFICES ASSUME IInv, [Next]_vars
               PROVE  IInv'
    OBVIOUS
  <1>1. ASSUME NEW e \in Endpoints, NEW c \in Conns, SenderThread(e, c)
        PROVE  IInv'
    BY <1>1, ScheduleWorkIInv, WriteFailsIInv, SayGoodbyeIInv, GoodbyeWrittenIInv,
       GoodbyeFailsIInv, AwaitGoodbyeIInv, ReceiverDiedIInv, FinishIInv
    DEF SenderThread
  <1>2. ASSUME NEW e \in Endpoints, NEW c \in Conns, ReceiverThread(e, c)
        PROVE  IInv'
    BY <1>2, DoIrobIInv, DoAckIInv, DoDataCheckIInv, DoGoodbyeIInv, RemoteGoodbyeIInv,
       ReceiverFinishesIInv
    DEF ReceiverThread
  <1>3. ASSUME NEW c \in Conns,
               \/ AcceptingEndRecovers(c) \/ ConnectingEndRecovers(c) \/ Abort(c)
               \/ Connected(c) \/ ConnectFails(c)
        PROVE  IInv'
    BY <1>3, AcceptingEndRecoversIInv, ConnectingEndRecoversIInv, AbortIInv,
       ConnectedIInv, ConnectFailsIInv
  <1>4. CASE Busy
    BY <1>1, <1>2, <1>3, <1>4, InsertIrobIInv DEF Busy
  <1>5. ASSUME NEW e \in Endpoints, NEW c \in Conns, TimeOut(e, c)
        PROVE  IInv'
    BY <1>5, TimeOutIInv
  <1>6. ASSUME NEW e \in Endpoints, BeginIrob(e) \/ Close(e)
        PROVE  IInv'
    BY <1>6, BeginIrobIInv, CloseIInv
  <1>7. ASSUME NEW c \in Conns, Break(c) \/ MakeCsocket(c)
        PROVE  IInv'
    BY <1>7, BreakIInv, MakeCsocketIInv
  <1>8. CASE UNCHANGED vars
    <2>1. SendersQuiet /\ NetQuiet /\ FlagsQuiet
      BY <1>8, QuietSteps DEF IInv, vars
    <2>2. TypeOK'
      BY <1>8 DEF IInv, TypeOK, vars, flags, history
    <2>3. QED
      BY <2>1, <2>2, Quiet
  <1>9. QED
    BY <1>4, <1>5, <1>6, <1>7, <1>8 DEF Next

\* The invariant holds always.
LEMMA Invariance == Spec => []IInv
  BY InitIInv, NextIInv, PTL DEF Spec

-----------------------------------------------------------------------------

\* The state of the shutdown keeps its type; a csocket that can still be chosen
\* (csock_map) has a sender thread that has not left.
THEOREM ShutdownTypeCorrect == Spec => []TypeOK
  <1>1. IInv => TypeOK
    BY DEF IInv
  <1>2. QED
    BY <1>1, Invariance, PTL

\* Of each end at most one GOODBYE is being written or in transit, whichever of
\* its sender threads does it (goodbye, of CSocketSender), whatever breaks while
\* it is written without the lock, and whoever closes.
THEOREM GoodbyeSaidOnce == Spec => []OneGoodbye
  <1>1. ASSUME IInv PROVE OneGoodbye
    <2> SUFFICES ASSUME NEW e \in Endpoints
                 PROVE  Cardinality(Goodbyes(e)) <= 1
      BY DEF OneGoodbye
    <2>1. \A c, d \in Goodbyes(e) : c = d
      <3>1. \A c \in Goodbyes(e) : c \in Conns /\ (Carries(e, c) \/ Says(Peer(e), c))
        BY DEF Goodbyes, Carries, Says
      <3>2. QED
        BY <1>1, <3>1, PeerFacts DEF IInv, SaidOnce
    <2>2. CASE Goodbyes(e) = {}
      BY <2>2, FS_EmptySet
    <2>3. CASE \E c : Goodbyes(e) = {c}
      BY <2>3, FS_Singleton
    <2>4. QED
      <3>1. Goodbyes(e) = {} \/ \E c : Goodbyes(e) = {c}
        BY <2>1
      <3>2. QED
        BY <2>2, <2>3, <3>1
  <1>2. QED
    BY <1>1, Invariance, PTL

-----------------------------------------------------------------------------
(***************************************************************************)
(* An orderly close: one application closes, no connection breaks or is    *)
(* made, and no thread waits for two minutes in vain.  (What makes a timeout possible   *)
(* is ENABLED, which is out of reach here, so that it does not happen is a *)
(* hypothesis.)                                                            *)
(***************************************************************************)

Orderly == MaxBreaks = 0 /\ MaxClosers <= 1 /\ Initial = Conns
Patient == \A e \in Endpoints : \A c \in Conns : ~TimeOut(e, c)

Bye == goodbye_sent \cup sending_goodbye
Left(e, c) == sender[e][c] \in {"finishing", "gone"}
Told(e, c) == recvr[e][c] = "told"
One(s) == \A i, j \in DOMAIN s : s[i] = "goodbye" /\ s[j] = "goodbye" => i = j

\* Nothing breaks, so no thread fails and none connects; a csocket is there until
\* its sender thread has left.
Unbroken ==
    /\ broken = {}
    /\ \A e, p \in closers : e = p
    /\ \A e \in Endpoints : \A c \in Conns :
          /\ sender[e][c] \notin {"connecting", "failed"}
          /\ c \in Initial => c \in csock_map[e] \/ sender[e][c] = "gone"

\* An end says GOODBYE when it is shutting down and its IROB, unless it came late,
\* is ACKed.
Accepted ==
    \A e \in Endpoints :
        /\ irob[e] = "beginning" => csock_map[e] # {}
        /\ e \in Bye => e \in shutting_down /\ (irob[e] = "outgoing" => e \in late)

\* The end that has not closed shuts down because the other has said GOODBYE.
Asked ==
    /\ shutting_down # {} => closers # {}
    /\ \A e \in Endpoints :
          /\ e \in shutting_down \ closers => Peer(e) \in goodbye_sent
          /\ e \in remote_shutdown => Peer(e) \in goodbye_sent

\* It hears the GOODBYE once, and by then it is not yet shutting down.
HeardOnce ==
    \A e \in Endpoints : \A c \in Conns :
        /\ One(net[e][c])
        /\ Says(e, c) => e \notin goodbye_sent
        /\ Told(e, c) => Peer(e) \in goodbye_sent
        /\ Told(e, c) => \A d \in Conns : ~Carries(e, d) /\ (Told(e, d) => c = d)
        /\ e \in shutting_down \ closers => ~Carries(e, c) /\ ~Told(e, c)

\* A thread leaves when both ends have said GOODBYE, or because the other end's
\* threads of its connection have left.
Leaving ==
    \A e \in Endpoints : \A c \in Conns :
        /\ Left(e, c) => e \in Bye /\ (Peer(e) \in goodbye_sent \/ Left(Peer(e), c))
        /\ recvr[e][c] \in {"finishing", "gone"} =>
              /\ e \in goodbye_sent \/ Left(e, c)
              /\ Peer(e) \in goodbye_sent \/ Left(Peer(e), c)
        /\ <<e, c>> \in ended => sender[Peer(e)][c] = "gone"

OInv == IInv /\ Unbroken /\ Accepted /\ Asked /\ HeardOnce /\ Leaving

\* Steps that move no thread on: some may wake up.
Woken ==
    \A p \in Endpoints, d \in Conns :
        \/ sender'[p][d] = sender[p][d]
        \/ sender[p][d] = "waiting" /\ sender'[p][d] = "running"

\* A thread of e moves on, and others may wake up.
MovedTo(e, c, st) ==
    \A p \in Endpoints, d \in Conns :
        \/ p = e /\ d = c /\ sender'[p][d] = st
        \/ ~(p = e /\ d = c) /\ sender'[p][d] = sender[p][d]
        \/ ~(p = e /\ d = c) /\ sender[p][d] = "waiting" /\ sender'[p][d] = "running"

\* No GOODBYE is put on a connection.
NetCalm ==
    \A e \in Endpoints, c \in Conns :
        (Carries(e, c)' => Carries(e, c)) /\ (One(net[e][c]) => One(net'[e][c]))

\* What is accepted is accepted before the shutdown or is late.
IrobCalm ==
    \A e \in Endpoints :
        /\ irob'[e] = "beginning" => irob[e] = "beginning" \/ csock_map[e] # {}
        /\ irob'[e] = "outgoing" /\ e \in shutting_down
              => irob[e] = "outgoing" \/ e \in late'
        /\ e \in late => e \in late'

\* A broadcast wakes threads, and does nothing else to them.
LEMMA WokenFacts ==
    ASSUME TypeOK, NEW e \in Endpoints, sender' \in {sender, Broadcast(e, sender)}
    PROVE  Woken
  <1>1. CASE sender' = sender
    BY <1>1 DEF Woken
  <1>2. CASE sender' = Broadcast(e, sender)
    BY <1>2, BroadcastFacts DEF Woken
  <1>3. QED
    BY <1>1, <1>2

\* A thread moves on.
LEMMA MovedFacts ==
    ASSUME TypeOK, NEW e \in Endpoints, NEW c \in Conns, NEW st \in SenderStates,
           sender' \in {[sender EXCEPT ![e][c] = st],
                        [Broadcast(e, sender) EXCEPT ![e][c] = st]}
    PROVE  MovedTo(e, c, st)
  <1> DEFINE woken == Broadcast(e, sender)
  <1>1. /\ woken \in [Endpoints -> [Conns -> SenderStates]]
        /\ \A p \in Endpoints, d \in Conns :
              \/ woken[p][d] = sender[p][d]
              \/ sender[p][d] = "waiting" /\ woken[p][d] = "running"
    BY BroadcastFacts
  <1>2. sender \in [Endpoints -> [Conns -> SenderStates]]
    BY DEF TypeOK
  <1>3. sender' \in {[sender EXCEPT ![e][c] = st], [woken EXCEPT ![e][c] = st]}
    OBVIOUS
  <1> HIDE DEF woken
  <1>4. PICK w \in {sender, woken} : sender' = [w EXCEPT ![e][c] = st]
    BY <1>3
  <1>5. \A p \in Endpoints, d \in Conns :
           sender'[p][d] = IF p = e /\ d = c THEN st ELSE w[p][d]
    BY <1>1, <1>2, <1>4, SetSender
  <1>6. \A p \in Endpoints, d \in Conns :
           w[p][d] = sender[p][d] \/ (sender[p][d] = "waiting" /\ w[p][d] = "running")
    BY <1>1, <1>4
  <1>7. QED
    BY <1>5, <1>6 DEF MovedTo

\* What is behind the first message holds no more GOODBYEs, and none behind one.
LEMMA TailOne ==
    ASSUME NEW M, NEW s \in Seq(M), s # <<>>, One(s)
    PROVE  /\ One(Tail(s))
           /\ Head(s) = "goodbye" => \A i \in DOMAIN Tail(s) : Tail(s)[i] # "goodbye"
  <1>1. /\ Len(s) \in Nat /\ DOMAIN s = 1 .. Len(s) /\ 1 \in DOMAIN s /\ Head(s) = s[1]
        /\ \A i \in DOMAIN Tail(s) : /\ i \in Nat /\ i + 1 \in DOMAIN s /\ i + 1 # 1
                                     /\ Tail(s)[i] = s[i + 1]
    OBVIOUS
  <1>2. \A i, j \in DOMAIN Tail(s) : i + 1 = j + 1 => i = j
    BY <1>1
  <1>3. QED
    BY <1>1, <1>2 DEF One

\* A GOODBYE is put only where there is none.
LEMMA AppendOne ==
    ASSUME NEW M, NEW s \in Seq(M), NEW t \in Seq(M), One(s), One(t),
           \/ \A i \in DOMAIN s : s[i] # "goodbye"
           \/ \A i \in DOMAIN t : t[i] # "goodbye"
    PROVE  One(s \o t)
  <1>1. /\ Len(s) \in Nat /\ Len(t) \in Nat
        /\ DOMAIN s = 1 .. Len(s) /\ DOMAIN t = 1 .. Len(t)
        /\ DOMAIN (s \o t) = 1 .. (Len(s) + Len(t))
        /\ \A i \in 1 .. (Len(s) + Len(t)) :
              (s \o t)[i] = IF i <= Len(s) THEN s[i] ELSE t[i - Len(s)]
    OBVIOUS
  <1>2. \A i \in DOMAIN (s \o t) :
           \/ i \in DOMAIN s /\ (s \o t)[i] = s[i]
           \/ i - Len(s) \in DOMAIN t /\ (s \o t)[i] = t[i - Len(s)] /\ i \in Int
    BY <1>1
  <1>3. \A i, j \in Int : i - Len(s) = j - Len(s) => i = j
    BY <1>1
  <1>4. QED
    BY <1>2, <1>3 DEF One

\* What a sender thread transmits of its work holds no GOODBYE.
LEMMA TransmitCalm ==
    ASSUME TypeOK, NEW e \in Endpoints, NEW c \in Conns,
           NEW msgs \in Seq(Items), \A i \in DOMAIN msgs : msgs[i] # "goodbye",
           Transmit(e, c, msgs)
    PROVE  NetCalm
  <1>1. msgs \in Seq(Items \cup {"goodbye"})
    OBVIOUS
  <1>2. \A p \in Endpoints, d \in Conns : Carries(p, d)' => Carries(p, d)
    BY <1>1, TransmitFacts
  <1>3. ASSUME NEW p \in Endpoints, NEW d \in Conns, One(net[p][d])
        PROVE  One(net'[p][d])
    <2>1. net[p][d] \in Seq(Items \cup {"goodbye"})
      BY DEF TypeOK
    <2>2. net'[p][d] = net[p][d] \/ net'[p][d] = net[p][d] \o msgs
      BY PeerFacts DEF Transmit, TypeOK
    <2>3. One(msgs)
      BY DEF One
    <2>4. QED
      BY <1>1, <1>3, <2>1, <2>2, <2>3, AppendOne
  <1>4. QED
    BY <1>2, <1>3 DEF NetCalm

\* A message is taken from a connection.
LEMMA ReceiveCalm ==
    ASSUME TypeOK, NEW e \in Endpoints, NEW c \in Conns, NEW msg, Receive(e, c, msg)
    PROVE  NetCalm
  <1>1. \A p \in Endpoints, d \in Conns : Carries(p, d)' => Carries(p, d)
    BY ReceiveQuiet DEF NetQuiet
  <1>2. ASSUME NEW p \in Endpoints, NEW d \in Conns, One(net[p][d])
        PROVE  One(net'[p][d])
    <2>1. net[p][d] \in Seq(Items \cup {"goodbye"})
      BY DEF TypeOK
    <2>2. net'[p][d] = net[p][d] \/ (net[p][d] # <<>> /\ net'[p][d] = Tail(net[p][d]))
      BY DEF Receive, TypeOK
    <2>3. QED
      BY <1>2, <2>1, <2>2, TailOne
  <1>3. QED
    BY <1>1, <1>2 DEF NetCalm

\* Who has left stays away, and who leaves in a step may: the invariant on leaving
\* in terms of the two states.
LEMMA LeavingStep ==
    ASSUME Leaving,
           goodbye_sent \subseteq goodbye_sent', sending_goodbye \subseteq sending_goodbye',
           \A p \in Endpoints, d \in Conns :
              /\ sender[p][d] \in {"finishing", "gone"}
                    => sender'[p][d] \in {"finishing", "gone"}
              /\ sender[p][d] = "gone" => sender'[p][d] = "gone"
              /\ sender'[p][d] \in {"finishing", "gone"} =>
                    \/ sender[p][d] \in {"finishing", "gone"}
                    \/ /\ p \in goodbye_sent' \cup sending_goodbye'
                       /\ \/ Peer(p) \in goodbye_sent'
                          \/ sender[Peer(p)][d] \in {"finishing", "gone"}
              /\ recvr'[p][d] \in {"finishing", "gone"} =>
                    \/ recvr[p][d] \in {"finishing", "gone"}
                    \/ /\ p \in goodbye_sent' \/ sender[p][d] \in {"finishing", "gone"}
                       /\ \/ Peer(p) \in goodbye_sent'
                          \/ sender[Peer(p)][d] \in {"finishing", "gone"}
              /\ <<p, d>> \in ended' =>
                    <<p, d>> \in ended \/ sender'[Peer(p)][d] = "gone"
    PROVE  Leaving'
  <1> SUFFICES ASSUME NEW p \in Endpoints, NEW d \in Conns
               PROVE  /\ sender'[p][d] \in {"finishing", "gone"} =>
                            /\ p \in goodbye_sent' \cup sending_goodbye'
                            /\ \/ Peer(p) \in goodbye_sent'
                               \/ sender'[Peer(p)][d] \in {"finishing", "gone"}
                      /\ recvr'[p][d] \in {"finishing", "gone"} =>
                            /\ \/ p \in goodbye_sent'
                               \/ sender'[p][d] \in {"finishing", "gone"}
                            /\ \/ Peer(p) \in goodbye_sent'
                               \/ sender'[Peer(p)][d] \in {"finishing", "gone"}
                      /\ <<p, d>> \in ended' => sender'[Peer(p)][d] = "gone"
    BY DEF Leaving, Left, Bye
  <1>1. Peer(p) \in Endpoints
    BY PeerFacts
  <1>2. /\ sender[p][d] \in {"finishing", "gone"} =>
              /\ p \in goodbye_sent \cup sending_goodbye
              /\ \/ Peer(p) \in goodbye_sent
                 \/ sender[Peer(p)][d] \in {"finishing", "gone"}
        /\ recvr[p][d] \in {"finishing", "gone"} =>
              /\ p \in goodbye_sent \/ sender[p][d] \in {"finishing", "gone"}
              /\ \/ Peer(p) \in goodbye_sent
                 \/ sender[Peer(p)][d] \in {"finishing", "gone"}
        /\ <<p, d>> \in ended => sender[Peer(p)][d] = "gone"
    BY DEF Leaving, Left, Bye
  <1>3. sender[Peer(p)][d] \in {"finishing", "gone"}
           => sender'[Peer(p)][d] \in {"finishing", "gone"}
    BY <1>1
  <1>4. sender[Peer(p)][d] = "gone" => sender'[Peer(p)][d] = "gone"
    BY <1>1
  <1>5. QED
    BY <1>2, <1>3, <1>4

\* A step that only wakes threads, takes messages or sends others than a GOODBYE
\* preserves the invariant.
LEMMA Calm ==
    ASSUME OInv, IInv', Woken, NetCalm, IrobCalm,
           UNCHANGED <<flags, csock_map, recvr, ended, broken, closers>>
    PROVE  OInv'
  <1> USE PeerFacts
  <1>1. Unbroken'
    BY DEF OInv, Unbroken, Woken
  <1>2. Accepted'
    BY DEF OInv, Accepted, IrobCalm, Bye, flags
  <1>3. Asked'
    BY DEF OInv, Asked, flags
  <1>4. HeardOnce'
    <2>1. \A p \in Endpoints, d \in Conns : Says(p, d)' => Says(p, d)
      BY DEF Woken, Says
    <2>2. \A p \in Endpoints, d \in Conns : Told(p, d)' <=> Told(p, d)
      BY DEF Told
    <2>3. QED
      BY <2>1, <2>2 DEF OInv, HeardOnce, NetCalm, flags
  <1>5. Leaving'
    <2>1. \A p \in Endpoints, d \in Conns : /\ Left(p, d)' <=> Left(p, d)
                                            /\ sender[p][d] = "gone" => sender'[p][d] = "gone"
      BY DEF Woken, Left
    <2>2. QED
      BY <2>1 DEF OInv, Leaving, Bye, flags
  <1>6. QED
    BY <1>1, <1>2, <1>3, <1>4, <1>5 DEF OInv

\* Nothing has happened at the start.
LEMMA InitOInv == Init => OInv
  <1> SUFFICES ASSUME Init PROVE OInv
    OBVIOUS
  <1>1. IInv
    BY InitIInv
  <1>2. /\ Unbroken /\ Accepted /\ Asked /\ HeardOnce /\ Leaving
    BY DEF Init, Unbroken, Accepted, Asked, HeardOnce, Leaving, One, Says, Told, Carries,
           Left, Bye
  <1>3. QED
    BY <1>1, <1>2 DEF OInv

\* What cannot happen while nothing breaks: a write fails only on a broken
\* connection, and no thread fails or connects.
LEMMA Impossible ==
    ASSUME OInv, Orderly, NEW c \in Conns
    PROVE  /\ ~Unreachable /\ ~Break(c)
           /\ ~AcceptingEndRecovers(c) /\ ~ConnectingEndRecovers(c)
           /\ ~Abort(c) /\ ~MakeCsocket(c)
           /\ ~Connected(c) /\ ~ConnectFails(c)
           /\ \A e \in Endpoints :
                 /\ ~GoodbyeFails(e, c)
                 /\ \A index, item : ~WriteFails(e, c, index, item)
  <1>1. broken = {} /\ \A e \in Endpoints : sender[e][c] \notin {"connecting", "failed"}
    BY DEF OInv, Unbroken
  <1>2. ~Unreachable
    BY <1>1 DEF Unreachable
  <1>3. ~Break(c)
    BY <1>1, FS_EmptySet DEF Break, Orderly
  <1>4. /\ ~AcceptingEndRecovers(c) /\ ~ConnectingEndRecovers(c)
        /\ ~Abort(c) /\ ~Connected(c) /\ ~ConnectFails(c)
    BY <1>1 DEF AcceptingEndRecovers, ConnectingEndRecovers, Abort, Connected,
                ConnectFails, Endpoints
  <1>5. \A e \in Endpoints :
           /\ ~GoodbyeFails(e, c)
           /\ \A index, item : ~WriteFails(e, c, index, item)
    BY <1>1 DEF GoodbyeFails, WriteFails
  <1>6. ~MakeCsocket(c)
    <2>1. c \in csock_map["connecting"] \/ sender["connecting"][c] = "gone"
      BY DEF OInv, Unbroken, Orderly, Endpoints
    <2>2. sender["connecting"][c] # "none"
      BY <2>1 DEF OInv, IInv, TypeOK, Endpoints
    <2>3. QED
      BY <2>2 DEF MakeCsocket
  <1>7. QED
    BY <1>2, <1>3, <1>4, <1>5, <1>6

-----------------------------------------------------------------------------
(***************************************************************************)
(* Every action that can happen preserves it.  Most are calm; the GOODBYE  *)
(* moves from the thread that writes it to the connection, to the receiver *)
(* thread and to the flags, and then the threads leave.                    *)
(***************************************************************************)

\* An IROB begins only while there is a csocket.
LEMMA BeginIrobOInv ==
    ASSUME OInv, IInv', NEW e \in Endpoints, BeginIrob(e)
    PROVE  OInv'
  <1>1. TypeOK
    BY DEF OInv, IInv
  <1>2. Woken /\ NetCalm
    BY DEF BeginIrob, Woken, NetCalm, Carries
  <1>3. IrobCalm
    BY <1>1 DEF BeginIrob, IrobCalm, TypeOK, history
  <1>4. QED
    BY <1>2, <1>3, Calm DEF BeginIrob, history

\* An IROB that is inserted during the shutdown is late.
LEMMA InsertIrobOInv ==
    ASSUME OInv, IInv', NEW e \in Endpoints, NEW c \in Conns, InsertIrob(e, c)
    PROVE  OInv'
  <1>1. TypeOK
    BY DEF OInv, IInv
  <1>2. Woken
    BY <1>1, WokenFacts DEF InsertIrob
  <1>3. NetCalm
    BY DEF InsertIrob, NetCalm, Carries
  <1>4. IrobCalm
    BY <1>1 DEF InsertIrob, IrobCalm, TypeOK
  <1>5. QED
    BY <1>2, <1>3, <1>4, Calm DEF InsertIrob

\* What is sent is no GOODBYE.
LEMMA ScheduleWorkOInv ==
    ASSUME OInv, IInv', NEW e \in Endpoints, NEW c \in Conns, NEW index,
           NEW item \in Items, ScheduleWork(e, c, index, item)
    PROVE  OInv'
  <1>1. TypeOK
    BY DEF OInv, IInv
  <1>2. Woken /\ IrobCalm
    BY DEF ScheduleWork, Woken, IrobCalm, history
  <1>3. NetCalm
    BY <1>1, MessagesFacts, TransmitCalm DEF ScheduleWork
  <1>4. QED
    BY <1>2, <1>3, Calm DEF ScheduleWork, history

\* An IROB, an ACK or a data check is handled.
LEMMA HandledOInv ==
    ASSUME OInv, IInv', NEW e \in Endpoints, NEW c \in Conns,
           DoIrob(e, c) \/ DoAck(e, c) \/ DoDataCheck(e, c)
    PROVE  OInv'
  <1>1. TypeOK
    BY DEF OInv, IInv
  <1>2. Woken
    BY <1>1, WokenFacts DEF DoIrob, DoAck, DoDataCheck
  <1>3. NetCalm
    BY <1>1, ReceiveCalm DEF DoIrob, DoAck, DoDataCheck
  <1>4. IrobCalm
    BY <1>1 DEF DoIrob, DoAck, DoDataCheck, Receive, history, IrobCalm, TypeOK
  <1>5. QED
    BY <1>2, <1>3, <1>4, Calm DEF DoIrob, DoAck, DoDataCheck, Receive, history

\* The first to close finds neither end shutting down.
LEMMA CloseOInv ==
    ASSUME OInv, IInv', Orderly, NEW e \in Endpoints, Close(e)
    PROVE  OInv'
  <1> USE PeerFacts
  <1>1. TypeOK
    BY DEF OInv, IInv
  <1>2. closers = {} /\ closers' = {e} /\ shutting_down = {}
    <2>1. closers \subseteq Endpoints /\ IsFiniteSet(Endpoints)
      <3>1. Endpoints = {"connecting"} \cup {"accepting"}
        BY DEF Endpoints
      <3>2. IsFiniteSet({"connecting"})
        BY FS_Singleton
      <3>3. QED
        BY <1>1, <3>1, <3>2, FS_AddElement DEF TypeOK
    <2>2. IsFiniteSet(closers) /\ Cardinality(closers) \in Nat
      BY <2>1, FS_Subset, FS_CardinalityType
    <2>3. Cardinality(closers) < 1
      BY <2>2, ShutdownAssumption DEF Close, Orderly
    <2>4. closers = {}
      BY <2>2, <2>3, FS_EmptySet
    <2>5. QED
      BY <2>4 DEF Close, OInv, Asked
  <1>3. /\ shutting_down' = {e} /\ UNCHANGED <<sending_goodbye, remote_shutdown, goodbye_sent>>
    <2>1. ~Unreachable
      <3>1. PICK c \in Conns : TRUE
        BY ShutdownAssumption
      <3>2. QED
        BY <3>1, Impossible
    <2>2. QED
      BY <1>2, <2>1 DEF Close, Goodbye
  <1>4. Woken
    BY <1>1, WokenFacts DEF Close
  <1>5. UNCHANGED <<csock_map, irob, recvr, net, ended, broken, late>>
    BY DEF Close
  <1>6. Unbroken'
    BY <1>2, <1>4, <1>5 DEF OInv, Unbroken, Woken
  <1>7. Accepted'
    BY <1>2, <1>3, <1>5 DEF OInv, Accepted, Bye
  <1>8. Asked'
    BY <1>2, <1>3, <1>5 DEF OInv, Asked
  <1>9. HeardOnce'
    BY <1>2, <1>3, <1>4, <1>5 DEF OInv, HeardOnce, Woken, Says, Told, Carries
  <1>10. Leaving'
    BY <1>3, <1>4, <1>5, LeavingStep DEF OInv, Woken
  <1>11. QED
    BY <1>6, <1>7, <1>8, <1>9, <1>10 DEF OInv

\* A thread says GOODBYE when the IROB of its end is not outstanding.
LEMMA SayGoodbyeOInv ==
    ASSUME OInv, IInv', NEW e \in Endpoints, NEW c \in Conns, SayGoodbye(e, c)
    PROVE  OInv'
  <1> USE PeerFacts
  <1>1. TypeOK
    BY DEF OInv, IInv
  <1>2. MovedTo(e, c, "writing") /\ sender[e][c] = "running"
    BY <1>1, MovedFacts DEF SayGoodbye, Running, SenderStates
  <1>3. e \in shutting_down /\ irob[e] # "outgoing" /\ e \notin goodbye_sent
    BY DEF SayGoodbye, ReadyToLeave, NothingToSend
  <1>4. /\ sending_goodbye' = sending_goodbye \cup {e}
        /\ UNCHANGED <<shutting_down, remote_shutdown, goodbye_sent, csock_map, irob, recvr,
                       net, ended, broken, closers, late>>
    BY DEF SayGoodbye, history
  <1>5. Unbroken'
    BY <1>2, <1>4 DEF OInv, Unbroken, MovedTo
  <1>6. Accepted'
    BY <1>3, <1>4 DEF OInv, Accepted, Bye
  <1>7. Asked'
    BY <1>4 DEF OInv, Asked
  <1>8. HeardOnce'
    BY <1>2, <1>3, <1>4 DEF OInv, HeardOnce, MovedTo, Says, Told, Carries
  <1>9. Leaving'
    BY <1>2, <1>4, LeavingStep DEF OInv, MovedTo
  <1>10. QED
    BY <1>5, <1>6, <1>7, <1>8, <1>9 DEF OInv

\* A thread that goes to sleep or leaves: it leaves only when it may.
LEMMA MovesOnOInv ==
    ASSUME OInv, IInv', NEW e \in Endpoints, NEW c \in Conns,
           NEW st \in {"waiting", "finishing"}, MovedTo(e, c, st),
           sender[e][c] = "running", e \in Bye,
           st = "finishing" => e \in remote_shutdown \/ recvr[e][c] = "gone",
           UNCHANGED <<flags, csock_map, irob, recvr, net, ended, broken, history>>
    PROVE  OInv'
  <1> USE PeerFacts
  <1>1. Peer(e) \in goodbye_sent \/ Left(Peer(e), c) \/ st = "waiting"
    BY DEF OInv, Asked, Leaving
  <1>2. Unbroken'
    BY DEF OInv, Unbroken, MovedTo, history
  <1>3. Accepted'
    BY DEF OInv, Accepted, Bye, flags, history
  <1>4. Asked'
    BY DEF OInv, Asked, flags, history
  <1>5. HeardOnce'
    BY DEF OInv, HeardOnce, MovedTo, Says, Told, Carries, flags, history
  <1>6. Leaving'
    <2>1. \A p \in Endpoints, d \in Conns :
             \/ sender'[p][d] \in {"finishing", "gone"} <=> sender[p][d] \in {"finishing", "gone"}
             \/ p = e /\ d = c /\ st = "finishing"
      BY DEF MovedTo
    <2>2. \A p \in Endpoints, d \in Conns :
             /\ sender[p][d] = "gone" => sender'[p][d] = "gone"
             /\ sender[p][d] \in {"finishing", "gone"} => sender'[p][d] \in {"finishing", "gone"}
      BY DEF MovedTo
    <2>3. QED
      BY <1>1, <2>1, <2>2, LeavingStep DEF OInv, Left, Bye, flags
  <1>7. QED
    BY <1>2, <1>3, <1>4, <1>5, <1>6 DEF OInv

\* A thread that need not say GOODBYE waits for the other one, or leaves.
LEMMA AwaitGoodbyeOInv ==
    ASSUME OInv, IInv', NEW e \in Endpoints, NEW c \in Conns, AwaitGoodbye(e, c)
    PROVE  OInv'
  <1>1. TypeOK
    BY DEF OInv, IInv
  <1>2. Await(e, c) \in {"waiting", "finishing"}
    BY DEF Await
  <1>3. MovedTo(e, c, Await(e, c))
    BY <1>1, <1>2, MovedFacts DEF AwaitGoodbye, SenderStates
  <1>4. Await(e, c) = "finishing" => e \in remote_shutdown \/ recvr[e][c] = "gone"
    BY DEF Await
  <1>5. QED
    BY <1>2, <1>3, <1>4, MovesOnOInv DEF AwaitGoodbye, Bye, Running

\* The receiver thread of a connection is gone only when the GOODBYE has been said:
\* the sender thread does not fail.
LEMMA ReceiverDiedOInv ==
    ASSUME OInv, IInv', NEW e \in Endpoints, NEW c \in Conns, ReceiverDied(e, c)
    PROVE  OInv'
  <1>1. TypeOK
    BY DEF OInv, IInv
  <1>2. sender[e][c] = "running" /\ recvr[e][c] = "gone"
    BY DEF ReceiverDied, Running
  <1>3. e \in goodbye_sent
    BY <1>2 DEF OInv, Leaving, Left
  <1>4. e \in shutting_down
    BY <1>3 DEF OInv, Accepted, Bye
  <1>5. MovedTo(e, c, "finishing")
    BY <1>1, <1>3, <1>4, MovedFacts DEF ReceiverDied, SenderStates
  <1>6. QED
    BY <1>2, <1>3, <1>5, MovesOnOInv DEF ReceiverDied, Bye

\* A thread has left: its csocket goes, and its stream ends.
LEMMA FinishOInv ==
    ASSUME OInv, IInv', NEW e \in Endpoints, NEW c \in Conns, Finish(e, c)
    PROVE  OInv'
  <1> USE PeerFacts
  <1>1. TypeOK
    BY DEF OInv, IInv
  <1>2. MovedTo(e, c, "gone") /\ sender[e][c] = "finishing" /\ irob[e] # "beginning"
    BY <1>1, MovedFacts DEF Finish, SenderStates
  <1>3. /\ ended' = ended \cup {<<Peer(e), c>>}
        /\ UNCHANGED <<flags, irob, recvr, net, broken, closers, late>>
    BY DEF Finish, history
  <1>4. /\ csock_map'[e] = csock_map[e] \ {c}
        /\ \A p \in Endpoints : p # e => csock_map'[p] = csock_map[p]
    BY <1>1 DEF Finish, TypeOK
  <1>5. Unbroken'
    BY <1>2, <1>3, <1>4 DEF OInv, Unbroken, MovedTo
  <1>6. Accepted'
    BY <1>2, <1>3, <1>4 DEF OInv, Accepted, Bye, flags
  <1>7. Asked'
    BY <1>3 DEF OInv, Asked, flags
  <1>8. HeardOnce'
    BY <1>2, <1>3 DEF OInv, HeardOnce, MovedTo, Says, Told, Carries, flags
  <1>9. Leaving'
    <2>1. \A p \in Endpoints, d \in Conns :
             /\ Left(p, d)' <=> Left(p, d)
             /\ sender[p][d] = "gone" => sender'[p][d] = "gone"
      BY <1>2 DEF MovedTo, Left
    <2>2. sender'[e][c] = "gone"
      BY <1>2 DEF MovedTo
    <2>3. QED
      BY <1>3, <2>1, <2>2 DEF OInv, Leaving, Bye, flags
  <1>10. QED
    BY <1>5, <1>6, <1>7, <1>8, <1>9 DEF OInv

\* The GOODBYE is put on a connection; the other end has heard none, so that if it
\* has not closed it is not shutting down.
LEMMA GoodbyeWrittenOInv ==
    ASSUME OInv, IInv', NEW e \in Endpoints, NEW c \in Conns, GoodbyeWritten(e, c)
    PROVE  OInv'
  <1> USE PeerFacts
  <1>1. TypeOK /\ Announced /\ SaidOnce
    BY DEF OInv, IInv
  <1>2. /\ Says(e, c) /\ e \in sending_goodbye /\ e \notin goodbye_sent
        /\ \A d \in Conns : ~Carries(Peer(e), d)
    BY <1>1 DEF GoodbyeWritten, Says, Announced, SaidOnce, OInv, HeardOnce
  <1>3. Await(e, c) \in {"waiting", "finishing"}
    BY DEF Await
  <1>4. MovedTo(e, c, Await(e, c))
    BY <1>1, <1>3, MovedFacts DEF GoodbyeWritten, SenderStates
  <1>5. /\ goodbye_sent' = goodbye_sent \cup {e}
        /\ UNCHANGED <<shutting_down, remote_shutdown, sending_goodbye, csock_map, irob, recvr,
                       ended, broken, closers, late>>
    BY DEF GoodbyeWritten, history
  <1>6. Unbroken'
    <2>1. \A p \in Endpoints, d \in Conns :
             /\ sender'[p][d] \in {"connecting", "failed"}
                   => sender[p][d] \in {"connecting", "failed"}
             /\ sender[p][d] = "gone" => sender'[p][d] = "gone"
      BY <1>2, <1>3, <1>4 DEF MovedTo, Says
    <2>2. QED
      BY <1>5, <2>1 DEF OInv, Unbroken
  <1>7. Accepted'
    BY <1>2, <1>5 DEF OInv, Accepted, Bye
  <1>8. Asked'
    BY <1>5 DEF OInv, Asked
  <1>9. \A p \in Endpoints, d \in Conns :
           /\ Carries(p, d)' => Carries(p, d) \/ p = Peer(e)
           /\ One(net'[p][d])
    <2> DEFINE msgs == <<"goodbye">>
    <2>1. msgs \in Seq(Items \cup {"goodbye"}) /\ One(msgs)
      BY DEF One
    <2>2. Transmit(e, c, msgs)
      BY DEF GoodbyeWritten
    <2> HIDE DEF msgs
    <2>3. \A p \in Endpoints, d \in Conns : Carries(p, d)' => Carries(p, d) \/ p = Peer(e)
      BY <1>1, <2>1, <2>2, TransmitFacts
    <2>4. ASSUME NEW p \in Endpoints, NEW d \in Conns
          PROVE  One(net'[p][d])
      <3>1. net[p][d] \in Seq(Items \cup {"goodbye"}) /\ One(net[p][d])
        BY <1>1 DEF TypeOK, OInv, HeardOnce
      <3>2. \/ net'[p][d] = net[p][d]
            \/ p = Peer(e) /\ net'[p][d] = net[p][d] \o msgs
        BY <1>1, <2>2 DEF Transmit, TypeOK
      <3>3. p = Peer(e) => \A i \in DOMAIN net[p][d] : net[p][d][i] # "goodbye"
        BY <1>2 DEF Carries
      <3>4. CASE net'[p][d] = net[p][d]
        BY <3>1, <3>4
      <3>5. CASE p = Peer(e) /\ net'[p][d] = net[p][d] \o msgs
        <4>1. \A i \in DOMAIN net[p][d] : net[p][d][i] # "goodbye"
          BY <3>3, <3>5
        <4>2. One(net[p][d] \o msgs)
          BY <2>1, <3>1, <4>1, AppendOne
        <4>3. QED
          BY <3>5, <4>2
      <3>6. QED
        BY <3>2, <3>4, <3>5
    <2>5. QED
      BY <2>3, <2>4
  <1>10. HeardOnce'
    <2>1. \A p \in Endpoints, d \in Conns : Says(p, d)' => Says(p, d) /\ p # e
      <3>1. \A p \in Endpoints, d \in Conns : Says(p, d)' => Says(p, d) /\ ~(p = e /\ d = c)
        BY <1>3, <1>4 DEF MovedTo, Says
      <3>2. QED
        BY <1>1, <1>2, <3>1 DEF SaidOnce
    <2>2. \A p \in Endpoints, d \in Conns : Told(p, d)' <=> Told(p, d)
      BY <1>5 DEF Told
    <2>3. /\ \A d \in Conns : ~Told(Peer(e), d)
          /\ Peer(e) \notin shutting_down \ closers
      BY <1>2 DEF OInv, HeardOnce, Asked
    <2>4. QED
      BY <1>5, <1>9, <2>1, <2>2, <2>3 DEF OInv, HeardOnce
  <1>11. Leaving'
    <2>1. \A p \in Endpoints, d \in Conns :
             \/ sender'[p][d] \in {"finishing", "gone"} <=> sender[p][d] \in {"finishing", "gone"}
             \/ p = e /\ d = c /\ Await(e, c) = "finishing"
      BY <1>2, <1>3, <1>4 DEF MovedTo, Says
    <2>2. \A p \in Endpoints, d \in Conns :
             /\ sender[p][d] = "gone" => sender'[p][d] = "gone"
             /\ sender[p][d] \in {"finishing", "gone"} => sender'[p][d] \in {"finishing", "gone"}
      BY <1>2, <1>4 DEF MovedTo, Says
    <2>3. Await(e, c) = "finishing" =>
             \/ Peer(e) \in goodbye_sent
             \/ sender[Peer(e)][c] \in {"finishing", "gone"}
      BY DEF Await, OInv, Asked, Leaving, Left
    <2>4. QED
      BY <1>2, <1>5, <2>1, <2>2, <2>3, LeavingStep DEF OInv
  <1>12. QED
    BY <1>6, <1>7, <1>8, <1>10, <1>11 DEF OInv

\* An end that is shutting down when it hears a GOODBYE is the one that closed, and
\* has said its own; the other is told.
LEMMA DoGoodbyeOInv ==
    ASSUME OInv, IInv', NEW e \in Endpoints, NEW c \in Conns, DoGoodbye(e, c)
    PROVE  OInv'
  <1> USE PeerFacts
  <1>1. TypeOK /\ Announced /\ SaidOnce
    BY DEF OInv, IInv
  <1>2. Receive(e, c, "goodbye")
    BY DEF DoGoodbye
  <1>3. Woken
    BY <1>1, WokenFacts DEF DoGoodbye
  <1>4. NetCalm
    BY <1>1, <1>2, ReceiveCalm
  <1>5. Carries(e, c) /\ \A d \in Conns : ~Carries(e, d)'
    <2>1. /\ net[e][c] \in Seq(Items \cup {"goodbye"}) /\ net[e][c] # <<>>
          /\ Head(net[e][c]) = "goodbye" /\ One(net[e][c]) /\ net'[e][c] = Tail(net[e][c])
      BY <1>1, <1>2 DEF TypeOK, Receive, OInv, HeardOnce
    <2>2. Carries(e, c)
      BY <2>1 DEF Carries
    <2>3. ~Carries(e, c)'
      BY <2>1, TailOne DEF Carries
    <2>4. QED
      BY <1>1, <1>4, <2>2, <2>3 DEF SaidOnce, NetCalm
  <1>6. Peer(e) \in goodbye_sent
    BY <1>1, <1>5 DEF Announced
  <1>7. UNCHANGED <<shutting_down, goodbye_sent, sending_goodbye, csock_map, irob, ended,
                    broken, closers, late>>
    BY <1>2 DEF DoGoodbye, Receive, history
  <1>8. Unbroken'
    BY <1>3, <1>7 DEF OInv, Unbroken, Woken
  <1>9. Accepted'
    BY <1>7 DEF OInv, Accepted, Bye
  <1>10. Asked'
    <2>1. remote_shutdown' \subseteq remote_shutdown \cup {e}
      BY DEF DoGoodbye
    <2>2. QED
      BY <1>6, <1>7, <2>1 DEF OInv, Asked
  <1>11. \A p \in Endpoints, d \in Conns :
            Says(p, d)' => Says(p, d)
    BY <1>3 DEF Woken, Says
  <1>12. CASE e \in shutting_down
    <2>1. \A p \in Endpoints, d \in Conns :
             recvr'[p][d] = IF p = e /\ d = c THEN "finishing" ELSE recvr[p][d]
      BY <1>1, <1>12 DEF DoGoodbye, TypeOK
    <2>2. \A p \in Endpoints, d \in Conns : Told(p, d)' => Told(p, d)
      BY <2>1 DEF Told
    <2>3. HeardOnce'
      BY <1>4, <1>7, <1>11, <2>2 DEF OInv, HeardOnce, NetCalm
    <2>4. e \in goodbye_sent
      <3>1. e \in closers
        BY <1>5, <1>12 DEF OInv, HeardOnce
      <3>2. Peer(e) \in shutting_down \ closers
        BY <1>6, <3>1 DEF OInv, Accepted, Bye, Unbroken
      <3>3. QED
        BY <3>2 DEF OInv, Asked
    <2>5. Leaving'
      BY <1>3, <1>6, <1>7, <2>1, <2>4, LeavingStep DEF OInv, Woken
    <2>6. QED
      BY <1>8, <1>9, <1>10, <2>3, <2>5 DEF OInv
  <1>13. CASE e \notin shutting_down
    <2>1. \A p \in Endpoints, d \in Conns :
             recvr'[p][d] = IF p = e /\ d = c THEN "told" ELSE recvr[p][d]
      BY <1>1, <1>13 DEF DoGoodbye, TypeOK
    <2>2. \A p \in Endpoints, d \in Conns : Told(p, d)' <=> Told(p, d) \/ (p = e /\ d = c)
      BY <2>1 DEF Told
    <2>3. \A d \in Conns : ~Told(e, d)
      BY <1>5 DEF OInv, HeardOnce
    <2>4. HeardOnce'
      BY <1>4, <1>5, <1>6, <1>7, <1>11, <1>13, <2>2, <2>3 DEF OInv, HeardOnce, NetCalm
    <2>5. Leaving'
      BY <1>3, <1>7, <2>1, LeavingStep DEF OInv, Woken
    <2>6. QED
      BY <1>8, <1>9, <1>10, <2>4, <2>5 DEF OInv
  <1>14. QED
    BY <1>12, <1>13

\* The end that was told starts its shutdown, and will hear no other GOODBYE.
LEMMA RemoteGoodbyeOInv ==
    ASSUME OInv, IInv', Orderly, NEW e \in Endpoints, NEW c \in Conns, RemoteGoodbye(e, c)
    PROVE  OInv'
  <1> USE PeerFacts
  <1>1. TypeOK
    BY DEF OInv, IInv
  <1>2. Told(e, c) /\ Peer(e) \in goodbye_sent
    BY DEF RemoteGoodbye, Told, OInv, HeardOnce
  <1>3. Woken
    BY <1>1, WokenFacts DEF RemoteGoodbye
  <1>4. UNCHANGED <<csock_map, irob, net, ended, broken, closers, late>>
    BY DEF RemoteGoodbye, history
  <1>5. /\ UNCHANGED <<goodbye_sent, sending_goodbye>>
        /\ shutting_down' = shutting_down \cup {e}
        /\ remote_shutdown' \subseteq remote_shutdown \cup {e}
    <2>1. Goodbye(e, TRUE) /\ ~Unreachable
      BY Impossible DEF RemoteGoodbye
    <2>2. QED
      BY <2>1 DEF Goodbye, flags
  <1>6. \A p \in Endpoints, d \in Conns :
           recvr'[p][d] = IF p = e /\ d = c THEN "running" ELSE recvr[p][d]
    BY <1>1 DEF RemoteGoodbye, TypeOK
  <1>7. Unbroken'
    BY <1>3, <1>4 DEF OInv, Unbroken, Woken
  <1>8. Accepted'
    BY <1>4, <1>5 DEF OInv, Accepted, Bye
  <1>9. Asked'
    <2>1. closers # {}
      BY <1>2 DEF OInv, Accepted, Asked, Bye
    <2>2. QED
      BY <1>2, <1>4, <1>5, <2>1 DEF OInv, Asked
  <1>10. HeardOnce'
    <2>1. \A p \in Endpoints, d \in Conns :
             /\ Says(p, d)' => Says(p, d)
             /\ Carries(p, d)' <=> Carries(p, d)
             /\ Told(p, d)' => Told(p, d) /\ ~(p = e /\ d = c)
      BY <1>3, <1>4, <1>6 DEF Woken, Says, Carries, Told
    <2>2. \A d \in Conns : ~Carries(e, d)' /\ ~Told(e, d)'
      BY <1>2, <2>1 DEF OInv, HeardOnce
    <2>3. QED
      BY <1>4, <1>5, <2>1, <2>2 DEF OInv, HeardOnce
  <1>11. Leaving'
    BY <1>3, <1>4, <1>5, <1>6, LeavingStep DEF OInv, Woken
  <1>12. QED
    BY <1>7, <1>8, <1>9, <1>10, <1>11 DEF OInv

\* A receiver thread leaves because it has heard a GOODBYE or the stream has ended.
LEMMA ReceiverFinishesOInv ==
    ASSUME OInv, IInv', NEW e \in Endpoints, NEW c \in Conns, ReceiverFinishes(e, c)
    PROVE  OInv'
  <1> USE PeerFacts
  <1>1. TypeOK
    BY DEF OInv, IInv
  <1>2. recvr[e][c] = "finishing" \/ <<e, c>> \in ended
    BY DEF ReceiverFinishes, OInv, Unbroken
  <1>3. /\ e \in goodbye_sent \/ Left(e, c)
        /\ Peer(e) \in goodbye_sent \/ Left(Peer(e), c)
    <2>1. CASE recvr[e][c] = "finishing"
      BY <2>1 DEF OInv, Leaving
    <2>2. CASE <<e, c>> \in ended
      <3>1. Left(Peer(e), c)
        BY <2>2 DEF OInv, Leaving, Left
      <3>2. QED
        BY <3>1 DEF OInv, Leaving
    <2>3. QED
      BY <1>2, <2>1, <2>2
  <1>4. Woken
    BY <1>1, WokenFacts DEF ReceiverFinishes
  <1>5. UNCHANGED <<flags, csock_map, irob, ended, broken, closers, late>>
    BY DEF ReceiverFinishes, history
  <1>6. \A p \in Endpoints, d \in Conns :
           recvr'[p][d] = IF p = e /\ d = c THEN "gone" ELSE recvr[p][d]
    BY <1>1 DEF ReceiverFinishes, TypeOK
  <1>7. NetCalm
    <2>1. \A p \in Endpoints, d \in Conns : net'[p][d] = net[p][d] \/ net'[p][d] = <<>>
      BY <1>1 DEF ReceiverFinishes, TypeOK
    <2>2. One(<<>>) /\ \A i \in DOMAIN <<>> : FALSE
      BY DEF One
    <2>3. QED
      BY <2>1, <2>2 DEF NetCalm, Carries
  <1>8. Unbroken'
    BY <1>4, <1>5 DEF OInv, Unbroken, Woken
  <1>9. Accepted' /\ Asked'
    BY <1>5 DEF OInv, Accepted, Asked, Bye, flags
  <1>10. HeardOnce'
    <2>1. \A p \in Endpoints, d \in Conns : /\ Says(p, d)' => Says(p, d)
                                            /\ Told(p, d)' => Told(p, d)
      BY <1>4, <1>6 DEF Woken, Says, Told
    <2>2. QED
      BY <1>5, <1>7, <2>1 DEF OInv, HeardOnce, NetCalm, flags
  <1>11. Leaving'
    BY <1>3, <1>4, <1>5, <1>6, LeavingStep DEF OInv, Woken, Left, flags
  <1>12. QED
    BY <1>8, <1>9, <1>10, <1>11 DEF OInv

\* One case per action that can happen.
LEMMA NextOInv ==
    ASSUME OInv, IInv', Orderly, [Next /\ Patient]_vars
    PROVE  OInv'
  <1>1. ASSUME NEW e \in Endpoints, NEW c \in Conns, SenderThread(e, c)
        PROVE  OInv'
    BY <1>1, Impossible, ScheduleWorkOInv, SayGoodbyeOInv, GoodbyeWrittenOInv,
       AwaitGoodbyeOInv, ReceiverDiedOInv, FinishOInv
    DEF SenderThread
  <1>2. ASSUME NEW e \in Endpoints, NEW c \in Conns, ReceiverThread(e, c)
        PROVE  OInv'
    BY <1>2, HandledOInv, DoGoodbyeOInv, RemoteGoodbyeOInv, ReceiverFinishesOInv
    DEF ReceiverThread
  <1>3. CASE Busy
    BY <1>1, <1>2, <1>3, Impossible, InsertIrobOInv DEF Busy
  <1>4. ASSUME NEW e \in Endpoints, BeginIrob(e) \/ Close(e)
        PROVE  OInv'
    BY <1>4, BeginIrobOInv, CloseOInv
  <1>5. CASE UNCHANGED vars
    <2>1. Woken /\ NetCalm /\ IrobCalm
      BY <1>5 DEF vars, history, Woken, NetCalm, IrobCalm, Carries
    <2>2. QED
      BY <1>5, <2>1, Calm DEF vars, history
  <1>6. QED
    BY <1>3, <1>4, <1>5, Impossible DEF Next, Patient

\* When one application closes, nothing breaks and nobody waits in vain, an end
\* whose csockets are gone has lost nothing that was accepted before its shutdown
\* began, whichever end closes, whatever both are sending and however many
\* connections there are (Run, goodbye, do_goodbye).
THEOREM ClosingLosesNothing == Orderly /\ Spec /\ [][Patient]_vars => []NothingLost
  <1>1. ASSUME OInv PROVE NothingLost
    <2> SUFFICES ASSUME NEW e \in Endpoints, csock_map[e] = {}, irob[e] # "none",
                        e \notin late
                 PROVE  irob[e] = "acked"
      BY DEF NothingLost
    <2>1. PICK c \in Conns : c \in Initial
      BY ShutdownAssumption
    <2>2. sender[e][c] = "gone"
      BY <1>1, <2>1 DEF OInv, Unbroken
    <2>3. e \in Bye
      BY <1>1, <2>2 DEF OInv, Leaving, Left
    <2>4. irob[e] # "outgoing" /\ irob[e] # "beginning"
      BY <1>1, <2>3 DEF OInv, Accepted
    <2>5. irob[e] \in {"none", "beginning", "outgoing", "acked"}
      BY <1>1 DEF OInv, IInv, TypeOK
    <2>6. QED
      BY <2>4, <2>5
  <1>2. Init => OInv
    BY InitOInv
  <1>3. ASSUME Orderly
        PROVE  OInv /\ IInv' /\ [Next]_vars /\ [Patient]_vars => OInv'
    BY <1>3, NextOInv
  <1>4. CASE Orderly
    <2>1. OInv /\ IInv' /\ [Next]_vars /\ [Patient]_vars => OInv'
      BY <1>3, <1>4
    <2>2. QED
      BY <1>1, <1>2, <2>1, Invariance, PTL DEF Spec
  <1>5. QED
    BY <1>4

=============================================================================
