-------------------------- MODULE Interfaces_proofs --------------------------
(***************************************************************************)
(* For any number of interfaces, csockets, changes and failures: neither   *)
(* end ever has two csockets on a pair of interfaces, and the loss of an   *)
(* interface the other end believes in is always on its way to it.         *)
(*                                                                         *)
(* OnePerPair alone is not inductive.  The listener of the accepting end   *)
(* looks at the csockets of a pair when it adds one, some time after it    *)
(* was announced, so what is announced and what is about to be added must  *)
(* be csockets that were made, over one interface that does not change as  *)
(* more csockets are made.                                                 *)
(***************************************************************************)
EXTENDS Interfaces, WellFoundedInduction, TLAPS

Numbers == 1 .. Len(made)

SenderStates == {"none", "connecting", "changed", "down", "writing", "finished"}
ReceiverStates == {"none", "queued", "added", "running", "finished", "refused"}

\* Csockets are numbered in the order they are made; only one that was made is
\* connecting, waits for the listener or is in its hands.
Numbered ==
    /\ made \in Seq(Ifaces)
    /\ local_ifaces \subseteq Ifaces
    /\ sender \in [Csocks -> SenderStates]
    /\ receiver \in [Csocks -> ReceiverStates]
    /\ \A k \in Csocks : sender[k] = "connecting" => k \in Numbers
    /\ \A k \in Csocks : receiver[k] = "queued" => k \in Numbers
    /\ adding \in Numbers \cup {None}
    /\ adding # None => adding \in Csocks
    /\ socks \subseteq Numbers
    /\ asocks \subseteq Numbers

IInv == Numbered /\ OnePerPair

-----------------------------------------------------------------------------

\* Making one more csocket leaves the numbers and interfaces of the others.
LEMMA AppendFacts ==
    ASSUME NEW S, NEW s \in Seq(S), NEW e \in S
    PROVE  /\ Append(s, e) \in Seq(S)
           /\ Len(s) \in Nat
           /\ Len(Append(s, e)) = Len(s) + 1
           /\ \A k \in 1 .. Len(s) : Append(s, e)[k] = s[k]
           /\ Append(s, e)[Len(s) + 1] = e
  OBVIOUS

\* Both ends start with one csocket per interface, numbered like it.
LEMMA InitIInv == Init => IInv
  <1> SUFFICES ASSUME Init PROVE IInv
    OBVIOUS
  <1>1. NumIfaces \in Nat /\ MaxCsocks \in Nat
    BY InterfacesAssumption
  <1>2. made \in Seq(Ifaces) /\ Len(made) = NumIfaces
    BY <1>1 DEF Init, Ifaces
  <1>3. Numbers = Ifaces
    BY <1>2 DEF Numbers, Ifaces
  <1>4. sender \in [Csocks -> SenderStates] /\ receiver \in [Csocks -> ReceiverStates]
    BY DEF Init, SenderStates, ReceiverStates
  <1>5. \A k \in Csocks : sender[k] # "connecting" /\ receiver[k] # "queued"
    BY DEF Init
  <1>6. Numbered
    BY <1>2, <1>3, <1>4, <1>5 DEF Init, Numbered, None
  <1>7. OnePerPair
    BY DEF Init, OnePerPair
  <1> QED
    BY <1>6, <1>7 DEF IInv

\* A step that makes no csocket and gives neither end a new one.
LEMMA NoneMade ==
    ASSUME IInv, made' = made,
           socks' \subseteq socks, asocks' \subseteq asocks,
           local_ifaces' \subseteq Ifaces,
           sender' \in [Csocks -> SenderStates], receiver' \in [Csocks -> ReceiverStates],
           \A k \in Csocks : sender'[k] = "connecting" => sender[k] = "connecting",
           \A k \in Csocks : receiver'[k] = "queued" => k \in Numbers,
           adding' \in {adding, None} \/ adding' \in Numbers \cap Csocks
    PROVE  IInv'
  <1>1. Numbers' = Numbers
    BY DEF Numbers
  <1>2. Numbered'
    BY <1>1 DEF IInv, Numbered
  <1>3. OnePerPair'
    BY DEF IInv, OnePerPair
  <1> QED
    BY <1>2, <1>3 DEF IInv

\* A step of the connecting end that makes a csocket on an interface where it
\* keeps none.
LEMMA OneMade ==
    ASSUME IInv, NEW i \in Ifaces,
           made' = Append(made, i),
           socks' \subseteq socks \cup {Len(made) + 1},
           \A k \in socks' \cap socks : made[k] # i,
           asocks' = asocks,
           local_ifaces' \subseteq Ifaces,
           sender' \in [Csocks -> SenderStates], receiver' = receiver,
           \A k \in Csocks : sender'[k] = "connecting" =>
                                 sender[k] = "connecting" \/ k = Len(made) + 1,
           adding' = adding
    PROVE  IInv'
  <1>1. /\ made' \in Seq(Ifaces)
        /\ Len(made) \in Nat /\ Len(made') = Len(made) + 1
        /\ \A k \in Numbers : made'[k] = made[k]
        /\ made'[Len(made) + 1] = i
    BY AppendFacts DEF IInv, Numbered, Numbers
  <1>2. Numbers' = Numbers \cup {Len(made) + 1} /\ Len(made) + 1 \notin Numbers
    BY <1>1 DEF Numbers
  <1>3. socks \subseteq Numbers /\ asocks \subseteq Numbers
    BY DEF IInv, Numbered
  <1>4. Numbered'
    BY <1>1, <1>2, <1>3 DEF IInv, Numbered
  <1>5. \A j, k \in asocks' : made'[j] = made'[k] => j = k
    <2> SUFFICES ASSUME NEW j \in asocks, NEW k \in asocks, made'[j] = made'[k] PROVE j = k
      OBVIOUS
    <2>1. made'[j] = made[j] /\ made'[k] = made[k]
      BY <1>1, <1>3
    <2>2. made[j] = made[k]
      BY <2>1
    <2> QED
      BY <2>2 DEF IInv, OnePerPair
  <1>6. \A j, k \in socks' : made'[j] = made'[k] => j = k
    <2> SUFFICES ASSUME NEW j \in socks', NEW k \in socks', made'[j] = made'[k] PROVE j = k
      OBVIOUS
    <2>1. \A n \in socks : made'[n] = made[n]
      BY <1>1, <1>3
    <2>2. \A m, n \in socks : made[m] = made[n] => m = n
      BY DEF IInv, OnePerPair
    <2>3. CASE j \in socks /\ k \in socks
      BY <2>1, <2>2, <2>3
    <2>4. CASE j = Len(made) + 1 /\ k \in socks
      BY <2>1, <2>4, <1>1
    <2>5. CASE k = Len(made) + 1 /\ j \in socks
      BY <2>1, <2>5, <1>1
    <2>6. CASE j = Len(made) + 1 /\ k = Len(made) + 1
      BY <2>6
    <2> QED
      BY <2>3, <2>4, <2>5, <2>6
  <1> QED
    BY <1>4, <1>5, <1>6 DEF IInv, OnePerPair

\* make_new_csocket
LEMMA MakeNewCsocketIInv ==
    ASSUME IInv, NEW i \in Ifaces, MakeNewCsocket(i, socks),
           local_ifaces' \subseteq Ifaces,
           asocks' = asocks, receiver' = receiver, adding' = adding
    PROVE  IInv'
  <1>1. CASE On(i, socks) # {} \/ Len(made) = MaxCsocks
    BY <1>1, NoneMade DEF MakeNewCsocket, IInv, Numbered
  <1>2. CASE ~(On(i, socks) # {} \/ Len(made) = MaxCsocks)
    <2>1. /\ made' = Append(made, i)
          /\ socks' = socks \cup {Len(made) + 1}
          /\ sender' = [sender EXCEPT ![Len(made) + 1] = "connecting"]
      BY <1>2 DEF MakeNewCsocket
    <2>2. \A k \in socks : made[k] # i
      BY <1>2 DEF On
    <2>3. sender' \in [Csocks -> SenderStates]
      BY <2>1 DEF IInv, Numbered, SenderStates
    <2>4. \A k \in Csocks : sender'[k] = "connecting" =>
                                sender[k] = "connecting" \/ k = Len(made) + 1
      BY <2>1 DEF IInv, Numbered
    <2> QED
      BY <2>1, <2>2, <2>3, <2>4, OneMade
  <1> QED
    BY <1>1, <1>2

\* The handler of CMMControlException, of a thread that is not connecting
LEMMA QuitIInv ==
    ASSUME IInv, NEW k \in Csocks, Quit(k),
           local_ifaces' = local_ifaces,
           asocks' = asocks, receiver' = receiver, adding' = adding
    PROVE  IInv'
  <1>1. /\ local_ifaces \subseteq Ifaces /\ sender \in [Csocks -> SenderStates]
        /\ receiver \in [Csocks -> ReceiverStates]
        /\ \A n \in Csocks : receiver[n] = "queued" => n \in Numbers
    BY DEF IInv, Numbered
  <1>2. made' = made /\ socks' \subseteq socks
    BY DEF Quit
  <1>3. /\ sender' \in [Csocks -> SenderStates]
        /\ \A n \in Csocks : sender'[n] = "connecting" => sender[n] = "connecting"
    <2>1. CASE sender' = [sender EXCEPT ![k] = "finished"]
      BY <1>1, <2>1 DEF SenderStates
    <2>2. CASE sender' = [n \in Csocks |-> IF n \in DOMAIN made THEN "finished" ELSE "none"]
      BY <2>2 DEF SenderStates
    <2> QED
      BY <2>1, <2>2 DEF Quit
  <1> QED
    BY <1>1, <1>2, <1>3, NoneMade

\* make_new_csocket of the accepting end discards the csockets of the pair.
LEMMA AddConnectionIInv == IInv /\ AddConnection => IInv'
  <1> SUFFICES ASSUME IInv, AddConnection PROVE IInv'
    OBVIOUS
  <1>1. /\ UNCHANGED connecting
        /\ adding # None /\ adding' = None
        /\ asocks' = (asocks \ On(made[adding], asocks)) \cup {adding}
        /\ receiver' = [receiver EXCEPT ![adding] = "added"]
    BY DEF AddConnection
  <1>2. Numbers' = Numbers /\ made' = made /\ socks' = socks /\ sender' = sender
        /\ local_ifaces' = local_ifaces
    BY <1>1 DEF connecting, ifacevars, Numbers
  <1>3. adding \in Numbers /\ adding \in Csocks
    BY <1>1 DEF IInv, Numbered
  <1>4. receiver' \in [Csocks -> ReceiverStates]
        /\ \A k \in Csocks : receiver'[k] = "queued" => receiver[k] = "queued"
    BY <1>1, <1>3 DEF IInv, Numbered, ReceiverStates
  <1>5. Numbered'
    BY <1>1, <1>2, <1>3, <1>4 DEF IInv, Numbered
  <1>6. OnePerPair'
    BY <1>1, <1>2 DEF IInv, OnePerPair, On
  <1> QED
    BY <1>5, <1>6 DEF IInv

-----------------------------------------------------------------------------

\* What a thread of the connecting end does that leaves the csockets of both
\* ends, those made and those announced, as they are.
LEMMA SenderMoves ==
    ASSUME IInv, NEW k \in Csocks, NEW where \in SenderStates \ {"connecting"},
           sender' = [sender EXCEPT ![k] = where],
           made' = made, socks' \subseteq socks, local_ifaces' = local_ifaces,
           UNCHANGED accepting
    PROVE  IInv'
  <1>1. /\ sender' \in [Csocks -> SenderStates]
        /\ \A n \in Csocks : sender'[n] = "connecting" => sender[n] = "connecting"
    BY DEF IInv, Numbered
  <1>2. asocks' = asocks /\ receiver' = receiver /\ adding' = adding
    BY DEF accepting
  <1> QED
    BY <1>1, <1>2, NoneMade DEF IInv, Numbered

\* What a thread of the accepting end does that gives it no new csocket.
LEMMA ReceiverMoves ==
    ASSUME IInv, UNCHANGED connecting, asocks' \subseteq asocks,
           receiver' \in [Csocks -> ReceiverStates],
           \A k \in Csocks : receiver'[k] = "queued" => k \in Numbers,
           adding' \in {adding, None} \/ adding' \in Numbers \cap Csocks
    PROVE  IInv'
  <1>1. /\ made' = made /\ socks' = socks /\ sender' = sender
        /\ local_ifaces' = local_ifaces
    BY DEF connecting, ifacevars
  <1> QED
    BY <1>1, NoneMade DEF IInv, Numbered

\* Reports of the scout (setup, teardown), and get_csock for an IROB.
LEMMA ScoutIInv ==
    ASSUME IInv, NEW i \in Ifaces, InterfaceUp(i) \/ InterfaceDown(i) \/ GetCsock(i)
    PROVE  IInv'
  <1>1. CASE InterfaceUp(i)
    BY <1>1, MakeNewCsocketIInv DEF InterfaceUp, Setup, accepting, IInv, Numbered
  <1>2. CASE InterfaceDown(i)
    BY <1>2, NoneMade DEF InterfaceDown, Teardown, accepting, IInv, Numbered
  <1>3. CASE GetCsock(i)
    BY <1>3, MakeNewCsocketIInv DEF GetCsock, accepting, ifacevars, IInv, Numbered
  <1> QED
    BY <1>1, <1>2, <1>3

\* The sender threads of the connecting end; Announce is why a csocket that
\* waits for the listener has a number.
LEMMA SenderIInv ==
    ASSUME IInv, NEW k \in Csocks, Sender(k)
    PROVE  IInv'
  <1> USE DEF SenderStates
  <1>1. CASE Announce(k)
    <2>1. UNCHANGED connecting /\ asocks' = asocks /\ adding' = adding
      BY <1>1 DEF Announce
    <2>2. k \in Numbers
      BY <1>1 DEF Announce, IInv, Numbered
    <2>3. /\ receiver' \in [Csocks -> ReceiverStates]
          /\ \A n \in Csocks : receiver'[n] = "queued" => n \in Numbers
      BY <1>1, <2>2 DEF Announce, IInv, Numbered, ReceiverStates
    <2> QED
      BY <2>1, <2>3, ReceiverMoves
  <1>2. CASE Connected(k)
    BY <1>2, SenderMoves DEF Connected, ifacevars
  <1>3. CASE ConnectFails(k)
    BY <1>3, SenderMoves DEF ConnectFails, ifacevars
  <1>4. CASE PopChanged(k)
    BY <1>4, SenderMoves DEF PopChanged
  <1>5. CASE PopDown(k)
    BY <1>5, SenderMoves DEF PopDown
  <1>6. CASE Write(k)
    <2>1. PICK where \in {"down", "changed"} : sender' = [sender EXCEPT ![k] = where]
      BY <1>6 DEF Write
    <2> QED
      BY <1>6, <2>1, SenderMoves DEF Write, ifacevars
  <1>7. CASE WriteFails(k)
    BY <1>7, QuitIInv DEF WriteFails, accepting
  <1>8. CASE ReceiverDied(k)
    BY <1>8, QuitIInv DEF ReceiverDied, accepting, ifacevars
  <1> QED
    BY <1>1, <1>2, <1>3, <1>4, <1>5, <1>6, <1>7, <1>8 DEF Sender

\* The receiver threads of the accepting end only ever drop csockets.
LEMMA ReceiverIInv ==
    ASSUME IInv, NEW k \in Csocks, Receiver(k)
    PROVE  IInv'
  <1>0. /\ receiver \in [Csocks -> ReceiverStates]
        /\ \A n \in Csocks : receiver[n] = "queued" => n \in Numbers
    BY DEF IInv, Numbered
  <1>1. CASE SendConfirmation(k)
    BY <1>0, <1>1, ReceiverMoves DEF SendConfirmation, ReceiverStates
  <1>2. CASE DoNewInterface(k)
    BY <1>0, <1>2, ReceiverMoves DEF DoNewInterface
  <1>3. CASE DoDownInterface(k)
    BY <1>0, <1>3, ReceiverMoves DEF DoDownInterface
  <1>4. CASE AcceptedQuits(k)
    BY <1>0, <1>4, ReceiverMoves DEF AcceptedQuits, ReceiverStates
  <1> QED
    BY <1>1, <1>2, <1>3, <1>4 DEF Receiver

\* The listener takes a csocket that was announced, so one that was made.
LEMMA ListenerIInv == IInv /\ Listener => IInv'
  <1> SUFFICES ASSUME IInv, Listener PROVE IInv'
    OBVIOUS
  <1>0. /\ receiver \in [Csocks -> ReceiverStates]
        /\ \A n \in Csocks : receiver[n] = "queued" => n \in Numbers
    BY DEF IInv, Numbered
  <1>1. CASE AddConnection
    BY <1>1, AddConnectionIInv
  <1>2. ASSUME NEW k \in Csocks, Accept(k) PROVE IInv'
    BY <1>0, <1>2, ReceiverMoves DEF Accept
  <1>3. ASSUME NEW k \in Csocks, Refuse(k) PROVE IInv'
    BY <1>0, <1>3, ReceiverMoves DEF Refuse, ReceiverStates
  <1> QED
    BY <1>1, <1>2, <1>3 DEF Listener

\* Every step keeps the inductive invariant.
LEMMA NextIInv == IInv /\ [Next]_vars => IInv'
  <1> SUFFICES ASSUME IInv, [Next]_vars PROVE IInv'
    OBVIOUS
  <1>0. /\ receiver \in [Csocks -> ReceiverStates]
        /\ \A n \in Csocks : receiver[n] = "queued" => n \in Numbers
    BY DEF IInv, Numbered
  <1>1. ASSUME NEW i \in Ifaces, InterfaceUp(i) \/ InterfaceDown(i) \/ GetCsock(i)
        PROVE  IInv'
    BY <1>1, ScoutIInv
  <1>2. ASSUME NEW k \in Csocks, Sender(k) PROVE IInv'
    BY <1>2, SenderIInv
  <1>3. ASSUME NEW k \in Csocks, Receiver(k) PROVE IInv'
    BY <1>3, ReceiverIInv
  <1>4. ASSUME NEW k \in Csocks, Break(k) PROVE IInv'
    BY <1>0, <1>4, ReceiverMoves DEF Break, accepting
  <1>5. CASE Listener
    BY <1>5, ListenerIInv
  <1>6. CASE UNCHANGED vars
    BY <1>0, <1>6, ReceiverMoves DEF vars, accepting
  <1> QED
    BY <1>1, <1>2, <1>3, <1>4, <1>5, <1>6 DEF Next

\* connected_csock_with_labels asserts it, and both ends' make_new_csocket and
\* teardown keep it: a pair of interfaces has at most one csocket, for any
\* number of interfaces and csockets.
THEOREM OneCsocketPerPair == Spec => []OnePerPair
  <1>1. IInv => OnePerPair
    BY DEF IInv
  <1> QED
    BY <1>1, InitIInv, NextIInv, PTL DEF Spec

-----------------------------------------------------------------------------
(***************************************************************************)
(* The loss of an interface is announced.  It is taken out of the set of   *)
(* what is to be announced before it is written, without the lock: so the  *)
(* invariant needs that a thread writes something exactly while it is at   *)
(* it, which rests on the threads' being numbered like their csockets.     *)
(***************************************************************************)

Msgs == {NoMsg} \cup {NewMsg(i) : i \in Ifaces} \cup {DownMsg(i) : i \in Ifaces}

Spoken ==
    /\ changed_local_ifaces \subseteq Ifaces
    /\ down_local_ifaces \subseteq Ifaces
    /\ remote_ifaces \subseteq Ifaces
    /\ writing \in [Csocks -> Msgs]
    /\ chan \in [Csocks -> Seq(Msgs)]
    /\ \A k \in Csocks : sender[k] = "writing" <=> writing[k] # NoMsg
    /\ \A k \in Csocks : k \notin Numbers => sender[k] = "none"

\* The loss of interface i is waiting, being written or in transit.
Announced(i) ==
    \/ i \in down_local_ifaces
    \/ \E k \in Csocks : \/ writing[k] = DownMsg(i)
                         \/ \E n \in DOMAIN chan[k] : chan[k][n] = DownMsg(i)

\* Interfaces the accepting end has to be told of.
Mistaken == remote_ifaces \ (local_ifaces \cup excused)

AInv == IInv /\ Spoken /\ \A i \in Mistaken : Announced(i)

\* A set of numbers that is not empty has a least one.
LEMMA Least ==
  ASSUME NEW T, T \subseteq Nat, T # {}
  PROVE  \E x \in T : \A y \in T : x <= y
  <1>1. PICK x \in T : \A y \in T : ~(<<y, x>> \in OpToRel(<, Nat))
    BY NatLessThanWellFounded, WFMin
  <1>2. ASSUME NEW y \in T PROVE x <= y
    <2>1. CASE y < x
      <3>1. <<y, x>> \in Nat \X Nat /\ <<y, x>>[1] < <<y, x>>[2]
        BY <2>1
      <3>2. <<y, x>> \in OpToRel(<, Nat)
        BY <3>1, Zenon DEF OpToRel
      <3> QED
        BY <1>1, <3>2, Zenon
    <2> QED
      BY <2>1
  <1> QED
    BY <1>2

\* The least of a set of interfaces is one of them.
LEMMA MinFacts ==
  ASSUME NEW T, T \subseteq Ifaces, T # {}
  PROVE  Min(T) \in T
  <1>1. T \subseteq Nat
    BY InterfacesAssumption DEF Ifaces
  <1> QED
    BY <1>1, Least DEF Min

\* Messages of the two kinds, told apart by their type and their interface.
LEMMA MsgFacts ==
  /\ \A m \in Msgs : /\ m # NoMsg /\ m.type # "NEW_INTERFACE" => m.iface \in Ifaces /\ m = DownMsg(m.iface)
                     /\ m.type = "NEW_INTERFACE" => m.iface \in Ifaces /\ m = NewMsg(m.iface)
                     /\ m.type = "DOWN_INTERFACE" => m.iface \in Ifaces /\ m = DownMsg(m.iface)
  /\ NoMsg \in Msgs
  /\ \A i \in Ifaces : /\ NewMsg(i) \in Msgs /\ NewMsg(i) # NoMsg
                       /\ DownMsg(i) \in Msgs /\ DownMsg(i) # NoMsg
  /\ \A i, j \in Ifaces : NewMsg(i) # DownMsg(j) /\ (DownMsg(i) = DownMsg(j) => i = j)
  <1>1. \A i \in Ifaces : /\ NewMsg(i).type = "NEW_INTERFACE" /\ NewMsg(i).iface = i
                          /\ DownMsg(i).type = "DOWN_INTERFACE" /\ DownMsg(i).iface = i
    BY DEF NewMsg, DownMsg
  <1>2. NoMsg.type = "none"
    BY DEF NoMsg
  <1>3. \A m \in Msgs : m = NoMsg \/ (\E i \in Ifaces : m = NewMsg(i))
                        \/ (\E i \in Ifaces : m = DownMsg(i))
    BY DEF Msgs
  <1>4. NoMsg \in Msgs /\ \A i \in Ifaces : NewMsg(i) \in Msgs /\ DownMsg(i) \in Msgs
    BY DEF Msgs
  <1> QED
    BY <1>1, <1>2, <1>3, <1>4

\* A step that says nothing: what the accepting end is newly mistaken of waits to
\* be announced.
LEMMA NothingSaid ==
  ASSUME AInv, IInv', UNCHANGED <<writing, chan>>,
         changed_local_ifaces' \subseteq Ifaces, down_local_ifaces' \subseteq Ifaces,
         down_local_ifaces \subseteq down_local_ifaces', remote_ifaces' \subseteq Ifaces,
         \A k \in Csocks : sender'[k] = "writing" <=> sender[k] = "writing",
         \A k \in Csocks : k \notin Numbers' => sender'[k] = "none",
         Mistaken' \subseteq Mistaken \cup down_local_ifaces'
  PROVE  AInv'
  <1>1. Spoken'
    BY DEF AInv, Spoken
  <1>2. ASSUME NEW i \in Mistaken' PROVE Announced(i)'
    <2>1. CASE i \in down_local_ifaces'
      BY <2>1 DEF Announced
    <2>2. CASE i \in Mistaken
      BY <2>2 DEF AInv, Announced
    <2> QED
      BY <2>1, <2>2
  <1> QED
    BY <1>1, <1>2 DEF AInv

\* Numbers are never taken back; what is made, and whose thread moves.
LEMMA MoreNumbers ==
  ASSUME AInv, made' = made \/ \E i \in Ifaces : made' = Append(made, i)
  PROVE  /\ Len(made) \in Nat /\ Len(made) + 1 \notin Numbers
         /\ made' = made => Numbers' = Numbers
         /\ made' # made => Numbers' = Numbers \cup {Len(made) + 1}
  <1>1. made \in Seq(Ifaces) /\ Len(made) \in Nat
    BY DEF AInv, IInv, Numbered
  <1>2. CASE made' = made
    BY <1>1, <1>2 DEF Numbers
  <1>3. ASSUME NEW i \in Ifaces, made' = Append(made, i)
        PROVE  Numbers' = Numbers \cup {Len(made) + 1} /\ made' # made
    <2>1. Len(made') = Len(made) + 1
      BY <1>1, <1>3, AppendFacts
    <2> QED
      BY <1>1, <2>1 DEF Numbers
  <1> QED
    BY <1>1, <1>2, <1>3 DEF Numbers

\* make_new_csocket starts a thread that has nothing to write.
LEMMA MakeNewCsocketSaysNothing ==
  ASSUME AInv, NEW i \in Ifaces, MakeNewCsocket(i, socks)
  PROVE  /\ \A k \in Csocks : sender'[k] = "writing" <=> sender[k] = "writing"
         /\ \A k \in Csocks : k \notin Numbers' => sender'[k] = "none"
  <1>1. /\ \A k \in Csocks : k \notin Numbers => sender[k] = "none"
        /\ sender \in [Csocks -> SenderStates]
    BY DEF AInv, Spoken, IInv, Numbered
  <1>2. CASE UNCHANGED <<made, sender>>
    BY <1>1, <1>2, MoreNumbers
  <1>3. CASE /\ made' = Append(made, i)
             /\ sender' = [sender EXCEPT ![Len(made) + 1] = "connecting"]
    <2>1. Len(made) + 1 \notin Numbers
      BY <1>3, MoreNumbers
    <2>2. Numbers \cup {Len(made) + 1} \subseteq Numbers'
      BY <1>3, <2>1, MoreNumbers
    <2> QED
      BY <1>1, <1>3, <2>1, <2>2
  <1> QED
    BY <1>2, <1>3 DEF MakeNewCsocket

\* Reports of the scout: an interface that comes up is no mistake, and the loss of
\* one waits to be announced.
LEMMA ScoutAInv ==
  ASSUME AInv, IInv', NEW i \in Ifaces, InterfaceUp(i) \/ InterfaceDown(i) \/ GetCsock(i)
  PROVE  AInv'
  <1>1. /\ changed_local_ifaces \subseteq Ifaces /\ down_local_ifaces \subseteq Ifaces
        /\ remote_ifaces \subseteq Ifaces /\ local_ifaces \subseteq Ifaces
        /\ \A k \in Csocks : k \notin Numbers => sender[k] = "none"
    BY DEF AInv, Spoken, IInv, Numbered
  <1>2. UNCHANGED <<writing, chan, remote_ifaces>>
    BY DEF InterfaceUp, InterfaceDown, GetCsock, accepting
  <1>3. CASE InterfaceUp(i)
    <2>1. /\ changed_local_ifaces' \subseteq Ifaces /\ down_local_ifaces' = down_local_ifaces
          /\ local_ifaces' = local_ifaces \cup {i} /\ excused' = excused \ {i}
          /\ MakeNewCsocket(i, socks)
      BY <1>1, <1>3 DEF InterfaceUp, Setup
    <2>2. Mistaken' \subseteq Mistaken
      BY <1>2, <2>1 DEF Mistaken
    <2> QED
      BY <1>1, <1>2, <2>1, <2>2, MakeNewCsocketSaysNothing, NothingSaid
  <1>4. CASE InterfaceDown(i)
    <2>1. /\ down_local_ifaces' = down_local_ifaces \cup {i} /\ local_ifaces' = local_ifaces \ {i}
          /\ UNCHANGED <<changed_local_ifaces, made, sender, excused>>
      BY <1>4 DEF InterfaceDown, Teardown
    <2>2. Mistaken' \subseteq Mistaken \cup down_local_ifaces'
      BY <1>2, <2>1 DEF Mistaken
    <2>3. Numbers' = Numbers
      BY <2>1 DEF Numbers
    <2> QED
      BY <1>1, <1>2, <2>1, <2>2, <2>3, NothingSaid
  <1>5. CASE GetCsock(i)
    <2>1. MakeNewCsocket(i, socks) /\ UNCHANGED <<ifacevars, excused>>
      BY <1>5 DEF GetCsock
    <2>2. Mistaken' \subseteq Mistaken
      BY <1>2, <2>1 DEF Mistaken, ifacevars
    <2> QED
      BY <1>1, <1>2, <2>1, <2>2, MakeNewCsocketSaysNothing, NothingSaid DEF ifacevars
  <1> QED
    BY <1>3, <1>4, <1>5

\* The sender threads when they announce nothing of an interface's loss.
LEMMA ConnectingAInv ==
  ASSUME AInv, IInv', NEW k \in Csocks, Announce(k) \/ Connected(k) \/ ConnectFails(k) \/ Break(k)
  PROVE  AInv'
  <1>1. /\ changed_local_ifaces \subseteq Ifaces /\ down_local_ifaces \subseteq Ifaces
        /\ remote_ifaces \subseteq Ifaces
        /\ \A n \in Csocks : n \notin Numbers => sender[n] = "none"
        /\ sender \in [Csocks -> SenderStates]
    BY DEF AInv, Spoken, IInv, Numbered
  <1>2. UNCHANGED <<ifacevars, writing, chan, remote_ifaces, excused, made>>
    BY DEF Announce, Connected, ConnectFails, Break, connecting, accepting
  <1>3. Numbers' = Numbers /\ Mistaken' = Mistaken
    BY <1>2 DEF Numbers, Mistaken, ifacevars
  <1>4. \/ UNCHANGED sender
        \/ /\ sender[k] = "connecting"
           /\ \E where \in {"changed", "finished"} : sender' = [sender EXCEPT ![k] = where]
    BY DEF Announce, Connected, ConnectFails, Break, connecting
  <1>5. /\ \A n \in Csocks : sender'[n] = "writing" <=> sender[n] = "writing"
        /\ \A n \in Csocks : n \notin Numbers' => sender'[n] = "none"
    BY <1>1, <1>3, <1>4
  <1> QED
    BY <1>1, <1>2, <1>3, <1>5, NothingSaid DEF ifacevars

\* What the invariant says of the threads, the sets and the messages.
LEMMA SpokenFacts ==
  ASSUME AInv
  PROVE  /\ changed_local_ifaces \subseteq Ifaces /\ down_local_ifaces \subseteq Ifaces
         /\ remote_ifaces \subseteq Ifaces
         /\ writing \in [Csocks -> Msgs] /\ chan \in [Csocks -> Seq(Msgs)]
         /\ \A n \in Csocks : sender[n] = "writing" <=> writing[n] # NoMsg
         /\ \A n \in Csocks : n \notin Numbers => sender[n] = "none"
         /\ sender \in [Csocks -> SenderStates]
  BY DEF AInv, Spoken, IInv, Numbered

\* A thread takes an announcement from one of the two sets and begins to write it.
LEMMA PopAInv ==
  ASSUME AInv, IInv', NEW k \in Csocks, PopChanged(k) \/ PopDown(k)
  PROVE  AInv'
  <1>1. PICK i \in Ifaces, msg \in Msgs \ {NoMsg} :
           /\ writing' = [writing EXCEPT ![k] = msg]
           /\ changed_local_ifaces' \subseteq changed_local_ifaces
           /\ \/ down_local_ifaces' = down_local_ifaces
              \/ msg = DownMsg(i) /\ down_local_ifaces' = down_local_ifaces \ {i}
    <2>1. CASE PopChanged(k)
      <3> DEFINE i == Min(changed_local_ifaces)
      <3>1. i \in Ifaces
        BY <2>1, MinFacts, SpokenFacts DEF PopChanged
      <3>2. /\ writing' = [writing EXCEPT ![k] = NewMsg(i)]
            /\ changed_local_ifaces' \subseteq changed_local_ifaces
            /\ down_local_ifaces' = down_local_ifaces
        BY <2>1 DEF PopChanged
      <3> QED
        BY <3>1, <3>2, MsgFacts
    <2>2. CASE PopDown(k)
      <3> DEFINE i == Min(down_local_ifaces)
      <3>1. i \in Ifaces
        BY <2>2, MinFacts, SpokenFacts DEF PopDown
      <3>2. /\ writing' = [writing EXCEPT ![k] = DownMsg(i)]
            /\ changed_local_ifaces' \subseteq changed_local_ifaces
            /\ down_local_ifaces' = down_local_ifaces \ {i}
        BY <2>2 DEF PopDown
      <3> QED
        BY <3>1, <3>2, MsgFacts
    <2> QED
      BY <2>1, <2>2
  <1>2. /\ sender[k] \in {"changed", "down"} /\ sender' = [sender EXCEPT ![k] = "writing"]
        /\ UNCHANGED <<local_ifaces, made, chan, remote_ifaces, excused>>
    BY DEF PopChanged, PopDown, accepting
  <1>3. writing[k] = NoMsg /\ k \in Numbers
    BY <1>2, SpokenFacts
  <1>4. Numbers' = Numbers /\ Mistaken' = Mistaken
    BY <1>2 DEF Numbers, Mistaken
  <1>5. \A n \in Csocks : n # k => writing'[n] = writing[n] /\ sender'[n] = sender[n]
    BY <1>1, <1>2, SpokenFacts
  <1>6. writing'[k] = msg /\ sender'[k] = "writing"
    BY <1>1, <1>2, SpokenFacts
  <1>7. Spoken'
    <2>1. /\ changed_local_ifaces' \subseteq Ifaces /\ down_local_ifaces' \subseteq Ifaces
          /\ remote_ifaces' \subseteq Ifaces
          /\ writing' \in [Csocks -> Msgs] /\ chan' \in [Csocks -> Seq(Msgs)]
      BY <1>1, <1>2, SpokenFacts
    <2>2. \A n \in Csocks : sender'[n] = "writing" <=> writing'[n] # NoMsg
      BY <1>1, <1>5, <1>6, SpokenFacts
    <2>3. \A n \in Csocks : n \notin Numbers' => sender'[n] = "none"
      BY <1>3, <1>4, <1>5, SpokenFacts
    <2> QED
      BY <2>1, <2>2, <2>3 DEF Spoken
  <1>8. ASSUME NEW j \in Mistaken' PROVE Announced(j)'
    <2>1. Announced(j) /\ j \in Ifaces
      BY <1>4, SpokenFacts DEF AInv, Mistaken
    <2>2. CASE j \in down_local_ifaces
      BY <1>1, <1>6, <2>2 DEF Announced
    <2>3. ASSUME NEW n \in Csocks, writing[n] = DownMsg(j)
          PROVE  Announced(j)'
      <3>1. n # k
        BY <1>3, <2>1, <2>3, MsgFacts
      <3> QED
        BY <1>5, <2>3, <3>1 DEF Announced
    <2>4. ASSUME NEW n \in Csocks, NEW m \in DOMAIN chan[n], chan[n][m] = DownMsg(j)
          PROVE  Announced(j)'
      BY <1>2, <2>4 DEF Announced
    <2> QED
      BY <2>1, <2>2, <2>3, <2>4 DEF Announced
  <1> QED
    BY <1>7, <1>8 DEF AInv

\* The announcement is on its way, or lost with a connection whose other end has
\* gone.
LEMMA WriteAInv ==
  ASSUME AInv, IInv', NEW k \in Csocks, Write(k)
  PROVE  AInv'
  <1>1. /\ sender[k] = "writing" /\ writing' = [writing EXCEPT ![k] = NoMsg]
        /\ UNCHANGED <<ifacevars, made, remote_ifaces>>
        /\ \E where \in {"down", "changed"} : sender' = [sender EXCEPT ![k] = where]
    BY DEF Write, accepting
  <1>2. writing[k] \in Msgs /\ chan[k] \in Seq(Msgs) /\ k \in Numbers
    BY <1>1, SpokenFacts
  <1>3. Numbers' = Numbers
    BY <1>1 DEF Numbers
  <1>4. /\ \A n \in Csocks : n # k => writing'[n] = writing[n] /\ sender'[n] = sender[n]
        /\ writing'[k] = NoMsg /\ sender'[k] # "writing"
    BY <1>1, SpokenFacts
  <1>5. /\ chan' \in [Csocks -> Seq(Msgs)]
        /\ \A n \in Csocks : \A m \in DOMAIN chan[n] : m \in DOMAIN chan'[n] /\ chan'[n][m] = chan[n][m]
        /\ \/ UNCHANGED excused /\ \E m \in DOMAIN chan'[k] : chan'[k][m] = writing[k]
           \/ excused' = excused \cup LostDowns(<<writing[k]>>)
    <2>1. CASE receiver[k] = "running"
      <3>1. chan' = [chan EXCEPT ![k] = Append(chan[k], writing[k])] /\ UNCHANGED excused
        BY <2>1 DEF Write
      <3>2. /\ Append(chan[k], writing[k]) \in Seq(Msgs) /\ Len(chan[k]) \in Nat
            /\ DOMAIN chan[k] = 1 .. Len(chan[k])
            /\ DOMAIN Append(chan[k], writing[k]) = 1 .. Len(chan[k]) + 1
            /\ \A m \in 1 .. Len(chan[k]) : Append(chan[k], writing[k])[m] = chan[k][m]
            /\ Append(chan[k], writing[k])[Len(chan[k]) + 1] = writing[k]
        BY <1>2
      <3>3. /\ chan'[k] = Append(chan[k], writing[k]) /\ chan' \in [Csocks -> Seq(Msgs)]
            /\ \A n \in Csocks : n # k => chan'[n] = chan[n]
        BY <3>1, <3>2, SpokenFacts
      <3>4. \E m \in DOMAIN chan'[k] : chan'[k][m] = writing[k]
        <4>1. Len(chan[k]) + 1 \in 1 .. Len(chan[k]) + 1
          BY <3>2
        <4> QED
          BY <3>2, <3>3, <4>1, Zenon
      <3>5. \A m \in DOMAIN chan[k] : m \in DOMAIN chan'[k] /\ chan'[k][m] = chan[k][m]
        BY <3>2, <3>3
      <3> QED
        BY <3>1, <3>3, <3>4, <3>5
    <2>2. CASE receiver[k] # "running"
      BY <2>2, SpokenFacts DEF Write
    <2> QED
      BY <2>1, <2>2
  <1>6. Spoken'
    <2>1. /\ changed_local_ifaces' \subseteq Ifaces /\ down_local_ifaces' \subseteq Ifaces
          /\ remote_ifaces' \subseteq Ifaces /\ writing' \in [Csocks -> Msgs]
      BY <1>1, MsgFacts, SpokenFacts DEF ifacevars
    <2>2. \A n \in Csocks : sender'[n] = "writing" <=> writing'[n] # NoMsg
      BY <1>4, SpokenFacts
    <2>3. \A n \in Csocks : n \notin Numbers' => sender'[n] = "none"
      BY <1>2, <1>3, <1>4, SpokenFacts
    <2> QED
      BY <1>5, <2>1, <2>2, <2>3 DEF Spoken
  <1>7. ASSUME NEW j \in Mistaken' PROVE Announced(j)'
    <2>1. j \in Mistaken /\ j \in Ifaces /\ j \notin excused'
      BY <1>1, <1>5, SpokenFacts DEF Mistaken, ifacevars
    <2>2. Announced(j)
      BY <2>1 DEF AInv
    <2>3. CASE j \in down_local_ifaces
      BY <1>1, <2>3 DEF Announced, ifacevars
    <2>4. ASSUME NEW n \in Csocks, NEW m \in DOMAIN chan[n], chan[n][m] = DownMsg(j)
          PROVE  Announced(j)'
      BY <1>5, <2>4 DEF Announced
    <2>5. ASSUME NEW n \in Csocks, n # k, writing[n] = DownMsg(j)
          PROVE  Announced(j)'
      BY <1>4, <2>5 DEF Announced
    <2>6. CASE writing[k] = DownMsg(j)
      <3>1. j \in LostDowns(<<writing[k]>>)
        BY <2>1, <2>6 DEF LostDowns
      <3>2. \E m \in DOMAIN chan'[k] : chan'[k][m] = DownMsg(j)
        BY <1>5, <2>1, <2>6, <3>1
      <3> QED
        BY <3>2 DEF Announced
    <2> QED
      BY <2>2, <2>3, <2>4, <2>5, <2>6 DEF Announced
  <1> QED
    BY <1>6, <1>7 DEF AInv

\* A thread that ends puts its announcement back, if it has one, or aborts.
LEMMA QuitAInv ==
  ASSUME AInv, IInv', NEW k \in Csocks, Quit(k), k \in Numbers,
         UNCHANGED <<local_ifaces, chan, remote_ifaces>>,
         changed_local_ifaces' \subseteq Ifaces, down_local_ifaces' \subseteq Ifaces,
         down_local_ifaces \subseteq down_local_ifaces',
         \A j \in Ifaces : writing[k] = DownMsg(j) => j \in down_local_ifaces'
  PROVE  AInv'
  <1>1. made' = made /\ Numbers' = Numbers /\ DOMAIN made = Numbers
    BY DEF Quit, AInv, IInv, Numbered, Numbers
  <1>2. CASE /\ writing' = [writing EXCEPT ![k] = NoMsg]
             /\ sender' = [sender EXCEPT ![k] = "finished"]
             /\ UNCHANGED excused
    <2>1. /\ \A n \in Csocks : n # k => writing'[n] = writing[n] /\ sender'[n] = sender[n]
          /\ writing'[k] = NoMsg /\ writing' \in [Csocks -> Msgs] /\ sender'[k] = "finished"
      BY <1>2, MsgFacts, SpokenFacts
    <2>2. Spoken'
      BY <1>1, <2>1, SpokenFacts DEF Spoken
    <2>3. ASSUME NEW j \in Mistaken' PROVE Announced(j)'
      <3>1. j \in Mistaken /\ j \in Ifaces
        BY <1>2, SpokenFacts DEF Mistaken
      <3>2. Announced(j)
        BY <3>1 DEF AInv
      <3>3. CASE j \in down_local_ifaces \/ writing[k] = DownMsg(j)
        BY <3>1, <3>3 DEF Announced
      <3>4. ASSUME NEW n \in Csocks, NEW m \in DOMAIN chan[n], chan[n][m] = DownMsg(j)
            PROVE  Announced(j)'
        BY <3>4 DEF Announced
      <3>5. ASSUME NEW n \in Csocks, n # k, writing[n] = DownMsg(j)
            PROVE  Announced(j)'
        BY <2>1, <3>5 DEF Announced
      <3> QED
        BY <3>2, <3>3, <3>4, <3>5 DEF Announced
    <2> QED
      BY <2>2, <2>3 DEF AInv
  <1>3. CASE /\ writing' = [n \in Csocks |-> NoMsg]
             /\ sender' = [n \in Csocks |-> IF n \in DOMAIN made THEN "finished" ELSE "none"]
             /\ excused' = Ifaces
    <2>1. Spoken'
      BY <1>1, <1>3, MsgFacts, SpokenFacts DEF Spoken
    <2>2. Mistaken' = {}
      BY <1>3, SpokenFacts DEF Mistaken
    <2> QED
      BY <2>1, <2>2 DEF AInv
  <1> QED
    BY <1>2, <1>3 DEF Quit

\* What could not be written is put back before the thread ends.
LEMMA SenderEndsAInv ==
  ASSUME AInv, IInv', NEW k \in Csocks, WriteFails(k) \/ ReceiverDied(k)
  PROVE  AInv'
  <1>1. Quit(k) /\ UNCHANGED <<local_ifaces, chan, remote_ifaces>>
    BY DEF WriteFails, ReceiverDied, ifacevars, accepting
  <1>2. k \in Numbers
    BY SpokenFacts DEF WriteFails, ReceiverDied
  <1>3. /\ changed_local_ifaces' \subseteq Ifaces /\ down_local_ifaces' \subseteq Ifaces
        /\ down_local_ifaces \subseteq down_local_ifaces'
        /\ \A j \in Ifaces : writing[k] = DownMsg(j) => j \in down_local_ifaces'
    <2>1. CASE WriteFails(k) /\ writing[k].type = "NEW_INTERFACE"
      <3>1. writing[k].iface \in Ifaces /\ writing[k] = NewMsg(writing[k].iface)
        BY <2>1, MsgFacts, SpokenFacts
      <3>2. /\ changed_local_ifaces' = changed_local_ifaces \cup {writing[k].iface}
            /\ UNCHANGED down_local_ifaces
        BY <2>1 DEF WriteFails
      <3>3. \A j \in Ifaces : writing[k] # DownMsg(j)
        BY <3>1, MsgFacts
      <3> QED
        BY <3>1, <3>2, <3>3, SpokenFacts
    <2>2. CASE WriteFails(k) /\ writing[k].type # "NEW_INTERFACE"
      <3>1. writing[k] # NoMsg /\ writing[k] \in Msgs
        BY <2>2, SpokenFacts DEF WriteFails
      <3>2. writing[k].iface \in Ifaces /\ writing[k] = DownMsg(writing[k].iface)
        BY <2>2, <3>1, MsgFacts
      <3>3. /\ down_local_ifaces' = down_local_ifaces \cup {writing[k].iface}
            /\ UNCHANGED changed_local_ifaces
        BY <2>2 DEF WriteFails
      <3>4. \A j \in Ifaces : writing[k] = DownMsg(j) => j = writing[k].iface
        BY <3>2, MsgFacts
      <3> QED
        BY <3>2, <3>3, <3>4, SpokenFacts
    <2>3. CASE ReceiverDied(k)
      <3>1. writing[k] = NoMsg
        BY <2>3, SpokenFacts DEF ReceiverDied
      <3>2. \A j \in Ifaces : writing[k] # DownMsg(j)
        BY <3>1, MsgFacts
      <3> QED
        BY <2>3, <3>2, SpokenFacts DEF ReceiverDied, ifacevars
    <2> QED
      BY <2>1, <2>2, <2>3
  <1> QED
    BY <1>1, <1>2, <1>3, QuitAInv

\* The accepting end learns of an interface: it is up, or excused.
LEMMA LearnFacts ==
  ASSUME AInv, NEW i \in Ifaces, Learn(i), UNCHANGED local_ifaces
  PROVE  remote_ifaces' \subseteq Ifaces /\ Mistaken' \subseteq Mistaken
  BY SpokenFacts DEF Learn, Mistaken

\* The listener and the confirmation: nothing is said, and a csocket announces
\* the interface it was made on.
LEMMA AcceptingAInv ==
  ASSUME AInv, IInv', Listener \/ \E k \in Csocks : SendConfirmation(k)
  PROVE  AInv'
  <1>1. UNCHANGED connecting /\ UNCHANGED chan
    BY DEF Listener, Accept, Refuse, AddConnection, SendConfirmation
  <1>2. UNCHANGED <<ifacevars, made, sender, writing>>
    BY <1>1 DEF connecting
  <1>3. remote_ifaces' \subseteq Ifaces /\ Mistaken' \subseteq Mistaken
    <2>1. CASE UNCHANGED <<remote_ifaces, excused>>
      BY <1>2, <2>1, SpokenFacts DEF Mistaken, ifacevars
    <2>2. ASSUME NEW k \in Csocks, Accept(k), Learn(made[k])
          PROVE  remote_ifaces' \subseteq Ifaces /\ Mistaken' \subseteq Mistaken
      <3>1. made[k] \in Ifaces
        BY <2>2 DEF Accept, AInv, IInv, Numbered, Numbers
      <3> QED
        BY <1>2, <2>2, <3>1, LearnFacts DEF ifacevars
    <2> QED
      BY <2>1, <2>2 DEF Listener, Accept, Refuse, AddConnection, SendConfirmation
  <1>4. Numbers' = Numbers
    BY <1>2 DEF Numbers
  <1> QED
    BY <1>1, <1>2, <1>3, <1>4, NothingSaid, SpokenFacts DEF ifacevars

\* The rest of a channel, when its head is taken.
LEMMA TailFacts ==
  ASSUME NEW S, NEW s \in Seq(S), s # <<>>
  PROVE  /\ Head(s) \in S /\ Tail(s) \in Seq(S)
         /\ \A n \in DOMAIN s : s[n] = Head(s) \/ \E m \in DOMAIN Tail(s) : Tail(s)[m] = s[n]
  <1>1. /\ Len(s) \in Nat /\ Len(s) # 0 /\ Head(s) = s[1] /\ Head(s) \in S
        /\ DOMAIN s = 1 .. Len(s)
    OBVIOUS
  <1>2. /\ Tail(s) \in Seq(S) /\ DOMAIN Tail(s) = 1 .. Len(s) - 1
        /\ \A m \in 1 .. Len(s) - 1 : Tail(s)[m] = s[m + 1]
    OBVIOUS
  <1>3. ASSUME NEW n \in 2 .. Len(s)
        PROVE  \E m \in DOMAIN Tail(s) : Tail(s)[m] = s[n]
    <2>1. n - 1 \in 1 .. Len(s) - 1 /\ (n - 1) + 1 = n
      BY <1>1, <1>3
    <2> QED
      BY <1>2, <2>1
  <1> QED
    BY <1>1, <1>2, <1>3

\* A channel is read or lost: an announcement that is gone from it has been heard,
\* or is excused.
LEMMA HeardAInv ==
  ASSUME AInv, IInv', NEW k \in Csocks, NEW rest \in Seq(Msgs),
         UNCHANGED connecting, chan' = [chan EXCEPT ![k] = rest],
         remote_ifaces' \subseteq Ifaces, Mistaken' \subseteq Mistaken,
         \A j \in Mistaken' : \A n \in DOMAIN chan[k] :
             chan[k][n] = DownMsg(j) => \E m \in DOMAIN rest : rest[m] = DownMsg(j)
  PROVE  AInv'
  <1>1. UNCHANGED <<ifacevars, made, sender, writing>>
    BY DEF connecting
  <1>2. Numbers' = Numbers
    BY <1>1 DEF Numbers
  <1>3. /\ chan' \in [Csocks -> Seq(Msgs)] /\ chan'[k] = rest
        /\ \A n \in Csocks : n # k => chan'[n] = chan[n]
    BY SpokenFacts
  <1>4. Spoken'
    BY <1>1, <1>2, <1>3, SpokenFacts DEF Spoken, ifacevars
  <1>5. ASSUME NEW j \in Mistaken' PROVE Announced(j)'
    <2>1. Announced(j)
      BY <1>5 DEF AInv
    <2>2. CASE j \in down_local_ifaces \/ \E n \in Csocks : writing[n] = DownMsg(j)
      BY <1>1, <2>2 DEF Announced, ifacevars
    <2>3. ASSUME NEW n \in Csocks, n # k, NEW m \in DOMAIN chan[n], chan[n][m] = DownMsg(j)
          PROVE  Announced(j)'
      BY <1>3, <2>3 DEF Announced
    <2>4. ASSUME NEW m \in DOMAIN chan[k], chan[k][m] = DownMsg(j)
          PROVE  Announced(j)'
      <3>1. PICK n \in DOMAIN rest : rest[n] = DownMsg(j)
        BY <1>5, <2>4
      <3> QED
        BY <1>3, <3>1 DEF Announced
    <2> QED
      BY <2>1, <2>2, <2>3, <2>4 DEF Announced
  <1> QED
    BY <1>4, <1>5 DEF AInv

\* do_new_interface, do_down_interface and the end of a connection.
LEMMA ReceiverAInv ==
  ASSUME AInv, IInv', NEW k \in Csocks, Receiver(k)
  PROVE  AInv'
  <1>0. chan[k] \in Seq(Msgs)
    BY SpokenFacts
  <1>1. CASE SendConfirmation(k)
    BY <1>1, AcceptingAInv
  <1>2. CASE DoNewInterface(k)
    <2>1. /\ chan[k] # <<>> /\ Head(chan[k]).type = "NEW_INTERFACE"
          /\ Learn(Head(chan[k]).iface) /\ UNCHANGED connecting
          /\ chan' = [chan EXCEPT ![k] = Tail(chan[k])]
      BY <1>2 DEF DoNewInterface
    <2>2. Head(chan[k]).iface \in Ifaces /\ Head(chan[k]) = NewMsg(Head(chan[k]).iface)
      BY <1>0, <2>1, TailFacts, MsgFacts
    <2>3. remote_ifaces' \subseteq Ifaces /\ Mistaken' \subseteq Mistaken
      BY <2>1, <2>2, LearnFacts DEF connecting, ifacevars
    <2>4. \A j \in Mistaken' : \A n \in DOMAIN chan[k] :
             chan[k][n] = DownMsg(j) => \E m \in DOMAIN Tail(chan[k]) : Tail(chan[k])[m] = DownMsg(j)
      <3> SUFFICES ASSUME NEW j \in Mistaken', NEW n \in DOMAIN chan[k], chan[k][n] = DownMsg(j)
                   PROVE  \E m \in DOMAIN Tail(chan[k]) : Tail(chan[k])[m] = DownMsg(j)
        OBVIOUS
      <3>1. j \in Ifaces
        BY <2>3, SpokenFacts DEF Mistaken
      <3>2. chan[k][n] # Head(chan[k])
        BY <2>2, <3>1, MsgFacts
      <3> QED
        BY <1>0, <2>1, <3>2, TailFacts
    <2>5. Tail(chan[k]) \in Seq(Msgs)
      BY <1>0, <2>1, TailFacts
    <2> QED
      BY <2>1, <2>3, <2>4, <2>5, HeardAInv
  <1>3. CASE DoDownInterface(k)
    <2>1. /\ chan[k] # <<>> /\ Head(chan[k]).type = "DOWN_INTERFACE"
          /\ remote_ifaces' = remote_ifaces \ {Head(chan[k]).iface}
          /\ UNCHANGED connecting /\ UNCHANGED excused
          /\ chan' = [chan EXCEPT ![k] = Tail(chan[k])]
      BY <1>3 DEF DoDownInterface
    <2>2. Head(chan[k]).iface \in Ifaces /\ Head(chan[k]) = DownMsg(Head(chan[k]).iface)
      BY <1>0, <2>1, TailFacts, MsgFacts
    <2>3. /\ remote_ifaces' \subseteq Ifaces /\ Mistaken' \subseteq Mistaken
          /\ Head(chan[k]).iface \notin Mistaken'
      BY <2>1, SpokenFacts DEF Mistaken, connecting, ifacevars
    <2>4. \A j \in Mistaken' : \A n \in DOMAIN chan[k] :
             chan[k][n] = DownMsg(j) => \E m \in DOMAIN Tail(chan[k]) : Tail(chan[k])[m] = DownMsg(j)
      <3> SUFFICES ASSUME NEW j \in Mistaken', NEW n \in DOMAIN chan[k], chan[k][n] = DownMsg(j)
                   PROVE  \E m \in DOMAIN Tail(chan[k]) : Tail(chan[k])[m] = DownMsg(j)
        OBVIOUS
      <3>1. j \in Ifaces /\ j # Head(chan[k]).iface
        BY <2>3, SpokenFacts DEF Mistaken
      <3>2. chan[k][n] # Head(chan[k])
        BY <2>2, <3>1, MsgFacts
      <3> QED
        BY <1>0, <2>1, <3>2, TailFacts
    <2>5. Tail(chan[k]) \in Seq(Msgs)
      BY <1>0, <2>1, TailFacts
    <2> QED
      BY <2>1, <2>3, <2>4, <2>5, HeardAInv
  <1>4. CASE AcceptedQuits(k)
    <2>1. /\ chan' = [chan EXCEPT ![k] = <<>>] /\ excused' = excused \cup LostDowns(chan[k])
          /\ UNCHANGED connecting /\ UNCHANGED remote_ifaces
      BY <1>4 DEF AcceptedQuits
    <2>2. remote_ifaces' \subseteq Ifaces /\ Mistaken' \subseteq Mistaken
      BY <2>1, SpokenFacts DEF Mistaken, connecting, ifacevars
    <2>3. \A j \in Mistaken' : \A n \in DOMAIN chan[k] : chan[k][n] # DownMsg(j)
      <3> SUFFICES ASSUME NEW j \in Mistaken', NEW n \in DOMAIN chan[k], chan[k][n] = DownMsg(j)
                   PROVE  FALSE
        OBVIOUS
      <3>1. j \in Ifaces /\ j \notin excused'
        BY <2>2 DEF Mistaken
      <3>2. j \in LostDowns(chan[k])
        BY <3>1 DEF LostDowns
      <3> QED
        BY <2>1, <3>1, <3>2
    <2>4. <<>> \in Seq(Msgs)
      OBVIOUS
    <2> QED
      BY <2>1, <2>2, <2>3, <2>4, HeardAInv
  <1> QED
    BY <1>1, <1>2, <1>3, <1>4 DEF Receiver

\* Both ends begin with the same interfaces, and nothing to say of them.
LEMMA InitAInv == Init => AInv
  <1> SUFFICES ASSUME Init PROVE AInv
    OBVIOUS
  <1>1. Len(made) = NumIfaces
    BY InterfacesAssumption DEF Init, Ifaces
  <1>2. Numbers = Ifaces
    BY <1>1 DEF Numbers, Ifaces
  <1>3. <<>> \in Seq(Msgs)
    OBVIOUS
  <1>4. /\ writing \in [Csocks -> Msgs] /\ chan \in [Csocks -> Seq(Msgs)]
        /\ \A k \in Csocks : writing[k] = NoMsg
    BY <1>3, MsgFacts DEF Init
  <1>5. /\ \A k \in Csocks : sender[k] # "writing"
        /\ \A k \in Csocks : k \notin Numbers => sender[k] = "none"
    BY <1>2 DEF Init
  <1>6. Spoken
    BY <1>4, <1>5 DEF Spoken, Init
  <1>7. Mistaken = {}
    BY DEF Init, Mistaken
  <1> QED
    BY <1>6, <1>7, InitIInv DEF AInv

\* Every step keeps it.
LEMMA NextAInv == AInv /\ [Next]_vars => AInv'
  <1> SUFFICES ASSUME AInv, [Next]_vars PROVE AInv'
    OBVIOUS
  <1>0. IInv'
    BY NextIInv DEF AInv
  <1>1. ASSUME NEW i \in Ifaces, InterfaceUp(i) \/ InterfaceDown(i) \/ GetCsock(i)
        PROVE  AInv'
    BY <1>0, <1>1, ScoutAInv
  <1>2. ASSUME NEW k \in Csocks, Sender(k) \/ Break(k) PROVE AInv'
    BY <1>0, <1>2, ConnectingAInv, PopAInv, WriteAInv, SenderEndsAInv DEF Sender
  <1>3. ASSUME NEW k \in Csocks, Receiver(k) PROVE AInv'
    BY <1>0, <1>3, ReceiverAInv
  <1>4. CASE Listener
    BY <1>0, <1>4, AcceptingAInv
  <1>5. CASE UNCHANGED vars
    <2>1. UNCHANGED <<ifacevars, made, sender, writing, chan, remote_ifaces, excused>>
      BY <1>5 DEF vars, connecting, accepting
    <2>2. Numbers' = Numbers /\ Mistaken' = Mistaken
      BY <2>1 DEF Numbers, Mistaken, ifacevars
    <2> QED
      BY <1>0, <2>1, <2>2, NothingSaid, SpokenFacts DEF ifacevars
  <1> QED
    BY <1>1, <1>2, <1>3, <1>4, <1>5 DEF Next

\* down_local_ifaces, down_interface's putting back and teardown's insertion: what
\* the other end still believes in is on its way out, whichever threads announce it,
\* in whatever order the csockets deliver and however many of them fail; except what
\* a connection that failed had carried, what the other end heard of afterwards, and
\* all of it when the process has aborted (excused).
THEOREM LossIsAnnounced == Spec => []DownIsAnnounced
  <1>1. AInv => DownIsAnnounced
    BY DEF AInv, Mistaken, Announced, DownIsAnnounced
  <1> QED
    BY <1>1, InitAInv, NextAInv, PTL DEF Spec
==============================================================================
