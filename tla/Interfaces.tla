----------------------------- MODULE Interfaces -----------------------------
(***************************************************************************)
(* The connections (csockets) of a multisocket that is connected, and what *)
(* its two ends know of the interfaces of the connecting end, which come   *)
(* and go.  The connecting end opens a csocket from each of its            *)
(* interfaces.  The csocket itself announces the interface; a change of an *)
(* interface that is known, and the loss of one, is announced by a message *)
(* that any sender thread may take out of a set and write to its csocket.  *)
(* So announcements on two csockets overtake each other.                   *)
(*                                                                         *)
(* The accepting end has one interface, always up: the pair of interfaces  *)
(* of a csocket is known by the one of the connecting end.  What is done   *)
(* under my_lock or under sockset_mutex is one step.  An interface is its  *)
(* address: its speed matters to no decision modelled here.                *)
(***************************************************************************)
EXTENDS Integers, Sequences, FiniteSets, FiniteSetsExt

CONSTANTS NumIfaces,  \* interfaces of the connecting end, 1 .. NumIfaces, by address
          MaxCsocks,  \* bound: the csockets made
          MaxChanges, \* bound: what the scout reports
          MaxBreaks   \* bound: connections that fail though their interface is up

ASSUME InterfacesAssumption ==
    /\ NumIfaces \in Nat \ {0} /\ MaxCsocks \in Nat /\ MaxCsocks >= NumIfaces
    /\ MaxChanges \in Nat /\ MaxBreaks \in Nat

Ifaces == 1 .. NumIfaces
Csocks == 1 .. MaxCsocks

VARIABLES
    local_ifaces, changed_local_ifaces, down_local_ifaces,  \* of the connecting end
    made,          \* [number -> interface], the csockets it has made so far
    socks,         \* its available_csocks
    sender,        \* [csocket -> where its sender thread is]
    writing,       \* [csocket -> what the sender thread is writing]
    hosed,         \* it has given up
    aborted,       \* its process has
    shut,          \* the csockets it has shut down
    broken,        \* the csockets that failed or that the other end shut down
    chan,          \* [csocket -> the announcements in transit]
    remote_ifaces, \* of the accepting end
    asocks,        \* its available_csocks
    receiver,      \* [csocket -> where its threads are]
    adding,        \* the csocket its listener is about to add, or None
    ahosed,        \* it has given up
    changes, breaks, \* for the bounds
    excused        \* ghost: interfaces whose loss was announced in vain

ifacevars == <<local_ifaces, changed_local_ifaces, down_local_ifaces>>
fate == <<hosed, aborted>>
connecting == <<ifacevars, made, socks, sender, writing, fate, shut>>
accepting == <<remote_ifaces, asocks, receiver, adding, ahosed>>
vars == <<connecting, broken, chan, accepting, changes, breaks, excused>>

None == 0
NoMsg == [type |-> "none", iface |-> None]
NewMsg(i) == [type |-> "NEW_INTERFACE", iface |-> i]
DownMsg(i) == [type |-> "DOWN_INTERFACE", iface |-> i]

\* Both ends have a csocket on every interface.
Init ==
    /\ local_ifaces = Ifaces /\ changed_local_ifaces = {} /\ down_local_ifaces = {}
    /\ made = [i \in Ifaces |-> i]
    /\ socks = Ifaces
    /\ sender = [k \in Csocks |-> IF k \in Ifaces THEN "changed" ELSE "none"]
    /\ writing = [k \in Csocks |-> NoMsg]
    /\ hosed = FALSE /\ aborted = FALSE /\ shut = {} /\ broken = {}
    /\ chan = [k \in Csocks |-> <<>>]
    /\ remote_ifaces = Ifaces /\ asocks = Ifaces
    /\ receiver = [k \in Csocks |-> IF k \in Ifaces THEN "running" ELSE "none"]
    /\ adding = None /\ ahosed = FALSE
    /\ changes = 0 /\ breaks = 0 /\ excused = {}

-----------------------------------------------------------------------------
\* The connecting end.

On(i, set) == {k \in set : made[k] = i}

\* A mistake to rule out: nobody looks whether the pair has a csocket.
MakeNewCsocketAnyway(i, have) ==
    /\ Len(made) < MaxCsocks
    /\ made' = Append(made, i)
    /\ socks' = have \cup {Len(made) + 1}
    /\ sender' = [sender EXCEPT ![Len(made) + 1] = "connecting"]

\* make_new_csocket: the csocket of a pair that has one is kept.
MakeNewCsocket(i, have) ==
    IF On(i, have) # {} \/ Len(made) = MaxCsocks
    THEN /\ socks' = have
         /\ UNCHANGED <<made, sender>>
    ELSE /\ made' = Append(made, i)
         /\ socks' = have \cup {Len(made) + 1}
         /\ sender' = [sender EXCEPT ![Len(made) + 1] = "connecting"]

\* setup, for a local interface that is new or has changed
Setup(i) ==
    /\ MakeNewCsocket(i, socks)
    /\ changed_local_ifaces' = changed_local_ifaces \cup ({i} \cap local_ifaces)
    /\ local_ifaces' = local_ifaces \cup {i}

\* teardown, for a local interface
Teardown(i) ==
    /\ socks' = socks \ On(i, socks)
    /\ shut' = shut \cup On(i, socks)
    /\ local_ifaces' = local_ifaces \ {i}
    /\ down_local_ifaces' = down_local_ifaces \cup {i}

InterfaceUp(i) ==
    /\ changes < MaxChanges /\ ~hosed /\ ~aborted
    /\ changes' = changes + 1
    /\ Setup(i)
    /\ excused' = excused \ {i}
    /\ UNCHANGED <<down_local_ifaces, writing, fate, shut, broken, chan, accepting, breaks>>

InterfaceDown(i) ==
    /\ changes < MaxChanges /\ i \in local_ifaces /\ ~aborted
    /\ changes' = changes + 1
    /\ Teardown(i)
    /\ UNCHANGED <<changed_local_ifaces, made, sender, writing, fate, broken, chan, accepting,
                   breaks, excused>>

\* get_iface_pair, for no labels: the chooser picks any pair that is up.
IfacePairs == local_ifaces

\* get_csock for an IROB, when no csocket is connected
GetCsock(i) ==
    /\ i \in IfacePairs /\ ~hosed /\ ~aborted
    /\ \A k \in socks : sender[k] = "connecting"
    /\ On(i, socks) = {} /\ Len(made) < MaxCsocks
    /\ MakeNewCsocket(i, socks)
    /\ UNCHANGED <<ifacevars, writing, fate, shut, broken, chan, accepting, changes, breaks,
                   excused>>

\* phys_connect has written its announcement to the listener.
Announce(k) ==
    /\ sender[k] = "connecting" /\ receiver[k] = "none"
    /\ ~ahosed /\ k \notin shut
    /\ receiver' = [receiver EXCEPT ![k] = "queued"]
    /\ UNCHANGED <<connecting, broken, chan, remote_ifaces, asocks, adding, ahosed, changes,
                   breaks, excused>>

\* phys_connect has read the confirmation.
Connected(k) ==
    /\ sender[k] = "connecting" /\ receiver[k] \in {"running", "finished"} /\ k \notin shut
    /\ sender' = [sender EXCEPT ![k] = "changed"]
    /\ UNCHANGED <<ifacevars, made, socks, writing, fate, shut, broken, chan, accepting,
                   changes, breaks, excused>>

\* phys_connect fails; a listener that is gone is the end of the multisocket.
ConnectFails(k) ==
    /\ sender[k] = "connecting"
    /\ \/ k \in shut \cup broken \/ receiver[k] = "refused" \/ ahosed
    /\ sender' = [sender EXCEPT ![k] = "finished"]
    /\ socks' = socks \ {k}
    /\ shut' = shut \cup {k}
    /\ hosed' = (hosed \/ (receiver[k] = "none" /\ ahosed /\ k \notin shut))
    /\ UNCHANGED <<ifacevars, made, writing, aborted, broken, chan, accepting, changes, breaks,
                   excused>>

\* schedule_work takes one interface from each of the two sets in turn.
PopChanged(k) ==
    /\ sender[k] = "changed" \/ (sender[k] = "down" /\ down_local_ifaces = {})
    /\ changed_local_ifaces # {}
    /\ LET i == Min(changed_local_ifaces) IN
       /\ changed_local_ifaces' = changed_local_ifaces \ {i}
       /\ writing' = [writing EXCEPT ![k] = NewMsg(i)]
    /\ sender' = [sender EXCEPT ![k] = "writing"]
    /\ UNCHANGED <<local_ifaces, down_local_ifaces, made, socks, fate, shut, broken, chan,
                   accepting, changes, breaks, excused>>

PopDown(k) ==
    /\ sender[k] = "down" \/ (sender[k] = "changed" /\ changed_local_ifaces = {})
    /\ down_local_ifaces # {}
    /\ LET i == Min(down_local_ifaces) IN
       /\ down_local_ifaces' = down_local_ifaces \ {i}
       /\ writing' = [writing EXCEPT ![k] = DownMsg(i)]
    /\ sender' = [sender EXCEPT ![k] = "writing"]
    /\ UNCHANGED <<local_ifaces, changed_local_ifaces, made, socks, fate, shut, broken, chan,
                   accepting, changes, breaks, excused>>

LostDowns(msgs) == {i \in Ifaces : \E n \in DOMAIN msgs : msgs[n] = DownMsg(i)}

\* The write succeeds, even if the other end is gone and will not read it.
Write(k) ==
    /\ sender[k] = "writing" /\ k \notin shut
    /\ IF receiver[k] = "running"
       THEN chan' = [chan EXCEPT ![k] = Append(@, writing[k])] /\ UNCHANGED excused
       ELSE excused' = excused \cup LostDowns(<<writing[k]>>) /\ UNCHANGED chan
    /\ writing' = [writing EXCEPT ![k] = NoMsg]
    /\ sender' = [sender EXCEPT ![k] = IF writing[k].type = "NEW_INTERFACE" THEN "down"
                                       ELSE "changed"]
    /\ UNCHANGED <<ifacevars, made, socks, fate, shut, broken, accepting, changes, breaks>>

\* The handler of CMMControlException: a csocket that is left takes over.  If there
\* is none, to make one the thread takes my_lock for reading, which it has taken
\* for writing: the assertion that a lock is taken successfully fails, and all that
\* is left of the process are the ends of its connections.
Quit(k) ==
    /\ UNCHANGED <<made, hosed>>
    /\ \/ /\ socks \ {k} # {}
          /\ socks' = socks \ {k}
          /\ shut' = shut \cup {k}
          /\ writing' = [writing EXCEPT ![k] = NoMsg]
          /\ sender' = [sender EXCEPT ![k] = "finished"]
          /\ UNCHANGED <<aborted, excused>>
       \/ /\ socks \subseteq {k}
          /\ aborted' = TRUE
          /\ socks' = {}
          /\ shut' = shut \cup DOMAIN made
          /\ writing' = [n \in Csocks |-> NoMsg]
          /\ sender' = [n \in Csocks |-> IF n \in DOMAIN made THEN "finished" ELSE "none"]
          /\ excused' = Ifaces

\* A mistake to rule out: the announcement is not put back.
WriteFailsForgetting(k) ==
    /\ sender[k] = "writing" /\ k \in shut \cup broken
    /\ Quit(k)
    /\ UNCHANGED <<ifacevars, broken, chan, accepting, changes, breaks>>

\* new_interface and down_interface put back what could not be written.
WriteFails(k) ==
    /\ sender[k] = "writing" /\ k \in shut \cup broken
    /\ IF writing[k].type = "NEW_INTERFACE"
       THEN /\ changed_local_ifaces' = changed_local_ifaces \cup {writing[k].iface}
            /\ UNCHANGED down_local_ifaces
       ELSE /\ down_local_ifaces' = down_local_ifaces \cup {writing[k].iface}
            /\ UNCHANGED changed_local_ifaces
    /\ Quit(k)
    /\ UNCHANGED <<local_ifaces, broken, chan, accepting, changes, breaks>>

\* The receiver thread has ended, and the sender thread finds that out.
ReceiverDied(k) ==
    /\ sender[k] \in {"changed", "down"} /\ k \in shut \cup broken
    /\ Quit(k)
    /\ UNCHANGED <<ifacevars, broken, chan, accepting, changes, breaks>>

-----------------------------------------------------------------------------
\* The network.

Break(k) ==
    /\ breaks < MaxBreaks /\ k \notin broken \cup shut /\ sender[k] # "none"
    /\ breaks' = breaks + 1
    /\ broken' = broken \cup {k}
    /\ UNCHANGED <<connecting, chan, accepting, changes, excused>>

-----------------------------------------------------------------------------
\* The accepting end.

\* What it learns of an interface that is down meanwhile is not taken back.
Learn(i) ==
    /\ remote_ifaces' = remote_ifaces \cup {i}
    /\ excused' = IF i \in local_ifaces THEN excused ELSE excused \cup {i}

\* get_remote_iface_by_addr
Known(i) == i \in remote_ifaces

\* The listener has read the announcement; add_connection calls setup.
Accept(k) ==
    /\ receiver[k] = "queued" /\ adding = None /\ ~ahosed
    /\ adding' = k
    /\ IF Known(made[k]) THEN UNCHANGED <<remote_ifaces, excused>> ELSE Learn(made[k])
    /\ UNCHANGED <<connecting, broken, chan, asocks, receiver, ahosed, changes, breaks>>

Refuse(k) ==
    /\ receiver[k] = "queued" /\ (k \in shut \cup broken \/ ahosed)
    /\ adding # k
    /\ receiver' = [receiver EXCEPT ![k] = "refused"]
    /\ UNCHANGED <<connecting, broken, chan, remote_ifaces, asocks, adding, ahosed, changes,
                   breaks, excused>>

\* make_new_csocket for an accepted socket, which replaces the pair's csocket
AddConnection ==
    /\ adding # None
    /\ LET old == On(made[adding], asocks) IN
       /\ asocks' = (asocks \ old) \cup {adding}
       /\ broken' = broken \cup old
    /\ receiver' = [receiver EXCEPT ![adding] = "added"]
    /\ adding' = None
    /\ UNCHANGED <<connecting, chan, remote_ifaces, ahosed, changes, breaks, excused>>

SendConfirmation(k) ==
    /\ receiver[k] = "added"
    /\ receiver' = [receiver EXCEPT ![k] = "running"]
    /\ UNCHANGED <<connecting, broken, chan, remote_ifaces, asocks, adding, ahosed, changes,
                   breaks, excused>>

\* do_new_interface
DoNewInterface(k) ==
    /\ receiver[k] = "running" /\ chan[k] # <<>> /\ Head(chan[k]).type = "NEW_INTERFACE"
    /\ Learn(Head(chan[k]).iface)
    /\ chan' = [chan EXCEPT ![k] = Tail(@)]
    /\ UNCHANGED <<connecting, broken, asocks, receiver, adding, ahosed, changes, breaks>>

\* A mistake to rule out: teardown does not shut the csockets down.
DoDownInterfaceOpen(k) ==
    /\ receiver[k] = "running" /\ chan[k] # <<>> /\ Head(chan[k]).type = "DOWN_INTERFACE"
    /\ asocks' = asocks \ On(Head(chan[k]).iface, asocks)
    /\ remote_ifaces' = remote_ifaces \ {Head(chan[k]).iface}
    /\ chan' = [chan EXCEPT ![k] = Tail(@)]
    /\ UNCHANGED <<connecting, broken, receiver, adding, ahosed, changes, breaks, excused>>

\* do_down_interface: teardown
DoDownInterface(k) ==
    /\ receiver[k] = "running" /\ chan[k] # <<>> /\ Head(chan[k]).type = "DOWN_INTERFACE"
    /\ LET i == Head(chan[k]).iface IN
       /\ asocks' = asocks \ On(i, asocks)
       /\ broken' = broken \cup On(i, asocks)
       /\ remote_ifaces' = remote_ifaces \ {i}
    /\ chan' = [chan EXCEPT ![k] = Tail(@)]
    /\ UNCHANGED <<connecting, receiver, adding, ahosed, changes, breaks, excused>>

\* The end of the connection is found, whatever has not arrived by then is lost.
\* When no csocket is left, the multisocket ends.
AcceptedQuits(k) ==
    /\ receiver[k] \in {"added", "running"} /\ k \in shut \cup broken
    /\ receiver' = [receiver EXCEPT ![k] = "finished"]
    /\ asocks' = asocks \ {k}
    /\ ahosed' = (ahosed \/ asocks' = {})
    /\ broken' = broken \cup {k}
    /\ excused' = excused \cup LostDowns(chan[k])
    /\ chan' = [chan EXCEPT ![k] = <<>>]
    /\ UNCHANGED <<connecting, remote_ifaces, adding, changes, breaks>>

Sender(k) == \/ Announce(k) \/ Connected(k) \/ ConnectFails(k) \/ PopChanged(k) \/ PopDown(k)
             \/ Write(k) \/ WriteFails(k) \/ ReceiverDied(k)

Receiver(k) == \/ SendConfirmation(k) \/ DoNewInterface(k) \/ DoDownInterface(k)
               \/ AcceptedQuits(k)

Listener == AddConnection \/ \E k \in Csocks : Accept(k) \/ Refuse(k)

Next ==
    \/ \E i \in Ifaces : InterfaceUp(i) \/ InterfaceDown(i) \/ GetCsock(i)
    \/ \E k \in Csocks : Sender(k) \/ Receiver(k) \/ Break(k)
    \/ Listener

Spec == Init /\ [][Next]_vars

\* Every thread runs, and each end finds out in the end that a connection is gone.
FairSpec ==
    /\ Spec
    /\ WF_vars(Listener)
    /\ \A k \in Csocks : WF_vars(Sender(k)) /\ WF_vars(Receiver(k))

-----------------------------------------------------------------------------

\* No end has two csockets on a pair of interfaces, which
\* connected_csock_with_labels asserts, whatever was replaced, torn down,
\* accepted late or made again.
OnePerPair ==
    /\ \A j, k \in socks : made[j] = made[k] => j = k
    /\ \A j, k \in asocks : made[j] = made[k] => j = k

\* The loss of an interface the other end knows of is announced: it is waiting to
\* be, it is being written or it is in transit.  Only when the connection that
\* carried it failed, when the other end heard of the interface again after it was
\* lost, or when the process has aborted, may the other end believe in it for ever.
DownIsAnnounced ==
    \A i \in remote_ifaces \ (local_ifaces \cup excused) :
        \/ i \in down_local_ifaces
        \/ \E k \in Csocks : \/ writing[k] = DownMsg(i)
                             \/ \E n \in DOMAIN chan[k] : chan[k][n] = DownMsg(i)

\* A csocket that the accepting end does not have any more is not kept by the
\* connecting end, which would send into nowhere, and the other way round.
SidesAgree ==
    \A k \in Csocks :
        /\ k \in socks \ asocks ~> (k \notin socks \/ k \in asocks)
        /\ k \in asocks \ socks ~> (k \notin asocks \/ k \in socks)
==============================================================================
