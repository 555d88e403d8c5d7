------------------------------ MODULE Shutdown ------------------------------
(***************************************************************************)
(* How a multisocket is closed.  Both ends run one sender and one receiver *)
(* thread per connection (csocket).  An end that shuts down sends a        *)
(* GOODBYE once its IROBs are ACKed and it owes nothing to the other end;  *)
(* the other end answers with a GOODBYE of its own; the threads leave, and *)
(* with the last of them the readers get their end of file.                *)
(*                                                                         *)
(* Each end sends at most one IROB, small enough for one message, and the  *)
(* other end's application reads it at once (IROBTransfer has the rest).   *)
(* What a thread does under scheduling_state_lock is one step.  A GOODBYE  *)
(* is written with the lock released, in two steps.  Threads               *)
(* that wait without a timeout are not told from threads that run: every   *)
(* change they wait for is followed by a broadcast.  The thread that waits *)
(* for the other end's GOODBYE is, since it goes to sleep without looking  *)
(* at the indexes again.  Each connection is over interfaces of its own.   *)
(***************************************************************************)
EXTENDS Integers, Sequences, FiniteSets

CONSTANTS Conns,        \* connections
          Initial,      \* those that exist from the start, the others may be made
          AnyConn,      \* stands for the indexes any sender may take work from
          MaxIrobs,     \* bound: how many of the two ends send an IROB
          MaxClosers,   \* bound: how many of the two applications close
          MaxBreaks     \* bound: how many connections break

ASSUME ShutdownAssumption ==
    /\ Initial \subseteq Conns /\ Initial # {}
    /\ AnyConn \notin Conns
    /\ MaxIrobs \in 0 .. 2 /\ MaxClosers \in 0 .. 2
    /\ MaxBreaks \in Nat

Endpoints == {"connecting", "accepting"}
Peer(e) == CHOOSE p \in Endpoints : p # e

VARIABLES
    shutting_down,    \* the flags of CMMSocketImpl, each as the set of the
    remote_shutdown,  \* ends where it is set
    goodbye_sent,
    sending_goodbye,
    csock_map,        \* the csockets of each end
    irob,             \* the IROB of each end: in begin_irob, in outgoing_irobs
    sending_ifaces,   \* the connections it was sent on
    work,             \* the scheduling indexes of each csocket and the common ones
    sender, recvr,    \* where each thread is
    net,              \* net[e][c]: what is in transit to e on c
    ended,            \* <<e, c>>: after net[e][c] comes the end of the stream
    broken,           \* connections that carry nothing any more
    \* --- for the properties
    closers,          \* the ends whose application has closed
    aborted,          \* the ends whose process has aborted
    late              \* the ends whose IROB was accepted during the shutdown

flags == <<shutting_down, remote_shutdown, goodbye_sent, sending_goodbye>>
history == <<closers, late, aborted>>
vars == <<flags, csock_map, irob, sending_ifaces, work, sender, recvr, net,
          ended, broken, history>>

Items == {"ack", "check", "irob"}
SenderStates == {"none", "connecting", "running", "writing", "waiting",
                 "failed", "finishing", "gone"}
ReceiverStates == {"none", "running", "told", "finishing", "gone"}

TypeOK ==
    /\ shutting_down \subseteq Endpoints /\ remote_shutdown \subseteq Endpoints
    /\ goodbye_sent \subseteq Endpoints /\ sending_goodbye \subseteq Endpoints
    /\ csock_map \in [Endpoints -> SUBSET Conns]
    /\ \A e \in Endpoints : \A c \in csock_map[e] : sender[e][c] \notin {"none", "gone"}
    /\ irob \in [Endpoints -> {"none", "beginning", "outgoing", "acked"}]
    /\ sending_ifaces \in [Endpoints -> SUBSET Conns]
    /\ work \in [Endpoints -> [Conns \cup {AnyConn} -> SUBSET Items]]
    /\ sender \in [Endpoints -> [Conns -> SenderStates]]
    /\ recvr \in [Endpoints -> [Conns -> ReceiverStates]]
    /\ net \in [Endpoints -> [Conns -> Seq(Items \cup {"goodbye"})]]
    /\ ended \subseteq Endpoints \X Conns
    /\ broken \subseteq Conns
    /\ closers \subseteq Endpoints /\ late \subseteq Endpoints /\ aborted \subseteq Endpoints

Init ==
    /\ shutting_down = {} /\ remote_shutdown = {}
    /\ goodbye_sent = {} /\ sending_goodbye = {}
    /\ csock_map = [e \in Endpoints |-> Initial]
    /\ irob = [e \in Endpoints |-> "none"]
    /\ sending_ifaces = [e \in Endpoints |-> {}]
    /\ work = [e \in Endpoints |-> [i \in Conns \cup {AnyConn} |-> {}]]
    /\ sender = [e \in Endpoints |->
                    [c \in Conns |-> IF c \in Initial THEN "running" ELSE "none"]]
    /\ recvr = sender
    /\ net = [e \in Endpoints |-> [c \in Conns |-> <<>>]]
    /\ ended = {} /\ broken = {}
    /\ closers = {} /\ late = {} /\ aborted = {}

-----------------------------------------------------------------------------

\* is_connected.  Its receiver thread has waited for it (wait_until_connected).
IsConnected(e, c) == recvr[e][c] # "none"

\* pthread_cond_broadcast on the scheduling_state_cv of e, given where its
\* senders are.
Broadcast(e, threads) ==
    [threads EXCEPT
        ![e] = [c \in Conns |-> IF @[c] = "waiting" THEN "running" ELSE @[c]]]

\* A mistake to rule out: the IROBs that are not ACKed are forgotten.
NothingToSendButIrobs(e, c) ==
    /\ work[e][c] \subseteq {"irob"}
    /\ work[e][AnyConn] \subseteq {"irob"}

\* nothingToSend, of the sender thread of connection c
NothingToSend(e, c) ==
    /\ work[e][c] \subseteq {"irob"}
    /\ work[e][AnyConn] \subseteq {"irob"}
    /\ irob[e] # "outgoing"

\* What is written to a connection arrives unless it breaks.
Transmit(e, c, msgs) ==
    net' = IF c \in broken \/ recvr[Peer(e)][c] \in {"finishing", "gone"}
           THEN net
           ELSE [net EXCEPT ![Peer(e)][c] = @ \o msgs]

\* get_csock finds no pair of interfaces to connect.
Unreachable == Conns = broken

\* A mistake to rule out: the answer to a GOODBYE does not ask for the ACKs
\* that the other end believes it has sent.
GoodbyeUnchecked(e, remote_initiated) ==
    /\ shutting_down' = shutting_down \cup {e}
    /\ remote_shutdown' = IF remote_initiated \/ Unreachable
                          THEN remote_shutdown \cup {e} ELSE remote_shutdown
    /\ UNCHANGED <<work, sending_goodbye, goodbye_sent>>

\* goodbye.  A csocket is there, or get_csock makes one first (MakeCsocket), or
\* cannot.
Goodbye(e, remote_initiated) ==
    IF e \in shutting_down
    THEN UNCHANGED <<flags, work>>
    ELSE /\ csock_map[e] # {} \/ Unreachable
         /\ shutting_down' = shutting_down \cup {e}
         /\ work' = IF remote_initiated /\ irob[e] = "outgoing"
                    THEN [work EXCEPT ![e][AnyConn] = @ \cup {"check"}]
                    ELSE work
         /\ UNCHANGED sending_goodbye
         /\ remote_shutdown' = IF remote_initiated \/ Unreachable
                               THEN remote_shutdown \cup {e} ELSE remote_shutdown
         /\ goodbye_sent' = IF Unreachable THEN goodbye_sent \cup {e}
                                           ELSE goodbye_sent

\* "clean up as if we had done a graceful shutdown"
GiveUp(e) ==
    /\ shutting_down' = shutting_down \cup {e}
    /\ remote_shutdown' = remote_shutdown \cup {e}
    /\ goodbye_sent' = goodbye_sent \cup {e}
    /\ UNCHANGED sending_goodbye

-----------------------------------------------------------------------------
(***************************************************************************)
(* The application                                                         *)
(***************************************************************************)

\* mc_send or mc_begin_irob: is_shutting_down is tested, and a csocket chosen,
\* before scheduling_state_lock is taken ...
BeginIrob(e) ==
    /\ irob[e] = "none"
    /\ Cardinality({p \in Endpoints : irob[p] # "none"}) < MaxIrobs
    /\ e \notin shutting_down
    /\ csock_map[e] # {}
    /\ irob' = [irob EXCEPT ![e] = "beginning"]
    /\ UNCHANGED <<flags, csock_map, sending_ifaces, work, sender, recvr, net,
                   ended, broken, history>>

\* ... and the IROB is inserted whatever has happened since.  my_lock, held for
\* reading, keeps the csocket from being removed.
InsertIrob(e, c) ==
    /\ irob[e] = "beginning"
    /\ c \in csock_map[e]
    /\ irob' = [irob EXCEPT ![e] = "outgoing"]
    /\ LET index == IF IsConnected(e, c) THEN c ELSE AnyConn
       IN  work' = [work EXCEPT ![e][index] = @ \cup {"irob"}]
    /\ sender' = Broadcast(e, sender)
    /\ late' = IF e \in shutting_down THEN late \cup {e} ELSE late
    /\ UNCHANGED <<flags, csock_map, sending_ifaces, recvr, net, ended, broken, closers,
                   aborted>>

\* mc_close or mc_shutdown
Close(e) ==
    /\ e \notin closers \cup aborted
    /\ Cardinality(closers) < MaxClosers
    /\ closers' = closers \cup {e}
    /\ Goodbye(e, FALSE)
    /\ sender' = Broadcast(e, sender)
    /\ UNCHANGED <<csock_map, irob, sending_ifaces, recvr, net, ended, broken, late,
                   aborted>>

-----------------------------------------------------------------------------
(***************************************************************************)
(* CSocketSender                                                           *)
(***************************************************************************)

Running(e, c) == sender[e][c] = "running"
ReadyToLeave(e, c) == e \in shutting_down /\ NothingToSend(e, c)

\* What is sent for a piece of work.
Messages(e, item) ==
    CASE item = "irob"  -> IF irob[e] = "outgoing" THEN <<"irob">> ELSE <<>>
      [] item = "check" -> IF irob[e] = "outgoing" THEN <<"irob", "check">>
                                                   ELSE <<"check">>
      [] OTHER          -> <<item>>

SendsIrob(e, item) == item \in {"irob", "check"} /\ irob[e] = "outgoing"

\* schedule_work, of one piece of work in the index of the csocket or the
\* common one
ScheduleWork(e, c, index, item) ==
    /\ Running(e, c) /\ ~ReadyToLeave(e, c)
    /\ recvr[e][c] # "gone"
    /\ item \in work[e][index]
    /\ work' = [work EXCEPT ![e][index] = @ \ {item}]
    /\ sending_ifaces' = [sending_ifaces EXCEPT
                             ![e] = IF SendsIrob(e, item) THEN @ \cup {c} ELSE @]
    /\ Transmit(e, c, Messages(e, item))
    /\ UNCHANGED <<flags, csock_map, irob, sender, recvr, ended, broken,
                   history>>

\* A write fails: all but an ACK goes back to the common index.
WriteFails(e, c, index, item) ==
    /\ Running(e, c) /\ ~ReadyToLeave(e, c)
    /\ recvr[e][c] # "gone"
    /\ item \in work[e][index]
    /\ c \in broken
    /\ work' = [work EXCEPT ![e] = [i \in Conns \cup {AnyConn} |->
                   (@[i] \ (IF i = index THEN {item} ELSE {}))
                      \cup (IF i = AnyConn THEN {item} \ {"ack"} ELSE {})]]
    /\ sending_ifaces' = [sending_ifaces EXCEPT
                             ![e] = IF SendsIrob(e, item) THEN @ \cup {c} ELSE @]
    /\ sender' = [Broadcast(e, sender) EXCEPT ![e][c] = "failed"]
    /\ UNCHANGED <<flags, csock_map, irob, recvr, net, ended, broken,
                   history>>

\* A mistake to rule out: a second thread writes a GOODBYE while the first is
\* writing it.
SayGoodbyeTwice(e, c) ==
    /\ Running(e, c) /\ ReadyToLeave(e, c)
    /\ e \notin goodbye_sent
    /\ sending_goodbye' = sending_goodbye \cup {e}
    /\ sender' = [sender EXCEPT ![e][c] = "writing"]
    /\ UNCHANGED <<shutting_down, remote_shutdown, goodbye_sent, csock_map, irob,
                   sending_ifaces, work, recvr, net, ended, broken,
                   history>>

\* goodbye, of CSocketSender, as far as the lock is released
SayGoodbye(e, c) ==
    /\ Running(e, c) /\ ReadyToLeave(e, c)
    /\ e \notin goodbye_sent \cup sending_goodbye
    /\ sending_goodbye' = sending_goodbye \cup {e}
    /\ sender' = [sender EXCEPT ![e][c] = "writing"]
    /\ UNCHANGED <<shutting_down, remote_shutdown, goodbye_sent, csock_map, irob,
                   sending_ifaces, work, recvr, net, ended, broken,
                   history>>

\* The thread has nothing left to do but wait for the other end's GOODBYE.
Await(e, c) == IF e \in remote_shutdown \/ recvr[e][c] = "gone"
               THEN "finishing" ELSE "waiting"

GoodbyeWritten(e, c) ==
    /\ sender[e][c] = "writing"
    /\ Transmit(e, c, <<"goodbye">>)
    /\ goodbye_sent' = goodbye_sent \cup {e}
    /\ sender' = [Broadcast(e, sender) EXCEPT ![e][c] = Await(e, c)]
    /\ UNCHANGED <<shutting_down, remote_shutdown, sending_goodbye, csock_map,
                   irob, sending_ifaces, work, recvr, ended, broken,
                   history>>

GoodbyeFails(e, c) ==
    /\ sender[e][c] = "writing"
    /\ c \in broken
    /\ sending_goodbye' = sending_goodbye \ {e}
    /\ sender' = [Broadcast(e, sender) EXCEPT ![e][c] = "failed"]
    /\ UNCHANGED <<shutting_down, remote_shutdown, goodbye_sent, csock_map, irob,
                   sending_ifaces, work, recvr, net, ended, broken,
                   history>>

\* The GOODBYE has been sent, or another thread is sending it.
AwaitGoodbye(e, c) ==
    /\ Running(e, c) /\ ReadyToLeave(e, c)
    /\ e \in goodbye_sent \cup sending_goodbye
    /\ sender' = [sender EXCEPT ![e][c] = Await(e, c)]
    /\ UNCHANGED <<flags, csock_map, irob, sending_ifaces, work, recvr, net, ended,
                   broken, history>>

\* "Hmm, the receiver died.  Checking why."
ReceiverDied(e, c) ==
    /\ Running(e, c) /\ ~ReadyToLeave(e, c)
    /\ recvr[e][c] = "gone"
    /\ sender' = [sender EXCEPT
                     ![e][c] = IF e \in shutting_down \cap goodbye_sent
                               THEN "finishing" ELSE "failed"]
    /\ UNCHANGED <<flags, csock_map, irob, sending_ifaces, work, recvr, net, ended,
                   broken, history>>

\* A mistake to rule out: no data check.
DataCheckNone(e, c) == {}

\* data_check_all_irobs, of those sent on c
DataCheck(e, c) ==
    IF irob[e] = "outgoing" /\ c \in sending_ifaces[e] THEN {"check"} ELSE {}

\* What is left in the index of c goes to another one, and the data check to
\* the common one.
PassOn(e, c, index) ==
    work' = [work EXCEPT ![e] = [i \in Conns \cup {AnyConn} |->
                IF i = c THEN {}
                ELSE @[i] \cup (IF i = index THEN @[c] ELSE {})
                          \cup (IF i = AnyConn THEN DataCheck(e, c) ELSE {})]]

\* The accepting end's handler of CMMControlException
AcceptingEndRecovers(c) ==
    LET e == "accepting" IN
    /\ sender[e][c] = "failed"
    /\ irob[e] # "beginning"
    /\ csock_map' = [csock_map EXCEPT ![e] = @ \ {c}]
    /\ PassOn(e, c, AnyConn)
    /\ IF csock_map'[e] = {} THEN GiveUp(e) ELSE UNCHANGED flags
    /\ sender' = [Broadcast(e, sender) EXCEPT ![e][c] = "finishing"]
    /\ UNCHANGED <<irob, sending_ifaces, recvr, net, ended, broken,
                   history>>

\* The connecting end's: new_csock_with_labels finds another csocket, connected
\* or not.
ConnectingEndRecovers(c) ==
    LET e == "connecting" IN
    /\ sender[e][c] = "failed"
    /\ irob[e] # "beginning"
    /\ \E r \in csock_map[e] \ {c} :
          PassOn(e, c, IF IsConnected(e, r) THEN r ELSE AnyConn)
    /\ csock_map' = [csock_map EXCEPT ![e] = @ \ {c}]
    /\ sender' = [Broadcast(e, sender) EXCEPT ![e][c] = "finishing"]
    /\ UNCHANGED <<flags, irob, sending_ifaces, recvr, net, ended, broken, history>>

\* There is none: to make one it takes my_lock for reading, which the thread has
\* taken for writing, and the assertion that a lock is taken successfully fails.
\* All that is left of the process are the ends of its streams.
Abort(c) ==
    LET e == "connecting" IN
    /\ sender[e][c] = "failed"
    /\ irob[e] # "beginning"
    /\ csock_map[e] \ {c} = {}
    /\ aborted' = aborted \cup {e}
    /\ csock_map' = [csock_map EXCEPT ![e] = {}]
    /\ work' = [work EXCEPT ![e] = [i \in Conns \cup {AnyConn} |-> {}]]
    /\ sender' = [sender EXCEPT ![e] = [d \in Conns |-> "gone"]]
    /\ recvr' = [recvr EXCEPT ![e] = [d \in Conns |-> "gone"]]
    /\ net' = [net EXCEPT ![e] = [d \in Conns |-> <<>>]]
    /\ ended' = ended \cup ({Peer(e)} \X Conns)
    /\ UNCHANGED <<flags, irob, sending_ifaces, broken, closers, late>>

\* setup, when the scout reports an interface; or get_csock, which the
\* application and goodbye call, when there is no csocket
MakeCsocket(c) ==
    /\ sender["connecting"][c] = "none"
    /\ irob["connecting"] # "beginning"
    /\ csock_map' = [csock_map EXCEPT !["connecting"] = @ \cup {c}]
    /\ sender' = [sender EXCEPT !["connecting"][c] = "connecting"]
    /\ UNCHANGED <<flags, irob, sending_ifaces, work, recvr, net, ended, broken, history>>

\* The accepting end listens until its application has closed the multisocket
\* and its threads, which refer to it, are gone.
Listening ==
    \/ "accepting" \notin closers
    \/ \E c \in Conns : \/ sender["accepting"][c] \notin {"none", "gone"}
                        \/ recvr["accepting"][c] \notin {"none", "gone"}

\* phys_connect succeeds, and the other end accepts the connection,
Connected(c) ==
    /\ sender["connecting"][c] = "connecting"
    /\ c \notin broken
    /\ Listening
    /\ sender' = [sender EXCEPT !["connecting"][c] = "running",
                                !["accepting"][c] = "running"]
    /\ recvr' = [recvr EXCEPT !["connecting"][c] = "running",
                              !["accepting"][c] = "running"]
    /\ csock_map' = [csock_map EXCEPT !["accepting"] = @ \cup {c}]
    /\ UNCHANGED <<flags, irob, sending_ifaces, work, net, ended, broken,
                   history>>

\* or it is refused, and the multisocket is dead; or the connection breaks.
ConnectFails(c) ==
    /\ sender["connecting"][c] = "connecting"
    /\ \/ ~Listening /\ GiveUp("connecting")
       \/ c \in broken /\ UNCHANGED flags
    /\ sender' = [Broadcast("connecting", sender) EXCEPT
                     !["connecting"][c] = "finishing"]
    /\ UNCHANGED <<csock_map, irob, sending_ifaces, work, recvr, net, ended,
                   broken, history>>

\* A mistake to rule out: the csocket stays in the map.
FinishUnremoved(e, c) ==
    /\ sender[e][c] = "finishing"
    /\ irob[e] # "beginning"
    /\ sender' = [Broadcast(e, sender) EXCEPT ![e][c] = "gone"]
    /\ ended' = ended \cup {<<Peer(e), c>>}
    /\ work' = [work EXCEPT ![e][c] = {}]
    /\ UNCHANGED <<flags, csock_map, irob, sending_ifaces, recvr, net, broken,
                   history>>

\* Finish: SHUT_WR, and the csocket, with its indexes, is removed.
Finish(e, c) ==
    /\ sender[e][c] = "finishing"
    /\ irob[e] # "beginning"
    /\ csock_map' = [csock_map EXCEPT ![e] = @ \ {c}]
    /\ sender' = [Broadcast(e, sender) EXCEPT ![e][c] = "gone"]
    /\ ended' = ended \cup {<<Peer(e), c>>}
    /\ work' = [work EXCEPT ![e][c] = {}]
    /\ UNCHANGED <<flags, irob, sending_ifaces, recvr, net, broken,
                   history>>

-----------------------------------------------------------------------------
(***************************************************************************)
(* CSocketReceiver                                                         *)
(***************************************************************************)

\* The next message of connection c is handled, and perhaps work scheduled.
Receive(e, c, msg) ==
    /\ recvr[e][c] = "running"
    /\ net[e][c] # <<>> /\ Head(net[e][c]) = msg
    /\ net' = [net EXCEPT ![e][c] = Tail(@)]
    /\ UNCHANGED <<csock_map, ended, broken, history>>

\* A new IROB, or a duplicate, is ACKed.
DoIrob(e, c) ==
    /\ Receive(e, c, "irob")
    /\ sender' = Broadcast(e, sender)
    /\ work' = [work EXCEPT ![e][c] = @ \cup {"ack"}]
    /\ UNCHANGED <<flags, irob, sending_ifaces, recvr>>

DoAck(e, c) ==
    /\ Receive(e, c, "ack")
    /\ sender' = Broadcast(e, sender)
    /\ irob' = [irob EXCEPT ![e] = "acked"]
    /\ sending_ifaces' = [sending_ifaces EXCEPT ![e] = {}]
    /\ UNCHANGED <<flags, work, recvr>>

\* data_check_requested
DoDataCheck(e, c) ==
    /\ Receive(e, c, "check")
    /\ sender' = Broadcast(e, sender)
    /\ work' = [work EXCEPT ![e][AnyConn] = @ \cup {"ack"}]
    /\ UNCHANGED <<flags, irob, sending_ifaces, recvr>>

\* do_goodbye: the FIN/ACK, when this end is shutting down itself (goodbye_acked),
\* or the FIN.
DoGoodbye(e, c) ==
    /\ Receive(e, c, "goodbye")
    /\ IF e \in shutting_down
       THEN /\ remote_shutdown' = remote_shutdown \cup {e}
            /\ sender' = Broadcast(e, sender)
            /\ recvr' = [recvr EXCEPT ![e][c] = "finishing"]
       ELSE /\ recvr' = [recvr EXCEPT ![e][c] = "told"]
            /\ UNCHANGED <<remote_shutdown, sender>>
    /\ UNCHANGED <<shutting_down, goodbye_sent, sending_goodbye, irob,
                   sending_ifaces, work>>

\* ... which has goodbye called, after a test that may be stale by now.
RemoteGoodbye(e, c) ==
    /\ recvr[e][c] = "told"
    /\ Goodbye(e, TRUE)
    /\ sender' = Broadcast(e, sender)
    /\ recvr' = [recvr EXCEPT ![e][c] = "running"]
    /\ UNCHANGED <<csock_map, irob, sending_ifaces, net, ended, broken, history>>

\* The end of the stream, or a broken connection; Finish
ReceiverFinishes(e, c) ==
    /\ \/ recvr[e][c] = "finishing"
       \/ recvr[e][c] = "running" /\ c \in broken
       \/ recvr[e][c] = "running" /\ <<e, c>> \in ended /\ net[e][c] = <<>>
    /\ recvr' = [recvr EXCEPT ![e][c] = "gone"]
    /\ net' = [net EXCEPT ![e][c] = <<>>]
    /\ sender' = Broadcast(e, sender)
    /\ UNCHANGED <<flags, csock_map, irob, sending_ifaces, work, ended, broken, history>>

Break(c) ==
    /\ Cardinality(broken) < MaxBreaks
    /\ c \notin broken
    /\ \E e \in Endpoints : sender[e][c] \notin {"none", "gone"}
    /\ broken' = broken \cup {c}
    /\ net' = [e \in Endpoints |-> [net[e] EXCEPT ![c] = <<>>]]
    /\ UNCHANGED <<flags, csock_map, irob, sending_ifaces, work, sender, recvr,
                   ended, history>>

-----------------------------------------------------------------------------

SenderThread(e, c) ==
    \/ \E index \in {c, AnyConn} : \E item \in Items :
          ScheduleWork(e, c, index, item) \/ WriteFails(e, c, index, item)
    \/ SayGoodbye(e, c) \/ GoodbyeWritten(e, c) \/ GoodbyeFails(e, c)
    \/ AwaitGoodbye(e, c)
    \/ ReceiverDied(e, c) \/ Finish(e, c)

ReceiverThread(e, c) ==
    \/ DoIrob(e, c) \/ DoAck(e, c) \/ DoDataCheck(e, c)
    \/ DoGoodbye(e, c) \/ RemoteGoodbye(e, c) \/ ReceiverFinishes(e, c)

\* What happens without anybody's doing, in less than two minutes
Busy ==
    \/ \E e \in Endpoints, c \in Conns :
          InsertIrob(e, c) \/ SenderThread(e, c) \/ ReceiverThread(e, c)
    \/ \E c \in Conns : \/ AcceptingEndRecovers(c) \/ ConnectingEndRecovers(c) \/ Abort(c)
                        \/ Connected(c) \/ ConnectFails(c)

\* Nothing has woken the thread for two minutes, because its connection is dead
\* or because nobody has anything to do:
TwoMinutesLater(c) == c \in broken \/ ~ENABLED Busy

\* SHUT_RD tells the receiver thread to leave.
TimeOut(e, c) ==
    /\ sender[e][c] = "waiting"
    /\ TwoMinutesLater(c)
    /\ sender' = [sender EXCEPT ![e][c] = "finishing"]
    /\ ended' = ended \cup {<<e, c>>}
    /\ UNCHANGED <<flags, csock_map, irob, sending_ifaces, work, recvr, net, broken,
                   history>>

Next ==
    \/ Busy
    \/ \E e \in Endpoints, c \in Conns : TimeOut(e, c)
    \/ \E e \in Endpoints : BeginIrob(e) \/ Close(e)
    \/ \E c \in Conns : Break(c) \/ MakeCsocket(c)

Spec == Init /\ [][Next]_vars

(***************************************************************************)
(* As long as some thread can do something, one of them does.  No thread   *)
(* can go on for ever while another waits for the processor, so this is as *)
(* good as fairness to each.  The application need not send or close       *)
(* anything, no connection has to break, and no timeout has to expire.     *)
(***************************************************************************)
FairSpec == Spec /\ WF_vars(Busy)

-----------------------------------------------------------------------------
(***************************************************************************)
(* Properties                                                              *)
(***************************************************************************)

\* An end that has closed and has no csocket left has lost nothing that was
\* accepted before the shutdown began: the other end has the IROB, and this
\* one knows it.  (When one application closes and nothing breaks; Run, goodbye
\* and data_check_all_irobs.)
NothingLost ==
    \A e \in Endpoints :
        e \in shutting_down /\ csock_map[e] = {} /\ irob[e] # "none" /\ e \notin late
            => irob[e] = "acked"

\* Of each end at most one GOODBYE is being written or in transit, although every
\* sender thread may be the one that writes it, and does so without the lock.
Goodbyes(e) == {c \in Conns : \E i \in DOMAIN net[e][c] : net[e][c][i] = "goodbye"}
                  \cup {c \in Conns : sender[Peer(e)][c] = "writing"}

OneGoodbye == \A e \in Endpoints : Cardinality(Goodbyes(e)) <= 1

\* When one application closes and nothing breaks, both ends shut down
\* completely: readers get their end of file (get_ready_irob) and cleanup
\* returns, and no timeout is needed for it.  An IROB accepted after the
\* shutdown has begun can prevent this, when the index it is put in is that of
\* a thread that has left already.
CloseCompletes ==
    \A e \in Endpoints :
        closers # {} ~>
            \/ /\ e \in shutting_down \cap remote_shutdown \cap goodbye_sent
               /\ csock_map[e] = {}
            \/ late # {}

\* Whatever breaks and whoever closes, an end that shuts down is not stuck while
\* it has threads left: some thread of one of the ends has something to do
\* (with the same exception).
NeverStuck ==
    /\ late = {}
    /\ \E e \in shutting_down, c \in Conns :
          ~({sender[e][c], recvr[e][c]} \subseteq {"none", "gone"})
    => \/ \E e \in Endpoints, c \in Conns : sender[e][c] = "waiting"
       \/ ENABLED Busy

\* Run: "If I don't check this, I may hang the remote side waiting for that one
\* last ack, which I'll never send because I'm waiting for the goodbye."  TLC
\* refutes it (README, section 5).
LastAckIsNotHeldBack ==
    \A e \in Endpoints, c \in Conns :
        sender[e][c] = "waiting" => "ack" \notin work[e][c] \cup work[e][AnyConn]

\* remote_shutdown, which readers and cleanup wait for, is "true if remote has
\* ack'd the shutdown": once a GOODBYE has been handled, it is set.  TLC refutes
\* this too.
GoodbyeIsRemembered ==
    [][\A e \in Endpoints, c \in Conns :
          recvr[e][c] = "told" /\ recvr'[e][c] # "told"
             => e \in remote_shutdown']_vars

=============================================================================
