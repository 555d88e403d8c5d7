------------------------------ MODULE Bootstrap ------------------------------
(***************************************************************************)
(* How a multisocket is connected.  The bootstrapper thread of the end     *)
(* that connects opens a socket, exchanges HELLOs with the other end,      *)
(* opens a connection (csocket) from each of its interfaces to the         *)
(* listener the HELLO named, waits for them and exchanges the lists of     *)
(* interfaces.  When the interface it uses goes down, the thread that      *)
(* reads the scout's messages shuts its socket down and makes it start     *)
(* again.  The accepting end makes a new multisocket, with a bootstrapper  *)
(* and a listener of its own, for each socket it accepts, so for each      *)
(* attempt of the connecting end.                                          *)
(*                                                                         *)
(* The other end has one interface, the only one cmm_connect knows.  What  *)
(* is done under my_lock is one step.  The interfaces of a list, and the   *)
(* sentinel after them, are one message.  A socket that is shut down or    *)
(* closed is found so by the other end once it has read what was sent.     *)
(***************************************************************************)
EXTENDS Integers, Sequences, FiniteSets, FiniteSetsExt

CONSTANTS NumIfaces,  \* interfaces of the connecting end, 1 .. NumIfaces, by address
          MaxDowns,   \* bound: how often one of them goes down
          MaxUps      \* bound: how often one comes up

ASSUME BootstrapAssumption ==
    NumIfaces \in Nat \ {0} /\ MaxDowns \in Nat /\ MaxUps \in Nat

AllIfaces == 1 .. NumIfaces
None == 0
Attempts == 1 .. MaxDowns + 1

VARIABLES
    local_ifaces,   \* of the connecting end
    pc,             \* where its bootstrapper is
    bootstrap_sock, \* the interface its socket is bound to, or None
    shut,           \* the socket has been shut down
    status, retry,  \* status_ and retry
    attempt,        \* how many sockets it has connected
    csock,          \* [iface -> "none", "connecting", "connected" and to whom]
    ipc,            \* the thread that handles the scout's messages
    downs, ups,     \* for the bounds
    acc,            \* [attempt -> where the accepting bootstrapper is]
    asocks,         \* [attempt -> the connections its listener has added]
    to_acc, to_conn,\* [attempt -> what is in transit on the socket]
    closed          \* the attempts whose socket the connecting end has closed

connecting == <<local_ifaces, pc, bootstrap_sock, shut, status, retry, attempt, csock>>
accepting == <<acc, asocks>>
net == <<to_acc, to_conn, closed>>
bootstrapvars == <<connecting, ipc, downs, ups, accepting, net>>

NoCsock == [state |-> "none", to |-> None]

BootstrapInit ==
    /\ local_ifaces \in SUBSET AllIfaces
    /\ pc = "start" /\ bootstrap_sock = None /\ shut = FALSE
    /\ status = "EINPROGRESS" /\ retry = FALSE /\ attempt = 0
    /\ csock = [i \in AllIfaces |-> NoCsock]
    /\ ipc = [pc |-> "idle", iface |-> None]
    /\ downs = 0 /\ ups = 0
    /\ acc = [n \in Attempts |-> "none"]
    /\ asocks = [n \in Attempts |-> {}]
    /\ to_acc = [n \in Attempts |-> <<>>] /\ to_conn = to_acc
    /\ closed = {}

-----------------------------------------------------------------------------
\* The bootstrapper of the connecting end.

\* my_lock is held for writing while teardown waits for sockset_mutex.
MyLockFree == ipc.pc # "tearing_down"

Dead == shut \/ acc[attempt] \in {"failed", "gone"}

\* throw, up to the handler
Throw == pc' = "caught"

\* An interface is up: the socket is created and bound.  If there is none Run
\* returns as it is, without writing to write_ready_pipe; if there is already a
\* socket, the thread takes itself for one of the accepting side.
Begin ==
    /\ pc = "start" /\ MyLockFree
    /\ retry' = FALSE
    /\ IF bootstrap_sock # None
       THEN pc' = "accept_path" /\ UNCHANGED <<bootstrap_sock, shut>>
       ELSE IF local_ifaces = {}
       THEN pc' = "returned" /\ UNCHANGED <<bootstrap_sock, shut>>
       ELSE pc' = "connect" /\ bootstrap_sock' = Min(local_ifaces) /\ shut' = FALSE
    /\ UNCHANGED <<local_ifaces, status, attempt, csock, ipc, downs, ups, accepting, net>>

\* recv_hello on the socket that was shut down
AcceptPath ==
    /\ pc = "accept_path"
    /\ Throw
    /\ UNCHANGED <<local_ifaces, bootstrap_sock, shut, status, retry, attempt, csock, ipc,
                   downs, ups, accepting, net>>

\* The other end accepts, and starts a bootstrapper and a listener for the socket.
Connect ==
    /\ pc = "connect" /\ ~shut
    /\ attempt' = attempt + 1
    /\ acc' = [acc EXCEPT ![attempt + 1] = "recv_hello"]
    /\ pc' = "send_hello"
    /\ UNCHANGED <<local_ifaces, bootstrap_sock, shut, status, retry, csock, ipc, downs, ups,
                   asocks, net>>

ConnectFails ==
    /\ pc = "connect"
    /\ status' = "errno"
    /\ Throw
    /\ UNCHANGED <<local_ifaces, bootstrap_sock, shut, retry, attempt, csock, ipc, downs, ups,
                   accepting, net>>

\* send_hello and send_local_listeners
Send(at, msg, next) ==
    /\ pc = at /\ MyLockFree
    /\ IF Dead THEN Throw /\ UNCHANGED to_acc
       ELSE pc' = next /\ to_acc' = [to_acc EXCEPT ![attempt] = Append(@, msg)]
    /\ UNCHANGED <<local_ifaces, bootstrap_sock, shut, status, retry, attempt, csock, ipc,
                   downs, ups, accepting, to_conn, closed>>

\* recv_hello and recv_remote_listeners; what the list says is ignored here
Recv(at, msg, next) ==
    /\ pc = at
    /\ \/ ~shut /\ to_conn[attempt] # <<>>
          /\ to_conn' = [to_conn EXCEPT ![attempt] = Tail(@)]
          /\ IF Head(to_conn[attempt]) = msg THEN pc' = next ELSE Throw
       \/ Dead /\ (shut \/ to_conn[attempt] = <<>>)
          /\ Throw /\ UNCHANGED to_conn
    /\ UNCHANGED <<local_ifaces, bootstrap_sock, shut, status, retry, attempt, csock, ipc,
                   downs, ups, accepting, to_acc, closed>>

\* make_new_csocket for the interfaces that have no csocket yet
Started(which) ==
    [i \in AllIfaces |-> IF i \in which /\ csock[i].state = "none"
                      THEN [state |-> "connecting", to |-> attempt] ELSE csock[i]]

StartupCsocks ==
    /\ pc = "startup" /\ MyLockFree
    /\ csock' = Started(local_ifaces)
    /\ pc' = "wait"
    /\ UNCHANGED <<local_ifaces, bootstrap_sock, shut, status, retry, attempt, ipc, downs, ups,
                   accepting, net>>

\* Every csocket is connected or has failed.
Settled(socks) == \A i \in AllIfaces : socks[i].state # "connecting"

\* wait_for_connections, which holds sockset_mutex for reading
WaitForConnections ==
    /\ pc = "wait" /\ Settled(csock)
    /\ IF \E i \in AllIfaces : csock[i].state = "connected" THEN pc' = "send_listeners" ELSE Throw
    /\ UNCHANGED <<local_ifaces, bootstrap_sock, shut, status, retry, attempt, csock, ipc,
                   downs, ups, accepting, net>>

Succeed ==
    /\ pc = "succeed" /\ MyLockFree
    /\ status' = "0"
    /\ pc' = "end_of_loop"
    /\ UNCHANGED <<local_ifaces, bootstrap_sock, shut, retry, attempt, csock, ipc, downs, ups,
                   accepting, net>>

Catch ==
    /\ pc = "caught" /\ MyLockFree
    /\ IF retry
       THEN /\ bootstrap_sock' = None /\ status' = "EINPROGRESS"
            /\ closed' = closed \cup {attempt}
       ELSE /\ status' = IF status = "EINPROGRESS" THEN status ELSE "ECONNREFUSED"
            /\ UNCHANGED <<bootstrap_sock, closed>>
    /\ pc' = "end_of_loop"
    /\ UNCHANGED <<local_ifaces, shut, retry, attempt, csock, ipc, downs, ups, accepting,
                   to_acc, to_conn>>

\* while (retry)
EndOfLoop ==
    /\ pc = "end_of_loop"
    /\ pc' = IF retry THEN "start" ELSE "returned"
    /\ UNCHANGED <<local_ifaces, bootstrap_sock, shut, status, retry, attempt, csock, ipc,
                   downs, ups, accepting, net>>

Finish ==
    /\ pc = "returned" /\ MyLockFree
    /\ pc' = "finished" /\ bootstrap_sock' = None
    /\ closed' = closed \cup {attempt}
    /\ UNCHANGED <<local_ifaces, shut, status, retry, attempt, csock, ipc, downs, ups, accepting,
                   to_acc, to_conn>>

Bootstrapper ==
    \/ Begin \/ AcceptPath \/ Connect \/ ConnectFails
    \/ Send("send_hello", "hello", "recv_hello")
    \/ Recv("recv_hello", "hello", "startup")
    \/ StartupCsocks \/ WaitForConnections
    \/ Send("send_listeners", "listeners", "recv_listeners")
    \/ Recv("recv_listeners", "listeners", "succeed")
    \/ Succeed \/ Catch \/ EndOfLoop \/ Finish

-----------------------------------------------------------------------------
\* The csockets of the connecting end, and the listeners of the accepting one.

Listening(n) == acc[n] \notin {"none", "failed", "gone"}

\* The listener adds the connection and confirms it with a HELLO.
AddConnection(i) ==
    /\ csock[i].state = "connecting" /\ Listening(csock[i].to)
    /\ i \notin asocks[csock[i].to]
    /\ asocks' = [asocks EXCEPT ![csock[i].to] = @ \cup {i}]
    /\ UNCHANGED <<connecting, ipc, downs, ups, acc, net>>

\* phys_connect has read the confirmation.
CsockConnected(i) ==
    /\ csock[i].state = "connecting" /\ i \in asocks[csock[i].to]
    /\ csock' = [csock EXCEPT ![i].state = "connected"]
    /\ UNCHANGED <<local_ifaces, pc, bootstrap_sock, shut, status, retry, attempt, ipc, downs,
                   ups, accepting, net>>

\* A mistake to rule out: phys_connect does not set connection_failed.
CsockFailsSilently(i) ==
    /\ csock[i].state = "connected" /\ ~Listening(csock[i].to)
    /\ csock' = [csock EXCEPT ![i] = NoCsock]
    /\ UNCHANGED <<local_ifaces, pc, bootstrap_sock, shut, status, retry, attempt, ipc, downs,
                   ups, accepting, net>>

\* phys_connect fails, or the other multisocket is closed; the csocket's sender
\* thread takes it out of the map.
CsockFails(i) ==
    /\ \/ csock[i].state = "connecting"
       \/ csock[i].state = "connected" /\ ~Listening(csock[i].to)
    /\ csock' = [csock EXCEPT ![i] = NoCsock]
    /\ UNCHANGED <<local_ifaces, pc, bootstrap_sock, shut, status, retry, attempt, ipc, downs,
                   ups, accepting, net>>

-----------------------------------------------------------------------------
\* The scout's messages.

\* interface_down: ConnBootstrapper::restart first ...
Restart(i) ==
    /\ ipc.pc = "idle" /\ downs < MaxDowns /\ i \in local_ifaces
    /\ downs' = downs + 1
    /\ ipc' = [pc |-> "restarted", iface |-> i]
    /\ IF bootstrap_sock = i THEN retry' = TRUE /\ shut' = TRUE
       ELSE UNCHANGED <<retry, shut>>
    /\ UNCHANGED <<local_ifaces, pc, bootstrap_sock, status, attempt, csock, ups, accepting, net>>

\* ... then teardown takes my_lock ...
BeginTeardown ==
    /\ ipc.pc = "restarted"
    /\ ipc' = [ipc EXCEPT !.pc = "tearing_down"]
    /\ UNCHANGED <<connecting, downs, ups, accepting, net>>

\* ... and, when wait_for_connections is over, sockset_mutex.
Teardown ==
    /\ ipc.pc = "tearing_down" /\ pc # "wait"
    /\ csock' = [csock EXCEPT ![ipc.iface] = NoCsock]
    /\ local_ifaces' = local_ifaces \ {ipc.iface}
    /\ ipc' = [pc |-> "idle", iface |-> None]
    /\ UNCHANGED <<pc, bootstrap_sock, shut, status, retry, attempt, downs, ups, accepting, net>>

\* interface_up: connections are made here only when bootstrapping is over.
InterfaceUp(i) ==
    /\ ipc.pc = "idle" /\ ups < MaxUps /\ i \notin local_ifaces
    /\ ups' = ups + 1
    /\ local_ifaces' = local_ifaces \cup {i}
    /\ csock' = IF status = "0" THEN Started({i}) ELSE csock
    /\ UNCHANGED <<pc, bootstrap_sock, shut, status, retry, attempt, ipc, downs, accepting, net>>

-----------------------------------------------------------------------------
\* The bootstrappers of the accepting end, one for each attempt.

Gone(n) == n \in closed \/ (n = attempt /\ shut)

AccMoves(n, at, next) ==
    /\ acc[n] = at
    /\ acc' = [acc EXCEPT ![n] = next]
    /\ UNCHANGED <<connecting, ipc, downs, ups, asocks>>

AccRecv(n, at, msg, next) ==
    \/ /\ to_acc[n] # <<>> /\ Head(to_acc[n]) = msg
       /\ AccMoves(n, at, next)
       /\ to_acc' = [to_acc EXCEPT ![n] = Tail(@)]
       /\ UNCHANGED <<to_conn, closed>>
    \/ /\ to_acc[n] = <<>> /\ Gone(n)
       /\ AccMoves(n, at, "failed")
       /\ UNCHANGED net

\* A send succeeds if the other end has not closed the socket, and may do so
\* if it has.
AccSend(n, at, msg, next) ==
    \/ /\ AccMoves(n, at, next)
       /\ to_conn' = [to_conn EXCEPT ![n] = Append(@, msg)]
       /\ UNCHANGED <<to_acc, closed>>
    \/ /\ Gone(n)
       /\ AccMoves(n, at, "failed")
       /\ UNCHANGED net

\* A mistake to rule out: having no connection is not an error.
AccWaitAnyway(n) ==
    /\ AccMoves(n, "wait", "send_listeners")
    /\ UNCHANGED net

\* wait_for_connections, on this side those the listener has added
AccWait(n) ==
    /\ AccMoves(n, "wait", IF asocks[n] # {} THEN "send_listeners" ELSE "failed")
    /\ UNCHANGED net

\* mc_accept: the multisocket of a bootstrap that failed is closed.
AccClose(n) ==
    /\ AccMoves(n, "failed", "gone")
    /\ UNCHANGED net

Acceptor(n) ==
    \/ AccRecv(n, "recv_hello", "hello", "send_hello")
    \/ AccSend(n, "send_hello", "hello", "recv_listeners")
    \/ AccRecv(n, "recv_listeners", "listeners", "wait")
    \/ AccWait(n)
    \/ AccSend(n, "send_listeners", "listeners", "ok")
    \/ AccClose(n)

Ipc ==
    \/ \E i \in AllIfaces : Restart(i) \/ InterfaceUp(i)
    \/ BeginTeardown \/ Teardown

Csocket(i) == AddConnection(i) \/ CsockConnected(i) \/ CsockFails(i)

BootstrapNext ==
    \/ Bootstrapper \/ Ipc
    \/ \E i \in AllIfaces : Csocket(i)
    \/ \E n \in Attempts : Acceptor(n)

BootstrapSpec == BootstrapInit /\ [][BootstrapNext]_bootstrapvars

\* Every thread runs; TCP lets a connection attempt succeed or fail in the end.
FairBootstrapSpec ==
    /\ BootstrapSpec
    /\ WF_bootstrapvars(Bootstrapper)
    /\ WF_bootstrapvars(BeginTeardown \/ Teardown)
    /\ \A i \in AllIfaces : WF_bootstrapvars(Csocket(i))
    /\ \A n \in Attempts : WF_bootstrapvars(Acceptor(n))

-----------------------------------------------------------------------------

\* When the connecting end's status becomes 0, the two ends have a connection
\* that both of them know of: the accepting multisocket it last talked to has
\* added one.  Two sides, several attempts and csockets left over from earlier
\* attempts take part in this.
SuccessIsShared == pc = "end_of_loop" /\ status = "0" => asocks[attempt] # {}

\* cmm_connect, which joins the bootstrapper, and interface_down, which waits
\* for locks that the bootstrapper holds, both return, whenever interfaces go
\* down and come up.
ConnectReturns ==
    /\ (pc # "finished") ~> (pc = "finished")
    /\ (ipc.pc # "idle") ~> (ipc.pc = "idle")
==============================================================================
