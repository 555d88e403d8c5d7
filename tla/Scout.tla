-------------------------------- MODULE Scout --------------------------------
(***************************************************************************)
(* The connection scout and the applications that subscribe to it.  The    *)
(* scout keeps the interfaces that are up (net_interfaces); its main       *)
(* thread changes them and tells every subscriber, its listener thread     *)
(* accepts connections, answers questions, takes in subscribers and        *)
(* forgets those that left.  Each subscriber repeats in its own process    *)
(* what it is told.                                                        *)
(*                                                                         *)
(* The two threads share subscriber_procs, a LockingMap: an entry is held  *)
(* locked by who inserts or removes it, but the main thread walks over the *)
(* map without any lock.  A write to a subscriber succeeds unless its      *)
(* process has left (SIGPIPE is ignored); what is written for one          *)
(* subscriber at a time is one step, and so are finding an entry and       *)
(* locking it.  Process ids are not numbers of descriptors, so that the    *)
(* test for a duplicate subscription, which confuses them, finds nothing.  *)
(***************************************************************************)
EXTENDS Integers, Sequences, FiniteSets, SequencesExt

CONSTANTS Procs,        \* applications; each connects to the scout once
          NoProc,       \* nobody
          Ifaces,       \* network interfaces
          Cellular,     \* the one that is always up
          MaxValue,     \* bound: the measurements (1 .. MaxValue) of an interface
          MaxUpdates,   \* bound: changes of the interfaces
          MaxRestarts   \* bound: how often the service is started again

ASSUME ScoutAssumption ==
    /\ IsFiniteSet(Procs) /\ NoProc \notin Procs
    /\ Cellular \in Ifaces /\ IsFiniteSet(Ifaces)
    /\ MaxValue \in Nat \ {0} /\ MaxUpdates \in Nat /\ MaxRestarts \in Nat

\* Descriptors of subscribers, taken from the lowest; one is enough for each.
Fds == 1 .. Cardinality(Procs)

VARIABLES
    scout,             \* "running", "stopping", "stopped", "deaf", "exiting", "crashed"
    net_interfaces,    \* what is known of each interface, 0 when it is down
    subscriber_procs,  \* [fd -> "none", "new" (its ipc_sock is 0) or "set"]
    active_fds,        \* the descriptors the listener selects on
    open,              \* [fd -> the process at the other end, or NoProc]
    listener,          \* the listener thread: where it is and its locals
    main,              \* the thread that changes the interfaces
    backlog,           \* connections that are not accepted yet
    request,           \* what each process asked for
    client,            \* where each process is
    view,              \* the interfaces each process knows of
    chan,              \* what is written to each process and not read
    updates, restarts, \* for the bounds
    missed             \* processes one of whose updates went elsewhere

procs == <<request, client, view, chan, missed>>
table == <<subscriber_procs, active_fds, open>>
bounds == <<updates, restarts>>
vars == <<scout, net_interfaces, table, listener, main, backlog, procs, bounds>>

Down == 0
Requests == {"subscribe", "get_ifaces", "is_ip_connected", "nothing"}

\* Messages to a process are pairs of an interface and what is known of it;
\* get_ifaces is answered with all that are up and a sentinel.
Sentinel == <<"none", Down>>

Nothing == [i \in Ifaces |-> Down]
Selecting == [pc |-> "select", fd |-> 0, ifaces |-> <<>>, ready |-> {}]
Idle == [pc |-> "idle", msgs |-> <<>>, at |-> 0, failed |-> <<>>]

Init ==
    /\ scout = "running"
    /\ net_interfaces = [i \in Ifaces |-> IF i = Cellular THEN 1 ELSE Down]
    /\ subscriber_procs = [f \in Fds |-> "none"]
    /\ active_fds = {} /\ open = [f \in Fds |-> NoProc]
    /\ listener = Selecting /\ main = Idle
    /\ backlog = <<>>
    /\ request = [p \in Procs |-> "nothing"]
    /\ client = [p \in Procs |-> "out"]
    /\ view = [p \in Procs |-> Nothing]
    /\ chan = [p \in Procs |-> <<>>]
    /\ updates = 0 /\ restarts = 0 /\ missed = {}

\* A process that dies, or asserts, loses all its connections.
Crash ==
    /\ scout' = "crashed"
    /\ subscriber_procs' = [f \in Fds |-> "none"]
    /\ active_fds' = {} /\ open' = [f \in Fds |-> NoProc] /\ backlog' = <<>>
    /\ listener' = Selecting /\ main' = Idle
    /\ UNCHANGED <<net_interfaces, procs, bounds>>

Working == scout # "crashed"

-----------------------------------------------------------------------------
\* The applications.

\* open_scout_socket and the request; "nothing" is a process that dies before
\* it has written any.
ConnectToScout(p, r) ==
    /\ scout = "running" /\ client[p] = "out"
    /\ client' = [client EXCEPT ![p] = IF r = "nothing" THEN "left" ELSE "init"]
    /\ request' = [request EXCEPT ![p] = r]
    /\ backlog' = Append(backlog, p)
    /\ UNCHANGED <<scout, net_interfaces, table, listener, main, view, chan, missed, bounds>>

\* process_interface_update, of which only the interface concerns us here
Apply(known, msg) == [known EXCEPT ![msg[1]] = msg[2]]

\* net_status_change_handler: in scout_ipc_init, which waits for the first
\* update, and from then on in IPCThread.
Update(p) ==
    /\ request[p] = "subscribe" /\ client[p] \in {"init", "running"} /\ chan[p] # <<>>
    /\ view' = [view EXCEPT ![p] = Apply(@, Head(chan[p]))]
    /\ chan' = [chan EXCEPT ![p] = Tail(@)]
    /\ client' = [client EXCEPT ![p] = "running"]
    /\ UNCHANGED <<scout, net_interfaces, table, listener, main, backlog, request, missed, bounds>>

\* get_local_interfaces reads up to the sentinel, is_ip_connected one answer.
Answer(p) ==
    /\ request[p] # "subscribe" /\ client[p] = "init" /\ chan[p] # <<>>
    /\ LET msg == Head(chan[p])
           last == msg = Sentinel \/ request[p] = "is_ip_connected"
       IN  /\ view' = [view EXCEPT ![p] = IF last THEN Nothing ELSE Apply(@, msg)]
           /\ client' = [client EXCEPT ![p] = IF last THEN "left" ELSE @]
    /\ chan' = [chan EXCEPT ![p] = Tail(@)]
    /\ UNCHANGED <<scout, net_interfaces, table, listener, main, backlog, request, missed, bounds>>

\* scout_recv reads the end of the stream: scout_ipc_init fails, or IPCThread
\* leaves and the application keeps what it knew last.
EndOfStream(p) ==
    /\ client[p] \in {"init", "running"} /\ chan[p] = <<>>
    /\ \A f \in Fds : open[f] # p
    /\ ~Contains(backlog, p)
    /\ client' = [client EXCEPT ![p] = IF @ = "init" THEN "failed" ELSE "cut"]
    /\ UNCHANGED <<scout, net_interfaces, table, listener, main, backlog, request, view,
                   chan, missed, bounds>>

\* scout_ipc_deinit, or the process dies: the scout can read something from
\* its connection, UNSUBSCRIBE or the end of the stream.
Leave(p) ==
    /\ client[p] \in {"init", "running"}
    /\ client' = [client EXCEPT ![p] = "left"]
    /\ chan' = [chan EXCEPT ![p] = <<>>]
    /\ view' = [view EXCEPT ![p] = Nothing]
    /\ UNCHANGED <<scout, net_interfaces, table, listener, main, backlog, request, missed, bounds>>

-----------------------------------------------------------------------------
\* The listener thread.

Closed == {f \in active_fds : open[f] = NoProc}
Readable == {f \in active_fds : open[f] # NoProc /\ client[open[f]] = "left"}

\* A mistake to rule out: the listening socket stays open.
LeaveListenerOpen(how) ==
    /\ scout' = how
    /\ open' = [f \in Fds |-> IF subscriber_procs[f] = "set" THEN NoProc ELSE open[f]]
    /\ active_fds' = {} /\ listener' = Selecting
    /\ UNCHANGED <<net_interfaces, subscriber_procs, backlog, main, procs, bounds>>

\* The end of IPC_Listener: the sockets are closed, the entries stay.
LeaveListener(how) ==
    /\ scout' = how
    /\ open' = [f \in Fds |-> IF subscriber_procs[f] = "set" THEN NoProc ELSE open[f]]
    /\ active_fds' = {} /\ backlog' = <<>>
    /\ listener' = Selecting
    /\ UNCHANGED <<net_interfaces, subscriber_procs, main, procs, bounds>>

\* select returns, all descriptors that are ready at that moment set.
Select ==
    /\ scout = "running" /\ listener.pc = "select"
    /\ Closed = {}
    /\ backlog # <<>> \/ Readable # {}
    /\ listener' = [listener EXCEPT !.pc = IF backlog # <<>> THEN "accept" ELSE "read",
                                    !.ready = Readable]
    /\ UNCHANGED <<scout, net_interfaces, table, main, backlog, procs, bounds>>

\* select fails with EBADF when remove_subscriber has closed a descriptor in
\* the other thread.
SelectFails ==
    /\ scout = "running" /\ listener.pc = "select" /\ Closed # {}
    /\ LeaveListener("deaf")

\* The loop ends, or accept fails with EINVAL on the socket that was shut down.
StopListening ==
    /\ scout = "stopping" /\ listener.pc \in {"select", "accept"}
    /\ LeaveListener("stopped")

\* A mistake to rule out: the entry is inserted when everything is written.
InsertLater(f) == UNCHANGED subscriber_procs

\* LockingMap::insert
Insert(f) == subscriber_procs' = [subscriber_procs EXCEPT ![f] = "new"]

\* accept, and the read of the request.  If there is none the for loop goes on
\* with the descriptor of the listening socket itself, and asserts.  The entry
\* of a new subscriber is inserted and stays locked until Subscribed; insertion
\* fails if there is one, and then the accessor asserts.
Accept ==
    /\ scout = "running" /\ listener.pc = "accept"
    /\ LET f == CHOOSE g \in Fds : open[g] = NoProc /\ \A h \in 1 .. g - 1 : open[h] # NoProc
           p == Head(backlog)
       IN  IF \/ request[p] = "nothing"
              \/ request[p] = "subscribe" /\ subscriber_procs[f] # "none"
           THEN Crash
           ELSE /\ backlog' = Tail(backlog)
                /\ open' = [open EXCEPT ![f] = p]
                /\ IF request[p] = "subscribe" THEN Insert(f) ELSE UNCHANGED subscriber_procs
                /\ listener' = [listener EXCEPT !.pc = "copy", !.fd = f]
                /\ UNCHANGED <<scout, net_interfaces, active_fds, main, procs, bounds>>

UpIfaces == {i \in Ifaces : net_interfaces[i] # Down}

\* init_subscriber copies the interfaces under ifaces_lock; an is_ip_connected
\* request is about one of them.
CopyIfaces ==
    /\ Working /\ listener.pc = "copy"
    /\ LET kind == request[open[listener.fd]]
       IN  \E asked \in IF kind = "is_ip_connected" THEN {{i} : i \in Ifaces} ELSE {UpIfaces} :
              listener' = [listener EXCEPT
                             !.pc = "write",
                             !.ifaces = [n \in 1 .. Cardinality(asked) |->
                                           LET i == SetToSeq(asked)[n]
                                           IN  <<i, net_interfaces[i]>>]
                                        \o (IF kind = "get_ifaces" THEN <<Sentinel>> ELSE <<>>)]
    /\ UNCHANGED <<scout, net_interfaces, table, main, backlog, procs, bounds>>

\* notify_subscriber, outside of ifaces_lock, and what follows: a question's
\* connection is closed; a subscriber's entry gets its socket, or is erased
\* when the write failed.
Subscribed ==
    /\ Working /\ listener.pc = "write"
    /\ LET f == listener.fd
           p == open[f]
           stays == request[p] = "subscribe" /\ (client[p] # "left" \/ listener.ifaces = <<>>)
       IN  /\ chan' = [chan EXCEPT ![p] = IF client[p] = "left" THEN @ ELSE @ \o listener.ifaces]
           /\ open' = IF stays THEN open ELSE [open EXCEPT ![f] = NoProc]
           /\ subscriber_procs' = [subscriber_procs EXCEPT ![f] =
                                     IF stays THEN "set"
                                     ELSE IF request[p] = "subscribe" THEN "none" ELSE @]
           /\ active_fds' = IF stays THEN active_fds \cup {f} ELSE active_fds
           /\ listener' = [pc |-> IF listener.ready = {} THEN "select" ELSE "assert",
                           fd |-> 0, ifaces |-> <<>>, ready |-> listener.ready]
    /\ UNCHANGED <<scout, net_interfaces, main, backlog, request, client, view,
                   missed, bounds>>

\* Other descriptors were ready when a connection was accepted: the for loop
\* comes to the one of the listening socket first, which is nobody's entry.
MeetsListeningSocket ==
    /\ Working /\ listener.pc = "assert"
    /\ Crash

\* The for loop, for the lowest descriptor that is left.  If the main thread
\* has removed the entry since select, ASSERT(0).
ForgetSubscriber ==
    /\ Working /\ listener.pc = "read"
    /\ LET f == CHOOSE g \in listener.ready : \A h \in listener.ready : g <= h
       IN  /\ ~(main.pc = "erase" /\ main.at = f)
           /\ IF subscriber_procs[f] = "none" THEN Crash
              ELSE /\ open' = [open EXCEPT ![f] = NoProc]
                   /\ subscriber_procs' = [subscriber_procs EXCEPT ![f] = "none"]
                   /\ active_fds' = active_fds \ {f}
                   /\ listener' = [listener EXCEPT
                                      !.ready = @ \ {f},
                                      !.pc = IF listener.ready = {f} THEN "select" ELSE "read"]
                   /\ UNCHANGED <<scout, net_interfaces, main, backlog, procs, bounds>>

-----------------------------------------------------------------------------
\* The main thread.

Notify(msgs) ==
    /\ main' = [pc |-> "notify", msgs |-> msgs, at |-> 0, failed |-> <<>>]
    /\ updates' = updates + 1
    /\ UNCHANGED <<scout, table, listener, backlog, procs, restarts>>

Updating == scout \in {"running", "deaf"} /\ main.pc = "idle" /\ updates < MaxUpdates

\* One interface comes up, changes or goes down: updateNetwork, the commands
\* bg_up and bg_down, and the loop of main.
UpdateNetwork(i, v) ==
    /\ Updating /\ (i = Cellular => v # Down)
    /\ net_interfaces' = [net_interfaces EXCEPT ![i] = v]
    /\ Notify(<< <<i, v>> >>)

\* A slice of a trace: the cellular interface is never taken down.
EmulateSlice(i, v, w) ==
    /\ Updating /\ i # Cellular /\ w # Down
    /\ net_interfaces' = [net_interfaces EXCEPT ![i] = v, ![Cellular] = w]
    /\ Notify(IF v # Down THEN << <<i, v>>, <<Cellular, w>> >>
              ELSE IF net_interfaces[i] # Down THEN << <<Cellular, w>>, <<i, v>> >>
              ELSE << <<Cellular, w>> >>)

Rest == {f \in Fds : f > main.at /\ subscriber_procs[f] # "none"}

\* The next entry of the map.  Before its ipc_sock is set the updates are
\* written to descriptor 0, which takes them or not.
NotifySubscriber ==
    /\ Working /\ main.pc = "notify" /\ Rest # {}
    /\ LET f == CHOOSE g \in Rest : \A h \in Rest : g <= h
           p == open[f]
           fails == [main EXCEPT !.at = f, !.failed = Append(@, f)]
           works == [main EXCEPT !.at = f]
       IN  \/ /\ subscriber_procs[f] = "new"
              /\ main' \in {works, fails}
              /\ missed' = missed \cup {p}
              /\ UNCHANGED chan
           \/ /\ subscriber_procs[f] = "set"
              /\ IF p = NoProc \/ client[p] = "left"
                 THEN main' = fails /\ UNCHANGED chan
                 ELSE main' = works /\ chan' = [chan EXCEPT ![p] = @ \o main.msgs]
              /\ UNCHANGED missed
    /\ UNCHANGED <<scout, net_interfaces, table, listener, backlog, request, client,
                   view, bounds>>

\* The entry the iterator stands on was erased: it goes on from freed memory,
\* which still holds the successor, or crashes.
IteratorDangles ==
    /\ Working /\ main.pc = "notify" /\ main.at # 0
    /\ subscriber_procs[main.at] = "none"
    /\ Crash

EndOfMap ==
    /\ Working /\ main.pc = "notify" /\ Rest = {}
    /\ main' = [main EXCEPT !.pc = "remove"]
    /\ UNCHANGED <<scout, net_interfaces, table, listener, backlog, procs, bounds>>

\* remove_subscriber closes the socket of the entry that has the failed key
\* now; active_fds is left alone.
CloseFailed ==
    /\ Working /\ main.pc = "remove" /\ main.failed # <<>>
    /\ LET f == Head(main.failed)
       IN  /\ ~(listener.pc \in {"copy", "write"} /\ listener.fd = f)
           /\ main' = [main EXCEPT !.at = f,
                                   !.pc = IF subscriber_procs[f] = "none" THEN @ ELSE "erase",
                                   !.failed = Tail(@)]
           /\ open' = IF subscriber_procs[f] = "none" THEN open
                      ELSE [open EXCEPT ![f] = NoProc]
    /\ UNCHANGED <<scout, net_interfaces, subscriber_procs, active_fds, listener,
                   backlog, procs, bounds>>

EraseFailed ==
    /\ Working /\ main.pc = "erase"
    /\ subscriber_procs' = [subscriber_procs EXCEPT ![main.at] = "none"]
    /\ main' = [main EXCEPT !.pc = "remove"]
    /\ UNCHANGED <<scout, net_interfaces, active_fds, open, listener, backlog, procs, bounds>>

Notified ==
    /\ Working /\ main.pc = "remove" /\ main.failed = <<>>
    /\ main' = Idle
    /\ UNCHANGED <<scout, net_interfaces, table, listener, backlog, procs, bounds>>

\* handle_term, in the scout that is a program of its own: main ends its loop, waits
\* for the listener thread and returns.
HandleTerm ==
    /\ scout \in {"running", "deaf"}
    /\ scout' = "exiting"
    /\ UNCHANGED <<net_interfaces, table, listener, main, backlog, procs, bounds>>

Exit ==
    /\ scout = "exiting" /\ listener.pc \in {"select", "accept"} /\ main.pc = "idle"
    /\ Crash

\* stopScoutIPC, of the service, forgets the interfaces as well.
StopScoutIPC ==
    /\ scout = "running"
    /\ scout' = "stopping"
    /\ net_interfaces' = [i \in Ifaces |-> Down]
    /\ UNCHANGED <<table, listener, main, backlog, procs, bounds>>

\* startScoutIPC, after the old listener has left, by the thread that also calls
\* updateNetwork: subscriber_procs is as it was.
StartScout ==
    /\ scout = "stopped" /\ main.pc = "idle" /\ restarts < MaxRestarts
    /\ scout' = "running" /\ restarts' = restarts + 1
    /\ UNCHANGED <<net_interfaces, table, listener, main, backlog, procs, updates>>

-----------------------------------------------------------------------------

Application(p) ==
    \/ \E r \in Requests : ConnectToScout(p, r)
    \/ Update(p) \/ Answer(p) \/ EndOfStream(p) \/ Leave(p)

Listener ==
    \/ Select \/ SelectFails \/ StopListening \/ Accept \/ CopyIfaces \/ Subscribed
    \/ MeetsListeningSocket \/ ForgetSubscriber

Main ==
    \/ \E i \in Ifaces, v \in 0 .. MaxValue : UpdateNetwork(i, v)
    \/ \E i \in Ifaces, v, w \in 0 .. MaxValue : EmulateSlice(i, v, w)
    \/ NotifySubscriber \/ IteratorDangles \/ EndOfMap \/ CloseFailed \/ EraseFailed
    \/ Notified

Next ==
    \/ Listener \/ Main \/ HandleTerm \/ Exit \/ StopScoutIPC \/ StartScout
    \/ \E p \in Procs : Application(p)

Spec == Init /\ [][Next]_vars

\* The scout's threads run, and so do the applications' IPC threads; nobody has
\* to connect or to leave, and the interfaces may stay as they are.
FairSpec ==
    /\ Spec
    /\ WF_vars(Listener) /\ WF_vars(Exit)
    /\ WF_vars(NotifySubscriber \/ EndOfMap \/ CloseFailed \/ EraseFailed \/ Notified)
    /\ \A p \in Procs : WF_vars(Update(p) \/ Answer(p) \/ EndOfStream(p))

-----------------------------------------------------------------------------

\* When p has read what was written to it, it knows v of interface i: the last
\* message about i says so, or there is none and p knows it already.
WillKnow(p, i, v) ==
    \/ /\ view[p][i] = v
       /\ \A n \in DOMAIN chan[p] : chan[p][n][1] # i
    \/ \E n \in DOMAIN chan[p] :
          /\ chan[p][n] = <<i, v>>
          /\ \A m \in n + 1 .. Len(chan[p]) : chan[p][m][1] # i

\* Once the main thread has told everybody (notify_all_subscribers returned),
\* what has been written to a subscriber adds up to net_interfaces, whichever
\* changes were made while it was subscribing.  Excepted are those whose entry
\* was met before ipc_sock was set.
ViewCurrent ==
    scout = "running" /\ main.pc = "idle" =>
        \A f \in Fds :
            /\ subscriber_procs[f] = "set"
            /\ open[f] # NoProc /\ request[open[f]] = "subscribe"
            => \/ open[f] \in missed \/ client[open[f]] = "left"
               \/ \A i \in Ifaces : WillKnow(open[f], i, net_interfaces[i])

\* scout_ipc_init returns: with the first update or, if the scout has gone,
\* with an error.  It waits only while no interface is up, or when the update
\* was written before ipc_sock was set.
SubscriptionSettles ==
    \A p \in Procs :
        (client[p] = "init") ~> (client[p] # "init" \/ UpIfaces = {} \/ p \in missed)
==============================================================================
