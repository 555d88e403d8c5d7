----------------------------- MODULE AppThreads -----------------------------
(***************************************************************************)
(* The threads of the application inside the library, and who wakes them.  *)
(*                                                                         *)
(* A thread that reads calls cmm_select or cmm_poll, which sleep on the    *)
(* multisocket's select_pipe, and then cmm_recv.  A byte is put into the   *)
(* pipe when an IROB becomes ready and none was, and clear_select_pipe     *)
(* takes out all there are.  A thread that writes and finds no network     *)
(* for its labels queues a thunk that will wake it and waits.  The thunks  *)
(* are fired by threads that a sender thread starts when there is a        *)
(* network and a thunk.                                                    *)
(*                                                                         *)
(* my_lock is a counter of its readers and a writer.  It is a counter and  *)
(* not a set because wait_for_completion releases it once and takes it     *)
(* back not at all, if it is woken before it waits: the unlock of a lock   *)
(* nobody holds makes the counter negative.  The scheduling_state_lock is  *)
(* held only by the step that releases an IROB.                            *)
(***************************************************************************)
EXTENDS Integers, Sequences, FiniteSets, SequencesExt

CONSTANTS ReadThreads, Writers,  \* threads of the application
          ThunkThreads,      \* bound: threads that fire thunks at one time
          MaxIrobs,          \* bound: IROBs that become ready
          MaxInterrupts,     \* bound: calls of cmm_interrupt_waiters
          MaxFlaps,          \* bound: how often the network goes up or down
          MaxWaits           \* bound: how often a thread waits for its labels

ASSUME AppThreadsAssumption ==
    /\ ReadThreads # {} /\ Writers # {}
    /\ {MaxIrobs, MaxInterrupts, MaxFlaps, MaxWaits} \subseteq Nat

NoOne == "nobody"

VARIABLES
    rpc,        \* [reader -> where it is]
    select_pipe,\* the bytes in it
    ready,      \* ready_irobs, how many
    releasing,  \* an IROB is being releases, with scheduling_state_lock
    releases, interrupts, flaps,  \* for the bounds
    readers, writer,  \* of my_lock
    net,        \* there is a network for the labels
    wpc,        \* [writer -> where it is]
    rc,         \* [writer -> AppThread::rc: a result is there]
    waits,      \* [writer -> how often it has waited]
    thunk_queue,\* of the labels: [writer, its waits]
    tpc, q_copy,\* [thunk thread -> where it is and what it took]
    lost        \* thunks a thunk thread took and dropped

readvars == <<rpc, select_pipe, ready, releasing, releases, interrupts>>
lockvars == <<readers, writer>>
writevars == <<wpc, rc, waits>>
thunkvars == <<thunk_queue, tpc, q_copy, lost>>
threadvars == <<readvars, lockvars, flaps, net, writevars, thunkvars>>

ThreadsInit ==
    /\ rpc = [r \in ReadThreads |-> "idle"]
    /\ select_pipe = 0 /\ ready = 0 /\ releasing = FALSE /\ releases = 0 /\ interrupts = 0
    /\ readers = 0 /\ writer = NoOne /\ flaps = 0 /\ net \in BOOLEAN
    /\ wpc = [w \in Writers |-> "idle"]
    /\ rc = [w \in Writers |-> FALSE] /\ waits = [w \in Writers |-> 0]
    /\ thunk_queue = <<>>
    /\ tpc = [t \in ThunkThreads |-> "none"] /\ q_copy = [t \in ThunkThreads |-> <<>>]
    /\ lost = {}

-----------------------------------------------------------------------------
\* my_lock: readers are let in while a writer waits, the default of pthread_rwlock.

CanRead == writer = NoOne
CanWrite == writer = NoOne /\ readers = 0

-----------------------------------------------------------------------------
\* cmm_select and cmm_poll.

\* get_fds_for_select takes my_lock and clears the pipe ...
ClearForSelect(r) ==
    /\ rpc[r] = "idle" /\ CanWrite
    /\ writer' = r
    /\ select_pipe' = 0
    /\ rpc' = [rpc EXCEPT ![r] = "check"]
    /\ UNCHANGED <<ready, releasing, releases, interrupts, readers, flaps, net, writevars,
                   thunkvars>>

\* A mistake to rule out: the byte that was cleared is not put back.
CheckForSelectSilently(r) ==
    /\ rpc[r] = "check" /\ ~releasing
    /\ writer' = NoOne
    /\ rpc' = [rpc EXCEPT ![r] = "select"]
    /\ UNCHANGED <<select_pipe, ready, releasing, releases, interrupts, readers, flaps, net,
                   writevars, thunkvars>>

\* ... and puts a byte there if there is something to read.
CheckForSelect(r) ==
    /\ rpc[r] = "check" /\ ~releasing
    /\ select_pipe' = IF ready > 0 THEN select_pipe + 1 ELSE select_pipe
    /\ writer' = NoOne
    /\ rpc' = [rpc EXCEPT ![r] = "select"]
    /\ UNCHANGED <<ready, releasing, releases, interrupts, readers, flaps, net, writevars,
                   thunkvars>>

\* select() or poll() has returned; the pipe is cleared.
Return(r, next) ==
    /\ rpc[r] = "selected" /\ CanWrite
    /\ select_pipe' = 0
    /\ rpc' = [rpc EXCEPT ![r] = next]
    /\ UNCHANGED <<ready, releasing, releases, interrupts, lockvars, flaps, net, writevars,
                   thunkvars>>

SelectWakes(r) ==
    /\ rpc[r] = "select" /\ select_pipe > 0
    /\ rpc' = [rpc EXCEPT ![r] = "selected"]
    /\ UNCHANGED <<select_pipe, ready, releasing, releases, interrupts, lockvars, flaps, net,
                   writevars, thunkvars>>

\* mc_select looks again whether there is something, mc_poll does not.
SelectReturns(r) == Return(r, "will block?")

PollReturns(r) == Return(r, "recv")

\* will_block_on_read: if nothing is there, the select fails with EINTR.
WillBlockOnRead(r) ==
    /\ rpc[r] = "will block?" /\ ~releasing
    /\ rpc' = [rpc EXCEPT ![r] = IF ready = 0 THEN "idle" ELSE "recv"]
    /\ UNCHANGED <<select_pipe, ready, releasing, releases, interrupts, lockvars, flaps, net,
                   writevars, thunkvars>>

\* recv takes one IROB, and waits for it when another thread has taken it.
CmmRecv(r) ==
    /\ rpc[r] = "recv" /\ ~releasing /\ ready > 0
    /\ ready' = ready - 1
    /\ rpc' = [rpc EXCEPT ![r] = "idle"]
    /\ UNCHANGED <<select_pipe, releasing, releases, interrupts, lockvars, flaps, net, writevars,
                   thunkvars>>

\* release: the byte is sent before the IROB is there.
BeginRelease ==
    /\ ~releasing /\ releases < MaxIrobs
    /\ releasing' = TRUE /\ releases' = releases + 1
    /\ select_pipe' = IF ready = 0 THEN select_pipe + 1 ELSE select_pipe
    /\ UNCHANGED <<rpc, ready, interrupts, lockvars, flaps, net, writevars, thunkvars>>

EndRelease ==
    /\ releasing
    /\ releasing' = FALSE /\ ready' = ready + 1
    /\ UNCHANGED <<rpc, select_pipe, releases, interrupts, lockvars, flaps, net, writevars,
                   thunkvars>>

InterruptWaiters ==
    /\ interrupts < MaxInterrupts /\ CanWrite
    /\ interrupts' = interrupts + 1
    /\ select_pipe' = select_pipe + 1
    /\ UNCHANGED <<rpc, ready, releasing, releases, lockvars, flaps, net, writevars, thunkvars>>

-----------------------------------------------------------------------------
\* Waiting for labels.

BeginIrob(w) ==
    /\ wpc[w] = "idle" /\ CanRead
    /\ readers' = readers + 1
    /\ wpc' = [wpc EXCEPT ![w] = "get csock"]
    /\ UNCHANGED <<readvars, writer, flaps, net, rc, waits, thunkvars>>

\* net_available, for the labels the threads use
NetAvailable == net

\* enqueue_handler
Enqueue(thunk) == thunk_queue' = Append(thunk_queue, thunk)

\* wait_for_labels: prepare_app_operation, and the thunk that will wake the thread
WaitForLabels(w) ==
    /\ rc' = [rc EXCEPT ![w] = FALSE]
    /\ waits' = [waits EXCEPT ![w] = @ + 1]
    /\ Enqueue(<<w, waits[w] + 1>>)
    /\ wpc' = [wpc EXCEPT ![w] = "unlock"]

\* get_csock finds a network or waits for its labels, until there is one.
GetCsock(w) ==
    /\ wpc[w] = "get csock" /\ (NetAvailable \/ waits[w] < MaxWaits)
    /\ IF NetAvailable
       THEN /\ wpc' = [wpc EXCEPT ![w] = "return"]
            /\ UNCHANGED <<rc, waits, thunk_queue>>
       ELSE WaitForLabels(w)
    /\ UNCHANGED <<readvars, lockvars, flaps, net, tpc, q_copy, lost>>

\* wait_for_completion releases my_lock before it takes the thread's mutex ...
Unlock(w) ==
    /\ wpc[w] = "unlock"
    /\ readers' = readers - 1
    /\ wpc' = [wpc EXCEPT ![w] = "test"]
    /\ UNCHANGED <<readvars, writer, flaps, net, rc, waits, thunkvars>>

\* ... and takes it again only if it has waited.
Test(w) ==
    /\ wpc[w] = "test"
    /\ wpc' = [wpc EXCEPT ![w] = IF rc[w] THEN "get csock" ELSE "wait"]
    /\ UNCHANGED <<readvars, lockvars, flaps, net, rc, waits, thunkvars>>

Wake(w) ==
    /\ wpc[w] = "wait" /\ rc[w] /\ CanRead
    /\ readers' = readers + 1
    /\ wpc' = [wpc EXCEPT ![w] = "get csock"]
    /\ UNCHANGED <<readvars, writer, flaps, net, rc, waits, thunkvars>>

\* The failure timeout of the labels.  cancel_thunk looks the thunk up in
\* thunk_map, where nothing ever is, so the thunk stays in the queue.
Timeout(w) ==
    /\ wpc[w] = "wait" /\ CanRead
    /\ readers' = readers + 1
    /\ wpc' = [wpc EXCEPT ![w] = "return"]
    /\ UNCHANGED <<readvars, writer, flaps, net, rc, waits, thunkvars>>

ReturnToApp(w) ==
    /\ wpc[w] = "return"
    /\ readers' = readers - 1
    /\ wpc' = [wpc EXCEPT ![w] = "idle"]
    /\ UNCHANGED <<readvars, writer, flaps, net, rc, waits, thunkvars>>

-----------------------------------------------------------------------------
\* The thunks.

\* fire_thunks, by a sender thread
FireThunks(t) ==
    /\ tpc[t] = "none" /\ CanRead
    /\ NetAvailable /\ thunk_queue # <<>>
    /\ tpc' = [tpc EXCEPT ![t] = "empty?"]
    /\ UNCHANGED <<readvars, lockvars, flaps, net, writevars, thunk_queue, q_copy, lost>>

\* ThunkThreadFn asks whether the queue is empty and then pops, which waits when
\* another thread was faster.
IsEmpty(t) ==
    /\ tpc[t] = "empty?"
    /\ tpc' = [tpc EXCEPT ![t] = IF thunk_queue = <<>> THEN "fire" ELSE "pop"]
    /\ UNCHANGED <<readvars, lockvars, flaps, net, writevars, thunk_queue, q_copy, lost>>

Pop(t) ==
    /\ tpc[t] = "pop" /\ thunk_queue # <<>>
    /\ q_copy' = [q_copy EXCEPT ![t] = Append(@, Head(thunk_queue))]
    /\ thunk_queue' = Tail(thunk_queue)
    /\ tpc' = [tpc EXCEPT ![t] = "empty?"]
    /\ UNCHANGED <<readvars, lockvars, flaps, net, writevars, lost>>

\* A mistake to rule out: only a thread that waits already is told.
SignalWaiting(w) == rc' = [rc EXCEPT ![w] = (@ \/ wpc[w] = "wait")]

\* unblock_thread_thunk: signal_completion
SignalCompletion(w) == rc' = [rc EXCEPT ![w] = TRUE]

FireOneThunk(t) ==
    /\ tpc[t] = "fire" /\ q_copy[t] # <<>>
    /\ SignalCompletion(Head(q_copy[t])[1])
    /\ q_copy' = [q_copy EXCEPT ![t] = Tail(@)]
    /\ tpc' = [tpc EXCEPT ![t] = "fired"]
    /\ UNCHANGED <<readvars, lockvars, flaps, net, wpc, waits, thunk_queue, lost>>

\* If the network is gone the thread ends, and drops the thunks that are left.
Fired(t) ==
    /\ tpc[t] = "fired" /\ CanRead
    /\ IF NetAvailable
       THEN /\ tpc' = [tpc EXCEPT ![t] = "fire"]
            /\ UNCHANGED <<q_copy, lost>>
       ELSE /\ tpc' = [tpc EXCEPT ![t] = "none"]
            /\ q_copy' = [q_copy EXCEPT ![t] = <<>>]
            /\ lost' = lost \cup ToSet(q_copy[t])
    /\ UNCHANGED <<readvars, lockvars, flaps, net, writevars, thunk_queue>>

ThunkThreadEnds(t) ==
    /\ tpc[t] = "fire" /\ q_copy[t] = <<>>
    /\ tpc' = [tpc EXCEPT ![t] = "none"]
    /\ UNCHANGED <<readvars, lockvars, flaps, net, writevars, thunk_queue, q_copy, lost>>

\* setup and teardown of an interface, by the scout's thread
Flap ==
    /\ flaps < MaxFlaps /\ CanWrite
    /\ flaps' = flaps + 1 /\ net' = ~net
    /\ UNCHANGED <<readvars, lockvars, writevars, thunkvars>>

-----------------------------------------------------------------------------

Reader(r) == \/ ClearForSelect(r) \/ CheckForSelect(r) \/ SelectWakes(r) \/ SelectReturns(r)
             \/ PollReturns(r) \/ WillBlockOnRead(r) \/ CmmRecv(r)

Writer(w) == \/ BeginIrob(w) \/ GetCsock(w) \/ Unlock(w) \/ Test(w) \/ Wake(w) \/ Timeout(w)
             \/ ReturnToApp(w)

ThunkThread(t) == \/ FireThunks(t) \/ IsEmpty(t) \/ Pop(t) \/ FireOneThunk(t) \/ Fired(t)
                  \/ ThunkThreadEnds(t)

ThreadsNext ==
    \/ \E r \in ReadThreads : Reader(r)
    \/ \E w \in Writers : Writer(w)
    \/ \E t \in ThunkThreads : ThunkThread(t)
    \/ BeginRelease \/ EndRelease \/ InterruptWaiters \/ Flap

ThreadsSpec == ThreadsInit /\ [][ThreadsNext]_threadvars

-----------------------------------------------------------------------------

\* The threads of the application do not all sleep in select or poll when there
\* is something to read: a byte is in the pipe that wakes one of them.  The byte
\* is sent before the IROB is there, one thread clears away what was sent for
\* another, and an IROB that becomes ready after another one sends none.
NoLostWakeup ==
    (\A r \in ReadThreads : rpc[r] = "select") /\ ready > 0 => select_pipe > 0

\* A thread that waits for its labels is owed a wakeup: its thunk is queued, or
\* a thunk thread has it, unless that thread dropped it because the network was
\* gone again.  A thunk may be fired before the thread waits.
WaiterIsOwed ==
    \A w \in Writers :
        wpc[w] \in {"unlock", "test", "wait"} /\ ~rc[w] =>
            <<w, waits[w]>> \in lost \cup ToSet(thunk_queue)
                                     \cup UNION {ToSet(q_copy[t]) : t \in ThunkThreads}
==============================================================================
