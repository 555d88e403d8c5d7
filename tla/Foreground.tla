----------------------------- MODULE Foreground -----------------------------
(***************************************************************************)
(* How the processes of a host share what they have in transit to the      *)
(* network, which decides whether background data may be sent.  Shared     *)
(* memory holds the pairs of interfaces in use and the ids of the          *)
(* processes.  Each process has a table of the csockets of all processes:  *)
(* a process that makes a csocket sends every other one a packet and then, *)
(* as a second datagram, the descriptor itself; one that destroys a        *)
(* csocket sends a packet.  A thread of each process reads what comes.     *)
(*                                                                         *)
(* One pair of interfaces.  A step is what is done under one taking of     *)
(* proc_local_lock or of shmem_lock; a send holds proc_local_lock over     *)
(* both of its datagrams, and while it waits for room in the queue.        *)
(***************************************************************************)
EXTENDS Integers, Sequences, FiniteSets, FiniteSetsExt

CONSTANTS Procs,      \* process ids
          Scout,      \* the process that is there first and has no csockets
          Csocks,     \* bound: the csockets made
          Fds,        \* bound: the numbers a csocket's descriptor can have
          QueueLen,   \* datagrams a unix socket holds
          MaxChanges, \* bound: pairs added and removed by setup and teardown
          MaxCrashes, \* bound: processes that end without ipc_shmem_deinit
          None

ASSUME ForegroundAssumption ==
    /\ Procs \subseteq Nat /\ Scout \in Procs
    /\ None \notin Procs \cup Csocks /\ QueueLen \in Nat \ {0}
    /\ MaxChanges \in Nat /\ MaxCrashes \in Nat

VARIABLES
    fg_data_map,   \* shared: whether it has the pair
    intnw_pids,    \* shared
    proc,          \* [process -> where it is between ipc_shmem_init and its end]
    pairop,        \* [process -> what is left to do of an addition or removal of the pair]
    known,         \* [process -> whether all_intnw_csockets has the pair]
    table,         \* [process -> all_intnw_csockets[pair]]
    dups,          \* [process -> the csockets of others it has a descriptor of]
    thread,        \* [process -> where its FDSharingThread is]
    held,          \* [process -> what the thread has received]
    queue,         \* [process -> the datagrams for it]
    owner, fd, at, \* of a csocket: its process, its number, where its thread is
    removing,      \* ... whether that thread is in ipc_remove_csocket
    todo, failed,  \* ... target_procs still to send to; failed_procs
    changes, crashes, \* for the bounds
    mixed,         \* ghost: processes that took another datagram for a descriptor
    freed,         \* csockets whose number was closed before their destruction
    taken,         \* [csocket -> the csocket whose duplicate then got the number]
    clashed        \* ghost: such a number was given again too early

shared == <<fg_data_map, intnw_pids>>
local == <<known, table, dups>>
reader == <<thread, held>>
csocket == <<owner, fd, at, removing, todo, failed>>
closes == <<freed, taken, clashed>>
bounds == <<changes, crashes, mixed, closes>>
vars == <<shared, proc, pairop, local, reader, queue, csocket, bounds>>

Nothing == [pid |-> None, fd |-> None, remove |-> FALSE, sock |-> None]
Packet(s) == [type |-> "packet", pid |-> owner[s], fd |-> fd[s], remove |-> removing[s]]
Descriptor(s) == [type |-> "descriptor", sock |-> s]
Interrupt == [type |-> "interrupt"]

\* The scout is up.
Init ==
    /\ fg_data_map = FALSE /\ intnw_pids = {Scout}
    /\ proc = [p \in Procs |-> IF p = Scout THEN "up" ELSE "none"]
    /\ pairop = [p \in Procs |-> "none"]
    /\ known = [p \in Procs |-> FALSE]
    /\ table = [p \in Procs |-> {}]
    /\ dups = [p \in Procs |-> {}]
    /\ thread = [p \in Procs |-> IF p = Scout THEN "select" ELSE "none"]
    /\ held = [p \in Procs |-> Nothing]
    /\ queue = [p \in Procs |-> <<>>]
    /\ owner = [s \in Csocks |-> None] /\ fd = [s \in Csocks |-> None]
    /\ at = [s \in Csocks |-> "none"]
    /\ removing = [s \in Csocks |-> FALSE]
    /\ todo = [s \in Csocks |-> {}] /\ failed = [s \in Csocks |-> {}]
    /\ changes = 0 /\ crashes = 0 /\ mixed = {}
    /\ freed = {} /\ taken = [s \in Csocks |-> None] /\ clashed = FALSE

Apps == Procs \ {Scout}
Alive(p) == proc[p] \notin {"none", "gone"}
\* Its datagram socket is open: it can send, and others can send to it.
Bound(p) == thread[p] \notin {"none", "ended"}
IsOpen(s) == at[s] \notin {"none", "closed"}
\* proc_local_lock
Locked(p) == \E s \in Csocks : owner[s] = p /\ at[s] \in {"packet", "descriptor"}

-----------------------------------------------------------------------------
\* The table of a process.

Entries(p, pid, number) == {e \in table[p] : e.pid = pid /\ e.fd = number}
Others(p, entries) == {e.sock : e \in {e1 \in entries : e1.pid # p}}

\* A mistake to rule out: the entry goes, the duplicate descriptor stays open.
UpdateTableKeeping(p, pid, number, remove, s) ==
    /\ known' = [known EXCEPT ![p] = TRUE]
    /\ table' = [table EXCEPT ![p] =
                    IF remove THEN @ \ Entries(p, pid, number)
                    ELSE IF Entries(p, pid, number) = {}
                         THEN @ \cup {[pid |-> pid, fd |-> number, sock |-> s]} ELSE @]
    /\ UNCHANGED dups

\* add_or_remove_csocket with the lock held.  The set compares process and
\* number: an insertion does not replace an entry.
UpdateTable(p, pid, number, remove, s) ==
    /\ known' = [known EXCEPT ![p] = TRUE]
    /\ IF remove
       THEN /\ table' = [table EXCEPT ![p] = @ \ Entries(p, pid, number)]
            /\ dups' = [dups EXCEPT ![p] = @ \ Others(p, Entries(p, pid, number))]
       ELSE /\ table' = IF Entries(p, pid, number) = {}
                        THEN [table EXCEPT ![p] = @ \cup {[pid |-> pid, fd |-> number, sock |-> s]}]
                        ELSE table
            /\ UNCHANGED dups

\* remove_proc, and then the duplicates in closed are closed
Forget(p, pids, closed) ==
    LET gone == {e \in table[p] : e.pid \in pids \ {p}} IN
    /\ table' = [table EXCEPT ![p] = @ \ gone]
    /\ dups' = [dups EXCEPT ![p] = @ \ (Others(p, gone) \cup closed)]
    /\ intnw_pids' = intnw_pids \ pids

\* setup and teardown of a multisocket: the first process to see the change
\* makes it in shared memory and in its own table, the others do nothing.
AddIfacePair(p) ==
    /\ proc[p] = "up" /\ pairop[p] = "none" /\ changes < MaxChanges
    /\ ~fg_data_map
    /\ fg_data_map' = TRUE
    /\ pairop' = [pairop EXCEPT ![p] = "add"]
    /\ changes' = changes + 1
    /\ UNCHANGED <<intnw_pids, proc, local, reader, queue, csocket, crashes, mixed, closes>>

AddIfacePairLocally(p) ==
    /\ pairop[p] = "add" /\ ~Locked(p)
    /\ known' = [known EXCEPT ![p] = TRUE]
    /\ pairop' = [pairop EXCEPT ![p] = "none"]
    /\ UNCHANGED <<shared, proc, table, dups, reader, queue, csocket, bounds>>

RemoveIfacePair(p) ==
    /\ proc[p] = "up" /\ pairop[p] = "none" /\ changes < MaxChanges
    /\ fg_data_map
    /\ fg_data_map' = FALSE
    /\ pairop' = [pairop EXCEPT ![p] = "remove"]
    /\ changes' = changes + 1
    /\ UNCHANGED <<intnw_pids, proc, local, reader, queue, csocket, crashes, mixed, closes>>

RemoveIfacePairLocally(p) ==
    /\ pairop[p] = "remove" /\ ~Locked(p)
    /\ dups' = [dups EXCEPT ![p] = @ \ Others(p, table[p])]
    /\ table' = [table EXCEPT ![p] = {}]
    /\ known' = [known EXCEPT ![p] = FALSE]
    /\ pairop' = [pairop EXCEPT ![p] = "none"]
    /\ UNCHANGED <<shared, proc, reader, queue, csocket, bounds>>

-----------------------------------------------------------------------------
\* A process.

\* ipc_shmem_init: add_proc, then the thread's socket, then the pairs there are
Join(p) ==
    /\ proc[p] = "none"
    /\ proc' = [proc EXCEPT ![p] = "joined"]
    /\ intnw_pids' = intnw_pids \cup {p}
    /\ UNCHANGED <<fg_data_map, pairop, local, reader, queue, csocket, bounds>>

BindSocket(p) ==
    /\ proc[p] = "joined" /\ thread[p] = "none"
    /\ thread' = [thread EXCEPT ![p] = "select"]
    /\ UNCHANGED <<shared, proc, pairop, local, held, queue, csocket, bounds>>

InitMap(p) ==
    /\ proc[p] = "joined" /\ thread[p] # "none"
    /\ proc' = [proc EXCEPT ![p] = "up"]
    /\ known' = [known EXCEPT ![p] = @ \/ fg_data_map]
    /\ UNCHANGED <<shared, pairop, table, dups, reader, queue, csocket, bounds>>

\* ipc_shmem_deinit, when scout_ipc_deinit has destroyed all csockets and the
\* threads have ended: interrupt sends the process a packet and, as for any
\* packet that removes nothing, a descriptor, which is never read
Deinit(p) ==
    /\ proc[p] = "up" /\ pairop[p] = "none"
    /\ \A s \in Csocks : owner[s] = p => at[s] = "closed"
    /\ proc' = [proc EXCEPT ![p] = "leaving"]
    /\ Bound(p) => Len(queue[p]) < QueueLen
    /\ queue' = IF Bound(p) THEN [queue EXCEPT ![p] = Append(@, Interrupt)] ELSE queue
    /\ UNCHANGED <<shared, pairop, local, reader, csocket, bounds>>

\* What a process had is gone with it, and what was sent to it.
End(p) ==
    /\ proc' = [proc EXCEPT ![p] = "gone"]
    /\ pairop' = [pairop EXCEPT ![p] = "none"]
    /\ thread' = [thread EXCEPT ![p] = "ended"]
    /\ held' = [held EXCEPT ![p] = Nothing]
    /\ table' = [table EXCEPT ![p] = {}]
    /\ dups' = [dups EXCEPT ![p] = {}]
    /\ queue' = [queue EXCEPT ![p] = <<>>]
    /\ known' = [known EXCEPT ![p] = FALSE]
    /\ at' = [s \in Csocks |-> IF owner[s] = p THEN "closed" ELSE at[s]]
    /\ removing' = [s \in Csocks |-> owner[s] = p \/ removing[s]]
    /\ todo' = [s \in Csocks |-> IF owner[s] = p THEN {} ELSE todo[s]]
    /\ failed' = [s \in Csocks |-> IF owner[s] = p THEN {} ELSE failed[s]]
    /\ UNCHANGED <<fg_data_map, owner, fd, changes, mixed, closes>>

Leave(p) ==
    /\ proc[p] = "leaving" /\ thread[p] = "ended"
    /\ End(p)
    /\ intnw_pids' = intnw_pids \ {p}
    /\ UNCHANGED crashes

Crash(p) ==
    /\ Alive(p) /\ crashes < MaxCrashes
    /\ End(p)
    /\ crashes' = crashes + 1
    /\ UNCHANGED intnw_pids

-----------------------------------------------------------------------------
\* FDSharingThread

Go(p, where, what) ==
    /\ thread' = [thread EXCEPT ![p] = where]
    /\ held' = [held EXCEPT ![p] = what]

\* The loop ends at an interrupt and at a datagram that is not a packet; the
\* socket is closed, and what is in its queue is lost.
StopReading(p) ==
    /\ Go(p, "ended", Nothing)
    /\ queue' = [queue EXCEPT ![p] = <<>>]
    /\ UNCHANGED <<shared, proc, pairop, local, csocket, bounds>>

ReceivePacket(p) ==
    /\ thread[p] = "select" /\ queue[p] # <<>>
    /\ LET m == Head(queue[p]) IN
       IF m.type # "packet" THEN StopReading(p)
       ELSE /\ Go(p, IF m.remove THEN "add_or_remove" ELSE "ancil_recv_fd",
                  [pid |-> m.pid, fd |-> m.fd, remove |-> m.remove, sock |-> None])
            /\ queue' = [queue EXCEPT ![p] = Tail(@)]
            /\ UNCHANGED <<shared, proc, pairop, local, csocket, bounds>>

\* select times out, and is_running is false
NoticeInterrupt(p) == thread[p] = "select" /\ proc[p] = "leaving" /\ StopReading(p)

\* Of the csockets of a process with this number, none has it any more, and no
\* duplicate has got it.
Unused(p, number) ==
    \A s \in Csocks : IsOpen(s) /\ owner[s] = p /\ fd[s] = number =>
                         s \in freed /\ taken[s] \notin dups[p]

\* ancil_recv_fd takes whatever comes next; of a datagram without a descriptor
\* it makes the number -1.  The duplicate gets a number nobody has, perhaps that
\* of a csocket that failed.
ReceiveDescriptor(p) ==
    /\ thread[p] = "ancil_recv_fd" /\ queue[p] # <<>>
    /\ LET m == Head(queue[p])
           s == IF m.type = "descriptor" THEN m.sock ELSE None
       IN /\ Go(p, "add_or_remove", [held[p] EXCEPT !.sock = s])
          /\ dups' = [dups EXCEPT ![p] = @ \cup ({s} \ {None})]
          /\ mixed' = IF s = None THEN mixed \cup {p} ELSE mixed
          /\ \/ UNCHANGED <<taken, clashed>>
             \/ \E s1 \in freed :
                    /\ s # None /\ IsOpen(s1) /\ owner[s1] = p /\ Unused(p, fd[s1])
                    /\ taken' = [taken EXCEPT ![s1] = s]
                    /\ clashed' = TRUE
    /\ queue' = [queue EXCEPT ![p] = Tail(@)]
    /\ UNCHANGED <<shared, proc, pairop, known, table, csocket, changes, crashes, freed>>

\* add_or_remove_csocket: a pair that is missing is added first, by
\* ipc_add_iface_pair: in shared memory, then, by whoever did that, locally.
AddMissingPair(p, here, there) ==
    /\ ~Locked(p)
    /\ \/ /\ here = "add_or_remove" /\ ~known[p]
          /\ there = IF fg_data_map THEN "writelock" ELSE "add"
          /\ fg_data_map' = TRUE
          /\ UNCHANGED known
       \/ /\ here = "add" /\ there = "writelock"
          /\ known' = [known EXCEPT ![p] = TRUE]
          /\ UNCHANGED fg_data_map
    /\ UNCHANGED <<intnw_pids, proc, pairop, table, dups, queue, bounds>>

ReceiverAddsPair(p) ==
    \E there \in {"add", "writelock"} :
        /\ AddMissingPair(p, thread[p], there)
        /\ Go(p, there, held[p])
        /\ UNCHANGED csocket

ReceiverUpdates(p) ==
    /\ thread[p] = "writelock" \/ (thread[p] = "add_or_remove" /\ known[p])
    /\ ~Locked(p)
    /\ UpdateTable(p, held[p].pid, held[p].fd, held[p].remove, held[p].sock)
    /\ Go(p, IF proc[p] = "leaving" THEN "ended" ELSE "select", Nothing)  \* is_running
    /\ queue' = IF proc[p] = "leaving" THEN [queue EXCEPT ![p] = <<>>] ELSE queue
    /\ UNCHANGED <<shared, proc, pairop, csocket, bounds>>

-----------------------------------------------------------------------------
\* A csocket: ipc_add_csocket when it has connected, ipc_remove_csocket before
\* its descriptor is closed

Place(s, where) == at' = [at EXCEPT ![s] = where]

\* The number is one that nothing of the process has.  When phys_connect fails
\* it closes the descriptor at once, and does not forget the number.
Socket(p, s, number) ==
    /\ proc[p] = "up" /\ at[s] = "none" /\ Unused(p, number)
    /\ owner' = [owner EXCEPT ![s] = p]
    /\ fd' = [fd EXCEPT ![s] = number]
    /\ Place(s, "add_or_remove")
    /\ \E fails \in BOOLEAN :
           /\ removing' = [removing EXCEPT ![s] = fails]
           /\ freed' = IF fails THEN freed \cup {s} ELSE freed
    /\ clashed' = (clashed \/ \E s1 \in Csocks : IsOpen(s1) /\ owner[s1] = p /\ fd[s1] = number)
    /\ UNCHANGED <<shared, proc, pairop, local, reader, queue, todo, failed, changes, crashes,
                   mixed, taken>>

\* ~CSocket: the last of its threads has let go of it
Destroy(s) ==
    /\ at[s] = "open"
    /\ Place(s, "add_or_remove")
    /\ removing' = [removing EXCEPT ![s] = TRUE]
    /\ UNCHANGED <<shared, proc, pairop, local, reader, queue, owner, fd, todo, failed, bounds>>

CsocketAddsPair(s) ==
    \E there \in {"add", "writelock"} :
        /\ AddMissingPair(owner[s], at[s], there)
        /\ Place(s, there)
        /\ UNCHANGED <<reader, owner, fd, removing, todo, failed>>

CsocketUpdates(s) ==
    /\ at[s] = "writelock" \/ (at[s] = "add_or_remove" /\ known[owner[s]])
    /\ ~Locked(owner[s])
    /\ UpdateTable(owner[s], owner[s], fd[s], removing[s], s)
    /\ Place(s, "targets")
    /\ UNCHANGED <<shared, proc, pairop, reader, queue, owner, fd, removing, todo, failed, bounds>>

\* A mistake to rule out: the test that the code has commented out.
CopyTargetsOfKnownPair(s) ==
    /\ at[s] = "targets"
    /\ todo' = [todo EXCEPT ![s] = IF fg_data_map THEN intnw_pids \ {owner[s]} ELSE {}]
    /\ Place(s, "send")
    /\ UNCHANGED <<shared, proc, pairop, local, reader, queue, owner, fd, removing, failed, bounds>>

\* send_csocket_to_all_pids, whether or not the pair is there
CopyTargets(s) ==
    /\ at[s] = "targets"
    /\ todo' = [todo EXCEPT ![s] = intnw_pids \ {owner[s]}]
    /\ Place(s, "send")
    /\ UNCHANGED <<shared, proc, pairop, local, reader, queue, owner, fd, removing, failed, bounds>>

\* The targets are taken in the order of their ids.
Target(s) == Min(todo[s])

\* send_fd_sharing_packet takes proc_local_lock
LockToSend(s) ==
    /\ at[s] = "send" /\ todo[s] # {} /\ ~Locked(owner[s])
    /\ Place(s, "packet")
    /\ UNCHANGED <<shared, proc, pairop, local, reader, queue, owner, fd, removing, todo, failed, bounds>>

Sent(s) ==
    /\ Place(s, "send")
    /\ todo' = [todo EXCEPT ![s] = @ \ {Target(s)}]
    /\ UNCHANGED failed

\* Nobody has bound the target's name, or the process has closed its own socket.
Refused(s) ==
    /\ ~Bound(owner[s]) \/ ~Bound(Target(s))
    /\ Place(s, "send")
    /\ todo' = [todo EXCEPT ![s] = @ \ {Target(s)}]
    /\ failed' = [failed EXCEPT ![s] = @ \cup {Target(s)}]
    /\ UNCHANGED queue

Put(s, m) ==
    /\ Bound(owner[s]) /\ Bound(Target(s))
    /\ Len(queue[Target(s)]) < QueueLen
    /\ queue' = [queue EXCEPT ![Target(s)] = Append(@, m)]

SendPacket(s) ==
    /\ at[s] = "packet"
    /\ \/ Refused(s)
       \/ /\ Put(s, Packet(s))
          /\ IF removing[s] THEN Sent(s) ELSE Place(s, "descriptor") /\ UNCHANGED <<todo, failed>>
    /\ UNCHANGED <<shared, proc, pairop, local, reader, owner, fd, removing, bounds>>

SendDescriptor(s) ==
    /\ at[s] = "descriptor"
    /\ Refused(s) \/ (Put(s, Descriptor(s)) /\ Sent(s))
    /\ UNCHANGED <<shared, proc, pairop, local, reader, owner, fd, removing, bounds>>

\* ... and the end of ipc_add_csocket, or of ~CSocket, which closes the number:
\* its own descriptor, or that of whoever has the number of a failed csocket by
\* now, another csocket or a duplicate
RemoveFailed(s) ==
    /\ at[s] = "send" /\ todo[s] = {}
    /\ failed[s] # {} => ~Locked(owner[s])
    /\ Forget(owner[s], failed[s], IF removing[s] THEN {taken[s]} ELSE {})
    /\ failed' = [failed EXCEPT ![s] = {}]
    /\ Place(s, IF removing[s] THEN "closed" ELSE "open")
    /\ freed' = IF removing[s]
                THEN (freed \cup {s1 \in Csocks : /\ IsOpen(s1) /\ owner[s1] = owner[s]
                                                 /\ fd[s1] = fd[s]}) \ {s}
                ELSE freed
    /\ UNCHANGED <<fg_data_map, proc, pairop, known, reader, queue, owner, fd, removing, todo,
                   changes, crashes, mixed, taken, clashed>>

-----------------------------------------------------------------------------
AppStep(p) ==
    \/ Join(p) \/ BindSocket(p) \/ InitMap(p) \/ Deinit(p) \/ Leave(p) \/ Crash(p)
    \/ AddIfacePair(p) \/ AddIfacePairLocally(p) \/ RemoveIfacePair(p) \/ RemoveIfacePairLocally(p)

ReaderStep(p) ==
    \/ ReceivePacket(p) \/ NoticeInterrupt(p) \/ ReceiveDescriptor(p)
    \/ ReceiverAddsPair(p) \/ ReceiverUpdates(p)

CsocketStep(s) ==
    \/ \E p \in Apps, number \in Fds : Socket(p, s, number)
    \/ Destroy(s) \/ CsocketAddsPair(s) \/ CsocketUpdates(s) \/ CopyTargets(s)
    \/ LockToSend(s) \/ SendPacket(s) \/ SendDescriptor(s) \/ RemoveFailed(s)

Next ==
    \/ \E p \in Apps : AppStep(p)
    \/ \E p \in Procs : ReaderStep(p)
    \/ \E s \in Csocks : CsocketStep(s)
Spec == Init /\ [][Next]_vars

-----------------------------------------------------------------------------
\* Every descriptor a process got from another one is in its table, where a
\* removal will find it, or in the hands of the thread that received it; and
\* every descriptor in the table is open.  Nothing leaks, and no number is
\* looked at or closed that may by then belong to something else.  All this as
\* long as no two senders' datagrams have got between each other, and nobody has
\* got the number of a failed csocket before ~CSocket closes it again.
DescriptorsAreAccountedFor ==
    ~clashed => \A p \in Procs \ mixed :
        dups[p] = (Others(p, table[p]) \cup {held[p].sock}) \ {None}

RemovalOnItsWay(p, e) ==
    \/ \E i \in 1 .. Len(queue[p]) :
           queue[p][i].type = "packet" /\ queue[p][i].remove
           /\ queue[p][i].pid = e.pid /\ queue[p][i].fd = e.fd
    \/ held[p].remove /\ held[p].pid = e.pid /\ held[p].fd = e.fd

\* A csocket that a process counts is there, with its descriptor open, or news of
\* its end is on its way: unless the process that had it crashed, or this one has
\* been dropped from the set of processes, has stopped reading or has mixed up two
\* senders.  And a process never counts a csocket of its own that is closed.  All
\* this as long as nobody has got the number of a failed csocket before ~CSocket
\* closes it.
CountedIsOpenOrOnItsWayOut ==
    ~clashed => \A p \in Procs : \A e \in table[p] :
        \/ \E s \in Csocks : /\ IsOpen(s) /\ s \notin freed /\ owner[s] = e.pid /\ fd[s] = e.fd
                             /\ e.sock = s \/ p \in mixed
        \/ /\ e.pid # p
           /\ \/ RemovalOnItsWay(p, e) \/ ~Alive(e.pid)
              \/ p \notin intnw_pids \/ thread[p] = "ended" \/ p \in mixed
=============================================================================
