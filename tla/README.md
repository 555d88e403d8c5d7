# libcmm in TLA+

libcmm (Intentional Networking) gives an application a *multisocket*: one
connection between two processes, carried by several TCP connections
(*csockets*) over whatever networks there are at the moment. The application
labels its data and cuts it into *IROBs* (isolated reliable ordered
bytestreams), which may depend on one another; libcmm chooses a csocket for
each, keeps it until the other end has acknowledged it, sends it again when a
network disappears, and hands it over at the other end in an order that
respects the dependencies.

This directory models that: the order of IROBs at the sender, their delivery at
the receiver, how one IROB is cut up and sent by several threads, how it survives
broken connections, how a multisocket is connected, follows the interfaces that
come and go, and is closed; the application's threads that sleep in it; and what
processes share, the scout that reports interfaces and the table of everybody's
connections.
`PROJECT.json` maps every definition to the lines it models; paths below are
relative to `src/`.

## 1. The system

### Components

| component | state | operations | hard because |
|---|---|---|---|
| outgoing lattice (`pending_irob.cpp`) | pending and past IROBs, dependency edges in both directions, `min_dominator_set`, `last_anon_irob_id`, dropped ids | insert (with inferred dependencies), ACK, fail, drop with dependents | ids are inserted out of order; edges point to IROBs that are erased at any time |
| incoming lattice (`pending_receiver_irob.cpp`) | IROBs and placeholders, `ready_irobs`, `partially_read_irob` | begin, chunk, end, release, `get_ready_irob`, `recv` | the messages of an IROB come in any order, more than once and over several connections |
| sender's IROB (`pending_sender_irob.cpp`) | bytes, `sent_chunks`, a position per csocket, `resend_chunks` | add data, `get_ready_bytes`, repeat, mark not received | several threads cut up the same bytes, redundantly or not |
| sender threads (`csocket_sender.cpp`) | indexes of the csocket, what is being sent | Begin/chunk/End, ACKs, resend requests, data checks, GOODBYE, recovery | locks are released for each write; a write fails half-way |
| receiver threads (`csocket_receiver.cpp`) | none of its own | a handler for each message | runs against the sender threads and the application |
| multisocket (`cmm_socket_impl.cpp`) | `shutting_down`, `remote_shutdown`, `goodbye_sent`, `sending_goodbye`, interfaces, listener, select pipe | `mc_*` calls, `ack_received`, `resend_request_received`, `data_check_requested`, `goodbye` | three locks, taken and released between a test and its use |
| csocket map (`csocket_mapping.cpp`) | csockets by pair of interfaces | choose by labels, create, replace, redundancy | both ends replace a connection at once |
| scheduling indexes (`irob_scheduling.cpp`) | ordered sets of work, per csocket and common | insert, pop, pass on | work must not be lost when its thread leaves |
| bootstrap, listener (`cmm_conn_bootstrapper.cpp`, `cmm_internal_listener.cpp`) | progress of the handshake, `status_`, `retry` | exchange of HELLOs and interface lists, accept | restarted when an interface goes down; the other end starts a multisocket for each attempt |
| thunks (`thunks.cpp`), `select_pipe`, `my_lock` | queues by label, bytes in the pipe, readers and a writer | enqueue, fire; select, poll, recv; blocking calls | fired by several threads without the lock |
| scout (`scout/libcmm_scout.cpp`) and its client (`libcmm_ipc.cpp`) | `net_interfaces`, `subscriber_procs`; each process's view | subscribe, notify, forget, restart | two threads share a map one of them walks over without a lock |
| foreground state (`libcmm_shmem.cpp`) | pairs and process ids in shared memory; a table of all csockets in each process | join, leave; send a csocket's descriptor to all processes, take it back | processes die; descriptors are duplicated, numbers reused |
| statistics, network choice (`net_stats.cpp`, `network_chooser*.cpp`, ...) | estimates | measure, choose | numerical |

An IROB goes from `begin_irob`/`send` into `outgoing_irobs` and a scheduling
index; a sender thread takes it from there and writes Begin_IROB, chunks and
End_IROB; the other end's receiver threads put them in `incoming_irobs` and
schedule an ACK in *their* indexes, for their sender threads; the ACK makes the
first end forget the IROB. All of this state is under `scheduling_state_lock`,
which a thread gives up while it writes to a socket. `my_lock` guards the csocket
map. `scheduling_state_cv` is broadcast after every change.

### What makes it correct

* The order: an anonymous IROB (`send`) is a barrier; nobody waits for an IROB
  that was dropped; no cycles of dependencies.
* Delivery: in an order the dependencies allow, each unit once, nothing lost
  between the messages; an ACK neither too early nor never.
* Chunks: all copies of a chunk are the same, whoever sends them.
* Transfer: the sender gives up its copy only when the receiver has the data;
  after any break the data still arrives.
* Shutdown: everything accepted before is delivered, one GOODBYE each way, and
  both ends come to an end.
* Connecting: it returns, and if it succeeds the other end has a connection too.
* Interfaces: one csocket for a pair, at both ends the same ones in the end; the
  loss of an interface is announced.
* Threads: nobody sleeps over data or over a network that is there.
* Processes: each knows the interfaces that are up; nobody leaks, closes or counts
  a descriptor that is not what it takes it for.

`PROJECT.json` lists, line by line, 40 places ("hazards") where this is hard to
test, and which property watches over each.

## 2. Modules

| module | models | state and actions |
|---|---|---|
| `SenderLattice` | `PendingIROBLattice` of the sender | `BeginIrob`, `DefaultIrob` (the anonymous IROB of `send`), `AckReceived`, `SendFailed`, `EndIrob`; history variables record what was accepted before what and what the application asked for |
| `SenderLattice_proofs` | | the theorems about it |
| `OrderedDelivery` | abstract specification: what a receiver promises | `Take` |
| `ReceiverLattice` | incoming lattice and the handlers that fill it | `DoBeginIrob`, `DoIrobChunk`, `DoEndIrob`, `DoDataCheck` (in any order, repeated), `Wait`/`TimeOut`/`GetReadyIrob`/`RecvSome`/`RecvRest` for `recv`; implements `OrderedDelivery` |
| `ReceiverLattice_proofs` | | the theorems about it and about `AppThreads` |
| `SenderIROB` | one `PendingSenderIROB` and the threads that cut it up | `AddChunk`, `Finish`, `MarkSendOnAllNetworks`, `SendBegin`, `SendChunk`, `SendWhole`, `SendEnd`, `RepeatLastChunk`, `MarkNotReceived`, `MarkDropPoint` |
| `SenderIROB_proofs` | | the theorems about it |
| `IROBTransfer` | both ends of one IROB and the connections between | the sender's and receiver's threads, each message, `Break`, notice of a break, data check, resend request, ACK |
| `IROBTransfer_proofs` | | the theorems about it |
| `Shutdown` | the end of a multisocket, both ends | `BeginIrob`/`InsertIrob`, `Close`, the sender thread (`ScheduleWork`, `SayGoodbye`/`GoodbyeWritten`, `AwaitGoodbye`, `TimeOut`, recovery, `Finish`), the receiver thread's handlers, `Break`, `Abort`, `MakeCsocket`, `Connected` |
| `Shutdown_proofs` | | the theorems about it |
| `Bootstrap` | `ConnBootstrapper::Run` of the connecting end, the multisockets the accepting end makes, the scout's thread | one action per read, write and wait of the handshake (`Connect`, `Send`, `Recv`, `StartupCsocks`, `WaitForConnections`, `Succeed`, `Catch`), `Restart`, `BeginTeardown`/`Teardown`, `InterfaceUp`; `AddConnection`, `CsockConnected`, `CsockFails`; `AccRecv`, `AccSend`, `AccWait`, `AccClose` for the other end |
| `Interfaces` | csockets of a connected multisocket and the interfaces of the connecting end | `InterfaceUp`/`InterfaceDown` (setup, teardown), `GetCsock`, `Announce`/`Connected`/`ConnectFails`, `PopChanged`/`PopDown`/`Write`/`WriteFails`, `ReceiverDied`; `Accept`/`AddConnection`, `DoNewInterface`, `DoDownInterface`, `AcceptedQuits`; `Break` |
| `Interfaces_proofs` | | the theorems about it |
| `AppThreads` | threads that call `cmm_select`, `cmm_poll`, `cmm_recv`, threads whose calls wait for a network, thunk threads, `my_lock` | `ClearForSelect`/`CheckForSelect`/`SelectWakes`/..., `BeginRelease`/`EndRelease`, `InterruptWaiters`; `GetCsock`, `Unlock`, `Test`, `Wake`, `Timeout`; `FireThunks`, `IsEmpty`/`Pop`, `FireOneThunk`, `Fired`; `Flap` |
| `Scout` | the scout's main and listener threads and the processes that subscribe | `UpdateNetwork`, `EmulateSlice`, `NotifySubscriber`, ..., `Accept`, `CopyIfaces`, `Insert`, `Subscribed`, `ForgetSubscriber`; `ConnectToScout`, `Update`, `Answer`, `Leave`; `HandleTerm`/`Exit` of the program, `StopScoutIPC`/`StartScout` of the service |
| `Scout_proofs` | | the theorems about it and about `Bootstrap` |
| `Foreground` | shared memory, the table of csockets in each process and the datagrams that keep it | `Join`/`BindSocket`/`InitMap`, `Deinit`/`Leave`, `Crash`; `AddIfacePair`, `RemoveIfacePair` with their local parts; `ReceivePacket`, `ReceiveDescriptor`, `ReceiverUpdates`; `Socket`, `Destroy`, `CsocketUpdates`, `CopyTargets`, `LockToSend`, `SendPacket`, `SendDescriptor`, `RemoveFailed` |
| `Foreground_proofs` | | the theorems about it |
| `MC*` | | the instances for TLC |

One step is what a thread does without giving up `scheduling_state_lock`. Where
the code releases a lock between a test and its use, the model has two steps:
`BeginIrob`/`InsertIrob` (`is_shutting_down` is tested before the lock is taken),
`SayGoodbye`/`GoodbyeWritten` (the write), `DoGoodbye`/`RemoteGoodbye` (the test
in `do_goodbye`).

Some variables are there for the properties only. They mark what the code does
wrong in a known way (section 5), so that a property can say that nothing else goes
wrong:

* `torn` (`SenderIROB`): `send_on_all_networks` is set by application threads without
  `scheduling_state_lock` (`csocket_mapping.cpp:686`). `get_ready_bytes` and
  `add_sent_chunk` look at the flag six times, once for each seqno or offset they read
  or write, so `SendChunk` and `SendWhole` take the number of reads after which it is
  set (`ReadKey`, `Decides`); a step in which it is set between two of them is torn.
* `early_acks` (`ReceiverLattice`), `partial` (`IROBTransfer`): a data check that
  arrives before End_IROB had the IROB ACKed, whatever there was of it
  (`cmm_socket_impl.cpp:2541-2549`).
* `unheard` (`IROBTransfer`): a resend request was lost with its connection.
* `late` (`Shutdown`): an IROB was accepted when the shutdown had begun.
* `excused` (`Interfaces`): the announcement of a loss went down with a connection, was
  overtaken, or the process aborted.
* `lost` (`AppThreads`): thunks taken from the queue and thrown away.
* `missed` (`Scout`): subscribers met by the walk before `ipc_sock` was set.
* `mixed`, `clashed` (`Foreground`): a reader has taken another sender's datagram for a
  descriptor; the number of a csocket whose connect failed was given again, to a
  csocket or a duplicate, between its close in `phys_connect` (`freed`) and its second
  close in `~CSocket` (`taken` remembers whose duplicate that one closes).

A connecting end whose last csocket fails does not replace it: the handler in
`CSocketSender::Run` holds `my_lock` for writing (`csocket_sender.cpp:237`) and
`new_csock_with_labels`, finding no csocket, takes it for reading
(`csocket_mapping.cpp:485`). The lock answers EDEADLK and the assertion in
`PthreadScopedRWLock` fails. `Abort` of `Shutdown` and the second branch of `Quit` of
`Interfaces` are that: the process is gone, and the other end reads the ends of its
streams. New csockets come from `setup` and `get_csock` (`MakeCsocket`, `InterfaceUp`,
`GetCsock`).

`IROBTransfer` composes the two ends at the level of one IROB, with what the
other modules establish: a chunk is its seqno because all copies agree
(`SenderIROB`), and its reader is the one of `ReceiverLattice` without
dependencies. `Shutdown` treats an IROB as one message, since `IROBTransfer` has
the rest. `Bootstrap` ends where `Interfaces` begins, with a csocket on each
interface at both ends, and the free choice of a connection that breaks or is
made in `IROBTransfer` and `Shutdown` is what `Interfaces` has in detail. What
the scout tells (`Scout`) is the environment of `Bootstrap`, `Interfaces` and
`AppThreads`.

Definitions marked "A mistake to rule out" are plausible bugs. They are not
part of any specification; putting one in place of the definition it precedes
makes TLC report the property it is listed with under `mutants`.

## 3. What TLC checks

| run | instance | shows |
|---|---|---|
| `sender_lattice` | 3 IROBs, 1 foreign id | `AnonymousBarrier`, `MinDominatorSet`, `NamedDepsNotDropped`, `EdgesAgree`, `Acyclic` |
| `receiver_lattice` | 3 IROBs (2+1+1 chunks), every acyclic graph of dependencies, 1 reader | `NeverHandsOutUnready`, `NoLostRelease`, `AckedIsHeld`, `HeldIsAcked`, `BytesAreCounted`; `ImplementsOrderedDelivery`; `EverythingIsRead` |
| `sender_irob` | 2 csockets, up to 4 bytes, chunk sizes up to 4, MIN_CHUNKSIZE 3, the flag set at any of the reads | `ChunksTile`, `PositionsOnBoundaries`, `CopiesAgree`, `EndsAgree`, all except `torn` |
| `transfer` | 3 csockets, up to 2 chunks, 2 breaks, anonymous or not | `RequestsAreForSentChunks`, `EndIsLast`; `ErasedIsReceived`, except `partial` |
| `transfer_progress` | 2 csockets, up to 2 chunks, 1 break, anonymous or not | `EventuallyRead`, `EventuallyErased`: except `partial` and `unheard` for two chunks, without exception for one |
| `orderly_close` | 2 connections, 1 IROB, one end closes, no break | `NothingLost`, `OneGoodbye`, `CloseCompletes` |
| `abrupt_close` | 1 connection and one that may be made, 1 IROB, both close, 1 break, of the first one; behaviours end with an IROB that is `late` | `NeverStuck` |
| `bootstrap` | 2 interfaces, one goes down, one comes up | `SuccessIsShared`, `ConnectReturns` |
| `interfaces` | 2 interfaces, 4 csockets, 2 changes, 1 break | `OnePerPair`, `DownIsAnnounced`, `SidesAgree` |
| `app_threads` | 2 readers, 1 writer that waits twice, 2 thunk threads, 2 IROBs, 1 interrupt, 3 changes of the network | `NoLostWakeup`, `WaiterIsOwed` |
| `scout` | 2 processes, 2 interfaces, 1 change, 1 restart | `ViewCurrent`, `SubscriptionSettles` |
| `foreground` | scout and 2 applications, 2 csockets with one number, whose connects may fail, queues of 1, 1 change of the pair, 1 crash | `DescriptorsAreAccountedFor`, `CountedIsOpenOrOnItsWayOut`, except `mixed` and `clashed` |

For each property, `PROJECT.json` names a mutated definition under which TLC finds it violated.

### Bounds

*Three IROBs* are the least for which a dependency that is covered by another
matters (`MinDominatorSet`) and for a chain with a middle that is erased; the
theorems of section 4 remove this bound. The *receiver* needs three IROBs for a
chain whose middle is released by reading, and two chunks in one of them for a
partial read and for a chunk that arrives before the Begin. *SenderIROB*: sizes
around MIN_CHUNKSIZE on both sides, two threads, and enough bytes for two chunks
cut differently. *Transfer*: two chunks, so that a connection can break between
them; two breaks let the recovery of a break be hit by another; a third csocket
always carries the data. *Shutdown*: two connections for
the race of two threads to say GOODBYE, one break and one connection made meanwhile (that it is the first one which breaks leaves out only a second one that breaks while it connects); a second
IROB only repeats the first, since ends are waited for one by one. *Bootstrap*:
one interface to lose and one to start again with. *Interfaces*: two interfaces,
so that news of one travel on the other's connection, two changes, so that one
goes and comes back, and csockets enough for a replacement of each (with three
changes the invariants hold as well, over 450,000 states). *AppThreads*: two
readers and two thunk threads, so that each can take what was meant for the other, and
a writer that times out and waits again, so that a thunk of its first wait meets the
second. *Scout*: two
processes, one that subscribes while the other is told. *Foreground*: two senders
reach the scout's queue, so that their datagrams mix, and with room for one datagram
a sender always waits between its two; a second csocket with the
first one's number; the theorems are for queues of any length. The state spaces have from 8,000 to 3.2 million states, and every action happens in some
run. Bounds are constants with names (`MaxFailures`, `MaxBytes`, `MaxIrobs`,
`MaxClosers`, `MaxBreaks`, `MaxChanges`, ...) and appear only in guards of the environment's
actions.

Runs that check only safety use symmetry of IROBs, csockets or threads; runs with a
temporal property do not. All runs say `CHECK_DEADLOCK FALSE`: an application
stops sending, a closed multisocket does nothing, and interfaces may stay as they
are.

### Fairness

* `ReceiverLattice`: every message of each IROB arrives once at least, and the
  application reads to the end what it can read. That is the transfer's promise
  (`EventuallyRead`, with its exceptions) and an application that calls `recv` in a loop; neither time-
  outs nor partial reads are assumed to happen.
* `IROBTransfer`: weak fairness of each thread's step. The threads loop, every
  change is broadcast under the lock, and a broken connection is noticed by the
  threads that read and write it. Breaks and failing writes are never assumed.
* `Shutdown`: weak fairness of `Busy`, all that threads do on their own. No
  closing, no break and no two-minute timeout is assumed. A thread cannot go on for
  ever while another one could go: all work comes from a finite amount of data, so
  fairness to the whole is as good as to each.

* `Bootstrap`: weak fairness of the bootstrapper, of each csocket's thread, of each
  multisocket of the other end and of the teardown that has begun. TCP lets an
  attempt succeed or fail in the end: that a peer which is gone is reported is
  assumed, since `csocket.cpp:246` waits without a timeout. No interface has to go down or come up.
* `Interfaces`: weak fairness of the threads of each csocket at each end and of the
  listener; a connection that is gone is found out in the end. Nothing breaks, and
  the scout reports nothing, of necessity.
* `Scout`: weak fairness of the scout's two threads, of its exit once it was asked to
  terminate and of each process's IPC thread. Nobody has to connect or leave, and the scout does not have to start
  again.

`TimeOut` of `Shutdown` may happen only when the connection is dead or nothing
else can (`TwoMinutesLater`): two minutes are longer than anything else takes.

## 4. What TLAPS proves

For any set of IROBs, finite or not (`SenderLattice_proofs`, under
`IdsAssumption`: the ids of the multisocket, foreign ids and the "no IROB" value
are different things):

* `TypeCorrect` - in particular placeholders are made for foreign ids only;
* `AnonymousIrobsAreBarriers` - `Spec => []AnonymousBarrier`;
* `DominatorSetCorrect` - `min_dominator_set` covers every earlier IROB and is
  minimal;
* `DependenciesAcyclic`;
* `EdgesAlwaysAgree` - the edges of the graph, kept in both directions, agree;
* `NamedDependenciesSurvive` - no pending IROB waits for a dropped one the
  application named.

None of these is inductive. `IInv` adds how the variables account for every IROB
(`Accounted`), that dependencies are known (`KnownDeps`), that `reach` is
transitive, and the central fact, `LastAnonymous`: the last anonymous IROB has all
the others before it and every dominator after it. That is why two variables
suffice to order everything. Insertion is split into what happens to the graph
(`InsertGraph`) and to the history (`NewHistory`), used for named and anonymous
IROBs alike; ACK, failure and drop are all erasures (`EraseIInv`), and a drop takes
a set that is closed under dependents (`VictimsClosed`).

For any number of connections and any bounds (`Shutdown_proofs`, under
`ShutdownAssumption`):

* `ShutdownTypeCorrect` - with the types, that a csocket in the map has a sender
  thread that has not left;
* `GoodbyeSaidOnce` - `Spec => []OneGoodbye`;
* `ClosingLosesNothing` - `Orderly /\ Spec /\ [][Patient]_vars => []NothingLost`, where
  `Orderly` says that one application closes and no connection breaks or is made (as in
  `OrderlyClose.cfg`) and `Patient` that no wait of two minutes runs out.

`OneGoodbye` is not inductive because the lock is released during the write and
`sending_goodbye` is cleared when the write fails. `IInv` adds `Announced` (a
thread that writes has set `sending_goodbye`; a GOODBYE in transit implies
`goodbye_sent`) and `SaidOnce` (who writes excludes one in transit). All actions
but three are quiet: they say nothing and take nothing back, and lemma `Quiet`
does the rest. A mutant of `SayGoodbye` that looks only at `goodbye_sent` breaks it.

For `NothingLost`, `OInv` follows the GOODBYE of the end that closes. The other end
hears it once, and by then is not shutting down (`HeardOnce`), so it shuts down
because it was asked (`Asked`) and not in answer to its own. Whoever says GOODBYE has
its IROB acknowledged (`Accepted`), and a thread leaves only when both ends have said
it, or because the other end's thread of the same connection has (`Leaving`); that is
also why a receiver thread that is gone never looks like a failure, and no recovery
drops an IROB (`Unbroken`). The hypotheses are needed: TLC loses an
IROB after a break, after a timeout that expires too early, and when both applications
close a multisocket with a single connection.
That a timeout is impossible while somebody has work is `ENABLED`, which the prover
does not handle; TLC checks the run without this hypothesis.

For any number of interfaces, csockets, changes and failures (`Interfaces_proofs`,
under `InterfacesAssumption`):

* `OneCsocketPerPair` - `Spec => []OnePerPair`: neither end ever has two csockets
  on a pair of interfaces;
* `LossIsAnnounced` - `Spec => []DownIsAnnounced`, with the exceptions `excused`, the
  abort among them.

The listener looks at the csockets of a pair when it adds one, some time after the
csocket was announced, and meanwhile more are made. `IInv` therefore adds
`Numbered`: csockets are numbered as they are made, and only one that was made is
connecting, announced or about to be added. Two lemmas carry the argument:
`NoneMade`, for steps after which each end has at most the csockets it had, and
`OneMade`, for steps that make a csocket on an interface where the connecting end
keeps none. `MakeNewCsocketIInv` reduces the places of the code that make one to the
second, `QuitIInv` the end of a csocket, or of the process, to the first; `AddConnectionIInv` is the accepting end's replacement.
For `DownIsAnnounced` a loss must be followed from the set to the thread that
writes it, to the channel, and back to the set when the write fails. `AInv` adds
`Spoken`: what is written and in transit are announcements, and a thread holds one
exactly while it writes, so that no `Pop` overwrites one and the handler of a
failed write has one to put back. Steps that say nothing are lemma `NothingSaid`,
steps that shorten a channel are lemma `HeardAInv`.

For any IROBs, sizes, dependencies, arrivals of their messages and number of
reading threads (`ReceiverLattice_proofs`, under the assumptions of
`ReceiverLattice`): `ReceiverTypeCorrect`, `OnlyReadyIsHandedOut`
(`NeverHandsOutUnready`), `AckedIsHeldAlways`, `HeldIsAckedAlways`,
`BytesStayCounted` (`BytesAreCounted`). `AckedIsHeldAlways` says of an IROB ACKed in
answer to a data check before its End_IROB (`early_acks`) only that its Begin_IROB, with
the dependencies, has arrived. With one reading thread (`OneReader`, a
hypothesis of the theorems):

* `NoReleaseIsLost` - `OneReader /\ Spec => []NoLostRelease`;
* `DeliversInOrder` - `OneReader /\ Spec => ImplementsOrderedDelivery`, the
  refinement: an IROB's first unit is taken after all it depends on, its units in
  one piece, each once.

An IROB that has begun is released by looking at `deps`, not at what it was sent to
depend on, and reading takes ids out of `deps` only by way of `dependents`. The
centre of `IInv` is that these stay exact (`Edges`), so that `released` is what can
be read and nothing else (`ReleasedWhenReady`); `HandedOutOnce`, `AckedWhenHeld` and
`Units` hang on it. `OneReaderIInv` adds that nothing that is released and not past
is out of sight (`NothingForgotten`). `OneReader` is needed: with two, TLC loses a
release (section 5).

For any number of csockets, sizes of writes and of chunks (`SenderIROB_proofs`,
under `ChunkAssumption`): `SenderTypeCorrect`, `ChunksAlwaysTile`,
`PositionsAlwaysOnBoundaries`, `CopiesAlwaysAgree`, `EndsAlwaysAgree`. They need each
other: a thread that is behind repeats the chunk at its position, so its position
must be a boundary (`OnBoundaries`) and the chunk that starts there the only
one (`Ordered`); every message is an element of the list (`MsgsAreSent`), which is
only appended to; and nothing is appended after an End_IROB (`EndIsFinal`). All but the
first except behaviours with a torn read: `IInv` is proved of the states in which `torn` is
false, whatever the flag does before, after and between the calls of `get_ready_bytes`.
`SenderTypeCorrect` has no exception, and an invariant of its own (`TInv`): what is left
after a torn read is that the positions do not run ahead of the list.

For any number of csockets, chunks and failures (`IROBTransfer_proofs`, under
`TransferAssumption`):

* `RequestsStayWithinSent` - `Spec => []RequestsAreForSentChunks`;
* `EndAlwaysLast` - `Spec => []EndIsLast`;
* `ErasedAlwaysReceived` - `Spec => []ErasedIsReceived`: for an IROB of any number of
  chunks, except `partial`;
* `SmallErasedIsReceived` - `Small /\ Spec => []AckedIsAllThere`: for an anonymous IROB of one
  chunk, which is sent whole, without exception; for others TLC refutes it (section 5).

`IInv` types every channel by what may be in it now: a chunk that was made, an End
only when all were, a request within what was made. It is a set that only grows
(`Progress`), so what is in transit stays good whatever the ends do meanwhile. A
request is computed from the receiver's chunks, which are therefore part of it. For
`ErasedIsReceived`, `Acks` adds that an ACK, scheduled, in transit or received, is of an
IROB that the receiver holds, until one of a part was scheduled. `SmallIInv` adds that a data
check never comes before the IROB it follows on its csocket (`ChecksFollow`), so that none
is.

For any number of threads of each kind (the last part of `ReceiverLattice_proofs`, which
extends `AppThreads` too, hence the names `ThreadsSpec` and `BootstrapSpec` of these two
specifications): `WakeupIsNeverLost` (`NoLostWakeup`) and `WaiterAlwaysOwed` (`WaiterIsOwed`). The first says
that not *all* readers sleep in select or poll over an empty pipe while an IROB is ready;
not that none does while another reader is with the application, and nothing of `recv`,
which waits on a condition variable. The second counts as owed a thunk in the hands of a
thread, however long it keeps it, and one thrown away (`lost`). The byte in `select_pipe` is
sent before the IROB is there, so the invariant (`SomeoneIsWoken`) covers an IROB on
its way as well; `WaiterIsOwed` is inductive together with the types.

For any number of processes, csockets, pairs of interfaces, crashes and any length of
the queues (`Foreground_proofs`, under `ForegroundAssumption`):

* `DescriptorsNeverLeak` - `Spec => []DescriptorsAreAccountedFor`;
* `CountedIsNeverStale` - `Spec => []CountedIsOpenOrOnItsWayOut`.

The inductive invariant has four layers. `Basic` has the types, who holds which lock
and which numbers are in use. `Pairs`: a descriptor follows its packet in the queue, or
the second datagram is still to be sent by the thread that sent the first, or the
queue is spoilt from there on, as when the sender crashes between the two. `Tables`: of
one number a process never hears of a second csocket before it has heard of the end of
the first (`NoTwo`), because whoever closes a csocket tells everyone it told of it, or
has dropped them (`Marked`), before the number is used again. So an insertion always
finds its place free and a removal finds what it is to remove, which is what
`Accounted` needs. Processes that have mixed up two senders (`mixed`) are outside of
`Pairs` and `Tables`, as they are of the properties, and all of it is proved of the states
before a number was given again too early (`Apart`: not `clashed`, and `taken` of nobody).
`FreedInv`: a csocket whose connect failed is in no table, hand or queue, so one that is
counted still has its descriptor.

For any number of processes, interfaces, changes, slices of a trace and restarts
(`Scout_proofs`, under `ScoutAssumption`):

* `SubscribersAreCurrent` - `Spec => []ViewCurrent`: whenever the main thread has told
  everybody, what has been written to a subscriber adds up to `net_interfaces`; except for
  a subscriber the walk met before its `ipc_sock` was set (`missed`).

That is false while the main thread walks over the map without a lock, and while the
listener holds, for a new subscriber, a copy it made some time ago. `Informed` therefore
says of each interface that the subscriber will know its state, or that the walk has not
come to its descriptor and carries news of that interface (`Pending`); `Copied` says the
same of what the listener is about to write. `NewsIsCurrent`: two changes never overlap,
so what the walk tells is what is the case. The rest is about who may write where: a
process has one connection (`Placed`), an entry whose `ipc_sock` is not set belongs to
the subscriber in the listener's hands, and the main thread erases only others
(`Entries`), nothing was told to a process before (`Fresh`), and a service that was
stopped has entries but no connections (`Disconnected`), so that the entries it starts
again with are nobody's. A free descriptor exists because there are as many as processes
(`FreeDescriptor`). Before the proof TLC checked `IInv` with two processes and two
interfaces.

For any number of interfaces that come and go while connecting (also in
`Scout_proofs`, since the scout's reports drive it; under `BootstrapAssumption`):

* `ConnectionIsShared` - `BootstrapSpec => []SuccessIsShared`: a handshake that ends with
  status 0 has a connection that the accepting end has too.

A status of 0 may go round the loop once more, when an interface is lost after the last
message, so `BInv` cannot speak of the end of the loop alone: `BSucceeded` says where a
status of 0 may be met and that its attempt is still the one it was reached with. It
rests on the other end's list of interfaces, which only a multisocket that has a
connection sends, and which keeps that (`BListed`). Each attempt but the first is paid
for by an interface that went down (`BCounted`), so there is a multisocket of the other
end for each, and a socket that is bound while it is used (`BBound`).

*Only model-checked.* What is claimed under fairness: `EverythingIsRead`,
`EventuallyRead`, `EventuallyErased`, `CloseCompletes`, `SubscriptionSettles`,
`ConnectReturns`, `SidesAgree`; and `NeverStuck`, which is about `ENABLED`. Neither
fairness nor `ENABLED` is within the prover's reach. Every other property of the runs is
a theorem.

## 5. What the code does that its comments deny, and other observations

Each of these is reached by TLC in the model named, with the formula given here as
an invariant; none of the properties of section 3 excludes it, and where a property
excepts it, its comment says so.

*Against a comment or an assertion.*

* `IROBTransfer`, `AckedIsAllThere` with the constants of `Transfer.cfg` (9 states): after
  a break between two chunks the data check finds no hole and no end, and acknowledges
  an IROB of which only a part has arrived; the sender erases it.
  (`data_check_requested`, `cmm_socket_impl.cpp:2541`; `cmm_socket_control.h:85`
  says the ACK follows "receiving all bytes".) That is the only way: `ErasedIsReceived`
  excepts it (`partial`), and small anonymous IROBs, which travel whole, are always safe
  (`SmallErasedIsReceived`).
* `SenderIROB`, `NoAssertFails` (5 states): a small IROB of which a chunk has been sent
  already becomes redundant; the assertion that everything is sent in one write
  (`csocket_sender.cpp:869`) fails.
* `SenderIROB`, `SeqnoIdentifiesChunk` (6 states): with `send_on_all_networks` set in the
  middle of `get_ready_bytes`, one seqno stands for two different chunks, against "the
  seqno identifies the offset and len uniquely" (`cmm_socket_control.h:110`).
  `get_csock` "must call with readlock and scheduling_state_lock held"
  (`cmm_socket_impl.cpp:1961`), and the application's threads call it without. The
  properties of `sender_irob` except a step in which that happens (`torn`) and nothing
  else.
* `Shutdown` and `Interfaces`: `~aborted` (`Interfaces`, 4 states). When the connecting
  end's last csocket fails or its last interface goes, `CSocketSender::Run`, which holds
  `my_lock` for writing (`csocket_sender.cpp:237`), asks for a new csocket (line 259), for
  which `csocket_mapping.cpp:485` takes the lock for reading. The assertion in
  `PthreadScopedRWLock` fails; the comment at `csocket_sender.cpp:276` ("this connection is
  hosed, so make sure everything gets cleaned up as if we had done a graceful shutdown")
  is about code that is not reached.
* `Foreground`: `DescriptorsAreAccountedFor` and `CountedIsOpenOrOnItsWayOut` without
  `~clashed` (28 and 14 states). `phys_connect` closes `osfd` when it fails
  (`csocket.cpp:203`, 217, 240, 256, 263) and keeps the number; `~CSocket`, "if it's a real
  open socket" (line 167), closes it again (line 171). In between the number may have gone
  to another csocket or to a duplicate, which is closed while the table has it.
* `Shutdown`, `LastAckIsNotHeldBack` (8 states): the thread that says GOODBYE sleeps over an ACK
  that was scheduled while it was writing, which the comment at
  `csocket_sender.cpp:121` wants to avoid. It is woken by the next event or by the
  two-minute timeout; `CloseCompletes` shows that when one application closes and
  nothing breaks there is such an event.
* `Shutdown`, `GoodbyeIsRemembered` with `MaxClosers = 2` (7 states): an application that closes
  between `do_goodbye`'s test and its call of `goodbye` makes the other end's GOODBYE
  disappear: `remote_shutdown`, "true if remote has ack'd the shutdown"
  (`cmm_socket.private.h:334`), is not set by it.

*Connecting and interfaces.*

* `Bootstrap`: the status can go back from 0, when an interface is lost after the
  last message and before the loop's test (`cmm_conn_bootstrapper.cpp:187`, 22
  states); with three interfaces a csocket left over from an earlier attempt can be
  the only one, so that a successful connect has a csocket to the wrong multisocket
  of the other end (32 states); an end without interfaces finishes with the status
  still "in progress".
* `Interfaces`: DOWN_INTERFACE that arrives when the interface is up again tears down
  its new csocket, and nothing connects it again until the scout reports it (13
  states); a NEW_INTERFACE that is overtaken by DOWN_INTERFACE on another connection
  makes the accepting end believe in the interface for ever (11 states); an
  interface torn down between the listener's `setup` and `make_new_csocket` leaves a
  csocket on an interface that is not known (`csocket_mapping.cpp:816`, 13 states);
  the accepting end gives up when its last csocket fails while a new one of the
  connecting end is on the way (6 states).

*Threads.*

* `AppThreads`: `wait_for_completion` releases `my_lock` and takes it back only if it
  has to wait; fired before, it makes the caller release a lock it does not hold, and
  the count of readers becomes negative (13 states); a thunk thread blocks in `pop`
  with another's thunk in its hands (20 states) and drops what it has not fired when
  the network goes (18 states); after an interrupt `cmm_poll` reports data that is not
  there, and `cmm_recv` blocks (6 states). `cancel_thunk` finds nothing, since
  nothing is ever put in `thunk_map`.

*Processes.*

* `Scout`: a subscriber whose entry is met before `ipc_sock` is set misses a change
  (`missed`); the walk over the map may meet an entry that is being erased. A service
  that is stopped and started keeps its entries, so that a program which only asks
  (`get_ifaces`) may get the descriptor of such an entry and be told of changes it did
  not subscribe to, as long as the entry survives (21 states with three processes);
  `ViewCurrent` is about subscribers.
* `Foreground`: packet and descriptor of one sender are two datagrams, and another
  sender's come between. The reader then stops, its own sends fail, and it drops every
  other process from the shared set; or, with three csockets, it files a descriptor
  under another process's csocket (23 states with queues of 2, as the next two). Two processes that send to each other
  with full queues wait for each other for ever (27 states). A process that is told of
  a csocket before its socket has a name is dropped for good (16 states). A removal that arrives
  for a pair that is gone adds the pair again.

*Shutdown and delivery.*

* An IROB that is accepted while the multisocket shuts down may go into the index
  of a sender thread that has left. It is never sent, and the shutdown waits for
  its ACK for ever. (`late` in `Shutdown`; `CloseCompletes` and `NeverStuck` except
  it, and fail without the exception.)
* When both applications close at once, the receiver thread takes the other end's
  GOODBYE for an answer to its own and leaves; an accepting end with no other
  connection then gives up data that is not ACKed. So `NothingLost` is stated for
  one that closes.
* A break after the GOODBYE was sent leaves `remote_shutdown` unset.
* Two threads in `recv` may overwrite `partially_read_irob`: one that waited takes
  another IROB while the first is partly read, and the rest of that one is never read
  (`NoLostRelease` with two readers, 11 states). The runs, `NoReleaseIsLost` and
  `DeliversInOrder` have one reader, as the comment in `get_ready_irob` assumes.
* An IROB may get an *inferred* dependency on a dropped one;
  `NamedDepsNotDropped` is about those the application named.
* `drop_irob_and_dependents` does not see dependents behind an IROB that has been
  erased.
* `send_acks` puts back all ACKs of a failed write but the one it popped first.
* A resend request that is lost with its connection is not repeated (`unheard` in
  `IROBTransfer`): unless another break makes the sender ask again, the receiver waits for
  the missing chunk for ever. `EventuallyRead` and `EventuallyErased` except it for two
  chunks, and fail without the exception.

## 6. What is not modelled

Left out of the modules: label restrictions, statistics and trickling of
background data (they choose when and on which csocket, a free choice here);
`MSG_PEEK`, `MSG_WAITALL` and IROBs of no bytes; select for writing and its pipe;
`cancel_all_thunks`; thunks of several labels; interfaces of the accepting end; the
time of the last foreground data; what a forked child does with its parent's
socket; spurious wakeups. Bytes are units or seqnos, messages are
records, byte order and layout are ignored. TCP is external: in order and complete
until a connection breaks. Unix datagram sockets are external: in order, with a
queue of bounded length. Not planned: logging, configuration, the scout's reading
of traces and its Android service, JNI and Android programs, libancillary, tests, and the floating-point estimators.

## 7. Plan

1. Completion of `ReceiverLattice` (empty IROBs, flags of `recv`), of the
   application's calls as several steps, and of `AppThreads` with the thunk of a
   deferred IROB (`resume_operation_thunk` against ACKs).
2. `NetStats`: bookkeeping of outstanding measurements; `Scheduling`: order within an
   index, refresh and removal.
