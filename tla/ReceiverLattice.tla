-------------------------- MODULE ReceiverLattice --------------------------
(***************************************************************************)
(* The receiver's incoming_irobs: a PendingReceiverIROBLattice, fed by the *)
(* CSocketReceiver threads and emptied by the application's recv.          *)
(*                                                                         *)
(* The Begin_IROB, IROB_chunk and End_IROB messages of an IROB travel on   *)
(* several TCP connections at once and are sent again when one of them     *)
(* fails, so here each message of each IROB arrives at any time, in any    *)
(* order, any number of times or never.  Every handler and recv runs under *)
(* scheduling_state_lock, hence is one step.  The data of a chunk is one   *)
(* unit: what the handlers compare of it (seqno, offset, length) is the    *)
(* same in every copy the sender makes of it.                              *)
(***************************************************************************)
EXTENDS Integers, FiniteSets

CONSTANTS Ids,      \* the IROBs sent on the multisocket
          Size,     \* how many chunks each of them has
          Readers,  \* the application's threads that call recv
          NoIrob    \* partially_read_irob is null

ASSUME SizeAssumption ==
    /\ NoIrob \notin Ids
    /\ Size \in [Ids -> Nat \ {0}]

VARIABLES
    depends,              \* the deps in the Begin_IROB of each IROB
    pending_irobs,        \* everything in the lattice, placeholders included
    placeholders,         \* known of, but its Begin_IROB has not arrived
    deps,                 \* dependencies of a pending IROB not yet satisfied
    dependents,
    chunks,               \* seqnos received
    ended,                \* End_IROB received: expected_bytes, expected_chunks
    num_bytes,            \* units of an IROB received and not yet read
    released,
    ready_irobs,
    partially_read_irob,
    past_irobs,           \* read completely
    waiting,              \* readers blocked in get_ready_irob
    waiting_acks,         \* every IROB an ACK has been scheduled for
    early_acks            \* history: those a data check was answered for with an
                          \* ACK although they were not complete

edges == <<deps, dependents>>
contents == <<chunks, ended>>
reading == <<num_bytes, partially_read_irob, past_irobs, waiting>>
vars == <<depends, pending_irobs, placeholders, edges, contents, released,
          ready_irobs, reading, waiting_acks, early_acks>>

Seqnos(id) == 0 .. Size[id] - 1

TypeOK ==
    /\ depends \in [Ids -> SUBSET Ids]
    /\ pending_irobs \subseteq Ids
    /\ placeholders \subseteq pending_irobs
    /\ deps \in [Ids -> SUBSET Ids]
    /\ dependents \in [Ids -> SUBSET Ids]
    /\ chunks \in [Ids -> SUBSET Nat]
    /\ \A id \in Ids : chunks[id] \subseteq Seqnos(id)
    /\ ended \subseteq Ids
    /\ num_bytes \in [Ids -> Nat]
    /\ released \subseteq Ids
    /\ ready_irobs \subseteq Ids
    /\ partially_read_irob \in Ids \cup {NoIrob}
    /\ past_irobs \subseteq Ids
    /\ waiting \subseteq Readers
    /\ waiting_acks \subseteq Ids
    /\ early_acks \subseteq Ids

\* An IROB is sent with dependencies on IROBs the sender inserted before it, so
\* the dependencies of all the IROBs are without cycles.
WithoutCycles(D) ==
    \A S \in SUBSET Ids : S # {} => \E id \in S : D[id] \cap S = {}

Init ==
    /\ depends \in {D \in [Ids -> SUBSET Ids] : WithoutCycles(D)}
    /\ pending_irobs = {} /\ placeholders = {}
    /\ deps = [id \in Ids |-> {}]
    /\ dependents = [id \in Ids |-> {}]
    /\ chunks = [id \in Ids |-> {}]
    /\ ended = {}
    /\ num_bytes = [id \in Ids |-> 0]
    /\ released = {}
    /\ ready_irobs = {}
    /\ partially_read_irob = NoIrob
    /\ past_irobs = {}
    /\ waiting = {}
    /\ waiting_acks = {}
    /\ early_acks = {}

-----------------------------------------------------------------------------
(***************************************************************************)
(* What every handler ends with.  release_if_ready puts the IROBs of S     *)
(* that ReadyIROB accepts on ready_irobs; an ACK is scheduled for an IROB  *)
(* that is_complete and is no placeholder.  Both look at the state the     *)
(* handler has produced.                                                   *)
(***************************************************************************)

\* is_complete: all the chunks End_IROB announced are there.  Reading takes
\* chunks out but leaves recvd_chunks alone, so it stays true.
IsComplete(id) == id \in ended /\ chunks[id] = Seqnos(id)

\* A mistake to rule out: the dependencies are not looked at.
ReleaseIfComplete(S, queue) ==
    LET ready == {id \in S : /\ IsComplete(id)'
                             /\ id \in pending_irobs' \ placeholders'
                             /\ id \notin released}
    IN  /\ released' = released \cup ready
        /\ ready_irobs' = queue \cup ready

\* release_if_ready, with the predicate ReadyIROB, on each IROB of S; queue is
\* ready_irobs without the IROB the step has popped.
ReleaseIfReady(S, queue) ==
    LET ready == {id \in S : /\ IsComplete(id)'
                             /\ id \in pending_irobs' \ placeholders'
                             /\ deps'[id] = {}
                             /\ id \notin released}
    IN  /\ released' = released \cup ready
        /\ ready_irobs' = queue \cup ready

\* Mistakes to rule out: the ACK is sent although the deps are not known, or
\* only when the IROB can be read.
ScheduleAckOfPlaceholder(id) ==
    waiting_acks' = IF IsComplete(id)' THEN waiting_acks \cup {id} ELSE waiting_acks

ScheduleAckWhenReady(id) ==
    waiting_acks' = IF id \in released' THEN waiting_acks \cup {id} ELSE waiting_acks

ScheduleAck(id) ==
    waiting_acks' = IF IsComplete(id)' /\ id \notin placeholders'
                    THEN waiting_acks \cup {id}
                    ELSE waiting_acks

\* A mistake to rule out: the placeholder is not put into the lattice.
LocateUnlisted(id) ==
    /\ UNCHANGED pending_irobs
    /\ placeholders' = IF id \in pending_irobs THEN placeholders
                                               ELSE placeholders \cup {id}

\* A chunk or an End_IROB for an unknown IROB makes a placeholder for it.
Locate(id) ==
    /\ pending_irobs' = pending_irobs \cup {id}
    /\ placeholders' = IF id \in pending_irobs THEN placeholders
                                               ELSE placeholders \cup {id}

-----------------------------------------------------------------------------
(***************************************************************************)
(* The handlers of CSocketReceiver.                                        *)
(***************************************************************************)

\* do_begin_irob for an IROB that is neither past nor begun.  The new IROB
\* subsumes its placeholder, whose dependents and contents it takes over;
\* correct_deps forgets the dependencies that are past; the IROB is added to
\* the dependents of the others, for which placeholders are made.
DoBeginIrob(id) ==
    LET live == depends[id] \ past_irobs IN
    /\ id \notin past_irobs
    /\ id \notin pending_irobs \ placeholders
    /\ pending_irobs' = pending_irobs \cup {id} \cup live
    /\ placeholders' = (placeholders \cup (live \ pending_irobs)) \ {id}
    /\ deps' = [deps EXCEPT ![id] = live]
    /\ dependents' = [d \in Ids |-> IF d \in live
                                    THEN dependents[d] \cup {id}
                                    ELSE dependents[d]]
    /\ UNCHANGED <<depends, early_acks, contents, reading>>
    /\ ReleaseIfReady({id}, ready_irobs)
    /\ ScheduleAck(id)

\* A mistake to rule out: a duplicate is counted again.
CountAlways(id, seqno) == [num_bytes EXCEPT ![id] = @ + 1]

\* The num_bytes add_chunk leaves: a duplicate does not count.
Count(id, seqno) ==
    [num_bytes EXCEPT ![id] = IF seqno \in chunks[id] THEN @ ELSE @ + 1]

\* do_irob_chunk: a chunk for a past IROB, and one that has been received, are
\* ignored, although the second one may repeat an ACK.
DoIrobChunk(id, seqno) ==
    /\ id \notin past_irobs
    /\ Locate(id)
    /\ chunks' = [chunks EXCEPT ![id] = @ \cup {seqno}]
    /\ num_bytes' = Count(id, seqno)
    /\ UNCHANGED <<depends, early_acks, edges, ended, partially_read_irob, past_irobs,
                   waiting>>
    /\ ReleaseIfReady({id}, ready_irobs)
    /\ ScheduleAck(id)

\* do_end_irob: an End_IROB for a past IROB repeats the ACK, which the sender
\* may have missed.
DoEndIrob(id) ==
    \/ /\ id \notin past_irobs
       /\ Locate(id)
       /\ ended' = ended \cup {id}
       /\ UNCHANGED <<depends, early_acks, edges, chunks, reading>>
       /\ ReleaseIfReady({id}, ready_irobs)
       /\ ScheduleAck(id)
    \/ /\ id \in past_irobs
       /\ waiting_acks' = waiting_acks \cup {id}
       /\ UNCHANGED <<depends, early_acks, pending_irobs, placeholders, edges, contents,
                      released, ready_irobs, reading>>

\* data_check_requested finds nothing to ask for: the IROB has begun, there is no
\* hole in its chunks, and its End_IROB has not arrived.  (The test of seen_end
\* asks for End_IROB again if it has.)
NothingMisses(id) ==
    /\ id \in pending_irobs \ placeholders
    /\ id \notin ended
    /\ \A seqno \in chunks[id] : 0 .. seqno \subseteq chunks[id]

\* do_data_check: an IROB that is past, or for which there is nothing to ask, is
\* ACKed.  Otherwise the sender is asked for the rest, which changes nothing here.
DoDataCheck(id) ==
    /\ id \in past_irobs \/ NothingMisses(id)
    /\ waiting_acks' = waiting_acks \cup {id}
    /\ early_acks' = IF id \in past_irobs THEN early_acks ELSE early_acks \cup {id}
    /\ UNCHANGED <<depends, pending_irobs, placeholders, edges, contents,
                   released, ready_irobs, reading>>

-----------------------------------------------------------------------------
(***************************************************************************)
(* recv, called by the application.  A recv with MSG_WAITALL repeats these *)
(* steps.                                                                  *)
(***************************************************************************)

\* get_ready_irob finds nothing to read and waits for a release, which lets
\* go of the lock.
Wait(r) ==
    /\ r \notin waiting
    /\ partially_read_irob = NoIrob
    /\ ready_irobs = {}
    /\ waiting' = waiting \cup {r}
    /\ UNCHANGED <<depends, early_acks, pending_irobs, placeholders, edges, contents,
                   released, ready_irobs, num_bytes, partially_read_irob,
                   past_irobs, waiting_acks>>

\* read_timeout_expired
TimeOut(r) ==
    /\ r \in waiting
    /\ ready_irobs = {}
    /\ waiting' = waiting \ {r}
    /\ UNCHANGED <<depends, early_acks, pending_irobs, placeholders, edges, contents,
                   released, ready_irobs, num_bytes, partially_read_irob,
                   past_irobs, waiting_acks>>

\* Mistakes to rule out: another IROB is popped although one is partly read, or
\* the one that is partly read is not found again.
GetReadyIrobAny(r, id) == id = partially_read_irob \/ id \in ready_irobs

GetReadyIrobNew(r, id) ==
    /\ r \in waiting \/ partially_read_irob = NoIrob
    /\ id \in ready_irobs

\* get_ready_irob goes on with the IROB the last recv stopped in, if any, or
\* pops one of ready_irobs.  A reader that has been waiting does not look at
\* partially_read_irob again.
GetReadyIrob(r, id) ==
    \/ r \notin waiting /\ id = partially_read_irob
    \/ /\ r \in waiting \/ partially_read_irob = NoIrob
       /\ id \in ready_irobs

\* recv stops inside the IROB, having read n units of it, or none if it was
\* called with MSG_PEEK.
RecvSome(r, id, n) ==
    /\ GetReadyIrob(r, id)
    /\ n < num_bytes[id]
    /\ num_bytes' = [num_bytes EXCEPT ![id] = @ - n]
    /\ partially_read_irob' = id
    /\ ready_irobs' = ready_irobs \ {id}
    /\ waiting' = waiting \ {r}
    /\ UNCHANGED <<depends, early_acks, pending_irobs, placeholders, edges, contents,
                   released, past_irobs, waiting_acks>>

\* recv exhausts the IROB: it is erased from the lattice, its dependents no
\* longer wait for it, and those that become ready are released.
RecvRest(r, id) ==
    /\ GetReadyIrob(r, id)
    /\ num_bytes' = [num_bytes EXCEPT ![id] = 0]
    /\ partially_read_irob' = IF id = partially_read_irob THEN NoIrob
                                                          ELSE partially_read_irob
    /\ past_irobs' = past_irobs \cup {id}
    /\ pending_irobs' = pending_irobs \ {id}
    /\ deps' = [d \in Ids |-> IF d \in dependents[id] THEN deps[d] \ {id}
                                                      ELSE deps[d]]
    /\ waiting' = waiting \ {r}
    /\ UNCHANGED <<depends, early_acks, placeholders, dependents, contents, waiting_acks>>
    /\ ReleaseIfReady(dependents[id], ready_irobs \ {id})

Receive(id) ==
    \/ DoBeginIrob(id)
    \/ \E seqno \in Seqnos(id) : DoIrobChunk(id, seqno)
    \/ DoEndIrob(id)
    \/ DoDataCheck(id)

Recv(r) ==
    \E id \in Ids :
        \/ \E n \in 0 .. Size[id] : RecvSome(r, id, n)
        \/ RecvRest(r, id)

Next ==
    \/ \E id \in Ids : Receive(id)
    \/ \E r \in Readers : Wait(r) \/ TimeOut(r) \/ Recv(r)

Spec == Init /\ [][Next]_vars

(***************************************************************************)
(* Every message of every IROB arrives in the end, which is the sender's   *)
(* part to see to, and the application keeps calling recv.  A reader makes *)
(* progress by reading an IROB to its end or by taking a part of it, and   *)
(* not by peeking for ever.                                                *)
(***************************************************************************)
Fairness ==
    /\ \A id \in Ids :
          /\ WF_vars(DoBeginIrob(id))
          /\ \A seqno \in Seqnos(id) : WF_vars(DoIrobChunk(id, seqno))
          /\ WF_vars(DoEndIrob(id))
          /\ \A r \in Readers : WF_vars(RecvRest(r, id))

FairSpec == Spec /\ Fairness

-----------------------------------------------------------------------------
(***************************************************************************)
(* Properties                                                              *)
(***************************************************************************)

\* "Hard rule: this won't ever return a non-ready IROB" (get_ready_irob), and
\* the assertions of recv: what a reader may be handed is complete, has been
\* begun, and everything it was sent to depend on has been read to the end.
\* The lattice knows only the deps that were not past when the Begin_IROB
\* arrived, so this relates three messages and the reads between them.
HandedOut == ready_irobs \cup ({partially_read_irob} \ {NoIrob})

NeverHandsOutUnready ==
    \A id \in HandedOut :
        /\ IsComplete(id)
        /\ id \in pending_irobs \ placeholders
        /\ depends[id] \subseteq past_irobs

\* No release is lost: whichever of its messages or its dependencies comes
\* last, an IROB that is there and whose dependencies have been read can be
\* read.
NoLostRelease ==
    \A id \in pending_irobs \ placeholders :
        IsComplete(id) /\ depends[id] \subseteq past_irobs => id \in HandedOut

\* The sender forgets an IROB that is ACKed (remove_if_unneeded), so an ACK
\* should be scheduled only when the receiver can do without the sender: the
\* deps are there and so is all the data.  The deps always are, whichever message
\* or data check the ACK answers; the data is, but for a data check that arrives
\* between two chunks, or before End_IROB, and is answered with an ACK of what
\* there is (early_acks; IROBTransfer shows what becomes of the rest).
AckedIsHeld ==
    \A id \in waiting_acks :
        \/ id \in past_irobs
        \/ /\ id \in pending_irobs \ placeholders
           /\ IsComplete(id) \/ id \in early_acks

\* ... and it is scheduled by then, whichever message came last, or the sender
\* would have to wait for a data check to get rid of the IROB.
HeldIsAcked ==
    /\ past_irobs \subseteq waiting_acks
    /\ \A id \in pending_irobs \ placeholders : IsComplete(id) => id \in waiting_acks

\* num_bytes stays in step with the chunks through duplicates, placeholders and
\* partial reads (an assertion of add_chunk), and is not zero in an IROB that
\* can be read (recv takes an IROB without bytes for the sentinel, and aborts).
BytesAreCounted ==
    /\ \A id \in Ids \ released : num_bytes[id] = Cardinality(chunks[id])
    /\ \A id \in HandedOut : num_bytes[id] \in 1 .. Size[id]

\* The receiving end implements OrderedDelivery.  Of the IROB being read, the
\* units that are gone have been taken.
Taken(id) ==
    IF id \in past_irobs THEN Size[id]
    ELSE IF id = partially_read_irob THEN Size[id] - num_bytes[id]
    ELSE 0

Abstract == INSTANCE OrderedDelivery WITH taken <- [id \in Ids |-> Taken(id)]

ImplementsOrderedDelivery == Abstract!Spec

\* Once all the messages arrive and the application keeps reading, every IROB
\* is read, whatever the order the messages arrived in and whatever the graph
\* of dependencies.
EverythingIsRead == <>(past_irobs = Ids)

=============================================================================
