---------------------------- MODULE IROBTransfer ----------------------------
(***************************************************************************)
(* One IROB on its way from the sender's outgoing_irobs to the receiver's  *)
(* incoming_irobs over several TCP connections (csockets), some of which   *)
(* break: what is on a broken csocket is lost, and the data check,         *)
(* resend request and ACK messages have to make up for it.                 *)
(*                                                                         *)
(* The IROB is sent by one thread at a time (not redundantly), and has no  *)
(* dependencies; a chunk is its seqno, since all copies of it agree        *)
(* (SenderIROB).  Each handler, and each message a sender thread builds,   *)
(* is one step under scheduling_state_lock.                                *)
(***************************************************************************)
EXTENDS Integers, Sequences, FiniteSets

CONSTANTS CSocks,       \* connections, the first ones and their replacements
          MaxChunks,    \* bound: how many chunks the IROB may have
          MaxFailures,  \* bound: how many of the csockets break
          AnyCSock      \* a task that any csocket may take (sk->irob_indexes)

ASSUME TransferAssumption ==
    /\ MaxChunks \in Nat \ {0}
    /\ MaxFailures \in Nat /\ MaxFailures < Cardinality(CSocks)
    /\ AnyCSock \notin CSocks

VARIABLES
    alive,           \* csockets that carry data
    to_receiver,     \* what is in transit on each
    to_sender,
    \* --- sender
    sender_csocks,   \* csockets the sender has not seen break
    added,           \* chunks the application has added
    complete,        \* end_irob has been called
    next_seqno,      \* chunks sent at least once
    resend_chunks,
    announced,
    end_announced,
    sending_ifaces,  \* csockets some of the IROB was sent on
    tasks,           \* the indexes new_irobs, new_chunks, ... this IROB is in
    acked,
    erased,          \* no longer in outgoing_irobs
    \* --- receiver
    receiver_csocks,
    begun, received,
    expected,        \* expected_chunks: -1 until the End_IROB has come
    read,            \* chunks the application has read
    waiting_acks,    \* the indexes that hold an ACK to send
    resend_requests, \* requests to send, as sets of DEPS, DATA and END
    \* --- for the properties
    partial,         \* a data check had an ACK scheduled for part of the IROB
    unheard          \* a resend request has been lost

network == <<alive, to_receiver, to_sender, unheard>>
sender == <<sender_csocks, added, complete, next_seqno, resend_chunks,
            announced, end_announced, sending_ifaces, tasks, acked, erased>>
receiver == <<receiver_csocks, begun, received, expected, read, waiting_acks,
              resend_requests, partial>>
vars == <<network, sender, receiver>>

Seqnos == 0 .. MaxChunks - 1
Tasks == {"begin", "chunk", "end", "check"}
Requests == SUBSET {"DEPS", "DATA", "END"}

\* default_irob (send or writev, of all of it at once) or begin_irob (the chunks are
\* added one by one) has been called.
Init ==
    /\ alive = CSocks
    /\ to_receiver = [c \in CSocks |-> <<>>]
    /\ to_sender = [c \in CSocks |-> <<>>]
    /\ sender_csocks = CSocks /\ receiver_csocks = CSocks
    /\ \/ added \in 1 .. MaxChunks /\ complete = TRUE
       \/ added = 0 /\ complete = FALSE
    /\ next_seqno = 0 /\ resend_chunks = {}
    /\ announced = FALSE /\ end_announced = FALSE
    /\ sending_ifaces = {}
    /\ tasks = {"begin"}
    /\ acked = FALSE /\ erased = FALSE
    /\ begun = FALSE /\ received = {} /\ expected = -1
    /\ read = 0
    /\ waiting_acks = {}
    /\ resend_requests = {}
    /\ partial = FALSE /\ unheard = FALSE

-----------------------------------------------------------------------------
(***************************************************************************)
(* The network                                                             *)
(***************************************************************************)

\* A write to a csocket that has broken without the writer's knowledge may
\* succeed; the data is lost.
Transmit(c, msgs) ==
    to_receiver' = IF c \in alive THEN [to_receiver EXCEPT ![c] = @ \o msgs]
                                  ELSE to_receiver

Reply(c, msg) ==
    /\ to_sender' = IF c \in alive THEN [to_sender EXCEPT ![c] = Append(@, msg)]
                                   ELSE to_sender
    /\ unheard' = (unheard \/ (c \notin alive /\ msg.type = "resend"))

Break(c) ==
    /\ c \in alive
    /\ Cardinality(CSocks \ alive) < MaxFailures
    /\ alive' = alive \ {c}
    /\ to_receiver' = [to_receiver EXCEPT ![c] = <<>>]
    /\ to_sender' = [to_sender EXCEPT ![c] = <<>>]
    /\ unheard' = (unheard \/ \E i \in DOMAIN to_sender[c] : to_sender[c][i].type = "resend")
    /\ UNCHANGED <<sender, receiver>>

-----------------------------------------------------------------------------
(***************************************************************************)
(* The sender                                                              *)
(***************************************************************************)

Chunk(seqno) == [type |-> "chunk", seqno |-> seqno]
End(num_chunks) == [type |-> "end", num_chunks |-> num_chunks]
Message(type) == [type |-> type]

\* A mistake to rule out: nobody checks that all of the IROB has been sent.
AllBytesChunkedAssumed == TRUE

AllBytesChunked == next_seqno = added

\* irob_chunk, called by the application
AddChunk ==
    /\ ~complete /\ added < MaxChunks
    /\ added' = added + 1
    /\ tasks' = IF announced THEN tasks \cup {"chunk"} ELSE tasks
    /\ UNCHANGED <<network, receiver, sender_csocks, complete, next_seqno,
                   resend_chunks, announced, end_announced, sending_ifaces,
                   acked, erased>>

\* end_irob, called by the application when it has added what it wanted to
EndIrob ==
    /\ ~complete /\ added > 0
    /\ complete' = TRUE
    /\ tasks' = IF announced /\ AllBytesChunked THEN tasks \cup {"end"} ELSE tasks
    /\ UNCHANGED <<network, receiver, sender_csocks, added, next_seqno,
                   resend_chunks, announced, end_announced, sending_ifaces,
                   acked, erased>>

\* A sender thread pops a task.  An IROB that is gone has no tasks but a data
\* check.
Pop(c, task) ==
    /\ c \in sender_csocks
    /\ task \in tasks
    /\ UNCHANGED <<alive, to_sender, unheard, receiver, added, complete, acked, erased>>

\* get_ready_bytes: seqno is one that was asked for again, or the next one.
ReadyBytes(seqno) ==
    \/ /\ seqno \in resend_chunks
       /\ resend_chunks' = resend_chunks \ {seqno}
       /\ UNCHANGED next_seqno
    \/ /\ resend_chunks = {}
       /\ seqno = next_seqno /\ next_seqno < added
       /\ next_seqno' = next_seqno + 1
       /\ UNCHANGED resend_chunks

NothingReady == resend_chunks = {} /\ next_seqno = added

\* begin_irob
SendBegin(c) ==
    /\ Pop(c, "begin")
    /\ Transmit(c, <<Message("begin")>>)
    /\ announced' = TRUE
    /\ sending_ifaces' = sending_ifaces \cup {c}
    /\ tasks' = (tasks \ {"begin"}) \cup (IF added > 0 THEN {"chunk"} ELSE {})
    /\ UNCHANGED <<sender_csocks, next_seqno, resend_chunks, end_announced>>

\* ... which sends all of an IROB that is small enough in one write.
MaybeSmall == added = 1 /\ complete /\ ~announced

SendWhole(c) ==
    /\ Pop(c, "begin")
    /\ MaybeSmall
    /\ ReadyBytes(0)
    /\ Transmit(c, <<Message("begin"), Chunk(0), End(1)>>)
    /\ announced' = TRUE /\ end_announced' = TRUE
    /\ sending_ifaces' = sending_ifaces \cup {c}
    /\ tasks' = tasks \ {"begin"}
    /\ UNCHANGED sender_csocks

\* irob_chunk: the thread goes on with the IROB until nothing is ready, and
\* schedules the End_IROB with the last chunk.
SendChunk(c) ==
    /\ Pop(c, "chunk")
    /\ UNCHANGED <<sender_csocks, announced, end_announced>>
    /\ \/ \E seqno \in Seqnos :
             /\ ReadyBytes(seqno)
             /\ Transmit(c, <<Chunk(seqno)>>)
             /\ sending_ifaces' = sending_ifaces \cup {c}
             /\ tasks' = IF complete /\ AllBytesChunked' /\ ~end_announced
                         THEN tasks \cup {"end"} ELSE tasks
       \/ /\ NothingReady
          /\ tasks' = tasks \ {"chunk"}
          /\ UNCHANGED <<to_receiver, next_seqno, resend_chunks, sending_ifaces>>

SendEnd(c) ==
    /\ Pop(c, "end")
    /\ Transmit(c, <<End(next_seqno)>>)
    /\ sending_ifaces' = sending_ifaces \cup {c}
    /\ tasks' = tasks \ {"end"}
    /\ UNCHANGED <<sender_csocks, next_seqno, resend_chunks, announced,
                   end_announced>>

\* send_data_check: the Begin_IROB, one chunk and, if all of the IROB has been
\* sent, the End_IROB come before the question.
SendDataCheck(c) ==
    /\ Pop(c, "check")
    /\ tasks' = tasks \ {"check"}
    /\ UNCHANGED <<sender_csocks, announced, end_announced>>
    /\ IF erased
       THEN /\ Transmit(c, <<Message("check")>>)
            /\ UNCHANGED <<next_seqno, resend_chunks, sending_ifaces>>
       ELSE /\ sending_ifaces' = sending_ifaces \cup {c}
            /\ LET rest == IF complete /\ AllBytesChunked'
                           THEN <<End(next_seqno'), Message("check")>>
                           ELSE <<Message("check")>>
               IN
               \/ \E seqno \in Seqnos :
                     /\ ReadyBytes(seqno)
                     /\ Transmit(c, <<Message("begin"), Chunk(seqno)>> \o rest)
               \/ /\ NothingReady
                  /\ UNCHANGED <<next_seqno, resend_chunks>>
                  /\ Transmit(c, IF next_seqno > 0
                                 THEN <<Message("begin"), Chunk(next_seqno - 1)>> \o rest
                                 ELSE <<Message("begin")>> \o rest)

\* A mistake to rule out: no data check.
GiveUpSilently(c) ==
    /\ sender_csocks' = sender_csocks \ {c}
    /\ UNCHANGED tasks

\* The sender gives up a broken csocket: what is scheduled for it goes to the
\* others and, if some of the IROB was sent on it, a data check is scheduled
\* (data_check_all_irobs).
GiveUp(c) ==
    /\ sender_csocks' = sender_csocks \ {c}
    /\ tasks' = IF c \in sending_ifaces' /\ ~erased THEN tasks \cup {"check"}
                                                     ELSE tasks

\* The receiver thread of the csocket sees that it is broken,
SenderNotices(c) ==
    /\ c \in sender_csocks \ alive
    /\ UNCHANGED <<network, receiver, added, complete, next_seqno, resend_chunks,
                   announced, end_announced, sending_ifaces, acked, erased>>
    /\ GiveUp(c)

\* or the sender thread's write fails: the task is put back, but what
\* get_ready_bytes has given out counts as sent.
WriteFails(c, task) ==
    /\ c \notin alive
    /\ Pop(c, task)
    /\ UNCHANGED <<to_receiver, announced, end_announced>>
    /\ sending_ifaces' = IF erased THEN sending_ifaces ELSE sending_ifaces \cup {c}
    /\ \/ ~erased /\ task \in {"chunk", "check"} /\ \E seqno \in Seqnos : ReadyBytes(seqno)
       \/ ~erased /\ task = "begin" /\ MaybeSmall /\ ReadyBytes(0)
       \/ /\ task # "chunk"
          /\ task = "check" /\ ~erased => NothingReady
          /\ UNCHANGED <<next_seqno, resend_chunks>>
    /\ GiveUp(c)

\* ack_received and remove_if_unneeded
AckReceived ==
    /\ acked' = TRUE
    /\ erased' = (erased \/ complete)
    /\ tasks' = IF erased' THEN tasks \cap {"check"} ELSE tasks
    /\ UNCHANGED resend_chunks

\* resend_request_received
ResendRequestReceived(msg) ==
    /\ UNCHANGED <<acked, erased>>
    /\ \/ erased /\ UNCHANGED <<tasks, resend_chunks>>
       \/ /\ ~erased
          /\ resend_chunks' =
                resend_chunks
                   \cup (IF "DATA" \in msg.request THEN msg.seqnos ELSE {})
                   \cup (IF "END" \in msg.request
                         THEN msg.next_chunk .. next_seqno - 1 ELSE {})
          /\ tasks' =
                tasks
                   \cup (IF "DEPS" \in msg.request THEN {"begin"} ELSE {})
                   \cup (IF "DATA" \in msg.request THEN {"chunk"} ELSE {})
                   \cup (IF "END" \in msg.request THEN {"chunk"} ELSE {})
                   \cup (IF "END" \in msg.request /\ complete /\ AllBytesChunked
                         THEN {"end"} ELSE {})

SenderReceives(c) ==
    /\ to_sender[c] # <<>>
    /\ to_sender' = [to_sender EXCEPT ![c] = Tail(@)]
    /\ LET msg == Head(to_sender[c]) IN
          IF msg.type = "ack" THEN AckReceived ELSE ResendRequestReceived(msg)
    /\ UNCHANGED <<alive, to_receiver, unheard, receiver, sender_csocks, added, complete,
                   next_seqno, announced, end_announced, sending_ifaces>>

-----------------------------------------------------------------------------
(***************************************************************************)
(* The receiver.  The lattice of one IROB: in it once anything of it has   *)
(* arrived, past when the application has read it.                         *)
(***************************************************************************)

SeenEnd == expected # -1
IsComplete == SeenEnd /\ received = 0 .. expected - 1
Past == read = expected
Known == begun \/ SeenEnd \/ received # {}

\* A mistake to rule out: off by one.
NumChunksAndOne ==
    IF received = {} THEN 0
    ELSE (CHOOSE s \in received : \A t \in received : t <= s) + 2 - read

\* The deque of chunks that have arrived, from which the ones that were read
\* have been popped, so that its indexes are seqnos only until reading starts.
NumChunks == IF received = {} THEN 0
             ELSE (CHOOSE s \in received : \A t \in received : t <= s) + 1 - read

\* get_missing_chunks: the holes, and after an End_IROB what is to follow.
MissingChunks ==
    {s \in Seqnos : /\ s < NumChunks
                    /\ read = 0 /\ s \notin received}
    \cup (IF SeenEnd THEN NumChunks .. expected - 1 ELSE {})

\* Mistakes to rule out: the ACK is sent although chunks are missing, or not
\* again for a duplicate.
ScheduleAckAtEnd(index) ==
    waiting_acks' = IF SeenEnd' /\ begun' THEN waiting_acks \cup {index}
                                        ELSE waiting_acks

ScheduleAckOnce(index) ==
    waiting_acks' = IF (IsComplete /\ begun)' /\ ~(IsComplete /\ begun)
                    THEN waiting_acks \cup {index}
                    ELSE waiting_acks

ScheduleAck(index) ==
    waiting_acks' = IF IsComplete' /\ begun' THEN waiting_acks \cup {index}
                                             ELSE waiting_acks

DoBeginIrob(c) ==
    /\ IF begun THEN UNCHANGED <<begun, waiting_acks>>
                ELSE begun' = TRUE /\ UNCHANGED <<received, expected>> /\ ScheduleAck(c)
    /\ UNCHANGED <<received, expected, resend_requests, partial>>

DoIrobChunk(c, seqno) ==
    /\ IF Past THEN UNCHANGED <<received, waiting_acks>>
               ELSE /\ received' = received \cup {seqno}
                    /\ UNCHANGED <<begun, expected>>
                    /\ ScheduleAck(c)
    /\ UNCHANGED <<begun, expected, resend_requests, partial>>

DoEndIrob(c, num_chunks) ==
    /\ expected' = IF SeenEnd THEN expected ELSE num_chunks
    /\ UNCHANGED <<begun, received, resend_requests, partial>>
    /\ ScheduleAck(c)

\* The request data_check_requested makes of an IROB in the lattice.
CheckedRequest ==
    (IF begun THEN {} ELSE {"DEPS"})
       \cup (IF MissingChunks = {} THEN {} ELSE {"DATA"})
       \cup (IF SeenEnd THEN {"END"} ELSE {})

\* do_data_check: data_check_requested.  Before the End_IROB there may be nothing to
\* ask for, and the IROB is ACKed as if it were all there.  resend_requests holds
\* one request for an IROB at a time.
DoDataCheck ==
    LET request == IF Known THEN CheckedRequest ELSE {"DEPS", "DATA", "END"} IN
    /\ IF Past \/ request = {}
       THEN /\ waiting_acks' = waiting_acks \cup {AnyCSock}
            /\ UNCHANGED resend_requests
       ELSE /\ resend_requests' = IF resend_requests = {} THEN {request}
                                                          ELSE resend_requests
            /\ UNCHANGED waiting_acks
    /\ partial' = (partial \/ (~Past /\ request = {}))
    /\ UNCHANGED <<begun, received, expected>>

ReceiverReceives(c) ==
    /\ to_receiver[c] # <<>>
    /\ to_receiver' = [to_receiver EXCEPT ![c] = Tail(@)]
    /\ LET msg == Head(to_receiver[c]) IN
          \/ msg.type = "begin" /\ DoBeginIrob(c)
          \/ msg.type = "chunk" /\ DoIrobChunk(c, msg.seqno)
          \/ msg.type = "end" /\ DoEndIrob(c, msg.num_chunks)
          \/ msg.type = "check" /\ DoDataCheck
    /\ UNCHANGED <<alive, to_sender, unheard, sender, receiver_csocks, read>>

\* recv, of one chunk
Read ==
    /\ IsComplete /\ begun
    /\ read < expected
    /\ read' = read + 1
    /\ UNCHANGED <<network, sender, receiver_csocks, begun, received, expected,
                   waiting_acks, resend_requests, partial>>

\* send_acks, from the index of csocket c or the common one.
SendAck(c, index) ==
    /\ c \in receiver_csocks
    /\ index \in waiting_acks \cap {c, AnyCSock}
    /\ waiting_acks' = waiting_acks \ {index}
    /\ Reply(c, Message("ack"))
    /\ UNCHANGED <<alive, to_receiver, sender, receiver_csocks, begun, received,
                   expected, read, resend_requests, partial>>

\* What becomes of the ACKs when the receiving end gives up csocket c: the one
\* scheduled for c is passed on to its replacement or to all.
PassedOn(c, acks) ==
    IF c \in acks
    THEN {(acks \ {c}) \cup {index} : index \in (receiver_csocks \ {c}) \cup {AnyCSock}}
    ELSE {acks}

\* send_acks when the write fails: the ACKs behind the first one are put back,
\* but not the first one itself.
SendAckFails(c, index) ==
    /\ c \in receiver_csocks \ alive
    /\ index \in waiting_acks \cap {c, AnyCSock}
    /\ waiting_acks' \in PassedOn(c, waiting_acks \ {index})
    /\ receiver_csocks' = receiver_csocks \ {c}
    /\ UNCHANGED <<network, sender, begun, received, expected, read, resend_requests,
                   partial>>

\* resend_request: what is missing is looked up when the request is sent.
SendResendRequest(c, request) ==
    LET missing == IF "DATA" \in request /\ ~Past THEN MissingChunks ELSE {}
        needed == IF missing = {} THEN request \ {"DATA"} ELSE request
        next_chunk == IF "END" \in request /\ Known /\ ~Past THEN NumChunks ELSE 0
    IN
    /\ c \in receiver_csocks
    /\ request \in resend_requests
    /\ resend_requests' = resend_requests \ {request}
    /\ \/ needed = {} /\ UNCHANGED <<to_sender, unheard>>
       \/ /\ needed # {}
          /\ Reply(c, [type |-> "resend", request |-> needed,
                       seqnos |-> missing, next_chunk |-> next_chunk])
    /\ UNCHANGED <<alive, to_receiver, sender, receiver_csocks, begun, received,
                   expected, read, waiting_acks, partial>>

\* A thread of the receiving end sees that a csocket is broken.
ReceiverNotices(c) ==
    /\ c \in receiver_csocks \ alive
    /\ receiver_csocks' = receiver_csocks \ {c}
    /\ waiting_acks' \in PassedOn(c, waiting_acks)
    /\ UNCHANGED <<network, sender, begun, received, expected, read, resend_requests,
                   partial>>

-----------------------------------------------------------------------------

SenderThread(c) ==
    \/ SendBegin(c) \/ SendWhole(c) \/ SendChunk(c) \/ SendEnd(c)
    \/ SendDataCheck(c) \/ SenderNotices(c) \/ SenderReceives(c)
    \/ \E task \in Tasks : WriteFails(c, task)

ReceiverThread(c) ==
    \/ ReceiverReceives(c)
    \/ \E index \in {c, AnyCSock} : SendAck(c, index) \/ SendAckFails(c, index)
    \/ \E request \in Requests : SendResendRequest(c, request)
    \/ ReceiverNotices(c)

Next ==
    \/ AddChunk \/ EndIrob \/ Read
    \/ \E c \in CSocks : Break(c) \/ SenderThread(c) \/ ReceiverThread(c)

Spec == Init /\ [][Next]_vars

(***************************************************************************)
(* Both applications finish what they are doing, and the threads of both   *)
(* ends keep running: each waits on scheduling_state_cv only while all the *)
(* indexes are empty, and every insertion is followed by a broadcast.  No  *)
(* csocket has to break.                                                   *)
(***************************************************************************)
Fairness ==
    /\ WF_vars(AddChunk) /\ WF_vars(EndIrob) /\ WF_vars(Read)
    /\ \A c \in CSocks :
          /\ WF_vars(SendBegin(c)) /\ WF_vars(SendChunk(c))
          /\ WF_vars(SendEnd(c)) /\ WF_vars(SendDataCheck(c))
          /\ WF_vars(SenderNotices(c)) /\ WF_vars(SenderReceives(c))
          /\ WF_vars(ReceiverReceives(c)) /\ WF_vars(ReceiverNotices(c))
          /\ \A index \in {c, AnyCSock} : WF_vars(SendAck(c, index))
          /\ \A request \in Requests : WF_vars(SendResendRequest(c, request))

FairSpec == Spec /\ Fairness

-----------------------------------------------------------------------------
(***************************************************************************)
(* Properties                                                              *)
(***************************************************************************)

\* The sender gives up its copy of the IROB only when the receiver holds all
\* of it, whichever of its messages and ACKs are lost or come twice; unless a data
\* check has had part of it ACKed.
ErasedIsReceived == erased /\ ~partial => begun /\ IsComplete

\* The same without the exception: an ACK means that all bytes were received
\* (ack_data.srv_time, "time from receiving all bytes to sending ACK").  TLC refutes
\* it: a csocket breaks between two chunks, and the data check that follows reaches
\* the receiver before the End_IROB.
AckedIsAllThere == erased => begun /\ IsComplete

\* A resend request names only chunks the sender has made, even when it is
\* computed from a deque that reading has shifted or arrives late: otherwise
\* mark_not_received, whose test is off by one, would index past sent_chunks.
Requested(msg) ==
    (IF "DATA" \in msg.request THEN msg.seqnos ELSE {})
       \cup (IF "END" \in msg.request THEN 0 .. msg.next_chunk - 1 ELSE {})

RequestsAreForSentChunks ==
    \A c \in CSocks : \A i \in DOMAIN to_sender[c] :
        to_sender[c][i].type = "resend" =>
            Requested(to_sender[c][i]) \subseteq 0 .. next_seqno - 1

\* End_IROB is on its way or has arrived only once the application has ended
\* the IROB and every chunk of it has been sent at least once, and the number of
\* chunks it announces is final.
EndIsLast ==
    LET Announces(num_chunks) == complete /\ next_seqno = added /\ num_chunks = added IN
    /\ SeenEnd => Announces(expected)
    /\ \A c \in CSocks : \A i \in DOMAIN to_receiver[c] :
          to_receiver[c][i].type = "end" => Announces(to_receiver[c][i].num_chunks)

\* Whatever breaks, between any two chunks, the IROB arrives and is read, unless
\* part of it was ACKed or a resend request was lost, which nobody repeats; a small
\* one always is.
Small == added = 1 /\ complete

EventuallyRead ==
    /\ <>(Past \/ partial \/ unheard)
    /\ Small => <>Past

\* ... and the sender learns of it and forgets the IROB, without which a
\* shutdown could not complete; with the same exceptions.
EventuallyErased ==
    /\ <>(erased \/ partial \/ unheard)
    /\ Small => <>erased

=============================================================================
