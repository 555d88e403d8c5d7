----------------------------- MODULE SenderIROB -----------------------------
(***************************************************************************)
(* One PendingSenderIROB: how the bytes the application adds to an IROB    *)
(* are cut into numbered chunks by the CSocketSender threads.              *)
(*                                                                         *)
(* The threads share the list sent_chunks, and each keeps a position in it *)
(* (a seqno and an offset).  An IROB is first sent by one thread at a time *)
(* with a common position, Single; when the IROB is marked for redundancy  *)
(* each thread starts again from its own.  The receiver identifies a chunk *)
(* by its seqno and treats a copy with another offset or length as a fatal *)
(* error, so all copies must agree.  get_ready_bytes and the operations    *)
(* around it run under scheduling_state_lock; the write to the socket does *)
(* not, but the message is built before it.  The one thing that changes    *)
(* without that lock is send_on_all_networks: an application thread sets it *)
(* in get_csock -> check_redundancy, at any point of a thread's            *)
(* get_ready_bytes, which looks at it again for every value it reads.      *)
(***************************************************************************)
EXTENDS Integers, Sequences

CONSTANTS CSocks,        \* the connections, each with its sender thread
          Single,        \* the index used while the IROB is not redundant (NULL)
          MaxBytes,      \* bound: the most bytes the application writes
          MinChunk,      \* MIN_CHUNKSIZE, the least a thread asks for at a time
          MaxChunk       \* ... and the most

ASSUME ChunkAssumption ==
    /\ Single \notin CSocks
    /\ MaxBytes \in Nat
    /\ MinChunk \in Nat \ {0} /\ MaxChunk \in Nat

Keys == CSocks \cup {Single}

VARIABLES
    num_bytes,             \* bytes the application has added
    complete,
    send_on_all_networks,
    sent_chunks,           \* the chunks made so far; seqno s is at s + 1
    irob_offsets,
    next_seqnos_to_send,
    announcements,         \* indexes under which Begin_IROB has been sent
    sending_ifaces,        \* csockets that have tried to send some of the IROB
    resend_chunks,
    chunk_msgs,            \* every IROB_chunk message sent
    end_msgs,              \* every End_IROB message sent
    sent_bytes,            \* what all_bytes_chunked sums up: the lengths of sent_chunks
    torn,                  \* history: the flag was set between two reads of get_ready_bytes
    aborted                \* an ASSERT has failed

position == <<irob_offsets, next_seqnos_to_send>>
app == <<num_bytes, complete>>
msgs == <<chunk_msgs, end_msgs>>
sending == <<announcements, sending_ifaces>>
list == <<sent_chunks, sent_bytes>>
flag == <<send_on_all_networks, torn>>
vars == <<app, flag, list, position, sending, resend_chunks, msgs, aborted>>

Chunk == [seqno : Nat, offset : Nat, datalen : Nat]

TypeOK ==
    /\ num_bytes \in 0 .. MaxBytes
    /\ complete \in BOOLEAN
    /\ send_on_all_networks \in BOOLEAN
    /\ sent_chunks \in Seq(Chunk)
    /\ irob_offsets \in [Keys -> Nat]
    /\ next_seqnos_to_send \in [Keys -> Nat]
    /\ announcements \subseteq Keys
    /\ sending_ifaces \subseteq CSocks
    /\ resend_chunks \subseteq Chunk
    /\ chunk_msgs \subseteq Chunk
    /\ end_msgs \subseteq [expected_bytes : Nat, expected_chunks : Nat]
    /\ sent_bytes \in Nat
    /\ torn \in BOOLEAN
    /\ aborted \in BOOLEAN

Init ==
    /\ num_bytes = 0
    /\ complete = FALSE
    /\ send_on_all_networks = FALSE
    /\ sent_chunks = <<>>
    /\ irob_offsets = [k \in Keys |-> 0]
    /\ next_seqnos_to_send = [k \in Keys |-> 0]
    /\ announcements = {}
    /\ sending_ifaces = {}
    /\ resend_chunks = {}
    /\ chunk_msgs = {}
    /\ end_msgs = {}
    /\ sent_bytes = 0
    /\ torn = FALSE
    /\ aborted = FALSE

-----------------------------------------------------------------------------
(***************************************************************************)
(* Helpers                                                                 *)
(***************************************************************************)

\* null_index_if_single_sending
Key(c) == IF send_on_all_networks THEN c ELSE Single

\* How far sent_chunks reach.
SentBytes ==
    IF sent_chunks = <<>> THEN 0
    ELSE sent_chunks[Len(sent_chunks)].offset + sent_chunks[Len(sent_chunks)].datalen

\* A mistake to rule out: nobody checks that all of the IROB has been cut up.
AllBytesChunkedAssumed == TRUE

AllBytesChunked == sent_bytes = num_bytes

\* find_app_chunk on sent_chunks: the chunks made so far that hold the byte at
\* an offset.
Holding(offset) ==
    {s \in DOMAIN sent_chunks :
        /\ sent_chunks[s].offset <= offset
        /\ offset < sent_chunks[s].offset + sent_chunks[s].datalen}

\* Mistakes to rule out: more than there is, or a chunk made before in other
\* pieces.
GatherWanted(offset, want) ==
    IF Holding(offset) # {}
    THEN sent_chunks[CHOOSE s \in Holding(offset) : TRUE].datalen
    ELSE want

GatherAfresh(offset, want) ==
    IF want < num_bytes - offset THEN want ELSE num_bytes - offset

\* get_bytes_internal: how many bytes it gathers from an offset.  If the byte
\* is in a chunk that was made before, the whole of that chunk, exactly.
Gather(offset, want) ==
    IF Holding(offset) # {}
    THEN sent_chunks[CHOOSE s \in Holding(offset) : TRUE].datalen
    ELSE IF want < num_bytes - offset THEN want ELSE num_bytes - offset

\* ... and its assertion that the byte is the first one of that chunk.
GathersWholeChunk(offset) ==
    \A s \in Holding(offset) : sent_chunks[s].offset = offset

\* A mistake to rule out: the last seqno for the number of chunks.
EndMsgLastSeqno ==
    [expected_bytes |-> num_bytes, expected_chunks |-> Len(sent_chunks) - 1]

EndMsg == [expected_bytes |-> num_bytes, expected_chunks |-> Len(sent_chunks)]

\* get_ready_bytes and add_sent_chunk look up the flag for each of the values
\* they read or write: the next seqno and the offset of the thread, then again
\* the seqno, its increment, the offset and its increment.
Reads == 6

\* The index of the i-th of them when the flag is set after the first n.
ReadKey(c, n, i) == IF i <= n THEN Key(c) ELSE c

\* An application thread sets the flag after n of the reads (before all of them
\* if n = 0, during the write that follows if n = Reads), or not at all.
Decides(n) ==
    /\ send_on_all_networks => n = Reads + 1
    /\ send_on_all_networks' = (send_on_all_networks \/ n <= Reads)
    /\ torn' = (torn \/ n \in 1 .. Reads - 1)

\* The chunk get_ready_bytes puts in the message when there is nothing to send
\* again ...
NextChunk(c, want, n) ==
    LET offset == irob_offsets[ReadKey(c, n, 2)] IN
    [seqno |-> next_seqnos_to_send[ReadKey(c, n, 1)],
     offset |-> offset,
     datalen |-> Gather(offset, want)]

\* ... and the one it has add_sent_chunk make.
MadeChunk(c, want, n) ==
    [seqno |-> next_seqnos_to_send[ReadKey(c, n, 3)],
     offset |-> irob_offsets[ReadKey(c, n, 5)],
     datalen |-> NextChunk(c, want, n).datalen]

\* add_sent_chunk, for the thread of c: the position moves on, and the chunk is
\* put on the list if no thread has made it before; otherwise it must be the
\* same one.
AddSentChunk(c, chunk, n) ==
    /\ next_seqnos_to_send' = [next_seqnos_to_send EXCEPT ![ReadKey(c, n, 4)] = @ + 1]
    /\ irob_offsets' = [irob_offsets EXCEPT ![ReadKey(c, n, 6)] = @ + chunk.datalen]
    /\ IF chunk.seqno = Len(sent_chunks)
       THEN /\ sent_chunks' = Append(sent_chunks, chunk)
            /\ sent_bytes' = sent_bytes + chunk.datalen
       ELSE UNCHANGED list

AddsSameChunk(chunk) ==
    /\ chunk.seqno <= Len(sent_chunks)
    /\ chunk.seqno < Len(sent_chunks) =>
          sent_chunks[chunk.seqno + 1] = chunk

-----------------------------------------------------------------------------
(***************************************************************************)
(* The application and the redundancy decision                             *)
(***************************************************************************)

\* PendingSenderIROB::add_chunk
AddChunk(datalen) ==
    /\ ~complete
    /\ num_bytes + datalen <= MaxBytes
    /\ num_bytes' = num_bytes + datalen
    /\ UNCHANGED <<complete, flag, list, position, sending,
                   resend_chunks, msgs, aborted>>

\* PendingIROB::finish
Finish ==
    /\ ~complete
    /\ complete' = TRUE
    /\ UNCHANGED <<num_bytes, flag, list, position, sending,
                   resend_chunks, msgs, aborted>>

\* check_redundancy decides, at some point, to send the IROB on all networks.
MarkSendOnAllNetworks ==
    /\ ~send_on_all_networks
    /\ send_on_all_networks' = TRUE
    /\ UNCHANGED <<app, torn, list, position, sending, resend_chunks, msgs,
                   aborted>>

-----------------------------------------------------------------------------
(***************************************************************************)
(* The sender thread of csocket c                                          *)
(***************************************************************************)

\* irob_chunk (or a data check) takes up to want bytes.  The chunks that were
\* asked for again come first, whichever thread is there first.
ResendChunk(chunk) ==
    /\ chunk \in resend_chunks
    /\ resend_chunks' = resend_chunks \ {chunk}
    /\ chunk_msgs' = chunk_msgs \cup {chunk}
    /\ UNCHANGED <<app, flag, list, position, sending,
                   end_msgs, aborted>>

SendChunk(c, want, n) ==
    LET chunk == NextChunk(c, want, n)
        made == MadeChunk(c, want, n)
        ok == GathersWholeChunk(chunk.offset) /\ AddsSameChunk(made)
    IN
    /\ sending_ifaces # {}
    /\ resend_chunks = {}
    /\ chunk.datalen > 0
    /\ Decides(n)
    /\ AddSentChunk(c, made, n)
    /\ chunk_msgs' = IF ok THEN chunk_msgs \cup {chunk} ELSE chunk_msgs
    /\ sending_ifaces' = sending_ifaces \cup {c}
    /\ aborted' = ~ok
    /\ UNCHANGED <<app, announcements, resend_chunks, end_msgs>>

\* begin_irob.  If the write fails, the IROB counts as sent on the csocket but
\* not as announced.
Announce(c) ==
    /\ sending_ifaces' = sending_ifaces \cup {c}
    /\ announcements' \in {announcements, announcements \cup {Key(c)'}}

SmallAndNew(c) ==
    complete /\ num_bytes < MinChunk /\ Key(c) \notin announcements

SendBegin(c) ==
    /\ ~SmallAndNew(c)
    /\ UNCHANGED <<app, flag, list, position, resend_chunks, msgs, aborted>>
    /\ Announce(c)

\* begin_irob of a small, complete IROB: Begin_IROB, IROB_chunk and End_IROB go
\* out in one write, after the assertion that this is all of the IROB.
SendWhole(c, chunk, n) ==
    LET made == IF resend_chunks = {} THEN MadeChunk(c, num_bytes, n) ELSE chunk
        ok == /\ GathersWholeChunk(chunk.offset) /\ AddsSameChunk(made)
              /\ AllBytesChunked'
    IN
    /\ chunk \in IF resend_chunks = {} THEN {NextChunk(c, num_bytes, n)}
                                       ELSE resend_chunks
    /\ SmallAndNew(c)
    /\ Decides(n)
    /\ UNCHANGED app
    /\ IF resend_chunks # {} \/ chunk.datalen = 0
       THEN UNCHANGED <<list, position>>
       ELSE AddSentChunk(c, made, n)
    /\ resend_chunks' = resend_chunks \ {chunk}
    /\ aborted' = ~ok
    /\ \/ ~ok /\ UNCHANGED <<sending, msgs>>
       \/ ok /\ Announce(c) /\ chunk.datalen = 0 /\ UNCHANGED msgs
       \/ /\ ok /\ Announce(c) /\ chunk.datalen > 0
          /\ chunk_msgs' = chunk_msgs \cup {chunk}
          /\ end_msgs' = end_msgs \cup {EndMsg'}

\* end_irob, scheduled when the IROB is complete and all of it is in chunks.
SendEnd ==
    /\ complete /\ AllBytesChunked
    /\ end_msgs' = end_msgs \cup {EndMsg}
    /\ UNCHANGED <<app, flag, list, position, sending,
                   resend_chunks, chunk_msgs, aborted>>

\* A mistake to rule out: the repeated chunk is given the next seqno.
LastSentChunkRenumbered(c) ==
    [sent_chunks[next_seqnos_to_send[Key(c)]] EXCEPT
        !.seqno = next_seqnos_to_send[Key(c)]]

\* get_last_sent_chunk_htonl
LastSentChunk(c) == sent_chunks[next_seqnos_to_send[Key(c)]]

\* A data check with nothing new to send repeats the
\* last chunk the thread sent.
RepeatLastChunk(c) ==
    /\ resend_chunks = {}
    /\ NextChunk(c, MinChunk, Reads).datalen = 0
    /\ sent_chunks # <<>> /\ next_seqnos_to_send[Key(c)] > 0
    /\ chunk_msgs' = chunk_msgs \cup {LastSentChunk(c)}
    /\ UNCHANGED <<app, flag, list, position, sending,
                   resend_chunks, end_msgs, aborted>>

\* mark_not_received, for a seqno the receiver misses
MarkNotReceived(seqno) ==
    /\ resend_chunks' = resend_chunks \cup {sent_chunks[seqno + 1]}
    /\ UNCHANGED <<app, flag, list, position, sending,
                   msgs, aborted>>

\* mark_drop_point, when the receiver has nothing from next_chunk on
MarkDropPoint(next_chunk) ==
    /\ resend_chunks' = resend_chunks \cup
          {sent_chunks[s] : s \in next_chunk + 1 .. Len(sent_chunks)}
    /\ UNCHANGED <<app, flag, list, position, sending,
                   msgs, aborted>>

Next ==
    /\ ~aborted
    /\ \/ \E datalen \in 1 .. MaxBytes : AddChunk(datalen)
       \/ Finish
       \/ MarkSendOnAllNetworks
       \/ \E chunk \in resend_chunks : ResendChunk(chunk)
       \/ \E c \in CSocks :
             \/ SendBegin(c)
             \/ RepeatLastChunk(c)
             \/ \E n \in 0 .. Reads + 1 :
                   \/ \E want \in MinChunk .. MaxChunk : SendChunk(c, want, n)
                   \/ \E chunk \in resend_chunks \cup {NextChunk(c, num_bytes, n)} :
                         SendWhole(c, chunk, n)
       \/ SendEnd
       \/ \E seqno \in 0 .. Len(sent_chunks) - 1 :
             MarkNotReceived(seqno) \/ MarkDropPoint(seqno)

Spec == Init /\ [][Next]_vars

-----------------------------------------------------------------------------
(***************************************************************************)
(* Properties                                                              *)
(***************************************************************************)

\* The chunks are numbered from 0 and tile the IROB from its first byte.
Tiled ==
    /\ \A s \in DOMAIN sent_chunks :
          /\ sent_chunks[s].seqno = s - 1
          /\ sent_chunks[s].datalen > 0
          /\ sent_chunks[s].offset =
                IF s = 1 THEN 0
                ELSE sent_chunks[s-1].offset + sent_chunks[s-1].datalen
    /\ SentBytes <= num_bytes
    /\ sent_bytes = SentBytes

\* Every position is at the start of the chunk with its next seqno.
OnBoundaries ==
    \A k \in Keys :
        /\ next_seqnos_to_send[k] <= Len(sent_chunks)
        /\ irob_offsets[k] =
              IF next_seqnos_to_send[k] = Len(sent_chunks) THEN SentBytes
              ELSE sent_chunks[next_seqnos_to_send[k] + 1].offset

\* "the seqno identifies the offset and len uniquely" (cmm_socket_control.h):
\* all copies of a chunk that are ever sent agree.  PendingReceiverIROB::add_chunk
\* makes the receiver give up the multisocket if they do not.  TLC refutes it: a
\* thread that finds the flag set between its two reads of the seqno and the
\* offset sends the one of the common position with the other of its own.
SeqnoIdentifiesChunk ==
    \A one, other \in chunk_msgs : one.seqno = other.seqno => one = other

\* The chunks made are numbered from 0, tile the IROB from its first byte
\* without gaps or overlaps, and stay within what the application has written,
\* whichever threads made them and in whatever sizes; redundancy decided before,
\* between or after the get_ready_bytes of any thread included, but not within
\* one (torn).
ChunksTile == ~torn => Tiled

\* Every thread's position is at the start of the chunk with its next seqno,
\* or at the end of the last one, however far the others are: what the
\* assertions of get_bytes_internal and add_sent_chunk ("check for incorrect
\* re-chunking bug") need, except after a torn read.
PositionsOnBoundaries == ~torn => OnBoundaries

\* All copies of a chunk agree, the ones sent again after a failure, by a data
\* check or redundantly included, unless the flag was set in the middle of a
\* get_ready_bytes: that is all it takes to break SeqnoIdentifiesChunk.
CopiesAgree == ~torn => SeqnoIdentifiesChunk

\* All copies of End_IROB agree, and announce exactly the bytes of the IROB and
\* more chunks than any seqno that is ever sent: what finish and is_complete
\* assert at the receiver, except after a torn read.
EndsAgree ==
    ~torn => \A end \in end_msgs :
                /\ complete
                /\ end.expected_bytes = num_bytes
                /\ end.expected_chunks = Len(sent_chunks)
                /\ \A chunk \in chunk_msgs : chunk.seqno < end.expected_chunks

\* begin_irob: "because it is very small, and we're sending all of its data
\* now", ASSERT(psirob->all_bytes_chunked()).  TLC refutes it (README, section
\* 5).  The other assertions hold by the invariants above, so this one decides
\* whether the process aborts.
NoAssertFails == ~aborted

=============================================================================
