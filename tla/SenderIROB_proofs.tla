-------------------------- MODULE SenderIROB_proofs --------------------------
(***************************************************************************)
(* For any number of csockets, any sizes of what the application writes    *)
(* and of what the threads ask for: the sender threads cut an IROB into    *)
(* chunks that tile it, and all copies of a chunk and of End_IROB agree.   *)
(*                                                                         *)
(* That the chunks tile says only how each joins the one before.  That a   *)
(* thread which is behind the others finds the one chunk that starts at    *)
(* its position, and no other, needs the order of all of them (Ordered);   *)
(* that the copies agree needs that every message, and every chunk to be   *)
(* sent again, is a chunk of the list (MsgsAreSent); and that End_IROB     *)
(* stays true needs that nothing can follow it (EndIsFinal).  A step that  *)
(* is torn keeps none of this, and torn never becomes false again, so the  *)
(* invariant is proved of the states in which it is false.                 *)
(***************************************************************************)
EXTENDS SenderIROB, TLAPS

End(s) == sent_chunks[s].offset + sent_chunks[s].datalen

\* No chunk begins before an earlier one has ended.
Ordered ==
    /\ \A i, j \in DOMAIN sent_chunks : i < j => End(i) <= sent_chunks[j].offset
    /\ \A i \in DOMAIN sent_chunks : End(i) <= SentBytes

Sent(m) == m.seqno + 1 \in DOMAIN sent_chunks /\ sent_chunks[m.seqno + 1] = m

MsgsAreSent == \A m \in chunk_msgs \cup resend_chunks : Sent(m)

EndIsFinal ==
    \A end \in end_msgs : /\ complete /\ SentBytes = num_bytes
                          /\ end = [expected_bytes |-> num_bytes,
                                    expected_chunks |-> Len(sent_chunks)]

Chunked == Tiled /\ Ordered /\ OnBoundaries

IInv == TypeOK /\ Chunked /\ MsgsAreSent /\ EndIsFinal

-----------------------------------------------------------------------------

\* The types the provers need of the list, spelled out.
LEMMA Types ==
    ASSUME TypeOK
    PROVE  /\ Len(sent_chunks) \in Nat /\ DOMAIN sent_chunks = 1 .. Len(sent_chunks)
           /\ \A s \in DOMAIN sent_chunks :
                 /\ sent_chunks[s] \in Chunk
                 /\ sent_chunks[s].seqno \in Nat /\ sent_chunks[s].offset \in Nat
                 /\ sent_chunks[s].datalen \in Nat
           /\ SentBytes \in Nat /\ num_bytes \in Nat
           /\ \A k \in Keys : irob_offsets[k] \in Nat /\ next_seqnos_to_send[k] \in Nat
           /\ sent_chunks = <<>> <=> Len(sent_chunks) = 0
  <1>1. /\ Len(sent_chunks) \in Nat /\ DOMAIN sent_chunks = 1 .. Len(sent_chunks)
        /\ \A s \in DOMAIN sent_chunks : sent_chunks[s] \in Chunk
        /\ sent_chunks = <<>> <=> Len(sent_chunks) = 0
    BY DEF TypeOK
  <1>2. \A s \in DOMAIN sent_chunks :
                 /\ sent_chunks[s].seqno \in Nat /\ sent_chunks[s].offset \in Nat
                 /\ sent_chunks[s].datalen \in Nat
    BY <1>1 DEF Chunk
  <1>3. SentBytes \in Nat
    BY <1>1, <1>2 DEF SentBytes
  <1> QED
    BY <1>1, <1>2, <1>3, ChunkAssumption DEF TypeOK

\* find_app_chunk: the position of a thread is where the chunk with its next
\* seqno starts, and no other chunk holds that byte; at the end of the list no
\* chunk does.
LEMMA HoldingAtPosition ==
    ASSUME TypeOK, Chunked, NEW k \in Keys
    PROVE  Holding(irob_offsets[k]) =
              IF next_seqnos_to_send[k] = Len(sent_chunks) THEN {}
              ELSE {next_seqnos_to_send[k] + 1}
  <1> DEFINE n == next_seqnos_to_send[k]
  <1>1. n \in Nat /\ n <= Len(sent_chunks) /\ Len(sent_chunks) \in Nat
    BY Types DEF Chunked, OnBoundaries
  <1>2. CASE n = Len(sent_chunks)
    <2>1. irob_offsets[k] = SentBytes
      BY <1>2 DEF Chunked, OnBoundaries
    <2>2. \A s \in DOMAIN sent_chunks : End(s) <= irob_offsets[k] /\ End(s) \in Nat
      BY <2>1, Types DEF Chunked, Ordered, End
    <2> QED
      BY <1>2, <2>1, <2>2, Types DEF Holding, End
  <1>3. CASE n # Len(sent_chunks)
    <2>1. n + 1 \in DOMAIN sent_chunks /\ irob_offsets[k] = sent_chunks[n + 1].offset
      BY <1>1, <1>3, Types DEF Chunked, OnBoundaries
    <2>2. n + 1 \in Holding(irob_offsets[k])
      BY <2>1, Types DEF Holding, Chunked, Tiled
    <2>3. ASSUME NEW s \in Holding(irob_offsets[k]), s # n + 1 PROVE FALSE
      <3>1. /\ s \in DOMAIN sent_chunks /\ sent_chunks[s].offset <= sent_chunks[n + 1].offset
            /\ sent_chunks[n + 1].offset < End(s)
        BY <2>1, <2>3 DEF Holding, End
      <3>2. CASE s < n + 1
        BY <2>1, <3>1, <3>2, Types DEF Chunked, Ordered, End
      <3>3. CASE s > n + 1
        <4>1. End(n + 1) <= sent_chunks[s].offset
          BY <2>1, <3>1, <3>3, <1>1, Types DEF Chunked, Ordered
        <4>2. sent_chunks[n + 1].datalen > 0
          BY <2>1 DEF Chunked, Tiled
        <4> QED
          BY <2>1, <3>1, <4>1, <4>2, Types DEF End
      <3> QED
        BY <1>1, <2>3, <3>1, <3>2, <3>3, Types
    <2> QED
      BY <1>3, <2>2, <2>3
  <1> QED
    BY <1>2, <1>3

\* get_ready_bytes: at the end of the list a thread makes a chunk of what there
\* is, and anywhere else the chunk that was made before.
LEMMA NextChunkFacts ==
    ASSUME TypeOK, Chunked, NEW k \in Keys, NEW want \in Nat,
           NEW chunk, chunk = [seqno |-> next_seqnos_to_send[k], offset |-> irob_offsets[k],
                               datalen |-> Gather(irob_offsets[k], want)]
    PROVE  /\ chunk \in Chunk
           /\ GathersWholeChunk(chunk.offset) /\ AddsSameChunk(chunk)
           /\ chunk.seqno # Len(sent_chunks) => Sent(chunk)
           /\ chunk.seqno = Len(sent_chunks) =>
                 /\ chunk.offset = SentBytes
                 /\ chunk.offset + chunk.datalen <= num_bytes
  <1> DEFINE n == next_seqnos_to_send[k]
  <1>1. n \in Nat /\ n <= Len(sent_chunks) /\ Len(sent_chunks) \in Nat
        /\ irob_offsets[k] \in Nat /\ num_bytes \in Nat /\ SentBytes \in Nat
    BY Types DEF Chunked, OnBoundaries
  <1>2. /\ chunk.seqno = n /\ chunk.offset = irob_offsets[k]
        /\ chunk.datalen = Gather(irob_offsets[k], want)
    OBVIOUS
  <1>3. CASE n = Len(sent_chunks)
    <2>1. Holding(irob_offsets[k]) = {} /\ irob_offsets[k] = SentBytes
      BY <1>3, HoldingAtPosition DEF Chunked, OnBoundaries
    <2>2. SentBytes <= num_bytes
      BY DEF Chunked, Tiled
    <2>3. chunk.datalen \in Nat /\ chunk.offset + chunk.datalen <= num_bytes
      BY <1>1, <1>2, <2>1, <2>2 DEF Gather
    <2>4. chunk \in Chunk
      BY <1>1, <1>2, <2>3 DEF Chunk
    <2>5. GathersWholeChunk(chunk.offset) /\ AddsSameChunk(chunk)
      BY <1>1, <1>2, <1>3, <2>1 DEF GathersWholeChunk, AddsSameChunk
    <2> QED
      BY <1>2, <1>3, <2>1, <2>3, <2>4, <2>5
  <1>4. CASE n # Len(sent_chunks)
    <2>1. /\ Holding(irob_offsets[k]) = {n + 1} /\ n + 1 \in DOMAIN sent_chunks
          /\ irob_offsets[k] = sent_chunks[n + 1].offset
      <3>1. Holding(irob_offsets[k]) = {n + 1}
        BY <1>4, HoldingAtPosition
      <3> QED
        BY <1>1, <1>4, <3>1, Types DEF Chunked, OnBoundaries
    <2>2. chunk.datalen = sent_chunks[n + 1].datalen
      BY <1>2, <2>1 DEF Gather
    <2>3. sent_chunks[n + 1].seqno = n /\ sent_chunks[n + 1] \in Chunk
      BY <1>1, <2>1, Types DEF Chunked, Tiled
    <2>4. chunk = sent_chunks[n + 1]
      BY <1>2, <2>1, <2>2, <2>3 DEF Chunk
    <2>5. GathersWholeChunk(chunk.offset) /\ AddsSameChunk(chunk)
      BY <1>1, <1>2, <1>4, <2>1, <2>4 DEF GathersWholeChunk, AddsSameChunk
    <2> QED
      BY <1>2, <1>4, <2>1, <2>3, <2>4, <2>5 DEF Sent
  <1> QED
    BY <1>3, <1>4

-----------------------------------------------------------------------------

\* The list grows by a chunk at its end.
LEMMA ListGrows ==
    ASSUME TypeOK, Chunked, NEW chunk \in Chunk,
           chunk.seqno = Len(sent_chunks), chunk.offset = SentBytes, chunk.datalen > 0,
           chunk.offset + chunk.datalen <= num_bytes,
           sent_chunks' = Append(sent_chunks, chunk),
           sent_bytes' = sent_bytes + chunk.datalen, num_bytes' = num_bytes
    PROVE  /\ sent_chunks' \in Seq(Chunk) /\ Len(sent_chunks') = Len(sent_chunks) + 1
           /\ \A s \in DOMAIN sent_chunks : s \in DOMAIN sent_chunks' /\ sent_chunks'[s] = sent_chunks[s]
           /\ DOMAIN sent_chunks' = 1 .. Len(sent_chunks) + 1
           /\ sent_chunks'[Len(sent_chunks) + 1] = chunk
           /\ SentBytes' = SentBytes + chunk.datalen
           /\ Tiled' /\ Ordered'
  <1> DEFINE l == Len(sent_chunks)
  <1>1. /\ sent_chunks' \in Seq(Chunk) /\ Len(sent_chunks') = l + 1
        /\ \A s \in 1 .. l : sent_chunks'[s] = sent_chunks[s]
        /\ sent_chunks'[l + 1] = chunk /\ l \in Nat /\ DOMAIN sent_chunks = 1 .. l
    BY DEF TypeOK
  <1>2. DOMAIN sent_chunks' = 1 .. l + 1
    BY <1>1
  <1>3. \A s \in DOMAIN sent_chunks : s \in DOMAIN sent_chunks' /\ sent_chunks'[s] = sent_chunks[s]
    BY <1>1, <1>2
  <1>4. chunk.seqno \in Nat /\ chunk.offset \in Nat /\ chunk.datalen \in Nat
    BY DEF Chunk
  <1>5. SentBytes' = SentBytes + chunk.datalen
    <2>1. sent_chunks' # <<>>
      BY <1>1
    <2> QED
      BY <1>1, <1>4, <2>1 DEF SentBytes
  <1>6. Tiled'
    <2>1. SentBytes' <= num_bytes' /\ sent_bytes' = SentBytes'
      BY <1>5 DEF Chunked, Tiled
    <2>2. ASSUME NEW s \in DOMAIN sent_chunks'
          PROVE  /\ sent_chunks'[s].seqno = s - 1 /\ sent_chunks'[s].datalen > 0
                 /\ sent_chunks'[s].offset =
                       IF s = 1 THEN 0
                       ELSE sent_chunks'[s-1].offset + sent_chunks'[s-1].datalen
      <3>1. CASE s \in 1 .. l
        <4>1. sent_chunks'[s] = sent_chunks[s] /\ (s # 1 => sent_chunks'[s-1] = sent_chunks[s-1])
          BY <1>1, <3>1
        <4>2. s \in DOMAIN sent_chunks
          BY <1>1, <3>1
        <4> QED
          BY <4>1, <4>2 DEF Chunked, Tiled
      <3>2. CASE s = l + 1
        <4>1. sent_chunks'[s] = chunk
          BY <1>1, <3>2
        <4>2. CASE l = 0
          BY <1>1, <1>4, <3>2, <4>1, <4>2, Types DEF SentBytes
        <4>3. CASE l # 0
          <5>1. s - 1 = l /\ l \in 1 .. l /\ s # 1
            BY <1>1, <3>2, <4>3
          <5>2. sent_chunks'[s-1] = sent_chunks[l]
            BY <1>1, <5>1
          <5>3. SentBytes = sent_chunks[l].offset + sent_chunks[l].datalen
            BY <4>3, Types DEF SentBytes
          <5>4. chunk.seqno = s - 1
            BY <5>1
          <5> QED
            BY <1>4, <4>1, <5>1, <5>2, <5>3, <5>4
        <4> QED
          BY <4>2, <4>3
      <3> QED
        BY <1>1, <1>2, <3>1, <3>2
    <2> QED
      BY <2>1, <2>2 DEF Tiled
  <1>7. Ordered'
    <2>1. \A i \in DOMAIN sent_chunks : End(i)' = End(i) /\ End(i) \in Nat /\ End(i) <= SentBytes
      BY <1>3, Types DEF End, Chunked, Ordered
    <2>2. \A i : i = l + 1 => End(i)' = SentBytes'
      BY <1>1, <1>4, <1>5 DEF End
    <2>3. SentBytes \in Nat
      BY Types
    <2>4. \A i \in DOMAIN sent_chunks' : End(i)' <= SentBytes'
      BY <1>1, <1>2, <1>4, <1>5, <2>1, <2>2, <2>3
    <2>5. ASSUME NEW i \in DOMAIN sent_chunks', NEW j \in DOMAIN sent_chunks', i < j
          PROVE  End(i)' <= sent_chunks'[j].offset
      <3>1. i \in DOMAIN sent_chunks
        BY <1>1, <1>2, <2>5
      <3>2. CASE j \in DOMAIN sent_chunks
        BY <1>3, <2>1, <2>5, <3>1, <3>2 DEF Chunked, Ordered
      <3>3. CASE j = l + 1
        BY <1>1, <2>1, <3>1, <3>3
      <3> QED
        BY <1>1, <1>2, <3>2, <3>3
    <2> QED
      BY <2>4, <2>5 DEF Ordered
  <1> QED
    BY <1>1, <1>2, <1>3, <1>5, <1>6, <1>7

\* add_sent_chunk when all its reads see the same index k
Adds(k, chunk) ==
    /\ next_seqnos_to_send' = [next_seqnos_to_send EXCEPT ![k] = @ + 1]
    /\ irob_offsets' = [irob_offsets EXCEPT ![k] = @ + chunk.datalen]
    /\ IF chunk.seqno = Len(sent_chunks)
       THEN /\ sent_chunks' = Append(sent_chunks, chunk)
            /\ sent_bytes' = sent_bytes + chunk.datalen
       ELSE UNCHANGED list

\* add_sent_chunk, with the chunk get_ready_bytes has made
LEMMA Advance ==
    ASSUME TypeOK, Chunked, NEW k \in Keys, NEW chunk \in Chunk,
           chunk.seqno = next_seqnos_to_send[k], chunk.offset = irob_offsets[k],
           chunk.datalen > 0,
           chunk.seqno # Len(sent_chunks) => Sent(chunk),
           chunk.seqno = Len(sent_chunks) => /\ chunk.offset = SentBytes
                                             /\ chunk.offset + chunk.datalen <= num_bytes,
           Adds(k, chunk), num_bytes' = num_bytes
    PROVE  /\ sent_chunks' \in Seq(Chunk)
           /\ irob_offsets' \in [Keys -> Nat] /\ next_seqnos_to_send' \in [Keys -> Nat]
           /\ Chunked'
           /\ \A m : Sent(m) => Sent(m)'
           /\ Sent(chunk)'
           /\ SentBytes = num_bytes => sent_chunks' = sent_chunks
           /\ sent_bytes' \in Nat
  <1> DEFINE n == next_seqnos_to_send[k]
             l == Len(sent_chunks)
  <1>1. /\ n \in Nat /\ l \in Nat /\ n <= l /\ SentBytes \in Nat
        /\ irob_offsets[k] \in Nat /\ chunk.datalen \in Nat
    BY Types DEF Chunked, OnBoundaries, Chunk
  <1>2. /\ next_seqnos_to_send' = [next_seqnos_to_send EXCEPT ![k] = n + 1]
        /\ irob_offsets' = [irob_offsets EXCEPT ![k] = irob_offsets[k] + chunk.datalen]
    BY DEF Adds, list
  <1>3. /\ irob_offsets' \in [Keys -> Nat] /\ next_seqnos_to_send' \in [Keys -> Nat]
        /\ next_seqnos_to_send'[k] = n + 1 /\ irob_offsets'[k] = irob_offsets[k] + chunk.datalen
        /\ \A q \in Keys \ {k} : /\ next_seqnos_to_send'[q] = next_seqnos_to_send[q]
                                 /\ irob_offsets'[q] = irob_offsets[q]
    BY <1>1, <1>2 DEF TypeOK
  <1>4. CASE n = l
    <2>1. /\ sent_chunks' = Append(sent_chunks, chunk)
          /\ sent_bytes' = sent_bytes + chunk.datalen /\ sent_bytes' \in Nat
      BY <1>1, <1>4 DEF Adds, TypeOK
    <2>2. /\ sent_chunks' \in Seq(Chunk) /\ Len(sent_chunks') = l + 1
          /\ \A s \in DOMAIN sent_chunks : s \in DOMAIN sent_chunks' /\ sent_chunks'[s] = sent_chunks[s]
          /\ DOMAIN sent_chunks' = 1 .. l + 1
          /\ sent_chunks'[l + 1] = chunk
          /\ SentBytes' = SentBytes + chunk.datalen
          /\ Tiled' /\ Ordered'
      BY <1>4, <2>1, ListGrows
    <2>3. OnBoundaries'
      <3> SUFFICES ASSUME NEW q \in Keys
                   PROVE  /\ next_seqnos_to_send'[q] <= Len(sent_chunks')
                          /\ irob_offsets'[q] =
                                IF next_seqnos_to_send'[q] = Len(sent_chunks') THEN SentBytes'
                                ELSE sent_chunks'[next_seqnos_to_send'[q] + 1].offset
        BY DEF OnBoundaries
      <3>1. CASE q = k
        BY <1>1, <1>3, <1>4, <2>2, <3>1
      <3>2. CASE q # k
        <4>1. /\ next_seqnos_to_send[q] \in Nat /\ next_seqnos_to_send[q] <= l
              /\ irob_offsets[q] = IF next_seqnos_to_send[q] = l THEN SentBytes
                                   ELSE sent_chunks[next_seqnos_to_send[q] + 1].offset
          BY Types DEF Chunked, OnBoundaries
        <4>2. CASE next_seqnos_to_send[q] = l
          BY <1>1, <1>3, <1>4, <2>2, <3>2, <4>1, <4>2
        <4>3. CASE next_seqnos_to_send[q] # l
          <5>1. next_seqnos_to_send[q] + 1 \in DOMAIN sent_chunks
            BY <1>1, <4>1, <4>3, Types
          <5> QED
            BY <1>1, <1>3, <2>2, <3>2, <4>1, <4>3, <5>1
        <4> QED
          BY <4>2, <4>3
      <3> QED
        BY <3>1, <3>2
    <2>4. \A m : Sent(m) => Sent(m)'
      BY <2>2 DEF Sent
    <2>5. Sent(chunk)'
      BY <1>1, <1>4, <2>2 DEF Sent
    <2>6. SentBytes # num_bytes
      BY <1>1, <1>4
    <2> QED
      BY <1>3, <2>1, <2>2, <2>3, <2>4, <2>5, <2>6 DEF Chunked
  <1>5. CASE n # l
    <2>1. sent_chunks' = sent_chunks /\ sent_bytes' = sent_bytes
      BY <1>5 DEF Adds, list
    <2>2. n + 1 \in DOMAIN sent_chunks /\ sent_chunks[n + 1] = chunk
      BY <1>5 DEF Sent
    <2>3. SentBytes' = SentBytes
      BY <2>1 DEF SentBytes
    <2>4. OnBoundaries'
      <3> SUFFICES ASSUME NEW q \in Keys
                   PROVE  /\ next_seqnos_to_send'[q] <= l
                          /\ irob_offsets'[q] =
                                IF next_seqnos_to_send'[q] = l THEN SentBytes
                                ELSE sent_chunks[next_seqnos_to_send'[q] + 1].offset
        BY <2>1, <2>3 DEF OnBoundaries
      <3>1. CASE q # k
        BY <1>3, <3>1 DEF Chunked, OnBoundaries
      <3>2. CASE q = k /\ n + 1 = l
        BY <1>1, <1>3, <2>2, <3>2, Types DEF SentBytes
      <3>3. CASE q = k /\ n + 1 # l
        <4>1. n + 2 \in DOMAIN sent_chunks /\ n + 2 # 1 /\ (n + 2) - 1 = n + 1
          BY <1>1, <1>5, <3>3, Types
        <4>2. sent_chunks[n + 2].offset = sent_chunks[n + 1].offset + sent_chunks[n + 1].datalen
          BY <4>1 DEF Chunked, Tiled
        <4> QED
          BY <1>1, <1>3, <1>5, <2>2, <3>3, <4>2
      <3> QED
        BY <3>1, <3>2, <3>3
    <2>5. Chunked'
      BY <2>1, <2>3, <2>4 DEF Chunked, Tiled, Ordered, End
    <2> QED
      BY <1>3, <1>5, <2>1, <2>5 DEF Sent, TypeOK
  <1> QED
    BY <1>4, <1>5

-----------------------------------------------------------------------------

\* At first the list is empty and every thread is at its start.
LEMMA InitIInv == Init => IInv
  <1> SUFFICES ASSUME Init PROVE IInv
    OBVIOUS
  <1>1. sent_chunks \in Seq(Chunk) /\ DOMAIN sent_chunks = {} /\ Len(sent_chunks) = 0
    BY DEF Init
  <1>2. TypeOK
    <2>1. num_bytes \in 0 .. MaxBytes
      BY ChunkAssumption DEF Init
    <2>2. irob_offsets \in [Keys -> Nat] /\ next_seqnos_to_send \in [Keys -> Nat]
      BY DEF Init
    <2>3. complete \in BOOLEAN /\ send_on_all_networks \in BOOLEAN /\ aborted \in BOOLEAN
          /\ torn \in BOOLEAN /\ sent_bytes \in Nat
      BY DEF Init
    <2> QED
      BY <1>1, <2>1, <2>2, <2>3 DEF Init, TypeOK
  <1>3. SentBytes = 0
    BY DEF Init, SentBytes
  <1>4. Tiled /\ Ordered /\ OnBoundaries
    BY <1>1, <1>3 DEF Init, Tiled, Ordered, OnBoundaries
  <1> QED
    BY <1>2, <1>4 DEF Init, IInv, Chunked, MsgsAreSent, EndIsFinal

\* A step that leaves the list and the positions alone, and sends, or decides to
\* send again, only what is on the list.
LEMMA ListKept ==
    ASSUME IInv, TypeOK', UNCHANGED list, UNCHANGED position,
           SentBytes <= num_bytes',
           \A m \in (chunk_msgs \cup resend_chunks)' : Sent(m),
           EndIsFinal'
    PROVE  IInv'
  <1>1. SentBytes' = SentBytes /\ sent_chunks' = sent_chunks /\ sent_bytes' = sent_bytes
    BY DEF SentBytes, list
  <1>2. Chunked'
    BY <1>1 DEF IInv, Chunked, Tiled, Ordered, End, OnBoundaries, position
  <1>3. MsgsAreSent'
    BY <1>1 DEF MsgsAreSent, Sent
  <1> QED
    BY <1>2, <1>3 DEF IInv

\* A step of a thread that goes on with the IROB: the chunk may be sent now, and
\* an End_IROB only if nothing is left.
LEMMA ThreadAdvances ==
    ASSUME IInv, NEW k \in Keys, NEW want \in Nat, NEW chunk,
           chunk = [seqno |-> next_seqnos_to_send[k], offset |-> irob_offsets[k],
                    datalen |-> Gather(irob_offsets[k], want)],
           chunk.datalen > 0, Adds(k, chunk), UNCHANGED app,
           send_on_all_networks' \in BOOLEAN, torn' \in BOOLEAN,
           resend_chunks' \subseteq resend_chunks, chunk_msgs' \subseteq chunk_msgs \cup {chunk},
           end_msgs' \subseteq end_msgs \cup {EndMsg'},
           end_msgs' # end_msgs => complete /\ AllBytesChunked',
           announcements' \subseteq Keys, sending_ifaces' \subseteq CSocks, aborted' \in BOOLEAN
    PROVE  IInv'
  <1>1. /\ chunk \in Chunk
        /\ chunk.seqno # Len(sent_chunks) => Sent(chunk)
        /\ chunk.seqno = Len(sent_chunks) => /\ chunk.offset = SentBytes
                                             /\ chunk.offset + chunk.datalen <= num_bytes
    BY NextChunkFacts DEF IInv
  <1>2. num_bytes' = num_bytes /\ complete' = complete
    BY DEF app
  <1>3. /\ sent_chunks' \in Seq(Chunk)
        /\ irob_offsets' \in [Keys -> Nat] /\ next_seqnos_to_send' \in [Keys -> Nat]
        /\ Chunked'
        /\ \A m : Sent(m) => Sent(m)'
        /\ Sent(chunk)'
        /\ SentBytes = num_bytes => sent_chunks' = sent_chunks
        /\ sent_bytes' \in Nat
    BY <1>1, <1>2, Advance DEF IInv
  <1>4. MsgsAreSent'
    BY <1>3 DEF IInv, MsgsAreSent
  <1>5. EndMsg' \in [expected_bytes : Nat, expected_chunks : Nat]
    BY <1>2, <1>3, Types DEF EndMsg, IInv
  <1>6. TypeOK'
    BY <1>1, <1>2, <1>3, <1>5 DEF IInv, TypeOK
  <1>7. EndIsFinal'
    <2> SUFFICES ASSUME NEW end \in end_msgs'
                 PROVE  /\ complete' /\ SentBytes' = num_bytes'
                        /\ end = [expected_bytes |-> num_bytes',
                                  expected_chunks |-> Len(sent_chunks')]
      BY DEF EndIsFinal
    <2>1. CASE end \in end_msgs
      <3>1. sent_chunks' = sent_chunks
        BY <1>3, <2>1 DEF IInv, EndIsFinal
      <3> QED
        BY <1>2, <2>1, <3>1 DEF IInv, EndIsFinal, SentBytes
    <2>2. CASE end \notin end_msgs
      <3>1. end = EndMsg' /\ complete /\ AllBytesChunked'
        BY <2>2
      <3> QED
        BY <1>2, <1>3, <3>1 DEF EndMsg, AllBytesChunked, Chunked, Tiled
    <2> QED
      BY <2>1, <2>2
  <1> QED
    BY <1>3, <1>4, <1>6, <1>7 DEF IInv

\* The position a thread works with is a known one.
LEMMA KeyIsKey == ASSUME NEW c \in CSocks PROVE Key(c) \in Keys
  BY DEF Key, Keys

\* Unless the flag is set in the middle of them, all reads of get_ready_bytes see
\* the same index.
LEMMA ReadsAgree ==
    ASSUME IInv, NEW c \in CSocks, NEW n \in 0 .. Reads + 1, Decides(n), ~torn'
    PROVE  /\ send_on_all_networks' \in BOOLEAN /\ torn' \in BOOLEAN
           /\ \E k \in Keys : \A i \in 1 .. Reads : ReadKey(c, n, i) = k
  <1>1. ~(n \in 1 .. Reads - 1)
    BY Zenon DEF Decides
  <1>1a. n = 0 \/ n >= Reads
    BY <1>1 DEF Reads
  <1>2. CASE n = 0
    BY <1>2 DEF ReadKey, Keys, Decides, Reads
  <1>3. CASE n >= Reads
    BY <1>3, KeyIsKey DEF ReadKey, Decides, Reads
  <1> QED
    BY <1>1a, <1>2, <1>3

\* ... and the message, the chunk made and the position all belong to it.
LEMMA OneKey ==
    ASSUME NEW c \in CSocks, NEW want, NEW n \in 0 .. Reads + 1, NEW k \in Keys,
           \A i \in 1 .. Reads : ReadKey(c, n, i) = k
    PROVE  LET chunk == [seqno |-> next_seqnos_to_send[k], offset |-> irob_offsets[k],
                         datalen |-> Gather(irob_offsets[k], want)]
           IN /\ NextChunk(c, want, n) = chunk /\ MadeChunk(c, want, n) = chunk
              /\ AddSentChunk(c, MadeChunk(c, want, n), n) => Adds(k, chunk)
  <1>1. /\ ReadKey(c, n, 1) = k /\ ReadKey(c, n, 2) = k /\ ReadKey(c, n, 3) = k
        /\ ReadKey(c, n, 4) = k /\ ReadKey(c, n, 5) = k /\ ReadKey(c, n, 6) = k
    BY DEF Reads
  <1> QED
    BY <1>1 DEF NextChunk, MadeChunk, AddSentChunk, Adds

-----------------------------------------------------------------------------
\* The actions

\* The application adds bytes or ends the IROB: what is on the list stays, and
\* there is no End_IROB while bytes can still come.
LEMMA AppIInv ==
    ASSUME IInv, \/ \E datalen \in 1 .. MaxBytes : AddChunk(datalen)
                 \/ Finish \/ MarkSendOnAllNetworks \/ SendEnd
    PROVE  IInv'
  <1> USE DEF position, sending, msgs, app, list, flag
  <1>0. num_bytes \in Nat /\ SentBytes \in Nat /\ SentBytes <= num_bytes
        /\ Len(sent_chunks) \in Nat /\ \A m \in chunk_msgs \cup resend_chunks : Sent(m)
    BY Types DEF IInv, Chunked, Tiled, MsgsAreSent
  <1>1. ASSUME NEW datalen \in 1 .. MaxBytes, AddChunk(datalen) PROVE IInv'
    <2>1. end_msgs = {}
      BY <1>1 DEF AddChunk, IInv, EndIsFinal
    <2>2. TypeOK' /\ SentBytes <= num_bytes'
      BY <1>0, <1>1, ChunkAssumption DEF AddChunk, IInv, TypeOK
    <2>3. EndIsFinal'
      BY <1>1, <2>1 DEF AddChunk, EndIsFinal
    <2> QED
      BY <1>0, <1>1, <2>2, <2>3, ListKept DEF AddChunk
  <1>2. CASE Finish
    <2>1. TypeOK'
      BY <1>2 DEF Finish, IInv, TypeOK
    <2>2. EndIsFinal'
      BY <1>2 DEF Finish, IInv, EndIsFinal, SentBytes
    <2> QED
      BY <1>0, <1>2, <2>1, <2>2, ListKept DEF Finish
  <1>3. CASE MarkSendOnAllNetworks
    <2>1. TypeOK'
      BY <1>3 DEF MarkSendOnAllNetworks, IInv, TypeOK
    <2>2. EndIsFinal'
      BY <1>3 DEF MarkSendOnAllNetworks, IInv, EndIsFinal, SentBytes
    <2> QED
      BY <1>0, <1>3, <2>1, <2>2, ListKept DEF MarkSendOnAllNetworks
  <1>4. CASE SendEnd
    <2>1. EndMsg \in [expected_bytes : Nat, expected_chunks : Nat]
      BY <1>0 DEF EndMsg
    <2>2. TypeOK'
      BY <1>4, <2>1 DEF SendEnd, IInv, TypeOK
    <2>3. EndIsFinal'
      BY <1>4 DEF SendEnd, IInv, EndIsFinal, EndMsg, AllBytesChunked, SentBytes,
                       Chunked, Tiled
    <2> QED
      BY <1>0, <1>4, <2>2, <2>3, ListKept DEF SendEnd
  <1> QED
    BY <1>1, <1>2, <1>3, <1>4

\* Sending again
LEMMA AgainIInv ==
    ASSUME IInv,
           \/ \E chunk \in resend_chunks : ResendChunk(chunk)
           \/ \E c \in CSocks : RepeatLastChunk(c)
           \/ \E seqno \in 0 .. Len(sent_chunks) - 1 :
                 MarkNotReceived(seqno) \/ MarkDropPoint(seqno)
    PROVE  IInv'
  <1>0. /\ SentBytes <= num_bytes /\ Len(sent_chunks) \in Nat
        /\ DOMAIN sent_chunks = 1 .. Len(sent_chunks)
        /\ \A m \in chunk_msgs \cup resend_chunks : Sent(m)
        /\ \A s \in DOMAIN sent_chunks : sent_chunks[s] \in Chunk /\ Sent(sent_chunks[s])
    <2>1. \A s \in DOMAIN sent_chunks : sent_chunks[s].seqno = s - 1
      BY DEF IInv, Chunked, Tiled
    <2>2. Len(sent_chunks) \in Nat /\ DOMAIN sent_chunks = 1 .. Len(sent_chunks)
          /\ \A s \in DOMAIN sent_chunks : sent_chunks[s] \in Chunk
      BY Types DEF IInv
    <2>3. \A s \in DOMAIN sent_chunks : Sent(sent_chunks[s])
      BY <2>1, <2>2 DEF Sent
    <2> QED
      BY <2>2, <2>3 DEF IInv, Chunked, Tiled, MsgsAreSent
  <1>1. ASSUME UNCHANGED list, UNCHANGED app, UNCHANGED position,
               UNCHANGED flag, UNCHANGED sending, UNCHANGED end_msgs,
               UNCHANGED aborted,
               \A m \in chunk_msgs' \cup resend_chunks' :
                   m \in chunk_msgs \cup resend_chunks \/ \E s \in DOMAIN sent_chunks : m = sent_chunks[s]
        PROVE  IInv'
    <2>1. \A m \in chunk_msgs' \cup resend_chunks' : Sent(m) /\ m \in Chunk
      BY <1>0, <1>1 DEF IInv, TypeOK
    <2>2. TypeOK'
      BY <1>1, <2>1 DEF IInv, TypeOK, app, position, sending, list, flag
    <2>3. EndIsFinal' /\ num_bytes' = num_bytes
      BY <1>1 DEF IInv, EndIsFinal, SentBytes, app, list
    <2> QED
      BY <1>0, <1>1, <2>1, <2>2, <2>3, ListKept
  <1>2. ASSUME NEW chunk \in resend_chunks, ResendChunk(chunk) PROVE IInv'
    BY <1>1, <1>2 DEF ResendChunk
  <1>3. ASSUME NEW c \in CSocks, RepeatLastChunk(c) PROVE IInv'
    <2>1. next_seqnos_to_send[Key(c)] \in DOMAIN sent_chunks
      <3>1. /\ next_seqnos_to_send[Key(c)] \in Nat /\ next_seqnos_to_send[Key(c)] > 0
            /\ next_seqnos_to_send[Key(c)] <= Len(sent_chunks)
        BY <1>3, KeyIsKey, Types DEF RepeatLastChunk, IInv, Chunked, OnBoundaries
      <3> QED
        BY <1>0, <3>1
    <2> QED
      BY <1>1, <1>3, <2>1 DEF RepeatLastChunk, LastSentChunk
  <1>4. ASSUME NEW seqno \in 0 .. Len(sent_chunks) - 1, MarkNotReceived(seqno) PROVE IInv'
    <2>1. seqno + 1 \in DOMAIN sent_chunks
      BY <1>0
    <2> QED
      BY <1>1, <1>4, <2>1 DEF MarkNotReceived, msgs
  <1>5. ASSUME NEW seqno \in 0 .. Len(sent_chunks) - 1, MarkDropPoint(seqno) PROVE IInv'
    <2>1. \A s \in seqno + 1 .. Len(sent_chunks) : s \in DOMAIN sent_chunks
      BY <1>0
    <2> QED
      BY <1>1, <1>5, <2>1 DEF MarkDropPoint, msgs
  <1> QED
    BY <1>2, <1>3, <1>4, <1>5

\* The sender threads
LEMMA ThreadIInv ==
    ASSUME IInv, ~torn', NEW c \in CSocks,
           \/ SendBegin(c)
           \/ \E n \in 0 .. Reads + 1 :
                 \/ \E want \in MinChunk .. MaxChunk : SendChunk(c, want, n)
                 \/ \E chunk \in resend_chunks \cup {NextChunk(c, num_bytes, n)} :
                       SendWhole(c, chunk, n)
    PROVE  IInv'
  <1>0. /\ Key(c) \in Keys /\ Key(c)' \in Keys /\ num_bytes \in Nat /\ SentBytes <= num_bytes
        /\ announcements \subseteq Keys /\ sending_ifaces \cup {c} \subseteq CSocks
        /\ \A m \in chunk_msgs \cup resend_chunks : Sent(m)
    BY KeyIsKey, Types DEF IInv, TypeOK, Chunked, Tiled, MsgsAreSent, Key, Keys
  <1>1. ASSUME NEW n \in 0 .. Reads + 1, NEW want \in MinChunk .. MaxChunk, SendChunk(c, want, n)
        PROVE  IInv'
    <2>1. want \in Nat
      BY ChunkAssumption
    <2>2. Decides(n)
      BY <1>1 DEF SendChunk
    <2>3. PICK k \in Keys : \A i \in 1 .. Reads : ReadKey(c, n, i) = k
      BY <2>2, ReadsAgree
    <2> DEFINE chunk == [seqno |-> next_seqnos_to_send[k], offset |-> irob_offsets[k],
                         datalen |-> Gather(irob_offsets[k], want)]
    <2>4. /\ NextChunk(c, want, n) = chunk
          /\ AddSentChunk(c, MadeChunk(c, want, n), n) => Adds(k, chunk)
      BY <2>3, OneKey
    <2>5. /\ chunk.datalen > 0 /\ Adds(k, chunk)
          /\ chunk_msgs' \subseteq chunk_msgs \cup {chunk}
          /\ UNCHANGED app
          /\ resend_chunks' = resend_chunks /\ end_msgs' = end_msgs
          /\ announcements' = announcements /\ sending_ifaces' = sending_ifaces \cup {c}
          /\ aborted' \in BOOLEAN
      BY <1>1, <2>4 DEF SendChunk
    <2>6. send_on_all_networks' \in BOOLEAN /\ torn' \in BOOLEAN
      BY <2>2, ReadsAgree
    <2> HIDE DEF chunk
    <2> QED
      BY <1>0, <2>1, <2>5, <2>6, ThreadAdvances DEF chunk
  <1>2. CASE SendBegin(c)
    <2>1. TypeOK'
      BY <1>0, <1>2 DEF SendBegin, Announce, IInv, TypeOK, app, position, msgs, list, flag
    <2>2. EndIsFinal' /\ num_bytes' = num_bytes
      BY <1>2 DEF SendBegin, IInv, EndIsFinal, SentBytes, app, msgs, list
    <2> QED
      BY <1>0, <1>2, <2>1, <2>2, ListKept DEF SendBegin, msgs
  <1>3. ASSUME NEW n \in 0 .. Reads + 1,
               NEW chunk \in resend_chunks \cup {NextChunk(c, num_bytes, n)}, SendWhole(c, chunk, n)
        PROVE  IInv'
    <2>1. /\ UNCHANGED app /\ Decides(n) /\ complete
          /\ resend_chunks' = resend_chunks \ {chunk}
          /\ resend_chunks # {} => chunk \in resend_chunks
          /\ resend_chunks = {} => chunk = NextChunk(c, num_bytes, n)
          /\ aborted' \in BOOLEAN
      BY <1>3 DEF SendWhole, SmallAndNew
    <2>2. /\ announcements' \subseteq Keys /\ sending_ifaces' \subseteq CSocks
          /\ send_on_all_networks' \in BOOLEAN /\ torn' \in BOOLEAN
      <3>1. sending_ifaces \subseteq CSocks
        BY DEF IInv, TypeOK
      <3> QED
        BY <1>0, <1>3, <2>1, <3>1, ReadsAgree DEF SendWhole, Announce, sending
    <2>3. \/ chunk_msgs' = chunk_msgs /\ end_msgs' = end_msgs
          \/ /\ AllBytesChunked' /\ chunk.datalen > 0
             /\ chunk_msgs' = chunk_msgs \cup {chunk}
             /\ end_msgs' = end_msgs \cup {EndMsg'}
      BY <1>3 DEF SendWhole, msgs
    <2>4. PICK k \in Keys : \A i \in 1 .. Reads : ReadKey(c, n, i) = k
      BY <2>1, ReadsAgree
    <2>5. LET next == [seqno |-> next_seqnos_to_send[k], offset |-> irob_offsets[k],
                       datalen |-> Gather(irob_offsets[k], num_bytes)]
          IN /\ NextChunk(c, num_bytes, n) = next
             /\ AddSentChunk(c, MadeChunk(c, num_bytes, n), n) => Adds(k, next)
      BY <2>4, OneKey
    <2>6. CASE resend_chunks = {} /\ chunk.datalen > 0
      <3>1. chunk = [seqno |-> next_seqnos_to_send[k], offset |-> irob_offsets[k],
                     datalen |-> Gather(irob_offsets[k], num_bytes)]
        BY <2>1, <2>5, <2>6
      <3>2. Adds(k, chunk)
        <4>1. chunk.datalen # 0
          BY <2>6
        <4> QED
          BY <1>3, <2>5, <2>6, <3>1, <4>1 DEF SendWhole
      <3> QED
        BY <1>0, <2>1, <2>2, <2>3, <2>6, <3>1, <3>2, ThreadAdvances
    <2>7. CASE ~(resend_chunks = {} /\ chunk.datalen > 0)
      <3>0. chunk.datalen \in Nat
        <4>1. chunk \in Chunk
          BY <1>0, <2>1, <2>5, NextChunkFacts DEF IInv, TypeOK
        <4> QED
          BY <4>1 DEF Chunk
      <3>1. UNCHANGED list /\ UNCHANGED position
        BY <1>3, <2>7, <3>0 DEF SendWhole
      <3>2. \A m \in (chunk_msgs \cup resend_chunks)' : Sent(m) /\ m \in Chunk
        BY <1>0, <2>1, <2>3, <2>7 DEF IInv, TypeOK
      <3>3. EndMsg' \in [expected_bytes : Nat, expected_chunks : Nat]
        BY <2>1, <3>1, Types DEF EndMsg, IInv, app, list
      <3>4. TypeOK'
        BY <2>1, <2>2, <2>3, <3>1, <3>2, <3>3 DEF IInv, TypeOK, app, position, list
      <3>5. EndIsFinal' /\ num_bytes' = num_bytes
        BY <2>1, <2>3, <3>1 DEF IInv, EndIsFinal, EndMsg, AllBytesChunked, SentBytes, app, list,
                                Chunked, Tiled
      <3> QED
        BY <1>0, <3>1, <3>2, <3>4, <3>5, ListKept
    <2> QED
      BY <2>6, <2>7
  <1> QED
    BY <1>1, <1>2, <1>3

\* Every step that is not torn keeps the inductive invariant.
LEMMA NextIInv == IInv /\ [Next]_vars /\ ~torn' => IInv'
  <1> SUFFICES ASSUME IInv, [Next]_vars, ~torn' PROVE IInv'
    OBVIOUS
  <1>1. CASE UNCHANGED vars
    <2>1. TypeOK' /\ EndIsFinal' /\ SentBytes <= num_bytes'
      BY <1>1 DEF vars, IInv, TypeOK, EndIsFinal, SentBytes, Chunked, Tiled, app, position,
                  sending, msgs, list, flag
    <2> QED
      BY <1>1, <2>1, ListKept DEF vars, IInv, MsgsAreSent, msgs
  <1>2. CASE Next
    BY <1>2, AppIInv, AgainIInv, ThreadIInv DEF Next
  <1> QED
    BY <1>1, <1>2

\* Once torn, always torn.
LEMMA TornStays == [Next]_vars /\ torn => torn'
  <1> SUFFICES ASSUME [Next]_vars, torn PROVE torn'
    OBVIOUS
  <1> USE DEF flag
  <1>1. CASE UNCHANGED vars
    BY <1>1 DEF vars
  <1>2. CASE Next
    <2>1. ASSUME NEW n, Decides(n) PROVE torn'
      BY <2>1, Zenon DEF Decides
    <2>2. CASE \E c \in CSocks, n \in 0 .. Reads + 1 :
                 \/ \E want \in MinChunk .. MaxChunk : SendChunk(c, want, n)
                 \/ \E chunk \in resend_chunks \cup {NextChunk(c, num_bytes, n)} :
                       SendWhole(c, chunk, n)
      BY <2>1, <2>2 DEF SendChunk, SendWhole
    <2>3. CASE \/ \E datalen \in 1 .. MaxBytes : AddChunk(datalen)
               \/ Finish \/ MarkSendOnAllNetworks \/ SendEnd
               \/ \E chunk \in resend_chunks : ResendChunk(chunk)
               \/ \E c \in CSocks : SendBegin(c) \/ RepeatLastChunk(c)
               \/ \E seqno \in 0 .. Len(sent_chunks) - 1 :
                     MarkNotReceived(seqno) \/ MarkDropPoint(seqno)
      BY <2>3 DEF AddChunk, Finish, MarkSendOnAllNetworks, ResendChunk, SendBegin,
                  RepeatLastChunk, SendEnd, MarkNotReceived, MarkDropPoint
    <2> QED
      BY <1>2, <2>2, <2>3 DEF Next
  <1> QED
    BY <1>1, <1>2

\* The inductive invariant holds of every reachable state that is not torn.
LEMMA AlwaysIInv == Spec => [](~torn => IInv)
  <1>1. Init => (~torn => IInv)
    BY InitIInv
  <1>2. (~torn => IInv) /\ [Next]_vars => (~torn => IInv)'
    BY NextIInv, TornStays
  <1> QED
    BY <1>1, <1>2, PTL DEF Spec

-----------------------------------------------------------------------------
(***************************************************************************)
(* Types, torn reads included.  The message, the chunk made and the        *)
(* position may then belong to different indexes, but as long as no ASSERT *)
(* has failed none of them goes past what the application has written,     *)
(* because no thread has a position of its own before the flag is set.     *)
(***************************************************************************)

Bounded ==
    /\ \A k \in Keys : irob_offsets[k] <= num_bytes /\ next_seqnos_to_send[k] <= Len(sent_chunks)
    /\ \A s \in DOMAIN sent_chunks : End(s) <= num_bytes
    /\ send_on_all_networks \/
          \A c \in CSocks : irob_offsets[c] = 0 /\ next_seqnos_to_send[c] = 0

TInv == TypeOK /\ (~aborted => Bounded)

\* get_ready_bytes, whichever indexes it reads
LEMMA AdvanceBounded ==
    ASSUME TypeOK, Bounded, NEW c \in CSocks, NEW want \in Nat, NEW n \in 0 .. Reads + 1,
           Decides(n), NextChunk(c, want, n).datalen > 0,
           AddSentChunk(c, MadeChunk(c, want, n), n), num_bytes' = num_bytes
    PROVE  /\ sent_chunks' \in Seq(Chunk) /\ sent_bytes' \in Nat
           /\ irob_offsets' \in [Keys -> Nat] /\ next_seqnos_to_send' \in [Keys -> Nat]
           /\ GathersWholeChunk(NextChunk(c, want, n).offset) /\ AddsSameChunk(MadeChunk(c, want, n))
                 => Bounded'
  <1> DEFINE chunk == NextChunk(c, want, n)
             made == MadeChunk(c, want, n)
             R(i) == ReadKey(c, n, i)
             l == Len(sent_chunks)
  <1>0. c \in Keys /\ Single \in Keys /\ c # Single
    BY ChunkAssumption DEF Keys
  <1>1. /\ R(1) \in Keys /\ R(2) \in Keys /\ R(3) \in Keys
        /\ R(4) \in Keys /\ R(5) \in Keys /\ R(6) \in Keys
        /\ \A i \in 1 .. 6 : R(i) \in {c, Single}
    BY <1>0 DEF ReadKey, Key
  <1>2. \A k \in Keys : /\ irob_offsets[k] \in Nat /\ next_seqnos_to_send[k] \in Nat
                        /\ irob_offsets[k] <= num_bytes /\ next_seqnos_to_send[k] <= l
    BY Types DEF Bounded
  <1>3. /\ chunk.offset = irob_offsets[R(2)] /\ chunk.seqno = next_seqnos_to_send[R(1)]
        /\ made.seqno = next_seqnos_to_send[R(3)] /\ made.offset = irob_offsets[R(5)]
        /\ chunk.datalen = Gather(irob_offsets[R(2)], want) /\ made.datalen = chunk.datalen
    BY DEF NextChunk, MadeChunk
  <1>4. chunk.datalen \in Nat
        /\ (GathersWholeChunk(chunk.offset) => chunk.offset + chunk.datalen <= num_bytes)
    <2>1. irob_offsets[R(2)] \in Nat /\ irob_offsets[R(2)] <= num_bytes /\ num_bytes \in Nat
      BY <1>1, <1>2, Types
    <2>2. CASE Holding(chunk.offset) = {}
      BY <1>3, <2>1, <2>2 DEF Gather
    <2>3. CASE Holding(chunk.offset) # {}
      <3>1. PICK s \in Holding(chunk.offset) : chunk.datalen = sent_chunks[s].datalen
        BY <1>3, <2>3 DEF Gather
      <3>2. s \in DOMAIN sent_chunks
        BY DEF Holding
      <3>3. sent_chunks[s].datalen \in Nat /\ End(s) <= num_bytes
        BY <3>2, Types DEF Bounded
      <3> QED
        BY <1>3, <3>1, <3>2, <3>3 DEF GathersWholeChunk, End
    <2> QED
      BY <2>2, <2>3
  <1>5. made \in Chunk
    BY <1>1, <1>2, <1>3, <1>4 DEF MadeChunk, Chunk
  <1>6. \/ R(2) = Single
        \/ R(2) = c /\ R(5) = c /\ R(6) = c
    BY <1>1 DEF ReadKey
  <1>7. \/ R(3) = Single
        \/ R(3) = c /\ R(4) = c
    BY <1>1 DEF ReadKey
  <1>8. send_on_all_networks => \A i \in 1 .. 6 : R(i) = c
    BY DEF ReadKey, Key
  <1>9. /\ irob_offsets[R(5)] <= irob_offsets[R(2)] /\ irob_offsets[R(6)] <= irob_offsets[R(2)]
        /\ next_seqnos_to_send[R(4)] <= next_seqnos_to_send[R(3)]
    <2>1. CASE send_on_all_networks
      BY <1>0, <1>1, <1>2, <1>8, <2>1
    <2>2. CASE ~send_on_all_networks
      <3>1. irob_offsets[c] = 0 /\ next_seqnos_to_send[c] = 0
        BY <2>2 DEF Bounded
      <3> QED
        BY <1>0, <1>1, <1>2, <1>6, <1>7, <3>1
    <2> QED
      BY <2>1, <2>2
  <1>10. /\ next_seqnos_to_send' = [next_seqnos_to_send EXCEPT ![R(4)] = @ + 1]
         /\ irob_offsets' = [irob_offsets EXCEPT ![R(6)] = @ + made.datalen]
         /\ \/ /\ made.seqno = l /\ sent_chunks' = Append(sent_chunks, made)
               /\ sent_bytes' = sent_bytes + made.datalen
            \/ made.seqno # l /\ sent_chunks' = sent_chunks /\ sent_bytes' = sent_bytes
    BY DEF AddSentChunk, list
  <1> HIDE DEF chunk, made, R
  <1>11. /\ irob_offsets' \in [Keys -> Nat] /\ next_seqnos_to_send' \in [Keys -> Nat]
         /\ next_seqnos_to_send'[R(4)] = next_seqnos_to_send[R(4)] + 1
         /\ irob_offsets'[R(6)] = irob_offsets[R(6)] + made.datalen
         /\ \A q \in Keys : /\ q # R(4) => next_seqnos_to_send'[q] = next_seqnos_to_send[q]
                            /\ q # R(6) => irob_offsets'[q] = irob_offsets[q]
    <2>1. made.datalen \in Nat
      BY <1>3, <1>4
    <2>2. irob_offsets \in [Keys -> Nat] /\ next_seqnos_to_send \in [Keys -> Nat]
      BY DEF TypeOK
    <2>3. PICK r4 \in Keys, r6 \in Keys : r4 = R(4) /\ r6 = R(6)
      BY <1>1
    <2>4. PICK len \in Nat : len = made.datalen
      BY <2>1
    <2>5. /\ next_seqnos_to_send' = [next_seqnos_to_send EXCEPT ![r4] = @ + 1]
          /\ irob_offsets' = [irob_offsets EXCEPT ![r6] = @ + len]
      BY <1>10, <2>3, <2>4
    <2>6. /\ next_seqnos_to_send' \in [Keys -> Nat] /\ next_seqnos_to_send'[r4] = next_seqnos_to_send[r4] + 1
          /\ \A q \in Keys : q # r4 => next_seqnos_to_send'[q] = next_seqnos_to_send[q]
      BY <2>2, <2>5
    <2>7. /\ irob_offsets' \in [Keys -> Nat] /\ irob_offsets'[r6] = irob_offsets[r6] + len
          /\ \A q \in Keys : q # r6 => irob_offsets'[q] = irob_offsets[q]
      BY <2>2, <2>5
    <2> QED
      BY <2>3, <2>4, <2>6, <2>7
  <1>12. sent_bytes' \in Nat
    BY <1>3, <1>4, <1>10 DEF TypeOK
  <1>13. /\ sent_chunks' \in Seq(Chunk)
         /\ \/ made.seqno = l /\ Len(sent_chunks') = l + 1
            \/ made.seqno # l /\ Len(sent_chunks') = l
         /\ \A s \in DOMAIN sent_chunks' : \/ s \in DOMAIN sent_chunks /\ sent_chunks'[s] = sent_chunks[s]
                                          \/ sent_chunks'[s] = made
         /\ l \in Nat
    <2>1. sent_chunks \in Seq(Chunk)
      BY DEF TypeOK
    <2>2. CASE made.seqno = l /\ sent_chunks' = Append(sent_chunks, made)
      BY <1>5, <2>1, <2>2
    <2>3. CASE made.seqno # l /\ sent_chunks' = sent_chunks
      BY <2>1, <2>3
    <2> QED
      BY <1>10, <2>2, <2>3
  <1>14. ASSUME GathersWholeChunk(chunk.offset), AddsSameChunk(made)
         PROVE  Bounded'
    <2>1. made.seqno <= l /\ made.seqno \in Nat
      BY <1>1, <1>2, <1>3, <1>14 DEF AddsSameChunk
    <2>2. chunk.offset + chunk.datalen <= num_bytes
      BY <1>4, <1>14
    <2>3. ASSUME NEW k \in Keys
          PROVE  irob_offsets'[k] <= num_bytes' /\ next_seqnos_to_send'[k] <= Len(sent_chunks')
      <3>0. /\ irob_offsets[k] \in Nat /\ irob_offsets[k] <= num_bytes
            /\ next_seqnos_to_send[k] \in Nat /\ next_seqnos_to_send[k] <= l
            /\ irob_offsets[R(6)] \in Nat /\ irob_offsets[R(2)] \in Nat
            /\ next_seqnos_to_send[R(3)] \in Nat /\ next_seqnos_to_send[R(4)] \in Nat
            /\ num_bytes \in Nat
        BY <1>1, <1>2, Types
      <3>1. irob_offsets'[k] <= num_bytes
        <4>1. CASE k = R(6)
          <5>1. irob_offsets'[k] = irob_offsets[R(6)] + chunk.datalen
            BY <1>3, <1>11, <4>1
          <5>2. irob_offsets[R(6)] <= chunk.offset /\ chunk.offset \in Nat /\ chunk.datalen \in Nat
            BY <1>3, <1>4, <1>9, <3>0
          <5> QED
            BY <2>2, <3>0, <5>1, <5>2
        <4>2. CASE k # R(6)
          BY <1>11, <3>0, <4>2
        <4> QED
          BY <4>1, <4>2
      <3>2. next_seqnos_to_send'[k] <= Len(sent_chunks')
        <4>1. CASE k = R(4)
          <5>1. next_seqnos_to_send'[k] = next_seqnos_to_send[R(4)] + 1
            BY <1>11, <4>1
          <5>2. next_seqnos_to_send[R(4)] <= made.seqno
            BY <1>3, <1>9
          <5>3. next_seqnos_to_send[R(4)] \in Nat /\ next_seqnos_to_send[R(4)] <= l
            BY <3>0, <4>1
          <5>4. CASE made.seqno = l /\ Len(sent_chunks') = l + 1
            BY <1>13, <5>1, <5>3, <5>4
          <5>5. CASE made.seqno # l /\ Len(sent_chunks') = l
            <6>1. made.seqno < l
              BY <1>13, <2>1, <5>5
            <6> QED
              BY <1>13, <2>1, <5>1, <5>2, <5>3, <5>5, <6>1
          <5> QED
            BY <1>13, <5>4, <5>5
        <4>2. CASE k # R(4)
          BY <1>11, <1>13, <3>0, <4>2
        <4> QED
          BY <4>1, <4>2
      <3> QED
        BY <3>1, <3>2
    <2>4. ASSUME NEW s \in DOMAIN sent_chunks'
          PROVE  sent_chunks'[s].offset + sent_chunks'[s].datalen <= num_bytes'
      <3>1. CASE s \in DOMAIN sent_chunks /\ sent_chunks'[s] = sent_chunks[s]
        BY <3>1 DEF Bounded, End
      <3>2. CASE sent_chunks'[s] = made
        <4>1. /\ irob_offsets[R(5)] \in Nat /\ irob_offsets[R(2)] \in Nat /\ num_bytes \in Nat
          BY <1>1, <1>2, Types
        <4> QED
          BY <1>3, <1>4, <1>9, <2>2, <3>2, <4>1
      <3> QED
        BY <1>13, <3>1, <3>2
    <2>5. send_on_all_networks' \/
             \A d \in CSocks : irob_offsets'[d] = 0 /\ next_seqnos_to_send'[d] = 0
      <3> SUFFICES ASSUME ~send_on_all_networks', NEW d \in CSocks
                   PROVE  irob_offsets'[d] = 0 /\ next_seqnos_to_send'[d] = 0
        OBVIOUS
      <3>1. ~send_on_all_networks /\ ~(n <= Reads)
        BY Zenon DEF Decides
      <3>2. R(4) = Single /\ R(6) = Single
        BY <3>1 DEF R, ReadKey, Key, Reads
      <3>3. d \in Keys /\ d # Single
        BY ChunkAssumption DEF Keys
      <3>4. irob_offsets[d] = 0 /\ next_seqnos_to_send[d] = 0
        BY <3>1 DEF Bounded
      <3> QED
        BY <1>11, <3>2, <3>3, <3>4
    <2> QED
      BY <2>3, <2>4, <2>5 DEF Bounded, End
  <1> QED
    BY <1>11, <1>12, <1>13, <1>14 DEF chunk, made

\* A step that leaves the list and the positions alone keeps them bounded.
LEMMA BoundedKept ==
    ASSUME TypeOK, Bounded, UNCHANGED list, UNCHANGED position,
           num_bytes <= num_bytes', num_bytes' \in Nat,
           send_on_all_networks => send_on_all_networks'
    PROVE  Bounded'
  <1>1. \A k \in Keys : irob_offsets[k] \in Nat
    BY Types
  <1>2. \A s \in DOMAIN sent_chunks : End(s) \in Nat
    BY Types DEF End
  <1>3. /\ \A k \in Keys : irob_offsets'[k] <= num_bytes' /\ next_seqnos_to_send'[k] <= Len(sent_chunks')
        /\ num_bytes \in Nat
    BY <1>1, Types DEF Bounded, list, position
  <1>4. \A s \in DOMAIN sent_chunks' : End(s)' <= num_bytes'
    BY <1>2, <1>3 DEF Bounded, list, End
  <1> QED
    BY <1>3, <1>4 DEF Bounded, position

\* The steps that change no position
LEMMA QuietTInv ==
    ASSUME TypeOK, Bounded,
           \/ \E datalen \in 1 .. MaxBytes : AddChunk(datalen)
           \/ Finish \/ MarkSendOnAllNetworks \/ SendEnd
           \/ \E chunk \in resend_chunks : ResendChunk(chunk)
           \/ \E c \in CSocks : SendBegin(c) \/ RepeatLastChunk(c)
           \/ \E seqno \in 0 .. Len(sent_chunks) - 1 :
                 MarkNotReceived(seqno) \/ MarkDropPoint(seqno)
    PROVE  TypeOK' /\ Bounded'
  <1> USE DEF position, sending, msgs, app, list, flag
  <1>0. /\ num_bytes \in Nat /\ Len(sent_chunks) \in Nat
        /\ DOMAIN sent_chunks = 1 .. Len(sent_chunks)
        /\ \A s \in DOMAIN sent_chunks : sent_chunks[s] \in Chunk
    BY Types
  <1>1. UNCHANGED list /\ UNCHANGED position /\ (send_on_all_networks => send_on_all_networks')
    BY DEF AddChunk, Finish, MarkSendOnAllNetworks, SendEnd, ResendChunk, SendBegin,
           RepeatLastChunk, MarkNotReceived, MarkDropPoint
  <1>2. ASSUME NEW datalen \in 1 .. MaxBytes, AddChunk(datalen) PROVE TypeOK' /\ num_bytes <= num_bytes'
    BY <1>0, <1>2, ChunkAssumption DEF AddChunk, TypeOK
  <1>3. ASSUME Finish \/ MarkSendOnAllNetworks PROVE TypeOK'
    <2>1. CASE Finish
      BY <2>1 DEF Finish, TypeOK
    <2>2. CASE MarkSendOnAllNetworks
      BY <2>2 DEF MarkSendOnAllNetworks, TypeOK
    <2> QED
      BY <1>3, <2>1, <2>2
  <1>4. ASSUME SendEnd PROVE TypeOK'
    <2>1. EndMsg \in [expected_bytes : Nat, expected_chunks : Nat]
      BY <1>0 DEF EndMsg
    <2> QED
      BY <1>4, <2>1 DEF SendEnd, TypeOK
  <1>5. ASSUME NEW chunk \in resend_chunks, ResendChunk(chunk) PROVE TypeOK' /\ num_bytes' = num_bytes
    BY <1>5 DEF ResendChunk, TypeOK
  <1>6. ASSUME NEW c \in CSocks, SendBegin(c) PROVE TypeOK' /\ num_bytes' = num_bytes
    <2>1. Key(c)' \in Keys
      BY DEF Key, Keys
    <2> QED
      BY <1>6, <2>1 DEF SendBegin, Announce, TypeOK
  <1>7. ASSUME NEW c \in CSocks, RepeatLastChunk(c) PROVE TypeOK' /\ num_bytes' = num_bytes
    <2>1. next_seqnos_to_send[Key(c)] \in DOMAIN sent_chunks
      <3>1. /\ next_seqnos_to_send[Key(c)] \in Nat /\ next_seqnos_to_send[Key(c)] > 0
            /\ next_seqnos_to_send[Key(c)] <= Len(sent_chunks)
        BY <1>7, KeyIsKey, Types DEF RepeatLastChunk, Bounded
      <3> QED
        BY <1>0, <3>1
    <2> QED
      BY <1>0, <1>7, <2>1 DEF RepeatLastChunk, LastSentChunk, TypeOK
  <1>8. ASSUME NEW seqno \in 0 .. Len(sent_chunks) - 1, MarkNotReceived(seqno) \/ MarkDropPoint(seqno)
        PROVE  TypeOK' /\ num_bytes' = num_bytes
    <2>1. resend_chunks' \subseteq Chunk
      BY <1>0, <1>8 DEF MarkNotReceived, MarkDropPoint, TypeOK
    <2> QED
      BY <1>8, <2>1 DEF MarkNotReceived, MarkDropPoint, TypeOK
  <1>9. TypeOK' /\ num_bytes <= num_bytes'
    <2>1. CASE \E datalen \in 1 .. MaxBytes : AddChunk(datalen)
      BY <1>2, <2>1
    <2>2. CASE Finish \/ MarkSendOnAllNetworks
      <3>1. num_bytes' = num_bytes
        BY <2>2 DEF Finish, MarkSendOnAllNetworks
      <3> QED
        BY <1>0, <1>3, <2>2, <3>1
    <2>3. CASE SendEnd
      BY <1>0, <1>4, <2>3 DEF SendEnd
    <2> QED
      BY <1>0, <1>5, <1>6, <1>7, <1>8, <2>1, <2>2, <2>3
  <1>10. num_bytes' \in Nat
    BY <1>9, ChunkAssumption DEF TypeOK
  <1> QED
    BY <1>1, <1>9, <1>10, BoundedKept

\* The steps of a thread that may make a chunk
LEMMA ChunkTInv ==
    ASSUME TypeOK, Bounded, NEW c \in CSocks, NEW n \in 0 .. Reads + 1,
           \/ \E want \in MinChunk .. MaxChunk : SendChunk(c, want, n)
           \/ \E chunk \in resend_chunks \cup {NextChunk(c, num_bytes, n)} :
                 SendWhole(c, chunk, n)
    PROVE  TInv'
  <1>0. /\ send_on_all_networks' \in BOOLEAN /\ torn' \in BOOLEAN /\ Decides(n)
        /\ (send_on_all_networks => send_on_all_networks')
    <2>1. Decides(n)
      BY DEF SendChunk, SendWhole
    <2> QED
      BY <2>1, Zenon DEF Decides
  <1>1. ASSUME NEW want \in Nat
        PROVE  /\ NextChunk(c, want, n) \in Chunk
               /\ NextChunk(c, want, n).datalen \in Nat
    <2>1. /\ ReadKey(c, n, 1) \in Keys /\ ReadKey(c, n, 2) \in Keys
      BY DEF ReadKey, Key, Keys
    <2>2. \A k \in Keys : irob_offsets[k] \in Nat /\ next_seqnos_to_send[k] \in Nat
      BY Types
    <2>3. Gather(irob_offsets[ReadKey(c, n, 2)], want) \in Nat
      <3> DEFINE o == irob_offsets[ReadKey(c, n, 2)]
      <3>1. o \in Nat /\ o <= num_bytes /\ num_bytes \in Nat
        BY <2>1, <2>2, Types DEF Bounded
      <3> HIDE DEF o
      <3> SUFFICES Gather(o, want) \in Nat
        BY DEF o
      <3>2. CASE Holding(o) = {}
        BY <3>1, <3>2 DEF Gather
      <3>3. CASE Holding(o) # {}
        <4>1. PICK s \in Holding(o) : Gather(o, want) = sent_chunks[s].datalen
          BY <3>3 DEF Gather
        <4> QED
          BY <4>1, Types DEF Holding
      <3> QED
        BY <3>2, <3>3
    <2> QED
      BY <2>1, <2>2, <2>3 DEF NextChunk, Chunk
  <1>2. ASSUME NEW want \in MinChunk .. MaxChunk, SendChunk(c, want, n) PROVE TInv'
    <2>0. want \in Nat
      BY ChunkAssumption
    <2>1. /\ AddSentChunk(c, MadeChunk(c, want, n), n) /\ NextChunk(c, want, n).datalen > 0
          /\ UNCHANGED app /\ announcements' = announcements
          /\ sending_ifaces' = sending_ifaces \cup {c}
          /\ resend_chunks' = resend_chunks /\ end_msgs' = end_msgs
          /\ chunk_msgs' \subseteq chunk_msgs \cup {NextChunk(c, want, n)}
          /\ aborted' = ~(/\ GathersWholeChunk(NextChunk(c, want, n).offset)
                          /\ AddsSameChunk(MadeChunk(c, want, n)))
      BY <1>2 DEF SendChunk
    <2>2. /\ sent_chunks' \in Seq(Chunk) /\ sent_bytes' \in Nat
          /\ irob_offsets' \in [Keys -> Nat] /\ next_seqnos_to_send' \in [Keys -> Nat]
          /\ GathersWholeChunk(NextChunk(c, want, n).offset) /\ AddsSameChunk(MadeChunk(c, want, n))
                => Bounded'
      BY <1>0, <2>0, <2>1, AdvanceBounded DEF app
    <2>3. TypeOK'
      BY <1>0, <1>1, <2>0, <2>1, <2>2 DEF TypeOK, app
    <2>4. ~aborted' => Bounded'
      BY <2>1, <2>2, Zenon
    <2> QED
      BY <2>3, <2>4 DEF TInv
  <1>3. ASSUME NEW chunk \in resend_chunks \cup {NextChunk(c, num_bytes, n)}, SendWhole(c, chunk, n)
        PROVE  TInv'
    <2>0. num_bytes \in Nat
      BY Types
    <2>1. /\ UNCHANGED app
          /\ resend_chunks' = resend_chunks \ {chunk}
          /\ resend_chunks = {} => chunk = NextChunk(c, num_bytes, n)
          /\ aborted' \in BOOLEAN
      BY <1>3 DEF SendWhole
    <2>2. chunk \in Chunk /\ chunk.datalen \in Nat
      BY <1>1, <2>0 DEF TypeOK, Chunk
    <2>3. /\ announcements' \subseteq Keys /\ sending_ifaces' \subseteq CSocks
      <3>1. sending_ifaces \subseteq CSocks /\ announcements \subseteq Keys /\ Key(c)' \in Keys
        BY DEF TypeOK, Key, Keys
      <3> QED
        BY <1>3, <3>1 DEF SendWhole, Announce, sending
    <2>4. /\ chunk_msgs' \subseteq chunk_msgs \cup {chunk}
          /\ end_msgs' \subseteq end_msgs \cup {EndMsg'}
      BY <1>3 DEF SendWhole, msgs
    <2>5. /\ sent_chunks' \in Seq(Chunk) /\ sent_bytes' \in Nat
          /\ irob_offsets' \in [Keys -> Nat] /\ next_seqnos_to_send' \in [Keys -> Nat]
          /\ ~aborted' => Bounded'
      <3>1. CASE resend_chunks = {} /\ chunk.datalen # 0
        <4>1. /\ AddSentChunk(c, MadeChunk(c, num_bytes, n), n) /\ NextChunk(c, num_bytes, n).datalen > 0
          BY <1>3, <2>1, <2>2, <3>1 DEF SendWhole
        <4>2. ~aborted' => /\ GathersWholeChunk(NextChunk(c, num_bytes, n).offset)
                           /\ AddsSameChunk(MadeChunk(c, num_bytes, n))
          BY <1>3, <2>1, <3>1 DEF SendWhole
        <4> QED
          BY <1>0, <2>0, <2>1, <4>1, <4>2, AdvanceBounded DEF app
      <3>2. CASE ~(resend_chunks = {} /\ chunk.datalen # 0)
        <4>1. UNCHANGED list /\ UNCHANGED position
          BY <1>3, <3>2 DEF SendWhole
        <4> QED
          BY <1>0, <2>0, <2>1, <4>1, BoundedKept DEF TypeOK, list, position, app
      <3> QED
        BY <3>1, <3>2
    <2>6. EndMsg' \in [expected_bytes : Nat, expected_chunks : Nat]
      BY <2>0, <2>1, <2>5 DEF EndMsg, app
    <2>7. TypeOK'
      BY <1>0, <2>1, <2>2, <2>3, <2>4, <2>5, <2>6 DEF TypeOK, app
    <2> QED
      BY <2>5, <2>7 DEF TInv
  <1> QED
    BY <1>2, <1>3

\* What PendingSenderIROB keeps is well-typed, after a torn read as well: no
\* offset, length or seqno falls below zero, and no thread has a position of an
\* unknown kind.
THEOREM SenderTypeCorrect == Spec => []TypeOK
  <1>1. Init => TInv
    <2>1. Init => IInv
      BY InitIInv
    <2>2. Init => Bounded
      BY DEF Init, Bounded, Keys, End
    <2> QED
      BY <2>1, <2>2 DEF IInv, TInv
  <1>2. TInv /\ [Next]_vars => TInv'
    <2> SUFFICES ASSUME TInv, [Next]_vars PROVE TInv'
      OBVIOUS
    <2>1. CASE UNCHANGED vars
      BY <2>1 DEF vars, TInv, TypeOK, Bounded, End, app, position, sending, msgs, list, flag
    <2>2. CASE Next
      BY <2>2, QuietTInv, ChunkTInv DEF Next, TInv
    <2> QED
      BY <2>1, <2>2
  <1>3. TInv => TypeOK
    BY DEF TInv
  <1> QED
    BY <1>1, <1>2, <1>3, PTL DEF Spec

\* get_ready_bytes and add_sent_chunk: whatever the threads ask for, and however
\* they interleave with each other and the application, the chunks follow each
\* other without gaps or overlaps from the first byte on, as long as redundancy is
\* not decided in the middle of a get_ready_bytes.
THEOREM ChunksAlwaysTile == Spec => []ChunksTile
  <1>1. (~torn => IInv) => ChunksTile
    BY DEF IInv, Chunked, ChunksTile
  <1> QED
    BY <1>1, AlwaysIInv, PTL

\* ... and the offset and the seqno a thread goes on with (irob_offsets,
\* next_seqnos_to_send) name the same place of that list, with the same exception.
THEOREM PositionsAlwaysOnBoundaries == Spec => []PositionsOnBoundaries
  <1>1. (~torn => IInv) => PositionsOnBoundaries
    BY DEF IInv, Chunked, PositionsOnBoundaries
  <1> QED
    BY <1>1, AlwaysIInv, PTL

\* Two IROB_Chunk messages with the same seqno, sent by different threads or again
\* after a resend request, carry the same bytes, so the receiver may take whichever
\* arrives first, unless the flag was set in the middle of a get_ready_bytes.
THEOREM CopiesAlwaysAgree == Spec => []CopiesAgree
  <1>1. (~torn => IInv) => CopiesAgree
    BY DEF IInv, MsgsAreSent, Sent, CopiesAgree, SeqnoIdentifiesChunk
  <1> QED
    BY <1>1, AlwaysIInv, PTL

\* All End_IROB messages announce the same bytes and chunks, which are all of the
\* IROB: no chunk follows that they do not count, with the same exception.
THEOREM EndsAlwaysAgree == Spec => []EndsAgree
  <1>1. (~torn => IInv) => EndsAgree
    <2> SUFFICES ASSUME IInv PROVE EndsAgree
      BY DEF EndsAgree
    <2>1. \A chunk \in chunk_msgs : chunk.seqno < Len(sent_chunks)
      <3> SUFFICES ASSUME NEW chunk \in chunk_msgs PROVE chunk.seqno < Len(sent_chunks)
        OBVIOUS
      <3>1. chunk.seqno + 1 \in DOMAIN sent_chunks
        BY DEF IInv, MsgsAreSent, Sent
      <3>2. chunk.seqno \in Nat
        BY DEF IInv, TypeOK, Chunk
      <3>3. Len(sent_chunks) \in Nat /\ DOMAIN sent_chunks = 1 .. Len(sent_chunks)
        BY Types DEF IInv
      <3> QED
        BY <3>1, <3>2, <3>3
    <2>2. \A end \in end_msgs : /\ complete /\ end.expected_bytes = num_bytes
                                /\ end.expected_chunks = Len(sent_chunks)
      BY DEF IInv, EndIsFinal
    <2> QED
      BY <2>1, <2>2 DEF EndsAgree
  <1> QED
    BY <1>1, AlwaysIInv, PTL
=============================================================================
