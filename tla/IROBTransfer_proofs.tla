------------------------ MODULE IROBTransfer_proofs ------------------------
(***************************************************************************)
(* For any number of csockets, failures and chunks: an End_IROB follows    *)
(* the last chunk, and a resend request asks only for chunks that were     *)
(* made; and the sender forgets the IROB only when the receiver has all of *)
(* it, unless a data check had part of it ACKed, which does not happen to  *)
(* an IROB of one chunk that is sent by one call.                          *)
(***************************************************************************)
EXTENDS IROBTransfer, SequenceTheorems, TLAPS

Sent == 0 .. next_seqno - 1

AllSent == complete /\ next_seqno = added

SenderInv ==
    /\ complete \in BOOLEAN
    /\ added \in 0 .. MaxChunks
    /\ complete => added > 0
    /\ next_seqno \in 0 .. added
    /\ resend_chunks \subseteq Sent
    /\ "end" \in tasks => AllSent

\* A chunk can be added to what has been received, and the last of it stays
\* known; NumChunks needs it.
HasLast == received = {} \/ \E s \in received : \A t \in received : t <= s

ReceiverInv ==
    /\ begun \in BOOLEAN
    /\ partial \in BOOLEAN
    /\ received \subseteq Sent /\ HasLast
    /\ SeenEnd => AllSent /\ expected = added
    /\ read \in 0 .. MaxChunks
    /\ read > 0 => begun /\ IsComplete /\ read <= expected
    /\ resend_requests \subseteq Requests

\* What may be in transit.
ToReceiver ==
    {Message("begin"), Message("check")}
       \cup {Chunk(s) : s \in Sent}
       \cup {m \in {End(added)} : AllSent}

ToSender ==
    {Message("ack")}
       \cup [type : {"resend"}, request : Requests, seqnos : SUBSET Sent,
             next_chunk : 0 .. next_seqno]

NetworkInv ==
    /\ to_receiver \in [CSocks -> Seq(ToReceiver)]
    /\ to_sender \in [CSocks -> Seq(ToSender)]

IInv == SenderInv /\ ReceiverInv /\ NetworkInv

-----------------------------------------------------------------------------
\* The network

\* What is sent stays sent.
LEMMA MoreSeqnos ==
  ASSUME NEW m \in Nat, NEW n \in Nat, m <= n
  PROVE  0 .. m - 1 \subseteq 0 .. n - 1
  OBVIOUS

\* What may be in transit only grows.
LEMMA Progress ==
  ASSUME IInv, complete => complete' /\ added' = added,
         next_seqno' \in 0 .. added', added' \in 0 .. MaxChunks, next_seqno <= next_seqno'
  PROVE  /\ Sent \subseteq Sent' /\ (AllSent => AllSent')
         /\ ToReceiver \subseteq ToReceiver'
         /\ ToSender \subseteq ToSender'
  <1>1. next_seqno \in Nat /\ next_seqno' \in Nat /\ added \in Nat /\ added' \in Nat
        /\ next_seqno <= added /\ next_seqno' <= added'
    BY TransferAssumption DEF IInv, SenderInv
  <1>2. Sent \subseteq Sent' /\ (AllSent => AllSent')
    <2>3. Sent \subseteq Sent'
      BY <1>1, MoreSeqnos DEF Sent
    <2>2. complete /\ next_seqno = added => next_seqno' = added'
      BY <1>1
    <2> QED
      BY <2>2, <2>3 DEF AllSent
  <1>3. ToReceiver \subseteq ToReceiver'
    BY <1>2 DEF ToReceiver, AllSent
  <1>4. 0 .. next_seqno \subseteq 0 .. next_seqno'
    BY <1>1
  <1>5. SUBSET Sent \subseteq SUBSET (Sent')
    BY <1>2
  <1>6. ToSender \subseteq ToSender'
    BY <1>4, <1>5 DEF ToSender
  <1> QED
    BY <1>2, <1>3, <1>6

\* A write, to a csocket that works or not.
LEMMA Transmitted ==
  ASSUME IInv, ToReceiver \subseteq ToReceiver',
         NEW c \in CSocks, NEW msgs \in Seq(ToReceiver'), Transmit(c, msgs)
  PROVE  to_receiver' \in [CSocks -> Seq(ToReceiver')]
  <1>1. to_receiver \in [CSocks -> Seq(ToReceiver')]
    BY SeqMonotonic DEF IInv, NetworkInv
  <1>2. to_receiver[c] \o msgs \in Seq(ToReceiver')
    BY <1>1
  <1> QED
    BY <1>1, <1>2 DEF Transmit

\* An answer, on a csocket that works or not.
LEMMA Replied ==
  ASSUME IInv, NEW c \in CSocks, NEW msg \in ToSender, Reply(c, msg)
  PROVE  to_sender' \in [CSocks -> Seq(ToSender)]
  <1>1. to_sender \in [CSocks -> Seq(ToSender)]
    BY DEF IInv, NetworkInv
  <1>2. Append(to_sender[c], msg) \in Seq(ToSender)
    BY <1>1
  <1> QED
    BY <1>1, <1>2 DEF Reply

-----------------------------------------------------------------------------
\* The sender

\* A step of the sender that keeps its own part, and transmits what it may.
LEMMA SenderStep ==
  ASSUME IInv, UNCHANGED receiver, complete => complete' /\ added' = added,
         next_seqno <= next_seqno',
         SenderInv',
         to_receiver' \in [CSocks -> Seq(ToReceiver')],
         to_sender' \in [CSocks -> Seq(ToSender)]
  PROVE  IInv'
  <1>1. next_seqno' \in 0 .. added' /\ added' \in 0 .. MaxChunks
    BY TransferAssumption DEF SenderInv
  <1>2. /\ Sent \subseteq Sent' /\ (AllSent => AllSent')
        /\ ToSender \subseteq ToSender'
    BY <1>1, Progress
  <1>3. NetworkInv'
    BY <1>2, SeqMonotonic DEF NetworkInv
  <1>4. ReceiverInv'
    BY <1>2 DEF IInv, ReceiverInv, receiver, HasLast, IsComplete, SeenEnd, AllSent
  <1> QED
    BY <1>3, <1>4 DEF IInv

\* get_ready_bytes gives out a chunk that was made or makes the next one.
LEMMA ReadyBytesFacts ==
  ASSUME IInv, NEW seqno \in Seqnos, ReadyBytes(seqno), added' = added
  PROVE  /\ next_seqno' \in 0 .. added /\ next_seqno <= next_seqno'
         /\ seqno \in Sent' /\ resend_chunks' \subseteq Sent'
         /\ complete /\ complete' => (AllSent' <=> AllBytesChunked')
         /\ complete /\ complete' /\ added = 1 => AllSent'
  <1>1. /\ next_seqno \in 0 .. added /\ added \in 0 .. MaxChunks /\ MaxChunks \in Nat
        /\ resend_chunks \subseteq Sent
    BY TransferAssumption DEF IInv, SenderInv
  <1>2. CASE seqno \in resend_chunks /\ resend_chunks' = resend_chunks \ {seqno} /\ UNCHANGED next_seqno
    BY <1>1, <1>2 DEF Sent, AllSent, AllBytesChunked
  <1>3. CASE /\ resend_chunks = {} /\ seqno = next_seqno /\ next_seqno < added
             /\ next_seqno' = next_seqno + 1 /\ UNCHANGED resend_chunks
    BY <1>1, <1>3 DEF Sent, AllSent, AllBytesChunked
  <1> QED
    BY <1>2, <1>3 DEF ReadyBytes

\* irob_chunk and end_irob: the application adds to what can be sent.
LEMMA AppIInv ==
  ASSUME IInv, AddChunk \/ EndIrob
  PROVE  IInv'
  <1>1. /\ next_seqno \in 0 .. added /\ added \in 0 .. MaxChunks /\ MaxChunks \in Nat
        /\ complete \in BOOLEAN
        /\ resend_chunks \subseteq Sent
        /\ ("end" \in tasks => AllSent)
    BY TransferAssumption DEF IInv, SenderInv
  <1>2. /\ UNCHANGED <<network, receiver, next_seqno, resend_chunks>>
        /\ complete => complete' /\ added' = added
        /\ Sent' = Sent
    BY DEF AddChunk, EndIrob, Sent
  <1>3. SenderInv'
    <2>1. CASE AddChunk
      <3>1. added' \in 0 .. MaxChunks /\ next_seqno' \in 0 .. added'
        BY <1>1, <1>2, <2>1 DEF AddChunk
      <3>2. complete' = FALSE /\ complete = FALSE /\ ("end" \in tasks' => "end" \in tasks)
        BY <1>1, <2>1 DEF AddChunk
      <3> QED
        BY <1>1, <1>2, <3>1, <3>2 DEF SenderInv, AllSent
    <2>2. CASE EndIrob
      <3>1. added' = added /\ added > 0 /\ complete' = TRUE /\ complete = FALSE
        BY <1>1, <2>2 DEF EndIrob
      <3>2. "end" \in tasks' => next_seqno' = added'
        BY <1>1, <1>2, <3>1, <2>2 DEF EndIrob, AllBytesChunked, AllSent
      <3> QED
        BY <1>1, <1>2, <3>1, <3>2 DEF SenderInv, AllSent
    <2> QED
      BY <2>1, <2>2
  <1>4. next_seqno <= next_seqno' /\ next_seqno' \in 0 .. added' /\ added' \in 0 .. MaxChunks
    BY <1>1, <1>2, <1>3 DEF SenderInv
  <1>5. ToReceiver \subseteq ToReceiver'
    BY <1>2, <1>4, Progress
  <1>6. to_receiver' \in [CSocks -> Seq(ToReceiver')] /\ to_sender' \in [CSocks -> Seq(ToSender)]
    BY <1>2, <1>5, SeqMonotonic DEF IInv, NetworkInv, network
  <1> QED
    BY <1>2, <1>3, <1>4, <1>6, SenderStep

\* A sender thread that sends, or fails to.
LEMMA Sending ==
  ASSUME IInv, UNCHANGED <<receiver, to_sender, added, complete>>,
         next_seqno' \in 0 .. added, next_seqno <= next_seqno',
         resend_chunks' \subseteq Sent', "end" \in tasks' => AllSent',
         \/ UNCHANGED to_receiver
         \/ \E c \in CSocks : \E msgs \in Seq(ToReceiver') : Transmit(c, msgs)
  PROVE  IInv'
  <1>1. SenderInv'
    BY DEF IInv, SenderInv
  <1>2. next_seqno' \in 0 .. added' /\ added' \in 0 .. MaxChunks
    BY TransferAssumption DEF IInv, SenderInv
  <1>3. ToReceiver \subseteq ToReceiver'
    BY <1>2, Progress
  <1>4. to_receiver' \in [CSocks -> Seq(ToReceiver')]
    BY <1>3, Transmitted, SeqMonotonic DEF IInv, NetworkInv
  <1>5. to_sender' \in [CSocks -> Seq(ToSender)]
    BY DEF IInv, NetworkInv
  <1> QED
    BY <1>1, <1>4, <1>5, SenderStep

\* Nothing is taken from the IROB.
LEMMA NothingTaken ==
  ASSUME IInv, UNCHANGED <<added, complete, next_seqno, resend_chunks>>
  PROVE  /\ next_seqno' \in 0 .. added /\ next_seqno <= next_seqno'
         /\ resend_chunks' \subseteq Sent' /\ (AllSent' <=> AllSent)
         /\ complete => (AllSent' <=> AllBytesChunked')
         /\ next_seqno > 0 => next_seqno - 1 \in Sent'
  <1>1. /\ next_seqno \in 0 .. added /\ added \in Nat
        /\ resend_chunks \subseteq Sent
    BY TransferAssumption DEF IInv, SenderInv
  <1>2. Sent' = Sent /\ (AllSent' <=> AllSent)
    BY DEF Sent, AllSent
  <1>3. next_seqno > 0 => next_seqno - 1 \in Sent
    BY <1>1 DEF Sent
  <1>4. complete => (AllSent <=> AllBytesChunked)
    BY <1>1 DEF AllSent, AllBytesChunked
  <1>5. AllBytesChunked' <=> AllBytesChunked
    BY DEF AllBytesChunked
  <1> QED
    BY <1>1, <1>2, <1>3, <1>4, <1>5

\* The messages that may be sent.
LEMMA Messages ==
  /\ Message("begin") \in ToReceiver' /\ Message("check") \in ToReceiver'
  /\ \A s \in Sent' : Chunk(s) \in ToReceiver'
  /\ AllSent' => End(added') \in ToReceiver' /\ End(next_seqno') \in ToReceiver'
  BY DEF ToReceiver, AllSent

\* send_begin_irob, alone or with all of a small IROB
LEMMA SendBeginIInv ==
  ASSUME IInv, NEW c \in CSocks, SendBegin(c) \/ SendWhole(c)
  PROVE  IInv'
  <1>1. /\ UNCHANGED <<receiver, to_sender, added, complete>>
        /\ "end" \in tasks' => "end" \in tasks
        /\ "end" \in tasks => AllSent
    BY DEF SendBegin, SendWhole, Pop, IInv, SenderInv
  <1>2. CASE SendBegin(c)
    <2>1. UNCHANGED <<next_seqno, resend_chunks>> /\ Transmit(c, <<Message("begin")>>)
      BY <1>2 DEF SendBegin
    <2>2. <<Message("begin")>> \in Seq(ToReceiver')
      BY Messages
    <2>3. /\ next_seqno' \in 0 .. added /\ next_seqno <= next_seqno'
          /\ resend_chunks' \subseteq Sent' /\ (AllSent' <=> AllSent)
      BY <1>1, <2>1, NothingTaken
    <2> QED
      BY <1>1, <2>1, <2>2, <2>3, Sending
  <1>3. CASE SendWhole(c)
    <2>1. /\ ReadyBytes(0) /\ complete /\ added = 1
          /\ Transmit(c, <<Message("begin"), Chunk(0), End(1)>>)
      BY <1>3 DEF SendWhole, MaybeSmall
    <2>2. 0 \in Seqnos
      BY TransferAssumption DEF Seqnos
    <2>3. /\ next_seqno' \in 0 .. added /\ next_seqno <= next_seqno'
          /\ 0 \in Sent' /\ resend_chunks' \subseteq Sent' /\ AllSent'
      BY <1>1, <2>1, <2>2, ReadyBytesFacts
    <2>4. <<Message("begin"), Chunk(0), End(1)>> \in Seq(ToReceiver')
      BY <1>1, <2>1, <2>3, Messages
    <2> QED
      BY <1>1, <2>1, <2>3, <2>4, Sending
  <1> QED
    BY <1>2, <1>3

\* irob_chunk and end_irob, of the sender thread: a chunk, nothing more to send, or
\* the End_IROB that was scheduled with the last chunk.
LEMMA SendChunkIInv ==
  ASSUME IInv, NEW c \in CSocks, SendChunk(c) \/ SendEnd(c)
  PROVE  IInv'
  <1>1. /\ UNCHANGED <<receiver, to_sender, added, complete>>
        /\ "end" \in tasks => AllSent
    BY DEF SendChunk, SendEnd, Pop, IInv, SenderInv
  <1>2. ASSUME NEW seqno \in Seqnos, ReadyBytes(seqno), Transmit(c, <<Chunk(seqno)>>),
               tasks' = IF complete /\ AllBytesChunked' /\ ~end_announced
                        THEN tasks \cup {"end"} ELSE tasks
        PROVE  IInv'
    <2>1. /\ next_seqno' \in 0 .. added /\ next_seqno <= next_seqno'
          /\ seqno \in Sent' /\ resend_chunks' \subseteq Sent'
          /\ complete => (AllSent' <=> AllBytesChunked')
      BY <1>1, <1>2, ReadyBytesFacts
    <2>2. <<Chunk(seqno)>> \in Seq(ToReceiver')
      BY <2>1, Messages
    <2>3. next_seqno' \in 0 .. added' /\ added' \in 0 .. MaxChunks
      BY <1>1, <2>1, TransferAssumption DEF IInv, SenderInv
    <2>4. AllSent => AllSent'
      BY <1>1, <2>1, <2>3, Progress
    <2>5. "end" \in tasks' => AllSent'
      BY <1>1, <1>2, <2>1, <2>4
    <2> QED
      BY <1>1, <1>2, <2>1, <2>2, <2>5, Sending
  <1>3. CASE NothingReady /\ tasks' = tasks \ {"chunk"} /\ UNCHANGED <<to_receiver, next_seqno, resend_chunks>>
    <2>1. /\ next_seqno' \in 0 .. added /\ next_seqno <= next_seqno'
          /\ resend_chunks' \subseteq Sent' /\ (AllSent' <=> AllSent)
      BY <1>1, <1>3, NothingTaken
    <2> QED
      BY <1>1, <1>3, <2>1, Sending
  <1>4. CASE SendEnd(c)
    <2>1. /\ UNCHANGED <<next_seqno, resend_chunks>> /\ Transmit(c, <<End(next_seqno)>>)
          /\ "end" \in tasks /\ "end" \notin tasks'
      BY <1>4 DEF SendEnd, Pop
    <2>2. /\ next_seqno' \in 0 .. added /\ next_seqno <= next_seqno'
          /\ resend_chunks' \subseteq Sent' /\ (AllSent' <=> AllSent)
      BY <1>1, <2>1, NothingTaken
    <2>3. <<End(next_seqno)>> \in Seq(ToReceiver')
      BY <1>1, <2>1, <2>2, Messages
    <2> QED
      BY <1>1, <2>1, <2>2, <2>3, Sending
  <1> QED
    BY <1>2, <1>3, <1>4 DEF SendChunk

\* What goes before the question, and the question.
Questions ==
    IF complete /\ AllBytesChunked THEN <<End(next_seqno), Message("check")>>
                                   ELSE <<Message("check")>>

\* ... are messages that may be sent.
LEMMA QuestionsMayBeSent ==
  ASSUME complete' /\ AllBytesChunked' => AllSent'
  PROVE  /\ Questions' \in Seq(ToReceiver')
         /\ <<Message("begin")>> \o Questions' \in Seq(ToReceiver')
         /\ \A s \in Sent' : <<Message("begin"), Chunk(s)>> \o Questions' \in Seq(ToReceiver')
  <1>1. Questions' \in Seq(ToReceiver')
    BY Messages DEF Questions
  <1>2. <<Message("begin")>> \in Seq(ToReceiver')
    BY Messages
  <1>3. \A s \in Sent' : <<Message("begin"), Chunk(s)>> \in Seq(ToReceiver')
    BY Messages
  <1> QED
    BY <1>1, <1>2, <1>3

\* send_data_check
LEMMA SendDataCheckIInv ==
  ASSUME IInv, NEW c \in CSocks, SendDataCheck(c)
  PROVE  IInv'
  <1>1. /\ UNCHANGED <<receiver, to_sender, added, complete>>
        /\ "end" \in tasks' => "end" \in tasks
        /\ "end" \in tasks => AllSent
    BY DEF SendDataCheck, Pop, IInv, SenderInv
  <1>2. CASE erased
    <2>1. UNCHANGED <<next_seqno, resend_chunks>> /\ Transmit(c, <<Message("check")>>)
      BY <1>2 DEF SendDataCheck
    <2>2. /\ next_seqno' \in 0 .. added /\ next_seqno <= next_seqno'
          /\ resend_chunks' \subseteq Sent' /\ (AllSent' <=> AllSent)
      BY <1>1, <2>1, NothingTaken
    <2>3. <<Message("check")>> \in Seq(ToReceiver')
      BY Messages
    <2> QED
      BY <1>1, <2>1, <2>2, <2>3, Sending
  <1>3. ASSUME NEW seqno \in Seqnos, ReadyBytes(seqno),
               Transmit(c, <<Message("begin"), Chunk(seqno)>> \o Questions')
        PROVE  IInv'
    <2>1. /\ next_seqno' \in 0 .. added /\ next_seqno <= next_seqno'
          /\ seqno \in Sent' /\ resend_chunks' \subseteq Sent'
          /\ complete => (AllSent' <=> AllBytesChunked')
      BY <1>1, <1>3, ReadyBytesFacts
    <2>2. next_seqno' \in 0 .. added' /\ added' \in 0 .. MaxChunks
      BY <1>1, <2>1, TransferAssumption DEF IInv, SenderInv
    <2>3. AllSent => AllSent'
      BY <1>1, <2>1, <2>2, Progress
    <2>4. <<Message("begin"), Chunk(seqno)>> \o Questions' \in Seq(ToReceiver')
      BY <1>1, <2>1, QuestionsMayBeSent
    <2> QED
      BY <1>1, <1>3, <2>1, <2>3, <2>4, Sending
  <1>4. CASE /\ UNCHANGED <<next_seqno, resend_chunks>>
             /\ Transmit(c, IF next_seqno > 0
                            THEN <<Message("begin"), Chunk(next_seqno - 1)>> \o Questions'
                            ELSE <<Message("begin")>> \o Questions')
    <2>1. /\ next_seqno' \in 0 .. added /\ next_seqno <= next_seqno'
          /\ resend_chunks' \subseteq Sent' /\ (AllSent' <=> AllSent)
          /\ complete => (AllSent' <=> AllBytesChunked')
          /\ next_seqno > 0 => next_seqno - 1 \in Sent'
      BY <1>1, <1>4, NothingTaken
    <2>2. /\ <<Message("begin")>> \o Questions' \in Seq(ToReceiver')
          /\ next_seqno > 0 =>
                <<Message("begin"), Chunk(next_seqno - 1)>> \o Questions' \in Seq(ToReceiver')
      BY <1>1, <2>1, QuestionsMayBeSent
    <2>3. \E msgs \in Seq(ToReceiver') : Transmit(c, msgs)
      BY <1>4, <2>2
    <2> QED
      BY <1>1, <1>4, <2>1, <2>3, Sending
  <1>5. Questions' = IF complete /\ AllBytesChunked'
                     THEN <<End(next_seqno'), Message("check")>> ELSE <<Message("check")>>
    BY <1>1 DEF Questions, Message, End
  <1> QED
    BY <1>2, <1>3, <1>4, <1>5 DEF SendDataCheck

\* The sender gives up a csocket, idle or writing.
LEMMA GiveUpIInv ==
  ASSUME IInv, NEW c \in CSocks,
         SenderNotices(c) \/ \E task \in Tasks : WriteFails(c, task)
  PROVE  IInv'
  <1>1. /\ UNCHANGED <<receiver, to_sender, to_receiver, added, complete>>
        /\ "end" \in tasks => AllSent
    BY DEF SenderNotices, WriteFails, Pop, IInv, SenderInv, network
  <1>2. "end" \in tasks' => "end" \in tasks
    BY DEF SenderNotices, WriteFails, GiveUp
  <1>3. CASE UNCHANGED <<next_seqno, resend_chunks>>
    <2>1. /\ next_seqno' \in 0 .. added /\ next_seqno <= next_seqno'
          /\ resend_chunks' \subseteq Sent' /\ (AllSent' <=> AllSent)
      BY <1>1, <1>3, NothingTaken
    <2> QED
      BY <1>1, <1>2, <2>1, Sending
  <1>4. ASSUME NEW seqno \in Seqnos, ReadyBytes(seqno)
        PROVE  IInv'
    <2>1. /\ next_seqno' \in 0 .. added /\ next_seqno <= next_seqno'
          /\ seqno \in Sent' /\ resend_chunks' \subseteq Sent'
      BY <1>1, <1>4, ReadyBytesFacts
    <2>2. next_seqno' \in 0 .. added' /\ added' \in 0 .. MaxChunks
      BY <1>1, <2>1, TransferAssumption DEF IInv, SenderInv
    <2>3. AllSent => AllSent'
      BY <1>1, <2>1, <2>2, Progress
    <2> QED
      BY <1>1, <1>2, <2>1, <2>3, Sending
  <1>5. 0 \in Seqnos
    BY TransferAssumption DEF Seqnos
  <1> QED
    BY <1>3, <1>4, <1>5 DEF SenderNotices, WriteFails

\* ack_received and resend_request_received
LEMMA SenderReceivesIInv ==
  ASSUME IInv, NEW c \in CSocks, SenderReceives(c)
  PROVE  IInv'
  <1> DEFINE msg == Head(to_sender[c])
  <1>1. /\ UNCHANGED <<receiver, to_receiver, added, complete, next_seqno>>
        /\ "end" \in tasks => AllSent
        /\ next_seqno \in 0 .. added /\ added \in 0 .. MaxChunks /\ MaxChunks \in Nat
        /\ resend_chunks \subseteq Sent
    BY TransferAssumption DEF SenderReceives, IInv, SenderInv
  <1>2. /\ msg \in ToSender
        /\ to_sender' \in [CSocks -> Seq(ToSender)]
    BY DEF SenderReceives, IInv, NetworkInv
  <1>3. /\ Sent' = Sent /\ (AllSent' <=> AllSent) /\ ToReceiver' = ToReceiver
        /\ (AllBytesChunked' <=> AllBytesChunked)
    BY <1>1 DEF Sent, AllSent, ToReceiver, AllBytesChunked
  <1>4. resend_chunks' \subseteq Sent /\ ("end" \in tasks' => AllSent)
    <2>1. CASE msg.type = "ack"
      BY <1>1, <2>1 DEF SenderReceives, AckReceived
    <2>2. CASE msg.type # "ack"
      <3>1. /\ msg.request \in Requests /\ msg.seqnos \in SUBSET Sent
            /\ msg.next_chunk \in 0 .. next_seqno
        BY <1>2, <2>2 DEF ToSender, Message
      <3>2. msg.next_chunk .. next_seqno - 1 \subseteq Sent
        BY <1>1, <3>1 DEF Sent
      <3>3. ResendRequestReceived(msg)
        BY <2>2 DEF SenderReceives
      <3>4. resend_chunks' \subseteq Sent
        BY <1>1, <3>1, <3>2, <3>3 DEF ResendRequestReceived
      <3>5. complete /\ AllBytesChunked => AllSent
        BY <1>1 DEF AllBytesChunked, AllSent
      <3>6. "end" \in tasks' => AllSent
        BY <1>1, <3>3, <3>5 DEF ResendRequestReceived
      <3> QED
        BY <3>4, <3>6
    <2> QED
      BY <2>1, <2>2
  <1>5. SenderInv'
    BY <1>1, <1>3, <1>4 DEF IInv, SenderInv
  <1>6. to_receiver' \in [CSocks -> Seq(ToReceiver')] /\ next_seqno <= next_seqno'
    BY <1>1, <1>3 DEF IInv, NetworkInv
  <1> QED
    BY <1>1, <1>2, <1>5, <1>6, SenderStep

-----------------------------------------------------------------------------
\* The receiver

\* A step of the receiver that keeps its own part, and replies what it may.
LEMMA ReceiverStep ==
  ASSUME IInv, UNCHANGED sender, ReceiverInv',
         to_receiver' \in [CSocks -> Seq(ToReceiver)],
         to_sender' \in [CSocks -> Seq(ToSender)]
  PROVE  IInv'
  <1>1. UNCHANGED <<added, complete, next_seqno, resend_chunks, tasks>>
    BY DEF sender
  <1>2. /\ Sent' = Sent /\ (AllSent' <=> AllSent)
        /\ ToReceiver' = ToReceiver /\ ToSender' = ToSender
    BY <1>1 DEF Sent, AllSent, ToReceiver, ToSender
  <1>3. SenderInv'
    BY <1>1, <1>2 DEF IInv, SenderInv
  <1> QED
    BY <1>2, <1>3 DEF IInv, NetworkInv

\* A chunk more has arrived.
LEMMA LastOfMore ==
  ASSUME IInv, NEW seqno \in Sent, received' = received \cup {seqno}
  PROVE  HasLast'
  <1>1. received \subseteq Int /\ seqno \in Int
    BY DEF IInv, ReceiverInv, Sent
  <1>2. CASE received = {}
    BY <1>1, <1>2 DEF HasLast
  <1>3. CASE received # {}
    <2>1. PICK s \in received : \A t \in received : t <= s
      BY <1>3 DEF IInv, ReceiverInv, HasLast
    <2>2. CASE seqno <= s
      <3>1. \A t \in received' : t <= s
        BY <2>1, <2>2
      <3> QED
        BY <3>1 DEF HasLast
    <2>3. CASE ~(seqno <= s)
      <3>1. \A t \in received' : t <= seqno
        BY <1>1, <2>1, <2>3
      <3> QED
        BY <3>1 DEF HasLast
    <2> QED
      BY <2>2, <2>3
  <1> QED
    BY <1>2, <1>3

\* The handlers of the messages keep the receiver's part.
LEMMA ReceiverReceivesIInv ==
  ASSUME IInv, NEW c \in CSocks, ReceiverReceives(c)
  PROVE  IInv'
  <1> DEFINE msg == Head(to_receiver[c])
  <1>1. /\ UNCHANGED <<sender, to_sender, read>>
        /\ msg \in ToReceiver
        /\ to_receiver' \in [CSocks -> Seq(ToReceiver)]
    BY DEF ReceiverReceives, IInv, NetworkInv
  <1>2. /\ Sent' = Sent /\ (AllSent' <=> AllSent) /\ added' = added
    BY <1>1 DEF sender, Sent, AllSent
  <1>3. ReceiverInv'
    <2>1. CASE msg.type = "begin" /\ DoBeginIrob(c)
      BY <1>1, <1>2, <2>1 DEF DoBeginIrob, IInv, ReceiverInv, HasLast, IsComplete, SeenEnd
    <2>2. CASE msg.type = "chunk" /\ DoIrobChunk(c, msg.seqno)
      <3>1. msg.seqno \in Sent
        BY <1>1, <2>2 DEF ToReceiver, Message, Chunk, End
      <3>2. UNCHANGED <<begun, expected, resend_requests, partial>>
        BY <2>2 DEF DoIrobChunk
      <3>3. CASE Past
        BY <1>1, <1>2, <2>2, <3>2, <3>3 DEF DoIrobChunk, IInv, ReceiverInv, HasLast, IsComplete, SeenEnd
      <3>4. CASE ~Past
        <4>1. received' = received \cup {msg.seqno}
          BY <2>2, <3>4 DEF DoIrobChunk
        <4>2. HasLast' /\ received' \subseteq Sent'
          BY <1>2, <3>1, <4>1, LastOfMore DEF IInv, ReceiverInv
        <4>3. SeenEnd => Sent = 0 .. expected - 1
          BY DEF IInv, ReceiverInv, AllSent, Sent
        <4>4. IsComplete => IsComplete'
          BY <3>1, <3>2, <4>1, <4>3 DEF IsComplete, SeenEnd
        <4> QED
          BY <1>1, <1>2, <3>2, <4>2, <4>4 DEF IInv, ReceiverInv, SeenEnd
      <3> QED
        BY <3>3, <3>4
    <2>3. CASE msg.type = "end" /\ DoEndIrob(c, msg.num_chunks)
      <3>1. AllSent /\ msg.num_chunks = added
        BY <1>1, <2>3 DEF ToReceiver, Message, Chunk, End
      <3>2. /\ UNCHANGED <<begun, received, read, resend_requests, partial>>
            /\ expected' = added
        BY <1>1, <2>3, <3>1 DEF DoEndIrob, IInv, ReceiverInv
      <3>3. SeenEnd => expected' = expected
        BY <3>2 DEF IInv, ReceiverInv
      <3> QED
        BY <1>2, <3>1, <3>2, <3>3 DEF IInv, ReceiverInv, HasLast, IsComplete, SeenEnd
    <2>4. CASE msg.type = "check" /\ DoDataCheck
      <3>1. UNCHANGED <<begun, received, expected>> /\ partial' \in BOOLEAN
        BY <2>4 DEF DoDataCheck
      <3>2. CheckedRequest \in Requests /\ {"DEPS", "DATA", "END"} \in Requests
        BY DEF CheckedRequest, Requests
      <3>3. resend_requests' \subseteq Requests
        BY <2>4, <3>2 DEF DoDataCheck, IInv, ReceiverInv
      <3> QED
        BY <1>1, <1>2, <3>1, <3>3 DEF IInv, ReceiverInv, HasLast, IsComplete, SeenEnd
    <2> QED
      BY <2>1, <2>2, <2>3, <2>4 DEF ReceiverReceives
  <1> QED
    BY <1>1, <1>3, ReceiverStep DEF IInv, NetworkInv

\* recv reads only of an IROB that is complete.
LEMMA ReadIInv ==
  ASSUME IInv, Read
  PROVE  IInv'
  <1>1. UNCHANGED sender /\ Sent' = Sent /\ (AllSent' <=> AllSent) /\ added' = added
    BY DEF Read, sender, Sent, AllSent
  <1>2. read' \in 0 .. MaxChunks /\ read' <= expected
    <2>1. expected = added /\ added \in 0 .. MaxChunks /\ read \in 0 .. MaxChunks
      BY DEF Read, IsComplete, IInv, ReceiverInv, SenderInv
    <2> QED
      BY <2>1, TransferAssumption DEF Read
  <1>3. ReceiverInv'
    BY <1>1, <1>2 DEF Read, IInv, ReceiverInv, HasLast, IsComplete, SeenEnd
  <1> QED
    BY <1>1, <1>3, ReceiverStep DEF Read, network, IInv, NetworkInv

\* The deque of chunks is not longer than what was sent, read or not.
LEMMA NumChunksFacts ==
  ASSUME IInv
  PROVE  NumChunks \in 0 .. next_seqno
  <1>1. /\ next_seqno \in Nat /\ added \in Nat /\ read \in Nat
        /\ received \subseteq Sent
    BY TransferAssumption DEF IInv, SenderInv, ReceiverInv
  <1>2. CASE received = {}
    BY <1>1, <1>2 DEF NumChunks
  <1>3. CASE received # {}
    <2> DEFINE last == CHOOSE s \in received : \A t \in received : t <= s
    <2>1. last \in received /\ \A t \in received : t <= last
      BY <1>3 DEF IInv, ReceiverInv, HasLast
    <2>2. last \in 0 .. next_seqno - 1 /\ NumChunks = last + 1 - read
      BY <1>1, <1>3, <2>1 DEF Sent, NumChunks
    <2>3. CASE read = 0
      BY <1>1, <2>2, <2>3
    <2>4. CASE read # 0
      <3>1. read > 0
        BY <1>1, <2>4
      <3>2. SeenEnd /\ received = 0 .. expected - 1 /\ read <= expected
        BY <3>1 DEF IInv, ReceiverInv, IsComplete
      <3>3. next_seqno = added /\ expected = added
        BY <3>2 DEF IInv, ReceiverInv, AllSent
      <3>4. last >= added - 1
        BY <1>1, <2>1, <2>2, <3>2, <3>3
      <3> QED
        BY <1>1, <2>2, <3>2, <3>3, <3>4
    <2> QED
      BY <2>3, <2>4
  <1> QED
    BY <1>2, <1>3

\* get_missing_chunks names only chunks that were made.
LEMMA MissingChunksFacts ==
  ASSUME IInv
  PROVE  MissingChunks \subseteq Sent
  <1>1. next_seqno \in Nat
    BY TransferAssumption DEF IInv, SenderInv
  <1>2. NumChunks \in 0 .. next_seqno
    BY NumChunksFacts
  <1>3. SeenEnd => next_seqno = expected
    BY DEF IInv, ReceiverInv, AllSent
  <1> QED
    BY <1>1, <1>2, <1>3 DEF MissingChunks, Sent, Seqnos

\* An ACK or a request is sent, or a csocket given up.
LEMMA AnswerIInv ==
  ASSUME IInv, NEW c \in CSocks,
         \/ \E index \in {c, AnyCSock} : SendAck(c, index) \/ SendAckFails(c, index)
         \/ \E request \in Requests : SendResendRequest(c, request)
         \/ ReceiverNotices(c)
  PROVE  IInv'
  <1>1. /\ UNCHANGED <<sender, to_receiver, begun, received, expected, read, partial>>
        /\ resend_requests' \subseteq resend_requests
    BY DEF SendAck, SendAckFails, SendResendRequest, ReceiverNotices, network
  <1>2. Sent' = Sent /\ (AllSent' <=> AllSent) /\ added' = added
    BY <1>1 DEF sender, Sent, AllSent
  <1>3. ReceiverInv'
    BY <1>1, <1>2 DEF IInv, ReceiverInv, HasLast, IsComplete, SeenEnd
  <1>4. to_sender' \in [CSocks -> Seq(ToSender)]
    <2>1. CASE UNCHANGED to_sender
      BY <2>1 DEF IInv, NetworkInv
    <2>2. ASSUME NEW index \in {c, AnyCSock}, SendAck(c, index)
          PROVE  to_sender' \in [CSocks -> Seq(ToSender)]
      BY <2>2, Replied DEF SendAck, ToSender
    <2>3. ASSUME NEW request \in Requests, SendResendRequest(c, request)
          PROVE  to_sender' \in [CSocks -> Seq(ToSender)]
      <3> DEFINE missing == IF "DATA" \in request /\ ~Past THEN MissingChunks ELSE {}
                 needed == IF missing = {} THEN request \ {"DATA"} ELSE request
                 next_chunk == IF "END" \in request /\ Known /\ ~Past THEN NumChunks ELSE 0
                 reply == [type |-> "resend", request |-> needed,
                           seqnos |-> missing, next_chunk |-> next_chunk]
      <3>1. missing \subseteq Sent /\ needed \in Requests
        BY MissingChunksFacts DEF Requests
      <3>2. next_chunk \in 0 .. next_seqno
        <4>1. NumChunks \in 0 .. next_seqno /\ 0 \in 0 .. next_seqno
          BY NumChunksFacts DEF IInv, SenderInv
        <4> QED
          BY <4>1
      <3>3. reply \in ToSender
        BY <3>1, <3>2 DEF ToSender
      <3>4. UNCHANGED to_sender \/ Reply(c, reply)
        BY <2>3 DEF SendResendRequest
      <3> QED
        BY <2>1, <3>3, <3>4, Replied
    <2> QED
      BY <2>1, <2>2, <2>3 DEF SendAckFails, ReceiverNotices, network
  <1> QED
    BY <1>1, <1>3, <1>4, ReceiverStep DEF IInv, NetworkInv

\* What is on a csocket is lost when it breaks.
LEMMA BreakIInv ==
  ASSUME IInv, NEW c \in CSocks, Break(c)
  PROVE  IInv'
  <1>1. UNCHANGED <<sender, receiver>>
    BY DEF Break
  <1>2. to_receiver' \in [CSocks -> Seq(ToReceiver)] /\ to_sender' \in [CSocks -> Seq(ToSender)]
    BY DEF Break, IInv, NetworkInv
  <1>3. ReceiverInv'
    BY <1>1 DEF sender, receiver, IInv, ReceiverInv, HasLast, IsComplete, SeenEnd, Sent, AllSent
  <1> QED
    BY <1>1, <1>2, <1>3, ReceiverStep

-----------------------------------------------------------------------------

\* The application has added nothing, or all.
LEMMA InitIInv == Init => IInv
  <1> SUFFICES ASSUME Init PROVE IInv
    OBVIOUS
  <1>0. MaxChunks \in Nat \ {0}
    BY TransferAssumption
  <1>1. SenderInv /\ ReceiverInv
    <2>1. /\ added \in 0 .. MaxChunks /\ next_seqno \in 0 .. added
          /\ read \in 0 .. MaxChunks /\ ~(read > 0)
      BY <1>0 DEF Init
    <2>2. /\ complete \in BOOLEAN /\ (complete => added > 0)
          /\ resend_chunks = {} /\ "end" \notin tasks
      <3>1. CASE added \in 1 .. MaxChunks /\ complete = TRUE
        BY <1>0, <3>1 DEF Init
      <3>2. CASE added = 0 /\ complete = FALSE
        BY <3>2 DEF Init
      <3> QED
        BY <3>1, <3>2 DEF Init
    <2>3. /\ begun = FALSE /\ ~SeenEnd /\ received = {} /\ resend_requests = {}
          /\ partial = FALSE
      BY DEF Init, SeenEnd
    <2> QED
      BY <2>1, <2>2, <2>3 DEF SenderInv, ReceiverInv, HasLast
  <1>2. NetworkInv
    BY DEF Init, NetworkInv
  <1> QED
    BY <1>1, <1>2 DEF IInv

\* Every step keeps the inductive invariant.
LEMMA NextIInv == IInv /\ [Next]_vars => IInv'
  <1> SUFFICES ASSUME IInv, [Next]_vars PROVE IInv'
    OBVIOUS
  <1>1. CASE UNCHANGED vars
    <2>1. UNCHANGED <<sender, receiver, to_receiver, to_sender>>
      BY <1>1 DEF vars, network
    <2>2. ReceiverInv'
      BY <2>1 DEF sender, receiver, IInv, ReceiverInv, HasLast, IsComplete, SeenEnd, Sent, AllSent
    <2> QED
      BY <2>1, <2>2, ReceiverStep DEF IInv, NetworkInv
  <1>2. CASE AddChunk \/ EndIrob \/ Read
    BY <1>2, AppIInv, ReadIInv
  <1>3. ASSUME NEW c \in CSocks, Break(c) PROVE IInv'
    BY <1>3, BreakIInv
  <1>4. ASSUME NEW c \in CSocks, SenderThread(c) PROVE IInv'
    BY <1>4, SendBeginIInv, SendChunkIInv, SendDataCheckIInv, GiveUpIInv, SenderReceivesIInv
       DEF SenderThread
  <1>5. ASSUME NEW c \in CSocks, ReceiverThread(c) PROVE IInv'
    BY <1>5, ReceiverReceivesIInv, AnswerIInv DEF ReceiverThread
  <1> QED
    BY <1>1, <1>2, <1>3, <1>4, <1>5 DEF Next

\* The inductive invariant holds of every reachable state.
LEMMA AlwaysIInv == Spec => []IInv
  BY InitIInv, NextIInv, PTL DEF Spec

\* Whatever breaks, however late a request is computed or received, and although
\* reading shifts the deque it is computed from, resend_request asks only for
\* chunks that get_ready_bytes has made, so that mark_not_received stays within
\* sent_chunks.
THEOREM RequestsStayWithinSent == Spec => []RequestsAreForSentChunks
  <1>1. IInv => RequestsAreForSentChunks
    <2> SUFFICES ASSUME IInv, NEW c \in CSocks, NEW i \in DOMAIN to_sender[c],
                        to_sender[c][i].type = "resend"
                 PROVE  Requested(to_sender[c][i]) \subseteq 0 .. next_seqno - 1
      BY DEF RequestsAreForSentChunks
    <2> DEFINE msg == to_sender[c][i]
    <2>1. msg \in ToSender /\ next_seqno \in Nat
      BY TransferAssumption DEF IInv, NetworkInv, SenderInv
    <2>2. msg.seqnos \subseteq 0 .. next_seqno - 1 /\ msg.next_chunk \in 0 .. next_seqno
      BY <2>1 DEF ToSender, Message, Sent
    <2>3. 0 .. msg.next_chunk - 1 \subseteq 0 .. next_seqno - 1
      BY <2>1, <2>2
    <2> QED
      BY <2>2, <2>3 DEF Requested
  <1> QED
    BY <1>1, AlwaysIInv, PTL

\* No thread sends End_IROB, by itself, after a resend request or in front of a
\* data check, before the application has ended the IROB and each chunk has been
\* made, so the number of chunks it carries is final.
THEOREM EndAlwaysLast == Spec => []EndIsLast
  <1>1. IInv => EndIsLast
    <2> SUFFICES ASSUME IInv, NEW c \in CSocks, NEW i \in DOMAIN to_receiver[c],
                        to_receiver[c][i].type = "end"
                 PROVE  AllSent /\ to_receiver[c][i].num_chunks = added
      BY DEF EndIsLast, IInv, ReceiverInv, AllSent
    <2>1. to_receiver[c][i] \in ToReceiver
      BY DEF IInv, NetworkInv
    <2> QED
      BY <2>1 DEF ToReceiver, Message, Chunk, End
  <1> QED
    BY <1>1, AlwaysIInv, PTL

-----------------------------------------------------------------------------
(***************************************************************************)
(* ACKs.  One is on its way, or has been believed, only when the receiver  *)
(* holds all of the IROB, except once data_check_requested has taken a     *)
(* part of it, without an End_IROB, for all of it (README, section 5).     *)
(***************************************************************************)

Held == begun /\ IsComplete

Acks ==
    ~partial =>
        /\ waiting_acks # {} => Held
        /\ \A c \in CSocks : \A i \in 1 .. Len(to_sender[c]) :
              to_sender[c][i].type = "ack" => Held
        /\ erased => Held

\* What has been read is all there.
LEMMA PastIsHeld == IInv /\ Past => Held
  <1> SUFFICES ASSUME IInv, Past PROVE Held
    OBVIOUS
  <1>1. read \in Nat /\ SeenEnd
    BY DEF IInv, ReceiverInv, Past, SeenEnd
  <1>2. expected = added /\ added > 0
    BY <1>1 DEF IInv, ReceiverInv, SenderInv, AllSent
  <1> QED
    BY <1>1, <1>2 DEF IInv, ReceiverInv, Past, Held

\* What the handlers of the messages do: an IROB that is held stays so, and an ACK
\* is scheduled only for all of it.
LEMMA Handled ==
  ASSUME IInv, Acks, NEW c \in CSocks, ReceiverReceives(c)
  PROVE  /\ Held => Held'
         /\ ~partial' => ~partial
         /\ ~partial' /\ waiting_acks' # {} => Held'
  <1> DEFINE msg == Head(to_receiver[c])
  <1>1. msg \in ToReceiver /\ partial \in BOOLEAN
    BY DEF ReceiverReceives, IInv, NetworkInv, ReceiverInv
  <1>2. ~partial /\ waiting_acks # {} => Held
    BY DEF Acks
  <1>3. CASE msg.type = "begin" /\ DoBeginIrob(c)
    <2>1. UNCHANGED <<received, expected, partial>> /\ begun'
      BY <1>3 DEF DoBeginIrob, IInv, ReceiverInv
    <2>2. Held => Held'
      BY <2>1 DEF Held, IsComplete, SeenEnd
    <2>3. waiting_acks' = waiting_acks \/ Held'
      BY <1>3, <2>1 DEF DoBeginIrob, ScheduleAck, Held
    <2> QED
      BY <1>2, <2>1, <2>2, <2>3
  <1>4. CASE msg.type = "chunk" /\ DoIrobChunk(c, msg.seqno)
    <2>1. UNCHANGED <<begun, expected, partial>>
      BY <1>4 DEF DoIrobChunk
    <2>2. msg.seqno \in Sent
      BY <1>1, <1>4 DEF ToReceiver, Message, Chunk, End
    <2>3. SeenEnd => Sent = 0 .. expected - 1
      BY DEF IInv, ReceiverInv, AllSent, Sent
    <2>4. received' = received \/ received' = received \cup {msg.seqno}
      BY <1>4 DEF DoIrobChunk
    <2>5. Held => Held'
      BY <2>1, <2>2, <2>3, <2>4 DEF Held, IsComplete, SeenEnd
    <2>6. waiting_acks' = waiting_acks \/ Held'
      BY <1>4, <2>1 DEF DoIrobChunk, ScheduleAck, Held
    <2> QED
      BY <1>2, <2>1, <2>5, <2>6
  <1>5. CASE msg.type = "end" /\ DoEndIrob(c, msg.num_chunks)
    <2>1. UNCHANGED <<begun, received, partial>> /\ (SeenEnd => expected' = expected)
      BY <1>5 DEF DoEndIrob
    <2>2. Held => Held'
      BY <2>1 DEF Held, IsComplete, SeenEnd
    <2>3. waiting_acks' = waiting_acks \/ Held'
      BY <1>5, <2>1 DEF DoEndIrob, ScheduleAck, Held
    <2> QED
      BY <1>2, <2>1, <2>2, <2>3
  <1>6. CASE msg.type = "check" /\ DoDataCheck
    <2> DEFINE request == IF Known THEN CheckedRequest ELSE {"DEPS", "DATA", "END"}
    <2>1. UNCHANGED <<begun, received, expected>>
      BY <1>6 DEF DoDataCheck
    <2>2. Held' <=> Held
      BY <2>1 DEF Held, IsComplete, SeenEnd
    <2>3. partial' = (partial \/ (~Past /\ request = {}))
      BY <1>6 DEF DoDataCheck
    <2>4. ~partial' => ~partial /\ (Past \/ request # {})
      BY <2>3, Zenon
    <2>5. Past \/ request # {} => Past \/ waiting_acks' = waiting_acks
      BY <1>6 DEF DoDataCheck
    <2> QED
      BY <1>2, <2>2, <2>4, <2>5, PastIsHeld
  <1> QED
    BY <1>3, <1>4, <1>5, <1>6 DEF ReceiverReceives

\* A step that neither sends nor receives an ACK.
LEMMA AcksKept ==
  ASSUME Acks, UNCHANGED <<partial, waiting_acks, to_sender, erased, begun, received, expected>>
  PROVE  Acks'
  BY DEF Acks, Held, IsComplete, SeenEnd

\* An ACK is believed, and rightly.
LEMMA SenderReceivesAcks ==
  ASSUME IInv, Acks, NEW c \in CSocks, SenderReceives(c)
  PROVE  Acks'
  <1>1. /\ UNCHANGED <<receiver, to_receiver, complete>>
        /\ to_sender[c] # <<>> /\ to_sender[c] \in Seq(ToSender)
        /\ to_sender' = [to_sender EXCEPT ![c] = Tail(@)]
    BY DEF SenderReceives, IInv, NetworkInv
  <1>2. (Held' <=> Held) /\ UNCHANGED <<waiting_acks, partial>>
    BY <1>1 DEF receiver, Held, IsComplete, SeenEnd
  <1>3. ASSUME ~partial, NEW d \in CSocks, NEW i \in 1 .. Len(to_sender'[d]),
               to_sender'[d][i].type = "ack"
        PROVE  Held
    <2>1. CASE d = c
      <3>1. /\ to_sender'[d] = Tail(to_sender[c]) /\ i + 1 \in 1 .. Len(to_sender[c])
            /\ Tail(to_sender[c])[i] = to_sender[c][i + 1]
        BY <1>1, <1>3, <2>1 DEF IInv, NetworkInv
      <3> QED
        BY <1>3, <3>1 DEF Acks
    <2>2. CASE d # c
      BY <1>1, <1>3, <2>2 DEF Acks, IInv, NetworkInv
    <2> QED
      BY <2>1, <2>2
  <1>4. ~partial /\ erased' => Held
    <2>1. CASE Head(to_sender[c]).type = "ack"
      <3>1. 1 \in 1 .. Len(to_sender[c]) /\ to_sender[c][1].type = "ack"
        BY <1>1, <2>1
      <3> QED
        BY <3>1 DEF Acks
    <2>2. CASE Head(to_sender[c]).type # "ack"
      BY <2>2 DEF SenderReceives, ResendRequestReceived, Acks
    <2> QED
      BY <2>1, <2>2
  <1> QED
    BY <1>2, <1>3, <1>4 DEF Acks

\* The receiver answers, with an ACK only for what it holds, or loses a csocket.
LEMMA AnswerAcks ==
  ASSUME IInv, Acks, NEW c \in CSocks,
         \/ \E index \in {c, AnyCSock} : SendAck(c, index) \/ SendAckFails(c, index)
         \/ \E request \in Requests : SendResendRequest(c, request)
         \/ ReceiverNotices(c)
  PROVE  Acks'
  <1>1. UNCHANGED <<sender, to_receiver, begun, received, expected, partial>>
    BY DEF SendAck, SendAckFails, SendResendRequest, ReceiverNotices, network
  <1>2. Held' <=> Held
    BY <1>1 DEF Held, IsComplete, SeenEnd
  <1>3. waiting_acks' # {} => waiting_acks # {}
    BY DEF SendAck, SendAckFails, SendResendRequest, ReceiverNotices, PassedOn
  <1>4. ASSUME ~partial, NEW msg, Reply(c, msg), msg.type = "ack" => Held,
               NEW d \in CSocks, NEW i \in 1 .. Len(to_sender'[d]), to_sender'[d][i].type = "ack"
        PROVE  Held
    <2>1. to_sender \in [CSocks -> Seq(ToSender)]
      BY DEF IInv, NetworkInv
    <2>2. CASE to_sender'[d] = to_sender[d]
      BY <1>4, <2>2 DEF Acks
    <2>3. CASE to_sender'[d] # to_sender[d]
      <3>1. to_sender'[d] = Append(to_sender[d], msg) /\ Len(to_sender[d]) \in Nat
        <4>1. to_sender' = [to_sender EXCEPT ![c] = Append(to_sender[c], msg)]
          BY <1>4, <2>3 DEF Reply
        <4> QED
          BY <2>1, <2>3, <4>1
      <3>2. Len(to_sender'[d]) = Len(to_sender[d]) + 1
        BY <2>1, <3>1
      <3>3. CASE i \in 1 .. Len(to_sender[d])
        <4>1. to_sender'[d][i] = to_sender[d][i]
          BY <2>1, <3>1, <3>3
        <4> QED
          BY <1>4, <3>3, <4>1 DEF Acks
      <3>4. CASE i = Len(to_sender[d]) + 1
        <4>1. to_sender'[d][i] = msg
          BY <2>1, <3>1, <3>4
        <4> QED
          BY <1>4, <4>1
      <3> QED
        BY <3>1, <3>2, <3>3, <3>4
    <2> QED
      BY <2>2, <2>3
  <1>5. ~partial => \/ UNCHANGED to_sender
                    \/ \E msg : Reply(c, msg) /\ (msg.type = "ack" => Held)
    <2>1. ASSUME ~partial, NEW index \in {c, AnyCSock}, SendAck(c, index)
          PROVE  Reply(c, Message("ack")) /\ Held
      BY <2>1 DEF SendAck, Acks
    <2>2. ASSUME NEW request \in Requests, SendResendRequest(c, request)
          PROVE  \/ UNCHANGED to_sender
                 \/ \E msg : Reply(c, msg) /\ msg.type # "ack"
      BY <2>2 DEF SendResendRequest
    <2> QED
      BY <2>1, <2>2 DEF SendAckFails, ReceiverNotices, network
  <1>6. ~partial => \A d \in CSocks : \A i \in 1 .. Len(to_sender'[d]) :
                       to_sender'[d][i].type = "ack" => Held
    BY <1>4, <1>5 DEF Acks
  <1> QED
    BY <1>1, <1>2, <1>3, <1>6 DEF Acks, sender

\* Every step keeps ACKs honest.
LEMMA NextAcks == IInv /\ Acks /\ [Next]_vars => Acks'
  <1> SUFFICES ASSUME IInv, Acks, [Next]_vars PROVE Acks'
    OBVIOUS
  <1>1. CASE UNCHANGED vars \/ Read \/ AddChunk \/ EndIrob
    <2>1. UNCHANGED <<partial, waiting_acks, to_sender, erased, begun, received, expected>>
      BY <1>1 DEF vars, network, sender, receiver, Read, AddChunk, EndIrob
    <2> QED
      BY <2>1, AcksKept
  <1>2. ASSUME NEW c \in CSocks, Break(c) PROVE Acks'
    <2>1. UNCHANGED <<partial, waiting_acks, erased, begun, received, expected>>
      BY <1>2 DEF Break, sender, receiver
    <2>2. \A d \in CSocks : to_sender'[d] \in {to_sender[d], <<>>}
      BY <1>2 DEF Break, IInv, NetworkInv
    <2> QED
      BY <2>1, <2>2 DEF Acks, Held, IsComplete, SeenEnd
  <1>3. ASSUME NEW c \in CSocks, SenderThread(c) PROVE Acks'
    <2>1. CASE SenderReceives(c)
      BY <2>1, SenderReceivesAcks
    <2>2. CASE ~SenderReceives(c)
      <3>1. UNCHANGED <<partial, waiting_acks, to_sender, erased, begun, received, expected>>
        BY <1>3, <2>2 DEF SenderThread, SendBegin, SendWhole, SendChunk, SendEnd,
           SendDataCheck, Pop, SenderNotices, WriteFails, network, receiver
      <3> QED
        BY <3>1, AcksKept
    <2> QED
      BY <2>1, <2>2
  <1>4. ASSUME NEW c \in CSocks, ReceiverReceives(c) PROVE Acks'
    <2>1. UNCHANGED <<to_sender, erased>>
      BY <1>4 DEF ReceiverReceives, sender
    <2>2. /\ Held => Held'
          /\ ~partial' => ~partial
          /\ ~partial' /\ waiting_acks' # {} => Held'
      BY <1>4, Handled
    <2> QED
      BY <2>1, <2>2 DEF Acks
  <1>5. ASSUME NEW c \in CSocks, ReceiverThread(c) PROVE Acks'
    BY <1>4, <1>5, AnswerAcks DEF ReceiverThread
  <1> QED
    BY <1>1, <1>2, <1>3, <1>5 DEF Next

\* Nothing has been ACKed.
LEMMA InitAcks == Init => Acks
  BY DEF Init, Acks

\* With any number of csockets, of which any may break, and with ACKs scheduled
\* again for every duplicate and data check, ack_received and remove_if_unneeded
\* forget an IROB only when the receiver holds all of it, or after a data check that
\* came before the End_IROB had a part of it ACKed (partial).
THEOREM ErasedAlwaysReceived == Spec => []ErasedIsReceived
  <1>1. Acks => ErasedIsReceived
    BY DEF Acks, Held, ErasedIsReceived
  <1>2. Spec => []Acks
    BY AlwaysIInv, InitAcks, NextAcks, PTL DEF Spec
  <1> QED
    BY <1>1, <1>2, PTL

-----------------------------------------------------------------------------
(***************************************************************************)
(* An IROB that is small enough to be sent with one chunk, by one call.    *)
(* Each data check follows all of it, so no part of it is ever ACKed.      *)
(***************************************************************************)

Parts == {"begin", "chunk", "end"}

\* The messages of the IROB the receiver has handled.
Have == {t \in Parts : \/ t = "begin" /\ begun
                       \/ t = "chunk" /\ received = {0}
                       \/ t = "end" /\ SeenEnd}

\* Whoever is asked by a data check of q has all of the IROB by then.
Follows(q, have) ==
    \A i \in 1 .. Len(q) : q[i].type = "check" =>
        \A t \in Parts : t \in have \/ \E j \in 1 .. i - 1 : q[j].type = t

\* A data check finds all of the IROB at the receiver, since whoever asks sends
\* it again in front of the question, or knows that it has arrived.
ChecksFollow == \A c \in CSocks : Follows(to_receiver[c], Have)

SmallIInv == Small /\ IInv /\ ~partial /\ ChecksFollow /\ Acks

\* The receiver holds the IROB when it has handled each kind of message of it.
LEMMA HeldIsAll == Small /\ IInv => (Held <=> Have = Parts)
  <1> SUFFICES ASSUME Small, IInv PROVE Held <=> Have = Parts
    OBVIOUS
  <1>1. SeenEnd => 0 .. expected - 1 = {0}
    BY DEF Small, IInv, ReceiverInv
  <1>2. Held <=> begun /\ SeenEnd /\ received = {0}
    BY <1>1 DEF Held, IsComplete
  <1> QED
    BY <1>2 DEF Have, Parts

\* More has been handled.
LEMMA FollowsMore ==
  ASSUME NEW q, NEW have, NEW more, have \subseteq more, Follows(q, have)
  PROVE  Follows(q, more)
  BY DEF Follows

\* Questions that follow the IROB are written behind others that do.
LEMMA FollowsAppended ==
  ASSUME NEW S, NEW q \in Seq(S), NEW msgs \in Seq(S), NEW have,
         Follows(q, have), Follows(msgs, have)
  PROVE  Follows(q \o msgs, have)
  <1> SUFFICES ASSUME NEW i \in 1 .. Len(q \o msgs), (q \o msgs)[i].type = "check",
                      NEW t \in Parts, t \notin have
               PROVE  \E j \in 1 .. i - 1 : (q \o msgs)[j].type = t
    BY DEF Follows
  <1>1. Len(q) \in Nat /\ Len(msgs) \in Nat /\ Len(q \o msgs) = Len(q) + Len(msgs)
    OBVIOUS
  <1>2. /\ \A j \in 1 .. Len(q) : (q \o msgs)[j] = q[j]
        /\ \A j \in 1 .. Len(msgs) : (q \o msgs)[Len(q) + j] = msgs[j]
    OBVIOUS
  <1>3. CASE i <= Len(q)
    <2>1. PICK j \in 1 .. i - 1 : q[j].type = t
      BY <1>1, <1>2, <1>3 DEF Follows
    <2> QED
      BY <1>1, <1>2, <1>3, <2>1
  <1>4. CASE ~(i <= Len(q))
    <2> DEFINE k == i - Len(q)
    <2>1. k \in 1 .. Len(msgs) /\ i = Len(q) + k
      BY <1>1, <1>4
    <2>2. msgs[k].type = "check"
      BY <1>2, <2>1
    <2>3. PICK j \in 1 .. k - 1 : msgs[j].type = t
      BY <2>1, <2>2 DEF Follows
    <2>4. Len(q) + j \in 1 .. i - 1 /\ j \in 1 .. Len(msgs)
      BY <1>1, <2>1, <2>3
    <2> QED
      BY <1>2, <2>3, <2>4
  <1> QED
    BY <1>3, <1>4

\* The first message is handled.
LEMMA FollowsTail ==
  ASSUME NEW S, NEW q \in Seq(S), q # <<>>, NEW have, NEW more,
         Follows(q, have), have \subseteq more,
         Head(q).type \in Parts => Head(q).type \in more
  PROVE  Follows(Tail(q), more)
  <1> SUFFICES ASSUME NEW i \in 1 .. Len(Tail(q)), Tail(q)[i].type = "check",
                      NEW t \in Parts, t \notin more
               PROVE  \E j \in 1 .. i - 1 : Tail(q)[j].type = t
    BY DEF Follows
  <1>1. Len(q) \in Nat /\ Len(Tail(q)) = Len(q) - 1 /\ Head(q) = q[1]
    OBVIOUS
  <1>2. \A j \in 1 .. Len(Tail(q)) : Tail(q)[j] = q[j + 1]
    OBVIOUS
  <1>3. i + 1 \in 1 .. Len(q) /\ q[i + 1].type = "check"
    BY <1>1, <1>2
  <1>4. PICK j \in 1 .. (i + 1) - 1 : q[j].type = t
    BY <1>3 DEF Follows
  <1>5. j # 1
    BY <1>1, <1>4
  <1>6. j - 1 \in 1 .. i - 1 /\ j - 1 \in 1 .. Len(Tail(q)) /\ (j - 1) + 1 = j
    BY <1>1, <1>4, <1>5
  <1> QED
    BY <1>2, <1>4, <1>6

\* The receiver holds all of the IROB when it is asked.
LEMMA AskedWhenHeld ==
  ASSUME NEW S, NEW q \in Seq(S), q # <<>>, NEW have \in SUBSET Parts, Follows(q, have),
         Head(q).type = "check"
  PROVE  have = Parts
  <1>1. 1 \in 1 .. Len(q) /\ q[1].type = "check"
    OBVIOUS
  <1>2. \A j \in 1 .. 1 - 1 : FALSE
    OBVIOUS
  <1>3. \A t \in Parts : t \in have
    BY <1>1, <1>2 DEF Follows
  <1> QED
    BY <1>3

\* A step of the sender after which a question in transit still follows the IROB.
LEMMA SmallSending ==
  ASSUME SmallIInv, IInv', Acks', UNCHANGED <<receiver, added, complete>>,
         \/ UNCHANGED to_receiver
         \/ \E c \in CSocks : \E msgs \in Seq(ToReceiver') :
               Transmit(c, msgs) /\ Follows(msgs, Have)
  PROVE  SmallIInv'
  <1>1. Have' = Have /\ partial' = partial
    BY DEF receiver, Have, SeenEnd
  <1>3. ASSUME NEW c \in CSocks, NEW msgs \in Seq(ToReceiver'), Transmit(c, msgs),
               Follows(msgs, Have), NEW d \in CSocks
        PROVE  Follows(to_receiver'[d], Have)
    <2>1. Follows(to_receiver[d], Have)
      BY DEF SmallIInv, ChecksFollow
    <2>2. CASE to_receiver'[d] = to_receiver[d]
      BY <2>1, <2>2
    <2>3. CASE to_receiver'[d] # to_receiver[d]
      <3>1. c \in alive /\ d = c /\ to_receiver'[c] = to_receiver[c] \o msgs
        BY <1>3, <2>3 DEF Transmit, SmallIInv, IInv, NetworkInv
      <3>2. to_receiver[c] \in Seq(ToReceiver)
        BY DEF SmallIInv, IInv, NetworkInv
      <3>3. to_receiver[c] \in Seq(ToReceiver \cup ToReceiver') /\ msgs \in Seq(ToReceiver \cup ToReceiver')
        BY <3>2, SeqMonotonic
      <3> QED
        BY <1>3, <2>1, <3>1, <3>3, FollowsAppended
    <2> QED
      BY <2>2, <2>3
  <1>4. ChecksFollow'
    <2> SUFFICES ASSUME NEW d \in CSocks PROVE Follows(to_receiver'[d], Have')
      BY DEF ChecksFollow
    <2> QED
      BY <1>1, <1>3 DEF SmallIInv, ChecksFollow
  <1> QED
    BY <1>1, <1>4 DEF SmallIInv, Small

\* Everything but a data check
LEMMA NoQuestion ==
  ASSUME NEW have, NEW s, NEW n
  PROVE  /\ Follows(<<Message("begin")>>, have)
         /\ Follows(<<End(n)>>, have)
         /\ Follows(<<Chunk(s)>>, have)
         /\ Follows(<<Message("begin"), Chunk(s), End(n)>>, have)
  BY DEF Follows, Message, Chunk, End

\* A data check with all of the IROB in front of it
LEMMA WholeQuestion ==
  ASSUME NEW have, NEW s, NEW n
  PROVE  Follows(<<Message("begin"), Chunk(s), End(n), Message("check")>>, have)
  <1> DEFINE q == <<Message("begin"), Chunk(s), End(n), Message("check")>>
  <1>1. /\ Len(q) = 4 /\ q[1].type = "begin" /\ q[2].type = "chunk"
        /\ q[3].type = "end" /\ q[4].type = "check"
    BY DEF Message, Chunk, End
  <1> HIDE DEF q
  <1>2. \A i \in 1 .. Len(q) : q[i].type = "check" => i = 4
    <2> SUFFICES ASSUME NEW i \in 1 .. 4, q[i].type = "check" PROVE i = 4
      BY <1>1
    <2>1. i = 1 \/ i = 2 \/ i = 3 \/ i = 4
      OBVIOUS
    <2> QED
      BY <1>1, <2>1
  <1>3. \A t \in Parts : \E j \in 1 .. 4 - 1 : q[j].type = t
    BY <1>1 DEF Parts
  <1> QED
    BY <1>2, <1>3 DEF Follows, q

\* The data check is put together of two writes.
LEMMA FourJoined ==
  ASSUME NEW a, NEW b, NEW d, NEW e
  PROVE  <<a, b>> \o <<d, e>> = <<a, b, d, e>>
  <1> DEFINE S == {a, b, d, e}
             q == <<a, b>> \o <<d, e>>
             r == <<a, b, d, e>>
  <1>1. <<a, b>> \in Seq(S) /\ <<d, e>> \in Seq(S) /\ r \in Seq(S)
    OBVIOUS
  <1>2. Len(q) = 4 /\ Len(r) = 4 /\ q \in Seq(S)
    BY <1>1
  <1>3. \A i \in 1 .. 4 : q[i] = r[i]
    BY <1>1
  <1> HIDE DEF S, q, r
  <1>4. q = r
    BY <1>1, <1>2, <1>3, SeqEqual
  <1> QED
    BY <1>4 DEF q, r

\* The sender threads ask nothing without sending the IROB in front of it.
LEMMA SmallSender ==
  ASSUME SmallIInv, IInv', Acks', NEW c \in CSocks, SenderThread(c)
  PROVE  SmallIInv'
  <1>1. UNCHANGED <<receiver, added, complete>>
    BY DEF SenderThread, SendBegin, SendWhole, SendChunk, SendEnd, SendDataCheck, Pop,
           SenderNotices, WriteFails, SenderReceives
  <1>2. CASE UNCHANGED to_receiver
    BY <1>1, <1>2, SmallSending
  <1>3. CASE SendBegin(c)
    <2>1. <<Message("begin")>> \in Seq(ToReceiver')
      BY Messages
    <2> QED
      BY <1>1, <1>3, <2>1, NoQuestion, SmallSending DEF SendBegin
  <1>4. CASE SendWhole(c)
    <2>1. 0 \in Seqnos /\ added = 1 /\ complete
      BY <1>4, TransferAssumption DEF SendWhole, MaybeSmall, Seqnos
    <2>2. 0 \in Sent' /\ AllSent'
      BY <1>1, <1>4, <2>1, ReadyBytesFacts DEF SendWhole, SmallIInv
    <2>3. <<Message("begin"), Chunk(0), End(1)>> \in Seq(ToReceiver')
      BY <1>1, <2>1, <2>2, Messages
    <2> QED
      BY <1>1, <1>4, <2>3, NoQuestion, SmallSending DEF SendWhole
  <1>5. ASSUME NEW seqno \in Seqnos, SendChunk(c), ReadyBytes(seqno), Transmit(c, <<Chunk(seqno)>>)
        PROVE  SmallIInv'
    <2>1. seqno \in Sent'
      BY <1>5, ReadyBytesFacts DEF SmallIInv, SendChunk, Pop
    <2>2. <<Chunk(seqno)>> \in Seq(ToReceiver')
      BY <2>1, Messages
    <2> QED
      BY <1>1, <1>5, <2>2, NoQuestion, SmallSending
  <1>6. CASE SendEnd(c)
    <2>1. AllSent'
      BY <1>6 DEF SendEnd, Pop, SmallIInv, IInv, SenderInv, AllSent
    <2>2. <<End(next_seqno)>> \in Seq(ToReceiver')
      BY <1>6, <2>1, Messages DEF SendEnd
    <2> QED
      BY <1>1, <1>6, <2>2, NoQuestion, SmallSending DEF SendEnd
  <1>7. CASE SendDataCheck(c)
    <2>1. CASE erased
      <3>1. Have = Parts
        BY <2>1, HeldIsAll DEF SmallIInv, Acks
      <3>2. Follows(<<Message("check")>>, Have)
        BY <3>1 DEF Follows
      <3>3. <<Message("check")>> \in Seq(ToReceiver')
        BY Messages
      <3> QED
        BY <1>1, <1>7, <2>1, <3>2, <3>3, SmallSending DEF SendDataCheck
    <2>2. CASE ~erased
      <3> DEFINE whole(s) == <<Message("begin"), Chunk(s), End(next_seqno'), Message("check")>>
      <3>1. complete /\ added' = added /\ added = 1
        BY <1>1 DEF SmallIInv, Small
      <3>2. ASSUME NEW s, s \in Sent', AllSent', Transmit(c, whole(s))
            PROVE  SmallIInv'
        <4>1. whole(s) \in Seq(ToReceiver')
          BY <3>2, Messages
        <4> QED
          BY <1>1, <3>2, <4>1, WholeQuestion, SmallSending
      <3>3. ASSUME NEW seqno \in Seqnos, ReadyBytes(seqno),
                   Transmit(c, <<Message("begin"), Chunk(seqno)>>
                                  \o (IF complete /\ AllBytesChunked'
                                      THEN <<End(next_seqno'), Message("check")>>
                                      ELSE <<Message("check")>>))
            PROVE  SmallIInv'
        <4>1. seqno \in Sent' /\ AllSent' /\ AllBytesChunked'
          BY <1>1, <3>1, <3>3, ReadyBytesFacts DEF SmallIInv
        <4>2. <<Message("begin"), Chunk(seqno)>> \o <<End(next_seqno'), Message("check")>> = whole(seqno)
          BY FourJoined
        <4> QED
          BY <3>1, <3>2, <3>3, <4>1, <4>2
      <3>4. CASE /\ NothingReady
                 /\ UNCHANGED <<next_seqno, resend_chunks>>
                 /\ Transmit(c, IF next_seqno > 0
                                THEN <<Message("begin"), Chunk(next_seqno - 1)>>
                                        \o (IF complete /\ AllBytesChunked'
                                            THEN <<End(next_seqno'), Message("check")>>
                                            ELSE <<Message("check")>>)
                                ELSE <<Message("begin")>>
                                        \o (IF complete /\ AllBytesChunked'
                                            THEN <<End(next_seqno'), Message("check")>>
                                            ELSE <<Message("check")>>))
        <4>1. next_seqno = 1 /\ next_seqno > 0 /\ next_seqno - 1 = 0
          BY <3>1, <3>4 DEF NothingReady
        <4>2. AllBytesChunked' /\ AllSent' /\ next_seqno - 1 \in Sent'
          BY <1>1, <3>1, <3>4, <4>1 DEF AllBytesChunked, AllSent, Sent
        <4>3. <<Message("begin"), Chunk(next_seqno - 1)>> \o <<End(next_seqno'), Message("check")>>
                = whole(next_seqno - 1)
          BY FourJoined
        <4> QED
          BY <3>1, <3>2, <3>4, <4>1, <4>2, <4>3
      <3> QED
        BY <1>7, <2>2, <3>3, <3>4 DEF SendDataCheck
    <2> QED
      BY <2>1, <2>2
  <1>8. CASE SendChunk(c)
    BY <1>2, <1>5, <1>8 DEF SendChunk
  <1>9. CASE SenderNotices(c) \/ \E task \in Tasks : WriteFails(c, task)
    BY <1>2, <1>9 DEF SenderNotices, WriteFails, network
  <1>10. CASE SenderReceives(c)
    BY <1>2, <1>10 DEF SenderReceives
  <1> QED
    BY <1>3, <1>4, <1>6, <1>7, <1>8, <1>9, <1>10 DEF SenderThread

\* What the handlers of the messages do: the part that has come is there after it,
\* nothing that was there is gone, and no part is ACKed.
LEMMA SmallHandled ==
  ASSUME SmallIInv, NEW c \in CSocks, ReceiverReceives(c)
  PROVE  LET t == Head(to_receiver[c]).type IN
         /\ Have \subseteq Have'
         /\ t \in Parts => t \in Have'
         /\ ~partial'
  <1> DEFINE msg == Head(to_receiver[c])
  <1>1. /\ to_receiver[c] # <<>> /\ to_receiver[c] \in Seq(ToReceiver)
        /\ msg \in ToReceiver /\ ~partial
    BY DEF ReceiverReceives, SmallIInv, IInv, NetworkInv
  <1>3. CASE msg.type = "begin" /\ DoBeginIrob(c)
    <2>1. UNCHANGED <<received, expected, partial>> /\ begun'
      BY <1>3 DEF DoBeginIrob, SmallIInv, IInv, ReceiverInv
    <2> QED
      BY <1>1, <1>3, <2>1 DEF Have, Parts, SeenEnd
  <1>4. CASE msg.type = "chunk" /\ DoIrobChunk(c, msg.seqno)
    <2>1. UNCHANGED <<begun, expected, partial>>
      BY <1>4 DEF DoIrobChunk
    <2>2. received' = {0}
      <3>1. CASE Past
        <4>1. Have = Parts
          BY <3>1, PastIsHeld, HeldIsAll DEF SmallIInv
        <4>2. received = {0}
          BY <4>1 DEF Have, Parts
        <4> QED
          BY <1>4, <3>1, <4>2 DEF DoIrobChunk
      <3>2. CASE ~Past
        <4>1. Sent \subseteq {0}
          BY DEF SmallIInv, Small, IInv, SenderInv, Sent
        <4>2. msg.seqno \in Sent /\ received \subseteq Sent
          BY <1>1, <1>4 DEF ToReceiver, Message, Chunk, End, SmallIInv, IInv, ReceiverInv
        <4> QED
          BY <1>4, <3>2, <4>1, <4>2 DEF DoIrobChunk
      <3> QED
        BY <3>1, <3>2
    <2> QED
      BY <1>1, <1>4, <2>1, <2>2 DEF Have, Parts, SeenEnd
  <1>5. CASE msg.type = "end" /\ DoEndIrob(c, msg.num_chunks)
    <2>1. msg.num_chunks = 1
      BY <1>1, <1>5 DEF ToReceiver, Message, Chunk, End, SmallIInv, Small
    <2>2. UNCHANGED <<begun, received, partial>> /\ SeenEnd'
      BY <1>5, <2>1 DEF DoEndIrob, SeenEnd
    <2> QED
      BY <1>1, <1>5, <2>2 DEF Have, Parts
  <1>6. CASE msg.type = "check" /\ DoDataCheck
    <2> DEFINE request == IF Known THEN CheckedRequest ELSE {"DEPS", "DATA", "END"}
    <2>1. UNCHANGED <<begun, received, expected>>
      BY <1>6 DEF DoDataCheck
    <2>2. Have' = Have
      BY <2>1 DEF Have, SeenEnd
    <2>3. Have = Parts
      <3>1. Follows(to_receiver[c], Have) /\ Have \in SUBSET Parts
        BY DEF SmallIInv, ChecksFollow, Have
      <3> QED
        BY <1>1, <1>6, <3>1, AskedWhenHeld
    <2>4. SeenEnd
      BY <2>3 DEF Have, Parts
    <2>5. "END" \in request
      BY <2>4 DEF CheckedRequest, Known
    <2>6. partial' = (partial \/ (~Past /\ request = {}))
      BY <1>6 DEF DoDataCheck
    <2>7. ~partial'
      <3>1. request # {}
        BY <2>5
      <3> HIDE DEF request
      <3> QED
        BY <1>1, <2>6, <3>1, Zenon
    <2> QED
      BY <1>6, <2>2, <2>7 DEF Parts
  <1> QED
    BY <1>3, <1>4, <1>5, <1>6 DEF ReceiverReceives

\* The receiver handles a message.
LEMMA SmallReceiverReceives ==
  ASSUME SmallIInv, IInv', Acks', NEW c \in CSocks, ReceiverReceives(c)
  PROVE  SmallIInv'
  <1>1. /\ UNCHANGED sender
        /\ to_receiver[c] # <<>> /\ to_receiver[c] \in Seq(ToReceiver)
        /\ to_receiver' = [to_receiver EXCEPT ![c] = Tail(@)]
        /\ to_receiver \in [CSocks -> Seq(ToReceiver)]
    BY DEF ReceiverReceives, SmallIInv, IInv, NetworkInv
  <1>2. /\ Have \subseteq Have' /\ ~partial'
        /\ Head(to_receiver[c]).type \in Parts => Head(to_receiver[c]).type \in Have'
    BY SmallHandled
  <1>3. ChecksFollow'
    <2> SUFFICES ASSUME NEW d \in CSocks PROVE Follows(to_receiver'[d], Have')
      BY DEF ChecksFollow
    <2>1. Follows(to_receiver[d], Have)
      BY DEF SmallIInv, ChecksFollow
    <2>2. CASE d = c
      <3>1. to_receiver'[d] = Tail(to_receiver[c])
        BY <1>1, <2>2
      <3> QED
        BY <1>1, <1>2, <2>1, <2>2, <3>1, FollowsTail
    <2>3. CASE d # c
      BY <1>1, <1>2, <2>1, <2>3, FollowsMore
    <2> QED
      BY <2>2, <2>3
  <1> QED
    BY <1>1, <1>2, <1>3 DEF SmallIInv, Small, sender

\* Every step keeps the invariant of the small IROB.
LEMMA NextSmall == SmallIInv /\ [Next]_vars => SmallIInv'
  <1> SUFFICES ASSUME SmallIInv, [Next]_vars PROVE SmallIInv'
    OBVIOUS
  <1>1. IInv' /\ Acks'
    BY NextIInv, NextAcks DEF SmallIInv
  <1>2. CASE UNCHANGED vars \/ Read
    <2>1. UNCHANGED <<to_receiver, added, complete, begun, received, expected, partial>>
      BY <1>2 DEF vars, network, sender, receiver, Read
    <2> QED
      BY <1>1, <2>1 DEF SmallIInv, Small, ChecksFollow, Have, SeenEnd
  <1>3. CASE AddChunk \/ EndIrob
    BY <1>3 DEF AddChunk, EndIrob, SmallIInv, Small
  <1>4. ASSUME NEW c \in CSocks, Break(c) PROVE SmallIInv'
    <2>1. UNCHANGED <<sender, receiver>>
      BY <1>4 DEF Break
    <2>2. Have' = Have
      BY <2>1 DEF receiver, Have, SeenEnd
    <2>3. \A d \in CSocks : to_receiver'[d] \in {to_receiver[d], <<>>}
      BY <1>4 DEF Break, SmallIInv, IInv, NetworkInv
    <2>4. Follows(<<>>, Have)
      BY DEF Follows
    <2>5. ChecksFollow'
      BY <2>2, <2>3, <2>4 DEF SmallIInv, ChecksFollow
    <2> QED
      BY <1>1, <2>1, <2>5 DEF SmallIInv, Small, sender, receiver
  <1>5. ASSUME NEW c \in CSocks, SenderThread(c) PROVE SmallIInv'
    BY <1>1, <1>5, SmallSender
  <1>6. ASSUME NEW c \in CSocks, ReceiverThread(c) PROVE SmallIInv'
    <2>1. CASE ReceiverReceives(c)
      BY <1>1, <2>1, SmallReceiverReceives
    <2>2. CASE ~ReceiverReceives(c)
      <3>1. UNCHANGED <<sender, to_receiver, begun, received, expected, partial>>
        BY <1>6, <2>2 DEF ReceiverThread, SendAck, SendAckFails, SendResendRequest,
           ReceiverNotices, network
      <3> QED
        BY <1>1, <3>1 DEF SmallIInv, Small, ChecksFollow, Have, SeenEnd, sender
    <2> QED
      BY <2>1, <2>2
  <1> QED
    BY <1>2, <1>3, <1>4, <1>5, <1>6 DEF Next

\* Nothing has been asked.
LEMMA InitSmall == Small /\ Init => SmallIInv
  <1> SUFFICES ASSUME Small, Init PROVE SmallIInv
    OBVIOUS
  <1>1. ChecksFollow
    BY DEF Init, ChecksFollow, Follows
  <1> QED
    BY <1>1, InitAcks, InitIInv DEF Init, SmallIInv

\* An IROB of one chunk that the application sent by one call is ACKed, and
\* forgotten by the sender, only when the receiver holds it, without exception: a
\* data check sends all of it in front of its question, so data_check_requested
\* never meets a part of it.
THEOREM SmallErasedIsReceived == Small /\ Spec => []AckedIsAllThere
  <1>1. SmallIInv => AckedIsAllThere
    BY DEF SmallIInv, Acks, Held, AckedIsAllThere
  <1>2. Small /\ Spec => []SmallIInv
    BY InitSmall, NextSmall, PTL DEF Spec
  <1> QED
    BY <1>1, <1>2, PTL
=============================================================================
