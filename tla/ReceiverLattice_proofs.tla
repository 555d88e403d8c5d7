----------------------- MODULE ReceiverLattice_proofs -----------------------
(***************************************************************************)
(* For any set of IROBs of any sizes, any dependencies between them, any   *)
(* arrival of their messages and any number of reading threads: the        *)
(* safety properties of incoming_irobs.  For an application that reads     *)
(* with one thread, moreover: no release is lost, and the receiving end    *)
(* implements OrderedDelivery.                                             *)
(*                                                                         *)
(* The lattice never looks at depends again once an IROB has begun; it     *)
(* works with deps, from which RecvRest takes what is read by way of       *)
(* dependents.  The heart of the inductive invariant is that these stay    *)
(* exact (Edges), so that an IROB is released when and only when it can be *)
(* read (ReleasedWhenReady).                                               *)
(*                                                                         *)
(* The last section is about the threads that read, write and fire thunks  *)
(* (AppThreads): for any number of them, the byte that wakes a thread in   *)
(* select or poll is not lost, and neither is the thunk that wakes a       *)
(* thread which waits for its labels, but in the one place that drops      *)
(* thunks.  That the byte is there is not inductive, since release sends   *)
(* it before it adds the IROB: the invariant speaks of an IROB that is on  *)
(* its way too, and rests on the steps that hold scheduling_state_lock.    *)
(***************************************************************************)
EXTENDS ReceiverLattice, AppThreads, FiniteSetTheorems, SequenceTheorems, TLAPS

\* The IROBs of the lattice whose Begin_IROB has arrived.
Begun == pending_irobs \ placeholders

\* What an IROB that has begun still waits for is what it was sent to depend on
\* and has not been read, and the lattice can find it from there.
Edges ==
    /\ past_irobs \cap pending_irobs = {}
    /\ \A id \in Begun : /\ deps[id] = depends[id] \ past_irobs
                         /\ \A d \in deps[id] : id \in dependents[d]

\* What is released, and stays so.
ReleasedWhenReady ==
    \A id \in Ids :
        id \in released <=>
            /\ IsComplete(id)
            /\ id \in past_irobs \/ (id \in Begun /\ depends[id] \subseteq past_irobs)

\* What a reader may be handed was released and is not past; it is in one place.
HandedOutOnce ==
    /\ HandedOut \subseteq released \ past_irobs
    /\ partially_read_irob \notin ready_irobs

\* When an ACK is scheduled.
AckedWhenHeld ==
    /\ \A id \in Ids :
          id \in waiting_acks <=> \/ id \in past_irobs
                                  \/ id \in Begun /\ (IsComplete(id) \/ id \in early_acks)
    /\ early_acks \subseteq Begun \cup past_irobs

\* The units of an IROB, before it is released, before and while it is read.
Units ==
    /\ \A id \in Ids \ released : num_bytes[id] = Cardinality(chunks[id])
    /\ \A id \in ready_irobs : num_bytes[id] = Size[id]
    /\ \A id \in released \ past_irobs : num_bytes[id] \in 1 .. Size[id]

IInv == TypeOK /\ Edges /\ ReleasedWhenReady /\ HandedOutOnce /\ AckedWhenHeld /\ Units

-----------------------------------------------------------------------------
\* Facts about one IROB

\* An IROB has finitely many chunks and at least one.
LEMMA SizeFacts ==
    ASSUME NEW id \in Ids
    PROVE  /\ Size[id] \in Nat \ {0}
           /\ IsFiniteSet(Seqnos(id)) /\ Cardinality(Seqnos(id)) = Size[id]
  <1>1. Size[id] \in Nat \ {0}
    BY SizeAssumption
  <1>2. 0 \in Int /\ Size[id] - 1 \in Int
    BY <1>1
  <1>3. /\ IsFiniteSet(0 .. Size[id] - 1)
        /\ Cardinality(0 .. Size[id] - 1) = IF 0 > Size[id] - 1 THEN 0 ELSE (Size[id] - 1) - 0 + 1
    BY <1>2, FS_Interval
  <1> QED
    BY <1>1, <1>3 DEF Seqnos

\* A chunk that is new counts one unit more.
LEMMA OneMoreChunk ==
    ASSUME TypeOK, NEW id \in Ids, NEW seqno \in Seqnos(id)
    PROVE  /\ chunks[id] \cup {seqno} \subseteq Seqnos(id)
           /\ IsFiniteSet(chunks[id]) /\ Cardinality(chunks[id]) \in Nat
           /\ Cardinality(chunks[id] \cup {seqno}) =
                 IF seqno \in chunks[id] THEN Cardinality(chunks[id])
                                         ELSE Cardinality(chunks[id]) + 1
  <1>1. chunks[id] \in SUBSET Seqnos(id)
    BY DEF TypeOK
  <1>2. IsFiniteSet(chunks[id])
    BY <1>1, SizeFacts, FS_Subset
  <1>3. Cardinality(chunks[id]) \in Nat
    BY <1>2, FS_CardinalityType
  <1> QED
    BY <1>1, <1>2, <1>3, FS_AddElement

-----------------------------------------------------------------------------

\* Nothing has arrived, and nothing is released.
LEMMA InitIInv == Init => IInv
  <1> SUFFICES ASSUME Init PROVE IInv
    OBVIOUS
  <1>1. TypeOK
    BY SizeAssumption DEF Init, TypeOK
  <1>2. Edges
    BY DEF Init, Edges, Begun
  <1>3. ReleasedWhenReady /\ AckedWhenHeld
    BY DEF Init, ReleasedWhenReady, AckedWhenHeld, Begun, IsComplete
  <1>4. HandedOutOnce
    BY DEF Init, HandedOutOnce, HandedOut
  <1>5. Units
    BY FS_EmptySet DEF Init, Units
  <1> QED
    BY <1>1, <1>2, <1>3, <1>4, <1>5 DEF IInv

\* What the handlers of the three messages of an IROB have in common: nothing is
\* read, nothing happens to the others, and the IROB is released and an ACK
\* scheduled for it as the contents and the edges after the step say.
LEMMA Handled ==
    ASSUME IInv, NEW id \in Ids, id \notin past_irobs,
           TypeOK', Edges',
           depends' = depends, past_irobs' = past_irobs, early_acks' = early_acks,
           partially_read_irob' = partially_read_irob,
           id \in pending_irobs',
           Begun' \ {id} = Begun \ {id}, id \in Begun => id \in Begun',
           \A d \in Ids \ {id} : /\ d \in ended' <=> d \in ended
                                 /\ chunks'[d] = chunks[d]
                                 /\ num_bytes'[d] = num_bytes[d],
           IsComplete(id) => IsComplete(id)',
           num_bytes'[id] = Cardinality(chunks'[id]) \/ id \in released,
           id \in released => num_bytes'[id] = num_bytes[id],
           ReleaseIfReady({id}, ready_irobs), ScheduleAck(id)
    PROVE  IInv'
  <1> DEFINE Ready == IsComplete(id)' /\ id \in Begun' /\ deps'[id] = {}
  <1>1. \A d \in Ids \ {id} : /\ IsComplete(d)' <=> IsComplete(d)
                              /\ d \in Begun' <=> d \in Begun
    BY DEF IsComplete, Seqnos
  <1>2. released' = IF Ready THEN released \cup {id} ELSE released
    BY DEF ReleaseIfReady, Begun
  <1>3. ready_irobs' = IF Ready /\ id \notin released THEN ready_irobs \cup {id} ELSE ready_irobs
    BY DEF ReleaseIfReady, Begun
  <1>4. id \in Begun' => (deps'[id] = {} <=> depends'[id] \subseteq past_irobs')
    BY DEF Edges
  <1>5. ReleasedWhenReady'
    BY <1>1, <1>2, <1>4 DEF IInv, ReleasedWhenReady
  <1>6. HandedOutOnce'
    <2>1. HandedOut' \subseteq HandedOut \cup {id} /\ (id \in HandedOut' => id \in released')
      BY <1>2, <1>3 DEF IInv, HandedOutOnce, HandedOut
    <2>2. HandedOut' \subseteq released' \ past_irobs'
      BY <1>2, <2>1 DEF IInv, HandedOutOnce
    <2>3. partially_read_irob' \notin ready_irobs'
      <3>1. partially_read_irob = id => id \in released
        BY SizeAssumption DEF IInv, HandedOutOnce, HandedOut
      <3> QED
        BY <1>3, <3>1 DEF IInv, HandedOutOnce
    <2> QED
      BY <2>2, <2>3 DEF HandedOutOnce
  <1>7. AckedWhenHeld'
    <2>1. waiting_acks' = IF IsComplete(id)' /\ id \in Begun' THEN waiting_acks \cup {id}
                                                              ELSE waiting_acks
      BY DEF ScheduleAck, Begun, IInv
    <2> QED
      BY <1>1, <2>1 DEF IInv, AckedWhenHeld
  <1>8. Units'
    <2>1. \A d \in Ids \ released' : num_bytes'[d] = Cardinality(chunks'[d])
      BY <1>2 DEF IInv, Units
    <2>2. id \notin released /\ id \in released' => num_bytes'[id] = Size[id]
      BY <1>2, SizeFacts DEF IsComplete, Seqnos
    <2>3. \A d \in ready_irobs' : num_bytes'[d] = Size[d]
      <3>1. id \in ready_irobs => id \in released
        BY DEF IInv, HandedOutOnce, HandedOut
      <3> QED
        BY <1>2, <1>3, <2>2, <3>1 DEF IInv, Units, TypeOK
    <2>4. \A d \in released' \ past_irobs' : num_bytes'[d] \in 1 .. Size[d]
      <3>1. Size[id] \in Nat \ {0}
        BY SizeFacts
      <3>2. id \in released' => num_bytes'[id] \in 1 .. Size[id]
        BY <2>2, <3>1 DEF IInv, Units
      <3> QED
        BY <1>2, <3>2 DEF IInv, Units, TypeOK
    <2> QED
      BY <2>1, <2>3, <2>4 DEF Units
  <1> QED
    BY <1>5, <1>6, <1>7, <1>8 DEF IInv

-----------------------------------------------------------------------------
\* The handlers

\* do_begin_irob: the IROB may have been a placeholder, and the IROBs it depends
\* on may be unknown or past.
LEMMA BeginIInv ==
    ASSUME IInv, NEW id \in Ids, DoBeginIrob(id)
    PROVE  IInv'
  <1> DEFINE live == depends[id] \ past_irobs
  <1>1. /\ id \notin past_irobs /\ id \notin Begun
        /\ pending_irobs' = pending_irobs \cup {id} \cup live
        /\ placeholders' = (placeholders \cup (live \ pending_irobs)) \ {id}
        /\ deps' = [deps EXCEPT ![id] = live]
        /\ dependents' = [d \in Ids |-> IF d \in live THEN dependents[d] \cup {id}
                                                      ELSE dependents[d]]
        /\ early_acks' = early_acks /\ depends' = depends /\ chunks' = chunks /\ ended' = ended
        /\ num_bytes' = num_bytes /\ partially_read_irob' = partially_read_irob
        /\ past_irobs' = past_irobs /\ waiting' = waiting
        /\ ReleaseIfReady({id}, ready_irobs) /\ ScheduleAck(id)
    BY DEF DoBeginIrob, Begun, contents, reading
  <1>2. live \subseteq Ids
    BY DEF IInv, TypeOK
  <1> HIDE DEF live
  <1>3. Begun' = Begun \cup {id}
    BY <1>1 DEF Begun
  <1>4. TypeOK'
    <2>1. /\ pending_irobs' \subseteq Ids /\ placeholders' \subseteq pending_irobs'
          /\ deps' \in [Ids -> SUBSET Ids]
      BY <1>1, <1>2 DEF IInv, TypeOK
    <2>2. dependents' \in [Ids -> SUBSET Ids]
      BY <1>1 DEF IInv, TypeOK
    <2>3. released' \subseteq Ids /\ ready_irobs' \subseteq Ids /\ waiting_acks' \subseteq Ids
      BY <1>1 DEF IInv, TypeOK, ReleaseIfReady, ScheduleAck
    <2> QED
      BY <1>1, <2>1, <2>2, <2>3 DEF IInv, TypeOK, Seqnos
  <1>5. Edges'
    <2>1. past_irobs' \cap pending_irobs' = {}
      BY <1>1 DEF IInv, Edges, live
    <2>2. \A d \in Begun' : deps'[d] = depends'[d] \ past_irobs'
      BY <1>1, <1>3 DEF IInv, Edges, TypeOK, Begun, live
    <2>3. \A d \in Begun' : \A e \in deps'[d] : d \in dependents'[e]
      <3> SUFFICES ASSUME NEW d \in Begun', NEW e \in deps'[d] PROVE d \in dependents'[e]
        OBVIOUS
      <3>0. d \in Ids /\ e \in Ids
        BY <1>4 DEF TypeOK, Begun
      <3>1. CASE d = id
        BY <1>1, <1>2, <3>0, <3>1 DEF IInv, TypeOK
      <3>2. CASE d # id
        BY <1>1, <1>3, <3>0, <3>2 DEF IInv, TypeOK, Edges
      <3> QED
        BY <3>1, <3>2
    <2> QED
      BY <2>1, <2>2, <2>3 DEF Edges
  <1>6. IsComplete(id)' <=> IsComplete(id)
    BY <1>1 DEF IsComplete, Seqnos
  <1>7. num_bytes'[id] = Cardinality(chunks'[id]) \/ id \in released
    BY <1>1 DEF IInv, Units
  <1> QED
    BY <1>1, <1>3, <1>4, <1>5, <1>6, <1>7, Handled

\* Finding or making the entry of an IROB changes nothing of the graph.
LEMMA LocateFacts ==
    ASSUME IInv, NEW id \in Ids, id \notin past_irobs, Locate(id),
           depends' = depends, past_irobs' = past_irobs, UNCHANGED edges
    PROVE  /\ Begun' = Begun /\ Edges'
           /\ id \in pending_irobs' /\ pending_irobs' \subseteq Ids
           /\ placeholders' \subseteq pending_irobs'
  <1>1. Begun' = Begun
    BY DEF Locate, Begun, IInv, TypeOK
  <1>2. past_irobs' \cap pending_irobs' = {}
    BY DEF Locate, IInv, Edges
  <1>3. deps' = deps /\ dependents' = dependents
    BY DEF edges
  <1>4. Edges'
    BY <1>1, <1>2, <1>3 DEF IInv, Edges
  <1> QED
    BY <1>1, <1>4 DEF Locate, IInv, TypeOK

\* do_irob_chunk: a chunk that is the first of its IROB, one that is new or a
\* duplicate.
LEMMA ChunkIInv ==
    ASSUME IInv, NEW id \in Ids, NEW seqno \in Seqnos(id), DoIrobChunk(id, seqno)
    PROVE  IInv'
  <1>1. /\ id \notin past_irobs /\ Locate(id) /\ UNCHANGED edges
        /\ chunks' = [chunks EXCEPT ![id] = chunks[id] \cup {seqno}]
        /\ num_bytes' = [num_bytes EXCEPT ![id] = IF seqno \in chunks[id] THEN num_bytes[id]
                                                  ELSE num_bytes[id] + 1]
        /\ early_acks' = early_acks /\ depends' = depends /\ ended' = ended
        /\ partially_read_irob' = partially_read_irob
        /\ past_irobs' = past_irobs /\ waiting' = waiting
        /\ ReleaseIfReady({id}, ready_irobs) /\ ScheduleAck(id)
    BY DEF DoIrobChunk, Count
  <1>2. /\ Begun' = Begun /\ Edges'
        /\ id \in pending_irobs' /\ pending_irobs' \subseteq Ids
        /\ placeholders' \subseteq pending_irobs'
    BY <1>1, LocateFacts
  <1>3. /\ chunks'[id] = chunks[id] \cup {seqno} /\ chunks'[id] \subseteq Seqnos(id)
        /\ chunks'[id] \subseteq Nat
        /\ num_bytes'[id] = IF seqno \in chunks[id] THEN num_bytes[id] ELSE num_bytes[id] + 1
        /\ \A d \in Ids \ {id} : chunks'[d] = chunks[d] /\ num_bytes'[d] = num_bytes[d]
    <2>1. Seqnos(id) \subseteq Nat
      BY SizeFacts DEF Seqnos
    <2> QED
      BY <1>1, <2>1, OneMoreChunk DEF IInv, TypeOK
  <1>4. TypeOK'
    <2>1. chunks' \in [Ids -> SUBSET Nat]
      BY <1>1, <1>3 DEF IInv, TypeOK
    <2>2. \A d \in Ids : chunks'[d] \subseteq Seqnos(d)'
      BY <1>3 DEF IInv, TypeOK, Seqnos
    <2>3. num_bytes' \in [Ids -> Nat]
      BY <1>1 DEF IInv, TypeOK
    <2>4. released' \subseteq Ids /\ ready_irobs' \subseteq Ids /\ waiting_acks' \subseteq Ids
      BY <1>1 DEF IInv, TypeOK, ReleaseIfReady, ScheduleAck
    <2> QED
      BY <1>1, <1>2, <2>1, <2>2, <2>3, <2>4 DEF IInv, TypeOK, edges
  <1>5. IsComplete(id) => IsComplete(id)' /\ seqno \in chunks[id]
    BY <1>1, <1>3 DEF IsComplete, Seqnos
  <1>6. num_bytes'[id] = Cardinality(chunks'[id]) \/ id \in released
    BY <1>3, OneMoreChunk DEF IInv, Units
  <1>7. id \in released => num_bytes'[id] = num_bytes[id]
    BY <1>3, <1>5 DEF IInv, ReleasedWhenReady
  <1> QED
    BY <1>1, <1>2, <1>3, <1>4, <1>5, <1>6, <1>7, Handled

\* do_end_irob, first or repeated
LEMMA EndIInv ==
    ASSUME IInv, NEW id \in Ids, DoEndIrob(id)
    PROVE  IInv'
  <1>1. CASE id \notin past_irobs
    <2>1. /\ Locate(id) /\ UNCHANGED edges
          /\ ended' = ended \cup {id} /\ chunks' = chunks
          /\ num_bytes' = num_bytes /\ early_acks' = early_acks /\ depends' = depends
          /\ partially_read_irob' = partially_read_irob
          /\ past_irobs' = past_irobs /\ waiting' = waiting
          /\ ReleaseIfReady({id}, ready_irobs) /\ ScheduleAck(id)
      BY <1>1 DEF DoEndIrob, reading
    <2>2. /\ Begun' = Begun /\ Edges'
          /\ id \in pending_irobs' /\ pending_irobs' \subseteq Ids
          /\ placeholders' \subseteq pending_irobs'
      BY <1>1, <2>1, LocateFacts
    <2>3. TypeOK'
      <3>1. released' \subseteq Ids /\ ready_irobs' \subseteq Ids /\ waiting_acks' \subseteq Ids
        BY <2>1 DEF IInv, TypeOK, ReleaseIfReady, ScheduleAck
      <3> QED
        BY <2>1, <2>2, <3>1 DEF IInv, TypeOK, edges, Seqnos
    <2>4. IsComplete(id) => IsComplete(id)'
      BY <2>1 DEF IsComplete, Seqnos
    <2>5. num_bytes'[id] = Cardinality(chunks'[id]) \/ id \in released
      BY <2>1 DEF IInv, Units
    <2> QED
      BY <1>1, <2>1, <2>2, <2>3, <2>4, <2>5, Handled
  <1>2. CASE id \in past_irobs
    <2>1. waiting_acks' = waiting_acks
      BY <1>2 DEF DoEndIrob, IInv, AckedWhenHeld
    <2>2. UNCHANGED <<depends, early_acks, pending_irobs, placeholders, edges, contents, released,
                      ready_irobs, reading>>
      BY <1>2 DEF DoEndIrob
    <2> QED
      BY <2>1, <2>2 DEF IInv, TypeOK, Edges, ReleasedWhenReady, HandedOutOnce, HandedOut,
         AckedWhenHeld, Units, Begun, IsComplete, Seqnos, edges, contents, reading
  <1> QED
    BY <1>1, <1>2

\* do_data_check: only the ACK, and an IROB that has begun or is past.
LEMMA DataCheckIInv ==
    ASSUME IInv, NEW id \in Ids, DoDataCheck(id)
    PROVE  IInv'
  <1>1. UNCHANGED <<depends, pending_irobs, placeholders, edges, contents, released,
                    ready_irobs, reading>>
    BY DEF DoDataCheck
  <1>2. /\ waiting_acks' = waiting_acks \cup {id}
        /\ early_acks' = IF id \in past_irobs THEN early_acks ELSE early_acks \cup {id}
        /\ id \in past_irobs \/ id \in Begun
    BY DEF DoDataCheck, NothingMisses, Begun
  <1>3. Begun' = Begun /\ past_irobs' = past_irobs /\ \A d \in Ids : IsComplete(d)' <=> IsComplete(d)
    BY <1>1 DEF Begun, IsComplete, Seqnos, contents, reading
  <1>4. AckedWhenHeld'
    BY <1>2, <1>3 DEF IInv, AckedWhenHeld
  <1>5. TypeOK'
    BY <1>1, <1>2 DEF IInv, TypeOK, Seqnos, edges, contents, reading
  <1> QED
    BY <1>1, <1>4, <1>5 DEF IInv, Edges, ReleasedWhenReady, HandedOutOnce, HandedOut, Units, Begun,
       IsComplete, Seqnos, edges, contents, reading

-----------------------------------------------------------------------------
\* The application

\* What get_ready_irob returns can be read, and there is something to read in it.
LEMMA GotReady ==
    ASSUME IInv, NEW r, NEW id \in Ids, GetReadyIrob(r, id)
    PROVE  /\ id \in HandedOut /\ id \in released /\ id \notin past_irobs
           /\ id \in Begun /\ IsComplete(id) /\ depends[id] \subseteq past_irobs
           /\ num_bytes[id] \in 1 .. Size[id]
           /\ id # partially_read_irob => id \in ready_irobs /\ num_bytes[id] = Size[id]
  <1>1. id \in HandedOut /\ (id # partially_read_irob => id \in ready_irobs)
    BY SizeAssumption DEF GetReadyIrob, HandedOut
  <1>2. id \in released /\ id \notin past_irobs
    BY <1>1 DEF IInv, HandedOutOnce
  <1> QED
    BY <1>1, <1>2 DEF IInv, ReleasedWhenReady, Units

\* Waiting, and no longer waiting, touches nothing of the lattice.
LEMMA WaitIInv ==
    ASSUME IInv, NEW r \in Readers, Wait(r) \/ TimeOut(r)
    PROVE  IInv'
  BY DEF Wait, TimeOut, IInv, TypeOK, Edges, ReleasedWhenReady, HandedOutOnce, HandedOut,
         AckedWhenHeld, Units, Begun, IsComplete, Seqnos, edges, contents

\* A recv that leaves some of the IROB for the next one.
LEMMA RecvSomeIInv ==
    ASSUME IInv, NEW r \in Readers, NEW id \in Ids, NEW n \in 0 .. Size[id], RecvSome(r, id, n)
    PROVE  IInv'
  <1>1. /\ GetReadyIrob(r, id) /\ n < num_bytes[id]
        /\ num_bytes' = [num_bytes EXCEPT ![id] = num_bytes[id] - n]
        /\ partially_read_irob' = id
        /\ ready_irobs' = ready_irobs \ {id}
        /\ waiting' = waiting \ {r}
        /\ early_acks' = early_acks /\ depends' = depends /\ pending_irobs' = pending_irobs /\ placeholders' = placeholders
        /\ deps' = deps /\ dependents' = dependents /\ chunks' = chunks /\ ended' = ended
        /\ released' = released /\ past_irobs' = past_irobs /\ waiting_acks' = waiting_acks
    BY DEF RecvSome, edges, contents
  <1>2. /\ id \in released /\ id \notin past_irobs /\ num_bytes[id] \in 1 .. Size[id]
        /\ Size[id] \in Nat
    BY <1>1, GotReady, SizeFacts
  <1>3. /\ num_bytes'[id] \in 1 .. Size[id]
        /\ \A d \in Ids \ {id} : num_bytes'[d] = num_bytes[d]
    BY <1>1, <1>2 DEF IInv, TypeOK
  <1>4. TypeOK'
    <2>1. num_bytes' \in [Ids -> Nat]
      BY <1>1, <1>2, <1>3 DEF IInv, TypeOK
    <2> QED
      BY <1>1, <2>1 DEF IInv, TypeOK, Seqnos
  <1>5. Edges' /\ ReleasedWhenReady' /\ AckedWhenHeld'
    BY <1>1 DEF IInv, Edges, ReleasedWhenReady, AckedWhenHeld, Begun, IsComplete, Seqnos
  <1>6. HandedOutOnce'
    BY <1>1, <1>2 DEF IInv, HandedOutOnce, HandedOut
  <1>7. Units'
    <2>1. \A d \in Ids \ released' : num_bytes'[d] = Cardinality(chunks'[d])
      BY <1>1, <1>2, <1>3 DEF IInv, Units
    <2>2. \A d \in ready_irobs' : num_bytes'[d] = Size[d]
      BY <1>1, <1>3 DEF IInv, Units, TypeOK
    <2>3. \A d \in released' \ past_irobs' : num_bytes'[d] \in 1 .. Size[d]
      BY <1>1, <1>3 DEF IInv, Units, TypeOK
    <2> QED
      BY <2>1, <2>2, <2>3 DEF Units
  <1> QED
    BY <1>4, <1>5, <1>6, <1>7 DEF IInv

\* The recv that reads the rest of an IROB removes it from the lattice, and
\* releases those of its dependents that waited for nothing else.
LEMMA RecvRestIInv ==
    ASSUME IInv, NEW r \in Readers, NEW id \in Ids, RecvRest(r, id)
    PROVE  IInv'
  <1>1. /\ GetReadyIrob(r, id)
        /\ num_bytes' = [num_bytes EXCEPT ![id] = 0]
        /\ partially_read_irob' = IF id = partially_read_irob THEN NoIrob
                                                              ELSE partially_read_irob
        /\ past_irobs' = past_irobs \cup {id}
        /\ pending_irobs' = pending_irobs \ {id}
        /\ deps' = [d \in Ids |-> IF d \in dependents[id] THEN deps[d] \ {id} ELSE deps[d]]
        /\ waiting' = waiting \ {r}
        /\ early_acks' = early_acks /\ depends' = depends /\ placeholders' = placeholders /\ dependents' = dependents
        /\ chunks' = chunks /\ ended' = ended /\ waiting_acks' = waiting_acks
        /\ ReleaseIfReady(dependents[id], ready_irobs \ {id})
    BY DEF RecvRest, contents
  <1>2. /\ id \in released /\ id \notin past_irobs /\ id \in Begun /\ IsComplete(id)
        /\ depends[id] \subseteq past_irobs
    BY <1>1, GotReady
  <1>3. Begun' = Begun \ {id} /\ \A d \in Ids : IsComplete(d)' <=> IsComplete(d)
    BY <1>1 DEF Begun, IsComplete, Seqnos
  <1>4. TypeOK'
    <2>1. placeholders' \subseteq pending_irobs' /\ pending_irobs' \subseteq Ids
      BY <1>1, <1>2 DEF IInv, TypeOK, Begun
    <2>2. deps' \in [Ids -> SUBSET Ids] /\ num_bytes' \in [Ids -> Nat]
      BY <1>1 DEF IInv, TypeOK
    <2>3. dependents[id] \subseteq Ids
      BY DEF IInv, TypeOK
    <2>4. released' \subseteq Ids /\ ready_irobs' \subseteq Ids
      BY <1>1, <2>3 DEF IInv, TypeOK, ReleaseIfReady
    <2> QED
      BY <1>1, <2>1, <2>2, <2>4 DEF IInv, TypeOK, Seqnos
  <1>5. Edges'
    <2>1. past_irobs' \cap pending_irobs' = {}
      BY <1>1 DEF IInv, Edges
    <2>2. \A d \in Begun' : deps'[d] = depends'[d] \ past_irobs'
      BY <1>1, <1>3, <1>4 DEF IInv, Edges, TypeOK, Begun
    <2>3. \A d \in Begun' : \A e \in deps'[d] : d \in dependents'[e]
      BY <1>1, <1>3, <1>4 DEF IInv, Edges, TypeOK, Begun
    <2> QED
      BY <2>1, <2>2, <2>3 DEF Edges
  <1> DEFINE New == {d \in dependents[id] : /\ IsComplete(d)' /\ d \in Begun'
                                            /\ deps'[d] = {} /\ d \notin released}
  <1>6. released' = released \cup New /\ ready_irobs' = (ready_irobs \ {id}) \cup New
    BY <1>1 DEF ReleaseIfReady, Begun
  <1>7. /\ New \subseteq Ids /\ New \cap released = {} /\ id \notin New
        /\ New \subseteq Begun \cap Begun'
        /\ \A d \in New : IsComplete(d)' /\ depends'[d] \subseteq past_irobs'
    BY <1>2, <1>3, <1>5 DEF IInv, TypeOK, Edges
  <1>8. \A d \in Begun' : depends'[d] \subseteq past_irobs' /\ IsComplete(d)' /\ d \notin released
                              => d \in New
    <2> SUFFICES ASSUME NEW d \in Begun', depends'[d] \subseteq past_irobs', IsComplete(d)',
                        d \notin released
                 PROVE  d \in New
      OBVIOUS
    <2>1. d \in Begun /\ d \in Ids /\ IsComplete(d)
      BY <1>3 DEF Begun, IInv, TypeOK
    <2>2. ~(depends[d] \subseteq past_irobs)
      BY <2>1 DEF IInv, ReleasedWhenReady
    <2>3. id \in deps[d]
      BY <1>1, <2>1, <2>2 DEF IInv, Edges
    <2>4. d \in dependents[id]
      BY <2>1, <2>3 DEF IInv, Edges
    <2>5. deps'[d] = {}
      BY <1>5 DEF Edges
    <2> QED
      BY <2>4, <2>5
  <1> HIDE DEF New
  <1>9. ReleasedWhenReady'
    <2> SUFFICES ASSUME NEW d \in Ids
                 PROVE  d \in released' <=>
                           /\ IsComplete(d)'
                           /\ \/ d \in past_irobs'
                              \/ d \in Begun' /\ depends'[d] \subseteq past_irobs'
      BY DEF ReleasedWhenReady
    <2>1. d \in released => /\ IsComplete(d)'
                            /\ \/ d \in past_irobs'
                               \/ d \in Begun' /\ depends'[d] \subseteq past_irobs'
      BY <1>1, <1>3 DEF IInv, ReleasedWhenReady
    <2>2. d \in past_irobs' /\ IsComplete(d)' => d \in released
      BY <1>1, <1>2, <1>3 DEF IInv, ReleasedWhenReady
    <2> QED
      BY <1>6, <1>7, <1>8, <2>1, <2>2
  <1>10. HandedOutOnce'
    <2>1. New \cap past_irobs' = {}
      BY <1>1, <1>7 DEF IInv, Edges, Begun
    <2>2. HandedOut' \subseteq (HandedOut \ {id}) \cup New
      BY <1>1, <1>6 DEF IInv, HandedOutOnce, HandedOut
    <2>3. HandedOut' \subseteq released' \ past_irobs'
      BY <1>1, <1>6, <2>1, <2>2 DEF IInv, HandedOutOnce
    <2>4. partially_read_irob' \notin ready_irobs'
      <3>1. NoIrob \notin ready_irobs'
        BY <1>4, SizeAssumption DEF TypeOK
      <3>2. partially_read_irob \notin New
        BY <1>7, SizeAssumption DEF IInv, HandedOutOnce, HandedOut
      <3> QED
        BY <1>1, <1>6, <3>1, <3>2 DEF IInv, HandedOutOnce
    <2> QED
      BY <2>3, <2>4 DEF HandedOutOnce
  <1>11. AckedWhenHeld'
    BY <1>1, <1>2, <1>3 DEF IInv, AckedWhenHeld
  <1>12. Units'
    <2>1. num_bytes'[id] = 0 /\ \A d \in Ids \ {id} : num_bytes'[d] = num_bytes[d]
      BY <1>1 DEF IInv, TypeOK
    <2>2. \A d \in Ids \ released' : num_bytes'[d] = Cardinality(chunks'[d])
      BY <1>1, <1>2, <1>6, <2>1 DEF IInv, Units
    <2>3. \A d \in New : num_bytes'[d] = Size[d] /\ Size[d] \in Nat \ {0}
      BY <1>1, <1>7, <2>1, SizeFacts DEF IInv, Units, IsComplete, Seqnos
    <2>4. \A d \in ready_irobs' : num_bytes'[d] = Size[d]
      BY <1>6, <2>1, <2>3 DEF IInv, Units, TypeOK
    <2>5. \A d \in released' \ past_irobs' : num_bytes'[d] \in 1 .. Size[d]
      BY <1>1, <1>6, <2>1, <2>3 DEF IInv, Units, TypeOK
    <2> QED
      BY <2>2, <2>4, <2>5 DEF Units
  <1> QED
    BY <1>4, <1>5, <1>9, <1>10, <1>11, <1>12 DEF IInv

-----------------------------------------------------------------------------

\* Every step keeps the inductive invariant.
LEMMA NextIInv == IInv /\ [Next]_vars => IInv'
  <1> SUFFICES ASSUME IInv, [Next]_vars PROVE IInv'
    OBVIOUS
  <1>1. ASSUME NEW id \in Ids, Receive(id) PROVE IInv'
    BY <1>1, BeginIInv, ChunkIInv, EndIInv, DataCheckIInv DEF Receive
  <1>2. ASSUME NEW r \in Readers, Wait(r) \/ TimeOut(r) \/ Recv(r) PROVE IInv'
    BY <1>2, WaitIInv, RecvSomeIInv, RecvRestIInv DEF Recv
  <1>3. CASE UNCHANGED vars
    BY <1>3 DEF vars, IInv, TypeOK, Edges, ReleasedWhenReady, HandedOutOnce, HandedOut,
                AckedWhenHeld, Units, Begun, IsComplete, Seqnos, edges, contents, reading
  <1> QED
    BY <1>1, <1>2, <1>3 DEF Next

\* The inductive invariant holds of every reachable state.
LEMMA AlwaysIInv == Spec => []IInv
  BY InitIInv, NextIInv, PTL DEF Spec

\* What PendingReceiverIROBLattice keeps is well-typed; in particular a placeholder
\* is always an IROB of the lattice, and no chunk is past its IROB's last.
THEOREM ReceiverTypeCorrect == Spec => []TypeOK
  <1>1. IInv => TypeOK
    BY DEF IInv
  <1> QED
    BY <1>1, AlwaysIInv, PTL

\* get_ready_irob never hands an IROB to the application that is incomplete, not
\* begun, or depends on one that has not been read, in whatever order the messages
\* of the IROBs arrive and however often.
THEOREM OnlyReadyIsHandedOut == Spec => []NeverHandsOutUnready
  <1>1. IInv => NeverHandsOutUnready
    BY DEF IInv, TypeOK, ReleasedWhenReady, HandedOutOnce, HandedOut, NeverHandsOutUnready, Begun
  <1> QED
    BY <1>1, AlwaysIInv, PTL

\* do_begin_irob, do_irob_chunk and do_end_irob schedule an ACK only for an IROB
\* the receiver holds all of, or has passed on to the application; do_data_check
\* also for one it holds without holes and of which the end is not known, and
\* nothing schedules one while the dependencies are not known.
THEOREM AckedIsHeldAlways == Spec => []AckedIsHeld
  <1>1. IInv => AckedIsHeld
    BY DEF IInv, TypeOK, AckedWhenHeld, AckedIsHeld, Begun
  <1> QED
    BY <1>1, AlwaysIInv, PTL

\* ... and whichever of the three messages completes an IROB schedules it: none
\* that is complete is left without an ACK.
THEOREM HeldIsAckedAlways == Spec => []HeldIsAcked
  <1>1. IInv => HeldIsAcked
    BY DEF IInv, TypeOK, AckedWhenHeld, HeldIsAcked, Begun
  <1> QED
    BY <1>1, AlwaysIInv, PTL

\* add_chunk counts no duplicate twice: num_bytes is what the chunks hold until the
\* IROB is released, and an IROB handed to recv has bytes left and no more than all.
THEOREM BytesStayCounted == Spec => []BytesAreCounted
  <1>1. IInv => BytesAreCounted
    BY DEF IInv, HandedOutOnce, Units, BytesAreCounted
  <1> QED
    BY <1>1, AlwaysIInv, PTL

-----------------------------------------------------------------------------
(***************************************************************************)
(* An application that reads with one thread.  With two, one that has been *)
(* waiting pops an IROB although the other has stopped inside one, which   *)
(* is then forgotten (README, section 5).                                  *)
(***************************************************************************)

OneReader == \A r, s \in Readers : r = s

\* What is released can be read until it has been, and no thread waits while an
\* IROB is partly read.
NothingForgotten ==
    /\ released \subseteq HandedOut \cup past_irobs
    /\ waiting # {} => partially_read_irob = NoIrob

OneReaderIInv == OneReader /\ IInv /\ NothingForgotten

\* The one thread that reads is not kept from what it left off.
LEMMA GoesOnReading ==
    ASSUME OneReaderIInv, NEW r \in Readers, NEW id \in Ids, GetReadyIrob(r, id)
    PROVE  /\ partially_read_irob \in {NoIrob, id}
           /\ waiting \ {r} = {}
  <1>1. waiting \subseteq {r}
    BY DEF OneReaderIInv, OneReader, IInv, TypeOK
  <1> QED
    BY <1>1 DEF OneReaderIInv, NothingForgotten, GetReadyIrob

\* Every step of a receiving end with one reader keeps that nothing is forgotten.
LEMMA NextOneReader == OneReaderIInv /\ [Next]_vars => OneReaderIInv'
  <1> SUFFICES ASSUME OneReaderIInv, [Next]_vars PROVE NothingForgotten'
    BY NextIInv DEF OneReaderIInv, OneReader
  <1>1. ASSUME NEW S, ReleaseIfReady(S, ready_irobs),
               partially_read_irob' = partially_read_irob, past_irobs' = past_irobs,
               waiting' = waiting
        PROVE  NothingForgotten'
    BY <1>1 DEF ReleaseIfReady, OneReaderIInv, NothingForgotten, HandedOut
  <1>2. ASSUME NEW id \in Ids, DoBeginIrob(id) PROVE NothingForgotten'
    BY <1>1, <1>2 DEF DoBeginIrob, reading
  <1>3. ASSUME NEW id \in Ids, NEW seqno \in Seqnos(id), DoIrobChunk(id, seqno)
        PROVE  NothingForgotten'
    BY <1>1, <1>3 DEF DoIrobChunk
  <1>4. ASSUME NEW id \in Ids, DoEndIrob(id) PROVE NothingForgotten'
    <2>1. CASE id \notin past_irobs
      BY <1>1, <1>4, <2>1 DEF DoEndIrob, reading
    <2>2. CASE id \in past_irobs
      BY <1>4, <2>2 DEF DoEndIrob, reading, OneReaderIInv, NothingForgotten, HandedOut
    <2> QED
      BY <2>1, <2>2
  <1>4a. ASSUME NEW id \in Ids, DoDataCheck(id) PROVE NothingForgotten'
    BY <1>4a DEF DoDataCheck, reading, OneReaderIInv, NothingForgotten, HandedOut
  <1>5. ASSUME NEW r \in Readers, Wait(r) \/ TimeOut(r) PROVE NothingForgotten'
    BY <1>5 DEF Wait, TimeOut, OneReaderIInv, NothingForgotten, HandedOut
  <1>6. ASSUME NEW r \in Readers, NEW id \in Ids, NEW n \in 0 .. Size[id], RecvSome(r, id, n)
        PROVE  NothingForgotten'
    <2>1. /\ partially_read_irob \in {NoIrob, id} /\ waiting' = {}
          /\ partially_read_irob' = id /\ ready_irobs' = ready_irobs \ {id}
          /\ released' = released /\ past_irobs' = past_irobs
      BY <1>6, GoesOnReading DEF RecvSome
    <2>2. HandedOut \subseteq HandedOut'
      BY <2>1, SizeAssumption DEF HandedOut
    <2> QED
      BY <2>1, <2>2 DEF OneReaderIInv, NothingForgotten
  <1>7. ASSUME NEW r \in Readers, NEW id \in Ids, RecvRest(r, id) PROVE NothingForgotten'
    <2>1. /\ waiting' = {} /\ past_irobs' = past_irobs \cup {id}
          /\ partially_read_irob' = IF id = partially_read_irob THEN NoIrob
                                                                ELSE partially_read_irob
          /\ ReleaseIfReady(dependents[id], ready_irobs \ {id})
      BY <1>7, GoesOnReading DEF RecvRest
    <2>2. PICK new : released' = released \cup new /\ ready_irobs' = (ready_irobs \ {id}) \cup new
      BY <2>1 DEF ReleaseIfReady
    <2>3. released \subseteq HandedOut' \cup past_irobs'
      BY <2>1, <2>2 DEF OneReaderIInv, NothingForgotten, HandedOut
    <2> QED
      BY <2>1, <2>2, <2>3 DEF NothingForgotten, HandedOut
  <1>8. CASE UNCHANGED vars
    BY <1>8 DEF vars, reading, OneReaderIInv, NothingForgotten, HandedOut
  <1> QED
    BY <1>2, <1>3, <1>4, <1>4a, <1>5, <1>6, <1>7, <1>8 DEF Next, Receive, Recv

\* ... so it holds of every reachable state.
LEMMA AlwaysOneReader == OneReader /\ Spec => []OneReaderIInv
  <1>1. OneReader /\ Init => OneReaderIInv
    BY InitIInv DEF Init, OneReaderIInv, NothingForgotten
  <1> QED
    BY <1>1, NextOneReader, PTL DEF Spec

\* release_if_ready is called at every place where an IROB may have become ready:
\* with one reading thread, every IROB that is complete and whose dependencies have
\* been read is in ready_irobs or being read.
THEOREM NoReleaseIsLost == OneReader /\ Spec => []NoLostRelease
  <1>1. OneReaderIInv => NoLostRelease
    BY DEF OneReaderIInv, NothingForgotten, NoLostRelease, IInv, TypeOK, Edges,
           ReleasedWhenReady, Begun
  <1> QED
    BY <1>1, AlwaysOneReader, PTL

-----------------------------------------------------------------------------
\* The refinement

taken == [id \in Ids |-> Taken(id)]

\* Nothing has been read.
LEMMA InitRefines == Init => Abstract!Init
  BY SizeAssumption DEF Init, Abstract!Init, Taken

\* What has been read is delivered.
LEMMA PastIsDelivered ==
    ASSUME IInv PROVE past_irobs \subseteq Abstract!Delivered
  BY DEF IInv, TypeOK, Abstract!Delivered, Taken

\* The handlers of the messages deliver nothing: an IROB that is partly read is
\* complete, so no chunk of it counts any more.
LEMMA ReceiveStutters ==
    ASSUME IInv, NEW id \in Ids, Receive(id)
    PROVE  UNCHANGED Abstract!vars
  <1>1. depends' = depends /\ past_irobs' = past_irobs
        /\ partially_read_irob' = partially_read_irob
    BY DEF Receive, DoBeginIrob, DoIrobChunk, DoEndIrob, DoDataCheck, reading
  <1>2. \A d \in Ids : d = partially_read_irob => num_bytes'[d] = num_bytes[d]
    <2> SUFFICES ASSUME NEW d \in Ids, d = partially_read_irob PROVE num_bytes'[d] = num_bytes[d]
      OBVIOUS
    <2>1. chunks[d] = Seqnos(d)
      BY SizeAssumption DEF IInv, HandedOutOnce, HandedOut, ReleasedWhenReady, IsComplete
    <2>2. ASSUME NEW seqno \in Seqnos(id), DoIrobChunk(id, seqno)
          PROVE  num_bytes'[d] = num_bytes[d]
      <3>1. num_bytes' = [num_bytes EXCEPT ![id] = IF seqno \in chunks[id] THEN num_bytes[id]
                                                   ELSE num_bytes[id] + 1]
        BY <2>2 DEF DoIrobChunk, Count
      <3> QED
        BY <2>1, <3>1 DEF IInv, TypeOK
    <2> QED
      BY <2>2 DEF Receive, DoBeginIrob, DoEndIrob, DoDataCheck, reading
  <1>3. \A d \in Ids : Taken(d)' = Taken(d)
    BY <1>1, <1>2 DEF Taken
  <1> QED
    BY <1>1, <1>3 DEF Abstract!vars

\* A recv takes the next units of the IROB, or none.
LEMMA RecvTakes ==
    ASSUME OneReaderIInv, OneReaderIInv', NEW r \in Readers, NEW id \in Ids,
           NEW n \in 0 .. num_bytes[id], GetReadyIrob(r, id), depends' = depends,
           \A d \in Ids \ {id} : Taken(d)' = Taken(d),
           Taken(id)' = (Size[id] - num_bytes[id]) + n
    PROVE  [Abstract!Next]_(Abstract!vars)
  <1>1. /\ id \notin past_irobs /\ depends[id] \subseteq past_irobs
        /\ num_bytes[id] \in 1 .. Size[id] /\ Size[id] \in Nat
        /\ id # partially_read_irob => num_bytes[id] = Size[id]
    BY GotReady, SizeFacts DEF OneReaderIInv
  <1>2. Taken(id) = Size[id] - num_bytes[id]
    BY <1>1 DEF Taken
  <1>3. CASE n = 0
    <2>1. \A d \in Ids : Taken(d)' = Taken(d)
      BY <1>1, <1>2, <1>3
    <2> QED
      BY <2>1 DEF Abstract!vars
  <1>4. CASE n # 0
    <2>1. n \in 1 .. Size[id]
      BY <1>1, <1>4
    <2>2. depends[id] \subseteq Abstract!Delivered
      BY <1>1, PastIsDelivered DEF OneReaderIInv
    <2>3. \A other \in Ids \ {id} : Taken(other) \in {0, Size[other]}
      BY GoesOnReading, SizeAssumption DEF Taken
    <2>4. Taken(id) + n <= Size[id]
      BY <1>1, <1>2
    <2>5. taken' = [taken EXCEPT ![id] = taken[id] + n]
      BY <1>1, <1>2 DEF taken
    <2>6. Abstract!Take(id, n)
      BY <2>2, <2>3, <2>4, <2>5 DEF Abstract!Take, taken
    <2> QED
      BY <2>1, <2>6 DEF Abstract!Next
  <1> QED
    BY <1>3, <1>4

\* Every step is one of OrderedDelivery, or changes nothing of it.
LEMMA StepRefines ==
    ASSUME OneReaderIInv, OneReaderIInv', [Next]_vars
    PROVE  [Abstract!Next]_(Abstract!vars)
  <1>1. ASSUME NEW id \in Ids, Receive(id) PROVE UNCHANGED Abstract!vars
    BY <1>1, ReceiveStutters DEF OneReaderIInv
  <1>2. ASSUME NEW r \in Readers, Wait(r) \/ TimeOut(r) PROVE UNCHANGED Abstract!vars
    BY <1>2 DEF Wait, TimeOut, Abstract!vars, Taken
  <1>3. ASSUME NEW r \in Readers, NEW id \in Ids, NEW n \in 0 .. Size[id], RecvSome(r, id, n)
        PROVE  [Abstract!Next]_(Abstract!vars)
    <2>1. /\ GetReadyIrob(r, id) /\ n < num_bytes[id] /\ early_acks' = early_acks /\ depends' = depends
          /\ num_bytes' = [num_bytes EXCEPT ![id] = num_bytes[id] - n]
          /\ partially_read_irob' = id /\ past_irobs' = past_irobs
      BY <1>3 DEF RecvSome
    <2>2. /\ id \notin past_irobs /\ num_bytes[id] \in 1 .. Size[id] /\ Size[id] \in Nat
          /\ num_bytes'[id] = num_bytes[id] - n
          /\ partially_read_irob \in {NoIrob, id}
      BY <2>1, GotReady, GoesOnReading, SizeFacts DEF OneReaderIInv, IInv, TypeOK
    <2>3. Taken(id)' = (Size[id] - num_bytes[id]) + n
      BY <2>1, <2>2 DEF Taken
    <2>4. \A d \in Ids \ {id} : Taken(d)' = Taken(d)
      BY <2>1, <2>2, SizeAssumption DEF Taken
    <2>5. n \in 0 .. num_bytes[id]
      BY <2>1, <2>2
    <2> QED
      BY <2>1, <2>3, <2>4, <2>5, RecvTakes
  <1>4. ASSUME NEW r \in Readers, NEW id \in Ids, RecvRest(r, id)
        PROVE  [Abstract!Next]_(Abstract!vars)
    <2>1. /\ GetReadyIrob(r, id) /\ early_acks' = early_acks /\ depends' = depends
          /\ partially_read_irob' = IF id = partially_read_irob THEN NoIrob
                                                                ELSE partially_read_irob
          /\ past_irobs' = past_irobs \cup {id}
      BY <1>4 DEF RecvRest
    <2>2. /\ num_bytes[id] \in 1 .. Size[id] /\ Size[id] \in Nat
          /\ partially_read_irob \in {NoIrob, id}
      BY <2>1, GotReady, GoesOnReading, SizeFacts DEF OneReaderIInv
    <2>3. Taken(id)' = (Size[id] - num_bytes[id]) + num_bytes[id]
      BY <2>1, <2>2 DEF Taken
    <2>4. \A d \in Ids \ {id} : Taken(d)' = Taken(d)
      BY <2>1, <2>2, SizeAssumption DEF Taken
    <2>5. num_bytes[id] \in 0 .. num_bytes[id]
      BY <2>2
    <2> QED
      BY <2>1, <2>3, <2>4, <2>5, RecvTakes
  <1>5. CASE UNCHANGED vars
    BY <1>5 DEF vars, reading, Abstract!vars, Taken
  <1> QED
    BY <1>1, <1>2, <1>3, <1>4, <1>5 DEF Next, Recv

\* What mc_recv returns to an application that reads with one thread: each IROB
\* once, its units without gaps, whole before another one is begun, and after all
\* it depends on.
THEOREM DeliversInOrder == OneReader /\ Spec => ImplementsOrderedDelivery
  BY InitRefines, StepRefines, AlwaysOneReader, PTL DEF Spec, ImplementsOrderedDelivery, Abstract!Spec

-----------------------------------------------------------------------------
\* The threads of the application that call select, poll and recv, and those
\* that wait for a network: AppThreads.

Thunks == Writers \X Nat

ThreadTypes ==
    /\ DOMAIN rpc = ReadThreads
    /\ select_pipe \in Nat /\ ready \in Nat /\ releasing \in BOOLEAN
    /\ DOMAIN wpc = Writers
    /\ rc \in [Writers -> BOOLEAN]
    /\ waits \in [Writers -> Nat]
    /\ thunk_queue \in Seq(Thunks)
    /\ q_copy \in [ThunkThreads -> Seq(Thunks)]

\* Somebody is up to read what is there, or about to be, or will be woken.
SomeoneIsWoken ==
    ready > 0 \/ releasing => select_pipe > 0 \/ \E r \in ReadThreads : rpc[r] # "select"

\* The thunks that have not been fired.
Owed == lost \cup ToSet(thunk_queue) \cup UNION {ToSet(q_copy[t]) : t \in ThunkThreads}

ThreadsInv == ThreadTypes /\ SomeoneIsWoken /\ WaiterIsOwed

-----------------------------------------------------------------------------
\* Queues of thunks

\* The elements of a queue that something is appended to.
LEMMA Appended ==
  ASSUME NEW S, NEW s \in Seq(S), NEW x \in S
  PROVE  ToSet(Append(s, x)) = ToSet(s) \cup {x}
  <1>1. /\ Append(s, x) \in Seq(S) /\ Len(Append(s, x)) = Len(s) + 1
        /\ \A i \in 1 .. Len(s) : Append(s, x)[i] = s[i]
        /\ Append(s, x)[Len(s) + 1] = x /\ Len(s) \in Nat
    OBVIOUS
  <1>2. DOMAIN Append(s, x) = 1 .. Len(s) + 1 /\ DOMAIN s = 1 .. Len(s)
    BY <1>1
  <1> QED
    BY <1>1, <1>2 DEF ToSet

\* The elements of a queue whose first is taken.
LEMMA Popped ==
  ASSUME NEW S, NEW s \in Seq(S), s # <<>>
  PROVE  /\ ToSet(s) = {Head(s)} \cup ToSet(Tail(s))
         /\ Head(s) \in S /\ Tail(s) \in Seq(S)
  <1>1. /\ Len(s) \in Nat \ {0} /\ Tail(s) \in Seq(S) /\ Len(Tail(s)) = Len(s) - 1
        /\ \A i \in 1 .. Len(s) - 1 : Tail(s)[i] = s[i + 1]
        /\ Head(s) = s[1] /\ Head(s) \in S
    BY EmptySeq
  <1>2. DOMAIN Tail(s) = 1 .. Len(s) - 1 /\ DOMAIN s = 1 .. Len(s)
    BY <1>1
  <1>3. ASSUME NEW i \in 1 .. Len(s), i # 1
        PROVE  s[i] \in ToSet(Tail(s))
    <2>1. i - 1 \in 1 .. Len(s) - 1 /\ (i - 1) + 1 = i
      BY <1>1, <1>3
    <2> QED
      BY <1>1, <1>2, <2>1 DEF ToSet
  <1>4. ToSet(Tail(s)) \subseteq ToSet(s)
    BY <1>1, <1>2 DEF ToSet
  <1>5. Head(s) \in ToSet(s)
    BY <1>1, <1>2 DEF ToSet
  <1>6. ToSet(s) \subseteq {Head(s)} \cup ToSet(Tail(s))
    BY <1>1, <1>2, <1>3 DEF ToSet
  <1> QED
    BY <1>1, <1>4, <1>5, <1>6

-----------------------------------------------------------------------------
\* The steps of the readers and of those who wake them touch nothing of the
\* thunks, and the other way round.

\* A step of the readers or of those who wake them: only SomeoneIsWoken is at stake.
LEMMA ReadPart ==
  ASSUME ThreadsInv, UNCHANGED <<net, writevars, thunkvars>>,
         DOMAIN rpc' = ReadThreads, select_pipe' \in Nat, ready' \in Nat, releasing' \in BOOLEAN,
         SomeoneIsWoken'
  PROVE  ThreadsInv'
  <1>1. ThreadTypes'
    BY DEF ThreadsInv, ThreadTypes, writevars, thunkvars
  <1>2. WaiterIsOwed'
    BY DEF ThreadsInv, WaiterIsOwed, writevars, thunkvars
  <1> QED
    BY <1>1, <1>2 DEF ThreadsInv

\* A step of the callers or of the thunk threads: SomeoneIsWoken stays.
LEMMA ThunkPart ==
  ASSUME ThreadsInv, UNCHANGED readvars, ThreadTypes', WaiterIsOwed'
  PROVE  ThreadsInv'
  BY DEF ThreadsInv, SomeoneIsWoken, readvars

\* A reader goes to sleep only after it has looked at what is ready, and puts a byte
\* in the pipe if there is something.
LEMMA ReaderIInv ==
  ASSUME ThreadsInv, NEW r \in ReadThreads, Reader(r)
  PROVE  ThreadsInv'
  <1>1. /\ UNCHANGED <<net, writevars, thunkvars, releasing>>
        /\ DOMAIN rpc' = ReadThreads
    BY DEF ThreadsInv, ThreadTypes, Reader, ClearForSelect, CheckForSelect,
           SelectWakes, SelectReturns,
           PollReturns, Return, WillBlockOnRead, CmmRecv
  <1>2. select_pipe' \in Nat /\ ready' \in Nat /\ releasing' \in BOOLEAN
    <2>1. select_pipe \in Nat /\ ready \in Nat /\ releasing \in BOOLEAN
      BY DEF ThreadsInv, ThreadTypes
    <2>2. select_pipe' \in {0, select_pipe, select_pipe + 1}
      BY DEF Reader, ClearForSelect, CheckForSelect, SelectWakes, SelectReturns,
             PollReturns, Return, WillBlockOnRead, CmmRecv
    <2>3. ready' = ready \/ (ready > 0 /\ ready' = ready - 1)
      BY DEF Reader, ClearForSelect, CheckForSelect, SelectWakes, SelectReturns,
             PollReturns, Return, WillBlockOnRead, CmmRecv
    <2> QED
      BY <1>1, <2>1, <2>2, <2>3
  <1>3. SomeoneIsWoken'
    <2>1. CASE CheckForSelect(r)
      <3>1. ~releasing' /\ ready' = ready
            /\ select_pipe' = IF ready > 0 THEN select_pipe + 1 ELSE select_pipe
        BY <2>1 DEF CheckForSelect
      <3>2. ready > 0 => select_pipe' > 0
        BY <3>1 DEF ThreadsInv, ThreadTypes
      <3> QED
        BY <3>1, <3>2 DEF SomeoneIsWoken
    <2>2. CASE ~CheckForSelect(r)
      <3>1. rpc'[r] # "select"
        BY <2>2 DEF ThreadsInv, ThreadTypes, Reader, ClearForSelect, SelectWakes, SelectReturns,
                    PollReturns, Return, WillBlockOnRead, CmmRecv
      <3> QED
        BY <3>1 DEF SomeoneIsWoken
    <2> QED
      BY <2>1, <2>2
  <1> QED
    BY <1>1, <1>2, <1>3, ReadPart

\* An IROB becomes readable after the byte that wakes the readers was written.
LEMMA WakersIInv ==
  ASSUME ThreadsInv, BeginRelease \/ EndRelease \/ InterruptWaiters
  PROVE  ThreadsInv'
  <1>1. UNCHANGED <<net, writevars, thunkvars, rpc>>
    BY DEF BeginRelease, EndRelease, InterruptWaiters
  <1>2. select_pipe' \in Nat /\ ready' \in Nat /\ releasing' \in BOOLEAN
    <2>1. select_pipe \in Nat /\ ready \in Nat /\ releasing \in BOOLEAN
      BY DEF ThreadsInv, ThreadTypes
    <2>2. select_pipe' \in {select_pipe, select_pipe + 1} /\ ready' \in {ready, ready + 1}
      BY DEF BeginRelease, EndRelease, InterruptWaiters
    <2>3. releasing' \in BOOLEAN
      BY <2>1 DEF BeginRelease, EndRelease, InterruptWaiters
    <2> QED
      BY <2>1, <2>2, <2>3
  <1>3. SomeoneIsWoken'
    <2>1. CASE BeginRelease
      <3>1. CASE ready = 0
        BY <2>1, <3>1 DEF BeginRelease, ThreadsInv, ThreadTypes, SomeoneIsWoken
      <3>2. CASE ready # 0
        <4>1. ready > 0
          BY <3>2 DEF ThreadsInv, ThreadTypes
        <4> QED
          BY <1>1, <2>1, <3>2, <4>1 DEF BeginRelease, ThreadsInv, SomeoneIsWoken
      <3> QED
        BY <3>1, <3>2
    <2>2. CASE EndRelease
      BY <1>1, <2>2 DEF EndRelease, ThreadsInv, SomeoneIsWoken
    <2>3. CASE InterruptWaiters
      BY <2>3 DEF InterruptWaiters, ThreadsInv, ThreadTypes, SomeoneIsWoken
    <2> QED
      BY <2>1, <2>2, <2>3
  <1> QED
    BY <1>1, <1>2, <1>3, ReadPart DEF ThreadsInv, ThreadTypes

-----------------------------------------------------------------------------
\* The writers.  Only WaitForLabels begins to wait, with a thunk of its own.

\* A caller waits only after its thunk was queued.
LEMMA WriterIInv ==
  ASSUME ThreadsInv, NEW w \in Writers, Writer(w)
  PROVE  ThreadsInv'
  <1>1. UNCHANGED <<readvars, net, q_copy, lost>>
    BY DEF Writer, BeginIrob, GetCsock, Unlock, Test, Wake, Timeout,
           ReturnToApp, thunkvars
  <1>2. CASE WaitForLabels(w)
    <2> DEFINE thunk == <<w, waits[w] + 1>>
    <2>1. thunk \in Thunks
      BY DEF ThreadsInv, ThreadTypes, Thunks
    <2>2. thunk_queue' = Append(thunk_queue, thunk) /\ thunk_queue \in Seq(Thunks)
      BY <1>2 DEF WaitForLabels, Enqueue, ThreadsInv, ThreadTypes
    <2>3. ThreadTypes'
      <3>1. thunk_queue' \in Seq(Thunks)
        BY <2>1, <2>2
      <3>2. /\ DOMAIN wpc' = Writers /\ rc' \in [Writers -> BOOLEAN] /\ waits' \in [Writers -> Nat]
        BY <1>2 DEF WaitForLabels, ThreadsInv, ThreadTypes
      <3> QED
        BY <1>1, <3>1, <3>2 DEF ThreadsInv, ThreadTypes, readvars
    <2>4. Owed' = Owed \cup {thunk}
      <3> HIDE DEF thunk
      <3>1. ToSet(thunk_queue') = ToSet(thunk_queue) \cup {thunk}
        BY <2>1, <2>2, Appended
      <3> QED
        BY <1>1, <3>1 DEF Owed
    <2>5. WaiterIsOwed'
      <3> SUFFICES ASSUME NEW v \in Writers, wpc'[v] \in {"unlock", "test", "wait"}, ~rc'[v]
                   PROVE  <<v, waits'[v]>> \in Owed'
        BY DEF WaiterIsOwed, Owed
      <3>1. CASE v = w
        <4>1. waits'[v] = waits[w] + 1
          BY <1>2, <3>1 DEF WaitForLabels, ThreadsInv, ThreadTypes
        <4> QED
          BY <2>4, <3>1, <4>1
      <3>2. CASE v # w
        <4>1. wpc'[v] = wpc[v] /\ rc'[v] = rc[v] /\ waits'[v] = waits[v]
          BY <1>2, <3>2 DEF WaitForLabels, ThreadsInv, ThreadTypes
        <4> QED
          BY <2>4, <4>1 DEF ThreadsInv, WaiterIsOwed, Owed
      <3> QED
        BY <3>1, <3>2
    <2> QED
      BY <1>1, <2>3, <2>5, ThunkPart
  <1>3. CASE ~WaitForLabels(w)
    <2>1. UNCHANGED <<rc, waits, thunk_queue>>
      BY <1>3 DEF Writer, BeginIrob, GetCsock, Unlock, Test, Wake, Timeout,
                  ReturnToApp, thunkvars
    <2>2. ThreadTypes'
      BY <1>1, <2>1 DEF ThreadsInv, ThreadTypes, readvars, Writer, BeginIrob,
                        GetCsock, Unlock, Test, Wake,
                        Timeout, ReturnToApp, WaitForLabels
    <2>3. ASSUME NEW v \in Writers, wpc'[v] \in {"unlock", "test", "wait"}, ~rc[v]
          PROVE  wpc[v] \in {"unlock", "test", "wait"}
      BY <1>3, <2>3 DEF ThreadsInv, ThreadTypes, Writer, BeginIrob, GetCsock,
                        Unlock, Test, Wake,
                        Timeout, ReturnToApp
    <2>4. WaiterIsOwed'
      BY <1>1, <2>1, <2>3 DEF ThreadsInv, WaiterIsOwed
    <2> QED
      BY <1>1, <2>2, <2>4, ThunkPart
  <1> QED
    BY <1>2, <1>3

\* A step of a thunk thread loses no thunk but by firing it.
LEMMA ThunkThreadIInv ==
  ASSUME ThreadsInv, NEW t \in ThunkThreads, ThunkThread(t)
  PROVE  ThreadsInv'
  <1>1. UNCHANGED <<readvars, net, wpc, waits>>
    BY DEF ThunkThread, FireThunks, IsEmpty, Pop, FireOneThunk, Fired,
           ThunkThreadEnds, writevars
  <1>2. q_copy[t] \in Seq(Thunks) /\ thunk_queue \in Seq(Thunks)
    BY DEF ThreadsInv, ThreadTypes
  <1>3. ASSUME Owed \subseteq Owed', UNCHANGED rc
        PROVE  WaiterIsOwed'
    <2> SUFFICES ASSUME NEW v \in Writers, wpc[v] \in {"unlock", "test", "wait"}, ~rc[v]
                 PROVE  <<v, waits[v]>> \in Owed'
      BY <1>1, <1>3 DEF WaiterIsOwed, Owed
    <2> QED
      BY <1>3 DEF ThreadsInv, WaiterIsOwed, Owed
  <1>4. CASE UNCHANGED <<rc, thunk_queue, q_copy, lost>>
    <2>1. Owed' = Owed
      BY <1>4 DEF Owed
    <2>2. ThreadTypes'
      BY <1>1, <1>4 DEF ThreadsInv, ThreadTypes, readvars
    <2> QED
      BY <1>1, <1>3, <1>4, <2>1, <2>2, ThunkPart
  <1>5. CASE Pop(t)
    <2>1. /\ thunk_queue # <<>> /\ thunk_queue' = Tail(thunk_queue)
          /\ q_copy' = [q_copy EXCEPT ![t] = Append(q_copy[t], Head(thunk_queue))]
          /\ UNCHANGED <<rc, lost>>
      BY <1>5 DEF Pop, writevars
    <2>2. /\ ToSet(thunk_queue) = {Head(thunk_queue)} \cup ToSet(thunk_queue')
          /\ Head(thunk_queue) \in Thunks /\ thunk_queue' \in Seq(Thunks)
      BY <1>2, <2>1, Popped
    <2>3. /\ q_copy' \in [ThunkThreads -> Seq(Thunks)]
          /\ q_copy'[t] = Append(q_copy[t], Head(thunk_queue))
          /\ \A u \in ThunkThreads : u # t => q_copy'[u] = q_copy[u]
      BY <1>2, <2>1, <2>2 DEF ThreadsInv, ThreadTypes
    <2>4. ToSet(q_copy'[t]) = ToSet(q_copy[t]) \cup {Head(thunk_queue)}
      BY <1>2, <2>2, <2>3, Appended
    <2>5. \A u \in ThunkThreads : ToSet(q_copy[u]) \subseteq ToSet(q_copy'[u])
      BY <2>3, <2>4
    <2>6. Owed \subseteq Owed'
      <3>1. Head(thunk_queue) \in Owed'
        BY <2>4 DEF Owed
      <3>2. ToSet(thunk_queue') \subseteq Owed' /\ lost \subseteq Owed'
        BY <2>1 DEF Owed
      <3>3. \A u \in ThunkThreads : ToSet(q_copy[u]) \subseteq Owed'
        BY <2>5 DEF Owed
      <3> QED
        BY <2>2, <3>1, <3>2, <3>3 DEF Owed
    <2>7. ThreadTypes'
      BY <1>1, <2>1, <2>2, <2>3 DEF ThreadsInv, ThreadTypes, readvars
    <2> QED
      BY <1>1, <1>3, <2>1, <2>6, <2>7, ThunkPart
  <1>6. CASE FireOneThunk(t)
    <2> DEFINE thunk == Head(q_copy[t])
    <2>1. /\ q_copy[t] # <<>> /\ q_copy' = [q_copy EXCEPT ![t] = Tail(q_copy[t])]
          /\ rc' = [rc EXCEPT ![thunk[1]] = TRUE]
          /\ UNCHANGED <<thunk_queue, lost>>
      BY <1>6 DEF FireOneThunk, SignalCompletion
    <2>2. /\ ToSet(q_copy[t]) = {thunk} \cup ToSet(Tail(q_copy[t]))
          /\ thunk \in Thunks /\ Tail(q_copy[t]) \in Seq(Thunks)
      BY <1>2, <2>1, Popped
    <2>3. /\ q_copy' \in [ThunkThreads -> Seq(Thunks)]
          /\ q_copy'[t] = Tail(q_copy[t])
          /\ \A u \in ThunkThreads : u # t => q_copy'[u] = q_copy[u]
      BY <2>1, <2>2 DEF ThreadsInv, ThreadTypes
    <2>4. thunk[1] \in Writers /\ rc' \in [Writers -> BOOLEAN]
      BY <2>1, <2>2 DEF Thunks, ThreadsInv, ThreadTypes
    <2> HIDE DEF thunk
    <2>5. Owed \subseteq Owed' \cup {thunk}
      BY <2>1, <2>2, <2>3 DEF Owed
    <2>6. ThreadTypes'
      BY <1>1, <2>1, <2>3, <2>4 DEF ThreadsInv, ThreadTypes, readvars
    <2>7. WaiterIsOwed'
      <3> SUFFICES ASSUME NEW v \in Writers, wpc[v] \in {"unlock", "test", "wait"}, ~rc'[v]
                   PROVE  <<v, waits[v]>> \in Owed'
        BY <1>1 DEF WaiterIsOwed, Owed
      <3>1. thunk[1] # v /\ ~rc[v]
        BY <2>1, <2>4 DEF ThreadsInv, ThreadTypes
      <3>2. <<v, waits[v]>> \in Owed
        BY <3>1 DEF ThreadsInv, WaiterIsOwed, Owed
      <3>3. <<v, waits[v]>> # thunk
        BY <3>1
      <3> QED
        BY <2>5, <3>2, <3>3
    <2> QED
      BY <1>1, <2>6, <2>7, ThunkPart
  <1>7. CASE Fired(t) /\ ~NetAvailable
    <2>1. /\ q_copy' = [q_copy EXCEPT ![t] = <<>>] /\ lost' = lost \cup ToSet(q_copy[t])
          /\ UNCHANGED <<rc, thunk_queue>>
      BY <1>7 DEF Fired, writevars
    <2>2. /\ q_copy' \in [ThunkThreads -> Seq(Thunks)]
          /\ \A u \in ThunkThreads : u # t => q_copy'[u] = q_copy[u]
      BY <2>1 DEF ThreadsInv, ThreadTypes
    <2>3. Owed \subseteq Owed'
      BY <2>1, <2>2 DEF Owed
    <2>4. ThreadTypes'
      BY <1>1, <2>1, <2>2 DEF ThreadsInv, ThreadTypes, readvars
    <2> QED
      BY <1>1, <1>3, <2>1, <2>3, <2>4, ThunkPart
  <1> QED
    BY <1>4, <1>5, <1>6, <1>7
       DEF ThunkThread, FireThunks, IsEmpty, Fired, ThunkThreadEnds, writevars

-----------------------------------------------------------------------------

\* Nothing is ready, and nobody waits.
LEMMA InitThreads == ThreadsInit => ThreadsInv
  <1> SUFFICES ASSUME ThreadsInit PROVE ThreadsInv
    OBVIOUS
  <1>1. ThreadTypes
    <2>1. <<>> \in Seq(Thunks)
      BY EmptySeq
    <2> QED
      BY <2>1 DEF ThreadsInit, ThreadTypes
  <1>2. SomeoneIsWoken
    BY DEF ThreadsInit, SomeoneIsWoken
  <1>3. WaiterIsOwed
    BY DEF ThreadsInit, WaiterIsOwed
  <1> QED
    BY <1>1, <1>2, <1>3 DEF ThreadsInv

\* Every step keeps the inductive invariant.
LEMMA NextThreads == ThreadsInv /\ [ThreadsNext]_threadvars => ThreadsInv'
  <1> SUFFICES ASSUME ThreadsInv, [ThreadsNext]_threadvars PROVE ThreadsInv'
    OBVIOUS
  <1>1. CASE Flap \/ UNCHANGED threadvars
    <2>1. UNCHANGED <<readvars, writevars, thunkvars>>
      BY <1>1 DEF Flap, threadvars
    <2>2. ThreadTypes'
      BY <2>1 DEF ThreadsInv, ThreadTypes, readvars, writevars, thunkvars
    <2>3. WaiterIsOwed'
      BY <2>1 DEF ThreadsInv, WaiterIsOwed, writevars, thunkvars
    <2> QED
      BY <2>1, <2>2, <2>3, ThunkPart
  <1> QED
    BY <1>1, ReaderIInv, WakersIInv, WriterIInv, ThunkThreadIInv DEF ThreadsNext

\* The inductive invariant holds of every reachable state.
LEMMA ThreadsAlways == ThreadsSpec => []ThreadsInv
  BY InitThreads, NextThreads, PTL DEF ThreadsSpec

\* However many threads sleep in cmm_select and cmm_poll and clear each other's
\* bytes, and although release sends the byte before the IROB can be seen, they do
\* not all sleep on an empty select_pipe while an IROB is ready.
THEOREM WakeupIsNeverLost == ThreadsSpec => []NoLostWakeup
  <1>1. ThreadsInv => NoLostWakeup
    BY DEF ThreadsInv, SomeoneIsWoken, NoLostWakeup
  <1> QED
    BY <1>1, ThreadsAlways, PTL

\* A thread in wait_for_completion that has not been told is still owed its thunk,
\* however the thunk threads share the queue and whether or not it was waiting
\* already when its thunk was fired: the only thunks that are lost are those that
\* ThunkThreadFn drops because the network is gone again.
THEOREM WaiterAlwaysOwed == ThreadsSpec => []WaiterIsOwed
  <1>1. ThreadsInv => WaiterIsOwed
    BY DEF ThreadsInv
  <1> QED
    BY <1>1, ThreadsAlways, PTL
=============================================================================
