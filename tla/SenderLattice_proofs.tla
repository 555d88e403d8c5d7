------------------------ MODULE SenderLattice_proofs ------------------------
(***************************************************************************)
(* The ordering guarantees of the sender's lattice, for any number of      *)
(* IROBs.                                                                  *)
(*                                                                         *)
(* AnonymousBarrier is not inductive by itself: that a new anonymous IROB  *)
(* depends on everything before it follows from what min_dominator_set and *)
(* last_anon_irob_id cover (DominatorsCoverAll), which in turn holds       *)
(* because every dominator depends on the last anonymous IROB.             *)
(***************************************************************************)
EXTENDS SenderLattice, TLAPS

\* Every accepted IROB is pending or past, and the lattice's bookkeeping only
\* names accepted IROBs.
Accounted ==
    /\ inserted = pending_irobs \cup past_irobs
    /\ pending_irobs \cap past_irobs = {}
    /\ dropped_irobs \subseteq past_irobs
    /\ anonymous \subseteq inserted
    /\ min_dominator_set \subseteq inserted \ anonymous
    /\ last_anon_irob_id \in anonymous \cup {NoIrob}

\* An IROB's history only names accepted IROBs and foreign ids, and there is
\* a placeholder for each foreign id it depends on.
KnownDeps ==
    \A q \in inserted :
        /\ before[q] \subseteq inserted
        /\ app_deps[q] \subseteq deps[q]
        /\ deps[q] \subseteq reach[q]
        /\ deps[q] \cap Foreign \subseteq placeholders
        /\ reach[q] \subseteq inserted \cup Foreign

ReachIsTransitive ==
    \A q \in inserted : \A d \in reach[q] \cap Ids : reach[d] \subseteq reach[q]

\* The last anonymous IROB stands for all of them, and every dominator comes
\* after it.
LastAnonymous ==
    /\ last_anon_irob_id = NoIrob => anonymous = {}
    /\ last_anon_irob_id # NoIrob =>
          /\ \A a \in anonymous : a = last_anon_irob_id \/ a \in reach[last_anon_irob_id]
          /\ \A m \in min_dominator_set : last_anon_irob_id \in reach[m]

IInv ==
    /\ TypeOK
    /\ Accounted
    /\ KnownDeps
    /\ ReachIsTransitive
    /\ LastAnonymous
    /\ DominatorsCoverAll
    /\ DominatorsAreMinimal
    /\ AnonymousBarrier
    /\ Acyclic
    /\ EdgesAgree
    /\ NamedDepsNotDropped

-----------------------------------------------------------------------------
(***************************************************************************)
(* Inserting an IROB                                                       *)
(***************************************************************************)

\* What Record does to the history: the new IROB reaches its dependencies and
\* what they reach; the history of the others does not change.
LEMMA NewHistory ==
    ASSUME TypeOK, KnownDeps,
           NEW id \in Ids, id \notin inserted,
           NEW D \in SUBSET (inserted \cup Foreign),
           NEW named \in SUBSET D,
           Record(id, D, named)
    PROVE  /\ inserted' = inserted \cup {id}
           /\ before'[id] = inserted
           /\ app_deps'[id] = named
           /\ \A x : x \in reach'[id] <=> x \in D \/ \E d \in D \cap Ids : x \in reach[d]
           /\ D \subseteq reach'[id]
           /\ \A d \in D \cap Ids : reach[d] \subseteq reach'[id]
           /\ reach'[id] \subseteq inserted \cup Foreign
           /\ \A q \in inserted : /\ before'[q] = before[q]
                                  /\ app_deps'[q] = app_deps[q]
                                  /\ reach'[q] = reach[q]
  <1>1. reach'[id] = D \cup UNION {reach[d] : d \in D \cap Ids}
    BY DEF Record, TypeOK
  <1>2. \A x : x \in reach'[id] <=> x \in D \/ \E d \in D \cap Ids : x \in reach[d]
    BY <1>1
  <1>3. D \cap Ids \subseteq inserted
    BY IdsAssumption
  <1>4. reach'[id] \subseteq inserted \cup Foreign
    BY <1>2, <1>3 DEF KnownDeps
  <1>5. D \subseteq reach'[id] /\ \A d \in D \cap Ids : reach[d] \subseteq reach'[id]
    BY <1>2
  <1>6. /\ inserted' = inserted \cup {id}
        /\ before'[id] = inserted
        /\ app_deps'[id] = named
    BY DEF Record, TypeOK
  <1>7. \A q \in inserted : /\ before'[q] = before[q]
                            /\ app_deps'[q] = app_deps[q]
                            /\ reach'[q] = reach[q]
    BY DEF Record, TypeOK
  <1>8. QED
    BY <1>2, <1>4, <1>5, <1>6, <1>7

\* What Link and Record do to the graph: the typing and the graph invariants
\* hold whatever the dependencies are, as long as they are known.
LEMMA InsertGraph ==
    ASSUME TypeOK, Accounted, KnownDeps, ReachIsTransitive, Acyclic, EdgesAgree,
           NEW id \in Ids, Insertable(id),
           NEW D \in SUBSET (inserted \cup Foreign),
           NEW named \in SUBSET D,
           Link(id, D), Record(id, D, named),
           UNCHANGED <<past_irobs, dropped_irobs>>
    PROVE  /\ pending_irobs' \subseteq Ids
           /\ placeholders' \subseteq Foreign
           /\ deps' \in [Ids -> SUBSET AllIds]
           /\ dependents' \in [AllIds -> SUBSET Ids]
           /\ inserted' \subseteq Ids
           /\ app_deps' \in [Ids -> SUBSET AllIds]
           /\ before' \in [Ids -> SUBSET Ids]
           /\ reach' \in [Ids -> SUBSET AllIds]
           /\ inserted' = pending_irobs' \cup past_irobs'
           /\ KnownDeps'
           /\ ReachIsTransitive'
           /\ Acyclic'
           /\ EdgesAgree'
  <1>0. id \notin inserted
    BY DEF Insertable, Accounted
  <1>h. /\ inserted' = inserted \cup {id}
        /\ before'[id] = inserted
        /\ app_deps'[id] = named
        /\ \A x : x \in reach'[id] <=> x \in D \/ \E d \in D \cap Ids : x \in reach[d]
        /\ D \subseteq reach'[id]
        /\ \A d \in D \cap Ids : reach[d] \subseteq reach'[id]
        /\ reach'[id] \subseteq inserted \cup Foreign
        /\ \A q \in inserted : /\ before'[q] = before[q]
                               /\ app_deps'[q] = app_deps[q]
                               /\ reach'[q] = reach[q]
    BY <1>0, NewHistory
  <1>1. D \subseteq AllIds
    BY DEF AllIds, TypeOK
  <1>2. /\ pending_irobs' = pending_irobs \cup {id}
        /\ placeholders' = placeholders \cup ((D \ past_irobs) \ pending_irobs)
        /\ deps' \in [Ids -> SUBSET AllIds]
        /\ deps'[id] = D
        /\ \A q \in inserted : deps'[q] = deps[q]
    BY <1>0, <1>1 DEF Link, TypeOK
  <1>3. /\ dependents' \in [AllIds -> SUBSET Ids]
        /\ \A d \in AllIds : dependents[d] \subseteq dependents'[d]
        /\ \A d \in D \ past_irobs : id \in dependents'[d]
    BY <1>1 DEF Link, TypeOK
  <1>4. placeholders' \subseteq Foreign
    BY <1>2 DEF TypeOK, Accounted
  <1>5. /\ app_deps' \in [Ids -> SUBSET AllIds]
        /\ before' \in [Ids -> SUBSET Ids]
    BY <1>1 DEF Record, TypeOK
  <1>6. reach' \in [Ids -> SUBSET AllIds]
    <2>1. D \cup UNION {reach[d] : d \in D \cap Ids} \subseteq AllIds
      BY <1>1 DEF TypeOK
    <2>2. QED
      BY <2>1 DEF Record, TypeOK
  <1>7. inserted' = pending_irobs' \cup past_irobs' /\ inserted' \subseteq Ids
    BY <1>2 DEF Record, Accounted, TypeOK
  <1>8. KnownDeps'
    <2>1. D \cap Foreign \subseteq placeholders'
      BY <1>2, IdsAssumption DEF TypeOK
    <2>2. QED
      BY <2>1, <1>0, <1>2, <1>h DEF KnownDeps
  <1>9. ReachIsTransitive'
    <2> SUFFICES ASSUME NEW q \in inserted', NEW d \in reach'[q] \cap Ids
                 PROVE  reach'[d] \subseteq reach'[q]
      BY DEF ReachIsTransitive
    <2>1. CASE q = id
      <3>1. d \in inserted
        BY <2>1, <1>0, <1>h, IdsAssumption
      <3>2. d \in D \/ \E e \in D \cap Ids : d \in reach[e]
        BY <2>1, <1>0, <1>h
      <3>3. D \cap Ids \subseteq inserted
        BY IdsAssumption
      <3>4. reach[d] \subseteq reach'[id]
        <4>1. CASE d \in D
          BY <4>1, <1>0, <1>h
        <4>2. CASE \E e \in D \cap Ids : d \in reach[e]
          <5>1. PICK e \in D \cap Ids : d \in reach[e]
            BY <4>2
          <5>2. reach[d] \subseteq reach[e]
            BY <5>1, <3>3 DEF ReachIsTransitive
          <5>3. QED
            BY <5>1, <5>2, <1>0, <1>h
        <4>3. QED
          BY <3>2, <4>1, <4>2
      <3>5. QED
        BY <2>1, <3>1, <3>4, <1>0, <1>h
    <2>2. CASE q # id
      <3>1. q \in inserted /\ reach'[q] = reach[q]
        BY <2>2, <1>0, <1>h
      <3>2. d \in inserted
        BY <3>1, IdsAssumption DEF KnownDeps
      <3>3. reach'[d] = reach[d]
        BY <3>2, <1>0, <1>h
      <3>4. QED
        BY <3>1, <3>3 DEF ReachIsTransitive
    <2>3. QED
      BY <2>1, <2>2
  <1>10. Acyclic'
    <2> SUFFICES ASSUME NEW p \in inserted'
                 PROVE  /\ p \notin reach'[p]
                        /\ reach'[p] = deps'[p] \cup UNION {reach'[d] : d \in deps'[p] \cap Ids}
      BY DEF Acyclic
    <2>1. \A d \in inserted : reach'[d] = reach[d]
      BY <1>0, <1>h
    <2>2. CASE p = id
      <3>1. p \notin reach'[p]
        BY <2>2, <1>0, <1>h, IdsAssumption
      <3>2. \A d \in D \cap Ids : reach'[d] = reach[d]
        BY <2>1, IdsAssumption
      <3>3. reach'[id] = D \cup UNION {reach[d] : d \in D \cap Ids}
        BY DEF Record, TypeOK
      <3>4. {reach'[d] : d \in D \cap Ids} = {reach[d] : d \in D \cap Ids}
        BY <3>2
      <3>5. QED
        BY <2>2, <3>1, <3>3, <3>4, <1>2
    <2>3. CASE p # id
      <3>1. p \in inserted
        BY <2>3, <1>0, <1>h
      <3>2. deps[p] \cap Ids \subseteq inserted
        BY <3>1, IdsAssumption DEF KnownDeps
      <3>3. {reach'[d] : d \in deps[p] \cap Ids} = {reach[d] : d \in deps[p] \cap Ids}
        BY <2>1, <3>2
      <3>4. deps'[p] = deps[p] /\ reach'[p] = reach[p]
        BY <3>1, <1>2, <2>1
      <3>5. QED
        BY <3>1, <3>3, <3>4 DEF Acyclic
    <2>4. QED
      BY <2>2, <2>3
  <1>11. EdgesAgree'
    <2> SUFFICES ASSUME NEW p \in pending_irobs',
                        NEW d \in deps'[p] \cap (pending_irobs' \cup placeholders')
                 PROVE  p \in dependents'[d]
      BY DEF EdgesAgree
    <2>1. CASE p = id
      <3>1. d \in D
        BY <2>1, <1>2
      <3>2. d \notin past_irobs
        <4>1. d # id
          BY <3>1, <1>0, IdsAssumption
        <4>2. d \in pending_irobs \cup Foreign
          BY <4>1, <1>2, <1>4
        <4>3. QED
          BY <4>2, IdsAssumption DEF TypeOK, Accounted
      <3>3. QED
        BY <2>1, <3>1, <3>2, <1>3
    <2>2. CASE p # id
      <3>1. p \in pending_irobs /\ d \in deps[p]
        BY <2>2, <1>2 DEF Accounted
      <3>2. d \in pending_irobs \cup placeholders
        BY <3>1, <1>0, <1>2, <1>4, IdsAssumption DEF KnownDeps, Accounted, TypeOK
      <3>3. d \in AllIds
        BY <3>2 DEF TypeOK, AllIds
      <3>4. QED
        BY <3>1, <3>2, <3>3, <1>3 DEF EdgesAgree
    <2>3. QED
      BY <2>1, <2>2
  <1>12. QED
    BY <1>2, <1>3, <1>4, <1>5, <1>6, <1>7, <1>8, <1>9, <1>10, <1>11

-----------------------------------------------------------------------------
(***************************************************************************)
(* The inductive step, one lemma per operation                             *)
(***************************************************************************)

\* No IROB has been begun at the start.
LEMMA InitIInv == Init => IInv
  BY IdsAssumption
  DEF Init, IInv, TypeOK, AllIds, Accounted, KnownDeps, ReachIsTransitive,
      LastAnonymous, DominatorsCoverAll, Dominators, DominatorsAreMinimal,
      AnonymousBarrier, Acyclic, EdgesAgree, NamedDepsNotDropped

\* A named IROB is ordered after the last anonymous one (begin_irob).
LEMMA BeginIrobIInv ==
    ASSUME IInv, NEW id \in Ids,
           NEW D \in SUBSET (inserted \cup Foreign), BeginIrob(id, D)
    PROVE  IInv'
  <1> DEFINE N == NamedDeps(D)
             la == last_anon_irob_id
  <1>0. id \notin inserted /\ id \notin Foreign
    BY IdsAssumption DEF IInv, BeginIrob, Insertable, Accounted
  <1>1. /\ N \in SUBSET (inserted \cup Foreign)
        /\ D \in SUBSET N
        /\ N \subseteq D \cup {la}
        /\ la # NoIrob => la \in N \/ D \cap min_dominator_set # {}
    BY DEF NamedDeps, IInv, Accounted, TypeOK
  <1>2. /\ TypeOK /\ Accounted /\ KnownDeps /\ ReachIsTransitive /\ Acyclic /\ EdgesAgree
        /\ Insertable(id) /\ Link(id, N) /\ Record(id, N, D)
        /\ UNCHANGED <<past_irobs, dropped_irobs>>
    BY DEF IInv, BeginIrob
  <1>3. /\ inserted' = inserted \cup {id}
        /\ before'[id] = inserted
        /\ app_deps'[id] = D
        /\ \A x : x \in reach'[id] <=> x \in N \/ \E d \in N \cap Ids : x \in reach[d]
        /\ N \subseteq reach'[id]
        /\ \A d \in N \cap Ids : reach[d] \subseteq reach'[id]
        /\ reach'[id] \subseteq inserted \cup Foreign
        /\ \A q \in inserted : /\ before'[q] = before[q]
                               /\ app_deps'[q] = app_deps[q]
                               /\ reach'[q] = reach[q]
    <2> HIDE DEF N
    <2> QED BY <1>0, <1>1, <1>2, NewHistory
  <1>4. /\ pending_irobs' \subseteq Ids
        /\ placeholders' \subseteq Foreign
        /\ deps' \in [Ids -> SUBSET AllIds]
        /\ dependents' \in [AllIds -> SUBSET Ids]
        /\ inserted' \subseteq Ids
        /\ app_deps' \in [Ids -> SUBSET AllIds]
        /\ before' \in [Ids -> SUBSET Ids]
        /\ reach' \in [Ids -> SUBSET AllIds]
        /\ inserted' = pending_irobs' \cup past_irobs'
        /\ KnownDeps' /\ ReachIsTransitive' /\ Acyclic' /\ EdgesAgree'
    <2> HIDE DEF N
    <2> QED BY <1>1, <1>2, InsertGraph
  <1>5. /\ min_dominator_set' = (min_dominator_set \ D) \cup {id}
        /\ la' = la /\ anonymous' = anonymous
        /\ complete' = complete /\ status' = status
        /\ past_irobs' = past_irobs /\ dropped_irobs' = dropped_irobs
        /\ pending_irobs' = pending_irobs \cup {id}
    BY DEF BeginIrob, Link, Undominated
  <1> HIDE DEF N
  <1>6. TypeOK'
    BY <1>4, <1>5 DEF IInv, TypeOK
  <1>7. Accounted'
    BY <1>0, <1>3, <1>4, <1>5 DEF IInv, Accounted
  <1>8. la # NoIrob => la \in reach'[id]
    <2> SUFFICES ASSUME la # NoIrob, la \notin N
                 PROVE  la \in reach'[id]
      BY <1>3
    <2>1. PICK m \in min_dominator_set : m \in D
      BY <1>1
    <2>2. la \in reach[m]
      BY <2>1 DEF IInv, LastAnonymous
    <2>3. m \in N \cap Ids
      BY <2>1, <1>1 DEF IInv, TypeOK
    <2>4. QED
      BY <2>2, <2>3, <1>3
  <1>9. LastAnonymous'
    BY <1>0, <1>3, <1>5, <1>8 DEF IInv, LastAnonymous, Accounted
  <1>10. \A p \in inserted : p \in min_dominator_set' \/ \E m \in min_dominator_set' : p \in reach'[m]
    <2> SUFFICES ASSUME NEW p \in inserted
                 PROVE  p \in min_dominator_set' \/ \E m \in min_dominator_set' : p \in reach'[m]
      OBVIOUS
    <2>1. PICK m \in Dominators : p = m \/ p \in reach[m]
      BY DEF IInv, DominatorsCoverAll
    <2>2. CASE m \in min_dominator_set \ D
      BY <2>1, <2>2, <1>3, <1>5 DEF IInv, Accounted
    <2>3. CASE m \in D
      <3>1. m \in N \cap Ids
        BY <2>1, <2>3, <1>1 DEF IInv, Dominators, TypeOK
      <3>2. p \in reach'[id]
        BY <2>1, <3>1, <1>3
      <3>3. QED
        BY <3>2, <1>5
    <2>4. CASE m = la /\ la # NoIrob
      <3>1. p \in reach'[id]
        <4>1. la \in reach'[id] /\ la \in inserted
          BY <2>4, <1>8 DEF IInv, Accounted
        <4>2. la \in Ids /\ reach'[la] = reach[la]
          BY <4>1, <1>3 DEF IInv, TypeOK
        <4>3. reach[la] \subseteq reach'[id]
          BY <4>1, <4>2, <1>3, <1>4 DEF ReachIsTransitive
        <4>4. QED
          BY <2>1, <2>4, <4>1, <4>3
      <3>2. QED
        BY <3>1, <1>5
    <2>5. QED
      BY <2>1, <2>2, <2>3, <2>4 DEF Dominators
  <1>11. DominatorsCoverAll'
    BY <1>3, <1>5, <1>10 DEF DominatorsCoverAll, Dominators
  <1>12. DominatorsAreMinimal'
    <2> SUFFICES ASSUME NEW m \in min_dominator_set', NEW q \in inserted'
                 PROVE  m \notin reach'[q]
      BY DEF DominatorsAreMinimal
    <2>1. CASE q = id
      <3>1. CASE m = id
        BY <2>1, <3>1, <1>0, <1>3
      <3>2. CASE m # id
        <4>1. m \in min_dominator_set /\ m \notin D /\ m # la
          BY <3>2, <1>5, IdsAssumption DEF IInv, Accounted, TypeOK
        <4>2. \A d \in inserted : m \notin reach[d]
          BY <4>1 DEF IInv, DominatorsAreMinimal
        <4>3. N \cap Ids \subseteq inserted
          BY <1>1, IdsAssumption
        <4>4. QED
          BY <2>1, <4>1, <4>2, <4>3, <1>1, <1>3
      <3>3. QED
        BY <3>1, <3>2
    <2>2. CASE q # id
      BY <2>2, <1>0, <1>3, <1>5 DEF IInv, DominatorsAreMinimal, KnownDeps
    <2>3. QED
      BY <2>1, <2>2
  <1>13. AnonymousBarrier'
    <2> SUFFICES ASSUME NEW q \in inserted', NEW p \in before'[q],
                        p \in anonymous' \/ q \in anonymous'
                 PROVE  p \in reach'[q]
      BY DEF AnonymousBarrier
    <2>1. CASE q = id
      <3>1. p \in anonymous
        BY <2>1, <1>0, <1>5 DEF IInv, Accounted
      <3>2. la # NoIrob /\ (p = la \/ p \in reach[la])
        BY <3>1 DEF IInv, LastAnonymous
      <3>3. la \in inserted /\ la \in Ids
        BY <3>2 DEF IInv, Accounted, TypeOK
      <3>4. reach[la] \subseteq reach'[id]
        BY <3>2, <3>3, <1>3, <1>4, <1>8 DEF ReachIsTransitive
      <3>5. QED
        BY <2>1, <3>2, <3>4, <1>8
    <2>2. CASE q # id
      BY <2>2, <1>3, <1>5 DEF IInv, AnonymousBarrier
    <2>3. QED
      BY <2>1, <2>2
  <1>14. NamedDepsNotDropped'
    BY <1>3, <1>5 DEF IInv, BeginIrob, Undeliverable, NamedDepsNotDropped, Accounted
  <1>15. QED
    BY <1>4, <1>6, <1>7, <1>9, <1>11, <1>12, <1>13, <1>14 DEF IInv

\* An anonymous IROB is ordered after everything there is.
LEMMA DefaultIrobIInv ==
    ASSUME IInv, NEW id \in Ids, DefaultIrob(id)
    PROVE  IInv'
  <1> DEFINE N == AnonymousDeps
             la == last_anon_irob_id
  <1>0. id \notin inserted /\ id \notin Foreign /\ id # NoIrob
    BY IdsAssumption DEF IInv, DefaultIrob, Insertable, Accounted
  <1>1. /\ N \in SUBSET (inserted \cup Foreign)
        /\ {} \in SUBSET N
        /\ N = Dominators
        /\ N \subseteq inserted
    BY DEF AnonymousDeps, Dominators, IInv, Accounted, TypeOK
  <1>2. /\ TypeOK /\ Accounted /\ KnownDeps /\ ReachIsTransitive /\ Acyclic /\ EdgesAgree
        /\ Insertable(id) /\ Link(id, N) /\ Record(id, N, {})
        /\ UNCHANGED <<past_irobs, dropped_irobs>>
    BY DEF IInv, DefaultIrob
  <1>3. /\ inserted' = inserted \cup {id}
        /\ before'[id] = inserted
        /\ app_deps'[id] = {}
        /\ N \subseteq reach'[id]
        /\ \A d \in N \cap Ids : reach[d] \subseteq reach'[id]
        /\ reach'[id] \subseteq inserted \cup Foreign
        /\ \A q \in inserted : /\ before'[q] = before[q]
                               /\ app_deps'[q] = app_deps[q]
                               /\ reach'[q] = reach[q]
    <2> HIDE DEF N
    <2> QED BY <1>0, <1>1, <1>2, NewHistory
  <1>4. /\ pending_irobs' \subseteq Ids
        /\ placeholders' \subseteq Foreign
        /\ deps' \in [Ids -> SUBSET AllIds]
        /\ dependents' \in [AllIds -> SUBSET Ids]
        /\ inserted' \subseteq Ids
        /\ app_deps' \in [Ids -> SUBSET AllIds]
        /\ before' \in [Ids -> SUBSET Ids]
        /\ reach' \in [Ids -> SUBSET AllIds]
        /\ inserted' = pending_irobs' \cup past_irobs'
        /\ KnownDeps' /\ ReachIsTransitive' /\ Acyclic' /\ EdgesAgree'
    <2> HIDE DEF N
    <2> QED BY <1>1, <1>2, InsertGraph
  <1>5. /\ min_dominator_set' = {}
        /\ la' = id /\ anonymous' = anonymous \cup {id}
        /\ complete' = complete \cup {id} /\ status' = status
        /\ past_irobs' = past_irobs /\ dropped_irobs' = dropped_irobs
        /\ pending_irobs' = pending_irobs \cup {id}
    BY DEF DefaultIrob, Link
  <1> HIDE DEF N
  <1>6. inserted \subseteq reach'[id]
    BY <1>1, <1>3 DEF IInv, DominatorsCoverAll, TypeOK
  <1>7. TypeOK'
    BY <1>4, <1>5 DEF IInv, TypeOK
  <1>8. Accounted'
    BY <1>0, <1>3, <1>4, <1>5 DEF IInv, Accounted
  <1>9. LastAnonymous'
    BY <1>0, <1>5, <1>6 DEF IInv, LastAnonymous, Accounted
  <1>10. DominatorsCoverAll'
    BY <1>0, <1>3, <1>5, <1>6 DEF DominatorsCoverAll, Dominators
  <1>11. DominatorsAreMinimal'
    BY <1>5 DEF DominatorsAreMinimal
  <1>12. AnonymousBarrier'
    <2> SUFFICES ASSUME NEW q \in inserted', NEW p \in before'[q],
                        p \in anonymous' \/ q \in anonymous'
                 PROVE  p \in reach'[q]
      BY DEF AnonymousBarrier
    <2>1. CASE q = id
      BY <2>1, <1>3, <1>6
    <2>2. CASE q # id
      <3>1. q \in inserted /\ p \in before[q] /\ p \in inserted
        BY <2>2, <1>3 DEF IInv, KnownDeps
      <3>2. p # id
        BY <3>1, <1>0
      <3>3. QED
        BY <2>2, <3>1, <3>2, <1>3, <1>5 DEF IInv, AnonymousBarrier
    <2>3. QED
      BY <2>1, <2>2
  <1>13. NamedDepsNotDropped'
    BY <1>3, <1>5 DEF IInv, NamedDepsNotDropped, Accounted
  <1>14. QED
    BY <1>4, <1>7, <1>8, <1>9, <1>10, <1>11, <1>12, <1>13 DEF IInv

\* Erasing IROBs keeps the ordering invariants: they do not speak of what is
\* pending.  If the erased IROBs are dropped, it matters that they are closed
\* under dependents.
LEMMA EraseIInv ==
    ASSUME IInv, NEW V \in SUBSET pending_irobs, Erase(V),
           UNCHANGED <<dominators, history>>,
           complete' \subseteq Ids,
           status' \in [Ids -> {"ok", "failed", "blocking"}],
           dropped_irobs' \subseteq dropped_irobs \cup V,
           dropped_irobs' = dropped_irobs \/ ClosedUnderDependents(V)
    PROVE  IInv'
  <1>1. /\ UNCHANGED <<min_dominator_set, last_anon_irob_id, inserted, anonymous,
                       app_deps, before, reach, placeholders, deps, dependents>>
        /\ pending_irobs' = pending_irobs \ V
        /\ past_irobs' = past_irobs \cup V
    BY DEF dominators, history, Erase
  <1>2. TypeOK'
    BY <1>1 DEF IInv, TypeOK, Accounted
  <1>3. Accounted'
    BY <1>1 DEF IInv, Accounted
  <1>4. KnownDeps' /\ ReachIsTransitive' /\ Acyclic'
    BY <1>1 DEF IInv, KnownDeps, ReachIsTransitive, Acyclic
  <1>5. LastAnonymous' /\ DominatorsCoverAll' /\ DominatorsAreMinimal' /\ AnonymousBarrier'
    BY <1>1 DEF IInv, LastAnonymous, DominatorsCoverAll, Dominators,
                DominatorsAreMinimal, AnonymousBarrier
  <1>6. EdgesAgree'
    BY <1>1 DEF IInv, EdgesAgree
  <1>7. NamedDepsNotDropped'
    <2> SUFFICES ASSUME NEW p \in pending_irobs', NEW d \in app_deps[p],
                        d \in dropped_irobs'
                 PROVE  FALSE
      BY <1>1 DEF NamedDepsNotDropped
    <2>1. p \in pending_irobs /\ p \notin V
      BY <1>1
    <2>2. d \notin dropped_irobs
      BY <2>1 DEF IInv, NamedDepsNotDropped
    <2>3. d \in V /\ ClosedUnderDependents(V)
      BY <2>2
    <2>4. d \in deps[p]
      BY <2>1 DEF IInv, KnownDeps, Accounted
    <2>5. p \in dependents[d]
      BY <2>1, <2>3, <2>4 DEF IInv, EdgesAgree
    <2>6. QED
      BY <2>1, <2>3, <2>5 DEF ClosedUnderDependents
  <1>8. QED
    BY <1>2, <1>3, <1>4, <1>5, <1>6, <1>7 DEF IInv

\* drop_irob_and_dependents takes a closed set of IROBs.
LEMMA VictimsClosed ==
    ASSUME NEW id
    PROVE  Victims(id) \subseteq pending_irobs /\ ClosedUnderDependents(Victims(id))
  <1>1. Victims(id) \subseteq pending_irobs
    BY DEF Victims
  <1>2. ASSUME NEW w \in Victims(id), NEW x \in dependents[w] \cap pending_irobs,
               NEW W \in SUBSET pending_irobs, id \in W, ClosedUnderDependents(W)
        PROVE  x \in W
    BY <1>2 DEF Victims, ClosedUnderDependents
  <1>3. QED
    BY <1>1, <1>2 DEF Victims, ClosedUnderDependents

\* One case per action.
LEMMA NextIInv == IInv /\ [Next]_vars => IInv'
  <1> SUFFICES ASSUME IInv, [Next]_vars
               PROVE  IInv'
    OBVIOUS
  <1>1. ASSUME NEW id \in Ids, NEW D \in SUBSET (inserted \cup Foreign), BeginIrob(id, D)
        PROVE  IInv'
    BY <1>1, BeginIrobIInv
  <1>2. ASSUME NEW id \in Ids, DefaultIrob(id)
        PROVE  IInv'
    BY <1>2, DefaultIrobIInv
  <1>3. ASSUME NEW id \in Ids, EndIrob(id)
        PROVE  IInv'
    <2>1. CASE Erase({id})
      <3>1. /\ {id} \in SUBSET pending_irobs
            /\ UNCHANGED <<dominators, history>>
            /\ complete' \subseteq Ids
            /\ status' \in [Ids -> {"ok", "failed", "blocking"}]
            /\ dropped_irobs' = dropped_irobs
        BY <1>3 DEF EndIrob, IInv, TypeOK
      <3>2. QED
        BY <2>1, <3>1, EraseIInv
    <2>2. CASE complete' = complete \cup {id} /\ UNCHANGED <<lattice, past_irobs>>
      <3>1. /\ UNCHANGED <<dominators, history, lattice, past_irobs, dropped_irobs, status>>
            /\ complete' \subseteq Ids
        BY <1>3, <2>2 DEF EndIrob, IInv, TypeOK
      <3>2. QED
        BY <3>1 DEF dominators, history, lattice, IInv, TypeOK, Accounted, KnownDeps,
                    ReachIsTransitive, LastAnonymous, DominatorsCoverAll, Dominators,
                    DominatorsAreMinimal, AnonymousBarrier, Acyclic, EdgesAgree,
                    NamedDepsNotDropped
    <2>3. QED
      BY <1>3, <2>1, <2>2 DEF EndIrob
  <1>4. ASSUME NEW id \in Ids, AckReceived(id)
        PROVE  IInv'
    <2>1. /\ {id} \in SUBSET pending_irobs
          /\ Erase({id})
          /\ UNCHANGED <<dominators, history>>
          /\ complete' \subseteq Ids
          /\ status' \in [Ids -> {"ok", "failed", "blocking"}]
          /\ dropped_irobs' = dropped_irobs
      BY <1>4 DEF AckReceived, IInv, TypeOK
    <2>2. QED
      BY <2>1, EraseIInv
  <1>5. ASSUME NEW id \in Ids, SendFailed(id)
        PROVE  IInv'
    <2>1. CASE Erase(Victims(id)) /\ dropped_irobs' = dropped_irobs \cup Victims(id)
                /\ UNCHANGED status
      <3>1. /\ Victims(id) \in SUBSET pending_irobs
            /\ ClosedUnderDependents(Victims(id))
            /\ UNCHANGED <<dominators, history>>
            /\ complete' \subseteq Ids
            /\ status' \in [Ids -> {"ok", "failed", "blocking"}]
        BY <1>5, <2>1, VictimsClosed DEF SendFailed, IInv, TypeOK
      <3>2. QED
        BY <2>1, <3>1, EraseIInv
    <2>2. CASE UNCHANGED <<lattice, past_irobs, dropped_irobs>>
                /\ \E s \in {"failed", "blocking"} : status' = [status EXCEPT ![id] = s]
      <3>1. /\ UNCHANGED <<dominators, history, lattice, past_irobs, dropped_irobs, complete>>
            /\ status' \in [Ids -> {"ok", "failed", "blocking"}]
        BY <1>5, <2>2 DEF SendFailed, IInv, TypeOK
      <3>2. QED
        BY <3>1 DEF dominators, history, lattice, IInv, TypeOK, Accounted, KnownDeps,
                    ReachIsTransitive, LastAnonymous, DominatorsCoverAll, Dominators,
                    DominatorsAreMinimal, AnonymousBarrier, Acyclic, EdgesAgree,
                    NamedDepsNotDropped
    <2>3. QED
      BY <1>5, <2>1, <2>2 DEF SendFailed
  <1>6. CASE UNCHANGED vars
    BY <1>6 DEF vars, dominators, history, lattice, IInv, TypeOK, Accounted, KnownDeps,
                ReachIsTransitive, LastAnonymous, DominatorsCoverAll, Dominators,
                DominatorsAreMinimal, AnonymousBarrier, Acyclic, EdgesAgree,
                NamedDepsNotDropped
  <1>7. QED
    BY <1>1, <1>2, <1>3, <1>4, <1>5, <1>6 DEF Next

-----------------------------------------------------------------------------
(***************************************************************************)
(* The theorems                                                            *)
(***************************************************************************)

\* The invariant holds always.
LEMMA Invariance == Spec => []IInv
  BY InitIInv, NextIInv, PTL DEF Spec

\* The lattice's variables keep their types: in particular a placeholder is
\* only ever made for a foreign id, never for an IROB of this multisocket.
THEOREM TypeCorrect == Spec => []TypeOK
  <1>1. IInv => TypeOK
    BY DEF IInv
  <1>2. QED
    BY <1>1, Invariance, PTL

\* Anonymous IROBs are ordered with respect to every other IROB, whatever was
\* ACKed, dropped or failed in between (correct_deps, erase_locked).
THEOREM AnonymousIrobsAreBarriers == Spec => []AnonymousBarrier
  <1>1. IInv => AnonymousBarrier
    BY DEF IInv
  <1>2. QED
    BY <1>1, Invariance, PTL

\* min_dominator_set is what its comment says: it covers every prior IROB, and
\* none of its members is covered by another IROB.
THEOREM DominatorSetCorrect == Spec => []MinDominatorSet
  <1>1. IInv => MinDominatorSet
    BY DEF IInv, MinDominatorSet
  <1>2. QED
    BY <1>1, Invariance, PTL

\* The dependency graph the sender puts on the wire has no cycle, so the
\* receiver can always release some IROB.
THEOREM DependenciesAcyclic == Spec => []Acyclic
  <1>1. IInv => Acyclic
    BY DEF IInv
  <1>2. QED
    BY <1>1, Invariance, PTL

\* The dependencies the application named are never dropped under a pending
\* IROB (irob_is_undeliverable, drop_irob_and_dependents).
THEOREM NamedDependenciesSurvive == Spec => []NamedDepsNotDropped
  <1>1. IInv => NamedDepsNotDropped
    BY DEF IInv
  <1>2. QED
    BY <1>1, Invariance, PTL

\* Both directions of the edges agree, whatever has been erased, failed and
\* dropped: drop_irob_and_dependents, which follows the reverse edges, sees every
\* pending dependent of the IROB it drops.
THEOREM EdgesAlwaysAgree == Spec => []EdgesAgree
  <1>1. IInv => EdgesAgree
    BY DEF IInv
  <1>2. QED
    BY <1>1, Invariance, PTL

=============================================================================
