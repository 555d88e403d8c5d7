--------------------------- MODULE SenderLattice ---------------------------
(***************************************************************************)
(* The sender's outgoing_irobs: a PendingIROBLattice in which dependencies *)
(* are inferred (infer_deps = true).                                       *)
(*                                                                         *)
(* The application opens IROBs with the dependencies it names (begin_irob) *)
(* or sends a whole buffer as an "anonymous" IROB (send, writev), which    *)
(* must behave like a byte stream: it comes after everything before it and *)
(* before everything after it.  The lattice gets that ordering from two    *)
(* pieces of state only, last_anon_irob_id and min_dominator_set.          *)
(*                                                                         *)
(* IROB ids are allocated under hashmaps_mutex and inserted later under    *)
(* scheduling_state_lock, so ids may be inserted in any order: an id is    *)
(* an element of Ids, without an order.                                    *)
(***************************************************************************)
EXTENDS FiniteSets

CONSTANTS Ids,      \* ids of the IROBs of this multisocket
          Foreign,  \* ids an application may name that are no IROB of this multisocket
          NoIrob    \* "no anonymous IROB yet" (-1 in the code)

ASSUME IdsAssumption ==
    /\ Ids \cap Foreign = {}
    /\ NoIrob \notin Ids \cup Foreign

AllIds == Ids \cup Foreign

VARIABLES
    pending_irobs,      \* real (not placeholder) IROBs in the lattice
    placeholders,       \* ids held only to collect dependents
    deps,               \* deps of each IROB, as sent in its Begin_IROB
    dependents,         \* the reverse edges, kept by IROBs that are pending
    complete,           \* the application has ended the IROB
    status,             \* what end_irob reports of a failed transmission
    min_dominator_set,
    last_anon_irob_id,
    past_irobs,         \* erased: ACKed, failed or dropped
    dropped_irobs,
    inserted,           \* history: every IROB ever accepted
    anonymous,          \* history: the anonymous ones among them
    app_deps,           \* history: the dependencies the application named
    before,             \* history: the IROBs accepted before this one
    reach               \* history: everything the IROB depends on, transitively

lattice == <<pending_irobs, placeholders, deps, dependents>>
dominators == <<min_dominator_set, last_anon_irob_id>>
history == <<inserted, anonymous, app_deps, before, reach>>
vars == <<lattice, dominators, complete, status, past_irobs,
          dropped_irobs, history>>

TypeOK ==
    /\ pending_irobs \subseteq Ids
    /\ placeholders \subseteq Foreign
    /\ deps \in [Ids -> SUBSET AllIds]
    /\ dependents \in [AllIds -> SUBSET Ids]
    /\ complete \subseteq Ids
    /\ status \in [Ids -> {"ok", "failed", "blocking"}]
    /\ min_dominator_set \subseteq Ids
    /\ last_anon_irob_id \in Ids \cup {NoIrob}
    /\ past_irobs \subseteq Ids
    /\ dropped_irobs \subseteq Ids
    /\ inserted \subseteq Ids
    /\ anonymous \subseteq Ids
    /\ app_deps \in [Ids -> SUBSET AllIds]
    /\ before \in [Ids -> SUBSET Ids]
    /\ reach \in [Ids -> SUBSET AllIds]

Init ==
    /\ pending_irobs = {} /\ placeholders = {}
    /\ deps = [i \in Ids |-> {}]
    /\ dependents = [i \in AllIds |-> {}]
    /\ complete = {}
    /\ status = [i \in Ids |-> "ok"]
    /\ min_dominator_set = {}
    /\ last_anon_irob_id = NoIrob
    /\ past_irobs = {} /\ dropped_irobs = {}
    /\ inserted = {} /\ anonymous = {}
    /\ app_deps = [i \in Ids |-> {}]
    /\ before = [i \in Ids |-> {}]
    /\ reach = [i \in Ids |-> {}]

-----------------------------------------------------------------------------
(***************************************************************************)
(* correct_deps: what the lattice adds to the dependencies the application *)
(* named, and what becomes of min_dominator_set.                           *)
(***************************************************************************)

\* A mistake to rule out: last_anon_irob_id is used before there is one.
AnonymousDepsUnchecked ==
    IF min_dominator_set = {} THEN {last_anon_irob_id} ELSE min_dominator_set

AnonymousDeps ==
    IF last_anon_irob_id # NoIrob /\ min_dominator_set = {}
    THEN {last_anon_irob_id}
    ELSE min_dominator_set

\* A mistake to rule out: the last anonymous IROB is no barrier.
NamedDepsAlone(D) == D

NamedDeps(D) ==
    IF last_anon_irob_id # NoIrob /\ D \cap min_dominator_set = {}
    THEN D \cup {last_anon_irob_id}
    ELSE D

\* A mistake to rule out: a named IROB is taken to dominate all before it.
UndominatedNone(D) == {}

\* The dominators a named IROB with dependencies D leaves in place.
Undominated(D) == min_dominator_set \ D

\* A mistake to rule out: the reverse edges are left to be made by placeholders.
LinkOneWay(id, D) ==
    LET live == D \ past_irobs IN
    /\ pending_irobs' = pending_irobs \cup {id}
    /\ placeholders' = placeholders \cup (live \ pending_irobs)
    /\ deps' = [deps EXCEPT ![id] = D]
    /\ dependents' = [d \in AllIds |-> IF d \in live \ pending_irobs
                                       THEN dependents[d] \cup {id}
                                       ELSE dependents[d]]

\* insert_locked, once correct_deps has settled the dependencies D of id: the
\* IROB becomes a dependent of every dependency that is not already past, and
\* a placeholder is made for a dependency the lattice has never seen.
Link(id, D) ==
    LET live == D \ past_irobs IN
    /\ pending_irobs' = pending_irobs \cup {id}
    /\ placeholders' = placeholders \cup (live \ pending_irobs)
    /\ deps' = [deps EXCEPT ![id] = D]
    /\ dependents' = [d \in AllIds |-> IF d \in live
                                       THEN dependents[d] \cup {id}
                                       ELSE dependents[d]]

Record(id, D, named) ==
    /\ inserted' = inserted \cup {id}
    /\ app_deps' = [app_deps EXCEPT ![id] = named]
    /\ before' = [before EXCEPT ![id] = inserted]
    /\ reach' = [reach EXCEPT ![id] =
                    D \cup UNION {reach[d] : d \in D \cap Ids}]

\* A mistake to rule out: an id may come again after its IROB has been erased.
InsertableAgain(id) == id \notin pending_irobs

\* insert refuses an id that is pending or past.
Insertable(id) == id \notin pending_irobs \cup past_irobs

\* A mistake to rule out: only IROBs still in the lattice are looked at.
UndeliverableIfPending(D) == D \cap dropped_irobs \cap pending_irobs # {}

\* irob_is_undeliverable, asked of the dependencies the application named.
Undeliverable(D) == D \cap dropped_irobs # {}

(***************************************************************************)
(* begin_irob: an IROB with the dependencies D the application names.  It  *)
(* can only name ids that begin_irob has returned, or foreign ones.        *)
(***************************************************************************)
BeginIrob(id, D) ==
    /\ Insertable(id)
    /\ ~Undeliverable(D)
    /\ Link(id, NamedDeps(D))
    /\ min_dominator_set' = Undominated(D) \cup {id}
    /\ Record(id, NamedDeps(D), D)
    /\ UNCHANGED <<last_anon_irob_id, anonymous, complete, status,
                   past_irobs, dropped_irobs>>

(***************************************************************************)
(* default_irob and send_default_irob: an anonymous IROB, complete from    *)
(* the start.                                                              *)
(***************************************************************************)
DefaultIrob(id) ==
    /\ Insertable(id)
    /\ Link(id, AnonymousDeps)
    /\ min_dominator_set' = {}
    /\ last_anon_irob_id' = id
    /\ complete' = complete \cup {id}
    /\ anonymous' = anonymous \cup {id}
    /\ Record(id, AnonymousDeps, {})
    /\ UNCHANGED <<status, past_irobs, dropped_irobs>>

-----------------------------------------------------------------------------
(***************************************************************************)
(* Leaving the lattice.  At the sender an erased IROB leaves min_dominator *)
(* _set and the deps of its dependents alone: the receiver needs them.     *)
(***************************************************************************)

Erase(V) ==
    /\ pending_irobs' = pending_irobs \ V
    /\ past_irobs' = past_irobs \cup V
    /\ UNCHANGED <<placeholders, deps, dependents>>

\* The IROBs drop_irob_and_dependents reaches from id: the least set of
\* pending IROBs that holds id and is closed under dependents.  The search
\* stops at an IROB that is no longer in the lattice.
ClosedUnderDependents(W) ==
    \A w \in W : dependents[w] \cap pending_irobs \subseteq W

Victims(id) ==
    {v \in pending_irobs :
        \A W \in SUBSET pending_irobs :
            id \in W /\ ClosedUnderDependents(W) => v \in W}

\* ack_received and remove_if_unneeded: an ACK for an IROB the application has
\* not ended yet only sets a flag, which the next ACK reads.
AckReceived(id) ==
    /\ id \in pending_irobs \cap complete
    /\ Erase({id})
    /\ UNCHANGED <<dominators, complete, status, dropped_irobs, history>>

\* delegate_if_necessary when no network suits an IROB: a complete one is
\* dropped, one the application is still filling is given a status for
\* end_irob to report.
SendFailed(id) ==
    /\ id \in pending_irobs
    /\ \/ /\ id \in complete
          /\ Erase(Victims(id))
          /\ dropped_irobs' = dropped_irobs \cup Victims(id)
          /\ UNCHANGED status
       \/ /\ id \notin complete
          /\ \E s \in {"failed", "blocking"} : status' = [status EXCEPT ![id] = s]
          /\ UNCHANGED <<lattice, past_irobs, dropped_irobs>>
    /\ UNCHANGED <<dominators, complete, history>>

\* end_irob completes the IROB; if its transmission has failed, or is blocked
\* and no network comes up in time, it erases the IROB instead.
EndIrob(id) ==
    /\ id \in pending_irobs \ complete
    /\ \/ /\ status[id] # "failed"
          /\ complete' = complete \cup {id}
          /\ UNCHANGED <<lattice, past_irobs>>
       \/ /\ status[id] # "ok"
          /\ Erase({id})
          /\ UNCHANGED complete
    /\ UNCHANGED <<dominators, status, dropped_irobs, history>>

Next ==
    \E id \in Ids :
        \/ \E D \in SUBSET (inserted \cup Foreign) : BeginIrob(id, D)
        \/ DefaultIrob(id)
        \/ EndIrob(id)
        \/ AckReceived(id)
        \/ SendFailed(id)

Spec == Init /\ [][Next]_vars

-----------------------------------------------------------------------------
(***************************************************************************)
(* Properties                                                              *)
(***************************************************************************)

\* Anonymous IROBs are barriers: of two IROBs one of which is anonymous, the
\* later one depends, transitively, on the earlier one (irob_lattice.txt).  It
\* must survive ACKs, drops and failed IROBs, since the receiver may not have
\* delivered an IROB the sender has forgotten.
AnonymousBarrier ==
    \A q \in inserted : \A p \in before[q] :
        p \in anonymous \/ q \in anonymous => p \in reach[q]

Dominators ==
    IF min_dominator_set = {} /\ last_anon_irob_id # NoIrob
    THEN {last_anon_irob_id}
    ELSE min_dominator_set

DominatorsCoverAll ==
    \A p \in inserted : p \in Dominators \/ \E m \in Dominators : p \in reach[m]

DominatorsAreMinimal ==
    \A m \in min_dominator_set : \A q \in inserted : m \notin reach[q]

\* The comment on min_dominator_set: an IROB that depended on all of the set
\* would depend on every prior IROB; when the set is empty the last anonymous
\* IROB alone has this property.  And the set is minimal: nothing depends on
\* one of its members, so none of them could be left out.
MinDominatorSet == DominatorsCoverAll /\ DominatorsAreMinimal

\* No pending IROB has a dependency the application named that was dropped:
\* begin_irob refuses it if it was dropped before, drop_irob_and_dependents
\* takes the IROB with it if it is dropped later.
NamedDepsNotDropped ==
    \A p \in pending_irobs : app_deps[p] \cap dropped_irobs = {}

\* No IROB comes to depend on itself, which would keep it from ever being
\* delivered; reach, in which this is stated, is what the deps put on the wire
\* add up to.
Acyclic ==
    \A p \in inserted :
        /\ p \notin reach[p]
        /\ reach[p] = deps[p] \cup UNION {reach[d] : d \in deps[p] \cap Ids}

\* The edges are kept in both directions: an IROB is listed as a dependent of
\* each of its dependencies that is still in the lattice.
EdgesAgree ==
    \A p \in pending_irobs :
        \A d \in deps[p] \cap (pending_irobs \cup placeholders) : p \in dependents[d]

=============================================================================
