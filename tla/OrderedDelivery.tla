-------------------------- MODULE OrderedDelivery --------------------------
(***************************************************************************)
(* What the receiving end of a multisocket promises the application: the   *)
(* units of data of each IROB are handed over in order and exactly once,   *)
(* IROBs are not interleaved, and no IROB is started before the ones it    *)
(* depends on have been handed over completely (irob_lattice.txt).         *)
(***************************************************************************)
EXTENDS Naturals

CONSTANTS Ids,      \* the IROBs sent on the multisocket
          Size      \* how many units of data (bytes) each of them has

VARIABLES depends,  \* which IROBs each IROB depends on
          taken     \* how many units of each IROB the application has read

vars == <<depends, taken>>

Delivered == {id \in Ids : taken[id] = Size[id]}

Init ==
    /\ depends \in [Ids -> SUBSET Ids]
    /\ taken = [id \in Ids |-> 0]

\* The application takes the next n units of IROB id.
Take(id, n) ==
    /\ depends[id] \subseteq Delivered
    /\ \A other \in Ids \ {id} : taken[other] \in {0, Size[other]}
    /\ taken[id] + n <= Size[id]
    /\ taken' = [taken EXCEPT ![id] = @ + n]
    /\ UNCHANGED depends

Next == \E id \in Ids : \E n \in 1..Size[id] : Take(id, n)

Spec == Init /\ [][Next]_vars

=============================================================================
