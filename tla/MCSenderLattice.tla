-------------------------- MODULE MCSenderLattice --------------------------
(***************************************************************************)
(* SenderLattice for TLC.                                                  *)
(***************************************************************************)
EXTENDS SenderLattice, TLC

Symmetry == Permutations(Ids)

=============================================================================
