---------------------------- MODULE MCSenderIROB ----------------------------
(***************************************************************************)
(* SenderIROB for TLC.  The csockets are interchangeable.                  *)
(***************************************************************************)
EXTENDS SenderIROB, TLC

Symmetry == Permutations(CSocks)

=============================================================================
