--------------------------- MODULE MCIROBTransfer ---------------------------
(***************************************************************************)
(* IROBTransfer for TLC.  The csockets are interchangeable, which may be   *)
(* used when only safety is checked.                                       *)
(***************************************************************************)
EXTENDS IROBTransfer, TLC

Symmetry == Permutations(CSocks)

=============================================================================
