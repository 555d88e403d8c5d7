------------------------- MODULE MCReceiverLattice -------------------------
(***************************************************************************)
(* ReceiverLattice for TLC: two IROBs of one chunk and one of two, under   *)
(* every graph of dependencies without cycles.                             *)
(***************************************************************************)
EXTENDS ReceiverLattice, TLC

CONSTANTS i1, i2, i3

MCIds == {i1, i2, i3}
MCSize == i1 :> 2 @@ i2 :> 1 @@ i3 :> 1

=============================================================================
