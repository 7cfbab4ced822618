------------------------- MODULE MCSeaBreezeWrapper -------------------------
(* An instance of SeaBreezeWrapper for TLC.                                *)
EXTENDS SeaBreezeWrapper

CONSTANTS p1, p2

TwoProducts == {p1, p2}
TwoTypes == <<p1, p2>>
ThreeLocations == 1 .. 3

(* The program starts with a device at the first location and one of the   *)
(* first type at the second.                                               *)
MCInit ==
  /\ WrapperInit
  /\ attached[1] # NoProduct /\ attached[2] = p1 /\ attached[3] = NoProduct

MCSpec == MCInit /\ [][WrapperNext]_vars
=============================================================================
