--------------------------- MODULE MCChopperFacade --------------------------
(* The instance of ChopperFacade in which replies are torn.                 *)
EXTENDS ChopperFacade

CONSTANTS c1, c2

PhaseOfTheSlave == {<<c2, "Phs">>}
=============================================================================
