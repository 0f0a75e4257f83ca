------------------------- MODULE MCEL734Controller --------------------------
(* The instances of EL734Controller that TLC checks.                        *)
EXTENDS EL734Controller

CONSTANT m1

NearTargets == {-30, 30}
OneLimit == {<<-20, 20>>}
TwoLimits == {<<-20, 20>>, <<0, 30>>}
NullPoint == {20}
NullPoints == {-30, 20}
=============================================================================
