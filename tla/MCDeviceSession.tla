--------------------------- MODULE MCDeviceSession --------------------------
(* The instance of DeviceSession that TLC checks: two magnets with their    *)
(* limits, the SPS with two buttons and one that does nothing, and the      *)
(* laser.                                                                   *)
EXTENDS DeviceSession, TLC

AllKinds == {"magnets", "sps", "laser"}
TwoMagnets == {1, 2}
TheirLimits == (1 :> 1) @@ (2 :> 2)

TheScans ==
  [magnets |-> {<<"r", 1, "cur">>, <<"r", 1, "hl">>, <<"r", 2, "cur">>},
   sps |-> {<<"r">>, <<"a">>},
   laser |-> {<<"s0g">>}]

TheWrites ==
  [magnets |-> {<<"switch", 1, "on">>, <<"switch", 1, "off">>}
                 \cup {<<"cur", 1, 1>>, <<"cur", 1, 2>>, <<"cur", 2, 2>>},
   sps |-> {},
   laser |-> {<<"s0o">>, <<"s0p">>, <<"setval", 7>>}]

TheTypos ==
  [magnets |-> {<<"unknown">>, <<"malformed">>},
   sps |-> {<<"short">>, <<"malformed">>, <<"other">>, <<"s", "s0123">>},
   laser |-> {<<"unknown">>, <<"malformed">>}]
=============================================================================
