------------------------------- MODULE Dimetix ------------------------------
(* The simulated laser distance measurement (dimetix.py).  Its two          *)
(* variables are global to the process: all connections share them.         *)
EXTENDS Sequences

CONSTANT Distance      \* the values that "setval" is given

Lasers == [laseron : BOOLEAN, Readback : Distance \cup {22}]
NewLaser == [laseron |-> FALSE, Readback |-> 22]

Reply(laser, answer) == [server |-> laser, answers |-> <<answer>>, lost |-> FALSE]

(* Mutant: it measures all the same.                                        *)
MeasureAnyway(laser) == Reply(laser, <<"g0g", laser.Readback>>)

(* "s0g" measures only while the laser is on.                               *)
Measure(laser) ==
  Reply(laser, IF laser.laseron THEN <<"g0g", laser.Readback>> ELSE <<"@E213">>)

LineReceived(laser, line) ==
  CASE line[1] = "s0o" -> Reply([laser EXCEPT !.laseron = TRUE], <<"g0?">>)
    [] line[1] = "s0p" -> Reply([laser EXCEPT !.laseron = FALSE], <<"g0?">>)
    [] line[1] = "s0g" -> Measure(laser)
    [] line[1] = "setval" -> Reply([laser EXCEPT !.Readback = line[2]], <<"g0?">>)
    [] line[1] = "malformed" ->
         [server |-> laser, answers |-> <<>>, lost |-> TRUE]
    [] line[1] = "unknown" -> Reply(laser, <<"@E203">>)
=============================================================================
