------------------------------- MODULE Magnets ------------------------------
(* The simulated magnet power supplies (SLSVME.py, Magnet.py).  The magnets *)
(* belong to the protocol object, that is to one connection.  A line gets   *)
(* one answer, unless it has too few words or no number where one is        *)
(* needed: the exception then ends the connection.                          *)
EXTENDS Integers, Sequences

CONSTANTS
  Magnet,          \* the numbers of the magnets
  Limit,           \* of each magnet the limit of its current, either way
  Current          \* the currents that are set

Magnets == [Magnet -> [onoff : {"on", "off"}, cur : Current \cup {0}]]

WithinLimits(magnets) ==
  \A n \in Magnet : magnets[n].cur \in -Limit[n] .. Limit[n]

NewMagnets == [n \in Magnet |-> [onoff |-> "off", cur |-> 0]]

Reply(magnets, answer) == [server |-> magnets, answers |-> <<answer>>, lost |-> FALSE]

(* "r n par"                                                                *)
Parameters(m, n) ==
  [cur |-> m.cur, onoff |-> m.onoff, hl |-> Limit[n], ll |-> -Limit[n],
   err |-> 0, errtext |-> "NO"]

(* Mutant: the number is not repeated in the answer.                        *)
DoReadUnnumbered(magnets, n, par) ==
  Reply(magnets, <<"read", CHOOSE k \in Magnet : TRUE, par, Parameters(magnets[n], n)[par]>>)

DoRead(magnets, n, par) ==
  Reply(magnets, <<"read", n, par, Parameters(magnets[n], n)[par]>>)

(* "w n on" and "w n off": the current stays what it was.                   *)
DoSwitch(magnets, n, onoff) ==
  Reply([magnets EXCEPT ![n].onoff = onoff], <<"OK">>)

(* Mutant: a current that exceeds the limits is passed over with OK.        *)
SetCurQuietly(magnets, n, v) ==
  Reply(IF v \in -Limit[n] .. Limit[n] /\ magnets[n].onoff = "on"
          THEN [magnets EXCEPT ![n].cur = v] ELSE magnets, <<"OK">>)

(* Mutant: a current is limited in one direction only.                      *)
SetCurLimited(magnets, n, v) ==
  IF v < -Limit[n] THEN Reply(magnets, <<"ERROR">>)
  ELSE Reply(IF magnets[n].onoff = "on"
               THEN [magnets EXCEPT ![n].cur = v] ELSE magnets, <<"OK">>)

(* "w n cur v": a magnet that is off says OK and stays as it is.            *)
SetCur(magnets, n, v) ==
  IF v \notin -Limit[n] .. Limit[n] THEN Reply(magnets, <<"ERROR">>)
  ELSE Reply(IF magnets[n].onoff = "on"
               THEN [magnets EXCEPT ![n].cur = v] ELSE magnets, <<"OK">>)

LineReceived(magnets, line) ==
  CASE line[1] = "r" -> DoRead(magnets, line[2], line[3])
    [] line[1] = "switch" -> DoSwitch(magnets, line[2], line[3])
    [] line[1] = "cur" -> SetCur(magnets, line[2], line[3])
    [] line[1] = "unknown" -> Reply(magnets, <<"ERROR">>)
    [] line[1] = "malformed" ->
         [server |-> magnets, answers |-> <<>>, lost |-> TRUE]
=============================================================================
