------------------------------- MODULE Count -------------------------------
(* What a counter box promises of a count, whoever steers it.  Every second *)
(* since a count was begun is told apart once: it has been counted, it was  *)
(* lost to a pause, or it belongs to the pause that is on.  The count is    *)
(* full when its goal has been counted.  Nothing is reckoned from stamps    *)
(* here: the parts grow by the second.                                      *)
(*                                                                          *)
(* Three quirks of the box are part of the promise.  A pause is only lost   *)
(* from the last request on: a request to pause during a pause counts the   *)
(* time since the one before (el737counter.py:173-176).  A count that is    *)
(* over still has its clock, and a request to pause takes it up again.  And *)
(* what is shown during a pause, or of a broken count, is not the time      *)
(* counted alone (el737counter.py:168, 239-246).                            *)
EXTENDS Naturals

VARIABLES
  phase,           \* "on", "full" or "broken"
  held,            \* a pause is on
  counted,         \* the time that has been counted
  lost,            \* the time of the pauses that are over
  pause,           \* the time since the last request to pause
  goal,            \* the time that is to be counted
  shown            \* the time that the box shows

vars == <<phase, held, counted, lost, pause, goal, shown>>

Init ==
  /\ phase = "broken" /\ ~held
  /\ counted = 0 /\ lost = 0 /\ pause = 0
  /\ goal = 0 /\ shown = 0

Begin ==
  /\ phase' = "on" /\ held' = FALSE
  /\ counted' = 0 /\ lost' = 0 /\ pause' = 0
  /\ goal' \in Nat /\ shown' = 0

Second ==
  /\ counted' = IF held THEN counted ELSE counted + 1
  /\ pause' = IF held THEN pause + 1 ELSE pause
  /\ shown' = IF phase = "on" /\ ~held THEN counted' ELSE shown
  /\ UNCHANGED <<phase, held, lost, goal>>

Hold ==
  /\ phase' = "on" /\ held' = TRUE
  /\ counted' = counted + pause
  /\ pause' = 0
  /\ shown' = counted' + lost
  /\ UNCHANGED <<lost, goal>>

Resume ==
  /\ held
  /\ held' = FALSE
  /\ lost' = lost + pause /\ pause' = 0
  /\ shown' = IF phase = "on" THEN counted ELSE shown
  /\ UNCHANGED <<phase, counted, goal>>

(* The clock of a full count may forget the pauses.                         *)
Finish ==
  /\ phase = "on" /\ ~held
  /\ counted >= goal
  /\ phase' = "full"
  /\ shown' = goal
  /\ lost' \in {0, lost} /\ counted' + lost' = counted + lost
  /\ UNCHANGED <<held, pause, goal>>

(* A count is stopped or fails.                                             *)
Break ==
  /\ phase' = "broken"
  /\ shown' = counted + lost + pause
  /\ UNCHANGED <<held, counted, lost, pause, goal>>

(* The goal of a count is read in another unit.                             *)
Reread ==
  /\ goal' \in Nat /\ goal' >= goal
  /\ UNCHANGED <<phase, held, counted, lost, pause, shown>>

Next == Begin \/ Second \/ Hold \/ Resume \/ Finish \/ Break \/ Reread

Spec == Init /\ [][Next]_vars

=============================================================================
