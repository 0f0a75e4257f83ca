------------------------- MODULE CommandlineControl -------------------------
(* The run-time control of the event generator (control.hpp).  One thread,  *)
(* the main thread, reads words from standard input and stores what they    *)
(* ask for into two cells every other thread reads: the atomic status and   *)
(* the transmission rate.  A word that is no command changes nothing; it is *)
(* a stuttering step.  So is standard input at its end: the last word is    *)
(* then seen again and again.                                               *)
EXTENDS Integers

CONSTANTS
  Words,       \* the command words that may be typed
  Rates        \* the numbers that may be typed after "rate"

Statuses == {"run", "pause", "stop", "exit"}

VARIABLES
  status,      \* CommandlineControl::status
  rate,        \* Configuration::rate
  main         \* what the main thread does: "words" and "rate" while update()
               \* waits for a word or for the argument of "rate", "join" when
               \* update() has returned, "unwind" when it has thrown,
               \* "returned" when Generator::run() is over

ctlVars == <<status, rate, main>>

CtlTypeOK ==
  /\ status \in Statuses
  /\ rate \in Rates
  /\ main \in {"words", "rate", "join", "unwind", "returned"}

(* The generator is built with a validated configuration, in status stop.   *)
CtlInit ==
  /\ status = "stop"
  /\ rate \in {r \in Rates : r > 0}
  /\ main = "words"

(* run, pause, stop and exit store the status; exit also ends the loop.     *)
ReadStatus(w) ==
  /\ main = "words"
  /\ w \in Words \ {"rate"}
  /\ status' = w
  /\ main' = IF w = "exit" THEN "join" ELSE "words"
  /\ UNCHANGED rate

ReadRate ==
  /\ main = "words"
  /\ "rate" \in Words
  /\ main' = "rate"
  /\ UNCHANGED <<status, rate>>

(* The argument is stored as it is: nothing asks whether it is positive.    *)
ReadArgument(r) ==
  /\ main = "rate"
  /\ rate' = r
  /\ main' = "words"
  /\ UNCHANGED status

(* std::stoi throws when the argument is not a number, does not fit an int  *)
(* or is missing, and nothing in update_impl catches it.                    *)
ReadBadArgument ==
  /\ main = "rate"
  /\ main' = "unwind"
  /\ UNCHANGED <<status, rate>>

UpdateStep ==
  \/ \E w \in Statuses : ReadStatus(w)
  \/ ReadRate
  \/ \E r \in Rates : ReadArgument(r)
  \/ ReadBadArgument

=============================================================================
