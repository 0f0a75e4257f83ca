----------------------------- MODULE EL734Motor -----------------------------
(* One simulated EL734 motor (el734motor.py) as a record and the methods of *)
(* its class as operators from record to record.  The motor has no thread   *)
(* of its own: a drive advances when a command makes it look at the clock   *)
(* (iterate).  "elapsed" stands for time.time() - starttime in clock ticks  *)
(* and is kept at 0 while the motor does not move, when nothing reads it.   *)
(* Positions are in motor steps (cur, start, tstep, reftarget) and in       *)
(* degrees (target, low, high); gear converts.                              *)
EXTENDS Integers

Failures == {"ac", "run", "pos", "start", "hw", "mispos", "read", "limit"}

(* iterate steps this far back from a limit it has hit.                     *)
LimitOffset == 10

MotorType(Steps, Degrees, Ticks) ==
  [cur : Steps, start : Steps, tstep : Steps, reftarget : Steps,
   target : Degrees, low : Degrees, high : Degrees,
   gear : Nat \ {0}, speed : Int, sign : {-1, 1}, elapsed : Ticks,
   moving : BOOLEAN, refrun : BOOLEAN, stop : BOOLEAN, stopping : BOOLEAN,
   hitlow : BOOLEAN, hithigh : BOOLEAN,
   fails : SUBSET Failures, recover : BOOLEAN]

NewMotor(low, high, gear, speed, reftarget) ==
  [cur |-> 0, start |-> 0, tstep |-> 0, reftarget |-> reftarget,
   target |-> 0, low |-> low, high |-> high,
   gear |-> gear, speed |-> speed, sign |-> 1, elapsed |-> 0,
   moving |-> FALSE, refrun |-> FALSE, stop |-> FALSE, stopping |-> FALSE,
   hitlow |-> FALSE, hithigh |-> FALSE, fails |-> {}, recover |-> FALSE]

-----------------------------------------------------------------------------
(* iterate()                                                                *)

Standstill(m) == [m EXCEPT !.moving = FALSE, !.elapsed = 0]

Reckoned(m) == m.start + m.sign * m.elapsed * m.speed

Arrived(m) ==
  IF m.sign = 1 THEN Reckoned(m) >= m.tstep ELSE Reckoned(m) <= m.tstep

HitsHigh(m) == m.sign = 1 /\ m.target > m.high
HitsLow(m) == m.sign = -1 /\ m.target < m.low

(* Mutants: the limits are forgotten; a reference run is not ended.         *)
ArriveAnyway(m) ==
  [Standstill(m) EXCEPT !.refrun = FALSE, !.stopping = TRUE,
                        !.cur = m.target * m.gear]

ArriveBusy(m) ==
  [Standstill(m) EXCEPT !.stopping = TRUE, !.cur = m.target * m.gear]

(* The limits are looked at when the drive is over, not on the way.         *)
Arrive(m) ==
  [Standstill(m) EXCEPT
     !.refrun = FALSE,
     !.stopping = TRUE,
     !.hithigh = @ \/ HitsHigh(m),
     !.hitlow = @ \/ HitsLow(m),
     !.cur = IF HitsHigh(m) THEN m.high * m.gear - LimitOffset
             ELSE IF HitsLow(m) THEN m.low * m.gear + LimitOffset
             ELSE m.target * m.gear]

(* Mutant: a failure is flagged and the motor goes on.                      *)
AdvanceOn(m) ==
  [m EXCEPT !.cur = Reckoned(m),
            !.stopping = @ \/ m.fails \cap {"run", "ac"} # {}]

(* A run or air cushion failure ends the drive where it is, but not a       *)
(* reference run that the drive belongs to.                                 *)
Advance(m) ==
  LET there == [m EXCEPT !.cur = Reckoned(m)] IN
  IF m.fails \cap {"run", "ac"} # {}
    THEN [Standstill(there) EXCEPT !.stopping = TRUE]
    ELSE there

Iterate(m) ==
  IF ~m.moving THEN m
  ELSE LET now == IF Arrived(m) THEN Arrive(m) ELSE Advance(m) IN
       IF m.stop THEN [Standstill(now) EXCEPT !.refrun = FALSE] ELSE now

-----------------------------------------------------------------------------
(* startdrive(), dorefrun() and the stop command                            *)

Recovered(m) == [m EXCEPT !.fails = {}, !.recover = FALSE]

(* A position failure makes the motor drive to 0.9 of the target.           *)
DriveTarget(m, target) ==
  IF m.fails \cap {"pos", "hw", "mispos"} # {} /\ ~m.recover
    THEN (target * 9) \div 10
    ELSE target

(* Mutant: a motor that is there already has no direction.                  *)
DirectionOrNone(m, target) ==
  IF target * m.gear < m.cur THEN -1
  ELSE IF target * m.gear > m.cur THEN 1 ELSE 0

Direction(m, target) == IF target * m.gear < m.cur THEN -1 ELSE 1

StartDrive(m, wanted) ==
  LET target == DriveTarget(m, wanted)
      started ==
        [m EXCEPT
           !.start = m.cur, !.elapsed = 0,
           !.target = target, !.tstep = target * m.gear,
           !.sign = Direction(m, target),
           !.moving = TRUE, !.refrun = FALSE,
           !.stop = FALSE, !.stopping = FALSE,
           !.hitlow = FALSE, !.hithigh = FALSE]
  IN IF "start" \in m.fails /\ ~m.recover
       THEN [Standstill(m) EXCEPT !.stop = TRUE]
       ELSE IF m.recover THEN Recovered(started) ELSE started

(* The reference run is marked whether or not the drive has started.        *)
DoRefRun(m) == [StartDrive(m, m.reftarget \div m.gear) EXCEPT !.refrun = TRUE]

Halt(m) == Iterate([m EXCEPT !.stop = TRUE])

-----------------------------------------------------------------------------
(* calcmsr() and calcss(): reading the run status also clears flags.        *)

MSRFailures == {"run", "start", "pos", "hw", "mispos", "ac"}

AtTarget(m) == m.stopping /\ m.cur = m.tstep

ReadMSR(m) ==
  LET now == Iterate(m) IN
  [now EXCEPT
     !.stopping = @ /\ ~AtTarget(now),
     !.stop = FALSE, !.hitlow = FALSE, !.hithigh = FALSE,
     !.fails = IF now.recover THEN @ \ MSRFailures ELSE @]

ReadSS(m) == Iterate(m)

=============================================================================
