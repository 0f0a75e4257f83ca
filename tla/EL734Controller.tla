--------------------------- MODULE EL734Controller --------------------------
(* One connection to the simulated EL734 motor controller                   *)
(* (el734controller.py).  Every connection has a controller and motors of   *)
(* its own.  A line is handled from beginning to end before the next one is *)
(* looked at, so each action below is the handling of one line; the clock   *)
(* runs between them.                                                       *)
EXTENDS EL734Motor

CONSTANTS
  Motor,             \* the motors' numbers
  Targets,           \* the degrees that "p" and "u" are given
  Limits,            \* the pairs <<low, high>> that "h" is given
  Gears, Speeds,     \* what "fm" and "j" are given, "j" without a check
  RefTargets,        \* the steps that "v" is given
  Faults,            \* the failures that are injected
  MaxTicks           \* bound: the clock stops this many ticks into a drive

ASSUME ControllerAssumption ==
  /\ Targets \subseteq Int
  /\ Limits \subseteq Int \X Int /\ Limits # {}
  /\ Gears \subseteq Nat \ {0} /\ Gears # {}
  /\ Speeds \subseteq Int /\ Speeds # {}
  /\ RefTargets \subseteq Int /\ RefTargets # {}
  /\ Faults \subseteq Failures
  /\ MaxTicks \in Nat

VARIABLES
  session,           \* remotestate: "local", "remote", "host"; "lost" when
                     \* an exception in a handler has ended the connection
  motor              \* the motors of this connection

vars == <<session, motor>>

Ticks == 0 .. MaxTicks

TypeOK ==
  /\ session \in {"local", "remote", "host", "lost"}
  /\ motor \in [Motor -> MotorType(Int, Int, Ticks)]

(* The controller starts with motors its initialisation file has set up.    *)
Init ==
  /\ session = "local"
  /\ motor \in [Motor -> {NewMotor(l[1], l[2], g, s, r) :
                            l \in Limits, g \in Gears, s \in Speeds,
                            r \in RefTargets}]

-----------------------------------------------------------------------------
(* The clock.                                                               *)

Tick ==
  /\ \E n \in Motor : motor[n].moving /\ motor[n].elapsed < MaxTicks
  /\ motor' = [n \in Motor |->
                 IF motor[n].moving /\ motor[n].elapsed < MaxTicks
                   THEN [motor[n] EXCEPT !.elapsed = @ + 1]
                   ELSE motor[n]]
  /\ UNCHANGED session

-----------------------------------------------------------------------------
(* Logging in: any other line is answered "?loc".                           *)

Rmt1 == session = "local" /\ session' = "remote" /\ UNCHANGED motor
Echo0 == session = "remote" /\ session' = "host" /\ UNCHANGED motor

(* An argument that is no number raises ValueError in the handler, which    *)
(* ends the connection.  During a reference run only the limits get so far. *)
BadArgument(n) ==
  /\ session = "host"
  /\ session' = "lost"
  /\ UNCHANGED motor

-----------------------------------------------------------------------------
(* Commands to motor n.                                                     *)

Become(n, m) ==
  /\ session = "host"
  /\ motor' = [motor EXCEPT ![n] = m]
  /\ UNCHANGED session

(* Mutant: a busy motor does not even look at the clock.                    *)
BusyDeaf(n) == motor[n].refrun /\ Become(n, motor[n])

(* setpar() and getpar() answer every command "*BSY" while a reference run  *)
(* is on: they only look at the clock.                                      *)
Busy(n) == motor[n].refrun /\ Become(n, Iterate(motor[n]))

Accept(n, m) == ~motor[n].refrun /\ Become(n, m)

SetSpeed(n, s) == Accept(n, [motor[n] EXCEPT !.speed = s])
SetGear(n, g) == Accept(n, [motor[n] EXCEPT !.gear = g])
SetPosition(n, d) == Accept(n, [motor[n] EXCEPT !.cur = d * motor[n].gear])
SetRefTarget(n, r) == Accept(n, [motor[n] EXCEPT !.reftarget = r])
Drive(n, d) == Accept(n, StartDrive(motor[n], d))
RefRun(n) == Accept(n, DoRefRun(motor[n]))

(* Mutant: limits are set during a reference run, too.                      *)
SetLimitsAnyway(n, l) ==
  Become(n, [motor[n] EXCEPT !.low = l[1], !.high = l[2]])

(* The reply to "h" is the same when setlimits() has answered "*BSY".       *)
SetLimits(n, l) ==
  Accept(n, [motor[n] EXCEPT !.low = l[1], !.high = l[2]])

AskPosition(n) == Accept(n, Iterate(motor[n]))
AskSS(n) == Accept(n, ReadSS(motor[n]))
AskMSR(n) == Accept(n, ReadMSR(motor[n]))

Fail(n, f) == Accept(n, [motor[n] EXCEPT !.fails = @ \cup {f}])
Recover(n) == Accept(n, [motor[n] EXCEPT !.recover = TRUE])

(* "s": refused like any other command during a reference run.              *)
Stop(n) ==
  /\ session = "host"
  /\ motor' = [motor EXCEPT ![n] = IF @.refrun THEN Iterate(@) ELSE Halt(@)]
  /\ UNCHANGED session

(* What a client does again and again: it asks for position and run status. *)
Poll(n) == Busy(n) \/ AskPosition(n) \/ AskMSR(n)

Setting(n) ==
  \/ \E s \in Speeds : SetSpeed(n, s)
  \/ \E g \in Gears : SetGear(n, g)
  \/ \E d \in Targets : SetPosition(n, d)
  \/ \E r \in RefTargets : SetRefTarget(n, r)
  \/ \E l \in Limits : SetLimits(n, l)

Fault(n) == (\E f \in Faults : Fail(n, f)) \/ Recover(n)

Motion(n) == (\E d \in Targets : Drive(n, d)) \/ RefRun(n) \/ Stop(n)

Line(n) ==
  Poll(n) \/ AskSS(n) \/ Setting(n) \/ Fault(n) \/ Motion(n) \/ BadArgument(n)

Next == Tick \/ Rmt1 \/ Echo0 \/ \E n \in Motor : Line(n)

Spec == Init /\ [][Next]_vars

(* The clock runs; a client that is logged in polls its motors.             *)
FairSpec == Spec /\ WF_vars(Tick) /\ \A n \in Motor : WF_vars(Poll(n))

-----------------------------------------------------------------------------
(* Safety.                                                                  *)

OneDriveFlags(m) ==
  /\ m.moving => ~(m.stop \/ m.stopping \/ m.hitlow \/ m.hithigh)
  /\ ~(m.hitlow /\ m.hithigh)

(* The flags a run status reports are those of a drive that is over: while  *)
(* the motor moves none of them is left from an earlier drive, from a stop  *)
(* before it or from its own abortion, and no drive leaves both limit flags *)
(* (el734motor.py:163-259, 291-316).                                        *)
FlagsOfTheLastDrive == \A n \in Motor : OneDriveFlags(motor[n])

HeldByFailure(m) ==
  m.refrun /\ ~m.moving => m.fails \cap {"run", "ac", "start"} # {}

(* A reference run whose motor no longer drives, which no command can end   *)
(* any more, is always the doing of an injected failure: neither a stop,    *)
(* nor a recovery, nor a change of limits, gear or position in any order    *)
(* gets a motor there.  A drive at speed 0 is still a drive                 *)
(* (el734motor.py:185-187, 223-226, 387-389).                               *)
OnlyFailuresHoldARefRun == \A n \in Motor : HeldByFailure(motor[n])

(* While a reference run is on, no command changes what it drives to, nor   *)
(* the limits, nor the failures (el734motor.py:51-53, 87-89, 152-153).      *)
RefRunIsUndisturbed ==
  [][\A n \in Motor : LET m == motor[n] IN
       m.refrun =>
         /\ motor'[n].start = m.start /\ motor'[n].sign = m.sign
         /\ motor'[n].target = m.target /\ motor'[n].tstep = m.tstep
         /\ motor'[n].low = m.low /\ motor'[n].high = m.high
         /\ motor'[n].gear = m.gear /\ motor'[n].speed = m.speed
         /\ motor'[n].fails = m.fails /\ motor'[n].recover = m.recover]_vars

(* A drive that is seen to have arrived has not crossed the limit it drove  *)
(* towards, as that limit is now: limits, gear and speed may have changed   *)
(* under way (el734motor.py:172-181, 191-199).                              *)
ArrivalRespectsTheLimit ==
  [][\A n \in Motor : LET m == motor[n] IN
       m.moving /\ Arrived(m) /\ ~motor'[n].moving /\ motor'[n].stopping =>
         IF m.sign = 1 THEN motor'[n].cur <= m.high * m.gear
                       ELSE motor'[n].cur >= m.low * m.gear]_vars

-----------------------------------------------------------------------------
(* Liveness.                                                                *)

OnlyPolling == Tick \/ \E n \in Motor : Poll(n)

LeftAlone == <>[][OnlyPolling]_vars /\ <>[](session = "host")

(* A motor whose client does nothing but poll comes to rest, whatever       *)
(* failures, limits, gears and stops came before, if its speed is positive: *)
(* "j" takes any number unchecked, and at a speed of 0 or below no drive    *)
(* ever reaches its target (el734motor.py:58-60, 163-209).                  *)
DrivesEnd ==
  LeftAlone =>
    \A n \in Motor : <>[](motor[n].speed > 0) => <>[](~motor[n].moving)

(* So does a reference run, and the motor listens again, unless a failure   *)
(* has been injected; at a speed of 0 or below it goes on, and the motor is *)
(* busy, for the rest of the connection (el734motor.py:58-60, 185-187,      *)
(* 281-290).                                                                *)
UnfailedRefRunsEnd ==
  LeftAlone =>
    \A n \in Motor :
      <>[](motor[n].speed > 0) =>
        <>[](motor[n].refrun => motor[n].fails \cap {"run", "ac", "start"} # {})

(* A reference run ends whatever happens to it: a failure ends it, too, and *)
(* can be read (el734motor.py:274, 185-187).                                *)
RefRunsEnd == LeftAlone => \A n \in Motor : <>[](~motor[n].refrun)

=============================================================================
