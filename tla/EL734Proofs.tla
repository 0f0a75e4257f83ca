----------------------------- MODULE EL734Proofs -----------------------------
(* What is proved of the motor controller for any motors, limits, gears,    *)
(* speeds, targets and failures.                                            *)
EXTENDS EL734Controller, TLAPS

MType == MotorType(Int, Int, Ticks)

-----------------------------------------------------------------------------
(* The methods of a motor keep its type.                                    *)

LEMMA TicksType == 0 \in Ticks /\ \A k \in Ticks : k \in Int
BY ControllerAssumption DEF Ticks

LEMMA Fields ==
  ASSUME NEW m \in MType
  PROVE  /\ m.cur \in Int /\ m.start \in Int /\ m.tstep \in Int
         /\ m.reftarget \in Int /\ m.target \in Int
         /\ m.low \in Int /\ m.high \in Int
         /\ m.gear \in Nat \ {0} /\ m.speed \in Int /\ m.sign \in {-1, 1}
         /\ m.elapsed \in Ticks
         /\ m.moving \in BOOLEAN /\ m.refrun \in BOOLEAN
         /\ m.stop \in BOOLEAN /\ m.stopping \in BOOLEAN
         /\ m.hitlow \in BOOLEAN /\ m.hithigh \in BOOLEAN
         /\ m.fails \in SUBSET Failures /\ m.recover \in BOOLEAN
BY DEF MType, MotorType

LEMMA ProductType == ASSUME NEW a \in Int, NEW b \in Int PROVE a * b \in Int
OBVIOUS

(* One assigned attribute keeps the type.                                   *)
LEMMA AssignedCounts ==
  ASSUME NEW m \in MType
  PROVE  /\ \A v \in Int : [m EXCEPT !.cur = v] \in MType
         /\ \A v \in Int : [m EXCEPT !.start = v] \in MType
         /\ \A v \in Int : [m EXCEPT !.tstep = v] \in MType
         /\ \A v \in Int : [m EXCEPT !.target = v] \in MType
         /\ \A v \in {-1, 1} : [m EXCEPT !.sign = v] \in MType
         /\ \A v \in Ticks : [m EXCEPT !.elapsed = v] \in MType
         /\ \A v \in SUBSET Failures : [m EXCEPT !.fails = v] \in MType
BY DEF MType, MotorType

LEMMA AssignedFlags ==
  ASSUME NEW m \in MType, NEW v \in BOOLEAN
  PROVE  /\ [m EXCEPT !.moving = v] \in MType
         /\ [m EXCEPT !.refrun = v] \in MType
         /\ [m EXCEPT !.stop = v] \in MType
         /\ [m EXCEPT !.stopping = v] \in MType
         /\ [m EXCEPT !.hitlow = v] \in MType
         /\ [m EXCEPT !.hithigh = v] \in MType
         /\ [m EXCEPT !.recover = v] \in MType
<1>1. [m EXCEPT !.moving = v] \in MType
  BY DEF MType, MotorType
<1>2. [m EXCEPT !.refrun = v] \in MType
  BY DEF MType, MotorType
<1>3. [m EXCEPT !.stop = v] \in MType
  BY DEF MType, MotorType
<1>4. [m EXCEPT !.stopping = v] \in MType
  BY DEF MType, MotorType
<1>5. [m EXCEPT !.hitlow = v] \in MType
  BY DEF MType, MotorType
<1>6. [m EXCEPT !.hithigh = v] \in MType
  BY DEF MType, MotorType
<1>7. [m EXCEPT !.recover = v] \in MType
  BY DEF MType, MotorType
<1> QED BY <1>1, <1>2, <1>3, <1>4, <1>5, <1>6, <1>7

LEMMA ReckonedType == ASSUME NEW m \in MType PROVE Reckoned(m) \in Int
<1>1. m.start \in Int /\ m.sign \in Int /\ m.elapsed \in Int /\ m.speed \in Int
  <2>1. m.elapsed \in Ticks /\ m.sign \in {-1, 1}
    BY Fields
  <2>2. m.elapsed \in Int
    BY <2>1, TicksType
  <2> QED BY <2>1, <2>2, Fields
<1>2. m.sign * m.elapsed \in Int
  BY <1>1, ProductType
<1>3. m.sign * m.elapsed * m.speed \in Int
  BY <1>1, <1>2, ProductType
<1> QED BY <1>1, <1>3 DEF Reckoned

(* A tick is seen on the clock of the drive only.                           *)
LEMMA ClockOnly ==
  ASSUME NEW m \in MType, NEW e, NEW x, x = [m EXCEPT !.elapsed = e]
  PROVE  /\ x.moving = m.moving /\ x.refrun = m.refrun
         /\ x.start = m.start /\ x.tstep = m.tstep /\ x.sign = m.sign
         /\ x.speed = m.speed /\ x.elapsed = e /\ x.fails = m.fails
         /\ x.stop = m.stop /\ x.stopping = m.stopping
         /\ x.hitlow = m.hitlow /\ x.hithigh = m.hithigh
BY DEF MType, MotorType

LEMMA StandstillType ==
  ASSUME NEW m \in MType
  PROVE  /\ Standstill(m) \in MType
         /\ ~Standstill(m).moving
         /\ Standstill(m).refrun = m.refrun
<1>1. Standstill(m) \in MType
  BY TicksType, AssignedCounts, AssignedFlags DEF Standstill
<1>2. Standstill(m).moving = FALSE /\ Standstill(m).refrun = m.refrun
  BY DEF Standstill, MType, MotorType
<1> QED BY <1>1, <1>2

(* The marks at the limits and the position are apart from the drive.       *)
LEMMA MarksOnly ==
  ASSUME NEW m \in MType, NEW hi, NEW lo, NEW c
  PROVE  LET x == [m EXCEPT !.hithigh = hi, !.hitlow = lo, !.cur = c]
         IN  x.moving = m.moving /\ x.refrun = m.refrun
BY DEF MType, MotorType

LEMMA ArriveType ==
  ASSUME NEW m \in MType
  PROVE  /\ Arrive(m) \in MType
         /\ ~Arrive(m).moving /\ ~Arrive(m).refrun
<1> DEFINE c == IF HitsHigh(m) THEN m.high * m.gear - LimitOffset
                ELSE IF HitsLow(m) THEN m.low * m.gear + LimitOffset
                ELSE m.target * m.gear
<1>1. c \in Int
  <2>1. m.high * m.gear \in Int /\ m.low * m.gear \in Int
          /\ m.target * m.gear \in Int
    BY Fields, ProductType
  <2> QED BY <2>1 DEF LimitOffset
<1> DEFINE hi == m.hithigh \/ HitsHigh(m)
           lo == m.hitlow \/ HitsLow(m)
<1>2. hi \in BOOLEAN /\ lo \in BOOLEAN
  BY Fields DEF HitsHigh, HitsLow
<1>3. Standstill(m).hithigh = m.hithigh /\ Standstill(m).hitlow = m.hitlow
  BY DEF Standstill, MType, MotorType
<1>4. Arrive(m) = [Standstill(m) EXCEPT
                     !.refrun = FALSE, !.stopping = TRUE,
                     !.hithigh = hi, !.hitlow = lo, !.cur = c]
  BY <1>3 DEF Arrive
<1> HIDE DEF c, hi, lo
<1> DEFINE s == Standstill(m)
<1>5. s \in MType /\ s.moving = FALSE
  BY StandstillType
<1> HIDE DEF s
<1> DEFINE t == [s EXCEPT !.refrun = FALSE, !.stopping = TRUE]
<1>6. t \in MType
  BY <1>5, AssignedFlags
<1>7. t.moving = FALSE /\ t.refrun = FALSE
  BY <1>5 DEF MType, MotorType
<1>8. Arrive(m) = [t EXCEPT !.hithigh = hi, !.hitlow = lo, !.cur = c]
  BY <1>4 DEF s
<1> HIDE DEF t
<1>9. Arrive(m) \in MType
  <2>1. [t EXCEPT !.hithigh = hi, !.hitlow = lo] \in MType
    BY <1>2, <1>6, AssignedFlags
  <2> QED BY <1>1, <1>8, <2>1, AssignedCounts
<1>10. Arrive(m).moving = t.moving /\ Arrive(m).refrun = t.refrun
  BY <1>6, <1>8, MarksOnly
<1> QED BY <1>7, <1>9, <1>10

LEMMA AdvanceType ==
  ASSUME NEW m \in MType
  PROVE  Advance(m) \in MType
<1> DEFINE there == [m EXCEPT !.cur = Reckoned(m)]
<1>1. there \in MType
  BY ReckonedType, AssignedCounts
<1>2. [Standstill(there) EXCEPT !.stopping = TRUE] \in MType
  <2> HIDE DEF there
  <2> QED BY <1>1, StandstillType, AssignedFlags
<1> QED BY <1>1, <1>2 DEF Advance

LEMMA IterateType ==
  ASSUME NEW m \in MType
  PROVE  Iterate(m) \in MType
<1> DEFINE now == IF Arrived(m) THEN Arrive(m) ELSE Advance(m)
<1>1. now \in MType
  BY ArriveType, AdvanceType
<1>2. [Standstill(now) EXCEPT !.refrun = FALSE] \in MType
  <2> HIDE DEF now
  <2> QED BY <1>1, StandstillType, AssignedFlags
<1> QED BY <1>1, <1>2 DEF Iterate

LEMMA StartDriveType ==
  ASSUME NEW m \in MType, NEW d \in Int
  PROVE  StartDrive(m, d) \in MType
<1> DEFINE t == DriveTarget(m, d)
           s == [m EXCEPT
                   !.start = m.cur, !.elapsed = 0,
                   !.target = t, !.tstep = t * m.gear,
                   !.sign = Direction(m, t),
                   !.moving = TRUE, !.refrun = FALSE,
                   !.stop = FALSE, !.stopping = FALSE,
                   !.hitlow = FALSE, !.hithigh = FALSE]
<1>1. t \in Int
  BY DEF DriveTarget
<1>2. t * m.gear \in Int
  <2> HIDE DEF t
  <2> QED BY <1>1, Fields, ProductType
<1>3. s \in MType
  <2>1. Direction(m, t) \in {-1, 1} /\ m.cur \in Int
    BY Fields DEF Direction
  <2> HIDE DEF t
  <2>2. [m EXCEPT !.start = m.cur, !.elapsed = 0, !.target = t,
                  !.tstep = t * m.gear, !.sign = Direction(m, t)] \in MType
    BY <1>1, <1>2, <2>1, TicksType, AssignedCounts
  <2> QED BY <2>2, AssignedFlags
<1>4. Recovered(s) \in MType
  <2> HIDE DEF s
  <2> QED BY <1>3, AssignedCounts, AssignedFlags DEF Recovered
<1>5. [Standstill(m) EXCEPT !.stop = TRUE] \in MType
  BY StandstillType, AssignedFlags
<1>6. StartDrive(m, d) = IF "start" \in m.fails /\ ~m.recover
                           THEN [Standstill(m) EXCEPT !.stop = TRUE]
                           ELSE IF m.recover THEN Recovered(s) ELSE s
  BY DEF StartDrive
<1> HIDE DEF s
<1> QED BY <1>3, <1>4, <1>5, <1>6

LEMMA DoRefRunType ==
  ASSUME NEW m \in MType
  PROVE  DoRefRun(m) \in MType
<1>1. m.reftarget \div m.gear \in Int
  BY Fields
<1>2. StartDrive(m, m.reftarget \div m.gear) \in MType
  BY <1>1, StartDriveType
<1> QED BY <1>2, AssignedFlags DEF DoRefRun
-----------------------------------------------------------------------------
(* The invariant of one motor and the methods that preserve it.             *)

MotorInv(m) == m \in MType /\ OneDriveFlags(m) /\ HeldByFailure(m)

LEMMA ArriveInv ==
  ASSUME NEW m \in MType, MotorInv(m), m.moving
  PROVE  MotorInv(Arrive(m))
<1>1. ~(Arrive(m).hitlow /\ Arrive(m).hithigh)
  <2>1. ~m.hitlow /\ ~m.hithigh
    BY Fields DEF MotorInv, OneDriveFlags
  <2>2. ~(HitsHigh(m) /\ HitsLow(m))
    BY DEF HitsHigh, HitsLow
  <2>3. Arrive(m).hithigh = (m.hithigh \/ HitsHigh(m))
          /\ Arrive(m).hitlow = (m.hitlow \/ HitsLow(m))
    BY DEF Arrive, Standstill, MType, MotorType
  <2> QED BY <2>1, <2>2, <2>3
<1> QED BY <1>1, ArriveType DEF MotorInv, OneDriveFlags, HeldByFailure

LEMMA AdvanceInv ==
  ASSUME NEW m \in MType, MotorInv(m), m.moving
  PROVE  MotorInv(Advance(m))
<1>1. CASE m.fails \cap {"run", "ac"} = {}
  <2>1. Advance(m) = [m EXCEPT !.cur = Reckoned(m)]
    BY <1>1 DEF Advance
  <2> QED BY <2>1, AdvanceType DEF MotorInv, OneDriveFlags, HeldByFailure,
                                   MType, MotorType
<1>2. CASE m.fails \cap {"run", "ac"} # {}
  <2>1. /\ Advance(m).fails = m.fails /\ ~Advance(m).moving
        /\ Advance(m).hitlow = m.hitlow /\ Advance(m).hithigh = m.hithigh
    BY <1>2 DEF Advance, Standstill, MType, MotorType
  <2> QED BY <1>2, <2>1, AdvanceType DEF MotorInv, OneDriveFlags, HeldByFailure
<1> QED BY <1>1, <1>2

(* A stop ends a drive wherever the look at the clock has left it.          *)
LEMMA StandstillInv ==
  ASSUME NEW m \in MType, ~(m.hitlow /\ m.hithigh)
  PROVE  MotorInv([Standstill(m) EXCEPT !.refrun = FALSE])
<1> DEFINE s == [Standstill(m) EXCEPT !.refrun = FALSE]
<1>1. s \in MType
  BY StandstillType, AssignedFlags
<1>2. /\ s.moving = FALSE /\ s.refrun = FALSE
      /\ s.hitlow = m.hitlow /\ s.hithigh = m.hithigh
  BY DEF Standstill, MType, MotorType
<1> HIDE DEF s
<1>3. MotorInv(s)
  BY <1>1, <1>2 DEF MotorInv, OneDriveFlags, HeldByFailure
<1> QED BY <1>3 DEF s

LEMMA IterateInv ==
  ASSUME NEW m \in MType, MotorInv(m)
  PROVE  MotorInv(Iterate(m)) /\ (~m.refrun => ~Iterate(m).refrun)
<1>1. CASE ~m.moving
  BY <1>1 DEF Iterate
<1>2. CASE m.moving
  <2> DEFINE now == IF Arrived(m) THEN Arrive(m) ELSE Advance(m)
  <2>1. ~m.stop
    BY <1>2, Fields DEF MotorInv, OneDriveFlags
  <2>2. Iterate(m) = now
    BY <1>2, <2>1 DEF Iterate
  <2>3. MotorInv(now)
    BY <1>2, ArriveInv, AdvanceInv
  <2>4. Advance(m).refrun = m.refrun
    BY DEF Advance, Standstill, MType, MotorType
  <2> QED BY <2>2, <2>3, <2>4, ArriveType
<1> QED BY <1>1, <1>2

LEMMA HaltInv ==
  ASSUME NEW m \in MType, MotorInv(m), ~m.refrun
  PROVE  MotorInv(Halt(m)) /\ ~Halt(m).moving
<1> DEFINE s == [m EXCEPT !.stop = TRUE]
           now == IF Arrived(s) THEN Arrive(s) ELSE Advance(s)
<1>1. s \in MType /\ s.stop /\ s.moving = m.moving /\ s.refrun = m.refrun
        /\ s.hitlow = m.hitlow /\ s.hithigh = m.hithigh
  BY DEF MType, MotorType
<1>2. CASE ~m.moving
  <2>1. Halt(m) = s
    BY <1>1, <1>2 DEF Halt, Iterate
  <2> HIDE DEF s
  <2> QED BY <1>1, <1>2, <2>1 DEF MotorInv, OneDriveFlags, HeldByFailure
<1>3. CASE m.moving
  <2> HIDE DEF s
  <2>1. Halt(m) = [Standstill(now) EXCEPT !.refrun = FALSE]
    BY <1>1, <1>3 DEF Halt, Iterate, s
  <2>2. now \in MType
    BY <1>1, ArriveType, AdvanceType
  <2>3. ~(now.hitlow /\ now.hithigh)
    <3>1. ~s.hitlow /\ ~s.hithigh
      BY <1>1, <1>3 DEF MotorInv, OneDriveFlags
    <3>2. ~(HitsHigh(s) /\ HitsLow(s))
      BY DEF HitsHigh, HitsLow
    <3>3. Arrive(s).hithigh = (s.hithigh \/ HitsHigh(s))
            /\ Arrive(s).hitlow = (s.hitlow \/ HitsLow(s))
      BY <1>1 DEF Arrive, Standstill, MType, MotorType
    <3>4. Advance(s).hithigh = s.hithigh /\ Advance(s).hitlow = s.hitlow
      BY <1>1 DEF Advance, Standstill, MType, MotorType
    <3> QED BY <3>1, <3>2, <3>3, <3>4
  <2>4. MotorInv([Standstill(now) EXCEPT !.refrun = FALSE])
    BY <2>2, <2>3, StandstillInv
  <2>5. ~Standstill(now).moving
    BY <2>2, StandstillType
  <2>6. Standstill(now) \in MType
    BY <2>2, StandstillType
  <2> HIDE DEF now
  <2>7. ~[Standstill(now) EXCEPT !.refrun = FALSE].moving
    BY <2>5, <2>6 DEF MType, MotorType
  <2> QED BY <2>1, <2>4, <2>7
<1> QED BY <1>2, <1>3

LEMMA StartDriveInv ==
  ASSUME NEW m \in MType, MotorInv(m), ~m.refrun, NEW d \in Int
  PROVE  /\ MotorInv(StartDrive(m, d))
         /\ ~StartDrive(m, d).moving => "start" \in StartDrive(m, d).fails
<1>1. CASE "start" \in m.fails /\ ~m.recover
  <2>1. StartDrive(m, d) = [Standstill(m) EXCEPT !.stop = TRUE]
    BY <1>1 DEF StartDrive
  <2>2. /\ ~StartDrive(m, d).moving /\ ~StartDrive(m, d).refrun
        /\ StartDrive(m, d).hitlow = m.hitlow
        /\ StartDrive(m, d).hithigh = m.hithigh
        /\ StartDrive(m, d).fails = m.fails
    BY <2>1 DEF Standstill, MType, MotorType
  <2> QED BY <1>1, <2>2, StartDriveType
            DEF MotorInv, OneDriveFlags, HeldByFailure
<1>2. CASE ~("start" \in m.fails /\ ~m.recover)
  <2>1. /\ StartDrive(m, d).moving /\ ~StartDrive(m, d).stop
        /\ ~StartDrive(m, d).stopping
        /\ ~StartDrive(m, d).hitlow /\ ~StartDrive(m, d).hithigh
    BY <1>2 DEF StartDrive, Recovered, MType, MotorType
  <2> QED BY <2>1, StartDriveType DEF MotorInv, OneDriveFlags, HeldByFailure
<1> QED BY <1>1, <1>2

LEMMA DoRefRunInv ==
  ASSUME NEW m \in MType, MotorInv(m), ~m.refrun
  PROVE  MotorInv(DoRefRun(m))
<1> DEFINE s == StartDrive(m, m.reftarget \div m.gear)
<1>1. m.reftarget \div m.gear \in Int
  BY Fields
<1>2. MotorInv(s) /\ (~s.moving => "start" \in s.fails)
  BY <1>1, StartDriveInv
<1>3. s \in MType
  BY <1>2 DEF MotorInv
<1>4. DoRefRun(m) = [s EXCEPT !.refrun = TRUE]
  BY DEF DoRefRun
<1> HIDE DEF s
<1>5. /\ DoRefRun(m).moving = s.moving /\ DoRefRun(m).fails = s.fails
      /\ DoRefRun(m).stop = s.stop /\ DoRefRun(m).stopping = s.stopping
      /\ DoRefRun(m).hitlow = s.hitlow /\ DoRefRun(m).hithigh = s.hithigh
  BY <1>3, <1>4 DEF MType, MotorType
<1> QED BY <1>2, <1>5, DoRefRunType DEF MotorInv, OneDriveFlags, HeldByFailure

LEMMA ReadMSRInv ==
  ASSUME NEW m \in MType, MotorInv(m), ~m.refrun
  PROVE  MotorInv(ReadMSR(m))
<1> DEFINE now == Iterate(m)
           st == now.stopping /\ ~AtTarget(now)
           fs == IF now.recover THEN now.fails \ MSRFailures ELSE now.fails
<1>1. now \in MType /\ MotorInv(now) /\ ~now.refrun
  BY IterateInv, IterateType
<1>2. st \in BOOLEAN /\ fs \in SUBSET Failures
  <2> HIDE DEF now
  <2> QED BY <1>1, Fields DEF AtTarget
<1>3. st => now.stopping
  OBVIOUS
<1>4. ReadMSR(m) = [now EXCEPT !.stopping = st, !.stop = FALSE,
                               !.hitlow = FALSE, !.hithigh = FALSE,
                               !.fails = fs]
  BY DEF ReadMSR
<1> HIDE DEF now, st, fs
<1>5. ReadMSR(m) \in MType
  <2> DEFINE read == [now EXCEPT !.stopping = st, !.stop = FALSE,
                                 !.hitlow = FALSE, !.hithigh = FALSE]
  <2>1. read \in MType
    BY <1>1, <1>2, AssignedFlags
  <2>2. ReadMSR(m) = [read EXCEPT !.fails = fs]
    BY <1>4
  <2> HIDE DEF read
  <2> QED BY <1>2, <2>1, <2>2, AssignedCounts
<1>6. /\ ReadMSR(m).moving = now.moving /\ ~ReadMSR(m).refrun
      /\ ~ReadMSR(m).stop /\ ~ReadMSR(m).hitlow /\ ~ReadMSR(m).hithigh
      /\ ReadMSR(m).stopping = st
  BY <1>1, <1>2, <1>4 DEF MType, MotorType
<1> QED BY <1>1, <1>3, <1>5, <1>6 DEF MotorInv, OneDriveFlags, HeldByFailure

LEMMA TickInv ==
  ASSUME NEW m \in MType, MotorInv(m), m.moving, m.elapsed < MaxTicks
  PROVE  MotorInv([m EXCEPT !.elapsed = @ + 1])
<1>1. m.elapsed \in Nat /\ m.elapsed + 1 \in Ticks
  BY Fields, ControllerAssumption DEF Ticks
<1> DEFINE e == m.elapsed + 1
<1>2. e \in Ticks
  BY <1>1
<1> HIDE DEF e
<1>3. [m EXCEPT !.elapsed = e] \in MType
  BY <1>2, AssignedCounts
<1>4. MotorInv([m EXCEPT !.elapsed = e])
  BY <1>3, ClockOnly DEF MotorInv, OneDriveFlags, HeldByFailure
<1> QED BY <1>4 DEF e

LEMMA NewMotorInv ==
  ASSUME NEW l \in Int, NEW h \in Int, NEW g \in Nat \ {0}, NEW s \in Int,
         NEW r \in Int
  PROVE  MotorInv(NewMotor(l, h, g, s, r))
BY TicksType DEF NewMotor, MotorInv, OneDriveFlags, HeldByFailure, MType,
                 MotorType, Failures

-----------------------------------------------------------------------------
(* The controller.  The invariant is inductive because every command that   *)
(* sets or clears one of the flags goes through one of the methods above.   *)

Inv ==
  /\ session \in {"local", "remote", "host", "lost"}
  /\ motor \in [Motor -> MType]
  /\ \A n \in Motor : MotorInv(motor[n])

(* What a line to motor n makes of it, for every line.                      *)
LEMMA LineInv ==
  ASSUME Inv, NEW n \in Motor, Line(n)
  PROVE  Inv'
<1> DEFINE m == motor[n]
<1>0. m \in MType /\ MotorInv(m)
  BY DEF Inv
<1>1. ASSUME NEW x, MotorInv(x), Become(n, x)
      PROVE  Inv'
  <2>1. x \in MType
    BY <1>1 DEF MotorInv
  <2> QED BY <1>1, <2>1 DEF Inv, Become
<1>2. CASE Busy(n)
  BY <1>0, <1>1, <1>2, IterateInv DEF Busy
<1>3. CASE AskPosition(n) \/ AskSS(n)
  BY <1>0, <1>1, <1>3, IterateInv DEF AskPosition, AskSS, ReadSS, Accept
<1>4. CASE AskMSR(n)
  BY <1>0, <1>1, <1>4, ReadMSRInv DEF AskMSR, Accept
<1>5. CASE Setting(n)
  <2>1. ASSUME NEW s \in Speeds, SetSpeed(n, s) PROVE Inv'
    <3>1. s \in Int
      BY ControllerAssumption
    <3>2. ~m.refrun /\ Become(n, [m EXCEPT !.speed = s])
      BY <2>1 DEF SetSpeed, Accept
    <3>3. MotorInv([m EXCEPT !.speed = s])
      BY <1>0, <3>1, <3>2 DEF MotorInv, OneDriveFlags, HeldByFailure, MType,
                              MotorType
    <3> QED BY <1>1, <3>2, <3>3
  <2>2. ASSUME NEW g \in Gears, SetGear(n, g) PROVE Inv'
    <3>1. g \in Nat \ {0}
      BY ControllerAssumption
    <3>2. ~m.refrun /\ Become(n, [m EXCEPT !.gear = g])
      BY <2>2 DEF SetGear, Accept
    <3>3. MotorInv([m EXCEPT !.gear = g])
      BY <1>0, <3>1, <3>2 DEF MotorInv, OneDriveFlags, HeldByFailure, MType,
                              MotorType
    <3> QED BY <1>1, <3>2, <3>3
  <2>3. ASSUME NEW d \in Targets, SetPosition(n, d) PROVE Inv'
    <3> DEFINE c == d * m.gear
    <3>1. c \in Int
      <4>1. d \in Int /\ m.gear \in Int
        BY <1>0, Fields, ControllerAssumption
      <4> QED BY <4>1, ProductType
    <3>2. ~m.refrun /\ Become(n, [m EXCEPT !.cur = c])
      BY <2>3 DEF SetPosition, Accept
    <3> HIDE DEF c
    <3>3. MotorInv([m EXCEPT !.cur = c])
      BY <1>0, <3>1, <3>2 DEF MotorInv, OneDriveFlags, HeldByFailure, MType,
                              MotorType
    <3> QED BY <1>1, <3>2, <3>3
  <2>4. ASSUME NEW r \in RefTargets, SetRefTarget(n, r) PROVE Inv'
    <3>1. r \in Int
      BY ControllerAssumption
    <3>2. ~m.refrun /\ Become(n, [m EXCEPT !.reftarget = r])
      BY <2>4 DEF SetRefTarget, Accept
    <3>3. MotorInv([m EXCEPT !.reftarget = r])
      BY <1>0, <3>1, <3>2 DEF MotorInv, OneDriveFlags, HeldByFailure, MType,
                              MotorType
    <3> QED BY <1>1, <3>2, <3>3
  <2>5. ASSUME NEW l \in Limits, SetLimits(n, l) PROVE Inv'
    <3>1. l[1] \in Int /\ l[2] \in Int
      BY ControllerAssumption
    <3>2. ~m.refrun /\ Become(n, [m EXCEPT !.low = l[1], !.high = l[2]])
      BY <2>5 DEF SetLimits, Accept
    <3>3. MotorInv([m EXCEPT !.low = l[1], !.high = l[2]])
      BY <1>0, <3>1, <3>2 DEF MotorInv, OneDriveFlags, HeldByFailure, MType,
                              MotorType
    <3> QED BY <1>1, <3>2, <3>3
  <2> QED BY <1>5, <2>1, <2>2, <2>3, <2>4, <2>5 DEF Setting
<1>6. CASE Fault(n)
  <2>1. ASSUME NEW f \in Faults, Fail(n, f) PROVE Inv'
    <3>1. f \in Failures
      BY ControllerAssumption
    <3> DEFINE x == [m EXCEPT !.fails = m.fails \cup {f}]
    <3>2. ~m.refrun /\ Become(n, x)
      BY <2>1 DEF Fail, Accept
    <3>3. MotorInv(x)
      BY <1>0, <3>1, <3>2 DEF MotorInv, OneDriveFlags, HeldByFailure, MType,
                              MotorType
    <3> QED BY <1>1, <3>2, <3>3
  <2>2. ASSUME Recover(n) PROVE Inv'
    <3>1. ~m.refrun /\ Become(n, [m EXCEPT !.recover = TRUE])
      BY <2>2 DEF Recover, Accept
    <3>2. MotorInv([m EXCEPT !.recover = TRUE])
      BY <1>0, <3>1 DEF MotorInv, OneDriveFlags, HeldByFailure, MType,
                        MotorType
    <3> QED BY <1>1, <3>1, <3>2
  <2> QED BY <1>6, <2>1, <2>2 DEF Fault
<1>7. CASE Motion(n)
  <2>1. ASSUME NEW d \in Targets, Drive(n, d) PROVE Inv'
    <3>1. d \in Int
      BY ControllerAssumption
    <3>2. ~m.refrun /\ Become(n, StartDrive(m, d))
      BY <2>1 DEF Drive, Accept
    <3> QED BY <1>0, <1>1, <3>1, <3>2, StartDriveInv
  <2>2. ASSUME RefRun(n) PROVE Inv'
    BY <1>0, <1>1, <2>2, DoRefRunInv DEF RefRun, Accept
  <2>3. ASSUME Stop(n) PROVE Inv'
    <3>1. CASE m.refrun
      BY <1>0, <1>1, <2>3, <3>1, IterateInv DEF Stop, Become, Inv
    <3>2. CASE ~m.refrun
      BY <1>0, <1>1, <2>3, <3>2, HaltInv DEF Stop, Become, Inv
    <3> QED BY <3>1, <3>2
  <2> QED BY <1>7, <2>1, <2>2, <2>3 DEF Motion
<1>8. CASE BadArgument(n)
  BY <1>8 DEF BadArgument, Inv
<1> QED BY <1>2, <1>3, <1>4, <1>5, <1>6, <1>7, <1>8 DEF Line, Poll

(* Whatever lines a client sends, the session and the motors stay in the    *)
(* states that TypeOK, FlagsOfTheLastDrive and OnlyFailuresHoldARefRun      *)
(* allow (el734controller.py:38-94, el734motor.py:50-388).                  *)
THEOREM Invariance == Spec => []Inv
<1>1. Init => Inv
  <2> SUFFICES ASSUME Init PROVE Inv
    OBVIOUS
  <2>1. ASSUME NEW n \in Motor PROVE MotorInv(motor[n])
    <3>1. PICK l \in Limits, g \in Gears, s \in Speeds, r \in RefTargets :
            motor[n] = NewMotor(l[1], l[2], g, s, r)
      BY DEF Init
    <3>2. /\ l[1] \in Int /\ l[2] \in Int /\ g \in Nat \ {0} /\ s \in Int
          /\ r \in Int
      BY ControllerAssumption
    <3> QED BY <3>1, <3>2, NewMotorInv
  <2>2. \A n \in Motor : motor[n] \in MType
    BY <2>1 DEF MotorInv
  <2>3. motor \in [Motor -> MType]
    BY <2>2 DEF Init
  <2> QED BY <2>1, <2>3 DEF Init, Inv
<1>2. Inv /\ [Next]_vars => Inv'
  <2> SUFFICES ASSUME Inv, [Next]_vars PROVE Inv'
    OBVIOUS
  <2>1. CASE Tick
    <3>1. ASSUME NEW n \in Motor PROVE MotorInv(motor'[n])
      BY <2>1, <3>1, TickInv DEF Tick, Inv
    <3>2. motor' \in [Motor -> MType]
      BY <2>1, <3>1 DEF Tick, MotorInv
    <3> QED BY <2>1, <3>1, <3>2 DEF Tick, Inv
  <2>2. CASE Rmt1 \/ Echo0
    BY <2>2 DEF Rmt1, Echo0, Inv
  <2>3. CASE \E n \in Motor : Line(n)
    BY <2>3, LineInv
  <2>4. CASE UNCHANGED vars
    BY <2>4 DEF vars, Inv
  <2> QED BY <2>1, <2>2, <2>3, <2>4 DEF Next
<1> QED BY <1>1, <1>2, PTL DEF Spec

(* The controller's variables have their types (el734controller.py:23-31).  *)
THEOREM TypeCorrect == Spec => []TypeOK
<1>1. Inv => TypeOK
  BY DEF Inv, TypeOK, MType
<1> QED BY <1>1, Invariance, PTL

(* For every motor, the flags that a run status reports belong to the drive *)
(* that is over (el734motor.py:163-259, 291-316).                           *)
THEOREM FlagsAreOfTheLastDrive == Spec => []FlagsOfTheLastDrive
<1>1. Inv => FlagsOfTheLastDrive
  BY DEF Inv, FlagsOfTheLastDrive, MotorInv
<1> QED BY <1>1, Invariance, PTL

(* A reference run that no command can end any more is always the doing of  *)
(* an injected failure (el734motor.py:185-187, 223-226, 387-389).           *)
THEOREM RefRunHeldByFailureOnly == Spec => []OnlyFailuresHoldARefRun
<1>1. Inv => OnlyFailuresHoldARefRun
  BY DEF Inv, OnlyFailuresHoldARefRun, MotorInv
<1> QED BY <1>1, Invariance, PTL

-----------------------------------------------------------------------------
(* Looking at the clock leaves alone what a drive was started with.         *)

SameDrive(m, x) ==
  /\ x.start = m.start /\ x.sign = m.sign
  /\ x.target = m.target /\ x.tstep = m.tstep
  /\ x.low = m.low /\ x.high = m.high
  /\ x.gear = m.gear /\ x.speed = m.speed
  /\ x.fails = m.fails /\ x.recover = m.recover

LEMMA IterateSameDrive ==
  ASSUME NEW m \in MType
  PROVE  SameDrive(m, Iterate(m))
<1> DEFINE now == IF Arrived(m) THEN Arrive(m) ELSE Advance(m)
<1>1. SameDrive(m, Arrive(m))
  BY DEF SameDrive, Arrive, Standstill, MType, MotorType
<1>2. SameDrive(m, Advance(m))
  BY DEF SameDrive, Advance, Standstill, MType, MotorType
<1>3. SameDrive(m, now) /\ now \in MType
  BY <1>1, <1>2, ArriveType, AdvanceType
<1>4. SameDrive(m, [Standstill(now) EXCEPT !.refrun = FALSE])
  <2> HIDE DEF now
  <2> QED BY <1>3 DEF SameDrive, Standstill, MType, MotorType
<1>5. SameDrive(m, m)
  BY DEF SameDrive
<1> QED BY <1>3, <1>4, <1>5 DEF Iterate

(* While a reference run is on no line changes what it drives to, nor the   *)
(* limits, nor the failures (el734motor.py:51-53, 87-89, 152-153).          *)
THEOREM RefRunUndisturbed == Spec => RefRunIsUndisturbed
<1> DEFINE Kept == \A n \in Motor :
                     motor[n].refrun => SameDrive(motor[n], motor'[n])
<1>1. Inv /\ [Next]_vars => Kept
  <2> SUFFICES ASSUME Inv, [Next]_vars,
                      NEW k \in Motor, motor[k].refrun
               PROVE  SameDrive(motor[k], motor'[k])
    OBVIOUS
  <2> DEFINE m == motor[k]
  <2>0. m \in MType
    BY DEF Inv
  <2>1. SameDrive(m, m)
    BY DEF SameDrive
  <2>2. CASE Tick
    <3>1. SameDrive(m, [m EXCEPT !.elapsed = m.elapsed + 1])
      BY <2>0 DEF SameDrive, MType, MotorType
    <3> QED BY <2>1, <2>2, <3>1 DEF Tick
  <2>3. CASE Rmt1 \/ Echo0 \/ UNCHANGED vars
    BY <2>1, <2>3 DEF Rmt1, Echo0, vars
  <2>4. CASE \E n \in Motor : Line(n)
    <3>1. PICK n \in Motor : Line(n)
      BY <2>4
    <3>2. motor'[k] = m \/ motor'[k] = Iterate(m)
      <4>1. CASE n # k
        BY <3>1, <4>1 DEF Line, Poll, Setting, Fault, Motion, Busy, AskPosition,
           AskSS, AskMSR, SetSpeed, SetGear, SetPosition, SetRefTarget,
           SetLimits, Fail, Recover, Drive, RefRun, Stop, BadArgument, Accept,
           Become, Inv
      <4>2. CASE n = k
        BY <3>1, <4>2 DEF Line, Poll, Setting, Fault, Motion, Busy, AskPosition,
           AskSS, AskMSR, SetSpeed, SetGear, SetPosition, SetRefTarget,
           SetLimits, Fail, Recover, Drive, RefRun, Stop, BadArgument, Accept,
           Become, Inv
      <4> QED BY <4>1, <4>2
    <3> QED BY <2>0, <2>1, <3>2, IterateSameDrive
  <2> QED BY <2>2, <2>3, <2>4 DEF Next
<1>2. Kept => \A n \in Motor : LET m == motor[n] IN
        m.refrun =>
          /\ motor'[n].start = m.start /\ motor'[n].sign = m.sign
          /\ motor'[n].target = m.target /\ motor'[n].tstep = m.tstep
          /\ motor'[n].low = m.low /\ motor'[n].high = m.high
          /\ motor'[n].gear = m.gear /\ motor'[n].speed = m.speed
          /\ motor'[n].fails = m.fails /\ motor'[n].recover = m.recover
  BY DEF SameDrive
<1> QED BY <1>1, <1>2, Invariance, PTL DEF Spec, RefRunIsUndisturbed

-----------------------------------------------------------------------------
(* Where a drive ends.                                                      *)

LEMMA Scale ==
  ASSUME NEW a \in Int, NEW b \in Int, NEW g \in Nat \ {0}, a <= b
  PROVE  a * g <= b * g
OBVIOUS

Within(m, x) ==
  IF m.sign = 1 THEN x.cur <= m.high * m.gear ELSE x.cur >= m.low * m.gear

LEMMA ArriveWithin ==
  ASSUME NEW m \in MType
  PROVE  Within(m, Arrive(m))
<1>1. /\ m.target \in Int /\ m.high \in Int /\ m.low \in Int
      /\ m.gear \in Nat \ {0} /\ m.sign \in {-1, 1}
  BY Fields
<1>2. /\ m.high * m.gear \in Int /\ m.low * m.gear \in Int
      /\ m.target * m.gear \in Int
  BY <1>1, ProductType
<1>3. Arrive(m).cur = IF HitsHigh(m) THEN m.high * m.gear - LimitOffset
                      ELSE IF HitsLow(m) THEN m.low * m.gear + LimitOffset
                      ELSE m.target * m.gear
  BY DEF Arrive, Standstill, MType, MotorType
<1>4. CASE m.sign = 1
  <2>1. ~HitsLow(m)
    BY <1>4 DEF HitsLow
  <2>2. CASE HitsHigh(m)
    <3>1. Arrive(m).cur = m.high * m.gear - LimitOffset
      BY <1>3, <2>2
    <3> QED BY <1>2, <1>4, <3>1 DEF Within, LimitOffset
  <2>3. CASE ~HitsHigh(m)
    <3>1. m.target * m.gear <= m.high * m.gear
      BY <1>1, <1>4, <2>3, Scale DEF HitsHigh
    <3>2. Arrive(m).cur = m.target * m.gear
      BY <1>3, <2>1, <2>3
    <3> QED BY <1>4, <3>1, <3>2 DEF Within
  <2> QED BY <2>2, <2>3
<1>5. CASE m.sign = -1
  <2>1. ~HitsHigh(m)
    BY <1>5 DEF HitsHigh
  <2>2. CASE HitsLow(m)
    <3>1. Arrive(m).cur = m.low * m.gear + LimitOffset
      BY <1>3, <2>1, <2>2
    <3> QED BY <1>2, <1>5, <3>1 DEF Within, LimitOffset
  <2>3. CASE ~HitsLow(m)
    <3>1. m.low * m.gear <= m.target * m.gear
      BY <1>1, <1>5, <2>3, Scale DEF HitsLow
    <3>2. Arrive(m).cur = m.target * m.gear
      BY <1>3, <2>1, <2>3
    <3> QED BY <1>2, <1>5, <3>1, <3>2 DEF Within
  <2> QED BY <2>2, <2>3
<1> QED BY <1>1, <1>4, <1>5

LEMMA IterateWithin ==
  ASSUME NEW m \in MType, MotorInv(m), m.moving, Arrived(m)
  PROVE  Within(m, Iterate(m)) /\ Within(m, ReadMSR(m))
<1>1. ~m.stop
  BY Fields DEF MotorInv, OneDriveFlags
<1>2. Iterate(m) = Arrive(m)
  BY <1>1 DEF Iterate
<1>3. ReadMSR(m).cur = Iterate(m).cur
  BY IterateType DEF ReadMSR, MType, MotorType
<1> QED BY <1>2, <1>3, ArriveWithin DEF Within

LEMMA HaltWithin ==
  ASSUME NEW m \in MType, m.moving, Arrived(m)
  PROVE  Within(m, Halt(m))
<1> DEFINE s == [m EXCEPT !.stop = TRUE]
<1>1. /\ s \in MType /\ s.stop /\ s.moving /\ s.sign = m.sign
      /\ s.high = m.high /\ s.low = m.low /\ s.gear = m.gear
      /\ s.start = m.start /\ s.elapsed = m.elapsed
      /\ s.speed = m.speed /\ s.tstep = m.tstep
  BY DEF MType, MotorType
<1>2. Halt(m) = Iterate(s)
  BY DEF Halt
<1> HIDE DEF s
<1>3. Arrived(s)
  BY <1>1 DEF Arrived, Reckoned
<1>4. Halt(m) = [Standstill(Arrive(s)) EXCEPT !.refrun = FALSE]
  BY <1>1, <1>2, <1>3 DEF Iterate
<1>5. Halt(m).cur = Arrive(s).cur
  BY <1>1, <1>4, ArriveType DEF Standstill, MType, MotorType
<1> QED BY <1>1, <1>5, ArriveWithin DEF Within

(* A drive that is seen to have arrived has not crossed the limit it drove  *)
(* towards, whatever limits, gears and speeds were set while it was under   *)
(* way (el734motor.py:172-181, 191-199).                                    *)
THEOREM ArrivalWithinTheLimit == Spec => ArrivalRespectsTheLimit
<1> DEFINE Lands(m, x) ==
             m.moving /\ Arrived(m) /\ ~x.moving /\ x.stopping => Within(m, x)
<1>1. Inv /\ [Next]_vars => \A n \in Motor : Lands(motor[n], motor'[n])
  <2> SUFFICES ASSUME Inv, [Next]_vars, NEW k \in Motor,
                      motor[k].moving, Arrived(motor[k]),
                      ~motor'[k].moving, motor'[k].stopping
               PROVE  Within(motor[k], motor'[k])
    OBVIOUS
  <2> DEFINE m == motor[k]
  <2>0. m \in MType /\ MotorInv(m) /\ ~m.stopping
    BY Fields DEF Inv, MotorInv, OneDriveFlags
  <2>1. ~Tick
    <3>1. [m EXCEPT !.elapsed = m.elapsed + 1].moving = m.moving
      BY <2>0 DEF MType, MotorType
    <3> QED BY <3>1 DEF Tick
  <2>2. ~(Rmt1 \/ Echo0 \/ UNCHANGED vars)
    BY DEF Rmt1, Echo0, vars
  <2>3. PICK n \in Motor : Line(n)
    BY <2>1, <2>2 DEF Next
  <2>4. n = k
    BY <2>3 DEF Line, Poll, Setting, Fault, Motion, Busy, AskPosition,
       AskSS, AskMSR, SetSpeed, SetGear, SetPosition, SetRefTarget,
       SetLimits, Fail, Recover, Drive, RefRun, Stop, BadArgument, Accept,
       Become, Inv
  <2>5. ~Setting(k) /\ ~Fault(k) /\ ~BadArgument(k)
    <3>1. ASSUME NEW x, Accept(k, x) PROVE motor'[k] = x
      BY <3>1 DEF Accept, Become, Inv
    <3> USE <2>0 DEF MType, MotorType
    <3>2. ASSUME NEW s, SetSpeed(k, s) PROVE FALSE
      BY <3>1, <3>2 DEF SetSpeed
    <3>3. ASSUME NEW g, SetGear(k, g) PROVE FALSE
      BY <3>1, <3>3 DEF SetGear
    <3>4. ASSUME NEW d, SetPosition(k, d) PROVE FALSE
      BY <3>1, <3>4 DEF SetPosition
    <3>5. ASSUME NEW r, SetRefTarget(k, r) PROVE FALSE
      BY <3>1, <3>5 DEF SetRefTarget
    <3>6. ASSUME NEW l, SetLimits(k, l) PROVE FALSE
      BY <3>1, <3>6 DEF SetLimits
    <3>7. ASSUME NEW f, Fail(k, f) PROVE FALSE
      BY <3>1, <3>7 DEF Fail
    <3>8. ASSUME Recover(k) PROVE FALSE
      BY <3>1, <3>8 DEF Recover
    <3>9. ~BadArgument(k)
      BY DEF BadArgument
    <3> QED BY <3>2, <3>3, <3>4, <3>5, <3>6, <3>7, <3>8, <3>9 DEF Setting, Fault
  <2>6. ASSUME NEW d \in Int, motor'[k] = StartDrive(m, d)
        PROVE  FALSE
    BY <2>0, <2>6 DEF StartDrive, Standstill, Recovered, MType, MotorType
  <2>7. ASSUME motor'[k] = DoRefRun(m)
        PROVE  FALSE
    <3> DEFINE s == StartDrive(m, m.reftarget \div m.gear)
    <3>1. m.reftarget \div m.gear \in Int
      BY <2>0, Fields
    <3>2. s \in MType
      BY <2>0, <3>1, StartDriveType
    <3>3. s.moving \/ ~s.stopping
      BY <2>0 DEF StartDrive, Standstill, Recovered, MType, MotorType
    <3>4. motor'[k] = [s EXCEPT !.refrun = TRUE]
      BY <2>7 DEF DoRefRun
    <3> HIDE DEF s
    <3> QED BY <3>2, <3>3, <3>4 DEF MType, MotorType
  <2>8. \/ motor'[k] = Iterate(m) \/ motor'[k] = ReadMSR(m)
        \/ motor'[k] = Halt(m)
    BY <2>3, <2>4, <2>5, <2>6, <2>7, ControllerAssumption
       DEF Line, Poll, Motion, Busy, AskPosition, AskSS, AskMSR, ReadSS,
           Drive, RefRun, Stop, Accept, Become, Inv
  <2> QED BY <2>0, <2>8, IterateWithin, HaltWithin
<1>2. (\A n \in Motor : Lands(motor[n], motor'[n])) =>
        \A n \in Motor : LET m == motor[n] IN
          m.moving /\ Arrived(m) /\ ~motor'[n].moving /\ motor'[n].stopping =>
            IF m.sign = 1 THEN motor'[n].cur <= m.high * m.gear
                          ELSE motor'[n].cur >= m.low * m.gear
  BY DEF Within
<1> QED BY <1>1, <1>2, Invariance, PTL DEF Spec, ArrivalRespectsTheLimit

-----------------------------------------------------------------------------
(* How a drive comes to its end.                                            *)

(* A drive was started in the direction of its target.                      *)
Aimed(m) ==
  m.moving => IF m.sign = 1 THEN m.start <= m.tstep ELSE m.tstep < m.start

DrivesAreAimed == \A n \in Motor : Aimed(motor[n])

SameCourse(m, x) ==
  /\ x.start = m.start /\ x.sign = m.sign /\ x.tstep = m.tstep
  /\ x.moving => m.moving

LEMMA IterateCourse ==
  ASSUME NEW m \in MType
  PROVE  /\ SameCourse(m, Iterate(m)) /\ Iterate(m).speed = m.speed
         /\ Iterate(m).moving => /\ Iterate(m).elapsed = m.elapsed
                                 /\ Iterate(m).refrun = m.refrun
<1>1. CASE ~m.moving
  BY <1>1 DEF Iterate, SameCourse
<1>2. CASE m.moving /\ Arrived(m)
  <2>1. /\ SameDrive(m, Iterate(m))
        /\ Iterate(m) = IF m.stop
                          THEN [Standstill(Arrive(m)) EXCEPT !.refrun = FALSE]
                          ELSE Arrive(m)
    BY <1>2, IterateSameDrive DEF Iterate
  <2>2. ~Iterate(m).moving
    BY <2>1, ArriveType DEF Standstill, MType, MotorType
  <2> QED BY <2>1, <2>2 DEF SameDrive, SameCourse
<1>3. CASE m.moving /\ ~Arrived(m)
  <2>1. /\ SameDrive(m, Iterate(m))
        /\ Iterate(m) = IF m.stop
                          THEN [Standstill(Advance(m)) EXCEPT !.refrun = FALSE]
                          ELSE Advance(m)
    BY <1>3, IterateSameDrive DEF Iterate
  <2>2. /\ Advance(m).refrun = m.refrun
        /\ Advance(m).moving => Advance(m).elapsed = m.elapsed
    BY DEF Advance, Standstill, MType, MotorType
  <2>3. ~[Standstill(Advance(m)) EXCEPT !.refrun = FALSE].moving
    BY AdvanceType DEF Standstill, MType, MotorType
  <2> QED BY <1>3, <2>1, <2>2, <2>3 DEF SameDrive, SameCourse
<1> QED BY <1>1, <1>2, <1>3

LEMMA ReadMSRCourse ==
  ASSUME NEW m \in MType
  PROVE  /\ SameCourse(m, ReadMSR(m)) /\ ReadMSR(m).speed = m.speed
         /\ ReadMSR(m).moving = Iterate(m).moving
         /\ ReadMSR(m).refrun = Iterate(m).refrun
         /\ ReadMSR(m).moving => ReadMSR(m).elapsed = m.elapsed
<1> DEFINE i == Iterate(m)
<1>1. /\ i \in MType /\ SameCourse(m, i) /\ i.speed = m.speed
      /\ i.moving => i.elapsed = m.elapsed
  BY IterateType, IterateCourse
<1>2. /\ ReadMSR(m).start = i.start /\ ReadMSR(m).sign = i.sign
      /\ ReadMSR(m).tstep = i.tstep /\ ReadMSR(m).speed = i.speed
      /\ ReadMSR(m).moving = i.moving /\ ReadMSR(m).refrun = i.refrun
      /\ ReadMSR(m).elapsed = i.elapsed
  BY <1>1 DEF ReadMSR, MType, MotorType
<1> HIDE DEF i
<1> QED BY <1>1, <1>2 DEF SameCourse, i

LEMMA HaltCourse ==
  ASSUME NEW m \in MType
  PROVE  SameCourse(m, Halt(m))
<1> DEFINE s == [m EXCEPT !.stop = TRUE]
<1>1. s \in MType /\ SameCourse(m, s)
  BY DEF SameCourse, MType, MotorType
<1>2. Halt(m) = Iterate(s)
  BY DEF Halt
<1> HIDE DEF s
<1> QED BY <1>1, <1>2, IterateCourse DEF SameCourse

(* A command that starts a drive chooses the direction from where the motor *)
(* is and where it is to go.                                                *)
LEMMA StartDriveAimed ==
  ASSUME NEW m \in MType, NEW d \in Int
  PROVE  Aimed(StartDrive(m, d))
<1>1. CASE "start" \in m.fails /\ ~m.recover
  <2>1. StartDrive(m, d) = [Standstill(m) EXCEPT !.stop = TRUE]
    BY <1>1 DEF StartDrive
  <2>2. ~StartDrive(m, d).moving
    BY <2>1 DEF Standstill, MType, MotorType
  <2> QED BY <2>2 DEF Aimed
<1>2. CASE ~("start" \in m.fails /\ ~m.recover)
  <2> DEFINE t == DriveTarget(m, d)
  <2>1. t \in Int /\ m.gear \in Int /\ m.cur \in Int
    BY Fields DEF DriveTarget
  <2> HIDE DEF t
  <2>2. t * m.gear \in Int
    BY <2>1, ProductType
  <2>3. /\ StartDrive(m, d).start = m.cur
        /\ StartDrive(m, d).tstep = t * m.gear
        /\ StartDrive(m, d).sign = Direction(m, t)
    BY <1>2 DEF StartDrive, Recovered, MType, MotorType, t
  <2> QED BY <2>1, <2>2, <2>3 DEF Aimed, Direction
<1> QED BY <1>1, <1>2

LEMMA DoRefRunAimed ==
  ASSUME NEW m \in MType
  PROVE  Aimed(DoRefRun(m))
<1> DEFINE s == StartDrive(m, m.reftarget \div m.gear)
<1>1. s \in MType /\ Aimed(s)
  <2>1. m.reftarget \div m.gear \in Int
    BY Fields
  <2> QED BY <2>1, StartDriveType, StartDriveAimed
<1>2. DoRefRun(m) = [s EXCEPT !.refrun = TRUE]
  BY DEF DoRefRun
<1> HIDE DEF s
<1> QED BY <1>1, <1>2 DEF Aimed, MType, MotorType

(* No other line changes a motor's course or sets it in motion.             *)
LEMMA LineCourse ==
  ASSUME Inv, NEW n \in Motor, Line(n), NEW k \in Motor
  PROVE  \/ motor'[k] = DoRefRun(motor[k])
         \/ \E d \in Int : motor'[k] = StartDrive(motor[k], d)
         \/ SameCourse(motor[k], motor'[k])
<1> DEFINE m == motor[k]
<1>0. m \in MType /\ SameCourse(m, m)
  BY DEF Inv, SameCourse
<1>1. CASE n # k
  <2>1. motor'[k] = m
    BY <1>1 DEF Line, Poll, Setting, Fault, Motion, Busy, AskPosition,
       AskSS, AskMSR, SetSpeed, SetGear, SetPosition, SetRefTarget,
       SetLimits, Fail, Recover, Drive, RefRun, Stop, BadArgument, Accept,
       Become, Inv
  <2> QED BY <1>0, <2>1
<1>2. CASE n = k
  <2>1. ASSUME NEW x, Accept(k, x) PROVE motor'[k] = x
    BY <2>1 DEF Accept, Become, Inv
  <2>2. CASE Poll(k) \/ AskSS(k)
    <3>1. motor'[k] = Iterate(m) \/ motor'[k] = ReadMSR(m)
      BY <2>2 DEF Poll, Busy, AskPosition, AskSS, AskMSR, ReadSS, Accept,
                  Become, Inv
    <3> QED BY <1>0, <3>1, IterateCourse, ReadMSRCourse
  <2>3. CASE Setting(k) \/ Fault(k)
    <3> USE <1>0 DEF MType, MotorType, SameCourse
    <3>1. ASSUME NEW v, SetSpeed(k, v) PROVE SameCourse(m, motor'[k])
      BY <2>1, <3>1 DEF SetSpeed
    <3>2. ASSUME NEW v, SetGear(k, v) PROVE SameCourse(m, motor'[k])
      BY <2>1, <3>2 DEF SetGear
    <3>3. ASSUME NEW v, SetPosition(k, v) PROVE SameCourse(m, motor'[k])
      BY <2>1, <3>3 DEF SetPosition
    <3>4. ASSUME NEW v, SetRefTarget(k, v) PROVE SameCourse(m, motor'[k])
      BY <2>1, <3>4 DEF SetRefTarget
    <3>5. ASSUME NEW v, SetLimits(k, v) PROVE SameCourse(m, motor'[k])
      BY <2>1, <3>5 DEF SetLimits
    <3>6. ASSUME NEW v, Fail(k, v) PROVE SameCourse(m, motor'[k])
      BY <2>1, <3>6 DEF Fail
    <3>7. ASSUME Recover(k) PROVE SameCourse(m, motor'[k])
      BY <2>1, <3>7 DEF Recover
    <3> QED BY <2>3, <3>1, <3>2, <3>3, <3>4, <3>5, <3>6, <3>7
            DEF Setting, Fault
  <2>4. CASE Motion(k)
    <3>1. \/ motor'[k] = DoRefRun(m)
          \/ \E d \in Int : motor'[k] = StartDrive(m, d)
          \/ motor'[k] = Iterate(m) \/ motor'[k] = Halt(m)
      BY <2>4, ControllerAssumption
         DEF Motion, Drive, RefRun, Stop, Accept, Become, Inv
    <3> QED BY <1>0, <3>1, IterateCourse, HaltCourse
  <2>5. CASE BadArgument(k)
    BY <1>0, <2>5 DEF BadArgument
  <2> QED BY <1>2, <2>2, <2>3, <2>4, <2>5 DEF Line
<1> QED BY <1>1, <1>2

(* Whatever was set in between, a motor that moves was sent off in the      *)
(* direction of the target it still drives to: a gear, a speed, a position  *)
(* or a limit that is set under way does not turn the drive round           *)
(* (el734motor.py:163-203, 220-259).                                        *)
THEOREM AimedDrives == Spec => []DrivesAreAimed
<1>1. Init => DrivesAreAimed
  <2>1. ASSUME NEW l, NEW h, NEW g, NEW s, NEW r
        PROVE  Aimed(NewMotor(l, h, g, s, r))
    BY DEF NewMotor, Aimed
  <2>2. ASSUME Init, NEW n \in Motor PROVE Aimed(motor[n])
    <3>1. PICK l \in Limits, g \in Gears, s \in Speeds, r \in RefTargets :
            motor[n] = NewMotor(l[1], l[2], g, s, r)
      BY <2>2 DEF Init
    <3> QED BY <2>1, <3>1
  <2> QED BY <2>2 DEF DrivesAreAimed
<1>2. Inv /\ DrivesAreAimed /\ [Next]_vars => DrivesAreAimed'
  <2> SUFFICES ASSUME Inv, DrivesAreAimed, [Next]_vars, NEW k \in Motor
               PROVE  Aimed(motor'[k])
    BY DEF DrivesAreAimed
  <2> DEFINE m == motor[k]
  <2>0. m \in MType /\ Aimed(m)
    BY DEF Inv, DrivesAreAimed
  <2>1. CASE Tick
    <3>1. Aimed([m EXCEPT !.elapsed = m.elapsed + 1])
      BY <2>0 DEF Aimed, MType, MotorType
    <3> QED BY <2>0, <2>1, <3>1 DEF Tick
  <2>2. CASE Rmt1 \/ Echo0 \/ UNCHANGED vars
    BY <2>0, <2>2 DEF Rmt1, Echo0, vars
  <2>3. CASE \E n \in Motor : Line(n)
    <3>1. \/ motor'[k] = DoRefRun(m)
          \/ \E d \in Int : motor'[k] = StartDrive(m, d)
          \/ SameCourse(m, motor'[k])
      BY <2>3, LineCourse
    <3>2. SameCourse(m, motor'[k]) => Aimed(motor'[k])
      BY <2>0 DEF SameCourse, Aimed
    <3> QED BY <2>0, <3>1, <3>2, StartDriveAimed, DoRefRunAimed
  <2> QED BY <2>1, <2>2, <2>3 DEF Next
<1> QED BY <1>1, <1>2, Invariance, PTL DEF Spec

(* The time the drive takes at the motor's speed is over.                   *)
ToGo(m) == IF m.sign = 1 THEN m.tstep - m.start ELSE m.start - m.tstep
Overdue(m) == m.elapsed * m.speed >= ToGo(m)

LEMMA OverdueArrived ==
  ASSUME NEW m \in MType, Overdue(m)
  PROVE  Arrived(m)
<1>1. /\ m.start \in Int /\ m.tstep \in Int /\ m.speed \in Int
      /\ m.elapsed \in Int /\ m.sign \in {-1, 1}
  <2>1. m.elapsed \in Ticks
    BY Fields
  <2> QED BY <2>1, Fields, TicksType
<1>2. ASSUME NEW e \in Int, NEW s \in Int
      PROVE  1 * e * s = e * s /\ (-1) * e * s = -(e * s) /\ e * s \in Int
  OBVIOUS
<1> QED BY <1>1, <1>2 DEF Overdue, ToGo, Arrived, Reckoned

LEMMA OverdueLater ==
  ASSUME NEW m \in MType, m.elapsed < MaxTicks, m.speed > 0, Overdue(m)
  PROVE  Overdue([m EXCEPT !.elapsed = m.elapsed + 1])
<1>1. /\ m.start \in Int /\ m.tstep \in Int /\ m.speed \in Nat
      /\ m.elapsed \in Int
  <2>1. m.elapsed \in Ticks
    BY Fields
  <2> QED BY <2>1, Fields, TicksType
<1>2. ASSUME NEW e \in Int, NEW s \in Nat
      PROVE  (e + 1) * s >= e * s /\ e * s \in Int /\ (e + 1) * s \in Int
  OBVIOUS
<1> DEFINE x == [m EXCEPT !.elapsed = m.elapsed + 1]
<1>3. /\ x.start = m.start /\ x.tstep = m.tstep /\ x.sign = m.sign
      /\ x.speed = m.speed /\ x.elapsed = m.elapsed + 1
  BY DEF MType, MotorType
<1> HIDE DEF x
<1>4. ToGo(m) \in Int /\ ToGo(x) = ToGo(m)
  BY <1>1, <1>3 DEF ToGo
<1>5. x.elapsed * x.speed >= m.elapsed * m.speed
        /\ x.elapsed * x.speed \in Int /\ m.elapsed * m.speed \in Int
  BY <1>1, <1>2, <1>3
<1>6. Overdue(x)
  BY <1>4, <1>5 DEF Overdue
<1> QED BY <1>6 DEF x

(* The first look at a drive that is overdue.                               *)
LEMMA OverdueLook ==
  ASSUME NEW m \in MType, MotorInv(m), m.moving, Overdue(m)
  PROVE  /\ ~Iterate(m).moving /\ ~Iterate(m).refrun
         /\ ~ReadMSR(m).moving /\ ~ReadMSR(m).refrun
<1>1. ~m.stop
  BY Fields DEF MotorInv, OneDriveFlags
<1>2. Iterate(m) = Arrive(m)
  BY <1>1, OverdueArrived DEF Iterate
<1> QED BY <1>2, ArriveType, ReadMSRCourse

(* A client that only polls starts nothing and lets the clock of a drive    *)
(* run; its first look at an overdue drive ends the drive and the reference *)
(* run it belongs to.                                                       *)
PollingBringsRest ==
  OnlyPolling => \A n \in Motor : LET m == motor[n]
                                      x == motor'[n] IN
    /\ ~m.moving => ~x.moving
    /\ m.moving /\ x.moving =>
         /\ x.start = m.start /\ x.tstep = m.tstep /\ x.sign = m.sign
         /\ x.speed = m.speed /\ x.elapsed >= m.elapsed
         /\ x.refrun = m.refrun
         /\ m.speed > 0 /\ Overdue(m) => Overdue(x)
    /\ m.moving /\ Overdue(m) /\ Poll(n) => ~x.moving /\ ~x.refrun

(* A motor whose client only polls is not set in motion, the time of a      *)
(* drive under way does not run backwards, and the first poll after that    *)
(* time ends the drive and its reference run, whatever failures were        *)
(* injected: the safety part of DrivesEnd and UnfailedRefRunsEnd, with the  *)
(* clock and the polling left to fairness; that the time comes needs a      *)
(* positive speed (el734motor.py:163-203).                                  *)
THEOREM PollingEndsDrives == Spec => [][PollingBringsRest]_vars
<1>1. Inv /\ [Next]_vars => [PollingBringsRest]_vars
  <2> SUFFICES ASSUME Inv, OnlyPolling, NEW k \in Motor
               PROVE  LET m == motor[k]
                          x == motor'[k] IN
                      /\ ~m.moving => ~x.moving
                      /\ m.moving /\ x.moving =>
                           /\ x.start = m.start /\ x.tstep = m.tstep
                           /\ x.sign = m.sign
                           /\ x.speed = m.speed /\ x.elapsed >= m.elapsed
                           /\ x.refrun = m.refrun
                           /\ m.speed > 0 /\ Overdue(m) => Overdue(x)
                      /\ m.moving /\ Overdue(m) /\ Poll(k)
                           => ~x.moving /\ ~x.refrun
    BY DEF PollingBringsRest
  <2> DEFINE m == motor[k]
             x == motor'[k]
  <2>0. m \in MType /\ MotorInv(m) /\ m.elapsed \in Int
    <3>1. m \in MType /\ MotorInv(m)
      BY DEF Inv
    <3>2. m.elapsed \in Ticks
      BY <3>1, Fields
    <3> QED BY <3>1, <3>2, TicksType
  <2>1. CASE Tick
    <3>1. x = m \/ (m.elapsed < MaxTicks /\ m.moving
                      /\ x = [m EXCEPT !.elapsed = m.elapsed + 1])
      BY <2>1 DEF Tick
    <3>3. m.moving /\ Overdue(m) /\ Poll(k) => ~x.moving /\ ~x.refrun
      <4> SUFFICES ASSUME m.moving, Overdue(m), Poll(k)
                   PROVE  ~x.moving /\ ~x.refrun
        OBVIOUS
      <4>1. x = Iterate(m) \/ x = ReadMSR(m)
        BY DEF Poll, Busy, AskPosition, AskMSR, Accept, Become, Inv
      <4> QED BY <2>0, <4>1, OverdueLook
    <3>4. CASE x = m
      BY <2>0, <3>3, <3>4
    <3>5. CASE m.elapsed < MaxTicks /\ m.moving
                 /\ x = [m EXCEPT !.elapsed = m.elapsed + 1]
      <4>1. /\ x.moving = m.moving /\ x.refrun = m.refrun
            /\ x.start = m.start /\ x.tstep = m.tstep /\ x.sign = m.sign
            /\ x.speed = m.speed /\ x.elapsed = m.elapsed + 1
        <5>1. m \in MType /\ x = [m EXCEPT !.elapsed = m.elapsed + 1]
          BY <2>0, <3>5
        <5> HIDE DEF m, x
        <5> QED BY <5>1, ClockOnly
      <4>2. m.speed > 0 /\ Overdue(m) => Overdue(x)
        BY <2>0, <3>5, OverdueLater
      <4> QED BY <2>0, <3>3, <3>5, <4>1, <4>2
    <3> QED BY <3>1, <3>4, <3>5
  <2>2. CASE \E n \in Motor : Poll(n)
    <3>1. x = m \/ x = Iterate(m) \/ x = ReadMSR(m)
      BY <2>2 DEF Poll, Busy, AskPosition, AskMSR, Accept, Become, Inv
    <3>2. Poll(k) => x = Iterate(m) \/ x = ReadMSR(m)
      BY DEF Poll, Busy, AskPosition, AskMSR, Accept, Become, Inv
    <3>3. m.moving /\ Overdue(m) /\ Poll(k) => ~x.moving /\ ~x.refrun
      BY <2>0, <3>2, OverdueLook
    <3>4. SameCourse(m, x) /\ x.speed = m.speed
            /\ (x.moving => x.elapsed = m.elapsed /\ x.refrun = m.refrun)
      <4>1. SameCourse(m, m)
        BY DEF SameCourse
      <4> QED BY <2>0, <3>1, <4>1, IterateCourse, ReadMSRCourse
    <3>5. m.moving /\ x.moving /\ Overdue(m) => Overdue(x)
      BY <3>4 DEF SameCourse, Overdue, ToGo
    <3> QED BY <2>0, <3>3, <3>4, <3>5 DEF SameCourse, MType, MotorType
  <2> QED BY <2>1, <2>2 DEF OnlyPolling
<1> QED BY <1>1, Invariance, PTL DEF Spec

(* A reference run whose motor stands still.                                *)
HeldForGood ==
  \A n \in Motor :
    motor[n].refrun /\ ~motor[n].moving => motor'[n] = motor[n]

(* A reference run that an injected failure has brought to a standstill     *)
(* stays as it is for the rest of the connection: no line changes anything  *)
(* of the motor any more, the stop and the recovery included, which is what *)
(* the finding on RefRunsEnd shows on an instance (el734motor.py:50-53,     *)
(* 86-89, 151-153, 185-187).                                                *)
THEOREM HeldRefRunIsForGood == Spec => [][HeldForGood]_vars
<1>1. Inv /\ [Next]_vars => [HeldForGood]_vars
  <2> SUFFICES ASSUME Inv, Next, NEW k \in Motor, motor[k].refrun,
                      ~motor[k].moving
               PROVE  motor'[k] = motor[k]
    BY DEF HeldForGood
  <2>0. Iterate(motor[k]) = motor[k]
    BY DEF Iterate
  <2>1. CASE Tick
    BY <2>1 DEF Tick
  <2>2. CASE Rmt1 \/ Echo0
    BY <2>2 DEF Rmt1, Echo0
  <2>3. ASSUME NEW n \in Motor, Line(n) PROVE motor'[k] = motor[k]
    BY <2>0, <2>3 DEF Line, Poll, Setting, Fault, Motion, Busy, AskPosition,
       AskSS, AskMSR, SetSpeed, SetGear, SetPosition, SetRefTarget,
       SetLimits, Fail, Recover, Drive, RefRun, Stop, BadArgument, Accept,
       Become, Inv
  <2> QED BY <2>1, <2>2, <2>3 DEF Next
<1> QED BY <1>1, Invariance, PTL DEF Spec

(* A reference run under way at a speed at which it does not get there.     *)
Creeping(m) == m.moving /\ m.refrun /\ m.speed <= 0 /\ ~Overdue(m)

CreepingGoesOn ==
  \A n \in Motor :
    Creeping(motor[n]) =>
      motor'[n].refrun /\ (motor'[n].moving => Creeping(motor'[n]))

LEMMA CreepingLook ==
  ASSUME NEW m \in MType, MotorInv(m), Creeping(m)
  PROVE  Iterate(m).refrun /\ (Iterate(m).moving => Creeping(Iterate(m)))
<1>1. ~m.stop
  BY Fields DEF MotorInv, OneDriveFlags, Creeping
<1>2. ~Arrived(m)
  <2>1. /\ m.start \in Int /\ m.tstep \in Int /\ m.speed \in Int
        /\ m.elapsed \in Int /\ m.sign \in {-1, 1}
    <3>1. m.elapsed \in Ticks
      BY Fields
    <3> QED BY <3>1, Fields, TicksType
  <2>2. ASSUME NEW e \in Int, NEW s \in Int
        PROVE  1 * e * s = e * s /\ (-1) * e * s = -(e * s) /\ e * s \in Int
    OBVIOUS
  <2> QED BY <2>1, <2>2 DEF Creeping, Overdue, ToGo, Arrived, Reckoned
<1>3. Iterate(m) = Advance(m)
  BY <1>1, <1>2 DEF Iterate, Creeping
<1>4. Advance(m).refrun = m.refrun
  BY DEF Advance, Standstill, MType, MotorType
<1> QED
  BY <1>3, <1>4, IterateCourse DEF Creeping, SameCourse, Overdue, ToGo

LEMMA CreepingTick ==
  ASSUME NEW m \in MType, Creeping(m)
  PROVE  Creeping([m EXCEPT !.elapsed = m.elapsed + 1])
<1>1. /\ m.start \in Int /\ m.tstep \in Int /\ m.speed \in Int
      /\ m.elapsed \in Int
  <2>1. m.elapsed \in Ticks
    BY Fields
  <2> QED BY <2>1, Fields, TicksType
<1>2. ASSUME NEW e \in Int, NEW s \in Int, s <= 0
      PROVE  (e + 1) * s <= e * s /\ e * s \in Int /\ (e + 1) * s \in Int
  BY <1>2
<1> DEFINE x == [m EXCEPT !.elapsed = m.elapsed + 1]
<1>3. /\ x.moving = m.moving /\ x.refrun = m.refrun
      /\ x.start = m.start /\ x.tstep = m.tstep /\ x.sign = m.sign
      /\ x.speed = m.speed /\ x.elapsed = m.elapsed + 1
  BY ClockOnly
<1> HIDE DEF x
<1>4. ToGo(m) \in Int /\ ToGo(x) = ToGo(m)
  BY <1>1, <1>3 DEF ToGo
<1>5. x.elapsed * x.speed <= m.elapsed * m.speed
        /\ x.elapsed * x.speed \in Int /\ m.elapsed * m.speed \in Int
  BY <1>1, <1>2, <1>3 DEF Creeping
<1>6. Creeping(x)
  BY <1>3, <1>4, <1>5 DEF Creeping, Overdue
<1> QED BY <1>6 DEF x

(* "j" takes any number: a reference run begun at a speed of 0 or below     *)
(* somewhere else than at its target goes on until a failure ends its       *)
(* drive, and then it is held for good, so that the motor answers *BSY for  *)
(* the rest of the connection; this is why UnfailedRefRunsEnd asks for a    *)
(* positive speed (el734motor.py:50-53, 58-60, 163-209).                    *)
THEOREM IdleSpeedHoldsARefRun == Spec => [][CreepingGoesOn]_vars
<1>1. Inv /\ [Next]_vars => [CreepingGoesOn]_vars
  <2> SUFFICES ASSUME Inv, Next, NEW k \in Motor, Creeping(motor[k])
               PROVE  /\ motor'[k].refrun
                      /\ motor'[k].moving => Creeping(motor'[k])
    BY DEF CreepingGoesOn
  <2>0. motor[k] \in MType /\ MotorInv(motor[k]) /\ motor[k].refrun
    BY DEF Inv, Creeping
  <2>1. \/ motor'[k] = motor[k]
        \/ motor'[k] = Iterate(motor[k])
        \/ motor'[k] = [motor[k] EXCEPT !.elapsed = motor[k].elapsed + 1]
    <3>1. CASE Tick
      BY <3>1 DEF Tick
    <3>2. CASE Rmt1 \/ Echo0
      BY <3>2 DEF Rmt1, Echo0
    <3>3. ASSUME NEW n \in Motor, Line(n)
          PROVE  motor'[k] = motor[k] \/ motor'[k] = Iterate(motor[k])
      BY <2>0, <3>3 DEF Line, Poll, Setting, Fault, Motion, Busy, AskPosition,
         AskSS, AskMSR, SetSpeed, SetGear, SetPosition, SetRefTarget,
         SetLimits, Fail, Recover, Drive, RefRun, Stop, BadArgument, Accept,
         Become, Inv
    <3> QED BY <3>1, <3>2, <3>3 DEF Next
  <2>2. CASE motor'[k] = motor[k]
    BY <2>2 DEF Creeping
  <2>3. CASE motor'[k] = Iterate(motor[k])
    BY <2>0, <2>3, CreepingLook
  <2>4. CASE motor'[k] = [motor[k] EXCEPT !.elapsed = motor[k].elapsed + 1]
    <3>1. Creeping(motor'[k])
      BY <2>0, <2>4, CreepingTick
    <3> QED BY <3>1 DEF Creeping
  <2> QED BY <2>1, <2>2, <2>3, <2>4
<1> QED BY <1>1, Invariance, PTL DEF Spec

=============================================================================
