-------------------------- MODULE CounterBoxProofs --------------------------
(* Proofs about the counter box and its copy, for all clients, presets and  *)
(* count rates: both implement Count, and the generator follows them.       *)
EXTENDS BenchCounterBox, TLAPS

(* The box's numbers, without the bounds.                                   *)
AnyBox ==
  [mode : {"timer", "monitor"}, preset : Nat,
   counting : BOOLEAN, mypaused : BOOLEAN,
   clock : Nat, pausestart : Nat, pausedTime : Nat, endtime : Nat,
   threshold : Nat, thresholdcounter : Nat,
   failures : SUBSET (Failures \cup {"atrun"}), recover : BOOLEAN]

(* What a count rests on: no time was paused that has not passed, and a     *)
(* pause began neither in the future nor before the time paused earlier.    *)
PausesHavePassed ==
  /\ box.pausestart <= box.clock
  /\ box.pausedTime <= box.clock
  /\ box.mypaused => box.pausedTime <= box.pausestart

BoxInv == box \in AnyBox /\ verdict \in {"full", "broken"} /\ PausesHavePassed

LEMMA Counts ==
  ASSUME NEW p \in Nat, NEW r \in Nat \ {0}
  PROVE  /\ p \div r \in Nat
         /\ \A t \in Nat : t * r >= p => t >= p \div r
<1>1. p \div r \in Nat /\ (p \div r) * r <= p
  OBVIOUS
<1>2. ASSUME NEW t \in Nat, t * r >= p, ~(t >= p \div r) PROVE FALSE
  <2> DEFINE q == p \div r
  <2>1. q \in Nat /\ q * r <= p /\ t + 1 <= q
    BY <1>1, <1>2
  <2> HIDE DEF q
  <2>2. (t + 1) * r <= q * r
    BY <2>1
  <2>3. (t + 1) * r = t * r + r
    OBVIOUS
  <2>4. QED
    BY <1>2, <2>1, <2>2, <2>3
<1>3. QED
  BY <1>1, <1>2

LEMMA Shrinks ==
  ASSUME NEW p \in Nat, NEW r \in Nat \ {0}
  PROVE  p \div r <= p
<1>1. p * r >= p
  OBVIOUS
<1> QED BY <1>1, Counts

LEMMA GoalIsNatural ==
  ASSUME NEW b \in AnyBox
  PROVE  /\ Goal(b) \in Nat
         /\ \A t \in Nat : Reaches(b, t) => t >= Goal(b)
  BY Counts, CounterAssumption DEF Goal, Reaches, AnyBox

-----------------------------------------------------------------------------
LEMMA BoxInitial == Init => BoxInv
  BY DEF Init, BoxInv, AnyBox, PausesHavePassed, Failures

(* What each step does to the count, one fact for each kind of step; the    *)
(* other steps leave it alone.                                              *)
Idle == UNCHANGED <<CountPhase, box.mypaused, CountedTime, box.pausedTime,
                    PauseSoFar, Goal(box), Reported(box)>>

LEMMA SameBox ==
  ASSUME BoxInv, UNCHANGED <<box, verdict>>
  PROVE  BoxInv' /\ Idle
  BY DEF BoxInv, PausesHavePassed, Idle, CountPhase, CountedTime, PauseSoFar, Goal, Reported, Runtime

(* Lines that touch neither the clock, the pauses nor the goal.             *)
LEMMA OtherFields ==
  ASSUME BoxInv, verdict' = verdict, box' \in AnyBox,
         \A f \in {"mode", "preset", "counting", "mypaused", "clock",
                   "pausestart", "pausedTime", "endtime"} : box'[f] = box[f]
  PROVE  BoxInv' /\ Idle
<1>1. /\ box'.mode = box.mode /\ box'.preset = box.preset
      /\ box'.counting = box.counting /\ box'.mypaused = box.mypaused
      /\ box'.clock = box.clock /\ box'.pausestart = box.pausestart
      /\ box'.pausedTime = box.pausedTime /\ box'.endtime = box.endtime
  OBVIOUS
<1>2. QED
  BY <1>1 DEF BoxInv, PausesHavePassed, Idle, CountPhase, CountedTime, PauseSoFar, Goal, Reported, Runtime

LEMMA TickCounts ==
  ASSUME BoxInv, Tick
  PROVE  BoxInv' /\ TheCount!Second
<1>1. box' = [box EXCEPT !.clock = box.clock + 1] /\ verdict' = verdict
  BY DEF Tick
<1>2. box' \in AnyBox
  BY <1>1 DEF BoxInv, AnyBox
<1>3. /\ box'.clock = box.clock + 1
      /\ box'.counting = box.counting /\ box'.mypaused = box.mypaused
      /\ box'.mode = box.mode /\ box'.preset = box.preset
      /\ box'.pausestart = box.pausestart /\ box'.pausedTime = box.pausedTime
      /\ box'.endtime = box.endtime
  BY <1>1 DEF BoxInv, AnyBox
<1>4. /\ box.clock \in Nat /\ box.pausestart \in Nat /\ box.pausedTime \in Nat
      /\ box.counting \in BOOLEAN /\ box.mypaused \in BOOLEAN
  BY DEF BoxInv, AnyBox
<1>5. BoxInv'
  BY <1>1, <1>2, <1>3, <1>4 DEF BoxInv, PausesHavePassed
<1>6. Goal(box') = Goal(box)
  BY <1>3 DEF Goal
<1>7. CountPhase' = CountPhase /\ CountedTime' = IF box.mypaused THEN CountedTime ELSE CountedTime + 1
  BY <1>1, <1>3, <1>4 DEF CountPhase, CountedTime
<1>8. PauseSoFar' = IF box.mypaused THEN PauseSoFar + 1 ELSE PauseSoFar
  BY <1>3, <1>4 DEF PauseSoFar
<1>9. Reported(box') = IF CountPhase = "on" /\ ~box.mypaused THEN CountedTime' ELSE Reported(box)
  <2>1. CASE box.counting /\ ~box.mypaused
    BY <1>3, <2>1 DEF Reported, Runtime, CountPhase, CountedTime
  <2>2. CASE box.counting /\ box.mypaused
    BY <1>3, <2>2 DEF Reported
  <2>3. CASE ~box.counting
    BY <1>3, <2>3 DEF Reported, CountPhase, BoxInv
  <2> QED BY <2>1, <2>2, <2>3, <1>4
<1>10. TheCount!Second
  BY <1>3, <1>6, <1>7, <1>8, <1>9 DEF TheCount!Second
<1> QED BY <1>5, <1>10

LEMMA StartBegins ==
  ASSUME BoxInv, NewCount
  PROVE  BoxInv' /\ TheCount!Begin
<1>1. PICK mode \in {"timer", "monitor"}, p \in Presets : Start(mode, p)
  BY DEF NewCount
<1>2. /\ box' = [box EXCEPT !.mode = mode, !.preset = p,
                        !.clock = 0, !.pausestart = 0, !.endtime = 0,
                        !.mypaused = FALSE, !.pausedTime = 0,
                        !.counting = TRUE]
      /\ verdict' = verdict /\ p \in Nat
  BY <1>1, CounterAssumption DEF Start, Become, BecomeAs
<1>3. box' \in AnyBox
  BY <1>2 DEF BoxInv, AnyBox
<1>4. /\ box'.clock = 0 /\ box'.pausestart = 0 /\ box'.pausedTime = 0
      /\ box'.counting /\ ~box'.mypaused
  BY <1>2 DEF BoxInv, AnyBox
<1>5. BoxInv'
  BY <1>2, <1>3, <1>4 DEF BoxInv, PausesHavePassed
<1>6. Goal(box') \in Nat
  BY <1>3, GoalIsNatural
<1>7. QED
  BY <1>4, <1>5, <1>6 DEF TheCount!Begin, CountPhase, CountedTime, PauseSoFar, Reported, Runtime, Goal

LEMMA StartWithoutPresetRereads ==
  ASSUME BoxInv, StartWithoutPreset
  PROVE  BoxInv' /\ TheCount!Reread
<1>1. box' = [box EXCEPT !.mode = "timer"] /\ verdict' = verdict
  BY DEF StartWithoutPreset, Become, BecomeAs
<1>2. BoxInv'
  BY <1>1 DEF BoxInv, AnyBox, PausesHavePassed
<1>3. /\ Goal(box') \in Nat
      /\ Goal(box') >= Goal(box)
  <2>1. Goal(box') \in Nat
    BY <1>2, GoalIsNatural DEF BoxInv
  <2>2. box'.mode = "timer" /\ box'.preset = box.preset /\ box.preset \in Nat
    BY <1>1 DEF BoxInv, AnyBox
  <2>3. box.preset \div CountRate <= box.preset
    BY <2>2, CounterAssumption, Shrinks
  <2> QED BY <2>1, <2>2, <2>3 DEF Goal
<1>4. QED
  BY <1>1, <1>2, <1>3 DEF BoxInv, AnyBox, TheCount!Reread, CountPhase, CountedTime, PauseSoFar, Reported, Runtime, Goal

LEMMA StopBreaks ==
  ASSUME BoxInv, Stop
  PROVE  BoxInv' /\ TheCount!Break
<1>1. /\ box' = [box EXCEPT !.counting = FALSE, !.endtime = box.clock]
      /\ verdict' = "broken"
  BY DEF Stop, BecomeAs
<1>2. BoxInv'
  BY <1>1 DEF BoxInv, AnyBox, PausesHavePassed
<1>3. QED
  BY <1>1, <1>2 DEF BoxInv, AnyBox, PausesHavePassed, TheCount!Break, CountPhase, CountedTime, PauseSoFar, Reported, Runtime, Goal

LEMMA PauseHolds ==
  ASSUME BoxInv, Pause
  PROVE  BoxInv' /\ TheCount!Hold
<1>1. /\ box' = [box EXCEPT !.counting = TRUE, !.mypaused = TRUE, !.pausestart = box.clock]
      /\ verdict' = verdict
  BY DEF Pause, Become, BecomeAs
<1>2. box' \in AnyBox
  BY <1>1 DEF BoxInv, AnyBox
<1>3. /\ box'.clock = box.clock /\ box'.pausestart = box.clock
      /\ box'.pausedTime = box.pausedTime /\ box'.counting /\ box'.mypaused
      /\ box'.mode = box.mode /\ box'.preset = box.preset
  BY <1>1 DEF BoxInv, AnyBox
<1>4. box.clock \in Nat /\ box.pausedTime \in Nat /\ box.pausestart \in Nat
  BY DEF BoxInv, AnyBox
<1>5. BoxInv'
  BY <1>1, <1>2, <1>3, <1>4 DEF BoxInv, PausesHavePassed
<1>6. Goal(box') = Goal(box)
  BY <1>3 DEF Goal
<1>7. QED
  BY <1>1, <1>3, <1>4, <1>5, <1>6 DEF BoxInv, PausesHavePassed, TheCount!Hold, CountPhase, CountedTime, PauseSoFar, Reported, Runtime

LEMMA ContinueResumes ==
  ASSUME BoxInv, Continue
  PROVE  BoxInv' /\ (TheCount!Resume \/ Idle)
<1>1. verdict' = verdict
  BY DEF Continue, Become, BecomeAs
<1>2. CASE box.mypaused
  <2>1. box' = [box EXCEPT !.mypaused = FALSE,
                  !.pausedTime = @ + (box.clock - box.pausestart)]
    BY <1>2 DEF Continue, Become, BecomeAs
  <2>2. /\ box.clock \in Nat /\ box.pausedTime \in Nat /\ box.pausestart \in Nat
        /\ box.counting \in BOOLEAN /\ box.endtime \in Nat
    BY DEF BoxInv, AnyBox
  <2> DEFINE paused == box.pausedTime + (box.clock - box.pausestart)
  <2>3. paused \in Nat /\ paused <= box.clock /\ box.clock - paused = box.pausestart - box.pausedTime
    BY <1>2, <2>2 DEF BoxInv, PausesHavePassed
  <2>4. box' = [box EXCEPT !.mypaused = FALSE, !.pausedTime = paused]
    BY <2>1 DEF BoxInv, AnyBox
  <2> HIDE DEF paused
  <2>5. box' \in AnyBox
    BY <2>3, <2>4 DEF BoxInv, AnyBox
  <2>6. /\ box'.clock = box.clock /\ box'.pausestart = box.pausestart
        /\ box'.pausedTime = paused /\ box'.counting = box.counting /\ ~box'.mypaused
        /\ box'.mode = box.mode /\ box'.preset = box.preset /\ box'.endtime = box.endtime
    BY <2>4 DEF BoxInv, AnyBox
  <2>7. BoxInv'
    BY <1>1, <2>2, <2>3, <2>5, <2>6 DEF BoxInv, PausesHavePassed
  <2>8. Goal(box') = Goal(box)
    BY <2>6 DEF Goal
  <2>9. /\ CountPhase' = CountPhase
        /\ CountedTime' = CountedTime
        /\ PauseSoFar' = 0 /\ box'.pausedTime = box.pausedTime + PauseSoFar
    BY <1>1, <1>2, <2>2, <2>3, <2>6 DEF CountPhase, CountedTime, PauseSoFar,
       paused
  <2>10. Reported(box') = IF CountPhase = "on" THEN CountedTime ELSE Reported(box)
    <3>1. CASE box.counting
      BY <1>2, <2>2, <2>3, <2>6, <3>1 DEF Reported, Runtime, CountPhase,
         CountedTime
    <3>2. CASE ~box.counting
      BY <2>6, <3>2 DEF Reported, CountPhase, BoxInv
    <3> QED BY <3>1, <3>2
  <2>11. TheCount!Resume
    BY <1>2, <2>6, <2>8, <2>9, <2>10 DEF TheCount!Resume
  <2>12. QED
    BY <2>7, <2>11
<1>3. CASE ~box.mypaused
  BY <1>1, <1>3, SameBox DEF Continue, Become, BecomeAs
<1>4. QED
  BY <1>2, <1>3 DEF BoxInv, AnyBox

(* The box, but for what counting does not look at.                         *)
CountsAs(b) ==
  /\ b \in AnyBox
  /\ b.mode = box.mode /\ b.preset = box.preset
  /\ b.counting = box.counting /\ b.mypaused = box.mypaused
  /\ b.clock = box.clock /\ b.pausestart = box.pausestart
  /\ b.pausedTime = box.pausedTime /\ b.endtime = box.endtime

LEMMA ExpiryFinishes ==
  ASSUME BoxInv, NEW now, CountsAs(now), Expired(now),
         box' = [now EXCEPT !.counting = FALSE, !.endtime = Goal(now),
                   !.pausedTime = IF now.mode = "timer" THEN 0 ELSE @],
         verdict' = "full"
  PROVE  BoxInv' /\ TheCount!Finish
<1>1. /\ Goal(now) \in Nat
      /\ \A t \in Nat : Reaches(now, t) => t >= Goal(now)
  BY GoalIsNatural DEF CountsAs
<1>2. /\ now.counting /\ ~now.mypaused
      /\ Runtime(now) \in Nat /\ Runtime(now) >= Goal(now)
  BY <1>1 DEF CountsAs, Expired, OnTheClock, BoxInv, AnyBox, PausesHavePassed, Runtime
<1>3. box' \in AnyBox
  BY <1>1 DEF CountsAs, AnyBox
<1>4. /\ box'.clock = box.clock /\ box'.pausestart = box.pausestart
      /\ box'.pausedTime \in {0, box.pausedTime} /\ ~box'.mypaused
      /\ box'.mode = box.mode /\ box'.preset = box.preset
      /\ ~box'.counting /\ box'.endtime = Goal(now)
  BY <1>2 DEF CountsAs, AnyBox
<1>5. box.clock \in Nat
  BY DEF BoxInv, AnyBox
<1>6. BoxInv'
  BY <1>3, <1>4, <1>5 DEF BoxInv, PausesHavePassed
<1>7. Goal(box') = Goal(box) /\ Goal(now) = Goal(box)
  BY <1>4 DEF CountsAs, Goal
<1>8. /\ CountPhase = "on" /\ ~box.mypaused
      /\ CountedTime = Runtime(now) /\ PauseSoFar = 0
  BY <1>2 DEF CountsAs, CountPhase, CountedTime, PauseSoFar, Runtime
<1>9. /\ CountPhase' = "full" /\ Reported(box') = Goal(box)
      /\ PauseSoFar' = PauseSoFar
  BY <1>4, <1>7, <1>8 DEF CountPhase, Reported, PauseSoFar
<1>10. box.pausedTime \in Nat /\ box'.mypaused = box.mypaused
  BY <1>3, <1>4, <1>8 DEF BoxInv, AnyBox
<1>11. CountedTime' + box'.pausedTime = CountedTime + box.pausedTime
  BY <1>4, <1>5, <1>8, <1>10 DEF CountedTime
<1>12. TheCount!Finish
  BY <1>2, <1>4, <1>7, <1>8, <1>9, <1>10, <1>11 DEF TheCount!Finish
<1> QED
  BY <1>6, <1>12

(* A poll that sees the count full or failed ends it.                       *)
LEMMA PollEnds ==
  ASSUME BoxInv, Poll
  PROVE  BoxInv' /\ (TheCount!Finish \/ TheCount!Break \/ Idle)
<1> DEFINE now == Recovered(box)
<1>1. CountsAs(now)
  BY DEF BoxInv, AnyBox, Recovered, CountsAs
<1>2. CASE HasFailed(box)
  BY <1>2, SameBox DEF Poll, Become, BecomeAs
<1>3. CASE ~HasFailed(box)
  <2>1. box' = CountStatus(now) /\ verdict' = Verdict(now)
    BY <1>3 DEF Poll, BecomeAs
  <2> HIDE DEF now
  <2>2. CASE Expired(now)
    <3>1. /\ box' = [now EXCEPT !.counting = FALSE, !.endtime = Goal(now),
                        !.pausedTime = IF now.mode = "timer" THEN 0 ELSE @]
          /\ verdict' = "full"
      BY <2>1, <2>2 DEF CountStatus, Verdict
    <3>2. QED
      BY <1>1, <2>2, <3>1, ExpiryFinishes
  <2>3. CASE ~Expired(now) /\ RunFails(now)
    <3>1. /\ box' = [now EXCEPT !.counting = FALSE, !.endtime = now.clock,
                               !.failures = @ \cup {"atrun"}]
          /\ verdict' = "broken"
      BY <2>1, <2>3 DEF CountStatus, Verdict
    <3>2. now.counting /\ ~now.mypaused
      BY <2>3 DEF RunFails, OnTheClock
    <3>3. BoxInv'
      BY <1>1, <3>1 DEF CountsAs, BoxInv, AnyBox, PausesHavePassed
    <3>4. QED
      BY <1>1, <3>1, <3>2, <3>3 DEF CountsAs, BoxInv, AnyBox, PausesHavePassed, TheCount!Break, CountPhase, CountedTime, PauseSoFar,
                                    Reported, Runtime, Goal
  <2>4. CASE ~Expired(now) /\ ~RunFails(now)
    BY <1>1, <2>1, <2>4, OtherFields DEF CountsAs, CountStatus, Verdict
  <2>5. QED
    BY <2>2, <2>3, <2>4
<1>4. QED
  BY <1>2, <1>3

LEMMA BenchPollEnds ==
  ASSUME BoxInv, BenchPoll
  PROVE  BoxInv' /\ (TheCount!Finish \/ Idle)
<1>1. /\ box' = BenchCountStatus(box)
      /\ verdict' = IF Expired(box) THEN "full" ELSE verdict
  BY DEF BenchPoll, BecomeAs
<1>2. CountsAs(box)
  BY DEF BoxInv, CountsAs
<1>3. CASE Expired(box)
  <2>1. /\ box' = [box EXCEPT !.counting = FALSE, !.endtime = Goal(box),
                      !.pausedTime = IF box.mode = "timer" THEN 0 ELSE @]
        /\ verdict' = "full"
    BY <1>1, <1>3 DEF BenchCountStatus
  <2>2. QED
    BY <1>2, <1>3, <2>1, ExpiryFinishes
<1>4. CASE ~Expired(box)
  BY <1>1, <1>4, SameBox DEF BenchCountStatus
<1>5. QED
  BY <1>3, <1>4

-----------------------------------------------------------------------------
(* The box on the bench does nothing that the deployed one does not, but    *)
(* for its answer to polls.                                                 *)
LEMMA EitherStep == EitherNext => Next \/ BenchPoll
  BY DEF EitherNext, BenchNext, BenchLine, Next, Line

LEMMA StepsCount ==
  BoxInv /\ [EitherNext]_vars => BoxInv' /\ [TheCount!Next]_TheCount!vars
<1> SUFFICES ASSUME BoxInv, [EitherNext]_vars
             PROVE  BoxInv' /\ [TheCount!Next]_TheCount!vars
  OBVIOUS
<1>0. Idle => UNCHANGED TheCount!vars
  BY DEF Idle, TheCount!vars
<1> DEFINE Counted == BoxInv' /\ (TheCount!Next \/ Idle)
<1>1. ASSUME Tick PROVE Counted
  BY <1>1, TickCounts DEF TheCount!Next
<1>2. ASSUME NewCount PROVE Counted
  BY <1>2, StartBegins DEF TheCount!Next
<1>3. ASSUME StartWithoutPreset PROVE Counted
  BY <1>3, StartWithoutPresetRereads DEF TheCount!Next
<1>4. ASSUME Stop PROVE Counted
  BY <1>4, StopBreaks DEF TheCount!Next
<1>5. ASSUME Pause PROVE Counted
  BY <1>5, PauseHolds DEF TheCount!Next
<1>6. ASSUME Continue PROVE Counted
  BY <1>6, ContinueResumes DEF TheCount!Next
<1>7. ASSUME Poll PROVE Counted
  BY <1>7, PollEnds DEF TheCount!Next
<1>8. ASSUME NEW a \in Arguments, SetRate(a) PROVE Counted
  BY <1>8, SameBox DEF SetRate, Become, BecomeAs
<1>9. ASSUME SetThreshold PROVE Counted
  <2>1. verdict' = verdict /\ \E n \in Nat : \/ box' = [box EXCEPT !.threshold = n]
                                            \/ box' = [box EXCEPT !.thresholdcounter = n]
    BY <1>9, CounterAssumption DEF SetThreshold, Become, BecomeAs
  <2>2. ASSUME NEW n \in Nat, box' = [box EXCEPT !.threshold = n] PROVE Counted
    <3>1. box' \in AnyBox
      BY <2>2 DEF BoxInv, AnyBox
    <3>2. QED
      BY <2>1, <2>2, <3>1, OtherFields DEF BoxInv, AnyBox
  <2>3. ASSUME NEW n \in Nat, box' = [box EXCEPT !.thresholdcounter = n] PROVE Counted
    <3>1. box' \in AnyBox
      BY <2>3 DEF BoxInv, AnyBox
    <3>2. QED
      BY <2>1, <2>3, <3>1, OtherFields DEF BoxInv, AnyBox
  <2>4. QED
    BY <2>1, <2>2, <2>3
<1>10. ASSUME NEW f \in Failures, Fail(f) PROVE Counted
  <2>1. verdict' = verdict /\ box' = [box EXCEPT !.failures = @ \cup {f}]
    BY <1>10 DEF Fail, Become, BecomeAs
  <2>2. QED
    BY <2>1, OtherFields DEF BoxInv, AnyBox
<1>11. ASSUME Recover PROVE Counted
  <2>1. verdict' = verdict /\ box' = [box EXCEPT !.recover = TRUE]
    BY <1>11 DEF Recover, Become, BecomeAs
  <2>2. box' \in AnyBox
    BY <2>1 DEF BoxInv, AnyBox
  <2>3. QED
    BY <2>1, <2>2, OtherFields DEF BoxInv, AnyBox
<1>12. ASSUME Rmt1 \/ Echo2 \/ Hangup \/ Kill \/ Read \/ GeneratorEnds \/ UNCHANGED vars
       PROVE  Counted
  <2>1. UNCHANGED <<box, verdict>>
    BY <1>12 DEF Rmt1, Echo2, Hangup, Kill, Read, GeneratorEnds, vars
  <2>2. QED
    BY <2>1, SameBox
<1>13. ASSUME BenchPoll PROVE Counted
  BY <1>13, BenchPollEnds DEF TheCount!Next
<1>14. Counted
  BY EitherStep, <1>13, <1>1, <1>2, <1>3, <1>4, <1>5, <1>6, <1>7, <1>8, <1>9, <1>10, <1>11, <1>12 DEF Next, Line
<1>15. QED
  BY <1>0, <1>14

(* Either box keeps the account of Count: whatever is started, paused,      *)
(* continued, failed and recovered, the stamps tell the seconds that were   *)
(* counted from those lost to pauses, each pause from its last "ps" on, a   *)
(* count that is full has had its goal counted, and "ra" shows what the     *)
(* account says (el737counter.py:49-75, 125-198, 235-246).                  *)
THEOREM BoxKeepsCount == EitherSpec => KeepsCount
<1>1. Init => TheCount!Init
  <2>1. 0 \div CountRate = 0
    BY CounterAssumption
  <2>2. QED
    BY <2>1 DEF Init, TheCount!Init, CountPhase, CountedTime, PauseSoFar, Goal, Reported, Runtime
<1>2. QED
  BY <1>1, BoxInitial, StepsCount, PTL DEF EitherSpec, KeepsCount, TheCount!Spec

-----------------------------------------------------------------------------
(* What follows a rate that was announced is its number.                    *)
Announced(i) == IF i = Len(pipe) THEN partial \in Arguments ELSE pipe[i + 1] \in Arguments

RatesHaveNumbers ==
  /\ child = "running" => \A i \in 1 .. Len(pipe) : pipe[i] = Word("rate") => Announced(i)
  /\ child = "running" /\ main = "rate" => Announced(0)

(* The words that steer nothing.                                            *)
Silent == Arguments \cup {Word("rate")}

(* The last word that steers the generator is the one that was asked for:   *)
(* it waits in the pipe or has been read.                                   *)
WaitsAt(i) ==
  /\ pipe[i] = Word(asked)
  /\ \A j \in i + 1 .. Len(pipe) : pipe[j] \in Silent

HasBeenRead ==
  /\ \A j \in 1 .. Len(pipe) : pipe[j] \in Silent
  /\ main \in {"words", "rate"} => status = asked

LastWordCounts ==
  child = "running" /\ ~swallowed => HasBeenRead \/ \E i \in 1 .. Len(pipe) : WaitsAt(i)

(* What was asked for is what the box does, and before the generator is     *)
(* there nothing has been asked.                                            *)
AskedIsDone ==
  /\ session # "lost" /\ box.counting => asked = (IF box.mypaused THEN "pause" ELSE "run")
  /\ session \in {"local", "remote"} =>
       /\ child = "none" /\ ~box.counting
       /\ asked = "stop" /\ status = "stop" /\ main = "words"
       /\ pipe = <<>> /\ partial = NoWord /\ ~swallowed

PipeInv ==
  /\ asked \in {"run", "pause", "stop", "exit"}
  /\ pipe \in Seq(PipeWords) /\ partial \in Arguments \cup {NoWord}
  /\ RatesHaveNumbers /\ LastWordCounts

FollowInv == PipeInv /\ AskedIsDone

LEMMA WordsDiffer ==
  /\ Word("rate") \notin Arguments /\ NoWord \notin Arguments
  /\ \A w, v : Word(w) = Word(v) => w = v
  /\ \A w \in {"run", "pause", "stop", "exit"} :
       Word(w) \notin Silent /\ Word(w) \in PipeWords
  /\ Word("rate") \in PipeWords /\ Arguments \subseteq PipeWords
  BY DEF Word, Arguments, Number, Junk, NoWord, Silent, PipeWords, Words

(* The pipe grows by a word, which ends the rate that was left open; r is   *)
(* what is left open now.                                                   *)
LEMMA PipeGrows ==
  ASSUME PipeInv, NEW x \in PipeWords, pipe' = Append(pipe, x),
         partial # NoWord => x \in Arguments,
         partial' \in Arguments \cup {NoWord},
         x = Word("rate") => partial' \in Arguments,
         UNCHANGED <<child, main>>
  PROVE  pipe' \in Seq(PipeWords) /\ RatesHaveNumbers'
<1>1. /\ pipe \in Seq(PipeWords) /\ pipe' \in Seq(PipeWords)
      /\ Len(pipe) \in Nat /\ Len(pipe') = Len(pipe) + 1
      /\ \A i \in 1 .. Len(pipe) : pipe'[i] = pipe[i]
      /\ pipe'[Len(pipe) + 1] = x
  BY DEF PipeInv
<1>2. ASSUME NEW i \in 0 .. Len(pipe), child = "running", Announced(i)
      PROVE  Announced(i)'
  BY <1>1, <1>2, WordsDiffer DEF Announced, PipeInv
<1>3. ASSUME NEW i \in 1 .. Len(pipe'), child = "running", pipe'[i] = Word("rate")
      PROVE  Announced(i)'
  <2>1. CASE i \in 1 .. Len(pipe)
    <3>1. pipe[i] = Word("rate")
      BY <1>1, <1>3, <2>1
    <3>2. Announced(i)
      BY <1>3, <2>1, <3>1 DEF PipeInv, RatesHaveNumbers
    <3>3. QED
      BY <1>2, <1>3, <2>1, <3>2
  <2>2. CASE i = Len(pipe) + 1
    BY <1>1, <1>3, <2>2 DEF Announced
  <2>3. QED
    BY <1>1, <2>1, <2>2
<1>4. child = "running" /\ main = "rate" => Announced(0)'
  BY <1>1, <1>2 DEF PipeInv, RatesHaveNumbers
<1>5. QED
  BY <1>1, <1>3, <1>4 DEF RatesHaveNumbers

LEMMA SendFollows ==
  ASSUME PipeInv, NEW w \in {"run", "pause", "stop", "exit"}, Send(w),
         UNCHANGED <<child, generatorVars>>
  PROVE  PipeInv' /\ asked' = w
<1>1. asked' = w /\ swallowed' = (partial # NoWord) /\ UNCHANGED <<child, main, status>>
  BY DEF Send, generatorVars
<1>2. CASE child # "running"
  BY <1>1, <1>2 DEF Send, PipeInv, RatesHaveNumbers, LastWordCounts
<1>3. CASE child = "running"
  <2> DEFINE x == Enclosed(w)
  <2>1. pipe' = Append(pipe, x) /\ partial' = NoWord
    BY <1>3 DEF Send
  <2>2. /\ x \in PipeWords /\ x # Word("rate")
        /\ IF partial = NoWord THEN x = Word(w) ELSE x \in Arguments
    BY WordsDiffer DEF Enclosed, PipeInv, Silent
  <2> HIDE DEF x
  <2>3. pipe' \in Seq(PipeWords) /\ RatesHaveNumbers'
    BY <1>1, <2>1, <2>2, PipeGrows
  <2>4. /\ Len(pipe') \in Nat /\ Len(pipe') >= 1
        /\ partial = NoWord => pipe'[Len(pipe')] = Word(asked')
    BY <1>1, <2>1, <2>2 DEF PipeInv
  <2>5. LastWordCounts'
    <3>1. CASE swallowed'
      BY <3>1 DEF LastWordCounts
    <3>2. CASE ~swallowed'
      <4>1. pipe'[Len(pipe')] = Word(asked')
        BY <1>1, <2>4, <3>2
      <4>2. \A j \in Len(pipe') + 1 .. Len(pipe') : pipe'[j] \in Silent
        BY <2>4
      <4>3. Len(pipe') \in 1 .. Len(pipe')
        BY <2>4
      <4>4. QED
        BY <4>1, <4>2, <4>3 DEF LastWordCounts, WaitsAt
    <3>3. QED
      BY <3>1, <3>2
  <2>6. QED
    BY <1>1, <2>1, <2>3, <2>5 DEF PipeInv
<1>4. QED
  BY <1>2, <1>3

LEMMA RateFollows ==
  ASSUME PipeInv, NEW a \in Arguments, SendRate(a),
         UNCHANGED <<child, generatorVars>>
  PROVE  PipeInv' /\ UNCHANGED asked
<1>1. UNCHANGED <<asked, swallowed, child, main, status>>
  BY DEF SendRate, generatorVars
<1>2. CASE child # "running"
  BY <1>1, <1>2 DEF SendRate, PipeInv, RatesHaveNumbers, LastWordCounts
<1>3. CASE child = "running"
  <2> DEFINE x == Enclosed("rate")
  <2>1. pipe' = Append(pipe, x) /\ partial' = a
    BY <1>3 DEF SendRate
  <2>2. /\ x \in PipeWords /\ x \in Silent
        /\ partial # NoWord => x \in Arguments
    BY WordsDiffer DEF Enclosed, PipeInv, Silent
  <2> HIDE DEF x
  <2>3. pipe' \in Seq(PipeWords) /\ RatesHaveNumbers'
    BY <1>1, <2>1, <2>2, PipeGrows
  <2>4. /\ Len(pipe) \in Nat /\ Len(pipe') = Len(pipe) + 1
        /\ \A i \in 1 .. Len(pipe) : pipe'[i] = pipe[i]
        /\ pipe'[Len(pipe) + 1] \in Silent
    BY <2>1, <2>2 DEF PipeInv
  <2>5. HasBeenRead => HasBeenRead'
    BY <1>1, <2>4 DEF HasBeenRead
  <2>6. ASSUME NEW i \in 1 .. Len(pipe), WaitsAt(i) PROVE WaitsAt(i)' /\ i \in 1 .. Len(pipe')
    BY <1>1, <2>4, <2>6 DEF WaitsAt
  <2>7. LastWordCounts'
    BY <1>1, <2>5, <2>6 DEF PipeInv, LastWordCounts
  <2>8. QED
    BY <1>1, <2>1, <2>3, <2>7 DEF PipeInv
<1>4. QED
  BY <1>2, <1>3

LEMMA ReadFollows ==
  ASSUME PipeInv, Read
  PROVE  PipeInv'
<1>1. /\ child = "running" /\ pipe # <<>> /\ pipe' = Tail(pipe)
      /\ UNCHANGED <<child, partial, asked, swallowed>>
  BY DEF Read
<1>2. /\ Len(pipe) \in Nat \ {0} /\ Len(pipe') = Len(pipe) - 1
      /\ pipe' \in Seq(PipeWords)
      /\ \A i \in 1 .. Len(pipe') : pipe'[i] = pipe[i + 1]
      /\ pipe[1] \in PipeWords
  BY <1>1 DEF PipeInv
<1>3. ASSUME NEW i \in 0 .. Len(pipe'), Announced(i + 1)
      PROVE  IF i = Len(pipe') THEN partial' \in Arguments ELSE pipe'[i + 1] \in Arguments
  <2>1. CASE i = Len(pipe')
    <3>1. i + 1 = Len(pipe)
      BY <1>2, <2>1
    <3>2. QED
      BY <1>1, <1>3, <2>1, <3>1 DEF Announced
  <2>2. CASE i # Len(pipe')
    <3>1. i + 1 # Len(pipe) /\ i + 1 \in 1 .. Len(pipe')
      BY <1>2, <2>2
    <3>2. pipe'[i + 1] = pipe[(i + 1) + 1]
      BY <1>2, <3>1
    <3>3. QED
      BY <1>3, <2>2, <3>1, <3>2 DEF Announced
  <2>3. QED
    BY <2>1, <2>2
<1>4. ASSUME NEW i \in 1 .. Len(pipe'), pipe'[i] = Word("rate")
      PROVE  IF i = Len(pipe') THEN partial' \in Arguments ELSE pipe'[i + 1] \in Arguments
  <2>1. pipe[i + 1] = Word("rate") /\ i + 1 \in 1 .. Len(pipe)
    BY <1>2, <1>4
  <2>2. Announced(i + 1)
    BY <1>1, <2>1 DEF PipeInv, RatesHaveNumbers
  <2>3. QED
    BY <1>2, <1>3, <2>2
(* What the generator makes of the first word.                              *)
<1>5. \/ main = "words" /\ main' = "rate" /\ status' = status /\ pipe[1] = Word("rate")
      \/ main = "words" /\ main' = "words" /\ status' = status /\ pipe[1] \in Arguments
      \/ main = "rate" /\ main' \in {"words", "unwind"} /\ status' = status /\ pipe[1] \in Arguments
      \/ /\ main = "words" /\ main' \in {"words", "join"}
         /\ pipe[1] = Word(status') /\ status' \in {"run", "pause", "stop", "exit"}
  <2> DEFINE word == Head(pipe)
  <2>1. word = pipe[1]
    BY <1>1, <1>2
  <2>2. \/ TakeStatus(word) \/ TakeRate(word) \/ TakeArgument(word)
        \/ TakeBadArgument(word) \/ Ignore(word)
    BY DEF Read
  <2> HIDE DEF word
  <2>3. CASE TakeStatus(word)
    BY <2>1, <2>3 DEF TakeStatus, Ctl!ReadStatus, Words
  <2>4. CASE TakeRate(word)
    BY <2>1, <2>4 DEF TakeRate, Ctl!ReadRate
  <2>5. CASE TakeArgument(word)
    BY <2>1, <2>5 DEF TakeArgument, Ctl!ReadArgument, Arguments
  <2>6. CASE TakeBadArgument(word)
    BY <2>1, <2>6 DEF TakeBadArgument, Ctl!ReadBadArgument, Arguments
  <2>7. CASE Ignore(word)
    BY <2>1, <2>7 DEF Ignore, generatorVars
  <2>8. QED
    BY <2>2, <2>3, <2>4, <2>5, <2>6, <2>7
<1>6. ASSUME main' = "rate"
      PROVE  IF Len(pipe') = 0 THEN partial' \in Arguments ELSE pipe'[1] \in Arguments
  <2>1. pipe[1] = Word("rate") /\ 1 \in 1 .. Len(pipe)
    BY <1>2, <1>5, <1>6
  <2>2. Announced(1)
    BY <1>1, <2>1 DEF PipeInv, RatesHaveNumbers
  <2>3. IF 1 = Len(pipe) THEN partial \in Arguments ELSE pipe[1 + 1] \in Arguments
    BY <2>2 DEF Announced
  <2>4. QED
    BY <1>1, <1>2, <2>3
<1>7. RatesHaveNumbers'
  BY <1>4, <1>6 DEF RatesHaveNumbers, Announced
<1>8. ASSUME NEW i \in 2 .. Len(pipe), WaitsAt(i)
      PROVE  LastWordCounts'
  <2>1. i - 1 \in 1 .. Len(pipe')
    BY <1>2
  <2>2. pipe'[i - 1] = Word(asked')
    BY <1>1, <1>2, <1>8 DEF WaitsAt
  <2>3. \A j \in (i - 1) + 1 .. Len(pipe') : pipe'[j] \in Silent
    BY <1>1, <1>2, <1>8 DEF WaitsAt
  <2>4. QED
    BY <2>1, <2>2, <2>3 DEF LastWordCounts, WaitsAt
<1>9. ASSUME WaitsAt(1) PROVE HasBeenRead'
  <2>1. \A j \in 1 .. Len(pipe') : pipe'[j] \in Silent
    BY <1>1, <1>2, <1>9 DEF WaitsAt
  <2>2. pipe[1] = Word(asked) /\ asked \in {"run", "pause", "stop", "exit"}
    BY <1>9 DEF WaitsAt, PipeInv
  <2>3. pipe[1] \notin Arguments /\ pipe[1] # Word("rate")
    BY <2>2, WordsDiffer DEF Silent
  <2>4. status' = asked
    BY <1>5, <2>2, <2>3, WordsDiffer
  <2>5. QED
    BY <1>1, <2>1, <2>4 DEF HasBeenRead
<1>10. ASSUME HasBeenRead PROVE HasBeenRead'
  <2>1. \A j \in 1 .. Len(pipe') : pipe'[j] \in Silent
    BY <1>1, <1>2, <1>10 DEF HasBeenRead
  <2>2. pipe[1] \in Silent
    BY <1>2, <1>10 DEF HasBeenRead
  <2>3. main \in {"words", "rate"} /\ status' = status
    BY <1>5, <2>2, WordsDiffer
  <2>4. QED
    BY <1>1, <1>10, <2>1, <2>3 DEF HasBeenRead
<1>11. LastWordCounts'
  <2>1. CASE swallowed
    BY <1>1, <2>1 DEF LastWordCounts
  <2>2. CASE ~swallowed
    BY <1>1, <1>2, <1>8, <1>9, <1>10, <2>2 DEF PipeInv, LastWordCounts
  <2>3. QED
    BY <2>1, <2>2
<1>12. QED
  BY <1>1, <1>2, <1>7, <1>11 DEF PipeInv

LEMMA QuietFollows ==
  ASSUME PipeInv, Quietly, UNCHANGED <<child, generatorVars>>
  PROVE  PipeInv' /\ UNCHANGED asked
<1>1. UNCHANGED <<pipe, partial, asked, swallowed, child, status, main>>
  BY DEF Quietly, pipeVars, generatorVars
<1>2. RatesHaveNumbers' /\ LastWordCounts'
  BY <1>1 DEF PipeInv, RatesHaveNumbers, LastWordCounts, Announced, HasBeenRead, WaitsAt
<1>3. QED
  BY <1>1, <1>2 DEF PipeInv

(* Lines and polls: what is asked for fits what the box does then.          *)
LEMMA LinesFollow ==
  ASSUME BoxInv, FollowInv, Line \/ Poll \/ BenchPoll
  PROVE  FollowInv'
<1>1. /\ session = "open" /\ session' = "open"
      /\ UNCHANGED <<child, generatorVars>>
  BY DEF Line, NewCount, Start, StartWithoutPreset, Stop, Pause, Continue, SetRate, SetThreshold,
         Fail, Recover, Poll, BenchPoll, Become, BecomeAs
<1>2. ASSUME PipeInv', box'.counting => asked' = (IF box'.mypaused THEN "pause" ELSE "run")
      PROVE  FollowInv'
  BY <1>1, <1>2 DEF FollowInv, AskedIsDone
<1>3. ASSUME Quietly, box'.counting => box.counting /\ box'.mypaused = box.mypaused
      PROVE  FollowInv'
  <2>1. PipeInv' /\ UNCHANGED asked
    BY <1>1, <1>3, QuietFollows DEF FollowInv
  <2>2. QED
    BY <1>1, <1>2, <1>3, <2>1 DEF FollowInv, AskedIsDone
<1>4. ASSUME NewCount PROVE FollowInv'
  <2>1. Send("run") /\ box'.counting /\ ~box'.mypaused
    BY <1>4 DEF NewCount, Start, Become, BecomeAs, BoxInv, AnyBox
  <2>2. QED
    BY <1>1, <1>2, <2>1, SendFollows DEF FollowInv
<1>5. ASSUME StartWithoutPreset PROVE FollowInv'
  BY <1>3, <1>5 DEF StartWithoutPreset, Become, BecomeAs, BoxInv, AnyBox
<1>6. ASSUME Stop PROVE FollowInv'
  <2>1. Send("stop") /\ ~box'.counting
    BY <1>6 DEF Stop, BecomeAs, BoxInv, AnyBox
  <2>2. QED
    BY <1>1, <1>2, <2>1, SendFollows DEF FollowInv
<1>7. ASSUME Pause PROVE FollowInv'
  <2>1. Send("pause") /\ box'.mypaused
    BY <1>7 DEF Pause, Become, BecomeAs, BoxInv, AnyBox
  <2>2. QED
    BY <1>1, <1>2, <2>1, SendFollows DEF FollowInv
<1>8. ASSUME Continue PROVE FollowInv'
  <2>1. Send("run") /\ ~box'.mypaused
    BY <1>8 DEF Continue, Become, BecomeAs, BoxInv, AnyBox
  <2>2. QED
    BY <1>1, <1>2, <2>1, SendFollows DEF FollowInv
<1>9. ASSUME NEW a \in Arguments, SetRate(a) PROVE FollowInv'
  <2>1. SendRate(a) /\ box' = box
    BY <1>9 DEF SetRate, Become, BecomeAs
  <2>2. PipeInv' /\ UNCHANGED asked
    BY <1>1, <2>1, RateFollows DEF FollowInv
  <2>3. QED
    BY <1>1, <1>2, <2>1, <2>2 DEF FollowInv, AskedIsDone
<1>10. ASSUME SetThreshold PROVE FollowInv'
  BY <1>3, <1>10 DEF SetThreshold, Become, BecomeAs, BoxInv, AnyBox
<1>11. ASSUME NEW f \in Failures, Fail(f) PROVE FollowInv'
  BY <1>3, <1>11 DEF Fail, Become, BecomeAs, BoxInv, AnyBox
<1>12. ASSUME Recover PROVE FollowInv'
  BY <1>3, <1>12 DEF Recover, Become, BecomeAs, BoxInv, AnyBox
<1>13. ASSUME NEW now, CountsAs(now), box' \in {CountStatus(now), BenchCountStatus(now)},
              IF Expired(now) THEN Send("pause") \/ Quietly ELSE Quietly
       PROVE  FollowInv'
  <2>1. CASE Expired(now)
    <3>1. ~box'.counting
      BY <1>13, <2>1 DEF CountStatus, BenchCountStatus, CountsAs, AnyBox
    <3>2. QED
      BY <1>1, <1>2, <1>3, <1>13, <2>1, <3>1, SendFollows DEF FollowInv
  <2>2. CASE ~Expired(now)
    <3>1. box'.counting => box.counting /\ box'.mypaused = box.mypaused
      BY <1>13, <2>2 DEF CountStatus, BenchCountStatus, CountsAs, AnyBox
    <3>2. QED
      BY <1>3, <1>13, <2>2, <3>1
  <2>3. QED
    BY <2>1, <2>2
<1>14. ASSUME Poll PROVE FollowInv'
  <2>1. CASE HasFailed(box)
    BY <1>3, <1>14, <2>1 DEF Poll, Become, BecomeAs
  <2>2. CASE ~HasFailed(box)
    <3> DEFINE now == Recovered(box)
    <3>1. CountsAs(now)
      BY DEF BoxInv, AnyBox, Recovered, CountsAs
    <3>2. box' = CountStatus(now) /\ IF Expired(now) THEN Send("pause") ELSE Quietly
      BY <1>14, <2>2 DEF Poll, BecomeAs
    <3> HIDE DEF now
    <3>3. QED
      BY <1>13, <3>1, <3>2
  <2>3. QED
    BY <2>1, <2>2
<1>15. ASSUME BenchPoll PROVE FollowInv'
  <2>1. CountsAs(box) /\ box' = BenchCountStatus(box) /\ Quietly
    BY <1>15 DEF BenchPoll, BecomeAs, CountsAs, BoxInv
  <2>2. QED
    BY <1>13, <2>1
<1>16. QED
  BY <1>4, <1>5, <1>6, <1>7, <1>8, <1>9, <1>10, <1>11, <1>12, <1>14, <1>15 DEF Line

LEMMA StepsFollow ==
  BoxInv /\ FollowInv /\ [EitherNext]_vars => FollowInv'
<1> SUFFICES ASSUME BoxInv, FollowInv, [EitherNext]_vars
             PROVE  FollowInv'
  OBVIOUS
<1>1. ASSUME UNCHANGED <<child, pipeVars, generatorVars>>, PipeInv PROVE PipeInv' /\ UNCHANGED asked
  BY <1>1, QuietFollows DEF Quietly
<1>2. CASE Tick
  <2>1. /\ UNCHANGED <<session, child, pipeVars, generatorVars>>
        /\ box'.counting = box.counting /\ box'.mypaused = box.mypaused
    BY <1>2 DEF Tick, BoxInv, AnyBox
  <2>2. QED
    BY <1>1, <2>1 DEF FollowInv, AskedIsDone, pipeVars, generatorVars
<1>3. CASE Rmt1 \/ UNCHANGED vars
  <2>1. /\ UNCHANGED <<box, child, pipeVars, generatorVars>>
        /\ session' = session \/ (session = "local" /\ session' = "remote")
    BY <1>3 DEF Rmt1, vars
  <2>2. QED
    BY <1>1, <2>1 DEF FollowInv, AskedIsDone, pipeVars, generatorVars
<1>4. CASE Echo2
  <2>1. /\ session = "remote" /\ session' = "open"
        /\ UNCHANGED <<box, pipe, partial, asked, swallowed, status, main>>
    BY <1>4 DEF Echo2, pipeVars, generatorVars
  <2>2. pipe = <<>> /\ ~box.counting /\ asked = "stop" /\ status = "stop" /\ main = "words"
    BY <2>1 DEF FollowInv, AskedIsDone
  <2>3. Len(pipe') = 0 /\ HasBeenRead' /\ main' # "rate"
    BY <2>1, <2>2 DEF HasBeenRead
  <2>4. RatesHaveNumbers' /\ LastWordCounts'
    BY <2>3 DEF RatesHaveNumbers, LastWordCounts
  <2>5. QED
    BY <2>1, <2>2, <2>4 DEF FollowInv, PipeInv, AskedIsDone
<1>5. CASE Line \/ Poll \/ BenchPoll
  BY <1>5, LinesFollow
<1>6. CASE Hangup
  <2>1. Send("exit") /\ session' = "lost" /\ UNCHANGED <<child, generatorVars>>
    BY <1>6 DEF Hangup
  <2>2. QED
    BY <2>1, SendFollows DEF FollowInv, AskedIsDone
<1>7. CASE Kill \/ GeneratorEnds
  <2>1. /\ child = "running" /\ child' = "dead"
        /\ UNCHANGED <<session, box, pipe, partial, asked, swallowed, status, main>>
    BY <1>7 DEF Kill, GeneratorEnds, pipeVars, generatorVars
  <2>2. QED
    BY <2>1 DEF FollowInv, PipeInv, RatesHaveNumbers, LastWordCounts, AskedIsDone
<1>8. CASE Read
  <2>1. PipeInv'
    BY <1>8, ReadFollows DEF FollowInv
  <2>2. child = "running" /\ UNCHANGED <<session, box, asked>>
    BY <1>8 DEF Read
  <2>3. QED
    BY <2>1, <2>2 DEF FollowInv, AskedIsDone
<1>9. QED
  BY EitherStep, <1>2, <1>3, <1>4, <1>5, <1>6, <1>7, <1>8 DEF Next

(* Once it has read all its words the generator does what the box counts    *)
(* on, of whatever lines in whatever order: the last word that steers it is *)
(* the last one asked for, unless a rate has swallowed that                 *)
(* (el737counter.py:49-73, 125-198; control.hpp:70-98).                     *)
THEOREM GeneratorFollowsTheBox == EitherSpec => []GeneratorFollows
<1>1. Init => BoxInv /\ FollowInv
  <2>1. ASSUME Init PROVE FollowInv
    BY <2>1 DEF Init, FollowInv, PipeInv, RatesHaveNumbers, LastWordCounts, HasBeenRead, AskedIsDone, Ctl!CtlInit
  <2>2. QED
    BY <2>1, BoxInitial
<1>2. BoxInv /\ FollowInv => GeneratorFollows
  BY DEF FollowInv, PipeInv, LastWordCounts, HasBeenRead, AskedIsDone, GeneratorFollows, Settled
<1>3. QED
  BY <1>1, <1>2, StepsCount, StepsFollow, PTL DEF EitherSpec

-----------------------------------------------------------------------------
(* The bounds on the clock hold because a pause that is under way counts    *)
(* towards MaxPaused before it has been added.                              *)
PauseFits == box.mypaused => box.pausedTime + (box.clock - box.pausestart) <= MaxPaused

TypeInv == BoxInv /\ FollowInv /\ TypeOK /\ PauseFits

LEMMA SendFits ==
  ASSUME TypeOK, Quietly \/ (\E w : Send(w)) \/ (\E a : SendRate(a))
  PROVE  Len(pipe') <= PipeMax /\ swallowed' \in BOOLEAN
<1>1. pipe \in Seq(PipeWords) /\ Len(pipe) <= PipeMax /\ swallowed \in BOOLEAN /\ PipeMax \in Nat
  BY CounterAssumption DEF TypeOK
<1>2. swallowed' \in BOOLEAN
  BY <1>1 DEF Quietly, pipeVars, Send, SendRate
<1>3. pipe' = pipe \/ (Len(pipe) < PipeMax /\ \E x : pipe' = Append(pipe, x))
  BY DEF Quietly, pipeVars, Send, SendRate
<1>4. ASSUME NEW x, pipe' = Append(pipe, x), Len(pipe) < PipeMax PROVE Len(pipe') <= PipeMax
  BY <1>1, <1>4
<1>5. QED
  BY <1>1, <1>2, <1>3, <1>4

(* A line or a poll leaves the connection as it is; its box is to be typed. *)
LEMMA BoxTyped ==
  ASSUME TypeInv, FollowInv', box' \in Boxes, PauseFits',
         session = "open" /\ session' = "open" /\ UNCHANGED <<client, child, generatorVars>>,
         verdict' \in {"full", "broken"},
         Quietly \/ (\E w : Send(w)) \/ (\E a : SendRate(a))
  PROVE  TypeOK' /\ PauseFits'
<1>1. Len(pipe') <= PipeMax /\ swallowed' \in BOOLEAN
  BY SendFits DEF TypeInv
<1>2. Ctl!CtlTypeOK'
  BY DEF TypeInv, TypeOK, Ctl!CtlTypeOK, generatorVars
<1>3. client' \in Clients /\ child' \in {"none", "running", "dead"}
  BY DEF TypeInv, TypeOK
<1>4. pipe' \in Seq(PipeWords) /\ partial' \in Arguments \cup {NoWord} /\ asked' \in Words
  BY DEF FollowInv, PipeInv, Words
<1>5. QED
  BY <1>1, <1>2, <1>3, <1>4 DEF TypeOK

LEMMA LinesTyped ==
  ASSUME TypeInv, FollowInv', Line \/ Poll \/ BenchPoll
  PROVE  TypeOK' /\ PauseFits'
<1>1. session = "open" /\ session' = "open" /\ UNCHANGED <<client, child, generatorVars>>
  BY DEF Line, NewCount, Start, StartWithoutPreset, Stop, Pause, Continue, SetRate, SetThreshold,
         Fail, Recover, Poll, BenchPoll, Become, BecomeAs
<1>2. Presets \subseteq Nat /\ MaxTicks \in Nat /\ MaxPaused \in Nat
  BY CounterAssumption
<1>3. box \in Boxes /\ verdict \in {"full", "broken"}
  BY DEF TypeInv, TypeOK
<1>4. ASSUME NewCount PROVE TypeOK' /\ PauseFits'
  <2>1. PICK mode \in {"timer", "monitor"}, p \in Presets : Start(mode, p)
    BY <1>4 DEF NewCount
  <2>2. /\ box' = [box EXCEPT !.mode = mode, !.preset = p,
                          !.clock = 0, !.pausestart = 0, !.endtime = 0,
                          !.mypaused = FALSE, !.pausedTime = 0,
                          !.counting = TRUE]
        /\ verdict' = verdict /\ Send("run")
    BY <2>1 DEF Start, Become, BecomeAs
  <2>3. 0 \in Times /\ 0 \in 0 .. MaxPaused
    BY <1>2 DEF Times
  <2>4. box' \in Boxes
    BY <1>3, <2>2, <2>3 DEF Boxes
  <2>5. PauseFits'
    BY <1>3, <2>2 DEF Boxes, PauseFits
  <2>6. QED
    BY <1>1, <1>3, <2>2, <2>4, <2>5, BoxTyped
<1>5. ASSUME StartWithoutPreset PROVE TypeOK' /\ PauseFits'
  <2>1. box' = [box EXCEPT !.mode = "timer"] /\ verdict' = verdict /\ Quietly
    BY <1>5 DEF StartWithoutPreset, Become, BecomeAs
  <2>2. box' \in Boxes /\ PauseFits'
    BY <1>3, <2>1 DEF TypeInv, Boxes, PauseFits
  <2>3. QED
    BY <1>1, <1>3, <2>1, <2>2, BoxTyped
<1>6. ASSUME Stop PROVE TypeOK' /\ PauseFits'
  <2>1. /\ box' = [box EXCEPT !.counting = FALSE, !.endtime = box.clock]
        /\ verdict' = "broken" /\ Send("stop")
    BY <1>6 DEF Stop, BecomeAs
  <2>2. box.clock \in Nat
    BY <1>2, <1>3 DEF Boxes, Times
  <2>3. box' \in Boxes
    BY <1>3, <2>1, <2>2 DEF Boxes
  <2>4. PauseFits'
    BY <1>3, <2>1 DEF TypeInv, Boxes, PauseFits
  <2>5. QED
    BY <1>1, <2>1, <2>3, <2>4, BoxTyped
<1>7. ASSUME Pause PROVE TypeOK' /\ PauseFits'
  <2>1. /\ box' = [box EXCEPT !.counting = TRUE, !.mypaused = TRUE, !.pausestart = box.clock]
        /\ verdict' = verdict /\ Send("pause")
    BY <1>7 DEF Pause, Become, BecomeAs
  <2>2. box' \in Boxes
    BY <1>3, <2>1 DEF Boxes
  <2>3. PauseFits'
    <3>1. box'.pausedTime = box.pausedTime /\ box'.clock = box.clock /\ box'.pausestart = box.clock
      BY <1>3, <2>1 DEF Boxes
    <3>2. box.pausedTime \in 0 .. MaxPaused /\ box.clock \in Times
      BY <1>3 DEF Boxes
    <3>3. QED
      BY <1>2, <3>1, <3>2 DEF PauseFits, Times
  <2>4. QED
    BY <1>1, <1>3, <2>1, <2>2, <2>3, BoxTyped
<1>8. ASSUME Continue PROVE TypeOK' /\ PauseFits'
  <2>1. Send("run") /\ verdict' = verdict
    BY <1>8 DEF Continue, Become, BecomeAs
  <2>2. CASE box.mypaused
    <3> DEFINE paused == box.pausedTime + (box.clock - box.pausestart)
    <3>1. box' = [box EXCEPT !.mypaused = FALSE, !.pausedTime = paused]
      BY <1>3, <1>8, <2>2 DEF Continue, Become, BecomeAs, Boxes
    <3>2. paused \in 0 .. MaxPaused
      <4>1. /\ box.clock \in Nat /\ box.pausestart \in Nat /\ box.pausedTime \in Nat
            /\ box.pausestart <= box.clock
        BY DEF TypeInv, BoxInv, AnyBox, PausesHavePassed
      <4>2. QED
        BY <1>2, <2>2, <4>1 DEF TypeInv, PauseFits
    <3> HIDE DEF paused
    <3>3. box' \in Boxes /\ ~box'.mypaused
      BY <1>3, <3>1, <3>2 DEF Boxes
    <3>4. QED
      BY <1>1, <1>3, <2>1, <3>3, BoxTyped DEF PauseFits
  <2>3. CASE ~box.mypaused
    <3>1. box' = box
      BY <1>8, <2>3 DEF Continue, Become, BecomeAs
    <3>2. QED
      BY <1>1, <1>3, <2>1, <2>3, <3>1, BoxTyped DEF PauseFits
  <2>4. QED
    BY <2>2, <2>3
<1>9. ASSUME NEW a \in Arguments, SetRate(a) PROVE TypeOK' /\ PauseFits'
  <2>1. box' = box /\ verdict' = verdict /\ SendRate(a)
    BY <1>9 DEF SetRate, Become, BecomeAs
  <2>2. QED
    BY <1>1, <1>3, <2>1, BoxTyped DEF TypeInv, PauseFits
<1>10. ASSUME SetThreshold PROVE TypeOK' /\ PauseFits'
  <2>1. /\ verdict' = verdict /\ Quietly
        /\ \E n \in Presets : box' \in {[box EXCEPT !.threshold = n], [box EXCEPT !.thresholdcounter = n]}
    BY <1>10 DEF SetThreshold, Become, BecomeAs
  <2>2. box' \in Boxes /\ PauseFits'
    BY <1>3, <2>1 DEF TypeInv, Boxes, PauseFits
  <2>3. QED
    BY <1>1, <1>3, <2>1, <2>2, BoxTyped
<1>11. ASSUME Recover \/ \E f \in Failures : Fail(f) PROVE TypeOK' /\ PauseFits'
  <2>1. /\ verdict' = verdict /\ Quietly
        /\ \/ box' = [box EXCEPT !.recover = TRUE]
           \/ \E f \in Failures : box' = [box EXCEPT !.failures = @ \cup {f}]
    BY <1>11 DEF Recover, Fail, Become, BecomeAs
  <2>2. box' \in Boxes
    <3>1. [box EXCEPT !.recover = TRUE] \in Boxes
      BY <1>3 DEF Boxes
    <3>2. ASSUME NEW f \in Failures PROVE [box EXCEPT !.failures = @ \cup {f}] \in Boxes
      BY <1>3 DEF Boxes
    <3>3. QED
      BY <2>1, <3>1, <3>2
  <2>3. /\ box'.mypaused = box.mypaused /\ box'.clock = box.clock
        /\ box'.pausestart = box.pausestart /\ box'.pausedTime = box.pausedTime
    BY <1>3, <2>1 DEF Boxes
  <2>4. PauseFits'
    BY <2>3 DEF TypeInv, PauseFits
  <2>5. QED
    BY <1>1, <1>3, <2>1, <2>2, <2>4, BoxTyped
<1>12. ASSUME NEW now \in Boxes, CountsAs(now), box' \in {CountStatus(now), BenchCountStatus(now)},
              verdict' \in {"full", "broken"}, Send("pause") \/ Quietly
       PROVE  TypeOK' /\ PauseFits'
  <2>1. Goal(now) \in Nat
    BY <1>12, GoalIsNatural DEF CountsAs
  <2>2. now.clock \in Nat
    BY <1>12 DEF CountsAs, AnyBox
  <2>3. \/ /\ Expired(now)
           /\ box' = [now EXCEPT !.counting = FALSE, !.endtime = Goal(now),
                        !.pausedTime = IF now.mode = "timer" THEN 0 ELSE @]
        \/ box' = [now EXCEPT !.counting = FALSE, !.endtime = now.clock,
                      !.failures = @ \cup {"atrun"}]
        \/ box' = now
    BY <1>12 DEF CountStatus, BenchCountStatus
  <2>4. box' \in Boxes
    <3>1. ASSUME NEW p \in 0 .. MaxPaused PROVE [now EXCEPT !.counting = FALSE, !.endtime = Goal(now), !.pausedTime = p] \in Boxes
      BY <1>12, <2>1 DEF Boxes
    <3>2. now.pausedTime \in 0 .. MaxPaused /\ 0 \in 0 .. MaxPaused
      BY <1>2, <1>12 DEF Boxes
    <3>3. [now EXCEPT !.counting = FALSE, !.endtime = now.clock, !.failures = @ \cup {"atrun"}] \in Boxes
      BY <1>12, <2>2 DEF Boxes
    <3>4. now.mode = "timer" \/ now.mode # "timer"
      OBVIOUS
    <3>5. QED
      BY <1>12, <2>3, <3>1, <3>2, <3>3, <3>4
  <2>5. PauseFits'
    <3>1. CASE Expired(now)
      <4>1. ~box'.mypaused
        BY <1>12, <2>3, <3>1 DEF Expired, OnTheClock, Boxes
      <4>2. QED
        BY <4>1 DEF PauseFits
    <3>2. CASE ~Expired(now)
      <4>1. /\ box'.mypaused = now.mypaused /\ box'.clock = now.clock
            /\ box'.pausestart = now.pausestart /\ box'.pausedTime = now.pausedTime
        BY <1>12, <2>3, <3>2 DEF Boxes
      <4>2. QED
        BY <1>12, <4>1 DEF CountsAs, TypeInv, PauseFits
    <3>3. QED
      BY <3>1, <3>2
  <2>6. QED
    BY <1>1, <1>12, <2>4, <2>5, BoxTyped
<1>13. ASSUME Poll PROVE TypeOK' /\ PauseFits'
  <2>1. CASE HasFailed(box)
    <3>1. box' = box /\ verdict' = verdict /\ Quietly
      BY <1>13, <2>1 DEF Poll, Become, BecomeAs
    <3>2. QED
      BY <1>1, <1>3, <3>1, BoxTyped DEF TypeInv, PauseFits
  <2>2. CASE ~HasFailed(box)
    <3> DEFINE now == Recovered(box)
    <3>1. now \in Boxes /\ CountsAs(now)
      BY <1>3 DEF TypeInv, BoxInv, AnyBox, Recovered, CountsAs, Boxes
    <3>2. /\ box' = CountStatus(now) /\ (Send("pause") \/ Quietly)
          /\ verdict' \in {"full", "broken"}
      BY <1>3, <1>13, <2>2 DEF Poll, BecomeAs, Verdict
    <3> HIDE DEF now
    <3>3. QED
      BY <1>12, <3>1, <3>2
  <2>3. QED
    BY <2>1, <2>2
<1>14. ASSUME BenchPoll PROVE TypeOK' /\ PauseFits'
  <2>1. /\ CountsAs(box) /\ box' = BenchCountStatus(box) /\ Quietly
        /\ verdict' \in {"full", "broken"}
    BY <1>3, <1>14 DEF BenchPoll, BecomeAs, CountsAs, TypeInv, BoxInv
  <2>2. QED
    BY <1>3, <1>12, <2>1
<1>15. QED
  BY <1>4, <1>5, <1>6, <1>7, <1>8, <1>9, <1>10, <1>11, <1>13, <1>14 DEF Line

LEMMA StepsTyped ==
  TypeInv /\ BoxInv' /\ FollowInv' /\ [EitherNext]_vars => TypeInv'
<1> SUFFICES ASSUME TypeInv, BoxInv', FollowInv', [EitherNext]_vars
             PROVE  TypeOK' /\ PauseFits'
  BY DEF TypeInv
<1>1. /\ MaxTicks \in Nat /\ MaxPaused \in Nat /\ box \in Boxes
      /\ pipe' \in Seq(PipeWords) /\ partial' \in Arguments \cup {NoWord} /\ asked' \in Words
  BY CounterAssumption DEF TypeInv, TypeOK, FollowInv, PipeInv, Words
<1>2. CASE Tick
  <2>1. /\ UNCHANGED <<client, session, child, pipeVars, verdict, generatorVars>>
        /\ box' = [box EXCEPT !.clock = @ + 1]
        /\ box.clock - box.pausedTime < MaxTicks
        /\ box.mypaused => box.pausedTime + box.clock - box.pausestart < MaxPaused
    BY <1>2 DEF Tick, Runtime
  <2>2. /\ box.clock \in Times /\ box.pausestart \in Times /\ box.pausedTime \in 0 .. MaxPaused
        /\ box.mypaused \in BOOLEAN
    BY <1>1 DEF Boxes
  <2>3. box.clock + 1 \in Times
    BY <1>1, <2>1, <2>2 DEF Times
  <2>4. box' \in Boxes
    BY <1>1, <2>1, <2>3 DEF Boxes
  <2>5. /\ box'.clock = box.clock + 1 /\ box'.pausestart = box.pausestart
        /\ box'.pausedTime = box.pausedTime /\ box'.mypaused = box.mypaused
    BY <1>1, <2>1 DEF Boxes
  <2>6. PauseFits'
    <3> DEFINE c == box.clock   b == box.pausestart   t == box.pausedTime
    <3>1. c \in Nat /\ b \in Nat /\ t \in Nat
      BY <2>2 DEF Times
    <3>2. box.mypaused => t + c - b < MaxPaused
      BY <2>1
    <3> HIDE DEF c, b, t
    <3>3. box.mypaused => t + ((c + 1) - b) <= MaxPaused
      BY <1>1, <3>1, <3>2
    <3>4. QED
      BY <2>5, <3>3 DEF PauseFits, c, b, t
  <2>7. QED
    BY <1>1, <2>1, <2>4, <2>6 DEF TypeInv, TypeOK, Ctl!CtlTypeOK, pipeVars, generatorVars
<1>3. CASE Rmt1 \/ Echo2 \/ UNCHANGED vars
  BY <1>1, <1>3 DEF Rmt1, Echo2, vars, TypeInv, TypeOK, PauseFits, Ctl!CtlTypeOK, pipeVars, generatorVars
<1>4. CASE Line \/ Poll \/ BenchPoll
  BY <1>4, LinesTyped
<1>5. CASE Hangup
  <2>1. Len(pipe') <= PipeMax /\ swallowed' \in BOOLEAN
    BY <1>5, SendFits DEF Hangup, TypeInv
  <2>2. UNCHANGED <<client, box, child, verdict, generatorVars>> /\ session' = "lost"
    BY <1>5 DEF Hangup
  <2>3. QED
    BY <1>1, <2>1, <2>2 DEF TypeInv, TypeOK, PauseFits, Ctl!CtlTypeOK, generatorVars
<1>6. CASE Kill \/ GeneratorEnds
  BY <1>1, <1>6 DEF Kill, GeneratorEnds, TypeInv, TypeOK, PauseFits, Ctl!CtlTypeOK, pipeVars, generatorVars
<1>7. CASE Read
  <2>1. UNCHANGED <<client, session, box, child, partial, asked, swallowed, verdict>>
    BY <1>7 DEF Read
  <2>2. Len(pipe') <= PipeMax
    <3>1. pipe \in Seq(PipeWords) /\ pipe # <<>> /\ pipe' = Tail(pipe) /\ Len(pipe) <= PipeMax
      BY <1>7 DEF Read, TypeInv, TypeOK
    <3>2. QED
      BY <3>1, CounterAssumption
  <2>3. Ctl!CtlTypeOK'
    BY <1>7 DEF Read, TypeInv, TypeOK, Ctl!CtlTypeOK, TakeStatus, TakeRate, TakeArgument, TakeBadArgument,
                Ignore, Ctl!ReadStatus, Ctl!ReadRate, Ctl!ReadArgument, Ctl!ReadBadArgument,
                Words, Ctl!Statuses, generatorVars
  <2>4. QED
    BY <1>1, <2>1, <2>2, <2>3 DEF TypeInv, TypeOK, PauseFits
<1>8. QED
  BY EitherStep, <1>2, <1>3, <1>4, <1>5, <1>6, <1>7 DEF Next

(* The state of the box, the pipe and the generator is of its types; the    *)
(* times of a count and the words in the pipe stay within the bounds        *)
(* (el737counter.py:27-75, 125-198).                                        *)
THEOREM TypeCorrect == EitherSpec => []TypeOK
<1>1. ASSUME Init PROVE TypeInv
  <2>1. BoxInv /\ FollowInv
    BY <1>1, BoxInitial
       DEF Init, FollowInv, PipeInv, RatesHaveNumbers, LastWordCounts, HasBeenRead, AskedIsDone, Ctl!CtlInit
  <2>2. TypeOK /\ PauseFits
    <3>1. 0 \in Times /\ 0 \in 0 .. MaxPaused /\ Len(pipe) <= PipeMax /\ pipe \in Seq(PipeWords)
      BY <1>1, CounterAssumption DEF Init, Times
    <3>2. box \in Boxes /\ PauseFits
      BY <1>1, <3>1 DEF Init, Boxes, PauseFits
    <3>3. Ctl!CtlTypeOK
      BY <1>1 DEF Init, Ctl!CtlInit, Ctl!CtlTypeOK, Ctl!Statuses
    <3>4. QED
      BY <1>1, <3>1, <3>2, <3>3 DEF Init, TypeOK, Words
  <2>3. QED
    BY <2>1, <2>2 DEF TypeInv
<1>2. TypeInv /\ [EitherNext]_vars => TypeInv'
  <2>1. TypeInv => BoxInv /\ FollowInv
    BY DEF TypeInv
  <2>2. QED
    BY <2>1, StepsCount, StepsFollow, StepsTyped
<1>3. TypeInv => TypeOK
  BY DEF TypeInv
<1>4. QED
  BY <1>1, <1>2, <1>3, PTL DEF EitherSpec

-----------------------------------------------------------------------------
(* Whatever was asked of the generator last has been done by it when it has *)
(* read all its words.                                                      *)
LastWordIsDone == Settled /\ ~swallowed => status = asked

(* Of all the words that the box has sent the last one that steers decides, *)
(* a stop as well as a run: only a word that has been swallowed by a rate   *)
(* can leave the generator in another status, so the finding on             *)
(* StopStopsGeneration has no other cause (el737counter.py:125-198,         *)
(* control.hpp:70-98).                                                      *)
THEOREM LastWordDone == EitherSpec => []LastWordIsDone
<1>1. Init => BoxInv /\ FollowInv
  <2>1. ASSUME Init PROVE FollowInv
    BY <2>1 DEF Init, FollowInv, PipeInv, RatesHaveNumbers, LastWordCounts, HasBeenRead, AskedIsDone, Ctl!CtlInit
  <2>2. QED
    BY <2>1, BoxInitial
<1>2. BoxInv /\ FollowInv => LastWordIsDone
  BY DEF FollowInv, PipeInv, LastWordCounts, HasBeenRead, LastWordIsDone, Settled
<1>3. QED
  BY <1>1, <1>2, StepsCount, StepsFollow, PTL DEF EitherSpec

-----------------------------------------------------------------------------
(* How a count comes to its end.                                            *)

LEMMA ReachesLater ==
  ASSUME NEW b \in AnyBox, NEW c, c.mode = b.mode, c.preset = b.preset,
         NEW s \in Nat, NEW t \in Nat, s <= t, Reaches(b, s)
  PROVE  Reaches(c, t)
<1>1. CountRate \in Nat /\ b.preset \in Nat
  BY CounterAssumption DEF AnyBox
<1>2. s * CountRate \in Nat /\ t * CountRate \in Nat
        /\ s * CountRate <= t * CountRate
  BY <1>1
<1>3. QED
  BY <1>1, <1>2 DEF Reaches

(* Nobody but the clock, a poll and the generator does anything.            *)
OnlyLooked == Tick \/ EitherPoll \/ Read

PollingEndsCounts ==
  OnlyLooked =>
    /\ ~box.counting => ~box'.counting
    /\ OnTheClock(box) =>
         \/ ~box'.counting
         \/ /\ OnTheClock(box') /\ Goal(box') = Goal(box)
            /\ Runtime(box') >= Runtime(box)
            /\ Expired(box) => Expired(box')
    /\ Expired(box) /\ EitherPoll /\ (client.bench \/ ~HasFailed(box)) =>
         ~box'.counting

LEMMA CountStatusEnds ==
  ASSUME NEW b \in AnyBox
  PROVE  /\ CountStatus(b).counting => CountStatus(b) = b
         /\ Expired(b) => ~CountStatus(b).counting
         /\ BenchCountStatus(b).counting => BenchCountStatus(b) = b
         /\ Expired(b) => ~BenchCountStatus(b).counting
  BY DEF CountStatus, BenchCountStatus, AnyBox

(* What a poll makes of the count.                                          *)
LEMMA EitherPollEnds ==
  ASSUME BoxInv, EitherPoll
  PROVE  /\ ~box'.counting \/ CountsAs(box')
         /\ ~box.counting => ~box'.counting
         /\ Expired(box) /\ (client.bench \/ ~HasFailed(box)) => ~box'.counting
<1> DEFINE now == Recovered(box)
<1>1. CountsAs(now) /\ CountsAs(box)
  BY DEF BoxInv, AnyBox, Recovered, CountsAs
<1>2. Expired(box) => Expired(now)
  BY <1>1 DEF CountsAs, Expired, OnTheClock, Reaches, Runtime
<1>3. \/ client.bench /\ box' = BenchCountStatus(box)
      \/ ~client.bench /\ HasFailed(box) /\ box' = box
      \/ ~client.bench /\ ~HasFailed(box) /\ box' = CountStatus(now)
  BY DEF EitherPoll, BenchPoll, Poll, Become, BecomeAs
<1> HIDE DEF now
<1>4. now \in AnyBox /\ box \in AnyBox
  BY <1>1 DEF CountsAs
<1>5. CASE client.bench /\ box' = BenchCountStatus(box)
  BY <1>1, <1>4, <1>5, CountStatusEnds
<1>6. CASE ~client.bench /\ HasFailed(box) /\ box' = box
  BY <1>1, <1>6
<1>7. CASE ~client.bench /\ ~HasFailed(box) /\ box' = CountStatus(now)
  <2>1. ~box'.counting \/ box' = now
    BY <1>4, <1>7, CountStatusEnds
  <2>2. Expired(box) => ~box'.counting
    BY <1>2, <1>4, <1>7, CountStatusEnds
  <2>3. now.counting = box.counting
    BY <1>1 DEF CountsAs
  <2>4. QED
    BY <1>1, <1>7, <2>1, <2>2, <2>3
<1>8. QED
  BY <1>3, <1>5, <1>6, <1>7

(* A client that only polls does not start a count, and while a count is on *)
(* the clock its time is not lost; once the time has been counted, the next *)
(* poll that is not answered by an injected failure ends it: the safety     *)
(* part of CountEnds, with the clock and the polling left to fairness       *)
(* (el737counter.py:49-75, 78-95).                                          *)
THEOREM PollsEndCounts == EitherSpec => [][PollingEndsCounts]_vars
<1>1. ASSUME BoxInv, OnlyLooked PROVE PollingEndsCounts
  <2>1. /\ box \in AnyBox
        /\ box.clock \in Nat /\ box.pausedTime \in Nat
        /\ box.pausedTime <= box.clock
    BY <1>1 DEF BoxInv, AnyBox, PausesHavePassed
  <2>2. Runtime(box) \in Nat
    BY <2>1 DEF Runtime
  <2>3. ASSUME Tick
        PROVE  /\ ~box.counting => ~box'.counting
               /\ OnTheClock(box) =>
                    /\ OnTheClock(box') /\ Goal(box') = Goal(box)
                    /\ Runtime(box') >= Runtime(box)
                    /\ Expired(box) => Expired(box')
    <3>1. /\ box'.clock = box.clock + 1 /\ box'.pausedTime = box.pausedTime
          /\ box'.counting = box.counting /\ box'.mypaused = box.mypaused
          /\ box'.mode = box.mode /\ box'.preset = box.preset
      BY <2>1, <2>3 DEF Tick, AnyBox
    <3>2. Runtime(box') \in Nat /\ Runtime(box') >= Runtime(box)
      BY <2>1, <3>1 DEF Runtime
    <3>3. Expired(box) => Expired(box')
      BY <2>1, <2>2, <3>1, <3>2, ReachesLater DEF Expired, OnTheClock
    <3>4. QED
      BY <3>1, <3>2, <3>3 DEF OnTheClock, Goal
  <2>4. ASSUME CountsAs(box')
        PROVE  /\ ~box.counting => ~box'.counting
               /\ OnTheClock(box) =>
                    /\ OnTheClock(box') /\ Goal(box') = Goal(box)
                    /\ Runtime(box') >= Runtime(box)
                    /\ Expired(box) => Expired(box')
    BY <2>2, <2>4 DEF CountsAs, OnTheClock, Goal, Runtime, Expired, Reaches
  <2>5. ASSUME Read PROVE CountsAs(box')
    BY <2>1, <2>5 DEF Read, CountsAs
  <2>6. EitherPoll => /\ ~box'.counting \/ CountsAs(box')
                      /\ ~box.counting => ~box'.counting
                      /\ Expired(box) /\ (client.bench \/ ~HasFailed(box))
                           => ~box'.counting
    BY <1>1, EitherPollEnds
  <2>7. QED
    BY <1>1, <2>3, <2>4, <2>5, <2>6 DEF OnlyLooked, PollingEndsCounts
<1>2. BoxInv /\ [EitherNext]_vars => [PollingEndsCounts]_vars
  BY <1>1 DEF PollingEndsCounts
<1>3. QED
  BY <1>2, BoxInitial, StepsCount, PTL DEF EitherSpec

=============================================================================
