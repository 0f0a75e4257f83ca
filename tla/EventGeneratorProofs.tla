------------------------ MODULE EventGeneratorProofs ------------------------
(* What is proved of the event generator for any finite set of threads, any *)
(* set of commands and rates, any FlushEvery and, where it says so, any     *)
(* queue that holds FlushEvery messages.                                    *)
EXTENDS EventGenerator, FiniteSetTheorems, TLAPS

(* The number of threads is a positive number.                              *)
LEMMA NType == St!N \in Nat /\ St!N # 0
<1>1. St!Cardinality(Thread) = Cardinality(Thread)
  BY DEF St!Cardinality, Cardinality
<1> QED BY <1>1, ThreadAssumption, FS_CardinalityType, FS_EmptySet DEF St!N

-----------------------------------------------------------------------------
(* The steps of the statistics and of the control, type by type: stated     *)
(* once and used by every proof below.                                      *)

LEMMA AddStepTypes ==
  ASSUME NEW t \in Thread, St!StatsTypeOK, St!AddStep(t)
  PROVE  /\ St!StatsTypeOK'
         /\ UNCHANGED status
         /\ apc'[t] \in St!AddPC
<1> USE NType DEF St!StatsTypeOK, St!AddPC, St!ReportPC
<1>1. CASE St!Count(t)
  BY <1>1 DEF St!Count, St!InAdd, St!Increment
<1>2. CASE St!Compare(t)
  BY <1>2 DEF St!Compare, St!InAdd
<1>3. CASE St!Notify(t)
  BY <1>3 DEF St!Notify, St!InAdd
<1>4. CASE St!Reset(t)
  BY <1>4 DEF St!Reset, St!InAdd
<1> QED BY <1>1, <1>2, <1>3, <1>4 DEF St!AddStep

LEMMA ReporterTypes ==
  ASSUME St!StatsTypeOK, St!ReportStep \/ St!SpuriousWake
  PROVE  St!StatsTypeOK' /\ UNCHANGED status
BY DEF St!StatsTypeOK, St!AddPC, St!ReportPC, St!ReportStep, St!LeaveStopped,
       St!ReadRun, St!ReadPause, St!ReadPaused, St!Wait, St!PrintReport,
       St!SpuriousWake, St!Reporter

LEMMA UpdateTypes ==
  ASSUME Ctl!CtlTypeOK, Ctl!UpdateStep
  PROVE  Ctl!CtlTypeOK'
BY DEF Ctl!CtlTypeOK, Ctl!UpdateStep, Ctl!Statuses, Ctl!ReadStatus,
       Ctl!ReadRate, Ctl!ReadArgument, Ctl!ReadBadArgument

-----------------------------------------------------------------------------
(* Type correctness.                                                        *)

WorkerTypeOK ==
  /\ alive \in BOOLEAN
  /\ wpc \in [Thread -> WorkerPC]
  /\ pulse \in [Thread -> 0 .. FlushEvery - 1]
  /\ outq \in [Thread -> 0 .. QueueMax]
  /\ late \in [Thread -> Nat]

LEMMA StreamingTypes ==
  ASSUME NEW t \in Thread, WorkerTypeOK, Streaming(t)
  PROVE  WorkerTypeOK'
<1> USE FlushAssumption, QueueAssumption DEF WorkerTypeOK, WorkerPC, Goto
<1>1. CASE CheckExit(t) \/ CheckStop(t) \/ CheckRun(t) \/ MayFlush(t)
  BY <1>1 DEF CheckExit, CheckStop, CheckRun, MayFlush
<1>2. CASE Produce(t)
  BY <1>2 DEF Produce
<1>3. CASE QueueFull(t) \/ FlushDone(t) \/ NotDue(t)
  BY <1>3 DEF QueueFull, FlushDone, NotDue
<1>4. CASE Poll(t)
  BY <1>4 DEF Poll
<1>5. CASE DivideByZero(t)
  <2>1. alive' \in BOOLEAN
    BY <1>5 DEF DivideByZero
  <2> QED BY <1>5, <2>1 DEF DivideByZero, NextPulse
<1>6. CASE NoPause(t)
  BY <1>6 DEF NoPause, NextPulse
<1>7. CASE PauseAndPoll(t)
  BY <1>7 DEF PauseAndPoll, NextPulse
<1> QED BY <1>1, <1>2, <1>3, <1>4, <1>5, <1>6, <1>7 DEF Streaming

(* Every variable keeps its type in every behaviour of the generator.       *)
THEOREM TypeCorrect == Spec => []TypeOK
<1>1. Init => TypeOK
  BY NType, FlushAssumption, QueueAssumption
     DEF Init, TypeOK, Ctl!CtlInit, Ctl!CtlTypeOK, Ctl!Statuses,
         St!StatsInit, St!StatsTypeOK, St!AddPC, St!ReportPC, WorkerPC
<1>2. TypeOK /\ [Next]_vars => TypeOK'
  <2> SUFFICES ASSUME TypeOK, [Next]_vars PROVE TypeOK'
    OBVIOUS
  <2>0. Ctl!CtlTypeOK /\ St!StatsTypeOK /\ WorkerTypeOK
    BY DEF TypeOK, WorkerTypeOK
  <2>1. SUFFICES Ctl!CtlTypeOK' /\ St!StatsTypeOK' /\ WorkerTypeOK'
    BY DEF TypeOK, WorkerTypeOK
  <2>2. ASSUME NEW t \in Thread, Streaming(t)
        PROVE  Ctl!CtlTypeOK' /\ St!StatsTypeOK' /\ WorkerTypeOK'
    <3>1. WorkerTypeOK'
      BY <2>0, <2>2, StreamingTypes
    <3>2. UNCHANGED sharedVars
      BY <2>2 DEF Streaming
    <3> QED BY <2>0, <3>1, <3>2 DEF sharedVars, Ctl!CtlTypeOK, St!StatsTypeOK
  <2>3. ASSUME NEW t \in Thread, Due(t)
        PROVE  Ctl!CtlTypeOK' /\ St!StatsTypeOK' /\ WorkerTypeOK'
    BY <2>0, <2>3 DEF Due, Goto, sharedVars, Ctl!CtlTypeOK, St!StatsTypeOK,
                      WorkerTypeOK, WorkerPC
  <2>4. ASSUME NEW t \in Thread, CallAdd(t)
        PROVE  Ctl!CtlTypeOK' /\ St!StatsTypeOK' /\ WorkerTypeOK'
    BY <2>0, <2>4 DEF CallAdd, St!Call, St!InAdd, Goto, Ctl!CtlTypeOK,
                      St!StatsTypeOK, St!AddPC, WorkerTypeOK, WorkerPC
  <2>5. ASSUME NEW t \in Thread, Add(t)
        PROVE  Ctl!CtlTypeOK' /\ St!StatsTypeOK' /\ WorkerTypeOK'
    <3>1. St!StatsTypeOK' /\ UNCHANGED status
      BY <2>0, <2>5, AddStepTypes DEF Add
    <3> QED BY <2>0, <2>5, <3>1 DEF Add, Ctl!CtlTypeOK, WorkerTypeOK, WorkerPC
  <2>6. ASSUME Report \/ SpuriousWake
        PROVE  Ctl!CtlTypeOK' /\ St!StatsTypeOK' /\ WorkerTypeOK'
    <3>1. St!StatsTypeOK' /\ UNCHANGED status
      BY <2>0, <2>6, ReporterTypes DEF Report, SpuriousWake
    <3> QED BY <2>0, <2>6, <3>1 DEF Report, SpuriousWake, workerVars,
                                    Ctl!CtlTypeOK, WorkerTypeOK
  <2>7. ASSUME Command
        PROVE  Ctl!CtlTypeOK' /\ St!StatsTypeOK' /\ WorkerTypeOK'
    <3>1. Ctl!CtlTypeOK'
      BY <2>0, <2>7, UpdateTypes DEF Command
    <3> QED BY <2>0, <2>7, <3>1 DEF Command, St!StatsTypeOK, WorkerTypeOK
  <2>8. ASSUME Return
        PROVE  Ctl!CtlTypeOK' /\ St!StatsTypeOK' /\ WorkerTypeOK'
    BY <2>0, <2>8 DEF Return, workerVars, Ctl!CtlTypeOK, St!StatsTypeOK,
                      WorkerTypeOK
  <2>9. ASSUME UNCHANGED vars
        PROVE  Ctl!CtlTypeOK' /\ St!StatsTypeOK' /\ WorkerTypeOK'
    BY <2>0, <2>9 DEF vars, sharedVars, workerVars, Ctl!CtlTypeOK,
                      St!StatsTypeOK, WorkerTypeOK
  <2> QED BY <2>2, <2>3, <2>4, <2>5, <2>6, <2>7, <2>8, <2>9 DEF Next, Worker
<1> QED BY <1>1, <1>2, PTL DEF Spec

-----------------------------------------------------------------------------
(* The queue.  Since the queue was last empty for sure, which is after      *)
(* pulse 1, a thread at pulse p >= 2 has produced at most p - 2 messages,   *)
(* and at pulses 0 and 1 at most FlushEvery - 2 and FlushEvery - 1.         *)

Produced(p) == IF p >= 2 THEN p - 2 ELSE FlushEvery - 2 + p

QueueBound(t) ==
  /\ wpc[t] \in {"exit?", "stop?", "run?", "send", "due?", "drain", "add"}
       => outq[t] <= Produced(pulse[t])
  /\ wpc[t] = "sent" => outq[t] <= Produced(pulse[t]) + 1
  /\ wpc[t] = "flush" => pulse[t] = 1
  /\ wpc[t] = "pace" =>
       outq[t] <= IF pulse[t] = 1 THEN 0 ELSE Produced(pulse[t]) + 1

QueueInv == \A t \in Thread : QueueBound(t)

LEMMA StreamingQueue ==
  ASSUME NEW t \in Thread, WorkerTypeOK, WorkerTypeOK', QueueBound(t),
         Streaming(t)
  PROVE  QueueBound(t)'
<1> USE FlushAssumption, QueueAssumption
    DEF WorkerTypeOK, WorkerPC, Goto, QueueBound, Produced
<1>1. CASE CheckExit(t) \/ CheckStop(t) \/ CheckRun(t)
  BY <1>1 DEF CheckExit, CheckStop, CheckRun
<1>2. CASE Produce(t)
  BY <1>2 DEF Produce
<1>3. CASE QueueFull(t) \/ NotDue(t)
  BY <1>3 DEF QueueFull, NotDue
<1>4. CASE MayFlush(t)
  BY <1>4 DEF MayFlush
<1>5. CASE Poll(t)
  BY <1>5 DEF Poll
<1>6. CASE FlushDone(t)
  BY <1>6 DEF FlushDone
<1>7. CASE DivideByZero(t) \/ NoPause(t)
  BY <1>7 DEF DivideByZero, NoPause, NextPulse
<1>8. CASE PauseAndPoll(t)
  BY <1>8 DEF PauseAndPoll, NextPulse
<1> QED BY <1>1, <1>2, <1>3, <1>4, <1>5, <1>6, <1>7, <1>8 DEF Streaming

(* A step of a thread's loop leaves the other threads' queues and positions *)
(* as they are.                                                             *)
LEMMA StreamingIsLocal ==
  ASSUME NEW t \in Thread, NEW u \in Thread, u # t, WorkerTypeOK, Streaming(t)
  PROVE  wpc'[u] = wpc[u] /\ pulse'[u] = pulse[u] /\ outq'[u] = outq[u]
           /\ late'[u] = late[u]
BY DEF WorkerTypeOK, Streaming, Goto, CheckExit, CheckStop, CheckRun, Produce,
       QueueFull, MayFlush, Poll, FlushDone, DivideByZero, NoPause,
       PauseAndPoll, NotDue, NextPulse

(* The bound on the queue is an invariant whatever the queue's size.        *)
LEMMA QueueInvariant == Spec => []QueueInv
<1>1. Init => QueueInv
  BY FlushAssumption DEF Init, QueueInv, QueueBound, Produced
<1>2. TypeOK /\ TypeOK' /\ QueueInv /\ [Next]_vars => QueueInv'
  <2> SUFFICES ASSUME TypeOK, TypeOK', QueueInv, [Next]_vars, NEW u \in Thread
               PROVE  QueueBound(u)'
    BY DEF QueueInv
  <2>0. WorkerTypeOK /\ WorkerTypeOK' /\ QueueBound(u)
    BY DEF TypeOK, WorkerTypeOK, QueueInv
  <2>1. ASSUME NEW t \in Thread, Streaming(t) PROVE QueueBound(u)'
    <3>1. CASE u = t
      BY <2>0, <2>1, <3>1, StreamingQueue
    <3>2. CASE u # t
      BY <2>0, <2>1, <3>2, StreamingIsLocal DEF QueueBound
    <3> QED BY <3>1, <3>2
  <2>2. ASSUME NEW t \in Thread, Due(t) \/ CallAdd(t) \/ Add(t)
        PROVE  QueueBound(u)'
    BY <2>0, <2>2 DEF Due, CallAdd, Add, Goto, WorkerTypeOK, QueueBound
  <2>3. ASSUME Report \/ SpuriousWake \/ Command \/ Return \/ UNCHANGED vars
        PROVE  QueueBound(u)'
    BY <2>0, <2>3 DEF Report, SpuriousWake, Command, Return, vars, workerVars,
                      QueueBound
  <2> QED BY <2>1, <2>2, <2>3 DEF Next, Worker
<1> QED BY <1>1, <1>2, TypeCorrect, PTL DEF Spec

(* A queue that holds FlushEvery messages is never found full, so no        *)
(* streaming thread ends before the exit command for that reason            *)
(* (generator.hpp:116-125).                                                 *)
THEOREM QueueNeverFull ==
  ASSUME FlushEvery <= QueueMax
  PROVE  Spec => []NoQueueFull
<1>1. TypeOK /\ QueueInv => NoQueueFull
  BY FlushAssumption, QueueAssumption
     DEF TypeOK, QueueInv, QueueBound, Produced, NoQueueFull
<1> QED BY <1>1, TypeCorrect, QueueInvariant, PTL

-----------------------------------------------------------------------------
(* Late messages.  A thread that is about to produce in another status than *)
(* run made its check of run() before the status changed, and has produced  *)
(* nothing since.                                                           *)

LateBound(t) ==
  /\ late[t] <= 1
  /\ status = "run" \/ wpc[t] = "send" => late[t] = 0

LateInv == \A t \in Thread : LateBound(t)

LEMMA StreamingLate ==
  ASSUME NEW t \in Thread, WorkerTypeOK, LateBound(t), Streaming(t)
  PROVE  LateBound(t)'
<1> USE DEF WorkerTypeOK, Goto, LateBound, sharedVars
<1>0. UNCHANGED status
  BY DEF Streaming
<1>1. CASE CheckExit(t) \/ CheckStop(t) \/ CheckRun(t)
  BY <1>0, <1>1 DEF CheckExit, CheckStop, CheckRun
<1>2. CASE Produce(t)
  BY <1>0, <1>2 DEF Produce
<1>3. CASE QueueFull(t) \/ NotDue(t) \/ MayFlush(t) \/ Poll(t) \/ FlushDone(t)
  BY <1>0, <1>3 DEF QueueFull, NotDue, MayFlush, Poll, FlushDone
<1>4. CASE DivideByZero(t) \/ NoPause(t) \/ PauseAndPoll(t)
  BY <1>0, <1>4 DEF DivideByZero, NoPause, PauseAndPoll, NextPulse
<1> QED BY <1>1, <1>2, <1>3, <1>4 DEF Streaming

LEMMA LateInvariant == Spec => []LateInv
<1>1. Init => LateInv
  BY DEF Init, LateInv, LateBound
<1>2. TypeOK /\ LateInv /\ [Next]_vars => LateInv'
  <2> SUFFICES ASSUME TypeOK, LateInv, [Next]_vars, NEW u \in Thread
               PROVE  LateBound(u)'
    BY DEF LateInv
  <2>0. WorkerTypeOK /\ St!StatsTypeOK /\ LateBound(u)
    BY DEF TypeOK, WorkerTypeOK, LateInv
  <2>1. ASSUME NEW t \in Thread, Streaming(t) PROVE LateBound(u)'
    <3>1. CASE u = t
      BY <2>0, <2>1, <3>1, StreamingLate
    <3>2. CASE u # t
      BY <2>0, <2>1, <3>2, StreamingIsLocal DEF Streaming, sharedVars, LateBound
    <3> QED BY <3>1, <3>2
  <2>2. ASSUME NEW t \in Thread, Due(t) \/ CallAdd(t) PROVE LateBound(u)'
    BY <2>0, <2>2 DEF Due, CallAdd, St!Call, Goto, sharedVars, WorkerTypeOK,
                      LateBound
  <2>3. ASSUME NEW t \in Thread, Add(t) PROVE LateBound(u)'
    <3>1. UNCHANGED status
      BY <2>0, <2>3, AddStepTypes DEF Add
    <3> QED BY <2>0, <2>3, <3>1 DEF Add, WorkerTypeOK, LateBound
  <2>4. ASSUME Report \/ SpuriousWake PROVE LateBound(u)'
    <3>1. UNCHANGED status
      BY <2>0, <2>4, ReporterTypes DEF Report, SpuriousWake
    <3> QED BY <2>0, <2>4, <3>1 DEF Report, SpuriousWake, workerVars, LateBound
  <2>5. ASSUME Command PROVE LateBound(u)'
    BY <2>0, <2>5 DEF Command, WorkerTypeOK, LateBound
  <2>6. ASSUME Return \/ UNCHANGED vars PROVE LateBound(u)'
    BY <2>0, <2>6 DEF Return, vars, sharedVars, workerVars, LateBound
  <2> QED BY <2>1, <2>2, <2>3, <2>4, <2>5, <2>6 DEF Next, Worker
<1> QED BY <1>1, <1>2, TypeCorrect, PTL DEF Spec

(* Between the moment the status leaves run and the next run, each thread   *)
(* produces one message at most (generator.hpp:101-115).                    *)
THEOREM OneLateMessage == Spec => []AtMostOneLateMessage
<1>1. LateInv => AtMostOneLateMessage
  BY DEF LateInv, LateBound, AtMostOneLateMessage
<1> QED BY <1>1, LateInvariant, PTL

-----------------------------------------------------------------------------
(* Every step of the generator is a step of Stats or leaves its variables   *)
(* alone, as the two are put together: what is shown of the steps of Stats  *)
(* holds in the generator (Stats.hpp:25-70, generator.hpp:143).             *)
LEMMA StatsSteps == Spec => St!StatsSpec
<1>1. Init => St!StatsInit /\ status = "stop"
  BY DEF Init, Ctl!CtlInit
<1>2. TypeOK /\ [Next]_vars => [St!StatsNext]_(St!statsVars)
  <2> SUFFICES ASSUME TypeOK, [Next]_vars
               PROVE  St!StatsNext \/ UNCHANGED St!statsVars
    OBVIOUS
  <2>1. ASSUME NEW t \in Thread, Streaming(t) \/ Due(t)
        PROVE  UNCHANGED St!statsVars
    BY <2>1 DEF Streaming, Due, sharedVars, St!statsVars
  <2>2. ASSUME NEW t \in Thread, CallAdd(t) \/ Add(t) PROVE St!StatsNext
    BY <2>2 DEF CallAdd, Add, St!StatsNext
  <2>3. ASSUME Report \/ SpuriousWake PROVE St!StatsNext
    BY <2>3 DEF Report, SpuriousWake, St!StatsNext
  <2>4. ASSUME Command PROVE St!StatsNext
    <3>1. Ctl!CtlTypeOK'
      BY <2>4, UpdateTypes DEF Command, TypeOK
    <3>2. St!StatusChange
      BY <2>4, <3>1 DEF Command, Ctl!CtlTypeOK, Ctl!Statuses, St!StatusChange
    <3> QED BY <3>2 DEF St!StatsNext
  <2>5. ASSUME Return \/ UNCHANGED vars PROVE UNCHANGED St!statsVars
    BY <2>5 DEF Return, vars, sharedVars, St!statsVars
  <2> QED BY <2>1, <2>2, <2>3, <2>4, <2>5 DEF Next, Worker
<1> QED BY <1>1, <1>2, TypeCorrect, PTL DEF Spec, St!StatsSpec

-----------------------------------------------------------------------------
(* A step of add() or of the reporter keeps a full count in sight.          *)
LEMMA FullCountKept ==
  ASSUME St!StatsTypeOK, FullCountIsSeen, [St!StatsNext]_(St!statsVars)
  PROVE  FullCountIsSeen'
<1> USE NType DEF FullCountIsSeen, St!FullCountIsSeen, St!StatsTypeOK, St!N
<1>1. ASSUME NEW t \in Thread, St!Call(t) PROVE FullCountIsSeen'
  BY <1>1 DEF St!Call, St!InAdd
<1>2. ASSUME NEW t \in Thread, St!AddStep(t) PROVE FullCountIsSeen'
  <2>1. CASE St!Count(t)
    BY <2>1 DEF St!Count, St!InAdd
  <2>2. CASE St!Compare(t)
    BY <2>2 DEF St!Compare, St!InAdd
  <2>3. CASE St!Notify(t)
    BY <2>3 DEF St!Notify, St!InAdd
  <2>4. CASE St!Reset(t)
    BY <2>4 DEF St!Reset, St!InAdd
  <2> QED BY <1>2, <2>1, <2>2, <2>3, <2>4 DEF St!AddStep
<1>3. ASSUME St!ReportStep \/ St!SpuriousWake PROVE FullCountIsSeen'
  BY <1>3 DEF St!ReportStep, St!LeaveStopped, St!ReadRun, St!ReadPause,
     St!ReadPaused, St!Wait, St!SpuriousWake, St!PrintReport, St!Reporter
<1>4. ASSUME St!StatusChange \/ UNCHANGED St!statsVars PROVE FullCountIsSeen'
  BY <1>4 DEF St!StatusChange, St!statsVars
<1> QED BY <1>1, <1>2, <1>3, <1>4 DEF St!StatsNext

(* In the running generator a counter that is exactly the number of threads *)
(* is always seen by a thread inside add(): what keeps it is the statistics *)
(* own steps alone (Stats.hpp:28-32).                                       *)
THEOREM FullCountSeen == Spec => []FullCountIsSeen
<1>1. St!StatsInit => FullCountIsSeen
  BY NType DEF St!StatsInit, FullCountIsSeen, St!FullCountIsSeen
<1>2. TypeOK => St!StatsTypeOK
  BY DEF TypeOK
<1> QED
  BY <1>1, <1>2, FullCountKept, TypeCorrect, StatsSteps, PTL
  DEF St!StatsSpec

-----------------------------------------------------------------------------
(* The way out.                                                             *)

(* "exit" is the last word: update() reads no other one after it.           *)
ExitIsLast == status = "exit" => main \in {"join", "returned"}

(* A thread is inside add() exactly while its loop is at the call.          *)
AddInStep == \A t \in Thread : wpc[t] = "add" <=> apc[t] # "out"

ExitInv == ExitIsLast /\ AddInStep

(* What a thread that is at pc, with a of add() to go and q messages in its *)
(* queue, has before it when it may not produce again.                      *)
StepsInAdd(a) == CASE a = "count" -> 4
                   [] a = "compare" -> 3
                   [] a = "notify" -> 2
                   [] a = "reset" -> 1
                   [] a = "out" -> 0

StepsLeft(pc, a, q) ==
  CASE pc = "done" -> 0
    [] pc = "exit?" -> 1
    [] pc = "add" -> 1 + StepsInAdd(a)
    [] pc = "drain" -> 6 + q
    [] pc = "due?" -> 7 + q
    [] pc = "pace" -> 8 + q
    [] pc = "flush" -> 9 + q
    [] pc = "sent" -> 10 + q
    [] pc = "run?" -> 11 + q
    [] pc = "stop?" -> 12 + q
    [] pc = "send" -> 12 + q

Distance(t) == StepsLeft(wpc[t], apc[t], outq[t])

(* After exit each step of a thread brings that thread closer to its end,   *)
(* and no step of anybody else takes it back.                               *)
ExitDrawsNear ==
  status = "exit" =>
    /\ status' = "exit"
    /\ \A t \in Thread :
         /\ Distance(t)' = Distance(t) \/ Distance(t)' < Distance(t)
         /\ Worker(t) => Distance(t)' < Distance(t)

LEMMA ExitInvariant == Spec => []ExitInv
<1>1. Init => ExitInv
  BY DEF Init, Ctl!CtlInit, St!StatsInit, ExitInv, ExitIsLast, AddInStep
<1>2. TypeOK /\ ExitInv /\ [Next]_vars => ExitInv'
  <2> SUFFICES ASSUME TypeOK, ExitInv, [Next]_vars
               PROVE  ExitIsLast' /\ AddInStep'
    BY DEF ExitInv
  <2>0. WorkerTypeOK /\ St!StatsTypeOK /\ ExitIsLast /\ AddInStep
    BY DEF TypeOK, WorkerTypeOK, ExitInv
  <2>1. ASSUME NEW t \in Thread, Streaming(t) PROVE ExitIsLast' /\ AddInStep'
    <3>1. wpc[t] # "add" /\ wpc'[t] # "add" /\ UNCHANGED <<status, main, apc>>
      BY <2>0, <2>1 DEF Streaming, sharedVars, WorkerTypeOK, Goto, CheckExit,
         CheckStop, CheckRun, Produce, QueueFull, MayFlush, Poll, FlushDone,
         DivideByZero, NoPause, PauseAndPoll, NotDue, NextPulse
    <3>2. \A u \in Thread : u # t => wpc'[u] = wpc[u]
      BY <2>0, <2>1, StreamingIsLocal
    <3> QED BY <2>0, <3>1, <3>2 DEF ExitIsLast, AddInStep
  <2>2. ASSUME NEW t \in Thread, Due(t) PROVE ExitIsLast' /\ AddInStep'
    BY <2>0, <2>2 DEF Due, Goto, sharedVars, WorkerTypeOK, ExitIsLast, AddInStep
  <2>3. ASSUME NEW t \in Thread, CallAdd(t) PROVE ExitIsLast' /\ AddInStep'
    BY <2>0, <2>3 DEF CallAdd, St!Call, St!InAdd, Goto, WorkerTypeOK,
       St!StatsTypeOK, ExitIsLast, AddInStep
  <2>4. ASSUME NEW t \in Thread, Add(t) PROVE ExitIsLast' /\ AddInStep'
    <3>1. UNCHANGED status /\ \A u \in Thread : u # t => apc'[u] = apc[u]
      BY <2>0, <2>4 DEF Add, St!AddStep, St!Count, St!Compare, St!Notify,
         St!Reset, St!InAdd, St!StatsTypeOK
    <3> QED BY <2>0, <2>4, <3>1 DEF Add, WorkerTypeOK, ExitIsLast, AddInStep
  <2>5. ASSUME Report \/ SpuriousWake PROVE ExitIsLast' /\ AddInStep'
    <3>1. UNCHANGED <<status, apc>>
      BY <2>5 DEF Report, SpuriousWake, St!ReportStep, St!LeaveStopped,
         St!ReadRun, St!ReadPause, St!ReadPaused, St!Wait, St!PrintReport,
         St!SpuriousWake, St!Reporter
    <3> QED BY <2>0, <2>5, <3>1 DEF Report, SpuriousWake, workerVars,
                                    ExitIsLast, AddInStep
  <2>6. ASSUME Command PROVE ExitIsLast' /\ AddInStep'
    BY <2>0, <2>6 DEF Command, Ctl!UpdateStep, Ctl!ReadStatus, Ctl!ReadRate,
       Ctl!ReadArgument, Ctl!ReadBadArgument, ExitIsLast, AddInStep
  <2>7. ASSUME Return \/ UNCHANGED vars PROVE ExitIsLast' /\ AddInStep'
    BY <2>0, <2>7 DEF Return, vars, sharedVars, workerVars, ExitIsLast,
                      AddInStep
  <2> QED BY <2>1, <2>2, <2>3, <2>4, <2>5, <2>6, <2>7 DEF Next, Worker
<1> QED BY <1>1, <1>2, TypeCorrect, PTL DEF Spec

(* The steps of a thread's own loop after exit: it may still produce the    *)
(* message it had made up its mind about, and that one is paid for.         *)
LEMMA StreamingDrawsNear ==
  ASSUME NEW t \in Thread, WorkerTypeOK, status = "exit", Streaming(t)
  PROVE  Distance(t)' < Distance(t)
<1> USE QueueAssumption DEF WorkerTypeOK, Goto, Distance, StepsLeft
<1>1. CASE CheckExit(t) \/ CheckStop(t) \/ CheckRun(t)
  BY <1>1 DEF CheckExit, CheckStop, CheckRun
<1>2. CASE Produce(t)
  BY <1>2 DEF Produce
<1>3. CASE QueueFull(t) \/ MayFlush(t) \/ FlushDone(t) \/ NotDue(t)
  BY <1>3 DEF QueueFull, MayFlush, FlushDone, NotDue
<1>4. CASE Poll(t)
  BY <1>4 DEF Poll
<1>5. CASE DivideByZero(t) \/ NoPause(t)
  BY <1>5 DEF DivideByZero, NoPause, NextPulse
<1>6. CASE PauseAndPoll(t)
  BY <1>6 DEF PauseAndPoll, NextPulse
<1> QED BY <1>1, <1>2, <1>3, <1>4, <1>5, <1>6 DEF Streaming

LEMMA AddDrawsNear ==
  ASSUME NEW t \in Thread, WorkerTypeOK, St!StatsTypeOK, AddInStep,
         Due(t) \/ CallAdd(t) \/ Add(t)
  PROVE  Distance(t)' < Distance(t)
<1> USE QueueAssumption
    DEF WorkerTypeOK, St!StatsTypeOK, Goto, Distance, StepsLeft, StepsInAdd
<1>1. CASE Due(t)
  BY <1>1 DEF Due
<1>2. CASE CallAdd(t)
  BY <1>2 DEF CallAdd, St!Call, St!InAdd
<1>3. CASE Add(t)
  <2>1. CASE St!Count(t)
    BY <1>3, <2>1 DEF Add, St!Count, St!InAdd
  <2>2. CASE St!Compare(t)
    BY <1>3, <2>2 DEF Add, St!Compare, St!InAdd
  <2>3. CASE St!Notify(t)
    BY <1>3, <2>3 DEF Add, St!Notify, St!InAdd
  <2>4. CASE St!Reset(t)
    BY <1>3, <2>4 DEF Add, St!Reset, St!InAdd
  <2> QED BY <1>3, <2>1, <2>2, <2>3, <2>4 DEF Add, St!AddStep
<1> QED BY <1>1, <1>2, <1>3

(* What a thread does leaves the others where they are.                     *)
LEMMA WorkerIsLocal ==
  ASSUME NEW t \in Thread, NEW u \in Thread, u # t, WorkerTypeOK,
         St!StatsTypeOK, Worker(t)
  PROVE  wpc'[u] = wpc[u] /\ outq'[u] = outq[u] /\ apc'[u] = apc[u]
<1>1. CASE Streaming(t)
  BY <1>1, StreamingIsLocal DEF Streaming, sharedVars
<1>2. CASE Due(t) \/ CallAdd(t) \/ Add(t)
  BY <1>2 DEF Due, CallAdd, Add, St!Call, St!AddStep, St!Count, St!Compare,
     St!Notify, St!Reset, St!InAdd, Goto, sharedVars, WorkerTypeOK,
     St!StatsTypeOK
<1> QED BY <1>1, <1>2 DEF Worker

(* exit is the last word, and from then on each step of a streaming thread  *)
(* brings it closer to its end and nobody else takes it back, whatever the  *)
(* thread was doing, emptying a full queue or adding its statistics: the    *)
(* safety part of ExitEndsStreaming (generator.hpp:101-150, control.hpp).   *)
THEOREM ExitBringsTheEnd == Spec => [][ExitDrawsNear]_vars
<1>1. TypeOK /\ ExitInv /\ [Next]_vars => [ExitDrawsNear]_vars
  <2> SUFFICES ASSUME TypeOK, ExitInv, Next, status = "exit"
               PROVE  /\ status' = "exit"
                      /\ \A u \in Thread :
                           /\ \/ Distance(u)' = Distance(u)
                              \/ Distance(u)' < Distance(u)
                           /\ Worker(u) => Distance(u)' < Distance(u)
    BY DEF ExitDrawsNear
  <2>0. WorkerTypeOK /\ St!StatsTypeOK /\ ExitIsLast /\ AddInStep
    BY DEF TypeOK, WorkerTypeOK, ExitInv
  <2>1. ASSUME NEW t \in Thread, Worker(t) PROVE Distance(t)' < Distance(t)
    BY <2>0, <2>1, StreamingDrawsNear, AddDrawsNear DEF Worker
  <2>2. CASE \E t \in Thread : Worker(t)
    <3>1. PICK t \in Thread : Worker(t)
      BY <2>2
    <3>2. status' = status
      BY <2>0, <3>1, AddStepTypes
         DEF Worker, Streaming, Due, CallAdd, Add, St!Call, sharedVars
    <3>3. ASSUME NEW u \in Thread, u # t PROVE Distance(u)' = Distance(u)
      BY <2>0, <3>1, <3>3, WorkerIsLocal DEF Distance
    <3>4. \A u \in Thread : Distance(u)' = Distance(u)
                              \/ Distance(u)' < Distance(u)
      BY <2>1, <3>1, <3>3
    <3> QED BY <2>1, <3>2, <3>4
  <2>3. CASE Report \/ SpuriousWake
    <3>1. UNCHANGED <<status, apc, wpc, outq>>
      BY <2>3 DEF Report, SpuriousWake, St!ReportStep, St!LeaveStopped,
         St!ReadRun, St!ReadPause, St!ReadPaused, St!Wait, St!PrintReport,
         St!SpuriousWake, St!Reporter, workerVars
    <3>2. \A u \in Thread : Distance(u)' = Distance(u)
      BY <3>1 DEF Distance
    <3> QED BY <2>1, <3>1, <3>2
  <2>4. CASE Command
    BY <2>0, <2>4 DEF Command, Ctl!UpdateStep, Ctl!ReadStatus, Ctl!ReadRate,
       Ctl!ReadArgument, Ctl!ReadBadArgument, ExitIsLast
  <2>5. CASE Return
    <3>1. UNCHANGED <<status, apc, wpc, outq>>
      BY <2>5 DEF Return, workerVars
    <3>2. \A u \in Thread : Distance(u)' = Distance(u)
      BY <3>1 DEF Distance
    <3> QED BY <2>1, <3>1, <3>2
  <2> QED BY <2>2, <2>3, <2>4, <2>5 DEF Next
<1> QED BY <1>1, TypeCorrect, ExitInvariant, PTL DEF Spec

-----------------------------------------------------------------------------
(* The way to the next message.                                             *)

(* What a thread has before it until it sends again, as long as the status  *)
(* is run and whatever its report time and its queue have it do first.      *)
StepsToSend(pc, a, q) ==
  CASE pc \in {"done", "send"} -> 0
    [] pc = "run?" -> 1
    [] pc = "stop?" -> 2
    [] pc = "exit?" -> 3
    [] pc = "add" -> 3 + StepsInAdd(a)
    [] pc = "drain" -> 8 + q
    [] pc = "due?" -> 9 + q
    [] pc = "pace" -> 10 + q
    [] pc = "flush" -> 11 + q
    [] pc = "sent" -> 12 + q

ToSend(t) == StepsToSend(wpc[t], apc[t], outq[t])

(* In status run each step of a thread produces, is refused by a full queue *)
(* or brings the next message closer, and nobody else takes it back.        *)
SendDrawsNear ==
  status = "run" =>
    \A t \in Thread :
      /\ Worker(t) => Produce(t) \/ QueueFull(t) \/ ToSend(t)' < ToSend(t)
      /\ ~Worker(t) => ToSend(t)' = ToSend(t)

LEMMA StreamingComesToSend ==
  ASSUME NEW t \in Thread, WorkerTypeOK, status = "run", Streaming(t)
  PROVE  Produce(t) \/ QueueFull(t) \/ ToSend(t)' < ToSend(t)
<1> USE QueueAssumption DEF WorkerTypeOK, Goto, ToSend, StepsToSend
<1>1. CASE CheckExit(t) \/ CheckStop(t) \/ CheckRun(t)
  BY <1>1 DEF CheckExit, CheckStop, CheckRun
<1>2. CASE Produce(t) \/ QueueFull(t)
  BY <1>2
<1>3. CASE MayFlush(t) \/ FlushDone(t) \/ NotDue(t)
  BY <1>3 DEF MayFlush, FlushDone, NotDue
<1>4. CASE Poll(t)
  BY <1>4 DEF Poll
<1>5. CASE DivideByZero(t) \/ NoPause(t)
  BY <1>5 DEF DivideByZero, NoPause, NextPulse
<1>6. CASE PauseAndPoll(t)
  BY <1>6 DEF PauseAndPoll, NextPulse
<1> QED BY <1>1, <1>2, <1>3, <1>4, <1>5, <1>6 DEF Streaming

LEMMA AddComesToSend ==
  ASSUME NEW t \in Thread, WorkerTypeOK, St!StatsTypeOK,
         Due(t) \/ CallAdd(t) \/ Add(t)
  PROVE  ToSend(t)' < ToSend(t)
<1> USE QueueAssumption
    DEF WorkerTypeOK, St!StatsTypeOK, Goto, ToSend, StepsToSend, StepsInAdd
<1>1. CASE Due(t)
  BY <1>1 DEF Due
<1>2. CASE CallAdd(t)
  BY <1>2 DEF CallAdd, St!Call, St!InAdd
<1>3. CASE Add(t)
  <2>1. CASE St!Count(t)
    BY <1>3, <2>1 DEF Add, St!Count, St!InAdd
  <2>2. CASE St!Compare(t)
    BY <1>3, <2>2 DEF Add, St!Compare, St!InAdd
  <2>3. CASE St!Notify(t)
    BY <1>3, <2>3 DEF Add, St!Notify, St!InAdd
  <2>4. CASE St!Reset(t)
    BY <1>3, <2>4 DEF Add, St!Reset, St!InAdd
  <2> QED BY <1>3, <2>1, <2>2, <2>3, <2>4 DEF Add, St!AddStep
<1> QED BY <1>1, <1>2, <1>3

(* Between two messages a thread takes a bounded number of steps of its     *)
(* own, whatever rates are typed and whatever the other threads, the        *)
(* reporter and the user do: the safety part of RunKeepsStreaming, with     *)
(* scheduling and the broker's answers left to fairness                     *)
(* (generator.hpp:101-149).                                                 *)
THEOREM RunBringsTheNextMessage == Spec => [][SendDrawsNear]_vars
<1>1. TypeOK /\ [Next]_vars => [SendDrawsNear]_vars
  <2> SUFFICES ASSUME TypeOK, Next, status = "run", NEW u \in Thread
               PROVE  /\ Worker(u) => \/ Produce(u) \/ QueueFull(u)
                                      \/ ToSend(u)' < ToSend(u)
                      /\ ~Worker(u) => ToSend(u)' = ToSend(u)
    BY DEF SendDrawsNear
  <2>0. WorkerTypeOK /\ St!StatsTypeOK
    BY DEF TypeOK, WorkerTypeOK
  <2>1. ASSUME Worker(u)
        PROVE  Produce(u) \/ QueueFull(u) \/ ToSend(u)' < ToSend(u)
    BY <2>0, <2>1, StreamingComesToSend, AddComesToSend DEF Worker
  <2>2. ASSUME ~Worker(u) PROVE ToSend(u)' = ToSend(u)
    <3>1. CASE \E t \in Thread : Worker(t)
      <4>1. PICK t \in Thread : Worker(t)
        BY <3>1
      <4>2. u # t
        BY <2>2, <4>1
      <4> QED BY <2>0, <4>1, <4>2, WorkerIsLocal DEF ToSend
    <3>2. CASE Report \/ SpuriousWake \/ Command \/ Return
      <4>1. UNCHANGED <<apc, wpc, outq>>
        BY <3>2 DEF Report, SpuriousWake, Command, Return, St!ReportStep,
           St!LeaveStopped, St!ReadRun, St!ReadPause, St!ReadPaused, St!Wait,
           St!PrintReport, St!SpuriousWake, St!Reporter, workerVars
      <4> QED BY <4>1 DEF ToSend
    <3> QED BY <3>1, <3>2 DEF Next
  <2> QED BY <2>1, <2>2
<1> QED BY <1>1, TypeCorrect, PTL DEF Spec

-----------------------------------------------------------------------------
(* The counter that misses its mark.                                        *)

(* More threads have been counted than there are and none is on its way to  *)
(* reset the counter.                                                       *)
Overshot ==
  /\ ThreadCount > St!N
  /\ \A t \in Thread : apc[t] \in {"out", "count", "compare"}

(* No step of the generator leads out of there, and none but a spurious     *)
(* wake-up ends the reporter's wait.                                        *)
NoWayBack ==
  Overshot => Overshot' /\ (rpc = "waiting" => rpc' = "waiting" \/ SpuriousWake)

LEMMA OvershotKept ==
  ASSUME St!StatsTypeOK, Overshot, [St!StatsNext]_(St!statsVars)
  PROVE  Overshot' /\ (rpc = "waiting" => rpc' = "waiting" \/ St!SpuriousWake)
<1> USE NType DEF Overshot, St!StatsTypeOK, St!N
<1>1. ASSUME NEW t \in Thread, St!Call(t)
      PROVE  Overshot' /\ rpc' = rpc
  BY <1>1 DEF St!Call, St!InAdd
<1>2. ASSUME NEW t \in Thread, St!AddStep(t)
      PROVE  Overshot' /\ rpc' = rpc
  <2>1. CASE St!Count(t)
    BY <2>1 DEF St!Count, St!InAdd, St!Increment
  <2>2. CASE St!Compare(t)
    BY <2>2 DEF St!Compare, St!InAdd
  <2>3. CASE St!Notify(t) \/ St!Reset(t)
    BY <2>3 DEF St!Notify, St!Reset, St!InAdd
  <2> QED BY <1>2, <2>1, <2>2, <2>3 DEF St!AddStep
<1>3. CASE St!ReportStep
  BY <1>3 DEF St!ReportStep, St!LeaveStopped, St!ReadRun, St!ReadPause,
     St!ReadPaused, St!Wait, St!PrintReport, St!Reporter
<1>4. CASE St!SpuriousWake
  BY <1>4 DEF St!SpuriousWake, St!Reporter
<1>5. CASE St!StatusChange \/ UNCHANGED St!statsVars
  BY <1>5 DEF St!StatusChange, St!statsVars
<1> QED BY <1>1, <1>2, <1>3, <1>4, <1>5 DEF St!StatsNext

(* Two threads that count before either compares carry ThreadCount past the *)
(* number of threads; once no thread is left that saw it full, no command,  *)
(* no thread and no rate ever brings it back and the reporter waits for a   *)
(* spurious wake-up for the rest of the run: what is behind the finding on  *)
(* ReportsKeepComing (Stats.hpp:28-32, 40-48).                              *)
THEOREM OvershootIsForGood == Spec => [][NoWayBack]_vars
<1>1. TypeOK /\ [Next]_vars /\ [St!StatsNext]_(St!statsVars)
        => [NoWayBack]_vars
  <2> SUFFICES ASSUME TypeOK, Next, [St!StatsNext]_(St!statsVars), Overshot
               PROVE  /\ Overshot'
                      /\ rpc = "waiting" => rpc' = "waiting" \/ SpuriousWake
    BY DEF NoWayBack
  <2>1. St!StatsTypeOK
    BY DEF TypeOK
  <2>2. Overshot' /\ (rpc = "waiting" => rpc' = "waiting" \/ St!SpuriousWake)
    BY <2>1, OvershotKept
  <2>3. ASSUME rpc = "waiting", rpc' # "waiting" PROVE SpuriousWake
    <3>1. rpc' = "print" /\ UNCHANGED apc
      BY <2>2, <2>3 DEF St!SpuriousWake, St!Reporter
    <3>2. ~(\E t \in Thread : Worker(t))
      BY <2>1, <2>3, <3>1 DEF Overshot, Worker, Streaming, Due, CallAdd, Add,
         St!Call, St!AddStep, St!Count, St!Compare, St!Notify, St!Reset,
         St!InAdd, sharedVars
    <3>3. ~Report
      BY <2>3 DEF Report, St!ReportStep, St!LeaveStopped, St!ReadRun,
         St!ReadPause, St!ReadPaused, St!Wait, St!PrintReport, St!Reporter
    <3>4. ~Command /\ ~Return
      BY <2>3 DEF Command, Return
    <3> QED BY <3>2, <3>3, <3>4 DEF Next
  <2> QED BY <2>2, <2>3
<1> QED
  BY <1>1, TypeCorrect, StatsSteps, PTL
  DEF Spec, St!StatsSpec

(* With one streaming thread the counter is full exactly while the thread   *)
(* is between its count and its reset, and is never above the mark.         *)
SoloCount ==
  St!N = 1 =>
    \A t \in Thread :
      /\ ThreadCount = 1 <=> apc[t] \in {"compare", "notify", "reset"}
      /\ ThreadCount <= 1

LEMMA SoloCountKept ==
  ASSUME St!StatsTypeOK, SoloCount, [St!StatsNext]_(St!statsVars)
  PROVE  SoloCount'
<1> SUFFICES ASSUME St!N = 1, NEW u \in Thread
             PROVE  /\ ThreadCount' = 1
                         <=> apc'[u] \in {"compare", "notify", "reset"}
                    /\ ThreadCount' <= 1
  BY DEF SoloCount, St!N
<1>1. \A t \in Thread : t = u
  <2>1. St!Cardinality(Thread) = Cardinality(Thread)
    BY DEF St!Cardinality, Cardinality
  <2>2. \E x : Thread = {x}
    BY <2>1, ThreadAssumption, FS_Singleton DEF St!N
  <2> QED BY <2>2
<1>2. /\ ThreadCount = 1 <=> apc[u] \in {"compare", "notify", "reset"}
      /\ ThreadCount <= 1
      /\ ThreadCount \in Nat
      /\ apc[u] \in St!AddPC
  BY NType DEF SoloCount, St!StatsTypeOK
<1> USE DEF St!AddPC
<1>3. ASSUME NEW t \in Thread, St!Call(t) \/ St!AddStep(t)
      PROVE  /\ ThreadCount' = 1
                  <=> apc'[u] \in {"compare", "notify", "reset"}
             /\ ThreadCount' <= 1
  <2>0. t = u
    BY <1>1
  <2>1. CASE St!Call(u)
    BY <1>2, <2>1 DEF St!Call, St!InAdd, St!StatsTypeOK
  <2>2. CASE St!Count(u)
    BY <1>2, <2>2 DEF St!Count, St!InAdd, St!Increment, St!StatsTypeOK
  <2>3. CASE St!Compare(u)
    BY <1>2, <2>3 DEF St!Compare, St!InAdd, St!StatsTypeOK
  <2>4. CASE St!Notify(u)
    BY <1>2, <2>4 DEF St!Notify, St!InAdd, St!StatsTypeOK
  <2>5. CASE St!Reset(u)
    BY <1>2, <2>5 DEF St!Reset, St!InAdd, St!StatsTypeOK
  <2> QED BY <1>3, <2>0, <2>1, <2>2, <2>3, <2>4, <2>5 DEF St!AddStep
<1>4. CASE St!ReportStep \/ St!SpuriousWake
  BY <1>2, <1>4 DEF St!ReportStep, St!LeaveStopped, St!ReadRun, St!ReadPause,
     St!ReadPaused, St!Wait, St!PrintReport, St!SpuriousWake, St!Reporter
<1>5. CASE St!StatusChange \/ UNCHANGED St!statsVars
  BY <1>2, <1>5 DEF St!StatusChange, St!statsVars
<1> QED BY <1>3, <1>4, <1>5 DEF St!StatsNext

(* The one thread that compares finds the counter full.                     *)
SoloAddIsSeen ==
  St!N = 1 => \A t \in Thread : apc[t] = "compare" => ThreadCount = St!N

(* A single streaming thread never overshoots: whatever is typed, each      *)
(* add() that comes to its comparison finds the counter full and wakes the  *)
(* reporter, which is why SoloReportsKeepComing holds (Stats.hpp:28-32).    *)
THEOREM SoloNeverOvershoots == Spec => [](SoloCount /\ SoloAddIsSeen)
<1>1. St!StatsInit => SoloCount
  BY DEF St!StatsInit, SoloCount
<1>2. TypeOK => St!StatsTypeOK
  BY DEF TypeOK
<1>3. SoloCount => SoloAddIsSeen
  BY DEF SoloCount, SoloAddIsSeen
<1> QED
  BY <1>1, <1>2, <1>3, SoloCountKept, TypeCorrect, StatsSteps, PTL
  DEF St!StatsSpec

-----------------------------------------------------------------------------
(* The last thread in its loop, after the others have left it, takes the    *)
(* counter to its mark and not beyond.                                      *)
SurvivorCounts ==
  \A u \in Thread :
    /\ \A t \in Thread : t # u => wpc[t] = "done"
    /\ ThreadCount <= St!N
    => ThreadCount' <= St!N

(* For any number of threads, the one that is left when a full queue has    *)
(* ended the others never carries the counter past the number of threads,   *)
(* whatever is typed: a full count is seen by a thread inside add(), which  *)
(* can only be the one that is left, so that it resets before it counts     *)
(* again.  It is what SurvivorReportsKeepComing needs beside scheduling     *)
(* (generator.hpp:116-119, Stats.hpp:28-32).                                *)
THEOREM SurvivorNeverOvershoots == Spec => [][SurvivorCounts]_vars
<1>1. TypeOK /\ ExitInv /\ FullCountIsSeen /\ [Next]_vars
        => [SurvivorCounts]_vars
  <2> SUFFICES ASSUME TypeOK, ExitInv, FullCountIsSeen, Next,
                      NEW u \in Thread,
                      \A t \in Thread : t # u => wpc[t] = "done",
                      ThreadCount <= St!N
               PROVE  ThreadCount' <= St!N
    BY DEF SurvivorCounts
  <2>0. St!StatsTypeOK /\ AddInStep
    BY DEF TypeOK, ExitInv
  <2>1. ASSUME NEW t \in Thread, Add(t) PROVE ThreadCount' <= St!N
    <3>1. t = u
      BY <2>1 DEF Add
    <3>2. CASE St!Count(t)
      <4>1. ThreadCount # St!N
        <5>1. SUFFICES ASSUME ThreadCount = St!N PROVE FALSE
          OBVIOUS
        <5>2. PICK v \in Thread : apc[v] \in {"compare", "notify", "reset"}
          BY <5>1 DEF FullCountIsSeen, St!FullCountIsSeen
        <5>3. v = u
          BY <2>0, <5>2 DEF AddInStep
        <5> QED BY <3>1, <3>2, <5>2, <5>3 DEF St!Count, St!InAdd
      <4> QED BY <2>0, <3>2, <4>1, NType
              DEF St!Count, St!Increment, St!StatsTypeOK
    <3>3. CASE St!Compare(t) \/ St!Notify(t)
      BY <3>3 DEF St!Compare, St!Notify
    <3>4. CASE St!Reset(t)
      BY <3>4, NType DEF St!Reset
    <3> QED BY <2>1, <3>2, <3>3, <3>4 DEF Add, St!AddStep
  <2>2. ASSUME NEW t \in Thread, Streaming(t) \/ Due(t) \/ CallAdd(t)
        PROVE  ThreadCount' = ThreadCount
    BY <2>2 DEF Streaming, Due, CallAdd, St!Call, sharedVars
  <2>3. ASSUME Report \/ SpuriousWake PROVE ThreadCount' = ThreadCount
    BY <2>3 DEF Report, SpuriousWake, St!ReportStep, St!LeaveStopped,
       St!ReadRun, St!ReadPause, St!ReadPaused, St!Wait, St!PrintReport,
       St!SpuriousWake, St!Reporter
  <2>4. ASSUME Command \/ Return PROVE ThreadCount' = ThreadCount
    BY <2>4 DEF Command, Return
  <2> QED BY <2>1, <2>2, <2>3, <2>4 DEF Next, Worker
<1> QED
  BY <1>1, TypeCorrect, ExitInvariant, FullCountSeen, PTL DEF Spec

=============================================================================
