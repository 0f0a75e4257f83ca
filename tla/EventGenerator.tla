--------------------------- MODULE EventGenerator ---------------------------
(* The event generator AMORgenerator: Generator::run() starts one streaming *)
(* thread per stream (runImpl) and the reporter thread (Stats::report), and *)
(* then reads run-time commands until "exit" (CommandlineControl).  This    *)
(* module composes the two components with the streaming threads and with   *)
(* the part of the Kafka producer they use: its queue of messages whose     *)
(* delivery has not been reported to the application yet.                   *)
EXTENDS Integers, FiniteSets

CONSTANTS
  Thread,      \* the streaming threads
  Words,       \* the command words that may be typed
  Rates,       \* the numbers that may be typed after "rate"
  FlushEvery,  \* the queue is emptied once every FlushEvery pulses: 1000
  QueueMax     \* the messages the producer's queue can hold

ASSUME ThreadAssumption == IsFiniteSet(Thread) /\ Thread # {}
ASSUME WordsAssumption == Words \subseteq {"run", "pause", "stop", "exit", "rate"}
ASSUME RatesAssumption == Rates \subseteq Int /\ \E r \in Rates : r > 0
ASSUME FlushAssumption == FlushEvery \in Nat /\ FlushEvery >= 2
ASSUME QueueAssumption == QueueMax \in Nat

VARIABLES
  status, rate, main,          \* see CommandlineControl
  ThreadCount, apc, rpc,       \* see Stats
  alive,       \* the process has not been killed by a signal
  wpc,         \* where each streaming thread is inside runImpl
  pulse,       \* each thread's PulseID % FlushEvery
  outq,        \* each producer's outq_len()
  late         \* history: the messages each thread has produced since the
               \* status was "run" for the last time

sharedVars == <<status, rate, main, ThreadCount, apc, rpc>>
workerVars == <<wpc, pulse, outq, late>>
vars == <<sharedVars, alive, workerVars>>

Ctl == INSTANCE CommandlineControl
St == INSTANCE Stats

WorkerPC == {"exit?", "stop?", "run?", "send", "sent", "flush", "pace", "due?",
             "drain", "add", "done"}

TypeOK ==
  /\ Ctl!CtlTypeOK
  /\ St!StatsTypeOK
  /\ alive \in BOOLEAN
  /\ wpc \in [Thread -> WorkerPC]
  /\ pulse \in [Thread -> 0 .. FlushEvery - 1]
  /\ outq \in [Thread -> 0 .. QueueMax]
  /\ late \in [Thread -> Nat]

Init ==
  /\ Ctl!CtlInit
  /\ St!StatsInit
  /\ alive = TRUE
  /\ wpc = [t \in Thread |-> "exit?"]
  /\ pulse = [t \in Thread |-> 0]
  /\ outq = [t \in Thread |-> 0]
  /\ late = [t \in Thread |-> 0]

-----------------------------------------------------------------------------
(* The streaming threads.                                                   *)

Goto(t, from, to) == wpc[t] = from /\ wpc' = [wpc EXCEPT ![t] = to]

(* Mutant: the loop does not look for exit.                                 *)
CheckExitNever(t) ==
  Goto(t, "exit?", "stop?") /\ UNCHANGED <<alive, pulse, outq, late>>

CheckExit(t) ==
  /\ Goto(t, "exit?", IF status = "exit" THEN "done" ELSE "stop?")
  /\ UNCHANGED <<alive, pulse, outq, late>>

(* In status stop the thread sleeps and starts over.                        *)
CheckStop(t) ==
  /\ Goto(t, "stop?", IF status = "stop" THEN "exit?" ELSE "run?")
  /\ UNCHANGED <<alive, pulse, outq, late>>

(* Mutant: events are sent unless the status is stop.                       *)
CheckNotStopped(t) ==
  /\ Goto(t, "run?", IF status # "stop" THEN "send" ELSE "sent")
  /\ UNCHANGED <<alive, pulse, outq, late>>

(* Unless the status is run, send() is given no events and produces no      *)
(* message; the pulse goes on all the same.                                 *)
CheckRun(t) ==
  /\ Goto(t, "run?", IF status = "run" THEN "send" ELSE "sent")
  /\ UNCHANGED <<alive, pulse, outq, late>>

Produce(t) ==
  /\ outq[t] < QueueMax
  /\ Goto(t, "send", "sent")
  /\ outq' = [outq EXCEPT ![t] = @ + 1]
  /\ late' = [late EXCEPT ![t] = IF status = "run" THEN 0 ELSE @ + 1]
  /\ UNCHANGED <<alive, pulse>>

(* Mutant: a refused message is tried again for ever.                       *)
QueueFullRetried(t) ==
  /\ outq[t] = QueueMax
  /\ Goto(t, "send", "send")
  /\ UNCHANGED <<alive, pulse, outq, late>>

(* produce() refuses the message, send() throws, the thread's loop ends.    *)
QueueFull(t) ==
  /\ outq[t] = QueueMax
  /\ Goto(t, "send", "done")
  /\ UNCHANGED <<alive, pulse, outq, late>>

(* Mutant: the queue is never emptied after a pulse.                        *)
MayFlushNever(t) ==
  Goto(t, "sent", "pace") /\ UNCHANGED <<alive, pulse, outq, late>>

MayFlush(t) ==
  /\ Goto(t, "sent", IF pulse[t] = 1 THEN "flush" ELSE "pace")
  /\ UNCHANGED <<alive, pulse, outq, late>>

(* Mutant: the loop that empties the queue after a pulse does not poll.     *)
PollBeforeReport(t) ==
  /\ wpc[t] = "drain"
  /\ \E left \in 0 .. outq[t] - 1 : outq' = [outq EXCEPT ![t] = left]
  /\ UNCHANGED <<alive, wpc, pulse, late>>

(* poll(-1) blocks until the broker has answered or given up on a message   *)
(* and serves the reports that are there, of success and of failure alike.  *)
Poll(t) ==
  /\ wpc[t] \in {"flush", "drain"}
  /\ \E left \in 0 .. outq[t] - 1 : outq' = [outq EXCEPT ![t] = left]
  /\ UNCHANGED <<alive, wpc, pulse, late>>

FlushDone(t) ==
  /\ outq[t] = 0
  /\ Goto(t, "flush", "pace")
  /\ UNCHANGED <<alive, pulse, outq, late>>

(* ++PulseID, then PulseID % rate: a division by zero kills the process, a  *)
(* negative rate is a huge divisor and never paces, a positive one paces in *)
(* some pulses, and poll(0) then serves the reports that are there.         *)
NextPulse(t) ==
  /\ pulse' = [pulse EXCEPT ![t] = IF @ = FlushEvery - 1 THEN 0 ELSE @ + 1]
  /\ Goto(t, "pace", "due?")
  /\ UNCHANGED late

DivideByZero(t) ==
  /\ rate = 0
  /\ NextPulse(t)
  /\ alive' = FALSE
  /\ UNCHANGED outq

NoPause(t) ==
  /\ rate # 0
  /\ NextPulse(t)
  /\ UNCHANGED <<alive, outq>>

PauseAndPoll(t) ==
  /\ rate > 0
  /\ NextPulse(t)
  /\ \E left \in 0 .. outq[t] : outq' = [outq EXCEPT ![t] = left]
  /\ UNCHANGED alive

NotDue(t) ==
  /\ Goto(t, "due?", "exit?")
  /\ UNCHANGED <<alive, pulse, outq, late>>

(* Mutant: the threads wait for one another before they report.             *)
DueTogether(t) ==
  /\ alive
  /\ \A u \in Thread : wpc[u] # "done"
  /\ Goto(t, "due?", "drain")
  /\ UNCHANGED <<sharedVars, alive, pulse, outq, late>>

(* More than report_time seconds have passed.                               *)
Due(t) ==
  /\ alive
  /\ Goto(t, "due?", "drain")
  /\ UNCHANGED <<sharedVars, alive, pulse, outq, late>>

CallAdd(t) ==
  /\ outq[t] = 0
  /\ St!Call(t)
  /\ Goto(t, "drain", "add")
  /\ UNCHANGED <<rate, main, alive, pulse, outq, late>>

Add(t) ==
  /\ wpc[t] = "add"
  /\ St!AddStep(t)
  /\ wpc' = [wpc EXCEPT ![t] = IF apc'[t] = "out" THEN "exit?" ELSE "add"]
  /\ UNCHANGED <<rate, main, alive, pulse, outq, late>>

Streaming(t) ==
  /\ \/ CheckExit(t) \/ CheckStop(t) \/ CheckRun(t)
     \/ Produce(t) \/ QueueFull(t) \/ MayFlush(t) \/ Poll(t) \/ FlushDone(t)
     \/ DivideByZero(t) \/ NoPause(t) \/ PauseAndPoll(t)
     \/ NotDue(t)
  /\ UNCHANGED sharedVars

Worker(t) == alive /\ (Streaming(t) \/ Due(t) \/ CallAdd(t) \/ Add(t))

-----------------------------------------------------------------------------
(* The reporter thread.                                                     *)

Report ==
  /\ alive
  /\ St!ReportStep
  /\ UNCHANGED <<rate, main, alive, workerVars>>

SpuriousWake ==
  /\ alive
  /\ St!SpuriousWake
  /\ UNCHANGED <<rate, main, alive, workerVars>>

-----------------------------------------------------------------------------
(* The main thread.                                                         *)

Command ==
  /\ alive
  /\ Ctl!UpdateStep
  /\ late' = IF status' = "run" THEN [t \in Thread |-> 0] ELSE late
  /\ UNCHANGED <<ThreadCount, apc, rpc, alive, wpc, pulse, outq>>

(* run() takes every future's result before it returns; when update() has   *)
(* thrown, the destructors of the futures wait for the same threads.        *)
Return ==
  /\ alive
  /\ main \in {"join", "unwind"}
  /\ \A t \in Thread : wpc[t] = "done"
  /\ rpc = "done"
  /\ main' = "returned"
  /\ UNCHANGED <<status, rate, ThreadCount, apc, rpc, alive, workerVars>>

Next ==
  \/ \E t \in Thread : Worker(t)
  \/ Report
  \/ SpuriousWake
  \/ Command
  \/ Return

Spec == Init /\ [][Next]_vars

(* Every thread is scheduled, the broker reports on every message in the    *)
(* end, and a thread that goes on pulsing sees its report time pass.  No    *)
(* fairness is assumed of the user, nor of spurious wake-ups.               *)
Fairness ==
  /\ \A t \in Thread : WF_vars(Worker(t)) /\ SF_vars(Due(t))
  /\ WF_vars(Report)
  /\ WF_vars(Return)

FairSpec == Spec /\ Fairness

-----------------------------------------------------------------------------
(* Safety.                                                                  *)

(* A thread that is about to produce finds room in the queue, so no thread  *)
(* is lost to a full queue: what the emptying of the queue after pulse 1 of *)
(* every FlushEvery is for (generator.hpp:120-125), given a queue that      *)
(* holds FlushEvery messages.                                               *)
NoQueueFull == \A t \in Thread : wpc[t] = "send" => outq[t] < QueueMax

(* Once the status has left run, each thread may still produce the message  *)
(* whose check of run() came before, and no second one until the next run   *)
(* (generator.hpp:101-115: three separate reads of the status).             *)
AtMostOneLateMessage == \A t \in Thread : late[t] <= 1

(* When all the threads have been counted, one of them is still inside      *)
(* add() and will see it, with the threads and the control as they are      *)
(* (Stats.hpp:28-32).                                                       *)
FullCountIsSeen == St!FullCountIsSeen

-----------------------------------------------------------------------------
(* Liveness.                                                                *)

(* exit ends every streaming thread, whatever it was doing: sending,        *)
(* emptying its queue or adding its statistics (generator.hpp:101).         *)
ExitEndsStreaming ==
  status = "exit" ~> (\A t \in Thread : wpc[t] = "done") \/ ~alive

(* While the status remains run, each thread that was not lost to a full    *)
(* queue produces again and again: no emptying of the queue, no report, no  *)
(* rate and no other thread holds it up for ever (generator.hpp:92-150).    *)
RunKeepsStreaming ==
  \A t \in Thread :
    <>[](status = "run" /\ alive /\ wpc[t] # "done") => []<><<Produce(t)>>_wpc

(* While the status remains run, the reporter prints again and again        *)
(* (README.md:108, Stats.hpp:40-69).                                        *)
ReportsKeepComing ==
  <>[](status = "run" /\ alive) => []<>(rpc = "print")

(* With one thread they do so whatever was typed before, as long as neither *)
(* the thread nor the reporter has left its loop: it is only with several   *)
(* threads that the counter misses its mark (Stats.hpp:28-48).              *)
SoloReportsKeepComing ==
  <>[](/\ status = "run" /\ alive /\ rpc # "done"
       /\ \A t \in Thread : wpc[t] # "done")
    => []<>(rpc = "print")

Streamers == {t \in Thread : wpc[t] # "done"}

(* The threads that a full queue has ended do not take the reports with     *)
(* them: the last one left is counted for them too, N times for a report,   *)
(* unless the counter was above its mark before (generator.hpp:116-119,     *)
(* Stats.hpp:28-32, which count calls and not threads).                     *)
SurvivorReportsKeepComing ==
  <>[](/\ status = "run" /\ alive /\ rpc # "done"
       /\ Cardinality(Streamers) = 1
       /\ ThreadCount <= St!N)
    => []<>(rpc = "print")

=============================================================================
