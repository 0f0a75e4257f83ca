------------------------------- MODULE Stats --------------------------------
(* The statistics of the event generator (Stats.hpp): every streaming       *)
(* thread calls add() about once per report_time, and the reporter thread   *)
(* runs report().  The counter ThreadCount is meant to tell when all the    *)
(* threads have added their figures, and the condition variable             *)
(* WaitUntilReady wakes the reporter then.  The counter's increment, its    *)
(* comparison, the notification and the reset are four steps and no lock    *)
(* makes them one; the reporter waits without a predicate.  The figures     *)
(* themselves (lines 26-27, 52-56) steer nothing and are left out.          *)
EXTENDS Naturals, FiniteSets

CONSTANT Thread        \* the streaming threads

VARIABLES
  status,              \* the status of the control, which this module reads
  ThreadCount,         \* how many threads have added since the last reset;
                       \* every value above N is represented by N + 1
  apc,                 \* where each streaming thread is inside add()
  rpc                  \* where the reporter is inside report()

statsVars == <<status, ThreadCount, apc, rpc>>

N == Cardinality(Thread)

AddPC == {"out", "count", "compare", "notify", "reset"}
ReportPC == {"stopped", "run?", "pause?", "paused?", "lock", "waiting",
             "print", "done"}

StatsTypeOK ==
  /\ ThreadCount \in 0 .. N + 1
  /\ apc \in [Thread -> AddPC]
  /\ rpc \in ReportPC

StatsInit ==
  /\ ThreadCount = 0
  /\ apc = [t \in Thread |-> "out"]
  /\ rpc = "stopped"

-----------------------------------------------------------------------------
(* add(), called by thread t.                                               *)

InAdd(t, from, to) == apc[t] = from /\ apc' = [apc EXCEPT ![t] = to]

Call(t) ==
  /\ InAdd(t, "out", "count")
  /\ UNCHANGED <<status, ThreadCount, rpc>>

(* The counter is only compared with N and reset, so one value stands for   *)
(* all those above N.                                                       *)
Increment(c) == IF c > N THEN c ELSE c + 1

Count(t) ==
  /\ InAdd(t, "count", "compare")
  /\ ThreadCount' = Increment(ThreadCount)
  /\ UNCHANGED <<status, rpc>>

Compare(t) ==
  /\ InAdd(t, "compare", IF ThreadCount = N THEN "notify" ELSE "out")
  /\ UNCHANGED <<status, ThreadCount, rpc>>

(* notify_all() wakes the reporter if it waits at this very moment.         *)
Notify(t) ==
  /\ InAdd(t, "notify", "reset")
  /\ rpc' = IF rpc = "waiting" THEN "print" ELSE rpc
  /\ UNCHANGED <<status, ThreadCount>>

(* Mutants: the counter is not reset, or what was counted is subtracted.    *)
ResetForgotten(t) ==
  InAdd(t, "reset", "out") /\ UNCHANGED <<status, ThreadCount, rpc>>

ResetBySubtraction(t) ==
  /\ InAdd(t, "reset", "out")
  /\ ThreadCount' = ThreadCount - N
  /\ UNCHANGED <<status, rpc>>

Reset(t) ==
  /\ InAdd(t, "reset", "out")
  /\ ThreadCount' = 0
  /\ UNCHANGED <<status, rpc>>

AddStep(t) == Count(t) \/ Compare(t) \/ Notify(t) \/ Reset(t)

-----------------------------------------------------------------------------
(* report(), run by the reporter thread: each step is one read of the       *)
(* status, which may change between any two of them.                        *)

Reporter(from, to) ==
  /\ rpc = from
  /\ rpc' = to
  /\ UNCHANGED <<status, ThreadCount, apc>>

LeaveStopped == status # "stop" /\ Reporter("stopped", "run?")

(* while (Ctrl->run() || Ctrl->pause()): two reads.                         *)
ReadRun == Reporter("run?", IF status = "run" THEN "paused?" ELSE "pause?")
ReadPause == Reporter("pause?", IF status = "pause" THEN "paused?" ELSE "done")

(* if (Ctrl->pause()): a third one.                                         *)
ReadPaused == Reporter("paused?", IF status = "pause" THEN "run?" ELSE "lock")

Wait == Reporter("lock", "waiting")
SpuriousWake == Reporter("waiting", "print")
PrintReport == Reporter("print", "run?")

ReportStep ==
  LeaveStopped \/ ReadRun \/ ReadPause \/ ReadPaused \/ Wait \/ PrintReport

-----------------------------------------------------------------------------
(* The component by itself: threads add when they like and the environment  *)
(* stores any status.                                                       *)

StatusChange ==
  /\ status' \in {"run", "pause", "stop", "exit"}
  /\ UNCHANGED <<ThreadCount, apc, rpc>>

StatsNext ==
  \/ \E t \in Thread : Call(t) \/ AddStep(t)
  \/ ReportStep
  \/ SpuriousWake
  \/ StatusChange

StatsSpec == StatsInit /\ status = "stop" /\ [][StatsNext]_statsVars

-----------------------------------------------------------------------------
(* When all the threads have been counted, one of them is still inside      *)
(* add(), past the increment: it will compare, and a counter that is        *)
(* exactly N is never left behind (Stats.hpp:28-32).                        *)
FullCountIsSeen ==
  ThreadCount = N => \E t \in Thread : apc[t] \in {"compare", "notify", "reset"}

=============================================================================
