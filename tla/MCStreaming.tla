----------------------------- MODULE MCStreaming -----------------------------
(* The generator's loops as TLC checks their liveness, and the messages they *)
(* make as it checks their way to the listener.  EventStream tells the       *)
(* pulses of a thread and EventGenerator the steps of each pulse, so that it *)
(* is enough to let one of them run in each behaviour: the loops of one      *)
(* thread or of two threads, or the messages.                                *)
EXTENDS MCEventStream

CONSTANTS t1, t2

VARIABLES
  activity,
  runStatus, rate, main, ThreadCount, apc, rpc, alive, wpc, pulse, outq, late,
  runStatus2, rate2, main2, ThreadCount2, apc2, rpc2, alive2, wpc2, pulse2,
  outq2, late2

loopVars ==
  <<runStatus, rate, main, ThreadCount, apc, rpc, alive, wpc, pulse, outq, late>>
pairVars ==
  <<runStatus2, rate2, main2, ThreadCount2, apc2, rpc2, alive2, wpc2, pulse2,
    outq2, late2>>

(* One thread under every command and a queue that it may overflow.         *)
One == INSTANCE EventGenerator
  WITH Thread <- {t1}, Words <- {"run", "pause", "stop", "exit", "rate"},
       Rates <- {-1, 0, 1}, FlushEvery <- 2, QueueMax <- 1, status <- runStatus

(* Two threads, the loss of one of them to a full queue, and pauses.        *)
Two == INSTANCE EventGenerator
  WITH Thread <- {t1, t2}, Words <- {"run", "pause"},
       Rates <- {1}, FlushEvery <- 2, QueueMax <- 1,
       status <- runStatus2, rate <- rate2, main <- main2,
       ThreadCount <- ThreadCount2, apc <- apc2, rpc <- rpc2, alive <- alive2,
       wpc <- wpc2, pulse <- pulse2, outq <- outq2, late <- late2

StreamingInit ==
  /\ activity \in {"one thread", "two threads", "messages"}
  /\ Init /\ One!Init /\ Two!Init

StreamingNext ==
  /\ UNCHANGED activity
  /\ \/ activity = "one thread" /\ One!Next /\ UNCHANGED <<vars, pairVars>>
     \/ activity = "two threads" /\ Two!Next /\ UNCHANGED <<vars, loopVars>>
     \/ activity = "messages" /\ Next /\ UNCHANGED <<loopVars, pairVars>>

(* Fairness of EventGenerator, of the loops that run.                       *)
LoopFairness ==
  LET Running(A) == activity = "one thread" /\ A
  IN /\ WF_loopVars(Running(One!Worker(t1))) /\ SF_loopVars(Running(One!Due(t1)))
     /\ WF_loopVars(Running(One!Report)) /\ WF_loopVars(Running(One!Return))

PairFairness ==
  LET Running(A) == activity = "two threads" /\ A
  IN /\ \A t \in {t1, t2} : /\ WF_pairVars(Running(Two!Worker(t)))
                           /\ SF_pairVars(Running(Two!Due(t)))
     /\ WF_pairVars(Running(Two!Report)) /\ WF_pairVars(Running(Two!Return))

StreamingSpec ==
  /\ StreamingInit /\ [][StreamingNext]_<<activity, vars, loopVars, pairVars>>
  /\ LoopFairness /\ PairFairness

(* While the status remains run, the thread produces again and again, at    *)
(* any rate but 0, unless a full queue has ended it (EventGenerator,        *)
(* generator.hpp:92-150).                                                   *)
RunKeepsStreaming == One!RunKeepsStreaming

(* exit ends the thread, whatever it was doing (EventGenerator,             *)
(* generator.hpp:101).                                                      *)
ExitEndsStreaming == One!ExitEndsStreaming

(* While the status remains run, the reporter prints again and again, as    *)
(* long as the thread and it are in their loops (EventGenerator,            *)
(* Stats.hpp:28-48).                                                        *)
SoloReportsKeepComing == One!SoloReportsKeepComing

(* So it does for the one of two threads that a full queue has left, unless *)
(* the counter was above its mark (EventGenerator, Stats.hpp:28-32).        *)
SurvivorReportsKeepComing == Two!SurvivorReportsKeepComing
=============================================================================
