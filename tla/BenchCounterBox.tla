-------------------------- MODULE BenchCounterBox ---------------------------
(* The counter box that lies beside the generator's source                  *)
(* (neventGenerator/el737counter.py), where it serves without the rest of   *)
(* the instrument.  It is a copy that has drifted from the deployed one of  *)
(* CounterBox: it injects no failures, does not pause the generator when a  *)
(* count has expired, and refuses "tp" without an argument unchanged.       *)
EXTENDS CounterBox

BenchCountStatus(b) ==
  IF Expired(b)
    THEN [b EXCEPT !.counting = FALSE, !.endtime = Goal(b),
            !.pausedTime = IF b.mode = "timer" THEN 0 ELSE @]
    ELSE b

BenchPoll ==
  /\ BecomeAs(BenchCountStatus(box), IF Expired(box) THEN "full" ELSE verdict)
  /\ Quietly

BenchLine ==
  \/ NewCount
  \/ Stop \/ Pause \/ Continue
  \/ \E a \in Arguments : SetRate(a)
  \/ SetThreshold

BenchNext == Tick \/ Rmt1 \/ Echo2 \/ BenchLine \/ BenchPoll
               \/ Hangup \/ Kill \/ Read \/ GeneratorEnds

-----------------------------------------------------------------------------
(* Either box, whichever the client has found.                              *)

EitherNext == IF client.bench THEN BenchNext ELSE Next

EitherSpec == Init /\ [][EitherNext]_vars

EitherPoll == IF client.bench THEN BenchPoll ELSE Poll

FairEitherSpec ==
  /\ EitherSpec
  /\ WF_vars(Tick) /\ WF_vars(Kill) /\ WF_vars(Read) /\ WF_vars(EitherPoll)

=============================================================================
