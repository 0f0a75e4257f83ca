--------------------------- MODULE PickupGenerator --------------------------
(* The thread of the facade that makes up the chopper's pickup signals      *)
(* (facade-chopper-dornier.py:27-90): once a period it publishes the times  *)
(* at which the first disc passed its pickup since the last pickup it       *)
(* published.  The disc's speed is a process variable, which the reactor    *)
(* thread sets whenever it likes.  Times are ticks, given relative to       *)
(* ts_last, the time at which the thread ran last; the speed is given as    *)
(* the time from one pickup to the next.                                    *)
EXTENDS Integers, Sequences, FiniteSetsExt

CONSTANTS
  Steps,           \* the times from a pickup to the next; 0: it stands still
  Elapsed,         \* what the clock shows to have passed when the thread runs
                   \* again; not positive after the clock was set back
  TdceArraySize,   \* the elements of the published array
  MaxBehind        \* bound: how far the last pickup lies back

ASSUME PickupAssumption ==
  /\ 0 \in Steps /\ Steps \subseteq Nat /\ Elapsed \subseteq Int
  /\ TdceArraySize \in Nat /\ TdceArraySize > 2
  /\ MaxBehind \in Nat

VARIABLES
  step,            \* ActSpd of the first disc
  behind,          \* ts_last - ts_p_last
  tdce,            \* the pickups published last, relative to the ts_last of
                   \* their period
  lastShown,       \* history: how far the last pickup published lies back
  steady           \* history: the speed since then; 0 when it has changed or
                   \* the thread has started over

pickupVars == <<step, behind, tdce, lastShown, steady>>

(* The elements before the pickups: their number and ts_base.               *)
Header == 2
Capacity == TdceArraySize - Header

PickupsInit ==
  /\ step = 0 /\ behind = 0
  /\ tdce = <<>>
  /\ lastShown = 0 /\ steady = 0

(* parse_status() sets ActSpd.                                              *)
SetSpeed ==
  /\ step' \in Steps \ {step}
  /\ steady' = 0
  /\ UNCHANGED <<behind, tdce, lastShown>>

(* The pickups t1, t1 + step, ... before ts_now, as many as the array has   *)
(* space for.  Mutant: the header needs none.                               *)
Due(elapsed) == (behind + elapsed - 1) \div step

PickupsUnheaded(elapsed) ==
  [k \in 1 .. Min({Due(elapsed), TdceArraySize}) |-> k * step - behind]

Pickups(elapsed) ==
  [k \in 1 .. Min({Due(elapsed), Capacity}) |-> k * step - behind]

(* Where the next pickups are counted from.  Mutants: from now; from where  *)
(* they were while some are cut off; from the last run.                     *)
ContinueFromNow(elapsed, pickups) == 0

ContinueIfComplete(elapsed, pickups) ==
  IF Len(pickups) \in {0, Capacity} THEN behind + elapsed
                                    ELSE elapsed - pickups[Len(pickups)]

ContinueFromLastRun(elapsed, pickups) == elapsed

ContinueFrom(elapsed, pickups) ==
  IF pickups = <<>> THEN behind + elapsed ELSE elapsed - pickups[Len(pickups)]

Generate(elapsed) ==
  /\ step > 0 /\ elapsed > 0
  /\ tdce' = Pickups(elapsed)
  /\ behind' = ContinueFrom(elapsed, tdce')
  /\ IF tdce' = <<>>
       THEN lastShown' = lastShown + elapsed /\ UNCHANGED steady
       ELSE lastShown' = elapsed - tdce'[Len(tdce')] /\ steady' = step
  /\ behind' <= MaxBehind /\ lastShown' <= MaxBehind
  /\ UNCHANGED step

(* The disc stands still or the clock was set back: nothing is published,   *)
(* and the next pickup is counted from now.                                 *)
StartOver(elapsed) ==
  /\ step = 0 \/ elapsed <= 0
  /\ behind' = 0
  /\ lastShown' = 0 /\ steady' = 0
  /\ UNCHANGED <<step, tdce>>

RunPickups == \E e \in Elapsed : Generate(e) \/ StartOver(e)

PickupsNext == SetSpeed \/ RunPickups

(* The thread runs again and again.                                         *)
PickupsFairness == WF_pickupVars(RunPickups)

PickupsSpec == PickupsInit /\ [][PickupsNext]_pickupVars /\ PickupsFairness

-----------------------------------------------------------------------------
(* The types; the published array fits into the process variable            *)
(* (facade-chopper-dornier.py:68-70, 444-448).                              *)
PickupTypeOK ==
  /\ step \in Steps /\ steady \in Steps
  /\ behind \in 0 .. MaxBehind /\ lastShown \in 0 .. MaxBehind
  /\ tdce \in Seq(Int) /\ Len(tdce) + Header <= TdceArraySize

Publishes == step' = step /\ steady' = step /\ step > 0 /\ tdce' # <<>>

(* At a steady speed the pickups published in one period and the next are   *)
(* one turn apart, whatever the period was, however late the thread ran and *)
(* whatever did not fit into the array: none is lost, doubled or moved      *)
(* (facade-chopper-dornier.py:61-73).                                       *)
TrainIsUnbroken ==
  [][Publishes /\ steady = step => tdce'[1] + lastShown = step]_pickupVars

(* Pickups of a period already published appear only when the speed has     *)
(* changed or the array was full before: "Generate the pickup signals since *)
(* ts_last" (facade-chopper-dornier.py:48-67).                              *)
NoEarlierPeriods ==
  [][Publishes /\ steady = step /\ Len(tdce) < Capacity => tdce'[1] >= 0]_pickupVars

(* More pickups fit into the array than pass between two runs.              *)
Fits(s) == s > 0 /\ \A e \in Elapsed : e < s * Capacity

(* What was cut off is published when the disc stays at a speed for which   *)
(* the array is large enough: the last pickup published is then never more  *)
(* than a turn back (facade-chopper-dornier.py:64-73).                      *)
BacklogIsPublished ==
  \A s \in Steps : Fits(s) /\ <>[](step = s) => <>[](behind <= s)
=============================================================================
