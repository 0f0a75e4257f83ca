------------------------------ MODULE MCFacade ------------------------------
(* The facade's program as TLC checks it: set points and status, the        *)
(* pickups, and its start and end.  What the three share, the disc's speed  *)
(* and the threads, is chosen freely in the module that reads it, so that   *)
(* it is enough to let one of them run in each behaviour.                   *)
EXTENDS ChopperFacade, PickupGenerator, FacadeShutdown

CONSTANTS c1, c2

PhaseOfTheSlave == {<<c2, "Phs">>}
Passing == {-1, 4, 5, 8}

VARIABLE activity

(* As it is when the program has ended.                                     *)
NotStarted ==
  /\ main = "ended"
  /\ thread = [server |-> "none", pickup |-> "none"]
  /\ told = [server |-> FALSE, pickup |-> FALSE]
  /\ reactorStopped = FALSE /\ handledShutdown = FALSE
  /\ handlers = <<>> /\ taken = "no" /\ signals = 0

FacadeInit ==
  /\ activity \in {"set points", "pickups", "shutdown"}
  /\ Init /\ PickupsInit
  /\ IF activity = "shutdown" THEN ShutdownInit ELSE NotStarted

FacadeNext ==
  /\ UNCHANGED activity
  /\ \/ activity = "set points" /\ Next /\ UNCHANGED <<pickupVars, shutdownVars>>
     \/ activity = "pickups" /\ PickupsNext /\ UNCHANGED <<vars, shutdownVars>>
     \/ activity = "shutdown" /\ ShutdownNext /\ UNCHANGED <<vars, pickupVars>>

FacadeSpec ==
  /\ FacadeInit /\ [][FacadeNext]_<<activity, vars, pickupVars, shutdownVars>>
  /\ Fairness /\ PickupsFairness /\ ShutdownFairness
=============================================================================
