--------------------------- MODULE FacadeShutdown ---------------------------
(* The start and the end of the facade (facade-chopper-dornier.py:464-491,  *)
(* 613-727): the main thread makes the facade, starts the channel access    *)
(* server's thread and the pickup thread and enters the reactor; handlers   *)
(* of SIGINT, SIGHUP and SIGTERM run on the main thread, between any two of *)
(* its steps and of each other's.  Twisted's reactor.run() installs its own *)
(* handler for SIGTERM, which only stops the reactor.  The interpreter does *)
(* not handle signals while the main thread waits for another to end.       *)
EXTENDS Naturals, Sequences

CONSTANT MaxSignals      \* bound: the signals sent

ASSUME ShutdownAssumption == MaxSignals \in Nat

VARIABLES
  main,            \* where the main thread is
  thread,          \* the server's and the pickup thread
  told,            \* server_thread.running and thr_run are False
  reactorStopped,  \* reactor.stop() has been accepted
  handlers,        \* where the handlers under way are, the last one on top
  handledShutdown, \* handled_shutdown
  taken,           \* history: when the first handler ran, "early" before
                   \* the reactor did
  signals          \* history: the signals sent

shutdownVars == <<main, thread, told, reactorStopped, handlers,
                  handledShutdown, taken, signals>>

(* What start() does, one attribute or thread after the other.              *)
Starting ==
  <<"loading", "facade_made", "server_made", "server_started", "pickup_made",
    "thr_run_set", "pickup_started">>

ShutdownInit ==
  /\ main = "loading"
  /\ thread = [server |-> "none", pickup |-> "none"]
  /\ told = [server |-> FALSE, pickup |-> FALSE]
  /\ reactorStopped = FALSE
  /\ handlers = <<>>
  /\ handledShutdown = FALSE
  /\ taken = "no" /\ signals = 0

-----------------------------------------------------------------------------
(* The main thread, as long as no handler runs.                             *)

Start ==
  /\ handlers = <<>>
  /\ \E i \in 1 .. Len(Starting) :
       /\ main = Starting[i]
       /\ main' = IF i < Len(Starting) THEN Starting[i + 1] ELSE "reactor"
  /\ thread' = CASE main' = "server_started" -> [thread EXCEPT !.server = "runs"]
                 [] main' = "pickup_started" -> [thread EXCEPT !.pickup = "runs"]
                 [] OTHER -> thread
  /\ told' = IF main' = "thr_run_set" THEN [told EXCEPT !.pickup = FALSE] ELSE told
  /\ UNCHANGED <<reactorStopped, handlers, handledShutdown, taken, signals>>

LeaveReactor ==
  /\ handlers = <<>>
  /\ main = "reactor" /\ reactorStopped
  /\ main' = "main_done"
  /\ UNCHANGED <<thread, told, reactorStopped, handlers, handledShutdown, taken, signals>>

(* The interpreter waits for the threads.                                   *)
AwaitThreads ==
  /\ handlers = <<>> /\ main = "main_done"
  /\ main' = "waits"
  /\ UNCHANGED <<thread, told, reactorStopped, handlers, handledShutdown, taken, signals>>

End ==
  /\ main = "waits" /\ thread.server # "runs" /\ thread.pickup # "runs"
  /\ main' = "ended"
  /\ UNCHANGED <<thread, told, reactorStopped, handlers, handledShutdown, taken, signals>>

(* A thread that was told to ends.                                          *)
ThreadEnds ==
  /\ \E t \in DOMAIN thread :
       thread[t] = "runs" /\ told[t] /\ thread' = [thread EXCEPT ![t] = "ended"]
  /\ UNCHANGED <<main, told, reactorStopped, handlers, handledShutdown, taken, signals>>

-----------------------------------------------------------------------------
(* The signals.                                                             *)

HandlerAt(point) == handlers # <<>> /\ Head(handlers) = point

Listens ==
  /\ main \notin {"waits", "ended"} /\ ~HandlerAt("join")
  /\ signals < MaxSignals
  /\ signals' = signals + 1

Running == main \in {"reactor", "main_done"}

(* handle_shutdown(): nothing the second time; before there is a facade the *)
(* exception ends the program.                                              *)
HandleShutdown ==
  /\ Listens
  /\ IF main = "loading"
       THEN main' = "ended" /\ UNCHANGED <<handlers, taken>>
       ELSE /\ handlers' = IF handledShutdown THEN handlers
                                              ELSE <<"stop_reactor">> \o handlers
            /\ taken' = IF taken # "no" THEN taken
                        ELSE IF Running THEN "in_time" ELSE "early"
            /\ UNCHANGED main
  /\ UNCHANGED <<thread, told, reactorStopped, handledShutdown>>

(* SIGTERM is handled by Twisted once the reactor runs.                     *)
HandleSIGTERM ==
  \/ ~Running /\ HandleShutdown
  \/ /\ Running /\ Listens
     /\ reactorStopped' = TRUE
     /\ UNCHANGED <<main, thread, told, handlers, handledShutdown, taken>>

Proceed(point) == handlers' = <<point>> \o Tail(handlers)

(* reactor.stop() raises an exception unless the reactor runs and has not   *)
(* been stopped; Facade.stop() goes on.  Mutant: it does not.               *)
StopReactorStrictly ==
  /\ HandlerAt("stop_reactor")
  /\ IF main = "reactor" /\ ~reactorStopped
       THEN reactorStopped' = TRUE /\ Proceed("stop_pickup")
       ELSE UNCHANGED reactorStopped /\ Proceed("flag")
  /\ UNCHANGED <<main, thread, told, handledShutdown, taken, signals>>

StopReactor ==
  /\ HandlerAt("stop_reactor")
  /\ reactorStopped' = (reactorStopped \/ main = "reactor")
  /\ Proceed("stop_pickup")
  /\ UNCHANGED <<main, thread, told, handledShutdown, taken, signals>>

(* Chopper.stop(): without a pickup generator it ends in an exception.      *)
StopPickup ==
  /\ HandlerAt("stop_pickup")
  /\ IF main \in {"facade_made", "server_made", "server_started"}
       THEN UNCHANGED told /\ Proceed("flag")
       ELSE told' = [told EXCEPT !.pickup = TRUE] /\ Proceed("stop_server")
  /\ UNCHANGED <<main, thread, reactorStopped, handledShutdown, taken, signals>>

StopServer ==
  /\ HandlerAt("stop_server")
  /\ told' = [told EXCEPT !.server = TRUE]
  /\ Proceed("join")
  /\ UNCHANGED <<main, thread, reactorStopped, handledShutdown, taken, signals>>

JoinServer ==
  /\ HandlerAt("join") /\ thread.server = "ended"
  /\ Proceed("flag")
  /\ UNCHANGED <<main, thread, told, reactorStopped, handledShutdown, taken, signals>>

HandlerDone ==
  /\ HandlerAt("flag")
  /\ handledShutdown' = TRUE
  /\ handlers' = Tail(handlers)
  /\ UNCHANGED <<main, thread, told, reactorStopped, taken, signals>>

-----------------------------------------------------------------------------
Handler == StopReactor \/ StopPickup \/ StopServer \/ JoinServer \/ HandlerDone
MainThread == Start \/ LeaveReactor \/ AwaitThreads \/ End \/ Handler

ShutdownNext == MainThread \/ ThreadEnds \/ HandleShutdown \/ HandleSIGTERM

(* The threads run; signals come or do not.                                 *)
ShutdownFairness ==
  WF_shutdownVars(MainThread) /\ WF_shutdownVars(ThreadEnds)

ShutdownSpec ==
  ShutdownInit /\ [][ShutdownNext]_shutdownVars /\ ShutdownFairness

-----------------------------------------------------------------------------
(* A SIGINT or SIGHUP that is handled while the reactor runs, or after it   *)
(* has, and is the first one, ends the facade with all its threads,         *)
(* whatever signals come while it is handled                                *)
(* (facade-chopper-dornier.py:644-684).  An earlier one may not, and        *)
(* SIGTERM alone never does.                                                *)
EndsWhenTold == taken = "in_time" ~> main = "ended"
=============================================================================
