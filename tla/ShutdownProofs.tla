--------------------------- MODULE ShutdownProofs ---------------------------
(* Proofs about the facade's start and end, for any number of signals at    *)
(* any of its points: what EndsWhenTold rests on beside fairness, and which *)
(* signals leave the facade running for good.                               *)
EXTENDS FacadeShutdown, Integers, TLAPS

Threads == {"server", "pickup"}
Beginnings ==
  {"loading", "facade_made", "server_made", "server_started", "pickup_made",
   "thr_run_set", "pickup_started"}
Places == Beginnings \cup {"reactor", "main_done", "waits", "ended"}
Points == {"stop_reactor", "stop_pickup", "stop_server", "join", "flag"}

ShutdownTypeOK ==
  /\ main \in Places
  /\ thread \in [server : {"none", "runs", "ended"}, pickup : {"none", "runs", "ended"}]
  /\ told \in [server : BOOLEAN, pickup : BOOLEAN]
  /\ reactorStopped \in BOOLEAN /\ handledShutdown \in BOOLEAN
  /\ handlers \in Seq(Points)
  /\ taken \in {"no", "early", "in_time"}
  /\ signals \in 0 .. MaxSignals

-----------------------------------------------------------------------------
(* The inductive invariant.                                                 *)

(* Handlers run between the import and the wait for the threads only, and   *)
(* a signal that none has handled has told nobody.                          *)
HandlersHaveATime ==
  /\ main \in {"loading", "waits", "ended"} => handlers = <<>>
  /\ main = "loading" => taken = "no"
  /\ taken = "no" => /\ handlers = <<>> /\ ~handledShutdown
                     /\ ~told.server /\ ~told.pickup

(* Which threads there are at which place, and that they end when told.     *)
ThreadsHaveATime ==
  /\ main \in {"loading", "facade_made", "server_made"}
       => thread.server = "none"
  /\ main \in Beginnings \ {"pickup_started"} => thread.pickup = "none"
  /\ main \notin {"loading", "facade_made", "server_made", "ended"}
       => thread.server # "none"
  /\ main \in {"pickup_started", "reactor", "main_done", "waits"}
       => thread.pickup # "none"
  /\ main = "ended" => thread.server # "runs" /\ thread.pickup # "runs"
  /\ thread.server = "ended" => told.server
  /\ thread.pickup = "ended" => told.pickup

Owes(points) == \E i \in DOMAIN handlers : handlers[i] \in points

(* Once a signal has been handled in time, what is not done yet is still to *)
(* be done by a handler under way.                                          *)
DutiesAreOwed ==
  taken = "in_time" =>
    /\ main \in {"reactor", "main_done", "waits", "ended"}
    /\ main = "reactor" /\ ~reactorStopped => Owes({"stop_reactor"})
    /\ ~told.pickup => Owes({"stop_reactor", "stop_pickup"})
    /\ ~told.server => Owes({"stop_reactor", "stop_pickup", "stop_server"})
    /\ thread.server # "ended"
         => Owes({"stop_reactor", "stop_pickup", "stop_server", "join"})

(* A handler joins the server's thread only after it has told it to end.    *)
JoinersHaveTold == Owes({"join"}) => told.server

ShutdownInv ==
  /\ ShutdownTypeOK /\ HandlersHaveATime /\ ThreadsHaveATime /\ DutiesAreOwed
  /\ JoinersHaveTold

-----------------------------------------------------------------------------
(* What the invariant is for.                                               *)

(* When a signal has been handled in time and no handler is under way, the  *)
(* reactor stops, both threads have been told to end, and the server has    *)
(* (facade-chopper-dornier.py:644-654, 482-485).                            *)
NoneIsForgotten ==
  taken = "in_time" /\ handlers = <<>>
    => /\ main = "reactor" => reactorStopped
       /\ \A t \in Threads : told[t]
       /\ thread.server = "ended"

(* Without a SIGINT or SIGHUP a facade that has started its server does not *)
(* end.                                                                     *)
OnlyHandledSignalsEnd == main = "ended" /\ taken = "no" => thread.server = "none"

(* A joining handler is on top: none is interrupted in the join, as the     *)
(* interpreter handles no signal there.  Until the facade ends, a step is   *)
(* open to it after a signal in time: the handler's on top or, where that   *)
(* one waits, the server's end; else the main thread's or a thread's end.   *)
NeverStuck ==
  taken = "in_time" /\ main # "ended" =>
    IF handlers # <<>>
      THEN HandlerAt("join") /\ thread.server # "ended"
             => thread.server = "runs" /\ told.server
      ELSE /\ main = "reactor" => reactorStopped
           /\ main = "waits"
                => \A t \in Threads : thread[t] = "runs" => told[t]

-----------------------------------------------------------------------------
(* How far the end is: every step brings it nearer, as a signal yet to come *)
(* weighs more than the handler it may start.                               *)

PlaceRank(m) ==
  CASE m = "loading" -> 10 [] m = "facade_made" -> 9
    [] m = "server_made" -> 8 [] m = "server_started" -> 7
    [] m = "pickup_made" -> 6 [] m = "thr_run_set" -> 5
    [] m = "pickup_started" -> 4 [] m = "reactor" -> 3
    [] m = "main_done" -> 2 [] m = "waits" -> 1 [] OTHER -> 0

ThreadRank(s) == CASE s = "none" -> 2 [] s = "runs" -> 1 [] OTHER -> 0

PointRank(p) ==
  CASE p = "stop_reactor" -> 5 [] p = "stop_pickup" -> 4
    [] p = "stop_server" -> 3 [] p = "join" -> 2 [] OTHER -> 1

TopRank(h) == IF h = <<>> THEN 0 ELSE PointRank(Head(h))

Distance ==
  12 * (MaxSignals - signals) + 6 * Len(handlers) + TopRank(handlers)
    + PlaceRank(main) + ThreadRank(thread.server) + ThreadRank(thread.pickup)

DrawsNear == Distance' < Distance
HangsForGood == main = "waits" /\ taken = "no" => UNCHANGED shutdownVars
NobodyTellsAnyMore ==
  handledShutdown /\ handlers = <<>> /\ ~told.pickup
    => handledShutdown' /\ handlers' = <<>> /\ ~told'.pickup
-----------------------------------------------------------------------------
(* The stack of handlers.                                                   *)

(* The handler on top goes on: the others stay where they are.              *)
LEMMA TopMoves ==
  ASSUME NEW h \in Seq(Points), h # <<>>, NEW p \in Points
  PROVE  LET g == <<p>> \o Tail(h)
         IN  /\ g \in Seq(Points) /\ g # <<>>
             /\ Len(g) = Len(h) /\ Head(g) = p
             /\ \A i \in DOMAIN h : g[i] = IF i = 1 THEN p ELSE h[i]
<1>1. /\ Tail(h) \in Seq(Points) /\ Len(Tail(h)) = Len(h) - 1 /\ Len(h) \in Nat \ {0}
      /\ \A i \in 1 .. Len(h) - 1 : Tail(h)[i] = h[i + 1]
  OBVIOUS
<1>2. QED
  BY <1>1

(* A signal puts a handler on top.                                          *)
LEMMA OneMore ==
  ASSUME NEW h \in Seq(Points), NEW p \in Points
  PROVE  LET g == <<p>> \o h
         IN  /\ g \in Seq(Points) /\ g # <<>>
             /\ Len(g) = Len(h) + 1 /\ Head(g) = p
             /\ g[1] = p /\ 1 \in DOMAIN g
             /\ \A i \in DOMAIN h : i + 1 \in DOMAIN g /\ g[i + 1] = h[i]
  OBVIOUS

(* The handler on top has ended.                                            *)
LEMMA OneLess ==
  ASSUME NEW h \in Seq(Points), h # <<>>
  PROVE  /\ Tail(h) \in Seq(Points) /\ Len(Tail(h)) = Len(h) - 1
         /\ Len(h) \in Nat \ {0} /\ h[1] = Head(h)
         /\ \A i \in DOMAIN h \ {1} : i - 1 \in DOMAIN Tail(h) /\ Tail(h)[i - 1] = h[i]
  OBVIOUS

(* A duty that the top handler does not leave behind is still owed.         *)
LEMMA OwedStill ==
  ASSUME handlers \in Seq(Points), handlers # <<>>, NEW p \in Points,
         Proceed(p), NEW S, Owes(S), Head(handlers) \in S => p \in S
  PROVE  Owes(S)'
<1>1. PICK i \in DOMAIN handlers : handlers[i] \in S
  BY DEF Owes
<1>2. /\ Len(handlers') = Len(handlers)
      /\ handlers'[i] = IF i = 1 THEN p ELSE handlers[i]
      /\ handlers' \in Seq(Points)
  BY TopMoves DEF Proceed
<1>3. i \in DOMAIN handlers'
  BY <1>2
<1>4. handlers'[i] \in S
  BY <1>1, <1>2
<1>5. QED
  BY <1>3, <1>4 DEF Owes

LEMMA OwedByMore ==
  ASSUME handlers \in Seq(Points), NEW p \in Points,
         handlers' = <<p>> \o handlers, NEW S, Owes(S) \/ p \in S
  PROVE  Owes(S)'
<1>1. /\ 1 \in DOMAIN handlers' /\ handlers'[1] = p
      /\ \A i \in DOMAIN handlers :
           i + 1 \in DOMAIN handlers' /\ handlers'[i + 1] = handlers[i]
  BY OneMore
<1>2. CASE p \in S
  BY <1>1, <1>2 DEF Owes
<1>3. CASE Owes(S)
  <2>1. PICK i \in DOMAIN handlers : handlers[i] \in S
    BY <1>3 DEF Owes
  <2>2. i + 1 \in DOMAIN handlers' /\ handlers'[i + 1] \in S
    BY <2>1, <1>1
  <2>3. QED
    BY <2>2 DEF Owes
<1>4. QED
  BY <1>2, <1>3

LEMMA OwedByLess ==
  ASSUME handlers \in Seq(Points), handlers # <<>>,
         handlers' = Tail(handlers), NEW S, Owes(S), Head(handlers) \notin S
  PROVE  Owes(S)'
<1>1. PICK i \in DOMAIN handlers : handlers[i] \in S
  BY DEF Owes
<1>2. i # 1
  BY <1>1, OneLess
<1>3. i - 1 \in DOMAIN handlers' /\ handlers'[i - 1] = handlers[i]
  BY <1>1, <1>2, OneLess
<1>4. QED
  BY <1>1, <1>3 DEF Owes

(* Nothing else comes to be owed.                                           *)
LEMMA NoNewDuty ==
  ASSUME handlers \in Seq(Points), NEW S, Owes(S)',
         \/ /\ handlers # <<>>
            /\ \/ \E p \in Points \ S : Proceed(p)
               \/ handlers' = Tail(handlers)
         \/ \E p \in Points \ S : handlers' = <<p>> \o handlers
  PROVE  Owes(S)
<1>1. PICK i \in DOMAIN handlers' : handlers'[i] \in S
  BY DEF Owes
<1>2. ASSUME NEW p \in Points \ S, handlers # <<>>, Proceed(p) PROVE Owes(S)
  <2>1. /\ DOMAIN handlers' = DOMAIN handlers
        /\ \A j \in DOMAIN handlers : handlers'[j] = IF j = 1 THEN p ELSE handlers[j]
    BY <1>2, TopMoves DEF Proceed
  <2>2. QED
    BY <1>1, <2>1 DEF Owes
<1>3. ASSUME handlers # <<>>, handlers' = Tail(handlers) PROVE Owes(S)
  <2>1. i + 1 \in DOMAIN handlers /\ handlers[i + 1] = handlers'[i]
    BY <1>1, <1>3
  <2>2. QED
    BY <1>1, <2>1 DEF Owes
<1>4. ASSUME NEW p \in Points \ S, handlers' = <<p>> \o handlers PROVE Owes(S)
  <2>1. i # 1 /\ i - 1 \in DOMAIN handlers /\ handlers'[i] = handlers[i - 1]
    BY <1>1, <1>4
  <2>2. QED
    BY <1>1, <2>1 DEF Owes
<1>5. QED
  BY <1>2, <1>3, <1>4

-----------------------------------------------------------------------------
(* The invariant is kept.                                                   *)

LEMMA ShutdownStarts == ShutdownInit => ShutdownInv
<1> SUFFICES ASSUME ShutdownInit PROVE ShutdownInv
  OBVIOUS
<1> USE DEF ShutdownInit
<1>1. ShutdownTypeOK
  <2>1. signals \in 0 .. MaxSignals
    BY ShutdownAssumption
  <2>2. handlers \in Seq(Points)
    OBVIOUS
  <2>3. main \in Places
    BY DEF Places, Beginnings
  <2>4. QED
    BY <2>1, <2>2, <2>3 DEF ShutdownTypeOK
<1>2. HandlersHaveATime /\ ThreadsHaveATime /\ DutiesAreOwed /\ JoinersHaveTold
  BY DEF HandlersHaveATime, ThreadsHaveATime, DutiesAreOwed, JoinersHaveTold, Owes
<1>3. QED
  BY <1>1, <1>2 DEF ShutdownInv

(* The places that start() passes.                                          *)
LEMMA StartMoves ==
  ASSUME Start
  PROVE  \/ main = "loading" /\ main' = "facade_made" /\ UNCHANGED <<thread, told>>
         \/ main = "facade_made" /\ main' = "server_made" /\ UNCHANGED <<thread, told>>
         \/ /\ main = "server_made" /\ main' = "server_started"
            /\ thread' = [thread EXCEPT !.server = "runs"] /\ UNCHANGED told
         \/ main = "server_started" /\ main' = "pickup_made" /\ UNCHANGED <<thread, told>>
         \/ /\ main = "pickup_made" /\ main' = "thr_run_set"
            /\ UNCHANGED thread /\ told' = [told EXCEPT !.pickup = FALSE]
         \/ /\ main = "thr_run_set" /\ main' = "pickup_started"
            /\ thread' = [thread EXCEPT !.pickup = "runs"] /\ UNCHANGED told
         \/ main = "pickup_started" /\ main' = "reactor" /\ UNCHANGED <<thread, told>>
<1>1. PICK i \in 1 .. Len(Starting) :
        main = Starting[i] /\ main' = IF i < Len(Starting) THEN Starting[i + 1] ELSE "reactor"
  BY DEF Start
<1>4. /\ Len(Starting) = 7
      /\ Starting[1] = "loading"
      /\ Starting[2] = "facade_made"
      /\ Starting[3] = "server_made"
      /\ Starting[4] = "server_started"
      /\ Starting[5] = "pickup_made"
      /\ Starting[6] = "thr_run_set"
      /\ Starting[7] = "pickup_started"
  BY DEF Starting
<1>5. i \in {1, 2, 3, 4, 5, 6, 7}
  BY <1>4
<1>6. \/ i < 7 /\ main' = Starting[i + 1]
      \/ i = 7 /\ main' = "reactor"
  BY <1>1, <1>4, <1>5
<1>2. \/ main = "loading" /\ main' = "facade_made"
      \/ main = "facade_made" /\ main' = "server_made"
      \/ main = "server_made" /\ main' = "server_started"
      \/ main = "server_started" /\ main' = "pickup_made"
      \/ main = "pickup_made" /\ main' = "thr_run_set"
      \/ main = "thr_run_set" /\ main' = "pickup_started"
      \/ main = "pickup_started" /\ main' = "reactor"
  BY <1>1, <1>4, <1>5, <1>6
<1>3. QED
  BY <1>2 DEF Start

LEMMA StartKeeps == ShutdownInv /\ Start => ShutdownInv'
<1> SUFFICES ASSUME ShutdownInv, Start PROVE ShutdownInv'
  OBVIOUS
<1> USE DEF ShutdownInv, ShutdownTypeOK, Places, Beginnings
<1>1. handlers = <<>>
      /\ UNCHANGED <<reactorStopped, handlers, handledShutdown, taken, signals>>
  BY DEF Start
<1>2. ShutdownTypeOK'
  BY <1>1, StartMoves
<1>3. HandlersHaveATime'
  BY <1>1, StartMoves DEF HandlersHaveATime
<1>4. ThreadsHaveATime'
  BY StartMoves DEF ThreadsHaveATime
<1>5. DutiesAreOwed' /\ JoinersHaveTold'
  BY <1>1, StartMoves DEF DutiesAreOwed, JoinersHaveTold, Owes
<1>6. QED
  BY <1>2, <1>3, <1>4, <1>5

LEMMA MainKeeps == ShutdownInv /\ (LeaveReactor \/ AwaitThreads \/ End) => ShutdownInv'
<1> SUFFICES ASSUME ShutdownInv, LeaveReactor \/ AwaitThreads \/ End PROVE ShutdownInv'
  OBVIOUS
<1> USE DEF ShutdownInv, ShutdownTypeOK, Places, Beginnings
<1>1. /\ main \in {"reactor", "main_done", "waits"}
      /\ main' \in {"main_done", "waits", "ended"} /\ handlers = <<>>
      /\ main' = "ended" => thread.server # "runs" /\ thread.pickup # "runs"
      /\ UNCHANGED <<thread, told, reactorStopped, handlers, handledShutdown, taken, signals>>
  BY DEF LeaveReactor, AwaitThreads, End, HandlersHaveATime
<1>2. ShutdownTypeOK'
  BY <1>1
<1>3. HandlersHaveATime'
  BY <1>1 DEF HandlersHaveATime
<1>4. ThreadsHaveATime'
  BY <1>1 DEF ThreadsHaveATime
<1>5. DutiesAreOwed' /\ JoinersHaveTold'
  BY <1>1 DEF DutiesAreOwed, JoinersHaveTold, Owes
<1>6. QED
  BY <1>2, <1>3, <1>4, <1>5

LEMMA ThreadKeeps == ShutdownInv /\ ThreadEnds => ShutdownInv'
<1> SUFFICES ASSUME ShutdownInv, ThreadEnds PROVE ShutdownInv'
  OBVIOUS
<1> USE DEF ShutdownInv, ShutdownTypeOK
<1>1. \/ /\ thread.server = "runs" /\ told.server
         /\ thread' = [thread EXCEPT !.server = "ended"]
      \/ /\ thread.pickup = "runs" /\ told.pickup
         /\ thread' = [thread EXCEPT !.pickup = "ended"]
  BY DEF ThreadEnds
<1>2. UNCHANGED <<main, told, reactorStopped, handlers, handledShutdown, taken, signals>>
  BY DEF ThreadEnds
<1>3. ShutdownTypeOK'
  BY <1>1, <1>2
<1>4. HandlersHaveATime'
  BY <1>2 DEF HandlersHaveATime
<1>5. ThreadsHaveATime'
  BY <1>1, <1>2 DEF ThreadsHaveATime
<1>6. DutiesAreOwed' /\ JoinersHaveTold'
  BY <1>1, <1>2 DEF DutiesAreOwed, JoinersHaveTold, Owes
<1>7. QED
  BY <1>3, <1>4, <1>5, <1>6
(* The duties, one by one: a handler that goes on keeps those that it does  *)
(* not do itself.                                                           *)
LEMMA HandlerKeeps == ShutdownInv /\ Handler => ShutdownInv'
<1> SUFFICES ASSUME ShutdownInv, Handler PROVE ShutdownInv'
  OBVIOUS
<1> USE DEF ShutdownInv, ShutdownTypeOK
<1>1. /\ handlers \in Seq(Points) /\ handlers # <<>>
      /\ UNCHANGED <<main, thread, taken, signals>>
  BY DEF Handler, StopReactor, StopPickup, StopServer, JoinServer, HandlerDone, HandlerAt
<1>2. main \notin {"loading", "waits", "ended"} /\ taken # "no"
  BY <1>1 DEF HandlersHaveATime
<1>3. CASE StopReactor
  <2> USE DEF StopReactor
  <2>1. /\ Head(handlers) = "stop_reactor" /\ Proceed("stop_pickup")
        /\ "stop_pickup" \in Points /\ UNCHANGED <<told, handledShutdown>>
        /\ reactorStopped' = (reactorStopped \/ main = "reactor")
    BY <1>3 DEF HandlerAt, Points
  <2>2. handlers' \in Seq(Points)
    BY <1>1, <2>1, TopMoves DEF Proceed
  <2>3. ShutdownTypeOK'
    BY <1>1, <2>1, <2>2
  <2>4. HandlersHaveATime' /\ ThreadsHaveATime'
    BY <1>1, <1>2, <2>1 DEF HandlersHaveATime, ThreadsHaveATime
  <2>5. ASSUME NEW S, Owes(S), "stop_pickup" \in S PROVE Owes(S)'
    BY <1>1, <2>1, <2>5, OwedStill
  <2>6. DutiesAreOwed'
    BY <1>1, <2>1, <2>5 DEF DutiesAreOwed
  <2>7. JoinersHaveTold'
    <3>1. \E p \in Points \ {"join"} : Proceed(p)
      BY <2>1
    <3>2. QED
      BY <1>1, <2>1, <3>1, NoNewDuty DEF JoinersHaveTold
  <2>8. QED
    BY <2>3, <2>4, <2>6, <2>7
<1>4. CASE StopPickup
  <2>1. /\ Head(handlers) = "stop_pickup"
        /\ \/ /\ main \in {"facade_made", "server_made", "server_started"}
              /\ UNCHANGED told /\ Proceed("flag")
           \/ told' = [told EXCEPT !.pickup = TRUE] /\ Proceed("stop_server")
        /\ "flag" \in Points /\ "stop_server" \in Points
        /\ UNCHANGED <<reactorStopped, handledShutdown>>
    BY <1>4 DEF StopPickup, HandlerAt, Points
  <2>2. handlers' \in Seq(Points)
    <3>1. ASSUME NEW p \in Points, Proceed(p) PROVE handlers' \in Seq(Points)
      BY <1>1, <3>1, TopMoves DEF Proceed
    <3>2. QED
      BY <2>1, <3>1
  <2>3. ShutdownTypeOK'
    BY <1>1, <2>1, <2>2
  <2>4. HandlersHaveATime' /\ ThreadsHaveATime'
    BY <1>1, <1>2, <2>1, <2>3 DEF HandlersHaveATime, ThreadsHaveATime
  <2>5. ASSUME taken = "in_time", NEW S, Owes(S),
               "stop_pickup" \in S => "stop_server" \in S
        PROVE  Owes(S)'
    <3>1. Proceed("stop_server")
      BY <2>1, <2>5 DEF DutiesAreOwed
    <3>2. QED
      BY <1>1, <2>1, <2>5, <3>1, OwedStill
  <2>6. DutiesAreOwed'
    <3>1. taken = "in_time" => told'.pickup
      BY <2>1 DEF DutiesAreOwed
    <3>2. QED
      BY <1>1, <2>1, <2>5, <3>1 DEF DutiesAreOwed
  <2>7. JoinersHaveTold'
    <3>1. \E p \in Points \ {"join"} : Proceed(p)
      BY <2>1
    <3>2. told.server => told'.server
      BY <2>1
    <3>3. QED
      BY <1>1, <3>1, <3>2, NoNewDuty DEF JoinersHaveTold
  <2>8. QED
    BY <2>3, <2>4, <2>6, <2>7
<1>5. CASE StopServer
  <2>1. /\ Head(handlers) = "stop_server" /\ Proceed("join") /\ "join" \in Points
        /\ told' = [told EXCEPT !.server = TRUE]
        /\ UNCHANGED <<reactorStopped, handledShutdown>>
    BY <1>5 DEF StopServer, HandlerAt, Points
  <2>2. handlers' \in Seq(Points)
    BY <1>1, <2>1, TopMoves DEF Proceed
  <2>3. ShutdownTypeOK'
    BY <1>1, <2>1, <2>2
  <2>4. HandlersHaveATime' /\ ThreadsHaveATime'
    BY <1>1, <1>2, <2>1, <2>3 DEF HandlersHaveATime, ThreadsHaveATime
  <2>5. ASSUME NEW S, Owes(S), "stop_server" \in S => "join" \in S PROVE Owes(S)'
    BY <1>1, <2>1, <2>5, OwedStill
  <2>6. DutiesAreOwed'
    BY <1>1, <2>1, <2>5 DEF DutiesAreOwed
  <2>7. JoinersHaveTold'
    BY <2>1, <2>3 DEF JoinersHaveTold
  <2>8. QED
    BY <2>3, <2>4, <2>6, <2>7
<1>6. CASE JoinServer
  <2>1. /\ Head(handlers) = "join" /\ Proceed("flag") /\ "flag" \in Points
        /\ thread.server = "ended" /\ UNCHANGED <<told, reactorStopped, handledShutdown>>
    BY <1>6 DEF JoinServer, HandlerAt, Points
  <2>2. handlers' \in Seq(Points)
    BY <1>1, <2>1, TopMoves DEF Proceed
  <2>3. ShutdownTypeOK'
    BY <1>1, <2>1, <2>2
  <2>4. HandlersHaveATime' /\ ThreadsHaveATime'
    BY <1>1, <1>2, <2>1 DEF HandlersHaveATime, ThreadsHaveATime
  <2>5. ASSUME NEW S, Owes(S), "join" \notin S PROVE Owes(S)'
    BY <1>1, <2>1, <2>5, OwedStill
  <2>6. DutiesAreOwed'
    BY <1>1, <2>1, <2>5 DEF DutiesAreOwed
  <2>7. JoinersHaveTold'
    <3>1. \E p \in Points \ {"join"} : Proceed(p)
      BY <2>1
    <3>2. QED
      BY <1>1, <2>1, <3>1, NoNewDuty DEF JoinersHaveTold
  <2>8. QED
    BY <2>3, <2>4, <2>6, <2>7
<1>7. CASE HandlerDone
  <2>1. /\ Head(handlers) = "flag" /\ handlers' = Tail(handlers)
        /\ handledShutdown' = TRUE /\ UNCHANGED <<told, reactorStopped>>
    BY <1>7 DEF HandlerDone, HandlerAt
  <2>2. handlers' \in Seq(Points)
    BY <1>1, <2>1, OneLess
  <2>3. ShutdownTypeOK'
    BY <1>1, <2>1, <2>2
  <2>4. HandlersHaveATime' /\ ThreadsHaveATime'
    BY <1>1, <1>2, <2>1 DEF HandlersHaveATime, ThreadsHaveATime
  <2>5. ASSUME NEW S, Owes(S), "flag" \notin S PROVE Owes(S)'
    BY <1>1, <2>1, <2>5, OwedByLess
  <2>6. DutiesAreOwed'
    BY <1>1, <2>1, <2>5 DEF DutiesAreOwed
  <2>7. JoinersHaveTold'
    BY <1>1, <2>1, NoNewDuty DEF JoinersHaveTold
  <2>8. QED
    BY <2>3, <2>4, <2>6, <2>7
<1>8. QED
  BY <1>3, <1>4, <1>5, <1>6, <1>7 DEF Handler

LEMMA SignalKeeps == ShutdownInv /\ (HandleShutdown \/ HandleSIGTERM) => ShutdownInv'
<1> SUFFICES ASSUME ShutdownInv, HandleShutdown \/ HandleSIGTERM PROVE ShutdownInv'
  OBVIOUS
<1> USE DEF ShutdownInv, ShutdownTypeOK
<1>1. /\ main \notin {"waits", "ended"}
      /\ signals < MaxSignals /\ signals' = signals + 1
      /\ UNCHANGED <<thread, told, handledShutdown>>
  BY DEF HandleShutdown, HandleSIGTERM, Listens
<1>2. signals' \in 0 .. MaxSignals
  BY <1>1, ShutdownAssumption
<1>3. CASE HandleShutdown /\ main = "loading"
  <2>1. main' = "ended" /\ UNCHANGED <<handlers, taken, reactorStopped>>
    BY <1>3 DEF HandleShutdown
  <2>2. ShutdownTypeOK'
    BY <1>1, <1>2, <2>1 DEF Places
  <2>3. HandlersHaveATime' /\ ThreadsHaveATime' /\ DutiesAreOwed'
    BY <1>1, <1>3, <2>1
      DEF HandlersHaveATime, ThreadsHaveATime, DutiesAreOwed, Beginnings
  <2>4. JoinersHaveTold'
    BY <1>1, <2>1 DEF JoinersHaveTold, Owes
  <2>5. QED
    BY <2>2, <2>3, <2>4
<1>4. CASE HandleShutdown /\ main # "loading"
  <2>1. /\ handlers' = IF handledShutdown THEN handlers
                                           ELSE <<"stop_reactor">> \o handlers
        /\ taken' = IF taken # "no" THEN taken
                    ELSE IF Running THEN "in_time" ELSE "early"
        /\ UNCHANGED <<main, reactorStopped>>
    BY <1>4 DEF HandleShutdown
  <2>2. "stop_reactor" \in Points
    BY DEF Points
  <2>3. handlers' \in Seq(Points)
    <3>1. CASE handledShutdown
      BY <2>1, <3>1
    <3>2. CASE ~handledShutdown
      <4>1. handlers' = <<"stop_reactor">> \o handlers
        BY <2>1, <3>2
      <4>2. QED
        BY <2>2, <4>1, OneMore
    <3>3. QED
      BY <3>1, <3>2
  <2>4. ShutdownTypeOK'
    BY <1>1, <1>2, <2>1, <2>3
  <2>5. HandlersHaveATime' /\ ThreadsHaveATime'
    BY <1>1, <1>4, <2>1 DEF HandlersHaveATime, ThreadsHaveATime
  <2>6. ASSUME NEW S, "stop_reactor" \in S, taken' = "in_time",
               taken = "in_time" => Owes(S)
        PROVE  Owes(S)'
    <3>1. CASE handledShutdown
      <4>1. taken = "in_time" /\ handlers' = handlers
        BY <2>1, <2>6, <3>1 DEF HandlersHaveATime
      <4>2. QED
        BY <2>6, <4>1 DEF Owes
    <3>2. CASE ~handledShutdown
      BY <2>1, <2>2, <2>6, <3>2, OwedByMore
    <3>3. QED
      BY <3>1, <3>2
  <2>7. DutiesAreOwed'
    <3>1. taken' = "in_time" => main \in {"reactor", "main_done", "waits", "ended"}
      BY <2>1 DEF DutiesAreOwed, Running
    <3>2. QED
      BY <1>1, <2>1, <2>6, <3>1 DEF DutiesAreOwed
  <2>8. JoinersHaveTold'
    <3>1. CASE handledShutdown
      BY <1>1, <2>1, <3>1 DEF JoinersHaveTold, Owes
    <3>2. CASE ~handledShutdown
      <4>1. "stop_reactor" \in Points \ {"join"}
        BY <2>2
      <4>2. QED
        BY <1>1, <2>1, <3>2, <4>1, NoNewDuty DEF JoinersHaveTold
    <3>3. QED
      BY <3>1, <3>2
  <2>9. QED
    BY <2>4, <2>5, <2>7, <2>8
<1>5. CASE ~HandleShutdown
  <2>1. reactorStopped' = TRUE /\ UNCHANGED <<main, handlers, taken>>
    BY <1>5 DEF HandleSIGTERM
  <2>2. ShutdownTypeOK'
    BY <1>1, <1>2, <2>1
  <2>3. HandlersHaveATime' /\ ThreadsHaveATime'
    BY <1>1, <2>1 DEF HandlersHaveATime, ThreadsHaveATime
  <2>4. DutiesAreOwed' /\ JoinersHaveTold'
    BY <1>1, <2>1 DEF DutiesAreOwed, JoinersHaveTold, Owes
  <2>5. QED
    BY <2>2, <2>3, <2>4
<1>6. QED
  BY <1>3, <1>4, <1>5

LEMMA ShutdownStep == ShutdownInv /\ [ShutdownNext]_shutdownVars => ShutdownInv'
<1>1. ASSUME ShutdownInv, UNCHANGED shutdownVars PROVE ShutdownInv'
  BY <1>1 DEF ShutdownInv, ShutdownTypeOK, HandlersHaveATime, ThreadsHaveATime,
              DutiesAreOwed, JoinersHaveTold, Owes, shutdownVars
<1>2. QED
  BY <1>1, StartKeeps, MainKeeps, ThreadKeeps, HandlerKeeps, SignalKeeps
    DEF ShutdownNext, MainThread

LEMMA ShutdownInvariant == ShutdownSpec => []ShutdownInv
  BY ShutdownStarts, ShutdownStep, PTL DEF ShutdownSpec

(* The variables of start and shutdown keep their types, whatever signals   *)
(* come and whenever they come.                                             *)
THEOREM ShutdownTyped == ShutdownSpec => []ShutdownTypeOK
<1>1. ShutdownInv => ShutdownTypeOK
  BY DEF ShutdownInv
<1>2. QED
  BY <1>1, ShutdownInvariant, PTL

LEMMA NothingOwed ==
  ASSUME handlers = <<>>, NEW S
  PROVE  ~Owes(S)
  BY DEF Owes

(* After a SIGINT or SIGHUP that came in time no duty of the shutdown is    *)
(* left out, however many signals interrupt it.                             *)
THEOREM NothingIsForgotten == ShutdownSpec => []NoneIsForgotten
<1>1. ShutdownInv => NoneIsForgotten
  BY NothingOwed DEF ShutdownInv, DutiesAreOwed, NoneIsForgotten, Threads
<1>2. QED
  BY <1>1, ShutdownInvariant, PTL

(* A facade that has started its server ends by a handled signal only.      *)
THEOREM EndsByHandledSignals == ShutdownSpec => []OnlyHandledSignalsEnd
<1>1. ShutdownInv => OnlyHandledSignalsEnd
  <2> SUFFICES ASSUME ShutdownInv, main = "ended", taken = "no"
               PROVE  thread.server = "none"
    BY DEF OnlyHandledSignalsEnd
  <2>1. ~told.server
    BY DEF ShutdownInv, HandlersHaveATime
  <2>2. thread.server # "runs" /\ thread.server # "ended"
    BY <2>1 DEF ShutdownInv, ThreadsHaveATime
  <2>3. QED
    BY <2>2 DEF ShutdownInv, ShutdownTypeOK
<1>2. QED
  BY <1>1, ShutdownInvariant, PTL

(* A shutdown begun in time can always go on until the facade has ended.    *)
THEOREM ShutdownNeverStuck == ShutdownSpec => []NeverStuck
<1>1. ShutdownInv => NeverStuck
  <2> SUFFICES ASSUME ShutdownInv, taken = "in_time", main # "ended"
               PROVE  NeverStuck
    BY DEF NeverStuck
  <2> USE DEF ShutdownInv
  <2>1. thread.server \in {"runs", "ended"}
    BY DEF ShutdownTypeOK, DutiesAreOwed, ThreadsHaveATime
  <2>2. CASE handlers = <<>>
    BY <2>2, NothingOwed DEF DutiesAreOwed, NeverStuck, Threads
  <2>3. CASE handlers # <<>>
    <3>1. HandlerAt("join") => told.server
      BY OneLess DEF ShutdownTypeOK, JoinersHaveTold, Owes, HandlerAt
    <3>2. QED
      BY <2>1, <2>3, <3>1 DEF NeverStuck
  <2>4. QED
    BY <2>2, <2>3
<1>2. QED
  BY <1>1, ShutdownInvariant, PTL

-----------------------------------------------------------------------------
(* Every step brings the end nearer.                                        *)

LEMMA Ranks ==
  /\ \A m : PlaceRank(m) \in 0 .. 10 /\ PlaceRank(m) \in Int
  /\ \A s : ThreadRank(s) \in 0 .. 2 /\ ThreadRank(s) \in Int
  /\ \A h : TopRank(h) \in 0 .. 5 /\ TopRank(h) \in Int
  BY DEF PlaceRank, ThreadRank, TopRank, PointRank

LEMMA Lengths ==
  ASSUME ShutdownInv PROVE Len(handlers) \in Nat /\ signals \in Nat
  BY ShutdownAssumption DEF ShutdownInv, ShutdownTypeOK

LEMMA Nearer ==
  ASSUME ShutdownInv,
         NEW d \in Int, NEW e \in Int, NEW k \in Int,
         signals' = signals + k,
         6 * Len(handlers') + TopRank(handlers') <= 6 * Len(handlers) + TopRank(handlers) + d,
         PlaceRank(main') + ThreadRank(thread'.server) + ThreadRank(thread'.pickup)
           <= PlaceRank(main) + ThreadRank(thread.server) + ThreadRank(thread.pickup) + e,
         Len(handlers') \in Nat,
         d + e < 12 * k
  PROVE  DrawsNear
<1>1. Distance' = 12 * (MaxSignals - signals') + 6 * Len(handlers') + TopRank(handlers')
                    + PlaceRank(main') + ThreadRank(thread'.server)
                    + ThreadRank(thread'.pickup)
  BY DEF Distance, TopRank, PointRank, PlaceRank, ThreadRank
<1>2. Distance = 12 * (MaxSignals - signals) + 6 * Len(handlers) + TopRank(handlers)
                   + PlaceRank(main) + ThreadRank(thread.server)
                   + ThreadRank(thread.pickup)
  BY DEF Distance
<1>3. /\ TopRank(handlers) \in Int /\ TopRank(handlers') \in Int
      /\ PlaceRank(main) \in Int /\ PlaceRank(main') \in Int
      /\ ThreadRank(thread.server) \in Int /\ ThreadRank(thread'.server) \in Int
      /\ ThreadRank(thread.pickup) \in Int /\ ThreadRank(thread'.pickup) \in Int
  BY Ranks, Zenon
<1>4. /\ Len(handlers) \in Int /\ Len(handlers') \in Int
      /\ signals \in Int /\ signals' \in Int
  BY Lengths, ShutdownAssumption
<1>5. 12 * (MaxSignals - signals') + 6 * Len(handlers') + TopRank(handlers')
        + PlaceRank(main') + ThreadRank(thread'.server) + ThreadRank(thread'.pickup)
      < 12 * (MaxSignals - signals) + 6 * Len(handlers) + TopRank(handlers)
          + PlaceRank(main) + ThreadRank(thread.server) + ThreadRank(thread.pickup)
  <2> DEFINE s0 == signals          s1 == signals'
             l0 == Len(handlers)    l1 == Len(handlers')
             t0 == TopRank(handlers)    t1 == TopRank(handlers')
             p0 == PlaceRank(main)    p1 == PlaceRank(main')
             a0 == ThreadRank(thread.server)    a1 == ThreadRank(thread'.server)
             b0 == ThreadRank(thread.pickup)    b1 == ThreadRank(thread'.pickup)
  <2>1. /\ s0 \in Int /\ s1 \in Int /\ l0 \in Int /\ l1 \in Int
        /\ t0 \in Int /\ t1 \in Int /\ p0 \in Int /\ p1 \in Int
        /\ a0 \in Int /\ a1 \in Int /\ b0 \in Int /\ b1 \in Int
    BY <1>3, <1>4
  <2>2. /\ s1 = s0 + k
        /\ 6 * l1 + t1 <= 6 * l0 + t0 + d
        /\ p1 + a1 + b1 <= p0 + a0 + b0 + e
    OBVIOUS
  <2> HIDE DEF s0, s1, l0, l1, t0, t1, p0, p1, a0, a1, b0, b1
  <2>3. 12 * (MaxSignals - s1) + 6 * l1 + t1 + p1 + a1 + b1
          < 12 * (MaxSignals - s0) + 6 * l0 + t0 + p0 + a0 + b0
    BY <2>1, <2>2, ShutdownAssumption
  <2>4. QED
    BY <2>3 DEF s0, s1, l0, l1, t0, t1, p0, p1, a0, a1, b0, b1
<1>6. QED
  BY <1>1, <1>2, <1>5, Zenon DEF DrawsNear

LEMMA MainDrawsNear ==
  ShutdownInv /\ (Start \/ LeaveReactor \/ AwaitThreads \/ End \/ ThreadEnds) => DrawsNear
<1> SUFFICES ASSUME ShutdownInv,
                    Start \/ LeaveReactor \/ AwaitThreads \/ End \/ ThreadEnds
             PROVE  DrawsNear
  OBVIOUS
<1>1. UNCHANGED <<handlers, signals>>
  BY DEF Start, LeaveReactor, AwaitThreads, End, ThreadEnds
<1>2. PlaceRank(main') + ThreadRank(thread'.server) + ThreadRank(thread'.pickup)
        < PlaceRank(main) + ThreadRank(thread.server) + ThreadRank(thread.pickup)
  <2>1. CASE Start
    <3>1. PlaceRank(main') < PlaceRank(main)
      BY <2>1, StartMoves DEF PlaceRank
    <3>2. ThreadRank(thread'.server) <= ThreadRank(thread.server)
      BY <2>1, StartMoves DEF ThreadRank, ShutdownInv, ShutdownTypeOK, ThreadsHaveATime
    <3>3. ThreadRank(thread'.pickup) <= ThreadRank(thread.pickup)
      BY <2>1, StartMoves
        DEF ThreadRank, ShutdownInv, ShutdownTypeOK, ThreadsHaveATime, Beginnings
    <3>4. QED
      BY <3>1, <3>2, <3>3, Ranks
  <2>2. CASE LeaveReactor \/ AwaitThreads \/ End
    <3>1. PlaceRank(main') < PlaceRank(main)
      BY <2>2 DEF LeaveReactor, AwaitThreads, End, PlaceRank
    <3>2. UNCHANGED thread
      BY <2>2 DEF LeaveReactor, AwaitThreads, End
    <3>3. QED
      BY <3>1, <3>2, Ranks
  <2>3. CASE ThreadEnds
    <3>1. UNCHANGED main
      BY <2>3 DEF ThreadEnds
    <3>2. \/ /\ thread.server = "runs"
            /\ thread' = [thread EXCEPT !.server = "ended"]
         \/ /\ thread.pickup = "runs"
            /\ thread' = [thread EXCEPT !.pickup = "ended"]
      BY <2>3 DEF ThreadEnds, ShutdownInv, ShutdownTypeOK
    <3>3. \/ /\ ThreadRank(thread'.server) < ThreadRank(thread.server)
            /\ thread'.pickup = thread.pickup
         \/ /\ ThreadRank(thread'.pickup) < ThreadRank(thread.pickup)
            /\ thread'.server = thread.server
      BY <3>2 DEF ThreadRank, ShutdownInv, ShutdownTypeOK
    <3>4. QED
      BY <3>1, <3>3, Ranks
  <2>4. QED
    BY <2>1, <2>2, <2>3
<1>3. /\ signals' = signals + 0 /\ Len(handlers') \in Nat
      /\ 6 * Len(handlers') + TopRank(handlers') <= 6 * Len(handlers) + TopRank(handlers) + 0
  BY <1>1, Lengths, Ranks
<1>4. PlaceRank(main') + ThreadRank(thread'.server) + ThreadRank(thread'.pickup)
        <= PlaceRank(main) + ThreadRank(thread.server) + ThreadRank(thread.pickup) + -1
  BY <1>2, Ranks
<1>5. 0 \in Int /\ -1 \in Int /\ 0 + -1 < 12 * 0
  OBVIOUS
<1>6. QED
  BY <1>3, <1>4, <1>5, Nearer, Zenon

LEMMA HandlerDrawsNear == ShutdownInv /\ Handler => DrawsNear
<1> SUFFICES ASSUME ShutdownInv, Handler PROVE DrawsNear
  OBVIOUS
<1>1. /\ UNCHANGED <<main, thread, signals>> /\ handlers # <<>>
      /\ handlers \in Seq(Points)
  BY DEF Handler, StopReactor, StopPickup, StopServer, JoinServer, HandlerDone,
         HandlerAt, ShutdownInv, ShutdownTypeOK
<1>2. 6 * Len(handlers') + TopRank(handlers') < 6 * Len(handlers) + TopRank(handlers)
  <2>1. CASE HandlerDone
    <3>1. /\ Len(handlers') = Len(handlers) - 1 /\ Len(handlers) \in Nat
          /\ TopRank(handlers) = 1
      BY <1>1, <2>1, OneLess DEF HandlerDone, HandlerAt, TopRank, PointRank
    <3>2. QED
      BY <3>1, Ranks
  <2>2. CASE ~HandlerDone
    <3>1. PICK p \in {"stop_pickup", "stop_server", "join", "flag"} :
            /\ Proceed(p)
            /\ \/ HandlerAt("stop_reactor") /\ p = "stop_pickup"
               \/ HandlerAt("stop_pickup") /\ p \in {"stop_server", "flag"}
               \/ HandlerAt("stop_server") /\ p = "join"
               \/ HandlerAt("join") /\ p = "flag"
      BY <2>2 DEF Handler, StopReactor, StopPickup, StopServer, JoinServer
    <3>2. p \in Points
      BY DEF Points
    <3>3. /\ Len(handlers') = Len(handlers) /\ Len(handlers) \in Nat
          /\ handlers' # <<>> /\ Head(handlers') = p
      BY <1>1, <3>1, <3>2, TopMoves DEF Proceed
    <3>4. PointRank(p) < PointRank(Head(handlers))
      BY <3>1 DEF PointRank, HandlerAt
    <3>5. TopRank(handlers') < TopRank(handlers)
      BY <1>1, <3>3, <3>4 DEF TopRank
    <3>6. QED
      BY <3>3, <3>5, Ranks
  <2>3. QED
    BY <2>1, <2>2
<1>3. Len(handlers') \in Nat
  BY HandlerKeeps, <1>1 DEF ShutdownInv, ShutdownTypeOK
<1>4. 6 * Len(handlers') + TopRank(handlers') <= 6 * Len(handlers) + TopRank(handlers) + -1
  BY <1>2, <1>3, Ranks, Lengths
<1>5. /\ signals' = signals + 0
      /\ PlaceRank(main') + ThreadRank(thread'.server) + ThreadRank(thread'.pickup)
           <= PlaceRank(main) + ThreadRank(thread.server) + ThreadRank(thread.pickup) + 0
  BY <1>1, Ranks, Lengths
<1>6. 0 \in Int /\ -1 \in Int /\ -1 + 0 < 12 * 0
  OBVIOUS
<1>7. QED
  BY <1>3, <1>4, <1>5, <1>6, Nearer, Zenon

LEMMA SignalDrawsNear == ShutdownInv /\ (HandleShutdown \/ HandleSIGTERM) => DrawsNear
<1> SUFFICES ASSUME ShutdownInv, HandleShutdown \/ HandleSIGTERM PROVE DrawsNear
  OBVIOUS
<1>1. signals' = signals + 1 /\ UNCHANGED thread
  BY DEF HandleShutdown, HandleSIGTERM, Listens
<1>2. Len(handlers') \in {Len(handlers), Len(handlers) + 1}
  <2>1. handlers' = handlers \/ handlers' = <<"stop_reactor">> \o handlers
    BY DEF HandleShutdown, HandleSIGTERM
  <2>2. "stop_reactor" \in Points
    BY DEF Points
  <2>3. QED
    BY <2>1, <2>2, OneMore DEF ShutdownInv, ShutdownTypeOK
<1>3. PlaceRank(main') <= PlaceRank(main)
  <2>1. main' = main \/ (main = "loading" /\ main' = "ended")
    BY DEF HandleShutdown, HandleSIGTERM
  <2>2. QED
    BY <2>1 DEF PlaceRank
<1>4. /\ Len(handlers') \in Nat
      /\ 6 * Len(handlers') + TopRank(handlers') <= 6 * Len(handlers) + TopRank(handlers) + 11
  <2>1. TopRank(handlers) \in 0 .. 5 /\ TopRank(handlers') \in 0 .. 5
    BY Ranks, Zenon
  <2>2. Len(handlers) \in Nat
    BY Lengths
  <2> DEFINE l0 == Len(handlers)       l1 == Len(handlers')
             t0 == TopRank(handlers)   t1 == TopRank(handlers')
  <2>3. l0 \in Nat /\ l1 \in {l0, l0 + 1} /\ t0 \in 0 .. 5 /\ t1 \in 0 .. 5
    BY <1>2, <2>1, <2>2, Zenon
  <2> HIDE DEF l0, l1, t0, t1
  <2>4. l1 \in Nat /\ 6 * l1 + t1 <= 6 * l0 + t0 + 11
    BY <2>3
  <2>5. QED
    BY <2>4 DEF l0, l1, t0, t1
<1>5. PlaceRank(main') + ThreadRank(thread'.server) + ThreadRank(thread'.pickup)
        <= PlaceRank(main) + ThreadRank(thread.server) + ThreadRank(thread.pickup) + 0
  <2>1. /\ PlaceRank(main) \in Int /\ PlaceRank(main') \in Int
        /\ ThreadRank(thread.server) \in Int /\ ThreadRank(thread.pickup) \in Int
    BY Ranks, Zenon
  <2>2. thread' = thread
    BY <1>1
  <2> DEFINE p0 == PlaceRank(main)   p1 == PlaceRank(main')
             a == ThreadRank(thread.server)   b == ThreadRank(thread.pickup)
  <2>3. /\ p0 \in Int /\ p1 \in Int /\ a \in Int /\ b \in Int
        /\ p1 <= p0
    BY <1>3, <2>1
  <2> HIDE DEF p0, p1, a, b
  <2>4. p1 + a + b <= p0 + a + b + 0
    BY <2>3
  <2>5. QED
    BY <2>2, <2>4 DEF p0, p1, a, b
<1>6. 11 \in Int /\ 0 \in Int /\ 1 \in Int /\ 11 + 0 < 12 * 1
  OBVIOUS
<1>7. QED
  BY <1>1, <1>4, <1>5, <1>6, Nearer, Zenon

(* Every step of start, shutdown, threads and signals brings the end        *)
(* nearer: with NeverStuck, a shutdown begun in time ends as soon as the    *)
(* threads are scheduled.                                                   *)
THEOREM EndDrawsNear == ShutdownSpec => [][DrawsNear]_shutdownVars
<1>1. ShutdownInv /\ [ShutdownNext]_shutdownVars => [DrawsNear]_shutdownVars
  BY MainDrawsNear, HandlerDrawsNear, SignalDrawsNear DEF ShutdownNext, MainThread
<1>2. QED
  BY <1>1, ShutdownInvariant, PTL DEF ShutdownSpec

-----------------------------------------------------------------------------
(* The signals that leave the facade running.                               *)

(* After a SIGTERM alone the main thread waits for threads that nobody has  *)
(* told to end: nothing happens any more, and no signal is handled          *)
(* (facade-chopper-dornier.py:677-690, 724-727).                            *)
THEOREM SIGTERMHangsForGood == ShutdownSpec => [][HangsForGood]_shutdownVars
<1>1. ShutdownInv /\ [ShutdownNext]_shutdownVars => [HangsForGood]_shutdownVars
  <2> SUFFICES ASSUME ShutdownInv, ShutdownNext, main = "waits", taken = "no"
               PROVE  FALSE
    BY DEF HangsForGood
  <2>1. handlers = <<>> /\ ~told.server /\ ~told.pickup
    BY DEF ShutdownInv, HandlersHaveATime
  <2>2. thread.server = "runs" /\ thread.pickup = "runs"
    BY <2>1 DEF ShutdownInv, ShutdownTypeOK, ThreadsHaveATime
  <2>3. ~Start /\ ~LeaveReactor /\ ~AwaitThreads /\ ~End
    BY <2>2, StartMoves DEF LeaveReactor, AwaitThreads, End
  <2>4. ~Handler
    BY <2>1 DEF Handler, StopReactor, StopPickup, StopServer, JoinServer,
                HandlerDone, HandlerAt
  <2>5. ~ThreadEnds
    BY <2>1 DEF ThreadEnds, ShutdownInv, ShutdownTypeOK
  <2>6. ~HandleShutdown /\ ~HandleSIGTERM
    BY DEF HandleShutdown, HandleSIGTERM, Listens
  <2>7. QED
    BY <2>3, <2>4, <2>5, <2>6 DEF ShutdownNext, MainThread
<1>2. QED
  BY <1>1, ShutdownInvariant, PTL DEF ShutdownSpec

(* Once a handler has set handled_shutdown without having told the pickup   *)
(* thread, which is what one does that comes before the pickup generator is *)
(* made, no later signal tells it (facade-chopper-dornier.py:663-669,       *)
(* 482-485).                                                                *)
THEOREM EarlySignalDisarms == ShutdownSpec => [][NobodyTellsAnyMore]_shutdownVars
<1>1. ShutdownInv /\ [ShutdownNext]_shutdownVars => [NobodyTellsAnyMore]_shutdownVars
  <2> SUFFICES ASSUME ShutdownInv, ShutdownNext, handledShutdown, handlers = <<>>,
                      ~told.pickup
               PROVE  handledShutdown' /\ handlers' = <<>> /\ ~told'.pickup
    BY DEF NobodyTellsAnyMore
  <2>1. ~Handler
    BY DEF Handler, StopReactor, StopPickup, StopServer, JoinServer,
           HandlerDone, HandlerAt
  <2>2. CASE Start
    <3>1. UNCHANGED <<handlers, handledShutdown>>
      BY <2>2 DEF Start
    <3>2. ~told'.pickup
      BY <2>2, StartMoves DEF ShutdownInv, ShutdownTypeOK
    <3>3. QED
      BY <3>1, <3>2
  <2>3. CASE LeaveReactor \/ AwaitThreads \/ End \/ ThreadEnds
    BY <2>3 DEF LeaveReactor, AwaitThreads, End, ThreadEnds
  <2>4. CASE HandleShutdown \/ HandleSIGTERM
    BY <2>4 DEF HandleShutdown, HandleSIGTERM
  <2>5. QED
    BY <2>1, <2>2, <2>3, <2>4 DEF ShutdownNext, MainThread
<1>2. QED
  BY <1>1, ShutdownInvariant, PTL DEF ShutdownSpec
=============================================================================
