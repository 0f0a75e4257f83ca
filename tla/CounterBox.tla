----------------------------- MODULE CounterBox -----------------------------
(* One connection to the simulated EL737 counter box (el737counter.py) and  *)
(* the event generator it has spawned.  The box keeps time for a count and  *)
(* steers the generator by the words it writes into the generator's         *)
(* standard input, which CommandlineControl reads one by one.  A line to    *)
(* the box is handled from beginning to end before the next one; the        *)
(* generator is a process of its own and reads when it likes.               *)
(* Times are in clock ticks since starttime.                                *)
EXTENDS Integers, Sequences

CONSTANTS
  Clients,         \* the clients: what each one sends
  Rates,           \* the numbers that "rt" is given
  Presets,         \* the numbers that the other lines are given
  CountRate,       \* the counts per tick of monitor mode: 1000 per second
  MaxTicks,        \* bound: the clock stops at this much unpaused time
  MaxPaused,       \* bound: and at this much paused time
  PipeMax          \* bound: the words that wait in the pipe

(* A client is the set of lines it sends, without the polls, and the set of *)
(* the failures it injects; it talks to the deployed box or to its copy on  *)
(* the bench, see BenchCounterBox.                                          *)
LineNames == {"tp", "mp", "st", "ps", "co", "rt", "dl", "dr"}
Failures == {"start", "run", "read"}

ASSUME CounterAssumption ==
  /\ Clients \subseteq [lines : SUBSET LineNames, faults : SUBSET Failures,
                        bench : BOOLEAN]
  /\ Rates \subseteq Int /\ 1 \in Rates
  /\ Presets \subseteq Nat
  /\ CountRate \in Nat \ {0}
  /\ MaxTicks \in Nat /\ MaxPaused \in Nat /\ PipeMax \in Nat

VARIABLES
  client,          \* the client at the other end
  session,         \* remotestate: "local", "remote", "open"; "lost" when
                   \* the connection has ended
  box,             \* the count
  child,           \* the generator's process: "none", "running", "dead"
  pipe,            \* the words in the generator's standard input
  partial,         \* the last word there, if no "\r" has followed it yet
  asked,           \* history: the last word the box has sent, rates apart
  swallowed,       \* history: that word came after a rate without an end
  verdict,         \* history: how the last count ended, "full" or "broken"
  status, rate, main    \* the generator's control, see CommandlineControl

generatorVars == <<status, rate, main>>
pipeVars == <<pipe, partial, asked, swallowed>>
vars == <<client, session, box, child, pipeVars, verdict, generatorVars>>

Words == {"run", "pause", "stop", "exit", "rate"}

Ctl == INSTANCE CommandlineControl

(* A word in the pipe and, if it begins with a number, that number.         *)
Word(w) == <<w, 0>>
Number(r) == <<"number", r>>
Junk == <<"junk", 0>>
NoWord == <<>>

Arguments == {Number(r) : r \in Rates} \cup {Junk}
PipeWords == {Word(w) : w \in Words} \cup Arguments

Times == 0 .. MaxTicks + MaxPaused

Boxes ==
  [mode : {"timer", "monitor"}, preset : Presets \cup {0},
   counting : BOOLEAN, mypaused : BOOLEAN,
   clock : Times, pausestart : Times, pausedTime : 0 .. MaxPaused,
   endtime : Nat,
   threshold : Presets \cup {0}, thresholdcounter : Presets \cup {1},
   failures : SUBSET (Failures \cup {"atrun"}), recover : BOOLEAN]

TypeOK ==
  /\ client \in Clients
  /\ session \in {"local", "remote", "open", "lost"}
  /\ box \in Boxes
  /\ child \in {"none", "running", "dead"}
  /\ pipe \in Seq(PipeWords) /\ Len(pipe) <= PipeMax
  /\ partial \in Arguments \cup {NoWord}
  /\ asked \in Words /\ swallowed \in BOOLEAN
  /\ verdict \in {"full", "broken"}
  /\ Ctl!CtlTypeOK

Init ==
  /\ client \in Clients
  /\ session = "local"
  /\ box = [mode |-> "timer", preset |-> 0,
            counting |-> FALSE, mypaused |-> FALSE,
            clock |-> 0, pausestart |-> 0, pausedTime |-> 0, endtime |-> 0,
            threshold |-> 0, thresholdcounter |-> 1,
            failures |-> {}, recover |-> FALSE]
  /\ child = "none"
  /\ pipe = <<>>
  /\ partial = NoWord
  /\ asked = "stop" /\ swallowed = FALSE
  /\ verdict = "broken"
  /\ Ctl!CtlInit

-----------------------------------------------------------------------------
(* The pipe.  to_process(w + "\r") ends the word that a rate has left open: *)
(* the two become one, which begins with the rate.                          *)

Enclosed(w) == IF partial = NoWord THEN Word(w) ELSE partial

Send(w) ==
  /\ asked' = w
  /\ swallowed' = (partial # NoWord)
  /\ IF child # "running"
       THEN UNCHANGED <<pipe, partial>>
       ELSE /\ Len(pipe) < PipeMax
            /\ pipe' = Append(pipe, Enclosed(w))
            /\ partial' = NoWord

(* "rt": to_process("rate\r") and to_process(l[1]).                         *)
SendRate(a) ==
  /\ UNCHANGED <<asked, swallowed>>
  /\ IF child # "running"
       THEN UNCHANGED <<pipe, partial>>
       ELSE /\ Len(pipe) < PipeMax
            /\ pipe' = Append(pipe, Enclosed("rate"))
            /\ partial' = a

-----------------------------------------------------------------------------
(* The count.                                                               *)

Runtime(b) == b.clock - b.pausedTime

Reaches(b, runtime) ==
  IF b.mode = "timer" THEN runtime >= b.preset
                      ELSE runtime * CountRate >= b.preset

OnTheClock(b) == b.counting /\ ~b.mypaused

(* Mutants: only a timer's count expires; pauses count as well.             *)
ExpiredByTheClock(b) == OnTheClock(b) /\ Reaches(b, b.clock)
ExpiredTimer(b) == OnTheClock(b) /\ b.mode = "timer" /\ Reaches(b, Runtime(b))

Expired(b) == OnTheClock(b) /\ Reaches(b, Runtime(b))

(* A run failure shows at a fifth of the preset.                            *)
RunFails(b) ==
  /\ OnTheClock(b) /\ ~Expired(b)
  /\ "run" \in b.failures /\ ~b.recover
  /\ Reaches(b, 5 * Runtime(b))

Goal(b) == IF b.mode = "timer" THEN b.preset ELSE b.preset \div CountRate

(* calculateCountStatus(): the end of a count, or its failure, is seen when *)
(* somebody asks.                                                           *)
CountStatus(b) ==
  IF Expired(b)
    THEN [b EXCEPT !.counting = FALSE,
            !.endtime = Goal(b),
            !.pausedTime = IF b.mode = "timer" THEN 0 ELSE @]
    ELSE IF RunFails(b)
      THEN [b EXCEPT !.counting = FALSE, !.endtime = b.clock,
                     !.failures = @ \cup {"atrun"}]
      ELSE b

(* calculateFailureStatus(): a failure is the answer unless it is recovered.*)
HasFailed(b) == b.failures \cap {"start", "atrun", "read"} # {} /\ ~b.recover

Recovered(b) ==
  IF b.recover THEN [b EXCEPT !.failures = {}, !.recover = FALSE] ELSE b

(* The time that "ra" makes counts of.                                      *)
Reported(b) ==
  IF ~b.counting THEN b.endtime
  ELSE IF b.mypaused THEN b.pausestart ELSE Runtime(b)

-----------------------------------------------------------------------------
(* The clock and the lines.                                                 *)

Tick ==
  /\ session # "lost"
  /\ Runtime(box) < MaxTicks
  /\ box.mypaused => box.pausedTime + box.clock - box.pausestart < MaxPaused
  /\ box' = [box EXCEPT !.clock = @ + 1]
  /\ UNCHANGED <<client, session, child, pipeVars, verdict, generatorVars>>

Rmt1 ==
  /\ session = "local"
  /\ session' = "remote"
  /\ UNCHANGED <<client, box, child, pipeVars, verdict, generatorVars>>

(* "echo 2" spawns the generator.                                           *)
Echo2 ==
  /\ session = "remote"
  /\ session' = "open"
  /\ child' = "running"
  /\ UNCHANGED <<client, box, pipeVars, verdict, generatorVars>>

BecomeAs(b, how) ==
  /\ session = "open"
  /\ box' = b
  /\ verdict' = how
  /\ UNCHANGED <<client, session, child, generatorVars>>

Become(b) == BecomeAs(b, verdict)

Quietly == UNCHANGED pipeVars

Sends(line) == line \in client.lines

MayStart == ~("start" \in box.failures /\ ~box.recover)

Start(mode, preset) ==
  /\ Sends(IF mode = "timer" THEN "tp" ELSE "mp")
  /\ MayStart
  /\ Become([box EXCEPT !.mode = mode, !.preset = preset,
                        !.clock = 0, !.pausestart = 0, !.endtime = 0,
                        !.mypaused = FALSE, !.pausedTime = 0,
                        !.counting = TRUE])
  /\ Send("run")

NewCount == \E mode \in {"timer", "monitor"}, p \in Presets : Start(mode, p)

(* "tp" without an argument is refused, but not before it has set the mode. *)
StartWithoutPreset ==
  /\ Sends("tp")
  /\ MayStart
  /\ Become([box EXCEPT !.mode = "timer"])
  /\ Quietly

Stop ==
  /\ Sends("st")
  /\ BecomeAs([box EXCEPT !.counting = FALSE, !.endtime = box.clock], "broken")
  /\ Send("stop")

Pause ==
  /\ Sends("ps")
  /\ Become([box EXCEPT !.counting = TRUE, !.mypaused = TRUE,
                        !.pausestart = box.clock])
  /\ Send("pause")

(* Mutants: the generator is not told; the pause is taken to have begun     *)
(* with the count.                                                          *)
ContinueQuietly ==
  /\ Sends("co")
  /\ Become([box EXCEPT !.mypaused = FALSE])
  /\ Quietly

ContinueFromStart ==
  /\ Sends("co")
  /\ Become(IF box.mypaused
              THEN [box EXCEPT !.mypaused = FALSE,
                      !.pausedTime = @ + box.clock]
              ELSE box)
  /\ Send("run")

Continue ==
  /\ Sends("co")
  /\ Become(IF box.mypaused
              THEN [box EXCEPT !.mypaused = FALSE,
                      !.pausedTime = @ + (box.clock - box.pausestart)]
              ELSE box)
  /\ Send("run")

SetRate(a) == Sends("rt") /\ Become(box) /\ SendRate(a)

(* "dl" and "dr" store what nobody else reads.                              *)
SetThreshold ==
  \E n \in Presets :
    /\ \/ Sends("dl") /\ Become([box EXCEPT !.threshold = n])
       \/ Sends("dr") /\ Become([box EXCEPT !.thresholdcounter = n])
    /\ Quietly

Verdict(b) ==
  IF Expired(b) THEN "full" ELSE IF RunFails(b) THEN "broken" ELSE verdict

(* "rs" and "ra".                                                           *)
Poll ==
  IF HasFailed(box)
    THEN Become(box) /\ Quietly
    ELSE LET now == Recovered(box) IN
         /\ BecomeAs(CountStatus(now), Verdict(now))
         /\ IF Expired(now) THEN Send("pause") ELSE Quietly

Fail(f) ==
  /\ f \in client.faults
  /\ Become([box EXCEPT !.failures = @ \cup {f}])
  /\ Quietly

Recover == Become([box EXCEPT !.recover = TRUE]) /\ Quietly

(* connectionLost(), also after an exception in a handler: the box writes   *)
(* "exit" and sleeps for a second ...                                       *)
Hangup ==
  /\ session # "lost"
  /\ session' = "lost"
  /\ Send("exit")
  /\ UNCHANGED <<client, box, child, verdict, generatorVars>>

(* Mutant: only a generator that has obeyed is ended.                       *)
KillObedient ==
  /\ session = "lost"
  /\ child = "running" /\ main = "join"
  /\ child' = "dead"
  /\ UNCHANGED <<client, session, box, pipeVars, verdict, generatorVars>>

(* ... and then kills the process.                                          *)
Kill ==
  /\ session = "lost"
  /\ child = "running"
  /\ child' = "dead"
  /\ UNCHANGED <<client, session, box, pipeVars, verdict, generatorVars>>

Line ==
  \/ NewCount
  \/ StartWithoutPreset
  \/ Stop \/ Pause \/ Continue
  \/ \E a \in Arguments : SetRate(a)
  \/ SetThreshold
  \/ \E f \in Failures : Fail(f)
  \/ Recover

-----------------------------------------------------------------------------
(* The generator reads a word when it is complete.                          *)

TakeStatus(word) ==
  \E w \in Words \ {"rate"} : word = Word(w) /\ Ctl!ReadStatus(w)
TakeRate(word) == word = Word("rate") /\ Ctl!ReadRate
TakeArgument(word) == \E r \in Rates : word = Number(r) /\ Ctl!ReadArgument(r)
TakeBadArgument(word) == word = Junk /\ Ctl!ReadBadArgument
Ignore(word) == main = "words" /\ word \in Arguments /\ UNCHANGED generatorVars

Read ==
  /\ child = "running"
  /\ pipe # <<>>
  /\ pipe' = Tail(pipe)
  /\ LET word == Head(pipe) IN
       \/ TakeStatus(word) \/ TakeRate(word) \/ TakeArgument(word)
       \/ TakeBadArgument(word) \/ Ignore(word)
  /\ UNCHANGED <<client, session, box, child, partial, asked, swallowed, verdict>>

(* The process ends by itself: after "exit", or by dividing by its rate.    *)
GeneratorEnds ==
  /\ child = "running"
  /\ main = "join" \/ (rate = 0 /\ status \in {"run", "pause"})
  /\ child' = "dead"
  /\ UNCHANGED <<client, session, box, pipeVars, verdict, generatorVars>>

Next == Tick \/ Rmt1 \/ Echo2 \/ Line \/ Poll \/ Hangup \/ Kill
          \/ Read \/ GeneratorEnds

Spec == Init /\ [][Next]_vars

(* The clock runs, the reactor comes back from its sleep, the generator     *)
(* reads its input and a client that is logged in polls the box.            *)
FairSpec ==
  Spec /\ WF_vars(Tick) /\ WF_vars(Kill) /\ WF_vars(Read) /\ WF_vars(Poll)

-----------------------------------------------------------------------------
(* Safety.                                                                  *)

(* The generator has read all the words there are.                         *)
Settled ==
  /\ session = "open" /\ child = "running"
  /\ pipe = <<>> /\ main = "words"

(* Once the generator has read what the box has written, it streams if the  *)
(* box counts and is paused if the box is paused, in whatever order the     *)
(* lines came and counts ended, and also again as soon as the box speaks a  *)
(* second time after a rate (el737counter.py:49-73, 125-198).               *)
GeneratorFollows ==
  Settled /\ box.counting /\ ~swallowed => status = IF box.mypaused THEN "pause" ELSE "run"

(* When "st" was the last line that steers the generator, it is stopped as  *)
(* soon as it has read all its words (README.md:152).                       *)
StopStopsGeneration == Settled /\ asked = "stop" => status = "stop"

(* The box reckons from four stamps what Count adds up by the second: a     *)
(* count expires when it has counted its preset and not before, the pauses  *)
(* lost to it apart, and what "ra" shows is the account's, whatever was     *)
(* paused, continued, restarted or failed in between; a pause is lost from  *)
(* its last "ps" on only (el737counter.py:49-75, 125-198, 235-246).         *)
CountPhase == IF box.counting THEN "on" ELSE verdict

CountedTime ==
  (IF box.mypaused THEN box.pausestart ELSE box.clock) - box.pausedTime

PauseSoFar == IF box.mypaused THEN box.clock - box.pausestart ELSE 0

TheCount == INSTANCE Count WITH
  phase <- CountPhase,
  held <- box.mypaused,
  counted <- CountedTime,
  lost <- box.pausedTime,
  pause <- PauseSoFar,
  goal <- Goal(box),
  shown <- Reported(box)

KeepsCount == TheCount!Spec

-----------------------------------------------------------------------------
(* Liveness.                                                                *)

Polled ==
  /\ box' = CountStatus(Recovered(box))
  /\ UNCHANGED <<client, session, child, generatorVars>>

OnlyPolling == Tick \/ Polled \/ Read

CanEnd ==
  session = "open" /\ ~box.mypaused /\ ~HasFailed(box) /\ Len(pipe) < PipeMax

(* A count that is not paused and is only polled comes to its end, whatever *)
(* was paused, continued or restarted before, and also when the generator   *)
(* no longer reads; a failure must have been recovered, and the bound on    *)
(* the pipe must let the box write                                          *)
(* (el737counter.py:49-75).                                                 *)
CountEnds == <>[][OnlyPolling]_vars /\ <>[]CanEnd => <>[](~box.counting)

(* No generator survives its connection, not even one that no longer reads  *)
(* its input or whose "exit" was swallowed (el737counter.py:287-290).       *)
NoGeneratorSurvives == session = "lost" ~> child # "running"

=============================================================================
