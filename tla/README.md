# Verification of the AMOR simulation

The repository simulates the AMOR instrument for tests of control and data
acquisition software: a program that streams neutron events to Kafka, small
servers that behave like the instrument's devices, and a facade that brings the
chopper into EPICS. This directory holds TLA+ models of its concurrent and
stateful parts, the instances TLC checks, and theorems that TLAPS has checked.

## The system

| part | code | state | operations | what makes it hard |
|---|---|---|---|---|
| run-time control | `neventGenerator/control.hpp` | status, rate, whether commands are still read | words from standard input; `rate` takes a second word | the main thread writes what all the others read; `stoi` may throw |
| statistics | `Stats.hpp` | `ThreadCount`, the reporter's place in its loop | `add()` by every streaming thread, `report()` by one thread | increment, comparison, notification and reset are not one step; `wait` without a predicate; the status is read several times per round |
| streaming threads | `generator.hpp`, `kafka_generator.hpp`, `AMORgenerator.cxx` | per thread the place in `runImpl`, the pulse, the producer's queue | produce, poll, empty the queue, pause, add statistics | threads, a bounded queue, a broker that answers late, a division by the rate |
| EL734 motor controller | `ansible/roles/motors/files/el734*.py` | per connection the login and its motors | lines of a text protocol | a drive advances only when somebody asks; flags are cleared by reading; reference runs refuse every line; injected failures |
| EL737 counter box | `ansible/roles/generator/files/el737counter.py`, and a copy that has drifted, `neventGenerator/el737counter.py` | login, the count, the spawned generator and its pipe | lines of a text protocol | two processes and a pipe; times reckoned from four stamps; connections that end |
| chopper facade | `facade-chopper-dornier` | process variables, the reactor's queue and timers, the connection; three threads and the signal handlers | EPICS writes, calls between threads, replies from the device, start and shutdown | stale state, TCP tears replies, connections that end, signals at any point |
| pickup generator | same file, lines 36-84 | the last pickup, the array of pickups | one round per period | cut-off arrays, pickups that move to the next period |
| magnet power supplies | `ansible/roles/magnet/files` | the magnets of each connection: current, power | lines of a text protocol | limits that differ per magnet; a current set while switched off is answered with OK but not set; late answers |
| SPS-S5 | `ansible/roles/sps/files/spss5.py` | a memory image per connection | read, push a button | three buttons toggle a byte, all others are echoed and do nothing; nobody takes the echo of a push |
| Dimetix laser | `ansible/roles/dimetix/files/dimetix.py` | laser on or off | lines of a text protocol | module-level state shared by all connections |
| configuration | `Configuration.cxx` | options | defaults, file, command line, validation | what validation lets through to a later exception; values never set |
| reader, serialiser, listener | `nexus_reader.hpp`, `serialiser.hpp`, `generator.hpp:74-90,152-187` | events, message numbers, counters of losses | read, replicate, resize, serialise, receive, count losses | a layout that resizing breaks; lost, overtaken and foreign messages |

How they interact: the counter box spawns the generator (`echo 2`) and steers it
through a pipe with the words that the run-time control reads (`run`, `pause`,
`stop`, `exit`, `rate`); the control's status is the only thing the streaming
threads and the reporter look at; the threads meet in the statistics. The motor
controller, the counter box and the other device servers know nothing of each
other; each connection has objects of its own (the laser is the exception). The
EPICS IOC scans and writes the devices through the protocols of `db/*.proto`,
in which a late answer meets the next question. The facade stands between an
EPICS server thread and a reactor thread; its pickup thread reads the speed that
the reactor thread stores; its shutdown runs in signal handlers.

What makes each part correct is stated in the modules; the hazards that the
properties are aimed at are listed in `PROJECT.json` under `hazards`, each at
its line.

## Modules

| module | models | is used by |
|---|---|---|
| `CommandlineControl` | `update_impl()`: each word, the argument of `rate`, the exception | `EventGenerator`, `CounterBox` (`INSTANCE`) |
| `Stats` | `add()` and `report()` step by step, with an arbitrary status as environment | `EventGenerator` (`INSTANCE`: its threads and reporter take these steps) |
| `EventGenerator` | `Generator::run` and `runImpl`, the producer's queue, composed with the two above | `MCEventGenerator`, `MCStreaming`, `EventGeneratorProofs` |
| `EL734Motor` | the methods of the motor class as operators from record to record | `EL734Controller` |
| `EL734Controller` | one connection: login, lines, the clock | `MCEL734Controller`, `EL734Proofs` |
| `Count` | what a counter box promises of a count, kept by the second: the abstract specification of both boxes | `CounterBox` (`INSTANCE ... WITH`, and refined by it) |
| `CounterBox` | one connection to the deployed box, its pipe and the generator's control | `BenchCounterBox`, `CounterBoxProofs` |
| `BenchCounterBox` | the copy beside the generator, where it differs; `EitherSpec` is a client that has found one of the two | `MCCounterBox`, `CounterBoxProofs` |
| `ChopperFacade` | server thread, reactor thread, connection and device | `MCChopperFacade`, `MCFacade`, `ChopperProofs` |
| `PickupGenerator` | one round of the pickup thread, the disc's speed | `MCFacade`, `PickupProofs` |
| `FacadeShutdown` | the main thread from start to end, the signal handlers, the two threads | `MCFacade`, `ShutdownProofs` |
| `Magnets`, `SPSS5`, `Dimetix` | the device servers as operators: a line to a state and answers | `DeviceSession` (`INSTANCE`) |
| `DeviceSession` | the IOC and one of these devices, the lines and answers between them | `MCDeviceSession`, `DeviceSessionProofs` |
| `Configuration` | defaults, file, command line, `validate()` as operators | `EventStream` (`INSTANCE`) |
| `EventStream` | reader, resizing, message, topic and listener, started with a configuration each | `MCEventStream`, `MCStreaming`, `EventStreamProofs` |
| `EventGeneratorProofs`, `EL734Proofs`, `CounterBoxProofs`, `ChopperProofs`, `PickupProofs`, `ShutdownProofs`, `EventStreamProofs`, `DeviceSessionProofs` | the theorems | |

### EventGenerator

`wpc[t]` is the place of thread *t* in the loop of `runImpl` (lines 101-149):
`exit?`, `stop?` and `run?` are the three reads of the status, `send` and `sent`
surround the production, `flush` and `drain` are the two loops that empty the
queue, `pace` is the comparison `PulseID % rate()`, `due?` asks whether the report
time has passed, `add` is inside `Stats::add`. Every read of the shared status
is a step of its own. `pulse` is `PulseID % FlushEvery`, `outq` what
`outq_len()` returns. `alive` becomes false when the process dies of a division
by zero. `late` is a history variable. What a thread waits for is abstracted:
how long it sleeps is not part of the model, and the figures in a report are
not either. In `Stats`, `ThreadCount` is capped at N + 1, because the code only
compares it with N and resets it.

### EL734Controller

An action is the handling of one line. Positions are integers, in steps or in
degrees as in the code; the code's floating point arithmetic is not modelled
beyond the rounding that integer division gives. `elapsed` is
`time.time() - starttime` in ticks. `refrun` refuses every line (`*BSY`) except
that it looks at the clock. The text of replies, the log and the ignored
parameters are left out.

`j` stores any speed (`el734motor.py:58-60`), and so does the model. At 0 a drive
never arrives, and at a negative speed it goes away from its target. `DrivesEnd` and
`UnfailedRefRunsEnd` therefore ask for a positive speed from some time on, whatever
it was before; that a reference run at another speed answers `*BSY` for ever is a
theorem (`IdleSpeedHoldsARefRun`). No document of the repository says which speeds
are legal.

### CounterBox

`box` holds the fields of the Python object; `clock` is the time since
`starttime`. The pipe holds whole words; `partial` is the tail that has not been
ended by a carriage return, which only `rt` leaves. The generator is modelled by
its control alone (`CommandlineControl`) and by how it ends. `asked`,
`swallowed` and `verdict` (how the last count ended) are history variables.

A client is the set of lines it sends and of failures it injects, chosen in the
initial state: what the other lines would change, nobody in this connection
sees. `BenchCounterBox` states what the copy does otherwise: it injects no
failures, does not pause the generator when a count has expired, and refuses `tp`
without an argument before anything is changed.

`Count` says nothing of lines and reckons nothing from stamps: a count is begun,
held, resumed, finished when its goal has been counted, or broken, and each second
is added to the time counted or to the pause that is on. `CountedTime` and
`PauseSoFar` are what the box's `clock`, `pausestart` and `pausedTime` amount to;
`shown` is what `ra` reports. The quirks of the box are part of `Count`, to the
second: a `ps` during a pause counts the time since the `ps` before, because it
overwrites `pausestart` (`el737counter.py:173-176`), and only the rest of the pause
is lost; a `ps` after the end takes the count up again; `ra` during a second pause,
or after a stop, shows the pauses that are over as well; a refused `tp` reads the
goal in another unit (`Reread`).

### ChopperFacade

`writer` is the server thread inside `write()`: first the process variable is
set, then the call is handed over. `calls` is the reactor's queue, `timers` the
pending `callLater`. `fromDevice` holds what each call of `dataReceived` will be
given: the status lines complete in it. The device is external: it executes
commands in order and answers the status question, in one piece or two. Of a
status line only State is kept, as it alone decides what happens later; the
process variables `Spd-RB` and `Phs-RB` are copies of the set points, made where
these are set, and read by nobody. `dropped` and `torn` are history variables.

### PickupGenerator and FacadeShutdown

`PickupGenerator` reckons in ticks relative to the last run of the thread
(`ts_last`): `behind` is how far the last pickup published (`ts_p_last`) lies
back, `step` the time of a turn, `tdce` the pickups published, cut off at what
the array holds beside its two header elements. The clock may jump back.
`lastShown` and `steady` are history variables. The array is sized for
`freq_max` without the header elements, so that at top speed the pickups fall
behind for ever; `BacklogIsPublished` states what is true of the speeds that fit.

In `FacadeShutdown`, `main` walks through `start()`, the reactor and the wait of
the interpreter for its threads; `handlers` is the stack of signal handlers
under way, as a handler may interrupt another. Python 2 handles no signal while
the main thread waits in a `join`. `reactor.run()` installs Twisted's own handler
for SIGTERM: a SIGTERM that comes then stops the reactor but neither thread, so
that the program waits for them for ever, although the comment at
`facade-chopper-dornier.py:658-659` counts SIGTERM among the signals that end it.
A signal before the pickup generator is made ends the same way: its handler fails
at `Chopper.stop()` and sets `handled_shutdown` all the same. `EndsWhenTold` is
therefore stated of a SIGINT or SIGHUP that is handled first, once the reactor
runs.

### DeviceSession

One of the devices is chosen in the initial state. `toServer` and `input` are
the two directions of the connection, `waiting` is the line that the IOC waits
for an answer to, `reading` what the records show: the empty sequence is an
alarm. `DIST` is the number that the laser's record holds, in an alarm too. Before
it sends, the IOC throws away what has come in. A line that timed
out may still be answered, and its answer is then read as that to the next line.
A line that raises in the server, or the loss of the connection, ends the
protocol object; the magnets and the image of the SPS are that object's, so that
a new connection begins with new ones, whereas the laser's two variables are the
process's and are shared with other connections (`Elsewhere`). `past`, `astray`,
`acknowledged` and `pushed` are history variables.

Three things the properties have to allow for: an answer of the SPS does not
say what it answers, so that the echo of a push may be taken for a reading
(`ReadingsAreGenuine` leaves the SPS out, `ReadingsFallIntoStep` shows that it
passes); a magnet that is off says OK to a current and forgets it (`InForce`), and
what another connection overrides no longer counts as acknowledged (`Elsewhere`);
the error of the laser is no reading, so that its record goes into an alarm.

There it keeps the number it had, although the repository's `README.md:158-159` says
of `DIST` that it is 0, and in an alarm, when the laser is off: a laser that is off
answers `g0@E213` (`dimetix.py:54`), which neither the reply nor the mismatch handler
of `dimetix.proto:21-22` matches, and neither would set a number. That the number is
one that was read is part of `ReadingsAreGenuine`.

### Configuration and EventStream

Texts are strings of which the constants say what the code finds in them: `Uri`
what the regular expressions match, `Number` what `to_int` reads. A text that is
no number reads as 0, a blank one leaves the result uninitialised: `Number` gives
the set of possible readings. The counter box passes the words after `echo 2` as
the whole argument vector, so that the generator takes the first for its own name;
`Arguments` has both ways of starting. `EventStream` keeps, per topic, the log of
its messages; `queue` holds those the broker has not reported on, which it may
store (also out of order, after a retry) or lose. `Expected`, `MessagesLost` and
`MessagesReceived` are the variables of `listenImpl`; `start` and `offset` its place
in the topic. `Data` follows the events through the reader (all times of flight,
then all detector ids), the replication, and the resizing in `main`. `clean`,
`foreign` and `reported` are history variables. The topics and source names are
those the configurations name; a streaming thread's suffix is dropped, as the
listener reads the topic of thread 0 only.

## Runs

| run | question | instance and bounds |
|---|---|---|
| `generator_safety` | `NoQueueFull`, `AtMostOneLateMessage`, `FullCountIsSeen` | two threads, all words, rates 0 and 1, `FlushEvery` = `QueueMax` = 3; symmetric threads. Two threads suffice for a count to be missed, three pulses for every path between two flushes |
| `reports_overshoot` | `ReportsKeepComing`, **violated** | two threads, only `run` |
| `motor_drives` | `FlagsOfTheLastDrive`, `OnlyFailuresHoldARefRun`, `RefRunIsUndisturbed`, `ArrivalRespectsTheLimit`, `DrivesEnd`, `UnfailedRefRunsEnd` | one motor (motors are independent), targets on both sides of every limit, two pairs of limits, gears 1 and 2, speeds 0 and 60, run and start failures; three ticks of 60 steps cover the longest drive. A negative speed is left to the theorems: a motor sent off again and again would run away without bound |
| `motor_failedrefrun` | `RefRunsEnd`, **violated** | a run failure during a reference run |
| `counter_boxes` | `GeneratorFollows`, `CountEnds`, `NoGeneratorSurvives`, `KeepsCount` | four clients: of the deployed box one that counts and pauses, with run failures, one that sets rates of 0, 1 and no number, one with thresholds, start and read failures; of the copy one with all lines but `rt`. A preset of two ticks (timer) or one (monitor), two ticks counted and two paused, two words in the pipe: a pause before, at and after the end of a count |
| `counter_swallow` | `StopStopsGeneration`, **violated** | `tp`, `rt`, `st` |
| `facade` | `OnePoll`, `SetPointsAgree`, `WholeRepliesKeepAsking`, `ModesAreShown`; `PickupTypeOK`, `TrainIsUnbroken`, `NoEarlierPeriods`, `BacklogIsPublished`; `EndsWhenTold` | two discs, phases 0 and 1 for the second; two calls waiting, two commands under way. Turns of 1, 3 and 8 ticks, periods of 4, 5 and 8 and a clock set back, three pickups in the array, 20 ticks behind: none, one, some and too many pickups in a period. Three signals. Each behaviour is one of the three: they share only what each chooses freely, the disc's speed and the threads |
| `chopper_torn` | `RegularlyAsked`, **violated** | no writes |
| `streaming` | `MissedAreBreaks`, `CleanStreamLosesNothing`, `EventsArrive`; `RunKeepsStreaming`, `ExitEndsStreaming`, `SoloReportsKeepComing`; `SurvivorReportsKeepComing` | The messages: four files (whole, as deployed, bad URI, unreadable) and eight command lines for each program; two events of 16 bytes; three pulses, two messages under way, one foreign message: enough for a report between two breaks, for a message overtaken and for a listener that joins in the middle. The loops of one thread: all words, rates -1, 0, 1; a queue of 1 with `FlushEvery` 2, so that it does overflow unless the broker is quick. The loops of two threads: `run` and `pause`, the same queue: either thread may be ended, at any point of the other's `add()`. Each behaviour is one of the three (`MCStreaming`): the messages know the pulses of a thread, the loops the steps of a pulse |
| `stream_pairs` | `EventsAreOfTheSource`, **violated** | the messages of `streaming`, with two pulses |
| `stream_multiplied` | `RepeatsTheSource`, **violated** | the same |
| `devices` | `ReadingsAreGenuine`, `AcknowledgedIsInForce`, `PushesToggleOnce`, `ReadingsFallIntoStep` | two magnets with limits 1 and 2, currents on both sides of the first; the SPS with two buttons that toggle a byte each and a typed one that does nothing; the laser with a second connection; two unanswered lines, so that an answer may come one line late |

Each `pass` run also checks the type invariant of its module or of the module
it instantiates (the loops in `streaming` excepted, whose instances are smaller).
`CHECK_DEADLOCK FALSE` stands where the system may stop: the generator after
`exit`, a connection after its end, a clock at its bound, the facade after a
shutdown or at `MaxBehind`; `chopper_torn` checks for deadlock.

The bounds are constants with names: `FlushEvery`, `QueueMax` (the real 1000
pulses and the queue of the Kafka library), `MaxTicks`, `MaxPaused`, `PipeMax`,
`MaxCalls`, `MaxBehind`, `MaxSignals`, `MaxUnanswered`, `MaxPulse`, `MaxQueue` and
`MaxForeign`. The liveness properties of the counter box name `PipeMax`,
because a box that cannot write at its bound would wait for ever, which the
program does not.

### Fairness

* Generator: each thread is scheduled (weak fairness of `Worker(t)`), which
  includes that the broker or the library's timeout disposes of every message,
  as the loops that empty the queue end only then; a thread that keeps pulsing
  finds in the end that its report time has passed (strong fairness of
  `Due(t)`: it is the clock that decides); the reporter is scheduled. Nothing
  is assumed of the user and of spurious wake-ups.
* Motor and counter box: the clock runs, a client that is logged in polls, as
  NICOS and SICS do; liveness is stated for clients that do nothing else in the
  end. The generator reads its input; after a connection has ended the reactor
  comes back from its `sleep(1)` and kills the process.
* Facade: the server thread finishes a `write()`, the reactor runs its calls,
  timers and input (strong fairness of the timer, which competes with writes
  for room at the bound `MaxCalls`), the device answers and obeys. Nothing is
  assumed of writes, mode changes, connections being made or lost. The pickup
  thread runs again and again; the main thread and a thread that was told to end
  are scheduled; nothing is assumed of signals.
* Devices: the IOC scans each of its records periodically (strong fairness, as
  the scans of one device take turns), takes what has come in, and the device
  serves its lines. Nothing is assumed of writes, of timeouts and of
  connections; that the device has at times answered everything is a premise of
  `ReadingsFallIntoStep`.

### Refinements

`KeepsCount`: both counter boxes implement `Count` under the mapping `CountPhase`,
`CountedTime`, `PauseSoFar`, `Goal`, `Reported`. It is checked by TLC and proved.
The box holds stamps and differences of stamps, `Count` adds up seconds: the
refinement is that the two never part, whatever is paused, continued, restarted or
failed in between.

## What the violated runs show

* **`reports_overshoot`.** `neventGenerator/README.md:108` promises log messages
  every `report_time` seconds. With two threads, one thread can count between
  another's comparison and its reset, and the counter then never equals N at
  the comparisons: no report is printed any more, although both threads stream.
  With one thread this cannot happen (`SoloReportsKeepComing`), nor with one
  thread left of several (`SurvivorReportsKeepComing`). There are two more ways to
  lose the reports, which no run shows: `report()` waits for the first `run` only,
  and leaves its loop for good when it sees the status `stop`, so that the next
  `run` brings messages and no reports; a status that is `pause` at the first read
  of the loop condition and `run` at the second has the same effect. And after
  `exit` a reporter that waits is never woken, so that `run()` does not return.
* **`motor_failedrefrun`.** The run status documents `128 : Run failure`
  (`el734motor.py:274`). When the failure ends a reference run, `refrun` stays
  set on a motor that stands still; every line, also the one that would report
  or recover the failure, is answered `*BSY`.
* **`counter_swallow`.** `neventGenerator/README.md:152`: `st` stops the
  generation. After `rt` the rate has no carriage return, the word `stop`
  becomes part of it, and the generation goes on.
* **`chopper_torn`.** `ask_device_status` is "Regularly called"
  (`facade-chopper-dornier.py:608`). Its chain hangs on one call of
  `dataReceived` seeing a line of every disc; a reply in two TCP segments ends
  it.
* **`stream_pairs`.** A message's `detector_id` holds detector ids
  (`neventGenerator/README.md:126-127`). The reader puts all times of flight before
  all ids; `main` resizes that vector to `bytes / 4` elements, and `serialise` takes
  its halves. Unless `bytes` is just the size of the source's events, the second half
  begins with times of flight (a smaller size) or ends with zeros (a larger one).
  As `validate()` refuses a configuration without `bytes`, the resizing always
  happens. `EventsArrive` shows that the sizes agreeing is enough.
* **`stream_multiplied`.** The data can be a multiple of the original ones,
  `multiplier` is the number of repetitions and `bytes` is optional
  (`neventGenerator/README.md:8`, `70` and `97`). Without `bytes`, `validate()`
  refuses the configuration (`Configuration.cxx:303`); with it, `main()` refuses
  every multiplier above 1 (`AMORgenerator.cxx:34-37`). Nothing is ever replicated
  (`SourceIsNotReplicated`).

Two more things show when reading the instances of `streaming`: the deployed
`config.json` (no `bytes`, no `num_threads`) is refused unless the command line
supplies both; and a file whose URI is bad is refused even when the command line
overrides it.

## What is proved

All theorems are checked by TLAPS to the last leaf, for every value of the
constants that the modules' assumptions allow.

* `EventGeneratorProofs`: `TypeCorrect`, for any finite non-empty set of threads.
  `QueueNeverFull`, from the assumption `FlushEvery <= QueueMax` stated in the
  theorem: that a thread about to produce finds room is not inductive, and the
  strengthening ties the length of the queue to the pulse, so that at most as many
  messages wait as there were pulses since the queue was emptied.
  `OneLateMessage`: the strengthening says at which program points a thread may
  already have produced its late message. `FullCountSeen`: the invariant is shown
  for the steps of `Stats` alone, of which the generator takes no others
  (`StatsSteps`), and is inductive with the type invariant, as the counter reaches N
  only by a thread that is then at its comparison, and leaves N when it is reset or
  when another thread counts on. `ExitBringsTheEnd` and `RunBringsTheNextMessage`
  count the steps a thread has before it, through full queues and `add()`
  (`StepsLeft`, `StepsToSend`). `SoloNeverOvershoots` and `SurvivorNeverOvershoots`,
  which draws on `FullCountSeen`, are one side of the missed reports,
  `OvershootIsForGood` the other.
* `EL734Proofs`: `TypeCorrect`, `FlagsAreOfTheLastDrive`, `RefRunHeldByFailureOnly`,
  `RefRunUndisturbed`, `ArrivalWithinTheLimit`, from one inductive invariant of a
  single motor (`MotorInv`), which every operator of `EL734Motor` is shown to keep.
  It adds to the two properties what they need of each other: a moving motor's
  step target fits its direction, and a reference run that moves has a target
  that nothing changes. `AimedDrives`: what is set under way does not turn a drive
  round. `IdleSpeedHoldsARefRun`: at a speed of 0 or below the motor reckons itself
  where it started or further from its target, at every look at the clock.
  `PollingEndsDrives`, `HeldRefRunIsForGood`: see below.
* `CounterBoxProofs`, of `EitherSpec`, that is of both boxes. `BoxKeepsCount`: the
  invariant `BoxInv` says that the pauses reckoned have passed
  (`PausesHavePassed`: `pausedTime` is never more than the time up to the pause or
  now), without which the account could be given back more than it had; each line
  and each tick is then shown to be a step of `Count`, to the second. `GeneratorFollowsTheBox`: `FollowInv`
  speaks of the pipe at any length. What matters is the last word: either it has
  been read and the status is what it asked for, or it still waits in the pipe
  with only rates behind it (`LastWordCounts`), and every `rate` has its number
  behind it (`RatesHaveNumbers`); and the box has asked for what it does.
  `LastWordDone` draws from the same invariant that every word, `stop` too, is
  done unless a rate has swallowed one. `TypeCorrect` needs `BoxInv` for the range
  of the stamps. `PollsEndCounts`: see below.
* `ChopperProofs`: `TypeCorrect`. `OneQuestionAtATime`: questions in the queue, at
  the timer, on the wire and in complete replies are counted over sequences of any
  length, and there is none while the connection is being made.
  `ChainDoesNotBreak`: without a torn reply it is exactly one while the connection
  is up; `SilenceIsForGood`: none is one for ever. `QuestionsAreNotOvertaken`: each
  step of the reactor or the device brings a question, and its whole answer, one
  place nearer, whatever is written meanwhile. `ModesComeThrough` needs
  `OneQuestionAtATime`: no older answer is on its way with a newer one.
  `SetPointsAgreeInTheEnd`: of each set point the last command under way, in the
  queue or on the wire, carries the value of the process variable; if there is
  none, the device has it.
* `PickupProofs`: `PickupsTyped`, `TheTrainIsUnbroken`, `NoneIsOfAnEarlierPeriod`,
  from the invariant that the thread goes on from the last pickup it published
  (`GoesOnFromTheLast`) while the speed is steady; `TheBacklogShrinks`.
* `ShutdownProofs`, for any number of signals: the invariant `ShutdownInv` says that
  after a signal in time each duty that is not done (the reactor, the two threads,
  the join) is still owed by one of the handlers on the stack (`DutiesAreOwed`), and
  that whoever joins has told the server (`JoinersHaveTold`). Hence
  `ShutdownTyped`, `NothingIsForgotten`, `EndsByHandledSignals` and
  `ShutdownNeverStuck`; `EndDrawsNear` has a measure that every step lowers, a signal
  that starts a further handler included. `SIGTERMHangsForGood` and
  `EarlySignalDisarms` are the two ways in which the facade is left running.
* `EventStreamProofs`: `TypeCorrect`; `SourceIsNotReplicated`, for any histogram;
  `MissedMessagesAreBreaks` and `CleanStreamsLoseNothing` for topics of any length;
  `SourceEventsArrive` through the length of what the reader flattens;
  `FittingSizesPairUp` through its elements, which stand in pairs as their cells
  do (`FlattenedInPairs`). What the reader flattens is defined by a recursive
  function; the lemmas are induced through the least natural number of a set of
  exceptions, as the library's induction theorems take an operator as a parameter.
  That no configuration takes the source name of the programs that write to the
  same topics is `StrangersAssumption`.
* `DeviceSessionProofs`: `TypeCorrect`; `RecordsAreGenuine`: every answer on its way
  shows what the device has been, or reads as nothing, and the laser's number is one
  that was read; `AcknowledgedWritesHold`: what is
  acknowledged is in force, and the answer to a write that was not sent astray is
  that write's own, so that when it is taken the write is in force;
  `ButtonsToggle`: there is a sequence of images that leads from the device's
  through the lines on their way to one that shows the pushes. `ScansStayInStep`:
  once nothing is left unanswered, each scan is read from its own answer.
  `SessionAssumption` says which lines there are: those of the protocols and those
  that somebody types, which write nothing.

Liveness is beyond the prover: neither fairness nor ENABLED can be reasoned about.
What the liveness properties rest on beside scheduling is proved as action
properties and invariants, for every value of the constants:

| liveness property (TLC) | its safety part (TLAPS) |
|---|---|
| `ExitEndsStreaming`, `RunKeepsStreaming`, `SoloReportsKeepComing`, `SurvivorReportsKeepComing` | `ExitBringsTheEnd`, `RunBringsTheNextMessage`, `SoloNeverOvershoots`, `SurvivorNeverOvershoots` |
| `DrivesEnd`, `UnfailedRefRunsEnd` | `PollingEndsDrives` |
| `CountEnds` | `PollsEndCounts` |
| `WholeRepliesKeepAsking`, `ModesAreShown` | `ChainDoesNotBreak`, `QuestionsAreNotOvertaken`, `ModesComeThrough` |
| `BacklogIsPublished` | `TheBacklogShrinks` |
| `EndsWhenTold` | `NothingIsForgotten`, `ShutdownNeverStuck`, `EndDrawsNear` |
| `ReadingsFallIntoStep` | `ScansStayInStep` |
| `NoGeneratorSurvives` | none: it is the reactor coming back from its sleep |

What is behind the violated runs is proved too: that there is no way back from an
overshot counter (`OvershootIsForGood`), a held reference run
(`HeldRefRunIsForGood`) and a broken chain of questions (`SilenceIsForGood`), and that
a swallowed word and a size that does not fit are the only causes of two others
(`LastWordDone`, `FittingSizesPairUp`), and that no repetition is ever streamed
(`SourceIsNotReplicated`).

Model-checked only: the liveness properties themselves. That `step` and `Elapsed`
are whole ticks is a bound of the model, not an assumption about the code's
floating point.

## What is not modelled

* `NoControl`, the ZeroMQ transport (compiled out), McStas reader, file writer and
  time stamp generator (never instantiated by a program here), `sendline.py`.
* The launcher `generator.py`, the Ansible roles, and the EPICS databases of the
  motors and the counter: no state of their own.
* Wording and layout of replies and logs, floating point, and the figures of the
  statistics, which are added up and cleared without a common lock.
* In the counter box, how many replies a line gets (`dl` and `dr` answer twice, `rt`
  not at all): no protocol in the repository depends on it.
* A chopper that is already turning when the facade starts: the device begins with
  the facade's own zeros, so that `SetPointsAgree` does not speak of a restart. A
  status line with a negative phase, which the pattern does not match
  (`facade-chopper-dornier.py:528-529`).
* `std::localtime`'s one static result, which all streaming threads share: it shifts
  a thread's report time, which is nondeterministic in the model anyway.

## Plan

Done: the generator with its statistics and control; the motor; both counter
boxes with the abstract count; the facade with pickups and shutdown; magnets, SPS
and laser with the IOC; configuration and the way of the events to the listener;
theorems about all of them, the safety part of the liveness properties included.

What is left, by importance:

1. Replies: one reply per line for the counter box, as clients that pair lines
   with answers expect; the IOC of `DeviceSession` in front of motors and counter.
2. The figures of the statistics with their data race.
3. Connections side by side for motors and counter boxes, which share the
   process, its log and the generator's executable.
