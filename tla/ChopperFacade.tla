--------------------------- MODULE ChopperFacade ----------------------------
(* The facade between EPICS and the Dornier chopper                         *)
(* (facade-chopper-dornier.py).  Two threads matter here: the channel       *)
(* access server thread runs write() of the driver, the reactor thread runs *)
(* the calls the server thread hands over (callFromThread), the timers      *)
(* (callLater) and the parsing of what the device sends.  Both read and     *)
(* write the process variables.  The device is modelled as far as the       *)
(* facade uses it: it executes commands in order and answers "asyst" with   *)
(* one status line per disc, which TCP may deliver in pieces.               *)
EXTENDS Integers, Sequences, FiniteSets, SequencesExt

CONSTANTS
  Disc,            \* the discs
  Values,          \* the values that set points are given
  SetPoints,       \* the pairs of a disc and a field that are written
  MaxCalls         \* bound: the calls that wait for the reactor, and the
                   \* commands under way to the device

ASSUME ChopperAssumption ==
  /\ IsFiniteSet(Disc) /\ Disc # {}
  /\ 0 \in Values
  /\ SetPoints \subseteq Disc \X {"Spd", "Phs", "Ratio"}
  /\ MaxCalls \in Nat \ {0}

VARIABLES
  link,            \* the connection to the device: "connecting", "up", "lost"
  pv,              \* of each disc the process variables State, Spd, Phs, Ratio
  writer,          \* what the server thread does in write()
  calls,           \* the calls that wait in the reactor's queue
  timers,          \* the calls of ask_device_status that callLater holds
  toDevice,        \* the commands under way to the device
  fromDevice,      \* the pieces of status replies under way to the facade:
                   \* of each piece the status lines that are complete in it
  device,          \* of each disc the device's mode and set points
  dropped,         \* history: the set points whose last command was lost
  torn             \* history: some reply has arrived in more than one piece

wires == <<toDevice, fromDevice>>
history == <<dropped, torn>>
vars == <<link, pv, writer, calls, timers, wires, device, history>>

(* State is 0, MASTER, for "async" and 1, SLAVE, for "synch".               *)
Modes == {"async", "synch"}
Fields == {"Spd", "Phs", "Ratio"}
Settings == [State : Modes, Spd : Values, Phs : Values, Ratio : Values]

Ask == <<"asyst">>
StartAll == <<"start">>
SetCommand(d, f, v) == <<f, d, v>>
SetCommands == Fields \X Disc \X Values

(* The status lines that are complete in a piece of a reply.                *)
Pieces == UNION {[discs -> Modes] : discs \in SUBSET Disc}

Idle == <<"idle">>
WriterStates == {Idle} \cup ({"set", "call"} \X SetCommands)

TypeOK ==
  /\ link \in {"connecting", "up", "lost"}
  /\ pv \in [Disc -> Settings]
  /\ writer \in WriterStates
  /\ calls \in Seq(SetCommands \cup {Ask, StartAll}) /\ Len(calls) <= MaxCalls
  /\ timers \in Nat
  /\ toDevice \in Seq(SetCommands \cup {Ask, StartAll})
  /\ Len(toDevice) <= MaxCalls
  /\ fromDevice \in Seq(Pieces)
  /\ device \in [Disc -> Settings]
  /\ dropped \subseteq Disc \X Fields /\ torn \in BOOLEAN

(* The process variables start at zero, whatever mode the device is in.     *)
Init ==
  /\ link = "connecting"
  /\ pv = [d \in Disc |-> [State |-> "async", Spd |-> 0, Phs |-> 0, Ratio |-> 0]]
  /\ writer = Idle
  /\ calls = <<>>
  /\ timers = 0
  /\ toDevice = <<>> /\ fromDevice = <<>>
  /\ device \in [Disc -> [State : Modes, Spd : {0}, Phs : {0}, Ratio : {0}]]
  /\ dropped = {} /\ torn = FALSE

-----------------------------------------------------------------------------
(* The server thread: write().                                              *)

(* The speed belongs to the master, phase and ratio to the slave.           *)
Writable(d, f) == pv[d].State = (IF f = "Spd" THEN "async" ELSE "synch")

(* A request that is not writable now is dropped without a word.            *)
Write(d, f, v) ==
  /\ writer = Idle
  /\ Writable(d, f)
  /\ writer' = <<"set", SetCommand(d, f, v)>>
  /\ UNCHANGED <<link, pv, calls, timers, wires, device, history>>

SetParam ==
  /\ writer[1] = "set"
  /\ LET f == writer[2][1]  d == writer[2][2]  v == writer[2][3] IN
       pv' = [pv EXCEPT ![d][f] = v]
  /\ writer' = <<"call", writer[2]>>
  /\ UNCHANGED <<link, calls, timers, wires, device, history>>

(* Mutant: a call overtakes those that wait.                                *)
EnqueueFirst(call) == Len(calls) < MaxCalls /\ calls' = <<call>> \o calls

(* callFromThread() puts a call at the end of the reactor's queue.          *)
Enqueue(call) == Len(calls) < MaxCalls /\ calls' = Append(calls, call)

CallFromThread ==
  /\ writer[1] = "call"
  /\ Enqueue(writer[2])
  /\ writer' = Idle
  /\ UNCHANGED <<link, pv, timers, wires, device, history>>

(* "start" written to CmdS.                                                 *)
WriteStart ==
  /\ writer = Idle
  /\ Enqueue(StartAll)
  /\ UNCHANGED <<link, pv, writer, timers, wires, device, history>>

-----------------------------------------------------------------------------
(* The reactor thread.                                                      *)

(* connectionMade()                                                         *)
Connect ==
  /\ link = "connecting"
  /\ link' = "up"
  /\ timers' = timers + 1
  /\ UNCHANGED <<pv, writer, calls, wires, device, history>>

(* Five seconds have passed: ask_device_status() goes through the same      *)
(* queue as the calls of the server thread.                                 *)
TimerFires ==
  /\ timers > 0
  /\ timers' = timers - 1
  /\ Enqueue(Ask)
  /\ UNCHANGED <<link, pv, writer, wires, device, history>>

Target(call) == IF call \in SetCommands THEN {<<call[2], call[1]>>} ELSE {}

(* A call writes its command to the transport.  There is none before the    *)
(* connection is made: the call ends in an exception; on a lost connection  *)
(* the command goes nowhere.                                                *)
RunCall ==
  /\ calls # <<>> /\ Len(toDevice) < MaxCalls
  /\ calls' = Tail(calls)
  /\ IF link = "up"
       THEN /\ toDevice' = Append(toDevice, Head(calls))
            /\ dropped' = dropped \ Target(Head(calls))
       ELSE /\ UNCHANGED toDevice
            /\ dropped' = dropped \cup Target(Head(calls))
  /\ UNCHANGED <<link, pv, writer, timers, fromDevice, device, torn>>

(* dataReceived(): parse_status() looks at one piece at a time and takes it *)
(* only if it holds a line for every disc; only then the next question is   *)
(* arranged for.  Mutants: it always is; it never is; a torn reply is taken *)
(* for what it holds.                                                       *)
Taken(piece) == [d \in DOMAIN piece |-> [pv[d] EXCEPT !.State = piece[d]]]

ReceiveEagerly ==
  /\ fromDevice # <<>>
  /\ fromDevice' = Tail(fromDevice)
  /\ pv' = IF DOMAIN Head(fromDevice) = Disc THEN Taken(Head(fromDevice)) ELSE pv
  /\ timers' = timers + 1
  /\ UNCHANGED <<link, writer, calls, toDevice, device, history>>

ReceiveOnce ==
  /\ fromDevice # <<>>
  /\ fromDevice' = Tail(fromDevice)
  /\ pv' = IF DOMAIN Head(fromDevice) = Disc THEN Taken(Head(fromDevice)) ELSE pv
  /\ UNCHANGED <<link, writer, calls, timers, toDevice, device, history>>

ReceivePartly ==
  /\ fromDevice # <<>>
  /\ fromDevice' = Tail(fromDevice)
  /\ pv' = Taken(Head(fromDevice))
  /\ timers' = timers + (IF DOMAIN Head(fromDevice) = Disc THEN 1 ELSE 0)
  /\ UNCHANGED <<link, writer, calls, toDevice, device, history>>

Receive ==
  /\ fromDevice # <<>>
  /\ fromDevice' = Tail(fromDevice)
  /\ IF DOMAIN Head(fromDevice) = Disc
       THEN pv' = Taken(Head(fromDevice)) /\ timers' = timers + 1
       ELSE UNCHANGED <<pv, timers>>
  /\ UNCHANGED <<link, writer, calls, toDevice, device, history>>

(* connectionLost() does nothing, and nobody connects again.                *)
LinkLost ==
  /\ link = "up"
  /\ link' = "lost"
  /\ toDevice' = <<>> /\ fromDevice' = <<>>
  /\ dropped' = dropped \cup UNION {Target(c) : c \in ToSet(toDevice)}
  /\ UNCHANGED <<pv, writer, calls, timers, device, torn>>

-----------------------------------------------------------------------------
(* The device.                                                              *)

Status(discs) == [d \in discs |-> device[d].State]

(* TCP delivers a reply as a whole or in two pieces, with a line torn apart *)
(* between them or not.                                                     *)
Answer ==
  /\ toDevice # <<>> /\ Head(toDevice) = Ask
  /\ toDevice' = Tail(toDevice)
  /\ \/ fromDevice' = Append(fromDevice, Status(Disc)) /\ UNCHANGED torn
     \/ \E ds, es \in (SUBSET Disc) \ {Disc} :
          /\ ds \cap es = {}
          /\ fromDevice' = fromDevice \o <<Status(ds), Status(es)>>
          /\ torn' = TRUE
  /\ UNCHANGED <<link, pv, writer, calls, timers, device, dropped>>

Obey ==
  /\ toDevice # <<>> /\ Head(toDevice) # Ask
  /\ toDevice' = Tail(toDevice)
  /\ LET command == Head(toDevice) IN
       device' = IF command \in SetCommands
                   THEN [device EXCEPT ![command[2]][command[1]] = command[3]]
                   ELSE device
  /\ UNCHANGED <<link, pv, writer, calls, timers, fromDevice, history>>

SwitchMode(d) ==
  /\ \E mode \in Modes : device' = [device EXCEPT ![d].State = mode]
  /\ UNCHANGED <<link, pv, writer, calls, timers, wires, history>>

-----------------------------------------------------------------------------
Server ==
  \/ \E p \in SetPoints, v \in Values : Write(p[1], p[2], v)
  \/ SetParam \/ CallFromThread \/ WriteStart

Reactor == Connect \/ TimerFires \/ RunCall \/ Receive \/ LinkLost

Device == Answer \/ Obey \/ \E d \in Disc : SwitchMode(d)

Next == Server \/ Reactor \/ Device

Spec == Init /\ [][Next]_vars

(* The reactor runs its calls and timers and reads what arrives, the device *)
(* answers and obeys.  No fairness for writes, connections or mode changes. *)
Fairness ==
  /\ WF_vars(SetParam) /\ WF_vars(CallFromThread)
  /\ SF_vars(TimerFires) /\ WF_vars(RunCall) /\ WF_vars(Receive)
  /\ WF_vars(Answer) /\ WF_vars(Obey)

FairSpec == Spec /\ Fairness

-----------------------------------------------------------------------------
(* Safety.                                                                  *)

Asks(commands) == Cardinality({i \in DOMAIN commands : commands[i] = Ask})
Complete(pieces) ==
  Cardinality({i \in DOMAIN pieces : DOMAIN pieces[i] = Disc})

(* At any time at most one question about the status is on its way round:   *)
(* in a timer, in the reactor's queue, to the device or as an answer        *)
(* (facade-chopper-dornier.py:510-512, 546-570, 606-610).                   *)
OnePoll == timers + Asks(calls) + Asks(toDevice) + Complete(fromDevice) <= 1

Settled == writer = Idle /\ calls = <<>> /\ toDevice = <<>>

(* When everything written is through, the process variables show the set   *)
(* points the device has, those apart whose last command found no           *)
(* connection: commands do not overtake each other on their way through two *)
(* threads (facade-chopper-dornier.py:107-114, 292-322).                    *)
SetPointsAgree ==
  Settled => \A d \in Disc, f \in Fields :
               <<d, f>> \notin dropped => pv[d][f] = device[d][f]

-----------------------------------------------------------------------------
(* Liveness.                                                                *)

(* As long as the connection stays up the device is asked for its status    *)
(* again and again (facade-chopper-dornier.py:606-610).                     *)
RegularlyAsked == <>[](link = "up") => []<>(timers > 0) /\ []<>(timers = 0)

(* It is if every reply arrives in one piece: no write, start or change of  *)
(* mode breaks the chain of a question, its answer and the next timer.      *)
WholeRepliesKeepAsking == <>[](link = "up" /\ ~torn) => []<>(timers > 0) /\ []<>(timers = 0)

(* Then a mode the device stays in is shown by the process variable State,  *)
(* which decides what may be written (facade-chopper-dornier.py:557-570).   *)
ModesAreShown ==
  \A d \in Disc, mode \in Modes :
    <>[](link = "up" /\ ~torn /\ device[d].State = mode) => <>[](pv[d].State = mode)

=============================================================================
