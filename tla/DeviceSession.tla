---------------------------- MODULE DeviceSession ---------------------------
(* A simulated device of the instrument and the EPICS IOC that scans and    *)
(* writes its records: the magnets, the SPS-S5 or the laser distance        *)
(* measurement, each of which is a process that serves its own port.  The   *)
(* IOC (StreamDevice, external) runs the protocols of db/*.proto: it throws *)
(* away what has come in, sends a line and waits for the next answer, which *)
(* it has to take for the answer to its line; a push of the SPS does not    *)
(* wait.  A line that is not answered in time may still be answered later.  *)
EXTENDS Integers, Sequences

CONSTANTS
  Kinds,           \* the devices: "magnets", "sps", "laser"
  Magnet, Limit, Current,    \* see Magnets
  Distance,        \* see Dimetix
  Scanned,         \* of each device the lines that the IOC's scans send,
  Written,         \* those that writing to its records sends, the pushes
                   \* apart, and
  Typed,           \* those that somebody types at its port
  Button,          \* the pushes of the SPS
  MaxUnanswered    \* bound: the lines that wait for the device

VARIABLES
  kind,            \* the device
  link,            \* the IOC's connection to it is up
  server,          \* the device's state, as the connection sees it
  toServer, input, \* the lines to the device and the answers that have come
  waiting,         \* the line whose answer the IOC waits for
  reading,         \* of each scanned line what was read; empty in an alarm
  DIST,            \* the number in the laser's record, also in an alarm
  past,            \* history: of each scanned line what could ever be read,
                   \* the SPS apart
  astray,          \* history: when the line was sent, earlier ones were
                   \* still to be answered, or another connection has
                   \* written since
  acknowledged,    \* history: the writes whose answer was OK, not overridden
  pushed           \* history: the buttons pushed an odd number of times on
                   \* this connection

history == <<past, astray, acknowledged, pushed>>
vars == <<kind, link, server, toServer, input, waiting, reading, DIST, history>>

Mag == INSTANCE Magnets
Sps == INSTANCE SPSS5
Las == INSTANCE Dimetix

(* The lines that the protocols read and write with, and those that nobody  *)
(* but a user types, which do not change what is written.                   *)
ReadLines ==
  [magnets |-> {"r"} \X Magnet \X {"cur", "onoff", "hl", "ll", "err", "errtext"},
   sps |-> {<<"r">>, <<"a">>},
   laser |-> {<<"s0g">>}]

WriteLines ==
  [magnets |-> ({"switch"} \X Magnet \X {"on", "off"})
                 \cup ({"cur"} \X Magnet \X Current),
   sps |-> {},
   laser |-> {<<"s0o">>, <<"s0p">>} \cup ({"setval"} \X Distance)]

OtherLines ==
  [magnets |-> {<<"unknown">>, <<"malformed">>},
   sps |-> {<<"short">>, <<"malformed">>, <<"other">>}
             \cup ({"s"} \X (STRING \ DOMAIN Sps!ByteOf)),
   laser |-> {<<"unknown">>, <<"malformed">>}]

ASSUME SessionAssumption ==
  /\ Kinds \subseteq {"magnets", "sps", "laser"}
  /\ Magnet # {} /\ Limit \in [Magnet -> Nat] /\ Current \subseteq Int
  /\ Distance \subseteq Int
  /\ \A k \in Kinds : /\ Scanned[k] \subseteq ReadLines[k]
                      /\ Written[k] \subseteq WriteLines[k]
                      /\ Typed[k] \subseteq OtherLines[k]
  /\ Button \subseteq STRING
  /\ MaxUnanswered \in Nat \ {0}

Fresh(k) ==
  CASE k = "magnets" -> Mag!NewMagnets
    [] k = "sps" -> Sps!NewImage
    [] k = "laser" -> Las!NewLaser

LineReceived(state, line) ==
  CASE kind = "magnets" -> Mag!LineReceived(state, line)
    [] kind = "sps" -> Sps!LineReceived(state, line)
    [] kind = "laser" -> Las!LineReceived(state, line)

(* The line an IOC does not wait for, and the empty reading of an alarm.    *)
NoLine == <<>>
Alarm == <<>>

-----------------------------------------------------------------------------
(* The protocols: what the IOC takes an answer to its line for.  A reading  *)
(* of the SPS is taken from anything that has a number after one character. *)

MagnetReading(line, answer) ==
  IF answer[1] = "read" /\ answer[2] = line[2] /\ answer[3] = line[3]
    THEN <<answer[4]>> ELSE Alarm

SpsReading(answer) == IF answer[1] = "?PAR" THEN Alarm ELSE <<answer>>

LaserReading(answer) == IF answer[1] = "g0g" THEN <<answer[2]>> ELSE Alarm

Reading(line, answer) ==
  CASE kind = "magnets" -> MagnetReading(line, answer)
    [] kind = "sps" -> SpsReading(answer)
    [] kind = "laser" -> LaserReading(answer)

IsOK(answer) == answer \in {<<"OK">>, <<"g0?">>}

(* What the record of a scanned line should show, in a state of the device  *)
(* and now.                                                                 *)
DueIn(state, line) ==
  CASE kind = "magnets" -> <<Mag!Parameters(state[line[2]], line[2])[line[3]]>>
    [] kind = "sps" -> IF line[1] = "r" THEN <<<<"R", state>>>> ELSE <<<<"A">>>>
    [] kind = "laser" -> IF state.laseron THEN <<state.Readback>> ELSE Alarm
Due(line) == DueIn(server, line)

Remembered == IF kind = "sps" THEN {} ELSE Scanned[kind]

-----------------------------------------------------------------------------
TypeOK ==
  /\ kind \in Kinds /\ link \in BOOLEAN
  /\ CASE kind = "magnets" -> server \in Mag!Magnets /\ Mag!WithinLimits(server)
       [] kind = "sps" -> server \in Sps!Images
       [] kind = "laser" -> server \in Las!Lasers
  /\ Len(toServer) <= MaxUnanswered /\ Len(input) <= MaxUnanswered
  /\ waiting = NoLine \/ waiting \in Scanned[kind] \cup Written[kind] \cup Typed[kind]
  /\ acknowledged \subseteq Written[kind]
  /\ pushed \subseteq Button
  /\ astray \in BOOLEAN

Init ==
  /\ kind \in Kinds
  /\ link = TRUE
  /\ server = Fresh(kind)
  /\ toServer = <<>> /\ input = <<>>
  /\ waiting = NoLine
  /\ reading = [l \in Scanned[kind] |-> Alarm]
  /\ DIST = 0
  /\ past = [l \in Remembered |-> {Due(l)}]
  /\ astray = FALSE
  /\ acknowledged = {} /\ pushed = {}

-----------------------------------------------------------------------------
(* The IOC.                                                                 *)

(* Two writes to the same record; the laser's record is written by two.     *)
SameRecord(l, k) ==
  IF kind = "laser" THEN (l[1] = "setval") = (k[1] = "setval")
                    ELSE l[1] = k[1] /\ l[2] = k[2]

Send(line) ==
  /\ link /\ waiting = NoLine
  /\ Len(toServer) < MaxUnanswered
  /\ input' = <<>>
  /\ toServer' = Append(toServer, line)
  /\ UNCHANGED <<kind, link, server, reading, DIST, past>>

Ask(line) ==
  /\ Send(line)
  /\ waiting' = line
  /\ astray' = (toServer # <<>>)
  /\ acknowledged' = IF line \in Written[kind]
                       THEN {l \in acknowledged : ~SameRecord(l, line)}
                       ELSE acknowledged
  /\ UNCHANGED pushed

Scan(line) == line \in Scanned[kind] /\ Ask(line)

Write == \E line \in Written[kind] \cup Typed[kind] : Ask(line)

(* The protocol "push" has no answer to wait for.                           *)
Push ==
  /\ kind = "sps"
  /\ \E b \in Button :
       /\ Send(<<"s", b>>)
       /\ pushed' = IF b \in pushed THEN pushed \ {b} ELSE pushed \cup {b}
  /\ UNCHANGED <<waiting, astray, acknowledged>>

(* A magnet that is off has said OK to a current without setting it.        *)
InForce(line) ==
  IF line[1] = "cur" THEN server[line[2]].onoff = "on" ELSE TRUE

(* An answer that is not a reading leaves the number in the record.         *)
Kept(read) == IF read = Alarm THEN DIST ELSE read[1]

Take ==
  /\ waiting # NoLine /\ input # <<>>
  /\ input' = Tail(input)
  /\ waiting' = NoLine
  /\ LET answer == Head(input) IN
       /\ reading' = IF waiting \in Scanned[kind]
                       THEN [reading EXCEPT ![waiting] = Reading(waiting, answer)]
                       ELSE reading
       /\ DIST' = IF kind = "laser" /\ waiting \in Scanned[kind]
                    THEN Kept(Reading(waiting, answer)) ELSE DIST
       /\ acknowledged' = IF /\ waiting \in Written[kind] /\ ~astray
                             /\ IsOK(answer) /\ InForce(waiting)
                            THEN acknowledged \cup {waiting} ELSE acknowledged
  /\ astray' = FALSE
  /\ UNCHANGED <<kind, link, server, toServer, past, pushed>>

GiveUp ==
  /\ waiting' = NoLine
  /\ astray' = FALSE
  /\ reading' = IF waiting \in Scanned[kind]
                  THEN [reading EXCEPT ![waiting] = Alarm] ELSE reading
  /\ DIST' = DIST

Timeout ==
  /\ waiting # NoLine /\ input = <<>>
  /\ GiveUp
  /\ UNCHANGED <<kind, link, server, toServer, input, past, acknowledged, pushed>>

-----------------------------------------------------------------------------
(* The device.                                                              *)

(* The connection ends and the protocol object with it: what a new one      *)
(* begins with is new, the laser apart.                                     *)
Disconnect(state) ==
  /\ link' = FALSE
  /\ toServer' = <<>> /\ input' = <<>>
  /\ GiveUp
  /\ IF kind = "laser"
       THEN server' = state /\ UNCHANGED <<acknowledged, pushed>>
       ELSE server' = Fresh(kind) /\ acknowledged' = {} /\ pushed' = {}

Note == past' = [l \in Remembered |-> past[l] \cup {DueIn(server', l)}]

Serve ==
  /\ toServer # <<>>
  /\ LET r == LineReceived(server, Head(toServer)) IN
       IF r.lost
         THEN Disconnect(server)
         ELSE /\ server' = r.server
              /\ toServer' = Tail(toServer)
              /\ input' = input \o r.answers
              /\ UNCHANGED <<link, waiting, reading, DIST, astray, acknowledged, pushed>>
  /\ Note
  /\ UNCHANGED kind

Lose == link /\ Disconnect(server) /\ Note /\ UNCHANGED kind

Reconnect ==
  /\ ~link
  /\ link' = TRUE
  /\ UNCHANGED <<kind, server, toServer, input, waiting, reading, DIST, history>>

(* Another connection to the laser's process: it has the same laser.        *)
Elsewhere ==
  /\ kind = "laser"
  /\ \E line \in Written[kind] : server' = Las!LineReceived(server, line).server
  /\ acknowledged' = {}
  /\ astray' = (waiting # NoLine)
  /\ Note
  /\ UNCHANGED <<kind, link, toServer, input, waiting, reading, DIST, pushed>>

Next ==
  \/ \E k \in Kinds : \E line \in Scanned[k] : kind = k /\ Scan(line)
  \/ Write \/ Push \/ Take \/ Timeout
  \/ Serve \/ Lose \/ Reconnect \/ Elsewhere

Spec == Init /\ [][Next]_vars

(* The IOC scans every record again and again, and both sides read what     *)
(* arrives.                                                                 *)
FairSpec ==
  /\ Spec
  /\ \A k \in Kinds : \A line \in Scanned[k] : SF_vars(kind = k /\ Scan(line))
  /\ WF_vars(Take) /\ WF_vars(Serve)

-----------------------------------------------------------------------------
(* Safety.                                                                  *)

(* However late answers are and whichever question they meet, a magnet's    *)
(* record never shows anything but what that parameter of that magnet has   *)
(* been, because every answer repeats both; nor does the laser's record     *)
(* anything but what was once the distance, in an alarm neither, where      *)
(* src/README.md:158-159 promises 0 and it keeps the number it had          *)
(* (SLSVME.py:36-60, slsvme.proto:7-10, dimetix.proto:21-22).  The SPS      *)
(* repeats nothing.                                                         *)
NumberIsGenuine ==
  kind = "laser" => DIST = 0 \/ \E l \in DOMAIN reading : <<DIST>> \in past[l]

ReadingsAreGenuine ==
  /\ kind # "sps" => \A l \in DOMAIN reading : reading[l] # Alarm => reading[l] \in past[l]
  /\ NumberIsGenuine

Effective(line) ==
  CASE line[1] = "cur" -> server[line[2]].cur = line[3]
    [] line[1] = "switch" -> server[line[2]].onoff = line[3]
    [] line[1] = "s0o" -> server.laseron
    [] line[1] = "s0p" -> ~server.laseron
    [] line[1] = "setval" -> server.Readback = line[2]

(* A write that was acknowledged, sent when nothing else was unanswered,    *)
(* stays in force until it is overridden: that of a magnet as long as the   *)
(* connection lasts, that of the laser also beyond it.  A current set       *)
(* while the magnet is off is acknowledged in vain                          *)
(* (SLSVME.py:62-83, Magnet.py:57-68, dimetix.py:35-61).                    *)
AcknowledgedIsInForce == \A l \in acknowledged : Effective(l)

(* When every push has arrived, each button's byte shows whether it was     *)
(* pushed an odd number of times on this connection: none is pushed twice,  *)
(* none is lost and none touches another's byte, whatever else is asked in  *)
(* between (spss5.py:63-94).                                                *)
PushesToggleOnce ==
  kind = "sps" /\ toServer = <<>> =>
    \A b \in Button \cap DOMAIN Sps!ByteOf :
      server[Sps!ByteOf[b]] = Sps!Pushed[Sps!ByteOf[b]] <=> b \in pushed

-----------------------------------------------------------------------------
(* Liveness.                                                                *)

Scanning ==
  (\E k \in Kinds : \E line \in Scanned[k] : kind = k /\ Scan(line)) \/ Take \/ Serve

(* Once nothing but scans happens, none of them times out and the device    *)
(* has at times answered all that was asked, every record shows the         *)
(* device's state, in an alarm where there is nothing to read: the IOC has  *)
(* fallen back into step after late answers and after pushes whose answer   *)
(* nobody took (spss5.proto:9-24, spss5.py:48-71).                          *)
ReadingsFallIntoStep ==
  <>[][Scanning]_vars /\ <>[]link /\ []<>(waiting = NoLine /\ toServer = <<>>)
    => <>[](\A l \in DOMAIN reading : reading[l] = Due(l))
=============================================================================
