-------------------------- MODULE DeviceSessionProofs ------------------------
(* Proofs about the sessions of the IOC with the magnets, the SPS-S5 and    *)
(* the laser, for all magnets, limits, values and lines.                    *)
EXTENDS DeviceSession, TLAPS

-----------------------------------------------------------------------------
(* The devices.                                                             *)

Lines == Scanned[kind] \cup Written[kind] \cup Typed[kind]
           \cup (IF kind = "sps" THEN {<<"s", b>> : b \in Button} ELSE {})

Servers ==
  CASE kind = "magnets" -> {m \in Mag!Magnets : Mag!WithinLimits(m)}
    [] kind = "sps" -> Sps!Images
    [] kind = "laser" -> Las!Lasers

LEMMA ThreeKinds ==
  ASSUME kind \in Kinds
  PROVE  kind = "magnets" \/ kind = "sps" \/ kind = "laser"
  BY SessionAssumption

(* The lines a magnet is sent.                                              *)
LEMMA MagnetLines ==
  ASSUME kind \in Kinds, kind = "magnets", NEW line \in Lines
  PROVE  \/ /\ line[1] = "r" /\ line[2] \in Magnet
            /\ line[3] \in {"cur", "onoff", "hl", "ll", "err", "errtext"}
         \/ line[1] = "switch" /\ line[2] \in Magnet /\ line[3] \in {"on", "off"}
         \/ line[1] = "cur" /\ line[2] \in Magnet /\ line[3] \in Current
         \/ line[1] = "unknown"
         \/ line[1] = "malformed"
<1>1. line \in ReadLines.magnets \cup WriteLines.magnets \cup OtherLines.magnets
  BY SessionAssumption DEF Lines
<1>2. CASE line \in ReadLines.magnets
  BY <1>2 DEF ReadLines
<1>3. CASE line \in WriteLines.magnets
  BY <1>3 DEF WriteLines
<1>4. CASE line \in OtherLines.magnets
  BY <1>4 DEF OtherLines
<1>5. QED
  BY <1>1, <1>2, <1>3, <1>4

LEMMA MagnetsStay ==
  ASSUME kind \in Kinds, kind = "magnets", NEW m \in Servers, NEW line \in Lines
  PROVE  LET r == Mag!LineReceived(m, line) IN
           /\ r.server \in Servers
           /\ r.answers = <<>> \/ \E a : r.answers = <<a>>
<1>0. m \in Mag!Magnets /\ Mag!WithinLimits(m)
      /\ \A x : x \in Servers <=> x \in Mag!Magnets /\ Mag!WithinLimits(x)
  BY DEF Servers
<1>1. CASE line[1] = "r"
  BY <1>0, <1>1 DEF Mag!LineReceived, Mag!DoRead, Mag!Reply
<1>2. CASE line[1] = "switch"
  <2> DEFINE n == line[2]
             v == line[3]
             set == [m EXCEPT ![n].onoff = v]
  <2>1. n \in Magnet /\ v \in {"on", "off"}
    BY <1>2, MagnetLines
  <2>2. Mag!LineReceived(m, line) =
          [server |-> set, answers |-> <<<<"OK">>>>, lost |-> FALSE]
    BY <1>2 DEF Mag!LineReceived, Mag!DoSwitch, Mag!Reply
  <2> HIDE DEF n, v
  <2>3. set \in Mag!Magnets
    BY <1>0, <2>1 DEF Mag!Magnets
  <2>4. \A k \in Magnet : set[k].cur = m[k].cur
    BY <1>0, <2>1 DEF Mag!Magnets
  <2> HIDE DEF set
  <2>5. set \in Servers
    BY <1>0, <2>3, <2>4 DEF Mag!WithinLimits
  <2>6. QED
    BY <2>2, <2>5
<1>3. CASE line[1] = "cur"
  <2> DEFINE n == line[2]
             v == line[3]
             set == IF v \notin -Limit[n] .. Limit[n] THEN m
                    ELSE IF m[n].onoff = "on" THEN [m EXCEPT ![n].cur = v] ELSE m
  <2>1. n \in Magnet /\ v \in Current
    BY <1>3, MagnetLines
  <2>2. Mag!LineReceived(m, line) = Mag!SetCur(m, n, v)
    BY <1>3 DEF Mag!LineReceived
  <2>3. Mag!SetCur(m, n, v).server = set /\ \E a : Mag!SetCur(m, n, v).answers = <<a>>
    BY DEF Mag!SetCur, Mag!Reply
  <2> HIDE DEF n, v
  <2>4. set \in Servers
    BY <1>0, <2>1 DEF Mag!Magnets, Mag!WithinLimits
  <2>5. QED
    BY <2>2, <2>3, <2>4
<1>4. CASE line[1] = "unknown" \/ line[1] = "malformed"
  BY <1>0, <1>4 DEF Mag!LineReceived, Mag!Reply
<1>5. QED
  BY <1>1, <1>2, <1>3, <1>4, MagnetLines

(* The lines the SPS is sent.                                               *)
LEMMA SpsLines ==
  ASSUME kind \in Kinds, kind = "sps", NEW line \in Lines
  PROVE  line[1] \in {"r", "a", "s", "short", "malformed", "other"}
<1>1. line \in ReadLines.sps \cup OtherLines.sps \cup {<<"s", b>> : b \in Button}
  BY SessionAssumption DEF Lines, WriteLines
<1>2. QED
  BY <1>1 DEF ReadLines, OtherLines

LEMMA SpsStays ==
  ASSUME kind \in Kinds, kind = "sps", NEW m \in Servers, NEW line \in Lines
  PROVE  LET r == Sps!LineReceived(m, line) IN
           /\ r.server \in Servers
           /\ r.answers = <<>> \/ \E a : r.answers = <<a>>
<1>0. m \in Sps!Images /\ Servers = Sps!Images
  BY DEF Servers
<1>1. CASE line[1] = "s"
  <2>1. Sps!LineReceived(m, line) =
          [server |-> Sps!DoPush(m, line[2]), answers |-> <<<<"echo", line[2]>>>>,
           lost |-> FALSE]
    BY <1>1 DEF Sps!LineReceived, Sps!Reply
  <2>2. Sps!DoPush(m, line[2]) \in Sps!Images
    <3>1. CASE line[2] \notin DOMAIN Sps!ByteOf
      BY <1>0, <3>1 DEF Sps!DoPush
    <3>2. CASE line[2] \in DOMAIN Sps!ByteOf
      <4>1. /\ Sps!ByteOf[line[2]] \in Sps!Byte
            /\ \A b \in Sps!Byte : Sps!Pushed[b] \in {0, 5, 128, 129}
                                   /\ Sps!NewImage[b] \in {0, 5, 128, 129}
        BY <3>2 DEF Sps!ByteOf, Sps!Byte, Sps!Pushed, Sps!NewImage
      <4>2. QED
        BY <1>0, <3>2, <4>1 DEF Sps!DoPush, Sps!Images
    <3>3. QED
      BY <3>1, <3>2
  <2>3. QED
    BY <1>0, <2>1, <2>2
<1>2. CASE line[1] # "s"
  BY <1>0, <1>2, SpsLines DEF Sps!LineReceived, Sps!Reply
<1>3. QED
  BY <1>1, <1>2

(* The lines the laser is sent.                                             *)
LEMMA LaserLines ==
  ASSUME kind \in Kinds, kind = "laser", NEW line \in Lines
  PROVE  \/ line[1] \in {"s0o", "s0p", "s0g", "malformed", "unknown"}
         \/ line[1] = "setval" /\ line[2] \in Distance
<1>1. line \in ReadLines.laser \cup WriteLines.laser \cup OtherLines.laser
  BY SessionAssumption DEF Lines
<1>2. QED
  BY <1>1 DEF ReadLines, WriteLines, OtherLines

LEMMA LaserStays ==
  ASSUME kind \in Kinds, kind = "laser", NEW m \in Servers, NEW line \in Lines
  PROVE  LET r == Las!LineReceived(m, line) IN
           /\ r.server \in Servers
           /\ r.answers = <<>> \/ \E a : r.answers = <<a>>
<1>0. m \in Las!Lasers /\ Servers = Las!Lasers
  BY DEF Servers
<1>1. QED
  BY <1>0, LaserLines DEF Las!LineReceived, Las!Measure, Las!Reply, Las!Lasers

LEMMA DevicesStay ==
  ASSUME kind \in Kinds, server \in Servers, NEW line \in Lines
  PROVE  LET r == LineReceived(server, line) IN
           /\ r.server \in Servers
           /\ r.answers = <<>> \/ \E a : r.answers = <<a>>
<1>1. CASE kind = "magnets"
  BY <1>1, MagnetsStay DEF LineReceived
<1>2. CASE kind = "sps"
  BY <1>2, SpsStays DEF LineReceived
<1>3. CASE kind = "laser"
  BY <1>3, LaserStays DEF LineReceived
<1>4. QED
  BY <1>1, <1>2, <1>3, ThreeKinds

LEMMA FreshIsTyped ==
  ASSUME kind \in Kinds
  PROVE  Fresh(kind) \in Servers
<1>1. CASE kind = "magnets"
  BY <1>1, SessionAssumption
     DEF Fresh, Servers, Mag!NewMagnets, Mag!Magnets, Mag!WithinLimits
<1>2. CASE kind = "sps"
  BY <1>2 DEF Fresh, Servers, Sps!NewImage, Sps!Images, Sps!Byte
<1>3. CASE kind = "laser"
  BY <1>3 DEF Fresh, Servers, Las!NewLaser, Las!Lasers
<1>4. QED
  BY <1>1, <1>2, <1>3, ThreeKinds

-----------------------------------------------------------------------------
(* The types.                                                               *)

Asked == Scanned[kind] \cup Written[kind] \cup Typed[kind]
Answers == {LineReceived(s, l).answers[1] : s \in Servers, l \in Lines}

(* What is still unanswered has room, as sending throws the answers away.   *)
SessionInv ==
  /\ kind \in Kinds /\ link \in BOOLEAN /\ astray \in BOOLEAN
  /\ server \in Servers
  /\ toServer \in Seq(Lines) /\ input \in Seq(Answers)
  /\ Len(toServer) + Len(input) <= MaxUnanswered
  /\ waiting \in Asked \cup {NoLine}
  /\ acknowledged \subseteq Written[kind] /\ pushed \subseteq Button

LEMMA Room == MaxUnanswered \in Nat \ {0}
  BY SessionAssumption

(* The sets depend on the device alone.                                     *)
LEMMA SameDevice ==
  ASSUME kind' = kind
  PROVE  /\ Lines' = Lines /\ Servers' = Servers /\ Answers' = Answers
         /\ Asked' = Asked /\ Remembered' = Remembered
  BY DEF Lines, Servers, Answers, Asked, Remembered, LineReceived

LEMMA SessionInitial == Init => SessionInv
<1> SUFFICES ASSUME Init PROVE SessionInv
  OBVIOUS
<1>1. Len(toServer) + Len(input) <= MaxUnanswered
  BY Room DEF Init
<1>2. server \in Servers
  BY FreshIsTyped DEF Init
<1>3. toServer \in Seq(Lines) /\ input \in Seq(Answers)
  BY DEF Init
<1>4. QED
  BY <1>1, <1>2, <1>3 DEF Init, SessionInv

(* A line that is asked or pushed.                                          *)
LEMMA SendStays ==
  ASSUME SessionInv, NEW line \in Lines, Send(line)
  PROVE  /\ toServer' \in Seq(Lines) /\ input' \in Seq(Answers)
         /\ Len(toServer') + Len(input') <= MaxUnanswered
  BY Room DEF SessionInv, Send

(* What the device makes of its next line.                                  *)
Handled == LineReceived(server, Head(toServer))

LEMMA ServeStays ==
  ASSUME SessionInv, toServer # <<>>, ~Handled.lost,
         server' = Handled.server, toServer' = Tail(toServer),
         input' = input \o Handled.answers
  PROVE  /\ server' \in Servers
         /\ toServer' \in Seq(Lines) /\ input' \in Seq(Answers)
         /\ Len(toServer') + Len(input') <= MaxUnanswered
<1>1. Head(toServer) \in Lines /\ Tail(toServer) \in Seq(Lines)
      /\ Len(Tail(toServer)) = Len(toServer) - 1
      /\ Len(toServer) \in Nat /\ Len(input) \in Nat
  BY DEF SessionInv
<1>2. /\ Handled.server \in Servers
      /\ Handled.answers = <<>> \/ \E a : Handled.answers = <<a>>
  BY <1>1, DevicesStay DEF SessionInv, Handled
<1>3. CASE Handled.answers = <<>>
  <2>1. input' = input
    BY <1>3 DEF SessionInv
  <2>2. QED
    BY <1>1, <1>2, <2>1, Room DEF SessionInv
<1>4. ASSUME NEW a, Handled.answers = <<a>>
      PROVE  input' \in Seq(Answers) /\ Len(toServer') + Len(input') <= MaxUnanswered
  <2>1. a = Handled.answers[1]
    BY <1>4
  <2>2. a \in Answers
    BY <1>1, <2>1 DEF Answers, Handled, SessionInv
  <2>3. input' \in Seq(Answers) /\ Len(input') = Len(input) + 1
    BY <1>4, <2>2 DEF SessionInv
  <2>4. QED
    BY <1>1, <2>3, Room DEF SessionInv
<1>5. QED
  BY <1>1, <1>2, <1>3, <1>4

LEMMA DisconnectStays ==
  ASSUME SessionInv, kind' = kind, Disconnect(server)
  PROVE  SessionInv'
<1>1. Len(<<>>) = 0 /\ <<>> \in Seq(Lines) /\ <<>> \in Seq(Answers)
  OBVIOUS
<1>2. /\ toServer' = <<>> /\ input' = <<>> /\ link' = FALSE
      /\ waiting' = NoLine /\ astray' = FALSE
  BY DEF Disconnect, GiveUp
<1>3. Len(toServer') + Len(input') <= MaxUnanswered
  BY <1>2, Room
<1>4. /\ server' \in Servers
      /\ acknowledged' \subseteq Written[kind] /\ pushed' \subseteq Button
  BY FreshIsTyped DEF Disconnect, SessionInv
<1>5. QED
  BY <1>1, <1>2, <1>3, <1>4, SameDevice DEF SessionInv

LEMMA SessionKept == SessionInv /\ [Next]_vars => SessionInv'
<1> SUFFICES ASSUME SessionInv, [Next]_vars PROVE SessionInv'
  OBVIOUS
<1>1. ASSUME NEW line \in Asked, Ask(line) PROVE SessionInv'
  <2>1. line \in Lines
    BY DEF Asked, Lines
  <2>2. /\ toServer' \in Seq(Lines) /\ input' \in Seq(Answers)
        /\ Len(toServer') + Len(input') <= MaxUnanswered
    BY <1>1, <2>1, SendStays DEF Ask
  <2>3. /\ UNCHANGED <<kind, link, server, pushed>> /\ waiting' = line
        /\ astray' \in BOOLEAN /\ acknowledged' \subseteq acknowledged
    BY <1>1 DEF Ask, Send
  <2>4. QED
    BY <2>2, <2>3, SameDevice DEF SessionInv
<1>2. CASE Push
  <2>1. PICK b \in Button :
          /\ Send(<<"s", b>>)
          /\ pushed' = IF b \in pushed THEN pushed \ {b} ELSE pushed \cup {b}
    BY <1>2 DEF Push
  <2>2. <<"s", b>> \in Lines /\ UNCHANGED <<waiting, astray, acknowledged>>
    BY <1>2 DEF Push, Lines
  <2>3. /\ toServer' \in Seq(Lines) /\ input' \in Seq(Answers)
        /\ Len(toServer') + Len(input') <= MaxUnanswered
    BY <2>1, <2>2, SendStays
  <2>4. UNCHANGED <<kind, link, server>> /\ pushed' \subseteq Button
    BY <2>1 DEF Send, SessionInv
  <2>5. QED
    BY <2>2, <2>3, <2>4, SameDevice DEF SessionInv
<1>3. CASE Take
  <2>1. /\ input # <<>> /\ input' = Tail(input) /\ waiting' = NoLine /\ astray' = FALSE
        /\ UNCHANGED <<kind, link, server, toServer, pushed>>
        /\ acknowledged' \subseteq Written[kind]
    BY <1>3 DEF Take, SessionInv
  <2>2. input' \in Seq(Answers) /\ Len(input') = Len(input) - 1
        /\ Len(input) \in Nat /\ Len(toServer) \in Nat
    BY <2>1 DEF SessionInv
  <2>3. Len(toServer') + Len(input') <= MaxUnanswered
    BY <2>1, <2>2, Room DEF SessionInv
  <2>4. QED
    BY <2>1, <2>2, <2>3, SameDevice DEF SessionInv
<1>4. CASE Timeout \/ Reconnect \/ UNCHANGED vars
  <2>1. /\ UNCHANGED <<kind, server, toServer, input, acknowledged, pushed>>
        /\ link' \in BOOLEAN /\ astray' \in BOOLEAN /\ waiting' \in {waiting, NoLine}
    BY <1>4 DEF Timeout, GiveUp, Reconnect, vars, history, SessionInv
  <2>2. QED
    BY <2>1, SameDevice DEF SessionInv
<1>5. CASE Serve
  <2>1. toServer # <<>> /\ kind' = kind
    BY <1>5 DEF Serve
  <2>2. CASE Handled.lost
    BY <1>5, <2>1, <2>2, DisconnectStays DEF Serve, Handled
  <2>3. CASE ~Handled.lost
    <3>1. /\ server' = Handled.server /\ toServer' = Tail(toServer)
          /\ input' = input \o Handled.answers
          /\ UNCHANGED <<link, waiting, astray, acknowledged, pushed>>
      BY <1>5, <2>3 DEF Serve, Handled
    <3>2. /\ server' \in Servers
          /\ toServer' \in Seq(Lines) /\ input' \in Seq(Answers)
          /\ Len(toServer') + Len(input') <= MaxUnanswered
      BY <2>1, <2>3, <3>1, ServeStays
    <3>3. QED
      BY <2>1, <3>1, <3>2, SameDevice DEF SessionInv
  <2>4. QED
    BY <2>2, <2>3
<1>6. CASE Lose
  BY <1>6, DisconnectStays DEF Lose
<1>7. CASE Elsewhere
  <2>1. PICK line \in Written[kind] : server' = Las!LineReceived(server, line).server
    BY <1>7 DEF Elsewhere
  <2>2. /\ kind = "laser" /\ line \in Lines /\ acknowledged' = {} /\ astray' \in BOOLEAN
        /\ UNCHANGED <<kind, link, toServer, input, waiting, pushed>>
    BY <1>7 DEF Elsewhere, Lines
  <2>3. server' \in Servers
    BY <2>1, <2>2, LaserStays DEF SessionInv
  <2>4. QED
    BY <2>2, <2>3, SameDevice DEF SessionInv
<1>8. QED
  BY <1>1, <1>2, <1>3, <1>4, <1>5, <1>6, <1>7 DEF Next, Scan, Write, Asked

(* The devices' states, the lines and the answers that wait keep their      *)
(* types and their bounds; a magnet's current stays within its limits       *)
(* (Magnet.py:57-68).                                                       *)
THEOREM TypeCorrect == Spec => []TypeOK
<1>1. SessionInv => TypeOK
  <2> SUFFICES ASSUME SessionInv PROVE TypeOK
    OBVIOUS
  <2>1. /\ kind = "magnets" => server \in Mag!Magnets /\ Mag!WithinLimits(server)
        /\ kind = "sps" => server \in Sps!Images
        /\ kind = "laser" => server \in Las!Lasers
    BY DEF SessionInv, Servers
  <2>2. Len(toServer) <= MaxUnanswered /\ Len(input) <= MaxUnanswered
    BY Room DEF SessionInv
  <2>3. QED
    BY <2>1, <2>2, ThreeKinds DEF SessionInv, TypeOK, Asked
<1>2. QED
  BY <1>1, SessionInitial, SessionKept, PTL DEF Spec

-----------------------------------------------------------------------------
(* The readings.                                                            *)

(* What an answer that waits would be read as has been so, and what is now  *)
(* is remembered.                                                           *)
Genuine(l) ==
  /\ Due(l) \in past[l]
  /\ reading[l] # Alarm => reading[l] \in past[l]
  /\ \A i \in 1 .. Len(input) :
       Reading(l, input[i]) # Alarm => Reading(l, input[i]) \in past[l]

ReadingInv ==
  /\ SessionInv
  /\ DOMAIN reading = Scanned[kind]
  /\ kind # "sps" => \A l \in Scanned[kind] : Genuine(l)
  /\ NumberIsGenuine

(* An answer reads as what is, or as nothing.                               *)
LEMMA AnswersAreDue ==
  ASSUME SessionInv, kind # "sps", NEW line \in Lines, NEW l \in Scanned[kind],
         NEW a, LineReceived(server, line).answers = <<a>>
  PROVE  Reading(l, a) \in {Alarm, Due(l)}
<1>1. CASE kind = "magnets"
  <2>1. Mag!LineReceived(server, line).answers = <<a>>
    BY <1>1 DEF LineReceived
  <2>2. Reading(l, a) = MagnetReading(l, a)
    BY <1>1 DEF Reading
  <2>3. CASE line[1] = "r"
    <3>1. a = <<"read", line[2], line[3],
                Mag!Parameters(server[line[2]], line[2])[line[3]]>>
      BY <2>1, <2>3 DEF Mag!LineReceived, Mag!DoRead, Mag!Reply
    <3>2. Due(l) = <<Mag!Parameters(server[l[2]], l[2])[l[3]]>>
      BY <1>1 DEF Due, DueIn
    <3>3. QED
      BY <2>2, <3>1, <3>2 DEF MagnetReading
  <2>4. CASE line[1] # "r"
    <3>1. a = <<"OK">> \/ a = <<"ERROR">>
      BY <1>1, <2>1, <2>4, MagnetLines
         DEF SessionInv, Mag!LineReceived, Mag!DoSwitch, Mag!SetCur, Mag!Reply
    <3>2. a[1] # "read"
      BY <3>1
    <3>3. QED
      BY <2>2, <3>2 DEF MagnetReading
  <2>5. QED
    BY <2>3, <2>4
<1>2. CASE kind = "laser"
  <2>1. Las!LineReceived(server, line).answers = <<a>>
    BY <1>2 DEF LineReceived
  <2>2. Reading(l, a) = LaserReading(a)
        /\ Due(l) = IF server.laseron THEN <<server.Readback>> ELSE Alarm
    BY <1>2 DEF Reading, Due, DueIn
  <2>3. (a = <<"g0g", server.Readback>> /\ server.laseron) \/ a[1] # "g0g"
    BY <1>2, <2>1, LaserLines
       DEF SessionInv, Las!LineReceived, Las!Measure, Las!Reply
  <2>4. QED
    BY <2>2, <2>3 DEF LaserReading
<1>3. QED
  BY <1>1, <1>2, ThreeKinds DEF SessionInv

LEMMA PastGrows ==
  ASSUME kind' = kind, kind # "sps", Note, NEW l \in Scanned[kind]
  PROVE  /\ past[l] \subseteq past'[l]
         /\ Due(l)' \in past'[l]
<1>1. l \in Remembered
  BY DEF Remembered
<1>2. past'[l] = past[l] \cup {DueIn(server', l)}
  BY <1>1 DEF Note
<1>3. Due(l)' = DueIn(server', l)
  BY DEF Due, DueIn
<1>4. QED
  BY <1>2, <1>3

(* An answer that waited is taken, for this record or another.              *)
LEMMA ReadingsStay ==
  ASSUME ReadingInv, kind' = kind, server' = server, past' = past,
         input # <<>>, input' = Tail(input),
         DOMAIN reading' = DOMAIN reading, kind # "sps",
         NEW l \in Scanned[kind],
         reading'[l] \in {reading[l], Reading(l, Head(input))}
  PROVE  Genuine(l)'
<1>1. Genuine(l) /\ input \in Seq(Answers)
  BY DEF ReadingInv, SessionInv
<1>2. \A a : Reading(l, a)' = Reading(l, a)
  BY DEF Reading
<1>3. Due(l)' = Due(l)
  BY DEF Due, DueIn
<1>4. ASSUME NEW i \in 1 .. Len(input')
      PROVE  \E j \in 1 .. Len(input) : input'[i] = input[j]
  <2>1. i + 1 \in 1 .. Len(input) /\ input'[i] = input[i + 1]
    BY <1>1, <1>4
  <2>2. QED
    BY <2>1
<1>5. Head(input) = input[1] /\ 1 \in 1 .. Len(input)
  BY <1>1
<1>6. reading'[l] # Alarm => reading'[l] \in past[l]
  BY <1>1, <1>5 DEF Genuine
<1>7. QED
  BY <1>1, <1>2, <1>3, <1>4, <1>6 DEF Genuine, Alarm

LEMMA GivingUpAlarms ==
  ASSUME ReadingInv, GiveUp
  PROVE  /\ DOMAIN reading' = DOMAIN reading
         /\ \A l \in Scanned[kind] : reading'[l] \in {reading[l], Alarm}
  BY DEF ReadingInv, GiveUp

(* The laser's number stays, and what it was remains remembered.            *)
LEMMA NumberStays ==
  ASSUME ReadingInv, kind' = kind, DIST' = DIST, DOMAIN reading' = DOMAIN reading,
         Note \/ past' = past
  PROVE  NumberIsGenuine'
<1>1. NumberIsGenuine /\ DOMAIN reading = Scanned[kind]
  BY DEF ReadingInv
<1>2. ASSUME kind = "laser", NEW l \in Scanned[kind] PROVE past[l] \subseteq past'[l]
  BY <1>2, PastGrows
<1>3. QED
  BY <1>1, <1>2 DEF NumberIsGenuine

(* The laser's number is what was read, or what it was before.              *)
LEMMA NumberIsTaken ==
  ASSUME ReadingInv, Take
  PROVE  NumberIsGenuine'
<1> SUFFICES ASSUME kind = "laser"
             PROVE  \/ DIST' = 0
                    \/ \E l \in Scanned[kind] : <<DIST'>> \in past[l]
  <2>1. kind' = kind /\ past' = past /\ DOMAIN reading' = Scanned[kind]
    BY DEF Take, ReadingInv
  <2>2. QED
    BY <2>1 DEF NumberIsGenuine
<1> DEFINE read == Reading(waiting, Head(input))
<1>1. CASE waiting \in Scanned[kind] /\ read # Alarm
  <2>1. DIST' = read[1]
    BY <1>1 DEF Take, Kept
  <2>2. Genuine(waiting) /\ input \in Seq(Answers) /\ input # <<>>
    BY <1>1 DEF ReadingInv, SessionInv, Take
  <2>3. read \in past[waiting]
    BY <1>1, <2>2 DEF Genuine
  <2>4. read = <<read[1]>>
    BY <1>1 DEF Reading, LaserReading
  <2>5. QED
    BY <1>1, <2>1, <2>3, <2>4
<1>2. CASE ~(waiting \in Scanned[kind] /\ read # Alarm)
  BY <1>2 DEF Take, Kept, ReadingInv, NumberIsGenuine
<1>3. QED
  BY <1>1, <1>2

LEMMA DisconnectedReadings ==
  ASSUME ReadingInv, Disconnect(server), Note, kind' = kind
  PROVE  ReadingInv'
<1>1. SessionInv'
  BY DisconnectStays DEF ReadingInv
<1>2. /\ input' = <<>> /\ DOMAIN reading' = DOMAIN reading
      /\ \A l \in Scanned[kind] : reading'[l] \in {reading[l], Alarm}
  BY GivingUpAlarms DEF Disconnect
<1>3. ASSUME kind # "sps", NEW l \in Scanned[kind] PROVE Genuine(l)'
  <2>1. past[l] \subseteq past'[l] /\ Due(l)' \in past'[l]
    BY <1>3, PastGrows
  <2>2. Genuine(l)
    BY <1>3 DEF ReadingInv
  <2>3. \A i \in 1 .. Len(input') : FALSE
    BY <1>2
  <2>4. QED
    BY <1>2, <2>1, <2>2, <2>3 DEF Genuine, Alarm
<1>4. NumberIsGenuine'
  BY <1>2, NumberStays DEF Disconnect, GiveUp
<1>5. QED
  BY <1>1, <1>2, <1>3, <1>4 DEF ReadingInv

LEMMA ReadingInitial == Init => ReadingInv
<1> SUFFICES ASSUME Init PROVE ReadingInv
  OBVIOUS
<1>1. SessionInv /\ DOMAIN reading = Scanned[kind]
  BY SessionInitial DEF Init
<1>2. ASSUME kind # "sps", NEW l \in Scanned[kind] PROVE Genuine(l)
  <2>1. past[l] = {Due(l)} /\ reading[l] = Alarm
    BY <1>2 DEF Init, Remembered
  <2>2. \A i \in 1 .. Len(input) : FALSE
    BY DEF Init
  <2>3. QED
    BY <2>1, <2>2 DEF Genuine
<1>3. NumberIsGenuine
  BY DEF Init, NumberIsGenuine
<1>4. QED
  BY <1>1, <1>2, <1>3 DEF ReadingInv

LEMMA ServeIsGenuine ==
  ASSUME ReadingInv, Serve, ~Handled.lost, kind # "sps", NEW l \in Scanned[kind]
  PROVE  Genuine(l)'
<1>1. /\ toServer # <<>> /\ input' = input \o Handled.answers
      /\ kind' = kind /\ reading' = reading /\ Note
  BY DEF Serve, Handled
<1>2. past[l] \subseteq past'[l] /\ Due(l)' \in past'[l]
  BY <1>1, PastGrows
<1>3. Genuine(l) /\ input \in Seq(Answers) /\ Head(toServer) \in Lines
  BY <1>1 DEF ReadingInv, SessionInv
<1>4. Handled.answers = <<>> \/ \E a : Handled.answers = <<a>>
  BY <1>3, DevicesStay DEF ReadingInv, SessionInv, Handled
<1>5. \A a : Reading(l, a)' = Reading(l, a)
  BY <1>1 DEF Reading
<1>6. ASSUME NEW i \in 1 .. Len(input'), Reading(l, input'[i]) # Alarm
      PROVE  Reading(l, input'[i]) \in past'[l]
  <2>1. CASE i \in 1 .. Len(input)
    <3>1. input'[i] = input[i]
      BY <1>1, <1>3, <1>4, <2>1
    <3>2. QED
      BY <1>2, <1>3, <1>6, <2>1, <3>1 DEF Genuine
  <2>2. CASE i \notin 1 .. Len(input)
    <3>1. PICK a : Handled.answers = <<a>>
      <4>1. Handled.answers # <<>>
        BY <1>1, <1>3, <1>6, <2>2
      <4>2. QED
        BY <1>4, <4>1
    <3>2. input'[i] = a
      BY <1>1, <1>3, <2>2, <3>1
    <3>3. Reading(l, a) \in {Alarm, Due(l)}
      BY <1>3, <3>1, AnswersAreDue DEF ReadingInv, Handled
    <3>4. QED
      BY <1>2, <1>3, <1>6, <3>2, <3>3 DEF Genuine
  <2>3. QED
    BY <2>1, <2>2
<1>7. reading'[l] # Alarm => reading'[l] \in past'[l]
  BY <1>1, <1>2, <1>3 DEF Genuine
<1>8. QED
  BY <1>2, <1>5, <1>6, <1>7 DEF Genuine, Alarm

LEMMA ReadingKept == ReadingInv /\ [Next]_vars => ReadingInv'
<1> SUFFICES ASSUME ReadingInv, [Next]_vars PROVE ReadingInv'
  OBVIOUS
<1>1. SessionInv'
  BY SessionKept DEF ReadingInv
<1>2. CASE (\E line \in Asked : Ask(line)) \/ Push
  <2>1. UNCHANGED <<kind, server, reading, DIST, past>> /\ input' = <<>>
    BY <1>2 DEF Ask, Push, Send
  <2>2. ASSUME kind # "sps", NEW l \in Scanned[kind] PROVE Genuine(l)'
    <3>1. Genuine(l)
      BY <2>2 DEF ReadingInv
    <3>2. Due(l)' = Due(l)
      BY <2>1 DEF Due, DueIn
    <3>3. \A i \in 1 .. Len(input') : FALSE
      BY <2>1
    <3>4. QED
      BY <2>1, <3>1, <3>2, <3>3 DEF Genuine, Alarm
  <2>3. NumberIsGenuine'
    BY <2>1, NumberStays
  <2>4. QED
    BY <1>1, <2>1, <2>2, <2>3 DEF ReadingInv
<1>3. CASE Take
  <2>1. /\ UNCHANGED <<kind, server, past>> /\ input # <<>> /\ input' = Tail(input)
        /\ DOMAIN reading' = DOMAIN reading
        /\ \A l \in Scanned[kind] :
             reading'[l] = reading[l] \/ reading'[l] = Reading(l, Head(input))
    BY <1>3 DEF Take, ReadingInv
  <2>2. ASSUME kind # "sps", NEW l \in Scanned[kind] PROVE Genuine(l)'
    BY <2>1, <2>2, ReadingsStay
  <2>3. QED
    BY <1>1, <1>3, <2>1, <2>2, NumberIsTaken DEF ReadingInv
<1>4. CASE Timeout \/ Reconnect \/ UNCHANGED vars
  <2>1. /\ UNCHANGED <<kind, server, past, input, DIST>>
        /\ DOMAIN reading' = DOMAIN reading
        /\ \A l \in Scanned[kind] : reading'[l] \in {reading[l], Alarm}
    BY <1>4, GivingUpAlarms DEF Timeout, GiveUp, Reconnect, vars, history
  <2>2. ASSUME kind # "sps", NEW l \in Scanned[kind] PROVE Genuine(l)'
    <3>1. Due(l)' = Due(l) /\ Genuine(l)
      BY <2>1, <2>2 DEF Due, DueIn, ReadingInv
    <3>2. \A a : Reading(l, a)' = Reading(l, a)
      BY <2>1 DEF Reading
    <3>3. reading'[l] # Alarm => reading'[l] \in past[l]
      BY <2>1, <3>1 DEF Genuine
    <3>4. QED
      BY <2>1, <3>1, <3>2, <3>3 DEF Genuine, Alarm
  <2>3. NumberIsGenuine'
    BY <2>1, NumberStays
  <2>4. QED
    BY <1>1, <2>1, <2>2, <2>3 DEF ReadingInv
<1>5. CASE Serve /\ ~Handled.lost
  <2>1. UNCHANGED <<kind, reading, DIST>> /\ Note
    BY <1>5 DEF Serve, Handled
  <2>2. NumberIsGenuine'
    BY <2>1, NumberStays
  <2>3. QED
    BY <1>1, <1>5, <2>1, <2>2, ServeIsGenuine DEF ReadingInv
<1>6. CASE Lose \/ (Serve /\ Handled.lost)
  <2>1. Disconnect(server) /\ Note /\ kind' = kind
    BY <1>6 DEF Lose, Serve, Handled
  <2>2. QED
    BY <2>1, DisconnectedReadings
<1>7. CASE Elsewhere
  <2>1. UNCHANGED <<kind, input, reading, DIST>> /\ Note
    BY <1>7 DEF Elsewhere
  <2>2. ASSUME kind # "sps", NEW l \in Scanned[kind] PROVE Genuine(l)'
    <3>1. past[l] \subseteq past'[l] /\ Due(l)' \in past'[l]
      BY <2>1, <2>2, PastGrows
    <3>2. \A a : Reading(l, a)' = Reading(l, a)
      BY <2>1 DEF Reading
    <3>3. Genuine(l)
      BY <2>2 DEF ReadingInv
    <3>4. QED
      BY <2>1, <3>1, <3>2, <3>3 DEF Genuine, Alarm
  <2>3. NumberIsGenuine'
    BY <2>1, NumberStays
  <2>4. QED
    BY <1>1, <2>1, <2>2, <2>3 DEF ReadingInv
<1>8. QED
  BY <1>2, <1>3, <1>4, <1>5, <1>6, <1>7 DEF Next, Scan, Write, Asked

(* Whichever answer meets whichever question, a record of a magnet or of    *)
(* the laser never shows but what that parameter has been, for any magnets  *)
(* and parameters (SLSVME.py:36-60, slsvme.proto:7-10).                     *)
THEOREM RecordsAreGenuine == Spec => []ReadingsAreGenuine
<1>1. ReadingInv => ReadingsAreGenuine
  BY DEF ReadingInv, Genuine, ReadingsAreGenuine
<1>2. QED
  BY <1>1, ReadingInitial, ReadingKept, PTL DEF Spec

-----------------------------------------------------------------------------
(* The writes.                                                              *)

(* What has been acknowledged is in force, and nothing that overrides it is *)
(* on its way.                                                              *)
Settled ==
  \A l \in acknowledged :
    /\ Effective(l)
    /\ \A i \in 1 .. Len(toServer) :
         toServer[i] \in Written[kind] => ~SameRecord(l, toServer[i])

(* A line that was sent when all was answered is alone on its way, or its   *)
(* answer is, and what that acknowledges is in force.                       *)
InStep ==
  waiting # NoLine /\ ~astray =>
    \/ toServer = <<waiting>> /\ input = <<>>
    \/ /\ toServer = <<>>
       /\ input # <<>> /\ waiting \in Written[kind] /\ IsOK(input[1])
            /\ InForce(waiting) => Effective(waiting)
       /\ Len(input) <= 1

WriteInv == SessionInv /\ Settled /\ InStep

LEMMA WritesAre ==
  ASSUME kind \in Kinds, NEW l \in Written[kind]
  PROVE  /\ kind = "magnets" =>
              \/ l[1] = "switch" /\ l[2] \in Magnet /\ l[3] \in {"on", "off"}
              \/ l[1] = "cur" /\ l[2] \in Magnet /\ l[3] \in Current
         /\ kind = "laser" => l[1] \in {"s0o", "s0p", "setval"}
         /\ kind # "sps" /\ l \in Lines
<1>1. l \in WriteLines[kind] /\ l \in Lines
  BY SessionAssumption DEF Lines
<1>2. QED
  BY <1>1, ThreeKinds DEF WriteLines

(* A line that writes nothing leaves the device as it is.                   *)
LEMMA OnlyWritesWrite ==
  ASSUME SessionInv, kind # "sps", NEW line \in Lines, line \notin Written[kind]
  PROVE  LineReceived(server, line).server = server
<1>1. line \in ReadLines[kind] \cup OtherLines[kind]
  BY SessionAssumption DEF Lines, SessionInv
<1>2. CASE kind = "magnets"
  <2>1. line[1] \in {"r", "unknown", "malformed"}
    BY <1>1, <1>2 DEF ReadLines, OtherLines
  <2>2. QED
    BY <1>2, <2>1 DEF LineReceived, Mag!LineReceived, Mag!DoRead, Mag!Reply
<1>3. CASE kind = "laser"
  <2>1. line[1] \in {"s0g", "unknown", "malformed"}
    BY <1>1, <1>3 DEF ReadLines, OtherLines
  <2>2. QED
    BY <1>3, <2>1 DEF LineReceived, Las!LineReceived, Las!Measure, Las!Reply
<1>4. QED
  BY <1>2, <1>3, ThreeKinds DEF SessionInv

(* A write of one record leaves the others alone.                           *)
LEMMA OtherRecordsStay ==
  ASSUME SessionInv, NEW l \in Written[kind], NEW line \in Written[kind],
         Effective(l), ~SameRecord(l, line), kind' = kind,
         server' = LineReceived(server, line).server
  PROVE  Effective(l)'
<1>0. l \in Lines /\ line \in Lines /\ kind # "sps" /\ kind \in Kinds
  BY WritesAre DEF SessionInv
<1>1. CASE kind = "magnets"
  <2> DEFINE n == line[2]
             v == line[3]
             k == l[2]
  <2>1. server \in Mag!Magnets
    BY <1>1 DEF SessionInv, Servers
  <2>2. n \in Magnet /\ k \in Magnet /\ l[1] \in {"switch", "cur"}
        /\ line[1] \in {"switch", "cur"} /\ ~(l[1] = line[1] /\ k = n)
    BY <1>0, <1>1, WritesAre DEF SameRecord
  <2>3. \/ line[1] = "switch" /\ server' = [server EXCEPT ![n].onoff = v]
        \/ line[1] = "cur" /\ server' \in {server, [server EXCEPT ![n].cur = v]}
    BY <1>1, <2>2
       DEF LineReceived, Mag!LineReceived, Mag!DoSwitch, Mag!SetCur, Mag!Reply
  <2>4. /\ l[1] = "cur" => server[k].cur = l[3]
        /\ l[1] = "switch" => server[k].onoff = l[3]
    BY DEF Effective
  <2> HIDE DEF n, v
  <2>5. /\ l[1] = "cur" => server'[k].cur = l[3]
        /\ l[1] = "switch" => server'[k].onoff = l[3]
    <3> HIDE DEF k
    <3>1. CASE line[1] = "switch"
      <4>1. server'[k].cur = server[k].cur /\ (k # n => server'[k] = server[k])
        <5>1. server' = [server EXCEPT ![n].onoff = v]
          BY <2>3, <3>1
        <5>2. QED
          BY <2>1, <2>2, <5>1 DEF Mag!Magnets
      <4>2. QED
        BY <2>2, <2>4, <3>1, <4>1
    <3>2. CASE line[1] = "cur"
      <4>1. server'[k].onoff = server[k].onoff /\ (k # n => server'[k] = server[k])
        <5>1. server' \in {server, [server EXCEPT ![n].cur = v]}
          BY <2>3, <3>2
        <5>2. QED
          BY <2>1, <2>2, <5>1 DEF Mag!Magnets
      <4>2. QED
        BY <2>2, <2>4, <3>2, <4>1
    <3>3. QED
      BY <2>2, <3>1, <3>2
  <2>6. QED
    BY <2>2, <2>5 DEF Effective
<1>2. CASE kind = "laser"
  <2>1. server \in Las!Lasers
    BY <1>2 DEF SessionInv, Servers
  <2>2. /\ l[1] \in {"s0o", "s0p", "setval"} /\ line[1] \in {"s0o", "s0p", "setval"}
        /\ l[1] = "setval" <=> line[1] # "setval"
    BY <1>0, <1>2, WritesAre DEF SameRecord
  <2>3. /\ line[1] = "setval" => server'.laseron = server.laseron
        /\ line[1] # "setval" => server'.Readback = server.Readback
    BY <1>2, <2>1, <2>2 DEF LineReceived, Las!LineReceived, Las!Reply, Las!Lasers
  <2>4. QED
    BY <2>2, <2>3 DEF Effective
<1>3. QED
  BY <1>0, <1>1, <1>2, ThreeKinds

(* A write that is answered OK is in force, unless the magnet is off.       *)
LEMMA OKIsInForce ==
  ASSUME SessionInv, NEW line \in Written[kind], NEW a,
         LineReceived(server, line).answers = <<a>>, IsOK(a),
         kind' = kind, server' = LineReceived(server, line).server, InForce(line)'
  PROVE  Effective(line)'
<1>0. line \in Lines /\ kind # "sps" /\ kind \in Kinds
  BY WritesAre DEF SessionInv
<1>1. CASE kind = "magnets"
  <2> DEFINE n == line[2]
             v == line[3]
  <2>1. server \in Mag!Magnets
    BY <1>1 DEF SessionInv, Servers
  <2>2. n \in Magnet /\ line[1] \in {"switch", "cur"}
    BY <1>0, <1>1, WritesAre
  <2>3. CASE line[1] = "switch"
    <3>1. server' = [server EXCEPT ![n].onoff = v]
      BY <1>1, <2>3 DEF LineReceived, Mag!LineReceived, Mag!DoSwitch, Mag!Reply
    <3> HIDE DEF n, v
    <3>2. server'[n].onoff = v
      BY <2>1, <2>2, <3>1 DEF Mag!Magnets
    <3>3. QED
      BY <2>3, <3>2 DEF Effective, n, v
  <2>4. CASE line[1] = "cur"
    <3>1. LineReceived(server, line) = Mag!SetCur(server, n, v)
      BY <1>1, <2>4 DEF LineReceived, Mag!LineReceived
    <3>2. v \in -Limit[n] .. Limit[n]
      BY <3>1 DEF Mag!SetCur, Mag!Reply, IsOK
    <3>3. server' = IF server[n].onoff = "on" THEN [server EXCEPT ![n].cur = v] ELSE server
      BY <3>1, <3>2 DEF Mag!SetCur, Mag!Reply
    <3>4. server'[n].onoff = "on"
      BY <2>4 DEF InForce
    <3> HIDE DEF n, v
    <3>5. server'[n].cur = v
      BY <2>1, <2>2, <3>3, <3>4 DEF Mag!Magnets
    <3>6. QED
      BY <2>4, <3>5 DEF Effective, n, v
  <2>5. QED
    BY <2>2, <2>3, <2>4
<1>2. CASE kind = "laser"
  <2>1. server \in Las!Lasers /\ line[1] \in {"s0o", "s0p", "setval"}
    BY <1>0, <1>2, WritesAre DEF SessionInv, Servers
  <2>2. /\ line[1] = "s0o" => server'.laseron = TRUE
        /\ line[1] = "s0p" => server'.laseron = FALSE
        /\ line[1] = "setval" => server'.Readback = line[2]
    BY <1>2, <2>1 DEF LineReceived, Las!LineReceived, Las!Reply, Las!Lasers
  <2>3. QED
    BY <2>1, <2>2 DEF Effective
<1>3. QED
  BY <1>0, <1>1, <1>2, ThreeKinds

LEMMA WriteInitial == Init => WriteInv
  BY SessionInitial DEF Init, WriteInv, Settled, InStep

(* Nothing that is acknowledged is disturbed while the device and the lines *)
(* that wait stay what they are.                                            *)
LEMMA SettledStays ==
  ASSUME Settled, UNCHANGED <<kind, server>>, acknowledged' \subseteq acknowledged,
         toServer' = toServer
  PROVE  Settled'
<1>1. ASSUME NEW l PROVE Effective(l) => Effective(l)'
  BY DEF Effective
<1>2. ASSUME NEW l, NEW k PROVE SameRecord(l, k)' <=> SameRecord(l, k)
  BY DEF SameRecord
<1>3. QED
  BY <1>1, <1>2 DEF Settled

LEMMA AskSettles ==
  ASSUME WriteInv, NEW line \in Asked, Ask(line)
  PROVE  Settled' /\ InStep'
<1>1. /\ UNCHANGED <<kind, server>> /\ input' = <<>> /\ toServer' = Append(toServer, line)
      /\ waiting' = line /\ astray' = (toServer # <<>>)
      /\ acknowledged' = IF line \in Written[kind]
                           THEN {l \in acknowledged : ~SameRecord(l, line)}
                           ELSE acknowledged
  BY DEF Ask, Send
<1>2. toServer \in Seq(Lines) /\ line \in Lines
  BY DEF WriteInv, SessionInv, Asked, Lines
<1>3. InStep'
  <2> SUFFICES ASSUME toServer = <<>> PROVE toServer' = <<waiting>>'
    BY <1>1 DEF InStep
  <2>1. QED
    BY <1>1
<1>4. ASSUME NEW l \in acknowledged'
      PROVE  /\ Effective(l)'
             /\ \A i \in 1 .. Len(toServer') :
                  toServer'[i] \in Written[kind] => ~SameRecord(l, toServer'[i])
  <2>1. l \in acknowledged /\ (line \in Written[kind] => ~SameRecord(l, line))
    BY <1>1
  <2>2. Effective(l)'
    BY <1>1, <2>1 DEF WriteInv, Settled, Effective
  <2>3. ASSUME NEW i \in 1 .. Len(toServer'), toServer'[i] \in Written[kind]
        PROVE  ~SameRecord(l, toServer'[i])
    <3>1. CASE i \in 1 .. Len(toServer)
      <4>1. toServer'[i] = toServer[i]
        BY <1>1, <1>2, <3>1
      <4>2. QED
        BY <2>1, <2>3, <3>1, <4>1 DEF WriteInv, Settled
    <3>2. CASE i \notin 1 .. Len(toServer)
      <4>1. toServer'[i] = line
        BY <1>1, <1>2, <3>2
      <4>2. QED
        BY <2>1, <2>3, <4>1
    <3>3. QED
      BY <3>1, <3>2
  <2>4. QED
    BY <2>2, <2>3
<1>5. ASSUME NEW l, NEW k PROVE SameRecord(l, k)' <=> SameRecord(l, k)
  BY <1>1 DEF SameRecord
<1>6. QED
  BY <1>1, <1>3, <1>4, <1>5 DEF Settled

LEMMA TakeSettles ==
  ASSUME WriteInv, Take
  PROVE  Settled' /\ InStep'
<1>1. /\ UNCHANGED <<kind, server, toServer>> /\ waiting # NoLine /\ input # <<>>
      /\ waiting' = NoLine
      /\ acknowledged' = IF /\ waiting \in Written[kind] /\ ~astray
                            /\ IsOK(Head(input)) /\ InForce(waiting)
                         THEN acknowledged \cup {waiting} ELSE acknowledged
  BY DEF Take
<1>2. InStep'
  BY <1>1 DEF InStep
<1>3. CASE acknowledged' = acknowledged
  BY <1>1, <1>2, <1>3, SettledStays DEF WriteInv
<1>4. CASE acknowledged' # acknowledged
  <2>1. /\ waiting \in Written[kind] /\ ~astray /\ IsOK(Head(input)) /\ InForce(waiting)
        /\ acknowledged' = acknowledged \cup {waiting}
    BY <1>1, <1>4
  <2>2. Head(input) = input[1]
    BY <1>1 DEF WriteInv, SessionInv
  <2>3. toServer = <<>> /\ Effective(waiting)
    BY <1>1, <2>1, <2>2 DEF WriteInv, InStep
  <2>4. ASSUME NEW l \in acknowledged' PROVE Effective(l)'
    BY <1>1, <2>1, <2>3 DEF WriteInv, Settled, Effective
  <2>5. \A j \in 1 .. Len(toServer') : FALSE
    BY <1>1, <2>3
  <2>6. QED
    BY <1>2, <2>4, <2>5 DEF Settled
<1>5. QED
  BY <1>2, <1>3, <1>4

LEMMA ServeSettles ==
  ASSUME WriteInv, Serve, ~Handled.lost
  PROVE  Settled' /\ InStep'
<1> DEFINE line == Head(toServer)
<1>1. /\ toServer # <<>> /\ kind' = kind /\ server' = LineReceived(server, line).server
      /\ toServer' = Tail(toServer) /\ input' = input \o Handled.answers
      /\ UNCHANGED <<waiting, astray, acknowledged>>
  BY DEF Serve, Handled
<1>2. /\ toServer \in Seq(Lines) /\ line \in Lines /\ line = toServer[1]
      /\ 1 \in 1 .. Len(toServer)
      /\ \A i \in 1 .. Len(toServer') :
           i + 1 \in 1 .. Len(toServer) /\ toServer'[i] = toServer[i + 1]
  BY <1>1 DEF WriteInv, SessionInv
<1>3. Handled = LineReceived(server, line)
  BY DEF Handled
<1> HIDE DEF line
<1>4. ASSUME NEW l, NEW k PROVE SameRecord(l, k)' <=> SameRecord(l, k)
  BY <1>1 DEF SameRecord
<1>5. ASSUME NEW l \in acknowledged PROVE Effective(l)'
  <2>1. l \in Written[kind] /\ Effective(l) /\ kind # "sps"
    BY WritesAre DEF WriteInv, SessionInv, Settled
  <2>2. CASE line \in Written[kind]
    <3>1. ~SameRecord(l, line)
      BY <1>2, <2>2 DEF WriteInv, Settled
    <3>2. QED
      BY <1>1, <2>1, <2>2, <3>1, OtherRecordsStay DEF WriteInv
  <2>3. CASE line \notin Written[kind]
    <3>1. server' = server
      BY <1>1, <1>2, <2>1, <2>3, OnlyWritesWrite DEF WriteInv
    <3>2. QED
      BY <2>1, <3>1 DEF Effective
  <2>4. QED
    BY <2>2, <2>3
<1>6. Settled'
  BY <1>1, <1>2, <1>4, <1>5 DEF WriteInv, Settled
<1>7. InStep'
  <2> SUFFICES ASSUME waiting # NoLine, ~astray
               PROVE  /\ toServer' = <<>> /\ Len(input') <= 1
                      /\ input' # <<>> /\ waiting \in Written[kind] /\ IsOK(input'[1])
                           /\ InForce(waiting)' => Effective(waiting)'
    BY <1>1 DEF InStep, IsOK, InForce, Effective
  <2>1. toServer = <<waiting>> /\ input = <<>>
    BY <1>1 DEF WriteInv, InStep
  <2>2. toServer' = <<>> /\ line = waiting
    BY <1>1, <1>2, <2>1
  <2>3. Handled.answers = <<>> \/ \E a : Handled.answers = <<a>>
    BY <1>2, <1>3, DevicesStay DEF WriteInv, SessionInv
  <2>4. input' = Handled.answers
    BY <1>1, <2>1, <2>3
  <2>5. Len(input') <= 1
    <3>1. Len(<<>>) = 0 /\ \A a : Len(<<a>>) = 1
      OBVIOUS
    <3>2. Len(input') = 0 \/ Len(input') = 1
      BY <2>3, <2>4, <3>1, Zenon
    <3>3. 0 <= 1 /\ 1 <= 1
      OBVIOUS
    <3>4. QED
      BY <3>2, <3>3, Zenon
  <2>6. ASSUME input' # <<>>, waiting \in Written[kind], IsOK(input'[1]), InForce(waiting)'
        PROVE  Effective(waiting)'
    <3>1. PICK a : Handled.answers = <<a>>
      BY <2>3, <2>4, <2>6
    <3>2. IsOK(a)
      BY <2>4, <2>6, <3>1 DEF IsOK
    <3>3. QED
      BY <1>1, <1>3, <2>2, <2>6, <3>1, <3>2, OKIsInForce DEF WriteInv
  <2>7. QED
    BY <2>2, <2>5, <2>6
<1>8. QED
  BY <1>6, <1>7

LEMMA DisconnectSettles ==
  ASSUME WriteInv, kind' = kind, Disconnect(server)
  PROVE  Settled' /\ InStep'
<1>1. toServer' = <<>> /\ waiting' = NoLine
  BY DEF Disconnect, GiveUp
<1>2. InStep'
  BY <1>1 DEF InStep
<1>3. ASSUME NEW l \in acknowledged' PROVE Effective(l)'
  <2>1. server' = server /\ acknowledged' = acknowledged
    BY <1>3 DEF Disconnect
  <2>2. QED
    BY <1>3, <2>1 DEF WriteInv, Settled, Effective
<1>4. \A i \in 1 .. Len(toServer') : FALSE
  BY <1>1
<1>5. QED
  BY <1>2, <1>3, <1>4 DEF Settled

LEMMA WriteKept == WriteInv /\ [Next]_vars => WriteInv'
<1> SUFFICES ASSUME WriteInv, [Next]_vars PROVE Settled' /\ InStep'
  BY SessionKept DEF WriteInv
<1>1. ASSUME NEW line \in Asked, Ask(line) PROVE Settled' /\ InStep'
  BY <1>1, AskSettles
<1>2. CASE Push
  <2>1. kind = "sps" /\ kind' = kind /\ UNCHANGED <<waiting, acknowledged>>
        /\ waiting = NoLine
    BY <1>2 DEF Push, Send
  <2>2. acknowledged = {}
    BY <2>1, WritesAre DEF WriteInv, SessionInv
  <2>3. QED
    BY <2>1, <2>2 DEF Settled, InStep
<1>3. CASE Take
  BY <1>3, TakeSettles
<1>4. CASE Timeout
  <2>1. UNCHANGED <<kind, server, toServer, acknowledged>> /\ waiting' = NoLine
    BY <1>4 DEF Timeout, GiveUp
  <2>2. QED
    BY <2>1, SettledStays DEF WriteInv, InStep
<1>5. CASE Reconnect \/ UNCHANGED vars
  <2>1. UNCHANGED <<kind, server, toServer, input, waiting, astray, acknowledged>>
    BY <1>5 DEF Reconnect, vars, history
  <2>2. Settled'
    BY <2>1, SettledStays DEF WriteInv
  <2>3. InStep'
    BY <2>1 DEF WriteInv, InStep, InForce, Effective
  <2>4. QED
    BY <2>2, <2>3
<1>6. CASE Serve /\ ~Handled.lost
  BY <1>6, ServeSettles
<1>7. CASE Lose \/ (Serve /\ Handled.lost)
  <2>1. Disconnect(server) /\ kind' = kind
    BY <1>7 DEF Lose, Serve, Handled
  <2>2. QED
    BY <2>1, DisconnectSettles
<1>8. CASE Elsewhere
  <2>1. acknowledged' = {} /\ waiting' = waiting /\ astray' = (waiting # NoLine)
    BY <1>8 DEF Elsewhere
  <2>2. QED
    BY <2>1 DEF Settled, InStep
<1>9. QED
  BY <1>1, <1>2, <1>3, <1>4, <1>5, <1>6, <1>7, <1>8 DEF Next, Scan, Write, Asked

(* An acknowledged write, sent when nothing else was unanswered, stays in   *)
(* force until it is overridden, for any magnets, limits and values         *)
(* (SLSVME.py:62-83, Magnet.py:57-68, dimetix.py:35-61).                    *)
THEOREM AcknowledgedWritesHold == Spec => []AcknowledgedIsInForce
<1>1. WriteInv => AcknowledgedIsInForce
  BY DEF WriteInv, Settled, AcknowledgedIsInForce
<1>2. QED
  BY <1>1, WriteInitial, WriteKept, PTL DEF Spec

-----------------------------------------------------------------------------
(* The buttons.                                                             *)

Toggling == Button \cap DOMAIN Sps!ByteOf

Shows(image, b) == image[Sps!ByteOf[b]] = Sps!Pushed[Sps!ByteOf[b]]

(* The images that the lines on their way lead through, from the server's   *)
(* to one that shows each button as it was pushed.                          *)
Leads(f) ==
  /\ f \in [1 .. Len(toServer) + 1 -> Sps!Images]
  /\ f[1] = server
  /\ \A i \in 1 .. Len(toServer) :
       f[i + 1] = Sps!LineReceived(f[i], toServer[i]).server
  /\ \A b \in Toggling : Shows(f[Len(toServer) + 1], b) <=> b \in pushed

PushInv == SessionInv /\ (kind = "sps" => \E f : Leads(f))

(* A push changes what its own button's byte shows, and no other's.         *)
LEMMA PushesToggle ==
  ASSUME NEW image \in Sps!Images, NEW c, NEW b \in DOMAIN Sps!ByteOf
  PROVE  Shows(Sps!DoPush(image, c), b) <=> IF b = c THEN ~Shows(image, b) ELSE Shows(image, b)
<1>1. CASE c \notin DOMAIN Sps!ByteOf
  BY <1>1 DEF Sps!DoPush
<1>2. CASE c \in DOMAIN Sps!ByteOf
  <2> DEFINE x == Sps!ByteOf[c]
             y == Sps!ByteOf[b]
             new == IF image[x] = Sps!Pushed[x] THEN Sps!NewImage[x] ELSE Sps!Pushed[x]
  <2>1. /\ x \in Sps!Byte /\ y \in Sps!Byte /\ (x = y <=> b = c)
        /\ Sps!NewImage[x] # Sps!Pushed[x]
    BY <1>2 DEF Sps!ByteOf, Sps!Byte, Sps!NewImage, Sps!Pushed
  <2>2. Sps!DoPush(image, c) = [image EXCEPT ![x] = new]
    BY <1>2 DEF Sps!DoPush
  <2> HIDE DEF x
  <2>3. Sps!DoPush(image, c)[y] = IF y = x THEN new ELSE image[y]
    BY <2>1, <2>2 DEF Sps!Images
  <2>4. QED
    BY <2>1, <2>3 DEF Shows
<1>3. QED
  BY <1>1, <1>2

(* The images of nothing on its way.                                        *)
LEMMA LeadsAtOnce ==
  ASSUME toServer = <<>>, server = Sps!NewImage, pushed = {}
  PROVE  \E f : Leads(f)
<1> DEFINE f == [i \in 1 .. Len(toServer) + 1 |-> Sps!NewImage]
<1>1. Len(toServer) = 0
  OBVIOUS
<1>2. Sps!NewImage \in Sps!Images
  BY DEF Sps!NewImage, Sps!Images, Sps!Byte
<1>3. f \in [1 .. Len(toServer) + 1 -> Sps!Images] /\ f[1] = server
      /\ f[Len(toServer) + 1] = Sps!NewImage
  BY <1>1, <1>2
<1>4. ASSUME NEW b \in Toggling PROVE ~Shows(Sps!NewImage, b)
  <2>1. Sps!ByteOf[b] \in Sps!Byte
    BY DEF Toggling, Sps!ByteOf, Sps!Byte
  <2>2. \A x \in Sps!Byte : Sps!NewImage[x] # Sps!Pushed[x]
    BY DEF Sps!Byte, Sps!NewImage, Sps!Pushed
  <2>3. QED
    BY <2>1, <2>2, Zenon DEF Shows
<1>5. \A i \in 1 .. Len(toServer) : FALSE
  BY <1>1
<1> HIDE DEF f
<1>6. Leads(f)
  BY <1>3, <1>4, <1>5 DEF Leads
<1>7. QED
  BY <1>6

(* A line that is sent leads on from the last image.                        *)
LEMMA SendLeads ==
  ASSUME SessionInv, kind = "sps", NEW line \in Lines, Send(line),
         NEW f, Leads(f),
         \A b \in Toggling :
           b \in pushed' <=>
             Shows(Sps!LineReceived(f[Len(toServer) + 1], line).server, b)
  PROVE  \E g : Leads(g)'
<1> DEFINE n == Len(toServer)
           last == Sps!LineReceived(f[n + 1], line).server
           g == [i \in 1 .. n + 2 |-> IF i = n + 2 THEN last ELSE f[i]]
<1>1. /\ server' = server /\ toServer' = Append(toServer, line)
      /\ n \in Nat /\ Len(toServer') = n + 1 /\ toServer'[n + 1] = line
      /\ \A i \in 1 .. n : toServer'[i] = toServer[i]
  BY DEF Send, SessionInv
<1>2. /\ f \in [1 .. n + 1 -> Sps!Images] /\ f[1] = server
      /\ \A i \in 1 .. n : f[i + 1] = Sps!LineReceived(f[i], toServer[i]).server
  BY DEF Leads
<1>3. last \in Sps!Images
  <2>1. f[n + 1] \in Servers /\ Servers = Sps!Images
    BY <1>1, <1>2 DEF Servers
  <2>2. QED
    BY <2>1, SpsStays DEF SessionInv
<1> HIDE DEF n, last
<1>4. /\ g \in [1 .. (n + 1) + 1 -> Sps!Images] /\ g[1] = server /\ g[n + 2] = last
      /\ \A i \in 1 .. n + 1 : g[i] = f[i]
  BY <1>1, <1>2, <1>3
<1>5. ASSUME NEW i \in 1 .. n + 1
      PROVE  g[i + 1] = Sps!LineReceived(g[i], toServer'[i]).server
  <2>1. CASE i = n + 1
    BY <1>1, <1>4, <2>1 DEF last
  <2>2. CASE i # n + 1
    <3>1. i \in 1 .. n /\ i + 1 \in 1 .. n + 1
      BY <1>1, <2>2
    <3>2. QED
      BY <1>1, <1>2, <1>4, <3>1
  <2>3. QED
    BY <2>1, <2>2
<1> HIDE DEF g
<1>6. \A b \in Toggling : Shows(g[n + 2], b) <=> b \in pushed'
  BY <1>4 DEF last, n
<1>7. (n + 1) + 1 = n + 2
  BY <1>1
<1>8. PICK h : h = g
  OBVIOUS
<1>9. Leads(h)'
  BY <1>1, <1>4, <1>5, <1>6, <1>7, <1>8 DEF Leads, Toggling, Shows
<1>10. QED
  BY <1>9

(* A line that has been handled leaves the rest of the way.                 *)
LEMMA ServeLeads ==
  ASSUME SessionInv, kind = "sps", toServer # <<>>, toServer' = Tail(toServer),
         server' = Sps!LineReceived(server, Head(toServer)).server,
         pushed' = pushed, NEW f, Leads(f)
  PROVE  \E g : Leads(g)'
<1> DEFINE n == Len(toServer)
           g == [i \in 1 .. n |-> f[i + 1]]
<1>1. /\ n \in Nat \ {0} /\ Len(toServer') = n - 1 /\ Head(toServer) = toServer[1]
      /\ \A i \in 1 .. n - 1 : toServer'[i] = toServer[i + 1]
  BY DEF SessionInv
<1>2. /\ f \in [1 .. n + 1 -> Sps!Images] /\ f[1] = server
      /\ \A i \in 1 .. n : f[i + 1] = Sps!LineReceived(f[i], toServer[i]).server
      /\ \A b \in Toggling : Shows(f[n + 1], b) <=> b \in pushed
  BY DEF Leads
<1> HIDE DEF n
<1>3. /\ g \in [1 .. (n - 1) + 1 -> Sps!Images] /\ g[(n - 1) + 1] = f[n + 1]
      /\ \A i \in 1 .. n : g[i] = f[i + 1]
  BY <1>1, <1>2
<1>4. g[1] = server'
  BY <1>1, <1>2, <1>3
<1>5. ASSUME NEW i \in 1 .. n - 1
      PROVE  g[i + 1] = Sps!LineReceived(g[i], toServer'[i]).server
  <2>1. i \in 1 .. n /\ i + 1 \in 1 .. n /\ toServer'[i] = toServer[i + 1]
    BY <1>1
  <2>2. QED
    BY <1>2, <1>3, <2>1
<1> HIDE DEF g
<1>6. PICK h : h = g
  OBVIOUS
<1>7. Leads(h)'
  BY <1>1, <1>2, <1>3, <1>4, <1>5, <1>6 DEF Leads, Toggling, Shows
<1>8. QED
  BY <1>7

LEMMA PushInitial == Init => PushInv
<1> SUFFICES ASSUME Init, kind = "sps" PROVE \E f : Leads(f)
  BY SessionInitial DEF PushInv
<1>1. toServer = <<>> /\ server = Sps!NewImage /\ pushed = {}
  BY DEF Init, Fresh
<1>2. QED
  BY <1>1, LeadsAtOnce

(* What changes neither lines, server nor pushes.                           *)
LEMMA LeadsStays ==
  ASSUME PushInv, UNCHANGED <<kind, server, toServer, pushed>>
  PROVE  kind' = "sps" => \E f : Leads(f)'
  BY DEF PushInv, Leads, Toggling, Shows

(* A line that is asked pushes no button that toggles.                      *)
LEMMA AskLeads ==
  ASSUME PushInv, kind = "sps", NEW line \in Asked, Ask(line)
  PROVE  \E f : Leads(f)'
<1>1. PICK f : Leads(f)
  BY DEF PushInv
<1>2. line \in Lines /\ Send(line) /\ pushed' = pushed
  BY DEF Ask, Asked, Lines
<1> DEFINE last == f[Len(toServer) + 1]
<1>3. line \in ReadLines.sps \cup OtherLines.sps
  BY SessionAssumption DEF PushInv, SessionInv, Asked, WriteLines
<1>4. Sps!LineReceived(last, line).server = last
  BY <1>3 DEF ReadLines, OtherLines, Sps!LineReceived, Sps!Reply, Sps!DoPush
<1>5. \A b \in Toggling :
        b \in pushed' <=> Shows(Sps!LineReceived(last, line).server, b)
  BY <1>1, <1>2, <1>4 DEF Leads
<1>6. QED
  BY <1>1, <1>2, <1>5, SendLeads DEF PushInv

LEMMA PushLeads ==
  ASSUME PushInv, Push
  PROVE  \E f : Leads(f)'
<1>1. kind = "sps"
  BY DEF Push
<1>2. PICK f : Leads(f)
  BY <1>1 DEF PushInv
<1>3. PICK c \in Button :
        /\ Send(<<"s", c>>)
        /\ pushed' = IF c \in pushed THEN pushed \ {c} ELSE pushed \cup {c}
  BY DEF Push
<1> DEFINE line == <<"s", c>>
           last == f[Len(toServer) + 1]
<1>4. line \in Lines
  BY <1>1 DEF Lines
<1>5. last \in Sps!Images
  BY <1>2 DEF Leads, PushInv, SessionInv
<1>6. Sps!LineReceived(last, line).server = Sps!DoPush(last, c)
  BY DEF Sps!LineReceived, Sps!Reply
<1>7. \A b \in Toggling : b \in pushed <=> Shows(last, b)
  BY <1>2 DEF Leads
<1> HIDE DEF line, last
<1>8. ASSUME NEW b \in Toggling
      PROVE  b \in pushed' <=> Shows(Sps!LineReceived(last, line).server, b)
  <2>1. Shows(Sps!DoPush(last, c), b)
          <=> IF b = c THEN ~Shows(last, b) ELSE Shows(last, b)
    BY <1>5, PushesToggle DEF Toggling
  <2>2. b \in pushed' <=> IF b = c THEN b \notin pushed ELSE b \in pushed
    BY <1>3
  <2>3. QED
    BY <1>6, <1>7, <2>1, <2>2
<1>9. Send(line)
  BY <1>3 DEF line
<1>10. QED
  BY <1>1, <1>2, <1>4, <1>8, <1>9, SendLeads DEF PushInv, last

LEMMA PushKept == PushInv /\ [Next]_vars => PushInv'
<1> SUFFICES ASSUME PushInv, [Next]_vars PROVE kind' = "sps" => \E f : Leads(f)'
  BY SessionKept DEF PushInv
<1>1. ASSUME NEW line \in Asked, Ask(line) PROVE kind' = "sps" => \E f : Leads(f)'
  BY <1>1, AskLeads DEF Ask, Send
<1>2. CASE Push
  BY <1>2, PushLeads
<1>3. CASE Take \/ Timeout \/ Reconnect \/ UNCHANGED vars
  <2>1. UNCHANGED <<kind, server, toServer, pushed>>
    BY <1>3 DEF Take, Timeout, Reconnect, vars, history
  <2>2. QED
    BY <2>1, LeadsStays
<1>4. CASE Serve /\ ~Handled.lost
  <2> SUFFICES ASSUME kind' = "sps" PROVE \E f : Leads(f)'
    OBVIOUS
  <2>1. /\ kind = "sps" /\ toServer # <<>> /\ toServer' = Tail(toServer)
        /\ server' = LineReceived(server, Head(toServer)).server /\ pushed' = pushed
    BY <1>4 DEF Serve, Handled
  <2>2. server' = Sps!LineReceived(server, Head(toServer)).server
    BY <2>1 DEF LineReceived
  <2>3. PICK f : Leads(f)
    BY <2>1 DEF PushInv
  <2>4. QED
    BY <2>1, <2>2, <2>3, ServeLeads DEF PushInv
<1>5. CASE Lose \/ (Serve /\ Handled.lost)
  <2> SUFFICES ASSUME kind' = "sps" PROVE \E f : Leads(f)'
    OBVIOUS
  <2>1. Disconnect(server) /\ kind' = kind
    BY <1>5 DEF Lose, Serve, Handled
  <2>2. toServer' = <<>> /\ server' = Sps!NewImage /\ pushed' = {}
    BY <2>1 DEF Disconnect, Fresh
  <2>3. (toServer = <<>> /\ server = Sps!NewImage /\ pushed = {} => \E f : Leads(f))'
    BY LeadsAtOnce, PTL
  <2>4. QED
    BY <2>2, <2>3
<1>6. CASE Elsewhere
  BY <1>6 DEF Elsewhere
<1>7. QED
  BY <1>1, <1>2, <1>3, <1>4, <1>5, <1>6 DEF Next, Scan, Write, Asked

(* However pushes, scans and lost connections mingle, a button's byte shows *)
(* in the end whether it was pushed an odd number of times, for any buttons *)
(* and any number of lines on their way (spss5.py:63-94).                   *)
THEOREM ButtonsToggle == Spec => []PushesToggleOnce
<1>1. PushInv => PushesToggleOnce
  <2> SUFFICES ASSUME PushInv, kind = "sps", toServer = <<>>
               PROVE  \A b \in Toggling : Shows(server, b) <=> b \in pushed
    BY DEF PushesToggleOnce, Toggling, Shows
  <2>1. PICK f : Leads(f)
    BY DEF PushInv
  <2>2. Len(toServer) + 1 = 1
    OBVIOUS
  <2>3. QED
    BY <2>1, <2>2 DEF Leads
<1>2. QED
  BY <1>1, PushInitial, PushKept, PTL DEF Spec

-----------------------------------------------------------------------------
(* In step.                                                                 *)

(* Nothing is on its way, or a scanned line alone is, or its answer.        *)
Aligned ==
  \/ waiting = NoLine /\ toServer = <<>>
  \/ waiting \in Scanned[kind] /\ toServer = <<waiting>> /\ input = <<>>
  \/ /\ waiting \in Scanned[kind] /\ toServer = <<>>
     /\ \E a : input = <<a>> /\ Reading(waiting, a) = Due(waiting)

(* As long as nothing but scans happens, what is asked is what is answered, *)
(* and a record that is read shows the device's state from then on.         *)
StaysInStep ==
  Aligned /\ Scanning =>
    /\ Aligned' /\ server' = server
    /\ \A l \in DOMAIN reading :
         /\ reading'[l] \in {reading[l], Due(l)}
         /\ Take /\ waiting = l => reading'[l] = Due(l)

(* A scanned line has one answer, which reads as the device's state, and    *)
(* changes nothing.                                                         *)
LEMMA ScansRead ==
  ASSUME SessionInv, NEW l \in Scanned[kind]
  PROVE  /\ LineReceived(server, l).server = server
         /\ ~LineReceived(server, l).lost
         /\ \E a : /\ LineReceived(server, l).answers = <<a>>
                   /\ Reading(l, a) = Due(l)
         /\ l # NoLine /\ l \in Lines
<1>1. l \in ReadLines[kind] /\ l \in Lines /\ kind \in Kinds
  BY SessionAssumption DEF SessionInv, Lines
<1>2. CASE kind = "magnets"
  <2>1. l[1] = "r" /\ l # NoLine
    <3>1. PICK m, f : l = <<"r", m, f>>
      BY <1>1, <1>2 DEF ReadLines
    <3>2. QED
      BY <3>1 DEF NoLine
  <2>2. LineReceived(server, l) =
          [server |-> server,
           answers |-> <<<<"read", l[2], l[3],
                           Mag!Parameters(server[l[2]], l[2])[l[3]]>>>>,
           lost |-> FALSE]
    BY <1>2, <2>1 DEF LineReceived, Mag!LineReceived, Mag!DoRead, Mag!Reply
  <2>3. Due(l) = <<Mag!Parameters(server[l[2]], l[2])[l[3]]>>
    BY <1>2 DEF Due, DueIn
  <2> DEFINE a == <<"read", l[2], l[3],
                    Mag!Parameters(server[l[2]], l[2])[l[3]]>>
  <2>4. Reading(l, a) = Due(l)
    BY <1>2, <2>3 DEF Reading, MagnetReading
  <2>5. QED
    BY <1>1, <2>1, <2>2, <2>4
<1>3. CASE kind = "sps"
  <2>1. l = <<"r">> \/ l = <<"a">>
    BY <1>1, <1>3 DEF ReadLines
  <2>2. CASE l = <<"r">>
    <3>1. LineReceived(server, l) =
            [server |-> server, answers |-> <<<<"R", server>>>>, lost |-> FALSE]
      BY <1>3, <2>2 DEF LineReceived, Sps!LineReceived, Sps!Reply
    <3>2. Reading(l, <<"R", server>>) = Due(l)
      BY <1>3, <2>2 DEF Reading, SpsReading, Due, DueIn
    <3>3. QED
      BY <1>1, <2>2, <3>1, <3>2 DEF NoLine
  <2>3. CASE l = <<"a">>
    <3>1. LineReceived(server, l) =
            [server |-> server, answers |-> <<<<"A">>>>, lost |-> FALSE]
      BY <1>3, <2>3 DEF LineReceived, Sps!LineReceived, Sps!Reply
    <3>2. Reading(l, <<"A">>) = Due(l)
      BY <1>3, <2>3 DEF Reading, SpsReading, Due, DueIn
    <3>3. QED
      BY <1>1, <2>3, <3>1, <3>2 DEF NoLine
  <2>4. QED
    BY <2>1, <2>2, <2>3
<1>4. CASE kind = "laser"
  <2>1. l = <<"s0g">>
    BY <1>1, <1>4 DEF ReadLines
  <2> DEFINE a == IF server.laseron THEN <<"g0g", server.Readback>>
                                    ELSE <<"@E213">>
  <2>2. LineReceived(server, l) =
          [server |-> server, answers |-> <<a>>, lost |-> FALSE]
    BY <1>4, <2>1 DEF LineReceived, Las!LineReceived, Las!Measure, Las!Reply
  <2>3. Reading(l, a) = Due(l)
    BY <1>4 DEF Reading, LaserReading, Due, DueIn
  <2> HIDE DEF a
  <2>4. QED
    BY <1>1, <2>1, <2>2, <2>3 DEF NoLine
<1>5. QED
  BY <1>1, <1>2, <1>3, <1>4, ThreeKinds

LEMMA ScanAligns ==
  ASSUME ReadingInv, Aligned, NEW l \in Scanned[kind], Scan(l)
  PROVE  Aligned' /\ server' = server /\ reading' = reading /\ ~Take
<1>1. /\ waiting = NoLine /\ waiting' = l /\ input' = <<>>
      /\ toServer' = Append(toServer, l)
      /\ UNCHANGED <<kind, server, reading>>
  BY DEF Scan, Ask, Send
<1>2. l # NoLine /\ toServer = <<>>
  BY <1>1, ScansRead DEF ReadingInv, Aligned
<1>3. QED
  BY <1>1, <1>2 DEF Aligned, Take

LEMMA TakeAligns ==
  ASSUME ReadingInv, Aligned, Take
  PROVE  /\ Aligned' /\ server' = server /\ waiting \in Scanned[kind]
         /\ reading' = [reading EXCEPT ![waiting] = Due(waiting)]
<1>1. PICK a : /\ waiting \in Scanned[kind] /\ toServer = <<>>
               /\ input = <<a>> /\ Reading(waiting, a) = Due(waiting)
  BY DEF Take, Aligned
<1>2. Head(input) = a
  BY <1>1
<1>3. QED
  BY <1>1, <1>2 DEF Take, Aligned

LEMMA ServeAligns ==
  ASSUME ReadingInv, Aligned, Serve
  PROVE  Aligned' /\ server' = server /\ reading' = reading
<1>1. /\ waiting \in Scanned[kind] /\ toServer = <<waiting>> /\ input = <<>>
      /\ kind' = kind
  BY DEF Serve, Aligned
<1>2. Head(toServer) = waiting /\ Tail(toServer) = <<>>
  BY <1>1
<1>3. PICK a : /\ LineReceived(server, waiting).server = server
               /\ ~LineReceived(server, waiting).lost
               /\ LineReceived(server, waiting).answers = <<a>>
               /\ Reading(waiting, a) = Due(waiting)
  BY <1>1, ScansRead DEF ReadingInv
<1>4. /\ server' = server /\ toServer' = <<>> /\ input' = <<>> \o <<a>>
      /\ UNCHANGED <<waiting, reading>>
  BY <1>1, <1>2, <1>3 DEF Serve
<1>5. input' = <<a>>
  BY <1>4
<1>6. Reading(waiting, a)' = Due(waiting)'
  BY <1>1, <1>3, <1>4 DEF Reading, Due, DueIn
<1>7. Aligned'
  <2>1. waiting' \in Scanned[kind'] /\ toServer' = <<>>
    BY <1>1, <1>4
  <2>2. QED
    BY <1>1, <1>3, <1>4, <1>5, <2>1 DEF Aligned, Reading, Due, DueIn
<1>8. QED
  BY <1>4, <1>7

(* Once the device has answered all that was asked, each record that is     *)
(* scanned is read from the answer to its own line and shows the device's   *)
(* state as it is, and scans alone never get the two out of step again,     *)
(* also with the SPS, whose answers do not say what they answer: the safety *)
(* part of ReadingsFallIntoStep (spss5.proto:9-24, spss5.py:48-71,          *)
(* slsvme.proto:7-10).                                                      *)
THEOREM ScansStayInStep == Spec => [][StaysInStep]_vars
<1>1. ReadingInv /\ [Next]_vars => [StaysInStep]_vars
  <2> SUFFICES ASSUME ReadingInv, Aligned, Scanning
               PROVE  /\ Aligned' /\ server' = server
                      /\ \A l \in DOMAIN reading :
                           /\ reading'[l] \in {reading[l], Due(l)}
                           /\ Take /\ waiting = l => reading'[l] = Due(l)
    BY DEF StaysInStep
  <2>1. ASSUME NEW l \in Scanned[kind], Scan(l)
        PROVE  Aligned' /\ server' = server /\ reading' = reading /\ ~Take
    BY <2>1, ScanAligns
  <2>2. CASE Take
    <3>1. /\ Aligned' /\ server' = server /\ waiting \in Scanned[kind]
          /\ reading' = [reading EXCEPT ![waiting] = Due(waiting)]
      BY <2>2, TakeAligns
    <3>2. QED
      BY <3>1
  <2>3. CASE ~Take /\ Serve
    BY <2>3, ServeAligns
  <2>4. QED
    BY <2>1, <2>2, <2>3 DEF Scanning
<1>2. QED
  BY <1>1, ReadingInitial, ReadingKept, PTL DEF Spec

=============================================================================
