----------------------------- MODULE EventStream -----------------------------
(* The way of the events: from the histogram in a NeXus file through the    *)
(* generator and Kafka to the listener AMORreceiver.  Both programs parse   *)
(* a configuration first.  Every streaming thread has a topic of its own    *)
(* and the listener reads that of thread 0 (Stream[0]), so thread 0 is      *)
(* modelled; its place in the loop is the subject of EventGenerator, here   *)
(* a pulse is one step.                                                     *)
EXTENDS Integers, Sequences, SequencesExt, FiniteSets

CONSTANTS
  Uri, Number, Incomplete,     \* see Configuration
  Files,         \* the configuration files
  CommandLines,  \* what may be typed after a program's name
  Cluster,       \* the brokers that can be reached
  Histogram,     \* per NeXus source that can be read: its cells in the
                 \* order of the loops, each with row, tof and count
  Strangers,     \* the source names of other programs that write to the
                 \* topics, none of which is configured here
  MaxPulse,      \* bound: the pulses
  MaxQueue,      \* bound: the messages not reported on
  MaxForeign     \* bound: the messages of other programs

VARIABLES
  gen, gcfg,     \* the generator: "off", "streaming", "ended"; the
                 \* configuration that was asked of it
  status,        \* CommandlineControl::status
  PulseID,       \* of the generator's thread 0
  queue,         \* its messages that the broker has not reported on
  log,           \* per topic: the messages in it
  foreign,       \* history: how many messages other programs wrote
  clean,         \* history: no pulse without message, no message lost,
                 \* overtaken or foreign
  lis, lcfg,     \* the listener: "off", "listening", "ended"; configuration
  start,         \* the end of the topic when it was started
  offset,        \* how many messages of the topic lie behind it
  Events,        \* the events of the last message
  Expected,      \* PulseID of listenImpl
  MessagesLost, MessagesReceived,
  reported       \* history: the sum of what it has reported as missed

genVars == <<gen, gcfg, status, PulseID, queue>>
lisVars == <<lis, lcfg, start, offset, Events, Expected, MessagesLost,
             MessagesReceived, reported>>
vars == <<genVars, log, foreign, clean, lisVars>>

Cfg == INSTANCE Configuration

Topics == {Cfg!LenientUri(t).topic : t \in DOMAIN Uri} \ {""}

(* A file sets texts and numbers of the keys that are looked up in it, and  *)
(* Uri and Number say what is found in every text that is given.            *)
ASSUME StreamAssumption ==
  /\ MaxPulse \in Nat \ {0} /\ MaxQueue \in Nat /\ MaxForeign \in Nat
  /\ \A text \in DOMAIN Number : Number[text] \subseteq Int
  /\ \A file \in Files :
       /\ DOMAIN file.texts \subseteq Cfg!TextKeys \cup {"producer_uri"}
       /\ "producer_uri" \in DOMAIN file.texts
            => file.texts.producer_uri \in DOMAIN Uri
       /\ DOMAIN file.numbers \subseteq Cfg!NumberKeys
       /\ \A k \in DOMAIN file.numbers : file.numbers[k] \in Int
  /\ \A source \in DOMAIN Histogram :
       Histogram[source] \in Seq([row : Int, tof : Int, count : Nat])
  /\ CommandLines \subseteq Seq([name : STRING, text : STRING])
  /\ \A line \in CommandLines : \A i \in DOMAIN line :
       LET option == line[i] IN
         /\ option.name = "producer_uri" => option.text \in DOMAIN Uri \cup {""}
         /\ option.name \in Cfg!NumberKeys
              => option.text \in DOMAIN Number \cup {""}

-----------------------------------------------------------------------------
(* From the file to the message.                                            *)

Repeat(x, n) == [i \in 1 .. n |-> x]

(* Amor::toEventFmt<ESSformat>: the times of flight of all the events, and  *)
(* after them the detector of each, which is the row of its cell.           *)
Times(h) == FlattenSeq([c \in DOMAIN h |-> Repeat(h[c].tof, h[c].count)])
Detectors(h) == FlattenSeq([c \in DOMAIN h |-> Repeat(h[c].row, h[c].count)])
ToEventFmt(h) == Times(h) \o Detectors(h)

(* NeXusSource appends multiplier - 1 copies of the whole.                  *)
Replicated(data, multiplier) == FlattenSeq(Repeat(data, multiplier))

(* vector::resize drops elements at the end or appends zeros.               *)
Resized(data, n) == [i \in 1 .. n |-> IF i <= Len(data) THEN data[i] ELSE 0]

(* An element is four bytes.                                                *)
Data(config) ==
  LET data == Replicated(ToEventFmt(Histogram[config.source]), config.multiplier)
  IN IF config.bytes > 0 THEN Resized(data, config.bytes \div 4) ELSE data

(* Mutant: the second half starts one element late.                         *)
SerialiseShifted(source, id, data) ==
  LET nev == Len(data) \div 2
  IN [source |-> source, message_id |-> id,
      time_of_flight |-> SubSeq(data, 1, nev),
      detector_id |-> SubSeq(data, Len(data) - nev, Len(data) - 1)]

(* The halves of the data; the last of an odd number of elements is left.   *)
Serialise(source, id, data) ==
  LET nev == Len(data) \div 2
  IN [source |-> source, message_id |-> id,
      time_of_flight |-> SubSeq(data, 1, nev),
      detector_id |-> SubSeq(data, nev + 1, 2 * nev)]

Extract(message) == message.time_of_flight \o message.detector_id

-----------------------------------------------------------------------------
Init ==
  /\ gen = "off" /\ gcfg = Cfg!Defaults
  /\ status = "stop"
  /\ PulseID = 0
  /\ queue = <<>>
  /\ log = [t \in Topics |-> <<>>]
  /\ foreign = 0
  /\ clean = TRUE
  /\ lis = "off" /\ lcfg = Cfg!Defaults
  /\ start = 0 /\ offset = 0
  /\ Events = <<>>
  /\ Expected = -1
  /\ MessagesLost = -1 /\ MessagesReceived = 0
  /\ reported = 0

(* The generator is started in a shell, or by the counter box, which passes *)
(* the words after "echo 2" as the whole argument vector: the first one     *)
(* takes the place of the program's name and is not an option.              *)
Arguments == CommandLines \union {Tail(l) : l \in CommandLines \ {<<>>}}

(* Other programs do not write under a name that is configured here.        *)
ASSUME StrangersAssumption ==
  \A file \in Files, line \in Arguments :
    \A c \in Cfg!ParseConfiguration(file, line) : c.source_name \notin Strangers

(* bytes together with multiplier, a source that cannot be read and a       *)
(* broker that does not answer end the program.                             *)
CanStream(config) ==
  /\ ~(config.bytes > 0 /\ config.multiplier > 1)
  /\ config.source \in DOMAIN Histogram
  /\ config.broker \in Cluster

StartGenerator ==
  /\ gen = "off"
  /\ \E file \in Files, line \in Arguments :
       \/ /\ Cfg!IsParsed(file, line)
          /\ gcfg' \in Cfg!Requested(file, line)
          /\ gen' = IF Cfg!Validates(gcfg') /\ CanStream(gcfg')
                    THEN "streaming" ELSE "ended"
       \/ ~Cfg!IsParsed(file, line) /\ gen' = "ended" /\ gcfg' = gcfg
  /\ UNCHANGED <<status, PulseID, queue, log, foreign, clean, lisVars>>

Command ==
  /\ gen = "streaming"
  /\ status' \in {"run", "pause", "stop"} \ {status}
  /\ UNCHANGED <<gen, gcfg, PulseID, queue, log, foreign, clean, lisVars>>

(* send() is given Events.size() or 0 and produces no message for 0.        *)
Sends == status = "run" /\ Data(gcfg) # <<>>

Pulse ==
  /\ gen = "streaming" /\ status # "stop" /\ Len(queue) < MaxQueue
  /\ PulseID < MaxPulse
  /\ PulseID' = PulseID + 1
  /\ queue' = IF Sends
              THEN Append(queue, Serialise(gcfg.source_name, PulseID, Data(gcfg)))
              ELSE queue
  /\ clean' = (clean /\ Sends)
  /\ UNCHANGED <<gen, gcfg, status, log, foreign, lisVars>>

-----------------------------------------------------------------------------
(* The broker and the others who write to it.  A message that is tried      *)
(* again may be overtaken by later ones.                                    *)

Store(i) ==
  /\ log' = [log EXCEPT ![gcfg.topic] = Append(@, queue[i])]
  /\ queue' = RemoveAt(queue, i)
  /\ clean' = (clean /\ i = 1)
  /\ UNCHANGED <<gen, gcfg, status, PulseID, foreign, lisVars>>

Lose(i) ==
  /\ queue' = RemoveAt(queue, i)
  /\ clean' = FALSE
  /\ UNCHANGED <<gen, gcfg, status, PulseID, log, foreign, lisVars>>

Foreign(name, topic) ==
  /\ foreign < MaxForeign
  /\ foreign' = foreign + 1
  /\ log' = [log EXCEPT ![topic] = Append(@, Serialise(name, 0, <<>>))]
  /\ clean' = FALSE
  /\ UNCHANGED <<genVars, lisVars>>

-----------------------------------------------------------------------------
(* The listener.  Its parser's exceptions are not caught; the topic is read *)
(* from its end on.                                                         *)
StartListener ==
  /\ lis = "off"
  /\ \E file \in Files, line \in CommandLines :
       \/ \E c \in Cfg!ParseConfiguration(file, line) :
            /\ lis' = "listening" /\ lcfg' = c
            /\ start' = Len(log[c.topic]) /\ offset' = start'
       \/ /\ Cfg!MayThrow(file, line)
          /\ lis' = "ended"
          /\ UNCHANGED <<lcfg, start, offset>>
  /\ UNCHANGED <<genVars, log, foreign, clean, Events, Expected, MessagesLost,
                 MessagesReceived, reported>>

(* recv(): the number of the next message, 0 for one of another source.     *)
Received(message) ==
  IF message.source = lcfg.source_name THEN message.message_id ELSE 0

(* Mutant: every number that is missing counts.                             *)
LostNumbers(message) == MessagesLost + Received(message) - Expected

(* A number that was not expected counts as one loss.                       *)
Lost(message) == MessagesLost + (IF Received(message) # Expected THEN 1 ELSE 0)

(* Mutant: a number that was not expected is not taken over.                *)
NextInRow(message) == Expected + 1

NextExpected(message) == Received(message) + 1

(* One round of listenImpl: the events of any message are extracted, it is  *)
(* counted as received if its number was expected, and when report_time has *)
(* passed both counters are printed and reset.                              *)
Consume ==
  /\ lis = "listening" /\ lcfg.broker \in Cluster
  /\ offset < Len(log[lcfg.topic])
  /\ LET message == log[lcfg.topic][offset + 1]
         received == MessagesReceived +
                       (IF Received(message) = Expected THEN 1 ELSE 0)
     IN /\ \/ /\ MessagesLost' = Lost(message)
              /\ MessagesReceived' = received
              /\ reported' = reported
           \/ /\ MessagesLost' = 0
              /\ MessagesReceived' = 0
              /\ reported' = reported + Lost(message)
        /\ Events' = Extract(message)
        /\ Expected' = NextExpected(message)
  /\ offset' = offset + 1
  /\ UNCHANGED <<genVars, log, foreign, clean, lis, lcfg, start>>

Next ==
  \/ StartGenerator
  \/ Command
  \/ Pulse
  \/ \E i \in DOMAIN queue : Store(i)
  \/ \E i \in DOMAIN queue : Lose(i)
  \/ \E name \in Strangers, topic \in Topics : Foreign(name, topic)
  \/ StartListener
  \/ Consume

Spec == Init /\ [][Next]_vars

-----------------------------------------------------------------------------
TypeOK ==
  /\ gen \in {"off", "streaming", "ended"}
  /\ lis \in {"off", "listening", "ended"}
  /\ status \in {"run", "pause", "stop"}
  /\ PulseID \in 0 .. MaxPulse
  /\ Len(queue) <= MaxQueue
  /\ start \in 0 .. offset
  /\ lis = "listening" => offset <= Len(log[lcfg.topic])
  /\ Expected \in -1 .. MaxPulse
  /\ MessagesLost \in -1 .. offset
  /\ MessagesReceived \in 0 .. offset
  /\ clean \in BOOLEAN

(* What the listener reports and still has to report as missed are the      *)
(* breaks in the numbers it has seen, the first message not counted: each   *)
(* break once, however many reports lie between (generator.hpp:164-185).    *)
(* Without messages of other sources it is their exact number; after one,   *)
(* the number 1 is not seen as a break.                                     *)
Heard(i) == log[lcfg.topic][i]
IsForeign(i) == Heard(i).source # lcfg.source_name
Break(i) ==
  \/ i = start + 1
  \/ IsForeign(i)
  \/ IsForeign(i - 1)
  \/ Heard(i).message_id # Heard(i - 1).message_id + 1

MissedAreBreaks ==
  lis = "listening" =>
    LET span == start + 1 .. offset
        breaks == Cardinality({i \in span : Break(i)})
    IN /\ reported + MessagesLost + 1 <= breaks
       /\ (\A i \in span : ~IsForeign(i))
            => reported + MessagesLost + 1 = breaks

(* A listener that joins at any time and hears only its generator reports   *)
(* no losses as long as every pulse has sent its message and the broker has *)
(* stored all of them in order (generator.hpp:101-150 and 152-187).         *)
CleanStreamLosesNothing ==
  /\ clean
  /\ gen = "streaming" /\ lis = "listening"
  /\ lcfg.source_name = gcfg.source_name
  => reported + MessagesLost <= 0

(* README.md:8, 70 and 97: the data can be a multiple of the original ones, *)
(* multiplier is the number of repetitions and bytes is optional.  So a     *)
(* generator that was asked for repetitions and no size, and for nothing    *)
(* that would not do with a size, streams.                                  *)
RepeatsTheSource ==
  /\ gen # "off"
  /\ gcfg.multiplier > 1 /\ gcfg.bytes = 0
  /\ Cfg!Validates([gcfg EXCEPT !.bytes = 1]) /\ CanStream(gcfg)
  => gen = "streaming"

(* When bytes is the size of the source's events, what the listener         *)
(* extracts from a message of the generator is what the reader has read:    *)
(* through resize, the halves of the message and back.                      *)
EventsArrive ==
  /\ lis = "listening" /\ offset > start
  /\ gen = "streaming" /\ lcfg.topic = gcfg.topic
  /\ Heard(offset).source = gcfg.source_name
  /\ gcfg.bytes \div 8 = Len(Times(Histogram[gcfg.source]))
  => Events = ToEventFmt(Histogram[gcfg.source])

(* README.md:126-127: time_of_flight and detector_id of a message are those *)
(* of the source's events.                                                  *)
EventsAreOfTheSource ==
  \A i \in DOMAIN queue :
    LET m == queue[i]
        h == Histogram[gcfg.source]
    IN \A e \in DOMAIN m.detector_id :
         \E c \in DOMAIN h : /\ h[c].count > 0
                             /\ h[c].tof = m.time_of_flight[e]
                             /\ h[c].row = m.detector_id[e]

=============================================================================
