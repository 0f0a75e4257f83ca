--------------------------- MODULE Configuration ---------------------------
(* The configuration of AMORgenerator and AMORreceiver (Configuration.cxx): *)
(* defaults, then the file, then the options of the command line, then      *)
(* validate().  A text is a string; what the regular expressions find in a  *)
(* text and what a stream reads from it as an int are constants.  The time  *)
(* stamp policy and the options of the Kafka library steer nothing here.    *)
EXTENDS Integers, Sequences

CONSTANTS
  Uri,         \* per text: what get_broker and get_topic find in it
  Number,      \* per text: the ints that to_int may read from it
  Incomplete   \* the brokers with a colon first, last or beside a comma

NoMatch == "no match"

Defaults ==
  [broker |-> "", topic |-> "", source |-> "",
   source_name |-> "AMOR.event.stream",
   multiplier |-> 0, bytes |-> 0, rate |-> 0, num_threads |-> 0]

TextKeys == {"source", "source_name"}
NumberKeys == {"multiplier", "bytes", "rate", "num_threads"}

(* Each setting replaces the value the configuration had; settings of other *)
(* keys are ignored.                                                        *)
Overlay(config, settings) ==
  [k \in DOMAIN config |->
     IF k \in DOMAIN settings THEN settings[k] ELSE config[k]]

-----------------------------------------------------------------------------
(* The producer's URI.  On the command line a part that is not found is     *)
(* replaced by a default and nothing is checked; in the file the URI must   *)
(* be whole, or parsing throws.                                             *)
Found(part, default) == IF part = NoMatch THEN default ELSE part

LenientUri(text) ==
  [broker |-> Found(Uri[text].broker, "//localhost:9092/"),
   topic |-> Found(Uri[text].topic, "empty-topic")]

StrictUri(text) ==
  [broker |-> Found(Uri[text].broker, ""), topic |-> Found(Uri[text].topic, "")]

BrokerTopicIsValid(uri) ==
  uri.topic # "" /\ uri.broker # "" /\ uri.broker \notin Incomplete

-----------------------------------------------------------------------------
(* The file: whether it can be read and parsed, with every value of its     *)
(* type, and its texts and its numbers by key.                              *)
FileIsAccepted(file) ==
  /\ file.readable
  /\ "producer_uri" \in DOMAIN file.texts
       => BrokerTopicIsValid(StrictUri(file.texts.producer_uri))

FromFile(file) ==
  LET texts == Overlay(Defaults, file.texts)
      numbers == Overlay(texts, file.numbers)
  IN IF "producer_uri" \in DOMAIN file.texts
     THEN Overlay(numbers, StrictUri(file.texts.producer_uri))
     ELSE numbers

-----------------------------------------------------------------------------
(* The command line: a sequence of options, each with its name and text.    *)
(* getopt_long's loop keeps the last text of an option.                     *)
CommandLineIsAccepted(line) ==
  \A i \in DOMAIN line : line[i].name \notin {"help", "unknown"}

ParseCommandLine(line) ==
  [name \in {line[i].name : i \in DOMAIN line} |->
     line[CHOOSE i \in DOMAIN line :
            /\ line[i].name = name
            /\ \A j \in DOMAIN line : line[j].name = name => j <= i].text]

(* Options without a text leave the configuration alone.                    *)
Given(options, keys) == {k \in keys \cap DOMAIN options : options[k] # ""}

(* A text that is not a number reads as 0; from a blank one the stream      *)
(* reads nothing and to_int returns an uninitialised int: hence a set.      *)
Readings(options) ==
  LET keys == Given(options, NumberKeys)
  IN {f \in [keys -> UNION {Number[options[k]] : k \in keys}] :
        \A k \in keys : f[k] \in Number[options[k]]}

Overridden(config, options) ==
  LET texts == Overlay(config, [k \in Given(options, TextKeys) |-> options[k]])
      producer == IF Given(options, {"producer_uri"}) = {} THEN texts
                  ELSE Overlay(texts, LenientUri(options.producer_uri))
  IN {Overlay(producer, numbers) : numbers \in Readings(options)}

Validates(config) ==
  /\ config.broker # "" /\ config.topic # ""
  /\ config.source_name # "" /\ config.source # ""
  /\ config.multiplier > 0 /\ config.num_threads > 0
  /\ config.rate > 0 /\ config.bytes > 0

IsParsed(file, line) == FileIsAccepted(file) /\ CommandLineIsAccepted(line)

(* What file and command line ask for, before it is validated.              *)
Requested(file, line) == Overridden(FromFile(file), ParseCommandLine(line))

(* The configurations parse_configuration may leave behind; none when it    *)
(* throws whatever an uninitialised int holds.                              *)
ParseConfiguration(file, line) ==
  {c \in Requested(file, line) : IsParsed(file, line) /\ Validates(c)}

(* parse_configuration may throw.                                           *)
MayThrow(file, line) ==
  IsParsed(file, line) => \E c \in Requested(file, line) : ~Validates(c)

=============================================================================
