---------------------------- MODULE MCEventStream ----------------------------
(* The instances of EventStream that TLC checks: two cells of one event     *)
(* each, so that 16 bytes hold the source's events, and 12 bytes do not.    *)
EXTENDS EventStream

Uris ==
  ("//kafka:9092/amor" :> [broker |-> "kafka:9092", topic |-> "amor"]) @@
  ("//:9092/amor" :> [broker |-> ":9092", topic |-> "amor"]) @@
  ("hello" :> [broker |-> "no match", topic |-> "no match"])

Numbers ==
  ("1" :> {1}) @@ ("2" :> {2}) @@ ("16" :> {16}) @@ ("12" :> {12}) @@
  ("many" :> {0}) @@ (" " :> {-1, 0, 1, 2})

TwoCells ==
  "amor.hdf" :> <<[row |-> 1, tof |-> 5, count |-> 1],
                  [row |-> 2, tof |-> 6, count |-> 0],
                  [row |-> 2, tof |-> 7, count |-> 1]>>

File(texts, numbers) ==
  [readable |-> TRUE, texts |-> texts, numbers |-> numbers]

Whole ==
  File([producer_uri |-> "//kafka:9092/amor", source |-> "amor.hdf"],
       [multiplier |-> 1, rate |-> 10, num_threads |-> 1, bytes |-> 16])

(* As the file of the deployment: no bytes and no num_threads.              *)
Deployed ==
  File([producer_uri |-> "//kafka:9092/amor", source |-> "amor.hdf"],
       [multiplier |-> 1, rate |-> 10])

BadUri ==
  File([producer_uri |-> "//:9092/amor", source |-> "amor.hdf"],
       [multiplier |-> 1, rate |-> 10, num_threads |-> 1, bytes |-> 16])

Missing == [readable |-> FALSE, texts |-> <<>>, numbers |-> <<>>]

SomeFiles == {Whole, Deployed, BadUri, Missing}

Option(name, text) == [name |-> name, text |-> text]

SomeLines ==
  {<<>>,
   <<Option("num_threads", "1"), Option("bytes", "16")>>,
   <<Option("bytes", "12")>>,
   <<Option("num_threads", "1"), Option("multiplier", "2")>>,
   <<Option("multiplier", " "), Option("rate", "many")>>,
   <<Option("source_name", "amor.2"), Option("source", "")>>,
   <<Option("producer_uri", "hello"), Option("rate", "2"), Option("rate", "1")>>,
   <<Option("unknown", "1")>>}

=============================================================================
