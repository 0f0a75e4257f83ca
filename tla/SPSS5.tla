-------------------------------- MODULE SPSS5 -------------------------------
(* The simulated SPS-S5 (spss5.py): a push of a button toggles a byte of    *)
(* the digital inputs, which belong to the connection.                      *)
EXTENDS Sequences

(* The bytes that buttons toggle.                                           *)
Byte == {"b5", "b13", "b16"}

Images == [Byte -> {0, 5, 128, 129}]
NewImage == [b \in Byte |-> IF b = "b5" THEN 5 ELSE 0]

(* The byte a button toggles, and its value when it does not rest; other    *)
(* buttons do nothing.                                                      *)
ByteOf == [s0000 |-> "b5", s0001 |-> "b16", s0007 |-> "b13"]
Pushed == [b5 |-> 0, b13 |-> 128, b16 |-> 129]

(* Mutant: a button that is pushed again stays pushed.                      *)
DoPushOnce(image, button) ==
  IF button \in DOMAIN ByteOf
    THEN [image EXCEPT ![ByteOf[button]] = Pushed[ByteOf[button]]]
    ELSE image

DoPush(image, button) ==
  IF button \in DOMAIN ByteOf
    THEN LET b == ByteOf[button] IN
         [image EXCEPT ![b] = IF @ = Pushed[b] THEN NewImage[b] ELSE Pushed[b]]
    ELSE image

Reply(image, answer) == [server |-> image, answers |-> <<answer>>, lost |-> FALSE]

(* "r", "a", "s...": too short, pushing a button, or no number; any other   *)
(* line has no answer at all.                                               *)
LineReceived(image, line) ==
  CASE line[1] = "r" -> Reply(image, <<"R", image>>)
    [] line[1] = "a" -> Reply(image, <<"A">>)
    [] line[1] = "s" -> Reply(DoPush(image, line[2]), <<"echo", line[2]>>)
    [] line[1] = "short" -> Reply(image, <<"?PAR">>)
    [] line[1] = "malformed" ->
         [server |-> image, answers |-> <<>>, lost |-> TRUE]
    [] line[1] = "other" ->
         [server |-> image, answers |-> <<>>, lost |-> FALSE]
=============================================================================
