---------------------------- MODULE MCCounterBox ----------------------------
(* The instances of the two counter boxes that TLC checks.                  *)
EXTENDS BenchCounterBox

ClientOf(lines, faults) == [lines |-> lines, faults |-> faults, bench |-> FALSE]
BenchClientOf(lines) == [lines |-> lines, faults |-> {}, bench |-> TRUE]

(* Clients that count and pause, with run failures; that set rates; that    *)
(* set thresholds; and one of the box on the bench.                         *)
Everybody ==
  {ClientOf({"tp", "mp", "st", "ps", "co"}, {"run"}),
   ClientOf({"mp", "ps", "rt"}, {}),
   ClientOf({"mp", "dl", "dr"}, {"start", "read"}),
   BenchClientOf({"tp", "mp", "st", "ps", "co", "dl"})}

RateSetter == {ClientOf({"tp", "st", "rt"}, {})}
=============================================================================
