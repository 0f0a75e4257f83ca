-------------------------- MODULE MCEventGenerator --------------------------
(* The instances of EventGenerator that TLC checks.                         *)
EXTENDS EventGenerator, TLC

CONSTANTS t1, t2

TwoThreads == {t1, t2}
Symmetry == Permutations(TwoThreads)

AllWords == {"run", "pause", "stop", "exit", "rate"}
RunOnly == {"run"}
=============================================================================
