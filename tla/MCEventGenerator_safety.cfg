SPECIFICATION Spec
CONSTANTS
  t1 = t1
  t2 = t2
  Thread <- TwoThreads
  Words <- AllWords
  Rates = {0, 1}
  FlushEvery = 3
  QueueMax = 3
SYMMETRY Symmetry
INVARIANTS TypeOK NoQueueFull AtMostOneLateMessage FullCountIsSeen
CHECK_DEADLOCK FALSE
