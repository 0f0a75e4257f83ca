SPECIFICATION FairSpec
CONSTANTS
  t1 = t1
  t2 = t2
  Thread <- TwoThreads
  Words <- RunOnly
  Rates = {1}
  FlushEvery = 2
  QueueMax = 2
PROPERTY ReportsKeepComing
CHECK_DEADLOCK FALSE
