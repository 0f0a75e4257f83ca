SPECIFICATION StreamingSpec
CONSTANTS
  t1 = t1
  t2 = t2
  Uri <- Uris
  Number <- Numbers
  Incomplete = {":9092"}
  Files <- SomeFiles
  CommandLines <- SomeLines
  Cluster = {"kafka:9092"}
  Histogram <- TwoCells
  Strangers = {"other"}
  MaxPulse = 3
  MaxQueue = 2
  MaxForeign = 1
INVARIANTS TypeOK MissedAreBreaks CleanStreamLosesNothing EventsArrive
PROPERTIES RunKeepsStreaming ExitEndsStreaming SoloReportsKeepComing
PROPERTY SurvivorReportsKeepComing
CHECK_DEADLOCK FALSE
