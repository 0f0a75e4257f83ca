SPECIFICATION Spec
CONSTANTS
  Uri <- Uris
  Number <- Numbers
  Incomplete = {":9092"}
  Files <- SomeFiles
  CommandLines <- SomeLines
  Cluster = {"kafka:9092"}
  Histogram <- TwoCells
  Strangers = {"other"}
  MaxPulse = 2
  MaxQueue = 2
  MaxForeign = 1
INVARIANT RepeatsTheSource
CHECK_DEADLOCK FALSE
