SPECIFICATION FairSpec
CONSTANTS
  m1 = m1
  Motor = {m1}
  Targets <- NearTargets
  Limits <- OneLimit
  Gears = {1}
  Speeds = {20}
  RefTargets <- NullPoints
  Faults = {"run"}
  MaxTicks = 4
PROPERTY RefRunsEnd
CHECK_DEADLOCK FALSE
