SPECIFICATION FairSpec
CONSTANTS
  m1 = m1
  Motor = {m1}
  Targets <- NearTargets
  Limits <- TwoLimits
  Gears = {1, 2}
  Speeds = {0, 60}
  RefTargets <- NullPoints
  Faults = {"run", "start"}
  MaxTicks = 3
INVARIANTS TypeOK FlagsOfTheLastDrive OnlyFailuresHoldARefRun
PROPERTIES RefRunIsUndisturbed ArrivalRespectsTheLimit DrivesEnd UnfailedRefRunsEnd
CHECK_DEADLOCK FALSE
