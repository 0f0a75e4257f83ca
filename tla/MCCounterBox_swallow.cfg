SPECIFICATION Spec
CONSTANTS
  Clients <- RateSetter
  Rates = {1}
  Presets = {4}
  CountRate = 2
  MaxTicks = 2
  MaxPaused = 1
  PipeMax = 3
INVARIANT StopStopsGeneration
CHECK_DEADLOCK FALSE
