SPECIFICATION FairEitherSpec
CONSTANTS
  Clients <- Everybody
  Rates = {0, 1}
  Presets = {2}
  CountRate = 2
  MaxTicks = 2
  MaxPaused = 2
  PipeMax = 2
INVARIANTS TypeOK GeneratorFollows
PROPERTIES CountEnds NoGeneratorSurvives KeepsCount
CHECK_DEADLOCK FALSE
