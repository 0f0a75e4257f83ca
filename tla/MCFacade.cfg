SPECIFICATION FacadeSpec
CONSTANTS
  c1 = c1
  c2 = c2
  Disc = {c1, c2}
  Values = {0, 1}
  SetPoints <- PhaseOfTheSlave
  MaxCalls = 2
  Steps = {0, 1, 3, 8}
  Elapsed <- Passing
  TdceArraySize = 5
  MaxBehind = 20
  MaxSignals = 3
INVARIANTS TypeOK OnePoll SetPointsAgree PickupTypeOK
PROPERTIES WholeRepliesKeepAsking ModesAreShown TrainIsUnbroken NoEarlierPeriods
PROPERTIES BacklogIsPublished EndsWhenTold
CHECK_DEADLOCK FALSE
