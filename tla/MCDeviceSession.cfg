SPECIFICATION FairSpec
CONSTANTS
  Kinds <- AllKinds
  Magnet <- TwoMagnets
  Limit <- TheirLimits
  Current = {1, 2}
  Distance = {7}
  Scanned <- TheScans
  Written <- TheWrites
  Typed <- TheTypos
  Button = {"s0000", "s0007"}
  MaxUnanswered = 2
INVARIANTS TypeOK ReadingsAreGenuine AcknowledgedIsInForce PushesToggleOnce
PROPERTIES ReadingsFallIntoStep
CHECK_DEADLOCK FALSE
