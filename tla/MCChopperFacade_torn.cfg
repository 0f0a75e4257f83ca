SPECIFICATION FairSpec
CONSTANTS
  c1 = c1
  c2 = c2
  Disc = {c1, c2}
  Values = {0}
  SetPoints = {}
  MaxCalls = 1
PROPERTY RegularlyAsked
