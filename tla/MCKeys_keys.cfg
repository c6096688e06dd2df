CONSTANTS
  Buttons    = {1, 2}
  HoldPeriod = 3
  Gaps       <- MCGaps
SPECIFICATION FairSpec
INVARIANTS TypeOK ToldOnce
PROPERTIES HeldIsTold
