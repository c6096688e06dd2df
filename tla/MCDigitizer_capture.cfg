SPECIFICATION FairSpec
CONSTANTS
  N = 4
  Stamps = 10
  Levels <- MC_OneLevel
  Presses <- MC_AllPresses
  BoardPowered = TRUE
INVARIANT TypeOK
PROPERTIES
  IsScope
  ScreenServed
  ContinuousFills
