CONSTANTS
  Amounts    <- MCAmounts
  Sourced    = {3000}
  Levels     = {1500, 3000}
  LowLevel   <- MCLowLevel
  HighLevel  <- MCHighLevel
  StepUnit   = 1500
  BoundUnit  = 3000
  SweepSteps = {0, 1500}
  SweepHighs = {0, 3000}
SPECIFICATION FairSpec
INVARIANTS TypeOK ShownIsOutput
PROPERTIES OutputImplemented SweepComesBack SweepsOn
