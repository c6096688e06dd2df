CONSTANTS
  MaxSize    = 7
  Window     = 3
  Turns      <- MCTurns
  MaxSamples = 16
  MaxRotary  = 3
SPECIFICATION Spec
INVARIANTS TypeOK ViewIsHistory
PROPERTIES PointsStay
