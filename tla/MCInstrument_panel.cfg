SPECIFICATION Spec
CONSTANTS
  Functions <- MC_Functions
  Micros <- MC_Micros
  ScpiAmounts <- MC_NoScpi
  UserRates <- MC_Rates
  Toggles <- MC_Toggles
  MenuFrames = 1
  ScpiEnabled = FALSE
  OneInputPerFrame = TRUE
INVARIANTS
  TypeOK
  DcScreenTruthful
  AdcRestored
  DialCommitsItsType
  PanelInv
PROPERTY KnobFollowsScreen
