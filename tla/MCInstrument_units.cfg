SPECIFICATION Spec
CONSTANTS
  Functions <- MC_DcFunctions
  Micros <- MC_TwoMicros
  ScpiAmounts <- MC_NoScpi
  UserRates <- MC_NoRates
  Toggles <- MC_Toggles
  MenuFrames = 1
  ScpiEnabled = FALSE
  OneInputPerFrame = TRUE
INVARIANTS
  UnitsTruthful
  SourceScaledForRange
