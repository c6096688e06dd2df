SPECIFICATION Spec
CONSTANTS
  Functions <- MC_SweepFunctions
  Micros <- MC_Micros
  ScpiAmounts <- MC_NoScpi
  UserRates <- MC_NoRates
  Toggles <- MC_NoToggles
  MenuFrames = 1
  ScpiEnabled = FALSE
  OneInputPerFrame = TRUE
INVARIANT SourceScaledForRange
