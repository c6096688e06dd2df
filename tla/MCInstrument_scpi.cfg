SPECIFICATION FairSpec
CONSTANTS
  Functions <- MC_PulseFunctions
  Micros <- MC_NoScpi
  ScpiAmounts <- MC_Scpi
  UserRates <- MC_NoRates
  Toggles <- MC_NoToggles
  MenuFrames = 2
  ScpiEnabled = TRUE
  OneInputPerFrame = TRUE
INVARIANT OneTimer
PROPERTIES
  MenuRepairs
  MenuGoesAway
