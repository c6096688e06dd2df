SPECIFICATION Spec
CONSTANTS
  N = 6
  Stamps = 1
  Levels <- MC_AllLevels
  Presses <- MC_OnlyType
  BoardPowered = TRUE
PROPERTY OncePerExcursion
