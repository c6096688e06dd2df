SPECIFICATION FairSpec
CONSTANTS
  VoltSeries <- MC_VoltSeries
  CurrSeries <- MC_CurrSeries
  TableSize = 4
  Offset <- MC_Offset
  UserRates <- MC_Rates
  UserFilters <- MC_Filters
  Careful = TRUE
INVARIANTS
  TypeOK
  LaterPointsMeasured
  NullsSurvive
  GivesBack
  RawWhileCalibrating
PROPERTY CalibrationsEnd
