SPECIFICATION Spec
CONSTANTS
  VoltSeries <- MC_VoltSeries
  CurrSeries <- MC_CurrSeries
  TableSize = 4
  Offset <- MC_Offset
  UserRates <- MC_Rates
  UserFilters <- MC_Filters
  Careful = TRUE
INVARIANT TableMeasured
