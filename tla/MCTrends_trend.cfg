CONSTANTS
  Values        = {1, 2}
  FullScale     = 2
  FirstLimit    = 2
  MaxPrelim     = 3
  TrendPoints   = 2
  MaxLogAddress = 4
  Window        = 3
  FrameWrites   = 2
  MaxWritten    = 11
  SliderValues  <- MCSliderValues
SPECIFICATION Spec
INVARIANTS TypeOK ExtentCoversGraph ClearForgets LineIsHistory AxisFitsLine
