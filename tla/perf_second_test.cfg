SPECIFICATION PerfLiveSpec
CONSTANTS
  MaxChan = 2
  BlockMax = 2
  Lengths <- OneLength
  PromptEngine = TRUE
  BusErrors = FALSE
  ReinitBusy = TRUE
  PerfLen = 3
  Tests = 2
  ResetMayFail = FALSE
CHECK_DEADLOCK FALSE
PROPERTY RoundsRecur
