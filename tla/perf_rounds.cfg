SPECIFICATION PerfLiveSpec
CONSTANTS
  MaxChan = 2
  BlockMax = 2
  Lengths <- OneLength
  PromptEngine = TRUE
  BusErrors = TRUE
  ReinitBusy = TRUE
  PerfLen = 3
  Tests = 1
  ResetMayFail = TRUE
CHECK_DEADLOCK FALSE
INVARIANTS
  PerfTypeOK
  RoundComplete
  ReadyToRun
PROPERTY RoundsRecur
