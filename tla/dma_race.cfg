SPECIFICATION LiveSpec
CONSTANTS
  MaxChan = 1
  BlockMax = 2
  Lengths <- OneLength
  PromptEngine = FALSE
  BusErrors = FALSE
  ReinitBusy = FALSE
CHECK_DEADLOCK FALSE
PROPERTY EndReported
