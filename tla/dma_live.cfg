SPECIFICATION LiveSpec
CONSTANTS
  MaxChan = 2
  BlockMax = 2
  Lengths <- TwoLengths
  PromptEngine = TRUE
  BusErrors = FALSE
  ReinitBusy = FALSE
CHECK_DEADLOCK FALSE
INVARIANT NoOrphan
PROPERTIES
  Completes
  HandlerEnds
