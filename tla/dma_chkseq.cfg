SPECIFICATION Spec
CONSTANTS
  MaxChan = 1
  BlockMax = 1
  Lengths <- SeqLengths
  PromptEngine = TRUE
  BusErrors = FALSE
  ReinitBusy = FALSE
CHECK_DEADLOCK FALSE
INVARIANT ChkSeq
