SPECIFICATION Spec
CONSTANTS
  MaxChan = 2
  BlockMax = 2
  Lengths <- DriverLengths
  PromptEngine = FALSE
  BusErrors = TRUE
  ReinitBusy = TRUE
CHECK_DEADLOCK FALSE
INVARIANTS
  TypeOK
  BlockInPlace
  WholeLength
  FreeMeansOff
PROPERTIES
  FetchUndisturbed
  Refines
