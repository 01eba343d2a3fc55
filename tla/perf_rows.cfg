SPECIFICATION Spec
CONSTANTS
  BuffSize = 3
  Word = 256
  Groups <- MCGroups
  MaxSample = 7
CHECK_DEADLOCK FALSE
INVARIANTS
  TypeOK
  Armed
  RingOrder
  LastKept
  RowTogether
  LabelsTrue
