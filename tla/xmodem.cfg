SPECIFICATION LiveSpec
CONSTANTS
  Packets = 7
  Upto <- MCUpto
  Capacity = 6
  Numbers = 6
  Retries = 2
  MaxRetrans = 2
  LineMax = 3
  Unseen = 2
  Passes = 1
  Bodies <- MCBodies
INVARIANTS
  Whole
PROPERTIES
  Refines
  Ends
CHECK_DEADLOCK FALSE
