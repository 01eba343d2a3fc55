SPECIFICATION LoopSpec
CONSTANTS
  HistMax = 4
  Lines <- MCLines
  NoLine <- MCNoLine
  Others <- MCOthers
  Chars <- MCChars
  CbSize = 10
  MaxArgs = 2
  Table <- MCTable
  Meanings <- MCMeanings
INVARIANTS
  LoopTypeOK
  Understood
PROPERTIES
  Refines
  RepeatsNewest
