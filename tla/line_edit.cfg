SPECIFICATION Spec
CONSTANTS
  Size = 3
  Margin = 1
  Chars <- MCChars
  Recalled <- MCRecalled
  Completed <- MCCompleted
INVARIANTS
  TypeOK
  StringIsLine
PROPERTY Refines
