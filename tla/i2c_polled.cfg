SPECIFICATION LiveSpec
CONSTANTS
  Depth = 2
  Polls = 2
  Tries = 2
  Lens <- MCLens
  AddrLens <- MCAddrLens
  Interrupted = FALSE
INVARIANTS
  TypeOK
  OwnBytes
  OneCallPerTransfer
  CleanSuccess
PROPERTIES
  CallsEnd
  Recovers
