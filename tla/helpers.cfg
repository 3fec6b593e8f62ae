CONSTANTS
  ClientBits = 3
  BufferBits = 2
  UniqBits = 3
  ReservedIds = {1}
  INIT_REQUEST = {0}
  POLL_EVENT = {1}
  SEND_EVENT = {0, 1}
  BUFFER_REGISTER_CODE = {0, 1, 3}
  CODE_ACCEPT = {1, 3}
  Width = 3
  MaxLen = 8
  BufSize = 4
  Assumed = 3
  Junk = Junk
SPECIFICATION MCSpec
INVARIANTS
  TagSurvives
  AccessesInBounds
  TrimUndoesShift
  HelpersCompute
PROPERTIES
  HelpersReturn
