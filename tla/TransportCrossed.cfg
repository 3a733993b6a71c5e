CONSTANTS
  Client = Client
  Server = Server
  RotateAt = 4
  HkdfYields = FALSE
  Overlap = 1
  MaxSend <- MaxSendShort
  Modes = {"overlap"}
SPECIFICATION SpecAny
CHECK_DEADLOCK FALSE
INVARIANT DecryptsEveryMessage
