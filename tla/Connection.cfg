SPECIFICATION SpecAll
CONSTANTS
  Client = Client
  Server = Server
  RotateAt = 4
  HkdfYields = FALSE
  Overlap = 2
  MaxSend <- MaxSendBoth
  Modes = {"overlap", "yield", "odd"}
  TagLen = 2
  LenLen = 1
  Sizes <- SizesSmall
  MaxFrames = 3
  Chunkings = {"any", "frames", "parts"}
  MaxReplies = 3
  MaxPings = 2
  MaxInbound = 2
CHECK_DEADLOCK FALSE
INVARIANT TypeOK
INVARIANT NonceUnique
INVARIANT DeliveredInOrder
INVARIANT LossMeansCrossed
PROPERTY ImplementsSecureChannel
PROPERTY MessagesArrive
INVARIANT NeverOutOfOrder
INVARIANT CarriedLengthIsCurrent
INVARIANT OneFramePerEvent
INVARIANT CompleteFramesDelivered
PROPERTY EveryFrameDelivered
INVARIANT KeyAgreement
INVARIANT InitFirst
INVARIANT NoHandshakeAfterForgery
INVARIANT PongPerPing
PROPERTY HandshakeCompletes
