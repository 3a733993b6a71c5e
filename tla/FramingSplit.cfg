CONSTANTS
  TagLen = 2
  LenLen = 1
  Sizes <- SizesSmall
  MaxFrames = 2
  Chunkings = {"any"}
SPECIFICATION Spec
CHECK_DEADLOCK FALSE
PROPERTY NextEventDelivers
