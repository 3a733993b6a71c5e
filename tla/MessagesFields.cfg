CONSTANTS
  Conns = {c1, c2}
  Size = 3
  MaxPiece = 6
  MaxBytes = 6
  Sizes <- SizesOfFields
  Cuts <- CutsOfPayload
  Rotate = 1000
  LastMessage = 1001
SPECIFICATION SpecAny
CHECK_DEADLOCK FALSE
INVARIANT FieldsRight
