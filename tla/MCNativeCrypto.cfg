CONSTANTS
  Bytes <- MCBytes
  MaxLen = 4
  IntBits = 2
  I32Args <- MCI32Args

SPECIFICATION Spec

INVARIANTS
  NativeArgContract
  CTECorrect
