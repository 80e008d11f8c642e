CONSTANTS
  ByteBits = 3
  Wide = 2
  Long = 3
  Poly = 48
  Magic <- MCMagic
  MaxPort = 12
  MaxFrame = 4
  Chunk = 2
  Samples <- MCSamples
  Texts <- MCTexts
SPECIFICATION Spec
INVARIANTS DecodesExactly  ScanCanonical RequestMeaning AddressMeaning InOrder RefusedOnlyLong
PROPERTY AllArrive
CHECK_DEADLOCK FALSE
