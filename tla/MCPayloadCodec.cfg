CONSTANTS
  ByteBase = 8
  Undefined = Undefined
  Numbers <- MCNumbers
  Texts <- MCTexts
SPECIFICATION CodecSpec
CHECK_DEADLOCK FALSE
INVARIANTS InStep RoundTrip LegacyReads
