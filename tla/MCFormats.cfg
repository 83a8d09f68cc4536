CONSTANTS
  LimbBase = 8
  Limbs = 3
  Radix = 5
  Digits = 4
  ByteSpan = 7
  Samples <- MCSamples
  HeadChars = 2
  Byte = 2
  TsBytes = 2
  PayloadBytes = 2
  HeadBytes = 3
  Epoch = 5
  IntMax = 15
  Uuids <- MCUuids
  Quads <- MCQuads
  Strings <- MCStrings
  UuidByte = 8
  VerSpan = 2
  VarSpan = 2
  MsBytes = 2
  RandBytes = 2
  Version = 1
  Variant = 1
  Times <- MCTimes
  Words <- MCWords
  Tails <- MCTails
  UuidImages <- MCImages
SPECIFICATION Spec
INVARIANTS
  EncodeExact
  DecodeExact
  TranslatesExactly
  ConstructsExactly
  EncodersAgree
  ParseExact
  ReadsBack
PROPERTIES
  ComparesByTime
  ComparesByParts
