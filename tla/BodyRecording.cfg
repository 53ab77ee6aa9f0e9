SPECIFICATION RecSpec
CONSTANTS
  digit = digit
  letter = letter
  Byte <- MCByte
  Chunk <- MCChunk
  JsonText <- MCJson
  Cap = 3
  MaxForwarded = 6
INVARIANTS
  RecTypeOK
  CaptureInv
  TerminalIsReported
  ClassifiedAsWhole
  SampleIsAllForwarded
PROPERTIES
  ImplementsTap
  RecordedOnce
