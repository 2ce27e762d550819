SPECIFICATION Spec
CONSTANTS
  MaxShort = 4
  MaxLong = 6
  KindLines <- SomeLines
INVARIANTS TypeOK ParsedAsWritten OnlyDroppedLost ChainsAreExecutable
