CONSTANTS
  Byte <- MCByte
  Word <- MCWord
  BootWord <- MCBootWord
  ZeroWord <- MCZeroWord
  NoByte = NoByte
  RingSize = 3
  TickCap = 12
  ByteCap = 11
SPECIFICATION Spec
INVARIANTS
  TypeOK
  RingShape
  NoStrandedWork
  ServiceOutsideWindow
  ServiceFitsCaps
PROPERTY FifoSpec
