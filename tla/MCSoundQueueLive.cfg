CONSTANTS
  Byte <- MCByte
  Word <- MCWord
  BootWord <- MCBootWord
  ZeroWord <- MCZeroWord
  NoByte = NoByte
  RingSize = 2
  TickCap = 4
  ByteCap = 8
SPECIFICATION FairSpec
PROPERTIES
  FifoSpec
  OldestLeaves
