CONSTANTS
  Byte <- MCByte
  Word <- MCWord
  BootWord <- MCBootWord
  ZeroWord <- MCZeroWord
  NoByte = NoByte
  RingSize = 16
  TickCap = 80
  ByteCap = 64
  MenuSlot = 3
  MenuWords <- MCMenuWords
SPECIFICATION MenuSpec
INVARIANT LiveFiledOnly
