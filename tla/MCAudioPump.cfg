CONSTANTS
  ByteMod = 4
  CountMod = 6
  RingSlots = 12
  Word <- MCAllWords
  BootWord <- MCBootWord
  Capacity = 2
  NoByte = NoByte
  TickCap = 5
  Matching = {0, 1, 2}
  LongStream = 3
  MaxWords = 3
SPECIFICATION FairSpec
INVARIANTS
  TypeOK
  OneStepPerEntry
  CountAccounts
PROPERTIES
  PathSpec
  EveryWordLeaves
