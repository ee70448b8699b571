CONSTANTS
  ByteMod = 5
  CountMod = 2
  RingSlots = 3
  Sample = {16, 127, 158, 197, 225, 248}
  MaxBytes = 6
SPECIFICATION Spec
INVARIANTS
  TypeOK
  FiledAsFramed
  CursorCounts
CHECK_DEADLOCK FALSE
