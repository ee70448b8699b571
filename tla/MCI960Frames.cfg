CONSTANTS
  Addr = {main, handler}
  Start = main
  NoAddr = NoAddr
  Locals = {zero}
  Zero = zero
  Compared = {"equal"}
  Latched = {"equal"}
  Carried = {0}
  Size = {2}
  InterruptStack = 0
  MaxFrames = 3
  StackLimit = 20
SPECIFICATION Spec
INVARIANTS
  TypeOK
  RecordsApart
PROPERTY StackSpec
