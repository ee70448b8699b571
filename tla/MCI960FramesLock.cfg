CONSTANTS
  Addr = {main, handler}
  Start = main
  NoAddr = NoAddr
  Locals = {zero}
  Zero = zero
  Compared = {"equal", "less"}
  Latched = {}
  Carried = {}
  Size = {3}
  InterruptStack = 0
  MaxFrames = 3
  StackLimit = 16
SPECIFICATION Spec
INVARIANT LockStep
