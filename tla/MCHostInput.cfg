CONSTANTS
  Z = Z
  PadA1 = PadA1
  PadA2 = PadA2
  X = X
  P = P
  N = N
  Escape = Escape
  Punch = Punch
  Kick = Kick
  Source = {Z, PadA1, PadA2, X, P, N, Escape}
  Button = {Punch, Kick}
  bindings <- MCDefaults
  hotkey <- MCHotkey
  MaxEvents = 2
SPECIFICATION InputSpec
INVARIANT PressedWhileHeld
CHECK_DEADLOCK FALSE
