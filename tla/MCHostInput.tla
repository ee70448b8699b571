----------------------------- MODULE MCHostInput -----------------------------
(* HostInput with two buttons: punch on a key and on the A button of two    *)
(* pads, kick on a key; P pauses, N steps a frame, Escape quits.            *)
EXTENDS HostInput

CONSTANTS Z, PadA1, PadA2, X, P, N, Escape, Punch, Kick

MCHotkey ==
  [s \in Source |-> CASE s = P -> "pause" [] s = N -> "step"
                      [] s = Escape -> "quit" [] OTHER -> "none"]

MCDefaults ==
  [s \in Source |-> CASE s \in {Z, PadA1, PadA2} -> {Punch} [] s = X -> {Kick}
                      [] OTHER -> {}]
==============================================================================
