---------------------------- MODULE MCSoundQueue -----------------------------
(* SoundQueue with three words: the boot word, a 0x9e word and the 0x9c     *)
(* word the remap gate turns it into.                                       *)
EXTENDS SoundQueue

MCByte == {174, 156, 158, 16, 31, 10, 127, 0}

W(b2, b1, b0) == [i \in 0 .. 2 |-> CASE i = 2 -> b2 [] i = 1 -> b1 [] i = 0 -> b0]

MCBootWord == W(174, 16, 31)
MCWord     == {MCBootWord, W(158, 10, 127), W(156, 10, 127)}
MCZeroWord == W(0, 0, 0)
==============================================================================
