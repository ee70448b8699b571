-------------------------- MODULE MCSoundQueueMenu ---------------------------
(* SoundQueueMenu at the ring's real size, with the words the bridge stores. *)
EXTENDS SoundQueueMenu

MCByte == 0 .. 255

W(b2, b1, b0) == [i \in 0 .. 2 |-> CASE i = 2 -> b2 [] i = 1 -> b1 [] i = 0 -> b0]

MCBootWord == W(174, 16, 31)                     \* 0x00ae101f
MCZeroWord == W(0, 0, 0)
Punch      == <<W(173, 16, 1)>>                  \* 0x00ad1001
Stop       == <<W(142, 41, 80), W(142, 46, 127), W(141, 34, 80),
                W(137, 30, 50), W(174, 16, 31)>>
MCMenuWords == {Punch, Stop}
MCWord == {MCBootWord} \cup {Punch[1]} \cup {Stop[i] : i \in DOMAIN Stop}
==============================================================================
