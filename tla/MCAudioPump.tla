----------------------------- MODULE MCAudioPump -----------------------------
(* AudioPump with words of each sort the recovered game files.              *)
EXTENDS AudioPump

W(b2, b1, b0) == [i \in 0 .. 2 |-> CASE i = 2 -> b2 [] i = 1 -> b1 [] i = 0 -> b0]

MCBootWord == W(174, 16, 31)                     \* 0x00ae101f
Voice      == W(158, 10, 127)                    \* 0x009e0a7f
Short      == W(173, 35, 31)                     \* 0x00ad231f
Long       == W(173, 33, 0)                      \* 0x00ad2100
Music      == W(173, 16, 1)                      \* 0x00ad1001
Beat       == W(190, 16, 2)                      \* 0x00be1002
Broken     == W(158, 255, 16)                    \* carries the reboot byte

MCAllWords   == {MCBootWord, Voice, Short, Long, Music, Beat, Broken}
==============================================================================
