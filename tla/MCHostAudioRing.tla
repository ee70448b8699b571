--------------------------- MODULE MCHostAudioRing ---------------------------
(* HostAudioRing with batches that fit the ring and one that never does.  *)
EXTENDS HostAudioRing

CONSTANTS F1, F2

MCBatch == {<<F1>>, <<F1, F2>>, <<F2, F2, F1, F2>>}
==============================================================================
