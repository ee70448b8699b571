----------------------------- MODULE FrameBuffer -----------------------------
(***************************************************************************)
(* What the host's audio ring promises: frames are played in the order     *)
(* they were rendered.  A batch that does not fit loses its newest frames, *)
(* a request the ring cannot meet is met with what there is and then       *)
(* silence (include/vf2/host.h:60).                                        *)
(***************************************************************************)
EXTENDS Naturals, Sequences

CONSTANTS
  Batch,      (* the sequences of frames the renderer pushes                 *)
  Silence,    (* the frame of zeros                                          *)
  Capacity,   (* frames the ring holds (a quarter second)                    *)
  Largest     (* the most frames taken at once (2048)                        *)

VARIABLES
  queue,      (* frames accepted and not yet taken                           *)
  hand,       (* frames taken and not yet put on the stream                  *)
  played      (* the frames last put on the stream                           *)

vars == <<queue, hand, played>>

Least(a, b) == IF a <= b THEN a ELSE b

Hush(n) == [i \in 1 .. n |-> Silence]

Init == queue = << >> /\ hand = << >> /\ played = << >>

Push(batch) ==
  /\ queue' = queue \o SubSeq(batch, 1, Least(Len(batch), Capacity - Len(queue)))
  /\ UNCHANGED <<hand, played>>

Pull(k) ==
  LET n == Least(k, Len(queue)) IN
  /\ hand = << >>
  /\ hand' = SubSeq(queue, 1, n) \o Hush(k - n)
  /\ queue' = SubSeq(queue, n + 1, Len(queue))
  /\ UNCHANGED played

Play ==
  /\ hand # << >>
  /\ played' = hand
  /\ hand' = << >>
  /\ UNCHANGED queue

Next ==
  \/ \E batch \in Batch : Push(batch)
  \/ \E k \in 1 .. Largest : Pull(k)
  \/ Play

Spec == Init /\ [][Next]_vars
=============================================================================
