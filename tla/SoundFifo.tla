------------------------------ MODULE SoundFifo ------------------------------
(***************************************************************************)
(* What the i960 sound queue promises the sound board: a bounded FIFO of   *)
(* command words.  A word offered to the queue is accepted whole or not at *)
(* all; accepted words leave in order, each one as its three low bytes,    *)
(* most significant first, and no word is interrupted by another.          *)
(***************************************************************************)
EXTENDS Naturals, Sequences

CONSTANTS
  Word,       (* the command words; w[2], w[1], w[0] are the bytes sent      *)
  BootWord,   (* the word the boot path leaves queued (0x00ae101f)           *)
  Capacity,   (* words the queue holds (16)                                  *)
  Idle        (* what the line shows before the first byte is sent           *)

VARIABLES
  queue,      (* the accepted words no byte of which has been sent           *)
  current,    (* the bytes still to be sent of the word in service           *)
  line        (* the last byte put on the line                               *)

vars == <<queue, current, line>>

(* The bytes of a word in the order the line carries them. *)
Bytes(w) == <<w[2], w[1], w[0]>>

Init ==
  /\ queue = <<BootWord>>
  /\ current = << >>
  /\ line = Idle

Accept(w) ==
  /\ Len(queue) < Capacity
  /\ queue' = Append(queue, w)
  /\ UNCHANGED <<current, line>>

(* The next byte of the word in service. *)
Continue ==
  /\ current # << >>
  /\ line' = Head(current)
  /\ current' = Tail(current)
  /\ UNCHANGED queue

(* The first byte of the oldest waiting word. *)
Start ==
  /\ current = << >>
  /\ queue # << >>
  /\ queue' = Tail(queue)
  /\ line' = Head(Bytes(Head(queue)))
  /\ current' = Tail(Bytes(Head(queue)))

Transmit == Continue \/ Start

Next == Transmit \/ \E w \in Word : Accept(w)

Spec == Init /\ [][Next]_vars
=============================================================================
