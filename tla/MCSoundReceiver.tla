--------------------------- MODULE MCSoundReceiver ---------------------------
(* Every sequence of up to MaxBytes bytes from Sample, against a definition *)
(* of the framing that looks at the whole sequence at once.                 *)
EXTENDS SoundReceiver, Sequences, FiniteSets

CONSTANTS
  Sample,     (* representative bytes                                        *)
  MaxBytes    (* length of the longest sequence                              *)

ASSUME SampleAssumption == Sample \subseteq 0 .. 255 /\ MaxBytes \in Nat

VARIABLES
  heard,      (* the bytes accepted so far that are not ignored              *)
  filed       (* the entries filed so far                                    *)

vars == <<staging, filing, heard, filed>>

Init == ReceiverInit /\ heard = << >> /\ filed = << >>

Hear(b) ==
  /\ Len(heard) < MaxBytes
  /\ Receive(b)
  /\ heard' = IF b < System THEN Append(heard, b) ELSE heard
  /\ filed' = IF wr' = wr THEN filed ELSE Append(filed, ring'[wr])

Next == \E b \in Sample : Hear(b)

Spec == Init /\ [][Next]_vars

-----------------------------------------------------------------------------
(* Position of the command in force at position i, 0 if there is none. *)
CommandAt(i) ==
  LET at == {j \in 1 .. i : IsCommand(heard[j])}
  IN  IF at = {} THEN 0 ELSE CHOOSE j \in at : \A k \in at : k <= j

(* The data byte at i completes an entry: with a command in force, it is a *)
(* multiple of the command's length away from it; with none, the counters  *)
(* start from zero and come round after ByteMod bytes.                     *)
Completes(i) ==
  LET c == CommandAt(i)
  IN  /\ i # c
      /\ IF c = 0 THEN i % ByteMod = 0 ELSE (i - c) % Length(heard[c]) = 0

Framed(i) ==
  LET c == CommandAt(i)
  IN  IF c # 0 /\ Length(heard[c]) = 1
        THEN <<heard[c], heard[i]>>
        ELSE <<IF c = 0 THEN 0 ELSE heard[c], heard[i - 1], heard[i]>>

Ends == {i \in 1 .. Len(heard) : Completes(i)}

(* The receiver files exactly the entries the byte sequence spells, in     *)
(* order and each under the command in force, however commands cut pairs   *)
(* short and ignored bytes fall between them.                              *)
FiledAsFramed ==
  /\ Len(filed) = Cardinality(Ends)
  /\ \A i \in Ends :
       LET e == filed[Cardinality({k \in Ends : k <= i})]
           f == Framed(i)
       IN  e.cmd = f[1] /\ e.arg = f[2] /\ (Len(f) = 3 => e.val = f[3])

(* Cursor and count agree with the number of entries, through the wrap of  *)
(* each.                                                                   *)
CursorCounts ==
  /\ wr = Len(filed) % RingSlots
  /\ cnt = Len(filed) % CountMod

TypeOK == ReceiverTypeOK
=============================================================================
