---------------------------- MODULE SoundReceiver ----------------------------
(***************************************************************************)
(* The sound board's L3 receiver (ROM 0x526): bytes off the UART are       *)
(* assembled into four-byte entries of the command ring.  A byte with bit  *)
(* 7 set is a command and names how many data bytes follow; the last of    *)
(* them files an entry.  The command stays staged, so further data bytes   *)
(* file further entries of the same command (running status).              *)
(*                                                                         *)
(* The $1526 port pattern, rotated at each filing and read by nothing, is  *)
(* left out, and so is the fourth byte of an entry, which no path writes.  *)
(***************************************************************************)
EXTENDS Integers

CONSTANTS
  ByteMod,    (* the staging counters are bytes (256)                        *)
  CountMod,   (* so is the entry count (256)                                 *)
  RingSlots   (* entries of the command ring (1024)                          *)

ASSUME ReceiverAssumption ==
  /\ ByteMod \in Nat \ {0, 1, 2}
  /\ CountMod \in Nat \ {0, 1}
  /\ RingSlots \in Nat \ {0, 1}

VARIABLES
  cmd,        (* $1500, the command in force                                 *)
  arg,        (* $1501, the first data byte of a pair                        *)
  need,       (* $1502, data bytes the command takes                         *)
  left,       (* $1503, data bytes to come, 0: start over from need          *)
  ring,       (* 0x1000, the command ring                                    *)
  wr,         (* $1504 / 4, the write cursor                                 *)
  cnt         (* $1506, the entry count                                      *)

staging == <<cmd, arg, need, left>>
filing  == <<ring, wr, cnt>>

Cell  == 0 .. RingSlots - 1
Entry == [cmd : 0 .. 255, arg : 0 .. 255, val : 0 .. 255]
Blank == [cmd |-> 0, arg |-> 0, val |-> 0]

ReceiverTypeOK ==
  /\ cmd \in 0 .. 255 /\ arg \in 0 .. 255
  /\ need \in 0 .. 2
  /\ left \in 0 .. ByteMod - 1
  /\ ring \in [Cell -> Entry]
  /\ wr \in Cell
  /\ cnt \in 0 .. CountMod - 1

ReceiverInit ==
  /\ cmd = 0 /\ arg = 0 /\ need = 0 /\ left = 0
  /\ ring = [c \in Cell |-> Blank]
  /\ wr = 0
  /\ cnt = 0

-----------------------------------------------------------------------------
Reboot  == 255                 \* refused: the sound CPU's reboot door
System  == 240                 \* from here on ignored

IsCommand(b) == b >= 128
Length(b)    == IF b \in 192 .. 223 THEN 1 ELSE 2

NextCell(c) == (c + 1) % RingSlots

(* A cursor that moves without the count. *)
FileEntryUncounted(e) ==
  /\ ring' = [ring EXCEPT ![wr] = e]
  /\ wr' = NextCell(wr)
  /\ UNCHANGED cnt

(* Room in the ring is not looked at. *)
FileEntry(e) ==
  /\ ring' = [ring EXCEPT ![wr] = e]
  /\ wr' = NextCell(wr)
  /\ cnt' = (cnt + 1) % CountMod

(* The byte copy leaves the third byte of the slot as it was. *)
Assembled(b) ==
  IF need = 1 THEN [ring[wr] EXCEPT !.cmd = cmd, !.arg = b]
              ELSE [cmd |-> cmd, arg |-> arg, val |-> b]

Ignore(b) ==
  /\ b >= System /\ b # Reboot
  /\ UNCHANGED <<staging, filing>>

(* A command that lets the pair before it finish. *)
CommandKeepsLeft(b) ==
  /\ IsCommand(b) /\ b < System
  /\ cmd' = b
  /\ need' = Length(b)
  /\ UNCHANGED <<arg, left, filing>>

Command(b) ==
  /\ IsCommand(b) /\ b < System
  /\ cmd' = b
  /\ need' = Length(b)
  /\ left' = Length(b)
  /\ UNCHANGED <<arg, filing>>

(* A countdown that is not a byte. *)
DataUnwrapped(b) ==
  LET select == IF left = 0 THEN need ELSE left IN
  /\ ~IsCommand(b)
  /\ left' = select - 1
  /\ IF select = 1
       THEN FileEntry(Assembled(b)) /\ UNCHANGED arg
       ELSE arg' = b /\ UNCHANGED filing
  /\ UNCHANGED <<cmd, need>>

Data(b) ==
  LET select == IF left = 0 THEN need ELSE left IN
  /\ ~IsCommand(b)
  /\ left' = (select - 1) % ByteMod
  /\ IF select = 1
       THEN FileEntry(Assembled(b)) /\ UNCHANGED arg
       ELSE arg' = b /\ UNCHANGED filing
  /\ UNCHANGED <<cmd, need>>

(* vf2_sound_board_file_uart_byte returning VF2_OK. *)
Receive(b) == Ignore(b) \/ Command(b) \/ Data(b)
=============================================================================
