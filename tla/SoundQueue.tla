------------------------------ MODULE SoundQueue -----------------------------
(***************************************************************************)
(* The i960 sound-command queue in work RAM: the game files command words  *)
(* into a ring (filer 0x43888), and the sound-drain interrupt (vector 15,  *)
(* drainer 0x43800) sends one byte per service to the UART.                *)
(*                                                                         *)
(* Two actors share the cells.  The filer runs on the main program and may *)
(* be stopped between any two of its stores (the oracle stops at an        *)
(* arbitrary address); the drainer runs when a caller services the armed   *)
(* line, or when the audio pump calls it on a shadow CPU at a frame        *)
(* boundary.  The only protection is the enable register: the filer holds  *)
(* the sound line masked (0x21) while the cells disagree and re-arms it    *)
(* (0x421) on its way out.                                                 *)
(*                                                                         *)
(* Byte 3 of a word is never sent and is left out.  The byte-index cell    *)
(* holds 0xff (signed -1) between words.                                   *)
(***************************************************************************)
EXTENDS Integers, Sequences

CONSTANTS
  Byte,       (* byte values                                                 *)
  Word,       (* the words the game files: functions from 0..2 to Byte       *)
  BootWord,   (* 0x00ae101f, filed by the boot path and never gated          *)
  ZeroWord,   (* a ring slot, or the staged word, before its first use       *)
  NoByte,     (* the UART data slot before the first byte                    *)
  RingSize,   (* entries of the ring (16)                                    *)
  TickCap,    (* ticks of one service call (80)                              *)
  ByteCap     (* bytes one service call can report (64)                      *)

(* Path F of the filer rewrites byte 2 of a 0x9e word to 0x9c. *)
Remapped(w) == IF w[2] = 158 THEN [w EXCEPT ![2] = 156] ELSE w

ASSUME WordAssumption ==
  /\ Word \subseteq [0 .. 2 -> Byte]
  /\ BootWord \in Word
  /\ ZeroWord \in [0 .. 2 -> Byte]
  /\ \A w \in Word : Remapped(w) \in Word

ASSUME SizeAssumption ==
  /\ RingSize \in Nat \ {0}
  /\ TickCap \in Nat \ {0}
  /\ ByteCap \in Nat

VARIABLES
  count,      (* 0x504001, entries in the ring                               *)
  rcur,       (* 0x504002, read cursor                                       *)
  wcur,       (* 0x504003, write cursor                                      *)
  ring,       (* 0x504020, stride 4                                          *)
  staged,     (* 0x504010, the word in service                               *)
  idx,        (* 0x504014, byte of the staged word to send next, -1 if none  *)
  armed,      (* bit 10 of the enable register 0xe80004                      *)
  uart,       (* 0x01c80000, the last byte stored                            *)
  pc,         (* where the filer stands                                      *)
  word,       (* g0 of the filer                                             *)
  serving,    (* a caller is inside vf2_session_service_sound_drain           *)
  ticks,      (* report->ticks                                               *)
  moved       (* report->bytes_moved                                         *)

cells  == <<count, rcur, wcur, ring, staged, idx>>
filer  == <<pc, word>>
report == <<serving, ticks, moved>>
vars   == <<cells, armed, uart, filer, report>>

Slot == 0 .. RingSize - 1
PC   == {"idle", "masked", "counted", "stored", "leaving"}

Succ(i) == (i + 1) % RingSize

(* Entries whose slot and cursor are both written. *)
Queued == IF pc \in {"counted", "stored"} THEN count - 1 ELSE count

TypeOK ==
  /\ count \in 0 .. RingSize
  /\ rcur \in Slot
  /\ wcur \in Slot
  /\ ring \in [Slot -> Word \cup {ZeroWord}]
  /\ staged \in Word \cup {ZeroWord}
  /\ idx \in -1 .. 1
  /\ armed \in BOOLEAN
  /\ uart \in Byte \cup {NoByte}
  /\ pc \in PC
  /\ word \in Word
  /\ serving \in BOOLEAN
  /\ ticks \in 0 .. TickCap
  /\ moved \in 0 .. ByteCap

(* The boot path clears the cells and files BootWord in the first slot. *)
Init ==
  /\ count = 1
  /\ rcur = 0
  /\ wcur = 1 % RingSize
  /\ ring = [s \in Slot |-> IF s = 0 THEN BootWord ELSE ZeroWord]
  /\ staged = ZeroWord
  /\ idx = -1
  /\ armed = TRUE
  /\ uart = NoByte
  /\ pc = "idle"
  /\ word = BootWord
  /\ serving = FALSE
  /\ ticks = 0
  /\ moved = 0

-----------------------------------------------------------------------------
(* The filer 0x43888.  gate.low: (0x50002c & 0xc) # 0; gate.quiet: the     *)
(* player record's bit 0 at +0x3351; gate.remap: bit 20 of 0x500068.  A    *)
(* muted word returns before it touches a cell.                            *)

Gate == [low : BOOLEAN, quiet : BOOLEAN, remap : BOOLEAN]

Muted(w, gate) == w # BootWord /\ gate.low /\ gate.quiet

Filed(w, gate) ==
  IF w # BootWord /\ gate.low /\ gate.remap THEN Remapped(w) ELSE w

(* A filer that does not mask the line. *)
FilerEnterUnmasked(w, gate) ==
  /\ pc = "idle" /\ ~serving
  /\ ~Muted(w, gate)
  /\ word' = Filed(w, gate)
  /\ pc' = "masked"
  /\ UNCHANGED <<cells, armed, uart, report>>

FilerEnter(w, gate) ==
  /\ pc = "idle" /\ ~serving
  /\ ~Muted(w, gate)
  /\ word' = Filed(w, gate)
  /\ armed' = FALSE
  /\ pc' = "masked"
  /\ UNCHANGED <<cells, uart, report>>

(* A full-ring test off by one. *)
FilerCountOffByOne ==
  /\ pc = "masked" /\ ~serving
  /\ IF count <= RingSize
       THEN count' = count + 1 /\ pc' = "counted"
       ELSE pc' = "leaving" /\ UNCHANGED count
  /\ UNCHANGED <<rcur, wcur, ring, staged, idx, armed, uart, word, report>>

(* A full ring that returns past the tail. *)
FilerCountNoTail ==
  /\ pc = "masked" /\ ~serving
  /\ IF count < RingSize
       THEN count' = count + 1 /\ pc' = "counted"
       ELSE pc' = "idle" /\ UNCHANGED count
  /\ UNCHANGED <<rcur, wcur, ring, staged, idx, armed, uart, word, report>>

(* A full ring drops the word: straight to the tail that re-arms. *)
FilerCount ==
  /\ pc = "masked" /\ ~serving
  /\ IF count < RingSize
       THEN count' = count + 1 /\ pc' = "counted"
       ELSE pc' = "leaving" /\ UNCHANGED count
  /\ UNCHANGED <<rcur, wcur, ring, staged, idx, armed, uart, word, report>>

FilerStore ==
  /\ pc = "counted" /\ ~serving
  /\ ring' = [ring EXCEPT ![wcur] = word]
  /\ pc' = "stored"
  /\ UNCHANGED <<count, rcur, wcur, staged, idx, armed, uart, word, report>>

FilerAdvance ==
  /\ pc = "stored" /\ ~serving
  /\ wcur' = Succ(wcur)
  /\ pc' = "leaving"
  /\ UNCHANGED <<count, rcur, ring, staged, idx, armed, uart, word, report>>

FilerLeave ==
  /\ pc = "leaving" /\ ~serving
  /\ armed' = TRUE
  /\ pc' = "idle"
  /\ UNCHANGED <<cells, uart, word, report>>

FilerStep == FilerCount \/ FilerStore \/ FilerAdvance \/ FilerLeave

-----------------------------------------------------------------------------
(* The drainer 0x43800: load the oldest entry when no byte is left of the  *)
(* staged word, then send byte idx.                                        *)

Pending == count > 0 \/ idx >= 0

(* A load that leaves the count alone. *)
SendByteKeepsCount ==
  \/ /\ idx >= 0
     /\ uart' = staged[idx]
     /\ idx' = idx - 1
     /\ UNCHANGED <<count, rcur, wcur, ring, staged>>
  \/ /\ idx < 0 /\ count > 0
     /\ staged' = ring[rcur]
     /\ rcur' = Succ(rcur)
     /\ uart' = ring[rcur][2]
     /\ idx' = 1
     /\ UNCHANGED <<count, wcur, ring>>

(* A load that starts the byte index one low. *)
SendByteShort ==
  \/ /\ idx >= 0
     /\ uart' = staged[idx]
     /\ idx' = idx - 1
     /\ UNCHANGED <<count, rcur, wcur, ring, staged>>
  \/ /\ idx < 0 /\ count > 0
     /\ count' = count - 1
     /\ staged' = ring[rcur]
     /\ rcur' = Succ(rcur)
     /\ uart' = ring[rcur][2]
     /\ idx' = 0
     /\ UNCHANGED <<wcur, ring>>

SendByte ==
  \/ /\ idx >= 0
     /\ uart' = staged[idx]
     /\ idx' = idx - 1
     /\ UNCHANGED <<count, rcur, wcur, ring, staged>>
  \/ /\ idx < 0 /\ count > 0
     /\ count' = count - 1
     /\ staged' = ring[rcur]
     /\ rcur' = Succ(rcur)
     /\ uart' = ring[rcur][2]
     /\ idx' = 1
     /\ UNCHANGED <<wcur, ring>>

(* A pump that looks at the count alone. *)
PumpTickCountOnly ==
  /\ pc = "idle" /\ ~serving
  /\ count > 0
  /\ SendByte
  /\ armed' = TRUE
  /\ UNCHANGED <<filer, report>>

(* One drain tick of the audio pump: no mask is consulted, the loop        *)
(* condition is Pending, and the pump runs between frames, when the main   *)
(* program is not inside the filer.                                        *)
PumpTick ==
  /\ pc = "idle" /\ ~serving
  /\ SendByte
  /\ armed' = TRUE
  /\ UNCHANGED <<filer, report>>

(* A report carried over from the call before. *)
ServiceCallKeepsReport ==
  /\ ~serving /\ armed
  /\ serving' = TRUE
  /\ UNCHANGED <<cells, armed, uart, filer, ticks, moved>>

(* vf2_session_service_sound_drain: while the line is armed, one interrupt *)
(* per tick.  The handler masks the line first and the drainer re-arms it  *)
(* only after it sent a byte.                                              *)
ServiceCall ==
  /\ ~serving /\ armed
  /\ serving' = TRUE
  /\ ticks' = 0
  /\ moved' = 0
  /\ UNCHANGED <<cells, armed, uart, filer>>

ServiceTick ==
  /\ serving /\ armed /\ ticks < TickCap
  /\ SendByte
  /\ armed' = TRUE
  /\ ticks' = ticks + 1
  /\ serving' = (moved < ByteCap)      \* refused when the report is full
  /\ moved' = IF moved < ByteCap THEN moved + 1 ELSE moved
  /\ UNCHANGED filer

(* The final, empty pass: nothing is sent and the line stays masked. *)
ServicePark ==
  /\ serving /\ armed /\ ticks < TickCap
  /\ ~Pending
  /\ armed' = FALSE
  /\ ticks' = ticks + 1
  /\ UNCHANGED <<cells, uart, filer, serving, moved>>

ServiceReturn ==
  /\ serving /\ ~armed
  /\ serving' = FALSE
  /\ UNCHANGED <<cells, armed, uart, filer, ticks, moved>>

(* VF2_ERROR_UNSUPPORTED: still armed at the tick cap. *)
ServiceRefuse ==
  /\ serving /\ armed /\ ticks >= TickCap
  /\ serving' = FALSE
  /\ UNCHANGED <<cells, armed, uart, filer, ticks, moved>>

Service == ServiceTick \/ ServicePark \/ ServiceReturn \/ ServiceRefuse

-----------------------------------------------------------------------------
Next ==
  \/ \E w \in Word, gate \in Gate : FilerEnter(w, gate)
  \/ FilerStep
  \/ PumpTick
  \/ ServiceCall
  \/ Service

Spec == Init /\ [][Next]_vars

(* The main program leaves the filer, and a service call runs to its end:  *)
(* both are straight-line code.  The host's loop calls the pump after each *)
(* frame, and each call makes at least one tick while anything is left to  *)
(* send.  Between two calls the filer and a service have their turns, so a *)
(* tick is enabled repeatedly, not continuously.  Nothing is assumed of    *)
(* the game's filing, nor of the callers of the service, which no host is. *)
Fairness == WF_vars(FilerStep) /\ WF_vars(Service) /\ SF_vars(PumpTick)

FairSpec == Spec /\ Fairness

-----------------------------------------------------------------------------
(* The cursors and the count tell the same story: the entries are the      *)
(* count slots from the read cursor, except inside the filer's masked      *)
(* window, where the count is one ahead of the write cursor.               *)
RingShape ==
  /\ pc \in {"counted", "stored"} => count > 0
  /\ wcur = (rcur + Queued) % RingSize

(* A queue with something to send is never left behind a masked line: the  *)
(* next service call, whenever it comes, finds it armed.  This is what the *)
(* filer's re-arm on the full-ring path is for.                            *)
NoStrandedWork == (pc = "idle" /\ ~serving /\ Pending) => armed

(* The drainer never runs inside the filer's masked window: a host service *)
(* call at an arbitrary stop address cannot load a slot whose entry is     *)
(* counted but not stored.                                                 *)
ServiceOutsideWindow == serving => pc = "idle"

(* A service call always ends by parking the line: the bytes left to send  *)
(* fit the ticks and the report left, so neither cap of                    *)
(* vf2_session_service_sound_drain refuses a live queue, and every byte    *)
(* the call sends is in its report.                                        *)
ServiceFitsCaps ==
  (serving /\ armed) =>
    /\ ticks + 3 * count + idx + 1 < TickCap
    /\ moved + 3 * count + idx + 1 <= ByteCap

(* The queue is a bounded FIFO of whole words, whatever the interleaving   *)
(* of filer, service and pump: a word enters when its slot and cursor are  *)
(* written and leaves with its first byte.                                 *)
Waiting == [i \in 1 .. Queued |-> ring[(rcur + i - 1) % RingSize]]

Fifo == INSTANCE SoundFifo WITH
  Capacity <- RingSize,
  Idle     <- NoByte,
  queue    <- Waiting,
  current  <- [i \in 1 .. idx + 1 |-> staged[idx + 1 - i]],
  line     <- uart

FifoSpec == Fifo!Spec

(* The oldest entry always leaves the ring, and with FifoSpec every entry  *)
(* behind it, and the word in service is sent to its last byte: under the  *)
(* pump of each frame, wherever a service call put in between stopped, be  *)
(* it parked or refused at a cap in the middle of a word, and however      *)
(* often the game files and the full ring drops a word.                    *)
OldestLeaves ==
  /\ \A r \in Slot : (rcur = r /\ Queued > 0) ~> (rcur # r)
  /\ (idx >= 0) ~> (idx < 0)
=============================================================================
