------------------------------ MODULE AudioPump ------------------------------
(***************************************************************************)
(* vf2_session_pump_audio: once per frame the host empties the i960 sound  *)
(* queue onto the sound board, dispatches what the board filed, and ticks  *)
(* the board's stream timer.                                               *)
(*                                                                         *)
(* The i960 side is the bounded FIFO that SoundQueue implements; the board *)
(* is its receiver, the command ring's read side and the stream records.   *)
(* The call runs on the host's thread between two frames, so the game      *)
(* files words only while the pump is not running.                         *)
(*                                                                         *)
(* What a dispatched entry does to voices and chip is left to its outcome: *)
(* consumed, refused at a door past its effects, or refused before them.   *)
(* What it does to the stream records, which write the ring themselves, is *)
(* modelled.  The voice tick that ends the call touches none of this.      *)
(***************************************************************************)
EXTENDS SoundReceiver, Sequences, FiniteSets

CONSTANTS
  Word,       (* words the game files: functions from 0..2 to bytes          *)
  BootWord,   (* the word the boot path leaves queued                        *)
  Capacity,   (* entries of the i960 queue (16)                              *)
  NoByte,     (* the line before the first byte                              *)
  TickCap,    (* drain ticks of one call (48)                                *)
  Matching,   (* how many descriptors an entry's channel may match (0..20)   *)
  LongStream, (* packets of the AD21 stream (12); the AD23/AD24 one has 2    *)
  MaxWords    (* bound: words the game files                                 *)

(* A call files fewer entries than the count tells apart (48 ticks, a byte), *)
(* and the count's width divides the ring's (256, 1024).                     *)
ASSUME PumpAssumption ==
  /\ Capacity \in Nat \ {0} /\ TickCap \in Nat \ {0}
  /\ LongStream \in Nat \ {0} /\ MaxWords \in Nat
  /\ Word \subseteq [0 .. 2 -> 0 .. 255] /\ BootWord \in Word
  /\ Matching \subseteq Nat
  /\ TickCap < CountMod /\ RingSlots % CountMod = 0

Records == 1 .. 6                                \* stream records with workers
Kind    == {"free", "short", "long"}

VARIABLES
  queue, current, line,      (* the i960 queue                               *)
  rd,                        (* $1508 / 4, the read cursor                   *)
  music,                     (* record 0 is active, its countdown at 1       *)
  reload, beat,              (* record 0 +0xc, +0xd: the beat prescaler      *)
  stream,                    (* the worker records, countdown 1 when active  *)
  phase,                     (* where the host stands                        *)
  ticks, before, pending,    (* locals of the call                           *)
  ranCount,                  (* report: entries_dispatched                   *)
  refusedCount,              (* report: entries_refused                      *)
  drainOK,                   (* report: drain_status is VF2_OK               *)
  offered,                   (* words the game has filed (bounded)           *)
  emitted, held              (* history: stream packets filed, and entries   *)
                             (* stepped over with the count left alone       *)

i960    == <<queue, current, line>>
streams == <<music, reload, beat, stream>>
call    == <<ticks, before, pending>>
report  == <<ranCount, refusedCount, drainOK>>
history == <<offered, emitted, held>>
vars    == <<i960, staging, filing, rd, streams, phase, call, report, history>>

Queue == INSTANCE SoundFifo WITH Idle <- NoByte

Phase == {"game", "drain", "dispatch", "maintain"}

TypeOK ==
  /\ ReceiverTypeOK
  /\ queue \in Seq(Word) /\ Len(queue) <= Capacity
  /\ Len(current) <= 2
  /\ rd \in Cell
  /\ music \in BOOLEAN
  /\ reload \in 0 .. 255 /\ beat \in 0 .. 255
  /\ stream \in [Records -> Kind]
  /\ phase \in Phase
  /\ ticks \in 0 .. TickCap
  /\ before \in 0 .. CountMod - 1 /\ pending \in 0 .. CountMod - 1
  /\ ranCount \in Nat /\ refusedCount \in Nat
  /\ drainOK \in BOOLEAN

Init ==
  /\ Queue!Init
  /\ ReceiverInit
  /\ rd = 0
  /\ music = FALSE /\ reload = 0 /\ beat = 0
  /\ stream = [i \in Records |-> "free"]
  /\ phase = "game"
  /\ ticks = 0 /\ before = 0 /\ pending = 0
  /\ ranCount = 0 /\ refusedCount = 0 /\ drainOK = TRUE
  /\ offered = 0 /\ emitted = 0 /\ held = 0

-----------------------------------------------------------------------------
GameFiles(w) ==
  /\ phase = "game" /\ offered < MaxWords
  /\ Queue!Accept(w)
  /\ offered' = offered + 1
  /\ UNCHANGED <<staging, filing, rd, streams, phase, call, report, emitted, held>>

(* Ticks carried over from the call before. *)
PumpBeginKeepsTicks ==
  /\ phase = "game"
  /\ phase' = "drain"
  /\ before' = cnt /\ pending' = 0
  /\ ranCount' = 0 /\ refusedCount' = 0 /\ drainOK' = TRUE
  /\ UNCHANGED <<i960, staging, filing, rd, streams, ticks, history>>

PumpBegin ==
  /\ phase = "game"
  /\ phase' = "drain"
  /\ ticks' = 0 /\ before' = cnt /\ pending' = 0
  /\ ranCount' = 0 /\ refusedCount' = 0 /\ drainOK' = TRUE
  /\ UNCHANGED <<i960, staging, filing, rd, streams, history>>

Waiting == queue # << >> \/ current # << >>

(* A difference of the counts that is not a byte. *)
EndDrainUnwrapped ==
  /\ phase' = "dispatch"
  /\ pending' = cnt - before

EndDrain ==
  /\ phase' = "dispatch"
  /\ pending' = (cnt - before) % CountMod

(* One tick: the drainer puts a byte on the line, the receiver takes it. *)
DrainTick ==
  /\ phase = "drain" /\ ticks < TickCap /\ Waiting
  /\ Queue!Transmit
  /\ ticks' = ticks + 1
  /\ \/ /\ line' # Reboot
        /\ Receive(line')
        /\ UNCHANGED <<phase, pending, drainOK>>
     \/ /\ line' = Reboot
        /\ drainOK' = FALSE
        /\ EndDrain
        /\ UNCHANGED <<staging, filing>>
  /\ UNCHANGED <<rd, streams, before, ranCount, refusedCount, history>>

DrainDone ==
  /\ phase = "drain" /\ (ticks = TickCap \/ ~Waiting)
  /\ EndDrain
  /\ UNCHANGED <<i960, staging, filing, rd, streams, ticks, before, report, history>>

-----------------------------------------------------------------------------
(* vf2_sound_board_dispatch_next on the entry under the read cursor, and    *)
(* the pump's bookkeeping around it.                                        *)

StartsMusic(e) == e.cmd = 173 /\ e.arg = 16
StartsShort(e) == e.cmd = 173 /\ e.arg \in {35, 36}
StartsLong(e)  == e.cmd = 173 /\ e.arg = 33 /\ e.val = 0
SetsBeat(e)    == e.cmd \in 176 .. 191 /\ e.arg % 128 = 16
Plain(e)       == ~StartsMusic(e) /\ ~StartsShort(e) /\ ~StartsLong(e) /\ ~SetsBeat(e)
Unlisted(e)    == e.cmd < 128 \/ e.cmd \in 208 .. 223    \* no arm: ignored

Free == {i \in Records : stream[i] = "free"}

(* The first n free records, or all of them. *)
FirstFree(n) == {i \in Free : Cardinality({j \in Free : j <= i}) <= n}

(* The arm runs once for each of the n descriptors the entry matches.  An   *)
(* entry that starts a stream takes the next free record each time, and is  *)
(* refused, with the records it took, when none is left.  A third byte      *)
(* above the maximum of the entry's row in the ROM is consumed without one, *)
(* and a ROM that is not the measured one is refused before any effect.     *)
Arm(e, n, outcome) ==
  \/ /\ Plain(e) \/ n = 0
     /\ n = 0 \/ Unlisted(e) => outcome = "consumed"
     /\ outcome = "door" => e.cmd \in 144 .. 159
     /\ UNCHANGED streams
  \/ /\ ~Plain(e) /\ n > 0 /\ outcome = "refused"
     /\ UNCHANGED streams
  \/ /\ StartsMusic(e) \/ StartsShort(e)
     /\ n > 0 /\ outcome = "consumed"
     /\ UNCHANGED streams
  \/ /\ StartsMusic(e) /\ n > 0 /\ outcome = "consumed"
     /\ music' = TRUE /\ reload' = 0 /\ beat' = 0
     /\ UNCHANGED stream
  \/ /\ SetsBeat(e) /\ n > 0 /\ outcome = "consumed"
     /\ reload' = e.val /\ beat' = e.val
     /\ UNCHANGED <<music, stream>>
  \/ /\ StartsShort(e) \/ StartsLong(e)
     /\ n > 0
     /\ outcome = IF n <= Cardinality(Free) THEN "consumed" ELSE "refused"
     /\ stream' = [i \in Records |->
                     IF i \notin FirstFree(n) THEN stream[i]
                     ELSE IF StartsLong(e) THEN "long" ELSE "short"]
     /\ UNCHANGED <<music, reload, beat>>

Outcome == {"consumed", "door", "refused"}

(* The pump's step on top of the one a consumed entry takes itself. *)
DispatchEntryTwice(n, outcome) ==
  /\ phase = "dispatch" /\ pending > 0 /\ cnt # 0
  /\ Arm(ring[rd], n, outcome)
  /\ cnt' = IF outcome = "consumed" THEN cnt - 1 ELSE cnt
  /\ held' = IF outcome = "consumed" THEN held ELSE (held + 1) % CountMod
  /\ IF outcome = "refused"
       THEN refusedCount' = refusedCount + 1 /\ UNCHANGED ranCount
       ELSE ranCount' = ranCount + 1 /\ UNCHANGED refusedCount
  /\ rd' = IF outcome = "consumed" THEN NextCell(NextCell(rd)) ELSE NextCell(rd)
  /\ pending' = pending - 1
  /\ UNCHANGED <<i960, staging, ring, wr, phase, ticks, before, drainOK,
                 offered, emitted>>

DispatchEntry(n, outcome) ==
  /\ phase = "dispatch" /\ pending > 0 /\ cnt # 0
  /\ Arm(ring[rd], n, outcome)
  /\ cnt' = IF outcome = "consumed" THEN cnt - 1 ELSE cnt
  /\ held' = IF outcome = "consumed" THEN held ELSE (held + 1) % CountMod
  /\ IF outcome = "refused"
       THEN refusedCount' = refusedCount + 1 /\ UNCHANGED ranCount
       ELSE ranCount' = ranCount + 1 /\ UNCHANGED refusedCount
  /\ rd' = NextCell(rd)
  /\ pending' = pending - 1
  /\ UNCHANGED <<i960, staging, ring, wr, phase, ticks, before, drainOK,
                 offered, emitted>>

(* A count of zero: VF2_OK with nothing handled.  The pump still steps the  *)
(* cursor and reports the entry dispatched.                                 *)
DispatchNothing ==
  /\ phase = "dispatch" /\ pending > 0 /\ cnt = 0
  /\ ranCount' = ranCount + 1
  /\ held' = (held + 1) % CountMod
  /\ rd' = NextCell(rd)
  /\ pending' = pending - 1
  /\ UNCHANGED <<i960, staging, filing, streams, phase, ticks, before,
                 refusedCount, drainOK, offered, emitted>>

DispatchDone ==
  /\ phase = "dispatch" /\ pending = 0
  /\ phase' = "maintain"
  /\ UNCHANGED <<i960, staging, filing, rd, streams, call, report, history>>

-----------------------------------------------------------------------------
(* vf2_sound_board_maintain_streams.  Record 0 has no worker and the beat   *)
(* value is 0, below the 4 the beat branch takes from it, so music and an   *)
(* expired prescaler are refused; so are two records at once, a long stream *)
(* outside record 1, and a stream the count has no room for.  A refusal     *)
(* changes nothing.                                                         *)

Armed == {i \in Records : stream[i] # "free"}

Packets(i) == IF stream[i] = "long" THEN LongStream ELSE 2

Admitted(i) ==
  /\ Armed = {i}
  /\ stream[i] = "long" => i = 1
  /\ cnt <= CountMod - 1 - Packets(i)

Skipped == cnt = CountMod - 1

Refused ==
  /\ ~Skipped
  /\ \/ music
     \/ reload # 0 /\ beat = 1
     \/ \E i \in Armed : ~Admitted(i)

StreamPacket(kind, k) ==
  IF kind = "long"
    THEN [cmd |-> 185 + (k % 6), arg |-> IF k < 6 THEN 42 ELSE 7,
          val |-> IF k < 6 THEN 0 ELSE 127]
    ELSE IF k = 0 THEN [cmd |-> 187, arg |-> 33, val |-> 6]
                  ELSE [cmd |-> 155, arg |-> 16, val |-> 127]

(* Packets that are not counted. *)
EmitUncounted(i) ==
  LET n     == Packets(i)
      at(c) == (c - wr) % RingSlots
  IN
  /\ ring' = [c \in Cell |-> IF at(c) < n THEN StreamPacket(stream[i], at(c)) ELSE ring[c]]
  /\ wr' = (wr + n) % RingSlots
  /\ emitted' = (emitted + n) % RingSlots
  /\ stream' = [stream EXCEPT ![i] = "free"]
  /\ UNCHANGED cnt

(* The i-th record's packets into the ring. *)
Emit(i) ==
  LET n     == Packets(i)
      at(c) == (c - wr) % RingSlots
  IN
  /\ ring' = [c \in Cell |-> IF at(c) < n THEN StreamPacket(stream[i], at(c)) ELSE ring[c]]
  /\ wr' = (wr + n) % RingSlots
  /\ cnt' = cnt + n
  /\ emitted' = (emitted + n) % RingSlots
  /\ stream' = [stream EXCEPT ![i] = "free"]

MaintainTick ==
  /\ ~Skipped /\ ~Refused
  /\ beat' = IF reload # 0 THEN (beat - 1) % 256 ELSE beat
  /\ \/ Armed = {} /\ UNCHANGED <<filing, stream, emitted>>
     \/ \E i \in Armed : Emit(i)
  /\ UNCHANGED <<music, reload>>

Maintain ==
  /\ phase = "maintain"
  /\ phase' = "game"
  /\ \/ MaintainTick
     \/ (Skipped \/ Refused) /\ UNCHANGED <<filing, streams, emitted>>
  /\ UNCHANGED <<i960, staging, rd, call, report, offered, held>>

-----------------------------------------------------------------------------
PumpStep ==
  \/ DrainTick \/ DrainDone
  \/ \E n \in Matching, outcome \in Outcome : DispatchEntry(n, outcome)
  \/ DispatchNothing \/ DispatchDone
  \/ Maintain

Next ==
  \/ \E w \in Word : GameFiles(w)
  \/ PumpBegin
  \/ PumpStep

Spec == Init /\ [][Next]_vars

(* The host's loop calls the pump every frame, and the call runs to its end. *)
FairSpec == Spec /\ WF_vars(PumpStep) /\ WF_vars(PumpBegin)
-----------------------------------------------------------------------------
(* Entries between the cursors. *)
Backlog == (wr - rd) % RingSlots

(* Exactly one cursor step for each entry the receiver filed, whatever the  *)
(* outcome of its dispatch, the tick cap or a refused byte: between calls   *)
(* the cursors are apart by the stream packets alone.                       *)
OneStepPerEntry ==
  /\ phase = "game" => Backlog = emitted
  /\ phase = "dispatch" => Backlog = (emitted + pending) % RingSlots

(* The count is the backlog plus the entries stepped over without being     *)
(* consumed, modulo its width.                                              *)
CountAccounts == cnt = (Backlog + held) % CountMod

(* Each word the game files becomes exactly one entry, in order, however    *)
(* the tick cap cuts words across calls; each entry is stepped over once,   *)
(* in ring order with the stream packets.                                   *)
Framed(c, a, v) == IF Length(c) = 1 THEN <<c, a>> ELSE <<c, a, v>>

Packet(w) == Framed(w[2], w[1], w[0])

InService ==
  IF left = 2 /\ Len(current) = 2 THEN <<Framed(cmd, current[1], current[2])>>
  ELSE IF left = 1 /\ need = 1 /\ Len(current) = 2 THEN <<Framed(cmd, current[1], 0)>>
  ELSE IF left = 1 /\ need = 2 /\ Len(current) = 1 THEN <<Framed(cmd, arg, current[1])>>
  ELSE << >>

StreamBurst(kind, n) ==
  [k \in 1 .. n |-> LET e == StreamPacket(kind, k - 1) IN Framed(e.cmd, e.arg, e.val)]

EntryAt(c) == Framed(ring[c].cmd, ring[c].arg, ring[c].val)

Path == INSTANCE CommandPath WITH
  Offered <- {Packet(w) : w \in Word},
  Boot    <- Packet(BootWord),
  Burst   <- {StreamBurst("short", 2), StreamBurst("long", LongStream)},
  Reboot  <- Reboot,
  waiting <- InService \o [i \in 1 .. Len(queue) |-> Packet(queue[i])],
  backlog <- [i \in 1 .. Backlog |-> EntryAt((rd + i - 1) % RingSlots)]

PathSpec == Path!Spec

(* Every word leaves the i960 queue: a call that stops at the tick cap, or  *)
(* at a refused byte, leaves the rest to the next one.                      *)
EveryWordLeaves == (queue # << >>) ~> (queue = << >>)
=============================================================================
