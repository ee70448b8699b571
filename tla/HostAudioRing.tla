---------------------------- MODULE HostAudioRing ----------------------------
(***************************************************************************)
(* The host's audio ring between its two threads: the frame loop pushes    *)
(* the frames it rendered (host_push_audio), SDL's audio thread takes them *)
(* (audio_callback).  The ring keeps a read index and a count, both shared *)
(* and neither atomic; the mutex audio_lock is all that orders them.  One  *)
(* action is one load or store of the shared cells.                        *)
(*                                                                         *)
(* The underrun and overrun counters and audio_consumed are read by        *)
(* reports only and are left out.                                          *)
(***************************************************************************)
EXTENDS Naturals, Sequences

CONSTANTS
  Frame,      (* stereo samples                                              *)
  Batch,      (* what the frame loop pushes: sequences of frames             *)
  Silence,    (* the frame of zeros                                          *)
  Capacity,   (* frames (VF2_SESSION_SAMPLE_RATE / 4)                        *)
  Chunk,      (* frames of the callback's buffer (2048)                      *)
  MaxRequest  (* bound: frames SDL asks one callback for                     *)

ASSUME RingAssumption ==
  /\ Capacity \in Nat \ {0} /\ Chunk \in Nat \ {0} /\ MaxRequest \in Nat \ {0}
  /\ \A b \in Batch : b \in Seq(Frame)

VARIABLES
  data, read, count,         (* the ring                                     *)
  lock,                      (* holder of audio_lock                         *)
  hostAt, batch, room, put,  (* frame loop: place, batch, n, i               *)
  devAt, additional, got,    (* callback: place, frames to serve, n          *)
  buffer,                    (* the callback's buffer, as far as filled      *)
  played                     (* the frames last put on SDL's stream          *)

ring   == <<data, read, count>>
host   == <<hostAt, batch, room, put>>
device == <<devAt, additional, got, buffer, played>>
vars   == <<ring, lock, host, device>>

Pos       == 0 .. Capacity - 1
Holder    == {"nobody", "host", "device"}
HostPlace == {"render", "lock", "room", "copy", "unlock"}
DevPlace  == {"sleep", "lock", "size", "copy", "count", "unlock", "put"}

TypeOK ==
  /\ data \in [Pos -> Frame \cup {Silence}]
  /\ read \in Pos /\ count \in 0 .. Capacity
  /\ lock \in Holder
  /\ hostAt \in HostPlace /\ batch \in Batch
  /\ room \in 0 .. Capacity /\ put \in 0 .. room
  /\ devAt \in DevPlace /\ additional \in 0 .. MaxRequest
  /\ got \in 0 .. Capacity
  /\ buffer \in Seq(Frame \cup {Silence}) /\ Len(buffer) <= Chunk
  /\ played \in Seq(Frame \cup {Silence})

Init ==
  /\ data = [p \in Pos |-> Silence]          \* calloc
  /\ read = 0 /\ count = 0
  /\ lock = "nobody"
  /\ hostAt = "render" /\ batch \in Batch /\ room = 0 /\ put = 0
  /\ devAt = "sleep" /\ additional = 0 /\ got = 0
  /\ buffer = << >> /\ played = << >>

Least(a, b) == IF a <= b THEN a ELSE b

-----------------------------------------------------------------------------
(* The frame loop. *)

HostRender(b) ==
  /\ hostAt = "render"
  /\ hostAt' = "lock" /\ batch' = b
  /\ UNCHANGED <<ring, lock, room, put, device>>

(* A push that does not take the lock. *)
HostLockIgnored ==
  /\ hostAt = "lock"
  /\ hostAt' = "room"
  /\ UNCHANGED <<ring, lock, batch, room, put, device>>

HostLock ==
  /\ hostAt = "lock" /\ lock = "nobody"
  /\ hostAt' = "room" /\ lock' = "host"
  /\ UNCHANGED <<ring, batch, room, put, device>>

(* A push that does not look at the room. *)
HostRoomUnlimited ==
  /\ hostAt = "room"
  /\ hostAt' = "copy" /\ put' = 0
  /\ room' = Len(batch)
  /\ UNCHANGED <<ring, lock, batch, device>>

HostRoom ==
  /\ hostAt = "room"
  /\ hostAt' = "copy" /\ put' = 0
  /\ room' = Least(Len(batch), Capacity - count)
  /\ UNCHANGED <<ring, lock, batch, device>>

HostCopy ==
  /\ hostAt = "copy" /\ put < room
  /\ data' = [data EXCEPT ![(read + count + put) % Capacity] = batch[put + 1]]
  /\ put' = put + 1
  /\ UNCHANGED <<read, count, lock, hostAt, batch, room, device>>

HostCount ==
  /\ hostAt = "copy" /\ put = room
  /\ hostAt' = "unlock" /\ count' = count + room
  /\ UNCHANGED <<data, read, lock, batch, room, put, device>>

HostUnlock ==
  /\ hostAt = "unlock"
  /\ hostAt' = "render" /\ lock' = "nobody"
  /\ UNCHANGED <<ring, batch, room, put, device>>

HostStep == HostLock \/ HostRoom \/ HostCopy \/ HostCount \/ HostUnlock

-----------------------------------------------------------------------------
(* The audio thread. *)

Callback(frames) ==
  /\ devAt = "sleep"
  /\ devAt' = "lock" /\ additional' = frames
  /\ UNCHANGED <<ring, lock, host, got, buffer, played>>

DeviceLock ==
  /\ devAt = "lock" /\ lock = "nobody"
  /\ devAt' = "size" /\ lock' = "device"
  /\ UNCHANGED <<ring, host, additional, got, buffer, played>>

Wanted  == Least(additional, Chunk)
Hush(n) == [i \in 1 .. n |-> Silence]

DeviceSize ==
  /\ devAt = "size"
  /\ devAt' = "copy" /\ got' = Least(Wanted, count) /\ buffer' = << >>
  /\ UNCHANGED <<ring, lock, host, additional, played>>

DeviceCopy ==
  /\ devAt = "copy" /\ Len(buffer) < got
  /\ buffer' = Append(buffer, data[(read + Len(buffer)) % Capacity])
  /\ UNCHANGED <<ring, lock, host, devAt, additional, got, played>>

DeviceAdvance ==
  /\ devAt = "copy" /\ Len(buffer) = got
  /\ devAt' = "count" /\ read' = (read + got) % Capacity
  /\ UNCHANGED <<data, count, lock, host, additional, got, buffer, played>>

DeviceCount ==
  /\ devAt = "count"
  /\ devAt' = "unlock" /\ count' = count - got
  /\ buffer' = buffer \o Hush(Wanted - got)
  /\ UNCHANGED <<data, read, lock, host, additional, got, played>>

DeviceUnlock ==
  /\ devAt = "unlock"
  /\ devAt' = "put" /\ lock' = "nobody"
  /\ UNCHANGED <<ring, host, additional, got, buffer, played>>

(* SDL_PutAudioStreamData, and the loop's condition. *)
DevicePut ==
  /\ devAt = "put"
  /\ played' = buffer
  /\ additional' = additional - Wanted
  /\ devAt' = IF additional' > 0 THEN "lock" ELSE "sleep"
  /\ UNCHANGED <<ring, lock, host, got, buffer>>

DeviceStep ==
  \/ DeviceLock \/ DeviceSize \/ DeviceCopy \/ DeviceAdvance
  \/ DeviceCount \/ DeviceUnlock \/ DevicePut

Next ==
  \/ \E b \in Batch : HostRender(b)
  \/ HostStep
  \/ \E frames \in 1 .. MaxRequest : Callback(frames)
  \/ DeviceStep

Spec == Init /\ [][Next]_vars

-----------------------------------------------------------------------------
Buffer == INSTANCE FrameBuffer WITH
  Largest <- Chunk,
  queue   <- [i \in 1 .. count - (IF devAt = "count" THEN got ELSE 0) |->
                data[(read + i - 1) % Capacity]],
  hand    <- IF devAt \in {"count", "unlock", "put"}
               THEN buffer \o Hush(Wanted - Len(buffer))
               ELSE << >>

(* host_push_audio and audio_callback together are the buffer of           *)
(* FrameBuffer, whatever way the two threads interleave: no frame is       *)
(* played twice, skipped or overwritten, no slot is played before its      *)
(* frame is there, silence comes only after the last frame.                *)
BufferSpec == Buffer!Spec
=============================================================================
