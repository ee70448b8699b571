------------------------------ MODULE GameFrame ------------------------------
(***************************************************************************)
(* The game facade and the session around it: graphics and a machine are   *)
(* attached in either order, the host sets the input and runs frames, and  *)
(* a native frame opens the picture, captures what the program sends to    *)
(* the coprocessor port, draws that and then the ring the program left in  *)
(* buffer RAM, and closes the picture.  Between native frames the caller   *)
(* may draw a picture of its own, and the oracle may run the same machine. *)
(*                                                                         *)
(* The program is open: any of Programs is what it sends in a call, any of *)
(* Rings what it leaves in the ring, and its frame may be refused at any   *)
(* point.  Memory is never short.  MaxFrames bounds the frame counter,       *)
(* MaxTriangles what a caller draws in one picture.                        *)
(***************************************************************************)
EXTENDS GeometryStream

CONSTANTS
  Inputs, NoInput,
  Programs,        \* lists of writes to the port, prefixes included
  Rings,           \* lists of words between the ring's two cursors
  Submissions,     \* streams a caller draws itself
  MaxFrames, MaxTriangles

Data == 256                              \* the upper half of the port
Write == [to : 0 .. Data, word : Words]

ASSUME FrameAssumption ==
  /\ MaxFrames \in Nat /\ MaxTriangles \in Nat
  /\ NoInput \notin Inputs /\ <<>> \in Rings
  /\ Programs \subseteq Seq(Write)
  /\ Rings \subseteq Seq(Words) /\ Submissions \subseteq Seq(Words)

VARIABLES
  graphics, native,         \* platform and tgp, machine: attached
  callback,                 \* the machine's port calls the game
  input, machineInput,      \* the game's input or NoInput, the machine's
  frameOpen, picture,       \* the platform's frame, triangles in it
  capturing, captured,      \* the capture switch and the captured packets
  ring,                     \* the ring of the frame that runs, in buffer RAM
  tgp,
  phase,                    \* where a run of a native frame is
  failed,                   \* its status is not VF2_OK
  frames,                   \* frame_number
  sent,                     \* packets sent in the frame that runs
  begun                     \* the caller has a frame open

attached == <<graphics, native, callback>>
port == <<capturing, captured, sent>>
display == <<frameOpen, picture, begun>>
inputs == <<input, machineInput>>
run == <<phase, failed>>
vars == <<attached, port, inputs, display, ring, tgp, run, frames>>

Phases == {"idle", "run", "copro", "ring", "close"}

-------------------------------------------------------------------------------
\* A write to the lower half of the port is a header: its place is the class.
\* A write to the upper half is taken as it is.
Packet(write) ==
  IF write.to = Data THEN write.word ELSE [write.word EXCEPT !.high = write.to]
Packets(writes) == [i \in DOMAIN writes |-> Packet(writes[i])]

Init ==
  /\ graphics = FALSE /\ native = FALSE /\ callback = FALSE
  /\ input = NoInput /\ machineInput = NoInput
  /\ frameOpen = FALSE /\ picture = 0 /\ begun = FALSE
  /\ capturing = FALSE /\ captured = <<>> /\ sent = <<>>
  /\ ring = <<>> /\ tgp = InitTgp
  /\ phase = "idle" /\ failed = FALSE /\ frames = 0

Idle == phase = "idle"
More == frames < MaxFrames

-------------------------------------------------------------------------------
\* Attachment and input.

\* Mutant of AttachGraphics: a machine attached before is not told.
AttachGraphicsUnheard ==
  /\ Idle /\ ~ graphics
  /\ graphics' = TRUE /\ tgp' = InitTgp /\ picture' = 0
  /\ UNCHANGED <<native, callback, port, inputs, frameOpen, begun, ring, run, frames>>

AttachGraphics ==
  /\ Idle /\ ~ graphics
  /\ graphics' = TRUE /\ tgp' = InitTgp /\ picture' = 0
  /\ callback' = (callback \/ native)
  /\ UNCHANGED <<native, port, inputs, frameOpen, begun, ring, run, frames>>

AttachNative ==
  /\ Idle
  /\ native' = TRUE
  /\ callback' = (callback \/ graphics)
  /\ machineInput' = IF graphics /\ input # NoInput THEN input ELSE machineInput
  /\ UNCHANGED <<graphics, port, input, display, ring, tgp, run, frames>>

SetInput(i) ==
  /\ Idle /\ graphics
  /\ input' = i
  /\ machineInput' = IF native THEN i ELSE machineInput
  /\ UNCHANGED <<attached, port, display, ring, tgp, run, frames>>

\* vf2_game_shutdown and vf2_game_initialize; the machine is borrowed and stays.
Restart ==
  /\ Idle
  /\ graphics' = FALSE /\ native' = FALSE /\ callback' = (callback /\ ~ native)
  /\ input' = NoInput /\ frameOpen' = FALSE /\ begun' = FALSE /\ picture' = 0
  /\ capturing' = FALSE /\ captured' = <<>> /\ frames' = 0 /\ tgp' = InitTgp
  /\ UNCHANGED <<machineInput, ring, run, sent>>

-------------------------------------------------------------------------------
\* A picture of the caller's own, and an update of a game without a machine.

BeginFrame ==
  /\ Idle /\ graphics /\ ~ frameOpen
  /\ frameOpen' = TRUE /\ picture' = 0 /\ begun' = TRUE
  /\ UNCHANGED <<attached, port, inputs, ring, tgp, run, frames>>

DrawStream(s) == ExecuteStream(tgp, s, frameOpen)

SubmitGeometry(s) ==
  /\ Idle /\ graphics /\ picture < MaxTriangles
  /\ LET r == DrawStream(s) IN tgp' = r.tgp /\ picture' = picture + r.triangles
  /\ UNCHANGED <<attached, port, inputs, frameOpen, begun, ring, run, frames>>

EndFrame ==
  /\ Idle /\ graphics /\ frameOpen /\ More
  /\ frameOpen' = FALSE /\ begun' = FALSE /\ frames' = frames + 1
  /\ UNCHANGED <<attached, port, inputs, picture, ring, tgp, run>>

Update ==
  /\ Idle /\ ~ native /\ More
  /\ frames' = frames + 1
  /\ UNCHANGED <<attached, port, inputs, display, ring, tgp, run>>

-------------------------------------------------------------------------------
\* vf2_game_run_native_frame.

\* Mutant of StartCapture: what an earlier frame left is kept.
StartCaptureKeeps ==
  /\ frameOpen' = TRUE /\ picture' = 0 /\ capturing' = TRUE
  /\ UNCHANGED captured

StartCapture ==
  /\ frameOpen' = TRUE /\ picture' = 0 /\ capturing' = TRUE
  /\ captured' = <<>>

\* Mutant of ApplyInput: the machine keeps the input it has.
ApplyInputNot == UNCHANGED machineInput

ApplyInput == machineInput' = IF input # NoInput THEN input ELSE machineInput

\* A frame that the caller has open refuses the run before the machine moves
\* and after the input was applied.
RunRefused ==
  /\ Idle /\ native /\ graphics /\ frameOpen
  /\ ApplyInput
  /\ UNCHANGED <<attached, input, port, display, ring, tgp, run, frames>>

RunBegin ==
  /\ Idle /\ native /\ ~ frameOpen /\ More
  /\ ApplyInput
  /\ IF graphics THEN StartCapture ELSE UNCHANGED <<frameOpen, picture, capturing, captured>>
  /\ sent' = <<>> /\ phase' = "run" /\ failed' = FALSE
  /\ UNCHANGED <<attached, input, begun, ring, tgp, frames>>

Capture(writes) ==
  captured' = IF callback /\ capturing THEN captured \o Packets(writes) ELSE captured

\* The machine's frame, whole or refused somewhere.
ProgramFrame(writes, left, refused) ==
  /\ phase = "run"
  /\ Capture(writes) /\ sent' = Packets(writes)
  /\ ring' = left
  /\ capturing' = FALSE /\ failed' = refused
  /\ phase' = IF refused \/ ~ graphics THEN "close" ELSE "copro"
  /\ UNCHANGED <<attached, inputs, display, tgp, frames>>

\* The captured packets: a refusal of any kind is the frame's, and keeps them.
RenderCopro ==
  /\ phase = "copro"
  /\ LET r == DrawStream(captured) IN
     /\ tgp' = r.tgp /\ picture' = picture + r.triangles
     /\ failed' = ~ Executed(r)
     /\ captured' = IF Executed(r) THEN <<>> ELSE captured
     /\ phase' = IF Executed(r) THEN "ring" ELSE "close"
  /\ UNCHANGED <<attached, capturing, sent, inputs, frameOpen, begun, ring, frames>>

\* The ring: only one that the scan cuts up to its end is executed; one that
\* is not, and one refused half-way for its words, leave the frame as it is.
RenderRing ==
  /\ phase = "ring"
  /\ IF ScanStream(ring).state = "ended"
     THEN LET r == DrawStream(ring) IN
          /\ tgp' = r.tgp /\ picture' = picture + r.triangles
          /\ failed' = (~ Executed(r) /\ ~ PassedOver(r))
     ELSE UNCHANGED <<tgp, picture, failed>>
  /\ phase' = "close"
  /\ UNCHANGED <<attached, port, inputs, frameOpen, begun, ring, frames>>

\* Mutant of CloseFrame: the way out of a failed frame leaves the picture open.
CloseFrameIfGood ==
  /\ phase = "close"
  /\ frameOpen' = (frameOpen /\ failed)
  /\ frames' = IF failed THEN frames ELSE frames + 1
  /\ phase' = "idle" /\ sent' = <<>> /\ ring' = <<>>
  /\ UNCHANGED <<attached, capturing, captured, inputs, picture, begun, tgp, failed>>

CloseFrame ==
  /\ phase = "close"
  /\ frameOpen' = FALSE
  /\ frames' = IF failed THEN frames ELSE frames + 1
  /\ phase' = "idle" /\ sent' = <<>> /\ ring' = <<>>
  /\ UNCHANGED <<attached, capturing, captured, inputs, picture, begun, tgp, failed>>

\* vf2_session_step_oracle on the machine: its own input, the same port.
OracleStep(i, writes) ==
  /\ Idle /\ native
  /\ machineInput' = i
  /\ Capture(writes)
  /\ UNCHANGED <<attached, input, capturing, sent, display, ring, tgp, run, frames>>

Next ==
  \/ AttachGraphics \/ AttachNative \/ Restart
  \/ \E i \in Inputs : SetInput(i)
  \/ BeginFrame \/ EndFrame \/ Update
  \/ \E s \in Submissions : SubmitGeometry(s)
  \/ RunRefused \/ RunBegin
  \/ \E writes \in Programs, left \in Rings, refused \in BOOLEAN :
       ProgramFrame(writes, left, refused)
  \/ RenderCopro \/ RenderRing \/ CloseFrame
  \/ \E i \in Inputs, writes \in Programs : OracleStep(i, writes)

Spec == Init /\ [][Next]_vars

-------------------------------------------------------------------------------
\* What one frame's program sends, or nothing.
Batches == {Packets(p) : p \in Programs} \cup {<<>>}

\* Cells keep their ranges, over every order of calls.
TypeOK ==
  /\ graphics \in BOOLEAN /\ native \in BOOLEAN /\ callback \in BOOLEAN
  /\ input \in Inputs \cup {NoInput} /\ machineInput \in Inputs \cup {NoInput}
  /\ frameOpen \in BOOLEAN /\ begun \in BOOLEAN /\ picture \in Nat
  /\ capturing \in BOOLEAN
  /\ sent \in Batches
  /\ captured \in Batches
  /\ ring \in Rings
  /\ tgp \in Tgp
  /\ phase \in Phases /\ failed \in BOOLEAN /\ frames \in 0 .. MaxFrames

\* What a frame draws from the coprocessor port is what its own program sent:
\* nothing of a frame refused before it, nothing of the oracle, nothing missing
\* whichever of graphics and machine was attached first (game.c, run_native_frame).
OnlyThisFrame == phase = "copro" => captured = sent

\* Between calls a frame is open only if the caller opened it, whichever way a
\* native frame ended (game.c: end_frame after a refusal too).
FrameClosed == Idle => (frameOpen <=> begun)

\* The program reads the input last given to the game, whatever the oracle or
\* an attachment left in the machine (game.c: set_input at the run's begin).
InputSeen == phase = "run" /\ input # NoInput => machineInput = input

\* A ring that the scan accepts is cut the same way when it is drawn: no command
\* is too short for its links, and the words used are the scan's (tgp.c, scan,
\* execute_direct and execute_geometry_stream).
ScannedIsFramed ==
  phase = "ring" /\ ScanStream(ring).state = "ended" =>
    LET r == DrawStream(ring) IN
    /\ r.why \notin {"length", "framing"}
    /\ Executed(r) => r.at = ScanStream(ring).at

\* A refused stream leaves the TGP as the commands before the refused one made
\* it: an upload that does not fit writes nothing (tgp.c, execute_geometry_stream).
KeepsPrefix(s) ==
  LET r == DrawStream(s) IN
  ~ Executed(r) => tgp' = ExecuteStream(tgp, SubSeq(s, 1, r.at), frameOpen).tgp
RefusalKeepsPrefix ==
  [][/\ phase = "copro" => KeepsPrefix(captured)
     /\ phase = "ring" /\ ScanStream(ring).state = "ended" => KeepsPrefix(ring)]_vars
=============================================================================
