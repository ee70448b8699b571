# TLA+ models of vf2-decomp

vf2-decomp recovers the main program of an arcade board (a Sega Model 2A: an
i960 main CPU, a 68000 sound CPU, an SCSP, a TGP geometry processor) as C, and
runs it in three ways: interpreted from ROM (the oracle), as recovered C blocks
with the interpreter between them, and as a desktop game on SDL.  The models
here take its stateful core: the queues, rings, interrupt entries, wait states
and shared cells where the order of two actors, or of two calls, decides what
happens.  Every definition is
translated from the C under `src/`, and `PROJECT.json` names the lines of each.

- [1 Inventory](#1-inventory)
- [2 Plan](#2-plan)
- [3 Modules](#3-modules)
- [4 Runs](#4-runs)
- [5 Findings](#5-findings)
- [6 Proofs](#6-proofs)
- [7 What is not modelled](#7-what-is-not-modelled)

## 1 Inventory

Paths are relative to the repository root.

| Component | State | Operations | Hard part |
|---|---|---|---|
| Sound-command queue (`src/recovered/hybrid.c`) | count, read and write cursor, 16 slots, staged word and byte index in work RAM; the enable register | filer 0x43888, drainer 0x43800, boot initialisation, the sound-menu bridge | the filer can be interrupted between any two stores; one enable bit is the only protection |
| Sound-drain service (`src/app/session.c`) | report: ticks, bytes | `vf2_session_service_sound_drain` | interrupts at an arbitrary address, repeats until the line parks, two caps |
| Audio pump (`src/app/session.c`) | none of its own; the queue, the board's counters, the voices | `vf2_session_pump_audio`: drain, dispatch, maintain | a tick cap cuts words; entries counted by the difference of a byte that wraps |
| Sound board, receiver (`src/hardware/sound_board.c`) | command, argument, need, left; ring, write cursor, count | `vf2_sound_board_file_uart_byte` | a byte-serial protocol with running status |
| Sound board, dispatch and streams | read cursor, count, six stream records, music and beat | `vf2_sound_board_dispatch_next`, `_maintain_streams` | three outcomes per entry, two producers of one ring |
| Sound board, voices | voice table, allocator, reaper | note on and off, ageing | a voice must not be leaked or shared |
| SCSP (`src/hardware/scsp.c`) | 32 slots | register writes, render | key-on and key-off against rendering |
| Host audio ring (`src/host/host_common.c`, `host_sdl.c`) | frames, read index, count, a mutex | write by the frame loop, read by SDL's audio thread | two threads, plain fields |
| Host input (same files) | held counts per button, pause, step, quit | `handle_event`, `vf2_host_input_event`, mask per frame | press and release take different paths |
| i960 interpreter (`src/i960/`) | registers, frame array, process and arithmetic controls, condition cell | call, ret, `vf2_i960_cpu_enter_interrupt`, instructions | nesting of calls and interrupts, state saved in three places |
| Model 2A (`src/hardware/model2a.c`) | memory, four timers, interrupt request and enable, geometry FIFO, frame number | bus reads and writes, cycle and frame advance | the coprocessor port is also the game's capture point; the timers have no caller outside the tests |
| Frame wait and interrupts (`src/recovered/frame_wait.c`, `runtime_interrupts.c`) | visits and injections, one such state for each stepper | observe, advance a native wait | an interrupt injected into a polling program, by three different loops |
| Native differential (`src/recovered/native_differential*.c`) | two machines, two CPUs, a wait state, a snapshot of one side | step, strict cycles, probed cycles | a step that refuses half-way; a cycle that must be undone on both sides |
| Native runtime (`src/recovered/native_runtime.c`) | none of its own | one recovered block at a time, a frame of them | refusals between blocks |
| Scheduler and tasks (`src/recovered/scheduler.c`, `task_registry.c`) | a fixed registry in work RAM | one pass over it | partial refusals |
| Session (`src/app/session.c`) | machine, CPU, board, the wait state of each stepper | native step, oracle step, lifted step, render | two steppers on one machine |
| Game facade (`src/game/game.c`) | attachments, input, the capture of the coprocessor port, frame number | attach, detach, input, native frame, pictures of the caller's own | a frame may be refused at several points, and what it captured outlives it |
| TGP (`src/hardware/tgp.c`) | registers, two polygon RAMs, program, FIFO | geometry stream: lengths, scan, execute; upload, input words | one list of words is cut into commands by three loops |
| Leaf routines (`src/recovered/**`) | work RAM | one C function per ROM address | long, sequential; verified by the differential |
| Platform, core, analysis, tools, tests | none shared | | pure functions, file input, offline analysis |

How they interact.  The game (leaf routines or the interpreter) calls the filer,
which stores a command word in the queue and arms the sound line.  The queue is
emptied by one of two callers: the service, which enters interrupt 15 on the
game's own CPU, so that it pushes a frame on the interpreter's frame array, or
the pump, which calls the drainer on a shadow CPU between frames.  The pump
hands each byte to the board's receiver, which assembles entries in the command
ring; it then dispatches them, and ticks the stream records, which put packets
of their own in the same ring.  Rendered samples go through the host audio
ring to SDL's thread; key and pad events come back through the input counts to
the next frame's input word.

A frame is one call of the facade or of the session.  The program runs until it
polls for the vertical blank; nothing but the frame wait's count of visits ends
the poll, by entering interrupt 12.  The oracle asks it before each instruction,
the native runtime once for a whole loop, the differential after each block, and
the three must agree.  What the program sends to the coprocessor port on its way
is captured by the facade and drawn by the TGP with the ring it left in buffer
RAM.

What makes each one correct:

- Queue: it is a FIFO of whole words under every interleaving; no word is stuck
  behind a masked line; the service never sees a half-filed word; the caps
  never refuse a live queue.
- Receiver: the entries filed are those the framing of the whole byte sequence
  names, whatever commands are cut or repeated.
- Pump: each accepted word becomes one entry, in order; each entry is stepped
  over once; the count accounts for the entries.
- Audio ring: what the device plays is what was pushed, in order, padded with
  silence.
- Input: a button is pressed exactly while a source of it is held.
- Frames: each return resumes what the matching call or interrupt suspended.
- Frame wait: both steppers stop at the same boundaries after as many reads of
  the frame byte, and no poll is endless.
- Native differential: a mismatch is never passed over or built upon, and an
  undone cycle is undone on both sides.
- Game frame: it runs on the game's input, draws what its own program sent, and
  leaves no picture open, whichever call or refusal came before.
- TGP stream: the loops that cut a list agree, and a refused stream leaves what
  the commands before it did.
- Scheduler: each live task runs once a pass.
- Voices: a voice belongs to one note at a time, and every note ends.

The hazards behind these, each at its line, are listed in `PROJECT.json`.

## 2 Plan

Done, in this order: the sound path from the filer to the dispatcher (it has the
most actors and the least protection), the host's two shared structures, the
interpreter's frame stack with its interrupts, the frame wait with both steppers,
the native differential, and the game frame with the TGP's geometry stream.

Next:

1. The session's other ways of stepping: `step_oracle_until`, which may stop
   inside a wait, and the lifted step, as further steppers of `FrameWait`.
2. `TaskPass`: the scheduler's pass with a task that is refused and retried.
3. `Voices`: allocate, age, release, reap, composed with `AudioPump`'s dispatch
   outcomes, once the code has an allocator that accepts a note by default.
4. `TgpUpload`: the program upload and the input FIFO.
5. Long streams that refuse their tick (`sound_board.c:2433`): `AudioPump` has the
   refusal; whether the stream ever leaves its record is open.

Not worth a module as the code stands: the timers of the Model 2A, which only
the tests advance.

Compositions: `SoundQueue` with `I960Frames` (the service's interrupt enters the
filer through a frame), `FrameWait` with `I960Frames` (vector 12), and
`AudioPump` with `Voices`.

Theorems: every safety property of the runs has one.  New modules bring their
own; of those that stand, the hypothesis on the ring's room in `PathKept` could
be dropped only by a check in the code.

The number of runs is kept at one for each question; new components replace the
smaller ones by compositions that contain them.

## 3 Modules

| Module | Models | Source |
|---|---|---|
| `SoundFifo` | abstract: a bounded FIFO of words sent byte by byte | |
| `SoundQueue` | the queue, its filer, the service, the pump's drain tick | `hybrid.c` 32937-33307, `session.c` 480-718 |
| `SoundQueueMenu` | the queue with the sound-menu bridge as third writer | `texture_bridge_match.c` 2502-2685 |
| `SoundReceiver` | the UART receiver and the ring's write side | `sound_board.c` 3887-3969 |
| `CommandPath` | abstract: words wait, become packets, are taken in order | |
| `AudioPump` | the pump over `SoundFifo`, `SoundReceiver`, dispatch and streams | `session.c` 453-607, `sound_board.c` |
| `FrameBuffer` | abstract: a bounded buffer of samples | |
| `HostAudioRing` | the ring, its lock and both threads | `host_common.c` 190-248, `host_sdl.c` 37-62 |
| `HostInput` | events, held counts, hotkeys, the frame's mask | `host_sdl.c` 75-116, `host_common.c` 163-189 |
| `CallStack` | abstract: a stack of suspended activations | |
| `I960Frames` | calls, returns, interrupts, the frame array and condition cells | `executor.c` |
| `FrameWait` | the waits for the vertical blank under the native and the oracle stepper, several sessions | `frame_wait.c`, `session.c` 98-198, wait blocks of `texture_bridge_match.c` and `native_runtime.c` |
| `Differential` | the three differential runners over blocks of any effect | `native_differential.c`, `native_differential_step.c`, `snapshot.c` |
| `GeometryStream` | commands of a geometry stream: lengths, scan, polygons, execution | `tgp.c` |
| `GameFrame` | the facade's calls and the phases of a native frame | `game.c`, `platform_software.c` 64-78, `session.c` |
| `SoundQueue_proofs`, `SoundReceiver_proofs`, `AudioPump_proofs`, `Host_proofs`, `I960Frames_proofs`, `FrameWait_proofs`, `Differential_proofs`, `GameFrame_proofs` | theorems | |
| `MC*` | values of the constants for the runs | |

**SoundQueue.**  One variable per work-RAM cell, the enable bit `armed`, the
UART slot, and the place `pc` of the filer.  The filer's actions are its stores:
`FilerEnter` (gates, mask), `FilerCount`, `FilerStore`, `FilerAdvance`,
`FilerLeave` (re-arm).  Between two of them anything else may run, because the
oracle stops at any address.  `FilerEnter` covers the gates: which of them hold
is the game's state, so the outcome is chosen freely from those the code has
(file, remap, drop).  `SendByte` is the drainer; `PumpTick` and `ServiceTick`
are its two callers.  The service is a loop of interrupts; a tick is one action
because the handler runs to its return, with the filer stopped.

**AudioPump** starts from `SoundFifo` in place of `SoundQueue`: the refinement
of the run `sound_queue`, proved in general by `QueueIsFifo`, is what justifies
it.  The drain ticks include the receiver's step for the byte, as in the code.
A dispatch has three outcomes (consumed, not consumed with an OK, refused),
chosen freely: which one depends on voices and tables that are not modelled.
Streams follow the code: arming by descriptor count, refusal of a second armed
record, a long stream outside its record or music, room against the count,
packets filed behind whatever is there.

**HostAudioRing.**  One action per load or store of a shared cell, in the order
of the code, on both threads, and the mutex.  SDL asks for any number of
frames; the callback serves it in chunks.

**HostInput.**  The player presses and releases sources; SDL queues events; the
loop polls all of them, then steps a frame with the mask.  Its specification is
`InputSpec`: the theorems' module extends this one and `HostAudioRing`.

**I960Frames.**  `Enter` is `procedure_call_typed`, shared by `Call` and
`EnterInterrupt`; `Return` is `procedure_return` with both call types.
Addresses count 16 bytes, so a frame is aligned to 4 units and an interrupt
record takes one.  The instructions of the program are one action for each kind
of effect they have on this state: `Execute`, `Compare` (both condition cells),
`Latch` and `Carry` (one of them), `Allocate`, `Spill`.

**FrameWait.**  A machine is what a wait depends on: where the program stands,
the frame byte, the value the loop compares it with, the request bit, and each
stepper's count of visits.  A program is a script: the sequence of waits it goes
through, of the four kinds the code has (the main loop's, the boot's early loop,
the texture loop with its flag clear or set).  The stretch of program between
two waits is one step.  Each recovered block of a wait is an action with its
refusals, and the native call returns after every block of the kind FRAME_WAIT;
`OracleIterate` is one turn of the oracle's loop, with the program's few
instructions at an address as `Instructions`.  Several sessions start from one
snapshot; each has the steppers its caller uses, so a run has a native one, an
oracle one and one that takes them in turn.  `polls` is a history variable: how
often a loop has read the byte since the last handler.

**Differential.**  A side is an address and the rest of what the comparison
sees.  A block takes the native side, the reference and the two wait states
anywhere, or is refused anywhere: the recovered code may be wrong in every way.
What is modelled is what the three runners do about it, in calls of any order:
`OpenCycle` with the comparison each makes first, `Block`, the two kinds of
refusal, `CloseCycle`, and `Fail` with the probe's rollback of both sides from a
snapshot of one.  `began` is a history variable.

**GeometryStream.**  A word keeps the bits the code tests.  `CommandWords` and
`ListWords` are the lengths, `ScanStream` the scan, `Direct` and `Object` the
walks over the links of a list, `ExecuteStream` the execution with the TGP's
registers and polygon RAMs.  A vertex is a number or not, a picture the count of
its triangles.  Everything is an operator or a recursive function; `Repeat`
applies one step of a loop as often as there are words.

**GameFrame** extends it with the facade's state.  A native frame is a run
through phases: `RunBegin` (input, picture, capture), `ProgramFrame` (the
machine's frame, whole or refused), `RenderCopro`, `RenderRing`, `CloseFrame`.
What a program sends and leaves in the ring is chosen from constants.  Between
frames the caller attaches, detaches, sets inputs, draws pictures of its own or
lets the oracle run the machine.

## 4 Runs

| Run | Checks | Bounds, and why they are enough | Distinct states |
|---|---|---|---|
| `sound_queue` | types, `RingShape`, `NoStrandedWork`, `ServiceOutsideWindow`, `ServiceFitsCaps`, `FifoSpec` | ring of 3 (empty, partly full, full and wrapped all occur), caps 12 and 11: the smallest that stand to 3 as 80 and 64 do to 16; three words, one of them remapped | 221 000 |
| `sound_queue_live` | `FifoSpec`, `OldestLeaves` | ring of 2, caps 4 and 8, so that calls are refused at the tick cap in the middle of a word, as the caps of the code refuse none (`CapsSuffice`): the queue is kept even then | 19 000 |
| `receiver` | types, `FiledAsFramed`, `CursorCounts` | sequences of up to 6 bytes over members of each class (data, commands of two and of one data byte, system); ring of 3 and a count of 2, so both wrap | 19 500 |
| `pump` | types, `OneStepPerEntry`, `CountAccounts`, `PathSpec`, `EveryWordLeaves` | three words in flight of each class of command, cap of 5 ticks (a word is cut after each of its bytes), staging width 4 and count width 6, so both wrap; a ring of 12, a multiple of the count's width as 1024 is of 256; long streams of 3 packets | 250 000 |
| `audio_ring` | types, `BufferSpec` | ring of 3, chunks of 2, requests up to 5 (more than a ring and than two chunks), two frame values | 465 000 |
| `host_input` | `PressedWhileHeld` | two buttons, three sources of one, two of them on pads that share a name, every hotkey class; two events waiting | 387 000 |
| `i960_frames` | types, `RecordsApart`, `StackSpec` | three frames deep: call in a handler, handler in a handler, handler in a call; stack of 20 units, so that the stack's end is met too | 783 000 |
| `frame_wait` | types, `BoundariesAgree`, `PollsAgree`, `OddStopsAgree`, `RefusalNeedsBoth`, `CallsReturn` | threshold 4 as in the code; all suffixes of: a texture wait (flag clear or set), an early wait, three main-loop frames, so that a resumed snapshot may start in any of them and each kind of wait follows each; a native, an oracle and a mixed session | 97 000 |
| `differential` | types, `InStep`, `Transaction`, `ApartStaysPut`, `RunReturns` | two addresses, two values of the rest and of the wait state (equal or different is all the code tests); two cycles (first and later differ), one to three blocks (too few, enough, too many) | 21 000 |
| `game_frame` | types, `OnlyThisFrame`, `FrameClosed`, `InputSeen`, `ScannedIsFramed`, `RefusalKeepsPrefix` | two inputs, two frames (one refused, one after it), one triangle of the caller's own; vertices of one word, RAMs of six, a ROM of nine whose lists go round, so that a walk is cut at its limit of links; programs are all prefixes of streams that reach every branch of the lengths, the scan and both walks, nine rings with each outcome | 217 000 |
| `sound_menu`, `i960_lockstep` | one statement each, violated: see below | | |

What the properties say:

- `FifoSpec`: under every interleaving of filer stores, service ticks and pump
  ticks, the queue is `SoundFifo`.  A word enters when its slot and cursor are
  written; it leaves byte by byte and no other word's byte comes between.
- `NoStrandedWork`: with filer and service idle and something to send, the line
  is armed.  `ServiceOutsideWindow`: the service never runs while the filer has
  the cells apart.  `ServiceFitsCaps`: neither cap refuses a live queue.
- `OldestLeaves`: under the pump of each frame the oldest word leaves the ring and
  the word in service is sent to its last byte, whatever the game files and
  wherever a service call in between stopped.
- `FiledAsFramed`: the receiver, a byte at a time, files what a definition over
  the whole sequence names.
- `PathSpec`: from the game's word to the dispatched entry, in order, one for
  one; streams' packets come behind.  A word with the reboot byte is the only
  one that is lost.
- `OneStepPerEntry`, `CountAccounts`: the read cursor makes one step for each
  entry filed, and the count is the backlog plus what was stepped over without
  being consumed.
- `BufferSpec`: order kept, nothing played twice, silence only when the ring is
  empty, and what does not fit is dropped from the end of a batch.
- `PressedWhileHeld`: under the default bindings, whatever the order of presses
  and releases.
- `StackSpec`: `I960Frames` implements `CallStack`.  `RecordsApart`: no
  activation above a handler has stack memory where a record lies.
- `BoundariesAgree`, `PollsAgree`, `OddStopsAgree`: the native session's stops at
  the handler are the oracle's stops, in order, with the same frame byte, request
  and interrupted loop, and as many reads of the byte between two of them; in the
  main loop they are every other stop of the native session.  `PollsAgree` names
  the two exceptions: one read in the first frame of a resumed snapshot, and a
  blank that is due at once.
- `RefusalNeedsBoth`: the refusals of the wait blocks are met only where both
  steppers were used on one machine.  `CallsReturn`: no wait is polled for ever.
- `InStep`, `Transaction`, `ApartStaysPut`, `RunReturns`: inside a cycle both
  sides stand at one address; a probed cycle ends equal or undone; sides that are
  apart are moved by no later call; every call returns.
- `OnlyThisFrame`, `FrameClosed`, `InputSeen`: a frame draws from the port what
  its own program sent; between calls a picture is open only if the caller opened
  it; the program runs on the input last given to the game.
- `ScannedIsFramed`: a ring the scan accepted is never found too short when it is
  drawn, and is used up to the same word.  `RefusalKeepsPrefix`: a refused stream
  leaves the TGP as the commands before the refused one made it.

Every property of a passing run has a mutant in `PROJECT.json`: a change of one
definition, such as a bug in that code would make, under which TLC finds the
property violated.

**Fairness.**  `SoundQueue`: weak fairness of the filer's steps and of a service
call's steps (straight-line code that runs to its end), strong fairness of the
pump's tick: the host's loop calls the pump after each frame (`host_sdl.c:816`),
and a call makes at least one tick while something is left to send; the filer and
a service call have their turns between two calls, so the tick is enabled again
and again and not continuously.  Nothing is assumed of the game's filing, nor of
the service: no host calls it, the replay tools and the tests do
(`tests/host/test_session_uart.c:277`), and it refuses a session the native
runtime stepped last.  `AudioPump`: weak
fairness of the steps of a call and of the next call, which the frame loop makes
each frame.  `FrameWait`: weak fairness of each session's step inside a call (a
call is a loop over straight-line blocks or instructions in one thread); nothing
is assumed of the caller.  `Differential`: weak fairness of a call's going on, for
the same reason.  The other specifications have no liveness property and no
fairness.

**Deadlock** is checked except where the system does stop: the receiver's run
ends at its bound on bytes, the host's loop ends when the player quits, and a
frame-wait script ends with its last wait.

## 5 Findings

Each is a run whose one property states what a comment, note or test of the
repository says, and which TLC finds violated by what the code does.

- `sound_menu` / `LiveFiledOnly`.  The bridge of the sound-select menu stores
  the queue cells of a captured frame, without looking at the live ones.  After
  a drain, words that were sent are sent again.  `include/vf2/session.h:184`:
  "Only live-filed queue content flows; nothing is staged or seeded".
- `i960_lockstep` / `LockStep`.  A return from an interrupt restores the
  condition bits of the arithmetic controls and leaves the condition cell, which
  the branches read, as the handler's last compare left it.

Observations that are not stated as properties; none changes what the passing
runs show.

- Sound.  The pump dispatches as many entries as it filed, from the read cursor
  (`session.c:556`); once a stream has put packets in the ring these are older
  ones, where `include/vf2/session.h:179` says "each newly filed entry".  A
  refused entry is stepped over and stays on the count for ever
  (`session.c:581`); at 254 the streams are refused, at 255 skipped, at 256 the
  count reads empty.  `sound_board_run_ring_file` does not look at the room in
  its 1024-entry ring.
- Input.  A button bound to a hotkey: the key-down is swallowed (`host_sdl.c:96`)
  and the key-up is not, so it takes a count off a button another source holds.
  The default bindings have no such button, which is what `host_input` checks.
- Stack.  The main program runs on the stack the first interrupt starts on
  (`PRCB + 24`), so the first handler's frame overlaps the stack memory of an
  interrupted callee; the local registers are safe in the frame array, and the
  recovered handlers store nothing there.
- Frames.  `session.c:173` says the oracle returns "exactly where
  vf2_session_step stops"; the native call also returns behind the wait, twice a
  frame in the main loop, which is why native frame 2k - 1 is oracle frame k
  (`docs/NATIVE_WINDOWS_PLAN.md:144` gives another reason for the two).  A session
  stepped by both in turn is refused at the native return block.  The visit
  supplied to a resumed snapshot makes the first frame one read shorter than the
  oracle's.  `vf2_session_step_lifted` single-steps two of the three loops the
  frame wait counts.  `native_runtime.c:6558` steps the interpreter at 0x4bb14.
- Differential.  When the probe cannot take its snapshot, restoring reports a
  size error of its own.  `interpreted_instructions` is not compared, and the
  reference is given the native side's on a rollback.
- Game.  A ring refused half-way for its bounds counts as "untouched"
  (`game.c:187`), with the effects of its earlier commands kept.  A refused
  coprocessor stream skips that frame's ring although the machine has moved on.
  When the scan refuses a ring, the printed report is a local nobody set
  (`game.c:180`); nothing else reads it.  `rendered_triangles` of that report is
  always the scan's.  `vf2_game_attach_native_runtime` of a second machine leaves
  the first one's callback.

## 6 Proofs

`tlapm` checks every theorem to its last leaf; none takes more on trust than the
named assumptions about the constants.

**`SoundQueue_proofs`** assumes `WordAssumption` (words are three bytes, closed
under the remap) and `SizeAssumption` (ring and caps are positive).

- `TypeCorrect`: types, for every ring size and set of words.
- `ServiceExcluded`, `NothingStranded`: from the invariant `LineInv`, which adds
  two conjuncts to them: the line is masked while the filer is inside
  (`WindowMasked`), and a service call that stands with the line masked has
  nothing left to send (`Parked`).  Neither property is inductive without them:
  a service call starts because the line is armed, and it returns because it is
  not.
- `ShapeCorrect`: cursors and count; uses `LineInv`, because a drain inside the
  window would break it.
- `CapsSuffice`: for caps above `3 * RingSize + 2`, the condition that 80 and 64
  meet for 16, no call is refused.  The argument is a measure, three bytes per
  entry and what is left of the staged word, that each tick lowers by one while
  the ticks grow by one.
- `QueueIsFifo`: `Spec => FifoSpec`.  The step that makes a word visible is
  `FilerAdvance`; the invariant `SlotWritten` says the slot then holds the word.
  The first tick of a word maps to `Start`, the others to `Continue`, all other
  steps stutter.

**`SoundReceiver_proofs`** assumes `SampleAssumption` (bytes are bytes) and
`ReceiverAssumption` (counters of at least three, two and two values).

- `TypeCorrect`, `CursorsCount`: the write cursor and the count are the number of
  entries filed, each within its own width.
- `FilesWhatIsFramed`: `FiledAsFramed`, for sequences of bytes of any length.  The
  reference definition looks at a whole sequence, the receiver at one byte and
  what it has staged.  The invariant adds that the bytes staged are the ones the
  definition would still need (`Staged`), and that each entry filed is spelled by
  the bytes the definition cuts for it (`Spelled`).

**`AudioPump_proofs`** assumes `PumpAssumption`: words are three bytes, the tick
cap is below the width of the count, and the ring's size is a multiple of that
width (255 or fewer ticks a call, a ring of 1024 and a count of 8 bits).

- `TypeCorrect`, `OneStep`, `CountIsBacklog`: types, `OneStepPerEntry` and
  `CountAccounts`, for every width and ring of that kind.  The invariant is the
  cursor arithmetic through the phases of a call: how far the write cursor has
  moved while the call files (`Filing`), how far the read cursor has to go while
  it dispatches (`Dispatching`), and that between calls the two differ by what
  streams have filed behind (`Settled`).  The condition on the widths is needed:
  without it the count and the cursors wrap at different places and the count is
  not the backlog.
- `PathKept`: `PathSpec`, from two hypotheses.  `Readable`: a word is a command
  and its data, and behind the one data byte of a short command comes a byte the
  receiver ignores or refuses; any other byte there would be filed as a second
  entry by running status.  `Room`: a call that files, and a stream that is about
  to, find the ring with room.  The code does not look (`sound_board.c:3899`), and
  no call ever takes a stream's packets off the backlog, so in the end the ring is
  full; the theorem says what holds before that.  The run `pump` meets both.
- `PathKeptUnfilled`: the same from a bound on the streams alone (`Unfilled`).
  Fewer packets than the ring holds less one call's ticks and one burst leave
  room for both: fewer than 963 packets, which is eighty long streams, for 1024,
  48 and 12.
- The invariant `PathInv` adds two parts to that of the theorems above.  `Exact`:
  with room, the backlog is the packets of the streams and the entries of the
  call as whole numbers, not only modulo the ring, so an entry is never taken
  from an empty ring.  `Staged`: while bytes of a word are to be sent, the
  receiver has staged the ones before them, which is what lets the word in
  service be read back from cells of both sides (`InService`).  A tick starts a
  word (nothing moves), passes a byte (nothing moves), files an entry (`File`) or
  meets the reboot byte where it breaks the word (`Lose`).  The ring is read as a
  sequence by `Laid`; what a burst appends and a dispatch removes are
  `LaidBurst` and `LaidTail`.

**`Host_proofs`** is about both structures of the host.  It assumes
`RingAssumption` (ring and chunk are positive), and for the input
`InputAssumption`.

- `TypeCorrect`: cursors and counts stay in the ring.
- `RingIsBuffer`: `Spec => BufferSpec`, for every ring and chunk.  The invariant
  says who has the lock at each place of each thread (`Locked`), what of a batch
  is in the ring while the frame loop pushes (`Pushing`), and what of a request
  is in the chunk while the callback serves (`Serving`).  A batch enters
  the abstract buffer where the push stores the count; the callback's pull is the
  step that ends its copying, before the count says so; every other step up to the
  chunk's being played stutters.

- `PressedHeld`: `PressedWhileHeld`, for every set of sources, buttons and
  bindings in which no source of a hotkey is bound to a button
  (`HotkeysUnbound`), as in `vf2_host_bindings_defaults`; otherwise the property
  is false (section 5).  The loop learns of a source only when it handles the
  event, so the invariant reads the state the loop has been told of back from the
  state the source ends in: each waiting event turns it, so a source is down for
  the loop as its final state and the parity of its events say (`Alternate`), and
  a button's count is the number of its sources that are down for the loop
  (`Counted`).

**`I960Frames_proofs`** assumes `FrameAssumption`: the interrupt stack is
aligned and has room for a frame; conditions and sizes are of their types; the
array and the stack have any size.

- `TypeCorrect`: registers, frames and cells keep their ranges, and the frame
  array is never overrun.
- `RecordsKeptApart`, `FramesNest`: from the invariant `StackInv`.  Types alone
  do not show where a frame pointer points or that a record is still what the
  interrupt wrote.  `StackInv` says that frames are aligned and end below their
  stack pointer (`Aligned`), that from the outermost handler on they lie above
  one another with a unit between for the record (`Stacked`), that a record
  tells whether its interrupt was nested (`Recorded`), that a suspended
  activation has an address to resume at (`Resumable`), and that the interrupted
  state is set exactly while a handler is on the stack.  It needs all five: the
  last decides on which stack an interrupt builds its frame, `Recorded` keeps
  the last across a return, and `Stacked` keeps the records from the program's
  stores.
- `FramesNest` maps a call or an interrupt to an append on the abstract stack, a
  return to the removal of its last element, and every other instruction to a
  step of the running activation that leaves the stack alone.

**`FrameWait_proofs`** assumes `WaitAssumption`: scripts are sequences of waits,
each session has at least one stepper, the threshold is above one.

- `TypeCorrect`: the frame byte stays a byte and no count of visits reaches the
  threshold, for any sessions, scripts and threshold.
- `RefusalTakesBoth`: from an invariant for each session (`SessionInv`).  A
  refusal needs a byte the other stepper left, so it is not inductive: the
  invariant says that while only one stepper has stopped in a session, its
  machine is calm: the byte is 0 before a main wait and 1 behind it, no visits
  are left over while a handler runs, and the oracle's none outside a call of it.
  Each step of a wait then keeps the session calm.
- `BoundariesAlike`, `PollsAlike`, `OddStopsAlike`: `BoundariesAgree`,
  `PollsAgree` and `OddStopsAgree`, for any scripts of any length.  Two sessions
  run one after the other and neither follows the other, so no invariant relates
  their machines step by step.  Both are related to a third thing: the course of
  the script (section "The course of a program"), a deterministic sequence of
  points, each with the frames so far as its log.  The invariant (`AgreeInv`)
  says of every session of one stepper that its machine stands at or just behind
  a point of the course (`OracleAt`, `NativeAt`) and that its stops at the
  handler are the log of that point (`OracleLog`, `NativeLog`).  A step of either
  stepper is none, one or two steps of the course: the oracle's reads of a loop
  move it only at the last, a native block reads and interrupts at once.  In a
  native log the reads a block does not make are named (`Missed`), which is where
  the seed of a resumed snapshot and the early blank come in; `Seeded` says that
  the seed is taken once, by the first frame.  The course of one script is one
  sequence, so of two points the log of one begins the log of the other
  (`OneCourse`), and the frames both sessions have made are the same.
  `OddStopsAlike` adds, for scripts of main-loop waits, how many stops the native
  session has made at each place (`Paired`) and that frame k is of wait k
  (`MainReached`).

**`Differential_proofs`** assumes `RunAssumption` (a run has a cycle, a cycle a
block, and the budget is not below the least number of blocks).

- `TypeCorrect`, `LockStep`: cycles and blocks within their counts, and the sides
  at one address inside a cycle.
- `Rollback`, `ApartRest`: action properties, from the invariant that a cycle
  opens only in a call and with the sides equal (`OpenOnlyInCall`,
  `OpenedEqual`), that the snapshot is what the cycle began with
  (`SavedAsBegan`), and that the probe's sides are equal between its cycles
  (`EqualBetweenCycles`).  The last is what makes up for the comparison the probe
  leaves out after its first cycle: without it a snapshot of one side could not
  undo both.

**`GameFrame_proofs`** assumes `GeometryAssumption` (sizes are positive, the ROM
is a sequence of words) and `FrameAssumption` (rings and submissions are
sequences of words, the empty ring is one of the rings, programs are sequences of
writes).  The first three theorems are about the order of a frame's phases, the
others about the streams it draws.

- `DrawsItsOwn`: from `Heard` (with graphics and machine attached, in whichever
  order, the machine's port calls the game) and `FreshCapture` (while a program
  runs, the capture is on and empty).
- `LeavesNoFrame`: from `NoCallersFrame` (a run does not begin over a picture of
  the caller's).
- `RunsOnInput`: the program runs on the input last given to the game.
- `TypeCorrect`: every register and polygon RAM of the TGP, every batch and every
  count of a frame keeps its type, whatever words the streams are made of.  It
  rests on one lemma for each command's effect on the TGP, and on two facts of a
  frame: capture is on only while a drawn program runs (`CaptureOn`), and a run
  that has begun has a frame left to count (`RunCounts`).
- `ScanIsKept`: `ScannedIsFramed`.  The scan and the drawing of a ring cut it by
  different code; the lemmas of the section "Lengths" show that both take the
  same number of words for every command, and that a list the scan has measured
  is walked to the same word when it is drawn, or refused for its bounds.
- `RefusalsKeep`: `RefusalKeepsPrefix`.  The executor of a refused stream stands
  where the executor of its commands before the refused one ends.
- The loops over words and links are repetitions of a step, cut at a bound.  What
  holds after every repetition is shown by the least number for which it would
  fail (`Least`, `Inductive`), since a set of numbers is all the induction the
  theorems need; `Orbit` and `SameOrbit` relate a repetition to the sequence of
  states it passes.

Model-checked only: liveness (`OldestLeaves`, `EveryWordLeaves`, `CallsReturn`,
`RunReturns`), which is out of the prover's reach; every
other property of a passing run is stated by a theorem.

## 7 What is not modelled

- Leaf routines, phase corridors, boot stages: about 95 000 lines of
  straight-line register and memory effects, one function per ROM address.  A
  model of one would be its transliteration, and the repository checks them
  against the interpreter.  So the share of source lines the models name is
  small by design.
- Arithmetic: floating point (TGP, i960 reals), samples, pixels, checksums.
- The m68k stepper and the lift runtime: sequential interpreters.
- Files, command lines, windows, evidence output, offline analysis, tools.
- Voices: the default allocator refuses every note, so a voice is authored on
  one opt-in path only.  SCSP slots: one thread, no other actor.  The Model 2A's
  timers: no caller outside the tests.
- The scheduler's pass, `step_oracle_until`, the lifted step, rendering of tiles
  and audio, the TGP's program upload, FIFO and microcode functions: on the plan
  or arithmetic.

Left out of modelled code: byte 3 of a word (never sent), the service's guard on
the native step (it only removes calls), the receiver's rotating port pattern
(read by nothing), underrun and overrun counters (reports only), key repeats
(dropped first), the priority bits and vector number of an interrupt record (not
read back by the code), a memory fault in the stack (the stack is RAM), the block and
instruction budgets of a session's call (`max_blocks`, 50 million; they are met
only by a program that does not wait), a differential run of no cycles or of no least
number of blocks, an update's sound maintenance, the wrap of the ring's addresses in buffer
RAM, edge-mode vertices, what
the length loop reads behind a direct list that is cut after a link
(`tgp.c:565`: it takes the next attribute from behind the last word, and then
`word_count - required` underflows, so that its checks no longer stop it and more
words may be read; the length is above the words by then and only grows, so the
list is refused if the reads survive), the
timer suffix's refusal of runtime flags with bit 9 clear
(`texture_bridge_match.c:22857`; the flags are no part of the model), the
stores of an interrupt record that fail, and allocations that fail, except the probe's snapshot.
