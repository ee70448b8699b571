------------------------------ MODULE FrameWait -------------------------------
(***************************************************************************)
(* Sessions that run one program from one snapshot, each through the       *)
(* recovered native runtime, through the i960 interpreter (the oracle), or *)
(* through both.  The program waits for the vertical blank in one of three *)
(* polling loops; nothing but the host-side scheduler of                   *)
(* src/recovered/frame_wait.c ends a wait: it counts visits to the loop    *)
(* and enters interrupt 12 at the threshold.                               *)
(*                                                                         *)
(* A machine is one session's CPU and work RAM as far as a wait can tell:  *)
(*   place    where the instruction pointer stands between two blocks      *)
(*   from     the loop the running handler interrupted                     *)
(*   byte     the frame byte 0x500000                                      *)
(*   seen     its value when the running wait began (g0 at 0x10f90, r3 at  *)
(*            0x4afdc)                                                     *)
(*   request  interrupt request bit 0                                      *)
(*   entered  cpu.interrupt_entries is not 0                               *)
(*   wait     the next or running wait, an index of the script             *)
(*   polls    reads of the frame byte by a loop since the last handler     *)
(*   visits, injected   the wait state of each stepper                     *)
(***************************************************************************)
EXTENDS Naturals, Sequences

CONSTANTS
  Steppers,               \* for each session, the steppers its caller uses
  Scripts,                \* the sequences of waits a program may go through
  VisitsBeforeInterrupt   \* 4 in session.c

Stepper == {"native", "oracle"}
Session == 1 .. Len(Steppers)

\* The loop at 0x10f98; the loop at 0xf7c as the texture, luma, pattern and
\* table stages of the boot call it; the loop at 0x4afe4 with the flag
\* 0x50008c clear, and with the flag set.
WaitKind == {"main", "early", "texture", "released"}

ASSUME WaitAssumption ==
  /\ VisitsBeforeInterrupt \in Nat /\ VisitsBeforeInterrupt > 1
  /\ Steppers \in Seq((SUBSET Stepper) \ {{}})
  /\ Scripts \subseteq Seq(WaitKind)

VARIABLES
  script,     \* the waits of the program, in order
  family,     \* the snapshot is of the recurring game-disp family
  machine,    \* a machine for each session
  call,       \* the step call each session is in, or "none"
  stops,      \* where each session's calls returned
  refused     \* the sessions whose last call returned VF2_ERROR_UNSUPPORTED

vars == <<script, family, machine, call, stops, refused>>

\* 0x10f98, 0xf7c and 0x4afe4: the addresses observe counts.
Loop == {"poll", "early", "texture"}

\* "run": between two waits; "entry": 0x10f90; "changed": 0x10fa4;
\* "handler": 0xbc0; "return": 0xd20.
Place == Loop \cup {"run", "entry", "changed", "handler", "return"}

PollCap == 2 * VisitsBeforeInterrupt

Machine ==
  [place : Place, from : Loop, byte : 0 .. 255, seen : 0 .. 255,
   request : BOOLEAN, entered : BOOLEAN, wait : Nat \ {0}, polls : 0 .. PollCap,
   visits : [Stepper -> 0 .. VisitsBeforeInterrupt - 1],
   injected : [Stepper -> BOOLEAN]]

Stop ==
  [stepper : Stepper, place : Place, from : Loop, byte : 0 .. 255,
   request : BOOLEAN, wait : Nat \ {0}, polls : 0 .. PollCap]

TypeOK ==
  /\ script \in Scripts
  /\ family \in BOOLEAN
  /\ machine \in [Session -> Machine]
  /\ call \in [Session -> Stepper \cup {"none"}]
  /\ stops \in [Session -> Seq(Stop)]
  /\ refused \subseteq Session

Start ==
  [place |-> "run", from |-> "poll", byte |-> 0, seen |-> 0, request |-> FALSE,
   entered |-> family, wait |-> 1, polls |-> 0,
   visits |-> [w \in Stepper |-> 0], injected |-> [w \in Stepper |-> FALSE]]

\* A snapshot of the family is taken in the main loop.
Init ==
  /\ script \in Scripts
  /\ family \in BOOLEAN /\ (family => script[1] = "main")
  /\ machine = [s \in Session |-> Start]
  /\ call = [s \in Session |-> "none"]
  /\ stops = [s \in Session |-> <<>>]
  /\ refused = {}

-------------------------------------------------------------------------------
Ended(s) == s \in refused \/ machine[s].wait > Len(script)

\* The comparison runs one session after the other.
Running(s) == ~ Ended(s) /\ \A t \in 1 .. s - 1 : Ended(t)

Polled(m, n) == [m EXCEPT !.polls = IF @ + n > PollCap THEN PollCap ELSE @ + n]

\* The interrupt frame of vector 12, built whatever the level of the CPU.
Inject(m, w) ==
  [m EXCEPT !.place = "handler", !.from = m.place, !.request = TRUE,
            !.entered = TRUE, !.visits[w] = 0, !.injected[w] = TRUE]

\* A loop that is not left by itself is polled to the threshold: one read for
\* each visit still to come, none after the last.
\* Mutant of PollToInterrupt: the visits already counted are left behind.
PollToInterruptKeepsVisits(m, reads) ==
  [Inject(Polled(m, reads), "native") EXCEPT !.visits = m.visits]

PollToInterrupt(m, reads) == Inject(Polled(m, reads), "native")

\* Mutants of Observe: the threshold is passed by one visit, and the loop at
\* 0xf7c is not in the table of counted addresses.
ObserveOneLate(m, w) ==
  IF m.place \notin Loop THEN m
  ELSE IF m.visits[w] < VisitsBeforeInterrupt
       THEN [m EXCEPT !.visits[w] = @ + 1]
       ELSE Inject(m, w)

ObserveTwoLoops(m, w) ==
  IF m.place \notin Loop \ {"early"} THEN m
  ELSE IF m.visits[w] + 1 < VisitsBeforeInterrupt
       THEN [m EXCEPT !.visits[w] = @ + 1]
       ELSE Inject(m, w)

Observe(m, w) ==
  IF m.place \notin Loop THEN m
  ELSE IF m.visits[w] + 1 < VisitsBeforeInterrupt
       THEN [m EXCEPT !.visits[w] = @ + 1]
       ELSE Inject(m, w)

\* The next stretch of program, up to the address a wait starts at.
AtWait(m) ==
  CASE script[m.wait] = "main"  -> [m EXCEPT !.place = "entry"]
    [] script[m.wait] = "early" -> [m EXCEPT !.place = "early"]
    [] OTHER -> [m EXCEPT !.place = "texture", !.seen = m.byte]

WaitOver(m) == [m EXCEPT !.place = "run", !.wait = @ + 1]

\* The loop at 0xf7c goes on until the byte is two or more and even.
EarlyRepeats(m) == m.byte < 2 \/ m.byte % 2 = 1

\* Exit of the loop at 0xf7c.
EarlyExit(m) == WaitOver([Polled(m, 1) EXCEPT !.byte = 0])

\* The handler increments the byte and acknowledges the request.
Handled(m) ==
  [m EXCEPT !.place = "return", !.byte = (@ + 1) % 256, !.request = FALSE,
            !.polls = 0]

-------------------------------------------------------------------------------
\* A call of vf2_session_step or vf2_session_step_oracle.
BeginCall(s, w) ==
  /\ Running(s) /\ call[s] = "none" /\ w \in Steppers[s]
  /\ call' = [call EXCEPT ![s] = w]
  /\ UNCHANGED <<script, family, machine, stops, refused>>

InNative(s, p) == Running(s) /\ call[s] = "native" /\ machine[s].place = p

\* The step ends the call in m, and the caller sees where it stands.
Returns(s, m) ==
  /\ machine' = [machine EXCEPT ![s] = m]
  /\ call' = [call EXCEPT ![s] = "none"]
  /\ stops' = [stops EXCEPT ![s] = Append(@,
       [stepper |-> call[s], place |-> m.place, from |-> m.from, byte |-> m.byte,
        request |-> m.request, wait |-> m.wait, polls |-> m.polls])]
  /\ UNCHANGED <<script, family, refused>>

\* The step leaves m and the loop of the call goes on.
Continues(s, m) ==
  /\ machine' = [machine EXCEPT ![s] = m]
  /\ UNCHANGED <<script, family, call, stops, refused>>

\* The step refuses; what it did before stays done.
Refuses(s, m) ==
  /\ machine' = [machine EXCEPT ![s] = m]
  /\ call' = [call EXCEPT ![s] = "none"]
  /\ refused' = refused \cup {s}
  /\ UNCHANGED <<script, family, stops>>

-------------------------------------------------------------------------------
(* Native: blocks of the recovered runtime.  vf2_native_runtime_run_frame  *)
(* returns after a block of the kind FRAME_WAIT.                           *)

NativeToWait(s) ==
  LET m == machine[s] IN
  /\ InNative(s, "run")
  /\ script[m.wait] \in {"main", "early"}
  /\ IF script[m.wait] = "main" /\ m.byte # 0
     THEN Refuses(s, m)
     ELSE Continues(s, AtWait(m))

NativeTextureEntry(s) ==
  LET m == machine[s] IN
  /\ InNative(s, "run")
  /\ script[m.wait] \in {"texture", "released"}
  /\ Returns(s, Observe(AtWait(m), "native"))

\* A snapshot does not hold the wait state: the one visit the original had
\* made is supplied for the family of snapshots it was measured on.
PhaseSeed(m) ==
  IF /\ family /\ m.entered
     /\ m.visits["native"] = 0 /\ ~ m.injected["native"]
  THEN 1 ELSE m.visits["native"]

NativeMainPoll(s) ==
  LET m == machine[s] IN
  /\ InNative(s, "entry")
  /\ Returns(s, PollToInterrupt(
       [m EXCEPT !.place = "poll", !.seen = m.byte],
       VisitsBeforeInterrupt - PhaseSeed(m) - 1))

\* The boot's early waits start with a vertical blank that is due at once.
NativePendingBlank(s) ==
  LET m == machine[s] IN
  /\ InNative(s, "early")
  /\ script[m.wait] = "early" /\ m.byte = 0
  /\ Returns(s, PollToInterrupt(m, 0))

\* Mutant of NativeEarlyPoll: any byte of two or more ends the loop.
NativeEarlyPollOdd(s) ==
  LET m == machine[s] IN
  /\ InNative(s, "early")
  /\ script[m.wait] # "early" \/ m.byte # 0
  /\ Returns(s, IF m.byte = 0
                THEN PollToInterrupt(m, VisitsBeforeInterrupt - m.visits["native"])
                ELSE EarlyExit(m))

NativeEarlyPoll(s) ==
  LET m == machine[s] IN
  /\ InNative(s, "early")
  /\ script[m.wait] # "early" \/ m.byte # 0
  /\ Returns(s, IF EarlyRepeats(m)
                THEN PollToInterrupt(m, VisitsBeforeInterrupt - m.visits["native"])
                ELSE EarlyExit(m))

\* A changed byte calls the loop at 0xf7c, which is observed on arrival.
NativeTexturePoll(s) ==
  LET m == machine[s] IN
  /\ InNative(s, "texture")
  /\ Returns(s,
       IF m.byte # m.seen
       THEN Observe([Polled(m, 1) EXCEPT !.place = "early"], "native")
       ELSE IF script[m.wait] = "released"
       THEN WaitOver(Polled(m, 1))
       ELSE PollToInterrupt(m, VisitsBeforeInterrupt - m.visits["native"]))

NativeHandler(s) ==
  /\ InNative(s, "handler")
  /\ Continues(s, Handled(machine[s]))

\* The block at 0xd20: return, count the visit, follow the changed byte.
\* Mutants of NativeReturn: the visit on the way back is not counted, and the
\* call goes on behind the wait.
NativeReturnUncounted(s) ==
  LET m == machine[s]
      o == [m EXCEPT !.place = m.from] IN
  /\ InNative(s, "return")
  /\ \/ o.place \in {"early", "texture"} /\ Returns(s, o)
     \/ o.place = "poll" /\ m.byte # m.seen
          /\ Returns(s, [Polled(o, 1) EXCEPT !.place = "changed"])
     \/ o.place = "poll" /\ m.byte = m.seen /\ Refuses(s, o)

NativeReturnGoesOn(s) ==
  LET m == machine[s]
      o == Observe([m EXCEPT !.place = m.from], "native") IN
  /\ InNative(s, "return")
  /\ \/ o.place \in {"early", "texture"} /\ Returns(s, o)
     \/ o.place = "poll" /\ m.byte # m.seen
          /\ Continues(s, [Polled(o, 1) EXCEPT !.place = "changed"])
     \/ (o.place = "handler" \/ (o.place = "poll" /\ m.byte = m.seen))
          /\ Refuses(s, o)

NativeReturn(s) ==
  LET m == machine[s]
      o == Observe([m EXCEPT !.place = m.from], "native") IN
  /\ InNative(s, "return")
  /\ \/ o.place \in {"early", "texture"} /\ Returns(s, o)
     \/ o.place = "poll" /\ m.byte # m.seen
          /\ Returns(s, [Polled(o, 1) EXCEPT !.place = "changed"])
     \/ (o.place = "handler" \/ (o.place = "poll" /\ m.byte = m.seen))
          /\ Refuses(s, o)

\* The suffix behind a changed byte: a count of two or more is no frame it knows.
\* (Its refusal of runtime flags with bit 9 clear is left out.)
NativeTimerSuffix(s) ==
  LET m == machine[s] IN
  /\ InNative(s, "changed")
  /\ IF m.byte >= 2 THEN Refuses(s, m)
                    ELSE Continues(s, WaitOver([m EXCEPT !.byte = 0]))

-------------------------------------------------------------------------------
(* Oracle: the program's own instructions, with the scheduler asked before *)
(* each.  A loop's few instructions are one step here.                     *)

Instructions(m) ==
  CASE m.place = "run"     -> AtWait(m)
    [] m.place = "entry"   -> [m EXCEPT !.place = "poll", !.seen = m.byte]
    [] m.place = "poll"    -> IF m.byte = m.seen THEN Polled(m, 1)
                              ELSE [Polled(m, 1) EXCEPT !.place = "changed"]
    [] m.place = "changed" -> WaitOver([m EXCEPT !.byte = 0])
    [] m.place = "early"   -> IF EarlyRepeats(m) THEN Polled(m, 1) ELSE EarlyExit(m)
    [] m.place = "texture" -> IF m.byte # m.seen
                              THEN [Polled(m, 1) EXCEPT !.place = "early"]
                              ELSE IF script[m.wait] = "released"
                              THEN WaitOver(Polled(m, 1)) ELSE Polled(m, 1)
    [] m.place = "handler" -> Handled(m)
    [] m.place = "return"  -> [m EXCEPT !.place = m.from]

OracleIterate(s) ==
  LET m == machine[s]
      o == Observe(m, "oracle") IN
  /\ Running(s) /\ call[s] = "oracle"
  /\ IF m.place \in Loop /\ o.place = "handler"
     THEN Returns(s, o)
     ELSE Continues(s, Instructions(o))

Step(s) ==
  \/ NativeToWait(s) \/ NativeTextureEntry(s) \/ NativeMainPoll(s)
  \/ NativePendingBlank(s) \/ NativeEarlyPoll(s) \/ NativeTexturePoll(s)
  \/ NativeHandler(s) \/ NativeReturn(s) \/ NativeTimerSuffix(s)
  \/ OracleIterate(s)

Next == \E s \in Session : Step(s) \/ \E w \in Stepper : BeginCall(s, w)

Spec == Init /\ [][Next]_vars

\* A call is a loop of straight-line blocks: it goes on while it has not
\* returned.  Nothing is assumed of the caller.
FairSpec == Spec /\ \A s \in Session : WF_vars(Step(s))
-------------------------------------------------------------------------------
Pure(w) == {s \in Session : Steppers[s] = {w}}

\* Those of the stops q that are at the handler.
AtHandler(q) ==
  LET taken[i \in 0 .. Len(q)] ==
        IF i = 0 THEN <<>>
        ELSE IF q[i].place = "handler" THEN Append(taken[i - 1], q[i])
        ELSE taken[i - 1]
  IN taken[Len(q)]

HandlerStops(s) == AtHandler(stops[s])

Both(s, t) == 1 .. (IF Len(HandlerStops(s)) < Len(stops[t])
                    THEN Len(HandlerStops(s)) ELSE Len(stops[t]))

\* The oracle's frames are the native runtime's stops at the vector-12 handler,
\* in order: the same loop interrupted in the same wait, with the same frame
\* byte and request.  include/vf2/session.h promises it of the two steppers
\* started from one snapshot, and a digest of the work RAM stands or falls
\* with it, whatever loop the program waits in and whatever visits the wait
\* before left behind.
BoundariesAgree ==
  \A s \in Pure("native"), t \in Pure("oracle") : \A k \in Both(s, t) :
    LET n == HandlerStops(s)[k]
        o == stops[t][k] IN
    <<n.wait, n.from, n.byte, n.request>> = <<o.wait, o.from, o.byte, o.request>>

\* What the native count of reads falls short of the oracle's at frame k: the
\* seeded visit in the first frame of a resumed snapshot, and all reads of a
\* wait whose blank is due at once.
Shortfall(s, t, k) ==
  LET n == HandlerStops(s)[k]
      o == stops[t][k] IN
  IF script[n.wait] = "early" /\ n.byte = 0 THEN o.polls - n.polls
  ELSE IF k = 1 /\ family /\ script[n.wait] = "main" THEN 1 ELSE 0

\* Between two frames both steppers read the frame byte as often: the native
\* blocks, which compute a whole polling loop at once, carry the visit counted
\* at 0xd20 into the next wait, whichever loop that is in, as the oracle does
\* instruction by instruction.  Instruction counts are comparable only so.
PollsAgree ==
  \A s \in Pure("native"), t \in Pure("oracle") : \A k \in Both(s, t) :
    stops[t][k].polls = HandlerStops(s)[k].polls + Shortfall(s, t, k)

\* In the main loop the native runtime returns twice a frame, at the handler
\* and behind the wait: frame k of the oracle is frame 2k - 1 of the native
\* runtime, as docs/NATIVE_WINDOWS_PLAN.md:144 measured.
OddStopsAgree ==
  (\A i \in 1 .. Len(script) : script[i] = "main") =>
    \A s \in Pure("native"), t \in Pure("oracle") :
      \A k \in 1 .. Len(stops[t]) :
        2 * k - 1 <= Len(stops[s]) =>
          /\ stops[s][2 * k - 1].place = "handler"
          /\ stops[s][2 * k - 1].wait = stops[t][k].wait

\* No refusal of the frame-wait blocks (a byte that is not 0 before the wait,
\* unchanged or 2 behind it, a second interrupt on the way back) is met by a
\* session of one stepper, whatever its waits: it takes both steppers, each
\* with a wait state of its own, on one machine.
RefusalNeedsBoth ==
  \A s \in refused :
    \A w \in Stepper : \E i \in 1 .. Len(stops[s]) : stops[s][i].stepper = w

\* A call returns: no wait is polled for ever, although only the scheduler
\* the poll itself calls can end it.
CallsReturn ==
  \A s \in Session : call[s] # "none" ~> (call[s] = "none" \/ Ended(s))
===============================================================================
