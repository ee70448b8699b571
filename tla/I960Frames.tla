------------------------------ MODULE I960Frames ------------------------------
(***************************************************************************)
(* Calls, returns and interrupts of the i960 interpreter (executor.c).     *)
(*                                                                         *)
(* A call saves the sixteen local registers in the CPU's frame array and   *)
(* gives the callee a fresh window whose r0 names the caller's frame and   *)
(* the kind of the call.  An interrupt does the same and also writes the   *)
(* process and arithmetic controls to memory, just below the new frame: on *)
(* the stack in use when the CPU is in the interrupted state, and on the   *)
(* interrupt stack otherwise, which is where the main program runs as well *)
(* (vf2_i960_cpu_reset_from_machine).  The condition of the last compare   *)
(* is kept twice: in the low bits of the arithmetic controls, and in a     *)
(* cell of its own, which the conditional branches read.                   *)
(*                                                                         *)
(* Stack addresses count units of 16 bytes: a frame is aligned to 4 of     *)
(* them, its register area takes 4, an interrupt record takes 1.  Of the   *)
(* process controls only the interrupted bit (0x2000) is kept, which the   *)
(* program's modpc leaves alone; the global registers are the program's    *)
(* own to save.                                                            *)
(***************************************************************************)
EXTENDS Integers, Sequences

CONSTANTS
  Addr,          (* instruction addresses                                    *)
  Start,         (* where the program starts                                 *)
  NoAddr,        (* a cleared r2                                             *)
  Locals,        (* values of r3..r15                                        *)
  Zero,          (* all of them cleared                                      *)
  Compared,      (* conditions the program's compares come out at            *)
  Latched,       (* conditions its other instructions put in the cell alone  *)
  Carried,       (* bits its carries and modac put in the controls alone     *)
  Size,          (* units the program takes from the stack at a time         *)
  InterruptStack,(* the word at PRCB + 24, in units (0x5ff500 / 16)          *)
  MaxFrames,     (* entries of the frame array (128)                         *)
  StackLimit     (* bound: the last unit of stack memory                     *)

VARIABLES
  ip,
  window,        (* the local registers: r0 as pfp and kind, r1, r2, r3..r15 *)
  fp,            (* g15                                                      *)
  frames,        (* local_frames[0 .. local_frame_depth - 1]                 *)
  int,           (* process control, bit 0x2000                              *)
  ac,            (* arithmetic control, bits 0..2                            *)
  cc,            (* compare_result                                           *)
  mem            (* stack memory, as the interrupt record it reads as        *)

vars == <<ip, window, fp, frames, int, ac, cc, mem>>

Unit      == 0 .. StackLimit
CondBits  == 0 .. 7
Condition == {"none", "less", "equal", "greater", "overflow"}
Window    == [pfp : Unit, kind : {"call", "interrupt"}, sp : Unit,
              rip : Addr \cup {NoAddr}, locals : Locals]
Record    == [int : BOOLEAN, ac : CondBits]
Data      == [int |-> FALSE, ac |-> 0]           \* what anything else reads as

ASSUME FrameAssumption ==
  /\ Start \in Addr
  /\ Zero \in Locals
  /\ Compared \subseteq Condition \ {"overflow"}
  /\ Latched \subseteq {"none", "equal", "overflow"}
  /\ Carried \subseteq CondBits
  /\ Size \subseteq Nat
  /\ InterruptStack \in Nat /\ InterruptStack % 4 = 0
  /\ MaxFrames \in Nat
  /\ StackLimit \in Nat /\ InterruptStack + 4 <= StackLimit

TypeOK ==
  /\ ip \in Addr
  /\ window \in Window
  /\ fp \in Unit
  /\ frames \in Seq(Window) /\ Len(frames) <= MaxFrames
  /\ int \in BOOLEAN
  /\ ac \in CondBits
  /\ cc \in Condition
  /\ mem \in [Unit -> Record]

Init ==
  /\ ip = Start
  /\ window = [pfp |-> 0, kind |-> "call", sp |-> InterruptStack + 4,
               rip |-> NoAddr, locals |-> Zero]
  /\ fp = InterruptStack
  /\ frames = << >>
  /\ int = FALSE
  /\ ac = 0 /\ cc = "none"
  /\ mem = [u \in Unit |-> Data]

-----------------------------------------------------------------------------
(* The running program. *)

(* align_stack_frame, and & ~63. *)
AlignUp(u)   == ((u + 3) \div 4) * 4
AlignDown(u) == (u \div 4) * 4

Bits(c) ==
  CASE c = "less" -> 4 [] c = "equal" -> 2 [] c = "greater" -> 1 [] OTHER -> 0

(* Any instruction that ends with a new ip and new locals. *)
Execute(next, values) ==
  /\ ip' = next
  /\ window' = [window EXCEPT !.locals = values]
  /\ UNCHANGED <<fp, frames, int, ac, cc, mem>>

(* cmpo, cmpi, chkbit, compare-and-branch. *)
Compare(c) ==
  /\ cc' = c /\ ac' = Bits(c)
  /\ UNCHANGED <<ip, window, fp, frames, int, mem>>

(* scanbit, spanbit, a mulo that overflows, synmov: the cell alone. *)
Latch(c) ==
  /\ cc' = c
  /\ UNCHANGED <<ip, window, fp, frames, int, ac, mem>>

(* addc, subc, modac: the control bits alone. *)
Carry(bits) ==
  /\ ac' = bits
  /\ UNCHANGED <<ip, window, fp, frames, int, cc, mem>>

(* The program takes stack memory, and stores in what it has taken. *)
Allocate(n) ==
  /\ window.sp + n <= StackLimit
  /\ window' = [window EXCEPT !.sp = @ + n]
  /\ UNCHANGED <<ip, fp, frames, int, ac, cc, mem>>

Spill(u) ==
  /\ fp + 4 <= u /\ u < window.sp
  /\ mem' = [mem EXCEPT ![u] = Data]
  /\ UNCHANGED <<ip, window, fp, frames, int, ac, cc>>

-----------------------------------------------------------------------------
(* No test for a full frame array. *)
EnterUnbounded(target, resume, kind, stack) ==
  LET new == AlignUp(stack) IN
  /\ new + 4 <= StackLimit
  /\ frames' = Append(frames, [window EXCEPT !.rip = resume])
  /\ window' = [pfp |-> fp, kind |-> kind, sp |-> new + 4,
                rip |-> NoAddr, locals |-> Zero]
  /\ fp' = new
  /\ ip' = target

(* procedure_call_typed.  A full frame array refuses and changes nothing.   *)
Enter(target, resume, kind, stack) ==
  LET new == AlignUp(stack) IN
  /\ Len(frames) < MaxFrames
  /\ new + 4 <= StackLimit
  /\ frames' = Append(frames, [window EXCEPT !.rip = resume])
  /\ window' = [pfp |-> fp, kind |-> kind, sp |-> new + 4,
                rip |-> NoAddr, locals |-> Zero]
  /\ fp' = new
  /\ ip' = target

Call(target, resume) ==
  /\ Enter(target, resume, "call", window.sp)
  /\ UNCHANGED <<int, ac, cc, mem>>

(* An interrupt that never looks at the processor state. *)
EnterInterruptAlwaysSwitches(handler) ==
  /\ Enter(handler, ip, "interrupt", AlignUp(InterruptStack) + 4)
  /\ mem' = [mem EXCEPT ![fp' - 1] = [int |-> int, ac |-> ac]]
  /\ int' = TRUE
  /\ UNCHANGED <<ac, cc>>

(* A nested interrupt that leaves no room for its record. *)
EnterInterruptUnpadded(handler) ==
  /\ Enter(handler, ip, "interrupt", IF int THEN window.sp ELSE InterruptStack + 4)
  /\ mem' = [mem EXCEPT ![fp' - 1] = [int |-> int, ac |-> ac]]
  /\ int' = TRUE
  /\ UNCHANGED <<ac, cc>>

(* vf2_i960_cpu_enter_interrupt: the frame lies a register area above the   *)
(* stack in use, which leaves the room of the record.                       *)
EnterInterrupt(handler) ==
  LET stack == IF int THEN window.sp ELSE InterruptStack IN
  /\ Enter(handler, ip, "interrupt", AlignUp(stack) + 4)
  /\ mem' = [mem EXCEPT ![fp' - 1] = [int |-> int, ac |-> ac]]
  /\ int' = TRUE
  /\ UNCHANGED <<ac, cc>>

(* procedure_return.  With no frame left it refuses and changes nothing.    *)
Return ==
  LET caller == frames[Len(frames)]
      saved  == mem[fp - 1]
  IN
  /\ frames # << >>
  /\ frames' = SubSeq(frames, 1, Len(frames) - 1)
  /\ window' = caller
  /\ fp' = AlignDown(window.pfp)
  /\ ip' = caller.rip
  /\ IF window.kind = "interrupt"
       THEN int' = saved.int /\ ac' = saved.ac
       ELSE UNCHANGED <<int, ac>>
  /\ UNCHANGED <<cc, mem>>

Next ==
  \/ \E next \in Addr, values \in Locals : Execute(next, values)
  \/ \E c \in Compared : Compare(c)
  \/ \E c \in Latched : Latch(c)
  \/ \E bits \in Carried : Carry(bits)
  \/ \E n \in Size : Allocate(n)
  \/ \E u \in Unit : Spill(u)
  \/ \E target, resume \in Addr : Call(target, resume)
  \/ \E handler \in Addr : EnterInterrupt(handler)
  \/ Return

Spec == Init /\ [][Next]_vars

-----------------------------------------------------------------------------
(* Activation k of the program: the suspended ones, then the running one.   *)
Depth      == Len(frames) + 1
Activation == 1 .. Depth
W(k)       == IF k = Depth THEN window ELSE frames[k]
FP(k)      == IF k = Depth THEN fp ELSE W(k + 1).pfp
Handlers   == {k \in Activation : W(k).kind = "interrupt"}

(* The records of the nested interrupts lie outside the memory any handler  *)
(* on the stack has taken: neither an interrupt nor a store of a handler    *)
(* destroys what another needs.                                             *)
RecordsApart ==
  \A h \in Handlers, k \in Activation :
    (\E outer \in Handlers : outer <= k) =>
      ~(FP(k) + 4 <= FP(h) - 1 /\ FP(h) - 1 < W(k).sp)

(* Calls and interrupts nest: whatever the program stores in its stack,     *)
(* each return gives the interrupted or calling activation back.            *)
Suspended(k) ==
  LET by     == W(k + 1).kind
      record == IF by = "interrupt" THEN mem[FP(k + 1) - 1] ELSE Data
  IN [kind |-> by, ip |-> W(k).rip, locals |-> W(k).locals, sp |-> W(k).sp,
      fp |-> FP(k), int |-> record.int, ac |-> record.ac]

Stack == INSTANCE CallStack WITH
  locals    <- window.locals,
  sp        <- window.sp,
  suspended <- [k \in 1 .. Len(frames) |-> Suspended(k)]

StackSpec == Stack!Spec

-----------------------------------------------------------------------------
(* "after an integer compare (cc LESS/EQUAL/GREATER, AC low bits in         *)
(* lockstep)" (i960/executor_arch.c:287).  Of a program that neither        *)
(* latches nor carries, so that every condition is a compare's.             *)
LockStep == cc \in {"less", "equal", "greater"} => ac = Bits(cc)
===============================================================================
