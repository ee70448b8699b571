------------------------------- MODULE CallStack ------------------------------
(***************************************************************************)
(* What calls, returns and interrupts promise the program: an activation   *)
(* that is suspended resumes where it stopped, with the locals, the stack  *)
(* pointer and the frame it had; one that an interrupt suspended also has  *)
(* its processor state and its condition bits back.                        *)
(***************************************************************************)
EXTENDS Integers, Sequences

CONSTANT Addr

VARIABLES
  ip, locals, sp, fp,     (* of the running activation                       *)
  int, ac,                (* interrupted state, condition bits               *)
  suspended               (* the suspended activations, oldest first         *)

vars == <<ip, locals, sp, fp, int, ac, suspended>>

Init == suspended = << >> /\ ~int

(* The program works: on its locals, its stack pointer, the condition bits. *)
Step == UNCHANGED <<fp, int, suspended>>

(* What resuming gives back.  A call leaves the processor state alone.      *)
Call(resume) ==
  /\ suspended' = Append(suspended,
       [kind |-> "call", ip |-> resume, locals |-> locals, sp |-> sp,
        fp |-> fp, int |-> FALSE, ac |-> 0])
  /\ UNCHANGED <<int, ac>>

Interrupt ==
  /\ suspended' = Append(suspended,
       [kind |-> "interrupt", ip |-> ip, locals |-> locals, sp |-> sp,
        fp |-> fp, int |-> int, ac |-> ac])
  /\ int' = TRUE
  /\ UNCHANGED ac

Resume ==
  /\ suspended # << >>
  /\ LET top == suspended[Len(suspended)] IN
       /\ ip' = top.ip /\ locals' = top.locals
       /\ sp' = top.sp /\ fp' = top.fp
       /\ IF top.kind = "interrupt"
            THEN int' = top.int /\ ac' = top.ac
            ELSE UNCHANGED <<int, ac>>
  /\ suspended' = SubSeq(suspended, 1, Len(suspended) - 1)

Next == Step \/ (\E resume \in Addr : Call(resume)) \/ Interrupt \/ Resume

Spec == Init /\ [][Next]_vars
===============================================================================
