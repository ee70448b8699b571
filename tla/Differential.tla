----------------------------- MODULE Differential -----------------------------
(***************************************************************************)
(* The native differential: two machines start equal, the recovered        *)
(* runtime advances one of them a block at a time and the interpreter      *)
(* advances the other by the instructions the block reports.  A single     *)
(* step and the strict runner compare everything after each block; the     *)
(* probe compares the instruction pointers after each block, everything    *)
(* when a cycle is back at its address, and undoes a cycle that fails.     *)
(*                                                                         *)
(* A side is what compare_live_state and the six counters look at: an      *)
(* address and the rest.  What a block does to either side is open, so the *)
(* recovered code may be wrong in every way.                               *)
(***************************************************************************)
EXTENDS Naturals

CONSTANTS
  Address, Home,      \* block entries, and the repeated address of the runs
  Data,               \* the rest of a side
  Wait,               \* the native frame-wait state: values of its visits
  Cycles,             \* cycle_count of a run
  MinBlocks, MaxBlocks

ASSUME RunAssumption ==
  /\ Cycles \in Nat \ {0}
  /\ MinBlocks \in Nat \ {0} /\ MaxBlocks \in Nat /\ MinBlocks <= MaxBlocks

Side == [at : Address, data : Data]

VARIABLES
  nat, ref,          \* the two sides
  wait,              \* native_state.frame_wait
  mode,              \* the call in progress: "idle", "step", "strict" or "probe"
  cycle, blocks,     \* completed cycles, blocks of the running one
  open,              \* the running cycle has passed its first comparison
  saved,             \* the probe's snapshot of the native side and its state
  began              \* both sides and the wait state as the cycle began

vars == <<nat, ref, wait, mode, cycle, blocks, open, saved, began>>
sides == <<nat, ref, wait>>

Now == [nat |-> nat, ref |-> ref, wait |-> wait]
Mode == {"step", "strict", "probe"}

TypeOK ==
  /\ nat \in Side /\ ref \in Side /\ wait \in Wait
  /\ mode \in Mode \cup {"idle"}
  /\ cycle \in 0 .. Cycles /\ blocks \in 0 .. MaxBlocks /\ open \in BOOLEAN
  /\ saved \in [nat : Side, wait : Wait]
  /\ began \in [nat : Side, ref : Side, wait : Wait]

Init ==
  /\ nat \in Side /\ ref \in Side /\ wait \in Wait
  /\ mode = "idle" /\ cycle = 0 /\ blocks = 0 /\ open = FALSE
  /\ saved = [nat |-> nat, wait |-> wait]
  /\ began = Now

-------------------------------------------------------------------------------
\* A call of _step, _run_cycles or _probe_cycles.
BeginRun(m) ==
  /\ mode = "idle"
  /\ mode' = m /\ cycle' = 0 /\ blocks' = 0
  /\ UNCHANGED <<nat, ref, wait, open, saved, began>>

\* The first comparison is made at each cycle by the strict runner, once a call
\* by the probe.
\* Mutant of ComparesFirst: only the strict runner and the step compare.
ComparesFirstNotInProbe == mode # "probe"

ComparesFirst == mode # "probe" \/ cycle = 0

\* The probe takes its snapshot, of the native side alone, at each cycle.
\* Mutant of OpenCycle: the first comparison of the addresses alone.
OpenCycleOnAddress ==
  /\ mode \in Mode /\ ~ open
  /\ ComparesFirst => nat.at = ref.at
  /\ began' = Now
  /\ open' = TRUE /\ blocks' = 0
  /\ saved' = IF mode = "probe" THEN [nat |-> nat, wait |-> wait] ELSE saved
  /\ UNCHANGED <<nat, ref, wait, mode, cycle>>

OpenCycle ==
  /\ mode \in Mode /\ ~ open
  /\ ComparesFirst => nat = ref
  /\ began' = Now
  /\ open' = TRUE /\ blocks' = 0
  /\ saved' = IF mode = "probe" THEN [nat |-> nat, wait |-> wait] ELSE saved
  /\ UNCHANGED <<nat, ref, wait, mode, cycle>>

RefuseStart ==
  /\ mode \in Mode /\ ~ open
  /\ ComparesFirst /\ nat # ref
  /\ mode' = "idle"
  /\ UNCHANGED <<nat, ref, wait, cycle, blocks, open, saved, began>>

\* No memory for the snapshot: nothing to restore, and nothing has moved.
CaptureFails ==
  /\ mode = "probe" /\ ~ open
  /\ ComparesFirst => nat = ref
  /\ mode' = "idle"
  /\ UNCHANGED <<nat, ref, wait, cycle, blocks, open, saved, began>>

\* Mutant of LoopGoesOn: one block too many.
LoopGoesOnOneLonger ==
  IF mode = "step" THEN blocks = 0
  ELSE (nat.at # Home \/ blocks < MinBlocks) /\ blocks <= MaxBlocks

LoopGoesOn ==
  IF mode = "step" THEN blocks = 0
  ELSE (nat.at # Home \/ blocks < MinBlocks) /\ blocks < MaxBlocks

\* A call that fails in n, r and w leaves them so; the probe puts both sides
\* back to the snapshot of the cycle, and the native state to its copy.
\* Mutant of Fail: the wait state is not put back.
FailKeepsWait(n, r, w) ==
  /\ mode' = "idle" /\ open' = FALSE
  /\ IF mode = "probe"
     THEN nat' = saved.nat /\ ref' = saved.nat /\ wait' = w
     ELSE nat' = n /\ ref' = r /\ wait' = w
  /\ UNCHANGED <<cycle, blocks, saved, began>>

Fail(n, r, w) ==
  /\ mode' = "idle" /\ open' = FALSE
  /\ IF mode = "probe"
     THEN nat' = saved.nat /\ ref' = saved.nat /\ wait' = saved.wait
     ELSE nat' = n /\ ref' = r /\ wait' = w
  /\ UNCHANGED <<cycle, blocks, saved, began>>

\* The native step refuses, perhaps after some of its writes, or reports no
\* instruction outside a frame wait.
NativeRefuses ==
  /\ open /\ LoopGoesOn
  /\ \E n \in Side, w \in Wait : Fail(n, ref, w)

\* An instruction of the reference fails, or retires another number than the
\* block reports.
ReferenceFalters ==
  /\ open /\ LoopGoesOn
  /\ \E n, r \in Side, w \in Wait : Fail(n, r, w)

\* The comparison after a block: a block of the kind FRAME_WAIT has left the
\* wait state w, and observing the reference left v.
Agree(n, r, w, v) ==
  /\ v = w
  /\ IF mode = "probe" THEN r.at = n.at ELSE r = n

\* Mutant of Block: the block is not counted.
BlockUncounted ==
  /\ open /\ LoopGoesOn
  /\ \E n, r \in Side, w, v \in Wait :
       IF Agree(n, r, w, v)
       THEN /\ nat' = n /\ ref' = r /\ wait' = w
            /\ UNCHANGED <<mode, cycle, blocks, open, saved, began>>
       ELSE Fail(n, r, w)

\* Both sides get through the block.  Only a frame wait touches the wait state;
\* if it retires nothing, the reference is given the interrupt instead.
Block ==
  /\ open /\ LoopGoesOn
  /\ \E n, r \in Side, w, v \in Wait :
       IF Agree(n, r, w, v)
       THEN /\ nat' = n /\ ref' = r /\ wait' = w
            /\ blocks' = blocks + 1
            /\ UNCHANGED <<mode, cycle, open, saved, began>>
       ELSE Fail(n, r, w)

\* The loop was left at the address after enough blocks, and not by the budget;
\* the probe makes its comparison now.
Arrived ==
  \/ mode = "step"
  \/ /\ nat.at = Home /\ ref.at = Home /\ blocks >= MinBlocks
     /\ mode = "probe" => nat = ref

CloseCycle ==
  /\ open /\ ~ LoopGoesOn
  /\ IF Arrived
     THEN /\ cycle' = cycle + 1 /\ open' = FALSE
          /\ mode' = IF mode # "step" /\ cycle + 1 < Cycles THEN mode ELSE "idle"
          /\ UNCHANGED <<nat, ref, wait, blocks, saved, began>>
     ELSE Fail(nat, ref, wait)

Advance ==
  OpenCycle \/ RefuseStart \/ CaptureFails \/ NativeRefuses \/ ReferenceFalters
  \/ Block \/ CloseCycle

Next == Advance \/ \E m \in Mode : BeginRun(m)

Spec == Init /\ [][Next]_vars

\* A call runs on; nothing is assumed of the caller.
FairSpec == Spec /\ WF_vars(Advance)

-------------------------------------------------------------------------------
\* Inside a cycle both sides stand at one address at every block, and the
\* strict runner's are equal in everything: the probe's test of the addresses
\* alone is enough for the reference to follow the block the native side takes.
\* (The runners test the addresses before each block as well; that never
\* fails.)
InStep ==
  open => /\ nat.at = ref.at
          /\ mode # "probe" => nat = ref

\* A probed cycle is a transaction on both sides and the native wait state: it
\* ends with the sides equal at the repeated address, or, by a refusal half-way,
\* a reference that falters or a difference seen only at its end, with all
\* three as the cycle began (include/vf2/native_differential.h:126), although
\* the snapshot holds one side only.
Transaction ==
  [][mode = "probe" /\ open /\ ~ open' =>
       \/ nat' = ref' /\ nat'.at = Home
       \/ Now' = began]_vars

\* A mismatch is not passed over later: what moves either side, or the wait
\* state, is a cycle that began with the sides equal, also in the probe, which
\* compares at the start of the first cycle only and restores one snapshot to
\* both sides.  Sides that a step or a strict run left different (a native
\* block refused after some of its writes) are moved by no later call.
ApartStaysPut ==
  [][Now' # Now => open /\ began.nat = began.ref]_vars

\* Every call returns: the block budget bounds a cycle that never comes home.
RunReturns == mode # "idle" ~> mode = "idle"
===============================================================================
