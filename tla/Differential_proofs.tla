-------------------------- MODULE Differential_proofs --------------------------
(***************************************************************************)
(* What the native differential promises, for all blocks, budgets and      *)
(* cycle counts: type correctness, lock step of the addresses, the rollback *)
(* of a probed cycle, and that apart sides stay where they are.            *)
(***************************************************************************)
EXTENDS Differential, TLAPS

\* The strengthening: what an open cycle knows of its start, and what the
\* probe may skip at the start of a later cycle.
OpenOnlyInCall == mode = "idle" => ~ open
CyclesLeft == mode # "idle" => cycle < Cycles
OpenedEqual == open => began.nat = began.ref
SavedAsBegan ==
  open /\ mode = "probe" => saved.nat = began.nat /\ saved.wait = began.wait
EqualBetweenCycles == mode = "probe" /\ cycle > 0 /\ ~ open => nat = ref

IInv ==
  /\ TypeOK /\ InStep
  /\ OpenOnlyInCall /\ CyclesLeft
  /\ OpenedEqual /\ SavedAsBegan /\ EqualBetweenCycles

\* A new state starts a cycle only from equal sides.
LEMMA ComparedAtStart ==
  ASSUME IInv, mode \in Mode, ~ open, ComparesFirst => nat = ref
  PROVE  nat = ref
BY DEF IInv, TypeOK, EqualBetweenCycles, ComparesFirst, Mode

\* The starting state: two sides of any kind, no call.
LEMMA InitIInv == Init => IInv
<1> SUFFICES ASSUME Init PROVE IInv
    OBVIOUS
<1>1. TypeOK
  <2>1. /\ saved \in [nat : Side, wait : Wait]
        /\ began \in [nat : Side, ref : Side, wait : Wait]
        BY DEF Init, Now
  <2>2. cycle \in 0 .. Cycles /\ blocks \in 0 .. MaxBlocks
        BY RunAssumption DEF Init
  <2>3. QED
        BY <2>1, <2>2 DEF Init, TypeOK
<1>2. QED
      BY <1>1 DEF Init, IInv, InStep, OpenOnlyInCall, CyclesLeft, OpenedEqual,
                  SavedAsBegan, EqualBetweenCycles

\* A failing step: the call is over, and the probe is back at its snapshot.
LEMMA FailIInv ==
  ASSUME IInv, NEW n \in Side, NEW r \in Side, NEW w \in Wait, Fail(n, r, w)
  PROVE  IInv'
<1>1. TypeOK'
      BY DEF IInv, TypeOK, Fail
<1>2. QED
      BY <1>1 DEF Fail, IInv, InStep, OpenOnlyInCall, CyclesLeft, OpenedEqual,
                  SavedAsBegan, EqualBetweenCycles

LEMMA BeginRunIInv ==
  ASSUME IInv, NEW m \in Mode, BeginRun(m)
  PROVE  IInv'
<1>1. TypeOK'
      BY RunAssumption DEF IInv, TypeOK, BeginRun
<1>2. QED
      BY <1>1, RunAssumption
      DEF BeginRun, IInv, InStep, OpenOnlyInCall, CyclesLeft, OpenedEqual,
          SavedAsBegan, EqualBetweenCycles

LEMMA OpenCycleIInv ==
  ASSUME IInv, OpenCycle
  PROVE  IInv'
<1>1. nat = ref
      BY ComparedAtStart DEF OpenCycle
<1>2. TypeOK'
      BY RunAssumption DEF IInv, TypeOK, OpenCycle, Now
<1>3. mode # "idle"
      BY DEF OpenCycle, Mode
<1>4. QED
      BY <1>1, <1>2, <1>3
      DEF OpenCycle, Now, IInv, InStep, OpenOnlyInCall, CyclesLeft, OpenedEqual,
          SavedAsBegan, EqualBetweenCycles

LEMMA BlockIInv ==
  ASSUME IInv, Block
  PROVE  IInv'
<1>1. PICK n \in Side, r \in Side, w \in Wait, v \in Wait :
        IF Agree(n, r, w, v)
        THEN /\ nat' = n /\ ref' = r /\ wait' = w
             /\ blocks' = blocks + 1
             /\ UNCHANGED <<mode, cycle, open, saved, began>>
        ELSE Fail(n, r, w)
      BY DEF Block
<1>2. CASE ~ Agree(n, r, w, v)
      BY <1>1, <1>2, FailIInv
<1>3. CASE Agree(n, r, w, v)
  <2>1. blocks + 1 \in 0 .. MaxBlocks
        BY RunAssumption DEF Block, LoopGoesOn, IInv, TypeOK
  <2>2. TypeOK'
        BY <1>1, <1>3, <2>1 DEF IInv, TypeOK
  <2>3. n.at = r.at /\ (mode # "probe" => n = r)
        BY <1>3 DEF Agree
  <2>4. QED
        BY <1>1, <1>3, <2>2, <2>3
        DEF Block, IInv, InStep, OpenOnlyInCall, CyclesLeft, OpenedEqual,
            SavedAsBegan, EqualBetweenCycles
<1>4. QED
      BY <1>2, <1>3

LEMMA CloseCycleIInv ==
  ASSUME IInv, CloseCycle
  PROVE  IInv'
<1>1. nat \in Side /\ ref \in Side /\ wait \in Wait
      BY DEF IInv, TypeOK
<1>2. CASE ~ Arrived
      BY <1>1, <1>2, FailIInv DEF CloseCycle
<1>3. CASE Arrived
  <2>1. mode # "idle"
        BY DEF CloseCycle, IInv, OpenOnlyInCall
  <2>2. cycle + 1 \in 0 .. Cycles
        BY <2>1, RunAssumption DEF IInv, TypeOK, CyclesLeft
  <2>3. TypeOK'
        BY <1>3, <2>2 DEF CloseCycle, IInv, TypeOK
  <2>4. mode = "probe" => nat = ref
        BY <1>3 DEF Arrived
  <2>5. mode' # "idle" => cycle' < Cycles
        BY <1>3 DEF CloseCycle
  <2>6. QED
        BY <1>3, <2>3, <2>4, <2>5
        DEF CloseCycle, IInv, InStep, OpenOnlyInCall, CyclesLeft, OpenedEqual,
            SavedAsBegan, EqualBetweenCycles
<1>4. QED
      BY <1>2, <1>3

\* The invariant is kept by every step.
LEMMA NextIInv == IInv /\ [Next]_vars => IInv'
<1> SUFFICES ASSUME IInv, [Next]_vars PROVE IInv'
    OBVIOUS
<1>1. CASE UNCHANGED vars
      BY <1>1 DEF vars, IInv, TypeOK, InStep, OpenOnlyInCall, CyclesLeft,
                  OpenedEqual, SavedAsBegan, EqualBetweenCycles
<1>2. ASSUME NEW m \in Mode, BeginRun(m) PROVE IInv'
      BY <1>2, BeginRunIInv
<1>3. CASE OpenCycle
      BY <1>3, OpenCycleIInv
<1>4. CASE RefuseStart \/ CaptureFails
  <2>1. TypeOK'
        BY <1>4 DEF RefuseStart, CaptureFails, IInv, TypeOK
  <2>2. QED
        BY <1>4, <2>1
        DEF RefuseStart, CaptureFails, IInv, InStep, OpenOnlyInCall, CyclesLeft,
            OpenedEqual, SavedAsBegan, EqualBetweenCycles
<1>5. CASE NativeRefuses
      BY <1>5, FailIInv DEF NativeRefuses, IInv, TypeOK
<1>6. CASE ReferenceFalters
      BY <1>6, FailIInv DEF ReferenceFalters
<1>7. CASE Block
      BY <1>7, BlockIInv
<1>8. CASE CloseCycle
      BY <1>8, CloseCycleIInv
<1>9. QED
      BY <1>1, <1>2, <1>3, <1>4, <1>5, <1>6, <1>7, <1>8 DEF Next, Advance

LEMMA Invariance == Spec => []IInv
BY InitIInv, NextIInv, PTL DEF Spec

-------------------------------------------------------------------------------
\* Every call keeps the sides, the counters and the snapshot within their sets:
\* no cycle runs past its block budget, no call past its cycles.
THEOREM TypeCorrect == Spec => []TypeOK
<1>1. IInv => TypeOK
      BY DEF IInv
<1>2. QED
      BY Invariance, <1>1, PTL

\* Between two blocks of a cycle both sides stand at one address, and those of
\* the strict runner and of a step are equal (native_differential.c:211).
THEOREM LockStep == Spec => []InStep
<1>1. IInv => InStep
      BY DEF IInv
<1>2. QED
      BY Invariance, <1>1, PTL

\* The probe undoes a cycle that fails, on both sides, from the snapshot of one
\* of them (native_differential.c:718).
THEOREM Rollback == Spec => Transaction
<1>1. ASSUME IInv, Next, mode = "probe", open, ~ open'
      PROVE  (nat' = ref' /\ nat'.at = Home) \/ Now' = began
  <2>1. began = [nat |-> saved.nat, ref |-> saved.nat, wait |-> saved.wait]
        BY <1>1 DEF IInv, TypeOK, OpenedEqual, SavedAsBegan
  <2>2. ASSUME NEW n \in Side, NEW r \in Side, NEW w \in Wait, Fail(n, r, w)
        PROVE  Now' = began
        BY <1>1, <2>1, <2>2 DEF Fail, Now
  <2>3. CASE NativeRefuses
        BY <2>2, <2>3, <1>1 DEF NativeRefuses, IInv, TypeOK
  <2>4. CASE ReferenceFalters
        BY <2>2, <2>4 DEF ReferenceFalters
  <2>5. CASE Block
        BY <2>2, <2>5, <1>1 DEF Block
  <2>6. CASE CloseCycle
    <3>1. CASE Arrived
          BY <1>1, <2>6, <3>1 DEF CloseCycle, Arrived
    <3>2. CASE ~ Arrived
          BY <1>1, <2>2, <2>6, <3>2 DEF CloseCycle, IInv, TypeOK
    <3>3. QED
          BY <3>1, <3>2
  <2>7. CASE OpenCycle \/ RefuseStart \/ CaptureFails
        BY <1>1, <2>7 DEF OpenCycle, RefuseStart, CaptureFails
  <2>8. CASE \E m \in Mode : BeginRun(m)
        BY <1>1, <2>8 DEF BeginRun
  <2>9. QED
        BY <1>1, <2>3, <2>4, <2>5, <2>6, <2>7, <2>8 DEF Next, Advance
<1>2. ASSUME IInv, [Next]_vars
      PROVE  [mode = "probe" /\ open /\ ~ open' =>
                \/ nat' = ref' /\ nat'.at = Home
                \/ Now' = began]_vars
      BY <1>1, <1>2
<1>3. QED
      BY Invariance, <1>2, PTL DEF Spec, Transaction

\* Only a cycle that began with equal sides moves them (native_differential.c
\* compares at the start of every step and strict cycle, and of the probe's
\* first).
THEOREM ApartRest == Spec => ApartStaysPut
<1>1. ASSUME IInv, Next, Now' # Now
      PROVE  open /\ began.nat = began.ref
  <2>1. CASE open
        BY <1>1, <2>1 DEF IInv, OpenedEqual
  <2>2. CASE ~ open
    <3>1. CASE OpenCycle \/ RefuseStart \/ CaptureFails
          BY <1>1, <3>1 DEF OpenCycle, RefuseStart, CaptureFails, Now
    <3>2. CASE \E m \in Mode : BeginRun(m)
          BY <1>1, <3>2 DEF BeginRun, Now
    <3>3. QED
          BY <1>1, <2>2, <3>1, <3>2
          DEF Next, Advance, NativeRefuses, ReferenceFalters, Block, CloseCycle
  <2>3. QED
        BY <2>1, <2>2
<1>2. ASSUME IInv, [Next]_vars
      PROVE  [Now' # Now => open /\ began.nat = began.ref]_vars
      BY <1>1, <1>2
<1>3. QED
      BY Invariance, <1>2, PTL DEF Spec, ApartStaysPut
===============================================================================
