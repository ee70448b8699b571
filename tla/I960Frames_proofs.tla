-------------------------- MODULE I960Frames_proofs --------------------------
(***************************************************************************)
(* The frame stack for every size of the frame array and of the stack,     *)
(* every program and every nesting of calls and interrupts.                *)
(***************************************************************************)
EXTENDS I960Frames, SequenceTheorems, TLAPS

(* Every frame is aligned and ends below its stack pointer; from the        *)
(* outermost handler on the frames lie above one another, with a unit for   *)
(* the record below each handler; a record says whether its interrupt was   *)
(* nested; the processor is in the interrupted state while a handler runs.  *)
Aligned ==
  \A k \in Activation : FP(k) \in Unit /\ FP(k) % 4 = 0 /\ FP(k) + 4 <= W(k).sp

Stacked ==
  \A outer \in Handlers, k, j \in Activation :
    outer <= k /\ k < j =>
      /\ W(k).sp <= FP(j)
      /\ j \in Handlers => W(k).sp < FP(j)

Recorded ==
  \A h \in Handlers :
    /\ 4 <= FP(h)
    /\ mem[FP(h) - 1].int <=> \E g \in Handlers : g < h

Resumable == \A k \in 1 .. Len(frames) : frames[k].rip \in Addr

StackInv ==
  /\ Resumable
  /\ Aligned
  /\ Stacked
  /\ Recorded
  /\ int <=> Handlers # {}

(***************************************************************************)
(* Types.                                                                  *)
(***************************************************************************)
LEMMA AlignFacts ==
  ASSUME NEW u \in Nat
  PROVE  /\ AlignUp(u) \in Nat /\ AlignUp(u) % 4 = 0
         /\ u <= AlignUp(u) /\ AlignUp(u) < u + 4
         /\ AlignDown(u) \in Nat /\ AlignDown(u) <= u
         /\ u % 4 = 0 => AlignDown(u) = u
  BY DEF AlignUp, AlignDown

LEMMA AlignAbove ==
  ASSUME NEW u \in Nat
  PROVE  /\ AlignUp(u) + 4 \in Nat /\ 4 <= AlignUp(u) + 4 /\ u < AlignUp(u) + 4
  <1>1. AlignUp(u) \in Nat /\ u <= AlignUp(u)
    BY AlignFacts
  <1> QED
    BY <1>1

LEMMA UnitFacts ==
  ASSUME NEW u \in Unit
  PROVE  u \in Nat /\ (4 <= u => u - 1 \in Unit) /\ u + 4 <= u + 4
  BY FrameAssumption DEF Unit

(***************************************************************************)
(* What a call and a return do to the activations: a new one on top of the *)
(* same ones, and the same ones without the top.                           *)
(***************************************************************************)
LEMMA DepthType ==
  ASSUME TypeOK
  PROVE  /\ Len(frames) \in Nat /\ Depth \in Nat /\ Depth >= 1
         /\ \A k \in Activation : W(k) \in Window
  BY DEF TypeOK, Depth, Activation, W

LEMMA EnterView ==
  ASSUME TypeOK, NEW target \in Addr, NEW resume \in Addr,
         NEW kind \in {"call", "interrupt"}, NEW stack \in Nat,
         Enter(target, resume, kind, stack)
  PROVE  /\ Depth' = Depth + 1
         /\ frames' \in Seq(Window) /\ Len(frames') = Len(frames) + 1
         /\ \A k \in 1 .. Len(frames) : frames'[k] = frames[k]
         /\ frames'[Depth] = [window EXCEPT !.rip = resume]
         /\ fp' \in Unit /\ fp' % 4 = 0 /\ stack <= fp' /\ fp' + 4 <= StackLimit
         /\ window' \in Window
         /\ window'.kind = kind /\ window'.sp = fp' + 4 /\ window'.pfp = fp
  <1> DEFINE new == AlignUp(stack)
  <1>1. new \in Nat /\ new % 4 = 0 /\ stack <= new
    BY AlignFacts
  <1>2. fp' = new /\ new + 4 <= StackLimit
    BY DEF Enter
  <1>3. new \in Unit /\ new + 4 \in Unit
    BY <1>1, <1>2, FrameAssumption DEF Unit
  <1>4. window' = [pfp |-> fp, kind |-> kind, sp |-> new + 4,
                   rip |-> NoAddr, locals |-> Zero]
    BY DEF Enter
  <1>5. window' \in Window
    BY <1>3, <1>4, FrameAssumption DEF Window, TypeOK
  <1>6. [window EXCEPT !.rip = resume] \in Window
    BY DEF TypeOK, Window
  <1>7. frames' = Append(frames, [window EXCEPT !.rip = resume])
    BY DEF Enter
  <1>8. /\ frames' \in Seq(Window) /\ Len(frames') = Len(frames) + 1
        /\ \A k \in 1 .. Len(frames) : frames'[k] = frames[k]
        /\ frames'[Len(frames) + 1] = [window EXCEPT !.rip = resume]
    BY <1>6, <1>7 DEF TypeOK
  <1> QED
    BY <1>1, <1>2, <1>3, <1>4, <1>5, <1>8 DEF Depth

LEMMA EnterActivations ==
  ASSUME TypeOK, NEW target \in Addr, NEW resume \in Addr,
         NEW kind \in {"call", "interrupt"}, NEW stack \in Nat,
         Enter(target, resume, kind, stack)
  PROVE  /\ Activation' = Activation \cup {Depth + 1}
         /\ \A k \in Activation : FP(k)' = FP(k) /\ W(k)'.kind = W(k).kind
                                 /\ W(k)'.sp = W(k).sp /\ W(k)'.locals = W(k).locals
         /\ \A k \in Nat : k = Depth + 1 => FP(k)' = fp' /\ W(k)' = window'
  <1>1. Len(frames) \in Nat /\ Depth = Len(frames) + 1
    BY DepthType DEF Depth
  <1>2. Depth' = Depth + 1 /\ Len(frames') = Len(frames) + 1
    BY EnterView
  <1>3. Activation' = Activation \cup {Depth + 1}
    BY <1>1, <1>2 DEF Activation
  <1>4. ASSUME NEW k \in Activation
        PROVE  W(k)' = IF k = Depth THEN [window EXCEPT !.rip = resume] ELSE W(k)
    BY <1>1, <1>2, EnterView DEF Activation, W
  <1>5. ASSUME NEW k \in Nat, k = Depth + 1
        PROVE  W(k)' = window' /\ FP(k)' = fp'
    BY <1>1, <1>2, <1>5 DEF W, FP
  <1>6. ASSUME NEW k \in Activation
        PROVE  W(k)'.kind = W(k).kind /\ W(k)'.sp = W(k).sp /\ W(k)'.locals = W(k).locals
    BY <1>4 DEF W, TypeOK, Window
  <1>7. ASSUME NEW k \in Activation PROVE FP(k)' = FP(k)
    <2>1. CASE k = Depth
      <3>1. FP(k)' = W(k + 1)'.pfp
        BY <1>1, <1>2, <2>1 DEF FP
      <3>2. k + 1 \in Nat /\ k + 1 = Depth + 1
        BY <1>1, <2>1
      <3>3. W(k + 1)' = window'
        BY <3>2, <1>5
      <3>4. window'.pfp = fp
        BY EnterView
      <3> QED
        BY <2>1, <3>1, <3>3, <3>4 DEF FP
    <2>2. CASE k # Depth
      <3>1. k + 1 \in Activation
        BY <1>1, <2>2 DEF Activation
      <3>2. FP(k)' = W(k + 1)'.pfp /\ FP(k) = W(k + 1).pfp
        BY <1>1, <1>2, <2>2 DEF FP, Activation
      <3>3. W(k + 1)'.pfp = W(k + 1).pfp
        BY <1>4, <3>1 DEF W, TypeOK, Window
      <3> QED
        BY <3>2, <3>3
    <2> QED
      BY <2>1, <2>2
  <1> QED
    BY <1>3, <1>5, <1>6, <1>7

LEMMA ButLast ==
  ASSUME NEW n \in Nat, n # 0
  PROVE  /\ n - 1 \in Nat /\ (n - 1) - 1 + 1 = n - 1
         /\ 1 > n - 1 => n - 1 = 0
         /\ \A i \in 1 .. n - 1 : 1 + i - 1 = i
  OBVIOUS

LEMMA ReturnView ==
  ASSUME TypeOK, StackInv, Return
  PROVE  /\ Depth' = Depth - 1 /\ Depth' \in Activation
         /\ Activation' = Activation \ {Depth}
         /\ \A k \in Activation' : FP(k)' = FP(k) /\ W(k)' = W(k)
         /\ fp' = FP(Depth - 1) /\ window' = W(Depth - 1)
         /\ frames' \in Seq(Window) /\ Len(frames') = Len(frames) - 1
         /\ \A k \in 1 .. Len(frames') : frames'[k] = frames[k]
  <1> DEFINE n == Len(frames)
  <1>1. n \in Nat /\ n # 0 /\ Depth = n + 1
    BY DepthType DEF Depth, Return, TypeOK
  <1>2. frames' = SubSeq(frames, 1, n - 1) /\ window' = frames[n]
        /\ fp' = AlignDown(window.pfp)
    BY DEF Return
  <1>3. frames' \in Seq(Window) /\ Len(frames') = n - 1
        /\ \A k \in 1 .. n - 1 : frames'[k] = frames[k]
    <2>1. \A i \in 1 .. n - 1 : frames[i] \in Window
      BY <1>1 DEF TypeOK
    <2>2. n - 1 \in Int /\ 1 \in Int
      BY <1>1
    <2>3. /\ SubSeq(frames, 1, n - 1) \in Seq(Window)
          /\ Len(SubSeq(frames, 1, n - 1)) = IF 1 <= n - 1 THEN (n - 1) - 1 + 1 ELSE 0
          /\ \A i \in 1 .. (n - 1) - 1 + 1 :
               SubSeq(frames, 1, n - 1)[i] = frames[1 + i - 1]
      BY <2>1, <2>2, SubSeqProperties
    <2>4. /\ (n - 1) - 1 + 1 = n - 1
          /\ ~(1 <= n - 1) => n - 1 = 0
          /\ \A i \in 1 .. n - 1 : 1 + i - 1 = i
      <3> HIDE DEF n
      <3> QED
        BY <1>1, ButLast
    <2>6. frames' \in Seq(Window) /\ Len(frames') = n - 1
      BY <1>2, <2>3, <2>4
    <2>7. ASSUME NEW k \in 1 .. n - 1 PROVE frames'[k] = frames[k]
      <3>1. k \in 1 .. (n - 1) - 1 + 1
        BY <2>4
      <3>2. frames'[k] = frames[1 + k - 1]
        BY <1>2, <2>3, <3>1
      <3> QED
        BY <2>4, <3>2
    <2> QED
      BY <2>6, <2>7
  <1>4. Depth' = n
    BY <1>1, <1>3 DEF Depth
  <1>5. Activation' = 1 .. n /\ Activation = 1 .. n + 1
    BY <1>1, <1>4 DEF Activation
  <1>6. window' = W(n)
    BY <1>1, <1>2 DEF W
  <1>7. fp' = FP(n)
    <2>1. FP(n) = window.pfp
      BY <1>1 DEF FP, W
    <2>2. FP(n) \in Nat /\ FP(n) % 4 = 0
      BY <1>1, <1>5, FrameAssumption DEF StackInv, Aligned, Unit
    <2> QED
      BY <1>2, <2>1, <2>2, AlignFacts
  <1>8. ASSUME NEW k \in Activation' PROVE W(k)' = W(k)
    BY <1>1, <1>3, <1>4, <1>5, <1>6 DEF W
  <1>9. ASSUME NEW k \in Activation' PROVE FP(k)' = FP(k)
    <2>1. CASE k = n
      BY <1>4, <1>7, <2>1 DEF FP
    <2>2. CASE k # n
      <3>1. k + 1 \in Activation'
        BY <1>1, <1>5, <2>2
      <3>2. FP(k)' = W(k + 1)'.pfp /\ FP(k) = W(k + 1).pfp
        BY <1>1, <1>4, <1>5, <2>2 DEF FP
      <3> QED
        BY <1>8, <3>1, <3>2
    <2> QED
      BY <2>1, <2>2
  <1> QED
    BY <1>1, <1>2, <1>3, <1>4, <1>5, <1>6, <1>7, <1>8, <1>9

(* An instruction that leaves the frames, fp and r0 alone. *)
LEMMA SameView ==
  ASSUME TypeOK, frames' = frames, fp' = fp,
         window'.kind = window.kind, window'.pfp = window.pfp
  PROVE  /\ Depth' = Depth /\ Activation' = Activation
         /\ \A k \in Activation :
              /\ FP(k)' = FP(k) /\ W(k)'.kind = W(k).kind
              /\ k # Depth => W(k)' = W(k)
              /\ k = Depth => W(k)' = window'
         /\ Handlers' = Handlers
  <1>1. Depth' = Depth /\ Activation' = Activation
    BY DEF Depth, Activation
  <1>2. \A k \in Activation : k # Depth => W(k)' = W(k)
    BY <1>1 DEF W
  <1>3. \A k \in Activation : k = Depth => W(k)' = window' /\ W(k) = window
    BY <1>1 DEF W
  <1>4. ASSUME NEW k \in Activation PROVE FP(k)' = FP(k)
    <2>1. Depth \in Nat /\ Depth = Len(frames) + 1
      BY DepthType DEF Depth
    <2>2. CASE k = Depth
      BY <1>1, <2>2 DEF FP
    <2>3. CASE k # Depth
      <3>1. k + 1 \in Activation
        BY <2>1, <2>3 DEF Activation
      <3>2. W(k + 1)'.pfp = W(k + 1).pfp
        BY <1>2, <1>3, <3>1
      <3> QED
        BY <1>1, <2>3, <3>2 DEF FP
    <2> QED
      BY <2>2, <2>3
  <1>5. \A k \in Activation : W(k)'.kind = W(k).kind
    BY <1>2, <1>3
  <1>6. Handlers' = Handlers
    BY <1>1, <1>5 DEF Handlers
  <1> QED
    BY <1>1, <1>2, <1>3, <1>4, <1>5, <1>6

(* While a handler runs, its frame and those above it lie below the top of *)
(* the stack, and the running one's is the highest.                        *)
LEMMA RunningOnTop ==
  ASSUME TypeOK, StackInv, NEW outer \in Handlers, NEW k \in Activation, outer <= k
  PROVE  /\ FP(k) <= fp /\ W(k).sp <= window.sp
         /\ fp + 4 <= window.sp /\ fp \in Nat /\ FP(k) \in Nat /\ W(k).sp \in Nat
  <1>1. Depth \in Activation /\ Depth \in Nat /\ Activation \subseteq Nat
    BY DepthType DEF Activation
  <1>2. FP(Depth) = fp /\ W(Depth) = window
    BY DEF FP, W
  <1>3. \A j \in Activation : FP(j) \in Nat /\ W(j).sp \in Nat /\ FP(j) + 4 <= W(j).sp
    BY DepthType, FrameAssumption DEF StackInv, Aligned, Unit, Window
  <1>4. CASE k = Depth
    BY <1>1, <1>2, <1>3, <1>4
  <1>5. CASE k # Depth
    <2>1. k < Depth
      BY <1>1, <1>5 DEF Activation
    <2>2. W(k).sp <= FP(Depth)
      BY <1>1, <2>1 DEF StackInv, Stacked
    <2>3. FP(k) + 4 <= W(k).sp /\ FP(Depth) + 4 <= W(Depth).sp
      BY <1>1, <1>3
    <2> QED
      BY <1>1, <1>2, <1>3, <2>2, <2>3
  <1> QED
    BY <1>4, <1>5

LEMMA StackInit == Init => StackInv
  <1> SUFFICES ASSUME Init PROVE StackInv
    OBVIOUS
  <1>1. Depth = 1 /\ Activation = {1} /\ Len(frames) = 0
    BY DEF Init, Depth, Activation
  <1>2. W(1) = window /\ FP(1) = fp
    BY <1>1 DEF W, FP
  <1>3. Handlers = {}
    BY <1>1, <1>2 DEF Init, Handlers
  <1>4. Aligned
    BY <1>1, <1>2, FrameAssumption DEF Init, Aligned, Unit
  <1> QED
    BY <1>1, <1>3, <1>4 DEF StackInv, Resumable, Stacked, Recorded, Init

(***************************************************************************)
(* The frames stay apart.  First the instructions of the running           *)
(* activation, which may only move its stack pointer up and leave the      *)
(* records alone.                                                          *)
(***************************************************************************)
LEMMA RunningStep ==
  ASSUME TypeOK, TypeOK', StackInv, frames' = frames, fp' = fp, int' = int,
         window'.kind = window.kind, window'.pfp = window.pfp,
         window.sp <= window'.sp,
         \A h \in Handlers : mem'[FP(h) - 1] = mem[FP(h) - 1]
  PROVE  StackInv'
  <1>1. /\ Activation' = Activation /\ Handlers' = Handlers /\ Depth' = Depth
        /\ \A k \in Activation : FP(k)' = FP(k)
        /\ \A k \in Activation : k # Depth => W(k)' = W(k)
        /\ \A k \in Activation : k = Depth => W(k)' = window'
    BY SameView
  <1>2. Depth \in Nat /\ Activation \subseteq Nat /\ (\A k \in Activation : k <= Depth)
    BY DepthType DEF Activation
  <1>3. Resumable'
    BY DEF StackInv, Resumable
  <1>4. Aligned'
    <2> SUFFICES ASSUME NEW k \in Activation
                 PROVE  FP(k) \in Unit /\ FP(k) % 4 = 0 /\ FP(k) + 4 <= W(k)'.sp
      BY <1>1 DEF Aligned, Unit
    <2>1. FP(k) \in Unit /\ FP(k) % 4 = 0 /\ FP(k) + 4 <= W(k).sp
      BY DEF StackInv, Aligned
    <2>2. CASE k # Depth
      BY <1>1, <2>1, <2>2
    <2>3. CASE k = Depth
      <3>1. W(k).sp = window.sp /\ W(k)'.sp = window'.sp
        BY <1>1, <2>3 DEF W
      <3>2. window.sp \in Int /\ window'.sp \in Int /\ FP(k) \in Int
        BY <2>1, FrameAssumption DEF TypeOK, Window, Unit
      <3> QED
        BY <2>1, <3>1, <3>2
    <2> QED
      BY <2>2, <2>3
  <1>5. Stacked'
    <2> SUFFICES ASSUME NEW outer \in Handlers, NEW k \in Activation, NEW j \in Activation,
                        outer <= k, k < j
                 PROVE  W(k)'.sp <= FP(j) /\ (j \in Handlers => W(k)'.sp < FP(j))
      BY <1>1 DEF Stacked
    <2>1. k # Depth
      BY <1>2
    <2> QED
      BY <1>1, <2>1 DEF StackInv, Stacked
  <1>6. Recorded'
    BY <1>1 DEF StackInv, Recorded, Handlers
  <1>7. int' <=> Handlers' # {}
    BY <1>1 DEF StackInv
  <1> QED
    BY <1>3, <1>4, <1>5, <1>6, <1>7 DEF StackInv

(* A new activation on top, above whatever the handlers have taken. *)
LEMMA EnterStep ==
  ASSUME TypeOK, StackInv, NEW target \in Addr, NEW resume \in Addr,
         NEW kind \in {"call", "interrupt"}, NEW stack \in Nat,
         Enter(target, resume, kind, stack),
         Handlers # {} => window.sp <= stack,
         kind = "interrupt" /\ Handlers # {} => window.sp < stack
  PROVE  /\ Resumable' /\ Aligned' /\ Stacked'
         /\ Handlers' = IF kind = "interrupt" THEN Handlers \cup {Depth + 1} ELSE Handlers
         /\ Depth + 1 \notin Handlers
         /\ \A h \in Handlers : FP(h)' = FP(h) /\ FP(h) < fp' /\ h < Depth + 1
         /\ \A k \in Nat : k = Depth + 1 => FP(k)' = fp'
  <1>1. /\ Activation' = Activation \cup {Depth + 1}
        /\ \A k \in Activation : FP(k)' = FP(k) /\ W(k)'.kind = W(k).kind
                                 /\ W(k)'.sp = W(k).sp
        /\ \A k \in Nat : k = Depth + 1 => FP(k)' = fp' /\ W(k)' = window'
    BY EnterActivations
  <1>2. /\ Depth \in Nat /\ Activation \subseteq Nat /\ Depth + 1 \notin Activation
        /\ Depth + 1 \in Nat /\ \A k \in Activation : k < Depth + 1
    BY DepthType DEF Activation
  <1>3. /\ fp' \in Unit /\ fp' % 4 = 0 /\ stack <= fp'
        /\ window'.kind = kind /\ window'.sp = fp' + 4
    <2>1. fp' \in Unit /\ fp' % 4 = 0 /\ stack <= fp'
      BY EnterView, ZenonT(60)
    <2>2. window'.kind = kind /\ window'.sp = fp' + 4
      BY EnterView
    <2> QED
      BY <2>1, <2>2
  <1>4. Handlers' = IF kind = "interrupt" THEN Handlers \cup {Depth + 1} ELSE Handlers
    <2>1. \A k \in Activation : k \in Handlers' <=> k \in Handlers
      BY <1>1, <1>2 DEF Handlers
    <2>2. \A k \in Nat : k = Depth + 1 => (k \in Handlers' <=> kind = "interrupt")
      BY <1>1, <1>2, <1>3 DEF Handlers
    <2>3. Handlers \subseteq Activation /\ Handlers' \subseteq Activation'
      BY DEF Handlers
    <2> QED
      BY <1>1, <1>2, <2>1, <2>2, <2>3
  <1>5. Handlers \subseteq Activation
    BY DEF Handlers
  <1>6. ASSUME NEW outer \in Handlers, NEW k \in Activation, outer <= k
        PROVE  /\ W(k).sp <= fp' /\ FP(k) < fp'
               /\ kind = "interrupt" => W(k).sp < fp'
    <2>1. /\ FP(k) <= fp /\ W(k).sp <= window.sp /\ fp + 4 <= window.sp
          /\ fp \in Nat /\ FP(k) \in Nat /\ W(k).sp \in Nat
      BY <1>6, RunningOnTop
    <2>2. window.sp <= stack /\ (kind = "interrupt" => window.sp < stack)
      OBVIOUS
    <2>3. window.sp \in Nat /\ fp' \in Nat
      BY <1>3, FrameAssumption DEF TypeOK, Window, Unit
    <2> QED
      BY <1>3, <2>1, <2>2, <2>3
  <1>7. Resumable'
    <2>1. /\ Len(frames') = Len(frames) + 1 /\ Depth = Len(frames) + 1 /\ Len(frames) \in Nat
          /\ \A k \in 1 .. Len(frames) : frames'[k] = frames[k]
      BY EnterView, DepthType DEF Depth
    <2>2. frames'[Depth].rip = resume
      <3>1. frames'[Depth] = [window EXCEPT !.rip = resume]
        BY EnterView
      <3> QED
        BY <3>1 DEF TypeOK, Window
    <2>3. \A k \in 1 .. Len(frames) : frames[k].rip \in Addr
      BY DEF StackInv, Resumable
    <2>4. \A k \in 1 .. Len(frames') : k \in 1 .. Len(frames) \/ k = Depth
      BY <2>1
    <2> QED
      BY <2>1, <2>2, <2>3, <2>4 DEF Resumable
  <1>8. Aligned'
    <2> SUFFICES ASSUME NEW k \in Activation'
                 PROVE  (FP(k) \in Unit /\ FP(k) % 4 = 0 /\ FP(k) + 4 <= W(k).sp)'
      BY DEF Aligned
    <2>1. CASE k \in Activation
      BY <1>1, <2>1 DEF StackInv, Aligned, Unit
    <2>2. CASE k = Depth + 1
      <3>1. FP(k)' = fp' /\ W(k)' = window' /\ Unit' = Unit
        BY <1>1, <1>2, <2>2 DEF Unit
      <3>2. fp' + 4 <= fp' + 4
        BY <1>3, UnitFacts
      <3> QED
        BY <1>3, <3>1, <3>2
    <2> QED
      BY <1>1, <2>1, <2>2
  <1>9. Stacked'
    <2> SUFFICES ASSUME NEW outer \in Handlers', NEW k \in Activation', NEW j \in Activation',
                        outer <= k, k < j
                 PROVE  (W(k).sp <= FP(j) /\ (j \in Handlers => W(k).sp < FP(j)))'
      BY DEF Stacked
    <2>1. k \in Activation /\ outer \in Handlers
      BY <1>1, <1>2, <1>4, DepthType DEF Activation
    <2>2. CASE j \in Activation
      BY <1>1, <1>2, <1>4, <2>1, <2>2 DEF StackInv, Stacked
    <2>3. CASE j = Depth + 1
      <3>1. FP(j)' = fp' /\ W(k)'.sp = W(k).sp
        BY <1>1, <1>2, <2>1, <2>3
      <3>2. j \in Handlers' => kind = "interrupt"
        BY <1>2, <1>4, <1>5, <2>3
      <3> QED
        BY <1>6, <2>1, <3>1, <3>2
    <2> QED
      BY <1>1, <2>2, <2>3
  <1>10. ASSUME NEW h \in Handlers
         PROVE  FP(h)' = FP(h) /\ FP(h) < fp' /\ h < Depth + 1
    BY <1>1, <1>2, <1>5, <1>6
  <1> QED
    BY <1>1, <1>2, <1>4, <1>5, <1>7, <1>8, <1>9, <1>10

LEMMA InterruptStep ==
  ASSUME TypeOK, StackInv, NEW handler \in Addr, EnterInterrupt(handler)
  PROVE  StackInv'
  <1> DEFINE stack == AlignUp(IF int THEN window.sp ELSE InterruptStack) + 4
  <1>1. stack \in Nat /\ 4 <= stack /\ (int => window.sp < stack)
    <2>1. window.sp \in Nat /\ InterruptStack \in Nat
      BY FrameAssumption DEF TypeOK, Window, Unit
    <2>2. \A u \in Nat : AlignUp(u) + 4 \in Nat /\ 4 <= AlignUp(u) + 4 /\ u < AlignUp(u) + 4
      BY AlignAbove
    <2>3. CASE int
      BY <2>1, <2>2, <2>3
    <2>4. CASE ~int
      BY <2>1, <2>2, <2>4
    <2> QED
      BY <2>3, <2>4
  <1>2. /\ Enter(handler, ip, "interrupt", stack) /\ ip \in Addr
        /\ mem' = [mem EXCEPT ![fp' - 1] = [int |-> int, ac |-> ac]]
        /\ int' = TRUE
    BY DEF EnterInterrupt, TypeOK
  <1>3. (Handlers # {} => window.sp <= stack) /\ (Handlers # {} => window.sp < stack)
    BY <1>1, FrameAssumption DEF StackInv, TypeOK, Window, Unit
  <1>4. /\ Resumable' /\ Aligned' /\ Stacked'
        /\ Handlers' = Handlers \cup {Depth + 1}
        /\ Depth + 1 \notin Handlers
        /\ \A h \in Handlers : FP(h)' = FP(h) /\ FP(h) < fp' /\ h < Depth + 1
        /\ \A k \in Nat : k = Depth + 1 => FP(k)' = fp'
    <2> HIDE DEF stack
    <2> QED
      BY <1>1, <1>2, <1>3, EnterStep
  <1>5. fp' \in Unit /\ 4 <= fp' /\ fp' - 1 \in Unit
    <2> HIDE DEF stack
    <2>1. fp' \in Unit /\ stack <= fp'
      BY <1>1, <1>2, EnterView
    <2>2. fp' \in Nat /\ (4 <= fp' => fp' - 1 \in Unit)
      BY <2>1, UnitFacts
    <2> QED
      BY <1>1, <2>1, <2>2
  <1>6. mem'[fp' - 1] = [int |-> int, ac |-> ac]
    BY <1>2, <1>5 DEF TypeOK
  <1>7. ASSUME NEW h \in Handlers
        PROVE  /\ 4 <= FP(h)
               /\ mem'[FP(h) - 1] = mem[FP(h) - 1]
    <2>1. FP(h) \in Unit /\ 4 <= FP(h)
      BY DEF StackInv, Recorded, Aligned, Handlers
    <2>2. FP(h) - 1 \in Unit /\ FP(h) - 1 # fp' - 1
      BY <1>4, <1>5, <2>1, FrameAssumption DEF Unit
    <2> QED
      BY <1>2, <2>1, <2>2 DEF TypeOK
  <1>8. Recorded'
    <2> SUFFICES ASSUME NEW h \in Handlers'
                 PROVE  (4 <= FP(h) /\ (mem[FP(h) - 1].int <=> \E g \in Handlers : g < h))'
      BY DEF Recorded
    <2>1. CASE h \in Handlers
      <3>1. h < Depth + 1 /\ h \in Nat /\ Depth \in Nat
        BY <1>4, <2>1, DepthType DEF Handlers, Activation
      <3>2. (\E g \in Handlers' : g < h) <=> (\E g \in Handlers : g < h)
        BY <1>4, <3>1
      <3>3. mem[FP(h) - 1].int <=> \E g \in Handlers : g < h
        BY <2>1 DEF StackInv, Recorded
      <3> QED
        BY <1>4, <1>7, <2>1, <3>2, <3>3
    <2>2. CASE h = Depth + 1
      <3>1. FP(h)' = fp'
        BY <1>4, <2>2, DepthType
      <3>2. (\E g \in Handlers' : g < h) <=> Handlers # {}
        <4>1. ~(Depth + 1 < Depth + 1)
          BY DepthType
        <4> QED
          BY <1>4, <2>2, <4>1
      <3> QED
        BY <1>5, <1>6, <3>1, <3>2 DEF StackInv
    <2> QED
      BY <1>4, <2>1, <2>2
  <1> QED
    BY <1>2, <1>4, <1>8 DEF StackInv

LEMMA CallStep ==
  ASSUME TypeOK, StackInv, NEW target \in Addr, NEW resume \in Addr, Call(target, resume)
  PROVE  StackInv'
  <1>1. window.sp \in Nat
    BY FrameAssumption DEF TypeOK, Window, Unit
  <1>2. Enter(target, resume, "call", window.sp) /\ int' = int /\ mem' = mem
    BY DEF Call
  <1>3. window.sp <= window.sp
    BY <1>1
  <1>4. /\ Resumable' /\ Aligned' /\ Stacked' /\ Handlers' = Handlers
        /\ \A h \in Handlers : FP(h)' = FP(h)
    BY <1>1, <1>2, <1>3, EnterStep
  <1>5. Recorded'
    BY <1>2, <1>4 DEF StackInv, Recorded
  <1> QED
    BY <1>2, <1>4, <1>5 DEF StackInv

LEMMA ReturnStep ==
  ASSUME TypeOK, StackInv, Return
  PROVE  StackInv'
  <1>1. /\ Depth' = Depth - 1 /\ Depth' \in Activation
        /\ Activation' = Activation \ {Depth}
        /\ \A k \in Activation' : FP(k)' = FP(k) /\ W(k)' = W(k)
        /\ frames' \in Seq(Window) /\ Len(frames') = Len(frames) - 1
        /\ \A k \in 1 .. Len(frames') : frames'[k] = frames[k]
    BY ReturnView
  <1>2. mem' = mem /\ Unit' = Unit
    BY DEF Return, Unit
  <1>3. Handlers' = Handlers \ {Depth}
    BY <1>1 DEF Handlers
  <1>4. /\ Len(frames) \in Nat /\ Depth \in Nat /\ Activation = 1 .. Depth
        /\ Handlers \subseteq Activation
    BY DepthType DEF Activation, Handlers
  <1>5. Resumable'
    BY <1>1, <1>4 DEF StackInv, Resumable
  <1>6. Aligned'
    BY <1>1, <1>2 DEF StackInv, Aligned
  <1>7. Stacked'
    <2> SUFFICES ASSUME NEW outer \in Handlers', NEW k \in Activation', NEW j \in Activation',
                        outer <= k, k < j
                 PROVE  (W(k).sp <= FP(j) /\ (j \in Handlers => W(k).sp < FP(j)))'
      BY DEF Stacked
    <2> QED
      BY <1>1, <1>3 DEF StackInv, Stacked
  <1>8. Recorded'
    <2> SUFFICES ASSUME NEW h \in Handlers'
                 PROVE  (4 <= FP(h) /\ (mem[FP(h) - 1].int <=> \E g \in Handlers : g < h))'
      BY DEF Recorded
    <2>1. h \in Handlers /\ h \in Activation' /\ h < Depth
      <3>1. h \in Handlers /\ h # Depth
        BY <1>3
      <3>2. h \in 1 .. Depth /\ Depth \in Nat
        BY <1>4, <3>1
      <3>3. h \in Activation'
        BY <1>1, <1>4, <3>1
      <3> QED
        BY <3>1, <3>2, <3>3
    <2>2. (\E g \in Handlers' : g < h) <=> (\E g \in Handlers : g < h)
      BY <1>3, <1>4, <2>1
    <2> QED
      BY <1>1, <1>2, <2>1, <2>2 DEF StackInv, Recorded
  <1>9. int' <=> Handlers' # {}
    <2>1. CASE window.kind = "interrupt"
      <3>1. Depth \in Handlers /\ FP(Depth) = fp
        BY <1>4, <2>1, DepthType DEF Handlers, W, FP
      <3>2. int' = mem[fp - 1].int
        BY <2>1 DEF Return
      <3>3. (\E g \in Handlers : g < Depth) <=> Handlers \ {Depth} # {}
        <4>1. \A g \in Handlers : g < Depth <=> g # Depth
          BY <1>4
        <4> QED
          BY <4>1
      <3> QED
        BY <1>3, <3>1, <3>2, <3>3 DEF StackInv, Recorded
    <2>2. CASE window.kind # "interrupt"
      <3>1. Depth \notin Handlers
        BY <2>2 DEF Handlers, W
      <3>2. int' = int
        BY <2>2 DEF Return
      <3> QED
        BY <1>3, <3>1, <3>2 DEF StackInv
    <2> QED
      BY <2>1, <2>2
  <1> QED
    BY <1>5, <1>6, <1>7, <1>8, <1>9 DEF StackInv

(***************************************************************************)
(* The invariant, over every step.                                         *)
(***************************************************************************)
LEMMA RecordsKept ==
  ASSUME TypeOK, StackInv, NEW u \in Unit, Spill(u), NEW h \in Handlers
  PROVE  mem'[FP(h) - 1] = mem[FP(h) - 1]
  <1>1. h \in Activation /\ h <= h
    BY DepthType DEF Handlers, Activation
  <1>2. FP(h) <= fp /\ fp \in Nat /\ FP(h) \in Nat
    BY <1>1, RunningOnTop
  <1>3. FP(h) - 1 \in Unit
    BY <1>1, UnitFacts DEF StackInv, Aligned, Recorded
  <1>4. u \in Nat /\ fp + 4 <= u /\ mem' = [mem EXCEPT ![u] = Data]
    BY UnitFacts DEF Spill
  <1>5. FP(h) - 1 # u
    BY <1>2, <1>4
  <1> QED
    BY <1>3, <1>4, <1>5 DEF TypeOK

LEMMA ReturnType ==
  ASSUME TypeOK, StackInv, Return
  PROVE  TypeOK'
  <1>1. /\ Depth - 1 \in Activation /\ Depth = Len(frames) + 1 /\ Len(frames) \in Nat
        /\ fp' = FP(Depth - 1) /\ window' = W(Depth - 1)
        /\ frames' \in Seq(Window) /\ Len(frames') = Len(frames) - 1
    BY ReturnView, DepthType DEF Depth
  <1>2. fp' \in Unit /\ window' \in Window
    BY <1>1, DepthType DEF StackInv, Aligned
  <1>3. ip' \in Addr
    <2>1. Len(frames) \in 1 .. Len(frames)
      BY <1>1, DepthType DEF Activation
    <2> QED
      BY <2>1 DEF Return, StackInv, Resumable
  <1>4. int' \in BOOLEAN /\ ac' \in CondBits
    <2>1. CASE window.kind = "interrupt"
      <3>1. Depth \in Handlers /\ FP(Depth) = fp
        BY <2>1, DepthType DEF Handlers, Activation, W, FP
      <3>2. fp - 1 \in Unit
        BY <3>1, UnitFacts DEF StackInv, Recorded, TypeOK
      <3>3. mem[fp - 1] \in Record
        BY <3>2 DEF TypeOK
      <3>4. int' = mem[fp - 1].int /\ ac' = mem[fp - 1].ac
        BY <2>1 DEF Return
      <3> QED
        BY <3>3, <3>4 DEF Record
    <2>2. CASE window.kind # "interrupt"
      BY <2>2 DEF Return, TypeOK
    <2> QED
      BY <2>1, <2>2
  <1>5. Len(frames') <= MaxFrames
    BY <1>1, FrameAssumption DEF TypeOK
  <1>6. cc' \in Condition /\ mem' \in [Unit -> Record]
    BY DEF Return, TypeOK
  <1> QED
    BY <1>1, <1>2, <1>3, <1>4, <1>5, <1>6 DEF TypeOK, Unit, Window, CondBits, Condition, Record

LEMMA EnterType ==
  ASSUME TypeOK, NEW target \in Addr, NEW resume \in Addr,
         NEW kind \in {"call", "interrupt"}, NEW stack \in Nat,
         Enter(target, resume, kind, stack)
  PROVE  /\ ip' \in Addr /\ window' \in Window /\ fp' \in Unit
         /\ frames' \in Seq(Window) /\ Len(frames') <= MaxFrames
  <1>1. /\ window' \in Window /\ fp' \in Unit /\ frames' \in Seq(Window)
        /\ Len(frames') = Len(frames) + 1
    BY EnterView
  <1>2. Len(frames) < MaxFrames /\ ip' = target
    BY DEF Enter
  <1>3. Len(frames) \in Nat
    BY DepthType
  <1> QED
    BY <1>1, <1>2, <1>3, FrameAssumption

LEMMA Rigid == Unit' = Unit /\ Window' = Window /\ CondBits' = CondBits
               /\ Condition' = Condition /\ Record' = Record
  BY DEF Unit, Window, CondBits, Condition, Record

LEMMA TypeInit == Init => TypeOK
  <1> SUFFICES ASSUME Init PROVE TypeOK
    OBVIOUS
  <1>1. fp \in Unit /\ window \in Window
    BY FrameAssumption DEF Init, Unit, Window
  <1>2. frames \in Seq(Window) /\ Len(frames) <= MaxFrames
    BY FrameAssumption DEF Init
  <1>3. mem \in [Unit -> Record]
    BY DEF Init, Data, Record, CondBits
  <1>4. ac \in CondBits /\ cc \in Condition
    BY DEF Init, CondBits, Condition
  <1> QED
    BY <1>1, <1>2, <1>3, <1>4, FrameAssumption DEF Init, TypeOK

(* One step per action: what the action may disturb of the types, then of   *)
(* the frames.                                                              *)
LEMMA InvStep == TypeOK /\ StackInv /\ [Next]_vars => TypeOK' /\ StackInv'
  <1> SUFFICES ASSUME TypeOK, StackInv, [Next]_vars PROVE TypeOK' /\ StackInv'
    OBVIOUS
  <1> USE Rigid
  <1>1. window.sp \in Nat /\ window.sp <= window.sp
    <2>1. window.sp \in Unit
      BY DEF TypeOK, Window
    <2> QED
      BY <2>1, UnitFacts
  <1>2. ASSUME NEW next \in Addr, NEW values \in Locals, Execute(next, values)
        PROVE  TypeOK' /\ StackInv'
    <2>1. window' \in Window /\ window'.kind = window.kind
          /\ window'.pfp = window.pfp /\ window'.sp = window.sp
      BY <1>2 DEF Execute, TypeOK, Window
    <2>2. TypeOK'
      BY <1>2, <2>1 DEF Execute, TypeOK
    <2> QED
      BY <1>1, <1>2, <2>1, <2>2, RunningStep DEF Execute
  <1>3. ASSUME NEW c \in Compared, Compare(c)
        PROVE  TypeOK' /\ StackInv'
    <2>1. cc' \in Condition /\ ac' \in CondBits
      BY <1>3, FrameAssumption DEF Compare, Bits, CondBits
    <2>2. TypeOK'
      BY <1>3, <2>1 DEF Compare, TypeOK
    <2> QED
      BY <1>1, <1>3, <2>2, RunningStep DEF Compare
  <1>4. ASSUME NEW c \in Latched, Latch(c)
        PROVE  TypeOK' /\ StackInv'
    <2>1. TypeOK'
      BY <1>4, FrameAssumption DEF Latch, TypeOK, Condition
    <2> QED
      BY <1>1, <1>4, <2>1, RunningStep DEF Latch
  <1>11. ASSUME NEW bits \in Carried, Carry(bits)
         PROVE  TypeOK' /\ StackInv'
    <2>1. TypeOK'
      BY <1>11, FrameAssumption DEF Carry, TypeOK
    <2> QED
      BY <1>1, <1>11, <2>1, RunningStep DEF Carry
  <1>5. ASSUME NEW n \in Size, Allocate(n)
        PROVE  TypeOK' /\ StackInv'
    <2>1. window' = [window EXCEPT !.sp = window.sp + n] /\ n \in Nat
          /\ window.sp + n <= StackLimit
      BY <1>5, FrameAssumption DEF Allocate
    <2>2. window.sp + n \in Unit /\ window.sp <= window.sp + n
      BY <1>1, <2>1, FrameAssumption DEF Unit
    <2>3. window' \in Window /\ window'.kind = window.kind
          /\ window'.pfp = window.pfp /\ window'.sp = window.sp + n
      BY <2>1, <2>2 DEF TypeOK, Window
    <2>4. TypeOK'
      BY <1>5, <2>3 DEF Allocate, TypeOK
    <2> QED
      BY <1>5, <2>2, <2>3, <2>4, RunningStep DEF Allocate
  <1>6. ASSUME NEW u \in Unit, Spill(u)
        PROVE  TypeOK' /\ StackInv'
    <2>1. mem' \in [Unit -> Record]
      BY <1>6 DEF Spill, TypeOK, Data, Record, CondBits
    <2>2. TypeOK'
      BY <1>6, <2>1 DEF Spill, TypeOK
    <2>3. \A h \in Handlers : mem'[FP(h) - 1] = mem[FP(h) - 1]
      BY <1>6, RecordsKept
    <2> QED
      BY <1>1, <1>6, <2>2, <2>3, RunningStep DEF Spill
  <1>7. ASSUME NEW target \in Addr, NEW resume \in Addr, Call(target, resume)
        PROVE  TypeOK' /\ StackInv'
    <2>1. TypeOK'
      BY <1>1, <1>7, EnterType DEF Call, TypeOK
    <2> QED
      BY <1>7, <2>1, CallStep
  <1>8. ASSUME NEW handler \in Addr, EnterInterrupt(handler)
        PROVE  TypeOK' /\ StackInv'
    <2> DEFINE stack == AlignUp(IF int THEN window.sp ELSE InterruptStack) + 4
    <2>1. stack \in Nat
      BY <1>1, AlignFacts, FrameAssumption, SMTT(40)
    <2>2. Enter(handler, ip, "interrupt", stack) /\ ip \in Addr
      BY <1>8 DEF EnterInterrupt, TypeOK
    <2>3. /\ ip' \in Addr /\ window' \in Window /\ fp' \in Unit
          /\ frames' \in Seq(Window) /\ Len(frames') <= MaxFrames
      <3> HIDE DEF stack
      <3> QED
        BY <2>1, <2>2, EnterType
    <2>4. [int |-> int, ac |-> ac] \in Record
      BY DEF TypeOK, Record
    <2>5. mem' \in [Unit -> Record] /\ int' \in BOOLEAN /\ ac' \in CondBits
          /\ cc' \in Condition
      BY <1>8, <2>4 DEF EnterInterrupt, TypeOK
    <2>6. TypeOK'
      BY <2>3, <2>5 DEF TypeOK
    <2> QED
      BY <1>8, <2>6, InterruptStep
  <1>9. CASE Return
    BY <1>9, ReturnType, ReturnStep
  <1>10. CASE UNCHANGED vars
    <2>1. TypeOK'
      BY <1>10 DEF vars, TypeOK
    <2> QED
      BY <1>1, <1>10, <2>1, RunningStep DEF vars
  <1> QED
    BY <1>2, <1>3, <1>4, <1>5, <1>6, <1>7, <1>8, <1>9, <1>10, <1>11 DEF Next

LEMMA Invariance == Spec => [](TypeOK /\ StackInv)
  <1>1. Init => TypeOK /\ StackInv
    BY TypeInit, StackInit
  <1> QED
    BY <1>1, InvStep, PTL DEF Spec

(* Whatever the program calls, interrupts, takes and stores: every register *)
(* and cell keeps its type, and the frame array is never overrun.           *)
THEOREM TypeCorrect == Spec => []TypeOK
  BY Invariance, PTL

(* The records of nested interrupts lie outside the memory of every         *)
(* activation from the outermost handler on.                                *)
THEOREM RecordsKeptApart == Spec => []RecordsApart
  <1>1. ASSUME TypeOK, StackInv PROVE RecordsApart
    <2> SUFFICES ASSUME NEW h \in Handlers, NEW k \in Activation,
                        NEW outer \in Handlers, outer <= k,
                        FP(k) + 4 <= FP(h) - 1, FP(h) - 1 < W(k).sp
                 PROVE  FALSE
      BY DEF RecordsApart
    <2>1. h \in Activation /\ h \in Nat /\ k \in Nat
      BY <1>1, DepthType DEF Handlers, Activation
    <2>2. FP(h) \in Nat /\ FP(k) \in Nat /\ W(k).sp \in Nat /\ W(h).sp \in Nat
          /\ FP(h) + 4 <= W(h).sp
      BY <1>1, <2>1, DepthType, UnitFacts DEF StackInv, Aligned, Window
    <2>3. CASE k < h
      <3>1. W(k).sp < FP(h)
        BY <1>1, <2>1, <2>3 DEF StackInv, Stacked
      <3> QED
        BY <2>2, <3>1
    <2>4. CASE k = h
      BY <2>2, <2>4
    <2>5. CASE h < k
      <3>1. W(h).sp <= FP(k)
        BY <1>1, <2>1, <2>5 DEF StackInv, Stacked
      <3> QED
        BY <2>2, <3>1
    <2> QED
      BY <2>1, <2>3, <2>4, <2>5
  <1> QED
    BY <1>1, Invariance, PTL

(***************************************************************************)
(* Every step is a step of CallStack, or a stutter of it.                  *)
(***************************************************************************)
Saved ==
  [kind : {"call", "interrupt"}, ip : Addr \cup {NoAddr}, locals : Locals,
   sp : Unit, fp : Unit, int : BOOLEAN, ac : CondBits]

SuspendedList == [k \in 1 .. Len(frames) |-> Suspended(k)]

LEMMA SuspendedType ==
  ASSUME TypeOK, StackInv, NEW k \in 1 .. Len(frames)
  PROVE  Suspended(k) \in Saved
  <1>1. k \in Activation /\ k + 1 \in Activation
    BY DepthType DEF Activation, Depth
  <1>2. W(k) \in Window /\ W(k + 1) \in Window /\ FP(k) \in Unit /\ FP(k + 1) \in Unit
    BY <1>1, DepthType DEF StackInv, Aligned
  <1> DEFINE record == IF W(k + 1).kind = "interrupt" THEN mem[FP(k + 1) - 1] ELSE Data
  <1>3. record \in Record
    <2>1. CASE W(k + 1).kind = "interrupt"
      <3>1. k + 1 \in Handlers
        BY <1>1, <2>1 DEF Handlers
      <3>2. FP(k + 1) - 1 \in Unit
        BY <1>2, <3>1, UnitFacts DEF StackInv, Recorded
      <3> QED
        BY <2>1, <3>2 DEF TypeOK
    <2>2. CASE W(k + 1).kind # "interrupt"
      BY <2>2 DEF Data, Record, CondBits
    <2> QED
      BY <2>1, <2>2
  <1>4. record.int \in BOOLEAN /\ record.ac \in CondBits
    <2> HIDE DEF record
    <2> QED
      BY <1>3 DEF Record
  <1>5. Suspended(k) = [kind |-> W(k + 1).kind, ip |-> W(k).rip,
                        locals |-> W(k).locals, sp |-> W(k).sp, fp |-> FP(k),
                        int |-> record.int, ac |-> record.ac]
    BY DEF Suspended
  <1> HIDE DEF record
  <1>6. /\ W(k + 1).kind \in {"call", "interrupt"} /\ W(k).rip \in Addr \cup {NoAddr}
        /\ W(k).locals \in Locals /\ W(k).sp \in Unit
    BY <1>2 DEF Window
  <1> QED
    BY <1>2, <1>4, <1>5, <1>6 DEF Saved

LEMMA SuspendedSeq ==
  ASSUME TypeOK, StackInv
  PROVE  /\ SuspendedList \in Seq(Saved)
         /\ Len(SuspendedList) = Len(frames)
         /\ \A k \in 1 .. Len(frames) : SuspendedList[k] = Suspended(k)
  <1>1. Len(frames) \in Nat
    BY DepthType
  <1>2. SuspendedList \in [1 .. Len(frames) -> Saved]
    BY SuspendedType DEF SuspendedList
  <1> QED
    BY <1>1, <1>2 DEF SuspendedList

SuspendedOK ==
  /\ SuspendedList \in Seq(Saved)
  /\ Len(SuspendedList) = Len(frames)
  /\ \A k \in 1 .. Len(frames) : SuspendedList[k] = Suspended(k)

LEMMA SuspendedNext == (TypeOK /\ StackInv)' => SuspendedOK'
  <1>1. TypeOK /\ StackInv => SuspendedOK
    BY SuspendedSeq DEF SuspendedOK
  <1> QED
    BY <1>1, PTL

(* A step of the running activation, seen by the suspended ones. *)
LEMMA RunningStutters ==
  ASSUME TypeOK, StackInv, (TypeOK /\ StackInv)', frames' = frames, fp' = fp,
         window'.kind = window.kind, window'.pfp = window.pfp,
         \A h \in Handlers : mem'[FP(h) - 1] = mem[FP(h) - 1]
  PROVE  SuspendedList' = SuspendedList
  <1>1. /\ Activation' = Activation /\ Handlers' = Handlers /\ Depth' = Depth
        /\ \A k \in Activation : FP(k)' = FP(k) /\ W(k)'.kind = W(k).kind
        /\ \A k \in Activation : k # Depth => W(k)' = W(k)
    BY SameView
  <1>2. ASSUME NEW k \in 1 .. Len(frames)
        PROVE  Suspended(k)' = Suspended(k)
    <2>1. k \in Activation /\ k + 1 \in Activation /\ k # Depth
      BY DepthType DEF Activation, Depth
    <2>2. W(k)' = W(k) /\ FP(k)' = FP(k) /\ W(k + 1)'.kind = W(k + 1).kind
          /\ FP(k + 1)' = FP(k + 1)
      BY <1>1, <2>1
    <2>3. W(k + 1).kind = "interrupt" => k + 1 \in Handlers
      BY <2>1 DEF Handlers
    <2> QED
      BY <2>2, <2>3 DEF Suspended, Data
  <1> QED
    BY <1>2 DEF SuspendedList

(* A new activation suspends the one that was running. *)
LEMMA EnterSuspends ==
  ASSUME TypeOK, StackInv, (TypeOK /\ StackInv)', NEW target \in Addr, NEW resume \in Addr,
         NEW kind \in {"call", "interrupt"}, NEW stack \in Nat,
         Enter(target, resume, kind, stack),
         \A h \in Handlers : mem'[FP(h) - 1] = mem[FP(h) - 1],
         NEW record,
         record = IF kind = "interrupt" THEN mem'[fp' - 1] ELSE Data
  PROVE  SuspendedList' = Append(SuspendedList,
           [kind |-> kind, ip |-> resume, locals |-> window.locals, sp |-> window.sp,
            fp |-> fp, int |-> record.int, ac |-> record.ac])
  <1> DEFINE e == [kind |-> kind, ip |-> resume, locals |-> window.locals,
                   sp |-> window.sp, fp |-> fp, int |-> record.int, ac |-> record.ac]
  <1>1. /\ Depth = Len(frames) + 1 /\ Len(frames) \in Nat /\ Depth \in Activation
        /\ Depth' = Depth + 1 /\ Len(frames') = Depth
        /\ \A k \in 1 .. Len(frames) : frames'[k] = frames[k]
        /\ frames'[Depth] = [window EXCEPT !.rip = resume]
        /\ window'.kind = kind
    BY EnterView, DepthType DEF Depth, Activation
  <1>2. /\ \A k \in Activation : FP(k)' = FP(k) /\ W(k)'.kind = W(k).kind
        /\ \A k \in Nat : k = Depth + 1 => FP(k)' = fp' /\ W(k)' = window'
    BY EnterActivations
  <1>3. ASSUME NEW k \in 1 .. Len(frames)
        PROVE  Suspended(k)' = Suspended(k)
    <2>1. k \in Activation /\ k + 1 \in Activation /\ k # Depth /\ k # Depth'
      BY <1>1 DEF Activation
    <2>2. W(k)' = W(k)
      BY <1>1, <2>1 DEF W
    <2>3. FP(k)' = FP(k) /\ W(k + 1)'.kind = W(k + 1).kind /\ FP(k + 1)' = FP(k + 1)
      BY <1>2, <2>1
    <2>4. W(k + 1).kind = "interrupt" => k + 1 \in Handlers
      BY <2>1 DEF Handlers
    <2> QED
      BY <2>2, <2>3, <2>4 DEF Suspended, Data
  <1>4. ASSUME NEW k \in Nat, k = Depth
        PROVE  Suspended(k)' = e
    <2>1. k + 1 \in Nat /\ k + 1 = Depth + 1 /\ k # Depth'
      BY <1>1, <1>4
    <2>2. W(k)' = [window EXCEPT !.rip = resume]
      BY <1>1, <1>4, <2>1 DEF W
    <2>3. /\ W(k)'.rip = resume /\ W(k)'.locals = window.locals
          /\ W(k)'.sp = window.sp
      BY <2>2 DEF TypeOK, Window
    <2>4. FP(k)' = fp /\ W(k + 1)'.kind = kind /\ FP(k + 1)' = fp'
      BY <1>1, <1>2, <1>4, <2>1 DEF FP
    <2>5. (IF W(k + 1)'.kind = "interrupt" THEN mem'[FP(k + 1)' - 1] ELSE Data) = record
      BY <2>4
    <2> QED
      BY <2>3, <2>4, <2>5 DEF Suspended, Data
  <1>5. /\ SuspendedList' \in Seq(Saved) /\ Len(SuspendedList') = Len(frames) + 1
        /\ \A k \in 1 .. Len(frames) + 1 : SuspendedList'[k] = Suspended(k)'
    BY <1>1, SuspendedNext DEF SuspendedOK, Saved, Unit, CondBits
  <1>6. e \in Saved
    <2>1. Depth \in Nat /\ Depth \in 1 .. Len(frames) + 1
      BY <1>1
    <2>2. SuspendedList'[Depth] = e
      BY <1>4, <1>5, <2>1
    <2>3. SuspendedList'[Depth] \in Saved
      BY <1>5, <2>1
    <2> QED
      BY <2>2, <2>3
  <1> HIDE DEF e
  <1>7. /\ SuspendedList \in Seq(Saved) /\ Len(SuspendedList) = Len(frames)
        /\ \A k \in 1 .. Len(frames) : SuspendedList[k] = Suspended(k)
    BY SuspendedSeq
  <1>8. /\ Append(SuspendedList, e) \in Seq(Saved)
        /\ Len(Append(SuspendedList, e)) = Len(frames) + 1
        /\ \A k \in 1 .. Len(frames) : Append(SuspendedList, e)[k] = SuspendedList[k]
        /\ Append(SuspendedList, e)[Len(frames) + 1] = e
    BY <1>6, <1>7, AppendProperties
  <1>9. ASSUME NEW k \in 1 .. Len(frames) + 1
        PROVE  SuspendedList'[k] = Append(SuspendedList, e)[k]
    <2>1. CASE k \in 1 .. Len(frames)
      BY <1>3, <1>5, <1>7, <1>8, <2>1
    <2>2. CASE k = Len(frames) + 1
      <3>1. k \in Nat /\ k = Depth
        BY <1>1, <2>2
      <3>2. SuspendedList'[k] = Suspended(k)'
        BY <1>5
      <3>3. SuspendedList'[k] = e
        BY <1>4, <3>1, <3>2
      <3> QED
        BY <1>8, <2>2, <3>3
    <2>3. k \in 1 .. Len(frames) \/ k = Len(frames) + 1
      <3>1. Len(frames) \in Nat
        BY <1>1
      <3> QED
        BY <3>1
    <2> QED
      BY <2>1, <2>2, <2>3
  <1>10. SuspendedList' = Append(SuspendedList, e)
    BY <1>5, <1>8, <1>9, SeqEqual
  <1> QED
    BY <1>10 DEF e

(* A return resumes the last of them. *)
LEMMA ReturnResumes ==
  ASSUME TypeOK, StackInv, (TypeOK /\ StackInv)', Return
  PROVE  Stack!Resume
  <1> DEFINE n == Len(frames)
             top == SuspendedList[n]
  <1>1. /\ n \in Nat /\ n # 0 /\ Depth = n + 1 /\ n - 1 \in Nat
        /\ n \in Activation /\ n + 1 \in Activation
    BY DepthType DEF Depth, Activation, Return, TypeOK
  <1>2. /\ \A k \in Activation' : FP(k)' = FP(k) /\ W(k)' = W(k)
        /\ Activation' = Activation \ {Depth} /\ Depth' = n
        /\ fp' = FP(n) /\ window' = W(n) /\ Len(frames') = n - 1
    BY <1>1, ReturnView
  <1>3. /\ SuspendedList \in Seq(Saved) /\ Len(SuspendedList) = n
        /\ \A k \in 1 .. n : SuspendedList[k] = Suspended(k)
    BY SuspendedSeq
  <1>4. /\ SuspendedList' \in Seq(Saved) /\ Len(SuspendedList') = n - 1
        /\ \A k \in 1 .. n - 1 : SuspendedList'[k] = Suspended(k)'
    BY <1>2, SuspendedNext DEF SuspendedOK, Saved, Unit, CondBits
  <1>5. ASSUME NEW k \in 1 .. n - 1
        PROVE  SuspendedList'[k] = SuspendedList[k]
    <2>1. k \in Activation' /\ k + 1 \in Activation' /\ k \in 1 .. n
      BY <1>1, <1>2 DEF Activation
    <2>2. W(k)' = W(k) /\ W(k + 1)' = W(k + 1) /\ FP(k)' = FP(k) /\ FP(k + 1)' = FP(k + 1)
      BY <1>2, <2>1
    <2>3. Suspended(k)' = Suspended(k)
      BY <2>2 DEF Suspended, Data, Return
    <2>4. SuspendedList'[k] = Suspended(k)' /\ SuspendedList[k] = Suspended(k)
      BY <1>3, <1>4, <2>1
    <2> QED
      BY <2>3, <2>4
  <1>6. SuspendedList' = SubSeq(SuspendedList, 1, n - 1)
    <2>1. \A i \in 1 .. n - 1 : SuspendedList[i] \in Saved
      BY <1>1, <1>3
    <2>2. n - 1 \in Int /\ 1 \in Int
      BY <1>1
    <2>3. /\ SubSeq(SuspendedList, 1, n - 1) \in Seq(Saved)
          /\ Len(SubSeq(SuspendedList, 1, n - 1))
               = IF 1 <= n - 1 THEN (n - 1) - 1 + 1 ELSE 0
          /\ \A i \in 1 .. (n - 1) - 1 + 1 :
               SubSeq(SuspendedList, 1, n - 1)[i] = SuspendedList[1 + i - 1]
      BY <2>1, <2>2, SubSeqProperties
    <2>4. /\ (n - 1) - 1 + 1 = n - 1
          /\ ~(1 <= n - 1) => n - 1 = 0
          /\ \A i \in 1 .. n - 1 : 1 + i - 1 = i
      <3> HIDE DEF n
      <3> QED
        BY <1>1, ButLast
    <2>5. Len(SubSeq(SuspendedList, 1, n - 1)) = n - 1
      BY <2>3, <2>4
    <2>6. ASSUME NEW i \in 1 .. n - 1
          PROVE  SuspendedList'[i] = SubSeq(SuspendedList, 1, n - 1)[i]
      <3>1. i \in 1 .. (n - 1) - 1 + 1
        BY <2>4
      <3>2. SubSeq(SuspendedList, 1, n - 1)[i] = SuspendedList[1 + i - 1]
        BY <2>3, <3>1
      <3> QED
        BY <1>5, <2>4, <3>2
    <2> HIDE DEF n
    <2> QED
      BY <1>4, <2>3, <2>5, <2>6, SeqEqual
  <1>7. SuspendedList # << >>
    BY <1>1, <1>3
  <1>8. top = Suspended(n)
    BY <1>1, <1>3
  <1>9. /\ W(n) = frames[n] /\ W(n + 1) = window /\ FP(n + 1) = fp
    BY <1>1 DEF W, FP
  <1>10. /\ top.kind = window.kind /\ top.ip = frames[n].rip
         /\ top.locals = frames[n].locals /\ top.sp = frames[n].sp /\ top.fp = FP(n)
         /\ window.kind = "interrupt" =>
              top.int = mem[fp - 1].int /\ top.ac = mem[fp - 1].ac
    BY <1>8, <1>9 DEF Suspended
  <1>11. /\ ip' = top.ip /\ window'.locals = top.locals
         /\ window'.sp = top.sp /\ fp' = top.fp
    BY <1>2, <1>9, <1>10 DEF Return
  <1>12. IF top.kind = "interrupt" THEN int' = top.int /\ ac' = top.ac
                                   ELSE UNCHANGED <<int, ac>>
    BY <1>10 DEF Return
  <1> QED
    BY <1>3, <1>6, <1>7, <1>11, <1>12 DEF Stack!Resume, SuspendedList

LEMMA StackRefineInit == Init => Stack!Init
  <1> SUFFICES ASSUME Init PROVE Stack!Init
    OBVIOUS
  <1>1. TypeOK /\ StackInv /\ Len(frames) = 0
    BY TypeInit, StackInit DEF Init
  <1>2. SuspendedList \in Seq(Saved) /\ Len(SuspendedList) = 0
    BY <1>1, SuspendedSeq
  <1>3. SuspendedList = << >>
    BY <1>2
  <1> QED
    BY <1>3 DEF Stack!Init, SuspendedList, Init

LEMMA StackRefineStep ==
  TypeOK /\ StackInv /\ (TypeOK /\ StackInv)' /\ [Next]_vars => [Stack!Next]_(Stack!vars)
  <1> SUFFICES ASSUME TypeOK, StackInv, (TypeOK /\ StackInv)', [Next]_vars
               PROVE  [Stack!Next]_(Stack!vars)
    OBVIOUS
  <1>1. ASSUME frames' = frames, fp' = fp, int' = int,
               window'.kind = window.kind, window'.pfp = window.pfp,
               \A h \in Handlers : mem'[FP(h) - 1] = mem[FP(h) - 1]
        PROVE  Stack!Step
    BY <1>1, RunningStutters DEF Stack!Step, SuspendedList
  <1>2. ASSUME NEW next \in Addr, NEW values \in Locals, Execute(next, values)
        PROVE  Stack!Step
    BY <1>1, <1>2 DEF Execute, TypeOK, Window
  <1>3. ASSUME NEW c \in Compared \cup Latched, Compare(c) \/ Latch(c)
        PROVE  Stack!Step
    BY <1>1, <1>3 DEF Compare, Latch
  <1>10. ASSUME NEW bits \in Carried, Carry(bits)
         PROVE  Stack!Step
    BY <1>1, <1>10 DEF Carry
  <1>4. ASSUME NEW n \in Size, Allocate(n)
        PROVE  Stack!Step
    BY <1>1, <1>4 DEF Allocate, TypeOK, Window
  <1>5. ASSUME NEW u \in Unit, Spill(u)
        PROVE  Stack!Step
    <2>1. \A h \in Handlers : mem'[FP(h) - 1] = mem[FP(h) - 1]
      BY <1>5, RecordsKept
    <2> QED
      BY <1>1, <1>5, <2>1 DEF Spill
  <1>6. ASSUME NEW target \in Addr, NEW resume \in Addr, Call(target, resume)
        PROVE  Stack!Call(resume)
    <2>1. /\ Enter(target, resume, "call", window.sp)
          /\ mem' = mem /\ int' = int /\ ac' = ac
      BY <1>6 DEF Call
    <2>2. window.sp \in Nat
      <3>1. window.sp \in Unit
        BY DEF TypeOK, Window
      <3> QED
        BY <3>1, UnitFacts
    <2>3. SuspendedList' = Append(SuspendedList,
            [kind |-> "call", ip |-> resume, locals |-> window.locals,
             sp |-> window.sp, fp |-> fp, int |-> Data.int, ac |-> Data.ac])
      BY <2>1, <2>2, EnterSuspends
    <2> QED
      BY <2>1, <2>3 DEF Stack!Call, SuspendedList, Data
  <1>7. ASSUME NEW handler \in Addr, EnterInterrupt(handler)
        PROVE  Stack!Interrupt
    <2> DEFINE stack == AlignUp(IF int THEN window.sp ELSE InterruptStack) + 4
    <2>1. stack \in Nat /\ 4 <= stack /\ (int => window.sp < stack) /\ window.sp \in Nat
      <3>1. window.sp \in Nat /\ InterruptStack \in Nat
        <4>1. window.sp \in Unit
          BY DEF TypeOK, Window
        <4> QED
          BY <4>1, UnitFacts, FrameAssumption
      <3> QED
        BY <3>1, AlignFacts, SMTT(40)
    <2>2. /\ Enter(handler, ip, "interrupt", stack) /\ ip \in Addr
          /\ mem' = [mem EXCEPT ![fp' - 1] = [int |-> int, ac |-> ac]]
          /\ int' = TRUE /\ ac' = ac
      BY <1>7 DEF EnterInterrupt, TypeOK
    <2>3. Handlers # {} => int
      BY DEF StackInv
    <2> HIDE DEF stack
    <2>4. fp' \in Unit /\ stack <= fp'
      BY <2>1, <2>2, EnterView
    <2>5. fp' - 1 \in Unit
      BY <2>1, <2>4, UnitFacts
    <2>6. mem'[fp' - 1] = [int |-> int, ac |-> ac]
      BY <2>2, <2>5 DEF TypeOK
    <2>7. window.sp <= stack \/ Handlers = {}
      BY <2>1, <2>3
    <2>8. \A h \in Handlers : FP(h) < fp'
      BY <2>1, <2>2, <2>3, <2>7, EnterStep
    <2>9. ASSUME NEW h \in Handlers
          PROVE  mem'[FP(h) - 1] = mem[FP(h) - 1]
      <3>1. FP(h) \in Unit /\ 4 <= FP(h)
        BY DEF StackInv, Aligned, Recorded, Handlers
      <3>2. FP(h) - 1 \in Unit /\ FP(h) \in Nat /\ fp' \in Nat
        BY <2>4, <3>1, UnitFacts
      <3>3. FP(h) - 1 # fp' - 1
        BY <2>8, <3>2
      <3> QED
        BY <2>2, <3>2, <3>3 DEF TypeOK
    <2>10. SuspendedList' = Append(SuspendedList,
             [kind |-> "interrupt", ip |-> ip, locals |-> window.locals,
              sp |-> window.sp, fp |-> fp,
              int |-> mem'[fp' - 1].int, ac |-> mem'[fp' - 1].ac])
      BY <2>1, <2>2, <2>9, EnterSuspends
    <2>11. mem'[fp' - 1].int = int /\ mem'[fp' - 1].ac = ac
      BY <2>6
    <2> QED
      BY <2>2, <2>10, <2>11 DEF Stack!Interrupt, SuspendedList
  <1>8. CASE Return
    BY <1>8, ReturnResumes DEF Stack!Next
  <1>9. CASE UNCHANGED vars
    BY <1>1, <1>9 DEF vars, Stack!Next
  <1> QED
    BY <1>2, <1>3, <1>4, <1>5, <1>6, <1>7, <1>8, <1>9, <1>10 DEF Next, Stack!Next

(* The frame array and the memory records implement a stack of suspended    *)
(* activations: every return gives back what the matching call or interrupt *)
(* suspended, under every program, nesting and size of the stack.           *)
THEOREM FramesNest == Spec => StackSpec
  <1>1. Init => Stack!Init
    BY StackRefineInit
  <1> QED
    BY <1>1, Invariance, StackRefineStep, PTL DEF Spec, StackSpec, Stack!Spec
=============================================================================
