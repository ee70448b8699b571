-------------------------- MODULE SoundQueue_proofs --------------------------
(***************************************************************************)
(* The safety of the sound queue for every ring size, every set of words   *)
(* and every interleaving.                                                 *)
(***************************************************************************)
EXTENDS SoundQueue, SequenceTheorems, TLAPS

(* Index arithmetic in the ring, so that no later step reasons about %.    *)
LEMMA Wrap ==
  ASSUME NEW r \in Slot, NEW k \in 0 .. RingSize
  PROVE  (r + k) % RingSize = IF r + k >= RingSize THEN r + k - RingSize ELSE r + k
  BY SizeAssumption DEF Slot

LEMMA SuccInSlot ==
  ASSUME NEW r \in Slot
  PROVE  /\ Succ(r) \in Slot
         /\ Succ(r) = IF r + 1 = RingSize THEN 0 ELSE r + 1
  BY SizeAssumption DEF Slot, Succ

LEMMA FiledInWord ==
  ASSUME NEW w \in Word, NEW gate \in Gate
  PROVE  Filed(w, gate) \in Word
  BY WordAssumption DEF Filed

LEMMA WordBytes ==
  ASSUME NEW w \in Word \cup {ZeroWord}, NEW i \in 0 .. 2
  PROVE  w[i] \in Byte
  BY WordAssumption

(***************************************************************************)
(* Every cell keeps its type: no cursor leaves the ring, the count never   *)
(* exceeds it, the byte index is never one the drainer cannot have stored. *)
(***************************************************************************)
LEMMA TypeInit == Init => TypeOK
  <1> SUFFICES ASSUME Init PROVE TypeOK
    OBVIOUS
  <1>1. 0 \in Slot /\ 1 % RingSize \in Slot
    BY SizeAssumption DEF Slot
  <1>2. ring \in [Slot -> Word \cup {ZeroWord}]
    BY WordAssumption DEF Init
  <1>3. count \in 0 .. RingSize /\ idx \in -1 .. 1
    BY SizeAssumption DEF Init
  <1>4. ticks \in 0 .. TickCap /\ moved \in 0 .. ByteCap
    BY SizeAssumption DEF Init
  <1>5. rcur \in Slot /\ wcur \in Slot
    BY <1>1 DEF Init
  <1>6. /\ staged \in Word \cup {ZeroWord} /\ word \in Word
        /\ uart \in Byte \cup {NoByte}
        /\ armed \in BOOLEAN /\ serving \in BOOLEAN /\ pc \in PC
    BY WordAssumption DEF Init, PC
  <1> QED
    BY <1>2, <1>3, <1>4, <1>5, <1>6 DEF TypeOK

LEMMA SendByteType ==
  ASSUME TypeOK, SendByte
  PROVE  /\ count' \in 0 .. RingSize
         /\ rcur' \in Slot
         /\ wcur' = wcur
         /\ ring' = ring
         /\ staged' \in Word \cup {ZeroWord}
         /\ idx' \in -1 .. 1
         /\ uart' \in Byte
  <1>1. CASE idx >= 0
    <2>1. staged[idx] \in Byte
      BY <1>1, WordBytes DEF TypeOK
    <2> QED
      BY <1>1, <2>1 DEF SendByte, TypeOK
  <1>2. CASE idx < 0
    <2>1. ring[rcur] \in Word \cup {ZeroWord}
      BY DEF TypeOK
    <2>2. ring[rcur][2] \in Byte
      BY <2>1, WordBytes
    <2>3. Succ(rcur) \in Slot
      BY SuccInSlot DEF TypeOK
    <2> QED
      BY <1>2, <2>1, <2>2, <2>3, SizeAssumption DEF SendByte, TypeOK
  <1> QED
    BY <1>1, <1>2 DEF TypeOK

LEMMA TypeStep == TypeOK /\ [Next]_vars => TypeOK'
  <1> SUFFICES ASSUME TypeOK, [Next]_vars PROVE TypeOK'
    OBVIOUS
  <1> USE SizeAssumption
  <1>1. ASSUME NEW w \in Word, NEW gate \in Gate, FilerEnter(w, gate) PROVE TypeOK'
    BY <1>1, FiledInWord DEF FilerEnter, TypeOK, PC, cells, report
  <1>2. CASE FilerCount
    BY <1>2 DEF FilerCount, TypeOK, PC, report
  <1>3. CASE FilerStore
    BY <1>3 DEF FilerStore, TypeOK, PC, report
  <1>4. CASE FilerAdvance
    BY <1>4, SuccInSlot DEF FilerAdvance, TypeOK, PC, report
  <1>5. CASE FilerLeave
    BY <1>5 DEF FilerLeave, TypeOK, PC, cells, report
  <1>6. CASE PumpTick
    BY <1>6, SendByteType DEF PumpTick, TypeOK, filer, report
  <1>7. CASE ServiceCall
    BY <1>7 DEF ServiceCall, TypeOK, cells, filer
  <1>8. CASE ServiceTick
    <2>1. ticks' \in 0 .. TickCap
      BY <1>8 DEF ServiceTick, TypeOK
    <2>2. moved' \in 0 .. ByteCap
      BY <1>8 DEF ServiceTick, TypeOK
    <2>3. serving' \in BOOLEAN
      BY <1>8 DEF ServiceTick
    <2>4. /\ count' \in 0 .. RingSize /\ rcur' \in Slot /\ wcur' = wcur
          /\ ring' = ring /\ staged' \in Word \cup {ZeroWord}
          /\ idx' \in -1 .. 1 /\ uart' \in Byte
      BY <1>8, SendByteType DEF ServiceTick
    <2>5. armed' = TRUE /\ pc' = pc /\ word' = word
      BY <1>8 DEF ServiceTick, filer
    <2> QED
      BY <2>1, <2>2, <2>3, <2>4, <2>5 DEF TypeOK
  <1>9. CASE ServicePark
    <2>1. ticks' \in 0 .. TickCap
      BY <1>9 DEF ServicePark, TypeOK
    <2> QED
      BY <1>9, <2>1 DEF ServicePark, TypeOK, cells, filer
  <1>10. CASE ServiceReturn
    BY <1>10 DEF ServiceReturn, TypeOK, cells, filer
  <1>11. CASE ServiceRefuse
    BY <1>11 DEF ServiceRefuse, TypeOK, cells, filer
  <1>12. CASE UNCHANGED vars
    BY <1>12 DEF TypeOK, vars, cells, filer, report
  <1> QED
    BY <1>1, <1>2, <1>3, <1>4, <1>5, <1>6, <1>7, <1>8, <1>9, <1>10, <1>11, <1>12
       DEF Next, FilerStep, Service

THEOREM TypeCorrect == Spec => []TypeOK
  BY TypeInit, TypeStep, PTL DEF Spec

(***************************************************************************)
(* The enable register as a lock.  WindowMasked is what makes the service  *)
(* stay out of the filer's window, and Parked is what a service call owes  *)
(* the next one: it only returns with the line masked when nothing is      *)
(* left to send.                                                           *)
(***************************************************************************)
WindowMasked == pc # "idle" => ~armed
Parked       == (serving /\ ~armed) => ~Pending
LineInv      == WindowMasked /\ Parked /\ ServiceOutsideWindow /\ NoStrandedWork

LEMMA LineInit == Init => LineInv
  BY DEF Init, LineInv, WindowMasked, Parked, ServiceOutsideWindow, NoStrandedWork

LEMMA LineStep == TypeOK /\ LineInv /\ [Next]_vars => LineInv'
  <1> SUFFICES ASSUME TypeOK, LineInv, [Next]_vars PROVE LineInv'
    OBVIOUS
  <1> USE DEF LineInv, WindowMasked, Parked, ServiceOutsideWindow, NoStrandedWork
  <1>1. ASSUME NEW w \in Word, NEW gate \in Gate, FilerEnter(w, gate) PROVE LineInv'
    BY <1>1 DEF FilerEnter, report
  <1>2. CASE FilerCount
    BY <1>2 DEF FilerCount, report
  <1>3. CASE FilerStore
    BY <1>3 DEF FilerStore, report
  <1>4. CASE FilerAdvance
    BY <1>4 DEF FilerAdvance, report
  <1>5. CASE FilerLeave
    BY <1>5 DEF FilerLeave, report
  <1>6. CASE PumpTick
    BY <1>6 DEF PumpTick, filer, report
  <1>7. CASE ServiceCall
    BY <1>7 DEF ServiceCall, cells, filer
  <1>8. CASE ServiceTick
    BY <1>8 DEF ServiceTick, filer
  <1>9. CASE ServicePark
    BY <1>9 DEF ServicePark, Pending, cells, filer
  <1>10. CASE ServiceReturn
    BY <1>10 DEF ServiceReturn, Pending, cells, filer
  <1>11. CASE ServiceRefuse
    BY <1>11 DEF ServiceRefuse, Pending, cells, filer
  <1>12. CASE UNCHANGED vars
    BY <1>12 DEF vars, Pending, cells, filer, report
  <1> QED
    BY <1>1, <1>2, <1>3, <1>4, <1>5, <1>6, <1>7, <1>8, <1>9, <1>10, <1>11, <1>12
       DEF Next, FilerStep, Service

(* The host's service call and the filer's masked window never overlap.    *)
THEOREM ServiceExcluded == Spec => []ServiceOutsideWindow
  <1>1. LineInv => ServiceOutsideWindow
    BY DEF LineInv
  <1> QED
    BY <1>1, LineInit, LineStep, TypeCorrect, PTL DEF Spec

(* No word waits behind a masked line once the filer has left.             *)
THEOREM NothingStranded == Spec => []NoStrandedWork
  <1>1. LineInv => NoStrandedWork
    BY DEF LineInv
  <1> QED
    BY <1>1, LineInit, LineStep, TypeCorrect, PTL DEF Spec

(***************************************************************************)
(* The cursors and the count agree.  The pump and the service may only     *)
(* load an entry outside the window: that is LineInv's WindowMasked.       *)
(***************************************************************************)
LEMMA ShapeInit == Init => RingShape
  BY SizeAssumption DEF Init, RingShape, Queued

(* Sending a byte outside the window keeps the shape.                      *)
LEMMA SendByteShape ==
  ASSUME TypeOK, RingShape, SendByte, pc = "idle", pc' = pc
  PROVE  RingShape'
  <1>1. count \in 0 .. RingSize /\ rcur \in Slot /\ idx \in Int
    BY DEF TypeOK
  <1>2. CASE idx >= 0
    BY <1>1, <1>2 DEF SendByte, RingShape, Queued
  <1>3. CASE idx < 0
    <2>1. /\ count > 0 /\ count' = count - 1
          /\ rcur' = Succ(rcur) /\ wcur' = wcur
      BY <1>1, <1>3 DEF SendByte
    <2>2. wcur = (rcur + count) % RingSize
      BY DEF RingShape, Queued
    <2>3. rcur' \in Slot /\ count' \in 0 .. RingSize
      BY <1>1, <2>1, SuccInSlot, SizeAssumption
    <2>4. (rcur' + count') % RingSize = (rcur + count) % RingSize
      <3>1. rcur' = IF rcur + 1 = RingSize THEN 0 ELSE rcur + 1
        BY <1>1, <2>1, SuccInSlot
      <3>2. (rcur + count) % RingSize
              = IF rcur + count >= RingSize THEN rcur + count - RingSize ELSE rcur + count
        BY <1>1, Wrap
      <3>3. (rcur' + count') % RingSize
              = IF rcur' + count' >= RingSize THEN rcur' + count' - RingSize
                                              ELSE rcur' + count'
        BY <2>3, Wrap
      <3> QED
        BY <1>1, <2>1, <3>1, <3>2, <3>3, SizeAssumption DEF Slot
    <2> QED
      BY <2>1, <2>2, <2>4 DEF RingShape, Queued
  <1> QED
    BY <1>1, <1>2, <1>3

LEMMA ShapeStep == TypeOK /\ LineInv /\ RingShape /\ [Next]_vars => RingShape'
  <1> SUFFICES ASSUME TypeOK, LineInv, RingShape, [Next]_vars PROVE RingShape'
    OBVIOUS
  <1>0. count \in 0 .. RingSize /\ rcur \in Slot /\ wcur \in Slot
    BY DEF TypeOK
  <1>1. ASSUME NEW w \in Word, NEW gate \in Gate, FilerEnter(w, gate) PROVE RingShape'
    BY <1>1 DEF FilerEnter, RingShape, Queued, cells
  <1>2. CASE FilerCount
    BY <1>0, <1>2, SizeAssumption DEF FilerCount, RingShape, Queued
  <1>3. CASE FilerStore
    BY <1>3 DEF FilerStore, RingShape, Queued
  <1>4. CASE FilerAdvance
    <2>1. /\ count > 0 /\ count' = count /\ rcur' = rcur
          /\ wcur' = Succ(wcur) /\ pc' = "leaving"
      BY <1>4 DEF FilerAdvance, RingShape
    <2>2. wcur = (rcur + (count - 1)) % RingSize
      BY <1>0, <1>4 DEF FilerAdvance, RingShape, Queued
    <2>3. count - 1 \in 0 .. RingSize
      BY <1>0, <2>1, SizeAssumption
    <2>4. wcur = IF rcur + (count - 1) >= RingSize
                   THEN rcur + (count - 1) - RingSize ELSE rcur + (count - 1)
      BY <1>0, <2>2, <2>3, Wrap
    <2>5. (rcur + count) % RingSize
            = IF rcur + count >= RingSize THEN rcur + count - RingSize ELSE rcur + count
      BY <1>0, Wrap
    <2>6. wcur' = IF wcur + 1 = RingSize THEN 0 ELSE wcur + 1
      BY <1>0, <2>1, SuccInSlot
    <2>7. wcur' = (rcur + count) % RingSize
      BY <1>0, <2>1, <2>4, <2>5, <2>6, SizeAssumption DEF Slot
    <2> QED
      BY <2>1, <2>7 DEF RingShape, Queued
  <1>5. CASE FilerLeave
    BY <1>5 DEF FilerLeave, RingShape, Queued, cells
  <1>6. CASE PumpTick
    BY <1>6, SendByteShape DEF PumpTick, filer
  <1>7. CASE ServiceCall
    BY <1>7 DEF ServiceCall, RingShape, Queued, cells, filer
  <1>8. CASE ServiceTick
    BY <1>8, SendByteShape
       DEF ServiceTick, filer, LineInv, ServiceOutsideWindow
  <1>9. CASE ServicePark
    BY <1>9 DEF ServicePark, RingShape, Queued, cells, filer
  <1>10. CASE ServiceReturn
    BY <1>10 DEF ServiceReturn, RingShape, Queued, cells, filer
  <1>11. CASE ServiceRefuse
    BY <1>11 DEF ServiceRefuse, RingShape, Queued, cells, filer
  <1>12. CASE UNCHANGED vars
    BY <1>12 DEF vars, RingShape, Queued, cells, filer
  <1> QED
    BY <1>1, <1>2, <1>3, <1>4, <1>5, <1>6, <1>7, <1>8, <1>9, <1>10, <1>11, <1>12
       DEF Next, FilerStep, Service

(* Count, read cursor and write cursor always describe the same entries.   *)
THEOREM ShapeCorrect == Spec => []RingShape
  <1>1. Init => LineInv /\ RingShape
    BY LineInit, ShapeInit
  <1>2. TypeOK /\ (LineInv /\ RingShape) /\ [Next]_vars => (LineInv /\ RingShape)'
    BY LineStep, ShapeStep
  <1> QED
    BY <1>1, <1>2, TypeCorrect, PTL DEF Spec

(***************************************************************************)
(* A service call ends by parking the line, never at a cap.  The measure   *)
(* ticks + 3 * count + idx + 1 does not change while the call runs: each   *)
(* tick sends one byte.                                                    *)
(***************************************************************************)
LEMMA SendByteMeasure ==
  ASSUME TypeOK, SendByte
  PROVE  3 * count' + idx' + 1 = 3 * count + idx
  BY DEF SendByte, TypeOK

LEMMA MeasureArithmetic ==
  ASSUME NEW t \in Int, NEW c \in Int, NEW d \in Int, NEW i \in Int, NEW j \in Int,
         NEW bound \in Int, 3 * d + j + 1 = 3 * c + i
  PROVE  /\ t + 3 * c + i + 1 < bound => (t + 1) + 3 * d + j + 1 < bound
         /\ t + 3 * c + i + 1 <= bound => (t + 1) + 3 * d + j + 1 <= bound
  OBVIOUS

LEMMA CapsStep ==
  ASSUME 3 * RingSize + 2 < TickCap, 3 * RingSize + 2 <= ByteCap
  PROVE  TypeOK /\ LineInv /\ ServiceFitsCaps /\ [Next]_vars => ServiceFitsCaps'
  <1> SUFFICES ASSUME TypeOK, LineInv, ServiceFitsCaps, [Next]_vars,
                      serving', armed'
               PROVE  /\ ticks' + 3 * count' + idx' + 1 < TickCap
                      /\ moved' + 3 * count' + idx' + 1 <= ByteCap
    BY DEF ServiceFitsCaps
  <1> USE SizeAssumption
  <1>0. /\ count \in 0 .. RingSize /\ idx \in -1 .. 1
        /\ ticks \in Nat /\ moved \in Nat
    BY DEF TypeOK
  <1>1. CASE (FilerStep \/ PumpTick \/ \E w \in Word, gate \in Gate : FilerEnter(w, gate))
    BY <1>1 DEF FilerStep, FilerCount, FilerStore, FilerAdvance, FilerLeave,
                FilerEnter, PumpTick, report
  <1>2. CASE ServiceCall
    BY <1>0, <1>2 DEF ServiceCall, cells
  <1>3. CASE ServiceTick
    <2>1. 3 * count' + idx' + 1 = 3 * count + idx
      BY <1>3, SendByteMeasure DEF ServiceTick
    <2>2. count' \in 0 .. RingSize /\ idx' \in -1 .. 1
      BY <1>3, SendByteType DEF ServiceTick
    <2>3. ticks' = ticks + 1 /\ (moved' = moved + 1 \/ ~(moved < ByteCap))
      BY <1>3 DEF ServiceTick
    <2>4. serving /\ armed /\ serving' = (moved < ByteCap)
      BY <1>3 DEF ServiceTick
    <2>5. moved < ByteCap
      BY <2>4
    <2>6. /\ ticks + 3 * count + idx + 1 < TickCap
          /\ moved + 3 * count + idx + 1 <= ByteCap
      BY <2>4 DEF ServiceFitsCaps
    <2>7. moved' = moved + 1
      BY <2>3, <2>5
    <2>8. ticks' = ticks + 1
      BY <2>3
    <2>9. /\ count \in Int /\ count' \in Int /\ idx \in Int /\ idx' \in Int
          /\ ticks \in Int /\ moved \in Int /\ TickCap \in Int /\ ByteCap \in Int
      BY <1>0, <2>2
    <2>10. ticks' + 3 * count' + idx' + 1 < TickCap
      BY <2>1, <2>6, <2>8, <2>9, MeasureArithmetic
    <2>11. moved' + 3 * count' + idx' + 1 <= ByteCap
      BY <2>1, <2>6, <2>7, <2>9, MeasureArithmetic
    <2> QED
      BY <2>10, <2>11
  <1>4. CASE ServicePark \/ ServiceReturn \/ ServiceRefuse
    BY <1>4 DEF ServicePark, ServiceReturn, ServiceRefuse
  <1>5. CASE UNCHANGED vars
    BY <1>5 DEF vars, cells, report, ServiceFitsCaps
  <1> QED
    BY <1>1, <1>2, <1>3, <1>4, <1>5 DEF Next, Service

(* With three bytes an entry, at most two left of the staged word and one  *)
(* empty pass, caps of 3 * RingSize + 3 ticks and 3 * RingSize + 2 bytes   *)
(* are enough: the code's 80 and 64 are, for its ring of 16.               *)
THEOREM CapsSuffice ==
  ASSUME 3 * RingSize + 2 < TickCap, 3 * RingSize + 2 <= ByteCap
  PROVE  Spec => []ServiceFitsCaps
  <1>1. Init => ServiceFitsCaps
    BY DEF Init, ServiceFitsCaps
  <1>2. TypeOK /\ LineInv /\ ServiceFitsCaps /\ [Next]_vars => ServiceFitsCaps'
    BY CapsStep
  <1> QED
    BY <1>1, <1>2, LineInit, LineStep, TypeCorrect, PTL DEF Spec

(***************************************************************************)
(* The queue implements the bounded FIFO.  Between FilerCount and          *)
(* FilerAdvance the entry being filed is counted but not yet part of the   *)
(* abstract queue; SlotWritten says the slot it becomes visible with holds *)
(* the filed word.                                                         *)
(***************************************************************************)
SlotWritten == pc = "stored" => ring[wcur] = word

Entry == Word \cup {ZeroWord}

Current == [i \in 1 .. idx + 1 |-> staged[idx + 1 - i]]

LEMMA SlotWrittenStep == TypeOK /\ LineInv /\ SlotWritten /\ [Next]_vars => SlotWritten'
  <1> SUFFICES ASSUME TypeOK, LineInv, SlotWritten, [Next]_vars PROVE SlotWritten'
    OBVIOUS
  <1> USE DEF SlotWritten
  <1>1. CASE FilerStep \/ \E w \in Word, gate \in Gate : FilerEnter(w, gate)
    BY <1>1 DEF FilerStep, FilerCount, FilerStore, FilerAdvance, FilerLeave, FilerEnter,
                TypeOK
  <1>2. CASE PumpTick
    BY <1>2 DEF PumpTick, filer
  <1>3. CASE ServiceTick
    BY <1>3 DEF ServiceTick, filer, LineInv, ServiceOutsideWindow
  <1>4. CASE ServiceCall \/ ServicePark \/ ServiceReturn \/ ServiceRefuse
    BY <1>4 DEF ServiceCall, ServicePark, ServiceReturn, ServiceRefuse, cells, filer
  <1>5. CASE UNCHANGED vars
    BY <1>5 DEF vars, cells, filer
  <1> QED
    BY <1>1, <1>2, <1>3, <1>4, <1>5 DEF Next, Service

LEMMA QueuedType ==
  ASSUME TypeOK, RingShape
  PROVE  Queued \in 0 .. RingSize
  BY SizeAssumption DEF TypeOK, RingShape, Queued

LEMMA SlotOf ==
  ASSUME TypeOK, NEW i \in 1 .. RingSize
  PROVE  /\ (rcur + i - 1) % RingSize \in Slot
         /\ (rcur + i - 1) % RingSize
              = IF rcur + i - 1 >= RingSize THEN rcur + i - 1 - RingSize ELSE rcur + i - 1
  <1>1. rcur \in Slot /\ i - 1 \in 0 .. RingSize /\ rcur + i - 1 = rcur + (i - 1)
    BY SizeAssumption DEF TypeOK, Slot
  <1>2. (rcur + (i - 1)) % RingSize
          = IF rcur + (i - 1) >= RingSize THEN rcur + (i - 1) - RingSize ELSE rcur + (i - 1)
    BY <1>1, Wrap
  <1> QED
    BY <1>1, <1>2, SizeAssumption DEF Slot

LEMMA WaitingSeq ==
  ASSUME TypeOK, RingShape
  PROVE  /\ Waiting \in Seq(Entry)
         /\ Len(Waiting) = Queued
         /\ \A i \in 1 .. Queued : Waiting[i] = ring[(rcur + i - 1) % RingSize]
  <1>1. Queued \in Nat /\ Queued <= RingSize
    BY QueuedType, SizeAssumption
  <1>2. \A i \in 1 .. Queued : ring[(rcur + i - 1) % RingSize] \in Entry
    <2> TAKE i \in 1 .. Queued
    <2>1. i \in 1 .. RingSize
      BY <1>1, SizeAssumption
    <2> QED
      BY <2>1, SlotOf DEF TypeOK, Entry
  <1>3. Waiting \in [1 .. Queued -> Entry]
    BY <1>2 DEF Waiting
  <1> QED
    BY <1>1, <1>3 DEF Waiting

LEMMA CurrentSeq ==
  ASSUME TypeOK
  PROVE  /\ Current \in Seq(Byte)
         /\ Len(Current) = idx + 1
         /\ \A i \in 1 .. idx + 1 : Current[i] = staged[idx + 1 - i]
  <1>1. idx \in -1 .. 1 /\ idx + 1 \in Nat
    BY DEF TypeOK
  <1>2. \A i \in 1 .. idx + 1 : staged[idx + 1 - i] \in Byte
    <2> TAKE i \in 1 .. idx + 1
    <2>1. idx + 1 - i \in 0 .. 2
      BY <1>1
    <2> QED
      BY <2>1, WordBytes DEF TypeOK
  <1>3. Current \in [1 .. idx + 1 -> Byte]
    BY <1>2 DEF Current
  <1> QED
    BY <1>1, <1>3 DEF Current

WaitingOK ==
  /\ Waiting \in Seq(Entry)
  /\ Len(Waiting) = Queued
  /\ \A i \in 1 .. Queued : Waiting[i] = ring[(rcur + i - 1) % RingSize]

CurrentOK ==
  /\ Current \in Seq(Byte)
  /\ Len(Current) = idx + 1
  /\ \A i \in 1 .. idx + 1 : Current[i] = staged[idx + 1 - i]

LEMMA WaitingNext == (TypeOK /\ RingShape)' => WaitingOK'
  <1>1. TypeOK /\ RingShape => WaitingOK
    BY WaitingSeq DEF WaitingOK
  <1> QED
    BY <1>1, PTL

LEMMA CurrentNext == TypeOK' => CurrentOK'
  <1>1. TypeOK => CurrentOK
    BY CurrentSeq DEF CurrentOK
  <1> QED
    BY <1>1, PTL

(* The filer's cursor store is where the word enters the abstract queue.   *)
LEMMA AdvanceAccepts ==
  ASSUME TypeOK, TypeOK', RingShape, RingShape', SlotWritten, FilerAdvance
  PROVE  Fifo!Accept(word)
  <1> USE SizeAssumption
  <1>1. /\ pc = "stored" /\ pc' = "leaving" /\ ring[wcur] = word
        /\ count' = count /\ rcur' = rcur /\ ring' = ring
        /\ staged' = staged /\ idx' = idx /\ uart' = uart
    BY DEF FilerAdvance, SlotWritten
  <1>2. Queued = count - 1 /\ Queued' = count /\ count \in 1 .. RingSize
    BY <1>1 DEF Queued, RingShape, TypeOK
  <1>3. WaitingOK /\ WaitingOK'
    BY WaitingSeq, WaitingNext DEF WaitingOK
  <1>4. word \in Entry
    BY DEF TypeOK, Entry
  <1>5. /\ Append(Waiting, word) \in Seq(Entry)
        /\ Len(Append(Waiting, word)) = count
        /\ \A i \in 1 .. count - 1 : Append(Waiting, word)[i] = Waiting[i]
        /\ Append(Waiting, word)[count] = word
    BY <1>2, <1>3, <1>4, AppendProperties DEF WaitingOK
  <1>6. wcur = (rcur + count - 1) % RingSize
    <2>1. rcur + (count - 1) = rcur + count - 1
      BY <1>2 DEF TypeOK, Slot
    <2> QED
      BY <1>2, <2>1 DEF RingShape
  <1>7. \A i \in 1 .. count : Waiting'[i] = Append(Waiting, word)[i]
    <2> TAKE i \in 1 .. count
    <2>1. Waiting'[i] = ring[(rcur + i - 1) % RingSize]
      BY <1>1, <1>2, <1>3 DEF WaitingOK
    <2>2. CASE i = count
      BY <1>1, <1>5, <1>6, <2>1, <2>2
    <2>3. CASE i # count
      <3>1. i \in 1 .. count - 1
        BY <1>2, <2>3
      <3> QED
        BY <1>2, <1>3, <1>5, <2>1, <3>1 DEF WaitingOK
    <2> QED
      BY <2>2, <2>3
  <1>8. Waiting' = Append(Waiting, word)
    <2>1. Waiting' \in Seq(Entry) /\ Len(Waiting') = count
      BY <1>2, <1>3 DEF WaitingOK
    <2> QED
      BY <1>5, <1>7, <2>1, SeqEqual
  <1>9. Len(Waiting) < RingSize
    BY <1>2, <1>3 DEF WaitingOK
  <1> QED
    BY <1>1, <1>8, <1>9 DEF Fifo!Accept

(* The first byte of an entry: the entry leaves the abstract queue.        *)
LEMMA LoadStarts ==
  ASSUME TypeOK, TypeOK', RingShape, RingShape', SendByte, idx < 0,
         pc = "idle", pc' = pc
  PROVE  Fifo!Start
  <1> USE SizeAssumption
  <1>1. /\ count > 0 /\ count' = count - 1 /\ staged' = ring[rcur]
        /\ rcur' = Succ(rcur) /\ uart' = ring[rcur][2] /\ idx' = 1
        /\ wcur' = wcur /\ ring' = ring /\ idx = -1
    BY DEF SendByte, TypeOK
  <1>2. /\ Queued = count /\ Queued' = count - 1
        /\ count \in 1 .. RingSize /\ rcur \in Slot
    BY <1>1 DEF Queued, TypeOK
  <1>3. WaitingOK /\ WaitingOK' /\ CurrentOK /\ CurrentOK'
    BY WaitingSeq, WaitingNext, CurrentSeq, CurrentNext DEF WaitingOK, CurrentOK
  <1>4. Waiting # << >> /\ Current = << >>
    BY <1>1, <1>2, <1>3, EmptySeq DEF WaitingOK, CurrentOK
  <1>5. Waiting[1] = ring[rcur]
    <2>1. (rcur + 1 - 1) % RingSize = rcur
      BY <1>2 DEF Slot
    <2> QED
      BY <1>2, <1>3, <2>1 DEF WaitingOK
  <1>6. Head(Waiting) = ring[rcur]
    BY <1>3, <1>4, <1>5 DEF WaitingOK
  <1>7. Waiting' = Tail(Waiting)
    <2>1. /\ Tail(Waiting) \in Seq(Entry) /\ Len(Tail(Waiting)) = count - 1
          /\ \A i \in 1 .. count - 1 : Tail(Waiting)[i] = Waiting[i + 1]
      BY <1>2, <1>3, <1>4, HeadTailProperties DEF WaitingOK
    <2>2. Waiting' \in Seq(Entry) /\ Len(Waiting') = count - 1
      BY <1>2, <1>3 DEF WaitingOK
    <2>3. \A i \in 1 .. count - 1 : Waiting'[i] = Tail(Waiting)[i]
      <3> TAKE i \in 1 .. count - 1
      <3>1. i \in 1 .. RingSize /\ i + 1 \in 1 .. count /\ i + 1 \in 1 .. RingSize
        BY <1>2
      <3>2. Waiting'[i] = ring[(rcur' + i - 1) % RingSize]
        BY <1>1, <1>2, <1>3 DEF WaitingOK
      <3>3. Waiting[i + 1] = ring[(rcur + (i + 1) - 1) % RingSize]
        BY <1>2, <1>3, <3>1 DEF WaitingOK
      <3>4. (rcur' + i - 1) % RingSize = (rcur + (i + 1) - 1) % RingSize
        <4>1. rcur' \in Slot /\ rcur' = IF rcur + 1 = RingSize THEN 0 ELSE rcur + 1
          BY <1>1, <1>2, SuccInSlot
        <4>2. i - 1 \in 0 .. RingSize /\ i \in 0 .. RingSize
          BY <3>1
        <4>3. (rcur' + (i - 1)) % RingSize
                = IF rcur' + (i - 1) >= RingSize THEN rcur' + (i - 1) - RingSize
                                                 ELSE rcur' + (i - 1)
          BY <4>1, <4>2, Wrap
        <4>4. (rcur + i) % RingSize
                = IF rcur + i >= RingSize THEN rcur + i - RingSize ELSE rcur + i
          BY <1>2, <4>2, Wrap
        <4>5. rcur' + i - 1 = rcur' + (i - 1) /\ rcur + (i + 1) - 1 = rcur + i
          BY <1>2, <4>1 DEF Slot
        <4> QED
          BY <1>2, <3>1, <4>1, <4>3, <4>4, <4>5 DEF Slot
      <3> QED
        BY <2>1, <3>2, <3>3, <3>4
    <2> QED
      BY <2>1, <2>2, <2>3, SeqEqual
  <1>8. Current' = <<ring[rcur][1], ring[rcur][0]>>
    <2>1. /\ Current' \in Seq(Byte) /\ Len(Current') = 2
          /\ Current'[1] = ring[rcur][1] /\ Current'[2] = ring[rcur][0]
      BY <1>1, <1>3 DEF CurrentOK
    <2> QED
      BY <2>1
  <1> QED
    BY <1>1, <1>4, <1>6, <1>7, <1>8 DEF Fifo!Start, Fifo!Bytes, Current

LEMMA SendContinues ==
  ASSUME TypeOK, TypeOK', SendByte, idx >= 0, pc' = pc
  PROVE  Fifo!Continue
  <1>1. /\ uart' = staged[idx] /\ idx' = idx - 1 /\ idx \in 0 .. 1
        /\ count' = count /\ rcur' = rcur /\ ring' = ring /\ staged' = staged
    BY DEF SendByte, TypeOK
  <1>2. Waiting' = Waiting
    BY <1>1 DEF Waiting, Queued
  <1>3. CurrentOK /\ CurrentOK'
    BY CurrentSeq, CurrentNext DEF CurrentOK
  <1>4. /\ Current # << >> /\ Head(Current) = staged[idx]
    BY <1>1, <1>3, EmptySeq DEF CurrentOK
  <1>5. Current' = Tail(Current)
    <2>1. /\ Tail(Current) \in Seq(Byte) /\ Len(Tail(Current)) = idx
          /\ \A i \in 1 .. idx : Tail(Current)[i] = Current[i + 1]
      BY <1>1, <1>3, <1>4, HeadTailProperties DEF CurrentOK
    <2>2. Current' \in Seq(Byte) /\ Len(Current') = idx
      BY <1>1, <1>3 DEF CurrentOK
    <2>3. \A i \in 1 .. idx : Current'[i] = Tail(Current)[i]
      <3> TAKE i \in 1 .. idx
      <3>1. Current'[i] = staged[idx - i]
        BY <1>1, <1>3 DEF CurrentOK
      <3>2. Current[i + 1] = staged[idx + 1 - (i + 1)]
        BY <1>1, <1>3 DEF CurrentOK
      <3>3. idx + 1 - (i + 1) = idx - i
        BY <1>1
      <3> QED
        BY <2>1, <3>1, <3>2, <3>3
    <2> QED
      BY <2>1, <2>2, <2>3, SeqEqual
  <1> QED
    BY <1>1, <1>2, <1>4, <1>5 DEF Fifo!Continue, Current

(* The slot the filer writes is not one of those already waiting.          *)
LEMMA StoreStutters ==
  ASSUME TypeOK, RingShape, FilerStore
  PROVE  UNCHANGED <<Waiting, Current, uart>>
  <1> USE SizeAssumption
  <1>1. /\ pc = "counted" /\ pc' = "stored" /\ ring' = [ring EXCEPT ![wcur] = word]
        /\ count' = count /\ rcur' = rcur /\ staged' = staged /\ idx' = idx /\ uart' = uart
    BY DEF FilerStore
  <1>2. Queued' = Queued /\ Queued = count - 1 /\ count \in 1 .. RingSize
    BY <1>1 DEF Queued, RingShape, TypeOK
  <1>3. rcur \in Slot /\ wcur \in Slot /\ ring \in [Slot -> Word \cup {ZeroWord}]
    BY DEF TypeOK
  <1>4. wcur = IF rcur + (count - 1) >= RingSize THEN rcur + (count - 1) - RingSize
                                                 ELSE rcur + (count - 1)
    <2>1. count - 1 \in 0 .. RingSize
      BY <1>2
    <2> QED
      BY <1>2, <1>3, <2>1, Wrap DEF RingShape
  <1>5. \A i \in 1 .. Queued : ring'[(rcur + i - 1) % RingSize] = ring[(rcur + i - 1) % RingSize]
    <2> TAKE i \in 1 .. Queued
    <2>1. i \in 1 .. RingSize /\ i <= count - 1
      BY <1>2
    <2>2. /\ (rcur + i - 1) % RingSize \in Slot
          /\ (rcur + i - 1) % RingSize
               = IF rcur + i - 1 >= RingSize THEN rcur + i - 1 - RingSize ELSE rcur + i - 1
      BY <2>1, SlotOf
    <2>3. (rcur + i - 1) % RingSize # wcur
      BY <1>2, <1>3, <1>4, <2>1, <2>2 DEF Slot
    <2> QED
      BY <1>1, <1>3, <2>2, <2>3
  <1>6. Waiting' = Waiting
    BY <1>1, <1>2, <1>5 DEF Waiting
  <1> QED
    BY <1>1, <1>6 DEF Current

LEMMA RefineInit == Init => Fifo!Init
  <1> SUFFICES ASSUME Init PROVE Fifo!Init
    OBVIOUS
  <1> USE SizeAssumption
  <1>1. TypeOK /\ RingShape
    BY TypeInit, ShapeInit
  <1>2. Queued = 1 /\ rcur = 0 /\ ring[0] = BootWord /\ idx = -1
    BY DEF Init, Queued, Slot
  <1>3. WaitingOK /\ CurrentOK
    BY <1>1, WaitingSeq, CurrentSeq DEF WaitingOK, CurrentOK
  <1>4. Waiting = <<BootWord>>
    <2>1. Waiting[1] = ring[(0 + 1 - 1) % RingSize] /\ Len(Waiting) = 1
      BY <1>2, <1>3 DEF WaitingOK
    <2>2. (0 + 1 - 1) % RingSize = 0
      OBVIOUS
    <2> QED
      BY <1>2, <1>3, <2>1, <2>2 DEF WaitingOK
  <1>5. Current = << >>
    BY <1>2, <1>3, EmptySeq DEF CurrentOK
  <1> QED
    BY <1>4, <1>5 DEF Fifo!Init, Init, Current

LEMMA RefineStep ==
  TypeOK /\ TypeOK' /\ LineInv /\ RingShape /\ RingShape' /\ SlotWritten /\ [Next]_vars
    => [Fifo!Next]_(Fifo!vars)
  <1> SUFFICES ASSUME TypeOK, TypeOK', LineInv, RingShape, RingShape', SlotWritten,
                      [Next]_vars
               PROVE  Fifo!Next \/ UNCHANGED <<Waiting, Current, uart>>
    BY DEF Fifo!vars, Current
  <1>0. ASSUME SendByte, pc = "idle", pc' = pc PROVE Fifo!Next
    <2>1. CASE idx >= 0
      BY <1>0, <2>1, SendContinues DEF Fifo!Next, Fifo!Transmit
    <2>2. CASE idx < 0
      BY <1>0, <2>2, LoadStarts DEF Fifo!Next, Fifo!Transmit
    <2> QED
      BY <2>1, <2>2 DEF TypeOK
  <1>1. ASSUME NEW w \in Word, NEW gate \in Gate, FilerEnter(w, gate)
        PROVE  UNCHANGED <<Waiting, Current, uart>>
    BY <1>1 DEF FilerEnter, cells, Waiting, Queued, Current
  <1>2. CASE FilerCount
    <2>1. Queued' = Queued
      <3>1. count \in Int /\ Queued = count
        BY <1>2 DEF FilerCount, Queued, TypeOK
      <3>2. CASE count < RingSize
        BY <1>2, <3>1, <3>2 DEF FilerCount, Queued
      <3>3. CASE ~(count < RingSize)
        BY <1>2, <3>1, <3>3 DEF FilerCount, Queued
      <3> QED
        BY <3>2, <3>3
    <2>2. ring' = ring /\ rcur' = rcur /\ staged' = staged /\ idx' = idx /\ uart' = uart
      BY <1>2 DEF FilerCount
    <2> QED
      BY <2>1, <2>2 DEF Waiting, Current
  <1>3. CASE FilerStore
    BY <1>3, StoreStutters
  <1>4. CASE FilerAdvance
    BY <1>4, AdvanceAccepts DEF Fifo!Next, TypeOK
  <1>5. CASE FilerLeave
    BY <1>5 DEF FilerLeave, cells, Waiting, Queued, Current
  <1>6. CASE PumpTick
    BY <1>0, <1>6 DEF PumpTick, filer
  <1>7. CASE ServiceTick
    BY <1>0, <1>7 DEF ServiceTick, filer, LineInv, ServiceOutsideWindow
  <1>8. CASE ServiceCall \/ ServicePark \/ ServiceReturn \/ ServiceRefuse
    BY <1>8 DEF ServiceCall, ServicePark, ServiceReturn, ServiceRefuse, cells, filer,
                Waiting, Queued, Current
  <1>9. CASE UNCHANGED vars
    BY <1>9 DEF vars, cells, filer, Waiting, Queued, Current
  <1> QED
    BY <1>1, <1>2, <1>3, <1>4, <1>5, <1>6, <1>7, <1>8, <1>9 DEF Next, FilerStep, Service

(* Whatever the filer, the service and the pump do, the line carries the   *)
(* accepted words whole and in order: the queue is the bounded FIFO.       *)
THEOREM QueueIsFifo == Spec => FifoSpec
  <1>1. Init => LineInv /\ RingShape /\ SlotWritten
    BY LineInit, ShapeInit DEF Init, SlotWritten
  <1>2. TypeOK /\ (LineInv /\ RingShape /\ SlotWritten) /\ [Next]_vars
          => (LineInv /\ RingShape /\ SlotWritten)'
    BY LineStep, ShapeStep, SlotWrittenStep
  <1>3. Spec => [](LineInv /\ RingShape /\ SlotWritten)
    BY <1>1, <1>2, TypeCorrect, PTL DEF Spec
  <1> QED
    BY <1>3, TypeCorrect, RefineInit, RefineStep, PTL DEF Spec, FifoSpec, Fifo!Spec
==============================================================================
