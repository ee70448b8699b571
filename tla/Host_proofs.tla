------------------------------ MODULE Host_proofs ------------------------------
(***************************************************************************)
(* The host's two components.  The audio ring for every capacity, chunk,   *)
(* batch and request: its types, and that the two threads implement        *)
(* FrameBuffer.  The held sources for every set of controls and buttons.   *)
(***************************************************************************)
EXTENDS HostAudioRing, HostInput, SequenceTheorems, FiniteSetTheorems, TLAPS

Sample == Frame \cup {Silence}

(* The lock's holder is the thread that stands between lock and unlock.     *)
Locked ==
  /\ lock = "host" <=> hostAt \in {"room", "copy", "unlock"}
  /\ lock = "device" <=> devAt \in {"size", "copy", "count", "unlock"}

(* While the push copies, its room is still what the ring has, and what it  *)
(* has copied lies behind the frames that count.                            *)
Pushing ==
  hostAt = "copy" =>
    /\ room = Least(Len(batch), Capacity - count)
    /\ \A i \in 1 .. put : data[(read + count + (i - 1)) % Capacity] = batch[i]

(* While the callback copies, it takes what the ring has, and what it has   *)
(* copied are the oldest frames; from its unlock on the chunk is full.      *)
Serving ==
  /\ devAt # "sleep" => additional > 0
  /\ devAt \in {"copy", "count"} => got = Least(Wanted, count)
  /\ devAt = "copy" =>
       /\ Len(buffer) <= got
       /\ \A i \in 1 .. Len(buffer) : buffer[i] = data[(read + (i - 1)) % Capacity]
  /\ devAt = "count" => Len(buffer) = got
  /\ devAt \in {"unlock", "put"} => Len(buffer) = Wanted

IInv == TypeOK /\ Locked /\ Pushing /\ Serving

-------------------------------------------------------------------------------
(* Positions in the ring, so that no later step reasons about %.            *)
LEMMA Wrap ==
  ASSUME NEW p \in Pos, NEW k \in 0 .. Capacity
  PROVE  /\ (p + k) % Capacity \in Pos
         /\ (p + k) % Capacity = IF p + k >= Capacity THEN p + k - Capacity ELSE p + k
  BY RingAssumption DEF Pos

(* Two places of one ring are two positions.                                *)
LEMMA Apart ==
  ASSUME NEW p \in Pos, NEW j \in 0 .. Capacity - 1, NEW k \in 0 .. Capacity - 1,
         j # k
  PROVE  (p + j) % Capacity # (p + k) % Capacity
  <1>1. j \in 0 .. Capacity /\ k \in 0 .. Capacity
    BY RingAssumption
  <1>2. (p + j) % Capacity = IF p + j >= Capacity THEN p + j - Capacity ELSE p + j
    BY <1>1, Wrap
  <1>3. (p + k) % Capacity = IF p + k >= Capacity THEN p + k - Capacity ELSE p + k
    BY <1>1, Wrap
  <1> QED
    BY <1>2, <1>3, RingAssumption DEF Pos

(* The k-th place after the n-th is the place n + k.                        *)
LEMMA Onward ==
  ASSUME NEW p \in Pos, NEW n \in 0 .. Capacity, NEW k \in 0 .. Capacity,
         n + k <= Capacity
  PROVE  (((p + n) % Capacity) + k) % Capacity = (p + (n + k)) % Capacity
  <1>1. n + k \in 0 .. Capacity /\ (p + n) % Capacity \in Pos
    BY Wrap, RingAssumption
  <1>2. (p + n) % Capacity = IF p + n >= Capacity THEN p + n - Capacity ELSE p + n
    BY Wrap
  <1>3. (((p + n) % Capacity) + k) % Capacity
          = IF ((p + n) % Capacity) + k >= Capacity THEN ((p + n) % Capacity) + k - Capacity
                                                  ELSE ((p + n) % Capacity) + k
    BY <1>1, Wrap
  <1>4. (p + (n + k)) % Capacity
          = IF p + (n + k) >= Capacity THEN p + (n + k) - Capacity ELSE p + (n + k)
    BY <1>1, Wrap
  <1> QED
    BY <1>1, <1>2, <1>3, <1>4, RingAssumption, SMTT(40) DEF Pos

LEMMA LeastFacts ==
  ASSUME NEW a \in Nat, NEW b \in Nat
  PROVE  /\ Least(a, b) \in Nat
         /\ Least(a, b) <= a /\ Least(a, b) <= b
         /\ Least(a, b) = a \/ Least(a, b) = b
         /\ Least(a, b) = b \/ a <= b
  BY DEF Least

LEMMA HushFacts ==
  ASSUME NEW n \in Nat
  PROVE  /\ Hush(n) \in Seq(Sample)
         /\ Len(Hush(n)) = n
         /\ \A i \in 1 .. n : Hush(n)[i] = Silence
  <1>1. Hush(n) \in [1 .. n -> Sample]
    BY DEF Hush, Sample
  <1> QED
    BY <1>1 DEF Hush

LEMMA BatchFacts ==
  ASSUME NEW b \in Batch
  PROVE  /\ b \in Seq(Sample) /\ Len(b) \in Nat
         /\ \A i \in 1 .. Len(b) : b[i] \in Sample
  <1>1. b \in Seq(Frame)
    BY RingAssumption
  <1>2. b \in Seq(Sample)
    BY <1>1, SeqMonotonic DEF Sample
  <1> QED
    BY <1>2

(* A request is served in chunks of at least one frame.                     *)
LEMMA WantedFacts ==
  ASSUME TypeOK, additional > 0
  PROVE  /\ Wanted \in 1 .. Chunk
         /\ Wanted <= additional
  BY RingAssumption DEF TypeOK, Wanted, Least

-------------------------------------------------------------------------------
LEMMA InitIInv == Init => IInv
  <1> SUFFICES ASSUME Init PROVE IInv
    OBVIOUS
  <1>1. TypeOK
    <2>1. 0 \in Pos /\ [p \in Pos |-> Silence] \in [Pos -> Frame \cup {Silence}]
      BY RingAssumption DEF Pos
    <2>2. << >> \in Seq(Frame \cup {Silence}) /\ Len(<< >>) = 0
      BY EmptySeq
    <2> QED
      BY <2>1, <2>2, RingAssumption DEF Init, TypeOK, Holder, HostPlace, DevPlace
  <1>2. Locked /\ Pushing /\ Serving
    BY DEF Init, Locked, Pushing, Serving
  <1> QED
    BY <1>1, <1>2 DEF IInv

(* The frame loop's steps.                                                  *)
LEMMA HostKeeps ==
  ASSUME IInv, HostStep \/ \E b \in Batch : HostRender(b)
  PROVE  IInv'
  <1> USE DEF IInv
  <1>1. ASSUME NEW b \in Batch, HostRender(b) PROVE IInv'
    BY <1>1 DEF HostRender, ring, device, TypeOK, HostPlace, Locked, Pushing, Serving, Wanted
  <1>2. CASE HostLock
    BY <1>2 DEF HostLock, ring, device, TypeOK, HostPlace, Holder, Locked, Pushing, Serving, Wanted
  <1>3. CASE HostRoom
    <2>1. /\ Least(Len(batch), Capacity - count) \in 0 .. Capacity
      <3>1. Len(batch) \in Nat /\ Capacity - count \in Nat
        BY BatchFacts, RingAssumption DEF TypeOK
      <3>2. /\ Least(Len(batch), Capacity - count) \in Nat
            /\ Least(Len(batch), Capacity - count) <= Capacity - count
        BY <3>1, LeastFacts
      <3> QED
        BY <3>2, RingAssumption DEF TypeOK
    <2>2. TypeOK'
      BY <1>3, <2>1 DEF HostRoom, ring, device, TypeOK, HostPlace
    <2>3. Locked' /\ Pushing' /\ Serving'
      BY <1>3 DEF HostRoom, ring, device, Locked, Pushing, Serving, Wanted
    <2> QED
      BY <2>2, <2>3
  <1>4. CASE HostCopy
    <2>1. /\ hostAt = "copy" /\ hostAt' = "copy" /\ put < room /\ put' = put + 1
          /\ data' = [data EXCEPT ![(read + count + put) % Capacity] = batch[put + 1]]
          /\ UNCHANGED <<read, count, lock, batch, room, device>>
      BY <1>4 DEF HostCopy
    <2>2. /\ room = Least(Len(batch), Capacity - count)
          /\ room <= Len(batch) /\ count + room <= Capacity
          /\ lock = "host" /\ devAt \notin {"size", "copy", "count", "unlock"}
      <3>1. Len(batch) \in Nat /\ Capacity - count \in Nat
        BY BatchFacts, RingAssumption DEF TypeOK
      <3>2. room = Least(Len(batch), Capacity - count)
        BY <2>1 DEF Pushing
      <3>3. room <= Len(batch) /\ room <= Capacity - count
        BY <3>1, <3>2, LeastFacts
      <3>4. lock = "host"
        BY <2>1 DEF Locked
      <3> QED
        BY <3>2, <3>3, <3>4, RingAssumption DEF Locked, TypeOK
    <2>3. \A k \in 0 .. put : (read + count + k) % Capacity \in Pos
      <3> TAKE k \in 0 .. put
      <3>1. count + k \in 0 .. Capacity /\ read + (count + k) = read + count + k
        BY <2>1, <2>2, RingAssumption DEF TypeOK, Pos
      <3> QED
        BY <3>1, Wrap DEF TypeOK
    <2>4. data' \in [Pos -> Frame \cup {Silence}]
      <3>1. batch[put + 1] \in Frame \cup {Silence}
        BY <2>1, <2>2, BatchFacts DEF TypeOK, Sample
      <3> QED
        BY <2>1, <3>1 DEF TypeOK
    <2>5. TypeOK'
      BY <2>1, <2>4 DEF TypeOK, device
    <2>6. Pushing'
      <3>1. ASSUME NEW i \in 1 .. put + 1
            PROVE  data'[(read + count + (i - 1)) % Capacity] = batch[i]
        <4>1. i - 1 \in 0 .. put /\ put \in 0 .. put
          BY DEF TypeOK
        <4>2. CASE i = put + 1
          <5>1. i - 1 = put
            BY <4>2 DEF TypeOK
          <5> QED
            BY <2>1, <2>3, <4>1, <4>2, <5>1 DEF TypeOK
        <4>3. CASE i # put + 1
          <5>1. /\ i \in 1 .. put
                /\ count + (i - 1) \in 0 .. Capacity - 1 /\ count + put \in 0 .. Capacity - 1
                /\ count + (i - 1) # count + put
                /\ read + (count + (i - 1)) = read + count + (i - 1)
                /\ read + (count + put) = read + count + put
            BY <2>1, <2>2, <4>3, RingAssumption, SMTT(40) DEF TypeOK, Pos
          <5>2. (read + count + (i - 1)) % Capacity # (read + count + put) % Capacity
            BY <5>1, Apart DEF TypeOK
          <5>3. data[(read + count + (i - 1)) % Capacity] = batch[i]
            BY <2>1, <5>1 DEF Pushing
          <5> QED
            BY <2>1, <2>3, <4>1, <5>2, <5>3 DEF TypeOK
        <4> QED
          BY <4>2, <4>3
      <3> QED
        BY <2>1, <2>2, <3>1 DEF Pushing
    <2>7. Locked' /\ Serving'
      BY <2>1, <2>2 DEF Locked, Serving, Wanted, device
    <2> QED
      BY <2>5, <2>6, <2>7
  <1>5. CASE HostCount
    <2>1. count + room \in 0 .. Capacity /\ lock = "host"
      <3>1. Len(batch) \in Nat /\ Capacity - count \in Nat
        BY BatchFacts, RingAssumption DEF TypeOK
      <3>2. room <= Capacity - count
        BY <1>5, <3>1, LeastFacts DEF HostCount, Pushing
      <3> QED
        BY <1>5, <3>2, RingAssumption DEF TypeOK, Locked, HostCount
    <2>2. TypeOK'
      BY <1>5, <2>1 DEF HostCount, device, TypeOK, HostPlace
    <2>3. Locked' /\ Pushing' /\ Serving'
      BY <1>5, <2>1 DEF HostCount, device, Locked, Pushing, Serving, Wanted
    <2> QED
      BY <2>2, <2>3
  <1>6. CASE HostUnlock
    BY <1>6 DEF HostUnlock, ring, device, TypeOK, HostPlace, Holder, Locked, Pushing, Serving, Wanted
  <1> QED
    BY <1>1, <1>2, <1>3, <1>4, <1>5, <1>6 DEF HostStep

(* The audio thread's steps.                                                *)
LEMMA DeviceKeeps ==
  ASSUME IInv, DeviceStep \/ \E frames \in 1 .. MaxRequest : Callback(frames)
  PROVE  IInv'
  <1> USE DEF IInv
  <1>0. ASSUME additional > 0
        PROVE  Wanted \in 1 .. Chunk /\ Wanted <= additional
    BY <1>0, WantedFacts
  <1>1. ASSUME NEW frames \in 1 .. MaxRequest, Callback(frames) PROVE IInv'
    BY <1>1, RingAssumption DEF Callback, ring, host, TypeOK, DevPlace, Locked, Pushing, Serving
  <1>2. CASE DeviceLock
    BY <1>2 DEF DeviceLock, ring, host, TypeOK, DevPlace, Holder, Locked, Pushing, Serving
  <1>3. CASE DeviceSize
    <2>1. Wanted \in 1 .. Chunk
      BY <1>0, <1>3 DEF DeviceSize, Serving
    <2>2. /\ Least(Wanted, count) \in 0 .. Capacity
      BY <2>1, RingAssumption DEF TypeOK, Least
    <2>3. buffer' \in Seq(Frame \cup {Silence}) /\ Len(buffer') = 0 /\ buffer' = << >>
      BY <1>3, EmptySeq DEF DeviceSize
    <2>4. TypeOK'
      BY <1>3, <2>2, <2>3, RingAssumption DEF DeviceSize, ring, host, TypeOK, DevPlace
    <2>5. Wanted' = Wanted
      BY <1>3 DEF DeviceSize, Wanted
    <2>6. Serving'
      BY <1>3, <2>2, <2>3, <2>5 DEF DeviceSize, ring, Serving
    <2>7. Locked' /\ Pushing'
      BY <1>3 DEF DeviceSize, ring, host, Locked, Pushing
    <2> QED
      BY <2>4, <2>6, <2>7
  <1>4. CASE DeviceCopy
    <2>1. /\ devAt = "copy" /\ devAt' = "copy" /\ Len(buffer) < got
          /\ buffer' = Append(buffer, data[(read + Len(buffer)) % Capacity])
          /\ UNCHANGED <<ring, lock, host, additional, got, played>>
      BY <1>4 DEF DeviceCopy
    <2>2. /\ Wanted \in 1 .. Chunk /\ got = Least(Wanted, count)
          /\ got <= Wanted /\ got <= count
      <3>1. Wanted \in 1 .. Chunk /\ got = Least(Wanted, count)
        BY <1>0, <2>1 DEF Serving
      <3> QED
        BY <3>1, RingAssumption DEF TypeOK, Least
    <2>3. buffer \in Seq(Sample) /\ Len(buffer) \in 0 .. Capacity
      <3>1. buffer \in Seq(Sample) /\ got \in 0 .. Capacity
        BY DEF TypeOK, Sample
      <3>2. Len(buffer) \in Nat
        BY <3>1, LenProperties
      <3> QED
        BY <2>1, <3>1, <3>2, RingAssumption
    <2>4. data[(read + Len(buffer)) % Capacity] \in Sample
      BY <2>3, Wrap DEF TypeOK, Sample
    <2>5. /\ buffer' \in Seq(Sample) /\ Len(buffer') = Len(buffer) + 1
          /\ \A i \in 1 .. Len(buffer) : buffer'[i] = buffer[i]
          /\ buffer'[Len(buffer) + 1] = data[(read + Len(buffer)) % Capacity]
      BY <2>1, <2>3, <2>4, AppendProperties
    <2>6. TypeOK'
      BY <2>1, <2>2, <2>5, RingAssumption DEF TypeOK, ring, host, Sample
    <2>7. Serving'
      <3>1. \A i \in 1 .. Len(buffer') : buffer'[i] = data[(read + (i - 1)) % Capacity]
        <4> TAKE i \in 1 .. Len(buffer')
        <4>1. CASE i = Len(buffer) + 1
          <5>1. i - 1 = Len(buffer)
            BY <2>3, <4>1
          <5> QED
            BY <2>5, <4>1, <5>1
        <4>2. CASE i # Len(buffer) + 1
          <5>1. i \in 1 .. Len(buffer)
            BY <2>3, <2>5, <4>2
          <5> QED
            BY <2>1, <2>5, <5>1 DEF Serving
        <4> QED
          BY <4>1, <4>2
      <3>2. Wanted' = Wanted /\ data' = data /\ read' = read /\ count' = count
        BY <2>1 DEF Wanted, ring
      <3>3. Len(buffer') <= got
        BY <2>1, <2>2, <2>3, <2>5 DEF TypeOK
      <3>4. got' = got /\ additional' = additional
        BY <2>1
      <3>5. /\ additional' > 0
            /\ got' = Least(Wanted', count')
            /\ Len(buffer') <= got'
            /\ \A i \in 1 .. Len(buffer') : buffer'[i] = data'[(read' + (i - 1)) % Capacity]
        BY <2>1, <2>2, <3>1, <3>2, <3>3, <3>4 DEF Serving
      <3> QED
        BY <2>1, <3>5 DEF Serving
    <2>8. Locked' /\ Pushing'
      BY <2>1 DEF Locked, Pushing, ring, host
    <2> QED
      BY <2>6, <2>7, <2>8
  <1>5. CASE DeviceAdvance
    <2>1. (read + got) % Capacity \in Pos
      BY Wrap DEF TypeOK
    <2>2. TypeOK'
      BY <1>5, <2>1 DEF DeviceAdvance, host, TypeOK, DevPlace
    <2>3. hostAt # "copy"
      BY <1>5 DEF DeviceAdvance, Locked
    <2>4. Locked' /\ Pushing' /\ Serving'
      BY <1>5, <2>3 DEF DeviceAdvance, host, Locked, Pushing, Serving, Wanted
    <2> QED
      BY <2>2, <2>4
  <1>6. CASE DeviceCount
    <2>1. /\ Wanted \in 1 .. Chunk /\ got = Least(Wanted, count) /\ Len(buffer) = got
          /\ got <= Wanted /\ got <= count
      <3>1. Wanted \in 1 .. Chunk /\ got = Least(Wanted, count) /\ Len(buffer) = got
        BY <1>0, <1>6 DEF Serving, DeviceCount
      <3> QED
        BY <3>1, RingAssumption DEF TypeOK, Least
    <2>2. /\ Hush(Wanted - got) \in Seq(Sample) /\ Len(Hush(Wanted - got)) = Wanted - got
      BY <2>1, HushFacts, SMTT(40) DEF TypeOK
    <2>3. buffer' \in Seq(Sample) /\ Len(buffer') = Wanted
      <3>1. buffer' = buffer \o Hush(Wanted - got) /\ buffer \in Seq(Sample)
        BY <1>6 DEF DeviceCount, TypeOK, Sample
      <3>2. buffer' \in Seq(Sample) /\ Len(buffer') = Len(buffer) + Len(Hush(Wanted - got))
        BY <2>2, <3>1, ConcatProperties
      <3> QED
        BY <2>1, <2>2, <3>2 DEF TypeOK
    <2>4. TypeOK'
      <3>1. count' \in 0 .. Capacity
        BY <1>6, <2>1, RingAssumption, SMTT(40) DEF DeviceCount, TypeOK
      <3>2. buffer' \in Seq(Frame \cup {Silence}) /\ Len(buffer') <= Chunk
        BY <2>1, <2>3, RingAssumption DEF Sample
      <3> QED
        BY <1>6, <3>1, <3>2 DEF DeviceCount, host, TypeOK, DevPlace
    <2>5. hostAt # "copy" /\ Wanted' = Wanted
      BY <1>6 DEF DeviceCount, Locked, Wanted
    <2>6. Locked' /\ Pushing' /\ Serving'
      BY <1>6, <2>3, <2>5 DEF DeviceCount, host, Locked, Pushing, Serving
    <2> QED
      BY <2>4, <2>6
  <1>7. CASE DeviceUnlock
    BY <1>7 DEF DeviceUnlock, ring, host, TypeOK, DevPlace, Holder, Locked, Pushing, Serving, Wanted
  <1>8. CASE DevicePut
    <2>1. Wanted \in 1 .. Chunk /\ Wanted <= additional
      BY <1>0, <1>8 DEF DevicePut, Serving
    <2>2. additional' \in 0 .. MaxRequest
      BY <1>8, <2>1, RingAssumption DEF DevicePut, TypeOK
    <2>3. TypeOK'
      BY <1>8, <2>2 DEF DevicePut, ring, host, TypeOK, DevPlace
    <2>4. Locked' /\ Pushing'
      BY <1>8 DEF DevicePut, ring, host, Locked, Pushing
    <2>5. Serving'
      BY <1>8, <2>2 DEF DevicePut, Serving
    <2> QED
      BY <2>3, <2>4, <2>5
  <1> QED
    BY <1>1, <1>2, <1>3, <1>4, <1>5, <1>6, <1>7, <1>8 DEF DeviceStep

LEMMA StepIInv == IInv /\ [Next]_vars => IInv'
  <1> SUFFICES ASSUME IInv, [Next]_vars PROVE IInv'
    OBVIOUS
  <1>1. CASE UNCHANGED vars
    BY <1>1 DEF vars, ring, host, device, IInv, TypeOK, Locked, Pushing, Serving, Wanted
  <1> QED
    BY <1>1, HostKeeps, DeviceKeeps DEF Next

LEMMA Invariance == Spec => []IInv
  BY InitIInv, StepIInv, PTL DEF Spec

(* No index leaves the ring and no count passes it, whatever the batches    *)
(* and requests (host_push_audio, audio_callback).                          *)
THEOREM TypeCorrect == Spec => []TypeOK
  <1>1. IInv => TypeOK
    BY DEF IInv
  <1> QED
    BY <1>1, Invariance, PTL

-------------------------------------------------------------------------------
(* The refinement.  What FrameBuffer sees: the frames that count and are    *)
(* not in the callback's buffer, and the callback's chunk once they are.    *)
Visible == count - (IF devAt = "count" THEN got ELSE 0)
Queue   == [i \in 1 .. Visible |-> data[(read + i - 1) % Capacity]]
Hand    == IF devAt \in {"count", "unlock", "put"}
             THEN buffer \o Hush(Wanted - Len(buffer))
             ELSE << >>

QueueOK ==
  /\ Visible \in 0 .. Capacity
  /\ Queue \in Seq(Sample) /\ Len(Queue) = Visible
  /\ \A i \in 1 .. Visible : Queue[i] = data[(read + (i - 1)) % Capacity]

LEMMA QueueFacts == IInv => QueueOK
  <1> SUFFICES ASSUME IInv PROVE QueueOK
    OBVIOUS
  <1>1. Visible \in 0 .. Capacity
    <2>1. CASE devAt = "count"
      <3>1. additional > 0 /\ got = Least(Wanted, count)
        BY <2>1 DEF IInv, Serving
      <3>2. Wanted \in 1 .. Chunk
        BY <3>1, WantedFacts DEF IInv
      <3>3. got <= count
        BY <3>1, <3>2, RingAssumption DEF IInv, TypeOK, Least
      <3> QED
        BY <2>1, <3>3, RingAssumption DEF Visible, IInv, TypeOK
    <2>2. CASE devAt # "count"
      BY <2>2, RingAssumption DEF Visible, IInv, TypeOK
    <2> QED
      BY <2>1, <2>2
  <1>2. ASSUME NEW i \in 1 .. Visible
        PROVE  /\ read + i - 1 = read + (i - 1)
               /\ data[(read + i - 1) % Capacity] \in Sample
    <2>1. i - 1 \in 0 .. Capacity /\ read + i - 1 = read + (i - 1)
      BY <1>1, RingAssumption DEF IInv, TypeOK, Pos
    <2> QED
      BY <2>1, Wrap DEF IInv, TypeOK, Sample
  <1>3. Queue \in [1 .. Visible -> Sample]
    BY <1>2 DEF Queue
  <1>4. Queue \in Seq(Sample) /\ Len(Queue) = Visible
    BY <1>1, <1>3
  <1> QED
    BY <1>1, <1>2, <1>4 DEF QueueOK, Queue

LEMMA QueueNext == IInv' => QueueOK'
  BY QueueFacts, PTL

(* Filling up a full chunk adds nothing.                                    *)
LEMMA NoHush ==
  ASSUME NEW s \in Seq(Sample)
  PROVE  s \o Hush(0) = s
  <1>1. Hush(0) \in Seq(Sample) /\ Len(Hush(0)) = 0
    BY HushFacts
  <1>2. Hush(0) = << >>
    BY <1>1, EmptySeq
  <1> QED
    BY <1>2, ConcatEmptySeq

(* The copy writes behind the frames that count.                            *)
LEMMA CopyStutters ==
  ASSUME IInv, IInv', HostCopy
  PROVE  UNCHANGED <<Queue, Hand, played>>
  <1>1. /\ hostAt = "copy" /\ put < room
        /\ data' = [data EXCEPT ![(read + count + put) % Capacity] = batch[put + 1]]
        /\ UNCHANGED <<read, count, lock, device>>
    BY DEF HostCopy
  <1>2. /\ lock = "host" /\ devAt \notin {"size", "copy", "count", "unlock"}
        /\ room = Least(Len(batch), Capacity - count)
    BY <1>1 DEF IInv, Locked, Pushing
  <1>3. Visible = count /\ Visible' = count
    <2>1. devAt # "count" /\ devAt' # "count"
      BY <1>1, <1>2 DEF device
    <2> QED
      BY <1>1, <2>1 DEF Visible, IInv, TypeOK
  <1>4. count + put < Capacity
    <2>1. Len(batch) \in Nat /\ Capacity - count \in Nat
      BY BatchFacts, RingAssumption DEF IInv, TypeOK
    <2>2. room <= Capacity - count
      BY <1>2, <2>1, LeastFacts
    <2> QED
      BY <1>1, <2>2, RingAssumption, SMTT(40) DEF IInv, TypeOK
  <1>5. ASSUME NEW i \in 1 .. count
        PROVE  data'[(read + i - 1) % Capacity] = data[(read + i - 1) % Capacity]
    <2>1. /\ i - 1 \in 0 .. Capacity - 1 /\ count + put \in 0 .. Capacity - 1
          /\ i - 1 # count + put /\ i - 1 \in 0 .. Capacity
          /\ read + (i - 1) = read + i - 1 /\ read + (count + put) = read + count + put
      BY <1>4, RingAssumption DEF IInv, TypeOK, Pos
    <2>2. (read + i - 1) % Capacity # (read + count + put) % Capacity
      BY <2>1, Apart DEF IInv, TypeOK
    <2>3. (read + i - 1) % Capacity \in Pos
      BY <2>1, Wrap DEF IInv, TypeOK
    <2> QED
      BY <1>1, <2>2, <2>3 DEF IInv, TypeOK
  <1>6. Queue' = Queue
    BY <1>1, <1>3, <1>5 DEF Queue
  <1> QED
    BY <1>1, <1>6 DEF device, Hand, Wanted

(* The count's store is where the batch enters the abstract queue.          *)
LEMMA CountPushes ==
  ASSUME IInv, IInv', HostCount
  PROVE  \E b \in Batch : Buffer!Push(b)
  <1>1. /\ hostAt = "copy" /\ put = room /\ count' = count + room
        /\ UNCHANGED <<data, read, lock, batch, device>>
    BY DEF HostCount
  <1>2. /\ lock = "host" /\ devAt \notin {"size", "copy", "count", "unlock"}
        /\ room = Least(Len(batch), Capacity - count)
        /\ \A i \in 1 .. room : data[(read + count + (i - 1)) % Capacity] = batch[i]
    BY <1>1 DEF IInv, Locked, Pushing
  <1>3. Visible = count /\ Visible' = count + room
    <2>1. devAt # "count" /\ devAt' # "count"
      BY <1>1, <1>2 DEF device
    <2> QED
      BY <1>1, <2>1 DEF Visible, IInv, TypeOK
  <1>4. QueueOK /\ QueueOK'
    BY QueueFacts, QueueNext
  <1>5. room = Least(Len(batch), Capacity - Len(Queue))
    BY <1>2, <1>3, <1>4 DEF QueueOK
  <1>6. room \in Nat /\ room <= Len(batch) /\ count + room <= Capacity
    <2>1. Len(batch) \in Nat /\ Capacity - count \in Nat
      BY BatchFacts, RingAssumption DEF IInv, TypeOK
    <2>2. room <= Len(batch) /\ room <= Capacity - count
      BY <1>2, <2>1, LeastFacts
    <2> QED
      BY <2>2, RingAssumption DEF IInv, TypeOK
  <1> DEFINE took == SubSeq(batch, 1, room)
  <1>7. /\ took \in Seq(Sample) /\ Len(took) = room
        /\ \A i \in 1 .. room : took[i] = batch[i]
    <2>1. \A i \in 1 .. room : batch[i] \in Sample
      BY <1>6, BatchFacts, SMTT(40) DEF IInv, TypeOK
    <2>2. /\ took \in Seq(Sample)
          /\ Len(took) = IF 1 <= room THEN room - 1 + 1 ELSE 0
          /\ \A i \in 1 .. room - 1 + 1 : took[i] = batch[1 + i - 1]
      BY <1>6, <2>1, SubSeqProperties
    <2> HIDE DEF took
    <2>3. Len(took) = room
      BY <1>6, <2>2
    <2>4. ASSUME NEW i \in 1 .. room PROVE took[i] = batch[i]
      <3>1. i \in 1 .. room - 1 + 1 /\ 1 + i - 1 = i
        BY <1>6
      <3> QED
        BY <2>2, <3>1
    <2> QED
      BY <2>2, <2>3, <2>4
  <1> HIDE DEF took
  <1>8. /\ Queue \o took \in Seq(Sample) /\ Len(Queue \o took) = count + room
        /\ \A i \in 1 .. count + room :
             (Queue \o took)[i] = IF i <= count THEN Queue[i] ELSE took[i - count]
    <2>1. Queue \in Seq(Sample) /\ Len(Queue) = count
      BY <1>3, <1>4 DEF QueueOK
    <2>2. /\ Queue \o took \in Seq(Sample)
          /\ Len(Queue \o took) = Len(Queue) + Len(took)
          /\ \A i \in 1 .. Len(Queue) + Len(took) :
               (Queue \o took)[i] = IF i <= Len(Queue) THEN Queue[i] ELSE took[i - Len(Queue)]
      BY <1>7, <2>1, ConcatProperties
    <2> QED
      BY <1>7, <2>1, <2>2
  <1>9. Queue' = Queue \o took
    <2>1. Queue' \in Seq(Sample) /\ Len(Queue') = count + room
      BY <1>3, <1>4 DEF QueueOK
    <2>2. ASSUME NEW i \in 1 .. count + room
          PROVE  Queue'[i] = (Queue \o took)[i]
      <3>1. Queue'[i] = data[(read + (i - 1)) % Capacity]
        BY <1>1, <1>3, <1>4 DEF QueueOK
      <3>2. CASE i <= count
        <4>1. i \in 1 .. count
          BY <3>2 DEF IInv, TypeOK
        <4> QED
          BY <1>3, <1>4, <1>8, <3>1, <3>2, <4>1 DEF QueueOK
      <3>3. CASE ~(i <= count)
        <4>1. i - count \in 1 .. room /\ read + count + ((i - count) - 1) = read + (i - 1)
          BY <1>6, <3>3 DEF IInv, TypeOK, Pos
        <4>2. took[i - count] = data[(read + (i - 1)) % Capacity]
          BY <1>2, <1>7, <4>1
        <4> QED
          BY <1>8, <3>1, <3>3, <4>2
      <3> QED
        BY <3>2, <3>3
    <2> QED
      BY <1>8, <2>1, <2>2, SeqEqual
  <1>10. Hand' = Hand /\ played' = played
    BY <1>1 DEF device, Hand, Wanted
  <1>11. PICK b \in Batch : b = batch
    BY DEF IInv, TypeOK
  <1>12. Buffer!Push(b)
    BY <1>5, <1>9, <1>10, <1>11
       DEF Buffer!Push, Buffer!Least, Least, Buffer!Hush, Hush, Queue, Hand, Visible, took
  <1> QED
    BY <1>12

(* The read index's store is where the frames leave it: what the buffer     *)
(* holds and what is still to be filled up is one chunk in hand.            *)
LEMMA AdvancePulls ==
  ASSUME IInv, IInv', DeviceAdvance
  PROVE  \E k \in 1 .. Chunk : Buffer!Pull(k)
  <1>1. /\ devAt = "copy" /\ devAt' = "count" /\ Len(buffer) = got
        /\ read' = (read + got) % Capacity
        /\ UNCHANGED <<data, count, additional, got, buffer, played>>
    BY DEF DeviceAdvance
  <1>2. /\ additional > 0 /\ got = Least(Wanted, count)
        /\ \A i \in 1 .. got : buffer[i] = data[(read + (i - 1)) % Capacity]
        /\ buffer \in Seq(Sample)
    BY <1>1 DEF IInv, Serving, TypeOK, Sample
  <1>3. /\ Wanted \in 1 .. Chunk /\ Wanted' = Wanted
        /\ got \in Nat /\ got <= count /\ got <= Wanted
    <2>1. Wanted \in 1 .. Chunk
      BY <1>2, WantedFacts DEF IInv
    <2>2. Wanted' = Wanted
      BY <1>1 DEF Wanted
    <2> QED
      BY <1>2, <2>1, <2>2, RingAssumption DEF IInv, TypeOK, Least
  <1>4. Visible = count /\ Visible' = count - got
    BY <1>1 DEF Visible, IInv, TypeOK
  <1>5. QueueOK /\ QueueOK'
    BY QueueFacts, QueueNext
  <1>6. got = Least(Wanted, Len(Queue))
    BY <1>2, <1>4, <1>5 DEF QueueOK
  <1>7. SubSeq(Queue, 1, got) = buffer
    <2> DEFINE s == SubSeq(Queue, 1, got)
    <2>1. \A i \in 1 .. got : Queue[i] \in Sample
      BY <1>3, <1>4, <1>5, ElementOfSeq, SMTT(40) DEF QueueOK, IInv, TypeOK
    <2>2. /\ s \in Seq(Sample)
          /\ Len(s) = IF 1 <= got THEN got - 1 + 1 ELSE 0
          /\ \A i \in 1 .. got - 1 + 1 : s[i] = Queue[1 + i - 1]
      BY <1>3, <2>1, SubSeqProperties
    <2> HIDE DEF s
    <2>3. Len(s) = got
      BY <1>3, <2>2
    <2>4. ASSUME NEW i \in 1 .. got PROVE s[i] = buffer[i]
      <3>1. i \in 1 .. got - 1 + 1 /\ 1 + i - 1 = i /\ i \in 1 .. Visible
        BY <1>3, <1>4 DEF IInv, TypeOK
      <3> QED
        BY <1>2, <1>5, <2>2, <3>1 DEF QueueOK
    <2>5. s = buffer
      BY <1>1, <1>2, <2>2, <2>3, <2>4, SeqEqual
    <2> QED
      BY <2>5 DEF s
  <1>8. Queue' = SubSeq(Queue, got + 1, Len(Queue))
    <2> DEFINE s == SubSeq(Queue, got + 1, Len(Queue))
    <2>1. Len(Queue) = count /\ count \in 0 .. Capacity
      BY <1>4, <1>5 DEF QueueOK, IInv, TypeOK
    <2>2. \A i \in got + 1 .. count : Queue[i] \in Sample
      BY <1>3, <1>4, <1>5, <2>1, ElementOfSeq DEF QueueOK
    <2>3. /\ s \in Seq(Sample)
          /\ Len(s) = IF got + 1 <= count THEN count - (got + 1) + 1 ELSE 0
          /\ \A i \in 1 .. count - (got + 1) + 1 : s[i] = Queue[got + 1 + i - 1]
      BY <1>3, <2>1, <2>2, RingAssumption, SubSeqProperties
    <2> HIDE DEF s
    <2>4. Len(s) = count - got
      BY <1>3, <2>1, <2>3, RingAssumption
    <2>5. Queue' \in Seq(Sample) /\ Len(Queue') = count - got
      BY <1>4, <1>5 DEF QueueOK
    <2>6. ASSUME NEW i \in 1 .. count - got PROVE s[i] = Queue'[i]
      <3>1. /\ i \in 1 .. count - (got + 1) + 1 /\ got + 1 + i - 1 = got + i
            /\ got + i \in 1 .. Visible /\ (got + i) - 1 = got + (i - 1)
            /\ got \in 0 .. Capacity /\ i - 1 \in 0 .. Capacity /\ got + (i - 1) <= Capacity
        BY <1>3, <1>4, <2>1, RingAssumption
      <3>2. s[i] = data[(read + (got + (i - 1))) % Capacity]
        BY <1>5, <2>3, <3>1 DEF QueueOK
      <3>3. Queue'[i] = data[(((read + got) % Capacity) + (i - 1)) % Capacity]
        BY <1>1, <1>4, <1>5 DEF QueueOK
      <3>4. (((read + got) % Capacity) + (i - 1)) % Capacity
              = (read + (got + (i - 1))) % Capacity
        BY <3>1, Onward DEF IInv, TypeOK
      <3> QED
        BY <3>2, <3>3, <3>4
    <2>7. Queue' = s
      BY <2>3, <2>4, <2>5, <2>6, SeqEqual
    <2> QED
      BY <2>7 DEF s
  <1>9. Hand = << >> /\ Hand' = buffer \o Hush(Wanted - got)
    BY <1>1, <1>3 DEF Hand, Hush
  <1>10. PICK k \in 1 .. Chunk : k = Wanted
    BY <1>3
  <1>11. Buffer!Pull(k)
    BY <1>1, <1>3, <1>6, <1>7, <1>8, <1>9, <1>10
       DEF Buffer!Pull, Buffer!Least, Buffer!Hush, Least, Hush, Queue, Hand, Visible
  <1> QED
    BY <1>11

(* The count's store of the callback: the frames have left already, and the *)
(* silence that fills the chunk up was in hand.                             *)
LEMMA DeviceCountStutters ==
  ASSUME IInv, DeviceCount
  PROVE  UNCHANGED <<Queue, Hand, played>>
  <1>1. /\ devAt = "count" /\ devAt' = "unlock" /\ count' = count - got
        /\ buffer' = buffer \o Hush(Wanted - got)
        /\ UNCHANGED <<data, read, additional, played>>
    BY DEF DeviceCount
  <1>2. /\ additional > 0 /\ got = Least(Wanted, count) /\ Len(buffer) = got
        /\ buffer \in Seq(Sample)
    BY <1>1 DEF IInv, Serving, TypeOK, Sample
  <1>3. Wanted \in 1 .. Chunk /\ Wanted' = Wanted /\ Wanted - got \in Nat
    <2>1. Wanted \in 1 .. Chunk
      BY <1>2, WantedFacts DEF IInv
    <2>2. Wanted' = Wanted
      BY <1>1 DEF Wanted
    <2> QED
      BY <1>2, <2>1, <2>2, RingAssumption DEF IInv, TypeOK, Least
  <1>4. Visible' = Visible
    BY <1>1 DEF Visible, IInv, TypeOK
  <1>5. buffer' \in Seq(Sample) /\ Len(buffer') = Wanted
    <2>1. Hush(Wanted - got) \in Seq(Sample) /\ Len(Hush(Wanted - got)) = Wanted - got
      BY <1>3, HushFacts
    <2>2. /\ buffer' \in Seq(Sample)
          /\ Len(buffer') = Len(buffer) + Len(Hush(Wanted - got))
      BY <1>1, <1>2, <2>1, ConcatProperties
    <2> QED
      BY <1>2, <1>3, <2>1, <2>2 DEF IInv, TypeOK
  <1>6. Hand' = buffer'
    <2>1. Wanted' - Len(buffer') = 0
      BY <1>3, <1>5
    <2>2. Hand' = buffer' \o Hush(0)
      BY <1>1, <2>1 DEF Hand, Hush
    <2> QED
      BY <1>5, <2>2, NoHush
  <1>7. Hand = buffer'
    BY <1>1, <1>2 DEF Hand
  <1> QED
    BY <1>1, <1>4, <1>6, <1>7 DEF Queue

(* The stream gets the chunk that was in hand.                              *)
LEMMA PutPlays ==
  ASSUME IInv, DevicePut
  PROVE  Buffer!Play
  <1>1. /\ devAt = "put" /\ devAt' \in {"lock", "sleep"} /\ played' = buffer
        /\ UNCHANGED <<data, read, count, got>>
    BY DEF DevicePut, ring
  <1>2. additional > 0 /\ Len(buffer) = Wanted /\ buffer \in Seq(Sample)
    BY <1>1 DEF IInv, Serving, TypeOK, Sample
  <1>3. Wanted \in 1 .. Chunk
    BY <1>2, WantedFacts DEF IInv
  <1>4. Hand = buffer
    <2>1. Wanted - Len(buffer) = 0
      BY <1>2, <1>3
    <2>2. Hand = buffer \o Hush(0)
      BY <1>1, <2>1 DEF Hand
    <2> QED
      BY <1>2, <2>2, NoHush
  <1>5. buffer # << >>
    BY <1>2, <1>3, EmptySeq, RingAssumption
  <1>6. Hand' = << >> /\ Visible' = Visible
    BY <1>1 DEF Hand, Visible
  <1> QED
    BY <1>1, <1>4, <1>5, <1>6 DEF Buffer!Play, Buffer!Hush, Hush, Queue, Hand, Visible

LEMMA RefineInit == Init => Buffer!Init
  <1> SUFFICES ASSUME Init PROVE Queue = << >> /\ Hand = << >> /\ played = << >>
    BY DEF Buffer!Init, Buffer!Hush, Hush, Queue, Hand, Visible
  <1>1. IInv /\ Visible = 0
    BY InitIInv DEF Init, Visible
  <1>2. Queue \in Seq(Sample) /\ Len(Queue) = 0
    BY <1>1, QueueFacts DEF QueueOK
  <1>3. Queue = << >>
    BY <1>2, EmptySeq
  <1> QED
    BY <1>3 DEF Init, Hand

LEMMA RefineStep == IInv /\ IInv' /\ [Next]_vars => [Buffer!Next]_(Buffer!vars)
  <1> SUFFICES ASSUME IInv, IInv', [Next]_vars
               PROVE  Buffer!Next \/ UNCHANGED <<Queue, Hand, played>>
    BY DEF Buffer!vars, Buffer!Hush, Hush, Queue, Hand, Visible
  <1>1. ASSUME NEW b \in Batch, HostRender(b) PROVE UNCHANGED <<Queue, Hand, played>>
    BY <1>1 DEF HostRender, Queue, Hand, Visible, Wanted,
         ring, host, device
  <1>2. CASE HostLock \/ HostRoom \/ HostUnlock
    BY <1>2 DEF HostLock, HostRoom, HostUnlock, Queue, Hand, Visible, Wanted,
         ring, host, device
  <1>3. CASE HostCopy
    BY <1>3, CopyStutters
  <1>4. CASE HostCount
    BY <1>4, CountPushes DEF Buffer!Next
  <1>5. ASSUME NEW frames \in 1 .. MaxRequest, Callback(frames)
        PROVE  UNCHANGED <<Queue, Hand, played>>
    BY <1>5 DEF Callback, Queue, Hand, Visible, Wanted,
         ring, host, device
  <1>6. CASE DeviceLock \/ DeviceSize \/ DeviceCopy \/ DeviceUnlock
    BY <1>6 DEF DeviceLock, DeviceSize, DeviceCopy, DeviceUnlock, Queue, Hand, Visible, Wanted,
         ring, host, device
  <1>7. CASE DeviceAdvance
    BY <1>7, AdvancePulls DEF Buffer!Next
  <1>8. CASE DeviceCount
    BY <1>8, DeviceCountStutters
  <1>9. CASE DevicePut
    BY <1>9, PutPlays DEF Buffer!Next
  <1>10. CASE UNCHANGED vars
    BY <1>10 DEF vars, ring, device, Queue, Hand, Visible, Wanted
  <1> QED
    BY <1>1, <1>2, <1>3, <1>4, <1>5, <1>6, <1>7, <1>8, <1>9, <1>10
       DEF Next, HostStep, DeviceStep

(* Whatever way the two threads interleave, the ring is FrameBuffer: frames *)
(* are played once, in order, with silence only after the last one          *)
(* (host_push_audio, audio_callback).                                       *)
THEOREM RingIsBuffer == Spec => BufferSpec
  BY RefineInit, RefineStep, Invariance, PTL DEF Spec, BufferSpec, Buffer!Spec

-------------------------------------------------------------------------------
(* Held sources.                                                            *)

(* The events of a source that the loop has still to handle after the k-th. *)
Later(q, s, k) == {i \in 1 .. Len(q) : i > k /\ q[i].source = s}

Odd(S) == Cardinality(S) % 2 = 1

(* A source's state once the k-th event is handled, read back from the      *)
(* state it ends in: each later event turns it.                             *)
DownAfter(q, d, s, k) == ~(s \in d <=> Odd(Later(q, s, k)))

ToldOf(q, d) == {s \in Source : DownAfter(q, d, s, 0)}

Pressing(b) == {s \in Told : b \in bindings[s]}

InputTypes ==
  /\ down \in SUBSET Source /\ events \in Seq(Event)
  /\ held_count \in [Button -> Nat]

(* Each event leaves its source as the event says, and the counts are those *)
(* of the sources that are down as far as the loop has been told.           *)
Alternate ==
  \A i \in 1 .. Len(events) :
    events[i].down <=> DownAfter(events, down, events[i].source, i)

Counted ==
  /\ IsFiniteSet(Told)
  /\ \A b \in Button : held_count[b] = Cardinality(Pressing(b))

InputInv == InputTypes /\ Alternate /\ Counted

(* No key of the loop's own is a button as well, as under the default       *)
(* bindings (vf2_host_bindings_defaults).                                   *)
HotkeysUnbound == \A s \in Source : hotkey[s] # "none" => bindings[s] = {}

-------------------------------------------------------------------------------
(* One more element turns a set's parity.                                   *)
LEMMA OddGrows ==
  ASSUME NEW S, IsFiniteSet(S), NEW x, x \notin S
  PROVE  Odd(S \cup {x}) <=> ~Odd(S)
  <1>1. Cardinality(S) \in Nat /\ Cardinality(S \cup {x}) = Cardinality(S) + 1
    BY FS_CardinalityType, FS_AddElement
  <1>2. ASSUME NEW n \in Nat PROVE (n + 1) % 2 = 1 <=> ~(n % 2 = 1)
    OBVIOUS
  <1> QED
    BY <1>1, <1>2 DEF Odd

LEMMA OddEmpty == ~Odd({})
  BY FS_EmptySet DEF Odd

LEMMA LaterFinite ==
  ASSUME NEW q \in Seq(Event), NEW s, NEW k \in Nat
  PROVE  IsFiniteSet(Later(q, s, k))
  <1>1. Len(q) \in Int /\ 1 \in Int
    BY LenProperties
  <1>2. IsFiniteSet(1 .. Len(q))
    BY <1>1, FS_Interval
  <1>3. Later(q, s, k) \in SUBSET (1 .. Len(q))
    BY DEF Later
  <1> QED
    BY <1>2, <1>3, FS_Subset

LEMMA LaterAppend ==
  ASSUME NEW q \in Seq(Event), NEW e \in Event, NEW s, NEW k \in 0 .. Len(q)
  PROVE  /\ e.source # s => Later(Append(q, e), s, k) = Later(q, s, k)
         /\ e.source = s => Odd(Later(Append(q, e), s, k)) <=> ~Odd(Later(q, s, k))
  <1> DEFINE n == Len(q)
             p == Append(q, e)
  <1>1. /\ n \in Nat /\ Len(p) = n + 1 /\ p[n + 1] = e
        /\ \A i \in 1 .. n : p[i] = q[i]
    OBVIOUS
  <1> HIDE DEF p, n
  <1>2. ASSUME e.source # s PROVE Later(p, s, k) = Later(q, s, k)
    BY <1>1, <1>2 DEF Later, n
  <1>3. ASSUME e.source = s
        PROVE  /\ Later(p, s, k) = Later(q, s, k) \cup {n + 1}
               /\ n + 1 \notin Later(q, s, k)
    BY <1>1, <1>3 DEF Later, n
  <1>4. ASSUME e.source = s PROVE Odd(Later(p, s, k)) <=> ~Odd(Later(q, s, k))
    <2>1. IsFiniteSet(Later(q, s, k))
      BY <1>1, LaterFinite DEF n
    <2> QED
      BY <1>3, <1>4, <2>1, OddGrows
  <1> QED
    BY <1>2, <1>4 DEF p

LEMMA LaterNone ==
  ASSUME NEW q \in Seq(Event), NEW s
  PROVE  Later(q, s, Len(q)) = {}
  BY LenProperties DEF Later

LEMMA LaterHead ==
  ASSUME NEW q \in Seq(Event), q # << >>, NEW s
  PROVE  /\ Head(q).source # s => Later(q, s, 0) = Later(q, s, 1)
         /\ Head(q).source = s => Odd(Later(q, s, 0)) <=> ~Odd(Later(q, s, 1))
  <1>1. Len(q) \in Nat /\ Len(q) >= 1 /\ Head(q) = q[1]
    <2>1. Len(q) \in Nat /\ Len(q) # 0
      BY LenProperties, EmptySeq
    <2> QED
      BY <2>1
  <1>2. ASSUME Head(q).source # s PROVE Later(q, s, 0) = Later(q, s, 1)
    BY <1>1, <1>2 DEF Later
  <1>3. ASSUME Head(q).source = s
        PROVE  Later(q, s, 0) = Later(q, s, 1) \cup {1} /\ 1 \notin Later(q, s, 1)
    BY <1>1, <1>3 DEF Later
  <1>4. IsFiniteSet(Later(q, s, 1))
    BY LaterFinite
  <1> QED
    BY <1>2, <1>3, <1>4, OddGrows

(* What is left of the queue stands one place further on.                   *)
LEMMA LaterTail ==
  ASSUME NEW q \in Seq(Event), q # << >>, NEW s, NEW k \in Nat
  PROVE  Odd(Later(Tail(q), s, k)) <=> Odd(Later(q, s, k + 1))
  <1> DEFINE S == Later(Tail(q), s, k)
             T == Later(q, s, k + 1)
             n == Len(q)
             t == Tail(q)
             f == [i \in S |-> i + 1]
  <1>1. /\ n \in Nat /\ Len(t) = n - 1 /\ \A i \in 1 .. n - 1 : t[i] = q[i + 1]
    BY LenProperties, HeadTailProperties
  <1> HIDE DEF n, t
  <1>2. S \subseteq Nat /\ T \subseteq Nat
    BY <1>1 DEF Later, t, n
  <1>3. \A i \in S : i + 1 \in T
    BY <1>1 DEF Later, t, n
  <1>4. \A j \in T : j - 1 \in S /\ (j - 1) + 1 = j
    BY <1>1 DEF Later, t, n
  <1> HIDE DEF S, T
  <1>5. f \in [S -> T] /\ \A i \in S : f[i] = i + 1
    BY <1>3
  <1>6. IsInjective(f)
    <2>1. ASSUME NEW i \in S, NEW j \in S, f[i] = f[j] PROVE i = j
      BY <1>2, <1>5, <2>1
    <2> QED
      BY <1>5, <2>1 DEF IsInjective
  <1>7. \A j \in T : \E i \in S : f[i] = j
    BY <1>4, <1>5
  <1> HIDE DEF f
  <1>8. f \in Bijection(S, T)
    BY <1>5, <1>6, <1>7 DEF Bijection, Injection, Surjection
  <1>9. IsFiniteSet(S)
    BY <1>1, HeadTailProperties, LaterFinite DEF S
  <1>10. Cardinality(T) = Cardinality(S)
    BY <1>8, <1>9, FS_Bijection DEF ExistsBijection
  <1> QED
    BY <1>10 DEF Odd, S, T

LEMMA ToldIs ==
  ASSUME NEW q \in Seq(Event), NEW d
  PROVE  {s \in Source : LET later == {i \in DOMAIN q : q[i].source = s}
                         IN  (s \in d) # (Cardinality(later) % 2 = 1)} = ToldOf(q, d)
  <1>1. DOMAIN q = 1 .. Len(q)
    OBVIOUS
  <1>2. ASSUME NEW s
        PROVE  {i \in DOMAIN q : q[i].source = s} = Later(q, s, 0)
    BY <1>1 DEF Later
  <1>3. ASSUME NEW s
        PROVE  (LET later == {i \in DOMAIN q : q[i].source = s}
                IN  (s \in d) # (Cardinality(later) % 2 = 1)) <=> DownAfter(q, d, s, 0)
    <2>1. ASSUME NEW x \in BOOLEAN, NEW y \in BOOLEAN PROVE x # y <=> ~(x <=> y)
      OBVIOUS
    <2> DEFINE x == s \in d
               y == Cardinality(Later(q, s, 0)) % 2 = 1
    <2>2. x \in BOOLEAN /\ y \in BOOLEAN
      OBVIOUS
    <2> HIDE DEF x, y
    <2>3. x # y <=> ~(x <=> y)
      BY <2>1, <2>2
    <2> QED
      BY <1>2, <2>3 DEF DownAfter, Odd, x, y
  <1> QED
    BY <1>3 DEF ToldOf

LEMMA ToldNow ==
  ASSUME InputTypes
  PROVE  Told = ToldOf(events, down)
  BY ToldIs DEF Told, InputTypes

LEMMA ToldNext ==
  ASSUME InputTypes'
  PROVE  Told' = ToldOf(events', down')
  BY ToldIs DEF Told, InputTypes

-------------------------------------------------------------------------------
LEMMA InputInitInv == InputInit => InputInv
  <1> SUFFICES ASSUME InputInit PROVE InputInv
    OBVIOUS
  <1>1. InputTypes
    BY DEF InputInit, InputTypes
  <1>2. \A s : Later(events, s, 0) = {}
    BY DEF InputInit, Later
  <1>3. Told = {}
    BY <1>1, <1>2, ToldNow, OddEmpty DEF ToldOf, DownAfter, InputInit
  <1>4. Alternate
    BY DEF InputInit, Alternate
  <1>5. \A b \in Button : Pressing(b) = {} /\ held_count[b] = 0
    BY <1>3 DEF Pressing, InputInit
  <1> QED
    BY <1>1, <1>3, <1>4, <1>5, FS_EmptySet DEF InputInv, Counted

(* The player turns a source and an event that says so joins the queue: the *)
(* loop has been told nothing.                                              *)
LEMMA TurnKeeps ==
  ASSUME InputInv, NEW s \in Source, NEW e \in Event, e.source = s,
         e.down <=> s \notin down,
         down' = IF e.down THEN down \cup {s} ELSE down \ {s},
         events' = Append(events, e), held_count' = held_count
  PROVE  InputInv'
  <1> DEFINE n == Len(events)
  <1>1. InputTypes
    BY DEF InputInv
  <1>2. /\ n \in Nat /\ events \in Seq(Event)
        /\ events' \in Seq(Event) /\ Len(events') = n + 1 /\ events'[n + 1] = e
        /\ \A i \in 1 .. n : events'[i] = events[i]
    BY <1>1 DEF InputTypes
  <1>3. InputTypes'
    BY <1>1, <1>2 DEF InputTypes
  <1>4. /\ s \in down' <=> s \notin down
        /\ \A r : r # s => (r \in down' <=> r \in down)
    OBVIOUS
  <1>5. ASSUME NEW r, NEW k \in 0 .. n
        PROVE  DownAfter(events', down', r, k) <=> DownAfter(events, down, r, k)
    <2>1. CASE r = s
      <3>1. Odd(Later(events', r, k)) <=> ~Odd(Later(events, r, k))
        BY <1>2, <2>1, LaterAppend
      <3> QED
        BY <1>4, <2>1, <3>1 DEF DownAfter
    <2>2. CASE r # s
      <3>1. Later(events', r, k) = Later(events, r, k)
        BY <1>2, <2>2, LaterAppend
      <3> QED
        BY <1>4, <2>2, <3>1 DEF DownAfter
    <2> QED
      BY <2>1, <2>2
  <1>6. Told' = Told
    <2>1. Told = {r \in Source : DownAfter(events, down, r, 0)}
      BY <1>1, ToldNow DEF ToldOf
    <2>2. Told' = {r \in Source : DownAfter(events', down', r, 0)}
      BY <1>3, ToldNext DEF ToldOf
    <2>3. 0 \in 0 .. n
      BY <1>2
    <2> QED
      BY <1>5, <2>1, <2>2, <2>3
  <1>7. Counted'
    BY <1>6 DEF InputInv, Counted, Pressing
  <1> HIDE DEF n
  <1>8. ASSUME NEW i \in 1 .. n + 1
        PROVE  events'[i].down <=> DownAfter(events', down', events'[i].source, i)
    <2>1. CASE i = n + 1
      <3>1. Later(events', s, n + 1) = {}
        BY <1>2, LaterNone
      <3> QED
        BY <1>2, <1>4, <2>1, <3>1, OddEmpty DEF DownAfter
    <2>2. CASE i # n + 1
      <3>1. i \in 1 .. n /\ i \in 0 .. n
        BY <1>2, <2>2
      <3>2. events[i].down <=> DownAfter(events, down, events[i].source, i)
        BY <3>1 DEF InputInv, Alternate, n
      <3> QED
        BY <1>2, <1>5, <3>1, <3>2
    <2> QED
      BY <2>1, <2>2
  <1>9. Alternate'
    BY <1>2, <1>8 DEF Alternate
  <1> QED
    BY <1>3, <1>7, <1>9 DEF InputInv

(* The loop handles the oldest event: it is told of that source.            *)
LEMMA HandleTells ==
  ASSUME InputInv, events # << >>, events' = Tail(events), down' = down,
         held_count' \in [Button -> Nat]
  PROVE  /\ Head(events) \in Event /\ InputTypes' /\ Alternate'
         /\ Head(events).down <=> Head(events).source \notin Told
         /\ Told' = IF Head(events).down THEN Told \cup {Head(events).source}
                                         ELSE Told \ {Head(events).source}
  <1> DEFINE e == Head(events)
             n == Len(events)
  <1>1. InputTypes
    BY DEF InputInv
  <1>2. /\ events \in Seq(Event) /\ n \in Nat /\ n >= 1 /\ e \in Event /\ e = events[1]
        /\ events' \in Seq(Event) /\ Len(events') = n - 1
        /\ \A i \in 1 .. n - 1 : events'[i] = events[i + 1]
    <2>1. events \in Seq(Event) /\ Len(events) \in Nat /\ Len(events) # 0
      BY <1>1, LenProperties, EmptySeq DEF InputTypes
    <2> QED
      BY <2>1, HeadTailProperties
  <1>3. InputTypes'
    BY <1>1, <1>2 DEF InputTypes
  <1>4. ASSUME NEW r, NEW k \in Nat
        PROVE  DownAfter(events', down', r, k) <=> DownAfter(events, down, r, k + 1)
    <2>1. Odd(Later(events', r, k)) <=> Odd(Later(events, r, k + 1))
      BY <1>2, LaterTail
    <2> QED
      BY <2>1 DEF DownAfter
  <1> HIDE DEF n
  <1>5. ASSUME NEW i \in 1 .. n - 1
        PROVE  events'[i].down <=> DownAfter(events', down', events'[i].source, i)
    <2>1. i \in Nat /\ i + 1 \in 1 .. n
      BY <1>2
    <2>2. events[i + 1].down <=> DownAfter(events, down, events[i + 1].source, i + 1)
      BY <2>1 DEF InputInv, Alternate, n
    <2> QED
      BY <1>2, <1>4, <2>1, <2>2
  <1>6. Alternate'
    BY <1>2, <1>5 DEF Alternate
  <1>7. e.down <=> DownAfter(events, down, e.source, 1)
    BY <1>2 DEF InputInv, Alternate, n
  <1>8. DownAfter(events, down, e.source, 0) <=> ~DownAfter(events, down, e.source, 1)
    <2>1. Odd(Later(events, e.source, 0)) <=> ~Odd(Later(events, e.source, 1))
      BY <1>2, LaterHead
    <2> QED
      BY <2>1 DEF DownAfter
  <1>9. ASSUME NEW r, r # e.source
        PROVE  DownAfter(events, down, r, 0) <=> DownAfter(events, down, r, 1)
    <2>1. Later(events, r, 0) = Later(events, r, 1)
      BY <1>2, <1>9, LaterHead
    <2> QED
      BY <2>1 DEF DownAfter
  <1>10. Told = {r \in Source : DownAfter(events, down, r, 0)}
    BY <1>1, ToldNow DEF ToldOf
  <1>11. Told' = {r \in Source : DownAfter(events, down, r, 1)}
    <2>1. Told' = {r \in Source : DownAfter(events', down', r, 0)}
      BY <1>3, ToldNext DEF ToldOf
    <2>2. \A r : DownAfter(events', down', r, 0) <=> DownAfter(events, down, r, 1)
      <3>1. ASSUME NEW r PROVE DownAfter(events', down', r, 0) <=> DownAfter(events, down, r, 0 + 1)
        BY <1>4
      <3>2. 0 + 1 = 1
        OBVIOUS
      <3> QED
        BY <3>1, <3>2
    <2> QED
      BY <2>1, <2>2
  <1>12. e.source \in Source
    BY <1>2 DEF Event
  <1> HIDE DEF e
  <1>13. e.down <=> e.source \notin Told
    BY <1>7, <1>8, <1>10, <1>12
  <1>14. Told' = IF e.down THEN Told \cup {e.source} ELSE Told \ {e.source}
    <2>1. ASSUME NEW r \in Source
          PROVE  r \in Told' <=> r \in (IF e.down THEN Told \cup {e.source}
                                                  ELSE Told \ {e.source})
      <3>1. CASE r = e.source
        BY <1>7, <1>11, <2>1, <3>1
      <3>2. CASE r # e.source
        BY <1>9, <1>10, <1>11, <2>1, <3>2
      <3> QED
        BY <3>1, <3>2
    <2> QED
      BY <1>10, <1>11, <1>12, <2>1
  <1> QED
    BY <1>2, <1>3, <1>6, <1>13, <1>14 DEF e

(* A count goes with the sources told of.                                   *)
LEMMA CountTells ==
  ASSUME HotkeysUnbound, InputInv, events # << >>, events' = Tail(events), down' = down,
         Hotkey(Head(events)) \/ Input(Head(events))
  PROVE  InputInv'
  <1> DEFINE e == Head(events)
             s == e.source
  <1>1. held_count \in [Button -> Nat] /\ IsFiniteSet(Told)
        /\ \A b \in Button : held_count[b] = Cardinality(Pressing(b))
    BY DEF InputInv, InputTypes, Counted
  <1>2. ASSUME NEW b \in Button PROVE IsFiniteSet(Pressing(b))
    <2>1. Pressing(b) \in SUBSET Told
      BY DEF Pressing
    <2> QED
      BY <1>1, <2>1, FS_Subset
  <1>3. e \in Event
    <2>1. events \in Seq(Event)
      BY DEF InputInv, InputTypes
    <2> QED
      BY <2>1, HeadTailProperties
  <1> HIDE DEF e
  <1>4. s \in Source /\ e.down \in BOOLEAN /\ e.source = s /\ bindings[s] \in SUBSET Button
    BY <1>3, InputAssumption DEF Event
  <1> HIDE DEF s
  <1>5. CASE Hotkey(e)
    <2>1. /\ e.down /\ hotkey[s] # "none" /\ held_count' = held_count
      BY <1>4, <1>5 DEF Hotkey
    <2>2. bindings[s] = {}
      BY <1>4, <2>1 DEF HotkeysUnbound
    <2>3. /\ InputTypes' /\ Alternate' /\ s \notin Told /\ Told' = Told \cup {s}
      BY <1>1, <1>4, <2>1, HandleTells DEF e
    <2>4. IsFiniteSet(Told')
      BY <1>1, <2>3, FS_AddElement
    <2>5. \A b \in Button : Pressing(b)' = Pressing(b)
      BY <2>2, <2>3 DEF Pressing
    <2>6. Counted'
      BY <1>1, <2>1, <2>4, <2>5 DEF Counted
    <2> QED
      BY <2>3, <2>6 DEF InputInv
  <1>6. CASE Input(e) /\ e.down
    <2>1. held_count' = [b \in Button |-> IF b \notin bindings[s] THEN held_count[b]
                                          ELSE held_count[b] + 1]
      BY <1>4, <1>6 DEF Input, InputEvent
    <2>2. held_count' \in [Button -> Nat]
      BY <1>1, <2>1
    <2>3. /\ InputTypes' /\ Alternate' /\ s \notin Told /\ Told' = Told \cup {s}
      BY <1>4, <1>6, <2>2, HandleTells DEF e
    <2>4. IsFiniteSet(Told')
      BY <1>1, <2>3, FS_AddElement
    <2>5. ASSUME NEW b \in Button PROVE held_count'[b] = Cardinality(Pressing(b)')
      <3>1. CASE b \in bindings[s]
        <4>1. Pressing(b)' = Pressing(b) \cup {s} /\ s \notin Pressing(b)
          BY <2>3, <3>1 DEF Pressing
        <4>2. Cardinality(Pressing(b) \cup {s}) = Cardinality(Pressing(b)) + 1
          BY <1>2, <4>1, FS_AddElement
        <4> QED
          BY <1>1, <2>1, <3>1, <4>1, <4>2
      <3>2. CASE b \notin bindings[s]
        <4>1. Pressing(b)' = Pressing(b)
          BY <2>3, <3>2 DEF Pressing
        <4> QED
          BY <1>1, <2>1, <3>2, <4>1
      <3> QED
        BY <3>1, <3>2
    <2>6. Counted'
      BY <2>4, <2>5 DEF Counted
    <2> QED
      BY <2>3, <2>6 DEF InputInv
  <1>7. CASE Input(e) /\ ~e.down
    <2>1. held_count' = [b \in Button |-> IF b \notin bindings[s] THEN held_count[b]
                                          ELSE IF held_count[b] # 0 THEN held_count[b] - 1
                                          ELSE 0]
      BY <1>4, <1>7 DEF Input, InputEvent
    <2>2. held_count' \in [Button -> Nat]
      BY <1>1, <2>1
    <2>3. /\ InputTypes' /\ Alternate' /\ s \in Told /\ Told' = Told \ {s}
      BY <1>4, <1>7, <2>2, HandleTells DEF e
    <2>4. IsFiniteSet(Told')
      BY <1>1, <2>3, FS_RemoveElement
    <2>5. ASSUME NEW b \in Button PROVE held_count'[b] = Cardinality(Pressing(b)')
      <3>1. CASE b \in bindings[s]
        <4>1. Pressing(b)' = Pressing(b) \ {s} /\ s \in Pressing(b)
          BY <2>3, <3>1 DEF Pressing
        <4>2. Cardinality(Pressing(b) \ {s}) = Cardinality(Pressing(b)) - 1
          BY <1>2, <4>1, FS_RemoveElement
        <4>3. Cardinality(Pressing(b)) \in Nat /\ Cardinality(Pressing(b)) # 0
          BY <1>2, <4>1, FS_CardinalityType, FS_EmptySet
        <4> QED
          BY <1>1, <2>1, <3>1, <4>1, <4>2, <4>3
      <3>2. CASE b \notin bindings[s]
        <4>1. Pressing(b)' = Pressing(b)
          BY <2>3, <3>2 DEF Pressing
        <4> QED
          BY <1>1, <2>1, <3>2, <4>1
      <3> QED
        BY <3>1, <3>2
    <2>6. Counted'
      BY <2>4, <2>5 DEF Counted
    <2> QED
      BY <2>3, <2>6 DEF InputInv
  <1> QED
    BY <1>4, <1>5, <1>6, <1>7 DEF e

LEMMA InputStep ==
  ASSUME HotkeysUnbound, InputInv, [InputNext]_inputs
  PROVE  InputInv'
  <1>1. ASSUME NEW s \in Source, Press(s) PROVE InputInv'
    <2> DEFINE e == [source |-> s, down |-> TRUE]
    <2>1. e \in Event /\ e.source = s /\ e.down
      BY DEF Event
    <2>2. /\ s \notin down /\ down' = down \cup {s} /\ events' = Append(events, e)
          /\ held_count' = held_count
      BY <1>1 DEF Press
    <2> HIDE DEF e
    <2> QED
      BY <2>1, <2>2, TurnKeeps
  <1>2. ASSUME NEW s \in Source, Release(s) PROVE InputInv'
    <2> DEFINE e == [source |-> s, down |-> FALSE]
    <2>1. e \in Event /\ e.source = s /\ ~e.down
      BY DEF Event
    <2>2. /\ s \in down /\ down' = down \ {s} /\ events' = Append(events, e)
          /\ held_count' = held_count
      BY <1>2 DEF Release
    <2> HIDE DEF e
    <2> QED
      BY <2>1, <2>2, TurnKeeps
  <1>3. CASE HandleEvent
    BY <1>3, CountTells DEF HandleEvent
  <1>4. CASE UNCHANGED <<down, events, held_count>>
    <2>1. Told' = Told
      BY <1>4 DEF Told
    <2> QED
      BY <1>4, <2>1 DEF InputInv, InputTypes, Alternate, Counted, Pressing
  <1>5. PollDone \/ Round \/ UNCHANGED inputs => UNCHANGED <<down, events, held_count>>
    BY DEF PollDone, Round, inputs
  <1> QED
    BY <1>1, <1>2, <1>3, <1>4, <1>5 DEF InputNext

(* A button is pressed while a source that pressed it is held, and no       *)
(* longer, whatever the order of presses, releases and hotkeys              *)
(* (vf2_host_input_event), for every set of controls and every bindings     *)
(* that leave the loop's own keys alone.                                    *)
THEOREM PressedHeld ==
  ASSUME HotkeysUnbound
  PROVE  InputSpec => []PressedWhileHeld
  <1>1. InputInv => PressedWhileHeld
    <2> SUFFICES ASSUME InputInv, NEW b \in Button
                 PROVE  (\E s \in Told : hotkey[s] = "none" /\ b \in bindings[s]) <=> b \in Mask
      BY DEF PressedWhileHeld
    <2>1. /\ IsFiniteSet(Told) /\ held_count[b] = Cardinality(Pressing(b))
          /\ Pressing(b) \in SUBSET Told
      BY DEF InputInv, Counted, Pressing
    <2>2. IsFiniteSet(Pressing(b))
      BY <2>1, FS_Subset
    <2>3. b \in Mask <=> Pressing(b) # {}
      BY <2>1, <2>2, FS_EmptySet DEF Mask
    <2>4. Told \subseteq Source
      BY DEF Told
    <2> QED
      BY <2>3, <2>4 DEF Pressing, HotkeysUnbound
  <1>2. InputInv /\ [InputNext]_inputs => InputInv'
    BY InputStep
  <1> QED
    BY <1>1, <1>2, InputInitInv, PTL DEF InputSpec
===============================================================================
