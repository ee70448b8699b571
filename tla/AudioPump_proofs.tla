--------------------------- MODULE AudioPump_proofs ---------------------------
(***************************************************************************)
(* The audio pump for every width of its counters, tick cap, set of words  *)
(* and length of the long stream: its types, one cursor step for each      *)
(* entry filed, what the board's entry count says, and that the path from  *)
(* the game's word to the dispatched entry is CommandPath.                 *)
(***************************************************************************)
EXTENDS AudioPump, SequenceTheorems, TLAPS

Byte == 0 .. 255

(* Entries the drain in progress has filed.                                 *)
Filed == (cnt - before) % CountMod

Types ==
  /\ TypeOK
  /\ current \in Seq(Byte)
  /\ emitted \in Cell /\ held \in 0 .. CountMod - 1

(* A drain files at most one entry a tick, so the difference of the counts  *)
(* has not come round, and the cursors are apart by what it says.           *)
Filing ==
  phase = "drain" => Filed <= ticks /\ Backlog = (emitted + Filed) % RingSlots

Dispatching ==
  phase = "dispatch" => Backlog = (emitted + pending) % RingSlots

Settled == phase \in {"game", "maintain"} => Backlog = emitted

Cursors == Filing /\ Dispatching /\ Settled

IInv == Types /\ Cursors /\ CountAccounts

-------------------------------------------------------------------------------
(* Remainders, so that no later step reasons about % and \div.              *)
LEMMA ModRange ==
  ASSUME NEW x \in Int, NEW m \in Nat \ {0}
  PROVE  x % m \in 0 .. m - 1 /\ x \div m \in Int
  OBVIOUS

LEMMA ModSplit ==
  ASSUME NEW x \in Int, NEW m \in Nat \ {0}
  PROVE  x = m * (x \div m) + (x % m)
  BY SMTT(30)

LEMMA ModUnique ==
  ASSUME NEW q \in Int, NEW m \in Nat \ {0}, NEW r \in 0 .. m - 1
  PROVE  (m * q + r) % m = r
  OBVIOUS

LEMMA ModSmall ==
  ASSUME NEW m \in Nat \ {0}, NEW r \in 0 .. m - 1
  PROVE  r % m = r
  OBVIOUS

(* Whole turns do not show.                                                 *)
LEMMA ModTurns ==
  ASSUME NEW x \in Int, NEW y \in Int, NEW k \in Int, NEW m \in Nat \ {0},
         y = m * k + x
  PROVE  y % m = x % m
  <1> DEFINE q == x \div m
             r == x % m
  <1>1. q \in Int /\ r \in 0 .. m - 1 /\ x = m * q + r
    BY ModRange, ModSplit
  <1> HIDE DEF q, r
  <1>2. m * (k + q) = m * k + m * q /\ m * k \in Int /\ m * q \in Int /\ k + q \in Int
    BY <1>1
  <1>3. y = m * (k + q) + r
    BY <1>1, <1>2
  <1>4. (m * (k + q) + r) % m = r
    BY <1>1, <1>2, ModUnique
  <1>5. y % m = r
    BY <1>3, <1>4
  <1> QED
    BY <1>5 DEF r

(* A remainder may be taken early.                                          *)
LEMMA ModAdd ==
  ASSUME NEW x \in Int, NEW y \in Int, NEW m \in Nat \ {0}
  PROVE  ((x % m) + y) % m = (x + y) % m
  <1> DEFINE q == x \div m
             r == x % m
  <1>1. q \in Int /\ r \in 0 .. m - 1 /\ x = m * q + r
    BY ModRange, ModSplit
  <1> HIDE DEF q, r
  <1>2. r + y \in Int /\ m * q \in Int /\ x + y = m * q + (r + y) /\ x + y \in Int
    BY <1>1
  <1>3. (x + y) % m = (r + y) % m
    <2> DEFINE a == x + y
               b == r + y
    <2>1. a \in Int /\ b \in Int /\ a = m * q + b
      BY <1>2
    <2> HIDE DEF a, b
    <2>2. a % m = b % m
      BY <1>1, <2>1, ModTurns
    <2> QED
      BY <2>2 DEF a, b
  <1> QED
    BY <1>3 DEF r

LEMMA Widths ==
  /\ CountMod \in Nat \ {0} /\ RingSlots \in Nat \ {0}
  /\ RingSlots % CountMod = 0
  BY ReceiverAssumption, PumpAssumption

(* A remainder of the ring's width may be taken before one of the count's.  *)
LEMMA ModRing ==
  ASSUME NEW x \in Int, NEW y \in Int
  PROVE  ((x % RingSlots) + y) % CountMod = (x + y) % CountMod
  <1> DEFINE q == x \div RingSlots
             r == x % RingSlots
             k == RingSlots \div CountMod
  <1>1. q \in Int /\ r \in 0 .. RingSlots - 1 /\ x = RingSlots * q + r
    BY Widths, ModRange, ModSplit
  <1>2. k \in Int /\ RingSlots = CountMod * k
    <2>1. RingSlots \in Int /\ RingSlots = CountMod * k + (RingSlots % CountMod)
      BY Widths, ModSplit
    <2>2. k \in Int
      BY Widths, ModRange
    <2> HIDE DEF k
    <2>3. CountMod * k \in Int
      BY <2>2, Widths
    <2> QED
      BY <2>1, <2>2, <2>3, Widths
  <1> HIDE DEF q, r, k
  <1> DEFINE a == x + y
             b == r + y
             t == k * q
  <1>3. RingSlots * q = CountMod * t /\ t \in Int /\ r \in Int /\ RingSlots * q \in Int
    <2>1. (CountMod * k) * q = CountMod * (k * q)
      BY <1>1, <1>2, Widths, SMTT(30)
    <2> QED
      BY <1>1, <1>2, <2>1, Widths
  <1>4. a \in Int /\ b \in Int /\ a = CountMod * t + b
    <2>1. x + y = RingSlots * q + (r + y)
      BY <1>1, <1>3
    <2> QED
      BY <1>3, <2>1
  <1> HIDE DEF a, b, t
  <1>5. a % CountMod = b % CountMod
    BY <1>3, <1>4, Widths, ModTurns
  <1> QED
    BY <1>5 DEF a, b, r

(* The numbers the invariant talks about.                                   *)
LEMMA Numbers ==
  ASSUME Types
  PROVE  /\ wr \in Int /\ rd \in Int /\ cnt \in Int /\ before \in Int
         /\ pending \in Int /\ held \in Int /\ emitted \in Int
         /\ Backlog \in Cell /\ Backlog \in Int
         /\ Filed \in 0 .. CountMod - 1 /\ Filed \in Int
  <1>1. /\ wr \in Int /\ rd \in Int /\ cnt \in Int /\ before \in Int
        /\ pending \in Int /\ held \in Int /\ emitted \in Int
    BY Widths DEF Types, TypeOK, ReceiverTypeOK, Cell
  <1>2. Backlog \in Cell
    BY <1>1, Widths, ModRange DEF Backlog, Cell
  <1>3. Filed \in 0 .. CountMod - 1
    BY <1>1, Widths, ModRange DEF Filed
  <1> QED
    BY <1>1, <1>2, <1>3, Widths DEF Cell

(* The write cursor by n cells.                                             *)
LEMMA Forward ==
  ASSUME Types, NEW n \in Int, wr' = (wr + n) % RingSlots, rd' = rd
  PROVE  Backlog' = (Backlog + n) % RingSlots
  <1>1. wr \in Int /\ rd \in Int
    BY Numbers
  <1> DEFINE a == wr + n
             b == wr - rd
             c == -rd
  <1>0. a \in Int /\ b \in Int /\ c \in Int /\ c = -rd
    BY <1>1
  <1>2. ((a % RingSlots) + (-rd)) % RingSlots = (a + (-rd)) % RingSlots
    <2> HIDE DEF a, c
    <2>1. ((a % RingSlots) + c) % RingSlots = (a + c) % RingSlots
      BY <1>0, Widths, ModAdd
    <2> QED
      BY <1>0, <2>1
  <1>3. ((b % RingSlots) + n) % RingSlots = (b + n) % RingSlots
    <2> HIDE DEF b
    <2> QED
      BY <1>0, Widths, ModAdd
  <1>4. /\ (a % RingSlots) - rd = (a % RingSlots) + (-rd)
        /\ a + (-rd) = b + n
    <2>1. a % RingSlots \in Int
      BY <1>1, Widths, ModRange
    <2> QED
      BY <1>1, <2>1
  <1>5. Backlog' = ((a % RingSlots) - rd) % RingSlots
    BY DEF Backlog
  <1> HIDE DEF a, b
  <1>6. Backlog' = ((b % RingSlots) + n) % RingSlots
    BY <1>2, <1>3, <1>4, <1>5
  <1> QED
    BY <1>6 DEF b, Backlog

(* The read cursor by one.                                                  *)
LEMMA Taken ==
  ASSUME Types, wr' = wr, rd' = NextCell(rd)
  PROVE  Backlog' = (Backlog + (-1)) % RingSlots
  <1>1. wr \in Int /\ rd \in Int /\ rd + 1 \in Int
    BY Numbers
  <1> DEFINE a == rd + 1
             b == wr - rd
             k == a \div RingSlots
             c == a % RingSlots
  <1>2. a = RingSlots * k + c /\ k \in Int /\ c \in Int
    BY <1>1, Widths, ModSplit, ModRange
  <1>3. ((b % RingSlots) + (-1)) % RingSlots = (b + (-1)) % RingSlots
    <2>1. b \in Int /\ -1 \in Int
      BY <1>1
    <2> HIDE DEF b
    <2> QED
      BY <2>1, Widths, ModAdd
  <1>4. Backlog' = (wr - c) % RingSlots
    BY DEF Backlog, NextCell
  <1>5. b + (-1) = wr - a /\ wr - a \in Int
    BY <1>1
  <1> HIDE DEF a, c, k
  <1>6. wr - c = RingSlots * k + (wr - a) /\ wr - c \in Int
    <2>1. RingSlots * k \in Int
      BY <1>2, Widths
    <2> QED
      BY <1>1, <1>2, <2>1 DEF a
  <1>7. (wr - c) % RingSlots = (wr - a) % RingSlots
    <2> DEFINE x == wr - a
               y == wr - c
    <2>1. x \in Int /\ y \in Int /\ y = RingSlots * k + x
      BY <1>5, <1>6
    <2> HIDE DEF x, y
    <2>2. y % RingSlots = x % RingSlots
      BY <1>2, <2>1, Widths, ModTurns
    <2> QED
      BY <2>2 DEF x, y
  <1>8. ((b % RingSlots) + (-1)) % RingSlots = Backlog'
    <2> HIDE DEF b
    <2> QED
      BY <1>3, <1>4, <1>5, <1>7
  <1> QED
    BY <1>8 DEF Backlog

(* The count's equation after the cursors part by k and h entries are held. *)
LEMMA Accounted ==
  ASSUME Types, CountAccounts, NEW k \in Int, NEW h \in Int,
         Backlog' = (Backlog + k) % RingSlots, held' = (held + h) % CountMod
  PROVE  (Backlog' + held') % CountMod = (cnt + (k + h)) % CountMod
  <1>1. Backlog \in Int /\ held \in Int /\ cnt \in Int
    BY Numbers
  <1> DEFINE a == Backlog + k
             b == held + h
             c == Backlog + held
  <1>2. a \in Int /\ b \in Int /\ c \in Int /\ k + h \in Int
    BY <1>1
  <1>3. a + b = c + (k + h) /\ a + b \in Int
    BY <1>1
  <1>4. cnt = c % CountMod
    BY DEF CountAccounts
  <1>5. Backlog' = a % RingSlots /\ held' = b % CountMod
    OBVIOUS
  <1> HIDE DEF a, b, c
  <1>6. held' \in Int
    BY <1>2, <1>5, Widths, ModRange
  <1>7. ((a % RingSlots) + held') % CountMod = (a + held') % CountMod
    <2> DEFINE e == held'
    <2>1. e \in Int
      BY <1>6
    <2> HIDE DEF e
    <2>2. ((a % RingSlots) + e) % CountMod = (a + e) % CountMod
      BY <1>2, <2>1, ModRing
    <2> QED
      BY <2>2 DEF e
  <1>8. ((b % CountMod) + a) % CountMod = (b + a) % CountMod
    BY <1>2, Widths, ModAdd
  <1>9. ((c % CountMod) + (k + h)) % CountMod = (c + (k + h)) % CountMod
    BY <1>2, Widths, ModAdd, ZenonT(60)
  <1>10. a + held' = (b % CountMod) + a /\ b + a = a + b
    BY <1>2, <1>5, <1>6
  <1> QED
    BY <1>3, <1>4, <1>5, <1>7, <1>8, <1>9, <1>10

-------------------------------------------------------------------------------
(* What the receiver does with one byte.                                    *)
LEMMA FileTypes ==
  ASSUME ReceiverTypeOK, NEW e \in Entry, FileEntry(e)
  PROVE  /\ ring' \in [Cell -> Entry] /\ wr' \in Cell /\ cnt' \in 0 .. CountMod - 1
         /\ wr' = (wr + 1) % RingSlots /\ cnt' = (cnt + 1) % CountMod
  <1>1. wr + 1 \in Int /\ cnt + 1 \in Int
    BY Widths DEF ReceiverTypeOK, Cell
  <1>2. (wr + 1) % RingSlots \in Cell /\ (cnt + 1) % CountMod \in 0 .. CountMod - 1
    BY <1>1, Widths, ModRange DEF Cell
  <1> QED
    BY <1>2 DEF ReceiverTypeOK, FileEntry, NextCell

LEMMA ReceiveTypes ==
  ASSUME ReceiverTypeOK, NEW b \in Byte, Receive(b)
  PROVE  /\ ReceiverTypeOK'
         /\ \/ wr' = wr /\ cnt' = cnt
            \/ wr' = (wr + 1) % RingSlots /\ cnt' = (cnt + 1) % CountMod
  <1> USE DEF Byte
  <1>1. CASE Ignore(b)
    BY <1>1 DEF Ignore, ReceiverTypeOK, staging, filing
  <1>2. CASE Command(b)
    <2>1. Length(b) \in 1 .. 2 /\ Length(b) \in 0 .. ByteMod - 1
      BY ReceiverAssumption DEF Length
    <2> QED
      BY <1>2, <2>1 DEF Command, ReceiverTypeOK, filing
  <1>3. CASE Data(b)
    <2> DEFINE select == IF left = 0 THEN need ELSE left
    <2>1. /\ left' = (select - 1) % ByteMod /\ cmd' = cmd /\ need' = need
          /\ \/ FileEntry(Assembled(b)) /\ arg' = arg
             \/ arg' = b /\ UNCHANGED filing
      BY <1>3 DEF Data
    <2>2. left' \in 0 .. ByteMod - 1
      <3>1. select - 1 \in Int /\ ByteMod \in Nat \ {0}
        BY ReceiverAssumption DEF ReceiverTypeOK
      <3> HIDE DEF select
      <3> QED
        BY <2>1, <3>1, ModRange
    <2>3. Assembled(b) \in Entry
      <3>1. ring[wr] \in Entry /\ cmd \in 0 .. 255 /\ arg \in 0 .. 255
        BY DEF ReceiverTypeOK
      <3>2. [ring[wr] EXCEPT !.cmd = cmd, !.arg = b] \in Entry
        <4> DEFINE e == ring[wr]
        <4>1. e \in [cmd : 0 .. 255, arg : 0 .. 255, val : 0 .. 255]
          BY <3>1 DEF Entry
        <4> HIDE DEF e
        <4>2. [e EXCEPT !.cmd = cmd] \in Entry
          BY <3>1, <4>1 DEF Entry
        <4>3. [[e EXCEPT !.cmd = cmd] EXCEPT !.arg = b] \in Entry
          BY <4>2 DEF Entry
        <4> QED
          BY <4>3 DEF e
      <3>3. [cmd |-> cmd, arg |-> arg, val |-> b] \in Entry
        BY <3>1 DEF Entry
      <3> QED
        BY <3>2, <3>3 DEF Assembled
    <2>4. CASE FileEntry(Assembled(b)) /\ arg' = arg
      <3>1. /\ ring' \in [Cell -> Entry] /\ wr' \in Cell /\ cnt' \in 0 .. CountMod - 1
            /\ wr' = (wr + 1) % RingSlots /\ cnt' = (cnt + 1) % CountMod
        BY <2>3, <2>4, FileTypes
      <3>2. ReceiverTypeOK'
        BY <2>1, <2>2, <2>4, <3>1 DEF ReceiverTypeOK
      <3> QED
        BY <3>1, <3>2
    <2>5. CASE arg' = b /\ UNCHANGED filing
      <3>1. ring' = ring /\ wr' = wr /\ cnt' = cnt
        BY <2>5 DEF filing
      <3>2. ReceiverTypeOK'
        BY <2>1, <2>2, <2>5, <3>1 DEF ReceiverTypeOK
      <3> QED
        BY <3>1, <3>2
    <2> QED
      BY <2>1, <2>4, <2>5
  <1> QED
    BY <1>1, <1>2, <1>3 DEF Receive

(* What the drainer puts on the line.                                       *)
LEMMA TransmitTypes ==
  ASSUME Types, Queue!Transmit
  PROVE  /\ queue' \in Seq(Word) /\ Len(queue') <= Capacity
         /\ current' \in Seq(Byte) /\ Len(current') <= 2
         /\ line' \in Byte
  <1>1. /\ queue \in Seq(Word) /\ Len(queue) <= Capacity
        /\ current \in Seq(Byte) /\ Len(current) <= 2
    BY DEF Types, TypeOK
  <1>2. CASE Queue!Continue
    <2>1. current # << >> /\ line' = Head(current) /\ current' = Tail(current) /\ queue' = queue
      BY <1>2 DEF Queue!Continue
    <2>2. line' \in Byte /\ current' \in Seq(Byte) /\ Len(current') = Len(current) - 1
      BY <1>1, <2>1, HeadTailProperties
    <2>3. Len(current) \in Nat
      BY <1>1, LenProperties
    <2> QED
      BY <1>1, <2>1, <2>2, <2>3
  <1>3. CASE Queue!Start
    <2>1. /\ queue # << >> /\ queue' = Tail(queue)
          /\ line' = Head(Queue!Bytes(Head(queue)))
          /\ current' = Tail(Queue!Bytes(Head(queue)))
      BY <1>3 DEF Queue!Start
    <2>2. /\ Head(queue) \in Word
          /\ queue' \in Seq(Word) /\ Len(queue') = Len(queue) - 1
      BY <1>1, <2>1, HeadTailProperties
    <2>3. Head(queue) \in [0 .. 2 -> Byte]
      BY <2>2, PumpAssumption DEF Byte
    <2> DEFINE w == Head(queue)
    <2>4. w[0] \in Byte /\ w[1] \in Byte /\ w[2] \in Byte
      BY <2>3
    <2> HIDE DEF w
    <2>5. line' = Head(<<w[2], w[1], w[0]>>) /\ current' = Tail(<<w[2], w[1], w[0]>>)
      BY <2>1 DEF Queue!Bytes, w
    <2>6. line' = w[2] /\ current' = <<w[1], w[0]>>
      BY <2>5
    <2>7. current' \in Seq(Byte) /\ Len(current') = 2
      BY <2>4, <2>6
    <2>8. Len(queue) \in Nat
      BY <1>1, LenProperties
    <2> QED
      BY <1>1, <2>2, <2>4, <2>6, <2>7, <2>8, PumpAssumption
  <1> QED
    BY <1>2, <1>3 DEF Queue!Transmit

LEMMA InitIInv == Init => IInv
  <1> SUFFICES ASSUME Init PROVE IInv
    OBVIOUS
  <1>0. /\ 0 \in Cell /\ 0 \in 0 .. CountMod - 1 /\ 0 % RingSlots = 0 /\ 0 % CountMod = 0
        /\ 0 \in 0 .. TickCap /\ 0 \in 0 .. ByteMod - 1
    <2>1. 0 \in Cell /\ 0 \in 0 .. CountMod - 1
      BY Widths DEF Cell
    <2> QED
      BY <2>1, Widths, ModSmall, ReceiverAssumption, PumpAssumption DEF Cell
  <1>1. ReceiverTypeOK
    <2>1. Blank \in Entry
      BY DEF Blank, Entry
    <2> QED
      BY <1>0, <2>1 DEF Init, ReceiverInit, ReceiverTypeOK
  <1>2. /\ queue \in Seq(Word) /\ Len(queue) <= Capacity
        /\ current \in Seq(Byte) /\ Len(current) <= 2
    <2>1. queue = <<BootWord>> /\ current = << >>
      BY DEF Init, Queue!Init
    <2>2. queue \in Seq(Word) /\ Len(queue) = 1
      BY <2>1, PumpAssumption
    <2>3. current \in Seq(Byte) /\ Len(current) = 0
      BY <2>1, EmptySeq
    <2> QED
      BY <2>2, <2>3, PumpAssumption
  <1>3. Types
    <2>1. /\ rd \in Cell /\ music \in BOOLEAN /\ reload \in 0 .. 255 /\ beat \in 0 .. 255
          /\ stream \in [Records -> Kind] /\ phase \in Phase
      <3>1. stream \in [Records -> Kind]
        BY DEF Init, Kind
      <3>2. music \in BOOLEAN
        BY DEF Init
      <3> QED
        BY <1>0, <3>1, <3>2 DEF Init, Phase
    <2>2. /\ ticks \in 0 .. TickCap
          /\ before \in 0 .. CountMod - 1 /\ pending \in 0 .. CountMod - 1
          /\ ranCount \in Nat /\ refusedCount \in Nat /\ drainOK \in BOOLEAN
      BY <1>0 DEF Init
    <2>3. emitted \in Cell /\ held \in 0 .. CountMod - 1
      BY <1>0 DEF Init
    <2> QED
      BY <1>1, <1>2, <2>1, <2>2, <2>3 DEF Types, TypeOK
  <1>4. Backlog = 0
    BY <1>0 DEF Init, ReceiverInit, Backlog
  <1>5. Cursors /\ CountAccounts
    BY <1>0, <1>4 DEF Init, ReceiverInit, Cursors, Filing, Dispatching, Settled, CountAccounts
  <1> QED
    BY <1>3, <1>5 DEF IInv

-------------------------------------------------------------------------------
(* One action at a time.                                                    *)
LEMMA GameFilesKeeps ==
  ASSUME IInv, NEW w \in Word, GameFiles(w)
  PROVE  IInv'
  <1>1. /\ Len(queue) < Capacity /\ queue' = Append(queue, w) /\ current' = current
        /\ UNCHANGED <<staging, filing, rd, streams, phase, call, report, emitted, held>>
    BY DEF GameFiles, Queue!Accept
  <1>2. queue' \in Seq(Word) /\ Len(queue') <= Capacity
    <2>1. queue \in Seq(Word)
      BY DEF IInv, Types, TypeOK
    <2>2. queue' \in Seq(Word) /\ Len(queue') = Len(queue) + 1 /\ Len(queue) \in Nat
      BY <1>1, <2>1, AppendProperties, LenProperties
    <2> QED
      BY <1>1, <2>2, PumpAssumption
  <1>3. Types'
    BY <1>1, <1>2 DEF staging, filing, streams, call, report, IInv, Types, TypeOK, ReceiverTypeOK
  <1>4. Cursors' /\ CountAccounts'
    BY <1>1 DEF filing, call, IInv, Cursors, Filing, Dispatching, Settled, CountAccounts,
                Backlog, Filed
  <1> QED
    BY <1>3, <1>4 DEF IInv

LEMMA PumpBeginKeeps ==
  ASSUME IInv, PumpBegin
  PROVE  IInv'
  <1>1. /\ phase = "game" /\ phase' = "drain"
        /\ ticks' = 0 /\ before' = cnt /\ pending' = 0
        /\ ranCount' = 0 /\ refusedCount' = 0 /\ drainOK' = TRUE
        /\ UNCHANGED <<i960, staging, filing, rd, streams, history>>
    BY DEF PumpBegin
  <1>2. Backlog' = Backlog /\ Backlog = emitted
    BY <1>1 DEF filing, Backlog, IInv, Cursors, Settled
  <1>3. Filed' = 0
    <2>1. cnt - cnt = 0 /\ 0 % CountMod = 0
      <3>1. cnt \in Int /\ 0 \in 0 .. CountMod - 1
        BY Numbers, Widths DEF IInv
      <3> QED
        BY <3>1, Widths, ModSmall
    <2> QED
      BY <1>1, <2>1 DEF filing, Filed
  <1>4. Types'
    <2>1. pending' \in 0 .. CountMod - 1 /\ ticks' \in 0 .. TickCap
      BY <1>1, Widths, PumpAssumption
    <2> QED
      BY <1>1, <2>1 DEF i960, staging, filing, streams, history, IInv, Types, TypeOK,
                        ReceiverTypeOK, Phase
  <1>5. (emitted + 0) % RingSlots = emitted
    <2>1. emitted + 0 = emitted /\ emitted \in 0 .. RingSlots - 1
      BY Numbers DEF IInv, Types, Cell
    <2> QED
      BY <2>1, Widths, ModSmall
  <1>6. Filing'
    BY <1>1, <1>2, <1>3, <1>5 DEF Filing, history
  <1>7. Cursors' /\ CountAccounts'
    BY <1>1, <1>2, <1>6 DEF Cursors, Dispatching, Settled, CountAccounts, IInv, filing, history
  <1> QED
    BY <1>4, <1>7 DEF IInv

(* The end of the drain: what it filed is what is pending.                  *)
LEMMA EndDrainKeeps ==
  ASSUME IInv, phase = "drain", EndDrain,
         UNCHANGED <<staging, filing, rd, streams, before, emitted, held>>
  PROVE  /\ pending' \in 0 .. CountMod - 1
         /\ Cursors' /\ CountAccounts'
  <1>1. phase' = "dispatch" /\ pending' = Filed
    BY DEF EndDrain, Filed
  <1>2. Backlog' = Backlog /\ emitted' = emitted /\ Backlog = (emitted + Filed) % RingSlots
    BY DEF IInv, Cursors, Filing, Backlog, filing
  <1>3. Cursors'
    BY <1>1, <1>2 DEF Cursors, Filing, Dispatching, Settled
  <1>4. CountAccounts'
    BY <1>2 DEF IInv, CountAccounts, filing
  <1> QED
    BY <1>1, <1>3, <1>4, Numbers DEF IInv

LEMMA DrainDoneKeeps ==
  ASSUME IInv, DrainDone
  PROVE  IInv'
  <1>1. /\ phase = "drain" /\ EndDrain /\ phase' = "dispatch"
        /\ UNCHANGED <<i960, staging, filing, rd, streams, ticks, before, report, history>>
    BY DEF DrainDone, EndDrain
  <1>2. pending' \in 0 .. CountMod - 1 /\ Cursors' /\ CountAccounts'
    BY <1>1, EndDrainKeeps DEF history
  <1>3. Types'
    BY <1>1, <1>2 DEF i960, staging, filing, streams, report, history, IInv, Types, TypeOK,
                      ReceiverTypeOK, Phase
  <1> QED
    BY <1>2, <1>3 DEF IInv

(* One more entry filed: the difference of the counts goes up by one.       *)
LEMMA FiledOne ==
  ASSUME IInv, phase = "drain", ticks < TickCap, before' = before,
         cnt' = (cnt + 1) % CountMod
  PROVE  Filed' = Filed + 1
  <1>1. /\ cnt \in Int /\ before \in Int /\ Filed \in Int /\ Filed >= 0
        /\ ticks \in Int /\ Filed <= ticks
    BY Numbers DEF IInv, Types, TypeOK, Cursors, Filing
  <1>2. Filed + 1 \in 0 .. CountMod - 1
    BY <1>1, Widths, PumpAssumption
  <1> DEFINE a == cnt + 1
             b == cnt - before
             c == -before
  <1>3. a \in Int /\ b \in Int /\ c \in Int /\ a + c = b + 1 /\ b = cnt - before
    BY <1>1
  <1>4. Filed = b % CountMod /\ Filed' = ((a % CountMod) - before) % CountMod
    BY DEF Filed
  <1>5. (a % CountMod) - before = (a % CountMod) + c
    <2>1. a % CountMod \in Int
      BY <1>3, Widths, ModRange
    <2> QED
      BY <1>1, <2>1
  <1> HIDE DEF a, b, c
  <1>6. ((a % CountMod) + c) % CountMod = (a + c) % CountMod
    BY <1>3, Widths, ModAdd
  <1>7. ((b % CountMod) + 1) % CountMod = (b + 1) % CountMod
    BY <1>3, Widths, ModAdd
  <1>8. (Filed + 1) % CountMod = Filed + 1
    BY <1>2, Widths, ModSmall
  <1> QED
    BY <1>3, <1>4, <1>5, <1>6, <1>7, <1>8

LEMMA DrainTickKeeps ==
  ASSUME IInv, DrainTick
  PROVE  IInv'
  <1>1. /\ phase = "drain" /\ ticks < TickCap /\ Queue!Transmit /\ ticks' = ticks + 1
        /\ UNCHANGED <<rd, streams, before, ranCount, refusedCount, history>>
    BY DEF DrainTick
  <1>2. /\ queue' \in Seq(Word) /\ Len(queue') <= Capacity
        /\ current' \in Seq(Byte) /\ Len(current') <= 2
        /\ line' \in Byte
    BY <1>1, TransmitTypes DEF IInv
  <1>3. ticks' \in 0 .. TickCap
    BY <1>1, PumpAssumption DEF IInv, Types, TypeOK
  <1>4. CASE Receive(line') /\ UNCHANGED <<phase, pending, drainOK>>
    <2>1. /\ ReceiverTypeOK'
          /\ \/ wr' = wr /\ cnt' = cnt
             \/ wr' = (wr + 1) % RingSlots /\ cnt' = (cnt + 1) % CountMod
      <3>1. PICK b \in Byte : b = line'
        BY <1>2
      <3>2. Receive(b)
        BY <1>4, <3>1 DEF Receive, Ignore, Command, Data
      <3>3. ReceiverTypeOK
        BY DEF IInv, Types, TypeOK
      <3> QED
        BY <3>2, <3>3, ReceiveTypes
    <2>2. Types'
      BY <1>1, <1>2, <1>3, <1>4, <2>1 DEF streams, history, IInv, Types, TypeOK
    <2>3. CASE wr' = wr /\ cnt' = cnt
      <3>1. Backlog' = Backlog /\ Filed' = Filed /\ Filed <= ticks'
        <4>1. Filed \in Int /\ ticks \in Int /\ Filed <= ticks
          BY <1>1, Numbers DEF IInv, Types, TypeOK, Cursors, Filing
        <4> QED
          BY <1>1, <2>3, <4>1 DEF Backlog, Filed
      <3> QED
        BY <1>1, <1>4, <2>2, <2>3, <3>1
           DEF IInv, Cursors, Filing, Dispatching, Settled, CountAccounts, history
    <2>4. CASE wr' = (wr + 1) % RingSlots /\ cnt' = (cnt + 1) % CountMod
      <3>1. Filed' = Filed + 1
        BY <1>1, <2>4, FiledOne
      <3>2. /\ Filed \in Int /\ ticks \in Int /\ Filed <= ticks /\ emitted \in Int
            /\ Backlog = (emitted + Filed) % RingSlots
        BY <1>1, Numbers DEF IInv, Types, TypeOK, Cursors, Filing
      <3>3. Backlog' = (Backlog + 1) % RingSlots
        BY <1>1, <2>4, Forward DEF IInv
      <3>4. Backlog' = (emitted + (Filed + 1)) % RingSlots
        <4> DEFINE a == emitted + Filed
        <4>1. a \in Int /\ emitted + (Filed + 1) = a + 1
          BY <3>2
        <4>2. Backlog = a % RingSlots
          BY <3>2
        <4> HIDE DEF a
        <4>3. ((a % RingSlots) + 1) % RingSlots = (a + 1) % RingSlots
          <5>1. a \in Int /\ 1 \in Int /\ RingSlots \in Nat \ {0}
            BY <4>1, Widths
          <5> QED
            BY <5>1, ModAdd
        <4> QED
          BY <3>3, <4>1, <4>2, <4>3
      <3>5. Cursors'
        BY <1>1, <1>4, <3>1, <3>2, <3>4 DEF Cursors, Filing, Dispatching, Settled, history
      <3>6. CountAccounts'
        <4>1. held' = (held + 0) % CountMod
          <5>1. held + 0 = held /\ held \in 0 .. CountMod - 1
            BY Numbers DEF IInv, Types
          <5> QED
            BY <1>1, <5>1, Widths, ModSmall DEF history
        <4>2. (Backlog' + held') % CountMod = (cnt + (1 + 0)) % CountMod
          BY <3>3, <4>1, Accounted DEF IInv
        <4> QED
          BY <2>4, <4>2 DEF CountAccounts
      <3> QED
        BY <2>2, <3>5, <3>6 DEF IInv
    <2> QED
      BY <2>1, <2>3, <2>4
  <1>5. CASE drainOK' = FALSE /\ EndDrain /\ UNCHANGED <<staging, filing>>
    <2>1. pending' \in 0 .. CountMod - 1 /\ Cursors' /\ CountAccounts'
      BY <1>1, <1>5, EndDrainKeeps DEF history
    <2>2. phase' = "dispatch"
      BY <1>5 DEF EndDrain
    <2>3. Types'
      BY <1>1, <1>2, <1>3, <1>5, <2>1, <2>2
         DEF streams, history, staging, filing, IInv, Types, TypeOK, ReceiverTypeOK, Phase
    <2> QED
      BY <2>1, <2>3 DEF IInv
  <1> QED
    BY <1>4, <1>5 DEF DrainTick

(* One entry stepped over: the cursors, the pending entries and the account *)
(* of the ones held back or consumed go together.                           *)
LEMMA SteppedOver ==
  ASSUME IInv, phase = "dispatch", pending > 0, phase' = phase, pending' = pending - 1,
         emitted' = emitted, wr' = wr, rd' = NextCell(rd),
         \/ cnt' = cnt /\ held' = (held + 1) % CountMod
         \/ cnt # 0 /\ cnt' = cnt - 1 /\ held' = held
  PROVE  /\ pending' \in 0 .. CountMod - 1 /\ cnt' \in 0 .. CountMod - 1
         /\ rd' \in Cell /\ held' \in 0 .. CountMod - 1
         /\ Cursors' /\ CountAccounts'
  <1>1. /\ pending \in 0 .. CountMod - 1 /\ cnt \in 0 .. CountMod - 1
        /\ rd \in Int /\ emitted \in Int /\ held \in 0 .. CountMod - 1
        /\ held \in Int /\ cnt \in Int /\ pending \in Int
    BY Numbers DEF IInv, Types, TypeOK, ReceiverTypeOK
  <1>2. pending' \in 0 .. CountMod - 1 /\ cnt' \in 0 .. CountMod - 1
    BY <1>1, Widths
  <1>3. rd' \in Cell
    <2>1. rd + 1 \in Int
      BY <1>1
    <2> QED
      BY <2>1, Widths, ModRange DEF NextCell, Cell
  <1>4. held' \in 0 .. CountMod - 1
    <2>1. held + 1 \in Int
      BY <1>1
    <2>2. (held + 1) % CountMod \in 0 .. CountMod - 1
      BY <2>1, Widths, ModRange
    <2> QED
      BY <1>1, <2>2
  <1>5. Backlog' = (Backlog + (-1)) % RingSlots
    BY Taken DEF IInv
  <1>6. Backlog' = (emitted + pending') % RingSlots
    <2> DEFINE a == emitted + pending
               b == -1
    <2>1. a \in Int /\ b \in Int
      BY <1>1
    <2>2. Backlog = a % RingSlots
      BY DEF IInv, Cursors, Dispatching
    <2>3. emitted + pending' = a + b
      BY <1>1
    <2>4. Backlog' = (Backlog + b) % RingSlots
      BY <1>5
    <2> HIDE DEF a, b
    <2>5. ((a % RingSlots) + b) % RingSlots = (a + b) % RingSlots
      BY <2>1, Widths, ModAdd
    <2> QED
      BY <2>2, <2>3, <2>4, <2>5
  <1>7. Cursors'
    BY <1>6 DEF Cursors, Filing, Dispatching, Settled
  <1>8. CountAccounts'
    <2>1. CASE cnt' = cnt /\ held' = (held + 1) % CountMod
      <3>1. (Backlog' + held') % CountMod = (cnt + (-1 + 1)) % CountMod
        BY <1>5, <2>1, Accounted DEF IInv
      <3>2. cnt + (-1 + 1) = cnt
        BY <1>1
      <3>3. cnt % CountMod = cnt
        BY <1>1, Widths, ModSmall
      <3> QED
        BY <2>1, <3>1, <3>2, <3>3 DEF CountAccounts
    <2>2. CASE cnt # 0 /\ cnt' = cnt - 1 /\ held' = held
      <3>1. held' = (held + 0) % CountMod
        <4>1. held + 0 = held
          BY <1>1
        <4> QED
          BY <1>1, <2>2, <4>1, Widths, ModSmall
      <3>2. (Backlog' + held') % CountMod = (cnt + (-1 + 0)) % CountMod
        BY <1>5, <3>1, Accounted DEF IInv
      <3>3. cnt + (-1 + 0) = cnt'
        BY <1>1, <2>2
      <3>4. cnt' % CountMod = cnt'
        BY <1>2, Widths, ModSmall
      <3> QED
        BY <3>2, <3>3, <3>4 DEF CountAccounts
    <2> QED
      BY <2>1, <2>2
  <1> QED
    BY <1>2, <1>3, <1>4, <1>7, <1>8

(* What an arm leaves in the stream records.                                *)
LEMMA ArmTypes ==
  ASSUME Types, NEW n \in Matching, NEW outcome \in Outcome, Arm(ring[rd], n, outcome)
  PROVE  /\ music' \in BOOLEAN /\ reload' \in 0 .. 255 /\ beat' \in 0 .. 255
         /\ stream' \in [Records -> Kind]
  <1>1. /\ music \in BOOLEAN /\ reload \in 0 .. 255 /\ beat \in 0 .. 255
        /\ stream \in [Records -> Kind] /\ ring[rd] \in Entry
    BY DEF Types, TypeOK, ReceiverTypeOK
  <1> DEFINE e == ring[rd]
  <1>2. e.val \in 0 .. 255
    BY <1>1 DEF Entry
  <1> HIDE DEF e
  <1>3. \/ UNCHANGED streams
        \/ music' = TRUE /\ reload' = 0 /\ beat' = 0 /\ stream' = stream
        \/ reload' = e.val /\ beat' = e.val /\ music' = music /\ stream' = stream
        \/ /\ stream' = [i \in Records |->
                           IF i \notin FirstFree(n) THEN stream[i]
                           ELSE IF StartsLong(e) THEN "long" ELSE "short"]
           /\ music' = music /\ reload' = reload /\ beat' = beat
    BY DEF Arm, e
  <1>4. CASE UNCHANGED streams
    BY <1>1, <1>4 DEF streams
  <1>5. CASE music' = TRUE /\ reload' = 0 /\ beat' = 0 /\ stream' = stream
    <2>1. music' \in BOOLEAN
      BY <1>5
    <2> QED
      BY <1>1, <1>5, <2>1
  <1>6. CASE reload' = e.val /\ beat' = e.val /\ music' = music /\ stream' = stream
    BY <1>1, <1>2, <1>6
  <1>7. CASE /\ stream' = [i \in Records |->
                             IF i \notin FirstFree(n) THEN stream[i]
                             ELSE IF StartsLong(e) THEN "long" ELSE "short"]
             /\ music' = music /\ reload' = reload /\ beat' = beat
    BY <1>1, <1>7 DEF Kind
  <1> QED
    BY <1>3, <1>4, <1>5, <1>6, <1>7

LEMMA DispatchEntryKeeps ==
  ASSUME IInv, NEW n \in Matching, NEW outcome \in Outcome, DispatchEntry(n, outcome)
  PROVE  IInv'
  <1>1. /\ phase = "dispatch" /\ pending > 0 /\ cnt # 0 /\ pending' = pending - 1
        /\ rd' = NextCell(rd)
        /\ UNCHANGED <<i960, staging, ring, wr, phase, ticks, before, drainOK,
                       offered, emitted>>
    BY DEF DispatchEntry
  <1>2. \/ cnt' = cnt /\ held' = (held + 1) % CountMod
        \/ cnt # 0 /\ cnt' = cnt - 1 /\ held' = held
    BY DEF DispatchEntry
  <1>3. /\ pending' \in 0 .. CountMod - 1 /\ cnt' \in 0 .. CountMod - 1
        /\ rd' \in Cell /\ held' \in 0 .. CountMod - 1
        /\ Cursors' /\ CountAccounts'
    BY <1>1, <1>2, SteppedOver
  <1>4. /\ music' \in BOOLEAN /\ reload' \in 0 .. 255 /\ beat' \in 0 .. 255
        /\ stream' \in [Records -> Kind]
    BY ArmTypes DEF IInv, DispatchEntry
  <1>5. ranCount' \in Nat /\ refusedCount' \in Nat
    BY SMTT(40) DEF IInv, Types, TypeOK, DispatchEntry
  <1>6. Types'
    BY <1>1, <1>3, <1>4, <1>5 DEF i960, staging, IInv, Types, TypeOK, ReceiverTypeOK
  <1> QED
    BY <1>3, <1>6 DEF IInv

LEMMA DispatchNothingKeeps ==
  ASSUME IInv, DispatchNothing
  PROVE  IInv'
  <1>1. /\ phase = "dispatch" /\ pending > 0 /\ pending' = pending - 1
        /\ rd' = NextCell(rd) /\ wr' = wr /\ phase' = phase /\ emitted' = emitted
        /\ cnt' = cnt /\ held' = (held + 1) % CountMod /\ ranCount' = ranCount + 1
        /\ UNCHANGED <<i960, staging, filing, streams, ticks, before, refusedCount, drainOK>>
    BY DEF DispatchNothing, filing
  <1>2. /\ pending' \in 0 .. CountMod - 1 /\ rd' \in Cell /\ held' \in 0 .. CountMod - 1
        /\ Cursors' /\ CountAccounts'
    BY <1>1, SteppedOver
  <1>3. Types'
    BY <1>1, <1>2 DEF i960, staging, filing, streams, IInv, Types, TypeOK, ReceiverTypeOK
  <1> QED
    BY <1>2, <1>3 DEF IInv

LEMMA DispatchDoneKeeps ==
  ASSUME IInv, DispatchDone
  PROVE  IInv'
  <1>1. /\ phase = "dispatch" /\ pending = 0 /\ phase' = "maintain"
        /\ UNCHANGED <<i960, staging, filing, rd, streams, call, report, history>>
    BY DEF DispatchDone
  <1>2. Types'
    BY <1>1 DEF i960, staging, filing, streams, call, report, history, IInv, Types, TypeOK,
                ReceiverTypeOK, Phase
  <1>3. Backlog' = Backlog /\ Backlog = emitted
    <2>1. (emitted + 0) % RingSlots = emitted
      <3>1. emitted + 0 = emitted /\ emitted \in 0 .. RingSlots - 1
        BY Numbers DEF IInv, Types, Cell
      <3> QED
        BY <3>1, Widths, ModSmall
    <2> QED
      BY <1>1, <2>1 DEF IInv, Cursors, Dispatching, Backlog, filing
  <1>4. Cursors' /\ CountAccounts'
    BY <1>1, <1>3 DEF IInv, Cursors, Filing, Dispatching, Settled, CountAccounts, filing, history
  <1> QED
    BY <1>2, <1>4 DEF IInv

(* A stream's packets into the ring, with room for them in the count.       *)
LEMMA EmitKeeps ==
  ASSUME IInv, NEW i \in Armed, Emit(i), ~Refused, ~Skipped, rd' = rd, held' = held
  PROVE  /\ ring' \in [Cell -> Entry] /\ wr' \in Cell /\ cnt' \in 0 .. CountMod - 1
         /\ emitted' \in Cell /\ stream' \in [Records -> Kind]
         /\ (phase = "maintain" => Backlog' = emitted')
         /\ CountAccounts'
  <1> DEFINE n == Packets(i)
  <1>1. i \in Records /\ stream \in [Records -> Kind]
    BY DEF Armed, IInv, Types, TypeOK
  <1>2. n \in Nat
    BY PumpAssumption DEF Packets
  <1>3. Admitted(i)
    BY DEF Refused
  <1>4. cnt <= CountMod - 1 - n
    BY <1>3 DEF Admitted
  <1>5. /\ ring' = [c \in Cell |-> IF (c - wr) % RingSlots < n
                                     THEN StreamPacket(stream[i], (c - wr) % RingSlots)
                                     ELSE ring[c]]
        /\ wr' = (wr + n) % RingSlots /\ cnt' = cnt + n
        /\ emitted' = (emitted + n) % RingSlots
        /\ stream' = [stream EXCEPT ![i] = "free"]
    BY DEF Emit
  <1> HIDE DEF n
  <1>6. /\ wr \in Int /\ cnt \in 0 .. CountMod - 1 /\ cnt \in Int
        /\ emitted \in Int /\ held \in 0 .. CountMod - 1 /\ held \in Int
        /\ ring \in [Cell -> Entry]
    BY Numbers DEF IInv, Types, TypeOK, ReceiverTypeOK
  <1>7. ring' \in [Cell -> Entry]
    <2>1. ASSUME NEW k \in Int PROVE StreamPacket(stream[i], k) \in Entry
      <3>1. k % 6 \in 0 .. 5
        BY <2>1
      <3>2. 185 + (k % 6) \in 0 .. 255
        BY <3>1
      <3> QED
        BY <3>2 DEF StreamPacket, Entry
    <2>2. ASSUME NEW c \in Cell PROVE (c - wr) % RingSlots \in Int
      <3>1. c - wr \in Int
        BY <1>6, Widths DEF Cell
      <3> QED
        BY <3>1, Widths, ModRange
    <2> QED
      BY <1>5, <1>6, <2>1, <2>2
  <1>8. wr' \in Cell /\ emitted' \in Cell
    <2>1. wr + n \in Int /\ emitted + n \in Int
      BY <1>2, <1>6
    <2> QED
      BY <1>5, <2>1, Widths, ModRange DEF Cell
  <1>9. cnt' \in 0 .. CountMod - 1
    BY <1>2, <1>4, <1>5, <1>6, Widths
  <1>10. stream' \in [Records -> Kind]
    BY <1>1, <1>5 DEF Kind
  <1>11. Backlog' = (Backlog + n) % RingSlots
    BY <1>2, <1>5, Forward DEF IInv
  <1>12. phase = "maintain" => Backlog' = emitted'
    BY <1>5, <1>11 DEF IInv, Cursors, Settled
  <1>13. CountAccounts'
    <2>1. held' = (held + 0) % CountMod
      <3>1. held + 0 = held
        BY <1>6
      <3> QED
        BY <1>6, <3>1, Widths, ModSmall
    <2>2. n \in Int
      BY <1>2
    <2>3. (Backlog' + held') % CountMod = (cnt + (n + 0)) % CountMod
      BY <1>11, <2>1, <2>2, Accounted DEF IInv
    <2>4. cnt + (n + 0) = cnt'
      BY <1>5, <1>6, <2>2
    <2>5. cnt' % CountMod = cnt'
      BY <1>9, Widths, ModSmall
    <2> QED
      BY <2>3, <2>4, <2>5 DEF CountAccounts
  <1> QED
    BY <1>5, <1>7, <1>8, <1>9, <1>10, <1>12, <1>13

LEMMA MaintainKeeps ==
  ASSUME IInv, Maintain
  PROVE  IInv'
  <1>1. /\ phase = "maintain" /\ phase' = "game"
        /\ UNCHANGED <<i960, staging, rd, call, report, offered, held>>
    BY DEF Maintain
  <1>2. ASSUME UNCHANGED <<filing, emitted>>,
               music' \in BOOLEAN, reload' \in 0 .. 255, beat' \in 0 .. 255,
               stream' \in [Records -> Kind]
        PROVE  IInv'
    <2>1. Types'
      BY <1>1, <1>2 DEF i960, staging, filing, call, report, IInv, Types, TypeOK,
                        ReceiverTypeOK, Phase
    <2>2. Cursors' /\ CountAccounts'
      BY <1>1, <1>2 DEF IInv, Cursors, Filing, Dispatching, Settled, CountAccounts,
                        Backlog, filing
    <2> QED
      BY <2>1, <2>2 DEF IInv
  <1>3. /\ music \in BOOLEAN /\ reload \in 0 .. 255 /\ beat \in 0 .. 255
        /\ stream \in [Records -> Kind]
    BY DEF IInv, Types, TypeOK
  <1>4. CASE UNCHANGED <<filing, streams, emitted>>
    BY <1>2, <1>3, <1>4 DEF streams
  <1>5. CASE MaintainTick
    <2>1. /\ ~Skipped /\ ~Refused /\ music' = music /\ reload' = reload
          /\ beat' = (IF reload # 0 THEN (beat - 1) % 256 ELSE beat)
      BY <1>5 DEF MaintainTick
    <2>2. beat' \in 0 .. 255
      <3>1. (beat - 1) % 256 \in 0 .. 256 - 1
        <4>1. beat - 1 \in Int
          BY <1>3
        <4> QED
          BY <4>1
      <3> QED
        BY <1>3, <2>1, <3>1
    <2>3. CASE UNCHANGED <<filing, stream, emitted>>
      BY <1>2, <1>3, <2>1, <2>2, <2>3
    <2>4. ASSUME NEW i \in Armed, Emit(i) PROVE IInv'
      <3>1. /\ ring' \in [Cell -> Entry] /\ wr' \in Cell /\ cnt' \in 0 .. CountMod - 1
            /\ emitted' \in Cell /\ stream' \in [Records -> Kind]
            /\ Backlog' = emitted' /\ CountAccounts'
        BY <1>1, <2>1, <2>4, EmitKeeps
      <3>2. Types'
        BY <1>1, <1>3, <2>1, <2>2, <3>1 DEF i960, staging, call, report, IInv, Types, TypeOK,
                                            ReceiverTypeOK, Phase
      <3>3. Cursors'
        BY <1>1, <3>1 DEF Cursors, Filing, Dispatching, Settled
      <3> QED
        BY <3>1, <3>2, <3>3 DEF IInv
    <2> QED
      BY <1>5, <2>3, <2>4 DEF MaintainTick
  <1> QED
    BY <1>4, <1>5 DEF Maintain

LEMMA StepIInv == IInv /\ [Next]_vars => IInv'
  <1> SUFFICES ASSUME IInv, [Next]_vars PROVE IInv'
    OBVIOUS
  <1>1. ASSUME NEW w \in Word, GameFiles(w) PROVE IInv'
    BY <1>1, GameFilesKeeps
  <1>2. CASE PumpBegin
    BY <1>2, PumpBeginKeeps
  <1>3. CASE DrainTick
    BY <1>3, DrainTickKeeps
  <1>4. CASE DrainDone
    BY <1>4, DrainDoneKeeps
  <1>5. ASSUME NEW n \in Matching, NEW outcome \in Outcome, DispatchEntry(n, outcome)
        PROVE  IInv'
    BY <1>5, DispatchEntryKeeps
  <1>6. CASE DispatchNothing
    BY <1>6, DispatchNothingKeeps
  <1>7. CASE DispatchDone
    BY <1>7, DispatchDoneKeeps
  <1>8. CASE Maintain
    BY <1>8, MaintainKeeps
  <1>9. CASE UNCHANGED vars
    <2>1. Types'
      BY <1>9 DEF vars, i960, staging, filing, streams, call, report, history, IInv, Types,
                  TypeOK, ReceiverTypeOK
    <2>2. Cursors' /\ CountAccounts'
      BY <1>9 DEF vars, filing, call, history, IInv, Cursors, Filing, Dispatching, Settled,
                  CountAccounts, Backlog, Filed
    <2> QED
      BY <2>1, <2>2 DEF IInv
  <1> QED
    BY <1>1, <1>2, <1>3, <1>4, <1>5, <1>6, <1>7, <1>8, <1>9 DEF Next, PumpStep

LEMMA Invariance == Spec => []IInv
  BY InitIInv, StepIInv, PTL DEF Spec

-------------------------------------------------------------------------------
(* The staged bytes, the cursors and the counts keep their widths, and the  *)
(* stream records their kinds (vf2_session_pump_audio).                     *)
THEOREM TypeCorrect == Spec => []TypeOK
  <1>1. IInv => TypeOK
    BY DEF IInv, Types
  <1> QED
    BY <1>1, Invariance, PTL

(* One cursor step for each entry the receiver filed, whatever the outcome  *)
(* of its dispatch, the tick cap or a refused byte.                         *)
THEOREM OneStep == Spec => []OneStepPerEntry
  <1>1. IInv => OneStepPerEntry
    BY DEF IInv, Cursors, Dispatching, Settled, OneStepPerEntry
  <1> QED
    BY <1>1, Invariance, PTL

(* The board's entry count is the backlog plus what was stepped over        *)
(* without being consumed, modulo its width.                                *)
THEOREM CountIsBacklog == Spec => []CountAccounts
  <1>1. IInv => CountAccounts
    BY DEF IInv
  <1> QED
    BY <1>1, Invariance, PTL

-------------------------------------------------------------------------------
(* From the game's word to the dispatched entry.                            *)

(* The ring file does not look at the room the ring has                     *)
(* (sound_board.c:3899).  It has room while a drain files, and for the      *)
(* stream that a tick is about to emit.                                     *)
Room ==
  /\ phase = "drain" => Backlog + 1 < RingSlots
  /\ phase = "maintain" => \A i \in Armed : Backlog + Packets(i) < RingSlots

(* A word is a command and its data bytes; what follows the one data byte   *)
(* of a short command is ignored or refused.                                *)
Datum  == 0 .. 127 \cup {Reboot}
Silent == System .. 255

Readable(w) ==
  /\ w[2] \in 128 .. System - 1
  /\ w[1] \in Datum
  /\ w[0] \in IF Length(w[2]) = 2 THEN Datum ELSE Silent

(* With room in the ring the cursors are apart by whole numbers, not only   *)
(* modulo its size.                                                         *)
Exact ==
  /\ phase = "drain" => Backlog = emitted + Filed
  /\ phase = "dispatch" => Backlog = emitted + pending

(* The board has staged what it has heard of the word in service.           *)
Staged ==
  /\ current # << >> => need = Length(cmd)
  /\ Len(current) = 2 =>
       /\ left = need
       /\ current[1] \in Datum
       /\ current[2] \in IF need = 2 THEN Datum ELSE Silent
  /\ Len(current) = 1 =>
       IF need = 2 THEN left \in {1, 2} /\ current[1] \in Datum
                   ELSE current[1] \in Silent

PathInv == IInv /\ Exact /\ Staged

(* CommandPath's variables: the words not on the board, and its backlog.    *)
WordPackets(q) == [i \in 1 .. Len(q) |-> Packet(q[i])]
Waits == InService \o WordPackets(queue)
Board == [i \in 1 .. Backlog |-> EntryAt((rd + i - 1) % RingSlots)]

Code == Seq(Byte)                                \* packets

(* InService, with what it depends on as parameters.                        *)
ServiceOf(q, c, a, n, l) ==
  IF l = 2 /\ Len(q) = 2 THEN <<Framed(c, q[1], q[2])>>
  ELSE IF l = 1 /\ n = 1 /\ Len(q) = 2 THEN <<Framed(c, q[1], 0)>>
  ELSE IF l = 1 /\ n = 2 /\ Len(q) = 1 THEN <<Framed(c, a, q[1])>>
  ELSE << >>

-------------------------------------------------------------------------------
(* Sequences.                                                               *)
LEMMA Ahead ==
  ASSUME NEW S, NEW x \in S, NEW s \in Seq(S)
  PROVE  /\ <<x>> \o s \in Seq(S) /\ <<x>> \o s # << >>
         /\ Head(<<x>> \o s) = x /\ Tail(<<x>> \o s) = s
  <1> DEFINE t == <<x>> \o s
  <1>1. <<x>> \in Seq(S) /\ Len(<<x>>) = 1
    OBVIOUS
  <1>2. /\ t \in Seq(S) /\ Len(t) = 1 + Len(s)
        /\ \A i \in 1 .. 1 + Len(s) : t[i] = IF i <= 1 THEN <<x>>[i] ELSE s[i - 1]
    BY <1>1, ConcatProperties
  <1>3. Len(s) \in Nat
    BY LenProperties
  <1> HIDE DEF t
  <1>4. t # << >>
    BY <1>2, <1>3, EmptySeq
  <1>5. /\ Tail(t) \in Seq(S) /\ Len(Tail(t)) = Len(s)
        /\ \A i \in 1 .. Len(Tail(t)) : Tail(t)[i] = t[i + 1]
    BY <1>2, <1>3, <1>4, HeadTailProperties
  <1>6. \A i \in 1 .. Len(s) : Tail(t)[i] = s[i]
    <2>1. ASSUME NEW i \in 1 .. Len(s) PROVE Tail(t)[i] = s[i]
      <3>1. i + 1 \in 1 .. 1 + Len(s) /\ ~ (i + 1 <= 1) /\ (i + 1) - 1 = i
        BY <1>3
      <3>2. t[i + 1] = s[(i + 1) - 1]
        BY <1>2, <3>1
      <3> QED
        BY <1>5, <3>1, <3>2
    <2> QED
      BY <2>1
  <1> DEFINE u == Tail(t)
  <1>7. u \in Seq(S) /\ Len(u) = Len(s) /\ \A i \in 1 .. Len(u) : u[i] = s[i]
    BY <1>5, <1>6
  <1> HIDE DEF u
  <1>8. u = s
    BY <1>7, SeqEqual
  <1>9. Head(t) = x
    <2>1. Head(t) = t[1]
      BY <1>2
    <2>2. 1 \in 1 .. 1 + Len(s)
      BY <1>3
    <2> QED
      BY <1>2, <2>1, <2>2
  <1> QED
    BY <1>2, <1>4, <1>8, <1>9 DEF t, u

LEMMA Behind ==
  ASSUME NEW S, NEW s \in Seq(S), NEW t \in Seq(S), NEW x \in S
  PROVE  s \o Append(t, x) = Append(s \o t, x)
  <1>1. <<x>> \in Seq(S) /\ s \o t \in Seq(S)
    BY ConcatProperties
  <1>2. Append(t, x) = t \o <<x>> /\ Append(s \o t, x) = (s \o t) \o <<x>>
    BY <1>1, AppendIsConcat
  <1> QED
    BY <1>1, <1>2, ConcatAssociative

(* A function on 1 .. n is a sequence, known by its elements.               *)
LEMMA Spelled ==
  ASSUME NEW S, NEW n \in Nat, NEW f \in [1 .. n -> S]
  PROVE  f \in Seq(S) /\ Len(f) = n
  <1>1. f \in Seq(S)
    BY SeqDef
  <1> QED
    BY <1>1

LEMMA FramedType ==
  ASSUME NEW c \in Byte, NEW a \in Byte, NEW v \in Byte
  PROVE  Framed(c, a, v) \in Code
  BY DEF Framed, Code

LEMMA PacketType ==
  ASSUME NEW w \in Word
  PROVE  Packet(w) \in Code /\ w[0] \in Byte /\ w[1] \in Byte /\ w[2] \in Byte
  <1>1. w \in [0 .. 2 -> 0 .. 255]
    BY PumpAssumption
  <1>2. w[0] \in Byte /\ w[1] \in Byte /\ w[2] \in Byte
    BY <1>1 DEF Byte
  <1> QED
    BY <1>2, FramedType DEF Packet

LEMMA PacketsType ==
  ASSUME NEW q \in Seq(Word)
  PROVE  /\ WordPackets(q) \in Seq(Code) /\ Len(WordPackets(q)) = Len(q)
         /\ \A i \in 1 .. Len(q) : WordPackets(q)[i] = Packet(q[i])
  <1> DEFINE n == Len(q)
             f == [i \in 1 .. n |-> Packet(q[i])]
  <1>1. n \in Nat /\ \A i \in 1 .. n : q[i] \in Word
    BY LenProperties
  <1>2. \A i \in 1 .. n : Packet(q[i]) \in Code
    BY <1>1, PacketType
  <1>3. WordPackets(q) = f
    BY DEF WordPackets
  <1> HIDE DEF n
  <1>4. f \in [1 .. n -> Code] /\ \A i \in 1 .. n : f[i] = Packet(q[i])
    BY <1>2
  <1> HIDE DEF f
  <1>5. f \in Seq(Code) /\ Len(f) = n
    BY <1>1, <1>4, Spelled
  <1> QED
    BY <1>3, <1>4, <1>5 DEF n

(* The oldest word leaves, and a new one joins.                             *)
LEMMA PacketsTail ==
  ASSUME NEW q \in Seq(Word), q # << >>
  PROVE  WordPackets(q) = <<Packet(Head(q))>> \o WordPackets(Tail(q))
  <1> DEFINE h == Packet(Head(q))
             t == WordPackets(Tail(q))
             p == WordPackets(q)
             r == <<h>> \o t
             n == Len(q)
             u == Tail(q)
  <1>1. /\ Head(q) \in Word /\ Head(q) = q[1]
        /\ u \in Seq(Word) /\ Len(u) = n - 1
        /\ \A i \in 1 .. n - 1 : u[i] = q[i + 1]
    BY HeadTailProperties
  <1>2. n \in Nat /\ n # 0
    BY EmptySeq, LenProperties
  <1>3. h \in Code
    BY <1>1, PacketType
  <1> HIDE DEF u, n
  <1>4. /\ WordPackets(u) \in Seq(Code) /\ Len(WordPackets(u)) = n - 1
        /\ \A i \in 1 .. n - 1 : WordPackets(u)[i] = Packet(q[i + 1])
    BY <1>1, PacketsType
  <1>5. /\ p \in Seq(Code) /\ Len(p) = n
        /\ \A i \in 1 .. n : p[i] = Packet(q[i])
    BY PacketsType DEF n
  <1>6. h = Packet(q[1])
    BY <1>1
  <1>7. /\ t \in Seq(Code) /\ Len(t) = n - 1
        /\ \A i \in 1 .. n - 1 : t[i] = Packet(q[i + 1])
    BY <1>4 DEF u
  <1> HIDE DEF h, t, p
  <1>8. <<h>> \in Seq(Code) /\ Len(<<h>>) = 1
    BY <1>3
  <1>9. /\ r \in Seq(Code) /\ Len(r) = 1 + (n - 1)
        /\ \A i \in 1 .. 1 + (n - 1) : r[i] = IF i <= 1 THEN <<h>>[i] ELSE t[i - 1]
    BY <1>7, <1>8, ConcatProperties
  <1> HIDE DEF r
  <1>10. ASSUME NEW i \in 1 .. Len(p) PROVE p[i] = r[i]
    <2>1. i \in 1 .. n /\ i \in 1 .. 1 + (n - 1) /\ p[i] = Packet(q[i])
      BY <1>2, <1>5, <1>10
    <2>2. CASE i = 1
      BY <1>6, <1>9, <2>1, <2>2
    <2>3. CASE i # 1
      <3>1. ~ (i <= 1) /\ i - 1 \in 1 .. n - 1 /\ (i - 1) + 1 = i
        BY <1>2, <2>1, <2>3
      <3>2. t[i - 1] = Packet(q[(i - 1) + 1])
        BY <1>7, <3>1
      <3> QED
        BY <1>9, <2>1, <3>1, <3>2
    <2> QED
      BY <2>2, <2>3
  <1>11. Len(p) = Len(r)
    BY <1>2, <1>5, <1>9
  <1>12. p = r
    BY <1>5, <1>9, <1>10, <1>11, SeqEqual
  <1> QED
    BY <1>12 DEF p, r, h, t

LEMMA PacketsAppend ==
  ASSUME NEW q \in Seq(Word), NEW w \in Word
  PROVE  WordPackets(Append(q, w)) = Append(WordPackets(q), Packet(w))
  <1> DEFINE a == Append(q, w)
             x == Packet(w)
             p == WordPackets(q)
             r == WordPackets(a)
             s == Append(p, x)
             n == Len(q)
  <1>1. /\ a \in Seq(Word) /\ Len(a) = n + 1 /\ a[n + 1] = w
        /\ \A i \in 1 .. n : a[i] = q[i]
    OBVIOUS
  <1>2. n \in Nat
    BY LenProperties
  <1>3. /\ p \in Seq(Code) /\ Len(p) = n /\ \A i \in 1 .. n : p[i] = Packet(q[i])
    BY PacketsType
  <1> HIDE DEF a
  <1>4. /\ r \in Seq(Code) /\ Len(r) = n + 1 /\ \A i \in 1 .. n + 1 : r[i] = Packet(a[i])
    BY <1>1, PacketsType
  <1>5. x \in Code
    BY PacketType
  <1> HIDE DEF p, r, x
  <1>6. /\ s \in Seq(Code) /\ Len(s) = n + 1 /\ s[n + 1] = x
        /\ \A i \in 1 .. n : s[i] = p[i]
    BY <1>3, <1>5
  <1> HIDE DEF s, n
  <1>7. ASSUME NEW i \in 1 .. Len(r) PROVE r[i] = s[i]
    <2>1. i \in 1 .. n + 1
      BY <1>4
    <2>2. CASE i = n + 1
      BY <1>1, <1>4, <1>6, <2>1, <2>2 DEF x
    <2>3. CASE i # n + 1
      <3>1. i \in 1 .. n
        BY <1>2, <2>1, <2>3
      <3> QED
        BY <1>1, <1>3, <1>4, <1>6, <2>1, <3>1
    <2> QED
      BY <2>2, <2>3
  <1>8. r = s
    BY <1>4, <1>6, <1>7, SeqEqual
  <1> QED
    BY <1>8 DEF r, s, a, p, x

-------------------------------------------------------------------------------
(* The ring as the dispatch will read it.                                   *)

(* How far the j-th entry of the backlog lies from the write cursor.        *)
LEMMA CellGap ==
  ASSUME Types, NEW j \in Int
  PROVE  /\ (rd + j) % RingSlots \in Cell
         /\ (((rd + j) % RingSlots) - wr) % RingSlots = (j - Backlog) % RingSlots
  <1>1. wr \in Int /\ rd \in Int /\ Backlog \in Int
    BY Numbers
  <1> DEFINE a == rd + j
             b == wr - rd
             k == b \div RingSlots
             c == -wr
             x == a + c
             y == j - Backlog
  <1>2. a \in Int /\ b \in Int /\ c \in Int /\ x \in Int /\ y \in Int
    BY <1>1
  <1>3. k \in Int /\ b = RingSlots * k + (b % RingSlots)
    <2> HIDE DEF b
    <2> QED
      BY <1>2, Widths, ModRange, ModSplit
  <1>4. b % RingSlots = Backlog
    BY DEF Backlog
  <1> HIDE DEF k
  <1>5. y = RingSlots * k + x
    <2>1. RingSlots * k \in Int
      BY <1>3, Widths
    <2>2. wr - rd = RingSlots * k + Backlog
      BY <1>3, <1>4
    <2> QED
      BY <1>1, <2>1, <2>2
  <1>6. (a % RingSlots) - wr = (a % RingSlots) + c /\ a % RingSlots \in Cell
    <2>1. a % RingSlots \in Cell /\ a % RingSlots \in Int
      <3> HIDE DEF a
      <3> QED
        BY <1>2, Widths, ModRange DEF Cell
    <2> QED
      BY <1>1, <2>1
  <1> HIDE DEF a, c, x, y
  <1>7. ((a % RingSlots) + c) % RingSlots = (a + c) % RingSlots
    BY <1>2, Widths, ModAdd
  <1>8. y % RingSlots = x % RingSlots
    BY <1>2, <1>3, <1>5, Widths, ModTurns
  <1> QED
    BY <1>6, <1>7, <1>8 DEF a, c, x, y

(* The write cursor is one past the backlog.                                *)
LEMMA CellNext ==
  ASSUME Types
  PROVE  wr = (rd + Backlog) % RingSlots
  <1>1. wr \in Int /\ rd \in Int /\ Backlog \in Int /\ wr \in 0 .. RingSlots - 1
    BY Numbers DEF Types, TypeOK, ReceiverTypeOK, Cell
  <1> DEFINE b == wr - rd
             c == rd
  <1>2. ((b % RingSlots) + c) % RingSlots = (b + c) % RingSlots
    <2>1. b \in Int /\ c \in Int
      BY <1>1
    <2> HIDE DEF b, c
    <2> QED
      BY <2>1, Widths, ModAdd
  <1>3. b + c = wr
    BY <1>1
  <1>4. wr % RingSlots = wr
    BY <1>1, Widths, ModSmall
  <1>5. b % RingSlots = Backlog
    BY DEF Backlog
  <1> HIDE DEF b
  <1>6. (Backlog + c) % RingSlots = wr
    BY <1>2, <1>3, <1>4, <1>5
  <1>7. Backlog + c = rd + Backlog
    BY <1>1
  <1> HIDE DEF c
  <1> QED
    BY <1>6, <1>7

(* The cells of the backlog lie behind the write cursor, the free ones in   *)
(* front of it.                                                             *)
LEMMA CellBehind ==
  ASSUME Types, NEW i \in 1 .. Backlog
  PROVE  /\ (rd + i - 1) % RingSlots \in Cell
         /\ (((rd + i - 1) % RingSlots) - wr) % RingSlots = (RingSlots - Backlog) + (i - 1)
  <1>1. rd \in Int /\ Backlog \in 0 .. RingSlots - 1 /\ i \in Int
    BY Numbers DEF Cell
  <1> DEFINE j == i - 1
             y == j - Backlog
             z == (RingSlots - Backlog) + j
             k == 1
  <1>2. rd + i - 1 = rd + j /\ j \in Int
    BY <1>1
  <1>3. y \in Int /\ z \in 0 .. RingSlots - 1 /\ k \in Int /\ z = RingSlots * k + y
    BY <1>1, Widths
  <1> HIDE DEF j, y, z, k
  <1>4. z % RingSlots = y % RingSlots
    BY <1>3, Widths, ModTurns
  <1>5. z % RingSlots = z
    BY <1>3, Widths, ModSmall
  <1>6. /\ (rd + j) % RingSlots \in Cell
        /\ (((rd + j) % RingSlots) - wr) % RingSlots = y % RingSlots
    BY <1>2, CellGap DEF y
  <1> QED
    BY <1>2, <1>4, <1>5, <1>6 DEF z, j

LEMMA CellAhead ==
  ASSUME Types, NEW k \in Nat, Backlog + k < RingSlots
  PROVE  /\ (rd + Backlog + k) % RingSlots \in Cell
         /\ (((rd + Backlog + k) % RingSlots) - wr) % RingSlots = k
  <1>1. rd \in Int /\ Backlog \in 0 .. RingSlots - 1
    BY Numbers DEF Cell
  <1> DEFINE j == Backlog + k
  <1>2. rd + Backlog + k = rd + j /\ j \in Int /\ j - Backlog = k
    BY <1>1
  <1>3. k \in 0 .. RingSlots - 1
    BY <1>1, Widths
  <1>4. k % RingSlots = k
    BY <1>3, Widths, ModSmall
  <1> HIDE DEF j
  <1>5. /\ (rd + j) % RingSlots \in Cell
        /\ (((rd + j) % RingSlots) - wr) % RingSlots = (j - Backlog) % RingSlots
    BY <1>2, CellGap
  <1> QED
    BY <1>2, <1>4, <1>5

(* The n entries from cell r on of ring R.                                  *)
Told(e) == Framed(e.cmd, e.arg, e.val)
Laid(R, r, n) == [i \in 1 .. n |-> Told(R[(r + i - 1) % RingSlots])]

LEMMA BoardLaid ==
  /\ Board = Laid(ring, rd, Backlog)
  /\ Board' = Laid(ring', rd', Backlog')
  BY DEF Board, Laid, EntryAt, Told

LEMMA ToldType ==
  ASSUME NEW e \in Entry
  PROVE  Told(e) \in Code
  <1>1. e.cmd \in Byte /\ e.arg \in Byte /\ e.val \in Byte
    BY DEF Entry, Byte
  <1> QED
    BY <1>1, FramedType DEF Told

LEMMA LaidType ==
  ASSUME NEW R \in [Cell -> Entry], NEW r \in Int, NEW n \in Nat
  PROVE  /\ Laid(R, r, n) \in Seq(Code) /\ Len(Laid(R, r, n)) = n
         /\ \A i \in 1 .. n : Laid(R, r, n)[i] = Told(R[(r + i - 1) % RingSlots])
  <1> DEFINE f == Laid(R, r, n)
  <1>1. ASSUME NEW i \in 1 .. n PROVE Told(R[(r + i - 1) % RingSlots]) \in Code
    <2>1. r + i - 1 \in Int
      OBVIOUS
    <2>2. (r + i - 1) % RingSlots \in Cell
      BY <2>1, Widths, ModRange DEF Cell
    <2> QED
      BY <2>2, ToldType
  <1>2. f = [i \in 1 .. n |-> Told(R[(r + i - 1) % RingSlots])]
    BY DEF Laid
  <1>3. f \in [1 .. n -> Code] /\ \A i \in 1 .. n : f[i] = Told(R[(r + i - 1) % RingSlots])
    BY <1>1, <1>2
  <1> HIDE DEF f
  <1>4. f \in Seq(Code) /\ Len(f) = n
    BY <1>3, Spelled
  <1> QED
    BY <1>3, <1>4 DEF f

(* A ring that keeps the first n entries and has the packets b behind them. *)
LEMMA LaidBurst ==
  ASSUME NEW R \in [Cell -> Entry], NEW T \in [Cell -> Entry], NEW r \in Int, NEW n \in Nat,
         NEW b \in Seq(Code),
         \A i \in 1 .. n : T[(r + i - 1) % RingSlots] = R[(r + i - 1) % RingSlots],
         \A k \in 1 .. Len(b) : Told(T[(r + n + (k - 1)) % RingSlots]) = b[k]
  PROVE  Laid(T, r, n + Len(b)) = Laid(R, r, n) \o b
  <1> DEFINE m == Len(b)
             f == Laid(R, r, n)
             g == Laid(T, r, n + m)
             h == f \o b
  <1>1. m \in Nat
    BY LenProperties
  <1>2. \A k \in 1 .. m : Told(T[(r + n + (k - 1)) % RingSlots]) = b[k]
    OBVIOUS
  <1>3. b \in Seq(Code) /\ Len(b) = m
    OBVIOUS
  <1> HIDE DEF m
  <1>4. n + m \in Nat
    BY <1>1
  <1>5. /\ f \in Seq(Code) /\ Len(f) = n
        /\ \A i \in 1 .. n : f[i] = Told(R[(r + i - 1) % RingSlots])
    BY LaidType
  <1>6. /\ g \in Seq(Code) /\ Len(g) = n + m
        /\ \A i \in 1 .. n + m : g[i] = Told(T[(r + i - 1) % RingSlots])
    BY <1>4, LaidType
  <1> HIDE DEF f, g
  <1>7. /\ h \in Seq(Code) /\ Len(h) = n + m
        /\ \A i \in 1 .. n + m : h[i] = IF i <= n THEN f[i] ELSE b[i - n]
    BY <1>3, <1>5, ConcatProperties
  <1> HIDE DEF h
  <1>8. ASSUME NEW i \in 1 .. Len(g) PROVE g[i] = h[i]
    <2>1. i \in 1 .. n + m /\ g[i] = Told(T[(r + i - 1) % RingSlots])
      BY <1>6, ZenonT(60)
    <2>2. CASE i <= n
      <3>1. i \in 1 .. n
        BY <2>1, <2>2
      <3>2. T[(r + i - 1) % RingSlots] = R[(r + i - 1) % RingSlots]
        BY <3>1
      <3> QED
        BY <1>5, <1>7, <2>1, <2>2, <3>1, <3>2
    <2>3. CASE ~ (i <= n)
      <3> DEFINE k == i - n
      <3>1. k \in 1 .. m /\ r + n + (k - 1) = r + i - 1
        BY <1>1, <2>1, <2>3
      <3> HIDE DEF k
      <3>2. Told(T[(r + n + (k - 1)) % RingSlots]) = b[k]
        BY <1>2, <3>1
      <3>3. h[i] = b[k]
        BY <1>7, <2>1, <2>3 DEF k
      <3> QED
        BY <2>1, <3>1, <3>2, <3>3
    <2> QED
      BY <2>2, <2>3
  <1>9. g = h
    BY <1>6, <1>7, <1>8, SeqEqual
  <1> QED
    BY <1>9 DEF g, h, f, m

LEMMA LaidTail ==
  ASSUME NEW R \in [Cell -> Entry], NEW r \in Int, NEW n \in Nat, n # 0
  PROVE  /\ Laid(R, r, n) # << >>
         /\ Laid(R, (r + 1) % RingSlots, n - 1) = Tail(Laid(R, r, n))
  <1> DEFINE f == Laid(R, r, n)
             s == (r + 1) % RingSlots
             g == Laid(R, s, n - 1)
             t == Tail(f)
  <1>1. n - 1 \in Nat
    OBVIOUS
  <1>2. s \in Int
    <2>1. r + 1 \in Int
      OBVIOUS
    <2> QED
      BY <2>1, Widths, ModRange
  <1>3. /\ f \in Seq(Code) /\ Len(f) = n
        /\ \A i \in 1 .. n : f[i] = Told(R[(r + i - 1) % RingSlots])
    BY LaidType
  <1>4. \A i \in 1 .. n - 1 : (s + i - 1) % RingSlots = (r + (i + 1) - 1) % RingSlots
    <2>1. ASSUME NEW i \in 1 .. n - 1
          PROVE  (s + i - 1) % RingSlots = (r + (i + 1) - 1) % RingSlots
      <3> DEFINE x == r + 1
                 y == i - 1
      <3>1. x \in Int /\ y \in Int
        OBVIOUS
      <3>2. ((x % RingSlots) + y) % RingSlots = (x + y) % RingSlots
        <4> HIDE DEF x, y
        <4> QED
          BY <3>1, Widths, ModAdd
      <3>3. x + y = r + (i + 1) - 1
        OBVIOUS
      <3>4. s + i - 1 = (x % RingSlots) + y
        <4>1. s = x % RingSlots
          OBVIOUS
        <4> HIDE DEF s, x
        <4> QED
          BY <1>2, <4>1
      <3> QED
        BY <3>2, <3>3, <3>4
    <2> QED
      BY <2>1
  <1> HIDE DEF s
  <1>5. /\ g \in Seq(Code) /\ Len(g) = n - 1
        /\ \A i \in 1 .. n - 1 : g[i] = Told(R[(s + i - 1) % RingSlots])
    BY <1>1, <1>2, LaidType
  <1> HIDE DEF f, g
  <1>6. f # << >>
    BY <1>3, EmptySeq
  <1>7. /\ t \in Seq(Code) /\ Len(t) = n - 1
        /\ \A i \in 1 .. n - 1 : t[i] = f[i + 1]
    BY <1>3, <1>6, HeadTailProperties
  <1> HIDE DEF t
  <1>8. ASSUME NEW i \in 1 .. Len(g) PROVE g[i] = t[i]
    <2>1. i \in 1 .. n - 1 /\ i + 1 \in 1 .. n
      BY <1>5
    <2>2. f[i + 1] = Told(R[(r + (i + 1) - 1) % RingSlots])
      BY <1>3, <2>1
    <2>3. (s + i - 1) % RingSlots = (r + (i + 1) - 1) % RingSlots
      BY <1>4, <2>1
    <2>4. g[i] = Told(R[(s + i - 1) % RingSlots]) /\ t[i] = f[i + 1]
      BY <1>5, <1>7, <2>1
    <2> QED
      BY <2>2, <2>3, <2>4
  <1>9. g = t
    BY <1>5, <1>7, <1>8, SeqEqual
  <1> QED
    BY <1>6, <1>9 DEF f, g, s, t

-------------------------------------------------------------------------------
LEMMA BoardKept ==
  ASSUME UNCHANGED filing, rd' = rd
  PROVE  Board' = Board /\ Backlog' = Backlog
  BY DEF filing, Board, Backlog, EntryAt

(* Room for k more entries: the backlog grows by them.                      *)
LEMMA Grown ==
  ASSUME Types, NEW k \in Nat, wr' = (wr + k) % RingSlots, rd' = rd,
         Backlog + k < RingSlots
  PROVE  Backlog' = Backlog + k
  <1>1. Backlog \in 0 .. RingSlots - 1
    BY Numbers DEF Cell
  <1>2. Backlog' = (Backlog + k) % RingSlots
    BY Forward
  <1> DEFINE s == Backlog + k
  <1>3. s \in 0 .. RingSlots - 1
    BY <1>1, Widths
  <1> HIDE DEF s
  <1>4. s % RingSlots = s
    BY <1>3, Widths, ModSmall
  <1> QED
    BY <1>2, <1>4 DEF s

(* An entry that the ring has room for joins the backlog.                   *)
LEMMA BoardFile ==
  ASSUME Types, NEW e \in Entry, FileEntry(e), rd' = rd, Backlog + 1 < RingSlots
  PROVE  Backlog' = Backlog + 1 /\ Board' = Append(Board, Told(e))
  <1>1. /\ ring \in [Cell -> Entry] /\ wr \in Cell /\ rd \in Int
        /\ Backlog \in Nat
    BY Numbers DEF Types, TypeOK, ReceiverTypeOK, Cell
  <1>2. /\ ring' = [ring EXCEPT ![wr] = e] /\ ring' \in [Cell -> Entry]
        /\ wr' = (wr + 1) % RingSlots
    BY <1>1 DEF FileEntry, NextCell
  <1>3. Backlog' = Backlog + 1
    BY <1>2, Grown
  <1> DEFINE n == Backlog
             b == <<Told(e)>>
  <1>4. b \in Seq(Code) /\ Len(b) = 1 /\ b[1] = Told(e)
    BY ToldType
  <1>5. \A i \in 1 .. n : ring'[(rd + i - 1) % RingSlots] = ring[(rd + i - 1) % RingSlots]
    <2>1. ASSUME NEW i \in 1 .. n
          PROVE  ring'[(rd + i - 1) % RingSlots] = ring[(rd + i - 1) % RingSlots]
      <3> DEFINE c == (rd + i - 1) % RingSlots
      <3>1. c \in Cell /\ (c - wr) % RingSlots = (RingSlots - Backlog) + (i - 1)
        BY CellBehind
      <3> HIDE DEF c
      <3>2. c # wr
        <4>1. 0 % RingSlots = 0
          BY Widths, ModSmall
        <4>2. c = wr => c - wr = 0
          BY <1>1, <3>1 DEF Cell
        <4>3. (RingSlots - Backlog) + (i - 1) # 0
          BY <1>1, Widths
        <4> QED
          BY <3>1, <4>1, <4>2, <4>3
      <3>3. ring'[c] = ring[c]
        BY <1>1, <1>2, <3>1, <3>2
      <3> QED
        BY <3>3 DEF c
    <2> QED
      BY <2>1
  <1>6. \A k \in 1 .. Len(b) : Told(ring'[(rd + n + (k - 1)) % RingSlots]) = b[k]
    <2>1. rd + n + (1 - 1) = rd + n
      BY <1>1
    <2>2. wr = (rd + n) % RingSlots
      BY CellNext
    <2>3. ring'[wr] = e
      BY <1>1, <1>2
    <2> HIDE DEF b, n
    <2>4. Told(ring'[(rd + n + (1 - 1)) % RingSlots]) = b[1]
      BY <1>4, <2>1, <2>2, <2>3
    <2>5. \A k \in 1 .. Len(b) : k = 1
      BY <1>4
    <2> QED
      BY <2>4, <2>5
  <1> HIDE DEF b
  <1>7. Laid(ring', rd, n + Len(b)) = Laid(ring, rd, n) \o b
    <2> HIDE DEF n
    <2>1. n \in Nat /\ rd \in Int /\ ring \in [Cell -> Entry] /\ b \in Seq(Code)
      BY <1>1, <1>4 DEF n
    <2>2. ring' \in [Cell -> Entry]
      BY <1>2
    <2> QED
      BY <1>5, <1>6, <2>1, <2>2, LaidBurst
  <1>8. Board = Laid(ring, rd, n) /\ Board' = Laid(ring', rd, n + Len(b))
    BY <1>3, <1>4, BoardLaid
  <1>9. Board \in Seq(Code) /\ Told(e) \in Code
    BY <1>1, <1>8, LaidType, ToldType
  <1>10. Append(Board, Told(e)) = Board \o <<Told(e)>>
    BY <1>9, AppendIsConcat
  <1> QED
    BY <1>3, <1>7, <1>8, <1>10 DEF b

(* A dispatch steps over the oldest entry.                                  *)
LEMMA BoardTake ==
  ASSUME Types, Backlog # 0, ring' = ring, wr' = wr, rd' = NextCell(rd)
  PROVE  Backlog' = Backlog - 1 /\ Board # << >> /\ Board' = Tail(Board)
  <1>1. /\ ring \in [Cell -> Entry] /\ rd \in Int
        /\ Backlog \in Nat /\ Backlog \in 0 .. RingSlots - 1
    BY Numbers, Widths DEF Types, TypeOK, ReceiverTypeOK, Cell
  <1>2. Backlog' = (Backlog + (-1)) % RingSlots
    BY Taken
  <1> DEFINE n == Backlog
             s == n + (-1)
  <1>3. s \in 0 .. RingSlots - 1 /\ s = n - 1
    BY <1>1, Widths
  <1>4. n \in Nat /\ n # 0
    BY <1>1
  <1> HIDE DEF n, s
  <1>5. s % RingSlots = s
    BY <1>3, Widths, ModSmall
  <1>6. Backlog' = n - 1
    BY <1>2, <1>3, <1>5 DEF n, s
  <1>7. /\ Laid(ring, rd, n) # << >>
        /\ Laid(ring, (rd + 1) % RingSlots, n - 1) = Tail(Laid(ring, rd, n))
    BY <1>1, <1>4, LaidTail
  <1>8. Board = Laid(ring, rd, n) /\ Board' = Laid(ring, (rd + 1) % RingSlots, n - 1)
    BY <1>6, BoardLaid DEF n, NextCell
  <1> QED
    BY <1>6, <1>7, <1>8 DEF n

LEMMA PacketEntry ==
  ASSUME NEW kind, NEW k \in Nat
  PROVE  StreamPacket(kind, k) \in Entry
  <1> DEFINE m == k % 6
  <1>1. m \in 0 .. 5
    BY ModRange
  <1>2. 185 + m \in 0 .. 255
    BY <1>1
  <1> DEFINE p == 185 + m
  <1> HIDE DEF m
  <1>3. CASE kind = "long"
    <2>1. StreamPacket(kind, k) = [cmd |-> p, arg |-> IF k < 6 THEN 42 ELSE 7,
                                   val |-> IF k < 6 THEN 0 ELSE 127]
      BY <1>3 DEF StreamPacket, m
    <2> HIDE DEF p
    <2> QED
      BY <1>2, <2>1 DEF Entry, p
  <1>4. CASE kind # "long"
    BY <1>4 DEF StreamPacket, Entry
  <1> QED
    BY <1>3, <1>4

LEMMA BurstType ==
  ASSUME NEW kind, NEW n \in Nat
  PROVE  /\ StreamBurst(kind, n) \in Seq(Code) /\ Len(StreamBurst(kind, n)) = n
         /\ \A k \in 1 .. n : StreamBurst(kind, n)[k] = Told(StreamPacket(kind, k - 1))
  <1> DEFINE f == StreamBurst(kind, n)
  <1>1. ASSUME NEW k \in 1 .. n PROVE Told(StreamPacket(kind, k - 1)) \in Code
    <2>1. k - 1 \in Nat
      OBVIOUS
    <2> QED
      BY <2>1, PacketEntry, ToldType
  <1>2. f = [k \in 1 .. n |-> Told(StreamPacket(kind, k - 1))]
    BY DEF StreamBurst, Told
  <1>3. f \in [1 .. n -> Code] /\ \A k \in 1 .. n : f[k] = Told(StreamPacket(kind, k - 1))
    BY <1>1, <1>2
  <1> HIDE DEF f
  <1>4. f \in Seq(Code) /\ Len(f) = n
    BY <1>3, Spelled
  <1> QED
    BY <1>3, <1>4 DEF f

(* A stream that the ring has room for joins the backlog.                   *)
LEMMA BoardBurst ==
  ASSUME Types, NEW i \in Armed, Emit(i), ring' \in [Cell -> Entry], rd' = rd,
         Backlog + Packets(i) < RingSlots
  PROVE  Board' = Board \o StreamBurst(stream[i], Packets(i))
  <1> DEFINE p == Packets(i)
             kind == stream[i]
             n == Backlog
             b == StreamBurst(kind, p)
  <1>1. /\ ring \in [Cell -> Entry] /\ wr \in Cell /\ rd \in Int
        /\ n \in Nat /\ n \in 0 .. RingSlots - 1
    BY Numbers, Widths DEF Types, TypeOK, ReceiverTypeOK, Cell
  <1>2. p \in Nat
    BY PumpAssumption DEF Packets
  <1>3. /\ ring' = [c \in Cell |-> IF (c - wr) % RingSlots < p
                                     THEN StreamPacket(kind, (c - wr) % RingSlots)
                                     ELSE ring[c]]
        /\ wr' = (wr + p) % RingSlots
    BY DEF Emit
  <1>4. n + p < RingSlots
    OBVIOUS
  <1>5. Backlog' = n + p
    <2> HIDE DEF p
    <2> QED
      BY <1>2, <1>3, <1>4, Grown DEF n
  <1>6. /\ b \in Seq(Code) /\ Len(b) = p
        /\ \A k \in 1 .. p : b[k] = Told(StreamPacket(kind, k - 1))
    <2> HIDE DEF p, kind
    <2> QED
      BY <1>2, BurstType
  <1> HIDE DEF p, kind, b
  <1>7. \A j \in 1 .. n : ring'[(rd + j - 1) % RingSlots] = ring[(rd + j - 1) % RingSlots]
    <2>1. ASSUME NEW j \in 1 .. n
          PROVE  ring'[(rd + j - 1) % RingSlots] = ring[(rd + j - 1) % RingSlots]
      <3> DEFINE c == (rd + j - 1) % RingSlots
      <3>1. c \in Cell /\ (c - wr) % RingSlots = (RingSlots - n) + (j - 1)
        BY CellBehind
      <3> HIDE DEF c
      <3>2. ~ ((c - wr) % RingSlots < p)
        <4> HIDE DEF n
        <4> QED
          BY <1>1, <1>2, <1>4, <3>1, Widths
      <3>3. ring'[c] = ring[c]
        BY <1>3, <3>1, <3>2
      <3> QED
        BY <3>3 DEF c
    <2> QED
      BY <2>1
  <1>8. \A k \in 1 .. Len(b) : Told(ring'[(rd + n + (k - 1)) % RingSlots]) = b[k]
    <2>1. ASSUME NEW k \in 1 .. p
          PROVE  Told(ring'[(rd + n + (k - 1)) % RingSlots]) = b[k]
      <3> DEFINE q == k - 1
                 c == (rd + n + q) % RingSlots
      <3>1. q \in Nat /\ q < p
        BY <1>2
      <3> HIDE DEF q
      <3>2. n + q < RingSlots
        <4> HIDE DEF n
        <4> QED
          BY <1>1, <1>2, <1>4, <3>1, Widths
      <3>3. c \in Cell /\ (c - wr) % RingSlots = q
        BY <3>1, <3>2, CellAhead
      <3> HIDE DEF c
      <3>4. ring'[c] = StreamPacket(kind, q)
        BY <1>3, <3>1, <3>3
      <3>5. Told(ring'[c]) = b[k]
        BY <1>6, <3>4 DEF q
      <3> QED
        BY <3>5 DEF c, q
    <2> QED
      BY <1>6, <2>1
  <1> HIDE DEF n
  <1>9. Laid(ring', rd, n + Len(b)) = Laid(ring, rd, n) \o b
    BY <1>1, <1>6, <1>7, <1>8, LaidBurst
  <1>10. Board = Laid(ring, rd, n) /\ Board' = Laid(ring', rd, n + Len(b))
    BY <1>5, <1>6, BoardLaid DEF n
  <1> QED
    BY <1>9, <1>10 DEF b, kind, p

-------------------------------------------------------------------------------
(* CommandPath's steps, on the words that wait and the board's backlog.     *)
LEMMA ServiceIs ==
  /\ InService = ServiceOf(current, cmd, arg, need, left)
  /\ InService' = ServiceOf(current', cmd', arg', need', left')
  BY DEF InService, ServiceOf

LEMMA ServiceType ==
  ASSUME Types
  PROVE  InService \in Seq(Code)
  <1>1. /\ current \in Seq(Byte) /\ Len(current) \in Nat
        /\ cmd \in Byte /\ arg \in Byte /\ 0 \in Byte
        /\ \A i \in 1 .. Len(current) : current[i] \in Byte
    <2>1. current \in Seq(Byte)
      BY DEF Types
    <2>2. Len(current) \in Nat /\ \A i \in 1 .. Len(current) : current[i] \in Byte
      BY <2>1, LenProperties, ElementOfSeq
    <2> QED
      BY <2>1, <2>2 DEF Types, TypeOK, ReceiverTypeOK, Byte
  <1>2. CASE left = 2 /\ Len(current) = 2
    <2>1. current[1] \in Byte /\ current[2] \in Byte
      BY <1>1, <1>2
    <2>2. Framed(cmd, current[1], current[2]) \in Code
      BY <1>1, <2>1, FramedType
    <2> QED
      BY <1>2, <2>2 DEF InService
  <1>3. CASE ~ (left = 2 /\ Len(current) = 2) /\ left = 1 /\ need = 1 /\ Len(current) = 2
    <2>1. current[1] \in Byte
      BY <1>1, <1>3
    <2>2. Framed(cmd, current[1], 0) \in Code
      BY <1>1, <2>1, FramedType
    <2> QED
      BY <1>3, <2>2 DEF InService
  <1>4. CASE left = 1 /\ need = 2 /\ Len(current) = 1
    <2>1. current[1] \in Byte
      BY <1>1, <1>4
    <2>2. Framed(cmd, arg, current[1]) \in Code
      BY <1>1, <2>1, FramedType
    <2> QED
      BY <1>4, <2>2 DEF InService
  <1>5. CASE /\ ~ (left = 2 /\ Len(current) = 2)
             /\ ~ (left = 1 /\ need = 1 /\ Len(current) = 2)
             /\ ~ (left = 1 /\ need = 2 /\ Len(current) = 1)
    BY <1>5 DEF InService
  <1> QED
    BY <1>2, <1>3, <1>4, <1>5

LEMMA QueueType ==
  ASSUME Types
  PROVE  /\ queue \in Seq(Word) /\ WordPackets(queue) \in Seq(Code)
         /\ InService = << >> => Waits = WordPackets(queue)
  <1>1. queue \in Seq(Word)
    BY DEF Types, TypeOK
  <1>2. WordPackets(queue) \in Seq(Code)
    BY <1>1, PacketsType
  <1>3. << >> \o WordPackets(queue) = WordPackets(queue)
    BY <1>2, ConcatEmptySeq
  <1> QED
    BY <1>1, <1>2, <1>3 DEF Waits

LEMMA QueueNext ==
  ASSUME queue' \in Seq(Word), InService' = << >>
  PROVE  Waits' = WordPackets(queue')
  <1>1. WordPackets(queue') \in Seq(Code)
    BY PacketsType
  <1>2. << >> \o WordPackets(queue') = WordPackets(queue')
    BY <1>1, ConcatEmptySeq
  <1>3. Waits' = InService' \o WordPackets(queue')
    BY DEF Waits, WordPackets
  <1> QED
    BY <1>2, <1>3

LEMMA FileStep ==
  ASSUME Types, NEW p \in Code, InService = <<p>>, InService' = << >>, queue' = queue,
         Board' = Append(Board, p)
  PROVE  Path!File
  <1> DEFINE s == WordPackets(queue)
  <1>1. s \in Seq(Code) /\ queue \in Seq(Word)
    BY QueueType
  <1>2. Waits = <<p>> \o s
    BY DEF Waits
  <1>3. Waits' = s
    BY <1>1, QueueNext
  <1> HIDE DEF s
  <1>4. Waits # << >> /\ Head(Waits) = p /\ Tail(Waits) = s
    BY <1>1, <1>2, Ahead
  <1>5. Waits # << >> /\ Board' = Append(Board, Head(Waits)) /\ Waits' = Tail(Waits)
    BY <1>3, <1>4
  <1> QED
    BY <1>5 DEF Path!File, Waits, WordPackets, Board

LEMMA LoseStep ==
  ASSUME Types, NEW p \in Code, NEW i \in DOMAIN p, p[i] = Reboot,
         InService = <<p>>, InService' = << >>, queue' = queue, Board' = Board
  PROVE  Path!Lose
  <1> DEFINE s == WordPackets(queue)
  <1>1. s \in Seq(Code) /\ queue \in Seq(Word)
    BY QueueType
  <1>2. Waits = <<p>> \o s
    BY DEF Waits
  <1>3. Waits' = s
    BY <1>1, QueueNext
  <1> HIDE DEF s
  <1>4. Waits # << >> /\ Head(Waits) = p /\ Tail(Waits) = s
    BY <1>1, <1>2, Ahead
  <1>5. /\ Waits # << >> /\ Waits' = Tail(Waits)
        /\ \E j \in DOMAIN Head(Waits) : Head(Waits)[j] = Reboot
    BY <1>3, <1>4
  <1> QED
    BY <1>5 DEF Path!Lose, Waits, WordPackets, Board

LEMMA AcceptStep ==
  ASSUME Types, NEW w \in Word, queue' = Append(queue, w), InService' = InService,
         Board' = Board
  PROVE  Path!Accept
  <1> DEFINE p == Packet(w)
             s == WordPackets(queue)
  <1>1. s \in Seq(Code) /\ queue \in Seq(Word) /\ p \in Code /\ InService \in Seq(Code)
    BY QueueType, PacketType, ServiceType
  <1>2. WordPackets(queue') = Append(s, p)
    BY <1>1, PacketsAppend
  <1>3. Waits = InService \o s /\ Waits' = InService' \o WordPackets(queue')
    BY DEF Waits, WordPackets
  <1>4. p \in {Packet(v) : v \in Word}
    OBVIOUS
  <1> HIDE DEF p, s
  <1>5. InService \o Append(s, p) = Append(InService \o s, p)
    BY <1>1, Behind
  <1>6. Waits' = Append(Waits, p)
    BY <1>2, <1>3, <1>5
  <1> QED
    BY <1>4, <1>6 DEF Path!Accept, Waits, WordPackets, Board

LEMMA DispatchStep ==
  ASSUME Board # << >>, Board' = Tail(Board), Waits' = Waits
  PROVE  Path!Dispatch
  BY DEF Path!Dispatch, Waits, WordPackets, Board

LEMMA EmitStep ==
  ASSUME NEW b \in {StreamBurst("short", 2), StreamBurst("long", LongStream)},
         Board' = Board \o b, Waits' = Waits
  PROVE  Path!Emit
  BY DEF Path!Emit, Waits, WordPackets, Board

LEMMA WaitsKept ==
  ASSUME UNCHANGED <<queue, current, staging>>
  PROVE  Waits' = Waits /\ InService' = InService
  BY DEF Waits, WordPackets, InService, staging

LEMMA StagedKept ==
  ASSUME Staged, UNCHANGED <<current, staging>>
  PROVE  Staged'
  BY DEF Staged, staging

-------------------------------------------------------------------------------
(* The cursors stay apart by whole numbers.                                 *)
LEMMA ExactStep ==
  ASSUME IInv, IInv', Exact, Room, [Next]_vars
  PROVE  Exact'
  <1> USE DEF Exact
  <1>1. Types
    BY DEF IInv
  <1>2. /\ Backlog \in Nat /\ Filed \in Nat /\ emitted \in Nat /\ pending \in Nat
        /\ cnt \in Int /\ ticks \in Int
    BY <1>1, Numbers, Widths DEF Types, TypeOK, Cell
  <1>3. ASSUME NEW w \in Word, GameFiles(w) PROVE Exact'
    BY <1>3 DEF GameFiles
  <1>4. CASE PumpBegin
    <2>1. /\ phase = "game" /\ phase' = "drain" /\ before' = cnt
          /\ UNCHANGED <<filing, rd, history>>
      BY <1>4 DEF PumpBegin
    <2>2. Backlog' = Backlog /\ emitted' = emitted /\ Backlog = emitted
      BY <2>1 DEF Backlog, filing, history, IInv, Cursors, Settled
    <2>3. Filed' = 0
      <3>1. cnt' - before' = 0
        BY <1>2, <2>1 DEF filing
      <3>2. 0 % CountMod = 0
        BY Widths, ModSmall
      <3> QED
        BY <3>1, <3>2 DEF Filed
    <2> QED
      BY <1>2, <2>1, <2>2, <2>3
  <1>5. ASSUME phase = "drain", EndDrain, UNCHANGED <<filing, rd, before, emitted>>
        PROVE  Exact'
    <2>1. phase' = "dispatch" /\ pending' = Filed
      BY <1>5 DEF EndDrain, Filed
    <2>2. Backlog' = Backlog
      BY <1>5 DEF Backlog, filing
    <2> QED
      BY <1>5, <2>1, <2>2
  <1>6. CASE DrainTick
    <2>1. /\ phase = "drain" /\ ticks < TickCap /\ Queue!Transmit
          /\ UNCHANGED <<rd, before, emitted>>
      BY <1>6 DEF DrainTick, history
    <2>2. CASE EndDrain /\ UNCHANGED <<staging, filing>>
      BY <1>5, <2>1, <2>2
    <2>3. CASE Receive(line') /\ UNCHANGED <<phase, pending, drainOK>>
      <3>1. PICK b \in Byte : b = line'
        BY <1>1, <2>1, TransmitTypes
      <3>2. Receive(b)
        BY <2>3, <3>1 DEF Receive, Ignore, Command, Data
      <3>3. \/ wr' = wr /\ cnt' = cnt
            \/ wr' = (wr + 1) % RingSlots /\ cnt' = (cnt + 1) % CountMod
        <4>1. ReceiverTypeOK
          BY <1>1 DEF Types, TypeOK
        <4> QED
          BY <3>2, <4>1, ReceiveTypes
      <3>4. CASE wr' = wr /\ cnt' = cnt
        BY <2>1, <2>3, <3>4 DEF Backlog, Filed
      <3>5. CASE wr' = (wr + 1) % RingSlots /\ cnt' = (cnt + 1) % CountMod
        <4>1. Filed' = Filed + 1
          BY <2>1, <3>5, FiledOne
        <4>2. Backlog + 1 < RingSlots
          BY <2>1 DEF Room
        <4>3. Backlog' = Backlog + 1
          BY <1>1, <2>1, <3>5, <4>2, Grown
        <4> QED
          BY <1>2, <2>1, <2>3, <4>1, <4>3
      <3> QED
        BY <3>3, <3>4, <3>5
    <2> QED
      BY <1>6, <2>2, <2>3 DEF DrainTick
  <1>7. CASE DrainDone
    BY <1>5, <1>7 DEF DrainDone, history
  <1>8. ASSUME phase = "dispatch", pending > 0, rd' = NextCell(rd), pending' = pending - 1,
               UNCHANGED <<ring, wr, phase, emitted>>
        PROVE  Exact'
    <2>1. Backlog = emitted + pending /\ Backlog # 0
      BY <1>2, <1>8
    <2>2. Backlog' = Backlog - 1
      BY <1>1, <1>8, <2>1, BoardTake
    <2> QED
      BY <1>2, <1>8, <2>1, <2>2
  <1>9. ASSUME NEW n \in Matching, NEW outcome \in Outcome, DispatchEntry(n, outcome)
        PROVE  Exact'
    BY <1>8, <1>9 DEF DispatchEntry
  <1>10. CASE DispatchNothing
    BY <1>8, <1>10 DEF DispatchNothing, filing
  <1>11. CASE DispatchDone
    BY <1>11 DEF DispatchDone
  <1>12. CASE Maintain
    BY <1>12 DEF Maintain
  <1>13. CASE UNCHANGED vars
    BY <1>13 DEF vars, filing, call, history, Backlog, Filed
  <1> QED
    BY <1>3, <1>4, <1>6, <1>7, <1>9, <1>10, <1>11, <1>12, <1>13 DEF Next, PumpStep

-------------------------------------------------------------------------------
(* A tick is a stutter, files the packet in service, or loses it.           *)
Stays == Waits' = Waits /\ Board' = Board

TickMoves == Staged' /\ (Path!File \/ Path!Lose \/ Stays)

Served(b) ==
  /\ current # << >> /\ b = Head(current) /\ current' = Tail(current) /\ queue' = queue
  /\ queue \in Seq(Word) /\ rd' = rd
  /\ current \in Seq(Byte) /\ cmd \in Byte /\ arg \in Byte
  /\ need = Length(cmd) /\ need \in {1, 2}

LEMMA TakesCommand ==
  ASSUME NEW b \in 128 .. System - 1, Receive(b)
  PROVE  Command(b)
  BY DEF Receive, Ignore, Data, IsCommand, System

LEMMA TakesData ==
  ASSUME NEW b \in 0 .. 127, Receive(b)
  PROVE  Data(b)
  BY DEF Receive, Ignore, Command, IsCommand, System

LEMMA TakesSilent ==
  ASSUME NEW b \in Silent, Receive(b)
  PROVE  Ignore(b)
  BY DEF Receive, Command, Data, IsCommand, Silent, System

LEMMA Remainders == 1 % ByteMod = 1 /\ 0 % ByteMod = 0
  <1>1. ByteMod \in Nat \ {0} /\ 0 \in 0 .. ByteMod - 1 /\ 1 \in 0 .. ByteMod - 1
    BY ReceiverAssumption
  <1> QED
    BY <1>1, ModSmall

LEMMA ServedBytes ==
  ASSUME Types, NEW b, Served(b)
  PROVE  /\ Len(current) \in 1 .. 2 /\ current[1] \in Byte /\ b = current[1]
         /\ Len(current) = 2 => /\ Len(current') = 1 /\ current'[1] = current[2]
                               /\ current[2] \in Byte
         /\ Len(current) = 1 => current' = << >> /\ Len(current') = 0
  <1> DEFINE q == current
             t == Tail(q)
  <1>1. q \in Seq(Byte) /\ q # << >> /\ b = Head(q) /\ current' = t
    BY DEF Served
  <1>2. Len(q) <= 2
    BY DEF Types, TypeOK
  <1> HIDE DEF q, t
  <1>3. Len(q) \in 1 .. 2
    <2>1. Len(q) \in Nat
      BY <1>1, LenProperties
    <2>2. Len(q) # 0
      BY <1>1, EmptySeq
    <2> DEFINE n == Len(q)
    <2> HIDE DEF n
    <2>3. n \in Nat /\ n # 0 /\ n <= 2
      BY <1>2, <2>1, <2>2 DEF n
    <2>4. n \in 1 .. 2
      BY <2>3
    <2> QED
      BY <2>4 DEF n
  <1>4. \A i \in 1 .. Len(q) : q[i] \in Byte
    BY <1>1, ElementOfSeq
  <1>5. /\ Head(q) = q[1] /\ t \in Seq(Byte) /\ Len(t) = Len(q) - 1
        /\ \A i \in 1 .. Len(t) : t[i] = q[i + 1]
    BY <1>1, HeadTailProperties DEF t
  <1>6. Len(q) = 2 => Len(t) = 1 /\ t[1] = q[2] /\ q[2] \in Byte
    BY <1>4, <1>5
  <1>7. Len(q) = 1 => t = << >> /\ Len(t) = 0
    BY <1>5, EmptySeq
  <1> QED
    BY <1>1, <1>3, <1>4, <1>5, <1>6, <1>7 DEF q

(* A refused byte.                                                          *)
LEMMA TickRefused ==
  ASSUME Types, Staged, NEW b, Served(b), b = Reboot, UNCHANGED <<staging, filing>>
  PROVE  TickMoves
  <1>1. /\ Len(current) \in 1 .. 2
        /\ UNCHANGED <<cmd, arg, need, left>> /\ Board' = Board
    BY ServedBytes, BoardKept DEF Served, staging
  <1>2. CASE Len(current) = 2
    <2>1. /\ Len(current') = 1 /\ current'[1] = current[2] /\ b = current[1]
          /\ current[1] \in Byte /\ current[2] \in Byte
      BY <1>2, ServedBytes
    <2>2. left = need /\ current[2] \in IF need = 2 THEN Datum ELSE Silent
      BY <1>2 DEF Staged
    <2>3. Staged'
      BY <1>1, <2>1, <2>2 DEF Staged, Served
    <2>4. InService' = << >>
      BY <1>1, <2>1, <2>2, ServiceIs DEF ServiceOf, Served
    <2> DEFINE v == IF need = 2 THEN current[2] ELSE 0
               p == Framed(cmd, b, v)
    <2>5. InService = <<p>>
      BY <1>2, <2>1, <2>2, ServiceIs DEF ServiceOf, Served
    <2>6. v \in Byte /\ b \in Byte /\ cmd \in Byte
      BY <2>1 DEF Served, Byte
    <2> HIDE DEF v
    <2>7. p \in Code /\ 2 \in DOMAIN p /\ p[2] = Reboot
      <3>1. p \in Code
        BY <2>6, FramedType
      <3>2. p = <<cmd, Reboot>> \/ p = <<cmd, Reboot, v>>
        BY DEF Framed, Served
      <3> HIDE DEF p
      <3> QED
        BY <3>1, <3>2
    <2> HIDE DEF p
    <2>8. Path!Lose
      BY <1>1, <2>4, <2>5, <2>7, LoseStep DEF Served
    <2> QED
      BY <2>3, <2>8 DEF TickMoves
  <1>3. CASE Len(current) = 1
    <2>1. current' = << >> /\ Len(current') = 0 /\ b = current[1] /\ current[1] \in Byte
      BY <1>3, ServedBytes
    <2>2. Staged'
      BY <2>1 DEF Staged
    <2>3. InService' = << >>
      BY <2>1, ServiceIs DEF ServiceOf
    <2>4. CASE need = 2 /\ left = 1
      <3> DEFINE p == Framed(cmd, arg, b)
      <3>1. InService = <<p>>
        BY <1>3, <2>1, <2>4, ServiceIs DEF ServiceOf
      <3>2. p \in Code
        BY <2>1, FramedType DEF Served
      <3>3. p = <<cmd, arg, Reboot>>
        BY <2>4 DEF Framed, Served
      <3> HIDE DEF p
      <3>4. 3 \in DOMAIN p /\ p[3] = Reboot
        BY <3>3
      <3>5. Path!Lose
        BY <1>1, <2>3, <3>1, <3>2, <3>4, LoseStep DEF Served
      <3> QED
        BY <2>2, <3>5 DEF TickMoves
    <2>5. CASE ~ (need = 2 /\ left = 1)
      <3>1. InService = << >>
        BY <1>3, <2>5, ServiceIs DEF ServiceOf
      <3>2. Waits = WordPackets(queue) /\ Waits' = WordPackets(queue')
        BY <2>3, <3>1, QueueType, QueueNext DEF Served
      <3> QED
        BY <1>1, <2>2, <3>2 DEF TickMoves, Stays, Served
    <2> QED
      BY <2>4, <2>5
  <1> QED
    BY <1>1, <1>2, <1>3

(* A byte of the word in service that the receiver takes.                   *)
LEMMA TickTaken ==
  ASSUME Types, Staged, Backlog + 1 < RingSlots, NEW b, Served(b), b # Reboot, Receive(b)
  PROVE  TickMoves
  <1>1. Len(current) \in 1 .. 2
    BY ServedBytes
  <1>2. ring \in [Cell -> Entry] /\ wr \in Cell /\ ring[wr] \in Entry
    BY DEF Types, TypeOK, ReceiverTypeOK
  <1>3. CASE Len(current) = 2
    <2>1. /\ Len(current') = 1 /\ current'[1] = current[2] /\ b = current[1]
          /\ current[1] \in Byte /\ current[2] \in Byte
      BY <1>3, ServedBytes
    <2>2. /\ left = need /\ b \in 0 .. 127
          /\ current[2] \in IF need = 2 THEN Datum ELSE Silent
      BY <1>3, <2>1 DEF Staged, Datum, Served
    <2>3. Data(b)
      BY <2>2, TakesData
    <2>6. 0 \in Byte
      BY DEF Byte
    <2>4. CASE need = 2
      <3>1. /\ left' = 1 /\ arg' = b /\ UNCHANGED <<filing, cmd, need>>
        BY <2>2, <2>3, <2>4, Remainders DEF Data
      <3>2. Staged'
        BY <2>1, <2>2, <2>4, <3>1 DEF Staged, Served
      <3>3. InService' = InService
        BY <1>3, <2>1, <2>2, <2>4, <3>1, ServiceIs DEF ServiceOf
      <3>4. Waits' = Waits
        BY <3>3 DEF Waits, WordPackets, Served
      <3>5. Board' = Board
        BY <3>1, BoardKept DEF Served
      <3> QED
        BY <3>2, <3>4, <3>5 DEF TickMoves, Stays
    <2>5. CASE need = 1
      <3> DEFINE e == [ring[wr] EXCEPT !.cmd = cmd, !.arg = b]
                 p == Framed(cmd, b, 0)
      <3>1. left' = 0 /\ FileEntry(e) /\ UNCHANGED <<arg, cmd, need>>
        BY <2>2, <2>3, <2>5, Remainders DEF Data, Assembled
      <3>2. e \in Entry /\ e.cmd = cmd /\ e.arg = b
        BY <1>2, <2>1 DEF Entry, Byte, Served
      <3>3. p = <<cmd, b>> /\ Told(e) = <<cmd, b>>
        <4> HIDE DEF e
        <4> QED
          BY <2>5, <3>2 DEF Framed, Told, Served
      <3>4. p \in Code
        BY <2>1, <2>6, FramedType DEF Served
      <3>5. InService = <<p>> /\ InService' = << >>
        BY <1>3, <2>1, <2>2, <2>5, <3>1, ServiceIs DEF ServiceOf
      <3> HIDE DEF e, p
      <3>6. Board' = Append(Board, p)
        BY <3>1, <3>2, <3>3, BoardFile DEF Served
      <3>7. Path!File
        BY <3>4, <3>5, <3>6, FileStep DEF Served
      <3>8. /\ Len(current') = 1 /\ current'[1] \in Silent
            /\ need' = 1 /\ need' = Length(cmd')
        <4>1. current[2] \in Silent
          BY <2>2, <2>5
        <4>2. need' = 1 /\ need' = Length(cmd')
          BY <2>5, <3>1 DEF Served
        <4> QED
          BY <2>1, <4>1, <4>2
      <3>9. Staged'
        BY <3>8 DEF Staged
      <3> QED
        BY <3>7, <3>9 DEF TickMoves
    <2> QED
      BY <2>4, <2>5 DEF Served
  <1>4. CASE Len(current) = 1
    <2>1. current' = << >> /\ Len(current') = 0 /\ b = current[1] /\ current[1] \in Byte
      BY <1>4, ServedBytes
    <2>2. Staged'
      BY <2>1 DEF Staged
    <2>3. InService' = << >>
      BY <2>1, ServiceIs DEF ServiceOf
    <2>4. ASSUME InService = << >>, UNCHANGED filing PROVE TickMoves
      <3>1. Waits = WordPackets(queue) /\ Waits' = WordPackets(queue')
        BY <2>3, <2>4, QueueType, QueueNext DEF Served
      <3>2. Board' = Board
        BY <2>4, BoardKept DEF Served
      <3> QED
        BY <2>2, <3>1, <3>2 DEF TickMoves, Stays, Served
    <2>5. CASE need = 2
      <3>1. left \in {1, 2} /\ b \in 0 .. 127
        BY <1>4, <2>1, <2>5 DEF Staged, Datum, Served
      <3>2. Data(b)
        BY <3>1, TakesData
      <3>3. CASE left = 2
        <4>1. InService = << >>
          BY <1>4, <3>3, ServiceIs DEF ServiceOf
        <4>2. UNCHANGED filing
          BY <3>2, <3>3 DEF Data
        <4> QED
          BY <2>4, <4>1, <4>2
      <3>4. CASE left = 1
        <4> DEFINE e == [cmd |-> cmd, arg |-> arg, val |-> b]
                   p == Framed(cmd, arg, b)
        <4>1. FileEntry(e)
          BY <2>5, <3>2, <3>4 DEF Data, Assembled
        <4>2. e \in Entry /\ Told(e) = p
          BY <2>1 DEF Entry, Byte, Told, Served
        <4>3. p \in Code
          BY <2>1, FramedType DEF Served
        <4>4. InService = <<p>>
          BY <1>4, <2>1, <2>5, <3>4, ServiceIs DEF ServiceOf
        <4> HIDE DEF e, p
        <4>5. Board' = Append(Board, p)
          BY <4>1, <4>2, BoardFile DEF Served
        <4>6. Path!File
          BY <2>3, <4>3, <4>4, <4>5, FileStep DEF Served
        <4> QED
          BY <2>2, <4>6 DEF TickMoves
      <3> QED
        BY <3>1, <3>3, <3>4
    <2>6. CASE need = 1
      <3>1. b \in Silent
        BY <1>4, <2>1, <2>6 DEF Staged, Served
      <3>2. Ignore(b)
        BY <3>1, TakesSilent
      <3>3. InService = << >>
        BY <1>4, <2>6, ServiceIs DEF ServiceOf
      <3> QED
        BY <2>4, <3>2, <3>3 DEF Ignore
    <2> QED
      BY <2>5, <2>6 DEF Served
  <1> QED
    BY <1>1, <1>3, <1>4

(* The first byte of the oldest word: its command.                          *)
LEMMA TickStarts ==
  ASSUME Types, NEW w \in Word, Readable(w), current = << >>, queue # << >>, w = Head(queue),
         queue' = Tail(queue), current' = <<w[1], w[0]>>, rd' = rd, Receive(w[2])
  PROVE  TickMoves
  <1>1. /\ w[2] \in 128 .. System - 1 /\ w[1] \in Datum
        /\ w[0] \in IF Length(w[2]) = 2 THEN Datum ELSE Silent
        /\ w[0] \in Byte /\ w[1] \in Byte /\ w[2] \in Byte
    BY PacketType DEF Readable
  <1>2. /\ cmd' = w[2] /\ need' = Length(w[2]) /\ left' = Length(w[2])
        /\ UNCHANGED <<arg, filing>>
    <2>1. Command(w[2])
      BY <1>1, TakesCommand
    <2> QED
      BY <2>1 DEF Command
  <1>3. Len(current') = 2 /\ current'[1] = w[1] /\ current'[2] = w[0] /\ Len(current) = 0
    OBVIOUS
  <1>4. Length(w[2]) \in {1, 2}
    BY DEF Length
  <1>5. Staged'
    BY <1>1, <1>2, <1>3, <1>4 DEF Staged
  <1>6. InService = << >>
    BY <1>3, ServiceIs DEF ServiceOf
  <1>7. InService' = <<Packet(w)>>
    <2>1. CASE Length(w[2]) = 2
      BY <1>2, <1>3, <2>1, ServiceIs DEF ServiceOf, Packet
    <2>2. CASE Length(w[2]) = 1
      <3>1. Framed(w[2], w[1], 0) = Packet(w)
        BY <2>2 DEF Framed, Packet
      <3> QED
        BY <1>2, <1>3, <2>2, <3>1, ServiceIs DEF ServiceOf
    <2> QED
      BY <1>4, <2>1, <2>2
  <1>8. Waits' = <<Packet(w)>> \o WordPackets(Tail(queue))
    BY <1>7 DEF Waits, WordPackets
  <1>9. Waits = WordPackets(queue) /\ queue \in Seq(Word)
    BY <1>6, QueueType
  <1>10. WordPackets(queue) = <<Packet(w)>> \o WordPackets(Tail(queue))
    BY <1>9, PacketsTail
  <1>11. Board' = Board
    BY <1>2, BoardKept
  <1> QED
    BY <1>5, <1>8, <1>9, <1>10, <1>11 DEF TickMoves, Stays

LEMMA TickStep ==
  ASSUME PathInv, Room, \A w \in Word : Readable(w), DrainTick
  PROVE  TickMoves
  <1>1. Types /\ Staged /\ phase = "drain" /\ Queue!Transmit /\ rd' = rd
    BY DEF PathInv, IInv, DrainTick
  <1>2. Backlog + 1 < RingSlots
    BY <1>1 DEF Room
  <1>3. \/ line' # Reboot /\ Receive(line')
        \/ line' = Reboot /\ UNCHANGED <<staging, filing>>
    BY DEF DrainTick
  <1>4. CASE Queue!Start
    <2> DEFINE w == Head(queue)
    <2>1. queue \in Seq(Word) /\ queue # << >> /\ current = << >> /\ queue' = Tail(queue)
      BY <1>1, <1>4 DEF Queue!Start, Types, TypeOK
    <2>2. line' = w[2] /\ current' = <<w[1], w[0]>>
      BY <1>4 DEF Queue!Start, Queue!Bytes
    <2>3. w \in Word
      BY <2>1, HeadTailProperties
    <2> HIDE DEF w
    <2>4. Readable(w) /\ w[2] # Reboot
      <3>1. Readable(w)
        BY <2>3
      <3> QED
        BY <3>1 DEF Readable, System, Reboot
    <2>5. Receive(w[2])
      BY <1>3, <2>2, <2>4 DEF Receive, Ignore, Command, Data
    <2> QED
      BY <1>1, <2>1, <2>2, <2>3, <2>4, <2>5, TickStarts DEF w
  <1>5. CASE Queue!Continue
    <2> DEFINE b == Head(current)
    <2>1. line' = b /\ current # << >> /\ current' = Tail(current) /\ queue' = queue
      BY <1>5 DEF Queue!Continue
    <2>2. /\ current \in Seq(Byte) /\ cmd \in Byte /\ arg \in Byte
          /\ queue \in Seq(Word) /\ need = Length(cmd) /\ need \in {1, 2}
      BY <1>1, <2>1 DEF Types, TypeOK, ReceiverTypeOK, Byte, Staged, Length
    <2>3. Served(b)
      BY <1>1, <2>1, <2>2 DEF Served
    <2> HIDE DEF b
    <2>4. CASE b # Reboot /\ Receive(line')
      <3>1. Receive(b)
        BY <2>1, <2>4 DEF Receive, Ignore, Command, Data
      <3> QED
        BY <1>1, <1>2, <2>3, <2>4, <3>1, TickTaken
    <2>5. CASE b = Reboot /\ UNCHANGED <<staging, filing>>
      BY <1>1, <2>3, <2>5, TickRefused
    <2> QED
      BY <1>3, <2>1, <2>4, <2>5
  <1> QED
    BY <1>1, <1>4, <1>5 DEF Queue!Transmit

-------------------------------------------------------------------------------
LEMMA PathInit == Init => PathInv /\ Path!Init
  <1> SUFFICES ASSUME Init PROVE PathInv /\ Path!Init
    OBVIOUS
  <1>1. /\ IInv /\ phase = "game" /\ current = << >> /\ left = 0
        /\ queue = <<BootWord>> /\ wr = 0 /\ rd = 0
    BY InitIInv DEF Init, Queue!Init, ReceiverInit
  <1>2. Exact /\ Staged
    BY <1>1 DEF Exact, Staged
  <1>3. InService = << >> /\ Types
    BY <1>1 DEF InService, IInv
  <1>4. Waits = <<Packet(BootWord)>>
    <2>1. Waits = WordPackets(queue)
      BY <1>3, QueueType
    <2>2. WordPackets(queue) = <<Packet(BootWord)>>
      BY <1>1 DEF WordPackets
    <2> QED
      BY <2>1, <2>2
  <1>5. Board = << >>
    <2>1. Backlog = 0
      <3>1. 0 % RingSlots = 0 /\ 0 - 0 = 0
        BY Widths, ModSmall
      <3> QED
        BY <1>1, <3>1 DEF Backlog
    <2> QED
      BY <2>1 DEF Board
  <1>6. Path!Init
    BY <1>4, <1>5 DEF Path!Init, Waits, WordPackets, Board
  <1> QED
    BY <1>1, <1>2, <1>6 DEF PathInv

(* An entry stepped over is the oldest of the backlog.                      *)
LEMMA TakeStep ==
  ASSUME IInv, Exact, phase = "dispatch", pending > 0, rd' = NextCell(rd),
         UNCHANGED <<i960, staging, ring, wr>>
  PROVE  Path!Dispatch
  <1>1. Types /\ emitted \in Nat /\ pending \in Nat /\ pending # 0
    BY Widths DEF IInv, Types, TypeOK, Cell
  <1>2. Backlog # 0
    BY <1>1 DEF Exact
  <1>3. Board # << >> /\ Board' = Tail(Board)
    BY <1>1, <1>2, BoardTake
  <1>4. Waits' = Waits
    BY WaitsKept DEF i960
  <1> QED
    BY <1>3, <1>4, DispatchStep

LEMMA MaintainStep ==
  ASSUME IInv, IInv', Room, Maintain
  PROVE  Path!Emit \/ Stays
  <1>1. /\ Types /\ rd' = rd /\ phase = "maintain" /\ Waits' = Waits
        /\ stream \in [Records -> Kind] /\ ring' \in [Cell -> Entry]
    BY WaitsKept DEF IInv, Types, TypeOK, ReceiverTypeOK, Maintain, i960
  <1>2. CASE UNCHANGED filing
    BY <1>1, <1>2, BoardKept DEF Stays
  <1>3. ASSUME NEW i \in Armed, Emit(i) PROVE Path!Emit
    <2> DEFINE b == StreamBurst(stream[i], Packets(i))
    <2>1. Backlog + Packets(i) < RingSlots
      BY <1>1, <1>3 DEF Room
    <2>2. Board' = Board \o b
      BY <1>1, <1>3, <2>1, BoardBurst
    <2>3. b \in {StreamBurst("short", 2), StreamBurst("long", LongStream)}
      <3>1. stream[i] \in {"short", "long"}
        BY <1>1, <1>3 DEF Armed, Kind
      <3> QED
        BY <3>1 DEF Packets
    <2> HIDE DEF b
    <2> QED
      BY <1>1, <2>2, <2>3, EmitStep
  <1> QED
    BY <1>2, <1>3 DEF Maintain, MaintainTick

LEMMA PathStep ==
  ASSUME PathInv, Room, \A w \in Word : Readable(w), [Next]_vars
  PROVE  PathInv' /\ (Path!Next \/ Stays)
  <1>1. IInv /\ IInv' /\ Exact /\ Exact' /\ Staged /\ Types
    BY StepIInv, ExactStep DEF PathInv, IInv
  <1> SUFFICES Staged' /\ (Path!Next \/ Stays)
    BY <1>1 DEF PathInv
  <1>2. ASSUME UNCHANGED <<queue, current, staging, filing, rd>>
        PROVE  Staged' /\ Stays
    BY <1>1, <1>2, StagedKept, WaitsKept, BoardKept DEF Stays
  <1>3. ASSUME NEW w \in Word, GameFiles(w) PROVE Staged' /\ Path!Next
    <2>1. /\ queue' = Append(queue, w) /\ UNCHANGED <<current, staging, filing, rd>>
      BY <1>3 DEF GameFiles, Queue!Accept
    <2>2. InService' = InService /\ Board' = Board /\ Staged'
      BY <1>1, <2>1, BoardKept, StagedKept DEF InService, staging
    <2> QED
      BY <1>1, <2>1, <2>2, AcceptStep DEF Path!Next
  <1>4. CASE PumpBegin
    BY <1>2, <1>4 DEF PumpBegin, i960
  <1>5. CASE DrainTick
    BY <1>5, TickStep DEF TickMoves, Path!Next
  <1>6. CASE DrainDone
    BY <1>2, <1>6 DEF DrainDone, i960
  <1>7. ASSUME NEW n \in Matching, NEW outcome \in Outcome, DispatchEntry(n, outcome)
        PROVE  Staged' /\ Path!Next
    <2>1. /\ phase = "dispatch" /\ pending > 0 /\ rd' = NextCell(rd)
          /\ UNCHANGED <<i960, staging, ring, wr>>
      BY <1>7 DEF DispatchEntry
    <2> QED
      BY <1>1, <2>1, TakeStep, StagedKept DEF i960, Path!Next
  <1>8. CASE DispatchNothing
    <2>1. /\ phase = "dispatch" /\ pending > 0 /\ rd' = NextCell(rd)
          /\ UNCHANGED <<i960, staging, ring, wr>>
      BY <1>8 DEF DispatchNothing, filing
    <2> QED
      BY <1>1, <2>1, TakeStep, StagedKept DEF i960, Path!Next
  <1>9. CASE DispatchDone
    BY <1>2, <1>9 DEF DispatchDone, i960
  <1>10. CASE Maintain
    <2>1. Staged'
      BY <1>1, <1>10, StagedKept DEF Maintain, i960
    <2> QED
      BY <1>1, <1>10, <2>1, MaintainStep DEF Path!Next
  <1>11. CASE UNCHANGED vars
    BY <1>2, <1>11 DEF vars, i960
  <1> QED
    BY <1>3, <1>4, <1>5, <1>6, <1>7, <1>8, <1>9, <1>10, <1>11 DEF Next, PumpStep

(* Where the ring has the room that its receiver does not look for, and     *)
(* words are a command and its data, the path is CommandPath: each word     *)
(* becomes one entry, in order, each entry is stepped over once, and only a *)
(* word with the reboot byte is lost (vf2_session_pump_audio).              *)
THEOREM PathKept ==
  ASSUME \A w \in Word : Readable(w)
  PROVE  Spec /\ []Room => PathSpec
  <1>1. Init => PathInv /\ Path!Init
    BY PathInit
  <1>2. PathInv /\ Room /\ [Next]_vars => PathInv'
    BY PathStep
  <1>3. PathInv /\ Room /\ [Next]_vars => [Path!Next]_(Path!vars)
    <2> SUFFICES ASSUME PathInv, Room, [Next]_vars
                 PROVE  Path!Next \/ UNCHANGED <<Waits, Board>>
      BY DEF Path!vars, Waits, WordPackets, Board
    <2> QED
      BY PathStep DEF Stays
  <1> QED
    BY <1>1, <1>2, <1>3, PTL DEF Spec, PathSpec, Path!Spec

(* The room is there as long as the streams, whose packets no call waits    *)
(* for, have filed fewer than the ring holds less one call's share.         *)
Unfilled == emitted + TickCap + LongStream + 1 < RingSlots

LEMMA RoomLeft ==
  ASSUME IInv, Exact, Unfilled
  PROVE  Room
  <1>1. /\ emitted \in Nat /\ Filed \in Nat /\ ticks \in 0 .. TickCap
        /\ TickCap \in Nat \ {0} /\ LongStream \in Nat \ {0} /\ RingSlots \in Nat
    BY Numbers, Widths, PumpAssumption DEF IInv, Types, TypeOK, Cell
  <1>2. CASE phase = "drain"
    <2>1. Filed <= ticks /\ Backlog = emitted + Filed
      BY <1>2 DEF IInv, Cursors, Filing, Exact
    <2>2. Backlog + 1 < RingSlots
      BY <1>1, <2>1 DEF Unfilled
    <2> QED
      BY <1>2, <2>2 DEF Room
  <1>3. CASE phase = "maintain"
    <2>1. Backlog = emitted
      BY <1>3 DEF IInv, Cursors, Settled
    <2>2. ASSUME NEW i \in Armed PROVE Backlog + Packets(i) < RingSlots
      <3>1. Packets(i) = LongStream \/ Packets(i) = 2
        BY DEF Packets
      <3> QED
        BY <1>1, <2>1, <3>1 DEF Unfilled
    <2> QED
      BY <1>3, <2>2 DEF Room
  <1> QED
    BY <1>2, <1>3 DEF Room

(* So the path is CommandPath until the streams have all but filled the     *)
(* ring (vf2_session_pump_audio, vf2_sound_board_maintain_streams).         *)
THEOREM PathKeptUnfilled ==
  ASSUME \A w \in Word : Readable(w)
  PROVE  Spec /\ []Unfilled => PathSpec
  <1>1. Init => PathInv
    BY PathInit
  <1>2. PathInv /\ Unfilled => Room
    BY RoomLeft DEF PathInv
  <1>3. PathInv /\ Room /\ [Next]_vars => PathInv'
    BY PathStep
  <1>4. Spec /\ []Room => PathSpec
    BY PathKept
  <1>5. Spec /\ []Unfilled => []Room
    BY <1>1, <1>2, <1>3, PTL DEF Spec
  <1> QED
    BY <1>4, <1>5, PTL
===============================================================================
