------------------------- MODULE SoundReceiver_proofs -------------------------
(***************************************************************************)
(* The receiver for every width of its counters and every sequence of      *)
(* bytes: it files exactly the entries the bytes spell.                    *)
(***************************************************************************)
EXTENDS MCSoundReceiver, SequenceTheorems, FiniteSetTheorems, TLAPS

Octet == 0 .. System - 1                         \* the bytes that are not ignored

(* The definitions of the framing, with the bytes as a parameter.           *)
CmdIn(h, i) ==
  LET at == {j \in 1 .. i : IsCommand(h[j])}
  IN  IF at = {} THEN 0 ELSE CHOOSE j \in at : \A k \in at : k <= j

CompIn(h, i) ==
  LET c == CmdIn(h, i)
  IN  /\ i # c
      /\ IF c = 0 THEN i % ByteMod = 0 ELSE (i - c) % Length(h[c]) = 0

FrameIn(h, i) ==
  LET c == CmdIn(h, i)
  IN  IF c # 0 /\ Length(h[c]) = 1
        THEN <<h[c], h[i]>>
        ELSE <<IF c = 0 THEN 0 ELSE h[c], h[i - 1], h[i]>>

EndsIn(h) == {i \in 1 .. Len(h) : CompIn(h, i)}

Fits(e, f) == e.cmd = f[1] /\ e.arg = f[2] /\ (Len(f) = 3 => e.val = f[3])

Spelled(h, f) ==
  /\ Len(f) = Cardinality(EndsIn(h))
  /\ \A i \in EndsIn(h) :
       Fits(f[Cardinality({k \in EndsIn(h) : k <= i})], FrameIn(h, i))

(* c is the last command among the first i bytes, 0 if there is none.       *)
CmdIs(h, i, c) ==
  /\ c \in 0 .. i
  /\ c # 0 => IsCommand(h[c])
  /\ \A k \in c + 1 .. i : ~IsCommand(h[k])

(* The staging counters say where in an entry the bytes heard have stopped. *)
Staged ==
  LET n == Len(heard)
      c == CmdIn(heard, n)
  IN  IF c = 0
        THEN /\ cmd = 0 /\ need = 0
             /\ \E q \in Int : n + left = ByteMod * q
             /\ left # 0 => arg = heard[n]
        ELSE /\ cmd = heard[c] /\ need = Length(heard[c])
             /\ n = c => left = need
             /\ n # c /\ need = 1 => left = 0
             /\ n # c /\ need = 2 =>
                  left = (n - c) % 2 /\ (left = 1 => arg = heard[n])

Histories == heard \in Seq(Octet) /\ filed \in Seq(Entry)

IInv ==
  /\ ReceiverTypeOK
  /\ Histories
  /\ Staged
  /\ Spelled(heard, filed)
  /\ CursorCounts

-------------------------------------------------------------------------------
(* Remainders.                                                              *)
LEMMA ModRange ==
  ASSUME NEW x \in Int, NEW m \in Nat \ {0}
  PROVE  x % m \in 0 .. m - 1 /\ x \div m \in Int
  OBVIOUS

LEMMA ModSplit ==
  ASSUME NEW x \in Int, NEW m \in Nat \ {0}
  PROVE  x = m * (x \div m) + (x % m)
  BY SMTT(30)

LEMMA ModUnique ==
  ASSUME NEW q \in Int, NEW m \in Nat \ {0}, NEW r \in 0 .. m - 1
  PROVE  (m * q + r) % m = r
  OBVIOUS

(* Counting one more.                                                       *)
LEMMA ModNext ==
  ASSUME NEW x \in Int, NEW m \in Nat \ {0}
  PROVE  ((x % m) + 1) % m = (x + 1) % m
  <1> DEFINE q == x \div m
             r == x % m
  <1>1. q \in Int /\ r \in 0 .. m - 1 /\ x = m * q + r
    BY ModRange, ModSplit
  <1> HIDE DEF q, r
  <1>2. m * q \in Int
    BY <1>1
  <1>3. CASE r + 1 \in 0 .. m - 1
    <2>1. x + 1 = m * q + (r + 1)
      BY <1>1, <1>2
    <2>2. (m * q + (r + 1)) % m = r + 1 /\ (m * 0 + (r + 1)) % m = r + 1
      BY <1>1, <1>3, ModUnique
    <2>3. m * 0 + (r + 1) = r + 1
      BY <1>1
    <2>4. (x + 1) % m = r + 1 /\ (r + 1) % m = r + 1
      BY <2>1, <2>2, <2>3
    <2> QED
      BY <2>4 DEF r
  <1>4. CASE r + 1 \notin 0 .. m - 1
    <2>1. r + 1 = m
      BY <1>1, <1>4
    <2>2. x + 1 = m * (q + 1) + 0 /\ m = m * 1 + 0
      <3>1. m * (q + 1) = m * q + m
        BY <1>1
      <3> QED
        BY <1>1, <1>2, <2>1, <3>1
    <2>3. (m * (q + 1) + 0) % m = 0 /\ (m * 1 + 0) % m = 0
      <3>1. q + 1 \in Int /\ 0 \in 0 .. m - 1
        BY <1>1
      <3> QED
        BY <3>1, ModUnique
    <2>4. (x + 1) % m = 0 /\ m % m = 0
      BY <2>2, <2>3
    <2> QED
      BY <2>1, <2>4 DEF r
  <1> QED
    BY <1>3, <1>4

-------------------------------------------------------------------------------
(* The command in force.                                                    *)
LEMMA Greatest ==
  ASSUME NEW i \in Nat, NEW S \in SUBSET (1 .. i), S # {}
  PROVE  \E j \in S : \A k \in S : k <= j
  <1> DEFINE T == {i - k : k \in S}
  <1>1. T \subseteq Nat /\ T # {}
    <2>1. \A k \in S : i - k \in Nat
      OBVIOUS
    <2> QED
      BY <2>1
  <1>2. PICK t \in T : \A u \in T : ~(<<u, t>> \in OpToRel(<, Nat))
    <2> HIDE DEF T
    <2>1. IsWellFoundedOn(OpToRel(<, Nat), Nat)
      BY NatLessThanWellFounded
    <2> QED
      BY <1>1, <2>1, WFMin
  <1>3. PICK j \in S : t = i - j
    OBVIOUS
  <1>4. ASSUME NEW k \in S PROVE k <= j
    <2>1. i - k \in T /\ i - k \in Nat /\ t \in Nat
      BY <1>1
    <2>2. ~(i - k < t)
      BY <1>2, <2>1 DEF OpToRel
    <2> QED
      BY <1>3, <2>1, <2>2
  <1> QED
    BY <1>4

LEMMA CmdFound ==
  ASSUME NEW h, NEW i \in Nat
  PROVE  CmdIs(h, i, CmdIn(h, i))
  <1> DEFINE at == {j \in 1 .. i : IsCommand(h[j])}
  <1>1. CASE at = {}
    BY <1>1 DEF CmdIn, CmdIs
  <1>2. CASE at # {}
    <2> DEFINE c == CHOOSE j \in at : \A k \in at : k <= j
    <2>1. \E j \in at : \A k \in at : k <= j
      <3>1. at \in SUBSET (1 .. i)
        OBVIOUS
      <3> HIDE DEF at
      <3> QED
        BY <1>2, <3>1, Greatest
    <2>2. c \in at /\ \A k \in at : k <= c
      BY <2>1
    <2>3. CmdIn(h, i) = c
      BY <1>2 DEF CmdIn
    <2> HIDE DEF c
    <2> QED
      BY <2>2, <2>3 DEF CmdIs
  <1> QED
    BY <1>1, <1>2

LEMMA CmdUnique ==
  ASSUME NEW h, NEW i \in Nat, NEW c, CmdIs(h, i, c)
  PROVE  CmdIn(h, i) = c
  <1> DEFINE d == CmdIn(h, i)
  <1>1. CmdIs(h, i, d)
    BY CmdFound
  <1> HIDE DEF d
  <1>2. c \in 0 .. i /\ d \in 0 .. i /\ ~(c < d) /\ ~(d < c)
    BY <1>1 DEF CmdIs
  <1>3. c = d
    BY <1>2
  <1> QED
    BY <1>3 DEF d

(* Bytes that come later do not change the framing of those before.         *)
LEMMA CmdPrefix ==
  ASSUME NEW h \in Seq(Octet), NEW b \in Octet, NEW i \in 0 .. Len(h)
  PROVE  CmdIn(Append(h, b), i) = CmdIn(h, i)
  <1> DEFINE c == CmdIn(h, i)
             g == Append(h, b)
  <1>1. i \in Nat /\ CmdIs(h, i, c) /\ Len(h) \in Nat
    BY CmdFound, LenProperties
  <1>2. \A k \in 1 .. Len(h) : g[k] = h[k]
    BY AppendProperties
  <1> HIDE DEF c, g
  <1>3. \A k \in 1 .. i : g[k] = h[k]
    BY <1>1, <1>2
  <1>4. CmdIs(g, i, c)
    BY <1>1, <1>3 DEF CmdIs
  <1>5. CmdIn(g, i) = c
    BY <1>1, <1>4, CmdUnique
  <1> QED
    BY <1>5 DEF c, g

LEMMA CmdAppend ==
  ASSUME NEW h \in Seq(Octet), NEW b \in Octet
  PROVE  CmdIn(Append(h, b), Len(h) + 1)
           = IF IsCommand(b) THEN Len(h) + 1 ELSE CmdIn(h, Len(h))
  <1> DEFINE n == Len(h)
             c == CmdIn(h, n)
             g == Append(h, b)
             d == IF IsCommand(b) THEN n + 1 ELSE c
  <1>1. n \in Nat /\ n + 1 \in Nat /\ CmdIs(h, n, c)
    BY CmdFound, LenProperties
  <1>2. (\A k \in 1 .. n : g[k] = h[k]) /\ g[n + 1] = b
    BY AppendProperties
  <1> HIDE DEF c, g, n
  <1>3. CmdIs(g, n + 1, d)
    <2>1. CASE IsCommand(b)
      BY <1>1, <1>2, <2>1 DEF CmdIs
    <2>2. CASE ~IsCommand(b)
      <3>1. d = c /\ c \in 0 .. n + 1 /\ (c # 0 => IsCommand(g[c]))
        BY <1>1, <1>2, <2>2 DEF CmdIs
      <3>2. ASSUME NEW k \in c + 1 .. n + 1 PROVE ~IsCommand(g[k])
        <4>1. k = n + 1 \/ (k \in c + 1 .. n /\ k \in 1 .. n)
          BY <1>1 DEF CmdIs
        <4> QED
          BY <1>1, <1>2, <2>2, <4>1 DEF CmdIs
      <3> QED
        BY <3>1, <3>2 DEF CmdIs
    <2> QED
      BY <2>1, <2>2
  <1>4. CmdIn(g, n + 1) = d
    <2> HIDE DEF d
    <2> QED
      BY <1>1, <1>3, CmdUnique
  <1> QED
    BY <1>4 DEF c, g, n

LEMMA CompPrefix ==
  ASSUME NEW h \in Seq(Octet), NEW b \in Octet, NEW i \in 1 .. Len(h)
  PROVE  /\ CompIn(Append(h, b), i) = CompIn(h, i)
         /\ CompIn(h, i) => FrameIn(Append(h, b), i) = FrameIn(h, i)
  <1> DEFINE c == CmdIn(h, i)
             g == Append(h, b)
  <1>1. i \in 0 .. Len(h) /\ i \in Nat /\ Len(h) \in Nat
    BY LenProperties
  <1>2. CmdIn(g, i) = c /\ c \in 0 .. i
    BY <1>1, CmdPrefix, CmdFound DEF CmdIs
  <1>3. \A k \in 1 .. Len(h) : g[k] = h[k]
    BY AppendProperties
  <1> HIDE DEF c, g
  <1>4. c # 0 => c \in 1 .. Len(h)
    BY <1>1, <1>2
  <1>5. CompIn(g, i) = CompIn(h, i)
    BY <1>2, <1>3, <1>4 DEF CompIn, c
  <1>6. ASSUME CompIn(h, i) PROVE FrameIn(g, i) = FrameIn(h, i)
    <2>1. i - 1 \in 1 .. Len(h)
      <3>1. CASE c = 0
        <4>1. i % ByteMod = 0
          BY <1>6, <3>1 DEF CompIn, c
        <4>2. i # 1
          <5>1. 1 % ByteMod = 1
            BY ReceiverAssumption
          <5> QED
            BY <4>1, <5>1
        <4> QED
          BY <1>1, <4>2
      <3>2. CASE c # 0
        <4>1. i # c
          BY <1>6 DEF CompIn, c
        <4> QED
          BY <1>1, <1>2, <3>2, <4>1
      <3> QED
        BY <3>1, <3>2
    <2> QED
      BY <1>2, <1>3, <1>4, <2>1 DEF FrameIn, c
  <1> QED
    BY <1>5, <1>6 DEF g

LEMMA EndsAppend ==
  ASSUME NEW h \in Seq(Octet), NEW b \in Octet
  PROVE  /\ EndsIn(Append(h, b))
              = IF CompIn(Append(h, b), Len(h) + 1) THEN EndsIn(h) \cup {Len(h) + 1}
                                                    ELSE EndsIn(h)
         /\ IsFiniteSet(EndsIn(h)) /\ Len(h) + 1 \notin EndsIn(h)
         /\ EndsIn(h) \subseteq 1 .. Len(h)
  <1> DEFINE n == Len(h)
             g == Append(h, b)
  <1>1. n \in Nat /\ Len(g) = n + 1
    BY LenProperties, AppendProperties
  <1>2. \A i \in 1 .. n : CompIn(g, i) = CompIn(h, i)
    BY CompPrefix
  <1>3. EndsIn(h) \subseteq 1 .. n /\ EndsIn(g) \subseteq 1 .. n + 1
    BY <1>1 DEF EndsIn
  <1>4. IsFiniteSet(EndsIn(h))
    <2>1. IsFiniteSet(1 .. n)
      BY <1>1, FS_Interval
    <2> QED
      BY <1>3, <2>1, FS_Subset
  <1>5. n + 1 \notin EndsIn(h)
    BY <1>1, <1>3
  <1>6. ASSUME NEW i \in 1 .. n + 1
        PROVE  i \in EndsIn(g) <=> i \in EndsIn(h) \/ (i = n + 1 /\ CompIn(g, n + 1))
    <2>1. i = n + 1 \/ i \in 1 .. n
      BY <1>1
    <2> HIDE DEF g
    <2> QED
      BY <1>1, <1>2, <1>3, <1>5, <2>1 DEF EndsIn
  <1> HIDE DEF n, g
  <1>7. n + 1 \in 1 .. n + 1 /\ 1 .. n \subseteq 1 .. n + 1
    BY <1>1
  <1>8. EndsIn(g) = IF CompIn(g, n + 1) THEN EndsIn(h) \cup {n + 1} ELSE EndsIn(h)
    BY <1>3, <1>5, <1>6, <1>7
  <1> QED
    BY <1>3, <1>4, <1>5, <1>8 DEF n, g

(* An entry filed for a byte that completes one.                            *)
LEMMA SpelledFile ==
  ASSUME NEW h \in Seq(Octet), NEW b \in Octet, NEW f \in Seq(Entry), NEW e \in Entry,
         Spelled(h, f), CompIn(Append(h, b), Len(h) + 1),
         Fits(e, FrameIn(Append(h, b), Len(h) + 1))
  PROVE  Spelled(Append(h, b), Append(f, e))
  <1> DEFINE n == Len(h)
             g == Append(h, b)
             E == EndsIn(h)
             rank(S, i) == Cardinality({k \in S : k <= i})
  <1>1. n \in Nat /\ Len(f) \in Nat
    BY LenProperties
  <1>2. /\ EndsIn(g) = E \cup {n + 1} /\ IsFiniteSet(E) /\ n + 1 \notin E
        /\ E \subseteq 1 .. n
    BY EndsAppend
  <1>3. Len(f) = Cardinality(E) /\ \A i \in E : Fits(f[rank(E, i)], FrameIn(h, i))
    BY DEF Spelled
  <1>4. /\ Len(Append(f, e)) = Len(f) + 1
        /\ \A i \in 1 .. Len(f) : Append(f, e)[i] = f[i]
        /\ Append(f, e)[Len(f) + 1] = e
    BY AppendProperties
  <1>5. \A i \in E : FrameIn(g, i) = FrameIn(h, i)
    BY <1>2, CompPrefix DEF EndsIn
  <1> HIDE DEF n, g
  <1>6. Cardinality(E \cup {n + 1}) = Len(f) + 1
    <2> HIDE DEF E
    <2> QED
      BY <1>2, <1>3, FS_AddElement
  <1>7. ASSUME NEW i \in E
        PROVE  Fits(Append(f, e)[rank(E \cup {n + 1}, i)], FrameIn(g, i))
    <2> DEFINE S == {k \in E : k <= i}
    <2>1. {k \in E \cup {n + 1} : k <= i} = S
      BY <1>1, <1>2
    <2>2. IsFiniteSet(S) /\ Cardinality(S) <= Cardinality(E) /\ Cardinality(S) \in Nat
      <3>1. S \in SUBSET E
        OBVIOUS
      <3> HIDE DEF S, E
      <3> QED
        BY <1>2, <3>1, FS_Subset, FS_CardinalityType
    <2>3. S # {}
      BY <1>1, <1>2
    <2>4. Cardinality(S) # 0
      <3> HIDE DEF S
      <3> QED
        BY <2>2, <2>3, FS_EmptySet
    <2>5. Cardinality(S) \in 1 .. Len(f)
      BY <1>1, <1>3, <2>2, <2>4
    <2> HIDE DEF E
    <2>6. Append(f, e)[Cardinality(S)] = f[Cardinality(S)]
      BY <1>4, <2>5
    <2> QED
      BY <1>3, <1>5, <2>1, <2>6
  <1>8. Fits(Append(f, e)[rank(E \cup {n + 1}, n + 1)], FrameIn(g, n + 1))
    <2>1. {k \in E \cup {n + 1} : k <= n + 1} = E \cup {n + 1}
      BY <1>1, <1>2
    <2> HIDE DEF E
    <2> QED
      BY <1>4, <1>6, <2>1 DEF n, g
  <1> HIDE DEF E
  <1> QED
    BY <1>2, <1>4, <1>6, <1>7, <1>8 DEF Spelled, g

(* A byte that completes none leaves the entries as they are.               *)
LEMMA SpelledOn ==
  ASSUME NEW h \in Seq(Octet), NEW b \in Octet, NEW f \in Seq(Entry),
         Spelled(h, f), ~CompIn(Append(h, b), Len(h) + 1)
  PROVE  Spelled(Append(h, b), f)
  <1>1. EndsIn(Append(h, b)) = EndsIn(h)
    BY EndsAppend
  <1>2. \A i \in EndsIn(h) : FrameIn(Append(h, b), i) = FrameIn(h, i)
    BY CompPrefix DEF EndsIn
  <1> QED
    BY <1>1, <1>2 DEF Spelled

-------------------------------------------------------------------------------
LEMMA InitIInv == Init => IInv
  <1> SUFFICES ASSUME Init PROVE IInv
    OBVIOUS
  <1>1. heard = << >> /\ filed = << >> /\ Len(heard) = 0 /\ Len(filed) = 0
    BY DEF Init
  <1>2. Histories
    BY <1>1, EmptySeq DEF Histories
  <1>3. ReceiverTypeOK
    <2>1. Blank \in Entry
      BY DEF Blank, Entry
    <2> QED
      BY <2>1, ReceiverAssumption DEF Init, ReceiverInit, ReceiverTypeOK, Cell
  <1>4. CmdIn(heard, 0) = 0
    <2>1. CmdIs(heard, 0, CmdIn(heard, 0))
      BY CmdFound
    <2> QED
      BY <2>1 DEF CmdIs
  <1>5. Staged
    <2>1. 0 + 0 = ByteMod * 0
      BY ReceiverAssumption
    <2> QED
      BY <1>1, <1>4, <2>1 DEF Staged, Init, ReceiverInit
  <1>6. Spelled(heard, filed)
    <2>1. EndsIn(heard) = {}
      BY <1>1 DEF EndsIn
    <2> QED
      BY <1>1, <2>1, FS_EmptySet DEF Spelled
  <1>7. CursorCounts
    <2>1. 0 % RingSlots = 0 /\ 0 % CountMod = 0
      BY ReceiverAssumption
    <2> QED
      BY <1>1, <2>1 DEF CursorCounts, Init, ReceiverInit
  <1> QED
    BY <1>2, <1>3, <1>5, <1>6, <1>7 DEF IInv

(* The next cell is another one, and the cursor and the count count.        *)
LEMMA FileFacts ==
  ASSUME ReceiverTypeOK, filed \in Seq(Entry), CursorCounts, NEW e \in Entry, FileEntry(e)
  PROVE  /\ ring' \in [Cell -> Entry] /\ ring'[wr] = e
         /\ wr' \in Cell /\ cnt' \in 0 .. CountMod - 1 /\ wr' # wr
         /\ wr' = (Len(filed) + 1) % RingSlots /\ cnt' = (Len(filed) + 1) % CountMod
  <1>1. Len(filed) \in Int /\ RingSlots \in Nat \ {0} /\ CountMod \in Nat \ {0}
    BY LenProperties, ReceiverAssumption
  <1>2. wr' = (Len(filed) + 1) % RingSlots
    BY <1>1, ModNext DEF CursorCounts, FileEntry, NextCell
  <1>3. cnt' = (Len(filed) + 1) % CountMod
    BY <1>1, ModNext DEF CursorCounts, FileEntry
  <1>4. wr' \in Cell /\ cnt' \in 0 .. CountMod - 1
    <2>1. Len(filed) + 1 \in Int
      BY <1>1
    <2> QED
      BY <1>1, <1>2, <1>3, <2>1, ModRange DEF Cell
  <1>5. wr' # wr
    <2>1. wr' = (wr + 1) % RingSlots /\ wr \in 0 .. RingSlots - 1
      BY DEF FileEntry, NextCell, ReceiverTypeOK, Cell
    <2>2. CASE wr + 1 < RingSlots
      <3>1. (RingSlots * 0 + (wr + 1)) % RingSlots = wr + 1
        BY <1>1, <2>1, <2>2, ModUnique
      <3>2. RingSlots * 0 + (wr + 1) = wr + 1
        BY <1>1, <2>1
      <3> QED
        BY <2>1, <3>1, <3>2
    <2>3. CASE wr + 1 = RingSlots
      <3>1. (RingSlots * 1 + 0) % RingSlots = 0 /\ RingSlots * 1 + 0 = RingSlots
        BY <1>1, ModUnique
      <3> QED
        BY <2>1, <2>3, <3>1, ReceiverAssumption
    <2> QED
      BY <1>1, <2>1, <2>2, <2>3
  <1>6. ring' \in [Cell -> Entry] /\ ring'[wr] = e
    BY DEF FileEntry, ReceiverTypeOK
  <1> QED
    BY <1>2, <1>3, <1>4, <1>5, <1>6

LEMMA AssembledType ==
  ASSUME ReceiverTypeOK, NEW b \in 0 .. 255
  PROVE  /\ Assembled(b) \in Entry
         /\ Assembled(b).cmd = cmd
         /\ need = 1 => Assembled(b).arg = b
         /\ need # 1 => Assembled(b).arg = arg /\ Assembled(b).val = b
  <1> DEFINE e == ring[wr]
  <1>1. /\ e \in [cmd : 0 .. 255, arg : 0 .. 255, val : 0 .. 255]
        /\ cmd \in 0 .. 255 /\ arg \in 0 .. 255
    BY DEF ReceiverTypeOK, Entry
  <1>2. Assembled(b) = IF need = 1 THEN [e EXCEPT !.cmd = cmd, !.arg = b]
                                   ELSE [cmd |-> cmd, arg |-> arg, val |-> b]
    BY DEF Assembled
  <1> HIDE DEF e
  <1>3. [e EXCEPT !.cmd = cmd] \in Entry /\ [e EXCEPT !.cmd = cmd].cmd = cmd
    BY <1>1 DEF Entry
  <1>4. /\ [[e EXCEPT !.cmd = cmd] EXCEPT !.arg = b] \in Entry
        /\ [[e EXCEPT !.cmd = cmd] EXCEPT !.arg = b].cmd = cmd
        /\ [[e EXCEPT !.cmd = cmd] EXCEPT !.arg = b].arg = b
    BY <1>3 DEF Entry
  <1>5. CASE need = 1
    BY <1>2, <1>4, <1>5
  <1>6. CASE need # 1
    BY <1>1, <1>2, <1>6 DEF Entry
  <1> QED
    BY <1>5, <1>6

(* A byte with no command in force.                                         *)
LEMMA DataWithout ==
  ASSUME IInv, NEW b \in Octet, Data(b), heard' = Append(heard, b),
         CmdIn(heard, Len(heard)) = 0
  PROVE  /\ left' \in 0 .. ByteMod - 1
         /\ CompIn(heard', Len(heard) + 1) <=> left = 1
         /\ left = 1 => FileEntry(Assembled(b)) /\ arg' = arg
                        /\ Fits(Assembled(b), FrameIn(heard', Len(heard) + 1))
         /\ left # 1 => arg' = b /\ UNCHANGED filing
         /\ Staged'
  <1> DEFINE n == Len(heard)
  <1>1. /\ n \in Nat /\ left \in 0 .. ByteMod - 1 /\ ByteMod \in Nat \ {0, 1, 2}
        /\ ByteMod \in Nat \ {0} /\ b \in 0 .. 255 /\ heard \in Seq(Octet)
    BY LenProperties, ReceiverAssumption DEF IInv, Histories, ReceiverTypeOK, Octet, System
  <1>2. ~IsCommand(b) /\ cmd' = cmd /\ need' = need
    BY DEF Data
  <1>3. /\ cmd = 0 /\ need = 0 /\ \E q \in Int : n + left = ByteMod * q
        /\ left # 0 => arg = heard[n]
    BY DEF IInv, Staged
  <1>4. PICK q \in Int : n + left = ByteMod * q
    BY <1>3
  <1>5. /\ left' = ((IF left = 0 THEN 0 ELSE left) - 1) % ByteMod
        /\ left = 1 => FileEntry(Assembled(b)) /\ arg' = arg
        /\ left # 1 => arg' = b /\ UNCHANGED filing
    BY <1>1, <1>3 DEF Data
  <1>6. /\ Len(heard') = n + 1 /\ heard'[n + 1] = b
        /\ \A k \in 1 .. n : heard'[k] = heard[k]
    BY <1>1, AppendProperties
  <1>7. CmdIn(heard', n + 1) = 0
    BY <1>1, <1>2, CmdAppend
  <1> HIDE DEF n
  <1>8. ByteMod * q \in Int
    BY <1>1
  <1>9. left' = IF left = 0 THEN ByteMod - 1 ELSE left - 1
    <2>1. CASE left = 0
      <3>1. (ByteMod * (-1) + (ByteMod - 1)) % ByteMod = ByteMod - 1
        <4>1. -1 \in Int /\ ByteMod - 1 \in 0 .. ByteMod - 1
          BY <1>1
        <4> QED
          BY <1>1, <4>1, ModUnique, SMTT(40)
      <3>2. ByteMod * (-1) + (ByteMod - 1) = 0 - 1
        BY <1>1
      <3> QED
        BY <1>5, <2>1, <3>1, <3>2
    <2>2. CASE left # 0
      <3>1. (ByteMod * 0 + (left - 1)) % ByteMod = left - 1
        <4>1. 0 \in Int /\ left - 1 \in 0 .. ByteMod - 1
          BY <1>1, <2>2
        <4> QED
          BY <1>1, <4>1, ModUnique, SMTT(40)
      <3>2. ByteMod * 0 + (left - 1) = left - 1
        BY <1>1
      <3> QED
        BY <1>5, <2>2, <3>1, <3>2
    <2> QED
      BY <2>1, <2>2
  <1>10. \E p \in Int : (n + 1) + left' = ByteMod * p
    <2>1. CASE left = 0
      <3>1. ByteMod * (q + 1) = ByteMod * q + ByteMod
        BY <1>1
      <3>2. (n + 1) + left' = ByteMod * (q + 1) /\ q + 1 \in Int
        BY <1>1, <1>4, <1>8, <1>9, <2>1, <3>1
      <3> QED
        BY <3>2
    <2>2. CASE left # 0
      <3>1. (n + 1) + left' = ByteMod * q
        BY <1>1, <1>4, <1>8, <1>9, <2>2
      <3> QED
        BY <3>1
    <2> QED
      BY <2>1, <2>2
  <1>11. (n + 1) % ByteMod = 0 <=> left = 1
    <2>1. CASE left = 1
      <3>1. n + 1 = ByteMod * q + 0
        BY <1>1, <1>4, <1>8, <2>1
      <3>2. (ByteMod * q + 0) % ByteMod = 0
        <4>1. 0 \in 0 .. ByteMod - 1
          BY <1>1
        <4> QED
          BY <1>1, <4>1, ModUnique
      <3> QED
        BY <2>1, <3>1, <3>2
    <2>2. CASE left = 0
      <3>1. n + 1 = ByteMod * q + 1
        BY <1>1, <1>4, <1>8, <2>2
      <3>2. (ByteMod * q + 1) % ByteMod = 1
        <4>1. 1 \in 0 .. ByteMod - 1
          BY <1>1
        <4> QED
          BY <1>1, <4>1, ModUnique
      <3> QED
        BY <2>2, <3>1, <3>2
    <2>3. CASE left # 0 /\ left # 1
      <3> DEFINE t == ByteMod + 1 - left
      <3>1. t \in 0 .. ByteMod - 1 /\ t # 0 /\ q - 1 \in Int
        BY <1>1, <2>3
      <3>2. n + 1 = ByteMod * (q - 1) + t
        <4>1. ByteMod * (q - 1) = ByteMod * q - ByteMod
          BY <1>1
        <4> QED
          BY <1>1, <1>4, <1>8, <4>1
      <3> HIDE DEF t
      <3>3. (ByteMod * (q - 1) + t) % ByteMod = t
        BY <1>1, <3>1, ModUnique
      <3> QED
        BY <2>3, <3>1, <3>2, <3>3
    <2> QED
      BY <2>1, <2>2, <2>3
  <1>12. CompIn(heard', n + 1) <=> left = 1
    <2>1. n + 1 # 0
      BY <1>1
    <2> QED
      BY <1>7, <1>11, <2>1 DEF CompIn
  <1>13. left' \in 0 .. ByteMod - 1
    BY <1>1, <1>9
  <1>14. Staged'
    <2>1. left' # 0 => arg' = b
      <3>1. left = 1 => left' = 0
        BY <1>1, <1>9
      <3> QED
        BY <1>5, <3>1
    <2> QED
      BY <1>2, <1>3, <1>6, <1>7, <1>10, <2>1 DEF Staged
  <1>15. ASSUME left = 1 PROVE Fits(Assembled(b), FrameIn(heard', n + 1))
    <2>1. n \in 1 .. n /\ (n + 1) - 1 = n
      <3>1. n # 0
        <4>1. CASE n = 0
          <5>1. 1 = ByteMod * q + 0 /\ 1 = ByteMod * 0 + 1
            BY <1>1, <1>4, <1>8, <1>15, <4>1
          <5>2. (ByteMod * q + 0) % ByteMod = 0 /\ (ByteMod * 0 + 1) % ByteMod = 1
            <6>1. 0 \in 0 .. ByteMod - 1 /\ 1 \in 0 .. ByteMod - 1
              BY <1>1
            <6> QED
              BY <1>1, <6>1, ModUnique
          <5> QED
            BY <5>1, <5>2
        <4> QED
          BY <4>1
      <3> QED
        BY <1>1, <3>1
    <2>2. FrameIn(heard', n + 1) = <<0, heard[n], b>>
      BY <1>6, <1>7, <2>1 DEF FrameIn
    <2>3. Assembled(b).cmd = 0 /\ Assembled(b).arg = arg /\ Assembled(b).val = b
      <3>1. ReceiverTypeOK /\ b \in 0 .. 255 /\ cmd = 0 /\ need # 1
        BY <1>1, <1>3 DEF IInv
      <3> QED
        BY <3>1, AssembledType
    <2> QED
      BY <1>3, <1>15, <2>2, <2>3 DEF Fits
  <1> QED
    BY <1>5, <1>12, <1>13, <1>14, <1>15 DEF n

LEMMA CompUnder ==
  ASSUME NEW h, NEW i, NEW c, CmdIn(h, i) = c, c # 0, i # c
  PROVE  CompIn(h, i) <=> (i - c) % Length(h[c]) = 0
  BY DEF CompIn

(* A byte under a command.                                                  *)
LEMMA DataUnder ==
  ASSUME IInv, NEW b \in Octet, Data(b), heard' = Append(heard, b),
         CmdIn(heard, Len(heard)) # 0
  PROVE  LET select == IF left = 0 THEN need ELSE left IN
         /\ left' \in 0 .. ByteMod - 1
         /\ CompIn(heard', Len(heard) + 1) <=> select = 1
         /\ select = 1 => FileEntry(Assembled(b)) /\ arg' = arg
                          /\ Fits(Assembled(b), FrameIn(heard', Len(heard) + 1))
         /\ select # 1 => arg' = b /\ UNCHANGED filing
         /\ Staged'
  <1> DEFINE n == Len(heard)
             c == CmdIn(heard, n)
             select == IF left = 0 THEN need ELSE left
  <1>1. /\ n \in Nat /\ left \in 0 .. ByteMod - 1 /\ ByteMod \in Nat \ {0, 1, 2}
        /\ b \in 0 .. 255 /\ heard \in Seq(Octet)
    BY LenProperties, ReceiverAssumption DEF IInv, Histories, ReceiverTypeOK, Octet, System
  <1>2. c \in 1 .. n
    BY <1>1, CmdFound DEF CmdIs
  <1>3. /\ cmd = heard[c] /\ need = Length(heard[c])
        /\ n = c => left = need
        /\ n # c /\ need = 1 => left = 0
        /\ n # c /\ need = 2 => left = (n - c) % 2 /\ (left = 1 => arg = heard[n])
    BY DEF IInv, Staged
  <1>4. /\ ~IsCommand(b) /\ cmd' = cmd /\ need' = need
        /\ left' = (select - 1) % ByteMod
        /\ select = 1 => FileEntry(Assembled(b)) /\ arg' = arg
        /\ select # 1 => arg' = b /\ UNCHANGED filing
    BY DEF Data
  <1>5. /\ Len(heard') = n + 1 /\ heard'[n + 1] = b
        /\ \A k \in 1 .. n : heard'[k] = heard[k]
    BY <1>1, AppendProperties
  <1>6. CmdIn(heard', n + 1) = c
    BY <1>1, <1>4, CmdAppend
  <1> HIDE DEF n, c
  <1>7. heard'[c] = heard[c] /\ c # 0 /\ c # n + 1 /\ n + 1 # c
    BY <1>1, <1>2, <1>5
  <1>8. need = 1 \/ need = 2
    BY <1>3 DEF Length
  <1>9. select \in 1 .. 2 /\ left' = select - 1
    <2>1. select \in 1 .. 2
      <3>1. CASE n = c
        BY <1>3, <1>8, <3>1
      <3>2. CASE n # c /\ need = 1
        BY <1>3, <3>2
      <3>3. CASE n # c /\ need = 2
        <4>1. (n - c) % 2 \in 0 .. 1
          BY <1>1, <1>2
        <4> QED
          BY <1>3, <3>3, <4>1
      <3> QED
        BY <1>8, <3>1, <3>2, <3>3
    <2>2. (ByteMod * 0 + (select - 1)) % ByteMod = select - 1
      <3>1. select - 1 \in 0 .. ByteMod - 1 /\ 0 \in Int /\ ByteMod \in Nat \ {0}
        BY <1>1, <2>1
      <3> HIDE DEF select
      <3> QED
        BY <3>1, ModUnique
    <2>3. ByteMod * 0 + (select - 1) = select - 1
      BY <1>1, <2>1
    <2> HIDE DEF select
    <2> QED
      BY <1>4, <2>1, <2>2, <2>3
  <1>10. /\ need = 1 => select = 1
         /\ need = 2 => (select = 1 <=> ((n + 1) - c) % 2 = 0)
         /\ need = 2 => left' = ((n + 1) - c) % 2
    <2>1. CASE need = 1
      BY <1>3, <2>1
    <2>2. CASE need = 2 /\ n = c
      <3>1. ((n + 1) - c) % 2 = 1
        <4>1. (n + 1) - c = 1
          BY <1>1, <2>2
        <4> QED
          BY <4>1
      <3>2. left = 2
        BY <1>3, <2>2
      <3> QED
        BY <1>9, <2>2, <3>1, <3>2
    <2>3. CASE need = 2 /\ n # c
      <3>1. left = (n - c) % 2
        BY <1>3, <2>3
      <3>2. n - c \in Int /\ (n + 1) - c = (n - c) + 1
        BY <1>1, <1>2
      <3>3. \/ (n - c) % 2 = 0 /\ ((n + 1) - c) % 2 = 1
            \/ (n - c) % 2 = 1 /\ ((n + 1) - c) % 2 = 0
        BY <3>2
      <3> QED
        BY <1>9, <2>3, <3>1, <3>3
    <2> QED
      BY <1>8, <2>1, <2>2, <2>3
  <1>11. CompIn(heard', n + 1) <=> ((n + 1) - c) % need = 0
    <2>1. CompIn(heard', n + 1) <=> ((n + 1) - c) % Length(heard'[c]) = 0
      BY <1>6, <1>7, CompUnder
    <2>2. Length(heard'[c]) = need
      BY <1>3, <1>7
    <2> QED
      BY <1>7, <2>1, <2>2
  <1>12. CompIn(heard', n + 1) <=> select = 1
    <2>1. CASE need = 1
      <3>1. ((n + 1) - c) % 1 = 0
        <4>1. (n + 1) - c \in Int
          BY <1>1, <1>2
        <4> QED
          BY <4>1
      <3> QED
        BY <1>10, <1>11, <2>1, <3>1
    <2>2. CASE need = 2
      BY <1>10, <1>11, <2>2
    <2> QED
      BY <1>8, <2>1, <2>2
  <1>13. left' \in 0 .. ByteMod - 1
    BY <1>1, <1>9
  <1>14. Staged'
    <2>1. need = 1 => left' = 0
      BY <1>9, <1>10
    <2>2. left' = 1 => arg' = b
      BY <1>4, <1>9
    <2> HIDE DEF select
    <2>3. CmdIn(heard', Len(heard')) = c /\ heard'[Len(heard')] = b
      BY <1>5, <1>6
    <2>4. /\ cmd' = heard'[c] /\ need' = Length(heard'[c])
          /\ Len(heard') = c => left' = need'
          /\ Len(heard') # c /\ need' = 1 => left' = 0
          /\ Len(heard') # c /\ need' = 2 =>
               left' = (Len(heard') - c) % 2 /\ (left' = 1 => arg' = heard'[Len(heard')])
      <3>1. cmd' = heard'[c] /\ need' = Length(heard'[c])
        BY <1>3, <1>4, <1>7
      <3>2. Len(heard') = n + 1 /\ heard'[Len(heard')] = b /\ need' = need
        BY <1>4, <1>5, <2>3
      <3>3. need = 2 => left' = ((n + 1) - c) % 2 /\ (left' = 1 => arg' = b)
        BY <1>10, <2>2
      <3> QED
        BY <1>7, <2>1, <3>1, <3>2, <3>3
    <2> QED
      BY <1>7, <2>3, <2>4, Zenon DEF Staged
  <1>15. ASSUME select = 1 PROVE Fits(Assembled(b), FrameIn(heard', n + 1))
    <2>1. ReceiverTypeOK
      BY SMTT(40) DEF IInv
    <2>2. Assembled(b).cmd = heard[c]
      BY <1>1, <1>3, <2>1, AssembledType
    <2>3. CASE need = 1
      <3>1. FrameIn(heard', n + 1) = <<heard[c], b>>
        BY <1>3, <1>5, <1>6, <1>7, <2>3 DEF FrameIn
      <3>2. Assembled(b).arg = b
        BY <1>1, <2>1, <2>3, AssembledType
      <3> QED
        BY <2>2, <3>1, <3>2 DEF Fits
    <2>4. CASE need = 2
      <3>1. n # c /\ left = 1
        BY <1>3, <1>15, <2>4
      <3>2. arg = heard[n]
        BY <1>3, <2>4, <3>1
      <3>3. n \in 1 .. n /\ (n + 1) - 1 = n
        BY <1>1, <1>2
      <3>4. FrameIn(heard', n + 1) = <<heard[c], heard[n], b>>
        <4>1. Length(heard[c]) # 1
          BY <1>3, <2>4
        <4> QED
          BY <1>5, <1>6, <1>7, <3>3, <4>1 DEF FrameIn
      <3>5. Assembled(b).arg = arg /\ Assembled(b).val = b
        <4>1. need # 1
          BY <2>4
        <4> QED
          BY <1>1, <2>1, <4>1, AssembledType
      <3> QED
        BY <2>2, <3>2, <3>4, <3>5 DEF Fits
    <2> QED
      BY <1>8, <2>3, <2>4
  <1> QED
    BY <1>4, <1>12, <1>13, <1>14, <1>15 DEF n

LEMMA HearKeeps ==
  ASSUME IInv, NEW b \in Sample, Hear(b)
  PROVE  IInv'
  <1>1. /\ b \in 0 .. 255 /\ heard \in Seq(Octet) /\ filed \in Seq(Entry)
        /\ Len(heard) \in Nat /\ ReceiverTypeOK /\ CursorCounts
        /\ Spelled(heard, filed) /\ Staged
    BY SampleAssumption, LenProperties DEF IInv, Histories
  <1>2. /\ heard' = IF b < System THEN Append(heard, b) ELSE heard
        /\ filed' = IF wr' = wr THEN filed ELSE Append(filed, ring'[wr])
    BY DEF Hear
  <1>3. CASE Ignore(b)
    <2>1. /\ heard' = heard /\ filed' = filed /\ UNCHANGED <<staging, filing>>
      BY <1>1, <1>2, <1>3 DEF Ignore, filing, System
    <2>2. ReceiverTypeOK' /\ CursorCounts' /\ Histories' /\ Spelled(heard', filed')
      BY <1>1, <2>1 DEF staging, filing, ReceiverTypeOK, CursorCounts, Histories
    <2>3. Staged'
      BY <1>1, <2>1 DEF staging, Staged
    <2> QED
      BY <2>2, <2>3 DEF IInv
  <1>4. CASE Command(b)
    <2>1. /\ IsCommand(b) /\ cmd' = b /\ need' = Length(b) /\ left' = Length(b)
          /\ arg' = arg /\ UNCHANGED filing /\ b \in Octet
      BY <1>1, <1>4 DEF Command, Octet, System
    <2>2. heard' = Append(heard, b) /\ filed' = filed
      BY <1>1, <1>2, <1>4, <2>1 DEF Command, filing
    <2>3. Length(b) \in 1 .. 2
      BY DEF Length
    <2>4. ReceiverTypeOK' /\ CursorCounts'
      BY <1>1, <2>1, <2>2, <2>3, ReceiverAssumption DEF ReceiverTypeOK, CursorCounts, filing
    <2>5. /\ heard' \in Seq(Octet) /\ Len(heard') = Len(heard) + 1
          /\ heard'[Len(heard) + 1] = b
      BY <1>1, <2>1, <2>2, AppendProperties
    <2>6. CmdIn(heard', Len(heard) + 1) = Len(heard) + 1
      BY <1>1, <2>1, <2>2, CmdAppend
    <2>7. Staged'
      <3>1. Len(heard) + 1 # 0
        BY <1>1
      <3> QED
        BY <2>1, <2>5, <2>6, <3>1 DEF Staged
    <2>8. Spelled(heard', filed')
      <3>1. ~CompIn(heard', Len(heard) + 1)
        BY <2>6 DEF CompIn
      <3> QED
        BY <1>1, <2>1, <2>2, <3>1, SpelledOn
    <2> QED
      BY <1>1, <2>2, <2>4, <2>5, <2>7, <2>8 DEF IInv, Histories
  <1>5. CASE Data(b)
    <2>1. b \in Octet /\ heard' = Append(heard, b)
      BY <1>1, <1>2, <1>5 DEF Data, IsCommand, Octet, System
    <2>2. PICK select \in Nat :
            /\ left' \in 0 .. ByteMod - 1
            /\ CompIn(heard', Len(heard) + 1) <=> select = 1
            /\ select = 1 => FileEntry(Assembled(b)) /\ arg' = arg
                             /\ Fits(Assembled(b), FrameIn(heard', Len(heard) + 1))
            /\ select # 1 => arg' = b /\ UNCHANGED filing
            /\ Staged'
      <3>1. CASE CmdIn(heard, Len(heard)) = 0
        <4>1. left \in Nat
          BY <1>1, ReceiverAssumption DEF ReceiverTypeOK
        <4> QED
          BY <1>5, <2>1, <3>1, <4>1, DataWithout
      <3>2. CASE CmdIn(heard, Len(heard)) # 0
        <4>1. (IF left = 0 THEN need ELSE left) \in Nat
          BY <1>1, ReceiverAssumption DEF ReceiverTypeOK
        <4> QED
          BY <1>5, <2>1, <3>2, <4>1, DataUnder
      <3> QED
        BY <3>1, <3>2
    <2>3. /\ heard' \in Seq(Octet) /\ cmd' = cmd /\ need' = need
      BY <1>1, <1>5, <2>1, AppendProperties DEF Data
    <2>4. CASE select = 1
      <3> DEFINE e == Assembled(b)
      <3>1. e \in Entry
        BY <1>1, AssembledType
      <3>2. /\ FileEntry(e) /\ arg' = arg /\ CompIn(heard', Len(heard) + 1)
            /\ Fits(e, FrameIn(heard', Len(heard) + 1))
        BY <2>2, <2>4
      <3> HIDE DEF e
      <3>3. /\ ring' \in [Cell -> Entry] /\ ring'[wr] = e
            /\ wr' \in Cell /\ cnt' \in 0 .. CountMod - 1 /\ wr' # wr
            /\ wr' = (Len(filed) + 1) % RingSlots /\ cnt' = (Len(filed) + 1) % CountMod
        BY <1>1, <3>1, <3>2, FileFacts
      <3>4. filed' = Append(filed, e)
        BY <1>2, <3>3
      <3>5. filed' \in Seq(Entry) /\ Len(filed') = Len(filed) + 1
        BY <1>1, <3>1, <3>4, AppendProperties
      <3>6. Spelled(heard', filed')
        BY <1>1, <2>1, <3>1, <3>2, <3>4, SpelledFile
      <3>7. ReceiverTypeOK'
        BY <1>1, <2>2, <2>3, <3>2, <3>3 DEF ReceiverTypeOK
      <3>8. CursorCounts'
        BY <3>3, <3>5 DEF CursorCounts
      <3> QED
        BY <2>2, <2>3, <3>5, <3>6, <3>7, <3>8 DEF IInv, Histories
    <2>5. CASE select # 1
      <3>1. arg' = b /\ UNCHANGED filing /\ ~CompIn(heard', Len(heard) + 1) /\ filed' = filed
        BY <1>2, <2>2, <2>5 DEF filing
      <3>2. Spelled(heard', filed')
        BY <1>1, <2>1, <3>1, SpelledOn
      <3>3. ReceiverTypeOK'
        BY <1>1, <2>2, <2>3, <3>1 DEF ReceiverTypeOK, filing
      <3>4. CursorCounts' /\ Histories'
        BY <1>1, <2>3, <3>1 DEF CursorCounts, Histories, filing
      <3> QED
        BY <2>2, <3>2, <3>3, <3>4 DEF IInv
    <2> QED
      BY <2>4, <2>5
  <1> QED
    BY <1>3, <1>4, <1>5 DEF Hear, Receive

LEMMA StepIInv == IInv /\ [Next]_vars => IInv'
  <1> SUFFICES ASSUME IInv, [Next]_vars PROVE IInv'
    OBVIOUS
  <1>1. ASSUME NEW b \in Sample, Hear(b) PROVE IInv'
    BY <1>1, HearKeeps
  <1>2. CASE UNCHANGED vars
    <2>1. UNCHANGED <<staging, filing, heard, filed>>
      BY <1>2 DEF vars
    <2>2. ReceiverTypeOK' /\ CursorCounts' /\ Histories' /\ Spelled(heard', filed')
      BY <2>1 DEF IInv, staging, filing, ReceiverTypeOK, CursorCounts, Histories
    <2>3. Staged'
      BY <2>1 DEF IInv, staging, Staged
    <2> QED
      BY <2>2, <2>3 DEF IInv
  <1> QED
    BY <1>1, <1>2 DEF Next

LEMMA Invariance == Spec => []IInv
  BY InitIInv, StepIInv, PTL DEF Spec

-------------------------------------------------------------------------------
(* The staged bytes, the cursor and the count keep their widths             *)
(* (vf2_sound_board_file_uart_byte).                                        *)
THEOREM TypeCorrect == Spec => []TypeOK
  <1>1. IInv => TypeOK
    BY DEF IInv, TypeOK
  <1> QED
    BY <1>1, Invariance, PTL

(* The write cursor and the count are the number of entries filed, modulo   *)
(* their widths.                                                            *)
THEOREM CursorsCount == Spec => []CursorCounts
  <1>1. IInv => CursorCounts
    BY DEF IInv
  <1> QED
    BY <1>1, Invariance, PTL

(* Whatever bytes come, in whatever number: the receiver files exactly the  *)
(* entries they spell, in order, each under the command in force.           *)
THEOREM FilesWhatIsFramed == Spec => []FiledAsFramed
  <1>1. IInv => FiledAsFramed
    <2> SUFFICES ASSUME IInv PROVE FiledAsFramed
      OBVIOUS
    <2>1. \A i : CommandAt(i) = CmdIn(heard, i)
      BY DEF CommandAt, CmdIn
    <2>2. \A i : Completes(i) = CompIn(heard, i) /\ Framed(i) = FrameIn(heard, i)
      BY <2>1 DEF Completes, CompIn, Framed, FrameIn
    <2>3. Ends = EndsIn(heard)
      BY <2>2 DEF Ends, EndsIn
    <2>4. Spelled(heard, filed)
      BY DEF IInv
    <2> QED
      BY <2>2, <2>3, <2>4 DEF FiledAsFramed, Spelled, Fits
  <1> QED
    BY <1>1, Invariance, PTL
===============================================================================
