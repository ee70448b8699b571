--------------------------- MODULE GameFrame_proofs ---------------------------
(***************************************************************************)
(* What a geometry stream does, for every ROM and every list of words: it  *)
(* keeps the TGP well formed, it is cut where the scan cuts it, and a      *)
(* refused one is its accepted prefix.  Then what a native frame draws,    *)
(* reads and leaves open, for every program, ring, input and order of      *)
(* calls.                                                                  *)
(*                                                                         *)
(* The streams are repetitions of a step.  A repetition is unfolded once,  *)
(* in Orbit and SameOrbit, by way of the least number that fails; every    *)
(* other induction is Inductive over a set of numbers.                     *)
(***************************************************************************)
EXTENDS GameFrame, SequenceTheorems, WellFoundedInduction, NaturalsInduction, TLAPS

-------------------------------------------------------------------------------
(* Numbers.                                                                *)

\* A set of numbers that is not empty has a least one.
LEMMA Least ==
  ASSUME NEW S \in SUBSET Nat, S # {}
  PROVE  \E m \in S : \A k \in S : m <= k
<1>1. IsWellFoundedOn(OpToRel(<, Nat), Nat)
      BY NatLessThanWellFounded
<1>2. PICK m \in S : \A k \in S : ~ (<<k, m>> \in OpToRel(<, Nat))
      BY <1>1, WFMin
<1>3. ASSUME NEW k \in S PROVE m <= k
  <2>1. k \in Nat /\ m \in Nat
        OBVIOUS
  <2>2. ~ (k < m)
        BY <1>2, <2>1 DEF OpToRel
  <2>3. QED
        BY <2>1, <2>2
<1>4. QED
      BY <1>3

\* What holds of 0 and goes from each number below n to the next.
LEMMA Inductive ==
  ASSUME NEW n \in Nat, NEW G, 0 \in G, \A k \in 1 .. n : k - 1 \in G => k \in G
  PROVE  \A k \in 0 .. n : k \in G
<1> DEFINE Bad == {k \in 0 .. n : k \notin G}
<1>1. SUFFICES ASSUME Bad # {} PROVE FALSE
      OBVIOUS
<1>2. PICK m \in Bad : \A k \in Bad : m <= k
  <2>1. Bad \in SUBSET Nat
        OBVIOUS
  <2> HIDE DEF Bad
  <2>2. QED
        BY <1>1, <2>1, Least
<1>3. m \in 1 .. n /\ m - 1 \in 0 .. n /\ ~ (m <= m - 1)
      OBVIOUS
<1>4. QED
      BY <1>2, <1>3

-------------------------------------------------------------------------------
(* Repetition.                                                             *)

\* g is what n applications of F to start go through, all in R.
Goes(g, F, R, start, n) ==
  /\ g \in [0 .. n -> R]
  /\ g[0] = start
  /\ \A k \in 1 .. n : g[k] = F[g[k - 1]]

LEMMA Orbit ==
  ASSUME NEW R, NEW F \in [R -> R], NEW start \in R, NEW n \in Nat
  PROVE  \E g \in [0 .. n -> R] : Goes(g, F, R, start, n)
<1> DEFINE Bad == {k \in Nat : ~ \E g \in [0 .. k -> R] : Goes(g, F, R, start, k)}
<1>1. SUFFICES Bad = {}
      OBVIOUS
<1>2. SUFFICES ASSUME Bad # {} PROVE FALSE
      OBVIOUS
<1>3. PICK m \in Bad : \A k \in Bad : m <= k
  <2>1. Bad \in SUBSET Nat
        OBVIOUS
  <2> HIDE DEF Bad
  <2>2. QED
        BY <1>2, <2>1, Least
<1>4. CASE m = 0
  <2> DEFINE g == [k \in 0 .. 0 |-> start]
  <2>1. g \in [0 .. 0 -> R] /\ Goes(g, F, R, start, 0)
        BY DEF Goes
  <2>2. QED
        BY <1>4, <2>1
<1>5. CASE m # 0
  <2>1. m \in Nat /\ m - 1 \in Nat /\ ~ (m <= m - 1)
        BY <1>5
  <2>2. m - 1 \notin Bad
        BY <1>3, <2>1
  <2>3. PICK g \in [0 .. m - 1 -> R] : Goes(g, F, R, start, m - 1)
        BY <2>1, <2>2
  <2> DEFINE h == [k \in 0 .. m |-> IF k = m THEN F[g[m - 1]] ELSE g[k]]
  <2>4. \A k \in 0 .. m : k # m => k \in 0 .. m - 1
        BY <2>1
  <2>5. F[g[m - 1]] \in R
        BY <2>1, <2>3
  <2>6. h \in [0 .. m -> R]
        BY <2>3, <2>4, <2>5
  <2>7. h[0] = start
        BY <1>5, <2>1, <2>3 DEF Goes
  <2>8. ASSUME NEW k \in 1 .. m PROVE h[k] = F[h[k - 1]]
    <3>1. k \in Nat /\ k - 1 \in 0 .. m - 1 /\ k - 1 # m /\ k - 1 \in 0 .. m
          BY <2>1
    <3>2. h[k - 1] = g[k - 1]
          BY <3>1
    <3>3. CASE k = m
          BY <3>2, <3>3
    <3>4. CASE k # m
      <4>1. k \in 1 .. m - 1 /\ k \in 0 .. m
            BY <2>1, <3>4
      <4>2. QED
            BY <2>3, <3>2, <3>4, <4>1 DEF Goes
    <3>5. QED
          BY <3>3, <3>4
  <2> HIDE DEF h
  <2>9. Goes(h, F, R, start, m)
        BY <2>6, <2>7, <2>8 DEF Goes
  <2>10. QED
        BY <2>6, <2>9
<1>6. QED
      BY <1>4, <1>5

\* a starts at start and follows F as long as it stays in R.
Follows(a, F, R, start, n) ==
  /\ a[0] = start
  /\ \A k \in 1 .. n : a[k - 1] \in R => a[k] = F[a[k - 1]]

\* What follows the same rule goes the same way.
LEMMA SameOrbit ==
  ASSUME NEW R, NEW F, NEW start, NEW n \in Nat,
         NEW g, Goes(g, F, R, start, n), NEW a, Follows(a, F, R, start, n)
  PROVE  a[n] = g[n]
<1> DEFINE Bad == {k \in 0 .. n : a[k] # g[k]}
<1>1. SUFFICES ASSUME Bad # {} PROVE FALSE
      OBVIOUS
<1>2. PICK m \in Bad : \A k \in Bad : m <= k
  <2>1. Bad \in SUBSET Nat
        OBVIOUS
  <2> HIDE DEF Bad
  <2>2. QED
        BY <1>1, <2>1, Least
<1>3. m # 0
      BY DEF Goes, Follows
<1>4. m \in 1 .. n /\ m - 1 \in 0 .. n /\ ~ (m <= m - 1)
      BY <1>3
<1>5. a[m - 1] = g[m - 1]
      BY <1>2, <1>4
<1>6. a[m] = F[a[m - 1]]
  <2>1. g[m - 1] \in R
        BY <1>4 DEF Goes
  <2>2. QED
        BY <1>4, <1>5, <2>1 DEF Follows
<1>7. g[m] = F[g[m - 1]]
      BY <1>4 DEF Goes
<1>8. QED
      BY <1>5, <1>6, <1>7
-------------------------------------------------------------------------------
(* Lengths.                                                                *)

LEMMA LinkSizes ==
  ASSUME NEW attribute
  PROVE  /\ LinkPoints(attribute) \in 1 .. 2
         /\ LinkPoints(attribute) * PointWords \in Nat \ {0}
         /\ LinkWords(attribute) \in Nat /\ LinkWords(attribute) >= 3
<1>1. PointWords \in Nat \ {0}
      BY GeometryAssumption
<1>2. CASE IsQuad(attribute)
  <2>1. LinkPoints(attribute) = 2
        BY <1>2 DEF LinkPoints
  <2>2. QED
        BY <1>1, <2>1 DEF LinkWords
<1>3. CASE ~ IsQuad(attribute)
  <2>1. LinkPoints(attribute) = 1
        BY <1>3 DEF LinkPoints
  <2>2. QED
        BY <1>1, <2>1 DEF LinkWords
<1>4. QED
      BY <1>2, <1>3

\* Where a list that has an attribute at i ends, when it goes on as e says.
EndAt(s, e, i) ==
  IF i > Len(s) THEN 0
  ELSE IF ~ HasPolygon(s[i]) THEN i
  ELSE IF i + LinkWords(s[i]) > Len(s) THEN 0
  ELSE e[i + LinkWords(s[i]) + 1]

\* e says where a list with an attribute at i ends, for every i from first on.
Ending(s, e, first) == \A i \in first .. Len(s) + 1 : e[i] = EndAt(s, e, i)

LEMMA EndingExists ==
  ASSUME NEW s \in Seq(Words)
  PROVE  \E e : Ending(s, e, 1)
<1> DEFINE L == Len(s)
           Bad == {d \in 0 .. L : ~ \E e : Ending(s, e, (L + 1) - d)}
<1>1. L \in Nat
      OBVIOUS
<1>2. SUFFICES ASSUME Bad # {} PROVE FALSE
  <2>1. L \in 0 .. L /\ (L + 1) - L = 1
        BY <1>1
  <2>2. QED
        BY <2>1
<1>3. PICK m \in Bad : \A k \in Bad : m <= k
  <2>1. Bad \in SUBSET Nat
        OBVIOUS
  <2> HIDE DEF Bad
  <2>2. QED
        BY <1>2, <2>1, Least
<1>4. CASE m = 0
  <2> DEFINE e == [i \in L + 1 .. L + 1 |-> 0]
  <2>1. Ending(s, e, (L + 1) - m)
        BY <1>1, <1>4 DEF Ending, EndAt
  <2>2. QED
        BY <2>1
<1>5. CASE m # 0
  <2> DEFINE i == (L + 1) - m
  <2>1. m \in Nat /\ m - 1 \in 0 .. L /\ ~ (m <= m - 1) /\ (L + 1) - (m - 1) = i + 1
        BY <1>1, <1>5
  <2>2. i \in 1 .. L
        BY <1>1, <1>5
  <2>3. m - 1 \notin Bad
        BY <1>3, <2>1
  <2>4. PICK e : Ending(s, e, i + 1)
        BY <2>1, <2>3
  <2> DEFINE f == [j \in i .. L + 1 |-> IF j = i THEN EndAt(s, e, i) ELSE e[j]]
  <2>5. ASSUME NEW j \in i .. L + 1 PROVE f[j] = EndAt(s, f, j)
    <3>1. LinkWords(s[j]) \in Nat
          BY LinkSizes
    <3>2. j \in Nat /\ j >= i
          BY <2>2
    <3>3. j + LinkWords(s[j]) <= L =>
            f[j + LinkWords(s[j]) + 1] = e[j + LinkWords(s[j]) + 1]
          BY <1>1, <2>2, <3>1, <3>2
    <3>4. EndAt(s, f, j) = EndAt(s, e, j)
      <4>1. CASE j + LinkWords(s[j]) <= L
            BY <3>3, <4>1 DEF EndAt
      <4>2. CASE j + LinkWords(s[j]) > L
            BY <4>2 DEF EndAt
      <4>3. QED
            BY <1>1, <3>1, <3>2, <4>1, <4>2
    <3>5. CASE j = i
          BY <3>4, <3>5
    <3>6. CASE j # i
      <4>1. j \in i + 1 .. L + 1
            BY <2>2, <3>6
      <4>2. e[j] = EndAt(s, e, j)
            BY <2>4, <4>1 DEF Ending
      <4>3. QED
            BY <3>4, <3>6, <4>2
    <3>7. QED
          BY <3>5, <3>6
  <2> HIDE DEF f
  <2>6. Ending(s, f, i)
        BY <2>5 DEF Ending
  <2>7. QED
        BY <2>6
<1>6. QED
      BY <1>4, <1>5

\* A list ends at 0, which refuses it, or behind where it began.
LEMMA EndingType ==
  ASSUME NEW s \in Seq(Words), NEW e, Ending(s, e, 1)
  PROVE  \A i \in 1 .. Len(s) + 1 : e[i] = 0 \/ e[i] \in i .. Len(s)
<1> DEFINE L == Len(s)
           Bad == {d \in 0 .. L : ~ (e[(L + 1) - d] = 0 \/ e[(L + 1) - d] \in (L + 1) - d .. L)}
<1>1. L \in Nat
      OBVIOUS
<1>2. SUFFICES ASSUME Bad # {} PROVE FALSE
  <2>1. ASSUME NEW i \in 1 .. L + 1 PROVE e[i] = 0 \/ e[i] \in i .. L
    <3>1. (L + 1) - i \in 0 .. L /\ (L + 1) - ((L + 1) - i) = i
          BY <1>1
    <3>2. QED
          BY <3>1
  <2>2. QED
        BY <2>1
<1>3. PICK m \in Bad : \A k \in Bad : m <= k
  <2>1. Bad \in SUBSET Nat
        OBVIOUS
  <2> HIDE DEF Bad
  <2>2. QED
        BY <1>2, <2>1, Least
<1> DEFINE i == (L + 1) - m
           j == i + LinkWords(s[i]) + 1
<1>4. m \in 0 .. L /\ i \in 1 .. L + 1 /\ i \in Nat
      BY <1>1
<1>5. e[i] = EndAt(s, e, i)
      BY <1>4 DEF Ending
<1>6. LinkWords(s[i]) \in Nat
      BY LinkSizes
<1>7. CASE i + LinkWords(s[i]) <= L /\ e[i] = e[j]
  <2>1. (L + 1) - j \in 0 .. L /\ ~ (m <= (L + 1) - j) /\ (L + 1) - ((L + 1) - j) = j
        BY <1>1, <1>4, <1>6, <1>7
  <2>2. (L + 1) - j \notin Bad
        BY <1>3, <2>1
  <2>3. e[j] = 0 \/ e[j] \in j .. L
        BY <2>1, <2>2
  <2>4. e[i] = 0 \/ e[i] \in i .. L
        BY <1>1, <1>4, <1>6, <1>7, <2>3
  <2>5. QED
        BY <1>3, <2>4
<1>8. CASE e[i] = 0 \/ (e[i] = i /\ i <= L)
  <2>1. e[i] = 0 \/ e[i] \in i .. L
        BY <1>1, <1>4, <1>8
  <2>2. QED
        BY <1>3, <2>1
<1>9. QED
      BY <1>1, <1>4, <1>5, <1>6, <1>7, <1>8 DEF EndAt

LEMMA ListWordsIs ==
  ASSUME NEW s \in Seq(Words)
  PROVE  \E e : /\ Ending(s, e, 1)
                /\ ListWords(s) = IF ListStart > Len(s) THEN 0 ELSE e[ListStart]
<1> DEFINE end[i \in 1 .. Len(s) + 1] ==
             IF i > Len(s) THEN 0
             ELSE IF ~ HasPolygon(s[i]) THEN i
             ELSE IF i + LinkWords(s[i]) > Len(s) THEN 0
             ELSE end[i + LinkWords(s[i]) + 1]
<1>1. ListWords(s) = IF ListStart > Len(s) THEN 0 ELSE end[ListStart]
      BY DEF ListWords
<1>2. Ending(s, end, 1)
  <2> DEFINE Rule(f) == [i \in 1 .. Len(s) + 1 |->
               IF i > Len(s) THEN 0
               ELSE IF ~ HasPolygon(s[i]) THEN i
               ELSE IF i + LinkWords(s[i]) > Len(s) THEN 0
               ELSE f[i + LinkWords(s[i]) + 1]]
  <2>1. \E f : f = Rule(f)
    <3>1. PICK e : Ending(s, e, 1)
          BY EndingExists
    <3> DEFINE f == [i \in 1 .. Len(s) + 1 |-> e[i]]
    <3>2. ASSUME NEW i \in 1 .. Len(s) + 1 PROVE f[i] = EndAt(s, f, i)
      <4>1. e[i] = EndAt(s, e, i)
            BY <3>1 DEF Ending
      <4>2. LinkWords(s[i]) \in Nat /\ Len(s) \in Nat
            BY LinkSizes
      <4>3. QED
            BY <4>1, <4>2 DEF EndAt
    <3>3. f = [i \in 1 .. Len(s) + 1 |-> EndAt(s, f, i)]
      <4>1. \A i \in 1 .. Len(s) + 1 : f[i] = EndAt(s, f, i)
            BY <3>2
      <4> DEFINE h == [i \in 1 .. Len(s) + 1 |-> EndAt(s, f, i)]
      <4>2. DOMAIN f = DOMAIN h /\ \A i \in DOMAIN f : f[i] = h[i]
            BY <4>1
      <4>3. QED
            BY <4>2
    <3>4. f = Rule(f)
          BY <3>3 DEF EndAt
    <3>5. QED
          BY <3>4
  <2>2. end = Rule(end)
        BY <2>1
  <2>3. QED
        BY <2>2 DEF Ending, EndAt
<1> HIDE DEF end
<1>3. QED
      BY <1>1, <1>2

LEMMA ListWordsType ==
  ASSUME NEW s \in Seq(Words)
  PROVE  /\ ListWords(s) \in Nat
         /\ ListWords(s) # 0 => ListStart <= ListWords(s) /\ ListWords(s) <= Len(s)
<1>1. PICK e : Ending(s, e, 1) /\ ListWords(s) = IF ListStart > Len(s) THEN 0 ELSE e[ListStart]
      BY ListWordsIs
<1>2. ListStart \in Nat /\ ListStart >= 1 /\ Len(s) \in Nat
      BY GeometryAssumption DEF ListStart
<1>3. CASE ListStart > Len(s)
      BY <1>1, <1>2, <1>3
<1>4. CASE ListStart <= Len(s)
  <2>1. ListStart \in 1 .. Len(s) + 1
        BY <1>2, <1>4
  <2>2. e[ListStart] = 0 \/ e[ListStart] \in ListStart .. Len(s)
        BY <1>1, <2>1, EndingType
  <2>3. QED
        BY <1>1, <1>2, <1>4, <2>2
<1>5. QED
      BY <1>2, <1>3, <1>4

\* What a prefix of the words keeps: the words and their number.
LEMMA PrefixFacts ==
  ASSUME NEW s \in Seq(Words), NEW m \in 0 .. Len(s)
  PROVE  /\ SubSeq(s, 1, m) \in Seq(Words) /\ Len(SubSeq(s, 1, m)) = m
         /\ \A i \in 1 .. m : SubSeq(s, 1, m)[i] = s[i]
<1>1. \A i \in 1 .. m : s[i] \in Words
      OBVIOUS
<1>2. m \in Int /\ 1 \in Int
      OBVIOUS
<1>3. /\ SubSeq(s, 1, m) \in Seq(Words)
      /\ Len(SubSeq(s, 1, m)) = IF 1 <= m THEN m - 1 + 1 ELSE 0
      /\ \A i \in 1 .. m - 1 + 1 : SubSeq(s, 1, m)[i] = s[1 + i - 1]
      BY <1>1, <1>2, SubSeqProperties
<1>4. QED
      BY <1>3

\* A list that ends inside a prefix ends there in the prefix.
LEMMA EndingPrefix ==
  ASSUME NEW s \in Seq(Words), NEW m \in 0 .. Len(s), NEW e, Ending(s, e, 1),
         NEW f, Ending(SubSeq(s, 1, m), f, 1)
  PROVE  \A i \in 1 .. m : e[i] \in 1 .. m => f[i] = e[i]
<1> DEFINE p == SubSeq(s, 1, m)
           Bad == {d \in 0 .. m : m - d \in 1 .. m /\ e[m - d] \in 1 .. m /\ f[m - d] # e[m - d]}
<1>1. p \in Seq(Words) /\ Len(p) = m /\ \A i \in 1 .. m : p[i] = s[i]
      BY PrefixFacts
<1>2. m \in Nat /\ Len(s) \in Nat /\ m <= Len(s)
      OBVIOUS
<1> HIDE DEF p
<1>3. SUFFICES ASSUME Bad # {} PROVE FALSE
  <2>1. ASSUME NEW i \in 1 .. m, e[i] \in 1 .. m PROVE f[i] = e[i]
    <3>1. m - i \in 0 .. m /\ m - (m - i) = i
          BY <1>2
    <3>2. QED
          BY <2>1, <3>1
  <2>2. QED
        BY <2>1
<1>4. PICK d \in Bad : \A k \in Bad : d <= k
  <2>1. Bad \in SUBSET Nat
        OBVIOUS
  <2> HIDE DEF Bad
  <2>2. QED
        BY <1>3, <2>1, Least
<1> DEFINE i == m - d
           j == i + LinkWords(s[i]) + 1
<1>5. d \in 0 .. m /\ i \in 1 .. m /\ i \in Nat /\ e[i] \in 1 .. m /\ f[i] # e[i]
      BY <1>2
<1>6. p[i] = s[i] /\ LinkWords(s[i]) \in Nat /\ j \in Nat /\ j > i
      BY <1>1, <1>5, LinkSizes, SMTT(40)
<1>7. e[i] = EndAt(s, e, i)
      BY <1>2, <1>5 DEF Ending
<1>8. f[i] = EndAt(p, f, i)
      BY <1>1, <1>2, <1>5 DEF Ending, p
<1>9. HasPolygon(s[i]) /\ i + LinkWords(s[i]) <= Len(s) /\ e[i] = e[j]
  <2>1. CASE ~ HasPolygon(s[i])
        BY <1>1, <1>2, <1>5, <1>6, <1>7, <1>8, <2>1 DEF EndAt
  <2>2. CASE HasPolygon(s[i])
        BY <1>2, <1>5, <1>6, <1>7, <2>2 DEF EndAt
  <2>3. QED
        BY <2>1, <2>2
<1>10. j <= m
  <2>1. e[j] = 0 \/ e[j] \in j .. Len(s)
    <3>1. j \in 1 .. Len(s) + 1
          BY <1>2, <1>5, <1>6, <1>9
    <3>2. QED
          BY <3>1, EndingType
  <2>2. QED
        BY <1>2, <1>5, <1>6, <1>9, <2>1
<1>11. f[i] = f[j]
      BY <1>1, <1>2, <1>5, <1>6, <1>8, <1>9, <1>10 DEF EndAt
<1>12. f[j] = e[j]
  <2>1. m - j \in 0 .. m /\ m - (m - j) = j /\ ~ (d <= m - j) /\ j \in 1 .. m
    <3>1. i = m - d /\ d \in Nat
          BY <1>5
    <3> HIDE DEF i, j
    <3>2. QED
          BY <1>2, <1>5, <1>6, <1>10, <3>1
  <2>2. m - j \notin Bad
        BY <1>4, <2>1
  <2>3. QED
        BY <1>5, <1>9, <2>1, <2>2
<1>13. QED
      BY <1>5, <1>9, <1>11, <1>12

LEMMA ListWordsPrefix ==
  ASSUME NEW s \in Seq(Words), NEW m \in 0 .. Len(s), ListWords(s) \in 1 .. m
  PROVE  ListWords(SubSeq(s, 1, m)) = ListWords(s)
<1> DEFINE p == SubSeq(s, 1, m)
<1>1. p \in Seq(Words) /\ Len(p) = m
      BY PrefixFacts
<1> HIDE DEF p
<1>2. PICK e : Ending(s, e, 1) /\ ListWords(s) = IF ListStart > Len(s) THEN 0 ELSE e[ListStart]
      BY ListWordsIs
<1>3. PICK f : Ending(p, f, 1) /\ ListWords(p) = IF ListStart > Len(p) THEN 0 ELSE f[ListStart]
      BY <1>1, ListWordsIs
<1>4. ListStart \in Nat /\ ListStart >= 1 /\ ListStart <= m
      BY GeometryAssumption, ListWordsType DEF ListStart
<1>5. ListWords(s) = e[ListStart] /\ ListWords(p) = f[ListStart]
      BY <1>1, <1>2, <1>3, <1>4
<1>6. f[ListStart] = e[ListStart]
      BY <1>2, <1>3, <1>4, <1>5, EndingPrefix DEF p
<1>7. QED
      BY <1>5, <1>6 DEF p

LEMMA ClassType ==
  ASSUME NEW w \in Words
  PROVE  Class(w) \in 0 .. 31 /\ Value(w) \in Nat
<1>1. w.high \in 0 .. 255 /\ w.low \in Nat
      BY DEF Words
<1>2. Class(w) \in 0 .. 31
      BY <1>1 DEF Class
<1>3. 2^20 \in Nat
      OBVIOUS
<1>4. Value(w) \in Nat
      BY <1>1, <1>3 DEF Value, TooMany
<1>5. QED
      BY <1>2, <1>4

\* The classes whose length is a number of the class alone.
Fixed == (0 .. 31) \ {2, 4, 5, 6, 20, 21}

LEMMA RequiredType ==
  ASSUME NEW s \in Seq(Words), s # <<>>
  PROVE  Required(s) \in Nat
<1> DEFINE class == Class(s[1])
<1>1. s[1] \in Words /\ class \in 0 .. 31 /\ Len(s) \in Nat
  <2>1. Len(s) \in Nat \ {0}
        BY EmptySeq
  <2>2. s[1] \in Words
        BY <2>1
  <2>3. QED
        BY <2>1, <2>2, ClassType
<1>2. Sized(s, 1) \in Nat /\ Sized(s, 2) \in Nat
  <2>1. CASE Len(s) < 3
        BY <2>1 DEF Sized
  <2>2. CASE Len(s) >= 3
    <3>1. Value(s[3]) \in Nat
          BY <2>2, ClassType
    <3>2. QED
          BY <1>1, <2>2, <3>1 DEF Sized
  <2>3. QED
        BY <1>1, <2>1, <2>2
<1>3. ListWords(s) \in Nat /\ 1 + 4 * PointWords \in Nat
      BY ListWordsType, GeometryAssumption
<1>4. QED
      BY <1>1, <1>2, <1>3 DEF Required

LEMMA CommandWordsType ==
  ASSUME NEW s \in Seq(Words), s # <<>>
  PROVE  CommandWords(s) \in 0 .. Len(s)
BY RequiredType DEF CommandWords

\* A command that is whole in a prefix of the words has its length there.
LEMMA CommandWordsPrefix ==
  ASSUME NEW s \in Seq(Words), NEW m \in 1 .. Len(s), CommandWords(s) \in 1 .. m
  PROVE  CommandWords(SubSeq(s, 1, m)) = CommandWords(s)
<1> DEFINE p == SubSeq(s, 1, m)
           class == Class(s[1])
<1>1. p \in Seq(Words) /\ Len(p) = m /\ \A i \in 1 .. m : p[i] = s[i]
      BY PrefixFacts
<1>2. p[1] = s[1] /\ class \in 0 .. 31
  <2>1. 1 \in 1 .. m /\ s[1] \in Words
        OBVIOUS
  <2> HIDE DEF p
  <2>2. QED
        BY <1>1, <2>1, ClassType
<1>3. Required(s) \in 1 .. m /\ ~ s[1].top /\ CommandWords(s) = Required(s)
      BY DEF CommandWords
<1> HIDE DEF p
<1>4. Required(p) = Required(s)
  <2>1. CASE class = 2
    <3>1. Required(s) = ListWords(s) /\ Required(p) = ListWords(p)
          BY <1>2, <2>1 DEF Required
    <3>2. QED
          BY <1>3, <3>1, ListWordsPrefix DEF p
  <2>2. CASE class \in {4, 5, 6, 20, 21}
    <3> DEFINE unit == IF class = 6 THEN 2 ELSE 1
    <3>1. Required(s) = Sized(s, unit) /\ Required(p) = Sized(p, unit)
          BY <1>2, <2>2 DEF Required
    <3>2. Len(s) >= 3 /\ Required(s) = 3 + unit * Value(s[3])
          BY <1>3, <3>1 DEF Sized
    <3>3. Value(s[3]) \in Nat
          BY <3>2, ClassType
    <3>4. m >= 3
          BY <1>3, <3>2, <3>3
    <3>5. p[3] = s[3]
          BY <1>1, <3>4
    <3>6. QED
          BY <1>1, <3>1, <3>2, <3>4, <3>5 DEF Sized
  <2>3. CASE class \in Fixed
        BY <1>2, <2>3 DEF Fixed, Required
  <2>4. QED
        BY <1>2, <2>1, <2>2, <2>3 DEF Fixed
<1>5. QED
      BY <1>1, <1>2, <1>3, <1>4 DEF CommandWords, p
-------------------------------------------------------------------------------
(* Polygons.                                                               *)

LinkStates ==
  [at : Nat, triangles : Nat, links : Nat,
   why : {"running", "ok", "framing", "bounds", "invalid"}]

LEMMA Settled ==
  ASSUME NEW r \in LinkStates, NEW at \in Nat, NEW why \in {"ok", "framing", "bounds"}
  PROVE  /\ [r EXCEPT !.why = why] \in LinkStates
         /\ [r EXCEPT !.at = at, !.why = why] \in LinkStates
BY DEF LinkStates

LEMMA PolygonType ==
  ASSUME NEW carried, NEW fresh, Len(fresh) \in Nat, NEW open
  PROVE  LET p == Polygon(carried, fresh, open) IN
         p.triangles \in Nat /\ p.why \in {"ok", "invalid"}
<1>1. Len(fresh) \div PointWords \in Nat
      BY GeometryAssumption
<1> DEFINE a == ~ open \/ ~ AllNumbers(carried \o SubSeq(fresh, 1, PointWords))
           b == ~ AllNumbers(fresh)
<1>2. Polygon(carried, fresh, open) =
        CASE a -> [triangles |-> 0, why |-> "invalid"]
          [] b -> [triangles |-> 1, why |-> "invalid"]
          [] OTHER -> [triangles |-> Len(fresh) \div PointWords, why |-> "ok"]
      BY DEF Polygon
<1> HIDE DEF a, b
<1>3. QED
      BY <1>1, <1>2

LEMMA DrawType ==
  ASSUME NEW r \in LinkStates, NEW carried, NEW fresh, Len(fresh) \in Nat,
         NEW next \in Nat, NEW open
  PROVE  LET d == Draw(r, carried, fresh, next, open) IN
         d \in LinkStates /\ d.at = next /\ d.why \in {"running", "invalid"}
<1> DEFINE p == Polygon(carried, fresh, open)
<1>1. p.triangles \in Nat /\ p.why \in {"ok", "invalid"}
      BY PolygonType
<1> HIDE DEF p
<1>2. QED
      BY <1>1 DEF Draw, LinkStates, p

LEMMA SubSeqLen ==
  ASSUME NEW s, NEW m \in Int, NEW n \in Int
  PROVE  Len(SubSeq(s, m, n)) \in Nat
<1> DEFINE S == {s[i] : i \in m .. n}
<1>1. \A i \in m .. n : s[i] \in S
      OBVIOUS
<1> HIDE DEF S
<1>2. Len(SubSeq(s, m, n)) = IF m <= n THEN n - m + 1 ELSE 0
      BY <1>1, SubSeqProperties
<1>3. QED
      BY <1>2

LEMMA LinkPointsLen ==
  ASSUME NEW s, NEW at \in Nat, NEW attribute
  PROVE  Len(Points(s, at + 3, LinkPoints(attribute))) \in Nat
<1> DEFINE upto == at + 3 + LinkPoints(attribute) * PointWords - 1
<1>1. at + 3 \in Int /\ upto \in Int
      BY LinkSizes
<1>2. Points(s, at + 3, LinkPoints(attribute)) = SubSeq(s, at + 3, upto)
      BY DEF Points
<1> HIDE DEF upto
<1>3. QED
      BY <1>1, <1>2, SubSeqLen

LEMMA DirectStepType ==
  ASSUME NEW s \in Seq(Words), NEW open, NEW r \in LinkStates
  PROVE  DirectStep(s, open, r) \in LinkStates
<1> DEFINE attribute == s[r.at]
           fresh == Points(s, r.at + 3, LinkPoints(attribute))
           next == r.at + LinkWords(attribute) + 1
<1>1. LinkWords(attribute) \in Nat /\ LinkPoints(attribute) * PointWords \in Nat
      BY LinkSizes
<1>2. r.at \in Nat /\ next \in Nat
      BY <1>1, SMTT(40) DEF LinkStates
<1>3. Len(fresh) \in Nat
      BY <1>2, LinkPointsLen
<1>4. Draw(r, Points(s, 4, 2), fresh, next, open) \in LinkStates
      BY <1>2, <1>3, DrawType
<1>5. /\ [r EXCEPT !.why = "ok"] \in LinkStates
      /\ [r EXCEPT !.at = @ + 1, !.why = "ok"] \in LinkStates
      /\ [r EXCEPT !.why = "framing"] \in LinkStates
  <2>1. r.at + 1 \in Nat
        BY <1>2
  <2> HIDE DEF next, fresh, attribute
  <2>2. QED
        BY <2>1, Settled
<1>6. QED
      BY <1>4, <1>5 DEF DirectStep

LEMMA DirectRun ==
  ASSUME NEW s \in Seq(Words), NEW open
  PROVE  \E g \in [0 .. Len(s) -> LinkStates] :
           /\ g[0] = [Walk EXCEPT !.at = ListStart]
           /\ \A k \in 1 .. Len(s) : g[k] = DirectStep(s, open, g[k - 1])
           /\ Direct(s, open) = g[Len(s)]
<1> DEFINE n == Len(s)
           start == [Walk EXCEPT !.at = ListStart]
           F == [r \in LinkStates |-> DirectStep(s, open, r)]
           after[k \in 0 .. n] == IF k = 0 THEN start ELSE DirectStep(s, open, after[k - 1])
<1>1. n \in Nat /\ start \in LinkStates
      BY GeometryAssumption DEF Walk, LinkStates, ListStart
<1>2. F \in [LinkStates -> LinkStates]
      BY DirectStepType
<1>3. PICK g \in [0 .. n -> LinkStates] : Goes(g, F, LinkStates, start, n)
  <2> HIDE DEF start, F, n
  <2>1. QED
        BY <1>1, <1>2, Orbit
<1>4. \A k \in 1 .. n : k - 1 \in 0 .. n /\ k # 0 /\ k \in 0 .. n
      BY <1>1
<1>5. \A k \in 1 .. n : g[k - 1] \in LinkStates
      BY <1>4
<1>6. g[0] = start /\ \A k \in 1 .. n : g[k] = DirectStep(s, open, g[k - 1])
      BY <1>3, <1>5 DEF Goes
<1>7. after = [k \in 0 .. n |-> IF k = 0 THEN start ELSE DirectStep(s, open, after[k - 1])]
  <2>1. g = [k \in 0 .. n |-> IF k = 0 THEN start ELSE DirectStep(s, open, g[k - 1])]
    <3>1. \A k \in 0 .. n : k = 0 \/ k \in 1 .. n
          BY <1>1
    <3>2. \A k \in 0 .. n : g[k] = IF k = 0 THEN start ELSE DirectStep(s, open, g[k - 1])
          BY <1>6, <3>1
    <3>3. QED
          BY <3>2
  <2>2. QED
        BY <2>1
<1>8. Direct(s, open) = after[n]
      BY DEF Direct, Repeat
<1> HIDE DEF after, start, n
<1>9. Follows(after, F, LinkStates, start, n)
      BY <1>1, <1>4, <1>7 DEF Follows
<1> HIDE DEF F
<1>10. after[n] = g[n]
  <2>1. n \in Nat
        BY <1>1
  <2>2. Goes(g, F, LinkStates, start, n)
        BY <1>3
  <2>3. Follows(after, F, LinkStates, start, n)
        BY <1>9
  <2>4. QED
        BY <2>1, <2>2, <2>3, SameOrbit
<1>11. Direct(s, open) = g[n]
      BY <1>1, <1>8, <1>10
<1>12. QED
      BY <1>6, <1>11 DEF start, n

\* A list that is cut by its length ends where the walk does: no link is found
\* too short.
LEMMA DirectStops ==
  ASSUME NEW s \in Seq(Words), Len(s) > 0, ListWords(s) = Len(s), NEW open
  PROVE  LET d == Direct(s, open) IN
         d.triangles \in Nat /\ d.why \in {"ok", "invalid"}
<1>1. Len(s) \in Nat /\ ListStart \in Nat /\ ListStart >= 1
      BY GeometryAssumption DEF ListStart
<1>2. PICK e : Ending(s, e, 1) /\ ListWords(s) = IF ListStart > Len(s) THEN 0 ELSE e[ListStart]
      BY ListWordsIs
<1>3. ListStart <= Len(s) /\ e[ListStart] = Len(s)
      BY <1>1, <1>2
<1>4. PICK g \in [0 .. Len(s) -> LinkStates] :
           /\ g[0] = [Walk EXCEPT !.at = ListStart]
           /\ \A k \in 1 .. Len(s) : g[k] = DirectStep(s, open, g[k - 1])
           /\ Direct(s, open) = g[Len(s)]
      BY DirectRun
<1> DEFINE Going(k) == /\ g[k].why = "running"
                       /\ g[k].at >= ListStart + k /\ g[k].at <= Len(s)
                       /\ e[g[k].at] = Len(s)
           G == {k \in Nat : g[k].why \in {"ok", "invalid"} \/ Going(k)}
<1>5. 0 \in G
      BY <1>1, <1>3, <1>4 DEF Walk
<1>6. ASSUME NEW k \in 1 .. Len(s), k - 1 \in G PROVE k \in G
  <2> DEFINE r == g[k - 1]
             attribute == s[r.at]
             next == r.at + LinkWords(attribute) + 1
  <2>1. k \in Nat /\ k - 1 \in 0 .. Len(s) /\ r \in LinkStates /\ r.at \in Nat
    <3>1. k \in Nat /\ k - 1 \in 0 .. Len(s)
          BY <1>1
    <3>2. r \in LinkStates
          BY <3>1
    <3>3. QED
          BY <3>1, <3>2 DEF LinkStates
  <2>2. g[k] = DirectStep(s, open, r)
        BY <1>4
  <2>3. CASE r.why \in {"ok", "invalid"}
    <3>1. g[k] = r
          BY <2>2, <2>3 DEF DirectStep
    <3>2. QED
          BY <2>1, <2>3, <3>1
  <2>4. CASE Going(k - 1)
    <3>1. r.why = "running" /\ r.at >= ListStart + (k - 1) /\ r.at <= Len(s) /\ e[r.at] = Len(s)
          BY <2>4
    <3>2. r.at \in 1 .. Len(s) + 1 /\ r.at \in 1 .. Len(s)
          BY <1>1, <2>1, <3>1
    <3>3. Len(s) = EndAt(s, e, r.at)
          BY <1>2, <3>1, <3>2 DEF Ending
    <3>4. CASE ~ HasPolygon(attribute)
      <4>1. g[k].why = "ok"
            BY <1>1, <2>1, <2>2, <3>1, <3>4 DEF DirectStep, LinkStates
      <4>2. QED
            BY <2>1, <4>1
    <3>5. CASE HasPolygon(attribute)
      <4>1. LinkWords(attribute) \in Nat /\ LinkWords(attribute) >= 3
            BY LinkSizes
      <4>2. r.at + LinkWords(attribute) <= Len(s) /\ e[next] = Len(s)
            BY <1>1, <2>1, <3>1, <3>3, <3>5, <4>1 DEF EndAt
      <4>3. next \in 1 .. Len(s) + 1 /\ next >= ListStart + k
            BY <1>1, <2>1, <3>1, <4>1, <4>2, SMTT(40)
      <4>4. next <= Len(s)
        <5>1. e[next] = 0 \/ e[next] \in next .. Len(s)
              BY <1>2, <4>3, EndingType
        <5>2. QED
              BY <1>1, <4>2, <4>3, <5>1
      <4> DEFINE fresh == Points(s, r.at + 3, LinkPoints(attribute))
      <4>5. g[k] = Draw(r, Points(s, 4, 2), fresh, next, open)
            BY <1>1, <2>1, <2>2, <3>1, <3>5, <4>1, <4>2, SMTT(40) DEF DirectStep
      <4>6. Len(fresh) \in Nat
            BY <2>1, LinkPointsLen
      <4>7. g[k].at = next /\ g[k].why \in {"running", "invalid"}
        <5>1. next \in Nat
              BY <2>1, <4>1
        <5> HIDE DEF next, fresh, r
        <5>2. QED
              BY <2>1, <4>5, <4>6, <5>1, DrawType
      <4> HIDE DEF next, r
      <4>8. QED
            BY <2>1, <4>2, <4>3, <4>4, <4>7
    <3>6. QED
          BY <3>4, <3>5
  <2>5. QED
        BY <1>6, <2>3, <2>4
<1> HIDE DEF G
<1>7. Len(s) \in G
  <2>1. \A k \in 0 .. Len(s) : k \in G
        BY <1>1, <1>5, <1>6, Inductive
  <2>2. QED
        BY <1>1, <2>1
<1>8. g[Len(s)].why \in {"ok", "invalid"}
      BY <1>1, <1>7 DEF G
<1>9. g[Len(s)] \in LinkStates
      BY <1>1
<1>10. QED
      BY <1>4, <1>8, <1>9 DEF LinkStates

\* What a link of an object leaves; it is never found too short.
ObjectStates == {r \in LinkStates : r.why # "framing"}

LEMMA ReadLen ==
  ASSUME NEW t, NEW address, NEW from, NEW n \in Nat
  PROVE  Len(Read(t, address, from, n)) \in Nat
<1> DEFINE word(i) == IF FromRom(address) THEN Rom[1 + ((address.low + from + i - 1) % Len(Rom))]
                      ELSE t.ram[Bank(address)][(address.low % RamWords) + from + i - 1]
<1>1. Read(t, address, from, n) = [i \in 1 .. n |-> word(i)]
      BY DEF Read
<1> HIDE DEF word
<1>2. Len([i \in 1 .. n |-> word(i)]) = n
      OBVIOUS
<1>3. QED
      BY <1>1, <1>2

LEMMA ObjectStepType ==
  ASSUME NEW t, NEW command, NEW open, NEW r \in ObjectStates
  PROVE  ObjectStep(t, command, open, r) \in ObjectStates
<1> DEFINE source == command[4]
           attribute == Read(t, source, r.at, 1)[1]
           normal == IF t.mode.low % 4 < 2 THEN PointWords ELSE 0
           fresh == r.at + 1 + normal
           size == LinkPoints(attribute) * PointWords
           drawn == Draw(r, Read(t, source, 0, 2 * PointWords), Read(t, source, fresh, size),
                         fresh + size, open)
<1>1. r \in LinkStates /\ r.at \in Nat
      BY DEF ObjectStates, LinkStates
<1>2. normal \in Nat /\ size \in Nat
      BY LinkSizes, GeometryAssumption
<1>3. fresh + size \in Nat /\ Len(Read(t, source, fresh, size)) \in Nat
      BY <1>1, <1>2, ReadLen, SMTT(40)
<1>4. drawn \in LinkStates /\ drawn.why # "framing"
  <2> DEFINE next == fresh + size
             words == Read(t, source, fresh, size)
             carried == Read(t, source, 0, 2 * PointWords)
  <2>1. next \in Nat /\ Len(words) \in Nat /\ drawn = Draw(r, carried, words, next, open)
        BY <1>3
  <2> HIDE DEF next, words, carried, drawn
  <2>2. QED
        BY <1>1, <2>1, DrawType
<1>5. ASSUME NEW why \in {"ok", "bounds"} PROVE [r EXCEPT !.why = why] \in ObjectStates
  <2>1. [r EXCEPT !.why = why] \in LinkStates
        BY <1>1, Settled
  <2>2. [r EXCEPT !.why = why].why = why
        BY <1>1 DEF LinkStates
  <2>3. QED
        BY <2>1, <2>2 DEF ObjectStates
<1>6. ObjectStep(t, command, open, r) \in
        {r, [r EXCEPT !.why = "ok"], [r EXCEPT !.why = "bounds"], drawn}
      BY DEF ObjectStep
<1> HIDE DEF drawn
<1>7. QED
      BY <1>4, <1>5, <1>6 DEF ObjectStates

\* An object ends well, out of bounds or with a polygon refused.
LEMMA ObjectStops ==
  ASSUME NEW t, NEW command, NEW open
  PROVE  LET d == Object(t, command, open) IN
         d.triangles \in Nat /\ d.why \in {"ok", "bounds", "invalid"}
<1> DEFINE n == RamWords + Len(Rom)
           start == [Walk EXCEPT !.at = 2 * PointWords]
           F == [r \in ObjectStates |-> ObjectStep(t, command, open, r)]
           after[k \in 0 .. n] ==
             IF k = 0 THEN start ELSE ObjectStep(t, command, open, after[k - 1])
<1>1. n \in Nat
      BY GeometryAssumption
<1>2. start \in ObjectStates
      BY GeometryAssumption DEF Walk, LinkStates, ObjectStates
<1>3. F \in [ObjectStates -> ObjectStates]
      BY ObjectStepType
<1>4. PICK g \in [0 .. n -> ObjectStates] : Goes(g, F, ObjectStates, start, n)
  <2> HIDE DEF start, F, n
  <2>1. QED
        BY <1>1, <1>2, <1>3, Orbit
<1>5. \A k \in 1 .. n : k - 1 \in 0 .. n /\ k # 0 /\ k \in 0 .. n
      BY <1>1
<1>6. g[0] = start /\ \A k \in 1 .. n : g[k] = ObjectStep(t, command, open, g[k - 1])
  <2>1. \A k \in 1 .. n : g[k - 1] \in ObjectStates
        BY <1>5
  <2>2. QED
        BY <1>4, <2>1 DEF Goes
<1>7. after = [k \in 0 .. n |->
                 IF k = 0 THEN start ELSE ObjectStep(t, command, open, after[k - 1])]
  <2>1. \A k \in 0 .. n : k = 0 \/ k \in 1 .. n
        BY <1>1
  <2>2. \A k \in 0 .. n :
          g[k] = IF k = 0 THEN start ELSE ObjectStep(t, command, open, g[k - 1])
        BY <1>6, <2>1
  <2>3. g = [k \in 0 .. n |->
               IF k = 0 THEN start ELSE ObjectStep(t, command, open, g[k - 1])]
        BY <2>2
  <2>4. QED
        BY <2>3
<1>8. Object(t, command, open) =
        IF ~ Readable(t, command[4], 0, 2 * PointWords) THEN [Walk EXCEPT !.why = "bounds"]
        ELSE [after[n] EXCEPT !.why = IF @ = "running" THEN "ok" ELSE @]
      BY DEF Object, Repeat
<1> HIDE DEF after, start, n
<1>9. after[0] = start
      BY <1>1, <1>7
<1>10. Follows(after, F, ObjectStates, start, n)
      BY <1>5, <1>7, <1>9 DEF Follows
<1>11. after[n] \in ObjectStates
  <2> HIDE DEF F
  <2>1. after[n] = g[n]
    <3>1. Goes(g, F, ObjectStates, start, n)
          BY <1>4
    <3>2. QED
          BY <1>1, <1>10, <3>1, SameOrbit
  <2>2. n \in 0 .. n
        BY <1>1
  <2>3. QED
        BY <2>1, <2>2
<1>12. QED
      BY <1>8, <1>11 DEF ObjectStates, LinkStates, Walk
-------------------------------------------------------------------------------
(* Execution.                                                              *)

LEMMA InitTgpType == InitTgp \in Tgp
<1>1. Zero \in Words
      BY DEF Zero, Words
<1>2. [b \in {0, 1} |-> [i \in 0 .. RamWords - 1 |-> Zero]]
        \in [{0, 1} -> [0 .. RamWords - 1 -> Words]]
      BY <1>1
<1>3. <<>> \in Seq(Words)
      OBVIOUS
<1>4. QED
      BY <1>1, <1>2, <1>3 DEF InitTgp, Tgp

LEMMA WordFields ==
  ASSUME NEW w \in Words
  PROVE  w.high \in Nat /\ w.low \in Nat
BY DEF Words

LEMMA UploadType ==
  ASSUME NEW t \in Tgp, NEW c \in Seq(Words), Len(c) >= 3
  PROVE  Upload(t, c) \in Tgp
<1> DEFINE index == c[2].low % RamWords
           words == SubSeq(c, 4, Len(c))
           b == Bank(c[2])
           bank == [i \in 0 .. RamWords - 1 |->
                      IF i \in index .. index + Len(words) - 1 THEN words[i - index + 1]
                      ELSE t.ram[b][i]]
<1>1. c[2] \in Words /\ Len(c) \in Nat
      OBVIOUS
<1>2. b \in {0, 1} /\ index \in Nat
  <2>1. c[2].high \in Nat /\ c[2].low \in Nat
        BY <1>1, WordFields
  <2>2. b \in {0, 1}
        BY <2>1 DEF Bank
  <2>3. index \in Nat
        BY <2>1, GeometryAssumption
  <2>4. QED
        BY <2>2, <2>3
<1>3. words \in Seq(Words)
  <2>1. \A i \in 4 .. Len(c) : c[i] \in Words
        BY <1>1
  <2>2. 4 \in Int /\ Len(c) \in Int
        BY <1>1
  <2>3. QED
        BY <2>1, <2>2, SubSeqProperties
<1>4. t.ram \in [{0, 1} -> [0 .. RamWords - 1 -> Words]]
      BY DEF Tgp
<1>5. t.ram[b] \in [0 .. RamWords - 1 -> Words]
      BY <1>2, <1>4
<1>6. Upload(t, c) = [t EXCEPT !.ram[b] = bank]
      BY DEF Upload
<1> HIDE DEF words, index, b
<1>7. bank \in [0 .. RamWords - 1 -> Words]
  <2>1. ASSUME NEW i \in 0 .. RamWords - 1, i \in index .. index + Len(words) - 1
        PROVE  words[i - index + 1] \in Words
    <3>1. Len(words) \in Nat
          BY <1>3
    <3>2. i - index + 1 \in 1 .. Len(words)
          BY <1>2, <2>1, <3>1
    <3>3. QED
          BY <1>3, <3>2
  <2>2. QED
        BY <1>5, <2>1
<1> HIDE DEF bank
<1>8. [t.ram EXCEPT ![b] = bank] \in [{0, 1} -> [0 .. RamWords - 1 -> Words]]
      BY <1>2, <1>4, <1>7
<1>9. [t EXCEPT !.ram[b] = bank] = [t EXCEPT !.ram = [t.ram EXCEPT ![b] = bank]]
      BY DEF Tgp
<1>10. [t EXCEPT !.ram = [t.ram EXCEPT ![b] = bank]] \in Tgp
      BY <1>8 DEF Tgp
<1>11. QED
      BY <1>6, <1>9, <1>10

LEMMA SetType ==
  ASSUME NEW t \in Tgp, NEW c \in Seq(Words), c # <<>>, Required(c) = Len(c)
  PROVE  Set(t, c) \in Tgp
<1> DEFINE payload == Tail(c)
           class == Class(c[1])
           mode == [t EXCEPT !.mode = payload[1]]
           focus == [t EXCEPT !.focus = payload]
           matrix == [t EXCEPT !.rotation = Points(payload, 1, 3),
                                 !.translation = Points(payload, 1 + 3 * PointWords, 1)]
           moved == [t EXCEPT !.translation = payload]
<1>0. Set(t, c) = CASE class = 7  -> mode
                      [] class = 9  -> focus
                      [] class = 11 -> matrix
                      [] class = 12 -> moved
                      [] OTHER -> t
      BY DEF Set
<1>1. payload \in Seq(Words) /\ Len(payload) = Len(c) - 1 /\ Len(c) \in Nat
      BY HeadTailProperties
<1> HIDE DEF payload, mode, focus, matrix, moved, class
<1>2. CASE class = 7
  <2>1. Len(c) = 2
        BY <1>2 DEF Required, class
  <2>2. payload[1] \in Words
        BY <1>1, <2>1
  <2>3. Set(t, c) = mode
        BY <1>0, <1>2
  <2>4. QED
        BY <2>2, <2>3 DEF Tgp, mode
<1>3. CASE class = 9
  <2>1. Set(t, c) = focus
        BY <1>0, <1>3
  <2>2. QED
        BY <1>1, <2>1 DEF Tgp, focus
<1>4. CASE class = 12
  <2>1. Set(t, c) = moved
        BY <1>0, <1>4
  <2>2. QED
        BY <1>1, <2>1 DEF Tgp, moved
<1>5. CASE class = 11
  <2> DEFINE p == 3 * PointWords
             q == 4 * PointWords
             a == SubSeq(payload, 1, p)
             d == SubSeq(payload, p + 1, q)
  <2>1. Len(payload) = q /\ p \in Nat /\ q \in Nat /\ p <= q
    <3>1. Required(c) = 1 + 4 * PointWords
          BY <1>5 DEF Required, class
    <3>2. p \in Nat /\ q \in Nat /\ p <= q
          BY GeometryAssumption
    <3>3. QED
          BY <1>1, <3>1, <3>2
  <2>2. Points(payload, 1, 3) = a /\ Points(payload, 1 + 3 * PointWords, 1) = d
    <3>1. 1 + 3 * PointWords - 1 = p /\ 1 + 3 * PointWords = p + 1
             /\ 1 + 3 * PointWords + 1 * PointWords - 1 = q
          BY GeometryAssumption
    <3>2. QED
          BY <3>1 DEF Points
  <2> HIDE DEF p, q
  <2>3. \A i \in 1 .. q : payload[i] \in Words
        BY <1>1, <2>1
  <2>4. a \in Seq(Words) /\ d \in Seq(Words)
    <3>1. \A i \in 1 .. p : payload[i] \in Words
          BY <2>1, <2>3
    <3>2. \A i \in p + 1 .. q : payload[i] \in Words
          BY <2>1, <2>3
    <3>3. 1 \in Int /\ p \in Int /\ p + 1 \in Int /\ q \in Int
          BY <2>1
    <3>4. QED
          BY <3>1, <3>2, <3>3, SubSeqProperties
  <2> HIDE DEF a, d
  <2>5. Set(t, c) = [t EXCEPT !.rotation = a, !.translation = d]
    <3>1. Set(t, c) = matrix
          BY <1>0, <1>5
    <3>2. QED
          BY <2>2, <3>1 DEF matrix
  <2>6. QED
        BY <2>4, <2>5 DEF Tgp
<1>6. CASE class \notin {7, 9, 11, 12}
      BY <1>0, <1>6
<1>7. QED
      BY <1>2, <1>3, <1>4, <1>5, <1>6

\* A whole command ends well or is refused, and a refused one leaves the TGP
\* as it was.
LEMMA ExecuteCommandType ==
  ASSUME NEW t \in Tgp, NEW c \in Seq(Words), c # <<>>, CommandWords(c) = Len(c), NEW open
  PROVE  LET x == ExecuteCommand(t, c, open) IN
         /\ x.tgp \in Tgp /\ x.triangles \in Nat /\ x.why \in {"ok", "bounds", "invalid"}
         /\ x.why # "ok" => x.tgp = t
<1> DEFINE class == Class(c[1])
<1>1. Len(c) \in Nat \ {0}
      BY EmptySeq
<1>2. Required(c) = Len(c) /\ class \in 0 .. 31
  <2>1. c[1] \in Words
        BY <1>1
  <2>2. QED
        BY <1>1, <2>1, ClassType DEF CommandWords
<1>3. CASE class = 1
  <2>1. ExecuteCommand(t, c, open) = Pictured(t, Object(t, c, open))
        BY <1>3 DEF ExecuteCommand, Draws, Drawn
  <2>2. QED
        BY <2>1, ObjectStops DEF Pictured
<1>4. CASE class = 2
  <2>1. ExecuteCommand(t, c, open) = Pictured(t, Direct(c, open))
        BY <1>4 DEF ExecuteCommand, Draws, Drawn
  <2>2. ListWords(c) = Len(c)
        BY <1>2, <1>4 DEF Required
  <2>3. QED
        BY <1>1, <2>1, <2>2, DirectStops DEF Pictured
<1>5. CASE class \in {5, 21}
  <2>1. Draws(c) = FALSE /\ Uploads(c) = TRUE
        BY <1>5 DEF Draws, Uploads
  <2>2. Required(c) = Sized(c, 1)
        BY <1>5 DEF Required
  <2>3. Len(c) >= 3
        BY <1>1, <1>2, <2>2 DEF Sized
  <2>4. Upload(t, c) \in Tgp
        BY <2>3, UploadType
  <2>5. QED
        BY <2>1, <2>4 DEF ExecuteCommand
<1>6. CASE class \notin {1, 2, 5, 21}
  <2>1. Draws(c) = FALSE /\ Uploads(c) = FALSE
        BY <1>6 DEF Draws, Uploads
  <2>2. Set(t, c) \in Tgp
        BY <1>2, SetType
  <2>3. QED
        BY <2>1, <2>2 DEF ExecuteCommand
<1>7. QED
      BY <1>3, <1>4, <1>5, <1>6

LEMMA RestFacts ==
  ASSUME NEW s \in Seq(Words), NEW at \in 0 .. Len(s), at # Len(s)
  PROVE  /\ Rest(s, at) \in Seq(Words) /\ Rest(s, at) # <<>>
         /\ Len(Rest(s, at)) = Len(s) - at
         /\ \A i \in 1 .. Len(s) - at : Rest(s, at)[i] = s[at + i]
<1>1. \A i \in at + 1 .. Len(s) : s[i] \in Words
      OBVIOUS
<1>2. at + 1 \in Int /\ Len(s) \in Int /\ at + 1 <= Len(s)
      OBVIOUS
<1> DEFINE first == at + 1
<1>3. first = at + 1
      OBVIOUS
<1> HIDE DEF first
<1>4. /\ SubSeq(s, first, Len(s)) \in Seq(Words)
      /\ Len(SubSeq(s, first, Len(s))) = Len(s) - first + 1
      /\ \A i \in 1 .. Len(s) - first + 1 : SubSeq(s, first, Len(s))[i] = s[first + i - 1]
      BY <1>1, <1>2, <1>3, SubSeqProperties
<1>5. Rest(s, at) = SubSeq(s, first, Len(s))
      BY <1>3 DEF Rest
<1>6. Len(s) - first + 1 = Len(s) - at /\ \A i \in 1 .. Len(s) - at : first + i - 1 = at + i
      BY <1>2, <1>3
<1>7. Len(Rest(s, at)) # 0
      BY <1>2, <1>4, <1>5, <1>6
<1>8. Rest(s, at) # <<>>
      BY <1>7
<1>9. QED
      BY <1>4, <1>5, <1>6, <1>8

\* The command at a place is a command of that length by itself.
LEMMA CommandAt ==
  ASSUME NEW s \in Seq(Words), NEW at \in 0 .. Len(s), at # Len(s)
  PROVE  LET n == CommandWords(Rest(s, at))
             c == SubSeq(s, at + 1, at + n)
         IN /\ n \in 0 .. Len(s) - at
            /\ n # 0 => /\ c \in Seq(Words) /\ c # <<>> /\ Len(c) = n
                        /\ CommandWords(c) = n /\ (Ends(c) <=> Ends(Rest(s, at)))
<1> DEFINE rest == Rest(s, at)
           n == CommandWords(rest)
           c == SubSeq(s, at + 1, at + n)
<1>1. /\ rest \in Seq(Words) /\ rest # <<>> /\ Len(rest) = Len(s) - at
      /\ \A i \in 1 .. Len(s) - at : rest[i] = s[at + i]
      BY RestFacts
<1>2. at \in Nat /\ Len(s) \in Nat /\ at < Len(s)
      OBVIOUS
<1> HIDE DEF rest
<1>3. n \in 0 .. Len(s) - at
      BY <1>1, CommandWordsType
<1>4. ASSUME n # 0
      PROVE  /\ c \in Seq(Words) /\ c # <<>> /\ Len(c) = n
             /\ CommandWords(c) = n /\ (Ends(c) <=> Ends(rest))
  <2> HIDE DEF n
  <2>1. n \in 1 .. Len(rest) /\ n \in 0 .. Len(rest) /\ n \in Nat /\ n <= Len(s) - at
        BY <1>1, <1>2, <1>3, <1>4
  <2> DEFINE p == SubSeq(rest, 1, n)
  <2>2. p \in Seq(Words) /\ Len(p) = n /\ \A i \in 1 .. n : p[i] = rest[i]
        BY <1>1, <2>1, PrefixFacts
  <2> HIDE DEF p
  <2>3. c \in Seq(Words) /\ Len(c) = n /\ \A i \in 1 .. n : c[i] = s[at + i]
    <3> DEFINE a == at + 1
               b == at + n
    <3>1. a \in Int /\ b \in Int /\ a <= b /\ b <= Len(s) /\ a >= 1
          BY <1>2, <2>1
    <3>2. b - a + 1 = n /\ \A i \in 1 .. n : a + i - 1 = at + i
          BY <1>2, <2>1
    <3>3. c = SubSeq(s, a, b)
          OBVIOUS
    <3> HIDE DEF a, b, c
    <3>4. \A i \in a .. b : s[i] \in Words
          BY <3>1
    <3>5. /\ SubSeq(s, a, b) \in Seq(Words) /\ Len(SubSeq(s, a, b)) = b - a + 1
          /\ \A i \in 1 .. b - a + 1 : SubSeq(s, a, b)[i] = s[a + i - 1]
          BY <3>1, <3>4, SubSeqProperties
    <3>6. QED
          BY <3>2, <3>3, <3>5
  <2> HIDE DEF c
  <2>4. c = p
    <3>1. ASSUME NEW i \in 1 .. n PROVE c[i] = p[i]
      <4>1. i \in 1 .. Len(s) - at
            BY <1>2, <2>1
      <4>2. c[i] = s[at + i] /\ p[i] = rest[i] /\ rest[i] = s[at + i]
            BY <1>1, <2>2, <2>3, <4>1
      <4>3. QED
            BY <4>2
    <3>2. \A i \in 1 .. Len(c) : c[i] = p[i]
          BY <2>3, <3>1
    <3>3. QED
          BY <2>2, <2>3, <3>2, SeqEqual
  <2>5. CommandWords(p) = n
    <3>1. CommandWords(rest) \in 1 .. n /\ CommandWords(rest) = n
          BY <2>1 DEF n
    <3>2. QED
          BY <1>1, <2>1, <3>1, CommandWordsPrefix DEF p
  <2>6. p[1] = rest[1]
        BY <2>1, <2>2
  <2>7. p # <<>>
        BY <2>1, <2>2
  <2>8. QED
        BY <2>3, <2>4, <2>5, <2>6, <2>7 DEF Ends
<1>5. QED
      BY <1>3, <1>4 DEF rest

ScanStates(s) ==
  [at : 0 .. Len(s), commands : Nat, state : {"running", "ended", "refused"}]

LEMMA ScanStepType ==
  ASSUME NEW s \in Seq(Words), NEW r \in ScanStates(s)
  PROVE  ScanStep(s, r) \in ScanStates(s)
<1>1. r.at \in 0 .. Len(s) /\ r.commands \in Nat
      BY DEF ScanStates
<1> DEFINE n == CommandWords(Rest(s, r.at))
           next == [at |-> r.at + n, commands |-> r.commands + 1,
                    state |-> IF Ends(Rest(s, r.at)) THEN "ended" ELSE "running"]
<1>2. CASE r.state # "running" \/ r.at = Len(s)
      BY <1>2 DEF ScanStep
<1>3. CASE r.at # Len(s) /\ r.state = "running"
  <2>1. n \in 0 .. Len(s) - r.at
        BY <1>1, <1>3, CommandAt
  <2>2. r.at + n \in 0 .. Len(s)
        BY <1>1, <2>1
  <2>3. ScanStep(s, r) = IF n = 0 THEN [r EXCEPT !.state = "refused"] ELSE next
        BY <1>3 DEF ScanStep
  <2>4. [r EXCEPT !.state = "refused"] \in ScanStates(s)
        BY DEF ScanStates
  <2> HIDE DEF n
  <2>5. next \in ScanStates(s)
        BY <1>1, <2>2 DEF ScanStates
  <2>6. QED
        BY <2>3, <2>4, <2>5
<1>4. QED
      BY <1>2, <1>3

ExecStates(s) ==
  [at : 0 .. Len(s), tgp : Tgp, triangles : Nat,
   why : {"running", "ended", "length", "bounds", "invalid"}]

\* What a step of the execution does at a place where commands follow.
LEMMA ExecuteStepFacts ==
  ASSUME NEW s \in Seq(Words), NEW open, NEW r \in ExecStates(s),
         r.why = "running", r.at # Len(s)
  PROVE  LET n == CommandWords(Rest(s, r.at))
             x == ExecuteStep(s, open, r)
         IN /\ x \in ExecStates(s)
            /\ n = 0 => x.why = "length" /\ x.at = r.at /\ x.tgp = r.tgp
            /\ n # 0 => \/ /\ x.why = IF Ends(Rest(s, r.at)) THEN "ended" ELSE "running"
                           /\ x.at = r.at + n
                        \/ x.why \in {"bounds", "invalid"} /\ x.at = r.at /\ x.tgp = r.tgp
<1> DEFINE n == CommandWords(Rest(s, r.at))
           c == SubSeq(s, r.at + 1, r.at + n)
           x == ExecuteStep(s, open, r)
           done == ExecuteCommand(r.tgp, c, open)
<1>1. r.at \in 0 .. Len(s) /\ r.tgp \in Tgp /\ r.triangles \in Nat
      BY DEF ExecStates
<1>2. /\ n \in 0 .. Len(s) - r.at
      /\ n # 0 => /\ c \in Seq(Words) /\ c # <<>> /\ Len(c) = n
                  /\ CommandWords(c) = n /\ (Ends(c) <=> Ends(Rest(s, r.at)))
      BY <1>1, CommandAt
<1>3. x = IF n = 0 THEN [r EXCEPT !.why = "length"] ELSE Executing(r, c, done)
      BY DEF ExecuteStep
<1> HIDE DEF n, c, x
<1>4. CASE n = 0
      BY <1>3, <1>4 DEF ExecStates, n, x
<1>5. CASE n # 0
  <2>1. /\ done.tgp \in Tgp /\ done.triangles \in Nat /\ done.why \in {"ok", "bounds", "invalid"}
        /\ done.why # "ok" => done.tgp = r.tgp
        BY <1>1, <1>2, <1>5, ExecuteCommandType
  <2> HIDE DEF done
  <2>2. r.at + n \in 0 .. Len(s)
        BY <1>1, <1>2
  <2>3. x = [at |-> IF done.why = "ok" THEN r.at + n ELSE r.at,
             tgp |-> done.tgp, triangles |-> r.triangles + done.triangles,
             why |-> IF done.why # "ok" THEN done.why
                     ELSE IF Ends(Rest(s, r.at)) THEN "ended" ELSE "running"]
        BY <1>2, <1>3, <1>5 DEF Executing
  <2>4. r.triangles + done.triangles \in Nat
        BY <1>1, <2>1
  <2>5. x \in ExecStates(s)
        BY <1>1, <2>1, <2>2, <2>3, <2>4 DEF ExecStates
  <2>6. QED
        BY <1>5, <2>1, <2>3, <2>5 DEF n, x
<1>6. QED
      BY <1>4, <1>5

\* The two runs, step by step.
ScanStart == [at |-> 0, commands |-> 0, state |-> "running"]
ExecStart(t) == [at |-> 0, tgp |-> t, triangles |-> 0, why |-> "running"]

LEMMA ScanRun ==
  ASSUME NEW s \in Seq(Words)
  PROVE  \E g \in [0 .. Len(s) -> ScanStates(s)] :
           /\ g[0] = ScanStart
           /\ \A k \in 1 .. Len(s) : g[k] = ScanStep(s, g[k - 1])
           /\ ScanStream(s) = g[Len(s)]
<1> DEFINE n == Len(s)
           R == ScanStates(s)
           F == [r \in R |-> ScanStep(s, r)]
           after[k \in 0 .. n] ==
             IF k = 0 THEN ScanStart ELSE ScanStep(s, after[k - 1])
<1>1. n \in Nat
      OBVIOUS
<1>2. ScanStart \in R
      BY <1>1 DEF ScanStart, ScanStates
<1>3. F \in [R -> R]
      BY ScanStepType
<1> HIDE DEF R
<1>4. PICK g \in [0 .. n -> R] : Goes(g, F, R, ScanStart, n)
  <2> HIDE DEF F, n
  <2>1. QED
        BY <1>1, <1>2, <1>3, Orbit
<1>5. \A k \in 1 .. n : k - 1 \in 0 .. n /\ k # 0 /\ k \in 0 .. n
      BY <1>1
<1>6. g[0] = ScanStart /\ \A k \in 1 .. n : g[k] = ScanStep(s, g[k - 1])
  <2>1. \A k \in 1 .. n : g[k - 1] \in R
        BY <1>5
  <2>2. QED
        BY <1>4, <2>1 DEF Goes
<1>7. after = [k \in 0 .. n |-> IF k = 0 THEN ScanStart ELSE ScanStep(s, after[k - 1])]
  <2>1. \A k \in 0 .. n : k = 0 \/ k \in 1 .. n
        BY <1>1
  <2>2. \A k \in 0 .. n : g[k] = IF k = 0 THEN ScanStart ELSE ScanStep(s, g[k - 1])
        BY <1>6, <2>1
  <2>3. g = [k \in 0 .. n |-> IF k = 0 THEN ScanStart ELSE ScanStep(s, g[k - 1])]
        BY <2>2
  <2>4. QED
        BY <2>3
<1>8. ScanStream(s) = after[n]
      BY DEF ScanStream, Repeat, ScanStart
<1> HIDE DEF after, n
<1>9. after[0] = ScanStart
      BY <1>1, <1>7
<1>10. Follows(after, F, R, ScanStart, n)
      BY <1>5, <1>7, <1>9 DEF Follows
<1> HIDE DEF F
<1>11. after[n] = g[n]
  <2>1. Goes(g, F, R, ScanStart, n)
        BY <1>4
  <2>2. Follows(after, F, R, ScanStart, n)
        BY <1>10
  <2>3. QED
        BY <1>1, <2>1, <2>2, SameOrbit
<1>12. ScanStream(s) = g[n]
      BY <1>1, <1>8, <1>11
<1>13. QED
      BY <1>6, <1>12 DEF n, R

LEMMA ExecuteStepType ==
  ASSUME NEW s \in Seq(Words), NEW open, NEW r \in ExecStates(s)
  PROVE  ExecuteStep(s, open, r) \in ExecStates(s)
<1>1. CASE r.why # "running" \/ r.at = Len(s)
      BY <1>1 DEF ExecuteStep
<1>2. CASE r.why = "running" /\ r.at # Len(s)
      BY <1>2, ExecuteStepFacts
<1>3. QED
      BY <1>1, <1>2

LEMMA ExecuteRun ==
  ASSUME NEW s \in Seq(Words), NEW t \in Tgp, NEW open
  PROVE  \E g \in [0 .. Len(s) -> ExecStates(s)] :
           /\ g[0] = ExecStart(t)
           /\ \A k \in 1 .. Len(s) : g[k] = ExecuteStep(s, open, g[k - 1])
           /\ ExecuteStream(t, s, open) = g[Len(s)]
<1> DEFINE n == Len(s)
           R == ExecStates(s)
           start == ExecStart(t)
           F == [r \in R |-> ExecuteStep(s, open, r)]
           after[k \in 0 .. n] ==
             IF k = 0 THEN start ELSE ExecuteStep(s, open, after[k - 1])
<1>1. n \in Nat
      OBVIOUS
<1>2. start \in R
      BY <1>1 DEF ExecStart, ExecStates
<1>3. F \in [R -> R]
      BY ExecuteStepType
<1>4. ExecuteStream(t, s, open) = after[n]
      BY DEF ExecuteStream, Repeat, ExecStart
<1> HIDE DEF R, start
<1>5. PICK g \in [0 .. n -> R] : Goes(g, F, R, start, n)
  <2> HIDE DEF F, n
  <2>1. QED
        BY <1>1, <1>2, <1>3, Orbit
<1>6. \A k \in 1 .. n : k - 1 \in 0 .. n /\ k # 0 /\ k \in 0 .. n
      BY <1>1
<1>7. g[0] = start /\ \A k \in 1 .. n : g[k] = ExecuteStep(s, open, g[k - 1])
  <2>1. \A k \in 1 .. n : g[k - 1] \in R
        BY <1>6
  <2>2. QED
        BY <1>5, <2>1 DEF Goes
<1>8. after = [k \in 0 .. n |-> IF k = 0 THEN start ELSE ExecuteStep(s, open, after[k - 1])]
  <2>1. \A k \in 0 .. n : k = 0 \/ k \in 1 .. n
        BY <1>1
  <2>2. \A k \in 0 .. n : g[k] = IF k = 0 THEN start ELSE ExecuteStep(s, open, g[k - 1])
        BY <1>7, <2>1
  <2>3. g = [k \in 0 .. n |-> IF k = 0 THEN start ELSE ExecuteStep(s, open, g[k - 1])]
        BY <2>2
  <2>4. QED
        BY <2>3
<1> HIDE DEF after, n
<1>9. after[0] = start
      BY <1>1, <1>8
<1>10. Follows(after, F, R, start, n)
      BY <1>6, <1>8, <1>9 DEF Follows
<1> HIDE DEF F
<1>11. after[n] = g[n]
  <2>1. Goes(g, F, R, start, n)
        BY <1>5
  <2>2. Follows(after, F, R, start, n)
        BY <1>10
  <2>3. QED
        BY <1>1, <2>1, <2>2, SameOrbit
<1>12. ExecuteStream(t, s, open) = g[n]
      BY <1>1, <1>4, <1>11
<1>13. QED
      BY <1>7, <1>12 DEF n, R, start

LEMMA ExecuteStreamType ==
  ASSUME NEW s \in Seq(Words), NEW t \in Tgp, NEW open
  PROVE  ExecuteStream(t, s, open) \in ExecStates(s)
BY ExecuteRun

\* A stream that the scan cuts up to its end is executed command by command in
\* the same places, until a command is refused for what it draws or where it
\* writes, and never for its length.
LEMMA ScannedIsExecuted ==
  ASSUME NEW s \in Seq(Words), NEW t \in Tgp, NEW open, ScanStream(s).state = "ended"
  PROVE  LET r == ExecuteStream(t, s, open) IN
         \/ r.why = "ended" /\ r.at = ScanStream(s).at
         \/ r.why \in {"bounds", "invalid"}
<1>1. PICK f \in [0 .. Len(s) -> ScanStates(s)] :
           /\ f[0] = ScanStart
           /\ \A k \in 1 .. Len(s) : f[k] = ScanStep(s, f[k - 1])
           /\ ScanStream(s) = f[Len(s)]
      BY ScanRun
<1>2. PICK g \in [0 .. Len(s) -> ExecStates(s)] :
           /\ g[0] = ExecStart(t)
           /\ \A k \in 1 .. Len(s) : g[k] = ExecuteStep(s, open, g[k - 1])
           /\ ExecuteStream(t, s, open) = g[Len(s)]
      BY ExecuteRun
<1> DEFINE Together(k) == /\ g[k].why = f[k].state /\ g[k].why \in {"running", "ended"}
                          /\ g[k].at = f[k].at
           G == {k \in Nat : \/ Together(k)
                             \/ f[k].state = "refused"
                             \/ g[k].why \in {"bounds", "invalid"}}
<1>3. 0 \in G
      BY <1>1, <1>2 DEF ScanStart, ExecStart
<1>4. ASSUME NEW k \in 1 .. Len(s), k - 1 \in G PROVE k \in G
  <2> DEFINE a == f[k - 1]
             b == g[k - 1]
  <2>1. k \in Nat /\ k - 1 \in 0 .. Len(s) /\ a \in ScanStates(s) /\ b \in ExecStates(s)
    <3>1. k \in Nat /\ k - 1 \in 0 .. Len(s)
          OBVIOUS
    <3>2. QED
          BY <3>1
  <2>2. f[k] = ScanStep(s, a) /\ g[k] = ExecuteStep(s, open, b)
        BY <1>1, <1>2
  <2>3. CASE a.state = "refused"
    <3>1. f[k] = a
          BY <2>2, <2>3 DEF ScanStep
    <3>2. QED
          BY <2>1, <2>3, <3>1
  <2>4. CASE b.why \in {"bounds", "invalid"}
    <3>1. g[k] = b
          BY <2>2, <2>4 DEF ExecuteStep
    <3>2. QED
          BY <2>1, <2>4, <3>1
  <2>5. CASE Together(k - 1) /\ (b.why # "running" \/ b.at = Len(s))
    <3>1. f[k] = a /\ g[k] = b
          BY <2>2, <2>5 DEF ScanStep, ExecuteStep
    <3>2. QED
          BY <2>1, <2>5, <3>1
  <2>6. CASE Together(k - 1) /\ b.why = "running" /\ b.at # Len(s)
    <3> DEFINE n == CommandWords(Rest(s, a.at))
    <3>1. a.state = "running" /\ a.at = b.at
          BY <2>6
    <3>2. f[k] = IF n = 0 THEN [a EXCEPT !.state = "refused"]
                 ELSE [at |-> a.at + n, commands |-> a.commands + 1,
                       state |-> IF Ends(Rest(s, a.at)) THEN "ended" ELSE "running"]
          BY <2>2, <2>6, <3>1 DEF ScanStep
    <3>3. n # 0 => \/ /\ g[k].why = IF Ends(Rest(s, a.at)) THEN "ended" ELSE "running"
                      /\ g[k].at = a.at + n
                   \/ g[k].why \in {"bounds", "invalid"}
      <4>1. /\ b \in ExecStates(s) /\ b.why = "running" /\ b.at # Len(s)
            /\ g[k] = ExecuteStep(s, open, b) /\ a.at = b.at
            BY <2>1, <2>2, <2>6, <3>1
      <4> HIDE DEF a, b
      <4>2. QED
            BY <4>1, ExecuteStepFacts
    <3> HIDE DEF n
    <3>4. CASE n = 0
      <4>1. f[k].state = "refused"
            BY <2>1, <3>2, <3>4 DEF ScanStates
      <4>2. QED
            BY <2>1, <4>1
    <3>5. CASE n # 0
      <4>1. f[k].at = a.at + n /\ f[k].state = IF Ends(Rest(s, a.at)) THEN "ended" ELSE "running"
            BY <3>2, <3>5
      <4>2. Together(k) \/ g[k].why \in {"bounds", "invalid"}
            BY <3>3, <3>5, <4>1
      <4>3. QED
            BY <2>1, <4>2
    <3>6. QED
          BY <3>4, <3>5
  <2>7. QED
        BY <1>4, <2>3, <2>4, <2>5, <2>6
<1> HIDE DEF G
<1>5. Len(s) \in G
  <2>1. Len(s) \in Nat
        OBVIOUS
  <2>2. \A k \in 0 .. Len(s) : k \in G
        BY <1>3, <1>4, <2>1, Inductive
  <2>3. QED
        BY <2>1, <2>2
<1>6. QED
      BY <1>1, <1>2, <1>5 DEF G

\* g is n steps of an execution of s.
Steps(g, s, open, n) == \A k \in 1 .. n : g[k] = ExecuteStep(s, open, g[k - 1])

\* An execution that has stopped, or has no words left, stays as it is.
LEMMA ExecuteStays ==
  ASSUME NEW s, NEW open, NEW n \in Nat, NEW g, Steps(g, s, open, n),
         NEW i \in 0 .. n, g[i].why # "running" \/ g[i].at = Len(s)
  PROVE  g[n] = g[i]
<1> DEFINE G == {d \in Nat : g[i + d] = g[i]}
<1>1. n - i \in Nat /\ i \in Nat /\ i + (n - i) = n
      OBVIOUS
<1>2. 0 \in G
  <2>1. i + 0 = i
        BY <1>1
  <2>2. QED
        BY <2>1
<1>3. ASSUME NEW d \in 1 .. n - i, d - 1 \in G PROVE d \in G
  <2>1. i + d \in 1 .. n /\ i + (d - 1) = (i + d) - 1 /\ d \in Nat
        BY <1>1
  <2>2. g[i + d] = ExecuteStep(s, open, g[i])
        BY <1>3, <2>1 DEF Steps
  <2>3. ExecuteStep(s, open, g[i]) = g[i]
        BY DEF ExecuteStep
  <2>4. QED
        BY <2>1, <2>2, <2>3
<1> HIDE DEF G
<1>4. \A d \in 0 .. n - i : d \in G
      BY <1>1, <1>2, <1>3, Inductive
<1>5. n - i \in G
      BY <1>1, <1>4
<1>6. QED
      BY <1>1, <1>5 DEF G

Halts(g, i, s) == g[i].why # "running" \/ g[i].at = Len(s)
\* The same, of a predicate.
LEMMA ExecuteHalted ==
  ASSUME NEW s, NEW open, NEW n \in Nat, NEW g, Steps(g, s, open, n),
         NEW i \in 0 .. n, Halts(g, i, s)
  PROVE  g[n] = g[i]
BY ExecuteStays DEF Halts

\* A command that is whole in a prefix of a stream is executed there as in it.
LEMMA ExecuteStepPrefix ==
  ASSUME NEW s \in Seq(Words), NEW open, NEW m \in 0 .. Len(s),
         NEW r, r.why = "running", r.at \in 0 .. Len(s), r.at # Len(s),
         CommandWords(Rest(s, r.at)) # 0, r.at + CommandWords(Rest(s, r.at)) <= m
  PROVE  ExecuteStep(SubSeq(s, 1, m), open, r) = ExecuteStep(s, open, r)
<1> DEFINE p == SubSeq(s, 1, m)
           n == CommandWords(Rest(s, r.at))
<1>1. PICK at \in 0 .. Len(s) : at = r.at
      OBVIOUS
<1>2. p \in Seq(Words) /\ Len(p) = m /\ \A i \in 1 .. m : p[i] = s[i]
      BY PrefixFacts
<1>3. n \in 0 .. Len(s) - at
      BY <1>1, CommandAt
<1>4. n # 0 /\ at + n <= m /\ n = CommandWords(Rest(s, at))
      BY <1>1
<1>5. at \in 0 .. Len(p) /\ at # Len(p) /\ n \in 1 .. m - at
      BY <1>2, <1>3, <1>4
<1> HIDE DEF n, p
<1>6. /\ Rest(p, at) \in Seq(Words) /\ Len(Rest(p, at)) = m - at
      /\ \A i \in 1 .. m - at : Rest(p, at)[i] = p[at + i]
      BY <1>2, <1>5, RestFacts
<1>7. /\ Rest(s, at) \in Seq(Words) /\ Len(Rest(s, at)) = Len(s) - at
      /\ \A i \in 1 .. Len(s) - at : Rest(s, at)[i] = s[at + i]
      BY <1>1, RestFacts
<1>8. m - at \in 1 .. Len(Rest(s, at)) /\ m - at \in 0 .. Len(Rest(s, at))
      BY <1>2, <1>5, <1>7
<1>9. Rest(p, at) = SubSeq(Rest(s, at), 1, m - at)
  <2> DEFINE q == SubSeq(Rest(s, at), 1, m - at)
  <2>1. q \in Seq(Words) /\ Len(q) = m - at /\ \A i \in 1 .. m - at : q[i] = Rest(s, at)[i]
        BY <1>7, <1>8, PrefixFacts
  <2> HIDE DEF q
  <2>2. ASSUME NEW i \in 1 .. m - at PROVE Rest(p, at)[i] = q[i]
    <3>1. i \in 1 .. Len(s) - at /\ at + i \in 1 .. m
          BY <1>1, <1>5
    <3>2. QED
          BY <1>2, <1>6, <1>7, <2>1, <3>1
  <2>3. Rest(p, at) = q
        BY <1>6, <2>1, <2>2, SeqEqual
  <2>4. QED
        BY <2>3 DEF q
<1>10. CommandWords(Rest(p, at)) = n
  <2>1. CommandWords(Rest(s, at)) \in 1 .. m - at
        BY <1>4, <1>5
  <2>2. CommandWords(SubSeq(Rest(s, at), 1, m - at)) = CommandWords(Rest(s, at))
        BY <1>7, <1>8, <2>1, CommandWordsPrefix
  <2>3. QED
        BY <1>4, <1>9, <2>2
<1>11. SubSeq(p, at + 1, at + n) = SubSeq(s, at + 1, at + n)
  <2> DEFINE a == at + 1
             b == at + n
  <2>1. a \in Int /\ b \in Int /\ 1 <= a /\ b <= m
        BY <1>4, <1>5
  <2> HIDE DEF a, b
  <2>2. \A i \in a .. b : i \in 1 .. m /\ p[i] \in Words /\ s[i] \in Words /\ p[i] = s[i]
        BY <1>2, <2>1
  <2>3. /\ SubSeq(p, a, b) \in Seq(Words) /\ Len(SubSeq(p, a, b)) = IF a <= b THEN b - a + 1 ELSE 0
        /\ \A i \in 1 .. b - a + 1 : SubSeq(p, a, b)[i] = p[a + i - 1]
        BY <2>1, <2>2, SubSeqProperties
  <2>4. /\ SubSeq(s, a, b) \in Seq(Words) /\ Len(SubSeq(s, a, b)) = IF a <= b THEN b - a + 1 ELSE 0
        /\ \A i \in 1 .. b - a + 1 : SubSeq(s, a, b)[i] = s[a + i - 1]
        BY <2>1, <2>2, SubSeqProperties
  <2>5. ASSUME NEW i \in 1 .. Len(SubSeq(p, a, b)) PROVE SubSeq(p, a, b)[i] = SubSeq(s, a, b)[i]
    <3>1. i \in 1 .. b - a + 1 /\ a + i - 1 \in a .. b
          BY <2>1, <2>3
    <3>2. QED
          BY <2>2, <2>3, <2>4, <3>1
  <2>6. SubSeq(p, a, b) = SubSeq(s, a, b)
        BY <2>3, <2>4, <2>5, SeqEqual
  <2>7. QED
        BY <2>6 DEF a, b
<1>12. ExecuteStep(p, open, r) = ExecuteStep(s, open, r)
  <2>1. Len(p) = m /\ r.at # m
        BY <1>1, <1>2, <1>5
  <2> DEFINE x(c) == Executing(r, c, ExecuteCommand(r.tgp, c, open))
  <2>2. ExecuteStep(p, open, r) =
          IF CommandWords(Rest(p, r.at)) = 0 THEN [r EXCEPT !.why = "length"]
          ELSE x(SubSeq(p, r.at + 1, r.at + CommandWords(Rest(p, r.at))))
        BY <2>1 DEF ExecuteStep
  <2>3. ExecuteStep(s, open, r) =
          IF CommandWords(Rest(s, r.at)) = 0 THEN [r EXCEPT !.why = "length"]
          ELSE x(SubSeq(s, r.at + 1, r.at + CommandWords(Rest(s, r.at))))
        BY DEF ExecuteStep
  <2> HIDE DEF x
  <2>4. QED
        BY <1>1, <1>4, <1>10, <1>11, <2>2, <2>3
<1>13. QED
      BY <1>12 DEF p

\* A refused stream leaves the TGP as the words before the refused command do.
LEMMA RefusedIsPrefix ==
  ASSUME NEW s \in Seq(Words), NEW t \in Tgp, NEW open,
         ~ Executed(ExecuteStream(t, s, open))
  PROVE  LET r == ExecuteStream(t, s, open) IN
         r.tgp = ExecuteStream(t, SubSeq(s, 1, r.at), open).tgp
<1> DEFINE N == Len(s)
<1>1. PICK g \in [0 .. N -> ExecStates(s)] :
           /\ g[0] = ExecStart(t)
           /\ \A k \in 1 .. N : g[k] = ExecuteStep(s, open, g[k - 1])
           /\ ExecuteStream(t, s, open) = g[N]
      BY ExecuteRun
<1>2. N \in Nat /\ g[N] \in ExecStates(s) /\ g[N].why \notin {"running", "ended"}
  <2>1. N \in Nat
        OBVIOUS
  <2>2. QED
        BY <1>1, <2>1 DEF Executed
<1> DEFINE m == g[N].at
           p == SubSeq(s, 1, m)
<1>3. m \in 0 .. N
      BY <1>2 DEF ExecStates
<1>4. p \in Seq(Words) /\ Len(p) = m
      BY <1>3, PrefixFacts
<1>5. PICK K \in 1 .. N : g[K].why # "running" /\ \A k \in 0 .. K - 1 : g[k].why = "running"
  <2> DEFINE S == {k \in 0 .. N : g[k].why # "running"}
  <2>1. S \in SUBSET Nat /\ N \in S
        BY <1>2
  <2>2. PICK K \in S : \A k \in S : K <= k
    <3> HIDE DEF S
    <3>1. QED
          BY <2>1, Least
  <2>3. K # 0
        BY <1>1 DEF ExecStart
  <2>4. K \in 1 .. N
        BY <1>2, <2>3
  <2>5. ASSUME NEW k \in 0 .. K - 1 PROVE g[k].why = "running"
    <3>1. k \in 0 .. N /\ ~ (K <= k)
          BY <1>2, <2>4
    <3>2. QED
          BY <2>2, <3>1
  <2>6. QED
        BY <2>4, <2>5
<1> HIDE DEF N
<1>6. Steps(g, s, open, N)
      BY <1>1 DEF Steps
<1>7. \A k \in 0 .. K - 1 : g[k] \in ExecStates(s) /\ g[k].at \in 0 .. N /\ g[k].at # N
  <2>1. ASSUME NEW k \in 0 .. K - 1
        PROVE  g[k] \in ExecStates(s) /\ g[k].at \in 0 .. N /\ g[k].at # N
    <3>1. k \in 0 .. N /\ g[k].why = "running"
          BY <1>2, <1>5
    <3>2. g[k] \in ExecStates(s)
          BY <3>1
    <3>3. g[k].at \in 0 .. N
          BY <3>2 DEF ExecStates, N
    <3>4. g[k].at # N
      <4>1. ASSUME g[k].at = Len(s) PROVE FALSE
        <5>1. g[N] = g[k]
              BY <1>6, <1>2, <3>1, <4>1, ExecuteStays
        <5>2. QED
              BY <1>2, <3>1, <5>1
      <4>2. QED
            BY <4>1 DEF N
    <3>5. QED
          BY <3>2, <3>3, <3>4
  <2>2. QED
        BY <2>1
<1>8. g[K] = g[N] /\ K - 1 \in 0 .. K - 1 /\ K \in Nat
  <2>1. K \in 0 .. N /\ K - 1 \in 0 .. K - 1 /\ K \in Nat
        BY <1>2
  <2>2. g[N] = g[K]
        BY <1>6, <1>2, <1>5, <2>1, ExecuteStays
  <2>3. QED
        BY <2>1, <2>2
\* The refused command is where the one before it ended.
<1>9. g[K - 1].at = m /\ g[K - 1].tgp = g[N].tgp
  <2> DEFINE b == g[K - 1]
             n == CommandWords(Rest(s, b.at))
  <2>1. /\ b \in ExecStates(s) /\ b.why = "running" /\ b.at # Len(s)
        /\ g[K] = ExecuteStep(s, open, b)
        BY <1>1, <1>5, <1>7, <1>8 DEF N
  <2> HIDE DEF b
  <2>2. /\ n = 0 => g[K].at = b.at /\ g[K].tgp = b.tgp
        /\ n # 0 => \/ g[K].why \in {"ended", "running"}
                    \/ g[K].at = b.at /\ g[K].tgp = b.tgp
        BY <2>1, ExecuteStepFacts
  <2>3. g[K].at = b.at /\ g[K].tgp = b.tgp
        BY <1>2, <1>8, <2>2
  <2>4. QED
        BY <1>8, <2>3 DEF b
\* Each step before it moves on by a whole command.
<1>10. ASSUME NEW k \in 1 .. K - 1
      PROVE  LET n == CommandWords(Rest(s, g[k - 1].at)) IN
             n \in Nat \ {0} /\ g[k].at = g[k - 1].at + n
  <2> DEFINE b == g[k - 1]
             n == CommandWords(Rest(s, b.at))
  <2>1. k - 1 \in 0 .. K - 1 /\ k \in 0 .. K - 1 /\ k \in 1 .. N
        BY <1>2
  <2>2. b \in ExecStates(s) /\ b.why = "running" /\ b.at \in 0 .. Len(s) /\ b.at # Len(s)
        BY <1>5, <1>7, <2>1 DEF N
  <2>3. g[k] = ExecuteStep(s, open, b) /\ g[k].why = "running"
        BY <1>1, <1>5, <2>1
  <2> HIDE DEF b
  <2>4. n \in Nat
        BY <2>2, CommandAt
  <2>5. /\ n = 0 => g[k].why = "length"
        /\ n # 0 => g[k].at = b.at + n \/ g[k].why \in {"bounds", "invalid"}
        BY <2>2, <2>3, ExecuteStepFacts
  <2>6. n # 0 /\ g[k].at = b.at + n
        BY <2>3, <2>5
  <2>7. QED
        BY <2>4, <2>6 DEF b
<1>11. \A k \in 0 .. K - 1 : g[k].at <= m
  <2> DEFINE D == {d \in Nat : g[(K - 1) - d].at <= m}
  <2>1. 0 \in D
    <3>1. (K - 1) - 0 = K - 1
          BY <1>8
    <3>2. QED
          BY <1>3, <1>9, <3>1
  <2>2. ASSUME NEW d \in 1 .. K - 1, d - 1 \in D PROVE d \in D
    <3> DEFINE k == K - d
    <3>1. k \in 1 .. K - 1 /\ (K - 1) - (d - 1) = k /\ (K - 1) - d = k - 1 /\ d \in Nat
          BY <1>8
    <3>2. g[k].at <= m
          BY <2>2, <3>1
    <3>3. k - 1 \in 0 .. K - 1
          BY <1>8
    <3> HIDE DEF k
    <3>4. g[k - 1].at \in 0 .. N
          BY <1>7, <3>3
    <3>5. \E n \in Nat \ {0} : g[k].at = g[k - 1].at + n
          BY <1>10, <3>1
    <3>6. g[k - 1].at <= m
          BY <1>2, <1>3, <3>2, <3>4, <3>5
    <3>7. QED
          BY <3>1, <3>6
  <2> HIDE DEF D
  <2>3. K - 1 \in Nat
        BY <1>8
  <2>4. \A d \in 0 .. K - 1 : d \in D
        BY <2>1, <2>2, <2>3, Inductive
  <2>5. ASSUME NEW k \in 0 .. K - 1 PROVE g[k].at <= m
    <3>1. (K - 1) - k \in 0 .. K - 1 /\ (K - 1) - ((K - 1) - k) = k
          BY <1>8
    <3>2. (K - 1) - k \in D
          BY <2>4, <3>1
    <3>3. QED
          BY <3>1, <3>2 DEF D
  <2>6. QED
        BY <2>5
\* The prefix is executed in the same steps, and then has no words left.
<1>12. PICK h \in [0 .. Len(p) -> ExecStates(p)] :
           /\ h[0] = ExecStart(t)
           /\ \A k \in 1 .. Len(p) : h[k] = ExecuteStep(p, open, h[k - 1])
           /\ ExecuteStream(t, p, open) = h[Len(p)]
  <2> HIDE DEF p
  <2>1. QED
        BY <1>4, ExecuteRun, ZenonT(60)
<1>13. \A k \in 0 .. K - 1 : k <= g[k].at /\ h[k] = g[k]
  <2> DEFINE G == {k \in Nat : k <= g[k].at /\ h[k] = g[k]}
  <2>1. 0 \in G
        BY <1>1, <1>12 DEF ExecStart
  <2>2. ASSUME NEW k \in 1 .. K - 1, k - 1 \in G PROVE k \in G
    <3> DEFINE b == g[k - 1]
               n == CommandWords(Rest(s, b.at))
    <3>1. k \in Nat /\ k - 1 \in 0 .. K - 1 /\ k \in 0 .. K - 1 /\ k \in 1 .. N
          BY <1>2
    <3>2. n \in Nat \ {0} /\ g[k].at = b.at + n
          BY <1>10
    <3>3. b.why = "running" /\ b.at \in 0 .. N /\ b.at # N /\ b.at <= m /\ g[k].at <= m
          BY <1>5, <1>7, <1>11, <3>1
    <3>4. k - 1 <= b.at /\ h[k - 1] = b
          BY <2>2
    <3>5. g[k] = ExecuteStep(s, open, b)
          BY <1>1, <3>1
    <3> HIDE DEF b, n
    <3>6. k <= g[k].at
          BY <1>2, <3>1, <3>2, <3>3, <3>4
    <3>7. h[k] = ExecuteStep(p, open, b)
      <4>1. k <= m
            BY <1>2, <1>3, <3>1, <3>2, <3>3, <3>6
      <4>2. k \in 1 .. Len(p)
            BY <1>3, <1>4, <3>1, <4>1
      <4>3. QED
            BY <1>12, <3>4, <4>2
    <3>8. ExecuteStep(p, open, b) = ExecuteStep(s, open, b)
      <4>1. m \in 0 .. Len(s) /\ b.at \in 0 .. Len(s) /\ b.at # Len(s) /\ b.why = "running"
            BY <1>3, <3>3 DEF N
      <4>2. CommandWords(Rest(s, b.at)) # 0 /\ b.at + CommandWords(Rest(s, b.at)) <= m
            BY <3>2, <3>3 DEF n
      <4> HIDE DEF m
      <4>3. ExecuteStep(SubSeq(s, 1, m), open, b) = ExecuteStep(s, open, b)
            BY <4>1, <4>2, ExecuteStepPrefix
      <4>4. QED
            BY <4>3
    <3>9. QED
          BY <3>1, <3>5, <3>6, <3>7, <3>8
  <2> HIDE DEF G
  <2>3. K - 1 \in Nat
        BY <1>8
  <2>4. \A k \in 0 .. K - 1 : k \in G
        BY <2>1, <2>2, <2>3, Inductive
  <2>5. QED
        BY <2>4 DEF G
<1>14. h[m] = g[K - 1]
  <2>1. K - 1 \in 0 .. m /\ h[K - 1] = g[K - 1] /\ h[K - 1].at = Len(p) /\ m \in Nat
    <3>1. K - 1 <= g[K - 1].at /\ h[K - 1] = g[K - 1]
          BY <1>8, <1>13
    <3>2. QED
          BY <1>3, <1>4, <1>8, <1>9, <3>1
  <2>2. Steps(h, p, open, m)
        BY <1>4, <1>12 DEF Steps
  <2> HIDE DEF m, p
  <2>3. h[m] = h[K - 1]
    <3>1. PICK i \in 0 .. m : i = K - 1
          BY <2>1
    <3>2. m \in Nat
          BY <2>1
    <3>3. Halts(h, i, p)
          BY <2>1, <3>1 DEF Halts
    <3>4. h[m] = h[i]
          BY <2>2, <3>2, <3>3, ExecuteHalted
    <3>5. QED
          BY <3>1, <3>4
  <2>4. QED
        BY <2>1, <2>3
<1>15. ExecuteStream(t, p, open).tgp = g[N].tgp
      BY <1>4, <1>9, <1>12, <1>14
<1>16. QED
      BY <1>1, <1>15 DEF N

-------------------------------------------------------------------------------
(* The frame.                                                              *)

\* The strengthening: who is attached while a run goes on, that its capture is
\* on and empty when the program starts, and that no caller's frame is open.
Flags ==
  /\ graphics \in BOOLEAN /\ native \in BOOLEAN /\ callback \in BOOLEAN
  /\ capturing \in BOOLEAN /\ frameOpen \in BOOLEAN /\ begun \in BOOLEAN
  /\ phase \in Phases
Heard == graphics /\ native => callback
FreshCapture ==
  phase = "run" => native /\ (graphics => capturing /\ captured = <<>>)
NoCallersFrame == ~ Idle => ~ begun

IInv ==
  /\ Flags /\ Heard /\ FreshCapture /\ NoCallersFrame
  /\ OnlyThisFrame /\ FrameClosed /\ InputSeen

USE DEF Phases, Idle

\* A list of writes becomes a list of packets.
LEMMA PacketsType ==
  ASSUME NEW writes \in Programs
  PROVE  Packets(writes) \in Seq(Words)
<1>1. writes \in Seq(Write)
      BY FrameAssumption
<1>2. ASSUME NEW i \in DOMAIN writes PROVE Packet(writes[i]) \in Words
  <2>1. writes[i] \in Write
        BY <1>1, <1>2
  <2>2. CASE writes[i].to = Data
        BY <2>1, <2>2 DEF Packet, Write
  <2>3. CASE writes[i].to # Data
    <3>1. writes[i].to \in 0 .. 255
          BY <2>1, <2>3 DEF Write, Data
    <3>2. QED
          BY <2>1, <2>3, <3>1 DEF Packet, Write, Words
  <2>4. QED
        BY <2>2, <2>3
<1>3. QED
      BY <1>1, <1>2 DEF Packets

LEMMA InitIInv == Init => IInv
BY DEF Init, IInv, Flags, Heard, FreshCapture, NoCallersFrame, OnlyThisFrame, FrameClosed,
       InputSeen

\* The calls between frames.
LEMMA CallsKeep ==
  ASSUME IInv,
         \/ AttachGraphics \/ AttachNative \/ Restart \/ BeginFrame \/ EndFrame \/ Update
         \/ RunRefused
         \/ \E i \in Inputs : SetInput(i)
         \/ \E s \in Submissions : SubmitGeometry(s)
         \/ \E i \in Inputs, writes \in Programs : OracleStep(i, writes)
  PROVE  IInv'
<1> USE DEF IInv, Flags, Heard, FreshCapture, NoCallersFrame, OnlyThisFrame, FrameClosed,
            InputSeen, attached, port, display, inputs, run
<1>1. CASE AttachGraphics
      BY <1>1 DEF AttachGraphics
<1>2. CASE AttachNative
      BY <1>2 DEF AttachNative
<1>3. CASE Restart
      BY <1>3 DEF Restart
<1>4. CASE BeginFrame
      BY <1>4 DEF BeginFrame
<1>5. CASE EndFrame
      BY <1>5 DEF EndFrame
<1>6. CASE Update
      BY <1>6 DEF Update
<1>7. CASE RunRefused
      BY <1>7 DEF RunRefused
<1>8. CASE \E i \in Inputs : SetInput(i)
      BY <1>8 DEF SetInput
<1>9. CASE \E s \in Submissions : SubmitGeometry(s)
      BY <1>9 DEF SubmitGeometry
<1>10. CASE \E i \in Inputs, writes \in Programs : OracleStep(i, writes)
      BY <1>10 DEF OracleStep
<1>11. QED
      BY <1>1, <1>2, <1>3, <1>4, <1>5, <1>6, <1>7, <1>8, <1>9, <1>10

\* The start of a run clears the capture and gives the machine its input.
LEMMA BeginKeeps ==
  ASSUME IInv, RunBegin
  PROVE  IInv'
BY DEF RunBegin, ApplyInput, StartCapture, IInv, Flags, Heard, FreshCapture, NoCallersFrame,
       OnlyThisFrame, FrameClosed, InputSeen, attached, port, display, inputs, run

\* The program's packets reach an empty capture: they are all that is drawn.
LEMMA ProgramKeeps ==
  ASSUME IInv, NEW writes \in Programs, NEW left \in Rings, NEW refused \in BOOLEAN,
         ProgramFrame(writes, left, refused)
  PROVE  IInv'
<1>1. OnlyThisFrame'
  <2>1. CASE graphics
    <3>1. captured' = <<>> \o Packets(writes)
          BY <2>1 DEF ProgramFrame, Capture, IInv, Heard, FreshCapture
    <3>2. captured' = Packets(writes)
          BY <3>1, PacketsType, ConcatEmptySeq
    <3>3. QED
          BY <3>2 DEF ProgramFrame, OnlyThisFrame
  <2>2. CASE ~ graphics
        BY <2>2 DEF ProgramFrame, OnlyThisFrame
  <2>3. QED
        BY <2>1, <2>2
<1>2. QED
      BY <1>1 DEF ProgramFrame, IInv, Flags, Heard, FreshCapture, NoCallersFrame, FrameClosed,
                  InputSeen, attached, display, inputs

\* The rest of a run.
LEMMA EndKeeps ==
  ASSUME IInv, RenderCopro \/ RenderRing \/ CloseFrame
  PROVE  IInv'
<1> USE DEF IInv, Flags, Heard, FreshCapture, NoCallersFrame, OnlyThisFrame, FrameClosed,
            InputSeen, attached, port, display, inputs
<1>1. CASE RenderCopro
      BY <1>1 DEF RenderCopro
<1>2. CASE RenderRing
      BY <1>2 DEF RenderRing
<1>3. CASE CloseFrame
      BY <1>3 DEF CloseFrame
<1>4. QED
      BY <1>1, <1>2, <1>3

LEMMA StepIInv == IInv /\ [Next]_vars => IInv'
<1> SUFFICES ASSUME IInv, [Next]_vars PROVE IInv'
    OBVIOUS
<1>1. CASE \E writes \in Programs, left \in Rings, refused \in BOOLEAN :
             ProgramFrame(writes, left, refused)
      BY <1>1, ProgramKeeps
<1>2. CASE RunBegin
      BY <1>2, BeginKeeps
<1>3. CASE RenderCopro \/ RenderRing \/ CloseFrame
      BY <1>3, EndKeeps
<1>4. CASE UNCHANGED vars
      BY <1>4 DEF vars, IInv, Flags, Heard, FreshCapture, NoCallersFrame, OnlyThisFrame,
                  FrameClosed, InputSeen, attached, port, display, inputs, run
<1>5. QED
      BY <1>1, <1>2, <1>3, <1>4, CallsKeep DEF Next

LEMMA Invariance == Spec => []IInv
BY InitIInv, StepIInv, PTL DEF Spec

\* A frame draws its own packets, all of them and nothing else: the switch and
\* the reset at the start of a run are enough, whatever refused frames and the
\* oracle left, and whichever of graphics and machine came first.
THEOREM DrawsItsOwn == Spec => []OnlyThisFrame
<1>1. IInv => OnlyThisFrame
      BY DEF IInv
<1>2. QED
      BY <1>1, Invariance, PTL

\* No native frame leaves the picture open, and none closes a caller's.
THEOREM LeavesNoFrame == Spec => []FrameClosed
<1>1. IInv => FrameClosed
      BY DEF IInv
<1>2. QED
      BY <1>1, Invariance, PTL

\* The program runs on the input the game was given.
THEOREM RunsOnInput == Spec => []InputSeen
<1>1. IInv => InputSeen
      BY DEF IInv
<1>2. QED
      BY <1>1, Invariance, PTL

-------------------------------------------------------------------------------
(* Types, and the streams of a frame.                                      *)

\* The capture is on only while the program of a drawn frame runs.
CaptureOn == capturing => phase = "run" /\ graphics
\* A run that has begun has a frame left to count.
RunCounts == phase # "idle" => More

TInv == TypeOK /\ CaptureOn /\ RunCounts

\* What a frame draws is a list of words.
LEMMA DrawnAreWords ==
  ASSUME TypeOK
  PROVE  captured \in Seq(Words) /\ ring \in Seq(Words)
<1>1. ASSUME NEW writes \in Programs PROVE Packets(writes) \in Seq(Words)
      BY PacketsType
<1>2. <<>> \in Seq(Words)
      OBVIOUS
<1>3. QED
      BY <1>1, <1>2, FrameAssumption DEF TypeOK, Batches

\* Drawing keeps the TGP well formed and adds triangles.
LEMMA DrawStreamType ==
  ASSUME tgp \in Tgp, NEW s \in Seq(Words)
  PROVE  DrawStream(s).tgp \in Tgp /\ DrawStream(s).triangles \in Nat
<1>1. PICK t \in Tgp : t = tgp
      OBVIOUS
<1>2. PICK open : open = frameOpen
      OBVIOUS
<1>3. ExecuteStream(t, s, open) \in ExecStates(s)
      BY ExecuteStreamType
<1>4. QED
      BY <1>1, <1>2, <1>3 DEF DrawStream, ExecStates

LEMMA NoBatch == <<>> \in Batches
BY DEF Batches

\* The frame counter stops at its bound.
LEMMA FramesType ==
  ASSUME frames \in 0 .. MaxFrames, More
  PROVE  frames + 1 \in 0 .. MaxFrames
BY FrameAssumption DEF More

LEMMA InitTInv == Init => TInv
<1>1. 0 \in 0 .. MaxFrames
      BY FrameAssumption
<1>2. <<>> \in Rings /\ 0 \in Nat
      BY FrameAssumption
<1>3. QED
      BY <1>1, <1>2, InitTgpType, NoBatch DEF Init, TInv, TypeOK, CaptureOn, RunCounts

\* The calls between frames: the capture is off, so the oracle adds nothing.
LEMMA CallsKeepTypes ==
  ASSUME TInv,
         \/ AttachGraphics \/ AttachNative \/ Restart \/ BeginFrame \/ EndFrame \/ Update
         \/ RunRefused
         \/ \E i \in Inputs : SetInput(i)
         \/ \E s \in Submissions : SubmitGeometry(s)
         \/ \E i \in Inputs, writes \in Programs : OracleStep(i, writes)
  PROVE  TInv'
<1> USE DEF TInv, TypeOK, CaptureOn, RunCounts, More, attached, port, display, inputs, run
<1>1. CASE AttachGraphics
      BY <1>1, InitTgpType DEF AttachGraphics
<1>2. CASE AttachNative
      BY <1>2 DEF AttachNative
<1>3. CASE Restart
  <2>1. 0 \in 0 .. MaxFrames /\ 0 \in Nat
        BY FrameAssumption
  <2>2. QED
        BY <1>3, <2>1, InitTgpType, NoBatch DEF Restart
<1>4. CASE BeginFrame
      BY <1>4 DEF BeginFrame
<1>5. CASE EndFrame
      BY <1>5, FramesType DEF EndFrame
<1>6. CASE Update
      BY <1>6, FramesType DEF Update
<1>7. CASE RunRefused
      BY <1>7 DEF RunRefused, ApplyInput
<1>8. CASE \E i \in Inputs : SetInput(i)
      BY <1>8 DEF SetInput
<1>9. CASE \E s \in Submissions : SubmitGeometry(s)
  <2>1. PICK s \in Submissions : SubmitGeometry(s)
        BY <1>9
  <2>2. DrawStream(s).tgp \in Tgp /\ DrawStream(s).triangles \in Nat
        BY FrameAssumption, DrawStreamType
  <2>3. QED
        BY <2>1, <2>2 DEF SubmitGeometry
<1>10. CASE \E i \in Inputs, writes \in Programs : OracleStep(i, writes)
  <2>1. captured' = captured
        BY <1>10 DEF OracleStep, Capture
  <2>2. QED
        BY <1>10, <2>1 DEF OracleStep
<1>11. QED
      BY <1>1, <1>2, <1>3, <1>4, <1>5, <1>6, <1>7, <1>8, <1>9, <1>10

\* A run: the capture is switched on empty, filled with one list of packets
\* and switched off before it is drawn.
LEMMA RunKeepsTypes ==
  ASSUME TInv, IInv,
         \/ RunBegin \/ RenderCopro \/ RenderRing \/ CloseFrame
         \/ \E writes \in Programs, left \in Rings, refused \in BOOLEAN :
              ProgramFrame(writes, left, refused)
  PROVE  TInv'
<1> USE DEF TInv, TypeOK, CaptureOn, RunCounts, More, attached, port, display, inputs, run
<1>1. CASE RunBegin
  <2>1. machineInput' \in Inputs \cup {NoInput} /\ picture' \in Nat
        BY <1>1 DEF RunBegin, ApplyInput, StartCapture
  <2>2. sent' \in Batches /\ captured' \in Batches
        BY <1>1, NoBatch DEF RunBegin, StartCapture
  <2>3. QED
        BY <1>1, <2>1, <2>2 DEF RunBegin, StartCapture
<1>2. CASE \E writes \in Programs, left \in Rings, refused \in BOOLEAN :
             ProgramFrame(writes, left, refused)
  <2>1. PICK writes \in Programs, left \in Rings, refused \in BOOLEAN :
               ProgramFrame(writes, left, refused)
        BY <1>2
  <2>2. captured' \in {captured, Packets(writes)}
    <3>1. CASE capturing
      <4>1. captured' \in {captured, <<>> \o Packets(writes)}
            BY <2>1, <3>1 DEF ProgramFrame, Capture, IInv, FreshCapture
      <4>2. <<>> \o Packets(writes) = Packets(writes)
            BY PacketsType, ConcatEmptySeq
      <4>3. QED
            BY <4>1, <4>2
    <3>2. CASE ~ capturing
          BY <2>1, <3>2 DEF ProgramFrame, Capture
    <3>3. QED
          BY <3>1, <3>2
  <2>3. Packets(writes) \in Batches
        BY DEF Batches
  <2>4. QED
        BY <2>1, <2>2, <2>3 DEF ProgramFrame
<1>3. CASE RenderCopro
  <2>1. DrawStream(captured).tgp \in Tgp /\ DrawStream(captured).triangles \in Nat
    <3>1. PICK s \in Seq(Words) : s = captured
          BY DrawnAreWords
    <3>2. QED
          BY <3>1, DrawStreamType
  <2>2. QED
        BY <1>3, <2>1, NoBatch DEF RenderCopro
<1>4. CASE RenderRing
  <2>1. DrawStream(ring).tgp \in Tgp /\ DrawStream(ring).triangles \in Nat
    <3>1. PICK s \in Seq(Words) : s = ring
          BY DrawnAreWords
    <3>2. QED
          BY <3>1, DrawStreamType
  <2>2. failed' \in BOOLEAN
        BY <1>4 DEF RenderRing, Executed, PassedOver
  <2>3. QED
        BY <1>4, <2>1, <2>2 DEF RenderRing
<1>5. CASE CloseFrame
  <2>1. frames + 1 \in 0 .. MaxFrames
        BY <1>5, FramesType DEF CloseFrame
  <2>2. <<>> \in Rings
        BY FrameAssumption
  <2>3. QED
        BY <1>5, <2>1, <2>2, NoBatch DEF CloseFrame
<1>6. QED
      BY <1>1, <1>2, <1>3, <1>4, <1>5

LEMMA StepTInv == TInv /\ IInv /\ [Next]_vars => TInv'
<1> SUFFICES ASSUME TInv, IInv, [Next]_vars PROVE TInv'
    OBVIOUS
<1>1. CASE UNCHANGED vars
      BY <1>1 DEF vars, TInv, TypeOK, CaptureOn, RunCounts, More, attached, port, display,
                  inputs, run
<1>2. CASE Next
      BY <1>2, CallsKeepTypes, RunKeepsTypes DEF Next
<1>3. QED
      BY <1>1, <1>2

LEMMA TypeInvariance == Spec => []TInv
BY InitTInv, StepTInv, Invariance, PTL DEF Spec

\* Every cell keeps its range: the TGP is well formed whatever streams the
\* caller and the programs draw, and nothing but one program's packets is kept.
THEOREM TypeCorrect == Spec => []TypeOK
<1>1. TInv => TypeOK
      BY DEF TInv
<1>2. QED
      BY <1>1, TypeInvariance, PTL

\* A ring that the scan accepts is drawn as it was scanned, for every ring and
\* every state of the TGP.
THEOREM ScanIsKept == Spec => []ScannedIsFramed
<1>1. TInv => ScannedIsFramed
  <2> SUFFICES ASSUME TInv, ScanStream(ring).state = "ended"
               PROVE  LET r == DrawStream(ring) IN
                      /\ r.why \notin {"length", "framing"}
                      /\ Executed(r) => r.at = ScanStream(ring).at
      BY DEF ScannedIsFramed
  <2>1. PICK s \in Seq(Words) : s = ring
        BY DrawnAreWords DEF TInv
  <2>2. PICK t \in Tgp : t = tgp
        BY DEF TInv, TypeOK
  <2>3. PICK open : open = frameOpen
        OBVIOUS
  <2>4. ScanStream(s).state = "ended"
        BY <2>1
  <2> DEFINE r == ExecuteStream(t, s, open)
  <2>5. \/ r.why = "ended" /\ r.at = ScanStream(s).at
        \/ r.why \in {"bounds", "invalid"}
        BY <2>4, ScannedIsExecuted
  <2> HIDE DEF r
  <2>6. r.why \notin {"length", "framing"} /\ (Executed(r) => r.at = ScanStream(s).at)
        BY <2>5 DEF Executed
  <2>7. DrawStream(ring) = r
        BY <2>1, <2>2, <2>3 DEF DrawStream, r
  <2>8. QED
        BY <2>1, <2>6, <2>7
<1>2. QED
      BY <1>1, TypeInvariance, PTL

\* Drawing a stream that is refused keeps what its accepted prefix made.
LEMMA DrawnKeepsPrefix ==
  ASSUME tgp \in Tgp, NEW s \in Seq(Words), tgp' = DrawStream(s).tgp
  PROVE  KeepsPrefix(s)
<1>1. PICK t \in Tgp : t = tgp
      OBVIOUS
<1>2. PICK open : open = frameOpen
      OBVIOUS
<1> DEFINE r == ExecuteStream(t, s, open)
<1>3. ~ Executed(r) => r.tgp = ExecuteStream(t, SubSeq(s, 1, r.at), open).tgp
      BY RefusedIsPrefix
<1>4. DrawStream(s) = r
      BY <1>1, <1>2 DEF DrawStream
<1> HIDE DEF r
<1>5. QED
      BY <1>1, <1>2, <1>3, <1>4 DEF KeepsPrefix

\* A refused command costs a frame that command and what follows it, and
\* nothing of what came before.
THEOREM RefusalsKeep == Spec => RefusalKeepsPrefix
<1> DEFINE Kept ==
      /\ phase = "copro" => KeepsPrefix(captured)
      /\ phase = "ring" /\ ScanStream(ring).state = "ended" => KeepsPrefix(ring)
<1>1. TInv /\ [Next]_vars => [Kept]_vars
  <2> SUFFICES ASSUME TInv, [Next]_vars, vars' # vars PROVE Kept
      OBVIOUS
  <2>1. PICK s \in Seq(Words) : s = captured
        BY DrawnAreWords DEF TInv
  <2>2. PICK q \in Seq(Words) : q = ring
        BY DrawnAreWords DEF TInv
  <2>3. tgp \in Tgp
        BY DEF TInv, TypeOK
  <2>4. ASSUME phase = "copro" PROVE KeepsPrefix(captured)
    <3>1. RenderCopro
          BY <2>4 DEF Next, AttachGraphics, AttachNative, Restart, SetInput, BeginFrame,
             EndFrame, Update, SubmitGeometry, RunRefused, RunBegin, ProgramFrame, RenderRing,
             CloseFrame, OracleStep
    <3>2. tgp' = DrawStream(s).tgp
          BY <2>1, <3>1 DEF RenderCopro
    <3>3. QED
          BY <2>1, <2>3, <3>2, DrawnKeepsPrefix
  <2>5. ASSUME phase = "ring", ScanStream(ring).state = "ended" PROVE KeepsPrefix(ring)
    <3>1. RenderRing
          BY <2>5 DEF Next, AttachGraphics, AttachNative, Restart, SetInput, BeginFrame,
             EndFrame, Update, SubmitGeometry, RunRefused, RunBegin, ProgramFrame, RenderCopro,
             CloseFrame, OracleStep
    <3>2. tgp' = DrawStream(q).tgp
          BY <2>2, <2>5, <3>1 DEF RenderRing
    <3>3. QED
          BY <2>2, <2>3, <3>2, DrawnKeepsPrefix
  <2>6. QED
        BY <2>4, <2>5
<1>2. QED
      BY <1>1, TypeInvariance, PTL DEF Spec, RefusalKeepsPrefix
===============================================================================
