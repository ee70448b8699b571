----------------------------- MODULE MCGameFrame -----------------------------
(***************************************************************************)
(* Vertices of one word, RAMs of six, a ROM of nine whose list goes round  *)
(* when it has no normals; streams that reach every branch of the three    *)
(* ways of cutting them.                                                   *)
(***************************************************************************)
EXTENDS GameFrame

Word(high, low) == [top |-> FALSE, high |-> high, low |-> low]
W(low) == Word(0, low)
NaN == Word(255, 1)

MCRom == <<W(0), W(0), W(1), W(0), W(0), W(1), W(0), W(0), W(1)>>

End == <<Word(15, 0)>>
Mode(n) == <<Word(7, 0), W(n)>>
Polygons(links) == <<Word(2, 0), W(0), W(0), W(0), W(0)>> \o links
Triangle == <<W(2), W(0), W(0), W(0)>>
Quad(last) == <<W(1), W(0), W(0), W(0), last>>
LoadAt(index, words) == <<Word(5, 0), W(index), W(Len(words))>> \o words
ObjectAt(address, links) == <<Word(1, 0), W(0), W(0), address, W(links)>>
Matrix == <<Word(11, 0), W(1), W(1), W(1), W(1)>>
Bad == <<Word(14, 0)>>
Flagged == <<[top |-> TRUE, high |-> 7, low |-> 0], W(3)>>
Shape == <<W(0), W(0), W(2), W(0), W(0)>>

Prefixes(s) == {SubSeq(s, 1, n) : n \in 0 .. Len(s)}
Refusable == {Mode(2) \o LoadAt(0, Shape) \o ObjectAt(W(0), 0) \o End,
              Polygons(Triangle \o Quad(W(0)) \o <<W(0)>>) \o Matrix}
Sent == UNION {Prefixes(s) : s \in Refusable}
          \cup {Mode(3) \o Polygons(Quad(NaN) \o <<W(0)>>) \o End,
                LoadAt(1, Shape) \o LoadAt(2, Shape)}
MCRings == {<<>>, End, Mode(1) \o Bad \o End, Mode(3) \o Flagged,
            Polygons(Triangle \o Quad(W(0)) \o <<W(0)>>) \o End,
            Mode(2) \o LoadAt(2, Shape) \o End,
            Mode(3) \o ObjectAt(W(0), 2) \o Mode(1) \o ObjectAt(Word(1, 0), 0) \o End,
            Mode(3) \o ObjectAt(Word(1, 0), 0) \o End,
            Polygons(Quad(NaN) \o <<W(0)>>) \o End,
            Matrix \o Mode(0)}
MCSubmissions == {Mode(3) \o Polygons(Triangle \o <<W(0)>>)}

\* Headers through the lower half of the port, the rest through the upper one.
Writes(s) == [i \in DOMAIN s |->
  IF s[i].high = 0 THEN [to |-> Data, word |-> s[i]] ELSE [to |-> s[i].high, word |-> W(s[i].low)]]
MCPrograms == {Writes(s) : s \in Sent}
===============================================================================
