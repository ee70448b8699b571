--------------------------- MODULE GeometryStream ---------------------------
(***************************************************************************)
(* The geometry stream of the TGP: how a list of words is cut into         *)
(* commands, and what executing it does to the TGP and to the picture.     *)
(* A stream is cut three times in the code: by the length of a command,    *)
(* by the loop that walks the links of a direct polygon list while it is   *)
(* drawn, and by the scan that a captured ring must pass first.            *)
(*                                                                         *)
(* A word keeps what the code tests: bit 31 (top), bits 23 to 30 (high:    *)
(* the class is its low five bits, the address bits 23 and 24 its low two) *)
(* and the rest (low: counts, indices and attributes).  A picture is the   *)
(* number of its triangles.                                                *)
(***************************************************************************)
EXTENDS Integers, Sequences

CONSTANTS
  PointWords,     \* words of a vertex: 3
  RamWords,       \* words of a polygon RAM: 0x8000
  Rom             \* the polygon ROM, empty when there is none

Words == [top : BOOLEAN, high : 0 .. 255, low : Nat]

ASSUME GeometryAssumption ==
  /\ PointWords \in Nat \ {0} /\ RamWords \in Nat \ {0}
  /\ Rom \in Seq(Words)

Zero == [top |-> FALSE, high |-> 0, low |-> 0]
Class(w) == w.high % 32
TooMany == 2^20                          \* more words than any stream has
Value(w) == IF w.top \/ w.high # 0 THEN TooMany ELSE w.low
NotANumber(w) == w.high = 255 /\ w.low # 0

HasPolygon(attribute) == attribute.low % 4 # 0
IsQuad(attribute) == attribute.low % 2 = 1
LinkPoints(attribute) == IF IsQuad(attribute) THEN 2 ELSE 1

\* step applied n times
Repeat(step(_), start, n) ==
  LET after[k \in 0 .. n] == IF k = 0 THEN start ELSE step(after[k - 1]) IN after[n]

Points(words, first, n) == SubSeq(words, first, first + n * PointWords - 1)
AllNumbers(words) == \A i \in DOMAIN words : ~ NotANumber(words[i])

-------------------------------------------------------------------------------
\* Lengths.  0 is a command that is refused.

ListStart == 4 + 2 * PointWords          \* first attribute of a direct list
LinkWords(attribute) == 2 + LinkPoints(attribute) * PointWords

\* Mutant of ListWords: the two words before the vertices are not counted.
ListWordsBare(s) ==
  LET end[i \in 1 .. Len(s) + 1] ==
        IF i > Len(s) THEN 0
        ELSE IF ~ HasPolygon(s[i]) THEN i
        ELSE IF i + LinkWords(s[i]) - 2 > Len(s) THEN 0
        ELSE end[i + LinkWords(s[i]) - 1]
  IN IF ListStart > Len(s) THEN 0 ELSE end[ListStart]

\* A list ends with an attribute that has no polygon.  When the links end with the
\* stream, the code reads the next attribute from behind its last word, and the
\* difference its checks take underflows, so it may read on; the length is above
\* the words by then and only grows, and the list is refused whatever was read.
ListWords(s) ==
  LET end[i \in 1 .. Len(s) + 1] ==
        IF i > Len(s) THEN 0
        ELSE IF ~ HasPolygon(s[i]) THEN i
        ELSE IF i + LinkWords(s[i]) > Len(s) THEN 0
        ELSE end[i + LinkWords(s[i]) + 1]
  IN IF ListStart > Len(s) THEN 0 ELSE end[ListStart]

Sized(s, unit) == IF Len(s) < 3 THEN 0 ELSE 3 + unit * Value(s[3])

\* The length a command of this class asks for; s starts at the command.
Required(s) ==
  LET class == Class(s[1]) IN
  CASE class \in {0, 15, 31}             -> 1
    [] class \in {7, 8, 16} \cup 22 .. 28 -> 2
    [] class \in {9, 13}                 -> 3
    [] class \in {10, 12}                -> 4
    [] class = 1                         -> 5
    [] class = 3                         -> 7
    [] class = 11                        -> 1 + 4 * PointWords
    [] class \in {4, 5, 20, 21}          -> Sized(s, 1)
    [] class = 6                         -> Sized(s, 2)
    [] class = 2                         -> ListWords(s)
    [] OTHER                             -> 0

CommandWords(s) == IF s[1].top \/ Required(s) > Len(s) THEN 0 ELSE Required(s)

Rest(s, at) == SubSeq(s, at + 1, Len(s))
Ends(command) == Class(command[1]) \in {15, 31}

-------------------------------------------------------------------------------
\* The scan.

ScanStep(s, r) ==
  IF r.state # "running" \/ r.at = Len(s) THEN r
  ELSE LET n == CommandWords(Rest(s, r.at)) IN
       IF n = 0 THEN [r EXCEPT !.state = "refused"]
       ELSE [at |-> r.at + n, commands |-> r.commands + 1,
             state |-> IF Ends(Rest(s, r.at)) THEN "ended" ELSE "running"]

ScanStream(s) ==
  LET Step(r) == ScanStep(s, r)
  IN Repeat(Step, [at |-> 0, commands |-> 0, state |-> "running"], Len(s))

-------------------------------------------------------------------------------
\* Polygons.  A result counts the triangles drawn and says why it stopped:
\* "ok", "bounds" (swallowed for a ring) or "invalid" (never swallowed).

\* The vertices a link adds, drawn with the two that are carried.  A carried
\* vertex was drawn before, so the first two of the list stand for them.
Polygon(carried, fresh, frameOpen) ==
  LET first == SubSeq(fresh, 1, PointWords) IN
  CASE ~ frameOpen \/ ~ AllNumbers(carried \o first) -> [triangles |-> 0, why |-> "invalid"]
    [] ~ AllNumbers(fresh)                           -> [triangles |-> 1, why |-> "invalid"]
    [] OTHER -> [triangles |-> Len(fresh) \div PointWords, why |-> "ok"]

Draw(r, carried, fresh, next, frameOpen) ==
  LET p == Polygon(carried, fresh, frameOpen)
  IN [at |-> next, triangles |-> r.triangles + p.triangles, links |-> r.links + 1,
      why |-> IF p.why = "ok" THEN "running" ELSE p.why]

Walk == [at |-> 0, triangles |-> 0, links |-> 0, why |-> "running"]

\* One link of a direct list: s is the command, r.at the attribute's place.
DirectStep(s, frameOpen, r) ==
  LET attribute == s[r.at] fresh == r.at + 3 IN
  IF r.why # "running" THEN r
  ELSE IF r.at > Len(s) THEN [r EXCEPT !.why = "ok"]
  ELSE IF ~ HasPolygon(attribute) THEN [r EXCEPT !.at = @ + 1, !.why = "ok"]
  ELSE IF r.at + LinkWords(attribute) > Len(s) THEN [r EXCEPT !.why = "framing"]
  ELSE Draw(r, Points(s, 4, 2), Points(s, fresh, LinkPoints(attribute)),
            r.at + LinkWords(attribute) + 1, frameOpen)

Direct(s, frameOpen) ==
  LET Step(r) == DirectStep(s, frameOpen, r)
  IN Repeat(Step, [Walk EXCEPT !.at = ListStart], Len(s))

\* The source of an object: the ROM, whose addresses wrap, or one of the RAMs,
\* whose addresses end.  Words from, and how many can be read.
FromRom(address) == address.high % 2 = 1
Bank(address) == (address.high \div 2) % 2
Readable(tgp, address, from, n) ==
  IF FromRom(address) THEN Rom # <<>>
  ELSE (address.low % RamWords) + from + n <= RamWords
Read(tgp, address, from, n) ==
  [i \in 1 .. n |->
     IF FromRom(address) THEN Rom[1 + ((address.low + from + i - 1) % Len(Rom))]
     ELSE tgp.ram[Bank(address)][(address.low % RamWords) + from + i - 1]]

\* One link of an object: r.at words of it are read.
ObjectStep(tgp, command, frameOpen, r) ==
  LET source == command[4]
      limit == IF Value(command[5]) = 0 THEN TooMany ELSE Value(command[5])
      attribute == Read(tgp, source, r.at, 1)[1]
      normal == IF tgp.mode.low % 4 < 2 THEN PointWords ELSE 0
      fresh == r.at + 1 + normal
      size == LinkPoints(attribute) * PointWords
  IN IF r.why # "running" THEN r
     ELSE IF r.links = limit THEN [r EXCEPT !.why = "ok"]
     ELSE IF ~ Readable(tgp, source, r.at, 1) THEN [r EXCEPT !.why = "bounds"]
     ELSE IF ~ HasPolygon(attribute) THEN [r EXCEPT !.why = "ok"]
     ELSE IF ~ Readable(tgp, source, fresh, size) THEN [r EXCEPT !.why = "bounds"]
     ELSE Draw(r, Read(tgp, source, 0, 2 * PointWords), Read(tgp, source, fresh, size),
               fresh + size, frameOpen)

\* A list that goes round in the ROM is drawn up to its limit of links, which
\* ends it well; the triangles of its first rounds stand for all.
Object(tgp, command, frameOpen) ==
  LET Step(r) == ObjectStep(tgp, command, frameOpen, r)
      links == Repeat(Step, [Walk EXCEPT !.at = 2 * PointWords], RamWords + Len(Rom))
  IN IF ~ Readable(tgp, command[4], 0, 2 * PointWords) THEN [Walk EXCEPT !.why = "bounds"]
     ELSE [links EXCEPT !.why = IF @ = "running" THEN "ok" ELSE @]

-------------------------------------------------------------------------------
\* Execution.

Tgp == [mode : Words, focus : Seq(Words), rotation : Seq(Words), translation : Seq(Words),
        ram : [{0, 1} -> [0 .. RamWords - 1 -> Words]]]

InitTgp == [mode |-> Zero, focus |-> <<>>, rotation |-> <<>>, translation |-> <<>>,
            ram |-> [b \in {0, 1} |-> [i \in 0 .. RamWords - 1 |-> Zero]]]

UploadFits(command) == Value(command[3]) <= RamWords - (command[2].low % RamWords)
Upload(tgp, command) ==
  LET index == (command[2].low % RamWords)
      words == SubSeq(command, 4, Len(command))
  IN [tgp EXCEPT !.ram[Bank(command[2])] =
        [i \in 0 .. RamWords - 1 |->
           IF i \in index .. index + Len(words) - 1 THEN words[i - index + 1] ELSE @[i]]]

Draws(command) == Class(command[1]) \in {1, 2}
Drawn(tgp, command, frameOpen) ==
  IF Class(command[1]) = 1 THEN Object(tgp, command, frameOpen) ELSE Direct(command, frameOpen)

\* Commands that set a register of the TGP; the others are passed over.
Set(tgp, command) ==
  LET payload == Tail(command) IN
  CASE Class(command[1]) = 7  -> [tgp EXCEPT !.mode = payload[1]]
    [] Class(command[1]) = 9  -> [tgp EXCEPT !.focus = payload]
    [] Class(command[1]) = 11 -> [tgp EXCEPT !.rotation = Points(payload, 1, 3),
                                             !.translation = Points(payload, 1 + 3 * PointWords, 1)]
    [] Class(command[1]) = 12 -> [tgp EXCEPT !.translation = payload]
    [] OTHER -> tgp

\* Drawing leaves the TGP alone.
Pictured(tgp, drawn) ==
  [tgp |-> tgp, triangles |-> drawn.triangles, why |-> drawn.why]

Uploads(command) == Class(command[1]) \in {5, 21}

\* Mutant of ExecuteCommand: an upload that does not fit is cut, then refused.
ExecuteCommandUploadsFirst(tgp, command, frameOpen) ==
  IF Draws(command)
  THEN Pictured(tgp, Drawn(tgp, command, frameOpen))
  ELSE IF Uploads(command)
  THEN [tgp |-> Upload(tgp, command), triangles |-> 0,
        why |-> IF UploadFits(command) THEN "ok" ELSE "bounds"]
  ELSE [tgp |-> Set(tgp, command), triangles |-> 0, why |-> "ok"]

ExecuteCommand(tgp, command, frameOpen) ==
  IF Draws(command)
  THEN Pictured(tgp, Drawn(tgp, command, frameOpen))
  ELSE IF Uploads(command) /\ ~ UploadFits(command)
  THEN [tgp |-> tgp, triangles |-> 0, why |-> "bounds"]
  ELSE [tgp |-> IF Uploads(command) THEN Upload(tgp, command) ELSE Set(tgp, command),
        triangles |-> 0, why |-> "ok"]

\* r.why is "running" while commands follow and at the end of the words, and
\* r.at stays at a command that is refused.
Executing(r, command, done) ==
  [at |-> IF done.why = "ok" THEN r.at + Len(command) ELSE r.at,
   tgp |-> done.tgp, triangles |-> r.triangles + done.triangles,
   why |-> IF done.why # "ok" THEN done.why
           ELSE IF Ends(command) THEN "ended" ELSE "running"]

ExecuteStep(s, frameOpen, r) ==
  LET n == CommandWords(Rest(s, r.at))
      command == SubSeq(s, r.at + 1, r.at + n)
  IN IF r.why # "running" \/ r.at = Len(s) THEN r
     ELSE IF n = 0 THEN [r EXCEPT !.why = "length"]
     ELSE Executing(r, command, ExecuteCommand(r.tgp, command, frameOpen))

ExecuteStream(tgp, s, frameOpen) ==
  LET Step(r) == ExecuteStep(s, frameOpen, r)
  IN Repeat(Step, [at |-> 0, tgp |-> tgp, triangles |-> 0, why |-> "running"], Len(s))

Executed(r) == r.why \in {"running", "ended"}
PassedOver(r) == r.why \in {"length", "framing", "bounds"}
=============================================================================
