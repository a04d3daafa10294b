------------------------- MODULE PatchResultsProofs -------------------------
(***************************************************************************)
(* Theorems about PatchResults, for every grid, set of requests and number *)
(* of runs and faults.                                                     *)
(***************************************************************************)
EXTENDS PatchResults, SequenceTheorems, TLAPS

(***************************************************************************)
(* The inductive invariant.                                                *)
(***************************************************************************)
\* A directory has one header from its first record on, every piece in it
\* was computed for that header, and only its last line may lack an end.
Pure(lines, header) ==
    /\ lines # <<>> => header # NoHeader
    /\ \A k \in 1 .. Len(lines) :
          \A j \in 1 .. Len(lines[k].text) : lines[k].text[j].record.of = header
    /\ \A k \in 1 .. Len(lines) : k < Len(lines) => lines[k].ended

SoundDir(d) == Pure(d.lines, d.header) /\ (d.opened <=> d.header # NoHeader)

\* Records in memory: of one request, in the order of the patches.
InOrder(records, r) ==
    \A k \in 1 .. Len(records) :
        /\ records[k].of = r
        /\ k <= Total => records[k].coord = k - 1

\* The lines that hold exactly these records.
Whole(records) == [k \in 1 .. Len(records) |-> [text |-> Text(records[k]), ended |-> TRUE]]

Head1(r) == << [record |-> r, part |-> "head"] >>
Last2(r) == << [record |-> r, part |-> "rest"], [record |-> r, part |-> "newline"] >>
Last1(r) == << [record |-> r, part |-> "newline"] >>

\* How far the payload of a record has come from the buffer to the file.
Underway(records, lines, buffer, r) ==
    \/ lines = Whole(records) /\ buffer = Payload(r)
    \/ lines = Append(Whole(records), [text |-> Head1(r), ended |-> FALSE]) /\ buffer = Last2(r)
    \/ lines = Append(Whole(records), [text |-> Text(r), ended |-> FALSE]) /\ buffer = Last1(r)
    \/ lines = Append(Whole(records), [text |-> Text(r), ended |-> TRUE]) /\ buffer = <<>>

\* While nothing went wrong the file holds what the writer remembers.
Coherent(w, lines) ==
    IF w.phase = "appending" THEN Underway(w.records, lines, w.buffer, w.pending[1])
    ELSE lines = Whole(w.records) /\ w.buffer = <<>>

SoundWriter(w, d) ==
    /\ IF w.phase = "starting" THEN d.header = NoHeader /\ w.records = <<>>
       ELSE d.header = w.request
    /\ InOrder(w.records, w.request)
    /\ \A k \in 1 .. Len(w.buffer) : w.buffer[k].record.of = w.request
    /\ IF w.phase = "appending"
       THEN /\ Len(w.pending) = 1 /\ w.pending[1].of = w.request
            /\ Len(w.records) < Total => w.pending[1].coord = Len(w.records)
       ELSE w.pending = <<>>
    /\ w.phase \in {"sealing", "sealed"} => Complete(w.records)
    /\ w.phase = "sealed" =>
          d.manifest = [of |-> w.request, count |-> Len(w.records), lines |-> d.lines,
                        header |-> d.header, clean |-> w.clean]
    /\ w.clean => Coherent(w, d.lines)

SoundTarget ==
    target # NoDir =>
        /\ SoundDir(target) /\ target.manifest # NoManifest
        /\ target.manifest.clean => Readable(target)

RunInv ==
    /\ \A s \in StagingNames : staging[s] # NoDir => SoundDir(staging[s])
    /\ writer # NoWriter => SoundWriter(writer, staging[writer.slot])
    /\ SoundTarget
    /\ result # NoResult => WholeCapture(result.records, result.manifest.of)
    /\ DeletionIsJustified

PatchInv == TypeOK /\ RunInv
-----------------------------------------------------------------------------
(***************************************************************************)
(* Lines and the pieces written to them.                                   *)
(***************************************************************************)
Texts == [record : Records, part : Parts]

\* The line a piece is written to, and the lines before it.
Joins(lines) == lines # <<>> /\ ~lines[Len(lines)].ended
Before(lines) == IF Joins(lines) THEN SubSeq(lines, 1, Len(lines) - 1) ELSE lines
LastText(lines) == IF Joins(lines) THEN lines[Len(lines)].text ELSE <<>>
NewText(lines, p) == IF p.part = "newline" THEN LastText(lines) ELSE Append(LastText(lines), p)

\* A piece makes the last line anew: it joins that line unless it has ended.
LEMMA WrittenForm ==
    ASSUME NEW lines \in Seq(Lines), NEW p \in Pieces
    PROVE  Written(lines, p)
              = Append(Before(lines), [text |-> NewText(lines, p), ended |-> p.part = "newline"])
PROOF
<1>1. ~Joins(lines) <=> Len(lines) = 0 \/ lines[Len(lines)].ended
  <2>1. lines = <<>> <=> Len(lines) = 0
    BY EmptySeq
  <2> QED BY <2>1 DEF Joins
<1>2. CASE Joins(lines)
  <2>1. ~(Len(lines) = 0 \/ lines[Len(lines)].ended)
    BY <1>1, <1>2
  <2> QED BY <1>2, <2>1 DEF Written, Before, LastText, NewText
<1>3. CASE ~Joins(lines)
  <2>1. Len(lines) = 0 \/ lines[Len(lines)].ended
    BY <1>1, <1>3
  <2> QED BY <1>3, <2>1 DEF Written, Before, LastText, NewText
<1> QED BY <1>2, <1>3

\* What stays of a file under one more piece, and the types involved.
LEMMA WrittenType ==
    ASSUME NEW lines \in Seq(Lines), NEW p \in Pieces
    PROVE  /\ Before(lines) \in Seq(Lines) /\ LastText(lines) \in Seq(Texts)
           /\ NewText(lines, p) \in Seq(Texts)
           /\ Written(lines, p) \in Seq(Lines)
           /\ Len(Before(lines)) \in Nat /\ Len(Before(lines)) <= Len(lines)
           /\ \A k \in 1 .. Len(Before(lines)) : k \in 1 .. Len(lines) /\ Before(lines)[k] = lines[k]
           /\ Joins(lines) => Len(lines) \in 1 .. Len(lines) /\ Len(Before(lines)) = Len(lines) - 1
           /\ ~Joins(lines) => Before(lines) = lines
PROOF
<1>1. Len(lines) \in Nat /\ \A k \in 1 .. Len(lines) : lines[k] \in Lines
  BY LenProperties, ElementOfSeq
<1>2. Joins(lines) => Len(lines) \in 1 .. Len(lines)
  BY <1>1, EmptySeq DEF Joins
<1>3. ASSUME Joins(lines)
      PROVE  /\ SubSeq(lines, 1, Len(lines) - 1) \in Seq(Lines)
             /\ Len(SubSeq(lines, 1, Len(lines) - 1)) = Len(lines) - 1
             /\ \A k \in 1 .. Len(lines) - 1 : SubSeq(lines, 1, Len(lines) - 1)[k] = lines[k]
  <2> DEFINE m == Len(lines) - 1
  <2>1. m \in Nat /\ \A k \in 1 .. m : k \in 1 .. Len(lines) /\ lines[k] \in Lines
    BY <1>1, <1>2, <1>3
  <2> HIDE DEF m
  <2>2. m \in Int /\ 1 \in Int /\ \A k \in 1 .. m : lines[k] \in Lines
    BY <2>1
  <2>3. /\ SubSeq(lines, 1, m) \in Seq(Lines)
        /\ Len(SubSeq(lines, 1, m)) = IF 1 <= m THEN m - 1 + 1 ELSE 0
        /\ \A k \in 1 .. m - 1 + 1 : SubSeq(lines, 1, m)[k] = lines[1 + k - 1]
    BY <2>2, SubSeqProperties
  <2>4. /\ (IF 1 <= m THEN m - 1 + 1 ELSE 0) = m /\ m - 1 + 1 = m
        /\ \A k \in 1 .. m : 1 + k - 1 = k
    BY <2>1
  <2>5. /\ SubSeq(lines, 1, m) \in Seq(Lines) /\ Len(SubSeq(lines, 1, m)) = m
        /\ \A k \in 1 .. m : SubSeq(lines, 1, m)[k] = lines[k]
    BY <2>3, <2>4
  <2> QED BY <2>5 DEF m
<1>4. Before(lines) \in Seq(Lines)
  BY <1>3 DEF Before
<1>5. LastText(lines) \in Seq(Texts)
  <2>1. CASE Joins(lines)
    <3>1. lines[Len(lines)].text \in Seq(Texts)
      BY <1>1, <1>2, <2>1 DEF Lines, Texts
    <3> QED BY <3>1, <2>1 DEF LastText
  <2>2. CASE ~Joins(lines)
    BY <2>2 DEF LastText
  <2> QED BY <2>1, <2>2
<1>6. NewText(lines, p) \in Seq(Texts)
  <2>1. p.part # "newline" => p \in Texts
    BY DEF Pieces, Texts
  <2> QED BY <1>5, <2>1 DEF NewText
<1>7. [text |-> NewText(lines, p), ended |-> p.part = "newline"] \in Lines
  BY <1>6 DEF Lines, Texts
<1>8. Written(lines, p) \in Seq(Lines)
  BY <1>4, <1>7, WrittenForm
<1>9. /\ Len(Before(lines)) \in Nat /\ Len(Before(lines)) <= Len(lines)
      /\ \A k \in 1 .. Len(Before(lines)) : k \in 1 .. Len(lines) /\ Before(lines)[k] = lines[k]
      /\ Joins(lines) => Len(Before(lines)) = Len(lines) - 1
  BY <1>1, <1>2, <1>3 DEF Before
<1> QED BY <1>2, <1>4, <1>5, <1>6, <1>8, <1>9 DEF Before

\* Written keeps the pieces of a file to one header and its lines ended.
LEMMA WrittenPure ==
    ASSUME NEW lines \in Seq(Lines), NEW p \in Pieces, NEW h, Pure(lines, h),
           p.record.of = h, h # NoHeader
    PROVE  Pure(Written(lines, p), h)
PROOF
<1> DEFINE b == Before(lines)
           t == NewText(lines, p)
           last == [text |-> t, ended |-> p.part = "newline"]
           w == Append(b, last)
<1>1. /\ b \in Seq(Lines) /\ t \in Seq(Texts) /\ LastText(lines) \in Seq(Texts)
      /\ Len(b) \in Nat /\ Len(b) <= Len(lines)
      /\ \A k \in 1 .. Len(b) : k \in 1 .. Len(lines) /\ b[k] = lines[k]
      /\ Joins(lines) => Len(lines) \in 1 .. Len(lines) /\ Len(b) = Len(lines) - 1
      /\ ~Joins(lines) => b = lines
      /\ Len(lines) \in Nat
  BY WrittenType, LenProperties
<1>2. last \in Lines /\ last.text = t
  BY <1>1 DEF Lines, Texts
<1>3. Written(lines, p) = w
  BY WrittenForm
<1>4. \A j \in 1 .. Len(LastText(lines)) : LastText(lines)[j].record.of = h
  <2>1. CASE Joins(lines)
    BY <1>1, <2>1 DEF Pure, LastText
  <2>2. CASE ~Joins(lines)
    <3>1. Len(LastText(lines)) = 0
      BY <2>2 DEF LastText
    <3> QED BY <3>1
  <2> QED BY <2>1, <2>2
<1>5. \A j \in 1 .. Len(t) : t[j].record.of = h
  <2>1. CASE p.part = "newline"
    BY <1>4, <2>1 DEF NewText
  <2>2. CASE p.part # "newline"
    <3>1. t = Append(LastText(lines), p) /\ p \in Texts
      BY <2>2 DEF NewText, Pieces, Texts
    <3>2. /\ Len(t) = Len(LastText(lines)) + 1 /\ t[Len(LastText(lines)) + 1] = p
          /\ \A j \in 1 .. Len(LastText(lines)) : t[j] = LastText(lines)[j]
      BY <1>1, <3>1, AppendProperties
    <3>3. Len(LastText(lines)) \in Nat
      BY <1>1, LenProperties
    <3> HIDE DEF t
    <3> QED BY <1>4, <3>2, <3>3
  <2> QED BY <2>1, <2>2
<1>6. \A k \in 1 .. Len(b) : b[k].ended
  <2>1. CASE Joins(lines)
    BY <1>1, <2>1 DEF Pure
  <2>2. CASE ~Joins(lines)
    <3>1. lines = <<>> \/ lines[Len(lines)].ended
      BY <2>2 DEF Joins
    <3>2. \A k \in 1 .. Len(lines) : k < Len(lines) => lines[k].ended
      BY DEF Pure
    <3>3. \A k \in 1 .. Len(lines) : lines[k].ended
      BY <1>1, <3>1, <3>2
    <3> QED BY <1>1, <2>2, <3>3
  <2> QED BY <2>1, <2>2
<1> HIDE DEF last
<1>7. /\ w \in Seq(Lines) /\ Len(w) = Len(b) + 1 /\ w[Len(b) + 1] = last
      /\ \A k \in 1 .. Len(b) : w[k] = b[k]
  BY <1>1, <1>2, AppendProperties
<1> HIDE DEF b, t, w
<1>8. \A k \in 1 .. Len(w) : \A j \in 1 .. Len(w[k].text) : w[k].text[j].record.of = h
  <2> SUFFICES ASSUME NEW k \in 1 .. Len(w)
               PROVE  \A j \in 1 .. Len(w[k].text) : w[k].text[j].record.of = h
    OBVIOUS
  <2>1. CASE k \in 1 .. Len(b)
    <3>1. w[k] = lines[k] /\ k \in 1 .. Len(lines)
      BY <1>1, <1>7, <2>1
    <3> QED BY <3>1 DEF Pure
  <2>2. CASE k = Len(b) + 1
    BY <1>2, <1>5, <1>7, <2>2
  <2> QED BY <1>1, <1>7, <2>1, <2>2
<1>9. \A k \in 1 .. Len(w) : k < Len(w) => w[k].ended
  <2> SUFFICES ASSUME NEW k \in 1 .. Len(w), k < Len(w) PROVE w[k].ended
    OBVIOUS
  <2>1. k \in 1 .. Len(b)
    BY <1>1, <1>7
  <2>2. w[k] = b[k]
    BY <1>7, <2>1
  <2> QED BY <1>6, <2>1, <2>2
<1>10. Pure(w, h)
  BY <1>8, <1>9 DEF Pure
<1> QED BY <1>3, <1>10

-----------------------------------------------------------------------------
(***************************************************************************)
(* Whole lines, and a record on its way from the buffer to the file.       *)
(***************************************************************************)
Ready(r) == [text |-> Text(r), ended |-> TRUE]

\* A record is two pieces of text; what parses is the text of its record.
LEMMA TextForm ==
    ASSUME NEW r \in Records
    PROVE  /\ Text(r) \in Seq(Texts) /\ Len(Text(r)) = 2 /\ Text(r)[1].record = r
           /\ Head1(r) \in Seq(Texts) /\ Head1(r) = Append(<<>>, [record |-> r, part |-> "head"])
           /\ Text(r) = Append(Head1(r), [record |-> r, part |-> "rest"])
           /\ Ready(r) \in Lines /\ [text |-> Text(r), ended |-> FALSE] \in Lines
           /\ [text |-> Head1(r), ended |-> FALSE] \in Lines
PROOF
<1> DEFINE a == [record |-> r, part |-> "head"]
           b == [record |-> r, part |-> "rest"]
<1>1. a \in Texts /\ b \in Texts /\ a.record = r
  BY DEF Texts, Parts
<1>2. Text(r) = <<a, b>> /\ Head1(r) = <<a>>
  BY DEF Text, Head1
<1> HIDE DEF a, b
<1>3. <<a, b>> \in Seq(Texts) /\ <<a>> \in Seq(Texts) /\ Len(<<a, b>>) = 2 /\ <<a, b>>[1] = a
  BY <1>1
<1>4. <<a>> = Append(<<>>, a) /\ <<a, b>> = Append(<<a>>, b)
  OBVIOUS
<1>5. Text(r) \in Seq(Texts) /\ Head1(r) \in Seq(Texts)
  BY <1>2, <1>3
<1>6. Ready(r) \in Lines /\ [text |-> Text(r), ended |-> FALSE] \in Lines
      /\ [text |-> Head1(r), ended |-> FALSE] \in Lines
  BY <1>5 DEF Ready, Lines, Texts
<1> QED BY <1>1, <1>2, <1>3, <1>4, <1>6 DEF a, b

\* Whole lines are ended lines, one for each record.
LEMMA WholeType ==
    ASSUME NEW records \in Seq(Records)
    PROVE  /\ Whole(records) \in Seq(Lines) /\ Len(Whole(records)) = Len(records)
           /\ Len(records) \in Nat
           /\ \A k \in 1 .. Len(records) :
                 records[k] \in Records /\ Whole(records)[k] = Ready(records[k])
           /\ ~Joins(Whole(records))
PROOF
<1>1. Len(records) \in Nat /\ \A k \in 1 .. Len(records) : records[k] \in Records
  BY LenProperties, ElementOfSeq
<1>2. Whole(records) = [k \in 1 .. Len(records) |-> Ready(records[k])]
  BY DEF Whole, Ready
<1>3. \A k \in 1 .. Len(records) : Ready(records[k]) \in Lines
  BY <1>1, TextForm
<1> DEFINE w == [k \in 1 .. Len(records) |-> Ready(records[k])]
<1>4. w \in [1 .. Len(records) -> Lines]
  BY <1>3
<1>5. w \in Seq(Lines) /\ Len(w) = Len(records)
  BY <1>1, <1>4
<1>6. \A k \in 1 .. Len(records) : w[k] = Ready(records[k])
  OBVIOUS
<1> HIDE DEF w
<1>7. ~Joins(w)
  <2>1. w # <<>> => Len(w) \in 1 .. Len(records)
    BY <1>1, <1>5, EmptySeq
  <2>2. \A k \in 1 .. Len(records) : w[k].ended
    <3>1. \A x \in Records : Ready(x).ended
      BY DEF Ready
    <3> QED BY <1>1, <1>6, <3>1
  <2> QED BY <1>5, <2>1, <2>2 DEF Joins
<1> QED BY <1>1, <1>2, <1>5, <1>6, <1>7 DEF w

\* A line that has not ended is joined, and the lines before it stay.
LEMMA JoinedForm ==
    ASSUME NEW before \in Seq(Lines), NEW line \in Lines, ~line.ended
    PROVE  /\ Append(before, line) \in Seq(Lines)
           /\ Joins(Append(before, line)) /\ Before(Append(before, line)) = before
           /\ LastText(Append(before, line)) = line.text
PROOF
<1> DEFINE s == Append(before, line)
<1>1. /\ s \in Seq(Lines) /\ s # <<>> /\ Len(s) = Len(before) + 1 /\ s[Len(before) + 1] = line
      /\ \A k \in 1 .. Len(before) : s[k] = before[k]
      /\ Len(before) \in Nat
  BY AppendProperties, LenProperties
<1> HIDE DEF s
<1>2. Joins(s)
  BY <1>1 DEF Joins
<1>3. /\ Before(s) \in Seq(Lines) /\ Len(Before(s)) = Len(s) - 1
      /\ \A k \in 1 .. Len(Before(s)) : Before(s)[k] = s[k]
  <2>1. \A p \in Pieces : Before(s) \in Seq(Lines)
    BY <1>1, WrittenType
  <2> DEFINE m == Len(s) - 1
  <2>2. m \in Nat /\ m = Len(before) /\ \A k \in 1 .. m : s[k] \in Lines
    <3>1. \A k \in 1 .. Len(before) : before[k] \in Lines
      BY ElementOfSeq
    <3> QED BY <1>1, <3>1
  <2>3. Before(s) = SubSeq(s, 1, m)
    BY <1>2 DEF Before
  <2> HIDE DEF m
  <2>4. m \in Int /\ 1 \in Int /\ \A k \in 1 .. m : s[k] \in Lines
    BY <2>2
  <2>5. /\ SubSeq(s, 1, m) \in Seq(Lines)
        /\ Len(SubSeq(s, 1, m)) = IF 1 <= m THEN m - 1 + 1 ELSE 0
        /\ \A k \in 1 .. m - 1 + 1 : SubSeq(s, 1, m)[k] = s[1 + k - 1]
    BY <2>4, SubSeqProperties
  <2>6. /\ (IF 1 <= m THEN m - 1 + 1 ELSE 0) = m /\ m - 1 + 1 = m
        /\ \A k \in 1 .. m : 1 + k - 1 = k
    BY <2>2
  <2>7. /\ SubSeq(s, 1, m) \in Seq(Lines) /\ Len(SubSeq(s, 1, m)) = m
        /\ \A k \in 1 .. m : SubSeq(s, 1, m)[k] = s[k]
    BY <2>5, <2>6
  <2> QED BY <2>3, <2>7 DEF m
<1>4. Before(s) = before
  <2>1. Len(Before(s)) = Len(before) /\ \A k \in 1 .. Len(Before(s)) : Before(s)[k] = before[k]
    BY <1>1, <1>3
  <2> QED BY <1>3, <2>1, SeqEqual
<1>5. LastText(s) = line.text
  BY <1>1, <1>2 DEF LastText
<1> QED BY <1>1, <1>2, <1>4, <1>5 DEF s

\* One piece more: the payload stays underway.
LEMMA UnderwayStep ==
    ASSUME NEW records \in Seq(Records), NEW r \in Records, NEW lines \in Seq(Lines),
           NEW buffer, Underway(records, lines, buffer, r), buffer # <<>>
    PROVE  Underway(records, Written(lines, Head(buffer)), Tail(buffer), r)
PROOF
<1> DEFINE a == [record |-> r, part |-> "head"]
           b == [record |-> r, part |-> "rest"]
           c == [record |-> r, part |-> "newline"]
           W == Whole(records)
<1>1. a \in Pieces /\ b \in Pieces /\ c \in Pieces
  BY DEF Pieces, Parts
<1>2. W \in Seq(Lines) /\ ~Joins(W)
  BY WholeType
<1>3. CASE lines = W /\ buffer = Payload(r)
  <2>1. Head(buffer) = a /\ Tail(buffer) = Last2(r)
    BY <1>3 DEF Payload, Last2
  <2>2. Written(W, a) = Append(Before(W), [text |-> NewText(W, a), ended |-> a.part = "newline"])
    BY <1>1, <1>2, WrittenForm
  <2>3. Before(W) = W /\ NewText(W, a) = Head1(r) /\ (a.part = "newline") = FALSE
    BY <1>2, TextForm DEF Before, NewText, LastText
  <2>4. Written(lines, Head(buffer)) = Append(W, [text |-> Head1(r), ended |-> FALSE])
    BY <1>3, <2>1, <2>2, <2>3
  <2> QED BY <2>1, <2>4 DEF Underway
<1>4. CASE lines = Append(W, [text |-> Head1(r), ended |-> FALSE]) /\ buffer = Last2(r)
  <2> DEFINE line == [text |-> Head1(r), ended |-> FALSE]
  <2>1. Head(buffer) = b /\ Tail(buffer) = Last1(r)
    BY <1>4 DEF Last2, Last1
  <2>2. line \in Lines /\ ~line.ended /\ line.text = Head1(r)
    BY TextForm
  <2>3. lines = Append(W, line)
    BY <1>4
  <2> HIDE DEF line, W
  <2>4. Before(lines) = W /\ LastText(lines) = Head1(r)
    BY <1>2, <2>2, <2>3, JoinedForm
  <2>5. Written(lines, b) = Append(Before(lines), [text |-> NewText(lines, b), ended |-> b.part = "newline"])
    BY <1>1, WrittenForm
  <2>6. NewText(lines, b) = Text(r) /\ (b.part = "newline") = FALSE
    BY <2>4, TextForm DEF NewText
  <2>7. Written(lines, Head(buffer)) = Append(W, [text |-> Text(r), ended |-> FALSE])
    BY <2>1, <2>4, <2>5, <2>6
  <2> QED BY <2>1, <2>7 DEF Underway, W
<1>5. CASE lines = Append(W, [text |-> Text(r), ended |-> FALSE]) /\ buffer = Last1(r)
  <2> DEFINE line == [text |-> Text(r), ended |-> FALSE]
  <2>1. Head(buffer) = c /\ Tail(buffer) = <<>>
    BY <1>5 DEF Last1
  <2>2. line \in Lines /\ ~line.ended /\ line.text = Text(r)
    BY TextForm
  <2>3. lines = Append(W, line)
    BY <1>5
  <2> HIDE DEF line, W
  <2>4. Before(lines) = W /\ LastText(lines) = Text(r)
    BY <1>2, <2>2, <2>3, JoinedForm
  <2>5. Written(lines, c) = Append(Before(lines), [text |-> NewText(lines, c), ended |-> c.part = "newline"])
    BY <1>1, WrittenForm
  <2>6. NewText(lines, c) = Text(r) /\ (c.part = "newline") = TRUE
    BY <2>4 DEF NewText
  <2>7. Written(lines, Head(buffer)) = Append(W, [text |-> Text(r), ended |-> TRUE])
    BY <2>1, <2>4, <2>5, <2>6
  <2> QED BY <2>1, <2>7 DEF Underway, W
<1> QED BY <1>3, <1>4, <1>5 DEF Underway

\* Once the newline is there, the record is one of the whole lines.
LEMMA WholeAppend ==
    ASSUME NEW records \in Seq(Records), NEW r \in Records
    PROVE  Append(Whole(records), Ready(r)) = Whole(records \o <<r>>)
PROOF
<1> DEFINE q == records \o <<r>>
           n == Len(records)
           s == Append(Whole(records), Ready(r))
<1>1. <<r>> \in Seq(Records) /\ Len(<<r>>) = 1 /\ <<r>>[1] = r
  OBVIOUS
<1>2. n \in Nat /\ q \in Seq(Records) /\ Len(q) = n + 1
      /\ \A k \in 1 .. n + 1 : q[k] = IF k <= n THEN records[k] ELSE <<r>>[k - n]
  BY <1>1, ConcatProperties, LenProperties
<1>3. /\ Whole(records) \in Seq(Lines) /\ Len(Whole(records)) = n /\ Ready(r) \in Lines
      /\ \A k \in 1 .. n : Whole(records)[k] = Ready(records[k])
  BY WholeType, TextForm
<1>4. /\ s \in Seq(Lines) /\ Len(s) = n + 1 /\ s[n + 1] = Ready(r)
      /\ \A k \in 1 .. n : s[k] = Whole(records)[k]
  BY <1>3, AppendProperties
<1>5. /\ Whole(q) \in Seq(Lines) /\ Len(Whole(q)) = n + 1
      /\ \A k \in 1 .. n + 1 : Whole(q)[k] = Ready(q[k])
  BY <1>2, WholeType
<1>6. q[n + 1] = r /\ \A k \in 1 .. n : q[k] = records[k]
  BY <1>1, <1>2
<1> HIDE DEF q, n, s
<1>7. \A k \in 1 .. Len(s) : s[k] = Whole(q)[k]
  <2> SUFFICES ASSUME NEW k \in 1 .. n + 1 PROVE s[k] = Whole(q)[k]
    BY <1>4
  <2>1. CASE k = n + 1
    BY <1>4, <1>5, <1>6, <2>1
  <2>2. CASE k \in 1 .. n
    BY <1>3, <1>4, <1>5, <1>6, <2>2
  <2> QED BY <1>2, <2>1, <2>2
<1>8. s = Whole(q)
  BY <1>4, <1>5, <1>7, SeqEqual
<1> QED BY <1>8 DEF q, s

-----------------------------------------------------------------------------
(***************************************************************************)
(* What a run reads back, and what a reader accepts.                       *)
(***************************************************************************)
\* Requests that agree in link and source are the same.
LEMMA SameRequest ==
    ASSUME NEW q \in Requests, NEW r \in Requests, LinkageHolds(q, r)
    PROVE  q = r
BY PatchAssumption DEF LinkageHolds

\* Lines that parse are read back as records with their text.
LEMMA LoadedLines ==
    ASSUME NEW lines \in Seq(Lines), \A k \in 1 .. Len(lines) : Parses(lines[k])
    PROVE  /\ RecordsOf(lines) \in Seq(Records) /\ Len(RecordsOf(lines)) = Len(lines)
           /\ Len(lines) \in Nat
           /\ \A k \in 1 .. Len(lines) :
                 /\ RecordsOf(lines)[k] = RecordOf(lines[k])
                 /\ RecordOf(lines[k]) \in Records
                 /\ lines[k].text = Text(RecordOf(lines[k]))
PROOF
<1>1. Len(lines) \in Nat /\ \A k \in 1 .. Len(lines) : lines[k] \in Lines
  BY LenProperties, ElementOfSeq
<1>2. ASSUME NEW k \in 1 .. Len(lines)
      PROVE  RecordOf(lines[k]) \in Records /\ lines[k].text = Text(RecordOf(lines[k]))
  <2>1. PICK r \in Records : lines[k].text = Text(r)
    BY <1>2 DEF Parses
  <2>2. RecordOf(lines[k]) = r
    BY <2>1, TextForm DEF RecordOf
  <2> QED BY <2>1, <2>2
<1> DEFINE q == [k \in 1 .. Len(lines) |-> RecordOf(lines[k])]
<1>3. q \in [1 .. Len(lines) -> Records]
  BY <1>2
<1>4. q \in Seq(Records) /\ Len(q) = Len(lines)
  BY <1>1, <1>3
<1>5. \A k \in 1 .. Len(lines) : q[k] = RecordOf(lines[k])
  OBVIOUS
<1>6. RecordsOf(lines) = q
  BY DEF RecordsOf
<1> HIDE DEF q
<1> QED BY <1>1, <1>2, <1>4, <1>5, <1>6

\* A file whose every line parses and has ended holds its records whole.
LEMMA LoadedWhole ==
    ASSUME NEW lines \in Seq(Lines), \A k \in 1 .. Len(lines) : Parses(lines[k]),
           NEW h, Pure(lines, h), Ended(lines)
    PROVE  lines = Whole(RecordsOf(lines))
PROOF
<1> DEFINE R == RecordsOf(lines)
<1>1. /\ R \in Seq(Records) /\ Len(R) = Len(lines) /\ Len(lines) \in Nat
      /\ \A k \in 1 .. Len(lines) : R[k] \in Records /\ lines[k].text = Text(R[k])
  BY LoadedLines
<1> HIDE DEF R
<1>2. /\ Whole(R) \in Seq(Lines) /\ Len(Whole(R)) = Len(R)
      /\ \A k \in 1 .. Len(R) : Whole(R)[k] = Ready(R[k])
  BY <1>1, WholeType
<1>3. \A k \in 1 .. Len(lines) : lines[k].ended = TRUE
  <2> SUFFICES ASSUME NEW k \in 1 .. Len(lines) PROVE lines[k].ended = TRUE
    OBVIOUS
  <2>1. lines[k] \in Lines
    BY ElementOfSeq
  <2>2. lines[k].ended \in BOOLEAN
    BY <2>1 DEF Lines
  <2>3. lines # <<>>
    BY EmptySeq
  <2>4. lines[Len(lines)].ended
    BY <2>3 DEF Ended
  <2>5. lines[k].ended
    BY <1>1, <2>4 DEF Pure
  <2> QED BY <2>2, <2>5
<1>4. \A k \in 1 .. Len(lines) : lines[k] = Whole(R)[k]
  <2> SUFFICES ASSUME NEW k \in 1 .. Len(lines) PROVE lines[k] = Ready(R[k])
    BY <1>1, <1>2
  <2>1. lines[k] \in Lines
    BY ElementOfSeq
  <2>2. lines[k] = [text |-> lines[k].text, ended |-> lines[k].ended]
    BY <2>1 DEF Lines
  <2> QED BY <1>1, <1>3, <2>2 DEF Ready
<1>5. lines = Whole(R)
  BY <1>1, <1>2, <1>4, SeqEqual
<1> QED BY <1>5 DEF R

\* What a resumed run takes up is of its request and in order.
LEMMA LoadedOrder ==
    ASSUME NEW d \in Directories, SoundDir(d), NEW r \in Requests, Loads(d, r)
    PROVE  /\ d.header = r /\ RecordsOf(d.lines) \in Seq(Records)
           /\ InOrder(RecordsOf(d.lines), r)
           /\ Ended(d.lines) => d.lines = Whole(RecordsOf(d.lines))
PROOF
<1> DEFINE lines == d.lines
           R == RecordsOf(lines)
<1>1. lines \in Seq(Lines) /\ d.header \in Requests
  BY DEF Directories, Loads
<1>2. d.header = r
  BY <1>1, SameRequest DEF Loads
<1>3. Pure(lines, r)
  BY <1>2 DEF SoundDir
<1>4. \A k \in 1 .. Len(lines) :
         Parses(lines[k]) /\ InTurn(SubSeq(R, 1, k - 1), RecordOf(lines[k]).coord)
  BY DEF Loads
<1> HIDE DEF lines
<1>5. /\ R \in Seq(Records) /\ Len(R) = Len(lines) /\ Len(lines) \in Nat
      /\ \A k \in 1 .. Len(lines) :
            R[k] = RecordOf(lines[k]) /\ R[k] \in Records /\ lines[k].text = Text(R[k])
  BY <1>1, <1>4, LoadedLines
<1>6. ASSUME NEW k \in 1 .. Len(R) PROVE R[k].of = r
  <2>1. k \in 1 .. Len(lines) /\ RecordOf(lines[k]) \in Records /\ lines[k].text = Text(R[k])
        /\ R[k] \in Records
    BY <1>5
  <2>2. 1 \in 1 .. Len(lines[k].text) /\ lines[k].text[1].record = R[k]
    <3> HIDE DEF R
    <3>1. Len(Text(R[k])) = 2 /\ Text(R[k])[1].record = R[k]
      BY <2>1, TextForm
    <3> QED BY <2>1, <3>1
  <2> QED BY <1>3, <2>1, <2>2 DEF Pure
<1>7. ASSUME NEW k \in 1 .. Len(R), k <= Total PROVE R[k].coord = k - 1
  <2> DEFINE m == k - 1
  <2>1. m \in Nat /\ k \in 1 .. Len(lines) /\ \A i \in 1 .. m : i \in 1 .. Len(lines)
    BY <1>5
  <2>2. InTurn(SubSeq(R, 1, m), RecordOf(lines[k]).coord)
    BY <1>4, <2>1
  <2>3. m < Total
    BY <1>5, <1>7, PatchAssumption
  <2> HIDE DEF m
  <2>4. m \in Int /\ 1 \in Int /\ \A i \in 1 .. m : R[i] \in Records
    BY <1>5, <2>1
  <2>5. Len(SubSeq(R, 1, m)) = IF 1 <= m THEN m - 1 + 1 ELSE 0
    BY <2>4, SubSeqProperties
  <2>6. Len(SubSeq(R, 1, m)) = m
    BY <2>1, <2>5
  <2>7. RecordOf(lines[k]).coord = m
    BY <2>2, <2>3, <2>6 DEF InTurn
  <2> QED BY <1>5, <2>1, <2>7 DEF m
<1>8. InOrder(R, r)
  BY <1>6, <1>7 DEF InOrder
<1>9. Ended(lines) => lines = Whole(R)
  BY <1>1, <1>3, <1>4, LoadedWhole
<1> QED BY <1>2, <1>5, <1>8, <1>9 DEF lines

\* Complete records in order are a whole capture.
LEMMA CompleteIsWhole ==
    ASSUME NEW records, NEW r, InOrder(records, r), Complete(records)
    PROVE  WholeCapture(records, r)
PROOF
<1>1. Len(records) = Total /\ Total \in Nat
  BY PatchAssumption DEF Complete
<1> QED BY <1>1 DEF WholeCapture, InOrder

\* Whole lines of complete records are what the reader asks for.
LEMMA CleanIsReadable ==
    ASSUME NEW d, d # NoDir, NEW records \in Seq(Records), NEW r \in Requests, NEW clean,
           d.lines = Whole(records), d.header = r, InOrder(records, r), Complete(records),
           d.manifest = [of |-> r, count |-> Len(records), lines |-> d.lines,
                         header |-> d.header, clean |-> clean],
           d.manifest # NoManifest
    PROVE  Readable(d)
PROOF
<1>1. d.header # NoHeader /\ LinkageHolds(d.header, d.manifest.of)
  BY PatchAssumption DEF LinkageHolds
<1>2. d.lines = d.manifest.lines /\ d.header = d.manifest.header
  OBVIOUS
<1>3. /\ Len(Whole(records)) = Len(records) /\ Len(records) \in Nat
      /\ \A k \in 1 .. Len(records) :
            records[k] \in Records /\ Whole(records)[k] = Ready(records[k])
  BY WholeType
<1>4. WholeCapture(records, r)
  BY CompleteIsWhole
<1>5. ASSUME NEW k \in 1 .. Len(d.lines)
      PROVE  Parses(d.lines[k]) /\ RecordOf(d.lines[k]).coord = k - 1
  <2>1. k \in 1 .. Len(records) /\ k \in 1 .. Total
    BY <1>3, <1>4 DEF WholeCapture
  <2>2. records[k] \in Records /\ d.lines[k] = Ready(records[k])
    BY <1>3, <2>1
  <2>3. d.lines[k].text = Text(records[k])
    BY <2>2 DEF Ready
  <2>4. RecordOf(d.lines[k]) = records[k]
    BY <2>2, <2>3, TextForm DEF RecordOf
  <2> QED BY <1>4, <2>1, <2>2, <2>3, <2>4 DEF Parses, WholeCapture
<1>6. Len(d.lines) = d.manifest.count /\ Len(d.lines) = Total
  BY <1>3, <1>4 DEF WholeCapture
<1> QED BY <1>1, <1>2, <1>5, <1>6 DEF Readable

\* What the reader accepts in a sound directory is one whole capture.
LEMMA ReadableDir ==
    ASSUME NEW d \in Directories, SoundDir(d), Readable(d)
    PROVE  WholeCapture(RecordsOf(d.lines), d.manifest.of)
PROOF
<1> DEFINE lines == d.lines
           R == RecordsOf(lines)
<1>1. lines \in Seq(Lines) /\ d.header \in Requests /\ d.manifest.of \in Requests
  BY DEF Directories, Readable, Manifests
<1>2. d.header = d.manifest.of
  BY <1>1, SameRequest DEF Readable
<1>3. Pure(lines, d.manifest.of)
  BY <1>2 DEF SoundDir
<1>4. /\ Len(lines) = Total
      /\ \A k \in 1 .. Len(lines) : Parses(lines[k]) /\ RecordOf(lines[k]).coord = k - 1
  BY DEF Readable
<1> HIDE DEF lines
<1>5. /\ Len(R) = Len(lines)
      /\ \A k \in 1 .. Len(lines) :
            /\ R[k] = RecordOf(lines[k]) /\ R[k] \in Records
            /\ lines[k].text = Text(R[k])
  BY <1>1, <1>4, LoadedLines
<1>6. ASSUME NEW k \in 1 .. Total
      PROVE  R[k].coord = k - 1 /\ R[k].of = d.manifest.of
  <2>1. k \in 1 .. Len(lines) /\ R[k] \in Records /\ lines[k].text = Text(R[k])
    BY <1>4, <1>5
  <2>2. 1 \in 1 .. Len(lines[k].text) /\ lines[k].text[1].record = R[k]
    <3> HIDE DEF R
    <3>1. Len(Text(R[k])) = 2 /\ Text(R[k])[1].record = R[k]
      BY <2>1, TextForm
    <3> QED BY <2>1, <3>1
  <2>3. R[k].of = d.manifest.of
    BY <1>3, <2>1, <2>2 DEF Pure
  <2> QED BY <1>4, <1>5, <2>1, <2>3
<1> QED BY <1>4, <1>5, <1>6 DEF WholeCapture, lines

-----------------------------------------------------------------------------
(***************************************************************************)
(* Steps that change the writer, a staging directory or both.              *)
(***************************************************************************)
Counted == runs' \in 0 .. MaxRuns /\ faults' \in 0 .. MaxStops

\* What a new run forgets.
Forgets == /\ result' \in {result, NoResult}
           /\ decision' \in {decision, NoDecision}

\* The record a process starts with decides nothing.
LEMMA NoDecisionType == NoDecision \in Decisions /\ NoDecision.verdict = "RETAIN_FOR_GROUND"
PROOF
<1> DEFINE q == CHOOSE r \in Requests : TRUE
<1>1. q \in Requests
  BY PatchAssumption
<1>2. NoDecision = [verdict |-> "RETAIN_FOR_GROUND", records |-> <<>>, of |-> q,
                    expected |-> NoExpectation]
  BY DEF NoDecision
<1> HIDE DEF q
<1>3. <<>> \in Seq(Records) /\ NoExpectation \in Expectations
  BY DEF Expectations
<1> QED BY <1>1, <1>2, <1>3 DEF Decisions

\* Forgetting the artifact or the decision keeps what is said of them.
LEMMA ForgetsKeeps ==
    ASSUME PatchInv, Forgets
    PROVE  /\ result' \in Results \cup {NoResult} /\ decision' \in Decisions
           /\ (result # NoResult => WholeCapture(result.records, result.manifest.of))'
           /\ DeletionIsJustified'
PROOF
<1>1. /\ result \in Results \cup {NoResult} /\ decision \in Decisions /\ DeletionIsJustified
      /\ result # NoResult => WholeCapture(result.records, result.manifest.of)
  BY DEF PatchInv, TypeOK, RunInv
<1>2. result' \in Results \cup {NoResult}
      /\ (result # NoResult => WholeCapture(result.records, result.manifest.of))'
  <2>1. CASE result' = result
    BY <1>1, <2>1 DEF WholeCapture
  <2>2. CASE result' = NoResult
    BY <2>2
  <2> QED BY <2>1, <2>2 DEF Forgets
<1>3. decision' \in Decisions /\ DeletionIsJustified'
  <2>1. CASE decision' = decision
    BY <1>1, <2>1 DEF DeletionIsJustified, WholeCapture
  <2>2. CASE decision' = NoDecision
    BY <2>2, NoDecisionType DEF DeletionIsJustified
  <2> QED BY <2>1, <2>2 DEF Forgets
<1> QED BY <1>2, <1>3

\* Only the writer changes, or ends.
LEMMA WriterMoves ==
    ASSUME PatchInv, UNCHANGED <<staging, target>>, Forgets, Counted,
           \/ writer' = NoWriter
           \/ /\ writer' \in Writers /\ staging[writer'.slot] # NoDir
              /\ SoundWriter(writer', staging[writer'.slot])
    PROVE  PatchInv'
PROOF
<1>1. TypeOK'
  <2>1. writer' \in Writers \cup {NoWriter} /\ (writer # NoWriter => staging[writer.slot] # NoDir)'
    OBVIOUS
  <2> QED BY <2>1, ForgetsKeeps DEF PatchInv, TypeOK, Counted
<1>2. \A s \in StagingNames : staging'[s] # NoDir => SoundDir(staging'[s])
  BY DEF PatchInv, RunInv
<1>3. writer' # NoWriter => SoundWriter(writer', staging'[writer'.slot])
  OBVIOUS
<1>4. SoundTarget'
  <2>1. SoundTarget
    BY DEF PatchInv, RunInv
  <2> QED BY <2>1 DEF SoundTarget
<1> QED BY <1>1, <1>2, <1>3, <1>4, ForgetsKeeps DEF PatchInv, RunInv

\* The directory in one slot changes, with the writer that works on it.
LEMMA DirMoves ==
    ASSUME PatchInv, UNCHANGED target, Forgets, Counted,
           NEW s \in StagingNames, NEW d \in Directories, SoundDir(d),
           staging' = [staging EXCEPT ![s] = d],
           writer' \in Writers, writer'.slot = s, SoundWriter(writer', d)
    PROVE  PatchInv'
PROOF
<1>1. staging \in [StagingNames -> Directories \cup {NoDir}]
  BY DEF PatchInv, TypeOK
<1>2. /\ staging' \in [StagingNames -> Directories \cup {NoDir}] /\ staging'[s] = d /\ d # NoDir
      /\ \A x \in StagingNames : x # s => staging'[x] = staging[x]
  BY <1>1, PatchAssumption
<1>3. TypeOK'
  BY <1>2, ForgetsKeeps DEF PatchInv, TypeOK, Counted
<1>4. \A x \in StagingNames : staging'[x] # NoDir => SoundDir(staging'[x])
  BY <1>2 DEF PatchInv, RunInv
<1>5. writer' # NoWriter => SoundWriter(writer', staging'[writer'.slot])
  BY <1>2
<1>6. SoundTarget'
  <2>1. SoundTarget
    BY DEF PatchInv, RunInv
  <2> QED BY <2>1 DEF SoundTarget
<1> QED BY <1>3, <1>4, <1>5, <1>6, ForgetsKeeps DEF PatchInv, RunInv

\* The writer and its directory, as the invariant has them.
LEMMA WriterNow ==
    ASSUME PatchInv, writer # NoWriter
    PROVE  /\ writer \in Writers /\ writer.slot \in StagingNames /\ writer.request \in Requests
           /\ writer.phase \in Phases /\ writer.records \in Seq(Records)
           /\ writer.buffer \in Seq(Pieces) /\ writer.pending \in Seq(Records)
           /\ writer.clean \in BOOLEAN
           /\ writer = [slot |-> writer.slot, request |-> writer.request, phase |-> writer.phase,
                        records |-> writer.records, buffer |-> writer.buffer,
                        pending |-> writer.pending, clean |-> writer.clean]
           /\ staging[writer.slot] \in Directories /\ staging[writer.slot] # NoDir
           /\ SoundDir(staging[writer.slot])
           /\ SoundWriter(writer, staging[writer.slot])
           /\ runs \in 0 .. MaxRuns /\ faults \in 0 .. MaxStops
PROOF
<1>1. writer \in Writers /\ staging[writer.slot] # NoDir
      /\ staging \in [StagingNames -> Directories \cup {NoDir}]
  BY DEF PatchInv, TypeOK
<1>2. /\ writer.slot \in StagingNames /\ writer.request \in Requests
      /\ writer.phase \in Phases /\ writer.records \in Seq(Records)
      /\ writer.buffer \in Seq(Pieces) /\ writer.pending \in Seq(Records)
      /\ writer.clean \in BOOLEAN
      /\ writer = [slot |-> writer.slot, request |-> writer.request, phase |-> writer.phase,
                   records |-> writer.records, buffer |-> writer.buffer,
                   pending |-> writer.pending, clean |-> writer.clean]
  BY <1>1 DEF Writers
<1>3. staging[writer.slot] \in Directories
  BY <1>1, <1>2
<1> QED BY <1>1, <1>2, <1>3 DEF PatchInv, RunInv, TypeOK

\* A writer record in full, and the fields it has.
LEMMA WriterMade ==
    ASSUME NEW s \in StagingNames, NEW r \in Requests, NEW p \in Phases, NEW records \in Seq(Records),
           NEW buffer \in Seq(Pieces), NEW pending \in Seq(Records), NEW clean \in BOOLEAN
    PROVE  [slot |-> s, request |-> r, phase |-> p, records |-> records, buffer |-> buffer,
            pending |-> pending, clean |-> clean] \in Writers
BY DEF Writers

-----------------------------------------------------------------------------
(***************************************************************************)
(* One lemma per action.                                                   *)
(***************************************************************************)
LEMMA Nothing ==
    /\ Whole(<<>>) = <<>> /\ <<>> \in Seq(Records) /\ <<>> \in Seq(Pieces) /\ <<>> \in Seq(Lines)
    /\ \A r : InOrder(<<>>, r)
    /\ \A h : Pure(<<>>, h)
PROOF
<1>1. <<>> \in Seq(Records) /\ <<>> \in Seq(Pieces) /\ <<>> \in Seq(Lines) /\ Len(<<>>) = 0
  OBVIOUS
<1>2. Whole(<<>>) \in Seq(Lines) /\ Len(Whole(<<>>)) = 0
  BY <1>1, WholeType
<1>3. Whole(<<>>) = <<>>
  BY <1>2, EmptySeq
<1>4. 1 .. 0 = {}
  OBVIOUS
<1> QED BY <1>1, <1>3, <1>4 DEF InOrder, Pure

\* A writer that is being set up on an empty directory.
LEMMA FreshWriter ==
    ASSUME NEW s \in StagingNames, NEW r \in Requests, NEW d, d.header = NoHeader, d.lines = <<>>
    PROVE  /\ Opened(s, r, "starting", <<>>, TRUE) \in Writers
           /\ Opened(s, r, "starting", <<>>, TRUE).slot = s
           /\ SoundWriter(Opened(s, r, "starting", <<>>, TRUE), d)
PROOF
<1> DEFINE w == Opened(s, r, "starting", <<>>, TRUE)
<1>1. w = [slot |-> s, request |-> r, phase |-> "starting", records |-> <<>>, buffer |-> <<>>,
           pending |-> <<>>, clean |-> TRUE]
  BY DEF Opened
<1>2. w \in Writers
  <2>1. "starting" \in Phases
    BY DEF Phases
  <2> QED BY <1>1, <2>1, Nothing, WriterMade
<1> HIDE DEF w
<1>3. /\ w.slot = s /\ w.request = r /\ w.phase = "starting" /\ w.records = <<>>
      /\ w.buffer = <<>> /\ w.pending = <<>> /\ w.clean
  BY <1>1
<1>4. Coherent(w, d.lines)
  BY <1>3, Nothing DEF Coherent
<1>5. Len(w.buffer) = 0 /\ 1 .. 0 = {}
  BY <1>3
<1>6. SoundWriter(w, d)
  BY <1>3, <1>4, <1>5, Nothing DEF SoundWriter
<1> QED BY <1>2, <1>3, <1>6 DEF w

\* A run on a new staging directory (_resolve_staging).
LEMMA NewStagingStep ==
    ASSUME PatchInv, NEW r \in Requests, StartRun, NewStaging(r)
    PROVE  PatchInv'
PROOF
<1>1. PICK s \in StagingNames : /\ staging' = [staging EXCEPT ![s] = EmptyDir]
                         /\ writer' = Opened(s, r, "starting", <<>>, TRUE)
  BY DEF NewStaging
<1>2. EmptyDir \in Directories /\ EmptyDir.header = NoHeader /\ EmptyDir.lines = <<>>
      /\ EmptyDir.opened = FALSE
  BY Nothing DEF EmptyDir, Directories
<1>3. SoundDir(EmptyDir)
  BY <1>2, Nothing DEF SoundDir
<1>4. writer' \in Writers /\ writer'.slot = s /\ SoundWriter(writer', EmptyDir)
  BY <1>1, <1>2, FreshWriter
<1>5. Forgets /\ Counted /\ UNCHANGED target
  <2>1. runs \in 0 .. MaxRuns /\ faults \in 0 .. MaxStops
    BY DEF PatchInv, TypeOK
  <2>2. runs < MaxRuns /\ runs' = runs + 1 /\ faults' = faults
    BY DEF StartRun
  <2>3. runs' \in 0 .. MaxRuns
    BY <2>1, <2>2, PatchAssumption
  <2> QED BY <2>1, <2>2, <2>3 DEF StartRun, Forgets, Counted
<1> QED BY <1>1, <1>2, <1>3, <1>4, <1>5, DirMoves

\* A run that takes up a staging directory (_load_existing).
LEMMA OpenResumedStep ==
    ASSUME PatchInv, NEW r \in Requests, OpenResumed(r)
    PROVE  PatchInv'
PROOF
<1>1. CASE NewStaging(r)
  BY <1>1, NewStagingStep DEF OpenResumed
<1>2. ASSUME NEW s \in StagingNames, Candidates = {s}, UNCHANGED staging,
             \/ /\ ~staging[s].opened
                /\ writer' = Opened(s, r, "starting", <<>>, TRUE)
             \/ /\ staging[s].opened /\ Loads(staging[s], r)
                /\ writer' = Opened(s, r, "open", RecordsOf(staging[s].lines),
                                    Ended(staging[s].lines))
      PROVE  PatchInv'
  <2> DEFINE d == staging[s]
  <2>1. d # NoDir /\ d \in Directories /\ SoundDir(d)
    <3>1. staging \in [StagingNames -> Directories \cup {NoDir}]
      BY DEF PatchInv, TypeOK
    <3>2. s \in Candidates
      BY <1>2
    <3> QED BY <3>1, <3>2 DEF Candidates, PatchInv, RunInv
  <2>2. Forgets /\ Counted /\ UNCHANGED <<staging, target>>
    <3>1. runs \in 0 .. MaxRuns /\ faults \in 0 .. MaxStops
      BY DEF PatchInv, TypeOK
    <3>2. runs < MaxRuns /\ runs' = runs + 1 /\ faults' = faults /\ target' = target
          /\ result' = NoResult /\ decision' = NoDecision
      BY DEF OpenResumed, StartRun
    <3>3. runs' \in 0 .. MaxRuns
      BY <3>1, <3>2, PatchAssumption
    <3> QED BY <1>2, <3>1, <3>2, <3>3 DEF Forgets, Counted
  <2>3. writer' \in Writers /\ writer'.slot = s /\ SoundWriter(writer', d)
    <3>1. CASE ~d.opened /\ writer' = Opened(s, r, "starting", <<>>, TRUE)
      <4>1. d.header = NoHeader /\ d.lines = <<>>
        BY <2>1, <3>1 DEF SoundDir, Pure
      <4> QED BY <3>1, <4>1, FreshWriter
    <3>2. CASE Loads(d, r) /\ writer' = Opened(s, r, "open", RecordsOf(d.lines), Ended(d.lines))
      <4> DEFINE R == RecordsOf(d.lines)
                 c == Ended(d.lines)
                 w == Opened(s, r, "open", R, c)
      <4>1. /\ d.header = r /\ R \in Seq(Records) /\ InOrder(R, r)
            /\ c => d.lines = Whole(R)
        BY <2>1, <3>2, LoadedOrder
      <4>2. c \in BOOLEAN
        <5>1. \A k \in 1 .. Len(d.lines) : d.lines[k].ended \in BOOLEAN
          <6>1. d.lines \in Seq(Lines)
            BY <2>1 DEF Directories
          <6>2. \A k \in 1 .. Len(d.lines) : d.lines[k] \in Lines
            BY <6>1, ElementOfSeq
          <6> QED BY <6>2 DEF Lines
        <5>2. d.lines # <<>> => Len(d.lines) \in 1 .. Len(d.lines)
          <6>1. d.lines \in Seq(Lines)
            BY <2>1 DEF Directories
          <6>2. d.lines # <<>> => Len(d.lines) \in Nat \ {0}
            BY <6>1, EmptySeq
          <6> QED BY <6>2
        <5> QED BY <5>1, <5>2 DEF Ended
      <4> HIDE DEF R, c
      <4>3. w = [slot |-> s, request |-> r, phase |-> "open", records |-> R, buffer |-> <<>>,
                 pending |-> <<>>, clean |-> c]
        BY DEF Opened
      <4>4. w \in Writers
        <5>1. "open" \in Phases
          BY DEF Phases
        <5>2. [slot |-> s, request |-> r, phase |-> "open", records |-> R, buffer |-> <<>>,
               pending |-> <<>>, clean |-> c] \in Writers
          BY <4>1, <4>2, <5>1, Nothing, WriterMade
        <5> HIDE DEF w
        <5> QED BY <4>3, <5>2
      <4>5. /\ w.slot = s /\ w.request = r /\ w.phase = "open" /\ w.records = R
            /\ w.buffer = <<>> /\ w.pending = <<>> /\ w.clean = c
        BY <4>3
      <4>6. writer' = w
        BY <3>2 DEF R, c
      <4> HIDE DEF w
      <4>7. c => Coherent(w, d.lines)
        BY <4>1, <4>5 DEF Coherent
      <4>8. Len(w.buffer) = 0 /\ 1 .. 0 = {}
        BY <4>5
      <4>9. SoundWriter(w, d)
        BY <4>1, <4>5, <4>7, <4>8 DEF SoundWriter
      <4> QED BY <4>4, <4>5, <4>6, <4>9
    <3> QED BY <1>2, <3>1, <3>2
  <2> QED BY <2>1, <2>2, <2>3, WriterMoves
<1> QED BY <1>1, <1>2 DEF OpenResumed

\* A run that does not resume starts on a new directory.
LEMMA OpenFreshStep ==
    ASSUME PatchInv, NEW r \in Requests, OpenFresh(r)
    PROVE  PatchInv'
BY NewStagingStep DEF OpenFresh

\* _write_header, on the empty directory.
LEMMA WriteHeaderStep ==
    ASSUME PatchInv, WriteHeader
    PROVE  PatchInv'
PROOF
<1> DEFINE d == staging[writer.slot]
           r == writer.request
           e == [header |-> r, opened |-> TRUE, lines |-> d.lines, manifest |-> d.manifest]
           w == [slot |-> writer.slot, request |-> r, phase |-> "open",
                 records |-> writer.records, buffer |-> writer.buffer,
                 pending |-> writer.pending, clean |-> writer.clean]
<1>1. writer # NoWriter /\ writer.phase = "starting"
  BY DEF WriteHeader
<1>2. /\ d \in Directories /\ SoundDir(d) /\ SoundWriter(writer, d) /\ r \in Requests
      /\ writer.slot \in StagingNames
  BY <1>1, WriterNow
<1>3. d.header = NoHeader /\ writer.records = <<>> /\ d.lines = <<>> /\ writer.pending = <<>>
  BY <1>1, <1>2 DEF SoundWriter, SoundDir, Pure
<1>4. e \in Directories /\ e.header = r /\ e.lines = <<>> /\ e.opened = TRUE
  BY <1>2, <1>3 DEF Directories
<1>5. SoundDir(e)
  BY <1>2, <1>4, PatchAssumption, Nothing DEF SoundDir
<1>6. staging' = [staging EXCEPT ![writer.slot] = e]
  <2>1. d = [header |-> d.header, opened |-> d.opened, lines |-> d.lines, manifest |-> d.manifest]
    BY <1>2 DEF Directories
  <2>5. ASSUME NEW z \in Directories, NEW u, u = [z EXCEPT !.header = r]
         PROVE  u = [header |-> r, opened |-> z.opened, lines |-> z.lines,
                     manifest |-> z.manifest]
    BY <2>5 DEF Directories
  <2>2. ASSUME NEW z \in Directories, NEW v, v = [z EXCEPT !.opened = TRUE]
        PROVE  v = [header |-> z.header, opened |-> TRUE, lines |-> z.lines,
                    manifest |-> z.manifest]
    BY <2>2 DEF Directories
  <2> DEFINE z == [header |-> r, opened |-> d.opened, lines |-> d.lines, manifest |-> d.manifest]
  <2>3. [d EXCEPT !.header = r] = z /\ z \in Directories /\ z.header = r /\ z.lines = d.lines
        /\ z.manifest = d.manifest
    BY <1>2, <2>5 DEF Directories
  <2> HIDE DEF z
  <2>4. [z EXCEPT !.opened = TRUE] = e
    BY <2>2, <2>3
  <2> QED BY <2>3, <2>4 DEF WriteHeader
<1>7. writer' = w
  BY <1>1, WriterNow DEF WriteHeader
<1>8. w \in Writers
  <2>1. "open" \in Phases
    BY DEF Phases
  <2> QED BY <1>1, <2>1, WriterNow, WriterMade
<1>9. SoundWriter(w, e)
  <2>1. /\ w.slot = writer.slot /\ w.request = r /\ w.phase = "open" /\ w.records = <<>>
        /\ w.buffer = writer.buffer /\ w.pending = <<>> /\ w.clean = writer.clean
    BY <1>3
  <2>2. writer.clean => writer.buffer = <<>>
    BY <1>1, <1>2 DEF SoundWriter, Coherent
  <2> HIDE DEF w, e
  <2>3. w.clean => Coherent(w, e.lines)
    BY <1>4, <2>1, <2>2, Nothing DEF Coherent
  <2>4. \A k \in 1 .. Len(writer.buffer) : writer.buffer[k].record.of = r
    BY <1>2 DEF SoundWriter
  <2> QED BY <1>4, <2>1, <2>3, <2>4, Nothing DEF SoundWriter
<1>10. Forgets /\ Counted /\ UNCHANGED target /\ w.slot = writer.slot
  BY <1>1, WriterNow DEF WriteHeader, Forgets, Counted
<1> HIDE DEF w, e
<1> QED BY <1>2, <1>4, <1>5, <1>6, <1>7, <1>8, <1>9, <1>10, DirMoves

\* A writer with a new phase, and one that ends.
LEMMA PhaseStep ==
    ASSUME PatchInv, writer # NoWriter, NEW p \in Phases \ {"starting", "appending"},
           writer.phase \in {"open", "sealing"}, p \in {"sealing", "sealed"} => Complete(writer.records),
           p # "sealed",
           writer' = [writer EXCEPT !.phase = p],
           UNCHANGED <<staging, target, result, decision, runs>>, Counted
    PROVE  PatchInv'
PROOF
<1> DEFINE d == staging[writer.slot]
           w == [slot |-> writer.slot, request |-> writer.request, phase |-> p,
                 records |-> writer.records, buffer |-> writer.buffer,
                 pending |-> writer.pending, clean |-> writer.clean]
<1>1. writer' = w
  BY WriterNow
<1>2. w \in Writers
  BY WriterNow, WriterMade
<1> HIDE DEF w
<1>3. /\ w.slot = writer.slot /\ w.request = writer.request /\ w.phase = p
      /\ w.records = writer.records /\ w.buffer = writer.buffer /\ w.pending = writer.pending
      /\ w.clean = writer.clean
  BY DEF w
<1>4. SoundWriter(writer, d) /\ d # NoDir
  BY WriterNow
<1>5. w.clean => Coherent(w, d.lines)
  BY <1>3, <1>4 DEF SoundWriter, Coherent
<1>6. SoundWriter(w, d)
  BY <1>3, <1>4, <1>5 DEF SoundWriter
<1>7. Forgets /\ UNCHANGED <<staging, target>>
  BY DEF Forgets
<1> QED BY <1>1, <1>2, <1>3, <1>4, <1>6, <1>7, WriterMoves

\* The writer ends and leaves its directory as it is.
LEMMA EndStep ==
    ASSUME PatchInv, writer' = NoWriter, UNCHANGED <<staging, target, decision, runs>>,
           result' \in {result, NoResult}, Counted
    PROVE  PatchInv'
PROOF
<1>1. Forgets
  BY DEF Forgets
<1> QED BY <1>1, WriterMoves

\* The bounded counters keep their ranges.
LEMMA Faults ==
    ASSUME PatchInv
    PROVE  /\ faults' = faults /\ runs' = runs => Counted
           /\ faults < MaxStops /\ faults' = faults + 1 /\ runs' = runs => Counted
PROOF
<1>1. runs \in 0 .. MaxRuns /\ faults \in 0 .. MaxStops
  BY DEF PatchInv, TypeOK
<1>2. faults < MaxStops => faults + 1 \in 0 .. MaxStops
  BY <1>1, PatchAssumption
<1> QED BY <1>1, <1>2 DEF Counted

\* append puts the payload behind what the buffer still holds.
LEMMA AppendRecordStep ==
    ASSUME PatchInv, NEW c \in Coordinates, AppendRecord(c)
    PROVE  PatchInv'
PROOF
<1> DEFINE d == staging[writer.slot]
           r == [coord |-> c, of |-> writer.request]
           b == writer.buffer \o Payload(r)
           w == [slot |-> writer.slot, request |-> writer.request, phase |-> "appending",
                 records |-> writer.records, buffer |-> b,
                 pending |-> <<r>>, clean |-> writer.clean]
<1>1. /\ writer # NoWriter /\ writer.phase = "open" /\ InTurn(writer.records, c)
      /\ writer' = [writer EXCEPT !.phase = "appending", !.pending = <<r>>, !.buffer = b]
      /\ UNCHANGED <<staging, target, result, decision, runs, faults>>
  BY DEF AppendRecord
<1>2. /\ SoundWriter(writer, d) /\ d # NoDir /\ writer.request \in Requests
      /\ writer.buffer \in Seq(Pieces)
  BY <1>1, WriterNow
<1>3. r \in Records /\ r.of = writer.request /\ r.coord = c
  BY <1>2 DEF Records
<1> HIDE DEF r
<1>4. /\ Payload(r) \in Seq(Pieces) /\ Len(Payload(r)) = 3
      /\ \A k \in 1 .. 3 : Payload(r)[k].record = r
  <2> DEFINE x == [record |-> r, part |-> "head"]
             y == [record |-> r, part |-> "rest"]
             z == [record |-> r, part |-> "newline"]
  <2>1. /\ x \in Pieces /\ y \in Pieces /\ z \in Pieces
        /\ x.record = r /\ y.record = r /\ z.record = r
    BY <1>3 DEF Pieces, Parts
  <2>2. Payload(r) = <<x, y, z>>
    BY DEF Payload
  <2> HIDE DEF x, y, z
  <2> QED BY <2>1, <2>2
<1>5. /\ b \in Seq(Pieces) /\ Len(b) = Len(writer.buffer) + 3 /\ Len(writer.buffer) \in Nat
      /\ \A k \in 1 .. Len(writer.buffer) + 3 :
            b[k] = IF k <= Len(writer.buffer) THEN writer.buffer[k]
                   ELSE Payload(r)[k - Len(writer.buffer)]
  <2> DEFINE P == Payload(r)
  <2>1. P \in Seq(Pieces) /\ Len(P) = 3
    BY <1>4
  <2> HIDE DEF P
  <2>2. /\ writer.buffer \o P \in Seq(Pieces)
        /\ Len(writer.buffer \o P) = Len(writer.buffer) + Len(P)
        /\ \A k \in 1 .. Len(writer.buffer) + Len(P) :
              (writer.buffer \o P)[k] = IF k <= Len(writer.buffer) THEN writer.buffer[k]
                                        ELSE P[k - Len(writer.buffer)]
    BY <1>2, <2>1, ConcatProperties
  <2>3. Len(writer.buffer) \in Nat
    BY <1>2, LenProperties
  <2> QED BY <2>1, <2>2, <2>3 DEF P
<1>6. writer.buffer = <<>> => b = Payload(r)
  BY <1>4
<1> HIDE DEF b
<1>7. writer' = w
  BY <1>1, WriterNow
<1>8. w \in Writers
  <2>1. "appending" \in Phases /\ <<r>> \in Seq(Records)
    BY <1>3 DEF Phases
  <2> QED BY <1>1, <1>5, <2>1, WriterNow, WriterMade
<1> HIDE DEF w
<1>9. /\ w.slot = writer.slot /\ w.request = writer.request /\ w.phase = "appending"
      /\ w.records = writer.records /\ w.buffer = b /\ w.pending = <<r>>
      /\ w.clean = writer.clean
  BY DEF w
<1>10. \A k \in 1 .. Len(b) : b[k].record.of = writer.request
  <2> SUFFICES ASSUME NEW k \in 1 .. Len(b) PROVE b[k].record.of = writer.request
    OBVIOUS
  <2>1. CASE k <= Len(writer.buffer)
    BY <1>2, <1>5, <2>1 DEF SoundWriter
  <2>2. CASE ~(k <= Len(writer.buffer))
    <3>1. k - Len(writer.buffer) \in 1 .. 3
      BY <1>5, <2>2
    <3> QED BY <1>3, <1>4, <1>5, <2>2, <3>1
  <2> QED BY <2>1, <2>2
<1>11. w.clean => Coherent(w, d.lines)
  <2>1. <<r>>[1] = r
    OBVIOUS
  <2>2. w.clean => d.lines = Whole(writer.records) /\ writer.buffer = <<>>
    BY <1>1, <1>2, <1>9 DEF SoundWriter, Coherent
  <2> QED BY <1>6, <1>9, <2>1, <2>2 DEF Coherent, Underway
<1>12. /\ Len(w.pending) = 1 /\ w.pending[1].of = w.request
       /\ Len(w.records) < Total => w.pending[1].coord = Len(w.records)
  <2>1. <<r>>[1] = r /\ Len(<<r>>) = 1
    OBVIOUS
  <2> QED BY <1>1, <1>3, <1>9, <2>1 DEF InTurn
<1>13. SoundWriter(w, d)
  BY <1>1, <1>2, <1>9, <1>10, <1>11, <1>12 DEF SoundWriter
<1>14. Forgets /\ Counted
  BY <1>1, Faults DEF Forgets
<1> QED BY <1>1, <1>2, <1>7, <1>8, <1>9, <1>13, <1>14, WriterMoves

\* A piece goes from the buffer to the file; a clean payload stays underway.
LEMMA FlushStep ==
    ASSUME PatchInv, Flush
    PROVE  PatchInv'
PROOF
<1> DEFINE d == staging[writer.slot]
           p == Head(writer.buffer)
           t == Tail(writer.buffer)
           l == Written(d.lines, p)
           e == [header |-> d.header, opened |-> d.opened, lines |-> l, manifest |-> d.manifest]
           w == [slot |-> writer.slot, request |-> writer.request, phase |-> writer.phase,
                 records |-> writer.records, buffer |-> t,
                 pending |-> writer.pending, clean |-> writer.clean]
<1>1. /\ writer # NoWriter /\ writer.phase \in {"appending", "sealing", "closing"}
      /\ writer.buffer # <<>>
      /\ staging' = [staging EXCEPT ![writer.slot] = [d EXCEPT !.lines = l]]
      /\ writer' = [writer EXCEPT !.buffer = t]
      /\ UNCHANGED <<target, result, decision, runs, faults>>
  BY DEF Flush
<1>2. /\ SoundWriter(writer, d) /\ SoundDir(d) /\ d \in Directories /\ writer.slot \in StagingNames
      /\ writer.buffer \in Seq(Pieces) /\ writer.request \in Requests
      /\ writer.records \in Seq(Records) /\ writer.pending \in Seq(Records)
  BY <1>1, WriterNow
<1>3. d.header = writer.request /\ d.header # NoHeader /\ d.lines \in Seq(Lines)
  BY <1>1, <1>2, PatchAssumption DEF SoundWriter, Directories
<1>4. /\ p = writer.buffer[1] /\ p \in Pieces /\ t \in Seq(Pieces)
      /\ Len(writer.buffer) \in Nat \ {0} /\ Len(t) = Len(writer.buffer) - 1
      /\ \A k \in 1 .. Len(t) : t[k] = writer.buffer[k + 1] /\ k + 1 \in 1 .. Len(writer.buffer)
  <2>1. Len(writer.buffer) \in Nat \ {0} /\ 1 \in 1 .. Len(writer.buffer)
    BY <1>1, <1>2, EmptySeq
  <2>2. writer.buffer[1] \in Pieces
    BY <1>2, <2>1, ElementOfSeq
  <2> QED BY <1>1, <1>2, <2>1, <2>2
<1>5. p.record.of = d.header
  BY <1>2, <1>3, <1>4 DEF SoundWriter
<1> HIDE DEF p, t
<1>6. l \in Seq(Lines) /\ Pure(l, d.header)
  BY <1>2, <1>3, <1>4, <1>5, WrittenType, WrittenPure DEF SoundDir
<1>7. w.clean => w.phase = "appending" /\ Underway(writer.records, l, t, writer.pending[1])
  <2> SUFFICES ASSUME writer.clean PROVE writer.phase = "appending" /\ Underway(writer.records, l, t, writer.pending[1])
    OBVIOUS
  <2>1. writer.phase = "appending"
    BY <1>1, <1>2 DEF SoundWriter, Coherent
  <2>2. Underway(writer.records, d.lines, writer.buffer, writer.pending[1])
    BY <1>2, <2>1 DEF SoundWriter, Coherent
  <2>3. writer.pending[1] \in Records
    <3>1. Len(writer.pending) = 1
      BY <1>2, <2>1 DEF SoundWriter
    <3> QED BY <1>2, <3>1, ElementOfSeq
  <2> QED BY <1>1, <1>2, <1>3, <2>1, <2>2, <2>3, UnderwayStep DEF p, t
<1> HIDE DEF l
<1>8. e \in Directories
  BY <1>2, <1>6 DEF Directories
<1>9. staging' = [staging EXCEPT ![writer.slot] = e]
  <2>1. ASSUME NEW z \in Directories, NEW u, u = [z EXCEPT !.lines = l]
        PROVE  u = [header |-> z.header, opened |-> z.opened, lines |-> l, manifest |-> z.manifest]
    BY <2>1 DEF Directories
  <2>2. [d EXCEPT !.lines = l] = e
    BY <1>2, <2>1
  <2> QED BY <1>1, <2>2
<1>10. writer' = w
  BY <1>1, WriterNow
<1>11. w \in Writers
  BY <1>1, <1>4, WriterNow, WriterMade
<1> HIDE DEF w
<1>12. /\ w.slot = writer.slot /\ w.request = writer.request /\ w.phase = writer.phase
       /\ w.records = writer.records /\ w.buffer = t /\ w.pending = writer.pending
       /\ w.clean = writer.clean
  BY DEF w
<1>13. e.header = d.header /\ e.lines = l /\ e.opened = d.opened /\ e.manifest = d.manifest
  OBVIOUS
<1> HIDE DEF e
<1>14. SoundDir(e)
  BY <1>2, <1>6, <1>13 DEF SoundDir
<1>15. w.clean => Coherent(w, e.lines)
  BY <1>7, <1>12, <1>13 DEF Coherent
<1>16. \A k \in 1 .. Len(t) : t[k].record.of = writer.request
  BY <1>2, <1>4 DEF SoundWriter
<1>17. SoundWriter(w, e)
  BY <1>1, <1>2, <1>12, <1>13, <1>15, <1>16 DEF SoundWriter
<1>18. Forgets /\ Counted /\ UNCHANGED target
  BY <1>1, Faults DEF Forgets
<1> QED BY <1>2, <1>8, <1>9, <1>10, <1>11, <1>12, <1>14, <1>17, <1>18, DirMoves


\* A record that follows in turn keeps the records in order.
LEMMA OrderGrows ==
    ASSUME NEW records \in Seq(Records), NEW r, NEW q \in Records, InOrder(records, r), q.of = r,
           Len(records) < Total => q.coord = Len(records)
    PROVE  /\ records \o <<q>> \in Seq(Records) /\ InOrder(records \o <<q>>, r)
PROOF
<1> DEFINE n == Len(records)
           R == records \o <<q>>
<1>1. <<q>> \in Seq(Records) /\ R = Append(records, q)
  BY AppendIsConcat
<1>2. /\ R \in Seq(Records) /\ Len(R) = n + 1 /\ n \in Nat /\ R[n + 1] = q
      /\ \A k \in 1 .. n : R[k] = records[k]
  BY <1>1, AppendProperties, LenProperties
<1> HIDE DEF R
<1>3. ASSUME NEW k \in 1 .. Len(R) PROVE R[k].of = r /\ (k <= Total => R[k].coord = k - 1)
  <2>1. CASE k \in 1 .. n
    BY <1>2, <2>1 DEF InOrder
  <2>2. CASE k = n + 1
    <3>1. k <= Total => n < Total
      BY <1>2, <2>2, PatchAssumption
    <3>2. k - 1 = n
      BY <1>2, <2>2
    <3> QED BY <1>2, <2>2, <3>1, <3>2
  <2>3. k \in 1 .. n \/ k = n + 1
    BY <1>2
  <2> QED BY <2>1, <2>2, <2>3
<1>4. InOrder(R, r)
  BY <1>3 DEF InOrder
<1> QED BY <1>2, <1>4 DEF R

\* append counts the record its line now holds.
LEMMA AppendDoneStep ==
    ASSUME PatchInv, AppendDone
    PROVE  PatchInv'
PROOF
<1> DEFINE d == staging[writer.slot]
           q == writer.pending[1]
           R == writer.records \o <<q>>
           w == [slot |-> writer.slot, request |-> writer.request, phase |-> "open",
                 records |-> R, buffer |-> writer.buffer, pending |-> <<>>,
                 clean |-> writer.clean]
<1>1. /\ writer # NoWriter /\ writer.phase = "appending" /\ writer.buffer = <<>>
      /\ writer' = [writer EXCEPT !.phase = "open", !.records = writer.records \o writer.pending,
                                  !.pending = <<>>]
      /\ UNCHANGED <<staging, target, result, decision, runs, faults>>
  BY DEF AppendDone
<1>2. /\ SoundWriter(writer, d) /\ d # NoDir
      /\ writer.records \in Seq(Records) /\ writer.pending \in Seq(Records)
  BY <1>1, WriterNow
<1>3. Len(writer.pending) = 1 /\ q.of = writer.request
      /\ (Len(writer.records) < Total => q.coord = Len(writer.records))
  BY <1>1, <1>2 DEF SoundWriter
<1>4. writer.pending = <<q>> /\ q \in Records
  <2>1. q \in Records
    BY <1>2, <1>3, ElementOfSeq
  <2> HIDE DEF q
  <2>2. <<q>> \in Seq(Records) /\ Len(<<q>>) = 1 /\ <<q>>[1] = q
    BY <2>1
  <2>3. \A k \in 1 .. 1 : writer.pending[k] = <<q>>[k]
    BY <2>2 DEF q
  <2> QED BY <1>2, <1>3, <2>1, <2>2, <2>3, SeqEqual
<1>5. writer.clean => d.lines = Whole(R)
  <2> SUFFICES ASSUME writer.clean PROVE d.lines = Whole(R)
    OBVIOUS
  <2>1. Underway(writer.records, d.lines, writer.buffer, q)
    BY <1>1, <1>2 DEF SoundWriter, Coherent
  <2>2. Payload(q) # <<>> /\ Last2(q) # <<>> /\ Last1(q) # <<>>
    BY DEF Payload, Last2, Last1
  <2>3. d.lines = Append(Whole(writer.records), [text |-> Text(q), ended |-> TRUE])
    BY <1>1, <2>1, <2>2 DEF Underway
  <2> QED BY <1>2, <1>4, <2>3, WholeAppend DEF Ready
<1>6. R \in Seq(Records) /\ InOrder(R, writer.request)
  BY <1>2, <1>3, <1>4, OrderGrows DEF SoundWriter
<1> HIDE DEF q
<1>7. writer.records \o writer.pending = R
  BY <1>4
<1> HIDE DEF R
<1>8. writer' = w
  BY <1>1, <1>7, WriterNow
<1>9. w \in Writers
  <2>1. "open" \in Phases
    BY DEF Phases
  <2> QED BY <1>1, <1>6, <2>1, Nothing, WriterNow, WriterMade
<1> HIDE DEF w
<1>10. /\ w.slot = writer.slot /\ w.request = writer.request /\ w.phase = "open"
       /\ w.records = R /\ w.buffer = <<>> /\ w.pending = <<>>
       /\ w.clean = writer.clean
  BY <1>1 DEF w
<1>11. w.clean => Coherent(w, d.lines)
  BY <1>5, <1>10 DEF Coherent
<1>12. Len(w.buffer) = 0 /\ 1 .. 0 = {}
  BY <1>10
<1>13. SoundWriter(w, d)
  BY <1>1, <1>2, <1>6, <1>10, <1>11, <1>12 DEF SoundWriter
<1>14. Forgets /\ Counted
  BY <1>1, Faults DEF Forgets
<1> QED BY <1>1, <1>2, <1>8, <1>9, <1>10, <1>13, <1>14, WriterMoves

\* append raises: the record is uncounted and the run no longer clean.
LEMMA AppendFailsStep ==
    ASSUME PatchInv, AppendFails
    PROVE  PatchInv'
PROOF
<1> DEFINE d == staging[writer.slot]
           w == [slot |-> writer.slot, request |-> writer.request, phase |-> "open",
                 records |-> writer.records, buffer |-> writer.buffer, pending |-> <<>>,
                 clean |-> FALSE]
<1>1. /\ writer # NoWriter /\ writer.phase = "appending"
      /\ faults < MaxStops /\ faults' = faults + 1
      /\ writer' = [writer EXCEPT !.phase = "open", !.pending = <<>>, !.clean = FALSE]
      /\ UNCHANGED <<staging, target, result, decision, runs>>
  BY DEF AppendFails
<1>2. SoundWriter(writer, d) /\ d # NoDir
  BY <1>1, WriterNow
<1>3. writer' = w
  BY <1>1, WriterNow
<1>4. w \in Writers
  <2>1. "open" \in Phases /\ FALSE \in BOOLEAN
    BY DEF Phases
  <2> QED BY <1>1, <2>1, Nothing, WriterNow, WriterMade
<1> HIDE DEF w
<1>5. /\ w.slot = writer.slot /\ w.request = writer.request /\ w.phase = "open"
      /\ w.records = writer.records /\ w.buffer = writer.buffer /\ w.pending = <<>>
      /\ w.clean = FALSE
  BY DEF w
<1>6. SoundWriter(w, d)
  BY <1>1, <1>2, <1>5 DEF SoundWriter
<1>7. Forgets /\ Counted
  BY <1>1, Faults DEF Forgets
<1> QED BY <1>1, <1>2, <1>3, <1>4, <1>5, <1>6, <1>7, WriterMoves

\* finalize writes the manifest of the files as they stand.
LEMMA SealStep ==
    ASSUME PatchInv, Seal
    PROVE  PatchInv'
PROOF
<1> DEFINE d == staging[writer.slot]
           m == [of |-> writer.request, count |-> Len(writer.records), lines |-> d.lines,
                 header |-> d.header, clean |-> writer.clean]
           e == [header |-> d.header, opened |-> d.opened, lines |-> d.lines, manifest |-> m]
           w == [slot |-> writer.slot, request |-> writer.request, phase |-> "sealed",
                 records |-> writer.records, buffer |-> writer.buffer,
                 pending |-> writer.pending, clean |-> writer.clean]
<1>1. /\ writer # NoWriter /\ writer.phase = "sealing" /\ writer.buffer = <<>>
      /\ staging' = [staging EXCEPT ![writer.slot] = [d EXCEPT !.manifest = Manifest(d)]]
      /\ writer' = [writer EXCEPT !.phase = "sealed"]
      /\ UNCHANGED <<target, result, decision, runs, faults>>
  BY DEF Seal
<1>2. /\ SoundWriter(writer, d) /\ SoundDir(d) /\ d \in Directories /\ writer.slot \in StagingNames
      /\ writer.request \in Requests /\ writer.records \in Seq(Records)
      /\ writer.clean \in BOOLEAN
  BY <1>1, WriterNow
<1>3. d.header = writer.request /\ d.lines \in Seq(Lines) /\ Len(writer.records) \in Nat
  BY <1>1, <1>2, LenProperties DEF SoundWriter, Directories
<1>4. m \in Manifests /\ Manifest(d) = m
  BY <1>2, <1>3 DEF Manifests, Manifest
<1> HIDE DEF m
<1>5. staging' = [staging EXCEPT ![writer.slot] = e]
  <2>1. ASSUME NEW z \in Directories, NEW u, u = [z EXCEPT !.manifest = m]
        PROVE  u = [header |-> z.header, opened |-> z.opened, lines |-> z.lines, manifest |-> m]
    BY <2>1 DEF Directories
  <2>2. [d EXCEPT !.manifest = m] = e
    BY <1>2, <2>1
  <2> QED BY <1>1, <1>4, <2>2
<1>6. e \in Directories
  BY <1>2, <1>4 DEF Directories
<1>7. e.header = d.header /\ e.lines = d.lines /\ e.opened = d.opened /\ e.manifest = m
  OBVIOUS
<1> HIDE DEF e
<1>8. writer' = w
  BY <1>1, WriterNow
<1>9. w \in Writers
  <2>1. "sealed" \in Phases
    BY DEF Phases
  <2> QED BY <1>1, <2>1, WriterNow, WriterMade
<1> HIDE DEF w
<1>10. /\ w.slot = writer.slot /\ w.request = writer.request /\ w.phase = "sealed"
       /\ w.records = writer.records /\ w.buffer = writer.buffer /\ w.pending = writer.pending
       /\ w.clean = writer.clean
  BY DEF w
<1>11. SoundDir(e)
  BY <1>2, <1>7 DEF SoundDir
<1>12. w.clean => Coherent(w, e.lines)
  BY <1>1, <1>2, <1>7, <1>10 DEF SoundWriter, Coherent
<1>13. e.manifest = [of |-> w.request, count |-> Len(w.records), lines |-> e.lines,
                     header |-> e.header, clean |-> w.clean]
  BY <1>7, <1>10 DEF m
<1>14. SoundWriter(w, e)
  BY <1>1, <1>2, <1>7, <1>10, <1>12, <1>13 DEF SoundWriter
<1>15. Forgets /\ Counted /\ UNCHANGED target
  BY <1>1, Faults DEF Forgets
<1> QED BY <1>2, <1>5, <1>6, <1>8, <1>9, <1>10, <1>11, <1>14, <1>15, DirMoves

\* finalize renames the sealed directory and returns the artifact.
LEMMA PublishStep ==
    ASSUME PatchInv, Publish
    PROVE  PatchInv'
PROOF
<1> DEFINE d == staging[writer.slot]
           a == [manifest |-> d.manifest, records |-> writer.records]
<1>1. /\ writer # NoWriter /\ writer.phase = "sealed" /\ target' = d
      /\ staging' = [staging EXCEPT ![writer.slot] = NoDir]
      /\ result' = a /\ writer' = NoWriter
      /\ UNCHANGED <<decision, runs, faults>>
  BY DEF Publish
<1>2. /\ SoundWriter(writer, d) /\ SoundDir(d) /\ d \in Directories /\ d # NoDir
      /\ writer.slot \in StagingNames /\ writer.request \in Requests
      /\ writer.records \in Seq(Records) /\ writer.clean \in BOOLEAN
  BY <1>1, WriterNow
<1>3. /\ d.header = writer.request /\ InOrder(writer.records, writer.request)
      /\ Complete(writer.records)
      /\ d.manifest = [of |-> writer.request, count |-> Len(writer.records), lines |-> d.lines,
                       header |-> d.header, clean |-> writer.clean]
  BY <1>1, <1>2 DEF SoundWriter
<1>4. d.manifest \in Manifests /\ d.manifest # NoManifest
  <2>1. Len(writer.records) \in Nat /\ d.lines \in Seq(Lines)
    BY <1>2, LenProperties DEF Directories
  <2>2. d.manifest \in Manifests
    BY <1>2, <1>3, <2>1 DEF Manifests
  <2> QED BY <2>2, PatchAssumption
<1>5. d.manifest.of = writer.request /\ d.manifest.clean = writer.clean
  BY <1>3
<1>6. d.manifest.clean => Readable(d)
  <2> SUFFICES ASSUME writer.clean PROVE Readable(d)
    BY <1>5
  <2>1. d.lines = Whole(writer.records)
    BY <1>1, <1>2 DEF SoundWriter, Coherent
  <2> HIDE DEF d
  <2> QED BY <1>2, <1>3, <1>4, <2>1, CleanIsReadable
<1>7. WholeCapture(writer.records, writer.request)
  BY <1>3, CompleteIsWhole
<1> HIDE DEF d
<1>8. a \in Results /\ a.manifest = d.manifest /\ a.records = writer.records
  BY <1>2, <1>4 DEF Results
<1> HIDE DEF a
<1>9. /\ staging \in [StagingNames -> Directories \cup {NoDir}] /\ decision \in Decisions
      /\ DeletionIsJustified
      /\ \A s \in StagingNames : staging[s] # NoDir => SoundDir(staging[s])
  BY DEF PatchInv, TypeOK, RunInv
<1>10. /\ staging' \in [StagingNames -> Directories \cup {NoDir}]
       /\ \A s \in StagingNames : staging'[s] \in {staging[s], NoDir}
  BY <1>1, <1>9
<1>11. Counted
  BY <1>1, Faults
<1>12. TypeOK'
  BY <1>1, <1>2, <1>8, <1>9, <1>10, <1>11 DEF TypeOK, Counted
<1>13. SoundTarget'
  BY <1>1, <1>2, <1>4, <1>6 DEF SoundTarget
<1>14. (result # NoResult => WholeCapture(result.records, result.manifest.of))'
  BY <1>1, <1>5, <1>7, <1>8 DEF WholeCapture
<1>15. DeletionIsJustified'
  BY <1>1, <1>9 DEF DeletionIsJustified, WholeCapture
<1>16. \A s \in StagingNames : staging'[s] # NoDir => SoundDir(staging'[s])
  BY <1>9, <1>10
<1> QED BY <1>1, <1>12, <1>13, <1>14, <1>15, <1>16 DEF PatchInv, RunInv

\* Steps that only end the writer or move it to another phase.
LEMMA EndingSteps ==
    ASSUME PatchInv, \/ Finalize \/ Abort \/ FinalizeFails \/ PublishRefused
                     \/ Closed \/ CloseFails \/ Crash
    PROVE  PatchInv'
PROOF
<1>1. "closing" \in Phases \ {"starting", "appending"} /\ "sealing" \in Phases \ {"starting", "appending"}
  BY DEF Phases
<1>2. CASE Finalize
  BY <1>1, <1>2, Faults, PhaseStep DEF Finalize
<1>3. CASE Abort
  BY <1>1, <1>3, Faults, PhaseStep DEF Abort
<1>4. CASE FinalizeFails
  <2>1. Counted /\ UNCHANGED <<staging, target, result, decision, runs>> /\ writer # NoWriter
    BY <1>4, Faults DEF FinalizeFails
  <2>2. CASE writer.phase = "sealed"
    BY <1>4, <2>1, <2>2, EndStep DEF FinalizeFails
  <2>3. CASE writer.phase = "sealing"
    BY <1>1, <1>4, <2>1, <2>3, PhaseStep DEF FinalizeFails
  <2> QED BY <1>4, <2>2, <2>3 DEF FinalizeFails
<1>5. CASE PublishRefused
  BY <1>5, Faults, EndStep DEF PublishRefused
<1>6. CASE Closed
  BY <1>6, Faults, EndStep DEF Closed
<1>7. CASE CloseFails
  BY <1>7, Faults, EndStep DEF CloseFails
<1>8. CASE Crash
  BY <1>8, Faults, EndStep DEF Crash
<1> QED BY <1>2, <1>3, <1>4, <1>5, <1>6, <1>7, <1>8

\* An operator removes one of several staging directories.
LEMMA OperatorSelectsStep ==
    ASSUME PatchInv, OperatorSelects
    PROVE  PatchInv'
PROOF
<1>1. PICK s \in Candidates : staging' = [staging EXCEPT ![s] = NoDir]
  BY DEF OperatorSelects
<1>2. /\ writer = NoWriter /\ s \in StagingNames
      /\ UNCHANGED <<target, writer, result, decision, runs, faults>>
  BY DEF OperatorSelects, Candidates
<1>3. /\ TypeOK /\ \A x \in StagingNames : staging[x] # NoDir => SoundDir(staging[x])
      /\ SoundTarget /\ DeletionIsJustified
      /\ result # NoResult => WholeCapture(result.records, result.manifest.of)
  BY DEF PatchInv, RunInv
<1>4. /\ staging' \in [StagingNames -> Directories \cup {NoDir}]
      /\ \A x \in StagingNames : staging'[x] \in {staging[x], NoDir}
  BY <1>1, <1>3 DEF TypeOK
<1>5. TypeOK'
  BY <1>2, <1>3, <1>4 DEF TypeOK, Expectations
<1>6. SoundTarget' /\ (result # NoResult => WholeCapture(result.records, result.manifest.of))'
  BY <1>2, <1>3 DEF SoundTarget, WholeCapture
<1>7. DeletionIsJustified'
  BY <1>2, <1>3 DEF DeletionIsJustified, WholeCapture
<1>8. \A x \in StagingNames : staging'[x] # NoDir => SoundDir(staging'[x])
  BY <1>3, <1>4
<1> QED BY <1>2, <1>5, <1>6, <1>7, <1>8 DEF PatchInv, RunInv

\* A decision taken from the records of one whole capture is justified.
LEMMA VerdictJustified ==
    ASSUME NEW records \in Seq(Records), NEW of \in Requests, WholeCapture(records, of),
           NEW x \in Expectations,
           decision' = [verdict |-> Verdict(records, of.source, x), records |-> records,
                        of |-> of, expected |-> x]
    PROVE  decision' \in Decisions /\ DeletionIsJustified'
PROOF
<1> DEFINE v == Verdict(records, of.source, x)
<1>1. v \in {"RETAIN_FOR_GROUND", "DELETE_CAPTURE", "KEEP_FOR_DOWNLINK"}
  BY DEF Verdict
<1>2. v # "RETAIN_FOR_GROUND" =>
         /\ x \in {NoExpectation, of.source}
         /\ \A k \in 1 .. Len(records) : Label(records[k]) # "invalid"
         /\ v = "DELETE_CAPTURE" => Cloudy(records) * 100 >= Threshold * Len(records)
  BY DEF Verdict
<1>3. Len(records) = Total
  BY DEF WholeCapture
<1> HIDE DEF v
<1>4. /\ decision'.verdict = v /\ decision'.records = records /\ decision'.of = of
      /\ decision'.expected = x
  BY DEF v
<1>5. decision' \in Decisions
  BY <1>1 DEF Decisions, v
<1>6. DeletionIsJustified'
  BY <1>2, <1>3, <1>4 DEF DeletionIsJustified, WholeCapture, Cloudy, Label
<1> QED BY <1>5, <1>6

\* A step that only decides.
LEMMA DecisionMoves ==
    ASSUME PatchInv, UNCHANGED <<staging, target, writer, result, runs, faults>>,
           decision' \in Decisions, DeletionIsJustified'
    PROVE  PatchInv'
PROOF
<1>1. TypeOK'
  BY DEF PatchInv, TypeOK, Expectations
<1>2. SoundTarget' /\ (result # NoResult => WholeCapture(result.records, result.manifest.of))'
  BY DEF PatchInv, RunInv, SoundTarget, WholeCapture
<1>3. /\ \A s \in StagingNames : staging'[s] # NoDir => SoundDir(staging'[s])
      /\ writer' # NoWriter => SoundWriter(writer', staging'[writer'.slot])
  BY DEF PatchInv, RunInv
<1> QED BY <1>1, <1>2, <1>3 DEF PatchInv, RunInv

\* evaluate on the artifact finalize returned.
LEMMA EvaluateResultStep ==
    ASSUME PatchInv, NEW x \in Expectations, EvaluateResult(x)
    PROVE  PatchInv'
PROOF
<1> DEFINE records == result.records
           of == result.manifest.of
<1>1. /\ result # NoResult
      /\ decision' = [verdict |-> Verdict(records, of.source, x), records |-> records,
                      of |-> of, expected |-> x]
      /\ UNCHANGED <<staging, target, writer, result, runs, faults>>
  BY DEF EvaluateResult
<1>2. result \in Results /\ WholeCapture(records, of)
  BY <1>1 DEF PatchInv, TypeOK, RunInv
<1>3. records \in Seq(Records) /\ of \in Requests
  BY <1>2 DEF Results, Manifests
<1> HIDE DEF records, of
<1>4. decision' \in Decisions /\ DeletionIsJustified'
  BY <1>1, <1>2, <1>3, VerdictJustified
<1> QED BY <1>1, <1>4, DecisionMoves

\* evaluate on the published path, verified first.
LEMMA EvaluatePathStep ==
    ASSUME PatchInv, NEW x \in Expectations, EvaluatePath(x)
    PROVE  PatchInv'
PROOF
<1> DEFINE records == RecordsOf(target.lines)
           of == target.manifest.of
<1>1. target # NoDir /\ UNCHANGED <<staging, target, writer, result, runs, faults>>
  BY DEF EvaluatePath
<1>2. target \in Directories /\ SoundDir(target) /\ target.manifest # NoManifest
  BY <1>1 DEF PatchInv, TypeOK, RunInv, SoundTarget
<1>3. of \in Requests /\ target.lines \in Seq(Lines)
  BY <1>2 DEF Directories, Manifests
<1>4. CASE Readable(target)
  <2>1. WholeCapture(records, of)
    BY <1>2, <1>4, ReadableDir
  <2>2. records \in Seq(Records)
    <3>1. \A k \in 1 .. Len(target.lines) : Parses(target.lines[k])
      BY <1>4 DEF Readable
    <3> QED BY <1>3, <3>1, LoadedLines
  <2>3. decision' = [verdict |-> Verdict(records, of.source, x), records |-> records,
                     of |-> of, expected |-> x]
    BY <1>4 DEF EvaluatePath
  <2> HIDE DEF records, of
  <2>4. decision' \in Decisions /\ DeletionIsJustified'
    BY <1>3, <2>1, <2>2, <2>3, VerdictJustified
  <2> QED BY <1>1, <2>4, DecisionMoves
<1>5. CASE ~Readable(target)
  <2>1. decision' = [verdict |-> "RETAIN_FOR_GROUND", records |-> <<>>, of |-> of, expected |-> x]
    BY <1>5 DEF EvaluatePath
  <2> HIDE DEF of
  <2>2. decision' \in Decisions
    BY <1>3, <2>1, Nothing DEF Decisions
  <2>3. DeletionIsJustified'
    BY <2>1 DEF DeletionIsJustified
  <2> QED BY <1>1, <2>2, <2>3, DecisionMoves
<1> QED BY <1>4, <1>5

-----------------------------------------------------------------------------
(***************************************************************************)
(* The theorems.                                                           *)
(***************************************************************************)
\* The invariant holds where nothing has been written.
LEMMA InitialState == PatchInit => PatchInv
PROOF
<1> SUFFICES ASSUME PatchInit PROVE PatchInv
  OBVIOUS
<1>1. 0 \in 0 .. MaxRuns /\ 0 \in 0 .. MaxStops
  BY PatchAssumption
<1>2. \A s \in StagingNames : staging[s] = NoDir
  BY DEF PatchInit
<1>3. TypeOK
  BY <1>1, NoDecisionType DEF PatchInit, TypeOK
<1>4. DeletionIsJustified
  BY NoDecisionType DEF PatchInit, DeletionIsJustified
<1> QED BY <1>2, <1>3, <1>4 DEF PatchInit, PatchInv, RunInv, SoundTarget

\* Every step keeps the invariant.
LEMMA EveryStep == PatchInv /\ [PatchNext]_patchVars => PatchInv'
PROOF
<1> SUFFICES ASSUME PatchInv, [PatchNext]_patchVars PROVE PatchInv'
  OBVIOUS
<1>1. ASSUME NEW r \in Requests, OpenFresh(r) \/ OpenResumed(r) PROVE PatchInv'
  BY <1>1, OpenFreshStep, OpenResumedStep
<1>2. CASE WriteHeader
  BY <1>2, WriteHeaderStep
<1>3. ASSUME NEW c \in Coordinates, AppendRecord(c) PROVE PatchInv'
  BY <1>3, AppendRecordStep
<1>4. CASE Flush \/ AppendDone \/ AppendFails
  BY <1>4, FlushStep, AppendDoneStep, AppendFailsStep
<1>5. CASE Seal \/ Publish
  BY <1>5, SealStep, PublishStep
<1>6. CASE \/ Finalize \/ Abort \/ FinalizeFails \/ PublishRefused
           \/ Closed \/ CloseFails \/ Crash
  BY <1>6, EndingSteps
<1>7. CASE OperatorSelects
  BY <1>7, OperatorSelectsStep
<1>8. ASSUME NEW x \in Expectations, EvaluateResult(x) \/ EvaluatePath(x) PROVE PatchInv'
  BY <1>8, EvaluateResultStep, EvaluatePathStep
<1>9. CASE UNCHANGED patchVars
  <2>1. decision' \in Decisions /\ DeletionIsJustified'
    BY <1>9 DEF patchVars, PatchInv, TypeOK, RunInv, DeletionIsJustified, WholeCapture
  <2> QED BY <1>9, <2>1, DecisionMoves DEF patchVars
<1> QED BY <1>1, <1>2, <1>3, <1>4, <1>5, <1>6, <1>7, <1>8, <1>9 DEF PatchNext

\* The inductive invariant: while nothing went wrong the file holds exactly
\* what the writer remembers, and whatever went wrong, every piece in a
\* directory was computed for its header (append, _load_existing, finalize).
THEOREM PatchInvariant == PatchSpec => []PatchInv
PROOF
<1> QED BY InitialState, EveryStep, PTL DEF PatchSpec

\* Every variable has its type (PatchResultWriter, PatchResultArtifact).
THEOREM PatchTypes == PatchSpec => []TypeOK
PROOF
<1>1. PatchInv => TypeOK
  BY DEF PatchInv
<1> QED BY <1>1, PatchInvariant, PTL

\* What open_patch_results accepts is one whole capture, however many runs
\* stopped, failed and resumed on the way (_validate_header, _load_existing).
THEOREM ReadableWhole == PatchSpec => []ReadableIsWhole
PROOF
<1>1. PatchInv => ReadableIsWhole
  <2> SUFFICES ASSUME PatchInv, Readable(target)
               PROVE  WholeCapture(RecordsOf(target.lines), target.manifest.of)
    BY DEF ReadableIsWhole
  <2>1. target \in Directories /\ SoundDir(target)
    BY DEF PatchInv, TypeOK, RunInv, SoundTarget, Readable
  <2> QED BY <2>1, ReadableDir
<1> QED BY <1>1, PatchInvariant, PTL

\* A run without a failing write publishes what the reader accepts (append,
\* finalize and open_patch_results agree on the file).
THEOREM CleanRuns == PatchSpec => []CleanRunsAreReadable
PROOF
<1>1. PatchInv => CleanRunsAreReadable
  BY DEF PatchInv, RunInv, SoundTarget, CleanRunsAreReadable
<1> QED BY <1>1, PatchInvariant, PTL

\* A verdict that deletes or keeps a capture rests on all of its patches
\* (DecisionPolicy.evaluate, by artifact and by path).
THEOREM Deletion == PatchSpec => []DeletionIsJustified
PROOF
<1>1. PatchInv => DeletionIsJustified
  BY DEF PatchInv, RunInv
<1> QED BY <1>1, PatchInvariant, PTL

\* No run replaces a published target (finalize looks again before renaming).
THEOREM Stays == PatchSpec => PublishedStays
PROOF
<1>1. [PatchNext]_patchVars => [target # NoDir => target' = target]_patchVars
  <2> SUFFICES ASSUME PatchNext, target # NoDir PROVE target' = target
    BY DEF patchVars
  <2>1. CASE Publish
    BY <2>1 DEF Publish
  <2>2. CASE ~Publish
    BY <2>2 DEF PatchNext, OpenFresh, OpenResumed, StartRun, NewStaging, WriteHeader, AppendRecord,
                Flush, AppendDone, AppendFails, Finalize, Seal, PublishRefused, FinalizeFails,
                Abort, Closed, CloseFails, Crash, OperatorSelects, EvaluateResult, EvaluatePath
  <2> QED BY <2>1, <2>2
<1> QED BY <1>1, PTL DEF PatchSpec, PublishedStays
=============================================================================
