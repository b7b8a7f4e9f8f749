-------------------------- MODULE ChunkReaderProofs --------------------------
(***************************************************************************)
(* Proofs about ChunkReader: for every file, chunk size and way the bodies *)
(* arrive, each line is read once, whole, and by the chunk it starts in.   *)
(*                                                                         *)
(* Attempt says what a reader has done so far: its buffer starts where a   *)
(* line starts (or just before its chunk, at first), and the lines it has  *)
(* yielded are all those of its chunk that start before the buffer.        *)
(***************************************************************************)
EXTENDS ChunkReader, FiniteSetTheorems, WellFoundedInduction, TLAPS

\* The sequence holds lines of chunk i (in a file of these lines, for chunks of
\* n bytes) that start before the offset hi, in order, none beyond the limit,
\* and all of them.
ReadsOf(file_lines, n, s, i, hi) ==
    /\ s \in Seq(Line)
    /\ \A k \in 1 .. Len(s) :
          /\ s[k] \in file_lines
          /\ i * n <= s[k].offset /\ s[k].offset < i * n + n
          /\ s[k].offset < hi /\ k <= s[k].offset + 1
          /\ s[k].end - s[k].offset <= MaxLine
          /\ \A j \in 1 .. Len(s) : j < k => s[j].offset < s[k].offset
    /\ \A l \in file_lines :
          i * n <= l.offset /\ l.offset < i * n + n /\ l.offset < hi
              => \E k \in 1 .. Len(s) : s[k] = l

Reads(s, i, hi) == ReadsOf(FileLines, size, s, i, hi)

\* Where a buffer starts: at a line, or on the byte before the chunk.
Aligned(o) == o = 0 \/ o - 1 \in newlines \/ o + 1 = chunk * size

LongLine == \E l \in FileLines : l.end - l.offset > MaxLine

Attempt ==
    /\ chunk \in Index \ finished
    /\ chunk * size <= segment + 1 /\ received <= BodyEnd
    /\ Aligned(segment)
    /\ Reads(lines, chunk, segment)
    /\ at = "waiting" => Newlines = {} /\ ~Past(segment) /\ received - segment <= MaxLine
    /\ at = "failed" => LongLine

Inv ==
    /\ TypeOK
    /\ \A n \in newlines : n < length
    /\ \A i \in Offset : IF i \in finished THEN Reads(output[i], i, length) ELSE output[i] = <<>>
    /\ IF at = "idle" THEN lines = <<>> ELSE Attempt

-----------------------------------------------------------------------------
(* Smallest and greatest offsets. *)

\* CHOOSE finds the smallest of a set of numbers.
LEMMA LeastOf ==
    ASSUME NEW S \in SUBSET Nat, S # {}
    PROVE  Least(S) \in S /\ \A y \in S : Least(S) <= y
  <1>1. IsWellFoundedOn({p \in Nat \X Nat : p[1] < p[2]}, Nat)
    BY NatLessThanWellFounded DEF OpToRel
  <1>2. PICK x \in S : \A y \in S : ~(<<y, x>> \in {p \in Nat \X Nat : p[1] < p[2]})
    BY <1>1, WFMin
  <1>3. \A y \in S : x <= y
    <2> TAKE y \in S
    <2>1. ~(<<y, x>> \in {p \in Nat \X Nat : p[1] < p[2]})
      BY <1>2
    <2>2. x \in Nat /\ y \in Nat
      OBVIOUS
    <2>3. ~(y < x)
      BY <2>1, <2>2
    <2> QED
      BY <2>2, <2>3
  <1> QED
    BY <1>3 DEF Least

\* A set of numbers below a bound has a greatest one.
LEMMA GreatestOf ==
    ASSUME NEW m \in Nat, NEW S \in SUBSET (0 .. m), S # {}
    PROVE  \E x \in S : \A y \in S : y <= x
  <1> DEFINE B == {u \in Nat : \A y \in S : y <= u}
  <1>1. m \in B
    OBVIOUS
  <1>2. Least(B) \in B /\ \A u \in B : Least(B) <= u
    BY <1>1, LeastOf
  <1>3. PICK b \in Nat : b \in B /\ \A u \in B : b <= u
    BY <1>2
  <1>4. CASE b \in S
    BY <1>3, <1>4
  <1>5. CASE b \notin S
    <2>1. \A y \in S : y \in Nat /\ y <= b /\ y # b
      BY <1>3, <1>5
    <2>2. PICK y \in S : TRUE
      OBVIOUS
    <2>3. b - 1 \in Nat /\ \A z \in S : z <= b - 1
      BY <2>1, <2>2
    <2>4. b - 1 \in B
      BY <2>3
    <2> HIDE DEF B
    <2> QED
      BY <1>3, <2>4
  <1> QED
    BY <1>4, <1>5

-----------------------------------------------------------------------------
(* The lines of a file. *)

FileOK ==
    /\ length \in Offset /\ newlines \in SUBSET Offset /\ size \in Sizes
    /\ \A n \in newlines : n < length

LineStart(o) == o \in Offset /\ o < length /\ (o = 0 \/ o - 1 \in newlines)
LineEnd(o, e) ==
    /\ e \in Offset /\ o <= e /\ e <= length
    /\ e \in newlines \/ e = length
    /\ \A n \in newlines : o <= n => e <= n

\* Where a line ends.
LEMMA LineEnds ==
    ASSUME FileOK, NEW o \in Offset, o <= length
    PROVE  /\ LineEnd(o, EndOfLine(o))
           /\ \A e : LineEnd(o, e) => e = EndOfLine(o)
  <1> DEFINE S == {n \in newlines : n >= o} \union {length}
  <1>1. S \in SUBSET Nat /\ S # {}
    <2>1. length \in Nat /\ newlines \subseteq Nat
      BY LimitsAssumption DEF FileOK, Offset
    <2> QED
      BY <2>1
  <1>2. EndOfLine(o) = Least(S)
    BY DEF EndOfLine
  <1>3. Least(S) \in S /\ \A y \in S : Least(S) <= y
    BY <1>1, LeastOf
  <1> HIDE DEF S
  <1>4. LineEnd(o, EndOfLine(o))
    BY <1>2, <1>3, LimitsAssumption DEF S, FileOK, Offset, LineEnd
  <1>5. ASSUME NEW e, LineEnd(o, e) PROVE e = EndOfLine(o)
    BY <1>4, <1>5, LimitsAssumption DEF LineEnd, FileOK, Offset
  <1> QED
    BY <1>4, <1>5

\* A line is where one starts and where it ends.
LEMMA Lines ==
    ASSUME FileOK
    PROVE  /\ \A l \in FileLines : /\ l \in Line /\ LineStart(l.offset) /\ LineEnd(l.offset, l.end)
                                     /\ l = [offset |-> l.offset, end |-> l.end]
           /\ \A o, e : LineStart(o) /\ LineEnd(o, e) => [offset |-> o, end |-> e] \in FileLines
  <1>0. FileLines = {[offset |-> o, end |-> EndOfLine(o)] : o \in LineStarts}
    BY DEF FileLines
  <1>1. \A o : o \in LineStarts <=> LineStart(o)
    BY DEF LineStart, LineStarts
  <1>2. \A o : LineStart(o) => o \in Offset /\ o <= length
    BY LimitsAssumption DEF LineStart, FileOK, Offset
  <1>3. \A o : LineStart(o) => LineEnd(o, EndOfLine(o)) /\ \A e : LineEnd(o, e) => e = EndOfLine(o)
    BY <1>2, LineEnds
  <1>4. ASSUME NEW l \in FileLines
        PROVE  /\ l \in Line /\ LineStart(l.offset) /\ LineEnd(l.offset, l.end)
               /\ l = [offset |-> l.offset, end |-> l.end]
    <2>1. PICK o \in LineStarts : l = [offset |-> o, end |-> EndOfLine(o)]
      BY <1>0
    <2>2. LineStart(o) /\ LineEnd(o, EndOfLine(o))
      BY <1>1, <1>3
    <2>3. l.offset = o /\ l.end = EndOfLine(o)
      BY <2>1
    <2>4. o \in Offset /\ EndOfLine(o) \in Offset
      BY <2>2 DEF LineStart, LineEnd
    <2> QED
      BY <2>1, <2>2, <2>3, <2>4 DEF Line
  <1>5. ASSUME NEW o, NEW e, LineStart(o), LineEnd(o, e)
        PROVE  [offset |-> o, end |-> e] \in FileLines
    BY <1>0, <1>1, <1>3, <1>5
  <1> QED
    BY <1>4, <1>5

-----------------------------------------------------------------------------
(* The chunks and their ranges. *)

LEMMA Ranges ==
    ASSUME FileOK, NEW i \in Index
    PROVE  /\ i \in Nat /\ size \in Nat \ {0} /\ length \in Nat /\ i * size \in Nat /\ i * size < length
           /\ ByteRange(i).byteStart = i * size
           /\ ByteRange(i).byteEnd \in Nat
           /\ i * size <= ByteRange(i).byteEnd
           /\ ByteRange(i).byteEnd < i * size + size /\ ByteRange(i).byteEnd < length
           /\ \A o \in Nat : o < i * size + size /\ o < length => o <= ByteRange(i).byteEnd
  <1>1. i \in Nat /\ size \in Nat \ {0} /\ length \in Nat /\ i * size < length
    BY LimitsAssumption DEF FileOK, Offset, Index
  <1>2. i * size \in Nat
    BY <1>1
  <1>3. PICK p \in Nat : p = i * size
    BY <1>2
  <1>4. ByteRange(i).byteStart = p /\ ByteRange(i).byteEnd = Smaller(p + size, length) - 1
    BY <1>3 DEF ByteRange
  <1>5. /\ ByteRange(i).byteEnd \in Nat
        /\ p <= ByteRange(i).byteEnd
        /\ ByteRange(i).byteEnd < p + size /\ ByteRange(i).byteEnd < length
        /\ \A o \in Nat : o < p + size /\ o < length => o <= ByteRange(i).byteEnd
    <2>1. Smaller(p + size, length) \in Nat /\ Smaller(p + size, length) > p
      BY <1>1, <1>3 DEF Smaller
    <2> QED
      BY <1>1, <1>3, <1>4, <2>1 DEF Smaller
  <1> QED
    BY <1>1, <1>2, <1>3, <1>4, <1>5

\* A chunk that has read all lines that start in it.
LEMMA ReadsAll ==
    ASSUME FileOK, NEW i \in Index, NEW s, NEW h \in Nat, Reads(s, i, h), h > ByteRange(i).byteEnd
    PROVE  Reads(s, i, length)
  <1>1. PICK p \in Nat : p = i * size
    BY Ranges
  <1>2. \A l \in FileLines : l.offset \in Nat /\ l.offset < length
    BY Lines DEF LineStart, Offset
  <1>3. /\ ByteRange(i).byteEnd \in Nat /\ length \in Nat /\ size \in Nat
        /\ \A o \in Nat : o < p + size /\ o < length => o <= ByteRange(i).byteEnd
    BY <1>1, Ranges
  <1>4. \A l \in FileLines : l.offset < p + size => l.offset < h
    BY <1>2, <1>3
  <1> QED
    BY <1>1, <1>2, <1>4 DEF Reads, ReadsOf

\* One line more.
LEMMA ReadsMore ==
    ASSUME FileOK, NEW i \in Index, NEW s, NEW o \in Nat, NEW e \in Nat,
           Reads(s, i, o), LineEnd(o, e), e - o <= MaxLine, o < length, o <= ByteRange(i).byteEnd,
           i * size <= o + 1, o = 0 \/ o - 1 \in newlines \/ o + 1 = i * size
    PROVE  Reads(IF i * size <= o THEN Append(s, [offset |-> o, end |-> e]) ELSE s, i, e + 1)
  <1>1. PICK p \in Nat : p = i * size
    BY Ranges
  <1>2. size \in Nat /\ length \in Nat /\ newlines \subseteq Nat /\ length <= MaxLength /\ MaxLength \in Nat /\ MaxLine \in Nat
    BY LimitsAssumption DEF FileOK, Offset
  <1>3. o < p + size
    BY <1>1, <1>2, Ranges
  <1>4. o <= e
    BY DEF LineEnd
  \* No line starts between o and the end of its own.
  <1>5. \A l \in FileLines : l.offset \in Nat /\ (o < l.offset => e < l.offset)
    <2> TAKE l \in FileLines
    <2>1. l.offset \in Nat /\ (l.offset = 0 \/ l.offset - 1 \in newlines)
      BY Lines DEF LineStart, Offset
    <2>2. ASSUME o < l.offset PROVE e < l.offset
      <3>1. l.offset - 1 \in newlines /\ o <= l.offset - 1
        BY <2>1, <2>2
      <3>2. e <= l.offset - 1
        BY <3>1 DEF LineEnd
      <3> QED
        BY <2>1, <3>2
    <2> QED
      BY <2>1, <2>2
  <1>6. CASE p <= o
    <2> DEFINE x == [offset |-> o, end |-> e]
    <2>1. LineStart(o)
      BY <1>1, <1>2, <1>6 DEF LineStart, Offset
    <2>2. x \in FileLines /\ x \in Line
      BY <2>1, Lines
    <2>3. x.offset = o /\ x.end = e
      OBVIOUS
    <2>4. s \in Seq(Line) /\ \A l \in FileLines : l \in Line /\ l = [offset |-> l.offset, end |-> l.end] /\ LineEnd(l.offset, l.end)
      BY Lines DEF Reads, ReadsOf
    <2> HIDE DEF x
    <2> DEFINE t == Append(s, x)
    <2>5. /\ t \in Seq(Line) /\ Len(t) = Len(s) + 1 /\ Len(s) \in Nat
          /\ \A k \in 1 .. Len(s) : t[k] = s[k]
          /\ t[Len(s) + 1] = x
      BY <2>2, <2>4
    <2> HIDE DEF t
    <2>6. \A k \in 1 .. Len(s) :
             /\ s[k] \in FileLines
             /\ p <= s[k].offset /\ s[k].offset < p + size
             /\ s[k].offset < o /\ k <= s[k].offset + 1
             /\ s[k].end - s[k].offset <= MaxLine
             /\ \A j \in 1 .. Len(s) : j < k => s[j].offset < s[k].offset
      BY <1>1 DEF Reads, ReadsOf
    <2>7. Len(s) <= o
      <3>1. CASE Len(s) = 0
        BY <3>1
      <3>2. CASE Len(s) # 0
        <4>1. Len(s) \in 1 .. Len(s)
          BY <2>5, <3>2
        <4>2. s[Len(s)].offset \in Nat /\ s[Len(s)].offset < o /\ Len(s) <= s[Len(s)].offset + 1
          BY <1>5, <2>6, <4>1
        <4> QED
          BY <2>5, <4>2
      <3> QED
        BY <3>1, <3>2
    <2>8. ASSUME NEW k \in 1 .. Len(t)
          PROVE  /\ t[k] \in FileLines
                 /\ p <= t[k].offset /\ t[k].offset < p + size
                 /\ t[k].offset < e + 1 /\ k <= t[k].offset + 1
                 /\ t[k].end - t[k].offset <= MaxLine
                 /\ \A j \in 1 .. Len(t) : j < k => t[j].offset < t[k].offset
      <3>1. CASE k = Len(s) + 1
        <4>1. t[k] = x
          BY <2>5, <3>1
        <4>2. \A j \in 1 .. Len(t) : j < k => t[j].offset < o
          BY <2>5, <2>6, <3>1
        <4> QED
          BY <1>3, <1>4, <1>6, <2>2, <2>3, <2>5, <2>7, <3>1, <4>1, <4>2
      <3>2. CASE k # Len(s) + 1
        <4>1. k \in 1 .. Len(s) /\ t[k] = s[k]
          BY <2>5, <3>2
        <4>2. \A j \in 1 .. Len(t) : j < k => j \in 1 .. Len(s) /\ t[j] = s[j]
          BY <2>5, <4>1
        <4>3. s[k].offset \in Nat /\ s[k].offset < o
          BY <1>5, <2>6, <4>1
        <4>4. s[k].offset < e + 1
          BY <1>4, <4>3
        <4> QED
          BY <2>6, <4>1, <4>2, <4>4
      <3> QED
        BY <3>1, <3>2
    <2>9. ASSUME NEW l \in FileLines, p <= l.offset, l.offset < p + size, l.offset < e + 1
          PROVE  \E k \in 1 .. Len(t) : t[k] = l
      <3>0. l.offset \in Nat /\ (l.offset < o \/ l.offset = o)
        BY <1>5, <2>9
      <3>1. CASE l.offset < o
        <4>1. PICK k \in 1 .. Len(s) : s[k] = l
          BY <1>1, <2>9, <3>1 DEF Reads, ReadsOf
        <4> QED
          BY <2>5, <4>1
      <3>2. CASE l.offset = o
        <4>1. LineEnd(o, l.end)
          BY <2>4, <3>2
        <4>2. l.end = e
          <5>1. o \in Offset /\ o <= length
            BY <1>2 DEF Offset
          <5> QED
            BY <4>1, <5>1, LineEnds
        <4>3. l = x
          BY <2>4, <3>2, <4>2 DEF x
        <4>4. Len(s) + 1 \in 1 .. Len(t)
          BY <2>5
        <4> QED
          BY <2>5, <4>3, <4>4
      <3> QED
        BY <3>0, <3>1, <3>2
    <2>10. Reads(t, i, e + 1)
      BY <1>1, <2>5, <2>8, <2>9 DEF Reads, ReadsOf
    <2> QED
      BY <1>1, <1>6, <2>10 DEF t, x
  <1>7. CASE ~(p <= o)
    <2>1. p = o + 1
      BY <1>1, <1>7
    <2>2. \A l \in FileLines : p <= l.offset => ~(l.offset < e + 1)
      BY <1>5, <2>1
    <2>3. \A k \in 1 .. Len(s) : s[k].offset \in Nat /\ s[k].offset < o
      BY <1>5 DEF Reads, ReadsOf
    <2>4. \A k \in 1 .. Len(s) : s[k].offset < e + 1
      BY <1>4, <2>3
    <2>5. Reads(s, i, e + 1)
      BY <1>1, <2>2, <2>4 DEF Reads, ReadsOf
    <2> QED
      BY <1>1, <1>7, <2>5
  <1> QED
    BY <1>6, <1>7

\* The reply holds the chunk, and either the file to its end or more than a line beyond.
LEMMA Body ==
    ASSUME FileOK, chunk \in Index
    PROVE  /\ BodyEnd \in Nat /\ BodyEnd <= length /\ ByteRange(chunk).byteEnd < BodyEnd
           /\ BodyEnd = length \/ BodyEnd > ByteRange(chunk).byteEnd + MaxLine
  <1>1. PICK b \in Nat : b = ByteRange(chunk).byteEnd
    BY Ranges
  <1>2. b < length /\ length \in Nat
    BY <1>1, Ranges
  <1> QED
    BY <1>1, <1>2, LimitsAssumption DEF BodyEnd, RangeEnd, Smaller

\* Where a request begins.
LEMMA Starts ==
    ASSUME FileOK, NEW i \in Index
    PROVE  /\ RangeStart(ByteRange(i).byteStart) \in Nat
           /\ RangeStart(ByteRange(i).byteStart) <= i * size
           /\ RangeStart(ByteRange(i).byteStart) = 0 \/ RangeStart(ByteRange(i).byteStart) + 1 = i * size
           /\ i * size <= RangeStart(ByteRange(i).byteStart) + 1
           /\ RangeStart(ByteRange(i).byteStart) <= ByteRange(i).byteEnd
  <1>1. PICK p \in Nat : p = i * size
    BY Ranges
  <1>2. ByteRange(i).byteStart = p /\ ByteRange(i).byteEnd \in Nat /\ p <= ByteRange(i).byteEnd
    BY <1>1, Ranges
  <1>3. PICK b \in Nat : b = ByteRange(i).byteEnd
    BY <1>2
  <1> QED
    BY <1>1, <1>2, <1>3 DEF RangeStart

-----------------------------------------------------------------------------
(* The invariant. *)

LEMMA InvInit == Init => Inv
  <1> SUFFICES ASSUME Init PROVE Inv
    OBVIOUS
  <1>1. /\ 0 \in Offset /\ 0 \in 0 .. 0 /\ <<>> \in Seq(Line)
        /\ length \in Offset /\ newlines \in SUBSET Offset /\ \A n \in newlines : n < length
    BY LimitsAssumption DEF Init, Offset
  <1> QED
    BY <1>1 DEF Init, Inv, TypeOK

\* The file does not change, and its lines neither.
LEMMA SameFile ==
    ASSUME UNCHANGED file
    PROVE  /\ length' = length /\ newlines' = newlines /\ size' = size
           /\ FileLines' = FileLines /\ Index' = Index /\ LongLine' = LongLine
  <1>1. length' = length /\ newlines' = newlines /\ size' = size
    BY DEF file
  <1>2. FileLines' = FileLines
    BY <1>1 DEF FileLines, LineStarts, EndOfLine
  <1>3. Index' = Index
    BY <1>1 DEF Index
  <1> QED
    BY <1>1, <1>2, <1>3 DEF LongLine

LEMMA InvFile == Inv => FileOK
  BY DEF Inv, TypeOK, FileOK

LEMMA OpenStep ==
    ASSUME Inv, NEW i \in Index, Open(i)
    PROVE  Inv'
  <1> DEFINE o == RangeStart(ByteRange(i).byteStart)
  <1>1. FileOK /\ UNCHANGED file
    BY InvFile DEF Open
  <1>2. PICK c : c = o
    OBVIOUS
  <1>3. /\ c \in Nat /\ i * size <= c + 1 /\ c <= ByteRange(i).byteEnd
        /\ c = 0 \/ c + 1 = i * size
        /\ c <= i * size
    BY <1>1, <1>2, Starts
  <1>4. /\ chunk' = i /\ at' = "waiting" /\ received' = c /\ segment' = c /\ lines' = <<>>
        /\ output' = output /\ finished' = finished /\ i \notin finished
    BY <1>2 DEF Open
  <1> HIDE DEF o
  <1>5. FileLines' = FileLines /\ Index' = Index /\ size' = size /\ newlines' = newlines /\ length' = length
    BY <1>1, SameFile
  <1>6. i \in Nat /\ size \in Nat /\ ByteRange(i).byteEnd \in Nat /\ ByteRange(i).byteEnd < length /\ length \in Offset
    BY <1>1, Ranges DEF FileOK
  <1>7. c \in Offset /\ c \in 0 .. c /\ i \in Offset
    BY <1>3, <1>6, LimitsAssumption DEF Offset, Index
  <1>8. TypeOK'
    BY <1>4, <1>5, <1>7 DEF Inv, TypeOK
  <1>9. ReadsOf(FileLines, size, <<>>, i, c)
    <2>1. <<>> \in Seq(Line) /\ Len(<<>>) = 0
      OBVIOUS
    <2>2. PICK p \in Nat : p = i * size
      BY <1>1, Ranges
    <2>3. \A l \in FileLines : l.offset \in Nat
      BY <1>1, Lines DEF LineStart, Offset
    <2>4. \A l \in FileLines : p <= l.offset => ~(l.offset < c)
      BY <1>3, <2>2, <2>3
    <2> QED
      BY <2>1, <2>2, <2>4 DEF ReadsOf
  <1>10. (BodyEnd)' >= c
    <2>1. PICK b \in Nat : b = ByteRange(i).byteEnd
      BY <1>6
    <2>2. (BodyEnd)' = Smaller(RangeEnd(ByteRange(i).byteEnd) + 1, length)
      BY <1>4, <1>5 DEF BodyEnd, ByteRange
    <2> QED
      BY <1>3, <1>6, <2>1, <2>2, LimitsAssumption DEF RangeEnd, Smaller, Offset
  <1>11. Attempt'
    <2>1. chunk' \in Index' \ finished'
      BY <1>4, <1>5
    <2>2. chunk' * size' <= segment' + 1 /\ received' <= (BodyEnd)'
      BY <1>3, <1>4, <1>5, <1>10, <1>6, LimitsAssumption DEF Offset
    <2>3. Aligned(segment)'
      BY <1>3, <1>4, <1>5 DEF Aligned
    <2>4. Reads(lines, chunk, segment)'
      BY <1>4, <1>5, <1>9 DEF Reads
    <2>5. Newlines' = {}
      <3>1. \A n \in newlines : n \in Nat
        BY <1>1, LimitsAssumption DEF FileOK, Offset
      <3>2. \A n \in newlines : ~(c <= n /\ n < c)
        BY <1>3, <3>1
      <3> QED
        BY <1>4, <1>5, <3>2 DEF Newlines
    <2>6. ~Past(segment)'
      BY <1>3, <1>4, <1>5, <1>6 DEF Past, ByteRange
    <2>7. received' - segment' <= MaxLine
      BY <1>3, <1>4, LimitsAssumption
    <2> QED
      BY <1>4, <2>1, <2>2, <2>3, <2>4, <2>5, <2>6, <2>7 DEF Attempt
  <1> QED
    BY <1>4, <1>5, <1>8, <1>11 DEF Inv, Reads

LEMMA PieceStep ==
    ASSUME Inv, NEW n \in 1 .. MaxLength, Piece(n)
    PROVE  Inv'
  <1>1. FileOK /\ UNCHANGED file
    BY InvFile DEF Piece
  <1>2. /\ received' = received + n /\ at' = "scanning" /\ received + n <= BodyEnd
        /\ chunk' = chunk /\ segment' = segment /\ lines' = lines /\ output' = output /\ finished' = finished
    BY DEF Piece
  <1>3. FileLines' = FileLines /\ Index' = Index /\ size' = size /\ newlines' = newlines /\ length' = length
    BY <1>1, SameFile
  <1>4. Attempt
    BY DEF Inv, Piece
  <1>5. TypeOK'
    <2>1. BodyEnd \in Nat /\ BodyEnd <= length
      BY <1>1, <1>4, Body DEF Attempt
    <2>2. received \in Nat /\ segment \in 0 .. received /\ n \in Nat /\ length \in 0 .. MaxLength /\ MaxLength \in Nat
      BY LimitsAssumption DEF Inv, TypeOK, Offset
    <2>3. PICK b \in Nat : b = BodyEnd
      BY <2>1
    <2>4. received + n \in Offset /\ segment \in 0 .. (received + n)
      BY <1>2, <2>1, <2>2, <2>3 DEF Offset
    <2> QED
      BY <1>2, <1>3, <2>4 DEF Inv, TypeOK
  <1>6. Attempt'
    <2>1. (BodyEnd)' = BodyEnd
      BY <1>2, <1>3 DEF BodyEnd, ByteRange
    <2>2. chunk' * size' <= segment' + 1 /\ received' <= (BodyEnd)' /\ chunk' \in Index' \ finished'
      BY <1>2, <1>3, <1>4, <2>1 DEF Attempt
    <2>3. Aligned(segment)' /\ Reads(lines, chunk, segment)'
      BY <1>2, <1>3, <1>4 DEF Attempt, Aligned, Reads
    <2> QED
      BY <1>2, <2>2, <2>3 DEF Attempt
  <1> QED
    BY <1>2, <1>3, <1>5, <1>6 DEF Inv, Reads

\* The chunk's lines are read: the attempt ends.
LEMMA EndsStep ==
    ASSUME Inv, at # "idle", UNCHANGED file, NEW s, Ends(s), Reads(s, chunk, length)
    PROVE  Inv'
  <1>1. Attempt /\ FileOK
    BY InvFile DEF Inv
  <1>2. chunk \in Index \ finished /\ chunk \in Offset
    BY <1>1 DEF Attempt, Index
  <1>3. /\ output' = [output EXCEPT ![chunk] = s] /\ finished' = finished \union {chunk}
        /\ chunk' = 0 /\ at' = "idle" /\ received' = 0 /\ segment' = 0 /\ lines' = <<>>
    BY DEF Ends
  <1>4. FileLines' = FileLines /\ Index' = Index /\ size' = size /\ newlines' = newlines /\ length' = length
    BY SameFile
  <1>5. TypeOK /\ s \in Seq(Line)
    BY DEF Inv, Reads, ReadsOf
  <1>6. 0 \in Offset /\ 0 \in 0 .. 0 /\ <<>> \in Seq(Line)
    BY LimitsAssumption DEF Offset
  <1>7. TypeOK'
    BY <1>2, <1>3, <1>4, <1>5, <1>6 DEF TypeOK
  <1>8. \A i \in Offset : IF i \in finished' THEN ReadsOf(FileLines, size, output'[i], i, length) ELSE output'[i] = <<>>
    <2> TAKE i \in Offset
    <2>1. CASE i = chunk
      BY <1>2, <1>3, <1>5, <2>1 DEF TypeOK, Reads
    <2>2. CASE i # chunk
      BY <1>2, <1>3, <1>5, <2>2 DEF Inv, TypeOK, Reads
    <2> QED
      BY <2>1, <2>2
  <1>9. \A n \in newlines' : n < length'
    BY <1>4 DEF Inv
  <1> QED
    BY <1>3, <1>4, <1>7, <1>8, <1>9 DEF Inv, Reads

\* The attempt ends without the chunk.
LEMMA FailsStep ==
    ASSUME Inv, at # "idle", UNCHANGED file,
           \/ Fails("cut")
           \/ Fails("failed") /\ LongLine
    PROVE  Inv'
  <1>1. Attempt
    BY DEF Inv
  <1>2. /\ at' \in {"cut", "failed"} /\ (at' = "failed" => LongLine)
        /\ chunk' = chunk /\ received' = received /\ segment' = segment /\ lines' = lines
        /\ output' = output /\ finished' = finished
    BY DEF Fails
  <1>3. /\ FileLines' = FileLines /\ Index' = Index /\ size' = size /\ newlines' = newlines /\ length' = length
        /\ LongLine' = LongLine
    BY SameFile
  <1>4. TypeOK'
    BY <1>2, <1>3 DEF Inv, TypeOK
  <1>5. (BodyEnd)' = BodyEnd
    BY <1>2, <1>3 DEF BodyEnd, ByteRange
  <1>6. Attempt'
    <2>1. chunk' * size' <= segment' + 1 /\ received' <= (BodyEnd)' /\ chunk' \in Index' \ finished'
      BY <1>1, <1>2, <1>3, <1>5 DEF Attempt
    <2>2. Aligned(segment)' /\ Reads(lines, chunk, segment)'
      BY <1>1, <1>2, <1>3 DEF Attempt, Aligned, Reads
    <2> QED
      BY <1>2, <1>3, <2>1, <2>2 DEF Attempt
  <1> QED
    BY <1>2, <1>3, <1>4, <1>6 DEF Inv, Reads

\* A stretch without a newline that is too long is part of a line that is.
LEMMA LongStretch ==
    ASSUME FileOK, NEW o \in Nat, NEW e \in Nat, o <= e, e <= length, e - o > MaxLine,
           \A n \in newlines : o <= n => e <= n
    PROVE  LongLine
  <1> DEFINE S == {p \in Offset : p <= o /\ (p = 0 \/ p - 1 \in newlines)}
  <1>1. length \in Nat /\ MaxLine \in Nat /\ newlines \subseteq Nat /\ length <= MaxLength /\ MaxLength \in Nat
    BY LimitsAssumption DEF FileOK, Offset
  <1>2. S \in SUBSET (0 .. o) /\ 0 \in S
    BY <1>1 DEF Offset
  <1>3. PICK p \in S : \A q \in S : q <= p
    BY <1>2, GreatestOf
  <1>4. p \in Nat /\ p <= o /\ LineStart(p)
    BY <1>1, <1>3 DEF LineStart, Offset
  <1>5. \A n \in newlines : p <= n => o <= n
    <2> SUFFICES ASSUME NEW n \in newlines, p <= n, ~(o <= n) PROVE FALSE
      OBVIOUS
    <2>1. n + 1 \in S
      BY <1>1 DEF Offset
    <2> HIDE DEF S
    <2>2. n + 1 <= p
      BY <1>3, <2>1
    <2> QED
      BY <1>1, <1>4, <2>2
  <1> HIDE DEF S
  <1>6. p \in Offset /\ p <= length
    BY <1>1, <1>4 DEF Offset
  <1>7. LineEnd(p, EndOfLine(p))
    BY <1>6, LineEnds
  <1>8. PICK f \in Nat : f = EndOfLine(p)
    BY <1>7 DEF LineEnd, Offset
  <1>9. e <= f
    <2>1. CASE f = length
      BY <2>1
    <2>2. CASE f \in newlines
      BY <1>5, <1>7, <1>8, <2>2 DEF LineEnd
    <2> QED
      BY <1>7, <1>8, <2>1, <2>2 DEF LineEnd
  <1>10. f - p > MaxLine
    BY <1>1, <1>4, <1>9
  <1>11. [offset |-> p, end |-> f] \in FileLines
    BY <1>4, <1>7, <1>8, Lines
  <1> QED
    BY <1>10, <1>11 DEF LongLine

\* What an attempt is about.
LEMMA AttemptFacts ==
    ASSUME Inv, at # "idle"
    PROVE  /\ Attempt /\ FileOK /\ chunk \in Index
           /\ segment \in Nat /\ received \in Nat /\ segment <= received /\ received <= length
           /\ length \in Nat /\ length <= MaxLength /\ newlines \subseteq Nat
           /\ MaxLength \in Nat /\ MaxLine \in Nat
  <1>1. Attempt /\ FileOK /\ chunk \in Index
    BY InvFile DEF Inv, Attempt
  <1>2. /\ segment \in Nat /\ received \in Nat /\ segment <= received
        /\ length \in Nat /\ length <= MaxLength /\ newlines \subseteq Nat
        /\ MaxLength \in Nat /\ MaxLine \in Nat
    BY LimitsAssumption DEF Inv, TypeOK, Offset
  <1>3. PICK b \in Nat : b = BodyEnd
    BY <1>1, Body
  <1>4. b <= length /\ received <= b
    BY <1>1, <1>3, Body DEF Attempt
  <1> QED
    BY <1>1, <1>2, <1>4

LEMMA NextLineStep ==
    ASSUME Inv, NextLine
    PROVE  Inv'
  <1>1. at = "scanning" /\ Newlines # {} /\ UNCHANGED file
    BY DEF NextLine
  <1>2. /\ Attempt /\ FileOK /\ chunk \in Index
        /\ segment \in Nat /\ received \in Nat /\ segment <= received /\ received <= length
        /\ length \in Nat /\ length <= MaxLength /\ newlines \subseteq Nat
        /\ MaxLength \in Nat /\ MaxLine \in Nat
    BY <1>1, AttemptFacts
  <1>3. Least(Newlines) \in Newlines /\ \A n \in Newlines : Least(Newlines) <= n
    BY <1>1, <1>2, LeastOf DEF Newlines
  <1>4. PICK e \in Nat : e = Least(Newlines)
    BY <1>2, <1>3 DEF Newlines
  <1>5. e \in newlines /\ segment <= e /\ e < received /\ \A n \in newlines : segment <= n => e <= n
    <2>1. e \in Newlines /\ \A n \in Newlines : e <= n
      BY <1>3, <1>4
    <2>2. ASSUME NEW n \in newlines, segment <= n PROVE e <= n
      <3>1. CASE n < received
        BY <2>1, <2>2, <3>1 DEF Newlines
      <3>2. CASE ~(n < received)
        BY <1>2, <2>1, <3>2 DEF Newlines
      <3> QED
        BY <3>1, <3>2
    <2> QED
      BY <2>1, <2>2 DEF Newlines
  <1>6. LineEnd(segment, e)
    BY <1>2, <1>5 DEF LineEnd, Offset
  <1>7. PICK b \in Nat : b = ByteRange(chunk).byteEnd
    BY <1>2, Ranges
  <1>8. CASE TooLong(e - segment)
    <2>1. LongLine
      BY <1>2, <1>5, <1>8, LongStretch DEF TooLong
    <2>2. Fails("failed")
      BY <1>4, <1>8 DEF NextLine
    <2> QED
      BY <1>1, <2>1, <2>2, FailsStep
  <1>9. CASE ~TooLong(e - segment) /\ Past(segment)
    <2>1. Ends(lines)
      BY <1>4, <1>9 DEF NextLine
    <2>2. Reads(lines, chunk, length)
      BY <1>2, <1>9, ReadsAll DEF Past, Attempt
    <2> QED
      BY <1>1, <2>1, <2>2, EndsStep
  <1>10. CASE ~TooLong(e - segment) /\ ~Past(segment)
    <2>1. /\ segment' = e + 1 /\ lines' = Yielding(e)
          /\ chunk' = chunk /\ at' = at /\ received' = received /\ output' = output /\ finished' = finished
      BY <1>4, <1>10 DEF NextLine
    <2>2. segment <= b
      BY <1>2, <1>7, <1>10 DEF Past
    <2>3. /\ FileLines' = FileLines /\ Index' = Index /\ size' = size /\ newlines' = newlines /\ length' = length
      BY <1>1, SameFile
    <2>4. Yielding(e) = IF chunk * size <= segment THEN Append(lines, [offset |-> segment, end |-> e]) ELSE lines
      BY <1>2, <1>7, <2>2, Ranges DEF Yielding, Owned
    <2>5. Reads(Yielding(e), chunk, e + 1)
      <3>1. e - segment <= MaxLine
        BY <1>2, <1>10 DEF TooLong
      <3>2. segment < length
        BY <1>2, <1>5
      <3>3. segment = 0 \/ segment - 1 \in newlines \/ segment + 1 = chunk * size
        BY <1>2 DEF Attempt, Aligned
      <3>4. Reads(lines, chunk, segment) /\ chunk * size <= segment + 1
        BY <1>2 DEF Attempt
      <3> QED
        BY <1>2, <1>6, <1>7, <2>2, <2>4, <3>1, <3>2, <3>3, <3>4, ReadsMore
    <2>6. TypeOK'
      <3>1. e + 1 \in 0 .. received
        BY <1>2, <1>5
      <3>2. Yielding(e) \in Seq(Line)
        BY <2>5 DEF Reads, ReadsOf
      <3> QED
        BY <2>1, <2>3, <3>1, <3>2 DEF Inv, TypeOK
    <2>7. Attempt'
      <3>1. (BodyEnd)' = BodyEnd
        BY <2>1, <2>3 DEF BodyEnd, ByteRange
      <3>2. PICK p \in Nat : p = chunk * size
        BY <1>2, Ranges
      <3>3. p <= segment + 1
        BY <1>2, <3>2 DEF Attempt
      <3>4. chunk' * size' <= segment' + 1
        BY <1>2, <1>5, <2>1, <2>3, <3>2, <3>3
      <3>5. received' <= (BodyEnd)' /\ chunk' \in Index' \ finished'
        BY <1>2, <2>1, <2>3, <3>1 DEF Attempt
      <3>6. Aligned(segment)'
        BY <1>5, <2>1, <2>3 DEF Aligned
      <3>7. Reads(lines, chunk, segment)'
        BY <2>1, <2>3, <2>5 DEF Reads
      <3> QED
        BY <1>1, <2>1, <3>4, <3>5, <3>6, <3>7 DEF Attempt
    <2> QED
      BY <1>1, <2>1, <2>3, <2>6, <2>7 DEF Inv, Reads
  <1> QED
    BY <1>8, <1>9, <1>10

LEMMA PieceDoneStep ==
    ASSUME Inv, PieceDone
    PROVE  Inv'
  <1>1. at = "scanning" /\ Newlines = {} /\ UNCHANGED file
    BY DEF PieceDone
  <1>2. /\ Attempt /\ FileOK /\ chunk \in Index
        /\ segment \in Nat /\ received \in Nat /\ segment <= received /\ received <= length
        /\ length \in Nat /\ length <= MaxLength /\ newlines \subseteq Nat
        /\ MaxLength \in Nat /\ MaxLine \in Nat
    BY <1>1, AttemptFacts
  <1>3. CASE Past(segment)
    <2>1. Ends(lines)
      BY <1>3 DEF PieceDone
    <2>2. Reads(lines, chunk, length)
      BY <1>2, <1>3, ReadsAll DEF Past, Attempt
    <2> QED
      BY <1>1, <2>1, <2>2, EndsStep
  <1>4. CASE ~Past(segment) /\ TooLong(received - segment)
    <2>1. Fails("failed")
      BY <1>4 DEF PieceDone
    <2>2. \A n \in newlines : segment <= n => received <= n
      BY <1>1, <1>2 DEF Newlines
    <2>3. LongLine
      BY <1>2, <1>4, <2>2, LongStretch DEF TooLong
    <2> QED
      BY <1>1, <2>1, <2>3, FailsStep
  <1>5. CASE ~Past(segment) /\ ~TooLong(received - segment)
    <2>1. /\ at' = "waiting" /\ chunk' = chunk /\ received' = received /\ segment' = segment
          /\ lines' = lines /\ output' = output /\ finished' = finished
      BY <1>5 DEF PieceDone
    <2>2. /\ FileLines' = FileLines /\ Index' = Index /\ size' = size /\ newlines' = newlines /\ length' = length
      BY <1>1, SameFile
    <2>3. TypeOK'
      BY <2>1, <2>2 DEF Inv, TypeOK
    <2>4. Attempt'
      <3>1. (BodyEnd)' = BodyEnd /\ Newlines' = Newlines /\ Past(segment)' = Past(segment)
        BY <2>1, <2>2 DEF BodyEnd, ByteRange, Newlines, Past
      <3>2. chunk' * size' <= segment' + 1 /\ received' <= (BodyEnd)' /\ chunk' \in Index' \ finished'
        BY <1>2, <2>1, <2>2, <3>1 DEF Attempt
      <3>3. Aligned(segment)' /\ Reads(lines, chunk, segment)'
        BY <1>2, <2>1, <2>2 DEF Attempt, Aligned, Reads
      <3>4. received' - segment' <= MaxLine
        BY <1>2, <1>5, <2>1 DEF TooLong
      <3> QED
        BY <1>1, <1>5, <2>1, <3>1, <3>2, <3>3, <3>4 DEF Attempt
    <2> QED
      BY <2>1, <2>2, <2>3, <2>4 DEF Inv, Reads
  <1> QED
    BY <1>3, <1>4, <1>5

LEMMA BodyCompleteStep ==
    ASSUME Inv, BodyComplete
    PROVE  Inv'
  <1>1. at = "waiting" /\ received = BodyEnd /\ UNCHANGED file
    BY DEF BodyComplete
  <1>2. /\ Attempt /\ FileOK /\ chunk \in Index
        /\ segment \in Nat /\ received \in Nat /\ segment <= received /\ received <= length
        /\ length \in Nat /\ length <= MaxLength /\ newlines \subseteq Nat
        /\ MaxLength \in Nat /\ MaxLine \in Nat
    BY <1>1, AttemptFacts
  <1>3. PICK b \in Nat : b = ByteRange(chunk).byteEnd
    BY <1>2, Ranges
  <1>4. b < received /\ (received = length \/ received > b + MaxLine)
    BY <1>1, <1>2, <1>3, Body
  <1>5. segment <= b /\ Newlines = {} /\ received - segment <= MaxLine
    BY <1>1, <1>2, <1>3 DEF Attempt, Past
  <1>6. received = length /\ segment < received
    BY <1>2, <1>4, <1>5
  <1>7. LineEnd(segment, received)
    BY <1>2, <1>5, <1>6 DEF LineEnd, Offset, Newlines, FileOK
  <1>8. Ends(Yielding(received))
    BY <1>2, <1>6 DEF BodyComplete
  <1>9. Yielding(received) = IF chunk * size <= segment THEN Append(lines, [offset |-> segment, end |-> received]) ELSE lines
    BY <1>2, <1>3, <1>5, Ranges DEF Yielding, Owned
  <1>10. Reads(Yielding(received), chunk, received + 1)
    <2>1. segment = 0 \/ segment - 1 \in newlines \/ segment + 1 = chunk * size
      BY <1>2 DEF Attempt, Aligned
    <2>2. Reads(lines, chunk, segment) /\ chunk * size <= segment + 1
      BY <1>2 DEF Attempt
    <2> QED
      BY <1>2, <1>3, <1>5, <1>6, <1>7, <1>9, <2>1, <2>2, ReadsMore
  <1>11. PICK y : y = Yielding(received)
    OBVIOUS
  <1>12. Reads(y, chunk, length)
    <2>1. received + 1 \in Nat /\ received + 1 > b
      BY <1>2, <1>4
    <2> QED
      BY <1>2, <1>3, <1>10, <1>11, <2>1, ReadsAll
  <1> QED
    BY <1>1, <1>8, <1>11, <1>12, EndsStep

LEMMA Invariant == Spec => []Inv
  <1>1. ASSUME Inv, [Next]_vars PROVE Inv'
    <2>1. CASE \E i \in Index : Open(i)
      BY <1>1, <2>1, OpenStep
    <2>2. CASE \E n \in 1 .. MaxLength : Piece(n)
      BY <1>1, <2>2, PieceStep
    <2>3. CASE NextLine
      BY <1>1, <2>3, NextLineStep
    <2>4. CASE PieceDone
      BY <1>1, <2>4, PieceDoneStep
    <2>5. CASE BodyComplete
      BY <1>1, <2>5, BodyCompleteStep
    <2>6. CASE BodyCut
      BY <1>1, <2>6, FailsStep DEF BodyCut, CutThrows
    <2>7. CASE UNCHANGED vars
      <3>1. /\ UNCHANGED file /\ chunk' = chunk /\ at' = at /\ received' = received /\ segment' = segment
            /\ lines' = lines /\ output' = output /\ finished' = finished
        BY <2>7 DEF vars
      <3>2. /\ FileLines' = FileLines /\ Index' = Index /\ size' = size /\ newlines' = newlines /\ length' = length
            /\ LongLine' = LongLine
        BY <3>1, SameFile
      <3>3. TypeOK' /\ (Attempt => Attempt')
        BY <1>1, <3>1, <3>2 DEF Inv, TypeOK, Attempt, Aligned, Reads, BodyEnd, ByteRange, Newlines, Past
      <3> QED
        BY <1>1, <3>1, <3>2, <3>3 DEF Inv, Reads
    <2> QED
      BY <1>1, <2>1, <2>2, <2>3, <2>4, <2>5, <2>6, <2>7 DEF Next
  <1> QED
    BY InvInit, <1>1, PTL DEF Spec

-----------------------------------------------------------------------------
(* The theorems. *)

LEMMA Quotient ==
    ASSUME NEW n \in Nat \ {0}, NEW o \in Nat
    PROVE  /\ o \div n \in Nat /\ (o \div n) * n <= o /\ o < (o \div n) * n + n
           /\ \A i \in Nat : i * n <= o /\ o < i * n + n => i = o \div n
  <1>1. o \div n \in Nat /\ (o \div n) * n <= o /\ o < (o \div n) * n + n
    OBVIOUS
  <1>2. ASSUME NEW i \in Nat, NEW j \in Nat, i < j PROVE i * n + n <= j * n
    <2>1. PICK d \in Nat : j = i + 1 + d
      <3>1. j - i - 1 \in Nat /\ j = i + 1 + (j - i - 1)
        BY <1>2
      <3> QED
        BY <3>1
    <2>2. j * n = i * n + n + d * n /\ d * n \in Nat
      BY <2>1
    <2> QED
      BY <2>2
  <1>3. ASSUME NEW i \in Nat, i * n <= o, o < i * n + n PROVE i = o \div n
    <2>1. PICK j \in Nat : j = o \div n
      BY <1>1
    <2>2. ~(i < j) /\ ~(j < i)
      BY <1>1, <1>2, <1>3, <2>1
    <2> QED
      BY <2>1, <2>2
  <1> QED
    BY <1>1, <1>3

LEMMA Once == Inv => EveryLineOnce
  <1> SUFFICES ASSUME Inv, NEW l \in FileLines
               PROVE  Cardinality(Readings(l)) = IF l.offset \div size \in finished THEN 1 ELSE 0
    BY DEF EveryLineOnce
  <1>1. FileOK /\ l.offset \in Nat /\ l.offset < length /\ l.offset <= MaxLength /\ MaxLength \in Nat
    BY InvFile, Lines, LimitsAssumption DEF LineStart, Offset
  <1>2. size \in Nat \ {0} /\ finished \subseteq Index /\ Index \subseteq Offset /\ Offset \subseteq Nat
    BY <1>1, LimitsAssumption DEF Inv, TypeOK, Index, Offset, FileOK
  <1>3. PICK q \in Nat : q = l.offset \div size
    BY <1>1, <1>2, Quotient
  <1>4. q * size <= l.offset /\ l.offset < q * size + size /\ \A i \in Nat : i * size <= l.offset /\ l.offset < i * size + size => i = q
    BY <1>1, <1>2, <1>3, Quotient
  \* Where it is read.
  <1>5. ASSUME NEW i \in Index, NEW k \in 1 .. (MaxLength + 1), k <= Len(output[i]), output[i][k] = l
        PROVE  i = q /\ q \in finished /\ k \in 1 .. Len(output[q])
    <2>1. i \in Offset /\ i \in Nat
      BY <1>2
    <2>2. CASE i \notin finished
      <3>1. output[i] = <<>>
        BY <2>1, <2>2 DEF Inv
      <3>2. Len(output[i]) = 0
        BY <3>1
      <3> QED
        BY <1>1, <1>5, <3>2
    <2>3. CASE i \in finished
      <3>1. Reads(output[i], i, length)
        BY <2>1, <2>3 DEF Inv
      <3>2. output[i] \in Seq(Line)
        BY <3>1 DEF Reads, ReadsOf
      <3>3. k \in 1 .. Len(output[i])
        BY <1>1, <1>5, <3>2
      <3>4. i * size <= l.offset /\ l.offset < i * size + size
        BY <1>5, <3>1, <3>3 DEF Reads, ReadsOf
      <3> QED
        BY <1>4, <2>1, <2>3, <3>3, <3>4
    <2> QED
      BY <2>2, <2>3
  <1>6. CASE q \notin finished
    <2>1. Readings(l) = {}
      BY <1>5, <1>6 DEF Readings
    <2> QED
      BY <1>3, <1>6, <2>1, FS_EmptySet
  <1>7. CASE q \in finished
    <2>1. Reads(output[q], q, length) /\ q \in Index
      BY <1>2, <1>7 DEF Inv
    <2>2. PICK k \in 1 .. Len(output[q]) : output[q][k] = l
      BY <1>1, <1>4, <2>1 DEF Reads, ReadsOf
    <2>3. output[q] \in Seq(Line) /\ k <= l.offset + 1
      BY <2>1, <2>2 DEF Reads, ReadsOf
    <2>4. Len(output[q]) \in Nat
      BY <2>3
    <2>5. k \in 1 .. (MaxLength + 1) /\ k <= Len(output[q])
      BY <1>1, <2>3, <2>4
    <2>6. <<q, k>> \in Readings(l)
      BY <2>1, <2>2, <2>5 DEF Readings
    <2>7. ASSUME NEW p \in Readings(l) PROVE p = <<q, k>>
      <3>1. PICK i \in Index, m \in 1 .. (MaxLength + 1) : p = <<i, m>> /\ m <= Len(output[i]) /\ output[i][m] = l
        BY DEF Readings
      <3>2. i = q /\ m \in 1 .. Len(output[q])
        BY <1>5, <3>1
      <3>3. ~(m < k)
        BY <1>1, <2>1, <2>2, <3>1, <3>2 DEF Reads, ReadsOf
      <3>4. ~(k < m)
        BY <1>1, <2>1, <2>2, <3>1, <3>2 DEF Reads, ReadsOf
      <3>5. m = k
        BY <1>1, <2>5, <3>3, <3>4
      <3> QED
        BY <3>1, <3>2, <3>5
    <2>8. Readings(l) = {<<q, k>>}
      BY <2>6, <2>7
    <2>9. Cardinality({<<q, k>>}) = 1
      BY FS_Singleton
    <2> QED
      BY <1>3, <1>7, <2>8, <2>9
  <1> QED
    BY <1>6, <1>7

\* The reader's position stays inside the file, and what it yields are lines.
THEOREM TypeCorrect == Spec => []TypeOK
  BY Invariant, PTL DEF Inv

\* Every line of every file is read exactly once, by the chunk it starts in, for
\* every chunk size and every way the bodies arrive (computeChunks, ownedLines).
THEOREM LinesAreReadOnce == Spec => []EveryLineOnce
  BY Invariant, Once, PTL

\* No reader yields a part of a line or a line beyond the limit, whether its
\* attempt succeeds or not (ownedLines, checkedLength).
THEOREM LinesAreWhole == Spec => []OnlyWholeLines
  <1>1. Inv => OnlyWholeLines
    <2> SUFFICES ASSUME Inv, NEW read \in {lines} \union {output[i] : i \in Index}, NEW k \in 1 .. Len(read)
                 PROVE  read[k] \in FileLines /\ read[k].end - read[k].offset <= MaxLine
      BY DEF OnlyWholeLines
    <2>1. ASSUME NEW i, NEW h, Reads(read, i, h)
          PROVE  read[k] \in FileLines /\ read[k].end - read[k].offset <= MaxLine
      BY <2>1 DEF Reads, ReadsOf
    <2>2. read # <<>>
      OBVIOUS
    <2>3. CASE read = lines
      BY <2>1, <2>2, <2>3 DEF Inv, Attempt
    <2>4. CASE \E i \in Index : read = output[i]
      BY <2>1, <2>2, <2>4 DEF Inv, Index
    <2> QED
      BY <2>3, <2>4
  <1> QED
    BY <1>1, Invariant, PTL

\* A chunk is refused only for a line beyond the limit (ownedLines).
THEOREM RefusalsAreRight == Spec => []OnlyLongLinesFail
  <1>1. Inv => OnlyLongLinesFail
    BY DEF Inv, Attempt, LongLine, OnlyLongLinesFail
  <1> QED
    BY <1>1, Invariant, PTL
=============================================================================
