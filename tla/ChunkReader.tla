----------------------------- MODULE ChunkReader -----------------------------
(***************************************************************************)
(* How a vendor file is cut into byte ranges and read back as lines: the   *)
(* chunks of computeChunks, the range a worker requests for one, and       *)
(* ownedLines, which finds the lines of the chunk in a body that arrives   *)
(* in pieces of any size and may end too early.                            *)
(*                                                                         *)
(* The readers of different chunks share nothing, so one is followed at a  *)
(* time, in any order. An attempt that failed is repeated from the start   *)
(* (the queue redelivers the message). A byte is a newline or not one; a   *)
(* line is the offset of its first byte and the offset where it ends.      *)
(***************************************************************************)
EXTENDS Naturals, Sequences, FiniteSets

CONSTANTS
    MaxLength,  \* bound: bytes of the file
    Sizes,      \* bound: the chunk sizes looked at
    MaxLine,    \* MAX_LINE_BYTES
    OverRead    \* OVERREAD_BYTES

ASSUME LimitsAssumption ==
    /\ MaxLength \in Nat
    /\ Sizes \subseteq Nat \ {0}
    /\ MaxLine \in Nat \ {0}
    /\ OverRead \in Nat /\ OverRead >= MaxLine

VARIABLES
    length,    \* bytes of the file
    newlines,  \* the offsets of its newlines
    size,      \* chunkSizeBytes
    chunk,     \* the chunk being read
    at,        \* where its reader is
    received,  \* offset after the last byte that arrived
    segment,   \* segmentStart: offset of the first byte in the buffer
    lines,     \* the lines it yielded, in order
    output,    \* by chunk index, the lines of the attempt that succeeded
    finished   \* the chunks that were read to their end

file == <<length, newlines, size>>
vars == <<file, chunk, at, received, segment, lines, output, finished>>

Least(S) == CHOOSE x \in S : \A y \in S : x <= y
Smaller(a, b) == IF a < b THEN a ELSE b

Offset == 0 .. MaxLength
Line == [offset : Offset, end : Offset]

\* The loop of computeChunks: a range for every multiple of the size below the length.
Index == {i \in Offset : i * size < length}

ByteRange(i) == [byteStart |-> i * size, byteEnd |-> Smaller(i * size + size, length) - 1]

\* Mutant: the first chunk's range starts before the file.
RangeStartUnbounded(b) == b - 1

\* One byte early, to see the preceding newline.
RangeStart(b) == IF b = 0 THEN 0 ELSE b - 1

RangeEnd(b) == b + OverRead

TypeOK ==
    /\ length \in Offset
    /\ newlines \in SUBSET Offset
    /\ size \in Sizes
    /\ chunk \in Offset
    /\ at \in {"idle", "waiting", "scanning", "failed", "cut"}
    /\ received \in Offset /\ segment \in 0 .. received
    /\ lines \in Seq(Line)
    /\ output \in [Offset -> Seq(Line)]
    /\ finished \in SUBSET Index

Init ==
    /\ length \in Offset
    /\ newlines \in SUBSET {n \in Offset : n < length}
    /\ size \in Sizes
    /\ chunk = 0
    /\ at = "idle"
    /\ received = 0 /\ segment = 0
    /\ lines = <<>>
    /\ output = [i \in Offset |-> <<>>]
    /\ finished = {}

-----------------------------------------------------------------------------

\* A delivery of the chunk's message: the worker requests its range.
Open(i) ==
    /\ at \in {"idle", "failed", "cut"}
    /\ i \in Index \ finished
    /\ chunk' = i
    /\ at' = "waiting"
    /\ received' = RangeStart(ByteRange(i).byteStart)
    /\ segment' = RangeStart(ByteRange(i).byteStart)
    /\ lines' = <<>>
    /\ UNCHANGED <<file, output, finished>>

\* The reply ends with the range or with the file.
BodyEnd == Smaller(RangeEnd(ByteRange(chunk).byteEnd) + 1, length)

\* The next piece of the body arrives.
Piece(n) ==
    /\ at = "waiting"
    /\ received + n <= BodyEnd
    /\ received' = received + n
    /\ at' = "scanning"
    /\ UNCHANGED <<file, chunk, segment, lines, output, finished>>

Newlines == {n \in newlines : segment <= n /\ n < received}

\* The chunk's reader ended: its lines are counted and the chunk completes.
Ends(yielded) ==
    /\ output' = [output EXCEPT ![chunk] = yielded]
    /\ finished' = finished \union {chunk}
    /\ chunk' = 0 /\ at' = "idle" /\ received' = 0 /\ segment' = 0 /\ lines' = <<>>

Fails(how) ==
    /\ at' = how
    /\ UNCHANGED <<chunk, received, segment, lines, output, finished>>

\* Mutant: a line that starts on the chunk's last byte is left to the next chunk.
OwnedExclusive(offset) == ByteRange(chunk).byteStart <= offset /\ offset < ByteRange(chunk).byteEnd

\* The lines of a chunk are those whose first byte is one of its own.
Owned(offset) == ByteRange(chunk).byteStart <= offset /\ offset <= ByteRange(chunk).byteEnd

Past(offset) == offset > ByteRange(chunk).byteEnd

Yielding(end) == IF Owned(segment) THEN Append(lines, [offset |-> segment, end |-> end]) ELSE lines

\* Mutant: a line at the limit is refused.
TooLongAtLimit(n) == n >= MaxLine

TooLong(n) == n > MaxLine

\* One turn of the inner loop: the buffer holds a newline.
NextLine ==
    LET end == Least(Newlines) IN
    /\ at = "scanning"
    /\ Newlines # {}
    /\ CASE TooLong(end - segment) -> Fails("failed")
         [] ~TooLong(end - segment) /\ Past(segment) -> Ends(lines)
         [] OTHER -> /\ segment' = end + 1
                     /\ lines' = Yielding(end)
                     /\ UNCHANGED <<chunk, at, received, output, finished>>
    /\ UNCHANGED file

\* The inner loop is through: the next line is not the chunk's, or too long already,
\* or another piece is awaited.
PieceDone ==
    /\ at = "scanning"
    /\ Newlines = {}
    /\ CASE Past(segment) -> Ends(lines)
         [] ~Past(segment) /\ TooLong(received - segment) -> Fails("failed")
         [] OTHER -> at' = "waiting" /\ UNCHANGED <<chunk, received, segment, lines, output, finished>>
    /\ UNCHANGED file

\* The whole body came: what is left in the buffer is a last line without a newline.
BodyComplete ==
    /\ at = "waiting"
    /\ received = BodyEnd
    /\ Ends(IF received > segment THEN Yielding(received) ELSE lines)
    /\ UNCHANGED file

\* Mutant: a body that ends early passes for a complete one.
CutIsTheEnd == Ends(IF received > segment THEN Yielding(received) ELSE lines)

\* checkedLength throws before the reader learns that the body has ended.
CutThrows == Fails("cut")

\* The body ends short of its length.
BodyCut ==
    /\ at = "waiting"
    /\ received < BodyEnd
    /\ CutThrows
    /\ UNCHANGED file

Next ==
    \/ \E i \in Index : Open(i)
    \/ \E n \in 1 .. MaxLength : Piece(n)
    \/ NextLine \/ PieceDone \/ BodyComplete \/ BodyCut

Spec == Init /\ [][Next]_vars

-----------------------------------------------------------------------------
(* Properties. *)

\* The lines of the file, whoever reads them.
EndOfLine(o) == Least({n \in newlines : n >= o} \union {length})
LineStarts == {o \in Offset : o < length /\ (o = 0 \/ o - 1 \in newlines)}
FileLines == {[offset |-> o, end |-> EndOfLine(o)] : o \in LineStarts}

\* By which chunks it was yielded, and where among their lines.
Readings(l) ==
    {p \in Index \X (1 .. MaxLength + 1) : p[2] <= Len(output[p[1]]) /\ output[p[1]][p[2]] = l}

\* Every line of the file is yielded exactly once, by the chunk its first byte falls
\* into, as soon as that chunk is read: however chunk borders fall on lines and
\* newlines, and however the bodies come in pieces.
EveryLineOnce ==
    \A l \in FileLines :
        Cardinality(Readings(l)) = IF l.offset \div size \in finished THEN 1 ELSE 0

\* What a reader yields is a whole line of the file, and never one beyond the limit:
\* not the tail of the line before its chunk, not a line cut by the end of the range
\* or of the body. This holds of attempts that fail later too: their rows are in the
\* catalog by then.
OnlyWholeLines ==
    \A read \in {lines} \union {output[i] : i \in Index} : \A k \in 1 .. Len(read) :
        read[k] \in FileLines /\ read[k].end - read[k].offset <= MaxLine

\* A chunk is refused only for a line beyond the limit: the over-read is long enough
\* for every line the limit allows, and no neighbour's line is mistaken for a long one.
OnlyLongLinesFail == at = "failed" => \E l \in FileLines : l.end - l.offset > MaxLine
=============================================================================
