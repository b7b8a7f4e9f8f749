-------------------------- MODULE BatchWriterProofs --------------------------
(***************************************************************************)
(* Proofs about BatchWriter: for any file, batch size, number of           *)
(* deliveries and of deaths, every state is well typed, a completed        *)
(* chunk's counts match the tables, and its last good lines win.           *)
(*                                                                         *)
(* The invariant says what becomes of a line (Rejects), and when that can  *)
(* no longer change (Sure): the names of its batch have slugs that are     *)
(* taken. Every delivery forms the same batches, so all of them come to    *)
(* the same result for a line, whoever writes it and however often.        *)
(* A second invariant (OrderInv) says which line a product's row is from.  *)
(***************************************************************************)
EXTENDS BatchWriter, FiniteSetTheorems, WellFoundedInduction, TLAPS

\* The lines of a line's batch.
Batch(l) == {k \in Lines : BatchOf(k) = BatchOf(l)}

\* What becomes of a line, with the categories there are.
Valid(l) == file[l].kind \notin Malformed \union {"invalid"}
Writes(l) == Valid(l) /\ file[l].name \in categories
Fails(l) == Writes(l) /\ file[l].kind = "refused" /\ \A k \in Batch(l) : Writes(k) /\ k > l => file[k].sku # file[l].sku
Rejects(l) == ~Writes(l) \/ Fails(l)
Stored(l) == file[l].kind # "garbled"

\* The result of this line is final.
Sure(l) == \A k \in Batch(l) : Valid(k) => Slug[file[k].name] \in Taken

\* The lines a delivery has counted, and those of them that were rejected.
Done(w) == (1 .. w.next) \ w.pending
RejectsOf(lines) == {l \in lines : Rejects(l)}
FailsOf(lines) == {l \in lines : Fails(l)}

\* The batch: what was read of it, or all of it.
BatchOK(w) ==
    /\ w.next \in 0 .. Len(file) /\ w.pending \subseteq 1 .. w.next /\ (w.pending # {} => w.next \in w.pending)
    /\ w.at = "reading" /\ w.next < Len(file) => w.pending = {k \in 1 .. w.next : BatchOf(k) = BatchOf(w.next + 1)}
    /\ w.at # "reading" => w.pending # {}
    /\ w.at # "reading" \/ w.next = Len(file) => \A l \in w.pending : w.pending = Batch(l)

\* What was written of it.
FlushOK(w) ==
    /\ w.at \in {"priced", "rows", "recording", "written"} => \A l \in w.pending : Sure(l)
    /\ w.at \in {"reading", "flushing", "priced"} => w.refused = {}
    /\ w.at = "rows" => w.todo \subseteq Unique(w.pending) /\ w.refused = FailsOf(w.pending) \ w.todo
    /\ w.at \in {"recording", "written"} => w.refused = FailsOf(w.pending)
    /\ w.at = "recording" => /\ w.todo \subseteq RejectsOf(w.pending)
                             /\ \A l \in RejectsOf(w.pending) \ w.todo : Stored(l) => l \in recorded
    /\ w.at = "written" => \A l \in RejectsOf(w.pending) : Stored(l) => l \in recorded

\* What was counted.
CountOK(w) ==
    /\ \A l \in Done(w) : Sure(l) /\ (Rejects(l) /\ Stored(l) => l \in recorded)
    /\ w.rejected = Cardinality(RejectsOf(Done(w)))
    /\ w.processed = Cardinality(Done(w) \ RejectsOf(Done(w)))

WriterOK(d) == writer[d].at # "idle" => BatchOK(writer[d]) /\ FlushOK(writer[d]) /\ CountOK(writer[d])

RecordedOK == \A l \in recorded : l \in Lines /\ Sure(l) /\ Rejects(l) /\ Stored(l)

ChunkOK ==
    chunk.completed =>
        /\ \A l \in Lines : Sure(l) /\ (Rejects(l) /\ Stored(l) => l \in recorded)
        /\ chunk.rejected = Cardinality(RejectsOf(Lines))
        /\ chunk.processed = Cardinality(Lines \ RejectsOf(Lines))

Inv ==
    /\ TypeOK
    /\ \A d \in Delivery : WriterOK(d)
    /\ RecordedOK
    /\ ChunkOK

\* Only names of free slugs are inserted.
Grown ==
    /\ file' = file /\ categories \subseteq categories' /\ categories' \subseteq Name
    /\ \A n \in categories' \ categories : Slug[n] \notin Taken

-----------------------------------------------------------------------------
(* Numbers. *)

\* A finite set of line numbers has a smallest element.
LEMMA FirstOf ==
    ASSUME NEW S \in SUBSET Nat, S # {}
    PROVE  \E x \in S : \A y \in S : x <= y
  <1>1. IsWellFoundedOn({p \in Nat \X Nat : p[1] < p[2]}, Nat)
    BY NatLessThanWellFounded DEF OpToRel
  <1>2. PICK x \in S : \A y \in S : ~(<<y, x>> \in {p \in Nat \X Nat : p[1] < p[2]})
    BY <1>1, WFMin
  <1>3. \A y \in S : x <= y
    <2> TAKE y \in S
    <2>1. ~(<<y, x>> \in {p \in Nat \X Nat : p[1] < p[2]}) /\ x \in Nat /\ y \in Nat
      BY <1>2
    <2>2. ~(y < x)
      BY <2>1
    <2> QED
      BY <2>1, <2>2
  <1> QED
    BY <1>3

LEMMA Limits == MaxRows \in Nat /\ MaxDeaths \in Nat /\ BatchSize \in Nat /\ BatchSize > 0
  BY RowsAssumption

\* Lines of a batch lie between two multiples of its size.
LEMMA BatchBounds ==
    ASSUME NEW l \in Nat, l >= 1
    PROVE  /\ BatchOf(l) \in Nat
           /\ BatchSize * BatchOf(l) \in Nat
           /\ BatchSize * BatchOf(l) <= l - 1 /\ l - 1 < BatchSize * BatchOf(l) + BatchSize
  <1>1. PICK b \in Nat : b = BatchSize /\ b > 0
    BY Limits
  <1>2. PICK n \in Nat : n = l - 1
    OBVIOUS
  <1>3. n \div b \in Nat /\ b * (n \div b) <= n /\ n < b * (n \div b) + b
    BY <1>1
  <1>4. b * (n \div b) \in Nat
    BY <1>1, <1>3
  <1> QED
    BY <1>1, <1>2, <1>3, <1>4 DEF BatchOf

\* The number of the batch between two multiples.
LEMMA Between ==
    ASSUME NEW b \in Nat, b > 0, NEW q \in Nat, NEW r \in Nat, NEW n \in Nat,
           b * q <= n, n < b * q + b, b * r <= n, n < b * r + b
    PROVE  q = r
  <1>1. ASSUME NEW x \in Nat, NEW y \in Nat, x < y PROVE b * x + b <= b * y
    <2>1. PICK z \in Nat : y = x + 1 + z
      <3>1. y - x - 1 \in Nat /\ y = x + 1 + (y - x - 1)
        BY <1>1
      <3> QED
        BY <3>1
    <2>2. b * y = b * x + b + b * z /\ b * z \in Nat /\ b * x \in Nat
      BY <2>1
    <2> QED
      BY <2>2
  <1>2. b * q \in Nat /\ b * r \in Nat
    OBVIOUS
  <1>3. ~(q < r)
    <2> SUFFICES ASSUME q < r PROVE FALSE
      OBVIOUS
    <2>1. b * q + b <= b * r
      BY <1>1
    <2> QED
      BY <1>2, <2>1
  <1>4. ~(r < q)
    <2> SUFFICES ASSUME r < q PROVE FALSE
      OBVIOUS
    <2>1. b * r + b <= b * q
      BY <1>1
    <2> QED
      BY <1>2, <2>1
  <1> QED
    BY <1>3, <1>4

\* A full batch ends where the next one begins.
LEMMA BatchEnds ==
    ASSUME NEW n \in Nat
    PROVE  LET lines == {k \in 1 .. n + 1 : BatchOf(k) = BatchOf(n + 1)} IN
           /\ Full(lines) => BatchOf(n + 2) # BatchOf(n + 1)
           /\ ~Full(lines) => BatchOf(n + 2) = BatchOf(n + 1)
  <1> DEFINE lines == {k \in 1 .. n + 1 : BatchOf(k) = BatchOf(n + 1)}
  <1>1. PICK b \in Nat : b = BatchSize /\ b > 0
    BY Limits
  <1>2. PICK q \in Nat : q = BatchOf(n + 1)
    BY BatchBounds
  <1>3. PICK m \in Nat : m = b * q
    BY <1>1, <1>2
  <1>4. m <= n /\ n < m + b
    BY <1>1, <1>2, <1>3, BatchBounds
  <1>5. \A k \in Nat : k >= 1 => (BatchOf(k) = q <=> m <= k - 1 /\ k - 1 < m + b)
    <2> TAKE k \in Nat
    <2> SUFFICES ASSUME k >= 1 PROVE BatchOf(k) = q <=> m <= k - 1 /\ k - 1 < m + b
      OBVIOUS
    <2>1. PICK r \in Nat : r = BatchOf(k) /\ b * r \in Nat /\ b * r <= k - 1 /\ k - 1 < b * r + b
      BY <1>1, BatchBounds
    <2>2. CASE r = q
      BY <1>3, <2>1, <2>2
    <2>3. CASE r # q
      <3>1. PICK j \in Nat : j = k - 1
        OBVIOUS
      <3>2. ~(m <= j /\ j < m + b)
        BY <1>1, <1>3, <2>1, <2>3, <3>1, Between
      <3> QED
        BY <2>1, <2>3, <3>1, <3>2
    <2> QED
      BY <2>2, <2>3
  <1>6. lines = (m + 1) .. (n + 1)
    BY <1>2, <1>4, <1>5
  <1>7. Cardinality(lines) = n + 1 - m
    <2>1. PICK f \in Int : f = m + 1
      OBVIOUS
    <2>2. PICK e \in Int : e = n + 1
      OBVIOUS
    <2>3. Cardinality(f .. e) = IF f > e THEN 0 ELSE e - f + 1
      BY FS_Interval
    <2>4. lines = f .. e
      BY <1>6, <2>1, <2>2
    <2> HIDE DEF lines
    <2>5. ~(f > e) /\ e - f + 1 = n + 1 - m
      BY <1>4, <2>1, <2>2
    <2> QED
      BY <2>3, <2>4, <2>5
  <1>8. Full(lines) <=> n + 1 - m >= b
    BY <1>1, <1>7 DEF Full
  <1> HIDE DEF lines
  <1>9. BatchOf(n + 2) = q <=> n + 1 < m + b
    BY <1>4, <1>5
  <1>10. /\ Full(lines) => BatchOf(n + 2) # q
         /\ ~Full(lines) => BatchOf(n + 2) = q
    BY <1>4, <1>8, <1>9
  <1> QED
    BY <1>2, <1>10 DEF lines

LEMMA BatchMonotone ==
    ASSUME NEW k \in Nat, NEW l \in Nat, k >= 1, k <= l
    PROVE  BatchOf(k) <= BatchOf(l)
  <1>1. PICK b \in Nat : b = BatchSize /\ b > 0
    BY Limits
  <1>2. PICK q \in Nat : q = BatchOf(k) /\ b * q \in Nat /\ b * q <= k - 1 /\ k - 1 < b * q + b
    BY <1>1, BatchBounds
  <1>3. PICK r \in Nat : r = BatchOf(l) /\ b * r \in Nat /\ b * r <= l - 1 /\ l - 1 < b * r + b
    <2>1. l >= 1
      OBVIOUS
    <2> QED
      BY <1>1, <2>1, BatchBounds
  <1>4. ~(r < q)
    <2> SUFFICES ASSUME r < q PROVE FALSE
      OBVIOUS
    <2>1. PICK z \in Nat : q = r + 1 + z
      <3>1. q - r - 1 \in Nat /\ q = r + 1 + (q - r - 1)
        OBVIOUS
      <3> QED
        BY <3>1
    <2>2. b * q = b * r + b + b * z /\ b * z \in Nat
      BY <2>1
    <2> QED
      BY <1>2, <1>3, <2>2
  <1> QED
    BY <1>2, <1>3, <1>4

-----------------------------------------------------------------------------
(* Lines and what becomes of them. *)

LEMMA FileTyped ==
    ASSUME TypeOK
    PROVE  /\ Len(file) \in Nat /\ Len(file) <= MaxRows
           /\ Lines \subseteq LineNo /\ \A l \in Lines : l \in Nat /\ l >= 1
           /\ \A l \in Lines : file[l].kind \in Kind /\ file[l].name \in Name /\ file[l].sku \in Sku
           /\ IsFiniteSet(Lines) /\ Cardinality(Lines) = Len(file)
  <1>1. file \in Seq(Row) /\ Len(file) \in Nat /\ Len(file) <= MaxRows
    BY DEF TypeOK
  <1>2. \A l \in Lines : file[l] \in Row /\ l \in Nat /\ l >= 1 /\ l <= Len(file)
    BY <1>1 DEF Lines
  <1>3. Lines \subseteq LineNo
    BY <1>1, <1>2, Limits DEF LineNo
  <1>4. \A l \in Lines : file[l].kind \in Kind /\ file[l].name \in Name /\ file[l].sku \in Sku
    BY <1>2, RowsAssumption DEF Name, Sku
  <1>5. IsFiniteSet(Lines) /\ Cardinality(Lines) = Len(file)
    <2>1. PICK e \in Int : e = Len(file) /\ e >= 0
      BY <1>1
    <2>2. IsFiniteSet(1 .. e) /\ Cardinality(1 .. e) = IF 1 > e THEN 0 ELSE e - 1 + 1
      BY FS_Interval
    <2>3. (IF 1 > e THEN 0 ELSE e - 1 + 1) = e
      BY <2>1
    <2> QED
      BY <2>1, <2>2, <2>3 DEF Lines
  <1> QED
    BY <1>1, <1>2, <1>3, <1>4, <1>5

LEMMA WriterTyped ==
    ASSUME TypeOK, NEW d \in Delivery
    PROVE  /\ writer[d] \in WriterState /\ writer[d].next \in Nat
           /\ writer[d].processed \in Nat /\ writer[d].rejected \in Nat
  BY Limits DEF TypeOK, WriterState

LEMMA InBatch ==
    ASSUME NEW l \in Lines
    PROVE  l \in Batch(l) /\ Batch(l) \subseteq Lines /\ (\A k \in Batch(l) : Batch(k) = Batch(l))
  BY DEF Batch

\* The two ways to say that a row is written.
LEMMA PricedLines ==
    ASSUME NEW lines
    PROVE  /\ Priced(lines) = {l \in lines : Writes(l)}
           /\ Rejected(lines) = {l \in lines : ~Writes(l)}
           /\ Unique(lines) = {l \in lines : Writes(l) /\ \A k \in lines : Writes(k) /\ k > l => file[k].sku # file[l].sku}
           /\ Storable(lines) = {l \in lines : Stored(l)}
  <1>1. Priced(lines) = {l \in lines : Writes(l)}
    BY DEF Priced, Validated, Writes, Valid
  <1> QED
    BY <1>1 DEF Rejected, Unique, Storable, Stored

\* In a whole batch, what fails is what is unique and refused.
LEMMA FailsInBatch ==
    ASSUME NEW lines, \A l \in lines : lines = Batch(l)
    PROVE  /\ FailsOf(lines) = {l \in Unique(lines) : file[l].kind = "refused"}
           /\ RejectsOf(lines) = Rejected(lines) \union FailsOf(lines)
           /\ Rejected(lines) \intersect FailsOf(lines) = {}
  <1>1. \A l \in lines : Fails(l) <=> l \in Unique(lines) /\ file[l].kind = "refused"
    BY PricedLines DEF Fails
  <1>2. FailsOf(lines) = {l \in Unique(lines) : file[l].kind = "refused"}
    BY <1>1 DEF FailsOf, Unique, Priced, Validated
  <1>3. RejectsOf(lines) = Rejected(lines) \union FailsOf(lines) /\ Rejected(lines) \intersect FailsOf(lines) = {}
    BY PricedLines DEF RejectsOf, FailsOf, Rejects, Fails
  <1> QED
    BY <1>2, <1>3

\* What is sure stays as it is, whatever categories are inserted.
LEMMA SureStays ==
    ASSUME TypeOK, Grown, NEW l \in Lines, Sure(l)
    PROVE  Sure(l)' /\ Writes(l)' = Writes(l) /\ Fails(l)' = Fails(l) /\ Rejects(l)' = Rejects(l) /\ Stored(l)' = Stored(l)
  <1>1. file' = file /\ Lines' = Lines /\ Batch(l)' = Batch(l) /\ \A k \in Lines : Valid(k)' = Valid(k)
    BY DEF Grown, Lines, Batch, Valid, BatchOf
  <1>2. Taken \subseteq Taken'
    BY DEF Grown, Taken
  <1>3. \A k \in Batch(l) : Writes(k)' = Writes(k)
    <2> TAKE k \in Batch(l)
    <2>1. Valid(k) => Slug[file[k].name] \in Taken
      BY DEF Sure
    <2>2. Valid(k) => (file[k].name \in categories' <=> file[k].name \in categories)
      BY <2>1 DEF Grown
    <2> QED
      BY <1>1, <2>2 DEF Writes, Valid
  <1>4. Sure(l)'
    BY <1>1, <1>2, InBatch DEF Sure
  <1>5. Fails(l)' = Fails(l)
    BY <1>1, <1>3, InBatch DEF Fails
  <1>6. Writes(l)' = Writes(l)
    BY <1>3, InBatch
  <1>7. Rejects(l)' = Rejects(l)
    BY <1>5, <1>6 DEF Rejects
  <1> QED
    BY <1>1, <1>4, <1>5, <1>6, <1>7 DEF Stored

LEMMA SureLines ==
    ASSUME TypeOK, Grown, NEW lines \in SUBSET Lines, \A l \in lines : Sure(l)
    PROVE  /\ \A l \in lines : Sure(l)'
           /\ RejectsOf(lines)' = RejectsOf(lines) /\ FailsOf(lines)' = FailsOf(lines) /\ Unique(lines)' = Unique(lines)
           /\ Rejected(lines)' = Rejected(lines) /\ Priced(lines)' = Priced(lines)
  <1>1. \A l \in lines : Sure(l)' /\ Writes(l)' = Writes(l) /\ Fails(l)' = Fails(l) /\ Rejects(l)' = Rejects(l)
    BY SureStays
  <1>2. file' = file
    BY DEF Grown
  <1>3. Priced(lines)' = {l \in lines : Writes(l)'}
    BY DEF Priced, Validated, Writes, Valid
  <1>4. Priced(lines)' = Priced(lines)
    BY <1>1, <1>3, PricedLines
  <1>5. Unique(lines)' = Unique(lines) /\ Rejected(lines)' = Rejected(lines)
    BY <1>2, <1>4 DEF Unique, Rejected
  <1> QED
    BY <1>1, <1>4, <1>5 DEF RejectsOf, FailsOf

\* A delivery's progress stays right while others write.
LEMMA ProgressStays ==
    ASSUME TypeOK, Grown, recorded \subseteq recorded', NEW r \in WriterState, BatchOK(r), FlushOK(r), CountOK(r)
    PROVE  BatchOK(r)' /\ FlushOK(r)' /\ CountOK(r)'
  <1>1. file' = file /\ Lines' = Lines /\ (\A l \in Lines : Batch(l)' = Batch(l) /\ Stored(l)' = Stored(l))
    BY DEF Grown, Lines, Batch, Stored, BatchOf
  <1>2. r.pending \subseteq Lines /\ Done(r) \subseteq Lines /\ r.next \in Nat /\ Done(r)' = Done(r)
    BY FileTyped DEF BatchOK, Done, Lines
  <1>3. BatchOK(r)'
    BY <1>1, <1>2 DEF BatchOK, BatchOf
  <1>4. FlushOK(r)'
    <2>1. CASE r.at \in {"priced", "rows", "recording", "written"}
      <3>1. \A l \in r.pending : Sure(l)
        BY <2>1 DEF FlushOK
      <3>2. /\ \A l \in r.pending : Sure(l)'
            /\ RejectsOf(r.pending)' = RejectsOf(r.pending) /\ FailsOf(r.pending)' = FailsOf(r.pending)
            /\ Unique(r.pending)' = Unique(r.pending)
        BY <1>2, <3>1, SureLines
      <3>3. RejectsOf(r.pending) \subseteq Lines
        BY <1>2 DEF RejectsOf
      <3> QED
        BY <1>1, <3>2, <3>3 DEF FlushOK
    <2>2. CASE r.at \notin {"priced", "rows", "recording", "written"}
      BY <2>2 DEF FlushOK
    <2> QED
      BY <2>1, <2>2
  <1>5. CountOK(r)'
    <2>1. \A l \in Done(r) : Sure(l)
      BY DEF CountOK
    <2>2. RejectsOf(Done(r))' = RejectsOf(Done(r)) /\ \A l \in Done(r) : Sure(l)'
      <3>1. PICK lines \in SUBSET Lines : lines = Done(r)
        BY <1>2
      <3>2. RejectsOf(lines)' = RejectsOf(lines) /\ \A l \in lines : Sure(l)'
        BY <2>1, <3>1, SureLines
      <3> QED
        BY <1>2, <3>1, <3>2
    <2>3. \A l \in Done(r) : Rejects(l)' = Rejects(l) /\ Stored(l)' = Stored(l)
      BY <1>2, <2>1, SureStays
    <2> QED
      BY <1>2, <2>2, <2>3 DEF CountOK
  <1> QED
    BY <1>3, <1>4, <1>5

-----------------------------------------------------------------------------
(* The steps. *)

LEMMA InvInit == Init => Inv
  <1> SUFFICES ASSUME Init PROVE Inv
    OBVIOUS
  <1>1. Idle \in WriterState /\ Idle.at = "idle"
    BY Limits DEF Idle, WriterState
  <1>2. file \in Seq(Row) /\ Len(file) <= MaxRows
    <2>1. PICK n \in 0 .. MaxRows : file \in [1 .. n -> Row]
      BY DEF Init
    <2>2. n \in Nat /\ n <= MaxRows
      BY <2>1, Limits
    <2>3. file \in Seq(Row) /\ Len(file) = n
      BY <2>1, <2>2
    <2> QED
      BY <2>2, <2>3
  <1>3. chunk \in [completed : BOOLEAN, processed : 0 .. MaxRows, rejected : 0 .. MaxRows] /\ ~chunk.completed
    BY Limits DEF Init
  <1>4. products \in [Sku -> 0 .. MaxRows] /\ deaths \in 0 .. MaxDeaths
    BY Limits DEF Init
  <1>5. TypeOK
    BY <1>1, <1>2, <1>3, <1>4 DEF Init, TypeOK
  <1>6. \A d \in Delivery : WriterOK(d)
    BY <1>1 DEF Init, WriterOK
  <1> QED
    BY <1>3, <1>5, <1>6 DEF Init, Inv, RecordedOK, ChunkOK

\* What the tables and the chunk row say stays right.
LEMMA TablesStep ==
    ASSUME Inv, Grown, recorded \subseteq recorded',
           recorded' \subseteq recorded \union {l \in Lines : Sure(l) /\ Rejects(l) /\ Stored(l)},
           chunk' = chunk \/ ChunkOK'
    PROVE  RecordedOK' /\ ChunkOK'
  <1>1. TypeOK /\ Lines' = Lines
    BY DEF Inv, Lines, Grown
  <1>2. RecordedOK'
    <2> SUFFICES ASSUME NEW l \in recorded' PROVE l \in Lines' /\ Sure(l)' /\ Rejects(l)' /\ Stored(l)'
      BY DEF RecordedOK
    <2>1. l \in Lines /\ Sure(l) /\ Rejects(l) /\ Stored(l)
      BY DEF Inv, RecordedOK
    <2> QED
      BY <1>1, <2>1, SureStays
  <1>3. CASE chunk' = chunk
    <2> SUFFICES ASSUME chunk.completed
                 PROVE  /\ \A l \in Lines : Sure(l)' /\ (Rejects(l)' /\ Stored(l)' => l \in recorded')
                        /\ chunk.rejected = Cardinality(RejectsOf(Lines))' /\ chunk.processed = Cardinality(Lines \ RejectsOf(Lines))'
      BY <1>1, <1>2, <1>3 DEF ChunkOK
    <2>1. \A l \in Lines : Sure(l) /\ (Rejects(l) /\ Stored(l) => l \in recorded)
      BY DEF Inv, ChunkOK
    <2>2. \A l \in Lines : Sure(l)' /\ Rejects(l)' = Rejects(l) /\ Stored(l)' = Stored(l)
      BY <1>1, <2>1, SureStays
    <2>3. PICK lines \in SUBSET Lines : lines = Lines
      OBVIOUS
    <2>4. RejectsOf(lines)' = RejectsOf(lines)
      BY <1>1, <2>1, SureLines
    <2>5. RejectsOf(Lines)' = RejectsOf(Lines)
      BY <1>1, <2>3, <2>4
    <2> QED
      BY <1>1, <2>1, <2>2, <2>5 DEF Inv, ChunkOK
  <1> QED
    BY <1>2, <1>3

\* A step of one delivery.
LEMMA DeliveryStepInv ==
    ASSUME Inv, NEW d \in Delivery, NEW r \in WriterState, writer' = [writer EXCEPT ![d] = r], Grown,
           recorded \subseteq recorded', recorded' \subseteq recorded \union {l \in Lines : Sure(l) /\ Rejects(l) /\ Stored(l)},
           products' \in [Sku -> 0 .. MaxRows], deaths' \in 0 .. MaxDeaths, overlapped' \in BOOLEAN,
           chunk' \in [completed : BOOLEAN, processed : 0 .. MaxRows, rejected : 0 .. MaxRows],
           chunk' = chunk \/ ChunkOK',
           r.at # "idle" => BatchOK(r)' /\ FlushOK(r)' /\ CountOK(r)'
    PROVE  Inv'
  <1>1. TypeOK /\ writer \in [Delivery -> WriterState] /\ recorded \in SUBSET LineNo
    BY DEF Inv, TypeOK
  <1>2. writer'[d] = r /\ \A x \in Delivery : x # d => writer'[x] = writer[x]
    BY <1>1
  <1>3. recorded' \in SUBSET LineNo
    BY <1>1, FileTyped
  <1>4. TypeOK'
    BY <1>1, <1>3 DEF TypeOK, Grown, Inv
  <1>5. ASSUME NEW x \in Delivery PROVE WriterOK(x)'
    <2>1. CASE x = d
      BY <1>2, <2>1 DEF WriterOK
    <2>2. CASE x # d
      <3>1. PICK o \in WriterState : o = writer[x] /\ o = writer'[x]
        BY <1>1, <1>2, <2>2
      <3>2. o.at # "idle" => BatchOK(o)' /\ FlushOK(o)' /\ CountOK(o)'
        BY <1>1, <3>1, ProgressStays DEF Inv, WriterOK
      <3> QED
        BY <3>1, <3>2 DEF WriterOK
    <2> QED
      BY <2>1, <2>2
  <1> QED
    BY <1>4, <1>5, TablesStep DEF Inv

LEMMA NothingGrows ==
    ASSUME TypeOK, UNCHANGED <<file, categories>>
    PROVE  Grown
  BY DEF Grown, TypeOK

\* A step that changes no table but the products.
LEMMA ProgressStep ==
    ASSUME Inv, NEW d \in Delivery, NEW r \in WriterState, writer' = [writer EXCEPT ![d] = r],
           UNCHANGED <<file, categories, recorded, chunk>>,
           products' \in [Sku -> 0 .. MaxRows], deaths' \in 0 .. MaxDeaths, overlapped' \in BOOLEAN,
           r.at # "idle" => BatchOK(r) /\ FlushOK(r) /\ CountOK(r)
    PROVE  Inv'
  <1>1. TypeOK /\ Grown /\ chunk \in [completed : BOOLEAN, processed : 0 .. MaxRows, rejected : 0 .. MaxRows]
    BY NothingGrows DEF Inv, TypeOK
  <1>2. r.at # "idle" => BatchOK(r)' /\ FlushOK(r)' /\ CountOK(r)'
    BY <1>1, ProgressStays
  <1> QED
    BY <1>1, <1>2, DeliveryStepInv

LEMMA OtherVars ==
    ASSUME Inv
    PROVE  /\ products \in [Sku -> 0 .. MaxRows] /\ deaths \in 0 .. MaxDeaths /\ overlapped \in BOOLEAN
           /\ chunk \in [completed : BOOLEAN, processed : 0 .. MaxRows, rejected : 0 .. MaxRows]
           /\ TypeOK /\ writer \in [Delivery -> WriterState] /\ recorded \in SUBSET LineNo /\ categories \in SUBSET Name
  BY DEF Inv, TypeOK

LEMMA Progress ==
    ASSUME Inv, NEW d \in Delivery, writer[d].at # "idle"
    PROVE  BatchOK(writer[d]) /\ FlushOK(writer[d]) /\ CountOK(writer[d])
  BY DEF Inv, WriterOK

LEMMA BeginStep ==
    ASSUME Inv, NEW d \in Delivery, Begin(d)
    PROVE  Inv'
  <1> DEFINE r == [Idle EXCEPT !.at = "reading"]
  <1>1. /\ writer' = [writer EXCEPT ![d] = r] /\ overlapped' \in BOOLEAN
        /\ UNCHANGED <<file, categories, products, recorded, chunk, deaths>>
    BY OtherVars DEF Begin
  <1>2. /\ r \in WriterState /\ r.at = "reading" /\ r.next = 0 /\ r.pending = {} /\ r.refused = {}
        /\ r.processed = 0 /\ r.rejected = 0
    BY Limits DEF Idle, WriterState
  <1> HIDE DEF r
  <1>3. BatchOK(r)
    BY <1>2, FileTyped, OtherVars DEF BatchOK
  <1>4. FlushOK(r)
    BY <1>2 DEF FlushOK
  <1>5. CountOK(r)
    <2>1. Done(r) = {} /\ RejectsOf(Done(r)) = {} /\ Done(r) \ RejectsOf(Done(r)) = {}
      BY <1>2 DEF Done, RejectsOf
    <2> QED
      BY <1>2, <2>1, FS_EmptySet DEF CountOK
  <1> QED
    BY <1>1, <1>2, <1>3, <1>4, <1>5, ProgressStep, OtherVars

LEMMA AddStep ==
    ASSUME Inv, NEW d \in Delivery, Add(d)
    PROVE  Inv'
  <1>1. PICK w \in WriterState : w = writer[d]
    BY WriterTyped DEF Inv
  <1>2. PICK n \in Nat : n = w.next
    BY <1>1, WriterTyped DEF Inv
  <1>3. PICK lines : lines = w.pending \union {n + 1}
    OBVIOUS
  <1>4. PICK at \in {"reading", "flushing"} : at = IF Full(lines) THEN "flushing" ELSE "reading"
    OBVIOUS
  <1> DEFINE r == [w EXCEPT !.next = n + 1, !.pending = lines, !.at = at]
  <1>5. w.at = "reading" /\ n < Len(file) /\ UNCHANGED <<file, categories, products, recorded, chunk, deaths, overlapped>>
    BY <1>1, <1>2 DEF Add
  <1>6. writer' = [writer EXCEPT ![d] = r]
    BY <1>1, <1>2, <1>3, <1>4 DEF Add
  <1>7. BatchOK(w) /\ FlushOK(w) /\ CountOK(w)
    BY <1>1, <1>5, Progress
  <1>8. TypeOK /\ Len(file) \in Nat /\ Len(file) <= MaxRows
    BY FileTyped, OtherVars
  <1>9. w.pending = {k \in 1 .. n : BatchOf(k) = BatchOf(n + 1)}
    BY <1>2, <1>5, <1>7, <1>8 DEF BatchOK
  <1>10. lines = {k \in 1 .. n + 1 : BatchOf(k) = BatchOf(n + 1)}
    BY <1>3, <1>9
  <1>11. n + 1 \in 0 .. MaxRows /\ lines \in SUBSET LineNo
    BY <1>5, <1>8, <1>10, Limits DEF LineNo
  <1>12. /\ r \in WriterState /\ r.at = at /\ r.next = n + 1 /\ r.pending = lines /\ r.refused = w.refused
         /\ r.processed = w.processed /\ r.rejected = w.rejected
    BY <1>11 DEF WriterState
  <1> HIDE DEF r
  <1>13. BatchOK(r)
    <2>1. PICK m \in Nat : m = n + 1
      OBVIOUS
    <2>2. m \in 0 .. Len(file) /\ lines \subseteq 1 .. m /\ m \in lines
      BY <1>5, <1>8, <1>10, <2>1
    <2>3. /\ Full(lines) => BatchOf(n + 2) # BatchOf(n + 1)
          /\ ~Full(lines) => BatchOf(n + 2) = BatchOf(n + 1)
      BY <1>10, BatchEnds
    <2>4. ASSUME at = "reading", m < Len(file) PROVE lines = {k \in 1 .. m : BatchOf(k) = BatchOf(m + 1)}
      <3>1. ~Full(lines)
        BY <1>4, <2>4
      <3>2. m + 1 = n + 2
        BY <2>1
      <3> QED
        BY <1>10, <2>1, <2>3, <3>1, <3>2
    <2>5. ASSUME at = "flushing" \/ m = Len(file), NEW l \in lines PROVE lines = Batch(l)
      <3>1. BatchOf(l) = BatchOf(m) /\ Batch(l) = {k \in Lines : BatchOf(k) = BatchOf(m)}
        BY <1>10, <2>1 DEF Batch
      <3>2. ASSUME NEW k \in Lines, BatchOf(k) = BatchOf(m) PROVE k \in 1 .. m
        <4>1. k \in Nat /\ k >= 1 /\ k <= Len(file)
          BY <1>8 DEF Lines
        <4>2. CASE m = Len(file)
          BY <4>1, <4>2
        <4>3. CASE m # Len(file)
          <5>1. BatchOf(m + 1) # BatchOf(m)
            <6>1. Full(lines) /\ m + 1 = n + 2
              BY <1>4, <2>1, <2>5, <4>3
            <6> QED
              BY <2>1, <2>3, <6>1
          <5>2. ~(k >= m + 1)
            <6> SUFFICES ASSUME k >= m + 1 PROVE FALSE
              OBVIOUS
            <6>1. PICK j \in Nat : j = m + 1
              OBVIOUS
            <6>2. BatchOf(m) <= BatchOf(j) /\ BatchOf(j) <= BatchOf(k)
              <7>1. m >= 1 /\ j >= 1 /\ m <= j /\ j <= k
                BY <2>1, <6>1
              <7> QED
                BY <4>1, <7>1, BatchMonotone
            <6>3. BatchOf(m) \in Nat /\ BatchOf(j) \in Nat
              BY <2>1, <6>1, BatchBounds
            <6> QED
              BY <3>2, <5>1, <6>1, <6>2, <6>3
          <5> QED
            BY <4>1, <5>2
        <4> QED
          BY <4>2, <4>3
      <3>3. lines \subseteq Lines
        BY <1>8, <2>2 DEF Lines
      <3> QED
        BY <1>10, <2>1, <3>1, <3>2, <3>3
    <2> QED
      BY <1>12, <2>1, <2>2, <2>4, <2>5 DEF BatchOK
  <1>14. FlushOK(r)
    BY <1>4, <1>5, <1>7, <1>12 DEF FlushOK
  <1>15. CountOK(r)
    <2>1. Done(r) = Done(w)
      <3>1. w.pending \subseteq 1 .. n
        BY <1>9
      <3> QED
        BY <1>2, <1>3, <1>12, <3>1 DEF Done
    <2> QED
      BY <1>7, <1>12, <2>1 DEF CountOK
  <1> QED
    BY <1>5, <1>6, <1>12, <1>13, <1>14, <1>15, ProgressStep, OtherVars

LEMMA LastFlushStep ==
    ASSUME Inv, NEW d \in Delivery, LastFlush(d)
    PROVE  Inv'
  <1>1. PICK w \in WriterState : w = writer[d]
    BY WriterTyped DEF Inv
  <1> DEFINE r == [w EXCEPT !.at = "flushing"]
  <1>2. /\ w.at = "reading" /\ w.next = Len(file) /\ w.pending # {} /\ writer' = [writer EXCEPT ![d] = r]
        /\ UNCHANGED <<file, categories, products, recorded, chunk, deaths, overlapped>>
    BY <1>1 DEF LastFlush
  <1>3. /\ r \in WriterState /\ r.at = "flushing" /\ r.next = w.next /\ r.pending = w.pending /\ r.refused = w.refused
        /\ r.processed = w.processed /\ r.rejected = w.rejected
    BY DEF WriterState
  <1>4. BatchOK(w) /\ FlushOK(w) /\ CountOK(w)
    BY <1>1, <1>2, Progress
  <1> HIDE DEF r
  <1>5. BatchOK(r)
    BY <1>2, <1>3, <1>4 DEF BatchOK
  <1>6. FlushOK(r)
    BY <1>2, <1>3, <1>4 DEF FlushOK
  <1>7. CountOK(r)
    BY <1>3, <1>4 DEF CountOK, Done
  <1> QED
    BY <1>2, <1>3, <1>5, <1>6, <1>7, ProgressStep, OtherVars

LEMMA PrepareStep ==
    ASSUME Inv, NEW d \in Delivery, Prepare(d)
    PROVE  Inv'
  <1>1. PICK w \in WriterState : w = writer[d]
    BY WriterTyped DEF Inv
  <1> DEFINE r == [w EXCEPT !.at = "priced"]
  <1>2. /\ w.at = "flushing" /\ writer' = [writer EXCEPT ![d] = r]
        /\ categories' = categories \union Inserted(w.pending)
        /\ UNCHANGED <<file, products, recorded, chunk, deaths, overlapped>>
    BY <1>1 DEF Prepare
  <1>3. /\ r \in WriterState /\ r.at = "priced" /\ r.next = w.next /\ r.pending = w.pending /\ r.refused = w.refused
        /\ r.processed = w.processed /\ r.rejected = w.rejected
    BY DEF WriterState
  <1> HIDE DEF r
  <1>4. BatchOK(w) /\ FlushOK(w) /\ CountOK(w) /\ TypeOK
    BY <1>1, <1>2, Progress, OtherVars
  <1>5. w.pending \subseteq Lines /\ \A l \in w.pending : w.pending = Batch(l)
    <2>1. w.next \in 0 .. Len(file) /\ w.pending \subseteq 1 .. w.next
      BY <1>4 DEF BatchOK
    <2> QED
      BY <1>2, <1>4, <2>1, FileTyped DEF BatchOK, Lines
  <1>6. Grown
    <2>1. ASSUME NEW n \in Inserted(w.pending) PROVE n \in Name /\ Slug[n] \notin Taken
      <3>1. PICK l \in w.pending : n = file[l].name /\ Slug[file[l].name] \notin Taken
        BY DEF Inserted, Validated
      <3> QED
        BY <1>4, <1>5, <3>1, FileTyped
    <2> QED
      BY <1>2, <2>1, OtherVars DEF Grown
  <1>7. BatchOK(w)' /\ CountOK(w)'
    BY <1>2, <1>4, <1>6, ProgressStays
  <1>8. BatchOK(r)' /\ CountOK(r)'
    BY <1>2, <1>3, <1>7 DEF BatchOK, CountOK, Done
  <1>9. ASSUME NEW l \in w.pending PROVE Sure(l)'
    <2> SUFFICES ASSUME NEW k \in w.pending, Valid(k) PROVE Slug[file[k].name] \in Taken'
      <3>1. file' = file /\ Batch(l)' = w.pending
        BY <1>2, <1>5 DEF Batch, Lines, BatchOf
      <3> QED
        BY <3>1 DEF Sure, Valid
    <2>1. PICK slug : slug = Slug[file[k].name]
      OBVIOUS
    <2>2. CASE slug \in Taken
      BY <1>6, <2>1, <2>2 DEF Grown, Taken
    <2>3. CASE slug \notin Taken
      <3> DEFINE S == {e \in Validated(w.pending) : Slug[file[e].name] = slug}
      <3>1. S \in SUBSET Nat /\ k \in S
        BY <1>4, <1>5, <2>1, FileTyped DEF Validated, Valid
      <3>2. PICK e \in S : \A y \in S : e <= y
        BY <3>1, FirstOf
      <3>3. e \in Validated(w.pending) /\ Slug[file[e].name] = slug
        BY <3>2
      <3>4. ASSUME NEW y \in Validated(w.pending), y < e PROVE Slug[file[y].name] # slug
        <4>1. y \in Nat /\ e \in Nat
          BY <1>4, <1>5, <3>3, FileTyped DEF Validated
        <4> SUFFICES ASSUME Slug[file[y].name] = slug PROVE FALSE
          OBVIOUS
        <4>2. e <= y
          BY <3>2
        <4> QED
          BY <3>4, <4>1, <4>2
      <3>5. file[e].name \in Inserted(w.pending)
        BY <2>3, <3>3, <3>4 DEF Inserted
      <3> QED
        BY <1>2, <2>1, <3>3, <3>5 DEF Taken
    <2> QED
      BY <2>2, <2>3
  <1>10. FlushOK(r)'
    BY <1>2, <1>3, <1>4, <1>9 DEF FlushOK
  <1> QED
    BY <1>2, <1>3, <1>6, <1>8, <1>10, DeliveryStepInv, OtherVars

\* What a delivery has read, of which its batch is the last part.
LEMMA WholeBatch ==
    ASSUME Inv, NEW w \in WriterState, BatchOK(w), w.at # "reading"
    PROVE  /\ w.pending \subseteq Lines /\ w.pending # {} /\ \A l \in w.pending : w.pending = Batch(l)
           /\ Done(w) \subseteq Lines /\ w.next \in Nat /\ w.next <= Len(file) /\ w.next \in w.pending
  <1>1. w.next \in 0 .. Len(file) /\ w.pending \subseteq 1 .. w.next /\ Len(file) \in Nat
    BY FileTyped, OtherVars DEF BatchOK
  <1>2. w.next \in Nat /\ w.next <= Len(file)
    BY <1>1
  <1>3. 1 .. w.next \subseteq Lines
    BY <1>1, <1>2 DEF Lines
  <1> QED
    BY <1>1, <1>2, <1>3 DEF BatchOK, Done

\* The products table stays well typed.
LEMMA UpsertedTyped ==
    ASSUME Inv, NEW lines \in SUBSET Lines
    PROVE  Upserted(lines) \in [Sku -> 0 .. MaxRows]
  <1> SUFFICES ASSUME NEW s \in Sku
               PROVE  (IF \E l \in lines : file[l].sku = s THEN CHOOSE l \in lines : file[l].sku = s ELSE products[s]) \in 0 .. MaxRows
    BY DEF Upserted
  <1>1. products[s] \in 0 .. MaxRows
    BY OtherVars
  <1>2. ASSUME \E l \in lines : file[l].sku = s PROVE (CHOOSE l \in lines : file[l].sku = s) \in 0 .. MaxRows
    <2>1. (CHOOSE l \in lines : file[l].sku = s) \in LineNo
      BY <1>2, FileTyped, OtherVars
    <2> QED
      BY <2>1, Limits DEF LineNo
  <1> QED
    BY <1>1, <1>2

LEMMA CommitBatchStep ==
    ASSUME Inv, NEW d \in Delivery, CommitBatch(d)
    PROVE  Inv'
  <1>1. PICK w \in WriterState : w = writer[d]
    BY WriterTyped DEF Inv
  <1> DEFINE r == [w EXCEPT !.at = "written"]
  <1>2. /\ w.at = "priced" /\ writer' = [writer EXCEPT ![d] = r] /\ ~DataError(w.pending)
        /\ products' = Upserted(Unique(w.pending)) /\ recorded' = recorded \union Rejected(w.pending)
        /\ UNCHANGED <<file, categories, chunk, deaths, overlapped>>
    BY <1>1 DEF CommitBatch
  <1>3. /\ r \in WriterState /\ r.at = "written" /\ r.next = w.next /\ r.pending = w.pending /\ r.refused = w.refused
        /\ r.processed = w.processed /\ r.rejected = w.rejected
    BY DEF WriterState
  <1> HIDE DEF r
  <1>4. BatchOK(w) /\ FlushOK(w) /\ CountOK(w) /\ TypeOK
    BY <1>1, <1>2, Progress, OtherVars
  <1>5. w.pending \subseteq Lines /\ \A l \in w.pending : w.pending = Batch(l)
    BY <1>2, <1>4, WholeBatch
  <1>6. \A l \in w.pending : Sure(l)
    BY <1>2, <1>4 DEF FlushOK
  <1>7. FailsOf(w.pending) = {} /\ RejectsOf(w.pending) = Rejected(w.pending)
    <2>1. \A l \in Unique(w.pending) : file[l].kind # "refused"
      BY <1>2 DEF DataError
    <2> QED
      BY <1>5, <2>1, FailsInBatch
  <1>8. \A l \in Rejected(w.pending) : l \in Lines /\ Sure(l) /\ Rejects(l) /\ Stored(l)
    <2>1. Rejected(w.pending) = {l \in w.pending : ~Writes(l)}
      BY PricedLines
    <2>2. Rejected(w.pending) = Storable(Rejected(w.pending))
      BY <1>2 DEF DataError
    <2>3. \A l \in Rejected(w.pending) : Stored(l)
      BY <2>2 DEF Storable, Stored
    <2> QED
      BY <1>5, <1>6, <2>1, <2>3 DEF Rejects
  <1>9. products' \in [Sku -> 0 .. MaxRows]
    <2>1. Unique(w.pending) \in SUBSET Lines
      BY <1>5, PricedLines
    <2> QED
      BY <1>2, <2>1, UpsertedTyped
  <1>10. Grown /\ recorded \subseteq recorded'
    BY <1>2, <1>4, NothingGrows
  <1>11. BatchOK(w)' /\ CountOK(w)'
    BY <1>4, <1>10, ProgressStays
  <1>12. BatchOK(r)' /\ CountOK(r)'
    BY <1>2, <1>3, <1>11 DEF BatchOK, CountOK, Done
  <1>13. /\ RejectsOf(w.pending)' = RejectsOf(w.pending) /\ FailsOf(w.pending)' = FailsOf(w.pending)
         /\ \A l \in w.pending : Sure(l)'
    BY <1>4, <1>5, <1>6, <1>10, SureLines
  <1>14. FlushOK(r)'
    <2>1. r.refused = FailsOf(r.pending)'
      BY <1>2, <1>3, <1>4, <1>7, <1>13 DEF FlushOK
    <2>2. \A l \in RejectsOf(r.pending)' : l \in recorded'
      BY <1>2, <1>3, <1>7, <1>13
    <2> QED
      BY <1>3, <1>13, <2>1, <2>2 DEF FlushOK
  <1>15. recorded' \subseteq recorded \union {l \in Lines : Sure(l) /\ Rejects(l) /\ Stored(l)}
    BY <1>2, <1>8
  <1>16. deaths' \in 0 .. MaxDeaths /\ overlapped' \in BOOLEAN /\ chunk' = chunk
         /\ chunk' \in [completed : BOOLEAN, processed : 0 .. MaxRows, rejected : 0 .. MaxRows]
    BY <1>2, OtherVars
  <1> QED
    BY <1>2, <1>3, <1>9, <1>10, <1>12, <1>14, <1>15, <1>16, DeliveryStepInv

LEMMA BatchRefusedStep ==
    ASSUME Inv, NEW d \in Delivery, BatchRefused(d)
    PROVE  Inv'
  <1>1. PICK w \in WriterState : w = writer[d]
    BY WriterTyped DEF Inv
  <1>2. PICK todo : todo = Unique(w.pending)
    OBVIOUS
  <1> DEFINE r == [w EXCEPT !.at = "rows", !.todo = todo]
  <1>3. /\ w.at = "priced" /\ writer' = [writer EXCEPT ![d] = r]
        /\ UNCHANGED <<file, categories, products, recorded, chunk, deaths, overlapped>>
    BY <1>1, <1>2 DEF BatchRefused
  <1>4. BatchOK(w) /\ FlushOK(w) /\ CountOK(w) /\ TypeOK
    BY <1>1, <1>3, Progress, OtherVars
  <1>5. w.pending \subseteq Lines /\ \A l \in w.pending : w.pending = Batch(l)
    BY <1>3, <1>4, WholeBatch
  <1>6. todo \subseteq w.pending /\ todo \in SUBSET LineNo
    BY <1>2, <1>4, <1>5, PricedLines, FileTyped
  <1>7. /\ r \in WriterState /\ r.at = "rows" /\ r.next = w.next /\ r.pending = w.pending /\ r.refused = w.refused
        /\ r.todo = todo /\ r.processed = w.processed /\ r.rejected = w.rejected
    BY <1>6 DEF WriterState
  <1> HIDE DEF r
  <1>8. BatchOK(r) /\ CountOK(r)
    BY <1>3, <1>4, <1>7 DEF BatchOK, CountOK, Done
  <1>9. FlushOK(r)
    <2>1. FailsOf(w.pending) \subseteq todo
      BY <1>2, <1>5, FailsInBatch
    <2>2. w.refused = {} /\ \A l \in w.pending : Sure(l)
      BY <1>3, <1>4 DEF FlushOK
    <2>3. r.refused = FailsOf(r.pending) \ r.todo
      BY <1>7, <2>1, <2>2
    <2> QED
      BY <1>2, <1>7, <2>2, <2>3 DEF FlushOK
  <1> QED
    BY <1>3, <1>7, <1>8, <1>9, ProgressStep, OtherVars

LEMMA WriteRowStep ==
    ASSUME Inv, NEW d \in Delivery, NEW l \in LineNo, WriteRow(d, l)
    PROVE  Inv'
  <1>1. PICK w \in WriterState : w = writer[d]
    BY WriterTyped DEF Inv
  <1>2. PICK todo \in SUBSET LineNo : todo = w.todo \ {l}
    BY DEF WriterState
  <1>3. PICK refused \in SUBSET LineNo : refused = IF file[l].kind = "refused" THEN w.refused \union {l} ELSE w.refused
    BY DEF WriterState
  <1> DEFINE r == [w EXCEPT !.todo = todo, !.refused = refused]
  <1>4. /\ w.at = "rows" /\ l \in w.todo /\ products' \in {products, Upserted({l})}
        /\ UNCHANGED <<file, categories, recorded, chunk, deaths, overlapped>>
    BY <1>1 DEF WriteRow
  <1>5. writer' = [writer EXCEPT ![d] = r]
    <2>1. CASE file[l].kind = "refused"
      BY <1>1, <1>2, <1>3, <2>1 DEF WriteRow
    <2>2. CASE file[l].kind # "refused"
      <3>1. writer' = [writer EXCEPT ![d] = [w EXCEPT !.todo = todo]]
        BY <1>1, <1>2, <2>2 DEF WriteRow
      <3>2. refused = w.refused
        BY <1>3, <2>2
      <3>3. r = [w EXCEPT !.todo = todo]
        BY <3>2 DEF WriterState
      <3> QED
        BY <3>1, <3>3
    <2> QED
      BY <2>1, <2>2
  <1>6. BatchOK(w) /\ FlushOK(w) /\ CountOK(w) /\ TypeOK
    BY <1>1, <1>4, Progress, OtherVars
  <1>7. w.pending \subseteq Lines /\ \A k \in w.pending : w.pending = Batch(k)
    BY <1>4, <1>6, WholeBatch
  <1>8. /\ r \in WriterState /\ r.at = "rows" /\ r.next = w.next /\ r.pending = w.pending /\ r.refused = refused
        /\ r.todo = todo /\ r.processed = w.processed /\ r.rejected = w.rejected
    BY <1>4 DEF WriterState
  <1> HIDE DEF r
  <1>9. BatchOK(r) /\ CountOK(r)
    BY <1>4, <1>6, <1>8 DEF BatchOK, CountOK, Done
  <1>10. l \in Unique(w.pending) /\ w.todo \subseteq Unique(w.pending) /\ w.refused = FailsOf(w.pending) \ w.todo
    BY <1>4, <1>6 DEF FlushOK
  <1>11. l \in FailsOf(w.pending) <=> file[l].kind = "refused"
    BY <1>7, <1>10, FailsInBatch
  <1>12. FlushOK(r)
    <2>1. refused = FailsOf(w.pending) \ todo
      BY <1>2, <1>3, <1>4, <1>10, <1>11
    <2>2. todo \subseteq Unique(w.pending)
      BY <1>2, <1>10
    <2> QED
      BY <1>4, <1>6, <1>8, <2>1, <2>2 DEF FlushOK
  <1>13. products' \in [Sku -> 0 .. MaxRows]
    <2>1. {l} \in SUBSET Lines
      BY <1>7, <1>10, PricedLines
    <2> QED
      BY <1>4, <2>1, UpsertedTyped, OtherVars
  <1> QED
    BY <1>4, <1>5, <1>8, <1>9, <1>12, <1>13, ProgressStep, OtherVars

LEMMA RowsDoneStep ==
    ASSUME Inv, NEW d \in Delivery, RowsDone(d)
    PROVE  Inv'
  <1>1. PICK w \in WriterState : w = writer[d]
    BY WriterTyped DEF Inv
  <1>2. PICK todo : todo = ToRecord(w)
    OBVIOUS
  <1> DEFINE r == [w EXCEPT !.at = "recording", !.todo = todo]
  <1>3. /\ w.at = "rows" /\ w.todo = {} /\ writer' = [writer EXCEPT ![d] = r]
        /\ UNCHANGED <<file, categories, products, recorded, chunk, deaths, overlapped>>
    BY <1>1, <1>2 DEF RowsDone
  <1>4. BatchOK(w) /\ FlushOK(w) /\ CountOK(w) /\ TypeOK
    BY <1>1, <1>3, Progress, OtherVars
  <1>5. w.pending \subseteq Lines /\ \A l \in w.pending : w.pending = Batch(l)
    BY <1>3, <1>4, WholeBatch
  <1>6. w.refused = FailsOf(w.pending)
    BY <1>3, <1>4 DEF FlushOK
  <1>7. todo = RejectsOf(w.pending)
    BY <1>2, <1>5, <1>6, FailsInBatch DEF ToRecord
  <1>8. todo \in SUBSET LineNo
    BY <1>4, <1>5, <1>7, FileTyped DEF RejectsOf
  <1>9. /\ r \in WriterState /\ r.at = "recording" /\ r.next = w.next /\ r.pending = w.pending /\ r.refused = w.refused
        /\ r.todo = todo /\ r.processed = w.processed /\ r.rejected = w.rejected
    BY <1>8 DEF WriterState
  <1> HIDE DEF r
  <1>10. BatchOK(r) /\ CountOK(r)
    BY <1>3, <1>4, <1>9 DEF BatchOK, CountOK, Done
  <1>11. FlushOK(r)
    BY <1>3, <1>4, <1>6, <1>7, <1>9 DEF FlushOK
  <1> QED
    BY <1>3, <1>9, <1>10, <1>11, ProgressStep, OtherVars

LEMMA RecordStep ==
    ASSUME Inv, NEW d \in Delivery, NEW l \in LineNo, Record(d, l)
    PROVE  Inv'
  <1>1. PICK w \in WriterState : w = writer[d]
    BY WriterTyped DEF Inv
  <1>2. PICK todo \in SUBSET LineNo : todo = w.todo \ {l}
    BY DEF WriterState
  <1> DEFINE r == [w EXCEPT !.todo = todo]
  <1>3. /\ w.at = "recording" /\ l \in w.todo /\ writer' = [writer EXCEPT ![d] = r]
        /\ recorded' = recorded \union Storable({l})
        /\ UNCHANGED <<file, categories, products, chunk, deaths, overlapped>>
    BY <1>1, <1>2 DEF Record
  <1>4. BatchOK(w) /\ FlushOK(w) /\ CountOK(w) /\ TypeOK
    BY <1>1, <1>3, Progress, OtherVars
  <1>5. w.pending \subseteq Lines /\ \A k \in w.pending : w.pending = Batch(k)
    BY <1>3, <1>4, WholeBatch
  <1>6. /\ r \in WriterState /\ r.at = "recording" /\ r.next = w.next /\ r.pending = w.pending /\ r.refused = w.refused
        /\ r.todo = todo /\ r.processed = w.processed /\ r.rejected = w.rejected
    BY <1>3 DEF WriterState
  <1> HIDE DEF r
  <1>7. /\ w.refused = FailsOf(w.pending) /\ w.todo \subseteq RejectsOf(w.pending) /\ (\A k \in w.pending : Sure(k))
        /\ \A k \in RejectsOf(w.pending) \ w.todo : Stored(k) => k \in recorded
    BY <1>3, <1>4 DEF FlushOK
  <1>8. Grown /\ recorded \subseteq recorded'
    BY <1>3, <1>4, NothingGrows
  <1>9. BatchOK(w)' /\ CountOK(w)'
    BY <1>4, <1>8, ProgressStays
  <1>10. BatchOK(r)' /\ CountOK(r)'
    BY <1>3, <1>6, <1>9 DEF BatchOK, CountOK, Done
  <1>11. recorded' = recorded \union {k \in {l} : Stored(k)}
    BY <1>3, PricedLines
  <1>12. FlushOK(r)'
    <2>1. /\ RejectsOf(w.pending)' = RejectsOf(w.pending) /\ FailsOf(w.pending)' = FailsOf(w.pending)
          /\ \A k \in w.pending : Sure(k)'
      BY <1>4, <1>5, <1>7, <1>8, SureLines
    <2>2. \A k \in RejectsOf(w.pending) \ todo : Stored(k)' => k \in recorded'
      <3>1. \A k \in Lines : Stored(k)' = Stored(k)
        BY <1>3 DEF Stored
      <3> QED
        BY <1>2, <1>5, <1>7, <1>11, <3>1 DEF RejectsOf
    <2>3. todo \subseteq RejectsOf(w.pending)
      BY <1>2, <1>7
    <2> QED
      BY <1>6, <1>7, <2>1, <2>2, <2>3 DEF FlushOK
  <1>13. recorded' \subseteq recorded \union {k \in Lines : Sure(k) /\ Rejects(k) /\ Stored(k)}
    <2>1. l \in Lines /\ Sure(l) /\ Rejects(l)
      BY <1>3, <1>5, <1>7 DEF RejectsOf
    <2> QED
      BY <1>11, <2>1
  <1>14. deaths' \in 0 .. MaxDeaths /\ overlapped' \in BOOLEAN /\ products' \in [Sku -> 0 .. MaxRows] /\ chunk' = chunk
         /\ chunk' \in [completed : BOOLEAN, processed : 0 .. MaxRows, rejected : 0 .. MaxRows]
    BY <1>3, OtherVars
  <1> QED
    BY <1>3, <1>6, <1>8, <1>10, <1>12, <1>13, <1>14, DeliveryStepInv

LEMMA RecordingDoneStep ==
    ASSUME Inv, NEW d \in Delivery, RecordingDone(d)
    PROVE  Inv'
  <1>1. PICK w \in WriterState : w = writer[d]
    BY WriterTyped DEF Inv
  <1> DEFINE r == [w EXCEPT !.at = "written"]
  <1>2. /\ w.at = "recording" /\ w.todo = {} /\ writer' = [writer EXCEPT ![d] = r]
        /\ UNCHANGED <<file, categories, products, recorded, chunk, deaths, overlapped>>
    BY <1>1 DEF RecordingDone
  <1>3. BatchOK(w) /\ FlushOK(w) /\ CountOK(w)
    BY <1>1, <1>2, Progress
  <1>4. /\ r \in WriterState /\ r.at = "written" /\ r.next = w.next /\ r.pending = w.pending /\ r.refused = w.refused
        /\ r.processed = w.processed /\ r.rejected = w.rejected
    BY DEF WriterState
  <1> HIDE DEF r
  <1>5. BatchOK(r) /\ CountOK(r)
    BY <1>2, <1>3, <1>4 DEF BatchOK, CountOK, Done
  <1>6. FlushOK(r)
    BY <1>2, <1>3, <1>4 DEF FlushOK
  <1> QED
    BY <1>2, <1>4, <1>5, <1>6, ProgressStep, OtherVars

LEMMA DiesStep ==
    ASSUME Inv, NEW d \in Delivery, Dies(d)
    PROVE  Inv'
  <1>1. /\ deaths < MaxDeaths /\ deaths' = deaths + 1 /\ writer' = [writer EXCEPT ![d] = Idle]
        /\ UNCHANGED <<file, categories, products, recorded, chunk, overlapped>>
    BY DEF Dies
  <1>2. Idle \in WriterState /\ Idle.at = "idle" /\ deaths' \in 0 .. MaxDeaths
    BY <1>1, Limits, OtherVars DEF Idle, WriterState
  <1>3. /\ products' \in [Sku -> 0 .. MaxRows] /\ overlapped' \in BOOLEAN
        /\ UNCHANGED <<file, categories, recorded, chunk>>
    BY <1>1, OtherVars
  <1> QED
    BY <1>1, <1>2, <1>3, ProgressStep

\* How many lines a batch processes and rejects.
LEMMA BatchCounts ==
    ASSUME TypeOK, NEW lines \in SUBSET Lines, \A l \in lines : lines = Batch(l)
    PROVE  /\ Cardinality(RejectsOf(lines)) = Cardinality(Rejected(lines)) + Cardinality(FailsOf(lines))
           /\ Cardinality(lines \ RejectsOf(lines)) = Cardinality(Priced(lines)) - Cardinality(FailsOf(lines))
           /\ Cardinality(Rejected(lines)) \in Nat /\ Cardinality(FailsOf(lines)) \in Nat /\ Cardinality(Priced(lines)) \in Nat
  <1>1. Rejected(lines) \subseteq lines /\ FailsOf(lines) \subseteq Priced(lines) /\ Priced(lines) \subseteq lines
    BY PricedLines DEF FailsOf, Fails
  <1>2. IsFiniteSet(lines) /\ IsFiniteSet(Rejected(lines)) /\ IsFiniteSet(FailsOf(lines)) /\ IsFiniteSet(Priced(lines))
    <2>1. IsFiniteSet(lines)
      BY FileTyped, FS_Subset
    <2>2. FailsOf(lines) \subseteq lines
      BY <1>1
    <2> QED
      BY <1>1, <2>1, <2>2, FS_Subset
  <1>3. Cardinality(Rejected(lines)) \in Nat /\ Cardinality(FailsOf(lines)) \in Nat /\ Cardinality(Priced(lines)) \in Nat
    BY <1>2, FS_CardinalityType
  <1>4. RejectsOf(lines) = Rejected(lines) \union FailsOf(lines) /\ Rejected(lines) \intersect FailsOf(lines) = {}
    BY FailsInBatch
  <1>5. Cardinality(RejectsOf(lines)) = Cardinality(Rejected(lines)) + Cardinality(FailsOf(lines))
    <2>1. Cardinality(Rejected(lines) \union FailsOf(lines)) = Cardinality(Rejected(lines)) + Cardinality(FailsOf(lines)) - Cardinality({})
      BY <1>2, <1>4, FS_Union
    <2> QED
      BY <1>3, <1>4, <2>1, FS_EmptySet
  <1>6. lines \ RejectsOf(lines) = Priced(lines) \ FailsOf(lines) /\ Priced(lines) \intersect FailsOf(lines) = FailsOf(lines)
    BY <1>1, <1>4 DEF Rejected
  <1>7. Cardinality(Priced(lines) \ FailsOf(lines)) = Cardinality(Priced(lines)) - Cardinality(Priced(lines) \intersect FailsOf(lines))
    BY <1>2, FS_Difference
  <1> QED
    BY <1>3, <1>5, <1>6, <1>7

\* A subset of the lines has at most so many as a chunk can.
LEMMA FewLines ==
    ASSUME TypeOK, NEW lines \in SUBSET Lines
    PROVE  IsFiniteSet(lines) /\ Cardinality(lines) \in Nat /\ Cardinality(lines) <= Len(file) /\ Cardinality(lines) \in 0 .. MaxRows
  <1>1. IsFiniteSet(lines) /\ Cardinality(lines) <= Len(file)
    BY FileTyped, FS_Subset
  <1>2. Cardinality(lines) \in Nat
    BY <1>1, FS_CardinalityType
  <1> QED
    BY <1>1, <1>2, FileTyped, Limits

\* Disjoint lines count for the sum of what each part counts for.
LEMMA CountsAdd ==
    ASSUME TypeOK, NEW a \in SUBSET Lines, NEW b \in SUBSET Lines, a \intersect b = {}
    PROVE  /\ Cardinality(RejectsOf(a \union b)) = Cardinality(RejectsOf(a)) + Cardinality(RejectsOf(b))
           /\ Cardinality((a \union b) \ RejectsOf(a \union b)) = Cardinality(a \ RejectsOf(a)) + Cardinality(b \ RejectsOf(b))
  <1>1. /\ RejectsOf(a \union b) = RejectsOf(a) \union RejectsOf(b)
        /\ (a \union b) \ RejectsOf(a \union b) = (a \ RejectsOf(a)) \union (b \ RejectsOf(b))
        /\ RejectsOf(a) \intersect RejectsOf(b) = {} /\ (a \ RejectsOf(a)) \intersect (b \ RejectsOf(b)) = {}
        /\ RejectsOf(a) \in SUBSET Lines /\ RejectsOf(b) \in SUBSET Lines
        /\ a \ RejectsOf(a) \in SUBSET Lines /\ b \ RejectsOf(b) \in SUBSET Lines
    BY DEF RejectsOf
  <1>2. ASSUME NEW x \in SUBSET Lines, NEW y \in SUBSET Lines, x \intersect y = {}
        PROVE  Cardinality(x \union y) = Cardinality(x) + Cardinality(y)
    <2>1. IsFiniteSet(x) /\ IsFiniteSet(y) /\ Cardinality(x) \in Nat /\ Cardinality(y) \in Nat
      BY FewLines
    <2>2. Cardinality(x \union y) = Cardinality(x) + Cardinality(y) - Cardinality({})
      BY <1>2, <2>1, FS_Union
    <2> QED
      BY <2>1, <2>2, FS_EmptySet
  <1> QED
    BY <1>1, <1>2

LEMMA CountStep ==
    ASSUME Inv, NEW d \in Delivery, Count(d)
    PROVE  Inv'
  <1>1. PICK w \in WriterState : w = writer[d]
    BY WriterTyped DEF Inv
  <1>2. PICK processed : processed = w.processed + Processed(w)
    OBVIOUS
  <1>3. PICK rejected : rejected = w.rejected + Cardinality(Rejected(w.pending)) + Cardinality(w.refused)
    OBVIOUS
  <1> DEFINE r == [w EXCEPT !.at = "reading", !.pending = {}, !.refused = {}, !.processed = processed, !.rejected = rejected]
  <1>4. /\ w.at = "written" /\ writer' = [writer EXCEPT ![d] = r]
        /\ UNCHANGED <<file, categories, products, recorded, chunk, deaths, overlapped>>
    BY <1>1, <1>2, <1>3 DEF Count, NextBatch
  <1>5. BatchOK(w) /\ FlushOK(w) /\ CountOK(w) /\ TypeOK
    BY <1>1, <1>4, Progress, OtherVars
  <1>6. /\ w.pending \in SUBSET Lines /\ (\A l \in w.pending : w.pending = Batch(l)) /\ Done(w) \in SUBSET Lines
        /\ w.next \in Nat /\ w.next <= Len(file) /\ w.next \in w.pending
    BY <1>4, <1>5, WholeBatch
  <1>7. Done(w) \intersect w.pending = {} /\ Done(w) \union w.pending = 1 .. w.next
    BY <1>5 DEF Done, BatchOK
  <1>8. PICK lines \in SUBSET Lines : lines = Done(w) \union w.pending
    BY <1>6
  <1>9. rejected = Cardinality(RejectsOf(lines)) /\ processed = Cardinality(lines \ RejectsOf(lines))
    <2>1. w.refused = FailsOf(w.pending)
      BY <1>4, <1>5 DEF FlushOK
    <2>2. /\ Cardinality(RejectsOf(w.pending)) = Cardinality(Rejected(w.pending)) + Cardinality(w.refused)
          /\ Cardinality(w.pending \ RejectsOf(w.pending)) = Processed(w)
          /\ Cardinality(Rejected(w.pending)) \in Nat /\ Cardinality(w.refused) \in Nat
      BY <1>5, <1>6, <2>1, BatchCounts DEF Processed
    <2>3. /\ Cardinality(RejectsOf(lines)) = Cardinality(RejectsOf(Done(w))) + Cardinality(RejectsOf(w.pending))
          /\ Cardinality(lines \ RejectsOf(lines)) = Cardinality(Done(w) \ RejectsOf(Done(w))) + Cardinality(w.pending \ RejectsOf(w.pending))
      BY <1>5, <1>6, <1>7, <1>8, CountsAdd
    <2>4. w.rejected = Cardinality(RejectsOf(Done(w))) /\ w.processed = Cardinality(Done(w) \ RejectsOf(Done(w))) /\ w.rejected \in Nat
      BY <1>1, <1>5, WriterTyped DEF CountOK
    <2>5. processed = Cardinality(lines \ RejectsOf(lines))
      BY <1>2, <2>2, <2>3, <2>4
    <2>6. rejected = Cardinality(RejectsOf(lines))
      BY <1>3, <2>2, <2>3, <2>4
    <2> QED
      BY <2>5, <2>6
  <1>10. processed \in 0 .. MaxRows /\ rejected \in 0 .. MaxRows
    <2>1. RejectsOf(lines) \in SUBSET Lines /\ lines \ RejectsOf(lines) \in SUBSET Lines
      BY DEF RejectsOf
    <2> QED
      BY <1>5, <1>9, <2>1, FewLines
  <1>11. /\ r \in WriterState /\ r.at = "reading" /\ r.next = w.next /\ r.pending = {} /\ r.refused = {}
         /\ r.processed = processed /\ r.rejected = rejected
    BY <1>10 DEF WriterState
  <1> HIDE DEF r
  <1>12. Done(r) = lines
    BY <1>7, <1>8, <1>11 DEF Done
  <1>13. BatchOK(r)
    <2>1. PICK n \in Nat : n = w.next
      BY <1>6
    <2>2. ASSUME n < Len(file), NEW k \in 1 .. n PROVE BatchOf(k) # BatchOf(n + 1)
      <3> SUFFICES ASSUME BatchOf(k) = BatchOf(n + 1) PROVE FALSE
        OBVIOUS
      <3>1. PICK m \in Nat : m = n + 1
        OBVIOUS
      <3>2. k \in Nat /\ k >= 1 /\ k <= n /\ n >= 1 /\ n <= m /\ m >= 1
        BY <2>2, <3>1
      <3>3. BatchOf(k) <= BatchOf(n) /\ BatchOf(n) <= BatchOf(m)
        BY <3>2, BatchMonotone
      <3>4. BatchOf(k) \in Nat /\ BatchOf(n) \in Nat /\ BatchOf(m) \in Nat
        BY <3>2, BatchBounds
      <3>5. BatchOf(m) = BatchOf(n)
        BY <3>1, <3>3, <3>4
      <3>6. m \in Lines
        BY <1>5, <2>2, <3>1, <3>2, FileTyped DEF Lines
      <3>7. m \in w.pending
        BY <1>6, <2>1, <3>5, <3>6 DEF Batch
      <3>8. m \in 1 .. n
        BY <1>5, <2>1, <3>7 DEF BatchOK
      <3> QED
        BY <3>1, <3>8
    <2>3. n \in 0 .. Len(file)
      BY <1>5, <2>1 DEF BatchOK
    <2> QED
      BY <1>11, <2>1, <2>2, <2>3 DEF BatchOK
  <1>14. FlushOK(r)
    BY <1>11 DEF FlushOK
  <1>15. CountOK(r)
    <2>1. ASSUME NEW l \in lines PROVE Sure(l) /\ (Rejects(l) /\ Stored(l) => l \in recorded)
      <3>1. CASE l \in Done(w)
        BY <1>5, <3>1 DEF CountOK
      <3>2. CASE l \in w.pending
        BY <1>4, <1>5, <3>2 DEF FlushOK, RejectsOf
      <3> QED
        BY <1>8, <3>1, <3>2
    <2> QED
      BY <1>9, <1>11, <1>12, <2>1 DEF CountOK
  <1> QED
    BY <1>4, <1>11, <1>13, <1>14, <1>15, ProgressStep, OtherVars

LEMMA CompleteStep ==
    ASSUME Inv, NEW d \in Delivery, Complete(d)
    PROVE  Inv'
  <1>1. PICK w \in WriterState : w = writer[d]
    BY WriterTyped DEF Inv
  <1>2. /\ w.at = "reading" /\ w.next = Len(file) /\ w.pending = {} /\ writer' = [writer EXCEPT ![d] = Idle]
        /\ chunk' = IF chunk.completed THEN chunk ELSE [completed |-> TRUE, processed |-> w.processed, rejected |-> w.rejected]
        /\ UNCHANGED <<file, categories, products, recorded, deaths, overlapped>>
    BY <1>1 DEF Complete
  <1>3. BatchOK(w) /\ FlushOK(w) /\ CountOK(w) /\ TypeOK
    BY <1>1, <1>2, Progress, OtherVars
  <1>4. Grown
    BY <1>2, <1>3, NothingGrows
  <1>5. Done(w) = Lines
    BY <1>2 DEF Done, Lines
  <1>6. chunk' = chunk \/ ChunkOK'
    <2> SUFFICES ASSUME ~chunk.completed PROVE ChunkOK'
      BY <1>2
    <2>1. chunk'.processed = w.processed /\ chunk'.rejected = w.rejected
      BY <1>2
    <2>2. file' = file /\ categories' = categories /\ recorded' = recorded /\ Lines' = Lines /\ RejectsOf(Lines)' = RejectsOf(Lines)
      BY <1>2 DEF Lines, RejectsOf, Rejects, Fails, Writes, Valid, Batch, BatchOf
    <2>3. \A l \in Lines : Sure(l) /\ (Rejects(l) /\ Stored(l) => l \in recorded)
      BY <1>3, <1>5 DEF CountOK
    <2>4. \A l \in Lines : Sure(l)' /\ Rejects(l)' = Rejects(l) /\ Stored(l)' = Stored(l)
      BY <1>3, <1>4, <2>3, SureStays
    <2>5. w.rejected = Cardinality(RejectsOf(Lines)) /\ w.processed = Cardinality(Lines \ RejectsOf(Lines))
      BY <1>3, <1>5 DEF CountOK
    <2> QED
      BY <2>1, <2>2, <2>3, <2>4, <2>5 DEF ChunkOK
  <1>7. chunk' \in [completed : BOOLEAN, processed : 0 .. MaxRows, rejected : 0 .. MaxRows]
    <2>1. w.processed \in 0 .. MaxRows /\ w.rejected \in 0 .. MaxRows
      BY DEF WriterState
    <2> QED
      BY <1>2, <2>1, OtherVars
  <1>8. Idle \in WriterState /\ Idle.at = "idle"
    BY Limits DEF Idle, WriterState
  <1>9. /\ recorded' = recorded /\ products' \in [Sku -> 0 .. MaxRows] /\ deaths' \in 0 .. MaxDeaths
        /\ overlapped' \in BOOLEAN
    BY <1>2, OtherVars
  <1> QED
    BY <1>2, <1>4, <1>6, <1>7, <1>8, <1>9, DeliveryStepInv

\* A step of no delivery.
LEMMA OtherStep ==
    ASSUME Inv, Grown, UNCHANGED <<products, recorded, chunk, writer, deaths, overlapped>>
    PROVE  Inv'
  <1>1. TypeOK'
    BY OtherVars DEF TypeOK, Grown
  <1>2. ASSUME NEW x \in Delivery PROVE WriterOK(x)'
    <2>1. PICK o \in WriterState : o = writer[x] /\ o = writer'[x]
      BY OtherVars
    <2>2. o.at # "idle" => BatchOK(o)' /\ FlushOK(o)' /\ CountOK(o)'
      BY <2>1, ProgressStays, OtherVars DEF Inv, WriterOK
    <2> QED
      BY <2>1, <2>2 DEF WriterOK
  <1>3. RecordedOK' /\ ChunkOK'
    BY TablesStep
  <1> QED
    BY <1>1, <1>2, <1>3 DEF Inv

LEMMA OtherChunkStep ==
    ASSUME Inv, NEW n \in Name, OtherChunk(n)
    PROVE  Inv'
  <1>1. /\ Slug[n] \notin Taken /\ categories' = categories \union {n}
        /\ UNCHANGED <<file, products, recorded, chunk, writer, deaths, overlapped>>
    BY DEF OtherChunk
  <1>2. Grown
    BY <1>1, OtherVars DEF Grown
  <1> QED
    BY <1>1, <1>2, OtherStep

LEMMA InvStutter ==
    ASSUME Inv, UNCHANGED vars
    PROVE  Inv'
  <1>1. Grown
    BY NothingGrows, OtherVars DEF vars
  <1> QED
    BY <1>1, OtherStep DEF vars

LEMMA InvNext ==
    ASSUME Inv, [Next]_vars
    PROVE  Inv'
  <1>1. CASE UNCHANGED vars
    BY <1>1, InvStutter
  <1>2. ASSUME NEW d \in Delivery, DeliveryStep(d) PROVE Inv'
    BY <1>2, BeginStep, AddStep, LastFlushStep, PrepareStep, CommitBatchStep, BatchRefusedStep, RowsDoneStep,
       RecordingDoneStep, CountStep, CompleteStep, DiesStep, WriteRowStep, RecordStep DEF DeliveryStep
  <1>3. ASSUME NEW n \in Name, OtherChunk(n) PROVE Inv'
    BY <1>3, OtherChunkStep
  <1> QED
    BY <1>1, <1>2, <1>3 DEF Next

LEMMA Invariant == Spec => []Inv
  <1>1. Init => Inv
    BY InvInit
  <1>2. Inv /\ [Next]_vars => Inv'
    BY InvNext
  <1> QED
    BY <1>1, <1>2, PTL DEF Spec

-----------------------------------------------------------------------------
(* The theorems. *)

\* Every reachable state is well typed: no delivery reads past the chunk's last line, and
\* no count exceeds the lines there are.
THEOREM TypeCorrect == Spec => []TypeOK
  <1>1. Inv => TypeOK
    BY DEF Inv
  <1> QED
    BY <1>1, Invariant, PTL

\* A completed chunk's counts are those of its lines and of the rejections table (see
\* CountsMatchTables), however many deliveries overlap, die and start over, and whatever
\* the database refuses.
THEOREM CompletedChunkCounts == Spec => []CountsMatchTables
  <1>1. Inv => CountsMatchTables
    <2> SUFFICES ASSUME Inv, chunk.completed
                 PROVE  /\ chunk.processed + chunk.rejected = Len(file)
                        /\ chunk.rejected = Cardinality(recorded) + Cardinality({l \in Lines : file[l].kind = "garbled"})
      BY DEF CountsMatchTables
    <2> DEFINE garbled == {l \in Lines : file[l].kind = "garbled"}
    <2>1. TypeOK /\ Len(file) \in Nat /\ IsFiniteSet(Lines) /\ Cardinality(Lines) = Len(file)
      BY OtherVars, FileTyped
    <2>2. /\ \A l \in Lines : Sure(l) /\ (Rejects(l) /\ Stored(l) => l \in recorded)
          /\ chunk.rejected = Cardinality(RejectsOf(Lines))
          /\ chunk.processed = Cardinality(Lines \ RejectsOf(Lines))
      BY DEF Inv, ChunkOK
    <2>3. RejectsOf(Lines) = recorded \union garbled /\ recorded \intersect garbled = {}
      <3>1. \A l \in recorded : l \in Lines /\ Rejects(l) /\ Stored(l)
        BY DEF Inv, RecordedOK
      <3>2. \A l \in garbled : l \in Lines /\ Rejects(l) /\ ~Stored(l)
        BY DEF Rejects, Writes, Valid, Malformed, Stored
      <3> QED
        BY <2>2, <3>1, <3>2 DEF RejectsOf, Stored
    <2> HIDE DEF garbled
    <2>4. recorded \in SUBSET Lines /\ garbled \in SUBSET Lines /\ RejectsOf(Lines) \in SUBSET Lines
      BY <2>3 DEF RejectsOf
    <2>5. /\ IsFiniteSet(recorded) /\ IsFiniteSet(garbled) /\ IsFiniteSet(RejectsOf(Lines))
          /\ Cardinality(recorded) \in Nat /\ Cardinality(garbled) \in Nat /\ Cardinality(RejectsOf(Lines)) \in Nat
      BY <2>1, <2>4, FewLines
    <2>6. chunk.rejected = Cardinality(recorded) + Cardinality(garbled)
      <3>1. Cardinality(recorded \union garbled) = Cardinality(recorded) + Cardinality(garbled) - Cardinality({})
        BY <2>3, <2>5, FS_Union
      <3> QED
        BY <2>2, <2>3, <2>5, <3>1, FS_EmptySet
    <2>7. chunk.processed + chunk.rejected = Len(file)
      <3>1. Cardinality(Lines \ RejectsOf(Lines)) = Cardinality(Lines) - Cardinality(Lines \intersect RejectsOf(Lines))
        BY <2>1, FS_Difference
      <3>2. Lines \intersect RejectsOf(Lines) = RejectsOf(Lines)
        BY <2>4
      <3>3. chunk.processed = Cardinality(Lines) - Cardinality(RejectsOf(Lines))
        BY <2>2, <3>1, <3>2
      <3>4. chunk.rejected = Cardinality(RejectsOf(Lines))
        BY <2>2
      <3>5. PICK a \in Nat : a = Cardinality(RejectsOf(Lines))
        BY <2>5
      <3>6. PICK b \in Nat : b = Len(file) /\ b = Cardinality(Lines)
        BY <2>1
      <3>7. chunk.processed = b - a /\ chunk.rejected = a
        BY <3>3, <3>4, <3>5, <3>6
      <3> QED
        BY <3>6, <3>7
    <2> QED
      BY <2>6, <2>7 DEF garbled
  <1> QED
    BY <1>1, Invariant, PTL

-----------------------------------------------------------------------------
(* Which line a product's row comes from. *)

\* The line whose row is written of its SKU's in its batch.
Winner(l) == Writes(l) /\ file[l].kind # "refused" /\ \A k \in Batch(l) : Writes(k) /\ k > l => file[k].sku # file[l].sku

\* The lines a delivery has dealt with, and whether one has come to this line, or has yet to.
Written(w) == Done(w) \union (IF w.at \in {"recording", "written"} THEN w.pending
                              ELSE IF w.at = "rows" THEN w.pending \ w.todo ELSE {})
Active(d) == writer[d].at # "idle"
Reached(l) == chunk.completed \/ \E d \in Delivery : Active(d) /\ l \in Written(writer[d])
Owed(l) == \E d \in Delivery : Active(d) /\ l \notin Written(writer[d])

\* A product's row is the one of a winner.
ProductsOK ==
    \A s \in Sku : \A l \in LineNo : products[s] = l => l \in Lines /\ file[l].sku = s /\ Sure(l) /\ Winner(l)

\* Without an overlap, one delivery at a time, and none once the chunk is completed.
SoloOK ==
    ~overlapped => /\ \A d, o \in Delivery : Active(d) /\ Active(o) => d = o
                   /\ chunk.completed => \A d \in Delivery : ~Active(d)

\* A winner that a delivery has come to is written, or superseded, or written again by
\* a delivery that has yet to come to it.
OrderOK ==
    (overlapped => deaths = 0) =>
        \A l \in Lines : Sure(l) /\ Winner(l) /\ Reached(l) => products[file[l].sku] >= l \/ Owed(l)

OrderInv == Inv /\ ProductsOK /\ SoloOK /\ OrderOK

\* Only names of free slugs are inserted for the batch.
LEMMA PrepareGrows ==
    ASSUME Inv, NEW d \in Delivery, Prepare(d)
    PROVE  Grown
  <1>1. BatchOK(writer[d]) /\ writer[d].at = "flushing" /\ TypeOK
    BY Progress, OtherVars DEF Prepare
  <1>2. writer[d].pending \subseteq Lines
    BY <1>1, WholeBatch, WriterTyped
  <1>3. ASSUME NEW n \in Inserted(writer[d].pending) PROVE n \in Name /\ Slug[n] \notin Taken
    <2>1. PICK l \in writer[d].pending : n = file[l].name /\ Slug[file[l].name] \notin Taken
      BY DEF Inserted, Validated
    <2> QED
      BY <1>1, <1>2, <2>1, FileTyped
  <1> QED
    BY <1>3, OtherVars DEF Grown, Prepare

\* Which line wins stays as it is, too.
LEMMA WinnerStays ==
    ASSUME TypeOK, Grown, NEW l \in Lines, Sure(l)
    PROVE  Sure(l)' /\ Winner(l)' = Winner(l)
  <1>1. file' = file /\ Batch(l)' = Batch(l) /\ Sure(l)'
    BY SureStays DEF Grown, Lines, Batch, BatchOf
  <1>2. \A k \in Batch(l) : Writes(k)' = Writes(k)
    <2> TAKE k \in Batch(l)
    <2>1. k \in Lines /\ Sure(k)
      BY InBatch DEF Sure
    <2> QED
      BY <2>1, SureStays
  <1> QED
    BY <1>1, <1>2, InBatch DEF Winner

\* What was written is sure.
LEMMA WrittenSure ==
    ASSUME Inv, NEW d \in Delivery, Active(d)
    PROVE  \A l \in Written(writer[d]) : l \in Lines /\ Sure(l)
  <1>1. PICK w \in WriterState : w = writer[d]
    BY WriterTyped DEF Inv
  <1>2. BatchOK(w) /\ FlushOK(w) /\ CountOK(w) /\ TypeOK
    BY <1>1, Progress, OtherVars DEF Active
  <1>3. Done(w) \subseteq Lines /\ w.pending \subseteq Lines
    BY <1>2, FileTyped DEF BatchOK, Done, Lines
  <1>4. \A l \in Done(w) : Sure(l)
    BY <1>2 DEF CountOK
  <1>5. w.at \in {"rows", "recording", "written"} => \A l \in w.pending : Sure(l)
    BY <1>2 DEF FlushOK
  <1> QED
    BY <1>1, <1>3, <1>4, <1>5 DEF Written

\* A delivery goes on, and these lines become the rows of their SKUs.
LEMMA WritesLines ==
    ASSUME OrderInv, Grown, UNCHANGED <<chunk, deaths, overlapped>>,
           NEW d \in Delivery, NEW r \in WriterState, writer' = [writer EXCEPT ![d] = r], Active(d), r.at # "idle",
           NEW lines \in SUBSET Lines, products' = Upserted(lines),
           \A l \in lines : Sure(l) /\ Winner(l),
           \A l \in lines : \A k \in Lines : Winner(k) /\ k > l /\ file[k].sku = file[l].sku => k \notin Written(r),
           \A l \in Written(r) : Sure(l),
           \A l \in Lines : Sure(l) /\ Winner(l) => (l \in Written(r) <=> l \in Written(writer[d]) \union lines)
    PROVE  ProductsOK' /\ SoloOK' /\ OrderOK'
  <1>1. Inv /\ TypeOK /\ ProductsOK /\ SoloOK /\ OrderOK /\ writer \in [Delivery -> WriterState]
    BY OtherVars DEF OrderInv
  <1>2. file' = file /\ Lines' = Lines
    BY DEF Grown, Lines
  <1>3. /\ writer'[d] = r /\ \A x \in Delivery : x # d => writer'[x] = writer[x]
        /\ \A x \in Delivery : Active(x)' = Active(x)
    BY <1>1 DEF Active
  <1>4. \A l \in Lines : Sure(l) => Sure(l)' /\ Winner(l)' = Winner(l)
    BY <1>1, WinnerStays
  <1>5. \A s \in Sku : \/ products'[s] \in lines /\ file[products'[s]].sku = s
                       \/ products'[s] = products[s] /\ ~ \E l \in lines : file[l].sku = s
    BY DEF Upserted
  <1>6. ProductsOK'
    <2> SUFFICES ASSUME NEW s \in Sku, NEW l \in LineNo, products'[s] = l
                 PROVE  l \in Lines /\ file[l].sku = s /\ Sure(l)' /\ Winner(l)'
      BY <1>2 DEF ProductsOK
    <2>1. l \in Lines /\ file[l].sku = s /\ Sure(l) /\ Winner(l)
      BY <1>1, <1>5 DEF ProductsOK
    <2> QED
      BY <1>4, <2>1
  <1>7. SoloOK'
    BY <1>1, <1>3 DEF SoloOK
  <1>8. OrderOK'
    <2> SUFFICES ASSUME overlapped => deaths = 0, NEW l \in Lines, Sure(l)', Winner(l)', Reached(l)'
                 PROVE  products'[file[l].sku] >= l \/ Owed(l)'
      BY <1>2 DEF OrderOK
    <2>1. chunk.completed \/ \E x \in Delivery : Active(x) /\ l \in Written(writer'[x])
      BY <1>3 DEF Reached, Written, Done
    <2>2. Sure(l)
      <3>1. CASE chunk.completed
        BY <1>1, <3>1 DEF Inv, ChunkOK
      <3>2. ASSUME NEW x \in Delivery, Active(x), l \in Written(writer'[x]) PROVE Sure(l)
        <4>1. CASE x = d
          BY <1>3, <3>2, <4>1
        <4>2. CASE x # d
          BY <1>1, <1>3, <3>2, <4>2, WrittenSure
        <4> QED
          BY <4>1, <4>2
      <3> QED
        BY <2>1, <3>1, <3>2
    <2>3. Winner(l)
      BY <1>4, <2>2
    <2>4. l \in Written(r) <=> l \in Written(writer[d]) \union lines
      BY <2>2, <2>3
    <2>5. PICK s \in Sku : s = file[l].sku
      BY <1>1, FileTyped
    <2>6. ASSUME \E x \in Delivery : Active(x) /\ l \notin Written(writer'[x]) PROVE Owed(l)'
      BY <1>3, <2>6 DEF Owed, Written, Done
    <2>7. CASE products'[s] \in lines /\ file[products'[s]].sku = s
      <3>1. PICK p \in lines : p = products'[s] /\ file[p].sku = s
        BY <2>7
      <3>2. p \in Nat /\ l \in Nat
        BY <1>1, FileTyped
      <3>3. CASE p >= l
        BY <2>5, <3>1, <3>3
      <3>4. CASE l > p
        <4>1. l \notin Written(r)
          BY <2>3, <2>5, <3>1, <3>4
        <4> QED
          BY <1>3, <2>6, <4>1
      <3> QED
        BY <3>2, <3>3, <3>4
    <2>8. CASE products'[s] = products[s] /\ ~ \E k \in lines : file[k].sku = s
      <3>1. l \notin lines
        BY <2>5, <2>8
      <3>2. Reached(l)
        <4>1. ASSUME NEW x \in Delivery, Active(x), l \in Written(writer'[x]) PROVE l \in Written(writer[x])
          BY <1>3, <2>4, <3>1, <4>1
        <4> QED
          BY <2>1, <4>1 DEF Reached
      <3>3. products[s] >= l \/ Owed(l)
        BY <1>1, <2>2, <2>3, <2>5, <3>2 DEF OrderOK
      <3>4. ASSUME NEW x \in Delivery, Active(x), l \notin Written(writer[x]) PROVE l \notin Written(writer'[x])
        BY <1>3, <2>4, <3>1, <3>4
      <3> QED
        BY <2>5, <2>6, <2>8, <3>3, <3>4 DEF Owed
    <2> QED
      BY <1>5, <2>7, <2>8
  <1> QED
    BY <1>6, <1>7, <1>8

\* A delivery goes on without writing a row.
LEMMA WritesNothing ==
    ASSUME OrderInv, Grown, UNCHANGED <<chunk, deaths, overlapped, products>>,
           NEW d \in Delivery, NEW r \in WriterState, writer' = [writer EXCEPT ![d] = r], Active(d), r.at # "idle",
           \A l \in Written(r) : Sure(l),
           \A l \in Lines : Sure(l) /\ Winner(l) => (l \in Written(r) <=> l \in Written(writer[d]))
    PROVE  ProductsOK' /\ SoloOK' /\ OrderOK'
  <1>1. products' = Upserted({})
    BY OtherVars DEF OrderInv, Upserted
  <1>2. PICK lines \in SUBSET Lines : lines = {}
    OBVIOUS
  <1> QED
    BY <1>1, <1>2, WritesLines

\* A delivery goes on, with the same lines written.
LEMMA SameWritten ==
    ASSUME OrderInv, Grown, UNCHANGED <<chunk, deaths, overlapped, products>>,
           NEW d \in Delivery, NEW r \in WriterState, writer' = [writer EXCEPT ![d] = r], Active(d), r.at # "idle",
           Written(r) = Written(writer[d])
    PROVE  ProductsOK' /\ SoloOK' /\ OrderOK'
  <1>1. \A l \in Written(r) : Sure(l)
    BY WrittenSure DEF OrderInv
  <1> QED
    BY <1>1, WritesNothing

\* Reading a line writes no row.
LEMMA ReadingOrder ==
    ASSUME OrderInv, NEW d \in Delivery, Add(d) \/ LastFlush(d)
    PROVE  ProductsOK' /\ SoloOK' /\ OrderOK'
  <1>1. PICK w \in WriterState : w = writer[d]
    BY WriterTyped DEF OrderInv, Inv
  <1>2. /\ w.at = "reading" /\ UNCHANGED <<file, categories, products, recorded, chunk, deaths, overlapped>>
    BY <1>1 DEF Add, LastFlush
  <1>3. Grown /\ BatchOK(w) /\ writer \in [Delivery -> WriterState]
    BY <1>1, <1>2, Progress, OtherVars, NothingGrows DEF OrderInv
  <1>4. Inv'
    BY AddStep, LastFlushStep DEF OrderInv
  <1>5. PICK r \in WriterState : r = writer'[d]
    BY <1>4 DEF Inv, TypeOK
  <1>6. writer' = [writer EXCEPT ![d] = r] /\ r.at \in {"reading", "flushing"}
    <2>1. \E v : writer' = [writer EXCEPT ![d] = v]
      BY DEF Add, LastFlush
    <2>2. r.at \in {"reading", "flushing"}
      <3>1. CASE Add(d)
        BY <1>1, <1>3, <1>5, <3>1 DEF Add
      <3>2. CASE LastFlush(d)
        BY <1>1, <1>3, <1>5, <3>2 DEF LastFlush
      <3> QED
        BY <3>1, <3>2
    <2> QED
      BY <1>3, <1>5, <2>1, <2>2
  <1>7. Done(r) = Done(w)
    <2>1. CASE LastFlush(d)
      BY <1>1, <1>3, <1>5, <2>1 DEF LastFlush, Done
    <2>2. CASE Add(d)
      <3>1. PICK n \in Nat : n = w.next
        BY <1>1, WriterTyped DEF OrderInv, Inv
      <3>2. r.next = n + 1 /\ r.pending = w.pending \union {n + 1}
        BY <1>1, <1>3, <1>5, <2>2, <3>1 DEF Add
      <3>3. w.pending \subseteq 1 .. n
        BY <1>3, <3>1 DEF BatchOK
      <3> QED
        BY <3>1, <3>2, <3>3 DEF Done
    <2> QED
      BY <2>1, <2>2
  <1>8. Written(r) = Written(writer[d])
    BY <1>1, <1>2, <1>6, <1>7 DEF Written
  <1> QED
    BY <1>1, <1>2, <1>3, <1>6, <1>8, SameWritten DEF Active

\* Steps after which the same lines are written.
LEMMA SettledOrder ==
    ASSUME OrderInv, NEW d \in Delivery, Prepare(d) \/ RowsDone(d) \/ RecordingDone(d) \/ Count(d) \/ \E l \in LineNo : Record(d, l)
    PROVE  ProductsOK' /\ SoloOK' /\ OrderOK'
  <1>1. PICK w \in WriterState : w = writer[d]
    BY WriterTyped DEF OrderInv, Inv
  <1>2. w.at \in {"flushing", "rows", "recording", "written"} /\ UNCHANGED <<products, chunk, deaths, overlapped>>
    BY <1>1 DEF Prepare, RowsDone, RecordingDone, Count, Record
  <1>3. BatchOK(w) /\ writer \in [Delivery -> WriterState]
    BY <1>1, <1>2, Progress, OtherVars DEF OrderInv
  <1>4. Inv' /\ Grown
    BY PrepareStep, RowsDoneStep, RecordingDoneStep, CountStep, RecordStep, PrepareGrows, NothingGrows, OtherVars
    DEF OrderInv, RowsDone, RecordingDone, Count, Record
  <1>5. PICK r \in WriterState : r = writer'[d]
    BY <1>4 DEF Inv, TypeOK
  <1>6. /\ writer' = [writer EXCEPT ![d] = r] /\ r.at # "idle" /\ r.next = w.next
    <2>1. \E v : writer' = [writer EXCEPT ![d] = v]
      BY DEF Prepare, RowsDone, RecordingDone, Count, Record
    <2>2. r.at # "idle" /\ r.next = w.next
      <3>1. CASE Prepare(d)
        BY <1>1, <1>3, <1>5, <3>1 DEF Prepare
      <3>2. CASE RowsDone(d)
        BY <1>1, <1>3, <1>5, <3>2 DEF RowsDone
      <3>3. CASE RecordingDone(d)
        BY <1>1, <1>3, <1>5, <3>3 DEF RecordingDone
      <3>4. CASE Count(d)
        BY <1>1, <1>3, <1>5, <3>4 DEF Count
      <3>5. CASE \E l \in LineNo : Record(d, l)
        BY <1>1, <1>2, <1>3, <1>5, <3>5 DEF Record
      <3> QED
        BY <3>1, <3>2, <3>3, <3>4, <3>5
    <2> QED
      BY <1>3, <1>5, <2>1, <2>2
  <1>7. Written(r) = Written(w)
    <2>1. CASE Prepare(d)
      BY <1>1, <1>3, <1>5, <2>1 DEF Prepare, Written, Done
    <2>2. CASE RowsDone(d)
      BY <1>1, <1>3, <1>5, <2>2 DEF RowsDone, Written, Done
    <2>3. CASE RecordingDone(d)
      BY <1>1, <1>3, <1>5, <2>3 DEF RecordingDone, Written, Done
    <2>4. CASE Count(d)
      <3>1. w.at = "written" /\ r.at = "reading" /\ r.pending = {}
        BY <1>1, <1>3, <1>5, <2>4 DEF Count, NextBatch
      <3>2. w.pending \subseteq 1 .. w.next
        BY <1>3 DEF BatchOK
      <3> QED
        BY <1>6, <3>1, <3>2 DEF Written, Done
    <2>5. CASE \E l \in LineNo : Record(d, l)
      BY <1>1, <1>3, <1>5, <2>5 DEF Record, Written, Done
    <2> QED
      BY <2>1, <2>2, <2>3, <2>4, <2>5
  <1> QED
    BY <1>1, <1>2, <1>4, <1>6, <1>7, SameWritten DEF Active


\* A later line of the SKU that counts is in a batch that is still to be read.
LEMMA LaterBatch ==
    ASSUME Inv, NEW w \in WriterState, BatchOK(w), w.at # "reading",
           NEW l \in Unique(w.pending), NEW k \in Lines, Winner(k), k > l, file[k].sku = file[l].sku
    PROVE  k \notin 1 .. w.next
  <1>1. /\ w.pending \subseteq Lines /\ \A x \in w.pending : w.pending = Batch(x)
        /\ w.next \in Nat /\ w.next \in w.pending
    BY WholeBatch
  <1>2. l \in w.pending /\ \A x \in w.pending : Writes(x) /\ x > l => file[x].sku # file[l].sku
    BY PricedLines
  <1>3. k \notin w.pending
    BY <1>2 DEF Winner
  <1>4. PICK n \in Nat : n = w.next /\ n \in w.pending
    BY <1>1
  <1>5. l \in Nat /\ l >= 1 /\ k \in Nat
    BY <1>1, <1>2, FileTyped, OtherVars
  <1> SUFFICES ASSUME k <= n PROVE FALSE
    BY <1>4, <1>5
  <1>6. BatchOf(l) <= BatchOf(k) /\ BatchOf(k) <= BatchOf(n)
    <2>1. k >= 1 /\ l <= k
      BY <1>5
    <2> QED
      BY <1>4, <1>5, <2>1, BatchMonotone
  <1>7. BatchOf(l) = BatchOf(n)
    BY <1>1, <1>2, <1>4 DEF Batch
  <1>8. BatchOf(l) \in Nat /\ BatchOf(k) \in Nat
    <2>1. k >= 1
      BY <1>5
    <2> QED
      BY <1>5, <2>1, BatchBounds
  <1>9. BatchOf(k) = BatchOf(l)
    BY <1>6, <1>7, <1>8
  <1>10. k \in w.pending
    BY <1>1, <1>2, <1>9 DEF Batch
  <1> QED
    BY <1>3, <1>10

\* The rows that can be written are all still to be written.
LEMMA BatchRefusedOrder ==
    ASSUME OrderInv, NEW d \in Delivery, BatchRefused(d)
    PROVE  ProductsOK' /\ SoloOK' /\ OrderOK'
  <1>1. PICK w \in WriterState : w = writer[d]
    BY WriterTyped DEF OrderInv, Inv
  <1>2. w.at = "priced" /\ UNCHANGED <<file, categories, products, chunk, deaths, overlapped>>
    BY <1>1 DEF BatchRefused
  <1>3. BatchOK(w) /\ FlushOK(w) /\ Grown /\ writer \in [Delivery -> WriterState]
    BY <1>1, <1>2, Progress, OtherVars, NothingGrows DEF OrderInv
  <1>4. Inv'
    BY BatchRefusedStep DEF OrderInv
  <1>5. PICK r \in WriterState : r = writer'[d]
    BY <1>4 DEF Inv, TypeOK
  <1>6. /\ writer' = [writer EXCEPT ![d] = r] /\ r.at = "rows" /\ r.next = w.next /\ r.pending = w.pending
        /\ r.todo = Unique(w.pending)
    <2>1. \E v : writer' = [writer EXCEPT ![d] = v]
      BY DEF BatchRefused
    <2>2. r.at = "rows" /\ r.next = w.next /\ r.pending = w.pending /\ r.todo = Unique(w.pending)
      BY <1>1, <1>3, <1>5 DEF BatchRefused
    <2> QED
      BY <1>3, <1>5, <2>1, <2>2
  <1>7. Written(r) = Done(w) \union (w.pending \ Unique(w.pending)) /\ Written(w) = Done(w)
    BY <1>2, <1>6 DEF Written, Done
  <1>8. \A l \in Written(r) : Sure(l)
    <2>1. \A l \in w.pending : Sure(l)
      BY <1>2, <1>3 DEF FlushOK
    <2>2. \A l \in Done(w) : Sure(l)
      BY <1>1, <1>2, Progress DEF OrderInv, CountOK
    <2> QED
      BY <1>7, <2>1, <2>2
  <1>9. ASSUME NEW l \in w.pending, Winner(l) PROVE l \in Unique(w.pending)
    <2>1. w.pending = Batch(l)
      BY <1>2, <1>3, WholeBatch DEF OrderInv
    <2> QED
      BY <1>9, <2>1, PricedLines DEF Winner
  <1>10. \A l \in Lines : Sure(l) /\ Winner(l) => (l \in Written(r) <=> l \in Written(writer[d]))
    BY <1>1, <1>7, <1>9
  <1>11. Active(d) /\ r.at # "idle"
    BY <1>1, <1>2, <1>6 DEF Active
  <1> QED
    BY <1>2, <1>3, <1>6, <1>8, <1>10, <1>11, WritesNothing

\* The batch's winners are written together.
LEMMA CommitBatchOrder ==
    ASSUME OrderInv, NEW d \in Delivery, CommitBatch(d)
    PROVE  ProductsOK' /\ SoloOK' /\ OrderOK'
  <1>1. PICK w \in WriterState : w = writer[d]
    BY WriterTyped DEF OrderInv, Inv
  <1>2. /\ w.at = "priced" /\ ~DataError(w.pending) /\ products' = Upserted(Unique(w.pending))
        /\ UNCHANGED <<file, categories, chunk, deaths, overlapped>>
    BY <1>1 DEF CommitBatch
  <1>3. BatchOK(w) /\ FlushOK(w) /\ Grown /\ writer \in [Delivery -> WriterState]
    BY <1>1, <1>2, Progress, OtherVars, NothingGrows DEF OrderInv
  <1>4. Inv'
    BY CommitBatchStep DEF OrderInv
  <1>5. PICK r \in WriterState : r = writer'[d]
    BY <1>4 DEF Inv, TypeOK
  <1>6. writer' = [writer EXCEPT ![d] = r] /\ r.at = "written" /\ r.next = w.next /\ r.pending = w.pending
    <2>1. \E v : writer' = [writer EXCEPT ![d] = v]
      BY DEF CommitBatch
    <2>2. r.at = "written" /\ r.next = w.next /\ r.pending = w.pending
      BY <1>1, <1>3, <1>5 DEF CommitBatch
    <2> QED
      BY <1>3, <1>5, <2>1, <2>2
  <1>7. Written(r) = Done(w) \union w.pending /\ Written(w) = Done(w)
    BY <1>2, <1>6 DEF Written, Done
  <1>8. (\A l \in w.pending : Sure(l)) /\ \A l \in Done(w) : Sure(l)
    BY <1>1, <1>2, <1>3, Progress DEF FlushOK, OrderInv, CountOK
  <1>9. w.pending \subseteq Lines /\ \A l \in w.pending : w.pending = Batch(l)
    BY <1>2, <1>3, WholeBatch DEF OrderInv
  <1>10. PICK lines \in SUBSET Lines : lines = Unique(w.pending) /\ lines \subseteq w.pending
    BY <1>9, PricedLines
  <1>11. \A l \in w.pending : Winner(l) <=> l \in lines
    <2>1. \A l \in lines : file[l].kind # "refused"
      BY <1>2, <1>10 DEF DataError
    <2> QED
      BY <1>9, <1>10, <2>1, PricedLines DEF Winner
  <1>12. ASSUME NEW l \in lines, NEW k \in Lines, Winner(k), k > l, file[k].sku = file[l].sku PROVE k \notin Written(r)
    <2>1. k \notin 1 .. w.next
      BY <1>2, <1>3, <1>10, <1>12, LaterBatch DEF OrderInv
    <2>2. Written(r) \subseteq 1 .. w.next
      BY <1>3, <1>7 DEF BatchOK, Done
    <2> QED
      BY <2>1, <2>2
  <1>13. products' = Upserted(lines)
    BY <1>2, <1>10
  <1>14. \A l \in Written(r) : Sure(l)
    BY <1>7, <1>8
  <1>15. \A l \in Lines : Sure(l) /\ Winner(l) => (l \in Written(r) <=> l \in Written(writer[d]) \union lines)
    BY <1>1, <1>7, <1>10, <1>11
  <1>16. Active(d) /\ r.at # "idle" /\ \A l \in lines : Sure(l) /\ Winner(l)
    BY <1>1, <1>2, <1>6, <1>8, <1>10, <1>11 DEF Active
  <1> QED
    BY <1>2, <1>3, <1>6, <1>12, <1>13, <1>14, <1>15, <1>16, WritesLines

\* One of them is written, or refused.
LEMMA WriteRowOrder ==
    ASSUME OrderInv, NEW d \in Delivery, NEW l \in LineNo, WriteRow(d, l)
    PROVE  ProductsOK' /\ SoloOK' /\ OrderOK'
  <1>1. PICK w \in WriterState : w = writer[d]
    BY WriterTyped DEF OrderInv, Inv
  <1>2. /\ w.at = "rows" /\ l \in w.todo
        /\ products' = IF file[l].kind = "refused" THEN products ELSE Upserted({l})
        /\ UNCHANGED <<file, categories, chunk, deaths, overlapped>>
    BY <1>1 DEF WriteRow
  <1>3. BatchOK(w) /\ FlushOK(w) /\ Grown /\ writer \in [Delivery -> WriterState]
    BY <1>1, <1>2, Progress, OtherVars, NothingGrows DEF OrderInv
  <1>4. Inv'
    BY WriteRowStep DEF OrderInv
  <1>5. PICK r \in WriterState : r = writer'[d]
    BY <1>4 DEF Inv, TypeOK
  <1>6. /\ writer' = [writer EXCEPT ![d] = r] /\ r.at = "rows" /\ r.next = w.next /\ r.pending = w.pending
        /\ r.todo = w.todo \ {l}
    <2>1. \E v : writer' = [writer EXCEPT ![d] = v]
      BY DEF WriteRow
    <2>2. r.at = "rows" /\ r.next = w.next /\ r.pending = w.pending /\ r.todo = w.todo \ {l}
      <3>1. CASE file[l].kind = "refused"
        <4>1. writer' = [writer EXCEPT ![d] = [w EXCEPT !.todo = w.todo \ {l}, !.refused = w.refused \union {l}]]
          BY <1>1, <3>1 DEF WriteRow
        <4> QED
          BY <1>2, <1>3, <1>5, <4>1 DEF WriterState
      <3>2. CASE file[l].kind # "refused"
        <4>1. writer' = [writer EXCEPT ![d] = [w EXCEPT !.todo = w.todo \ {l}]]
          BY <1>1, <3>2 DEF WriteRow
        <4> QED
          BY <1>2, <1>3, <1>5, <4>1 DEF WriterState
      <3> QED
        BY <3>1, <3>2
    <2> QED
      BY <1>3, <1>5, <2>1, <2>2
  <1>7. w.pending \subseteq Lines /\ \A k \in w.pending : w.pending = Batch(k)
    BY <1>2, <1>3, WholeBatch DEF OrderInv
  <1>8. l \in Unique(w.pending) /\ l \in w.pending /\ l \in Lines
    BY <1>2, <1>3, <1>7, PricedLines DEF FlushOK
  <1>9. Written(r) = Written(w) \union {l}
    BY <1>2, <1>6, <1>8 DEF Written, Done
  <1>10. \A k \in Written(r) : Sure(k)
    <2>1. \A k \in Written(w) : Sure(k)
      BY <1>1, <1>2, WrittenSure DEF OrderInv, Active
    <2>2. Sure(l)
      BY <1>2, <1>3, <1>8 DEF FlushOK
    <2> QED
      BY <1>9, <2>1, <2>2
  <1>11. CASE file[l].kind = "refused"
    <2>1. ~Winner(l) /\ products' = products
      BY <1>2, <1>11 DEF Winner
    <2> QED
      BY <1>1, <1>2, <1>3, <1>6, <1>9, <1>10, <2>1, WritesNothing DEF Active
  <1>12. CASE file[l].kind # "refused"
    <2>1. PICK lines \in SUBSET Lines : lines = {l}
      BY <1>8
    <2>2. Winner(l)
      BY <1>7, <1>8, <1>12, PricedLines DEF Winner
    <2>3. ASSUME NEW x \in lines, NEW k \in Lines, Winner(k), k > x, file[k].sku = file[x].sku PROVE k \notin Written(r)
      <3>1. k \notin 1 .. w.next
        BY <1>2, <1>3, <1>8, <2>1, <2>3, LaterBatch DEF OrderInv
      <3>2. Written(r) \subseteq 1 .. w.next
        BY <1>3, <1>6 DEF BatchOK, Done, Written
      <3> QED
        BY <3>1, <3>2
    <2>4. products' = Upserted(lines) /\ \A x \in lines : Sure(x) /\ Winner(x)
      BY <1>2, <1>9, <1>10, <1>12, <2>1, <2>2
    <2>5. Written(r) = Written(writer[d]) \union lines
      BY <1>1, <1>9, <2>1
    <2>6. Active(d) /\ r.at # "idle"
      BY <1>1, <1>2, <1>6 DEF Active
    <2> QED
      BY <1>2, <1>3, <1>6, <1>10, <2>3, <2>4, <2>5, <2>6, WritesLines
  <1> QED
    BY <1>11, <1>12


\* No product is written.
LEMMA ProductsStay ==
    ASSUME OrderInv, Grown, products' = products
    PROVE  ProductsOK'
  <1>1. file' = file /\ Lines' = Lines /\ TypeOK /\ ProductsOK
    BY OtherVars DEF OrderInv, Grown, Lines
  <1> SUFFICES ASSUME NEW s \in Sku, NEW l \in LineNo, products[s] = l
               PROVE  l \in Lines /\ file[l].sku = s /\ Sure(l)' /\ Winner(l)'
    BY <1>1 DEF ProductsOK
  <1>2. l \in Lines /\ file[l].sku = s /\ Sure(l) /\ Winner(l)
    BY <1>1 DEF ProductsOK
  <1> QED
    BY <1>1, <1>2, WinnerStays

\* A delivery starts with every line to write.
LEMMA BeginOrder ==
    ASSUME OrderInv, NEW d \in Delivery, Begin(d)
    PROVE  ProductsOK' /\ SoloOK' /\ OrderOK'
  <1>1. /\ writer[d].at = "idle" /\ ~chunk.completed
        /\ writer' = [writer EXCEPT ![d] = [Idle EXCEPT !.at = "reading"]]
        /\ overlapped' = (overlapped \/ \E o \in Delivery : writer[o].at # "idle")
        /\ UNCHANGED <<file, categories, products, recorded, chunk, deaths>>
    BY DEF Begin
  <1>2. Grown /\ writer \in [Delivery -> WriterState] /\ SoloOK
    BY <1>1, NothingGrows, OtherVars DEF OrderInv
  <1>3. ProductsOK'
    BY <1>1, <1>2, ProductsStay
  <1>4. /\ writer'[d].at = "reading" /\ writer'[d].next = 0 /\ \A x \in Delivery : x # d => writer'[x] = writer[x]
    BY <1>1, <1>2 DEF Idle
  <1>5. SoloOK'
    BY <1>1, <1>4 DEF SoloOK, Active
  <1>6. \A l \in Lines : Owed(l)'
    <2>1. Written(writer'[d]) = {}
      BY <1>4 DEF Written, Done
    <2> QED
      BY <1>4, <2>1 DEF Owed, Active, Written, Done
  <1>7. OrderOK'
    BY <1>1, <1>6 DEF OrderOK, Lines
  <1> QED
    BY <1>3, <1>5, <1>7

\* A delivery that completes the chunk has written every line.
LEMMA CompleteOrder ==
    ASSUME OrderInv, NEW d \in Delivery, Complete(d)
    PROVE  ProductsOK' /\ SoloOK' /\ OrderOK'
  <1>1. /\ writer[d].at = "reading" /\ writer[d].next = Len(file) /\ writer[d].pending = {}
        /\ writer' = [writer EXCEPT ![d] = Idle]
        /\ UNCHANGED <<file, categories, products, recorded, deaths, overlapped>>
    BY DEF Complete
  <1>2. Grown /\ writer \in [Delivery -> WriterState] /\ SoloOK /\ OrderOK /\ TypeOK
    BY <1>1, NothingGrows, OtherVars DEF OrderInv
  <1>3. ProductsOK'
    BY <1>1, <1>2, ProductsStay
  <1>4. writer'[d].at = "idle" /\ \A x \in Delivery : x # d => writer'[x] = writer[x]
    BY <1>1, <1>2 DEF Idle
  <1>5. SoloOK'
    BY <1>1, <1>2, <1>4 DEF SoloOK, Active
  <1>6. Active(d) /\ Written(writer[d]) = Lines
    BY <1>1 DEF Written, Done, Lines, Active
  <1>7. OrderOK'
    <2> SUFFICES ASSUME overlapped => deaths = 0, NEW l \in Lines, Sure(l)', Winner(l)'
                 PROVE  products[file[l].sku] >= l \/ Owed(l)'
      BY <1>1 DEF OrderOK, Lines
    <2>1. Sure(l) /\ Winner(l)
      <3>1. Sure(l)
        BY <1>6, WrittenSure DEF OrderInv
      <3> QED
        BY <1>2, <3>1, WinnerStays
    <2>2. Reached(l)
      BY <1>6 DEF Reached
    <2>3. products[file[l].sku] >= l \/ Owed(l)
      BY <1>2, <2>1, <2>2 DEF OrderOK
    <2>4. Owed(l) => Owed(l)'
      <3> SUFFICES ASSUME NEW x \in Delivery, Active(x), l \notin Written(writer[x]) PROVE Owed(l)'
        BY DEF Owed
      <3>1. x # d
        BY <1>6
      <3> QED
        BY <1>4, <3>1 DEF Owed, Active, Written, Done
    <2> QED
      BY <2>3, <2>4
  <1> QED
    BY <1>3, <1>5, <1>7

\* A delivery that dies alone leaves a chunk that is not completed.
LEMMA DiesOrder ==
    ASSUME OrderInv, NEW d \in Delivery, Dies(d)
    PROVE  ProductsOK' /\ SoloOK' /\ OrderOK'
  <1>1. /\ writer[d].at # "idle" /\ deaths' = deaths + 1 /\ writer' = [writer EXCEPT ![d] = Idle]
        /\ UNCHANGED <<file, categories, products, recorded, chunk, overlapped>>
    BY DEF Dies
  <1>2. Grown /\ writer \in [Delivery -> WriterState] /\ SoloOK /\ deaths \in Nat
    BY <1>1, NothingGrows, OtherVars, Limits DEF OrderInv
  <1>3. ProductsOK'
    BY <1>1, <1>2, ProductsStay
  <1>4. writer'[d].at = "idle" /\ \A x \in Delivery : x # d => writer'[x] = writer[x]
    BY <1>1, <1>2 DEF Idle
  <1>5. SoloOK'
    BY <1>1, <1>2, <1>4 DEF SoloOK, Active
  <1>6. OrderOK'
    <2>1. deaths' # 0
      BY <1>1, <1>2
    <2> SUFFICES ASSUME ~overlapped, NEW l \in Lines, Reached(l)' PROVE FALSE
      BY <1>1, <2>1 DEF OrderOK, Lines
    <2>2. ~chunk.completed /\ \A x \in Delivery : Active(x) => x = d
      BY <1>1, <1>2 DEF SoloOK, Active
    <2>3. \A x \in Delivery : ~Active(x)'
      BY <1>4, <2>2 DEF Active
    <2> QED
      BY <1>1, <2>2, <2>3 DEF Reached
  <1> QED
    BY <1>3, <1>5, <1>6

\* A category that another chunk inserts settles lines that nobody has come to yet.
LEMMA OtherOrder ==
    ASSUME OrderInv, Grown, UNCHANGED <<products, chunk, writer, deaths, overlapped>>
    PROVE  ProductsOK' /\ SoloOK' /\ OrderOK'
  <1>1. ProductsOK'
    BY ProductsStay
  <1>2. SoloOK'
    BY DEF OrderInv, SoloOK, Active
  <1>3. \A l : (Reached(l)' <=> Reached(l)) /\ (Owed(l)' <=> Owed(l))
    BY DEF Reached, Owed, Active, Written, Done
  <1>4. OrderOK'
    <2>1. file' = file /\ Lines' = Lines /\ TypeOK
      BY OtherVars DEF OrderInv, Grown, Lines
    <2> SUFFICES ASSUME overlapped => deaths = 0, NEW l \in Lines, Winner(l)', Reached(l)
                 PROVE  products[file[l].sku] >= l \/ Owed(l)
      BY <1>3, <2>1 DEF OrderOK
    <2>2. Sure(l)
      BY WrittenSure DEF OrderInv, Reached, Inv, ChunkOK
    <2>3. Winner(l)
      BY <2>1, <2>2, WinnerStays
    <2> QED
      BY <2>2, <2>3 DEF OrderInv, OrderOK
  <1> QED
    BY <1>1, <1>2, <1>4

LEMMA OrderNext ==
    ASSUME OrderInv, [Next]_vars
    PROVE  OrderInv'
  <1>1. Inv'
    BY InvNext DEF OrderInv
  <1>2. CASE UNCHANGED vars
    <2>1. Grown
      BY <1>2, NothingGrows, OtherVars DEF OrderInv, vars
    <2> QED
      BY <1>1, <1>2, <2>1, OtherOrder DEF OrderInv, vars
  <1>3. ASSUME NEW d \in Delivery, DeliveryStep(d) PROVE OrderInv'
    BY <1>1, <1>3, BeginOrder, ReadingOrder, SettledOrder, BatchRefusedOrder, CommitBatchOrder, WriteRowOrder, CompleteOrder,
       DiesOrder DEF DeliveryStep, OrderInv
  <1>4. ASSUME NEW n \in Name, OtherChunk(n) PROVE OrderInv'
    <2>1. Grown
      BY <1>4, OtherVars DEF OtherChunk, Grown, OrderInv
    <2> QED
      BY <1>1, <1>4, <2>1, OtherOrder DEF OrderInv, OtherChunk
  <1> QED
    BY <1>2, <1>3, <1>4 DEF Next

LEMMA OrderInit == Init => OrderInv
  <1> SUFFICES ASSUME Init PROVE OrderInv
    OBVIOUS
  <1>1. \A d \in Delivery : ~Active(d)
    BY DEF Init, Idle, Active
  <1>2. ~chunk.completed /\ \A s \in Sku : \A l \in LineNo : products[s] # l
    BY DEF Init, LineNo
  <1>3. ProductsOK /\ SoloOK /\ OrderOK
    BY <1>1, <1>2 DEF ProductsOK, SoloOK, OrderOK, Reached
  <1> QED
    BY <1>3, InvInit DEF OrderInv

\* Of the lines of a batch that can be written for a SKU, the last is refused or wins.
LEMMA LastOfBatch ==
    ASSUME TypeOK, NEW s \in Sku, NEW l \in Writable(s)
    PROVE  \E k \in Batch(l) : /\ k >= l /\ file[k].sku = s
                               /\ Winner(k) \/ (k > l /\ file[k].kind = "refused")
  <1> DEFINE S == {k \in Batch(l) : k >= l /\ file[k].sku = s /\ Writes(k)}
  <1>1. l \in Lines /\ l \in S /\ file[l].kind = "good"
    BY InBatch, FileTyped DEF Writable, Writes, Valid, Malformed
  <1>2. S \subseteq Lines
    BY <1>1, InBatch
  <1>3. PICK k \in S : \A y \in S : k >= y
    <2>1. PICK n \in Nat : n = Len(file)
      BY FileTyped
    <2>2. \A x \in S : x \in Nat /\ x <= n
      BY <1>2, <2>1, FileTyped DEF Lines
    <2> DEFINE T == {n - x : x \in S}
    <2>3. T \in SUBSET Nat /\ T # {}
      BY <1>1, <2>2
    <2>4. PICK t \in T : \A y \in T : t <= y
      BY <2>3, FirstOf
    <2>5. PICK x \in S : t = n - x
      BY <2>4
    <2>6. \A y \in S : n - x <= n - y
      BY <2>4, <2>5
    <2> HIDE DEF S, T
    <2>7. \A y \in S : x >= y
      BY <2>2, <2>6
    <2> QED
      BY <2>7
  <1>4. k \in Batch(l) /\ k \in Lines /\ k >= l /\ file[k].sku = s /\ Writes(k)
    BY <1>2, <1>3
  <1>5. \A x \in Batch(k) : Writes(x) /\ x > k => file[x].sku # s
    <2> SUFFICES ASSUME NEW x \in Batch(k), Writes(x), x > k, file[x].sku = s PROVE FALSE
      OBVIOUS
    <2>1. x \in Batch(l) /\ x \in Lines
      BY <1>1, <1>4, InBatch
    <2>2. x \in Nat /\ k \in Nat /\ l \in Nat
      BY <1>1, <1>4, <2>1, FileTyped
    <2>3. x >= l
      BY <1>4, <2>2
    <2>4. x \in S
      BY <2>1, <2>3
    <2>5. k >= x
      BY <1>3, <2>4
    <2> QED
      BY <2>2, <2>5
  <1>6. CASE file[k].kind # "refused"
    BY <1>4, <1>5, <1>6 DEF Winner
  <1>7. CASE file[k].kind = "refused"
    <2>1. k # l /\ k \in Nat /\ l \in Nat
      BY <1>1, <1>4, <1>7, FileTyped
    <2>2. k > l
      BY <1>4, <2>1
    <2> QED
      BY <1>4, <1>7, <2>2
  <1> QED
    BY <1>6, <1>7

\* Once a chunk's deliveries have ended, a product's row is the one of its SKU's last good line
\* (see LastLineWins), whichever delivery wrote last and however often the rows were written.
THEOREM LastGoodLineWins == Spec => []LastLineWins
  <1>1. OrderInv => LastLineWins
    <2> SUFFICES ASSUME OrderInv, Quiet, overlapped => deaths = 0, NEW s \in Sku
                 PROVE  /\ products[s] \in Writable(s) \union {0}
                        /\ \A l \in Writable(s) :
                              \/ products[s] >= l
                              \/ \E k \in Lines : k > l /\ BatchOf(k) = BatchOf(l) /\ file[k].sku = s /\ file[k].kind = "refused"
      BY DEF LastLineWins
    <2>1. TypeOK /\ Inv /\ ProductsOK /\ OrderOK
      BY OtherVars DEF OrderInv
    <2>2. products[s] \in Writable(s) \union {0}
      <3>1. PICK p \in 0 .. MaxRows : p = products[s]
        BY <2>1, OtherVars
      <3> SUFFICES ASSUME p # 0 PROVE p \in Writable(s)
        BY <3>1
      <3>2. p \in LineNo
        BY Limits DEF LineNo
      <3>3. p \in Lines /\ file[p].sku = s /\ Winner(p)
        BY <2>1, <3>1, <3>2 DEF ProductsOK
      <3>4. file[p].kind = "good"
        BY <2>1, <3>3, FileTyped DEF Winner, Writes, Valid, Kind, Malformed
      <3> QED
        BY <3>3, <3>4 DEF Writable, Winner, Writes
    <2>3. ASSUME NEW l \in Writable(s)
          PROVE  \/ products[s] >= l
                 \/ \E k \in Lines : k > l /\ BatchOf(k) = BatchOf(l) /\ file[k].sku = s /\ file[k].kind = "refused"
      <3>1. PICK k \in Batch(l) : /\ k >= l /\ file[k].sku = s
                                  /\ Winner(k) \/ (k > l /\ file[k].kind = "refused")
        BY <2>1, LastOfBatch
      <3>2. k \in Lines /\ BatchOf(k) = BatchOf(l)
        BY DEF Batch
      <3>3. CASE Winner(k)
        <4>1. Sure(k) /\ Reached(k) /\ ~Owed(k)
          BY <2>1, <3>2 DEF Quiet, Inv, ChunkOK, Reached, Owed, Active
        <4>2. products[s] >= k
          BY <2>1, <3>1, <3>2, <3>3, <4>1 DEF OrderOK
        <4>3. PICK p \in Nat : p = products[s]
          BY <2>1, OtherVars, Limits
        <4>4. k \in Nat /\ l \in Nat
          BY <2>1, <3>2, FileTyped DEF Writable
        <4>5. p >= l
          BY <3>1, <4>2, <4>3, <4>4
        <4> QED
          BY <4>3, <4>5
      <3>4. CASE k > l /\ file[k].kind = "refused"
        BY <3>1, <3>2, <3>4
      <3> QED
        BY <3>1, <3>3, <3>4
    <2> QED
      BY <2>2, <2>3
  <1>2. OrderInv /\ [Next]_vars => OrderInv'
    BY OrderNext
  <1> QED
    BY <1>1, <1>2, OrderInit, PTL DEF Spec
==============================================================================
