----------------------------- MODULE BatchWriter -----------------------------
(***************************************************************************)
(* What a chunk's lines become: processChunk hands its data lines to a     *)
(* BatchWriter, which rejects, prices and upserts them batch by batch,     *)
(* falls back to single rows when the database refuses a batch, and counts *)
(* what it did for the chunk row.                                          *)
(*                                                                         *)
(* A delivery may die between any two transactions; the chunk is then      *)
(* processed again from its first line, by a writer that counts from 0.    *)
(* Two deliveries may overlap. A product's row is the number of the line   *)
(* that wrote it. Other chunks insert categories; that they write the same *)
(* SKUs is left out (the last commit wins), and so is what is published    *)
(* after a batch (see CatalogCache and StockCounters).                     *)
(***************************************************************************)
EXTENDS Naturals, Sequences, FiniteSets

CONSTANTS
    Delivery,   \* bound: deliveries of the chunk's message at the same time
    Row,        \* bound: the rows looked at
    Slug,       \* slugify, for the category names of these rows
    BatchSize,  \* upsertBatchSize
    MaxRows,    \* bound: data lines of the chunk
    MaxDeaths   \* bound: deliveries that die

\* What becomes of a row: it does not parse (and a "garbled" one has a text that the
\* database refuses to store as a rejection), it fails validation, the products table
\* refuses it, or nothing is wrong.
Malformed == {"malformed", "garbled"}
Kind == Malformed \union {"invalid", "refused", "good"}

ASSUME RowsAssumption ==
    /\ \A r \in Row : r.kind \in Kind /\ r.name \in DOMAIN Slug
    /\ MaxRows \in Nat /\ MaxDeaths \in Nat /\ BatchSize \in Nat \ {0}

Sku == {r.sku : r \in Row}
Name == DOMAIN Slug
LineNo == 1 .. MaxRows

VARIABLES
    file,        \* the chunk's data lines
    categories,  \* the categories table: names
    products,    \* by SKU, the line its row was written from, 0 without one
    recorded,    \* the rejections table: line numbers
    chunk,       \* the chunk row
    writer,      \* the deliveries' progress
    deaths,
    overlapped   \* history: two deliveries processed the chunk at the same time

vars == <<file, categories, products, recorded, chunk, writer, deaths, overlapped>>

\* next: lines read; pending: the batch; todo: unique rows or rejections to write one
\* by one; refused: the database's refusals.
WriterState == [at : {"idle", "reading", "flushing", "priced", "rows", "recording", "written"},
                next : 0 .. MaxRows, pending : SUBSET LineNo, todo : SUBSET LineNo,
                refused : SUBSET LineNo, processed : 0 .. MaxRows, rejected : 0 .. MaxRows]
Idle == [at |-> "idle", next |-> 0, pending |-> {}, todo |-> {}, refused |-> {}, processed |-> 0, rejected |-> 0]

TypeOK ==
    /\ file \in Seq(Row) /\ Len(file) <= MaxRows
    /\ categories \in SUBSET Name
    /\ products \in [Sku -> 0 .. MaxRows]
    /\ recorded \in SUBSET LineNo
    /\ chunk \in [completed : BOOLEAN, processed : 0 .. MaxRows, rejected : 0 .. MaxRows]
    /\ writer \in [Delivery -> WriterState]
    /\ deaths \in 0 .. MaxDeaths
    /\ overlapped \in BOOLEAN

Init ==
    /\ file \in UNION {[1 .. n -> Row] : n \in 0 .. MaxRows}
    /\ categories = {}
    /\ products = [s \in Sku |-> 0]
    /\ recorded = {}
    /\ chunk = [completed |-> FALSE, processed |-> 0, rejected |-> 0]
    /\ writer = [d \in Delivery |-> Idle]
    /\ deaths = 0
    /\ overlapped = FALSE

-----------------------------------------------------------------------------
(* A delivery reads lines into a batch. *)

\* The chunk is claimed, unless it is completed.
Begin(d) ==
    /\ writer[d].at = "idle"
    /\ ~chunk.completed
    /\ writer' = [writer EXCEPT ![d] = [Idle EXCEPT !.at = "reading"]]
    /\ overlapped' = (overlapped \/ \E o \in Delivery : writer[o].at # "idle")
    /\ UNCHANGED <<file, categories, products, recorded, chunk, deaths>>

Full(lines) == Cardinality(lines) >= BatchSize

\* add: the next data line joins the batch, which is flushed when it is full.
Add(d) ==
    LET lines == writer[d].pending \union {writer[d].next + 1} IN
    /\ writer[d].at = "reading"
    /\ writer[d].next < Len(file)
    /\ writer' = [writer EXCEPT ![d].next = @ + 1, ![d].pending = lines,
                                ![d].at = IF Full(lines) THEN "flushing" ELSE "reading"]
    /\ UNCHANGED <<file, categories, products, recorded, chunk, deaths, overlapped>>

\* The last flush, of a batch that did not fill up.
LastFlush(d) ==
    /\ writer[d].at = "reading"
    /\ writer[d].next = Len(file)
    /\ writer[d].pending # {}
    /\ writer' = [writer EXCEPT ![d].at = "flushing"]
    /\ UNCHANGED <<file, categories, products, recorded, chunk, deaths, overlapped>>

-----------------------------------------------------------------------------
(* flush. *)

Taken == {Slug[n] : n \in categories}

\* The rows that passed validation: what priceVendorRow rejects does not depend on the
\* category's pricing, so that its second call, with that pricing, rejects no more.
Validated(lines) == {l \in lines : file[l].kind \notin Malformed \union {"invalid"}}

\* ensureCategories: of the names with one slug the first is inserted, unless the slug
\* is taken.
Inserted(lines) ==
    {file[l].name : l \in {k \in Validated(lines) :
        /\ Slug[file[k].name] \notin Taken
        /\ \A e \in Validated(lines) : e < k => Slug[file[e].name] # Slug[file[k].name]}}

Prepare(d) ==
    /\ writer[d].at = "flushing"
    /\ categories' = categories \union Inserted(writer[d].pending)
    /\ writer' = [writer EXCEPT ![d].at = "priced"]
    /\ UNCHANGED <<file, products, recorded, chunk, deaths, overlapped>>

\* The rows to write, and those rejected: malformed, invalid, or of a category
\* whose slug belongs to another.
Priced(lines) == {l \in Validated(lines) : file[l].name \in categories}
Rejected(lines) == lines \ Priced(lines)

\* Mutant: the first occurrence of a SKU is kept.
UniqueFirst(lines) == {l \in Priced(lines) : \A k \in Priced(lines) : k < l => file[k].sku # file[l].sku}

\* The last occurrence of every SKU.
Unique(lines) == {l \in Priced(lines) : \A k \in Priced(lines) : k > l => file[k].sku # file[l].sku}

\* The products table after these rows, of distinct SKUs.
Upserted(lines) ==
    [s \in Sku |-> IF \E l \in lines : file[l].sku = s
                   THEN CHOOSE l \in lines : file[l].sku = s
                   ELSE products[s]]

Storable(lines) == {l \in lines : file[l].kind # "garbled"}

DataError(lines) ==
    \/ \E l \in Unique(lines) : file[l].kind = "refused"
    \/ Rejected(lines) # Storable(Rejected(lines))

\* The batch's transaction: rows and rejections together.
CommitBatch(d) ==
    LET lines == writer[d].pending IN
    /\ writer[d].at = "priced"
    /\ ~DataError(lines)
    /\ products' = Upserted(Unique(lines))
    /\ recorded' = recorded \union Rejected(lines)
    /\ writer' = [writer EXCEPT ![d].at = "written"]
    /\ UNCHANGED <<file, categories, chunk, deaths, overlapped>>

\* The transaction is rolled back by a data error: row by row from here.
BatchRefused(d) ==
    /\ writer[d].at = "priced"
    /\ DataError(writer[d].pending)
    /\ writer' = [writer EXCEPT ![d].at = "rows", ![d].todo = Unique(writer[d].pending)]
    /\ UNCHANGED <<file, categories, products, recorded, chunk, deaths, overlapped>>

\* writeRowByRow: a row in a transaction of its own.
WriteRow(d, l) ==
    /\ writer[d].at = "rows"
    /\ l \in writer[d].todo
    /\ IF file[l].kind = "refused"
       THEN /\ writer' = [writer EXCEPT ![d].todo = @ \ {l}, ![d].refused = @ \union {l}]
            /\ UNCHANGED products
       ELSE /\ writer' = [writer EXCEPT ![d].todo = @ \ {l}]
            /\ products' = Upserted({l})
    /\ UNCHANGED <<file, categories, recorded, chunk, deaths, overlapped>>

\* Mutant: only the validation's rejections are recorded after a fallback.
RecordsValidation(w) == Rejected(w.pending)

ToRecord(w) == Rejected(w.pending) \union w.refused

RowsDone(d) ==
    /\ writer[d].at = "rows"
    /\ writer[d].todo = {}
    /\ writer' = [writer EXCEPT ![d].at = "recording", ![d].todo = ToRecord(writer[d])]
    /\ UNCHANGED <<file, categories, products, recorded, chunk, deaths, overlapped>>

\* insertRejectionBestEffort: a rejection that the database refuses is only logged.
Record(d, l) ==
    /\ writer[d].at = "recording"
    /\ l \in writer[d].todo
    /\ recorded' = recorded \union Storable({l})
    /\ writer' = [writer EXCEPT ![d].todo = @ \ {l}]
    /\ UNCHANGED <<file, categories, products, chunk, deaths, overlapped>>

RecordingDone(d) ==
    /\ writer[d].at = "recording"
    /\ writer[d].todo = {}
    /\ writer' = [writer EXCEPT ![d].at = "written"]
    /\ UNCHANGED <<file, categories, products, recorded, chunk, deaths, overlapped>>

\* Mutant: the batch is not emptied.
KeepsBatch(w) == w.pending

\* flush takes the batch away.
NextBatch(w) == {}

\* The batch's processed rows; a superseded row is one.
Processed(w) == Cardinality(Priced(w.pending)) - Cardinality(w.refused)

Count(d) ==
    LET w == writer[d] IN
    /\ w.at = "written"
    /\ writer' = [writer EXCEPT ![d] =
                     [w EXCEPT !.at = "reading", !.pending = NextBatch(w), !.refused = {},
                               !.processed = @ + Processed(w),
                               !.rejected = @ + Cardinality(Rejected(w.pending)) + Cardinality(w.refused)]]
    /\ UNCHANGED <<file, categories, products, recorded, chunk, deaths, overlapped>>

-----------------------------------------------------------------------------

\* markChunkCompleted with this delivery's counts, if no other was first.
Complete(d) ==
    /\ writer[d].at = "reading"
    /\ writer[d].next = Len(file)
    /\ writer[d].pending = {}
    /\ chunk' = IF chunk.completed THEN chunk
                ELSE [completed |-> TRUE, processed |-> writer[d].processed, rejected |-> writer[d].rejected]
    /\ writer' = [writer EXCEPT ![d] = Idle]
    /\ UNCHANGED <<file, categories, products, recorded, deaths, overlapped>>

\* The worker is killed, or a transaction fails for another reason than its data.
Dies(d) ==
    /\ writer[d].at # "idle"
    /\ deaths < MaxDeaths
    /\ deaths' = deaths + 1
    /\ writer' = [writer EXCEPT ![d] = Idle]
    /\ UNCHANGED <<file, categories, products, recorded, chunk, overlapped>>

\* Another chunk's batch inserts a category.
OtherChunk(n) ==
    /\ Slug[n] \notin Taken
    /\ categories' = categories \union {n}
    /\ UNCHANGED <<file, products, recorded, chunk, writer, deaths, overlapped>>

DeliveryStep(d) ==
    \/ Begin(d) \/ Add(d) \/ LastFlush(d) \/ Prepare(d) \/ CommitBatch(d) \/ BatchRefused(d)
    \/ RowsDone(d) \/ RecordingDone(d) \/ Count(d) \/ Complete(d) \/ Dies(d)
    \/ \E l \in LineNo : WriteRow(d, l) \/ Record(d, l)

Next == (\E d \in Delivery : DeliveryStep(d)) \/ (\E n \in Name : OtherChunk(n))

Spec == Init /\ [][Next]_vars

-----------------------------------------------------------------------------
(* Properties. *)

Lines == 1 .. Len(file)
BatchOf(l) == (l - 1) \div BatchSize
Quiet == chunk.completed /\ \A d \in Delivery : writer[d].at = "idle"

\* A completed chunk has counted every data line once, as processed or as rejected, and
\* has a rejection row for each rejected line (but for a text that cannot be stored) and
\* for no other: through fallbacks, deaths half-way, repeated and overlapping
\* deliveries, and categories that other chunks insert meanwhile.
CountsMatchTables ==
    chunk.completed =>
        /\ chunk.processed + chunk.rejected = Len(file)
        /\ chunk.rejected = Cardinality(recorded) + Cardinality({l \in Lines : file[l].kind = "garbled"})

\* The lines of a SKU that can be written.
Writable(s) == {l \in Lines : file[l].sku = s /\ file[l].kind = "good" /\ file[l].name \in categories}

\* Once the chunk is completed and its deliveries have ended, a SKU's row comes from its
\* last good line: not from an earlier one that a repeated delivery wrote again, and not
\* from a rejected one. The exceptions: a line superseded, within its batch, by one the
\* database then refused, and an overlapping delivery that died half-way.
LastLineWins ==
    Quiet /\ (overlapped => deaths = 0) => \A s \in Sku :
        /\ products[s] \in Writable(s) \union {0}
        /\ \A l \in Writable(s) :
              \/ products[s] >= l
              \/ \E k \in Lines : k > l /\ BatchOf(k) = BatchOf(l) /\ file[k].sku = s /\ file[k].kind = "refused"
=============================================================================
