---------------------------- MODULE IngestionJob ----------------------------
(***************************************************************************)
(* One vendor-file ingestion job: the S3 upload event, the splitter, the   *)
(* chunk queue with its dead-letter queue, the chunk workers and the two   *)
(* Postgres tables (ingestion_jobs, ingestion_chunks) they share.          *)
(*                                                                         *)
(* A handler invocation is killed or throws between any two of its steps;  *)
(* a message is deleted only after its handler resolved; a message that    *)
(* was received MaxReceives times is moved to the dead-letter queue.       *)
(* What a worker writes to products, stock counters and cache versions is  *)
(* not part of this module: here a chunk's work is its two row counts.     *)
(***************************************************************************)
EXTENDS Naturals, FiniteSets

CONSTANTS
    MaxChunks,    \* bound: chunks of the largest upload
    Lines,        \* data lines of a chunk
    MaxReceives,  \* the chunk queue's maxReceiveCount
    MaxUploads,   \* bound: times the object is PUT under the job's key
    MaxCopies,    \* bound: copies the queue makes of messages (at-least-once delivery)
    MsgId,        \* bound: chunk messages that exist at the same time
    EventId,      \* bound: S3 events that exist at the same time
    SplitParks    \* TRUE when the event source gives up on a failing splitter

ASSUME BoundsAssumption ==
    /\ MaxChunks \in Nat
    /\ Lines \in Nat
    /\ MaxReceives \in Nat \ {0}
    /\ MaxUploads \in Nat
    /\ MaxCopies \in Nat
    /\ SplitParks \in BOOLEAN

VARIABLES
    uploads,  \* how often the object was PUT
    size,     \* chunks of the object now in the bucket
    job,      \* the ingestion_jobs row
    chunk,    \* the ingestion_chunks rows, by chunk index
    msg,      \* the chunk messages, each with the invocation handling it
    event,    \* the S3 events, each with the splitter invocation handling it
    copies    \* copies the queue has made so far

vars == <<uploads, size, job, chunk, msg, event, copies>>

Chunk == 0 .. MaxChunks - 1

\* A row that was not inserted yet has status "absent".
ChunkStatus == {"absent", "pending", "processing", "completed", "failed"}
FinalChunk == {"completed", "failed"}
OpenChunk == {"pending", "processing"}

Splittable == {"pending", "splitting", "processing"}
FinalJob == {"completed", "failed"}

ChunkRow == [status : ChunkStatus, processed : Nat, rejected : Nat]

JobRow == [status : Splittable \union FinalJob, total : Nat, completed : Nat,
           failed : Nat, processed : Nat, rejected : Nat]

\* Where a chunk message is. "received" .. "written" are the points a worker
\* invocation has reached; after "done" only the delete is left; a "dead"
\* invocation left its message to the visibility timeout.
Running == {"received", "read", "claimed", "written"}
MsgAt == {"free", "queued", "done", "dead", "dlq", "dlqdone"} \union Running
Message == [at : MsgAt, chunk : Chunk \union {MaxChunks}, receives : 0 .. MaxReceives, rejected : 0 .. Lines]

\* A message slot holding no message.
NoMessage == [at |-> "free", chunk |-> MaxChunks, receives |-> 0, rejected |-> 0]

Splitting == {"headed", "committed", "sending"}
EventAt == {"free", "queued", "parked"} \union Splitting
Event == [at : EventAt, size : 0 .. MaxChunks, toSend : SUBSET Chunk]
NoEvent == [at |-> "free", size |-> 0, toSend |-> {}]

TypeOK ==
    /\ uploads \in 0 .. MaxUploads
    /\ size \in 0 .. MaxChunks
    /\ job \in JobRow
    /\ chunk \in [Chunk -> ChunkRow]
    /\ msg \in [MsgId -> Message]
    /\ event \in [EventId -> Event]
    /\ copies \in 0 .. MaxCopies

Init ==
    /\ uploads = 0
    /\ size = 0
    /\ job = [status |-> "pending", total |-> 0, completed |-> 0, failed |-> 0,
              processed |-> 0, rejected |-> 0]
    /\ chunk = [c \in Chunk |-> [status |-> "absent", processed |-> 0, rejected |-> 0]]
    /\ msg = [m \in MsgId |-> NoMessage]
    /\ event = [e \in EventId |-> NoEvent]
    /\ copies = 0

-----------------------------------------------------------------------------
(* The bucket and its notifications. *)

\* The client PUTs the object under the presigned URL of the job; S3 emits an
\* event for it.
Upload(e, n) ==
    /\ uploads < MaxUploads
    /\ event[e].at = "free"
    /\ uploads' = uploads + 1
    /\ size' = n
    /\ event' = [event EXCEPT ![e] = [NoEvent EXCEPT !.at = "queued"]]
    /\ UNCHANGED <<job, chunk, msg, copies>>

\* The event source delivers an event of an upload once more.
RedeliverEvent(e) ==
    /\ uploads > 0
    /\ event[e].at = "free"
    /\ event' = [event EXCEPT ![e] = [NoEvent EXCEPT !.at = "queued"]]
    /\ UNCHANGED <<uploads, size, job, chunk, msg, copies>>

-----------------------------------------------------------------------------
(* The splitter. *)

\* splitUpload reads the job and stops when it is finished (the event is
\* consumed); otherwise it takes the object's size from the HEAD request.
SplitHead(e) ==
    /\ event[e].at = "queued"
    /\ event' = [event EXCEPT ![e] =
                    IF job.status \in FinalJob
                    THEN NoEvent
                    ELSE [NoEvent EXCEPT !.at = "headed", !.size = size]]
    /\ UNCHANGED <<uploads, size, job, chunk, msg, copies>>

\* Mutant: the splitter's writes lose their status condition.
SplitAlwaysAllowed == FALSE

\* The status condition of every write of the splitter.
SplitRefused == job.status \notin Splittable

\* An empty file completes the job, unless it was finalized meanwhile.
SplitEmpty(e) ==
    /\ event[e].at = "headed"
    /\ event[e].size = 0
    /\ job' = IF SplitRefused THEN job
              ELSE [job EXCEPT !.status = "completed", !.total = 0]
    /\ event' = [event EXCEPT ![e] = NoEvent]
    /\ UNCHANGED <<uploads, size, chunk, msg, copies>>

\* The transaction that announces the chunks: the job row is written only
\* while it is splittable, existing chunk rows are kept.
SplitCommit(e) ==
    /\ event[e].at = "headed"
    /\ event[e].size > 0
    /\ ~SplitRefused
    /\ job' = [job EXCEPT !.status = "processing", !.total = event[e].size]
    /\ chunk' = [c \in Chunk |->
                    IF c < event[e].size /\ chunk[c].status = "absent"
                    THEN [chunk[c] EXCEPT !.status = "pending"]
                    ELSE chunk[c]]
    /\ event' = [event EXCEPT ![e].at = "committed"]
    /\ UNCHANGED <<uploads, size, msg, copies>>

\* The same transaction when the last chunk worker finalized the job first:
\* nothing is inserted and nothing is enqueued.
SplitRaced(e) ==
    /\ event[e].at = "headed"
    /\ event[e].size > 0
    /\ SplitRefused
    /\ event' = [event EXCEPT ![e] = NoEvent]
    /\ UNCHANGED <<uploads, size, job, chunk, msg, copies>>

\* After the commit: the chunks still pending are selected for enqueueing.
SplitSelect(e) ==
    /\ event[e].at = "committed"
    /\ event' = [event EXCEPT ![e].at = "sending",
                              ![e].toSend = {c \in Chunk : chunk[c].status = "pending"}]
    /\ UNCHANGED <<uploads, size, job, chunk, msg, copies>>

\* One entry of a SendMessageBatch takes effect.
SplitSend(e, c, m) ==
    /\ event[e].at = "sending"
    /\ c \in event[e].toSend
    /\ msg[m].at = "free"
    /\ msg' = [msg EXCEPT ![m] = [NoMessage EXCEPT !.at = "queued", !.chunk = c]]
    /\ event' = [event EXCEPT ![e].toSend = @ \ {c}]
    /\ UNCHANGED <<uploads, size, job, chunk, copies>>

\* Everything was sent: the handler resolves and its event is consumed.
SplitDone(e) ==
    /\ event[e].at = "sending"
    /\ event[e].toSend = {}
    /\ event' = [event EXCEPT ![e] = NoEvent]
    /\ UNCHANGED <<uploads, size, job, chunk, msg, copies>>

\* Mutant: the event is consumed before the split has succeeded.
AfterFailureConsumed == NoEvent

\* The invocation throws (an entry of the batch failed, a store is down), is
\* killed, or its event is not consumed in the end: the event is retried, or
\* parked in the failure queue when the event source has given up.
AfterFailure == [NoEvent EXCEPT !.at = "queued"]

SplitFail(e) ==
    /\ event[e].at \in Splitting
    /\ \/ event' = [event EXCEPT ![e] = AfterFailure]
       \/ /\ SplitParks
          /\ event' = [event EXCEPT ![e] = [NoEvent EXCEPT !.at = "parked"]]
    /\ UNCHANGED <<uploads, size, job, chunk, msg, copies>>

-----------------------------------------------------------------------------
(* The chunk queue and the worker, processChunk. *)

\* The queue hands a message to a worker invocation.
Receive(m) ==
    /\ msg[m].at = "queued"
    /\ msg' = [msg EXCEPT ![m].at = "received", ![m].receives = @ + 1]
    /\ UNCHANGED <<uploads, size, job, chunk, event, copies>>

\* The queue delivers a copy of a message (at-least-once delivery).
Duplicate(m, d) ==
    /\ msg[m].at = "queued"
    /\ msg[d].at = "free"
    /\ copies < MaxCopies
    /\ copies' = copies + 1
    /\ msg' = [msg EXCEPT ![d] = msg[m]]
    /\ UNCHANGED <<uploads, size, job, chunk, event>>

\* Mutant: a chunk another delivery is processing is skipped like a completed one.
AfterReadBusy(c) == IF chunk[c].status = "pending" THEN "read" ELSE "done"

\* The worker reads the chunk row and, unless the chunk completed, the job: a
\* completed chunk is skipped, a row that is not there makes it throw.
AfterRead(c) ==
    CASE chunk[c].status = "completed" -> "done"
      [] chunk[c].status = "absent" -> "dead"
      [] OTHER -> "read"

ReadChunk(m) ==
    /\ msg[m].at = "received"
    /\ msg' = [msg EXCEPT ![m].at = AfterRead(msg[m].chunk)]
    /\ UNCHANGED <<uploads, size, job, chunk, event, copies>>

\* Mutant: only a completed chunk refuses the claim.
ClaimRefusedByCompleted(c) == chunk[c].status = "completed"

\* The claim, which a finalized chunk refuses.
ClaimRefused(c) == chunk[c].status \in FinalChunk

Claim(m) ==
    LET c == msg[m].chunk IN
    /\ msg[m].at = "read"
    /\ IF ClaimRefused(c)
       THEN /\ msg' = [msg EXCEPT ![m].at = "done"]
            /\ UNCHANGED chunk
       ELSE /\ msg' = [msg EXCEPT ![m].at = "claimed"]
            /\ chunk' = [chunk EXCEPT ![c].status = "processing"]
    /\ UNCHANGED <<uploads, size, job, event, copies>>

\* Every owned line was written or rejected. Two deliveries of a chunk need not
\* agree: a category another chunk creates meanwhile changes which rows collide.
Process(m, r) ==
    /\ msg[m].at = "claimed"
    /\ msg' = [msg EXCEPT ![m].at = "written", ![m].rejected = r]
    /\ UNCHANGED <<uploads, size, job, chunk, event, copies>>

\* Mutant: the chunk update is unconditional.
CompletionUnguarded(c) == chunk[c].status = "absent"

\* markChunkCompleted's chunk update, and the rows that refuse it.
CompletionRefused(c) == chunk[c].status \in FinalChunk

CompletedRow(m) == [status |-> "completed", processed |-> Lines - msg[m].rejected,
                    rejected |-> msg[m].rejected]

\* Mutant: the count is compared for equality.
AllAccountedExactly(j) == j.completed + j.failed = j.total

AllAccounted(j) == j.completed + j.failed >= j.total

\* The job row once a chunk with these counts completed: counters first, then
\* the status when every chunk is accounted for.
AdvancedJob(row) ==
    LET counted == [job EXCEPT !.completed = @ + 1,
                               !.processed = @ + row.processed,
                               !.rejected = @ + row.rejected]
    IN  IF AllAccounted(counted)
        THEN [counted EXCEPT !.status = IF counted.failed > 0 THEN "failed" ELSE "completed"]
        ELSE counted

\* markChunkCompleted: one transaction, effective for the delivery that finds
\* the chunk not final.
MarkCompleted(m) ==
    LET c == msg[m].chunk IN
    /\ msg[m].at = "written"
    /\ IF CompletionRefused(c)
       THEN UNCHANGED <<chunk, job>>
       ELSE /\ chunk' = [chunk EXCEPT ![c] = CompletedRow(m)]
            /\ job' = AdvancedJob(CompletedRow(m))
    /\ msg' = [msg EXCEPT ![m].at = "done"]
    /\ UNCHANGED <<uploads, size, event, copies>>

\* The handler resolved and the message is deleted.
DeleteMessage(m) ==
    /\ msg[m].at = "done"
    /\ msg' = [msg EXCEPT ![m] = NoMessage]
    /\ UNCHANGED <<uploads, size, job, chunk, event, copies>>

\* The invocation is killed by its time limit or throws, in which case the catch
\* block leaves an error text on the chunk row, or the delete does not arrive.
WorkerDies(m) ==
    /\ msg[m].at \in Running \union {"done"}
    /\ msg' = [msg EXCEPT ![m].at = "dead"]
    /\ UNCHANGED <<uploads, size, job, chunk, event, copies>>

Exhausted(m) == msg[m].receives >= MaxReceives

\* The visibility timeout of a message whose invocation ended without a delete:
\* it is visible again, or dead-lettered at its last receive.
VisibilityTimeout(m) ==
    /\ msg[m].at = "dead"
    /\ msg' = [msg EXCEPT ![m].at = IF Exhausted(m) THEN "dlq" ELSE "queued",
                          ![m].rejected = 0]
    /\ UNCHANGED <<uploads, size, job, chunk, event, copies>>

-----------------------------------------------------------------------------
(* The dead-letter handler. *)

\* Mutant: the dead-letter handler counts the chunk and leaves the verdict to the last completion.
DeadLetteredJobWaiting == [job EXCEPT !.failed = @ + 1]

\* A failed chunk fails its job at once, whatever the job's status.
DeadLetteredJob == [job EXCEPT !.status = "failed", !.failed = @ + 1]

\* markChunkFailed: one transaction under the chunk's row lock, without effect on a
\* chunk that is final.
MarkFailed(m) ==
    LET c == msg[m].chunk IN
    /\ msg[m].at = "dlq"
    /\ IF chunk[c].status \in FinalChunk \union {"absent"}
       THEN UNCHANGED <<chunk, job>>
       ELSE /\ chunk' = [chunk EXCEPT ![c].status = "failed"]
            /\ job' = DeadLetteredJob
    /\ msg' = [msg EXCEPT ![m].at = "dlqdone"]
    /\ UNCHANGED <<uploads, size, event, copies>>

\* The dead letter is deleted, or delivered once more because the handler died
\* after its transaction.
DeleteDeadLetter(m) ==
    /\ msg[m].at = "dlqdone"
    /\ msg' = [msg EXCEPT ![m] = NoMessage]
    /\ UNCHANGED <<uploads, size, job, chunk, event, copies>>

RedeliverDeadLetter(m) ==
    /\ msg[m].at = "dlqdone"
    /\ msg' = [msg EXCEPT ![m].at = "dlq"]
    /\ UNCHANGED <<uploads, size, job, chunk, event, copies>>

-----------------------------------------------------------------------------

Bucket(e) == RedeliverEvent(e) \/ \E n \in 0 .. MaxChunks : Upload(e, n)

Splitter(e) ==
    \/ SplitHead(e) \/ SplitEmpty(e) \/ SplitCommit(e) \/ SplitRaced(e)
    \/ SplitSelect(e) \/ SplitDone(e) \/ SplitFail(e)
    \/ \E c \in Chunk, m \in MsgId : SplitSend(e, c, m)

Worker(m) ==
    \/ Receive(m) \/ ReadChunk(m) \/ Claim(m) \/ MarkCompleted(m)
    \/ DeleteMessage(m) \/ WorkerDies(m) \/ VisibilityTimeout(m)
    \/ \E r \in 0 .. Lines : Process(m, r)
    \/ \E d \in MsgId : Duplicate(m, d)

DeadLetter(m) == MarkFailed(m) \/ DeleteDeadLetter(m) \/ RedeliverDeadLetter(m)

Next ==
    \/ \E e \in EventId : Bucket(e) \/ Splitter(e)
    \/ \E m \in MsgId : Worker(m) \/ DeadLetter(m)

Spec == Init /\ [][Next]_vars

\* What the platform guarantees: a running invocation ends (it goes on or dies),
\* a visible message is received, a visibility timeout passes, a dead letter is
\* handled.
WorkerFairness(m) ==
    /\ WF_vars(Receive(m))
    /\ WF_vars(ReadChunk(m) \/ WorkerDies(m))
    /\ WF_vars(Claim(m) \/ WorkerDies(m))
    /\ WF_vars(WorkerDies(m) \/ \E r \in 0 .. Lines : Process(m, r))
    /\ WF_vars(MarkCompleted(m) \/ WorkerDies(m))
    /\ WF_vars(DeleteMessage(m) \/ WorkerDies(m))
    /\ WF_vars(VisibilityTimeout(m))
    /\ WF_vars(MarkFailed(m))
    /\ SF_vars(DeleteDeadLetter(m))

\* The event source retries a failing split for ever, and a split that is
\* retried for ever succeeds in each of its steps again and again.
SplitFairness(e) ==
    /\ WF_vars(SplitHead(e))
    /\ SF_vars(SplitEmpty(e) \/ SplitCommit(e) \/ SplitRaced(e))
    /\ SF_vars(SplitSelect(e))
    /\ SF_vars(\E c \in Chunk, m \in MsgId : SplitSend(e, c, m))
    /\ SF_vars(SplitDone(e))

Fairness ==
    /\ \A e \in EventId : SplitFairness(e)
    /\ \A m \in MsgId : WorkerFairness(m)

-----------------------------------------------------------------------------
(* Properties. *)

Finished(c) == chunk[c].status \in FinalChunk
Completed == {c \in Chunk : chunk[c].status = "completed"}
Failed == {c \in Chunk : chunk[c].status = "failed"}

\* The job's counters are the chunk rows' counts: every delivery, retry and
\* duplicate of a chunk together advanced them exactly once (the guarded updates
\* of markChunkCompleted and markChunkFailed), and every data line of a completed
\* chunk is counted as processed or as rejected.
CountersMatchRows ==
    /\ job.completed = Cardinality(Completed)
    /\ job.failed = Cardinality(Failed)
    /\ job.processed + job.rejected = Lines * job.completed

\* The job's row totals are those of the completed chunk rows together, line by line:
\* the counts of a delivery that lost the race to finalize its chunk never reach the job
\* (markChunkCompleted adds to the job only after its guarded chunk update).
ProcessedLines == UNION {{c} \X (1 .. chunk[c].processed) : c \in Completed}
RejectedLines == UNION {{c} \X (1 .. chunk[c].rejected) : c \in Completed}
TalliesMatchRows ==
    /\ job.processed = Cardinality(ProcessedLines)
    /\ job.rejected = Cardinality(RejectedLines)

\* A job with a dead-lettered chunk reads 'failed' and no other job does: neither
\* a later completion nor a redelivered split event hides the failure.
FailedIffChunkFailed == (job.status = "failed") <=> (job.failed > 0)

\* No handler can lose a chunk of an unfinished job: a chunk not yet finalized is
\* carried by a message (in the queue, in a worker, dead-lettered), or a split
\* that will enqueue it is still to come or under way. Holds over every crash
\* between the splitter's commit, its select and each sent entry.
Carried(c) == \E m \in MsgId : msg[m].at # "free" /\ msg[m].chunk = c
SplitAhead(c) ==
    \E e \in EventId :
        \/ event[e].at \in {"queued", "headed", "committed", "parked"}
        \/ event[e].at = "sending" /\ c \in event[e].toSend
NoLostChunk ==
    \A c \in Chunk :
        /\ chunk[c].status = "processing" => Carried(c)
        /\ chunk[c].status = "pending" /\ job.status \notin FinalJob => Carried(c) \/ SplitAhead(c)

\* A message leaves the queue or the dead-letter queue only once its chunk is
\* final: no path acknowledges work that is still open.
AcknowledgedIsFinal ==
    \A m \in MsgId : msg[m].at \in {"done", "dlqdone"} => Finished(msg[m].chunk)

\* The last chunk to be finalized always finds the job accounted for: there is
\* no job whose chunks are all final and which still reads 'processing', whatever
\* order completions, dead letters and (re-)splits came in.
AccountedJobIsFinal ==
    (\E c \in Chunk : Finished(c)) /\ (\A c \in Chunk : chunk[c].status \notin OpenChunk)
        => job.status \in FinalJob

\* 'completed' means every announced chunk completed and nothing is left open.
\* This needs that the object is uploaded once: a second, shorter upload under
\* the same key lowers the total under rows that are still open.
CompletedMeansAll ==
    MaxUploads = 1 /\ job.status = "completed" =>
        \A c \in Chunk : chunk[c].status = "completed" <=> c < job.total

\* A final chunk row keeps its status and counts, and a finished job stays
\* finished: no delivery, redrive or redelivered split event resurrects it.
FinalIsForever ==
    [][ /\ \A c \in Chunk : Finished(c) =>
              /\ chunk'[c].status = chunk[c].status
              /\ chunk'[c].processed = chunk[c].processed
              /\ chunk'[c].rejected = chunk[c].rejected
        /\ job.status \in FinalJob => job'.status \in FinalJob ]_vars

\* An uploaded file's job ends, completed or failed, whatever crashes on the way
\* (unless the event source has given up on a split).
JobEnds == uploads > 0 ~> job.status \in FinalJob \/ \E e \in EventId : event[e].at = "parked"

\* With one upload the job keeps the promise of JobLedger.
Ledger == INSTANCE JobLedger WITH
    parts <- {c \in Chunk : chunk[c].status # "absent"},
    outcome <- [c \in Chunk |-> IF Finished(c) THEN chunk[c].status ELSE "open"],
    tally <- [processed |-> job.processed, rejected |-> job.rejected],
    verdict <- IF job.status \in FinalJob THEN job.status ELSE "open"

LedgerSpec == Ledger!Spec
=============================================================================
