------------------------- MODULE IngestionJobProofs -------------------------
(***************************************************************************)
(* Proofs about IngestionJob for every number of chunks, messages, events, *)
(* uploads and receives: its invariants; for a job whose object is         *)
(* uploaded once, that 'completed' means that every announced chunk        *)
(* completed and that the job implements JobLedger; and what the           *)
(* `ingest upload` that watches it (UploadClient) may trust.               *)
(***************************************************************************)
EXTENDS UploadClient, FiniteSetTheorems, TLAPS

-----------------------------------------------------------------------------
(* Type correctness. *)

\* The null records have the types of their slots.
LEMMA NullRecords ==
    /\ NoMessage \in Message
    /\ NoEvent \in Event
  BY BoundsAssumption DEF NoMessage, NoEvent, Message, Event, MsgAt, EventAt

\* Updating one field of a job row by a value of its type gives a job row.
LEMMA JobRowUpdate ==
  ASSUME NEW j \in JobRow, NEW s \in Splittable \union FinalJob, NEW n \in Nat
  PROVE  /\ [j EXCEPT !.status = s] \in JobRow
         /\ [j EXCEPT !.total = n] \in JobRow
         /\ [j EXCEPT !.completed = n] \in JobRow
         /\ [j EXCEPT !.failed = n] \in JobRow
         /\ [j EXCEPT !.processed = n] \in JobRow
         /\ [j EXCEPT !.rejected = n] \in JobRow
  BY DEF JobRow

\* The initial state is well typed.
LEMMA InitTypeOK == Init => TypeOK
  BY BoundsAssumption, NullRecords
     DEF Init, TypeOK, JobRow, ChunkRow, ChunkStatus, Splittable

\* Every step of the bucket and of the splitter keeps the types.
LEMMA SplitterTypeOK ==
  ASSUME TypeOK, NEW e \in EventId, Bucket(e) \/ Splitter(e)
  PROVE  TypeOK'
<1> USE BoundsAssumption, NullRecords
<1>1. ASSUME NEW n \in 0 .. MaxChunks, Upload(e, n) PROVE TypeOK'
  BY <1>1 DEF TypeOK, Upload, NoEvent, Event, EventAt
<1>2. CASE RedeliverEvent(e)
  BY <1>2 DEF TypeOK, RedeliverEvent, NoEvent, Event, EventAt
<1>3. CASE SplitHead(e)
  BY <1>3 DEF TypeOK, SplitHead, NoEvent, Event, EventAt, Splitting
<1>4. CASE SplitEmpty(e)
  BY <1>4 DEF TypeOK, SplitEmpty, JobRow, FinalJob
<1>5. CASE SplitCommit(e)
  <2>1. job' \in JobRow
    <3> DEFINE started == [job EXCEPT !.status = "processing"]
    <3>1. started \in JobRow
      BY JobRowUpdate DEF TypeOK, Splittable
    <3>2. event[e].size \in Nat
      BY DEF TypeOK, Event
    <3>3. [started EXCEPT !.total = event[e].size] \in JobRow
      BY <3>1, <3>2, "processing" \in Splittable, JobRowUpdate DEF Splittable
    <3> QED BY <1>5, <3>3 DEF SplitCommit
  <2>2. chunk' \in [Chunk -> ChunkRow]
    BY <1>5 DEF TypeOK, SplitCommit, ChunkRow, ChunkStatus
  <2>3. event' \in [EventId -> Event]
    BY <1>5 DEF TypeOK, SplitCommit, Event, EventAt, Splitting
  <2> QED BY <1>5, <2>1, <2>2, <2>3 DEF TypeOK, SplitCommit
<1>6. CASE SplitRaced(e)
  BY <1>6 DEF TypeOK, SplitRaced
<1>7. CASE SplitSelect(e)
  BY <1>7 DEF TypeOK, SplitSelect, Event, EventAt, Splitting
<1>8. ASSUME NEW c \in Chunk, NEW m \in MsgId, SplitSend(e, c, m) PROVE TypeOK'
  <2>1. event' \in [EventId -> Event]
    BY <1>8 DEF TypeOK, SplitSend, Event
  <2>2. msg' \in [MsgId -> Message]
    BY <1>8 DEF TypeOK, SplitSend, Message, MsgAt, NoMessage
  <2> QED BY <1>8, <2>1, <2>2 DEF TypeOK, SplitSend
<1>9. CASE SplitDone(e)
  BY <1>9 DEF TypeOK, SplitDone
<1>10. CASE SplitFail(e)
  BY <1>10 DEF TypeOK, SplitFail, AfterFailure, NoEvent, Event, EventAt
<1> QED
  BY <1>1, <1>2, <1>3, <1>4, <1>5, <1>6, <1>7, <1>8, <1>9, <1>10 DEF Bucket, Splitter

\* The chunk row and the job row a completion writes (markChunkCompleted) are well typed.
LEMMA CompletedRowType ==
  ASSUME TypeOK, NEW m \in MsgId
  PROVE  /\ CompletedRow(m) \in ChunkRow
         /\ AdvancedJob(CompletedRow(m)) \in JobRow
<1>1. CompletedRow(m) \in ChunkRow
  BY BoundsAssumption DEF TypeOK, CompletedRow, ChunkRow, ChunkStatus, Message
<1>2. AdvancedJob(CompletedRow(m)) \in JobRow
  <2> DEFINE row == CompletedRow(m)
             c1 == [job EXCEPT !.completed = job.completed + 1]
             c2 == [c1 EXCEPT !.processed = job.processed + row.processed]
             c3 == [c2 EXCEPT !.rejected = job.rejected + row.rejected]
             verdict == IF c3.failed > 0 THEN "failed" ELSE "completed"
  <2>1. row.processed \in Nat /\ row.rejected \in Nat
    BY <1>1 DEF ChunkRow
  <2>2. job.completed + 1 \in Nat /\ job.processed + row.processed \in Nat /\ job.rejected + row.rejected \in Nat
    BY <2>1 DEF TypeOK, JobRow
  <2>3. c1 \in JobRow
    BY <2>2, JobRowUpdate, "failed" \in FinalJob DEF TypeOK, FinalJob
  <2>4. c2 \in JobRow
    <3> HIDE DEF c1
    <3> QED BY <2>2, <2>3, JobRowUpdate, "failed" \in FinalJob DEF FinalJob
  <2>5. c3 \in JobRow
    <3> HIDE DEF c2
    <3> QED BY <2>2, <2>4, JobRowUpdate, "failed" \in FinalJob DEF FinalJob
  <2>6. [c3 EXCEPT !.status = verdict] \in JobRow
    <3>1. verdict \in Splittable \union FinalJob
      BY DEF FinalJob
    <3> HIDE DEF c3, verdict
    <3> QED BY <3>1, <2>5, JobRowUpdate
  <2>7. AdvancedJob(row) = IF AllAccounted(c3) THEN [c3 EXCEPT !.status = verdict] ELSE c3
    BY DEF AdvancedJob
  <2> HIDE DEF row, c3, verdict
  <2> QED BY <2>5, <2>6, <2>7 DEF row
<1> QED BY <1>1, <1>2

\* Every step of a worker and of the dead-letter handler keeps the types.
LEMMA WorkerTypeOK ==
  ASSUME TypeOK, NEW m \in MsgId, Worker(m) \/ DeadLetter(m)
  PROVE  TypeOK'
<1> USE BoundsAssumption, NullRecords
<1>1. CASE Receive(m)
  BY <1>1 DEF TypeOK, Receive, Message, MsgAt, Running
<1>2. CASE ReadChunk(m)
  BY <1>2 DEF TypeOK, ReadChunk, AfterRead, Message, MsgAt, Running
<1>3. CASE Claim(m)
  BY <1>3 DEF TypeOK, Claim, Message, MsgAt, Running, ChunkRow, ChunkStatus
<1>4. CASE MarkCompleted(m)
  <2>1. msg' \in [MsgId -> Message]
    BY <1>4 DEF TypeOK, MarkCompleted, Message, MsgAt
  <2>2. chunk' \in [Chunk -> ChunkRow] /\ job' \in JobRow
    BY <1>4, CompletedRowType DEF TypeOK, MarkCompleted
  <2> QED BY <1>4, <2>1, <2>2 DEF TypeOK, MarkCompleted
<1>5. CASE DeleteMessage(m)
  BY <1>5 DEF TypeOK, DeleteMessage
<1>6. CASE WorkerDies(m)
  BY <1>6 DEF TypeOK, WorkerDies, Message, MsgAt
<1>7. CASE VisibilityTimeout(m)
  <2> DEFINE place == IF Exhausted(m) THEN "dlq" ELSE "queued"
             moved == [msg[m] EXCEPT !.at = place]
  <2>1. place \in MsgAt
    BY DEF MsgAt
  <2> HIDE DEF place
  <2>2. moved \in Message
    BY <2>1 DEF TypeOK, Message
  <2> HIDE DEF moved
  <2>3. [moved EXCEPT !.rejected = 0] \in Message
    BY <2>2 DEF Message
  <2>4. msg' = [msg EXCEPT ![m] = [moved EXCEPT !.rejected = 0]]
    BY <1>7 DEF VisibilityTimeout, TypeOK, moved, place
  <2> QED BY <1>7, <2>3, <2>4 DEF TypeOK, VisibilityTimeout
<1>8. ASSUME NEW r \in 0 .. Lines, Process(m, r) PROVE TypeOK'
  BY <1>8 DEF TypeOK, Process, Message, MsgAt, Running
<1>9. ASSUME NEW d \in MsgId, Duplicate(m, d) PROVE TypeOK'
  BY <1>9 DEF TypeOK, Duplicate
<1>10. CASE MarkFailed(m)
  <2>1. msg' \in [MsgId -> Message]
    BY <1>10 DEF TypeOK, MarkFailed, Message, MsgAt
  <2>2. chunk' \in [Chunk -> ChunkRow]
    BY <1>10 DEF TypeOK, MarkFailed, ChunkRow, ChunkStatus
  <2>3. DeadLetteredJob \in JobRow
    <3> DEFINE failing == [job EXCEPT !.status = "failed"]
    <3>1. failing \in JobRow
      BY "failed" \in FinalJob, JobRowUpdate DEF TypeOK, FinalJob
    <3>2. job.failed + 1 \in Nat
      BY DEF TypeOK, JobRow
    <3>3. DeadLetteredJob = [failing EXCEPT !.failed = job.failed + 1]
      BY DEF DeadLetteredJob, TypeOK, JobRow
    <3> HIDE DEF failing
    <3> QED BY <3>1, <3>2, <3>3, "failed" \in FinalJob, JobRowUpdate DEF FinalJob
  <2> QED BY <1>10, <2>1, <2>2, <2>3 DEF TypeOK, MarkFailed
<1>11. CASE DeleteDeadLetter(m)
  BY <1>11 DEF TypeOK, DeleteDeadLetter
<1>12. CASE RedeliverDeadLetter(m)
  BY <1>12 DEF TypeOK, RedeliverDeadLetter, Message, MsgAt
<1> QED
  BY <1>1, <1>2, <1>3, <1>4, <1>5, <1>6, <1>7, <1>8, <1>9, <1>10, <1>11, <1>12
     DEF Worker, DeadLetter

\* Every step keeps the types.
LEMMA NextTypeOK == TypeOK /\ [Next]_vars => TypeOK'
<1>1. ASSUME TypeOK, UNCHANGED vars PROVE TypeOK'
  BY <1>1 DEF TypeOK, vars
<1>2. ASSUME TypeOK, Next PROVE TypeOK'
  BY <1>2, SplitterTypeOK, WorkerTypeOK DEF Next
<1> QED BY <1>1, <1>2

\* The tables, the queues and the events keep their types.
THEOREM TypeCorrect == Spec => []TypeOK
<1>1. Init => TypeOK
  BY InitTypeOK
<1>2. TypeOK /\ [Next]_vars => TypeOK'
  BY NextTypeOK
<1> QED BY <1>1, <1>2, PTL DEF Spec

-----------------------------------------------------------------------------
(* Chunk rows. *)

\* A step inserts rows, but never removes one and never changes a final one.
LEMMA RowStep ==
  ASSUME TypeOK, [Next]_vars, NEW c \in Chunk
  PROVE  /\ chunk[c].status # "absent" => chunk'[c].status # "absent"
         /\ Finished(c) => chunk'[c] = chunk[c]
<1>1. CASE UNCHANGED chunk
  BY <1>1
<1>2. ASSUME NEW e \in EventId, SplitCommit(e) PROVE UNCHANGED chunk[c] \/ (chunk[c].status = "absent")
  BY <1>2 DEF SplitCommit, TypeOK
<1>3. ASSUME NEW m \in MsgId, Claim(m)
      PROVE  chunk'[c] = chunk[c] \/ (~Finished(c) /\ chunk'[c].status = "processing")
  BY <1>3 DEF Claim, ClaimRefused, Finished, TypeOK, ChunkRow
<1>4. ASSUME NEW m \in MsgId, MarkCompleted(m)
      PROVE  chunk'[c] = chunk[c] \/ (~Finished(c) /\ chunk'[c].status = "completed")
  BY <1>4 DEF MarkCompleted, CompletionRefused, CompletedRow, Finished, TypeOK
<1>5. ASSUME NEW m \in MsgId, MarkFailed(m)
      PROVE  chunk'[c] = chunk[c] \/ (~Finished(c) /\ chunk'[c].status = "failed")
  BY <1>5 DEF MarkFailed, Finished, TypeOK, ChunkRow
<1>6. \/ UNCHANGED chunk
      \/ \E e \in EventId : SplitCommit(e)
      \/ \E m \in MsgId : Claim(m) \/ MarkCompleted(m) \/ MarkFailed(m)
  BY DEF vars, Next, Bucket, Splitter, Worker, DeadLetter, Upload, RedeliverEvent, SplitHead,
         SplitEmpty, SplitRaced, SplitSelect, SplitSend, SplitDone, SplitFail, Receive,
         ReadChunk, DeleteMessage, WorkerDies, VisibilityTimeout, Process, Duplicate,
         DeleteDeadLetter, RedeliverDeadLetter
<1> QED BY <1>1, <1>2, <1>3, <1>4, <1>5, <1>6 DEF Finished, FinalChunk

-----------------------------------------------------------------------------
(* Messages and events. *)

\* A message in use and a chunk about to be sent name an inserted row.
MessagesNameRows ==
    /\ \A m \in MsgId : msg[m].at # "free" =>
          msg[m].chunk \in Chunk /\ chunk[msg[m].chunk].status # "absent"
    /\ \A e \in EventId : event[e].at = "sending" =>
          \A c \in event[e].toSend : chunk[c].status # "absent"

QueueInv == TypeOK /\ MessagesNameRows /\ AcknowledgedIsFinal

\* What one step does to the message m: nothing, or it moves on naming the same
\* chunk (acknowledged only when that chunk is final), or its slot is emptied after
\* an acknowledgement, or an empty slot is filled.
MessageStep(m) ==
    \/ msg'[m] = msg[m]
    \/ msg'[m].at = "free" /\ msg[m].at \in {"free", "done", "dlqdone"}
    \/ /\ msg[m].at # "free" /\ msg'[m].at # "free"
       /\ msg'[m].chunk = msg[m].chunk
       /\ msg'[m].at \in {"done", "dlqdone"} =>
             chunk'[msg[m].chunk].status \in FinalChunk \/ msg[m].at \in {"done", "dlqdone"}
    \/ /\ msg[m].at = "free" /\ msg'[m].at = "queued"
       /\ \E e \in EventId : event[e].at = "sending" /\ msg'[m].chunk \in event[e].toSend
    \/ /\ msg[m].at = "free" /\ msg'[m].at = "queued"
       /\ \E d \in MsgId : msg[d].at = "queued" /\ msg'[m].chunk = msg[d].chunk

\* Every step is of that shape for every message.
LEMMA EveryMessageStep ==
  ASSUME QueueInv, [Next]_vars, NEW m \in MsgId
  PROVE  MessageStep(m)
<1> USE DEF MessageStep, QueueInv, TypeOK
<1>1. CASE UNCHANGED msg
  BY <1>1
<1>2. ASSUME NEW e \in EventId, NEW c \in Chunk, NEW n \in MsgId, SplitSend(e, c, n) PROVE MessageStep(m)
  BY <1>2 DEF SplitSend, NoMessage
<1>3. ASSUME NEW n \in MsgId, Receive(n) PROVE MessageStep(m)
  BY <1>3 DEF Receive, Message
<1>4. ASSUME NEW n \in MsgId, NEW d \in MsgId, Duplicate(n, d) PROVE MessageStep(m)
  BY <1>4 DEF Duplicate, Message
<1>5. ASSUME NEW n \in MsgId, ReadChunk(n) PROVE MessageStep(m)
  BY <1>5 DEF ReadChunk, AfterRead, Message, FinalChunk
<1>6. ASSUME NEW n \in MsgId, Claim(n) PROVE MessageStep(m)
  BY <1>6 DEF Claim, ClaimRefused, Message
<1>7. ASSUME NEW n \in MsgId, NEW r \in 0 .. Lines, Process(n, r) PROVE MessageStep(m)
  BY <1>7 DEF Process, Message
<1>8. ASSUME NEW n \in MsgId, MarkCompleted(n) PROVE MessageStep(m)
  BY <1>8 DEF MarkCompleted, CompletionRefused, CompletedRow, Message, FinalChunk, MessagesNameRows
<1>9. ASSUME NEW n \in MsgId, DeleteMessage(n) \/ DeleteDeadLetter(n) PROVE MessageStep(m)
  BY <1>9 DEF DeleteMessage, DeleteDeadLetter, NoMessage
<1>10. ASSUME NEW n \in MsgId, WorkerDies(n) PROVE MessageStep(m)
  BY <1>10 DEF WorkerDies, Message, Running
<1>11. ASSUME NEW n \in MsgId, VisibilityTimeout(n) PROVE MessageStep(m)
  BY <1>11 DEF VisibilityTimeout, Message
<1>12. ASSUME NEW n \in MsgId, MarkFailed(n) PROVE MessageStep(m)
  BY <1>12 DEF MarkFailed, Message, MessagesNameRows, FinalChunk, ChunkRow
<1>13. ASSUME NEW n \in MsgId, RedeliverDeadLetter(n) PROVE MessageStep(m)
  BY <1>13 DEF RedeliverDeadLetter, Message
<1>14. \/ UNCHANGED msg
       \/ \E e \in EventId, c \in Chunk, n \in MsgId : SplitSend(e, c, n)
       \/ \E n \in MsgId : Worker(n) \/ DeadLetter(n)
  BY DEF vars, Next, Bucket, Splitter, Upload, RedeliverEvent, SplitHead,
         SplitEmpty, SplitCommit, SplitRaced, SplitSelect, SplitDone, SplitFail
<1> HIDE DEF MessageStep, QueueInv, TypeOK
<1> QED
  BY <1>1, <1>2, <1>3, <1>4, <1>5, <1>6, <1>7, <1>8, <1>9, <1>10, <1>11, <1>12, <1>13, <1>14
     DEF Worker, DeadLetter

\* The queue invariant is inductive.
LEMMA QueueInvStep == QueueInv /\ [Next]_vars => QueueInv'
<1> SUFFICES ASSUME QueueInv, [Next]_vars PROVE QueueInv'
  OBVIOUS
<1>1. TypeOK /\ TypeOK'
  BY NextTypeOK DEF QueueInv
<1>2. ASSUME NEW m \in MsgId, msg'[m].at # "free"
      PROVE  msg'[m].chunk \in Chunk /\ chunk'[msg'[m].chunk].status # "absent"
  <2>1. MessageStep(m)
    BY EveryMessageStep
  <2>2. ASSUME NEW e \in EventId, event[e].at = "sending", NEW c \in event[e].toSend
        PROVE  c \in Chunk /\ chunk[c].status # "absent"
    BY <2>2, <1>1 DEF QueueInv, MessagesNameRows, TypeOK, Event
  <2>3. msg'[m].chunk \in Chunk /\ chunk[msg'[m].chunk].status # "absent"
    BY <2>1, <2>2, <1>2 DEF MessageStep, QueueInv, MessagesNameRows
  <2> QED BY <2>3, <1>1, RowStep
<1>3. ASSUME NEW e \in EventId, event'[e].at = "sending", NEW c \in event'[e].toSend
      PROVE  chunk'[c].status # "absent"
  <2>1. c \in Chunk
    BY <1>1, <1>3 DEF TypeOK, Event
  <2>2. chunk[c].status # "absent"
    <3>1. CASE event'[e] = event[e]
      BY <3>1, <1>3 DEF QueueInv, MessagesNameRows
    <3>2. ASSUME NEW x \in Chunk, NEW m \in MsgId, SplitSend(e, x, m)
          PROVE  event[e].at = "sending" /\ c \in event[e].toSend
      BY <3>2, <1>1, <1>3 DEF SplitSend, TypeOK, Event
    <3>3. CASE SplitSelect(e)
      BY <3>3, <1>1, <1>3, <2>1 DEF SplitSelect, TypeOK, Event
    <3>4. CASE event'[e].at # "sending"
      BY <3>4, <1>3
    <3>5. \/ event'[e] = event[e]
          \/ \E x \in Chunk, m \in MsgId : SplitSend(e, x, m)
          \/ SplitSelect(e)
          \/ event'[e].at # "sending"
      <4>1. CASE UNCHANGED event
        BY <4>1
      <4>2. ASSUME NEW d \in EventId, Bucket(d) \/ Splitter(d), d # e
            PROVE  event'[e] = event[e]
        BY <4>2, <1>1 DEF Bucket, Splitter, Upload, RedeliverEvent, SplitHead, SplitEmpty, SplitCommit,
              SplitRaced, SplitSelect, SplitSend, SplitDone, SplitFail, TypeOK
      <4>3. CASE Bucket(e)
        BY <4>3, <1>1 DEF Bucket, Upload, RedeliverEvent, NoEvent, TypeOK
      <4>4. CASE SplitEmpty(e) \/ SplitRaced(e) \/ SplitDone(e)
        BY <4>4, <1>1 DEF SplitEmpty, SplitRaced, SplitDone, NoEvent, TypeOK
      <4>7. CASE SplitHead(e)
        BY <4>7, <1>1 DEF SplitHead, NoEvent, TypeOK
      <4>8. CASE SplitFail(e)
        BY <4>8, <1>1 DEF SplitFail, AfterFailure, NoEvent, TypeOK
      <4>5. CASE SplitCommit(e)
        BY <4>5, <1>1 DEF SplitCommit, TypeOK, Event
      <4>6. \/ UNCHANGED event
            \/ \E d \in EventId : Bucket(d) \/ Splitter(d)
        BY DEF vars, Next, Worker, DeadLetter, Receive, ReadChunk, Claim, MarkCompleted, DeleteMessage,
               WorkerDies, VisibilityTimeout, Process, Duplicate, MarkFailed, DeleteDeadLetter,
               RedeliverDeadLetter
      <4> QED BY <4>1, <4>2, <4>3, <4>4, <4>5, <4>6, <4>7, <4>8 DEF Splitter
    <3> QED BY <3>1, <3>2, <3>3, <3>4, <3>5, <1>3 DEF QueueInv, MessagesNameRows
  <2> QED BY <2>1, <2>2, <1>1, RowStep
<1>4. ASSUME NEW m \in MsgId, msg'[m].at \in {"done", "dlqdone"}
      PROVE  chunk'[msg'[m].chunk].status \in FinalChunk
  <2>1. MessageStep(m)
    BY EveryMessageStep
  <2>2. CASE msg[m].at \in {"done", "dlqdone"} /\ msg'[m].chunk = msg[m].chunk
    <3>1. msg[m].chunk \in Chunk /\ Finished(msg[m].chunk)
      BY <2>2 DEF QueueInv, AcknowledgedIsFinal, MessagesNameRows
    <3>2. chunk'[msg[m].chunk] = chunk[msg[m].chunk]
      BY <3>1, <1>1, RowStep
    <3> QED BY <2>2, <3>1, <3>2 DEF Finished
  <2> QED BY <2>1, <2>2, <1>4 DEF MessageStep, Finished
<1> QED BY <1>1, <1>2, <1>3, <1>4 DEF QueueInv, MessagesNameRows, AcknowledgedIsFinal, Finished

\* ... and holds of every behaviour.
LEMMA QueueInvAlways == Spec => []QueueInv
<1>1. Init => QueueInv
  BY InitTypeOK DEF Init, QueueInv, MessagesNameRows, AcknowledgedIsFinal, NoMessage, NoEvent
<1>2. QueueInv /\ [Next]_vars => QueueInv'
  BY QueueInvStep
<1> QED BY <1>1, <1>2, PTL DEF Spec

\* A message is acknowledged only for a final chunk.
THEOREM AcknowledgedOnlyWhenFinal == Spec => []AcknowledgedIsFinal
<1>1. QueueInv => AcknowledgedIsFinal
  BY DEF QueueInv
<1> QED BY <1>1, QueueInvAlways, PTL

-----------------------------------------------------------------------------
(* No chunk is lost. *)

\* A finished job stays finished.
LEMMA JobStep ==
  ASSUME TypeOK, [Next]_vars, job.status \in FinalJob
  PROVE  job'.status \in FinalJob
<1>1. CASE UNCHANGED job
  BY <1>1
<1>2. ASSUME NEW e \in EventId, SplitEmpty(e) \/ SplitCommit(e) PROVE job' = job
  BY <1>2 DEF SplitEmpty, SplitCommit, SplitRefused, FinalJob, Splittable
<1>3. ASSUME NEW m \in MsgId, MarkCompleted(m) PROVE job'.status \in FinalJob
  BY <1>3 DEF MarkCompleted, AdvancedJob, TypeOK, JobRow, FinalJob
<1>4. ASSUME NEW m \in MsgId, MarkFailed(m) PROVE job'.status \in FinalJob
  BY <1>4 DEF MarkFailed, DeadLetteredJob, TypeOK, JobRow, FinalJob
<1>5. \/ UNCHANGED job
      \/ \E e \in EventId : SplitEmpty(e) \/ SplitCommit(e)
      \/ \E m \in MsgId : MarkCompleted(m) \/ MarkFailed(m)
  BY DEF vars, Next, Bucket, Splitter, Worker, DeadLetter, Upload, RedeliverEvent, SplitHead,
         SplitRaced, SplitSelect, SplitSend, SplitDone, SplitFail, Receive, Claim,
         ReadChunk, DeleteMessage, WorkerDies, VisibilityTimeout, Process, Duplicate,
         DeleteDeadLetter, RedeliverDeadLetter
<1> QED BY <1>1, <1>2, <1>3, <1>4, <1>5

\* Final rows and finished jobs are final.
THEOREM FinalRowsAndJobsStay == Spec => FinalIsForever
<1>1. TypeOK /\ [Next]_vars =>
        [ /\ \A c \in Chunk : Finished(c) =>
                /\ chunk'[c].status = chunk[c].status
                /\ chunk'[c].processed = chunk[c].processed
                /\ chunk'[c].rejected = chunk[c].rejected
          /\ job.status \in FinalJob => job'.status \in FinalJob ]_vars
  BY RowStep, JobStep
<1> QED BY <1>1, TypeCorrect, PTL DEF Spec, FinalIsForever

\* A message keeps carrying its chunk until that chunk is final.
LEMMA CarriedStep ==
  ASSUME QueueInv, [Next]_vars, NEW c \in Chunk, Carried(c), ~Finished(c)
  PROVE  Carried(c)'
<1>1. PICK m \in MsgId : msg[m].at # "free" /\ msg[m].chunk = c
  BY DEF Carried
<1>2. MessageStep(m)
  BY EveryMessageStep
<1>3. msg[m].at \notin {"done", "dlqdone"}
  BY <1>1 DEF QueueInv, AcknowledgedIsFinal
<1>4. msg'[m].at # "free" /\ msg'[m].chunk = c
  BY <1>1, <1>2, <1>3 DEF MessageStep
<1> QED BY <1>4 DEF Carried

\* The event e still leads to the chunk c being enqueued.
AheadBy(e, c) ==
    \/ event[e].at \in {"queued", "headed", "committed", "parked"}
    \/ event[e].at = "sending" /\ c \in event[e].toSend

\* A pending chunk a split is going to enqueue is enqueued by it or stays ahead of
\* it, unless the job ends first.
LEMMA AheadStep ==
  ASSUME TypeOK, [Next]_vars, NEW c \in Chunk, NEW e \in EventId, AheadBy(e, c),
         chunk[c].status = "pending", job.status \notin FinalJob, job'.status \notin FinalJob
  PROVE  AheadBy(e, c)' \/ Carried(c)'
<1>1. CASE event'[e] = event[e]
  BY <1>1 DEF AheadBy
<1>2. CASE SplitHead(e)
  BY <1>2 DEF SplitHead, AheadBy, TypeOK
<1>3. CASE SplitEmpty(e) \/ SplitCommit(e) \/ SplitRaced(e)
  <2>1. ~SplitRefused
    BY DEF SplitRefused, TypeOK, JobRow
  <2>2. CASE SplitEmpty(e)
    BY <2>1, <2>2 DEF SplitEmpty, TypeOK, JobRow, FinalJob
  <2>3. CASE SplitCommit(e)
    BY <2>3 DEF SplitCommit, AheadBy, TypeOK, Event
  <2> QED BY <1>3, <2>1, <2>2, <2>3 DEF SplitRaced
<1>4. CASE SplitSelect(e)
  BY <1>4 DEF SplitSelect, AheadBy, TypeOK, Event
<1>5. ASSUME NEW x \in Chunk, NEW m \in MsgId, SplitSend(e, x, m)
      PROVE  AheadBy(e, c)' \/ Carried(c)'
  <2>1. CASE x = c
    <3>1. msg'[m].at = "queued" /\ msg'[m].chunk = c
      BY <1>5, <2>1 DEF SplitSend, NoMessage, TypeOK
    <3> QED BY <3>1 DEF Carried
  <2>2. CASE x # c
    BY <1>5, <2>2 DEF SplitSend, AheadBy, TypeOK, Event
  <2> QED BY <2>1, <2>2
<1>6. CASE SplitDone(e)
  BY <1>6 DEF SplitDone, AheadBy
<1>7. CASE SplitFail(e)
  BY <1>7 DEF SplitFail, AfterFailure, NoEvent, AheadBy, TypeOK
<1>8. CASE Bucket(e)
  BY <1>8 DEF Bucket, Upload, RedeliverEvent, AheadBy
<1>9. ASSUME NEW d \in EventId, d # e, Bucket(d) \/ Splitter(d)
      PROVE  event'[e] = event[e]
  BY <1>9 DEF Bucket, Splitter, Upload, RedeliverEvent, SplitHead, SplitEmpty, SplitCommit,
              SplitRaced, SplitSelect, SplitSend, SplitDone, SplitFail, TypeOK
<1>10. \/ UNCHANGED event
       \/ \E d \in EventId : Bucket(d) \/ Splitter(d)
  BY DEF vars, Next, Worker, DeadLetter, Receive, ReadChunk, Claim, MarkCompleted, DeleteMessage,
         WorkerDies, VisibilityTimeout, Process, Duplicate, MarkFailed, DeleteDeadLetter,
         RedeliverDeadLetter
<1> QED
  BY <1>1, <1>2, <1>3, <1>4, <1>5, <1>6, <1>7, <1>8, <1>9, <1>10 DEF Splitter

\* Where a row comes to be pending or processing.
LEMMA OpenRowStep ==
  ASSUME TypeOK, [Next]_vars, NEW c \in Chunk
  PROVE  /\ chunk'[c].status = "processing" =>
              chunk[c].status = "processing" \/ Carried(c)'
         /\ chunk'[c].status = "pending" =>
              chunk[c].status = "pending" \/ \E e \in EventId : event'[e].at = "committed"
<1>1. CASE UNCHANGED chunk
  BY <1>1
<1>2. ASSUME NEW e \in EventId, SplitCommit(e)
      PROVE  /\ chunk'[c].status = chunk[c].status \/ chunk'[c].status = "pending"
             /\ event'[e].at = "committed"
  BY <1>2 DEF SplitCommit, TypeOK, Event, ChunkRow
<1>3. ASSUME NEW m \in MsgId, Claim(m)
      PROVE  \/ chunk'[c] = chunk[c]
             \/ chunk'[c].status = "processing" /\ msg'[m].at # "free" /\ msg'[m].chunk = c
  BY <1>3 DEF Claim, ClaimRefused, TypeOK, ChunkRow, Message
<1>4. ASSUME NEW m \in MsgId, MarkCompleted(m)
      PROVE  chunk'[c] = chunk[c] \/ chunk'[c].status = "completed"
  BY <1>4 DEF MarkCompleted, CompletedRow, TypeOK
<1>5. ASSUME NEW m \in MsgId, MarkFailed(m)
      PROVE  chunk'[c] = chunk[c] \/ chunk'[c].status = "failed"
  BY <1>5 DEF MarkFailed, TypeOK, ChunkRow
<1>6. \/ UNCHANGED chunk
      \/ \E e \in EventId : SplitCommit(e)
      \/ \E m \in MsgId : Claim(m) \/ MarkCompleted(m) \/ MarkFailed(m)
  BY DEF vars, Next, Bucket, Splitter, Worker, DeadLetter, Upload, RedeliverEvent, SplitHead,
         SplitEmpty, SplitRaced, SplitSelect, SplitSend, SplitDone, SplitFail, Receive,
         ReadChunk, DeleteMessage, WorkerDies, VisibilityTimeout, Process, Duplicate,
         DeleteDeadLetter, RedeliverDeadLetter
<1> QED BY <1>1, <1>2, <1>3, <1>4, <1>5, <1>6 DEF Carried

\* Given the queue invariant, no step loses a chunk.
LEMMA NoLostChunkStep == QueueInv /\ NoLostChunk /\ [Next]_vars => NoLostChunk'
<1> SUFFICES ASSUME QueueInv, NoLostChunk, [Next]_vars, NEW c \in Chunk
             PROVE  /\ chunk'[c].status = "processing" => Carried(c)'
                    /\ chunk'[c].status = "pending" /\ job'.status \notin FinalJob
                         => Carried(c)' \/ SplitAhead(c)'
  BY DEF NoLostChunk
<1>1. TypeOK
  BY DEF QueueInv
<1>2. ASSUME chunk'[c].status = "processing" PROVE Carried(c)'
  <2>1. CASE chunk[c].status = "processing"
    BY <2>1, CarriedStep DEF NoLostChunk, Finished, FinalChunk
  <2> QED BY <1>1, <1>2, <2>1, OpenRowStep
<1>3. ASSUME chunk'[c].status = "pending", job'.status \notin FinalJob
      PROVE  Carried(c)' \/ SplitAhead(c)'
  <2>1. job.status \notin FinalJob
    BY <1>1, <1>3, JobStep
  <2>2. CASE \E e \in EventId : event'[e].at = "committed"
    BY <2>2 DEF SplitAhead
  <2>3. CASE chunk[c].status = "pending" /\ Carried(c)
    BY <2>3, CarriedStep DEF Finished, FinalChunk
  <2>4. CASE chunk[c].status = "pending" /\ SplitAhead(c)
    <3>1. PICK e \in EventId : AheadBy(e, c)
      BY <2>4 DEF SplitAhead, AheadBy
    <3>2. AheadBy(e, c)' \/ Carried(c)'
      BY <1>1, <1>3, <2>1, <2>4, <3>1, AheadStep
    <3> QED BY <3>2 DEF SplitAhead, AheadBy
  <2> QED BY <1>1, <1>3, <2>1, <2>2, <2>3, <2>4, OpenRowStep DEF NoLostChunk
<1> QED BY <1>2, <1>3

\* No crash, retry, duplicate, redelivery or second upload loses a chunk of an
\* unfinished job.
THEOREM ChunksAreNeverLost == Spec => []NoLostChunk
<1>1. Init => NoLostChunk
  BY DEF Init, NoLostChunk
<1>2. QueueInv /\ NoLostChunk /\ [Next]_vars => NoLostChunk'
  BY NoLostChunkStep
<1> QED BY <1>1, <1>2, QueueInvAlways, PTL DEF Spec

-----------------------------------------------------------------------------
(* The job's counters. *)

Rows == {c \in Chunk : chunk[c].status # "absent"}

\* The counters agree with the rows, the verdict with the counters, and the
\* announced total never exceeds the rows there are: which is why the finalizer
\* of the last open row finds the job accounted for.
CountInv ==
    /\ QueueInv
    /\ CountersMatchRows
    /\ FailedIffChunkFailed
    /\ job.total <= Cardinality(Rows)
    /\ AccountedJobIsFinal

\* The sets that are counted are finite.
LEMMA FiniteRows ==
    /\ IsFiniteSet(Chunk)
    /\ \A S \in SUBSET Chunk : IsFiniteSet(S) /\ Cardinality(S) \in Nat
<1>1. IsFiniteSet(Chunk)
  BY FS_Interval, BoundsAssumption DEF Chunk
<1>2. ASSUME NEW S \in SUBSET Chunk PROVE IsFiniteSet(S) /\ Cardinality(S) \in Nat
  BY <1>1, FS_Subset, FS_CardinalityType
<1> QED BY <1>1, <1>2

\* One more chunk makes the count one larger.
LEMMA CountOne ==
  ASSUME NEW S \in SUBSET Chunk, NEW c \in Chunk, c \notin S
  PROVE  Cardinality(S \union {c}) = Cardinality(S) + 1
  BY FiniteRows, FS_AddElement

\* A part of a set of chunks has at most as many members.
LEMMA CountMore ==
  ASSUME NEW T \in SUBSET Chunk, NEW S \in SUBSET T
  PROVE  Cardinality(S) <= Cardinality(T)
  BY FiniteRows, FS_Subset

\* The fields of the job row after a completion.
LEMMA AdvancedFields ==
  ASSUME TypeOK, NEW m \in MsgId
  PROVE  LET row == CompletedRow(m)
             next == AdvancedJob(row)
         IN  /\ next.completed = job.completed + 1
             /\ next.failed = job.failed
             /\ next.total = job.total
             /\ next.processed = job.processed + (Lines - msg[m].rejected)
             /\ next.rejected = job.rejected + msg[m].rejected
             /\ next.status = IF job.completed + 1 + job.failed >= job.total
                              THEN IF job.failed > 0 THEN "failed" ELSE "completed"
                              ELSE job.status
<1> DEFINE row == CompletedRow(m)
           counted == [job EXCEPT !.completed = job.completed + 1,
                                  !.processed = job.processed + row.processed,
                                  !.rejected = job.rejected + row.rejected]
<1>1. row.processed = Lines - msg[m].rejected /\ row.rejected = msg[m].rejected
  BY DEF CompletedRow
<1>2. /\ counted.completed = job.completed + 1
      /\ counted.failed = job.failed
      /\ counted.total = job.total
      /\ counted.processed = job.processed + row.processed
      /\ counted.rejected = job.rejected + row.rejected
      /\ counted.status = job.status
  BY DEF TypeOK, JobRow
<1>3. AdvancedJob(row) = IF counted.completed + counted.failed >= counted.total
                         THEN [counted EXCEPT !.status = IF counted.failed > 0 THEN "failed" ELSE "completed"]
                         ELSE counted
  BY DEF AdvancedJob, AllAccounted
<1>4. /\ DOMAIN counted = DOMAIN job
      /\ DOMAIN job = {"status", "total", "completed", "failed", "processed", "rejected"}
  BY DEF TypeOK, JobRow
<1> HIDE DEF counted, row
<1> QED BY <1>1, <1>2, <1>3, <1>4 DEF row

\* A completion keeps the counters right.
LEMMA CompletionCounts ==
  ASSUME CountInv, NEW m \in MsgId, MarkCompleted(m)
  PROVE  /\ CountersMatchRows'
         /\ FailedIffChunkFailed'
         /\ (job.total <= Cardinality(Rows))'
<1> DEFINE c == msg[m].chunk
<1>1. TypeOK /\ c \in Chunk /\ chunk[c].status # "absent"
  BY DEF CountInv, QueueInv, MessagesNameRows, MarkCompleted
<1>2. CASE CompletionRefused(c)
  BY <1>2 DEF MarkCompleted, CountInv, CountersMatchRows, FailedIffChunkFailed, Completed, Failed, Rows
<1>3. CASE ~CompletionRefused(c)
  <2>1. chunk' = [chunk EXCEPT ![c] = CompletedRow(m)] /\ job' = AdvancedJob(CompletedRow(m))
    BY <1>3 DEF MarkCompleted
  <2>2. \A x \in Chunk : chunk'[x].status = IF x = c THEN "completed" ELSE chunk[x].status
    BY <2>1, <1>1 DEF TypeOK, CompletedRow
  <2>3. /\ Completed' = Completed \union {c}
        /\ c \notin Completed
        /\ Failed' = Failed
        /\ Rows' = Rows
    BY <2>2, <1>1, <1>3 DEF Completed, Failed, Rows, CompletionRefused, FinalChunk
  <2>4. /\ Cardinality(Completed') = Cardinality(Completed) + 1
        /\ Completed \in SUBSET Chunk /\ Failed \in SUBSET Chunk
    BY <2>3, <1>1, CountOne DEF Completed, Failed
  <2>5. /\ job'.completed = job.completed + 1
        /\ job'.failed = job.failed
        /\ job'.total = job.total
        /\ job'.processed = job.processed + (Lines - msg[m].rejected)
        /\ job'.rejected = job.rejected + msg[m].rejected
        /\ job'.status = IF job.completed + 1 + job.failed >= job.total
                         THEN IF job.failed > 0 THEN "failed" ELSE "completed"
                         ELSE job.status
    BY <2>1, <1>1, AdvancedFields
  <2>6. /\ job.completed \in Nat /\ job.failed \in Nat /\ job.processed \in Nat /\ job.rejected \in Nat
        /\ msg[m].rejected \in 0 .. Lines /\ Lines \in Nat
    BY <1>1, BoundsAssumption DEF TypeOK, JobRow, Message
  <2>7. job'.processed + job'.rejected = Lines * job'.completed
    <3>1. job.processed + job.rejected = Lines * job.completed
      BY DEF CountInv, CountersMatchRows
    <3>2. job'.processed + job'.rejected = Lines * job.completed + Lines
      BY <3>1, <2>5, <2>6
    <3>3. Lines * (job.completed + 1) = Lines * job.completed + Lines
      BY <2>6
    <3> QED BY <3>2, <3>3, <2>5
  <2>8. CountersMatchRows'
    BY <2>3, <2>4, <2>5, <2>7 DEF CountInv, CountersMatchRows
  <2>9. FailedIffChunkFailed'
    BY <2>5, <2>6 DEF CountInv, FailedIffChunkFailed
  <2>10. (job.total <= Cardinality(Rows))'
    BY <2>3, <2>5 DEF CountInv
  <2> QED BY <2>8, <2>9, <2>10
<1> QED BY <1>2, <1>3

\* So does a dead letter.
LEMMA DeadLetterCounts ==
  ASSUME CountInv, NEW m \in MsgId, MarkFailed(m)
  PROVE  /\ CountersMatchRows'
         /\ FailedIffChunkFailed'
         /\ (job.total <= Cardinality(Rows))'
<1> DEFINE c == msg[m].chunk
<1>1. TypeOK /\ c \in Chunk /\ chunk[c].status # "absent"
  BY DEF CountInv, QueueInv, MessagesNameRows, MarkFailed
<1>2. CASE chunk[c].status \in FinalChunk \union {"absent"}
  BY <1>2 DEF MarkFailed, CountInv, CountersMatchRows, FailedIffChunkFailed, Completed, Failed, Rows
<1>3. CASE chunk[c].status \notin FinalChunk \union {"absent"}
  <2>1. chunk' = [chunk EXCEPT ![c].status = "failed"] /\ job' = DeadLetteredJob
    BY <1>3 DEF MarkFailed
  <2>2. \A x \in Chunk : chunk'[x].status = IF x = c THEN "failed" ELSE chunk[x].status
    BY <2>1, <1>1 DEF TypeOK, ChunkRow
  <2>3. /\ Failed' = Failed \union {c}
        /\ c \notin Failed
        /\ Completed' = Completed
        /\ Rows' = Rows
    BY <2>2, <1>1, <1>3 DEF Completed, Failed, Rows, FinalChunk
  <2>4. /\ Cardinality(Failed') = Cardinality(Failed) + 1
        /\ Completed \in SUBSET Chunk /\ Failed \in SUBSET Chunk
    BY <2>3, <1>1, CountOne DEF Completed, Failed
  <2>5. /\ job'.completed = job.completed
        /\ job'.failed = job.failed + 1
        /\ job'.total = job.total
        /\ job'.processed = job.processed
        /\ job'.rejected = job.rejected
        /\ job'.status = "failed"
        /\ job.failed \in Nat
    BY <2>1, <1>1 DEF DeadLetteredJob, TypeOK, JobRow
  <2>6. CountersMatchRows'
    BY <2>3, <2>4, <2>5 DEF CountInv, CountersMatchRows
  <2>7. FailedIffChunkFailed'
    BY <2>5 DEF FailedIffChunkFailed
  <2>8. (job.total <= Cardinality(Rows))'
    BY <2>3, <2>5 DEF CountInv
  <2> QED BY <2>6, <2>7, <2>8
<1> QED BY <1>2, <1>3

\* Announcing chunks inserts the rows it counts.
LEMMA SplitCommitCounts ==
  ASSUME CountInv, NEW e \in EventId, SplitCommit(e)
  PROVE  /\ CountersMatchRows'
         /\ FailedIffChunkFailed'
         /\ (job.total <= Cardinality(Rows))'
<1> DEFINE n == event[e].size
<1>1. TypeOK /\ n \in 0 .. MaxChunks /\ MaxChunks \in Nat
  BY BoundsAssumption DEF CountInv, QueueInv, TypeOK, Event
<1>2. \A x \in Chunk : chunk'[x].status = IF x < n /\ chunk[x].status = "absent"
                                          THEN "pending" ELSE chunk[x].status
  BY <1>1 DEF SplitCommit, TypeOK, ChunkRow
<1>3. Completed' = Completed /\ Failed' = Failed
  BY <1>2 DEF Completed, Failed
<1>4. 0 .. n - 1 \in SUBSET Rows' /\ Rows' \in SUBSET Chunk
  BY <1>1, <1>2 DEF Rows, Chunk
<1>5. Cardinality(0 .. n - 1) = n
  <2>1. n \in Nat /\ n - 1 \in Int
    BY <1>1
  <2> HIDE DEF n
  <2>2. Cardinality(0 .. n - 1) = IF 0 > n - 1 THEN 0 ELSE (n - 1) - 0 + 1
    BY <2>1, FS_Interval
  <2> QED BY <2>1, <2>2
<1>6. n <= Cardinality(Rows')
  BY <1>4, <1>5, CountMore
<1>7. /\ job'.total = n
      /\ job'.status = "processing"
      /\ job'.completed = job.completed
      /\ job'.failed = job.failed
      /\ job'.processed = job.processed
      /\ job'.rejected = job.rejected
  BY <1>1 DEF SplitCommit, TypeOK, JobRow
<1>8. job.status # "failed"
  BY DEF SplitCommit, SplitRefused, Splittable
<1> QED
  BY <1>3, <1>6, <1>7, <1>8 DEF CountInv, CountersMatchRows, FailedIffChunkFailed

\* Completing an empty file touches no counter.
LEMMA SplitEmptyCounts ==
  ASSUME CountInv, NEW e \in EventId, SplitEmpty(e)
  PROVE  /\ CountersMatchRows'
         /\ FailedIffChunkFailed'
         /\ (job.total <= Cardinality(Rows))'
<1>1. Completed' = Completed /\ Failed' = Failed /\ Rows' = Rows
  BY DEF SplitEmpty, Completed, Failed, Rows
<1>2. CASE SplitRefused
  BY <1>1, <1>2 DEF SplitEmpty, CountInv, CountersMatchRows, FailedIffChunkFailed
<1>3. CASE ~SplitRefused
  <2>1. /\ job'.total = 0
        /\ job'.status = "completed"
        /\ job'.completed = job.completed
        /\ job'.failed = job.failed
        /\ job'.processed = job.processed
        /\ job'.rejected = job.rejected
    BY <1>3 DEF SplitEmpty, CountInv, QueueInv, TypeOK, JobRow
  <2>2. job.status # "failed"
    BY <1>3 DEF SplitRefused, Splittable
  <2>3. Cardinality(Rows') \in Nat
    BY <1>1, FiniteRows DEF Rows
  <2> QED BY <1>1, <2>1, <2>2, <2>3 DEF CountInv, CountersMatchRows, FailedIffChunkFailed
<1> QED BY <1>2, <1>3

\* The completion that leaves no row open finds the job accounted for.
LEMMA LastCompletionEndsJob ==
  ASSUME CountInv, NEW m \in MsgId, MarkCompleted(m), ~CompletionRefused(msg[m].chunk),
         \A x \in Chunk : chunk'[x].status \notin OpenChunk
  PROVE  job'.status \in FinalJob
<1> DEFINE c == msg[m].chunk
<1>1. TypeOK /\ c \in Chunk /\ chunk[c].status # "absent"
  BY DEF CountInv, QueueInv, MessagesNameRows, MarkCompleted
<1>2. chunk'[c].status = "completed" /\ \A x \in Chunk : x # c => chunk'[x] = chunk[x]
  BY <1>1 DEF MarkCompleted, TypeOK, CompletedRow
<1>3. \A x \in Chunk : chunk[x].status \in ChunkStatus
  BY <1>1 DEF TypeOK, ChunkRow
<1>4. Rows = (Completed \union {c}) \union Failed
  BY <1>1, <1>2, <1>3 DEF Rows, Completed, Failed, ChunkStatus, OpenChunk
<1>5. /\ c \notin Completed /\ c \notin Failed
      /\ Completed \in SUBSET Chunk /\ Failed \in SUBSET Chunk
      /\ Completed \union {c} \in SUBSET Chunk
      /\ (Completed \union {c}) \intersect Failed = {}
  BY <1>1 DEF CompletionRefused, Completed, Failed, FinalChunk
<1>6. Cardinality(Completed \union {c}) = Cardinality(Completed) + 1
  BY <1>1, <1>5, CountOne
<1>7. Cardinality(Rows) = Cardinality(Completed) + 1 + Cardinality(Failed)
  <2>1. IsFiniteSet(Completed \union {c}) /\ IsFiniteSet(Failed)
    BY <1>5, FiniteRows
  <2>2. Cardinality(Rows) = Cardinality(Completed \union {c}) + Cardinality(Failed)
                            - Cardinality((Completed \union {c}) \intersect Failed)
    BY <2>1, <1>4, FS_Union
  <2>3. Cardinality((Completed \union {c}) \intersect Failed) = 0
    BY <1>5, FS_EmptySet
  <2>4. Cardinality(Completed) \in Nat /\ Cardinality(Failed) \in Nat
    BY <1>5, FiniteRows
  <2> QED BY <2>2, <2>3, <2>4, <1>6
<1>8. job.completed + 1 + job.failed >= job.total
  <2>1. job.completed \in Nat /\ job.failed \in Nat /\ job.total \in Nat
    BY <1>1 DEF TypeOK, JobRow
  <2> QED BY <2>1, <1>7 DEF CountInv, CountersMatchRows
<1>9. job' = AdvancedJob(CompletedRow(m))
  BY DEF MarkCompleted
<1> QED BY <1>1, <1>8, <1>9, AdvancedFields DEF FinalJob

\* Which steps touch the two tables.
LEMMA TableSteps ==
  ASSUME [Next]_vars
  PROVE  \/ UNCHANGED <<chunk, job>>
         \/ \E e \in EventId : SplitEmpty(e) \/ SplitCommit(e)
         \/ \E m \in MsgId : Claim(m) \/ MarkCompleted(m) \/ MarkFailed(m)
  BY DEF vars, Next, Bucket, Splitter, Worker, DeadLetter, Upload, RedeliverEvent, SplitHead,
         SplitRaced, SplitSelect, SplitSend, SplitDone, SplitFail, Receive,
         ReadChunk, DeleteMessage, WorkerDies, VisibilityTimeout, Process, Duplicate,
         DeleteDeadLetter, RedeliverDeadLetter

\* A claim counts nothing and leaves a row open.
LEMMA ClaimCounts ==
  ASSUME CountInv, NEW m \in MsgId, Claim(m)
  PROVE  /\ CountersMatchRows'
         /\ FailedIffChunkFailed'
         /\ (job.total <= Cardinality(Rows))'
         /\ AccountedJobIsFinal'
<1> DEFINE c == msg[m].chunk
<1>1. TypeOK /\ c \in Chunk /\ chunk[c].status # "absent" /\ job' = job
  BY DEF CountInv, QueueInv, MessagesNameRows, Claim
<1>2. CASE chunk' = chunk
  BY <1>1, <1>2 DEF CountInv, CountersMatchRows, FailedIffChunkFailed, AccountedJobIsFinal,
                    Completed, Failed, Rows, Finished
<1>3. CASE chunk[c].status \notin FinalChunk /\ chunk' = [chunk EXCEPT ![c].status = "processing"]
  <2>1. \A x \in Chunk : chunk'[x].status = IF x = c THEN "processing" ELSE chunk[x].status
    BY <1>1, <1>3 DEF TypeOK, ChunkRow
  <2>2. Completed' = Completed /\ Failed' = Failed /\ Rows' = Rows
    BY <1>1, <1>3, <2>1 DEF Completed, Failed, Rows, FinalChunk
  <2>3. AccountedJobIsFinal'
    BY <1>1, <2>1 DEF AccountedJobIsFinal, OpenChunk
  <2> QED BY <1>1, <2>2, <2>3 DEF CountInv, CountersMatchRows, FailedIffChunkFailed
<1> QED BY <1>2, <1>3 DEF Claim, ClaimRefused

\* No step leaves an unfinished job without an open row to finish it.
LEMMA AccountedStep ==
  ASSUME CountInv, [Next]_vars, ~ \E m \in MsgId : Claim(m)
  PROVE  AccountedJobIsFinal'
<1> SUFFICES ASSUME NEW y \in Chunk, chunk'[y].status \in FinalChunk,
                    \A x \in Chunk : chunk'[x].status \notin OpenChunk
             PROVE  job'.status \in FinalJob
  BY DEF AccountedJobIsFinal, Finished
<1>1. TypeOK
  BY DEF CountInv, QueueInv
<1>2. ASSUME \A x \in Chunk : chunk'[x].status = chunk[x].status
      PROVE  job.status \in FinalJob
  BY <1>2 DEF CountInv, AccountedJobIsFinal, Finished
<1>3. CASE UNCHANGED <<chunk, job>>
  BY <1>2, <1>3
<1>4. ASSUME NEW e \in EventId, SplitEmpty(e) PROVE job'.status \in FinalJob
  BY <1>4, <1>2, <1>1, JobStep DEF SplitEmpty
<1>5. ASSUME NEW e \in EventId, SplitCommit(e) PROVE FALSE
  <2>1. \A x \in Chunk : chunk'[x].status = chunk[x].status
    BY <1>5, <1>1 DEF SplitCommit, TypeOK, ChunkRow, OpenChunk
  <2> QED BY <2>1, <1>2, <1>5 DEF SplitCommit, SplitRefused, Splittable, FinalJob
<1>6. ASSUME NEW m \in MsgId, MarkCompleted(m) PROVE job'.status \in FinalJob
  <2>1. CASE CompletionRefused(msg[m].chunk)
    BY <2>1, <1>6, <1>2 DEF MarkCompleted
  <2>2. CASE ~CompletionRefused(msg[m].chunk)
    BY <2>2, <1>6, LastCompletionEndsJob
  <2> QED BY <2>1, <2>2
<1>7. ASSUME NEW m \in MsgId, MarkFailed(m) PROVE job'.status \in FinalJob
  BY <1>7, <1>2, <1>1 DEF MarkFailed, DeadLetteredJob, TypeOK, JobRow, FinalJob
<1> QED BY <1>3, <1>4, <1>5, <1>6, <1>7, TableSteps

\* The counting invariant is inductive.
LEMMA CountInvStep == CountInv /\ [Next]_vars => CountInv'
<1> SUFFICES ASSUME CountInv, [Next]_vars PROVE CountInv'
  OBVIOUS
<1>1. QueueInv'
  BY QueueInvStep DEF CountInv
<1>2. /\ CountersMatchRows'
      /\ FailedIffChunkFailed'
      /\ (job.total <= Cardinality(Rows))'
  <2>1. CASE UNCHANGED <<chunk, job>>
    BY <2>1 DEF CountInv, CountersMatchRows, FailedIffChunkFailed, Completed, Failed, Rows
  <2> QED BY <2>1, TableSteps, SplitEmptyCounts, SplitCommitCounts, ClaimCounts, CompletionCounts, DeadLetterCounts
<1>3. AccountedJobIsFinal'
  BY AccountedStep, ClaimCounts
<1> QED BY <1>1, <1>2, <1>3 DEF CountInv

\* ... and holds of every behaviour.
LEMMA CountInvAlways == Spec => []CountInv
<1>1. ASSUME Init PROVE CountInv
  <2>1. QueueInv
    BY <1>1, InitTypeOK DEF Init, QueueInv, MessagesNameRows, AcknowledgedIsFinal, NoMessage, NoEvent
  <2>2. Completed = {} /\ Failed = {} /\ Rows = {}
    BY <1>1 DEF Init, Completed, Failed, Rows
  <2>3. job.completed = 0 /\ job.failed = 0 /\ job.total = 0 /\ job.processed = 0
        /\ job.rejected = 0 /\ job.status = "pending"
    BY <1>1 DEF Init
  <2>4. CountersMatchRows
    BY <2>2, <2>3, FS_EmptySet, BoundsAssumption DEF CountersMatchRows
  <2>5. AccountedJobIsFinal
    BY <1>1 DEF Init, AccountedJobIsFinal, Finished, FinalChunk
  <2> QED BY <2>1, <2>2, <2>3, <2>4, <2>5, FS_EmptySet DEF CountInv, FailedIffChunkFailed
<1>2. CountInv /\ [Next]_vars => CountInv'
  BY CountInvStep
<1> QED BY <1>1, <1>2, PTL DEF Spec

\* Every delivery of every chunk together advances the job's counters exactly once
\* per final chunk.
THEOREM CountersAreExact == Spec => []CountersMatchRows
<1>1. CountInv => CountersMatchRows
  BY DEF CountInv
<1> QED BY <1>1, CountInvAlways, PTL

\* A job reads 'failed' exactly when one of its chunks was dead-lettered.
THEOREM FailureIsReported == Spec => []FailedIffChunkFailed
<1>1. CountInv => FailedIffChunkFailed
  BY DEF CountInv
<1> QED BY <1>1, CountInvAlways, PTL

\* Every line of a completed chunk is a line on its own.
TallyInv == IsFiniteSet(ProcessedLines) /\ IsFiniteSet(RejectedLines) /\ TalliesMatchRows

\* A chunk has as many lines as its row says.
LEMMA ChunkLines ==
  ASSUME NEW c, NEW n \in Nat
  PROVE  IsFiniteSet({c} \X (1 .. n)) /\ Cardinality({c} \X (1 .. n)) = n
<1>1. IsFiniteSet({c}) /\ Cardinality({c}) = 1
  BY FS_Singleton
<1>2. IsFiniteSet(1 .. n) /\ Cardinality(1 .. n) = n
  <2>1. IsFiniteSet(1 .. n) /\ Cardinality(1 .. n) = IF 1 > n THEN 0 ELSE n - 1 + 1
    BY FS_Interval
  <2> QED BY <2>1
<1>3. IsFiniteSet({c} \X (1 .. n)) /\ Cardinality({c} \X (1 .. n)) = 1 * n
  BY <1>1, <1>2, FS_Product
<1> QED BY <1>3

\* The lines of one more chunk.
LEMMA MoreLines ==
  ASSUME NEW S, IsFiniteSet(S), NEW c, NEW n \in Nat, S \intersect ({c} \X (1 .. n)) = {}
  PROVE  /\ IsFiniteSet(S \union ({c} \X (1 .. n)))
         /\ Cardinality(S \union ({c} \X (1 .. n))) = Cardinality(S) + n
<1> DEFINE lines == {c} \X (1 .. n)
<1>1. IsFiniteSet(lines) /\ Cardinality(lines) = n
  BY ChunkLines
<1>2. S \intersect lines = {} /\ Cardinality({}) = 0
  BY FS_EmptySet
<1> HIDE DEF lines
<1>3. /\ IsFiniteSet(S \union lines)
      /\ Cardinality(S \union lines) = Cardinality(S) + Cardinality(lines) - Cardinality(S \intersect lines)
  BY <1>1, FS_Union
<1>4. Cardinality(S) \in Nat
  BY FS_CardinalityType
<1>5. PICK k \in Nat : k = Cardinality(S)
  BY <1>4
<1>6. Cardinality(S \union lines) = k + n
  <2>1. Cardinality(S \union lines) = k + n - 0
    BY <1>1, <1>2, <1>3, <1>5
  <2> QED BY <2>1
<1> QED BY <1>3, <1>5, <1>6 DEF lines

\* A step that completes no chunk leaves the lines and, with the totals, the tally.
LEMMA TallyStays ==
  ASSUME TypeOK, TallyInv, [Next]_vars, Completed' \subseteq Completed,
         job'.processed = job.processed, job'.rejected = job.rejected
  PROVE  TallyInv'
<1>1. \A c \in Completed : c \in Chunk /\ Finished(c)
  BY DEF Completed, Finished, FinalChunk
<1>2. \A c \in Completed : chunk'[c] = chunk[c]
  BY <1>1, RowStep
<1>3. Completed' = Completed
  BY <1>1, <1>2 DEF Completed
<1>4. ProcessedLines' = ProcessedLines /\ RejectedLines' = RejectedLines
  BY <1>2, <1>3 DEF ProcessedLines, RejectedLines
<1> QED BY <1>4 DEF TallyInv, TalliesMatchRows

\* A completion adds the lines of its chunk, once.
LEMMA CompletionTally ==
  ASSUME CountInv, TallyInv, [Next]_vars, NEW m \in MsgId, MarkCompleted(m)
  PROVE  TallyInv'
<1> DEFINE c == msg[m].chunk
           row == CompletedRow(m)
<1>1. TypeOK /\ c \in Chunk
  BY DEF CountInv, QueueInv, MessagesNameRows, MarkCompleted
<1>2. CASE CompletionRefused(c)
  BY <1>1, <1>2, TallyStays DEF MarkCompleted, Completed
<1>3. CASE ~CompletionRefused(c)
  <2>1. chunk' = [chunk EXCEPT ![c] = row] /\ job' = AdvancedJob(row)
    BY <1>3 DEF MarkCompleted
  <2>2. /\ row.status = "completed" /\ row.processed \in Nat /\ row.rejected \in Nat
        /\ row.processed = Lines - msg[m].rejected /\ row.rejected = msg[m].rejected
    <3>1. msg[m].rejected \in 0 .. Lines /\ Lines \in Nat
      BY <1>1, BoundsAssumption DEF TypeOK, Message
    <3>2. Lines - msg[m].rejected \in Nat /\ msg[m].rejected \in Nat
      BY <3>1
    <3> QED BY <3>2 DEF CompletedRow
  <2> HIDE DEF row
  <2>3. c \notin Completed /\ Completed \subseteq Chunk
    BY <1>3 DEF CompletionRefused, Completed, FinalChunk
  <2>4. \A x \in Chunk : chunk'[x] = IF x = c THEN row ELSE chunk[x]
    BY <1>1, <2>1 DEF TypeOK
  <2>5. Completed' = Completed \union {c}
    BY <1>1, <2>2, <2>4 DEF Completed
  <2> HIDE DEF c
  <2>6. \A x \in Completed : chunk'[x] = chunk[x]
    BY <2>3, <2>4
  <2>7. chunk'[c] = row
    BY <1>1, <2>4
  <2>8. ProcessedLines' = ProcessedLines \union ({c} \X (1 .. row.processed))
    BY <2>5, <2>6, <2>7 DEF ProcessedLines
  <2>9. RejectedLines' = RejectedLines \union ({c} \X (1 .. row.rejected))
    BY <2>5, <2>6, <2>7 DEF RejectedLines
  <2>10. /\ ProcessedLines \intersect ({c} \X (1 .. row.processed)) = {}
         /\ RejectedLines \intersect ({c} \X (1 .. row.rejected)) = {}
    BY <2>3 DEF ProcessedLines, RejectedLines
  <2>11. /\ IsFiniteSet(ProcessedLines') /\ Cardinality(ProcessedLines') = job.processed + row.processed
         /\ IsFiniteSet(RejectedLines') /\ Cardinality(RejectedLines') = job.rejected + row.rejected
    <3>1. /\ IsFiniteSet(ProcessedLines) /\ Cardinality(ProcessedLines) = job.processed
          /\ IsFiniteSet(RejectedLines) /\ Cardinality(RejectedLines) = job.rejected
      BY DEF TallyInv, TalliesMatchRows
    <3>2. /\ IsFiniteSet(ProcessedLines \union ({c} \X (1 .. row.processed)))
          /\ Cardinality(ProcessedLines \union ({c} \X (1 .. row.processed))) = job.processed + row.processed
      <4>1. PICK n \in Nat : n = row.processed
        BY <2>2
      <4>2. PICK S : S = ProcessedLines
        OBVIOUS
      <4>3. IsFiniteSet(S) /\ S \intersect ({c} \X (1 .. n)) = {}
        BY <2>10, <3>1, <4>1, <4>2
      <4>4. IsFiniteSet(S \union ({c} \X (1 .. n))) /\ Cardinality(S \union ({c} \X (1 .. n))) = Cardinality(S) + n
        BY <4>3, MoreLines
      <4> QED BY <3>1, <4>1, <4>2, <4>4
    <3>3. /\ IsFiniteSet(RejectedLines \union ({c} \X (1 .. row.rejected)))
          /\ Cardinality(RejectedLines \union ({c} \X (1 .. row.rejected))) = job.rejected + row.rejected
      <4>1. PICK n \in Nat : n = row.rejected
        BY <2>2
      <4>2. PICK S : S = RejectedLines
        OBVIOUS
      <4>3. IsFiniteSet(S) /\ S \intersect ({c} \X (1 .. n)) = {}
        BY <2>10, <3>1, <4>1, <4>2
      <4>4. IsFiniteSet(S \union ({c} \X (1 .. n))) /\ Cardinality(S \union ({c} \X (1 .. n))) = Cardinality(S) + n
        BY <4>3, MoreLines
      <4> QED BY <3>1, <4>1, <4>2, <4>4
    <3> QED BY <2>8, <2>9, <3>2, <3>3
  <2>12. job'.processed = job.processed + row.processed /\ job'.rejected = job.rejected + row.rejected
    BY <1>1, <2>1, <2>2, AdvancedFields DEF row
  <2> QED BY <2>11, <2>12 DEF TallyInv, TalliesMatchRows
<1> QED BY <1>2, <1>3

LEMMA TallyInvStep == CountInv /\ TallyInv /\ [Next]_vars => TallyInv'
<1> SUFFICES ASSUME CountInv, TallyInv, [Next]_vars PROVE TallyInv'
  OBVIOUS
<1>1. TypeOK /\ MessagesNameRows
  BY DEF CountInv, QueueInv
<1>2. CASE UNCHANGED <<chunk, job>>
  BY <1>1, <1>2, TallyStays DEF Completed
<1>3. ASSUME NEW e \in EventId, SplitEmpty(e) PROVE TallyInv'
  <2>1. chunk' = chunk /\ job'.processed = job.processed /\ job'.rejected = job.rejected
    BY <1>1, <1>3 DEF SplitEmpty, TypeOK, JobRow
  <2> QED BY <1>1, <2>1, TallyStays DEF Completed
<1>4. ASSUME NEW e \in EventId, SplitCommit(e) PROVE TallyInv'
  <2>1. job'.processed = job.processed /\ job'.rejected = job.rejected
    BY <1>1, <1>4 DEF SplitCommit, TypeOK, JobRow
  <2>2. Completed' \subseteq Completed
    BY <1>1, <1>4 DEF SplitCommit, TypeOK, ChunkRow, Completed
  <2> QED BY <1>1, <2>1, <2>2, TallyStays
<1>5. ASSUME NEW m \in MsgId, Claim(m) PROVE TallyInv'
  <2>1. Completed' \subseteq Completed
    BY <1>1, <1>5 DEF Claim, TypeOK, ChunkRow, Completed
  <2>2. job' = job
    BY <1>5 DEF Claim
  <2> QED BY <1>1, <2>1, <2>2, TallyStays
<1>6. ASSUME NEW m \in MsgId, MarkFailed(m) PROVE TallyInv'
  <2>1. job'.processed = job.processed /\ job'.rejected = job.rejected
    BY <1>1, <1>6 DEF MarkFailed, DeadLetteredJob, TypeOK, JobRow
  <2>2. Completed' \subseteq Completed
    BY <1>1, <1>6 DEF MarkFailed, TypeOK, ChunkRow, Completed
  <2> QED BY <1>1, <2>1, <2>2, TallyStays
<1> QED BY <1>2, <1>3, <1>4, <1>5, <1>6, CompletionTally, TableSteps

\* The job's row totals are the lines of its completed chunks, each counted once, for
\* every number of chunks and lines: what a losing delivery counted never reaches the job.
THEOREM TalliesAreExact == Spec => []TalliesMatchRows
<1>1. Init => TallyInv
  <2> SUFFICES ASSUME Init PROVE TallyInv
    OBVIOUS
  <2>1. Completed = {} /\ job.processed = 0 /\ job.rejected = 0
    BY DEF Init, Completed
  <2>2. ProcessedLines = {} /\ RejectedLines = {}
    BY <2>1 DEF ProcessedLines, RejectedLines
  <2> QED BY <2>1, <2>2, FS_EmptySet DEF TallyInv, TalliesMatchRows
<1>2. TallyInv => TalliesMatchRows
  BY DEF TallyInv
<1> QED BY <1>1, <1>2, TallyInvStep, CountInvAlways, PTL DEF Spec

\* A job whose rows are all final is finished, also after a second upload.
THEOREM AccountedJobsEnd == Spec => []AccountedJobIsFinal
<1>1. CountInv => AccountedJobIsFinal
  BY DEF CountInv
<1> QED BY <1>1, CountInvAlways, PTL

-----------------------------------------------------------------------------
(* One upload: every split sees the same object (FileInv), the chunk rows  *)
(* are exactly the announced chunks, and a completion that accounts for    *)
(* the total without a failure has completed them all.                     *)

\* The bucket holds nothing or the one object, and every split under way has
\* its size.
OneObject ==
    /\ uploads \in {0, 1}
    /\ \A e \in EventId :
          /\ uploads = 0 => event[e].at = "free"
          /\ event[e].at \in Splitting => event[e].size = size
    /\ job.total \in {0, size}
    /\ uploads = 0 => job.total = 0

\* The rows are the announced chunks, and those of a completed job completed.
Announced ==
    \A c \in Chunk :
        /\ chunk[c].status # "absent" <=> c < job.total
        /\ job.status = "completed" /\ c < job.total => chunk[c].status = "completed"

FileInv == OneObject /\ Announced

-----------------------------------------------------------------------------
(* The invariant. *)

\* Nothing is uploaded and nothing announced at first.
LEMMA InitFile == Init => FileInv
<1> SUFFICES ASSUME Init PROVE FileInv
  OBVIOUS
<1> USE DEF Init, NoEvent
<1>1. job.total = 0 /\ job.status = "pending" /\ uploads = 0
  OBVIOUS
<1>2. OneObject
  BY <1>1 DEF OneObject, Splitting
<1>3. \A c \in Chunk : chunk[c].status = "absent" /\ ~(c < 0)
  BY BoundsAssumption DEF Chunk
<1> QED BY <1>1, <1>2, <1>3 DEF FileInv, Announced

\* Which steps touch the events.
LEMMA EventSteps ==
  ASSUME [Next]_vars
  PROVE  \/ UNCHANGED <<uploads, size, event>>
         \/ \E e \in EventId : Bucket(e) \/ Splitter(e)
  BY DEF vars, Next, Worker, DeadLetter, Receive, ReadChunk, Claim, Process, MarkCompleted,
         DeleteMessage, WorkerDies, VisibilityTimeout, Duplicate, MarkFailed,
         DeleteDeadLetter, RedeliverDeadLetter

\* Every event is of the one object.
LEMMA OneObjectEvents ==
  ASSUME MaxUploads = 1, TypeOK, OneObject, [Next]_vars
  PROVE  /\ uploads' \in {0, 1}
         /\ \A e \in EventId :
               /\ uploads' = 0 => event'[e].at = "free"
               /\ event'[e].at \in Splitting => event'[e].size = size'
         /\ size' = size \/ uploads = 0
         /\ uploads' = 0 => uploads = 0
<1> USE DEF OneObject, TypeOK, Event, NoEvent, Splitting
<1>1. CASE UNCHANGED <<uploads, size, event>>
  BY <1>1
<1>2. ASSUME NEW e \in EventId, NEW n \in 0 .. MaxChunks, Upload(e, n)
      PROVE  uploads = 0 /\ uploads' = 1 /\ \A x \in EventId : event'[x].at \notin Splitting
  BY <1>2 DEF Upload
<1> DEFINE SameObject ==
             /\ UNCHANGED <<uploads, size>>
             /\ uploads # 0
             /\ \A x \in EventId : event'[x].at \in Splitting => event'[x].size = size
<1>3. ASSUME NEW e \in EventId, NEW at, event[e].at # "free", UNCHANGED <<uploads, size>>,
             event' = [event EXCEPT ![e].at = at]
      PROVE  event[e].at \in Splitting => SameObject
  BY <1>3
<1>4. ASSUME NEW e \in EventId, event[e].at # "free" \/ uploads > 0, UNCHANGED <<uploads, size>>,
             NEW at, event' = [event EXCEPT ![e] = [NoEvent EXCEPT !.at = at]], at \notin Splitting
      PROVE  SameObject
  BY <1>4
<1>6. ASSUME NEW e \in EventId, event[e].at # "free", UNCHANGED <<uploads, size>>, event' = [event EXCEPT ![e] = NoEvent]
      PROVE  SameObject
  BY <1>6
<1>7. ASSUME NEW e \in EventId, RedeliverEvent(e) PROVE SameObject
  BY <1>7 DEF RedeliverEvent
<1>8. ASSUME NEW e \in EventId, SplitHead(e) PROVE SameObject
  BY <1>8 DEF SplitHead
<1>9. ASSUME NEW e \in EventId, SplitEmpty(e) \/ SplitRaced(e) \/ SplitDone(e) PROVE SameObject
  BY <1>9, <1>6 DEF SplitEmpty, SplitRaced, SplitDone
<1>10. ASSUME NEW e \in EventId, SplitCommit(e) PROVE SameObject
  BY <1>10, <1>3 DEF SplitCommit
<1>11. ASSUME NEW e \in EventId, SplitSelect(e) PROVE SameObject
  BY <1>11 DEF SplitSelect
<1>12. ASSUME NEW e \in EventId, SplitFail(e) PROVE SameObject
  BY <1>12, <1>4 DEF SplitFail, AfterFailure
<1>13. ASSUME NEW e \in EventId, NEW c \in Chunk, NEW m \in MsgId, SplitSend(e, c, m) PROVE SameObject
  BY <1>13 DEF SplitSend
<1>5. \/ UNCHANGED <<uploads, size, event>>
      \/ \E e \in EventId, n \in 0 .. MaxChunks : Upload(e, n)
      \/ \E e \in EventId : RedeliverEvent(e) \/ SplitHead(e) \/ SplitEmpty(e) \/ SplitCommit(e)
                            \/ SplitRaced(e) \/ SplitSelect(e) \/ SplitDone(e) \/ SplitFail(e)
      \/ \E e \in EventId, c \in Chunk, m \in MsgId : SplitSend(e, c, m)
  BY EventSteps DEF Bucket, Splitter
<1> QED BY <1>1, <1>2, <1>5, <1>7, <1>8, <1>9, <1>10, <1>11, <1>12, <1>13

\* A chunk of a completed job is never worked on again, so the job row stays as it is.
LEMMA CompletedStays ==
  ASSUME CountInv, Announced, [Next]_vars, job.status = "completed"
  PROVE  job' = job /\ chunk' = chunk
<1>1. TypeOK /\ MessagesNameRows
  BY DEF CountInv, QueueInv
<1>2. \A c \in Chunk : chunk[c].status \in {"absent", "completed"}
  BY DEF Announced
<1>3. ASSUME NEW e \in EventId, SplitEmpty(e) \/ SplitCommit(e) PROVE job' = job /\ chunk' = chunk
  BY <1>3 DEF SplitEmpty, SplitCommit, SplitRefused, Splittable
<1>4. ASSUME NEW m \in MsgId, msg[m].at # "free" PROVE chunk[msg[m].chunk].status = "completed"
  BY <1>1, <1>2, <1>4 DEF MessagesNameRows
<1>5. ASSUME NEW m \in MsgId, Claim(m) PROVE job' = job /\ chunk' = chunk
  BY <1>4, <1>5 DEF Claim, ClaimRefused, FinalChunk
<1>6. ASSUME NEW m \in MsgId, MarkCompleted(m) PROVE job' = job /\ chunk' = chunk
  BY <1>4, <1>6 DEF MarkCompleted, CompletionRefused, FinalChunk
<1>7. ASSUME NEW m \in MsgId, MarkFailed(m) PROVE job' = job /\ chunk' = chunk
  BY <1>4, <1>7 DEF MarkFailed, FinalChunk
<1> QED BY <1>3, <1>5, <1>6, <1>7, TableSteps

\* The rows of an announced file are as many as its chunks.
LEMMA RowsCounted ==
  ASSUME TypeOK, OneObject, Announced
  PROVE  Cardinality(Rows) = job.total
<1>1. job.total \in 0 .. MaxChunks /\ MaxChunks \in Nat
  BY BoundsAssumption DEF TypeOK, OneObject
<1> DEFINE n == job.total
<1>2. Rows = 0 .. n - 1
  BY <1>1 DEF Rows, Announced, Chunk
<1>3. n \in Nat /\ n - 1 \in Int
  BY <1>1
<1> HIDE DEF n
<1>4. Cardinality(0 .. n - 1) = IF 0 > n - 1 THEN 0 ELSE (n - 1) - 0 + 1
  BY <1>3, FS_Interval
<1>5. Cardinality(0 .. n - 1) = n
  BY <1>3, <1>4
<1> QED BY <1>2, <1>5 DEF n

\* A completion keeps the rows announced, and one that ends the job as
\* 'completed' has completed the last of them.
LEMMA CompletionAnnounced ==
  ASSUME CountInv, FileInv, NEW m \in MsgId, MarkCompleted(m), job.status # "completed"
  PROVE  Announced' /\ job'.total = job.total
<1> DEFINE c == msg[m].chunk
<1>1. TypeOK /\ c \in Chunk /\ chunk[c].status # "absent"
  BY DEF CountInv, QueueInv, MessagesNameRows, MarkCompleted
<1>2. CASE CompletionRefused(c)
  BY <1>2 DEF MarkCompleted, FileInv, Announced
<1>3. CASE ~CompletionRefused(c)
  <2>1. chunk' = [chunk EXCEPT ![c] = CompletedRow(m)] /\ job' = AdvancedJob(CompletedRow(m))
    BY <1>3 DEF MarkCompleted
  <2>2. \A x \in Chunk : chunk'[x].status = IF x = c THEN "completed" ELSE chunk[x].status
    BY <2>1, <1>1 DEF TypeOK, CompletedRow
  <2>3. job'.total = job.total /\ job'.completed = job.completed + 1
    BY <2>1, <1>1, AdvancedFields
  <2>4. job'.status = "completed" => job.completed + 1 + job.failed >= job.total /\ ~(job.failed > 0)
    BY <2>1, <1>1, AdvancedFields
  <2>5. Completed' \in SUBSET Rows /\ Rows \in SUBSET Chunk
    BY <2>2, <1>1 DEF Completed, Rows
  <2>6. ASSUME job'.status = "completed" PROVE Completed' = Rows
    <3>1. job.completed + 1 >= job.total
      <4>1. job.failed \in Nat /\ job.completed \in Nat /\ job.total \in Nat
        BY <1>1 DEF TypeOK, JobRow
      <4> QED BY <2>4, <2>6, <4>1
    <3>2. Cardinality(Completed') = job.completed + 1
      BY <2>3, CompletionCounts DEF CountersMatchRows
    <3>3. Cardinality(Rows) = job.total
      BY <1>1, RowsCounted DEF FileInv
    <3>4. IsFiniteSet(Rows) /\ Cardinality(Completed') \in Nat /\ Cardinality(Rows) \in Nat
      BY <2>5, FiniteRows
    <3>5. Cardinality(Completed') <= Cardinality(Rows)
      BY <3>4, <2>5, FS_Subset
    <3>6. Cardinality(Completed') = Cardinality(Rows)
      BY <3>1, <3>2, <3>3, <3>4, <3>5
    <3> QED BY <2>5, <3>4, <3>6, FS_Subset
  <2>7. Announced'
    BY <1>1, <2>2, <2>3, <2>6 DEF FileInv, Announced, Completed, Rows
  <2> QED BY <2>3, <2>7
<1> QED BY <1>2, <1>3

\* With one upload FileInv is inductive.
LEMMA FileStep == MaxUploads = 1 /\ CountInv /\ FileInv /\ [Next]_vars => FileInv'
<1> SUFFICES ASSUME MaxUploads = 1, CountInv, FileInv, [Next]_vars PROVE FileInv'
  OBVIOUS
<1>1. TypeOK /\ MessagesNameRows /\ TypeOK'
  BY NextTypeOK DEF CountInv, QueueInv
<1>2. /\ uploads' \in {0, 1}
      /\ \A e \in EventId :
            /\ uploads' = 0 => event'[e].at = "free"
            /\ event'[e].at \in Splitting => event'[e].size = size'
      /\ size' = size \/ uploads = 0
      /\ uploads' = 0 => uploads = 0
  BY <1>1, OneObjectEvents DEF FileInv
<1>3. CASE job.status = "completed"
  <2>1. job' = job /\ chunk' = chunk
    BY <1>3, CompletedStays DEF FileInv
  <2> QED BY <1>2, <2>1 DEF FileInv, OneObject, Announced
<1>4. CASE UNCHANGED <<chunk, job>>
  BY <1>2, <1>4 DEF FileInv, OneObject, Announced
<1>5. ASSUME NEW e \in EventId, SplitEmpty(e), job.status # "completed" PROVE FileInv'
  <2>1. chunk' = chunk /\ uploads' = uploads /\ size' = size /\ size = 0
    BY <1>5 DEF SplitEmpty, FileInv, OneObject, Splitting
  <2>2. job.total = 0 /\ job'.total = 0
    BY <1>1, <1>5, <2>1 DEF SplitEmpty, FileInv, OneObject, TypeOK, JobRow
  <2>3. Announced'
    BY <2>1, <2>2, BoundsAssumption DEF FileInv, Announced, Chunk
  <2> QED BY <1>2, <2>1, <2>2, <2>3 DEF FileInv, OneObject
<1>6. ASSUME NEW e \in EventId, SplitCommit(e), job.status # "completed" PROVE FileInv'
  <2>1. uploads' = uploads /\ size' = size /\ event[e].size = size /\ uploads # 0
    BY <1>6 DEF SplitCommit, FileInv, OneObject, Splitting
  <2>2. job'.total = size /\ job'.status = "processing"
    BY <1>1, <1>6, <2>1 DEF SplitCommit, TypeOK, JobRow
  <2>3. \A c \in Chunk : chunk'[c].status = IF c < size /\ chunk[c].status = "absent"
                                            THEN "pending" ELSE chunk[c].status
    BY <1>1, <1>6, <2>1 DEF SplitCommit, TypeOK, ChunkRow
  <2>4. \A c \in Chunk : ~(c < 0)
    BY BoundsAssumption DEF Chunk
  <2>5. Announced'
    BY <2>2, <2>3, <2>4 DEF FileInv, OneObject, Announced
  <2> QED BY <1>2, <2>1, <2>2, <2>5 DEF FileInv, OneObject
<1>7. ASSUME NEW m \in MsgId, Claim(m), job.status # "completed" PROVE FileInv'
  <2> DEFINE c == msg[m].chunk
  <2>1. job' = job /\ c \in Chunk /\ chunk[c].status # "absent"
    BY <1>1, <1>7 DEF Claim, MessagesNameRows
  <2>2. \A x \in Chunk : chunk'[x].status # "absent" <=> chunk[x].status # "absent"
    BY <1>1, <1>7, <2>1 DEF Claim, TypeOK, ChunkRow
  <2> QED BY <1>2, <1>7, <2>1, <2>2 DEF FileInv, OneObject, Announced
<1>8. ASSUME NEW m \in MsgId, MarkCompleted(m), job.status # "completed" PROVE FileInv'
  <2>1. Announced' /\ job'.total = job.total
    BY <1>8, CompletionAnnounced
  <2> QED BY <1>2, <2>1 DEF FileInv, OneObject
<1>9. ASSUME NEW m \in MsgId, MarkFailed(m), ~UNCHANGED <<chunk, job>> PROVE FileInv'
  <2> DEFINE c == msg[m].chunk
  <2>1. /\ c \in Chunk /\ chunk[c].status # "absent"
        /\ chunk' = [chunk EXCEPT ![c].status = "failed"] /\ job' = DeadLetteredJob
    BY <1>1, <1>9 DEF MarkFailed, MessagesNameRows
  <2>2. job'.total = job.total /\ job'.status = "failed"
    BY <1>1, <2>1 DEF DeadLetteredJob, TypeOK, JobRow
  <2>3. \A x \in Chunk : chunk'[x].status # "absent" <=> chunk[x].status # "absent"
    BY <1>1, <2>1 DEF TypeOK, ChunkRow
  <2> QED BY <1>2, <2>2, <2>3 DEF FileInv, OneObject, Announced
<1> QED BY <1>3, <1>4, <1>5, <1>6, <1>7, <1>8, <1>9, TableSteps

\* ... and holds of every behaviour.
LEMMA FileAlways == Spec => [](MaxUploads = 1 => FileInv)
<1>1. Init => (MaxUploads = 1 => FileInv)
  BY InitFile
<1>2. CountInv /\ (MaxUploads = 1 => FileInv) /\ [Next]_vars => (MaxUploads = 1 => FileInv)'
  <2>1. (MaxUploads = 1)' <=> MaxUploads = 1
    OBVIOUS
  <2> QED BY <2>1, FileStep
<1> QED BY <1>1, <1>2, CountInvAlways, PTL DEF Spec

\* A job that reads 'completed' has completed every announced chunk, and holds
\* no other row (CompletedMeansAll).
THEOREM CompletedJobsAreWhole == Spec => []CompletedMeansAll
<1>1. TypeOK /\ (MaxUploads = 1 => FileInv) => CompletedMeansAll
  BY DEF CompletedMeansAll, FileInv, Announced
<1> QED BY <1>1, TypeCorrect, FileAlways, PTL

-----------------------------------------------------------------------------
(* The refinement. *)

\* The ledger's variables, under the mapping of LedgerSpec.
Parts == {c \in Chunk : chunk[c].status # "absent"}
Outcome == [c \in Chunk |-> IF Finished(c) THEN chunk[c].status ELSE "open"]
Tally == [processed |-> job.processed, rejected |-> job.rejected]
ToldVerdict == IF job.status \in FinalJob THEN job.status ELSE "open"

\* The initial states are the ledger's.
LEMMA InitLedger == Init => Ledger!Init
  BY DEF Init, Ledger!Init, Finished, FinalChunk, FinalJob

\* The transaction that announces the chunks announces them once: a later split
\* of the same object finds the rows it would insert.
LEMMA CommitAnnounces ==
  ASSUME TypeOK, FileInv, NEW e \in EventId, SplitCommit(e)
  PROVE  Ledger!Next \/ UNCHANGED Ledger!lvars
<1>1. event[e].size = size /\ size > 0
  BY DEF SplitCommit, FileInv, OneObject, Splitting
<1>2. \A c \in Chunk : chunk'[c].status = IF c < size /\ chunk[c].status = "absent"
                                          THEN "pending" ELSE chunk[c].status
  BY <1>1 DEF SplitCommit, TypeOK, ChunkRow
<1>3. /\ job.status \notin FinalJob
      /\ job'.status = "processing"
      /\ job'.processed = job.processed
      /\ job'.rejected = job.rejected
  BY DEF SplitCommit, SplitRefused, Splittable, FinalJob, TypeOK, JobRow
<1>4. ToldVerdict = "open" /\ ToldVerdict' = "open" /\ Tally' = Tally
  BY <1>3 DEF ToldVerdict, Tally, FinalJob
<1>5. Outcome' = Outcome
  BY <1>2 DEF Outcome, Finished, FinalChunk
<1>6. CASE Parts = {}
  <2>1. PICK S \in SUBSET Chunk : S = Parts'
    BY DEF Parts
  <2>2. Ledger!Announce(S)
    BY <1>4, <1>5, <1>6, <2>1 DEF Ledger!Announce, Parts, Outcome, Tally, ToldVerdict
  <2> QED BY <2>2 DEF Ledger!Next
<1>7. CASE Parts # {}
  <2>1. job.total = size
    <3>1. PICK c \in Chunk : chunk[c].status # "absent"
      BY <1>7 DEF Parts
    <3>2. c < job.total /\ ~(c < 0)
      BY <3>1, BoundsAssumption DEF FileInv, Announced, Chunk
    <3> QED BY <3>2 DEF FileInv, OneObject
  <2>2. \A c \in Chunk : chunk'[c].status = chunk[c].status
    BY <1>2, <2>1 DEF FileInv, Announced
  <2>3. Parts' = Parts
    BY <2>2 DEF Parts
  <2> QED BY <1>4, <1>5, <2>3 DEF Ledger!lvars, Parts, Outcome, Tally, ToldVerdict
<1> QED BY <1>6, <1>7

\* An empty object completes a job with no chunk.
LEMMA EmptyCompletes ==
  ASSUME TypeOK, FileInv, NEW e \in EventId, SplitEmpty(e)
  PROVE  Ledger!Next \/ UNCHANGED Ledger!lvars
<1>1. CASE SplitRefused
  BY <1>1 DEF SplitEmpty, Ledger!lvars, Finished
<1>2. CASE ~SplitRefused
  <2>1. chunk' = chunk /\ size = 0
    BY DEF SplitEmpty, FileInv, OneObject, Splitting
  <2>2. /\ job.status \notin FinalJob
        /\ job'.status = "completed"
        /\ job'.processed = job.processed
        /\ job'.rejected = job.rejected
    BY <1>2 DEF SplitEmpty, SplitRefused, Splittable, FinalJob, TypeOK, JobRow
  <2>3. job.total = 0
    BY <2>1 DEF FileInv, OneObject
  <2>4. Parts = {} /\ Parts' = Parts
    BY <2>1, <2>3, BoundsAssumption DEF FileInv, Announced, Parts, Chunk
  <2>5. Outcome' = Outcome /\ Tally' = Tally /\ ToldVerdict = "open" /\ ToldVerdict' = "completed"
    BY <2>1, <2>2 DEF Outcome, Finished, Tally, ToldVerdict, FinalJob
  <2>6. Ledger!EmptyFile
    BY <2>4, <2>5 DEF Ledger!EmptyFile, Parts, Outcome, Tally, ToldVerdict
  <2> QED BY <2>6 DEF Ledger!Next
<1> QED BY <1>1, <1>2

\* A completion settles its chunk, adds its rows, and gives the verdict the
\* settlements call for.
LEMMA CompletionSettles ==
  ASSUME CountInv, FileInv, NEW m \in MsgId, MarkCompleted(m)
  PROVE  Ledger!Next \/ UNCHANGED Ledger!lvars
<1> DEFINE c == msg[m].chunk
           r == msg[m].rejected
<1>1. TypeOK /\ c \in Chunk /\ chunk[c].status # "absent" /\ r \in 0 .. Lines
  BY DEF CountInv, QueueInv, MessagesNameRows, MarkCompleted, TypeOK, Message
<1>2. CASE CompletionRefused(c)
  BY <1>2 DEF MarkCompleted, Ledger!lvars, Finished
<1>3. CASE ~CompletionRefused(c)
  <2>1. chunk' = [chunk EXCEPT ![c] = CompletedRow(m)] /\ job' = AdvancedJob(CompletedRow(m))
    BY <1>3 DEF MarkCompleted
  <2>2. \A x \in Chunk : chunk'[x].status = IF x = c THEN "completed" ELSE chunk[x].status
    BY <2>1, <1>1 DEF TypeOK, CompletedRow
  <2>3. job.status # "completed"
    BY <1>1, <1>3 DEF FileInv, Announced, CompletionRefused, FinalChunk
  <2>4. Announced' /\ job'.total = job.total
    BY <2>3, CompletionAnnounced
  <2>5. Parts' = Parts /\ c \in Parts /\ Outcome[c] = "open"
    BY <1>1, <1>3, <2>2 DEF Parts, Outcome, Finished, CompletionRefused
  <2>6. Outcome' = [Outcome EXCEPT ![c] = "completed"]
    BY <1>1, <2>2 DEF Outcome, Finished, FinalChunk
  <2>7. Tally' = [processed |-> Tally.processed + (Lines - r), rejected |-> Tally.rejected + r]
    BY <2>1, <1>1, AdvancedFields DEF Tally
  <2>8. CountersMatchRows' /\ FailedIffChunkFailed'
    BY CompletionCounts
  <2>9. job'.status = "failed" <=> \E x \in Parts : Outcome'[x] = "failed"
    <3>1. Failed' \in SUBSET Chunk /\ IsFiniteSet(Failed')
      BY FiniteRows DEF Failed
    <3>2. Cardinality(Failed') = 0 <=> Failed' = {}
      BY <3>1, FS_EmptySet
    <3>3. Cardinality(Failed') \in Nat /\ job'.failed = Cardinality(Failed')
      BY <2>8, <3>1, FiniteRows DEF CountersMatchRows
    <3>4. job'.status = "failed" <=> Failed' # {}
      BY <2>8, <3>2, <3>3 DEF FailedIffChunkFailed
    <3>5. \A x \in Chunk : Outcome'[x] = "failed" <=> chunk'[x].status = "failed"
      BY DEF Outcome, Finished, FinalChunk
    <3>6. \A x \in Chunk : chunk'[x].status = "failed" => x \in Parts'
      BY DEF Parts
    <3> QED BY <2>5, <3>4, <3>5, <3>6 DEF Failed, Parts
  <2>10. job'.status = "completed" => \A x \in Parts : Outcome'[x] = "completed"
    <3>1. \A x \in Parts' : x \in Chunk /\ x < job'.total
      BY <2>4 DEF Announced, Parts
    <3> QED BY <2>4, <2>5, <3>1 DEF Announced, Outcome, Finished, FinalChunk
  <2>11. (\A x \in Parts : Outcome'[x] = "completed") => job'.status = "completed"
    <3> SUFFICES ASSUME \A x \in Parts : Outcome'[x] = "completed" PROVE job'.status = "completed"
      OBVIOUS
    <3>1. \A x \in Parts' : chunk'[x].status = "completed"
      BY <2>5 DEF Outcome, Finished, Parts
    <3>2. Completed' = Rows /\ Failed' = {}
      BY <3>1, <2>2, <2>5 DEF Completed, Failed, Rows, Parts
    <3>3. job'.completed = job.total /\ job'.failed = 0
      BY <3>2, <2>8, <1>1, RowsCounted, FS_EmptySet DEF CountersMatchRows, FileInv
    <3>4. /\ job'.completed = job.completed + 1
          /\ job'.failed = job.failed
          /\ job'.status = IF job.completed + 1 + job.failed >= job.total
                           THEN IF job.failed > 0 THEN "failed" ELSE "completed"
                           ELSE job.status
      BY <2>1, <1>1, AdvancedFields
    <3>5. job.total \in Nat /\ job.completed \in Nat
      BY <1>1 DEF TypeOK, JobRow
    <3>6. job.completed + 1 = job.total /\ job.failed = 0
      BY <3>3, <3>4
    <3>7. job.completed + 1 + 0 >= job.total /\ ~(0 > 0)
      BY <3>5, <3>6
    <3> QED BY <3>4, <3>6, <3>7
  <2>12. ToldVerdict' = IF \E x \in Parts : Outcome'[x] = "failed" THEN "failed"
                        ELSE IF \A x \in Parts : Outcome'[x] = "completed" THEN "completed"
                        ELSE "open"
    BY <2>9, <2>10, <2>11 DEF ToldVerdict, FinalJob
  <2>13. PICK k \in Chunk, q \in 0 .. Lines : k = c /\ q = r
    BY <1>1
  <2>14. Ledger!Complete(k, q)
    BY <2>5, <2>6, <2>7, <2>12, <2>13 DEF Ledger!Complete, Ledger!Verdict, Parts, Outcome, Tally, ToldVerdict
  <2> QED BY <2>14 DEF Ledger!Next
<1> QED BY <1>2, <1>3

\* A dead letter settles its chunk and fails the job at once.
LEMMA DeadLetterSettles ==
  ASSUME CountInv, NEW m \in MsgId, MarkFailed(m)
  PROVE  Ledger!Next \/ UNCHANGED Ledger!lvars
<1> DEFINE c == msg[m].chunk
<1>1. TypeOK /\ c \in Chunk /\ chunk[c].status # "absent"
  BY DEF CountInv, QueueInv, MessagesNameRows, MarkFailed
<1>2. CASE chunk[c].status \in FinalChunk \union {"absent"}
  BY <1>2 DEF MarkFailed, Ledger!lvars, Finished
<1>3. CASE chunk[c].status \notin FinalChunk \union {"absent"}
  <2>1. chunk' = [chunk EXCEPT ![c].status = "failed"] /\ job' = DeadLetteredJob
    BY <1>3 DEF MarkFailed
  <2>2. \A x \in Chunk : chunk'[x].status = IF x = c THEN "failed" ELSE chunk[x].status
    BY <2>1, <1>1 DEF TypeOK, ChunkRow
  <2>3. job'.status = "failed" /\ job'.processed = job.processed /\ job'.rejected = job.rejected
    BY <2>1, <1>1 DEF DeadLetteredJob, TypeOK, JobRow
  <2>4. Parts' = Parts /\ c \in Parts /\ Outcome[c] = "open"
    BY <1>1, <1>3, <2>2 DEF Parts, Outcome, Finished
  <2>5. Outcome' = [Outcome EXCEPT ![c] = "failed"]
    BY <1>1, <2>2 DEF Outcome, Finished, FinalChunk
  <2>6. Tally' = Tally /\ ToldVerdict' = "failed"
    BY <2>3 DEF Tally, ToldVerdict, FinalJob
  <2>7. PICK k \in Chunk : k = c
    BY <1>1
  <2>8. Ledger!Fail(k)
    BY <2>4, <2>5, <2>6, <2>7 DEF Ledger!Fail, Parts, Outcome, Tally, ToldVerdict
  <2> QED BY <2>8 DEF Ledger!Next
<1> QED BY <1>2, <1>3

\* A claim is invisible to the client.
LEMMA ClaimIsInvisible ==
  ASSUME TypeOK, MessagesNameRows, NEW m \in MsgId, Claim(m)
  PROVE  UNCHANGED Ledger!lvars
<1> DEFINE c == msg[m].chunk
<1>1. CASE ClaimRefused(c)
  BY <1>1 DEF Claim, Ledger!lvars, Finished
<1>2. CASE ~ClaimRefused(c)
  <2>1. c \in Chunk /\ chunk[c].status # "absent" /\ job' = job
    BY DEF Claim, MessagesNameRows
  <2>2. \A x \in Chunk : chunk'[x].status = IF x = c THEN "processing" ELSE chunk[x].status
    BY <1>2, <2>1 DEF Claim, TypeOK, ChunkRow
  <2>3. Parts' = Parts /\ Outcome' = Outcome
    BY <1>2, <2>1, <2>2 DEF Parts, Outcome, Finished, ClaimRefused, FinalChunk
  <2> QED BY <2>1, <2>3 DEF Ledger!lvars, Parts, Outcome
<1> QED BY <1>1, <1>2

\* With one upload the job keeps the promise of JobLedger, for every number of
\* chunks, deliveries, crashes and redrives (LedgerSpec).
THEOREM JobKeepsItsPromise == MaxUploads = 1 => (Spec => LedgerSpec)
<1> SUFFICES ASSUME MaxUploads = 1 PROVE Spec => LedgerSpec
  OBVIOUS
<1>1. Init => Ledger!Init
  BY InitLedger
<1>2. CountInv /\ FileInv /\ [Next]_vars => [Ledger!Next]_(Ledger!lvars)
  <2> SUFFICES ASSUME CountInv, FileInv, [Next]_vars
               PROVE  Ledger!Next \/ UNCHANGED Ledger!lvars
    OBVIOUS
  <2>1. TypeOK /\ MessagesNameRows
    BY DEF CountInv, QueueInv
  <2>2. CASE UNCHANGED <<chunk, job>>
    BY <2>2 DEF Ledger!lvars, Finished
  <2> QED BY <2>1, <2>2, TableSteps, CommitAnnounces, EmptyCompletes, CompletionSettles,
             DeadLetterSettles, ClaimIsInvisible
<1>3. (MaxUploads = 1 => FileInv) => FileInv
  OBVIOUS
<1> QED BY <1>1, <1>2, <1>3, CountInvAlways, FileAlways, PTL DEF Spec, LedgerSpec, Ledger!Spec

-----------------------------------------------------------------------------
(* The upload client. *)

\* The command changes nothing of the job but by storing the object.
LEMMA JobStepOrStutter == [ClientNext]_cvars => [Next]_vars
<1> SUFFICES ASSUME [ClientNext]_cvars PROVE [Next]_vars
  OBVIOUS
<1>1. ASSUME NEW e \in EventId, NEW n \in 0 .. MaxChunks, Put(e, n) PROVE Next
  BY <1>1 DEF Put, Next, Bucket
<1>2. CASE Job
  BY <1>2 DEF Job, Next, Bucket
<1>3. CASE PutFails \/ Poll \/ PollFails \/ UNCHANGED cvars
  BY <1>3 DEF PutFails, Poll, PollFails, cvars
<1> QED BY <1>1, <1>2, <1>3 DEF ClientNext

\* The client sees a behaviour of the job (ClientSpec implements Spec).
THEOREM ClientRunsTheJob == ClientSpec => Spec
<1>1. ClientInit => Init
  BY DEF ClientInit
<1>2. [ClientNext]_cvars => [Next]_vars
  BY JobStepOrStutter
<1> QED BY <1>1, <1>2, PTL DEF ClientSpec, Spec

\* An exit with 0 follows a look at a completed job, which is what was printed.
LastLook == client = "completed" => job.status = "completed" /\ shown = job

\* The last look stays true: a completed job's row is never written again.
LEMMA LastLookStep ==
  ASSUME CountInv, FileInv, LastLook, [ClientNext]_cvars
  PROVE  LastLook'
<1> SUFFICES ASSUME client' = "completed" PROVE job'.status = "completed" /\ shown' = job'
  BY DEF LastLook
<1>1. CASE Poll
  BY <1>1 DEF Poll, Ended, ExitOf, FinalJob, vars
<1>2. CASE ~Poll
  <2>1. client = "completed" /\ shown' = shown
    BY <1>2 DEF ClientNext, cvars, Put, PutFails, PollFails
  <2>2. job' = job
    BY <2>1, JobStepOrStutter, CompletedStays DEF LastLook, FileInv
  <2> QED BY <2>1, <2>2 DEF LastLook
<1> QED BY <1>1, <1>2

\* A command that exits with 0 has printed the job's last word
\* (ExitZeroIsTheLastWord), whatever is redelivered after it.
THEOREM ZeroIsTheLastWord == MaxUploads = 1 => (ClientSpec => []ExitZeroIsTheLastWord)
<1> SUFFICES ASSUME MaxUploads = 1 PROVE ClientSpec => []ExitZeroIsTheLastWord
  OBVIOUS
<1>1. ClientInit => LastLook
  BY DEF ClientInit, LastLook
<1>2. CountInv /\ FileInv /\ LastLook /\ [ClientNext]_cvars => LastLook'
  BY LastLookStep
<1>3. (MaxUploads = 1 => FileInv) => FileInv
  OBVIOUS
<1>4. TypeOK /\ FileInv /\ LastLook => ExitZeroIsTheLastWord
  BY DEF LastLook, FileInv, Announced, ExitZeroIsTheLastWord
<1> QED
  BY <1>1, <1>2, <1>3, <1>4, ClientRunsTheJob, TypeCorrect, CountInvAlways, FileAlways, PTL
     DEF ClientSpec
=============================================================================
