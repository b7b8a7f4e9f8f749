---------------------------- MODULE UploadClient ----------------------------
(***************************************************************************)
(* `ingest upload`, the command that creates a job, PUTs the file under    *)
(* the presigned URL and polls until the job ends, on top of IngestionJob. *)
(* The PUT has a time limit: the command may give up on an object that S3  *)
(* has stored, or stores later, and the job goes on without it.            *)
(***************************************************************************)
EXTENDS IngestionJob

VARIABLES
    client,  \* where the command is: "putting", "polling", or its exit: "completed", "failed", "error"
    shown    \* the job row it exits with; the first one until then

cvars == <<vars, client, shown>>

Exited == {"completed", "failed", "error"}

ClientTypeOK ==
    /\ TypeOK
    /\ client \in {"putting", "polling"} \union Exited
    /\ shown \in JobRow

\* The job exists and the PUT is on its way.
ClientInit ==
    /\ Init
    /\ client = "putting"
    /\ shown = job

\* S3 stores the object: its answer reaches the command, or the time limit was
\* faster; a PUT is not taken back when its sender gives up.
Put(e, n) ==
    /\ Upload(e, n)
    /\ client' \in (IF client = "putting" THEN {"polling", "error"} ELSE {client})
    /\ UNCHANGED shown

\* S3 refuses the PUT, or the time limit passes before S3 has stored anything.
PutFails ==
    /\ client = "putting"
    /\ client' = "error"
    /\ UNCHANGED <<vars, shown>>

\* Mutant: the job has ended when its chunks are accounted for.
CountedOut(j) == j.completed + j.failed >= j.total

Ended(j) == j.status \in FinalJob

\* The exit: 1 for a failed job.
ExitOf(j) == IF j.status = "failed" THEN "failed" ELSE "completed"

Poll ==
    /\ client = "polling"
    /\ Ended(job)
    /\ client' = ExitOf(job)
    /\ shown' = job
    /\ UNCHANGED vars

\* GET /ingestion/jobs/:id fails: the command does not retry.
PollFails ==
    /\ client = "polling"
    /\ client' = "error"
    /\ UNCHANGED <<vars, shown>>

Job ==
    \/ \E e \in EventId : RedeliverEvent(e) \/ Splitter(e)
    \/ \E m \in MsgId : Worker(m) \/ DeadLetter(m)

ClientNext ==
    \/ \E e \in EventId, n \in 0 .. MaxChunks : Put(e, n)
    \/ PutFails \/ Poll \/ PollFails
    \/ Job /\ UNCHANGED <<client, shown>>

\* The command's PUT ends within its time limit, and it asks again and again.
ClientFairness ==
    /\ Fairness
    /\ WF_cvars(PutFails)
    /\ WF_cvars(Poll \/ PollFails)

ClientSpec == ClientInit /\ [][ClientNext]_cvars /\ ClientFairness

-----------------------------------------------------------------------------
(* Properties. *)

\* A command that exits with 0 has printed the last word: every chunk of the
\* file is completed, none is open or failed, and the counts it printed are the
\* counts the job keeps, whatever is still redelivered (`ingest upload`). Like
\* CompletedMeansAll it is about an object that is uploaded once.
ExitZeroIsTheLastWord ==
    client = "completed" =>
        /\ shown = job
        /\ \A c \in Chunk : chunk[c].status = IF c < shown.total THEN "completed" ELSE "absent"

\* A stored upload's job ends even when its command gave up on it, and the
\* command itself ends: neither the PUT nor the polling lasts for ever, unless
\* the event source has given up on the split.
Parked == \E e \in EventId : event[e].at = "parked"
UploadEnds ==
    /\ JobEnds
    /\ client = "putting" ~> client \in Exited \/ Parked
=============================================================================
