----------------------------- MODULE JobLedger -----------------------------
(***************************************************************************)
(* What an ingestion job promises to the client that polls it, with no     *)
(* queue, worker or retry in sight: the chunks of the file are announced   *)
(* once, every chunk is settled at most once, each completed chunk is      *)
(* added to the job's row counts exactly when it settles, and the verdict  *)
(* follows from the settlements and is never taken back.                   *)
(***************************************************************************)
EXTENDS Naturals

CONSTANTS Chunk, Lines

VARIABLES
    parts,    \* the announced chunks
    outcome,  \* how each chunk was settled
    tally,    \* the row counts of the settled chunks
    verdict   \* what the client is told

lvars == <<parts, outcome, tally, verdict>>

Init ==
    /\ parts = {}
    /\ outcome = [c \in Chunk |-> "open"]
    /\ tally = [processed |-> 0, rejected |-> 0]
    /\ verdict = "open"

\* The verdict on a set of announced chunks with these settlements.
Verdict(o) ==
    IF \E c \in parts : o[c] = "failed" THEN "failed"
    ELSE IF \A c \in parts : o[c] = "completed" THEN "completed"
    ELSE "open"

Announce(S) ==
    /\ verdict = "open"
    /\ parts = {}
    /\ parts' = S
    /\ UNCHANGED <<outcome, tally, verdict>>

\* A file without a single chunk is complete as soon as it is seen.
EmptyFile ==
    /\ verdict = "open"
    /\ parts = {}
    /\ verdict' = "completed"
    /\ UNCHANGED <<parts, outcome, tally>>

Complete(c, rejected) ==
    /\ c \in parts
    /\ outcome[c] = "open"
    /\ outcome' = [outcome EXCEPT ![c] = "completed"]
    /\ tally' = [processed |-> tally.processed + (Lines - rejected),
                 rejected |-> tally.rejected + rejected]
    /\ verdict' = Verdict(outcome')
    /\ UNCHANGED parts

Fail(c) ==
    /\ c \in parts
    /\ outcome[c] = "open"
    /\ outcome' = [outcome EXCEPT ![c] = "failed"]
    /\ verdict' = "failed"
    /\ UNCHANGED <<parts, tally>>

Next ==
    \/ \E S \in SUBSET Chunk : Announce(S)
    \/ EmptyFile
    \/ \E c \in Chunk : Fail(c) \/ \E r \in 0 .. Lines : Complete(c, r)

Spec == Init /\ [][Next]_lvars
=============================================================================
