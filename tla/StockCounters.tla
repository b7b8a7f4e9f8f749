---------------------------- MODULE StockCounters ----------------------------
(***************************************************************************)
(* The live stock of one product: the column in Postgres, the counter      *)
(* stock:{id} in Redis, writers that commit and then write through         *)
(* (adjustStock, createProduct, an ingestion batch), readers that read the *)
(* counter and backfill it from Postgres when it is missing.               *)
(*                                                                         *)
(* A stock level is the number of the commit that wrote it, so that an     *)
(* older level is a smaller number; 0 is the level before the first write. *)
(***************************************************************************)
EXTENDS Integers, FiniteSets

CONSTANTS
    Writer,     \* concurrent writes
    Reader,     \* concurrent reads
    Failures,   \* what can go wrong: failing commands ("set", "del", "fill", "get"), a "crash" of a writer
    MaxWrites,  \* bound: commits
    MaxFaults   \* bound: failures

ASSUME ActorsAssumption == Writer \intersect Reader = {}
ASSUME FailuresAssumption == Failures \subseteq {"set", "del", "fill", "get", "crash"}
ASSUME LimitsAssumption == MaxWrites \in Nat /\ MaxFaults \in Nat

VARIABLES
    stock,      \* the column: the last committed level
    counter,    \* the counter's level, and whether it has a TTL
    writer,     \* the writes in progress
    reader,     \* the reads in progress
    wire,       \* commands whose caller gave up on them and that Redis may still execute
    answered,   \* the last level whose writer has answered
    overlapped, \* history: a write committed before an earlier one had written through
    raced,      \* history: a counter was deleted while a backfill was under way
    unpublished,\* history: a write reached neither its SET nor its DEL
    faults

vars == <<stock, counter, writer, reader, wire, answered, overlapped, raced, unpublished, faults>>

Missing == [level |-> -1, ttl |-> FALSE]
Level == 0 .. MaxWrites

TypeOK ==
    /\ stock \in Level
    /\ counter \in [level : Level, ttl : BOOLEAN] \union {Missing}
    /\ writer \in [Writer -> [at : {"idle", "set", "del"}, level : Level]]
    /\ reader \in [Reader -> [at : {"idle", "get", "fetch", "fill", "answer"}, level : Level, due : Level]]
    /\ wire \in SUBSET [op : {"set", "del", "fill"}, from : Writer \union Reader, level : Level]
    /\ answered \in Level
    /\ overlapped \in BOOLEAN /\ raced \in BOOLEAN /\ unpublished \in BOOLEAN
    /\ faults \in 0 .. MaxFaults

Init ==
    /\ stock = 0
    /\ counter = Missing
    /\ writer = [w \in Writer |-> [at |-> "idle", level |-> 0]]
    /\ reader = [r \in Reader |-> [at |-> "idle", level |-> 0, due |-> 0]]
    /\ wire = {}
    /\ answered = 0
    /\ overlapped = FALSE /\ raced = FALSE /\ unpublished = FALSE
    /\ faults = 0

Fails(op) == op \in Failures /\ faults < MaxFaults /\ faults' = faults + 1

\* The command that failed or timed out was lost, or is still on its way.
MayArriveLate(op, who, level) ==
    wire' \in {wire, wire \union {[op |-> op, from |-> who, level |-> level]}}

\* The commands of one caller reach Redis in the order it sent them.
InOrder(who) == \A cmd \in wire : cmd.from # who

\* Mutant: counters are set without a TTL.
Forever(level) == [level |-> level, ttl |-> FALSE]

\* What SET ... EX leaves.
Counter(level) == [level |-> level, ttl |-> TRUE]

\* Mutant: the backfill is a plain SET.
Overwritten(level) == Counter(level)

\* What the backfill's SET ... NX leaves.
Backfilled(level) == IF counter = Missing THEN Counter(level) ELSE counter

Backfilling ==
    \/ \E r \in Reader : reader[r].at = "fill"
    \/ \E cmd \in wire : cmd.op = "fill"

-----------------------------------------------------------------------------
(* Writes. *)

\* The UPDATE (or the INSERT, or the batch's upsert) commits and returns the level.
Write(w) ==
    /\ writer[w].at = "idle"
    /\ stock < MaxWrites
    /\ stock' = stock + 1
    /\ writer' = [writer EXCEPT ![w] = [at |-> "set", level |-> stock + 1]]
    /\ overlapped' = (overlapped \/ \E o \in Writer : writer[o].at # "idle")
    /\ UNCHANGED <<counter, reader, wire, answered, raced, unpublished, faults>>

\* The write is answered.
Answers(w) ==
    /\ writer' = [writer EXCEPT ![w] = [at |-> "idle", level |-> 0]]
    /\ answered' = IF answered < writer[w].level THEN writer[w].level ELSE answered

\* The write-through.
Set(w) ==
    /\ writer[w].at = "set"
    /\ InOrder(w)
    /\ counter' = Counter(writer[w].level)
    /\ Answers(w)
    /\ UNCHANGED <<stock, reader, wire, overlapped, raced, unpublished, faults>>

\* Mutant: a failed write-through is only logged.
Ignored(w) == Answers(w)

\* A failed write-through has the counter deleted.
Dropped(w) == writer' = [writer EXCEPT ![w].at = "del"] /\ UNCHANGED answered

SetFails(w) ==
    /\ writer[w].at = "set"
    /\ Fails("set")
    /\ MayArriveLate("set", w, writer[w].level)
    /\ Dropped(w)
    /\ UNCHANGED <<stock, counter, reader, overlapped, raced, unpublished>>

Delete(w) ==
    /\ writer[w].at = "del"
    /\ InOrder(w)
    /\ counter' = Missing
    /\ raced' = (raced \/ Backfilling)
    /\ Answers(w)
    /\ UNCHANGED <<stock, reader, wire, overlapped, unpublished, faults>>

DeleteFails(w) ==
    /\ writer[w].at = "del"
    /\ Fails("del")
    /\ MayArriveLate("del", w, 0)
    /\ unpublished' = TRUE
    /\ Answers(w)
    /\ UNCHANGED <<stock, counter, reader, overlapped, raced>>

\* The process dies after the commit; its client gets no answer.
WriterDies(w) ==
    /\ writer[w].at # "idle"
    /\ Fails("crash")
    /\ writer' = [writer EXCEPT ![w] = [at |-> "idle", level |-> 0]]
    /\ unpublished' = TRUE
    /\ UNCHANGED <<stock, counter, reader, wire, answered, overlapped, raced>>

-----------------------------------------------------------------------------
(* Reads. *)

Arrive(r) ==
    /\ reader[r].at = "idle"
    /\ reader' = [reader EXCEPT ![r] = [at |-> "get", level |-> 0, due |-> answered]]
    /\ UNCHANGED <<stock, counter, writer, wire, answered, overlapped, raced, unpublished, faults>>

\* The reply holds a counter.
Hit == counter # Missing

\* The MGET of the counters, alone or with the version check of a warm entry.
Get(r) ==
    /\ reader[r].at = "get"
    /\ reader' = [reader EXCEPT ![r] = IF Hit
                                       THEN [@ EXCEPT !.at = "answer", !.level = counter.level]
                                       ELSE [@ EXCEPT !.at = "fetch"]]
    /\ UNCHANGED <<stock, counter, writer, wire, answered, overlapped, raced, unpublished, faults>>

GetFails(r) ==
    /\ reader[r].at = "get"
    /\ Fails("get")
    /\ reader' = [reader EXCEPT ![r].at = "fetch"]
    /\ UNCHANGED <<stock, counter, writer, wire, answered, overlapped, raced, unpublished>>

\* fetchStock.
Fetch(r) ==
    /\ reader[r].at = "fetch"
    /\ reader' = [reader EXCEPT ![r].at = "fill", ![r].level = stock]
    /\ UNCHANGED <<stock, counter, writer, wire, answered, overlapped, raced, unpublished, faults>>

Fill(r) ==
    /\ reader[r].at = "fill"
    /\ InOrder(r)
    /\ counter' = Backfilled(reader[r].level)
    /\ reader' = [reader EXCEPT ![r].at = "answer"]
    /\ UNCHANGED <<stock, writer, wire, answered, overlapped, raced, unpublished, faults>>

FillFails(r) ==
    /\ reader[r].at = "fill"
    /\ Fails("fill")
    /\ MayArriveLate("fill", r, reader[r].level)
    /\ reader' = [reader EXCEPT ![r].at = "answer"]
    /\ UNCHANGED <<stock, counter, writer, answered, overlapped, raced, unpublished>>

\* The response is written; or the client leaves, the database fails or the replica dies.
Leave(r) ==
    /\ reader[r].at # "idle"
    /\ reader' = [reader EXCEPT ![r] = [at |-> "idle", level |-> 0, due |-> 0]]
    /\ UNCHANGED <<stock, counter, writer, wire, answered, overlapped, raced, unpublished, faults>>

-----------------------------------------------------------------------------
(* Redis. *)

\* A command whose caller gave up takes effect after all.
ArriveLate(cmd) ==
    /\ cmd \in wire
    /\ \A other \in wire : other.from = cmd.from /\ other.op = "set" => other = cmd
    /\ wire' = wire \ {cmd}
    /\ counter' = CASE cmd.op = "set" -> Counter(cmd.level)
                    [] cmd.op = "fill" -> Backfilled(cmd.level)
                    [] cmd.op = "del" -> Missing
    /\ raced' = (raced \/ (cmd.op = "del" /\ Backfilling))
    /\ UNCHANGED <<stock, writer, reader, answered, overlapped, unpublished, faults>>

Lose(cmd) ==
    /\ cmd \in wire
    /\ wire' = wire \ {cmd}
    /\ UNCHANGED <<stock, counter, writer, reader, answered, overlapped, raced, unpublished, faults>>

\* The TTL passes. It is longer than any request, so none that was under way when the
\* counter was set still is.
Expire ==
    /\ counter.ttl
    /\ ~Backfilling
    /\ \A w \in Writer : writer[w].at = "idle"
    /\ counter' = Missing
    /\ UNCHANGED <<stock, writer, reader, wire, answered, overlapped, raced, unpublished, faults>>

-----------------------------------------------------------------------------

WriterStep(w) == Write(w) \/ Set(w) \/ SetFails(w) \/ Delete(w) \/ DeleteFails(w) \/ WriterDies(w)
ReaderStep(r) == Arrive(r) \/ Get(r) \/ GetFails(r) \/ Fetch(r) \/ Fill(r) \/ FillFails(r) \/ Leave(r)

Next ==
    \/ \E w \in Writer : WriterStep(w)
    \/ \E r \in Reader : ReaderStep(r)
    \/ \E cmd \in wire : ArriveLate(cmd) \/ Lose(cmd)
    \/ Expire

Spec == Init /\ [][Next]_vars

\* A request under way goes on, a command on the wire arrives or is lost, a TTL passes.
FairSpec ==
    /\ Spec
    /\ \A w \in Writer : WF_vars(Set(w) \/ Delete(w))
    /\ \A r \in Reader : WF_vars(Get(r) \/ Fetch(r) \/ Fill(r) \/ Leave(r))
    /\ WF_vars(\E cmd \in wire : ArriveLate(cmd) \/ Lose(cmd))
    /\ SF_vars(Expire)

-----------------------------------------------------------------------------
(* Properties. *)

\* Nobody is between a commit and its write-through or between a fetch and its backfill.
Quiet == wire = {} /\ ~Backfilling /\ \A w \in Writer : writer[w].at = "idle"

Current == counter.level \in {-1, stock}

\* Once everyone is done the counter is missing or right, unless writes overlapped, a
\* delete crossed a backfill, or a write reached neither its SET nor its DEL.
QuietCounterIsCurrent == Quiet /\ ~overlapped /\ ~raced /\ ~unpublished => Current

\* A read that comes in after a write was answered shows that write or a later one,
\* with the same exceptions: neither a backfill nor a late command brings the old level back.
AnsweredStockIsSeen ==
    \A r \in Reader :
        reader[r].at = "answer" /\ ~overlapped /\ ~raced /\ ~unpublished => reader[r].level >= reader[r].due

\* Whatever happened, a wrong counter does not stay: after the last write it is missing
\* or right for good.
CounterHeals == <>[](Quiet => Current)
=============================================================================
