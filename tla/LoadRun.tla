------------------------------- MODULE LoadRun -------------------------------
(***************************************************************************)
(* A run of the load generator: the phases of runLoad, the engine that     *)
(* sends their requests (open model: on a schedule; closed model: by       *)
(* workers), the promotions that the write-mix and flash-sale scenarios    *)
(* create in the system under test, flash-sale's checks of the discount,   *)
(* Ctrl-C at any moment, and the exit code.                                *)
(*                                                                         *)
(* Requests are numbered in the order the scenario hands them out; a       *)
(* promotion has the number of the request that creates it. The client is  *)
(* one thread: what it does between two awaits is one step. The error rate *)
(* is held against its default limit, 0. Progress reports and latencies    *)
(* are left out.                                                           *)
(***************************************************************************)
EXTENDS Naturals, Sequences, FiniteSets

CONSTANTS
    Scenarios,    \* bound: the scenarios looked at
    Models,       \* bound: the load models looked at
    Rate,         \* open model: requests per tick
    MaxInflight,  \* open model: --max-inflight
    Concurrency,  \* closed model: workers
    Duration,     \* ticks of every phase, 0 for none
    Late,         \* bound: ticks a phase runs past its deadline
    MaxRequests   \* bound: requests under the closed model

Phase == {"ramp", "warmup", "main", "before", "after"}

ASSUME KindsAssumption == Scenarios \subseteq {"write-mix", "flash-sale"} /\ Models \subseteq {"open", "closed"}
ASSUME LimitsAssumption ==
    /\ {Rate, MaxInflight, Concurrency} \subseteq Nat \ {0}
    /\ Duration \in [Phase -> Nat]
    /\ Late \in Nat /\ MaxRequests \in Nat

VARIABLES
    scenario, model,
    plan,         \* the phases to come; the first is under way
    at,           \* where runLoad is
    clock,        \* ticks since the phase began
    first,        \* the number of the phase's first request
    next,         \* the number of the next request
    inflight,     \* requests without an answer
    stray,        \* writes the client has given up and the API may still do
    counted,      \* requests of the phase that were recorded, with a status or an error
    dropped,      \* requests of the phase that were dropped
    open,         \* promotions created, no cancel sent yet
    uncancelled,  \* promotions created, cancel not confirmed
    doomed,       \* what the clean-up still has to cancel
    sale,         \* flash-sale's promotion, 0 without one
    live,         \* the run's promotions that are not cancelled, in the API
    aborted,      \* the signal
    unknown,      \* history: promotions of whose creation, or end, the run had no word in time
    interrupted,  \* the run's flag
    pending,      \* flash-sale's checks that have not ended
    clean,        \* no check has failed, the one of the error rate included
    cut,          \* history: a phase to be recorded was skipped or cut short
    verdict       \* the exit: code 0 (ok), 1 (failed) or 130 (interrupted), or an error

phaseVars == <<plan, at, clock, first, counted, dropped>>
promoVars == <<open, uncancelled, doomed, sale>>
resultVars == <<interrupted, pending, clean, cut, verdict>>
vars == <<scenario, model, phaseVars, next, inflight, stray, promoVars, live, aborted, unknown, resultVars>>

Request == [n : Nat, kind : {"read", "create", "cancel"}, promo : Nat, served : BOOLEAN]

TypeOK ==
    /\ scenario \in Scenarios /\ model \in Models
    /\ plan \in Seq(Phase \union {"sale"})
    /\ at \in {"between", "schedule", "rest", "workers", "drain", "grace", "creating", "cleanup", "done"}
    /\ clock \in Nat /\ next \in Nat /\ first \in 1 .. next
    /\ inflight \subseteq Request /\ stray \subseteq Request
    /\ counted \in 0 .. next - first /\ dropped \in 0 .. next - first
    /\ open \in Seq(Nat) /\ uncancelled \subseteq Nat /\ doomed \subseteq Nat
    /\ sale \in Nat /\ live \subseteq 1 .. next /\ unknown \subseteq 1 .. next
    /\ aborted \in BOOLEAN /\ interrupted \in BOOLEAN /\ clean \in BOOLEAN /\ cut \in BOOLEAN
    /\ pending \in 0 .. 2 /\ verdict \in {"none", "ok", "failed", "interrupted", "threw"}

Phases == IF scenario = "write-mix"
          THEN <<"ramp", "warmup", "main">>
          ELSE <<"ramp", "warmup", "before", "sale", "after">>

Init ==
    /\ scenario \in Scenarios /\ model \in Models
    /\ plan = Phases
    /\ at = "between"
    /\ clock = 0 /\ first = 1 /\ next = 1
    /\ inflight = {} /\ stray = {} /\ counted = 0 /\ dropped = 0
    /\ open = <<>> /\ uncancelled = {} /\ doomed = {} /\ sale = 0
    /\ live = {} /\ aborted = FALSE /\ unknown = {}
    /\ interrupted = FALSE /\ pending = 0 /\ clean = TRUE /\ cut = FALSE /\ verdict = "none"

-----------------------------------------------------------------------------
(* Sending requests. *)

Kinds == IF scenario = "write-mix" THEN {"read", "promo"} ELSE {"read"}

\* What the scenario hands out for these numbers: a promo slot cancels the oldest
\* promotion of the queue, or creates one.
Specs(slots, kinds, queue) ==
    LET promos(i) == Cardinality({j \in slots : j <= i /\ kinds[j] = "promo"}) IN
    [i \in slots |->
        CASE kinds[i] = "read" -> [n |-> i, kind |-> "read", promo |-> 0, served |-> TRUE]
          [] kinds[i] = "promo" /\ promos(i) <= Len(queue) -> [n |-> i, kind |-> "cancel", promo |-> queue[promos(i)], served |-> FALSE]
          [] OTHER -> [n |-> i, kind |-> "create", promo |-> i, served |-> FALSE]]

Least(S) == CHOOSE x \in S : \A y \in S : x <= y

Room(taken) == model = "closed" \/ taken < MaxInflight

\* These requests, in order, each sent unless the pool is full.
Issue(slots, kinds, pool, queue) ==
    LET spec == Specs(slots, kinds, queue)
        sent == {i \in slots : Room(Cardinality(pool) + i - Least(slots))}
        promos == Cardinality({i \in slots : kinds[i] = "promo"})
    IN
    /\ next' = next + Cardinality(slots)
    /\ inflight' = pool \union {spec[i] : i \in sent}
    /\ dropped' = dropped + Cardinality(slots \ sent)
    /\ open' = SubSeq(queue, promos + 1, Len(queue))

-----------------------------------------------------------------------------
(* A phase. *)

Runs(p) == Duration[p] > 0 /\ (p = "ramp" => model = "open")

\* The phases with metrics: the others are not recorded.
Recorded(p) == p \in {"main", "before", "after"}

\* An interrupted run skips what is left; so does one that has no such phase.
Skip ==
    /\ at = "between" /\ plan # <<>> /\ Head(plan) # "sale"
    /\ aborted \/ ~Runs(Head(plan))
    /\ plan' = Tail(plan)
    /\ interrupted' = (interrupted \/ (aborted /\ Recorded(Head(plan))))
    /\ cut' = (cut \/ (Runs(Head(plan)) /\ Recorded(Head(plan))))
    /\ UNCHANGED <<scenario, model, at, clock, first, counted, dropped, next, inflight, stray, promoVars, live, aborted, unknown, pending, clean, verdict>>

\* Mutant: one Metrics for all phases.
SharedMetrics == counted

\* A phase starts with Metrics of its own.
NewMetrics == 0

Begins ==
    /\ at = "between" /\ plan # <<>> /\ Head(plan) # "sale"
    /\ ~aborted /\ Runs(Head(plan))
    /\ clock' = 0 /\ first' = next /\ counted' = NewMetrics
    /\ UNCHANGED <<scenario, model, plan, stray, uncancelled, doomed, sale, live, aborted, unknown, resultVars>>

BeginOpen ==
    /\ model = "open"
    /\ Begins
    /\ at' = "schedule" /\ dropped' = 0
    /\ UNCHANGED <<next, inflight, open>>

\* Every worker sends its first request.
BeginClosed(kinds) ==
    LET slots == next .. next + Concurrency - 1 IN
    /\ model = "closed"
    /\ kinds \in [slots -> Kinds]
    /\ Begins
    /\ at' = "workers"
    /\ Issue(slots, kinds, inflight, open)

\* scheduledOffsetMs, rounded to ticks: flat, and while the rate rises from 0 over the ramp.
Offset(k) ==
    IF Head(plan) = "ramp"
    THEN Least({t \in 0 .. Duration["ramp"] + k : Rate * t * t >= 2 * k * Duration["ramp"]})
    ELSE k \div Rate

Scheduled == {i \in first .. first + Rate * Duration[Head(plan)] : Offset(i - first) < Duration[Head(plan)]}

\* Everything that is due, including requests that fell behind during a stall.
Due == {i \in Scheduled : i >= next /\ Offset(i - first) <= clock}

Fire(kinds) ==
    /\ at = "schedule" /\ ~aborted
    /\ Due # {}
    /\ kinds \in [Due -> Kinds]
    /\ Issue(Due, kinds, inflight, open)
    /\ UNCHANGED <<scenario, model, plan, at, clock, first, counted, stray, uncancelled, doomed, sale, live, aborted, unknown, resultVars>>

\* Mutant: what fell behind is given up when the deadline passes.
DeadlinePassed == next \notin Scheduled \/ clock >= Duration[Head(plan)]

\* The next request would be due after the deadline.
ScheduleOver == next \notin Scheduled

\* The schedule is through, then the rest of the time; an abort ends either at once.
Leaves(where) ==
    /\ at' = where
    /\ UNCHANGED <<scenario, model, plan, clock, first, counted, dropped, next, inflight, stray, promoVars, live, aborted, unknown, resultVars>>

ScheduleDone == at = "schedule" /\ ~aborted /\ ScheduleOver /\ Leaves("rest")

RestOver == at = "rest" /\ ~aborted /\ clock >= Duration[Head(plan)] /\ Leaves("drain")

\* Workers end with the answer that finds the deadline passed.
WorkersDone == at = "workers" /\ ~aborted /\ inflight = {} /\ Leaves("drain")

Interrupted == at \in {"schedule", "rest", "workers"} /\ aborted /\ Leaves("grace")

\* Mutant: an interrupted phase waits for every request.
AllAnswered == inflight = {}

\* The grace time passes, or every request is answered before.
GraceOver == TRUE

\* Mutant: the phase ends with requests in flight.
NotAwaited == TRUE

\* A phase that was not interrupted waits for all its requests.
Drained == inflight = {}

PhaseEnds ==
    /\ \/ at = "grace" /\ GraceOver
       \/ at = "drain" /\ Drained
    /\ at' = "between" /\ plan' = Tail(plan)
    /\ interrupted' = (interrupted \/ at = "grace")
    /\ cut' = (cut \/ (at = "grace" /\ Recorded(Head(plan))))
    /\ UNCHANGED <<scenario, model, clock, first, counted, dropped, next, inflight, stray, promoVars, live, aborted, unknown, pending, clean, verdict>>

Tick ==
    /\ at \in {"schedule", "rest", "workers", "drain"}
    /\ clock < Duration[Head(plan)] + Late
    /\ clock' = clock + 1
    /\ UNCHANGED <<scenario, model, plan, at, first, counted, dropped, next, inflight, stray, promoVars, live, aborted, unknown, resultVars>>

\* SIGINT.
Abort ==
    /\ ~aborted /\ at # "done"
    /\ aborted' = TRUE
    /\ UNCHANGED <<scenario, model, phaseVars, next, inflight, stray, promoVars, live, unknown, resultVars>>

-----------------------------------------------------------------------------
(* Answers. *)

\* The API does what the request says, whether or not its client still waits.
Serve(r) ==
    /\ r \in inflight \union stray /\ ~r.served
    /\ live' = IF r.kind = "create" THEN live \union {r.promo} ELSE live \ {r.promo}
    /\ inflight' = IF r \in inflight THEN (inflight \ {r}) \union {[r EXCEPT !.served = TRUE]} ELSE inflight
    /\ stray' = stray \ {r}
    /\ UNCHANGED <<scenario, model, phaseVars, next, promoVars, aborted, unknown, resultVars>>

\* A transport error, or a status of 500 and above, in a phase that is recorded.
CountsAsError(error) == error /\ Recorded(Head(plan))

\* A phase's Metrics record the request, and the error rate is what they counted.
Records(error) ==
    /\ counted' = counted + 1
    /\ clean' = (clean /\ ~CountsAsError(error))

\* The request leaves the pool and is recorded; a worker goes on with its next one.
Ends(r, queue, error) ==
    /\ r \in inflight
    /\ IF r.n >= first /\ at \in {"schedule", "rest", "workers", "drain", "grace"}
       THEN Records(error) ELSE UNCHANGED <<counted, clean>>
    /\ IF at = "workers" /\ ~aborted /\ clock < Duration[Head(plan)]
       THEN /\ next <= MaxRequests
            /\ \E kind \in Kinds : Issue({next}, [i \in {next} |-> kind], inflight \ {r}, queue)
       ELSE /\ inflight' = inflight \ {r}
            /\ open' = queue
            /\ UNCHANGED <<next, dropped>>
    /\ UNCHANGED <<scenario, model, plan, at, clock, first, doomed, sale, live, aborted, interrupted, pending, cut, verdict>>

\* With onResponse: a created promotion may be cancelled next, a cancel is confirmed.
Answer(r) ==
    /\ r.served
    /\ Ends(r, IF r.kind = "create" THEN Append(open, r.promo) ELSE open, FALSE)
    /\ uncancelled' = CASE r.kind = "create" -> uncancelled \union {r.promo}
                         [] r.kind = "cancel" -> uncancelled \ {r.promo}
                         [] OTHER -> uncancelled
    /\ UNCHANGED <<stray, unknown>>

\* A status below 500 that refuses the request: nothing was done.
Refuse(r) ==
    /\ ~r.served
    /\ Ends(r, open, FALSE)
    /\ UNCHANGED <<uncancelled, stray, unknown>>

\* Another error status, a timeout or a lost connection, before or after the API did it.
Fail(r) ==
    /\ Ends(r, open, TRUE)
    /\ UNCHANGED uncancelled
    /\ stray' = IF r.served THEN stray ELSE stray \union {r}
    /\ unknown' = IF r.kind = "create" THEN unknown \union {r.promo} ELSE unknown

-----------------------------------------------------------------------------
(* flash-sale's promotion, the scenarios' clean-up and the end. *)

\* An interrupt before the sale starts ends the run with no writes.
MayStartSale == ~aborted

StartSale ==
    /\ at = "between" /\ plan # <<>> /\ Head(plan) = "sale"
    /\ IF MayStartSale
       THEN at' = "creating" /\ sale' = next /\ next' = next + 1 /\ UNCHANGED <<plan, cut>>
       ELSE plan' = <<>> /\ cut' = TRUE /\ UNCHANGED <<at, sale, next>>
    /\ UNCHANGED <<scenario, model, clock, first, counted, dropped, inflight, stray, open, uncancelled, doomed, live, aborted, unknown, interrupted, pending, clean, verdict>>

\* Interrupted meanwhile, it is cancelled without an "after" and the checks that run beside it.
SaleStarts ==
    /\ at = "creating"
    /\ live' = live \union {sale}
    /\ at' = "between"
    /\ IF aborted THEN plan' = <<>> /\ pending' = 0 ELSE plan' = Tail(plan) /\ pending' = 2
    /\ cut' = (cut \/ aborted)
    /\ UNCHANGED <<scenario, model, clock, first, counted, dropped, next, inflight, stray, promoVars, aborted, unknown, interrupted, clean, verdict>>

\* A product created during the sale, or the first page of the listing, is read and shows
\* the discount, or does not, or the calls fail.
CheckEnds ==
    /\ pending > 0
    /\ pending' = pending - 1
    /\ clean' \in {clean, FALSE}
    /\ UNCHANGED <<scenario, model, phaseVars, next, inflight, stray, promoVars, live, aborted, unknown, interrupted, cut, verdict>>

\* The call throws, and ends the run without a result; the API may have done it nevertheless.
SaleFails ==
    /\ at = "creating"
    /\ live' \in {live, live \union {sale}}
    /\ unknown' = unknown \union {sale}
    /\ sale' = 0
    /\ at' = "between" /\ plan' = <<>> /\ verdict' = "threw"
    /\ UNCHANGED <<scenario, model, clock, first, counted, dropped, next, inflight, stray, open, uncancelled, doomed, aborted, interrupted, pending, clean, cut>>

\* cancelPromotion, of the sale or in the clean-up: a failure is logged or ignored.
Cancels(p) ==
    \/ live' = live \ {p} /\ UNCHANGED unknown
    \/ live' = live /\ unknown' = unknown \union {p}

EndSale ==
    /\ at = "between" /\ plan = <<>> /\ sale # 0 /\ pending = 0
    /\ Cancels(sale)
    /\ sale' = 0
    /\ UNCHANGED <<scenario, model, phaseVars, next, inflight, stray, open, uncancelled, doomed, aborted, resultVars>>

\* Mutant: only what no cancel was sent for.
NeverSent == {open[i] : i \in DOMAIN open}

\* What write-mix cleans up.
ToCancel == uncancelled

\* Of a create that is still unanswered the clean-up knows nothing.
CleanUp ==
    /\ at = "between" /\ plan = <<>> /\ sale = 0
    /\ at' = "cleanup" /\ doomed' = ToCancel
    /\ unknown' = unknown \union {r.promo : r \in {q \in inflight : q.kind = "create"}}
    /\ UNCHANGED <<scenario, model, plan, clock, first, counted, dropped, next, inflight, stray, open, uncancelled, sale, live, aborted, resultVars>>

CancelOne(p) ==
    /\ at = "cleanup" /\ p \in doomed
    /\ Cancels(p)
    /\ doomed' = doomed \ {p} /\ uncancelled' = uncancelled \ {p}
    /\ UNCHANGED <<scenario, model, phaseVars, next, inflight, stray, open, sale, aborted, resultVars>>

\* Mutant: only what a phase saw.
SeenByAPhase == interrupted

\* The last look at the signal: an abort that no phase saw counts as well.
WasInterrupted == interrupted \/ aborted

ExitCode == IF WasInterrupted THEN "interrupted" ELSE IF clean THEN "ok" ELSE "failed"

Report ==
    /\ at = "cleanup" /\ doomed = {}
    /\ at' = "done" /\ interrupted' = WasInterrupted
    /\ verdict' = IF verdict = "threw" THEN verdict ELSE ExitCode
    /\ UNCHANGED <<scenario, model, plan, clock, first, counted, dropped, next, inflight, stray, promoVars, live, aborted, unknown, pending, clean, cut>>

-----------------------------------------------------------------------------

\* The steps of the client itself: its timers, its clock and its calls outside the load, which time out.
ClientStep ==
    \/ Skip \/ BeginOpen \/ ScheduleDone \/ RestOver \/ WorkersDone \/ Interrupted \/ PhaseEnds \/ Tick
    \/ (\E kinds \in [next .. next + Concurrency - 1 -> Kinds] : BeginClosed(kinds))
    \/ (at = "schedule" /\ \E kinds \in [Due -> Kinds] : Fire(kinds))
    \/ StartSale \/ SaleStarts \/ CheckEnds \/ SaleFails \/ EndSale \/ CleanUp \/ Report
    \/ \E p \in doomed : CancelOne(p)

AnswerStep == \E r \in inflight : Answer(r) \/ Refuse(r) \/ Fail(r)

Next == ClientStep \/ AnswerStep \/ (\E r \in inflight \union stray : Serve(r)) \/ Abort

Spec == Init /\ [][Next]_vars

FairSpec == Spec /\ WF_vars(ClientStep)

-----------------------------------------------------------------------------
(* Properties. *)

\* No promotion outlives the run that made it, unless the run could not know: its
\* creation or its cancellation was not answered as done, or not before the clean-up.
\* So a cancel that fails, or is dropped because the pool is full, is made up for, and
\* only an interrupted run leaves the clean-up in the dark about an answer.
NoneLeftBehind == at = "done" => live \subseteq unknown

\* A phase that runs to its end accounts for every request: each one the schedule (or a
\* worker) made due is recorded once or dropped, those that fell behind included, and
\* no request of another phase is.
EveryDueRequestCounts ==
    [][ at = "drain" /\ at' # "drain" =>
            counted + dropped = IF model = "open" THEN Cardinality(Scheduled) ELSE next - first ]_vars

\* Never more requests in flight than the pool (or the workers) allow, across phases too:
\* only an interrupted run leaves a phase with requests unanswered.
InflightBounded ==
    /\ Cardinality(inflight) <= IF model = "open" THEN MaxInflight ELSE Concurrency
    /\ at \in {"between", "creating", "cleanup", "done"} /\ inflight # {} => aborted

\* A run that exits with 0 measured all it was asked to: every phase to be recorded ran
\* to its end, whenever Ctrl-C came, and the checks of the sale were made.
ExitZeroMeansFullRun == verdict = "ok" => ~cut /\ pending = 0

\* A phase that is interrupted, and with it the run, ends without an answer to any
\* request. (An interrupt that finds the phase waiting for its last answers, after the
\* deadline, does not cut that short.)
InterruptedRunEnds == aborted /\ at \in {"schedule", "rest", "workers", "grace"} ~> at = "done"
=============================================================================
