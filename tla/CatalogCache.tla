---------------------------- MODULE CatalogCache ----------------------------
(***************************************************************************)
(* The catalog in Postgres, and the version counters and versioned entries *)
(* in Redis: writers (promotions, product creation, ingestion batches)     *)
(* commit and then bump counters; requests validate an entry against the   *)
(* counters and rebuild it when they have moved.                           *)
(*                                                                         *)
(* One product, the categories it can be in, one promotion, one cached     *)
(* entry: the product's or a listing's (listings share no counter). The    *)
(* data is the number of the last commit: an entry that shows commit n is  *)
(* out of date once a later commit changed what it shows (changed).        *)
(* Coalescing is ReadThrough's subject: here every request may build.      *)
(***************************************************************************)
EXTENDS Integers

CONSTANTS
    Category,    \* the categories
    Writer,      \* concurrent writers
    Request,     \* concurrent reads
    Scenes,      \* what is cached, which operations the writers perform, what can go wrong
    MaxCommits,  \* bound: commits
    MaxFaults    \* bound: faults

\* A cached entry and the counter that stands for it have one name: the product
\* (ver:product:{id}), a category's listing (ver:category:{id}), the whole listing (ver:all).
View == {"product", "all"} \union Category
Target == {"product"} \union Category

\* Where the product is before it is created, the target of a promotion before it
\* is, the category field of a listing's entry and of no entry, and no writer.
NoCategory == "no category"
NoTarget == "no target"
Listing == "listing"
Absent == "absent"
Nobody == "nobody"

Operation == {"promote", "cancel", "assign", "create", "ingest"}

\* Losses of Redis' data, crashes, bumps that fail.
FaultKind == {"flush", "crash", "bump"}

ASSUME NamesAssumption ==
    /\ Category \intersect {"product", "all", NoCategory, NoTarget, Listing, Absent} = {}
    /\ Scenes \subseteq [view : View, ops : SUBSET Operation, faults : SUBSET FaultKind]
    /\ Nobody \notin Writer
ASSUME LimitsAssumption == MaxCommits \in Nat /\ MaxFaults \in Nat

VARIABLES
    scene,       \* which of the scenes this is
    category,    \* the product's category
    promo,       \* the promotion's target, and whether it is active
    rowLock,     \* the writer whose transaction holds the promotion's row
    clock,       \* number of the last commit
    changed,     \* the last commit that changed what the entry shows
    misdirected, \* history: a bump for it was planned on a category or target that changed meanwhile
    ver,         \* the version counters; a missing one counts as 0
    entry,       \* the cached entry
    epoch,       \* how often Redis lost its data
    writer,      \* the writers' progress
    request,     \* the requests' progress
    announced,   \* the last commit that changed it whose writer has answered
    lost,        \* history: counters that missed a bump and were not bumped since
    faults       \* faults so far

\* The counters that the entry is stamped with.
Counter == IF scene.view = "product" THEN Target ELSE {scene.view}

dbVars == <<scene, category, promo, rowLock, clock, changed, misdirected>>
vars == <<dbVars, ver, entry, epoch, writer, request, announced, lost, faults>>

\* asOf: the commit it shows. pv, gv: the product's and the group's version it is
\* stamped with. cat: the product's category, NoCategory for a cached "not found".
Entry == [asOf : 0 .. MaxCommits, pv : Nat, gv : Nat, epoch : Nat,
          cat : Category \union {NoCategory, Listing, Absent}]
NoEntry == [asOf |-> 0, pv |-> 0, gv |-> 0, epoch |-> 0, cat |-> Absent]
NotFound == [NoEntry EXCEPT !.cat = NoCategory]

\* saw: the product's category and the promotion's target when it planned its bumps.
\* keys: the counters still to bump; commit: its last commit that changed what the entry shows.
WriterState ==
    [at : {"idle", "resolved", "committed", "retry"}, op : Operation \union {"none"},
     saw : (Category \union {NoCategory}) \X (Target \union {NoTarget}),
     new : Target \union {NoTarget}, keys : SUBSET Counter, commit : 0 .. MaxCommits]
Idle == [at |-> "idle", op |-> "none", saw |-> <<NoCategory, NoTarget>>,
         new |-> NoTarget, keys |-> {}, commit |-> 0]

\* due: the last announced change when the request came in (0 while a batch that moved
\* the product still has bumps to do); e: the entry it read or builds.
RequestState ==
    [at : {"away", "check", "confirm", "lookup", "stamp", "fetch", "store", "answer"},
     due : 0 .. MaxCommits, e : Entry, cache : BOOLEAN]
Away == [at |-> "away", due |-> 0, e |-> NoEntry, cache |-> TRUE]

TypeOK ==
    /\ scene \in Scenes
    /\ category \in Category \union {NoCategory}
    /\ promo \in [target : Target \union {NoTarget}, active : BOOLEAN]
    /\ rowLock \in Writer \union {Nobody}
    /\ clock \in 0 .. MaxCommits
    /\ changed \in 0 .. MaxCommits
    /\ misdirected \in BOOLEAN
    /\ ver \in [Counter -> Nat]
    /\ entry \in Entry
    /\ epoch \in Nat
    /\ writer \in [Writer -> WriterState]
    /\ request \in [Request -> RequestState]
    /\ announced \in 0 .. MaxCommits
    /\ lost \in SUBSET Counter
    /\ faults \in 0 .. MaxFaults

\* The product may exist already, in any category; writers that make no promotion
\* find one.
Init ==
    /\ scene \in Scenes
    /\ category \in Category \union {NoCategory}
    /\ promo \in IF "promote" \in scene.ops
                 THEN [target : {NoTarget}, active : {FALSE}]
                 ELSE [target : Target, active : {TRUE}]
    /\ promo.target = "product" => category # NoCategory
    /\ rowLock = Nobody
    /\ clock = 0
    /\ changed = 0
    /\ misdirected = FALSE
    /\ ver = [k \in Counter |-> 0]
    /\ entry = NoEntry
    /\ epoch = 0
    /\ writer = [w \in Writer |-> Idle]
    /\ request = [q \in Request |-> Away]
    /\ announced = 0
    /\ lost = {}
    /\ faults = 0

Fault(kind) == kind \in scene.faults /\ faults < MaxFaults /\ faults' = faults + 1

-----------------------------------------------------------------------------
(* Writers: what they read before they write. *)

\* What a change of the promotion with this target changes.
Shows(t) ==
    IF t = "product" THEN {"product", "all", category} \ {NoCategory}
    ELSE {t, "all"} \union (IF category = t THEN {"product"} ELSE {})

\* The counters bump(target, productCategoryId) increments.
Bumps(t) ==
    IF t = "product" THEN {"product", "all", category} \ {NoCategory} ELSE {t, "all"}

Resolves(w, op, t, keys) ==
    /\ op \in scene.ops
    /\ writer[w].at = "idle"
    /\ writer' = [writer EXCEPT ![w] = [Idle EXCEPT !.at = "resolved", !.op = op, !.new = t,
                                                    !.saw = <<category, promo.target>>, !.keys = keys \intersect Counter]]

\* PromotionService.create resolves its target, a product that exists or a category.
PromoteRead(w, t) ==
    /\ promo.target = NoTarget
    /\ t = "product" => category # NoCategory
    /\ Resolves(w, "promote", t, Bumps(t))
    /\ UNCHANGED <<dbVars, ver, entry, epoch, request, announced, lost, faults>>

\* cancel reads the promotion, and the category of the product it targets.
CancelRead(w) ==
    /\ promo.active
    /\ Resolves(w, "cancel", NoTarget, Bumps(promo.target))
    /\ UNCHANGED <<dbVars, ver, entry, epoch, request, announced, lost, faults>>

\* Mutant: the promotion is read without FOR UPDATE.
RowAlwaysFree == TRUE

\* What FOR UPDATE, and any update of the row, waits for.
RowFree == rowLock = Nobody

\* The two rounds of assign: the old target's counters and the new one's.
AssignBumps(t) == Bumps(promo.target) \union Bumps(t)

\* assign locks the promotion's row, then reads its target and resolves the new one.
AssignRead(w, t) ==
    /\ promo.target # NoTarget
    /\ RowFree
    /\ t = "product" => category # NoCategory
    /\ rowLock' = w
    /\ Resolves(w, "assign", t, AssignBumps(t))
    /\ UNCHANGED <<scene, category, promo, clock, changed, misdirected, ver, entry, epoch, request, announced, lost, faults>>

\* The categories a batch touches: the product's before and after it, and ver:all.
Touched(c) == {category, c, "all"} \ {NoCategory}

\* A worker's batch reads the categories of the products it will write, the first
\* time or as a redelivery of its chunk.
IngestRead(w, c) ==
    /\ "ingest" \in scene.ops
    /\ \/ writer[w].at = "idle"
       \/ writer[w].at = "retry" /\ c = writer[w].new
    /\ writer' = [writer EXCEPT ![w] = [Idle EXCEPT !.at = "resolved", !.op = "ingest", !.new = c,
                                                    !.saw = <<category, promo.target>>, !.keys = Touched(c) \intersect Counter,
                                                    !.commit = writer[w].commit]]
    /\ UNCHANGED <<dbVars, ver, entry, epoch, request, announced, lost, faults>>

-----------------------------------------------------------------------------
(* Writers: the commits. *)

\* A commit that changes what these entries show.
Commits(views) ==
    /\ clock < MaxCommits
    /\ clock' = clock + 1
    /\ changed' = IF scene.view \in views THEN clock + 1 ELSE changed
    /\ UNCHANGED scene

\* A product entry is invalidated by either of the two counters it is stamped with.
Committed(w, views) ==
    LET v == scene.view
        covers == IF v = "product" THEN {"product", category} ELSE {v}
        raced == \/ writer[w].saw[1] # category
                 \/ writer[w].op = "cancel" /\ writer[w].saw[2] # promo.target
    IN
    /\ Commits(views)
    /\ misdirected' = (misdirected \/ (raced /\ v \in views /\ covers \intersect writer[w].keys = {}))
    /\ writer' = [writer EXCEPT ![w].at = "committed", ![w].saw = Idle.saw,
                                ![w].commit = IF v \in views THEN clock + 1 ELSE @]

\* The promotion is inserted. (This module follows one promotion: a second insert is dropped.)
PromoteCommit(w) ==
    /\ writer[w].at = "resolved" /\ writer[w].op = "promote"
    /\ promo.target = NoTarget
    /\ promo' = [target |-> writer[w].new, active |-> TRUE]
    /\ Committed(w, Shows(writer[w].new))
    /\ UNCHANGED <<category, rowLock, ver, entry, epoch, request, announced, lost, faults>>

\* The condition of cancel's update.
Cancellable == promo.active

\* The conditional update of cancel, for the row as it is by then.
CancelCommit(w) ==
    /\ writer[w].at = "resolved" /\ writer[w].op = "cancel"
    /\ RowFree
    /\ Cancellable
    /\ promo' = [promo EXCEPT !.active = FALSE]
    /\ Committed(w, Shows(promo.target))
    /\ UNCHANGED <<category, rowLock, ver, entry, epoch, request, announced, lost, faults>>

\* The insert finds the promotion there, or the update finds it cancelled: no bump.
NothingToCommit(w) ==
    /\ writer[w].at = "resolved"
    /\ \/ writer[w].op = "promote" /\ promo.target # NoTarget
       \/ writer[w].op = "cancel" /\ RowFree /\ ~Cancellable
    /\ writer' = [writer EXCEPT ![w] = Idle]
    /\ UNCHANGED <<dbVars, ver, entry, epoch, request, announced, lost, faults>>

\* assign writes the new target and ends its transaction.
AssignCommit(w) ==
    /\ writer[w].at = "resolved" /\ writer[w].op = "assign"
    /\ promo' = [promo EXCEPT !.target = writer[w].new]
    /\ rowLock' = Nobody
    /\ Committed(w, IF promo.active THEN Shows(promo.target) \union Shows(writer[w].new) ELSE {})
    /\ UNCHANGED <<category, ver, entry, epoch, request, announced, lost, faults>>

\* The batch commits: the product is written, and moves to the file's category.
IngestCommit(w) ==
    /\ writer[w].at = "resolved" /\ writer[w].op = "ingest"
    /\ category' = writer[w].new
    /\ Committed(w, {"product", "all", category, writer[w].new} \ {NoCategory})
    /\ UNCHANGED <<promo, rowLock, ver, entry, epoch, request, announced, lost, faults>>

\* createProduct inserts the product.
CreateCommit(w, c) ==
    /\ "create" \in scene.ops
    /\ writer[w].at = "idle"
    /\ category = NoCategory
    /\ category' = c
    /\ writer' = [writer EXCEPT ![w] =
                     [Idle EXCEPT !.at = "committed", !.op = "create", !.keys = {c, "all"} \intersect Counter,
                                  !.commit = IF scene.view \in {"product", c, "all"} THEN clock + 1 ELSE 0]]
    /\ Commits({"product", c, "all"})
    /\ UNCHANGED <<promo, rowLock, misdirected, ver, entry, epoch, request, announced, lost, faults>>

-----------------------------------------------------------------------------
(* Writers: after the commit. *)

\* One INCR of the pipeline takes effect.
Bump(w, k) ==
    /\ writer[w].at = "committed"
    /\ k \in writer[w].keys
    /\ ver' = [ver EXCEPT ![k] = @ + 1]
    /\ writer' = [writer EXCEPT ![w].keys = @ \ {k}]
    /\ lost' = lost \ {k}
    /\ UNCHANGED <<dbVars, entry, epoch, request, announced, faults>>

\* Three attempts failed: the rest is logged and the request goes on.
BumpFails(w) ==
    /\ writer[w].at = "committed"
    /\ writer[w].keys # {}
    /\ Fault("bump")
    /\ lost' = lost \union writer[w].keys
    /\ writer' = [writer EXCEPT ![w].keys = {}]
    /\ UNCHANGED <<dbVars, ver, entry, epoch, request, announced>>

\* Everything is bumped: the writer answers its client, or acknowledges its chunk;
\* a created product's "not found" is deleted first, best effort.
Answer(w) ==
    /\ writer[w].at = "committed"
    /\ writer[w].keys = {}
    /\ writer' = [writer EXCEPT ![w] = Idle]
    /\ announced' = IF announced < writer[w].commit THEN writer[w].commit ELSE announced
    /\ \/ writer[w].op = "create" /\ scene.view = "product" /\ entry' = NoEntry
       \/ UNCHANGED entry
    /\ UNCHANGED <<dbVars, ver, epoch, request, lost, faults>>

\* The process dies: a transaction rolls back, bumps that were due are lost. A
\* worker's chunk is delivered again.
WriterDies(w) ==
    /\ writer[w].at \in {"resolved", "committed"}
    /\ Fault("crash")
    /\ lost' = lost \union (IF writer[w].at = "committed" THEN writer[w].keys ELSE {})
    /\ rowLock' = IF rowLock = w THEN Nobody ELSE rowLock
    /\ writer' = [writer EXCEPT ![w] = IF @.op = "ingest" THEN [@ EXCEPT !.at = "retry", !.saw = Idle.saw, !.keys = {}]
                                                      ELSE Idle]
    /\ UNCHANGED <<scene, category, promo, clock, changed, misdirected, ver, entry, epoch, request, announced>>

-----------------------------------------------------------------------------
(* Requests. *)

\* What the client is shown: the data of a commit, or that there is no such product.
Shown(e) == [NoEntry EXCEPT !.asOf = e.asOf, !.cat = IF e.cat = NoCategory THEN NoCategory ELSE Listing]

Moves(q, at, e) ==
    /\ request' = [request EXCEPT ![q].at = at, ![q].cache = TRUE, ![q].e = IF at = "answer" THEN Shown(e) ELSE e]
    /\ UNCHANGED <<dbVars, ver, epoch, writer, announced, lost, faults>>

MoveDue == scene.view = "product" /\ \E w \in Writer : writer[w].at = "committed" /\ writer[w].op = "ingest" /\ writer[w].keys # {}

Arrive(q) ==
    /\ request[q].at = "away"
    /\ request' = [request EXCEPT ![q] = [Away EXCEPT !.at = "check", !.due = IF MoveDue THEN 0 ELSE announced]]
    /\ UNCHANGED <<dbVars, ver, entry, epoch, writer, announced, lost, faults>>

\* The one round trip of a listing: the entry with its version.
CheckListing(q) ==
    LET hit == entry.cat = Listing /\ entry.gv = ver[scene.view] IN
    /\ request[q].at = "check" /\ scene.view # "product"
    /\ Moves(q, IF hit THEN "answer" ELSE "stamp", IF hit THEN entry ELSE NoEntry)
    /\ UNCHANGED entry

\* The first round trip of a product: the entry with the product's own version. A
\* cached "not found" carries no version.
CheckProduct(q) ==
    /\ request[q].at = "check" /\ scene.view = "product"
    /\ \/ entry.cat = NoCategory /\ Moves(q, "answer", entry)
       \/ entry.cat \in Category /\ entry.pv = ver["product"] /\ Moves(q, "confirm", entry)
       \/ entry.cat # NoCategory /\ (entry.cat = Absent \/ entry.pv # ver["product"]) /\ Moves(q, "lookup", NoEntry)
    /\ UNCHANGED entry

\* Mutant: the product entry is checked against its own version only.
GroupUnchecked(e) == TRUE

GroupFresh(e) == e.gv = ver[e.cat]

\* The second round trip: its category's version.
Confirm(q) ==
    LET e == request[q].e IN
    /\ request[q].at = "confirm"
    /\ IF GroupFresh(e) THEN Moves(q, "answer", e) ELSE Moves(q, "lookup", NoEntry)
    /\ UNCHANGED entry

\* A product's build starts with its category.
Lookup(q) ==
    /\ request[q].at = "lookup"
    /\ IF category = NoCategory
       THEN Moves(q, "store", NotFound)
       ELSE Moves(q, "stamp", [NoEntry EXCEPT !.cat = category])
    /\ UNCHANGED entry

\* Mutant: a missing counter is not taken for 0.
VersionUnparsed(k) == IF ver[k] = 0 THEN -1 ELSE ver[k]

Version(k) == ver[k]

\* Then the versions it will be stamped with.
Stamp(q) ==
    LET v == scene.view
        c == request[q].e.cat
    IN
    /\ request[q].at = "stamp"
    /\ Moves(q, "fetch", IF v = "product"
                         THEN [asOf |-> 0, pv |-> Version(v), gv |-> Version(c), epoch |-> epoch, cat |-> c]
                         ELSE [asOf |-> 0, pv |-> 0, gv |-> Version(v), epoch |-> epoch, cat |-> Listing])
    /\ UNCHANGED entry

\* A failed read of the versions makes the value uncacheable.
StampFails(q) ==
    /\ request[q].at = "stamp"
    /\ request' = [request EXCEPT ![q].at = "fetch", ![q].cache = FALSE]
    /\ UNCHANGED <<dbVars, ver, entry, epoch, writer, announced, lost, faults>>

\* The defensive comparison of getCachedProduct.
CategoryKept(e) == e.cat = category

\* Then the data.
Fetch(q) ==
    LET r == request[q]
        keep == r.cache /\ (scene.view = "product" => CategoryKept(r.e))
    IN
    /\ r.at = "fetch"
    /\ Moves(q, IF keep THEN "store" ELSE "answer",
             [r.e EXCEPT !.asOf = clock, !.cat = IF scene.view = "product" THEN category ELSE Listing])
    /\ UNCHANGED entry

Store(q) ==
    /\ request[q].at = "store"
    /\ entry' = request[q].e
    /\ Moves(q, "answer", request[q].e)

\* The answer is delivered; or the build or the SET fails, the client leaves, the replica dies.
Leave(q) ==
    /\ request[q].at # "away"
    /\ request' = [request EXCEPT ![q] = Away]
    /\ UNCHANGED <<dbVars, ver, entry, epoch, writer, announced, lost, faults>>

-----------------------------------------------------------------------------
(* Redis. *)

EntryExpires ==
    /\ entry # NoEntry
    /\ entry' = NoEntry
    /\ UNCHANGED <<dbVars, ver, epoch, writer, request, announced, lost, faults>>

\* Redis restarts empty or is flushed.
RedisLosesData ==
    /\ Fault("flush")
    /\ ver' = [k \in Counter |-> 0]
    /\ entry' = NoEntry
    /\ epoch' = epoch + 1
    /\ lost' = {}
    /\ UNCHANGED <<dbVars, writer, request, announced>>

-----------------------------------------------------------------------------

WriterStep(w) ==
    \/ CancelRead(w) \/ PromoteCommit(w) \/ CancelCommit(w) \/ NothingToCommit(w) \/ AssignCommit(w)
    \/ IngestCommit(w) \/ BumpFails(w) \/ Answer(w) \/ WriterDies(w)
    \/ \E t \in Target : PromoteRead(w, t) \/ AssignRead(w, t)
    \/ \E c \in Category : IngestRead(w, c) \/ CreateCommit(w, c)
    \/ \E k \in Counter : Bump(w, k)

RequestStep(q) ==
    \/ Arrive(q) \/ CheckListing(q) \/ CheckProduct(q) \/ Confirm(q) \/ Lookup(q)
    \/ Stamp(q) \/ StampFails(q) \/ Fetch(q) \/ Store(q) \/ Leave(q)

Next ==
    \/ \E w \in Writer : WriterStep(w)
    \/ \E q \in Request : RequestStep(q)
    \/ EntryExpires
    \/ RedisLosesData

Spec == Init /\ [][Next]_vars

-----------------------------------------------------------------------------
(* Properties. *)

\* The counters the entry is stamped with, and whether a reader would accept it.
Stamps == IF scene.view = "product" THEN {"product", entry.cat} ELSE {scene.view}
Accepted ==
    /\ entry.cat \notin {Absent, NoCategory}
    /\ IF scene.view = "product"
       THEN entry.pv = ver["product"] /\ entry.gv = ver[entry.cat]
       ELSE entry.gv = ver[scene.view]

\* A writer has committed and one of these counters is still to be bumped by it.
BumpDue == \E w \in Writer : writer[w].at = "committed" /\ writer[w].keys \intersect Stamps # {}

\* A worker still has to repeat a batch that changed what the entry shows.
RetryDue == \E w \in Writer : writer[w].op = "ingest" /\ writer[w].at # "committed" /\ writer[w].commit # 0

OutOfDate == Accepted /\ entry.epoch = epoch /\ entry.asOf < changed

\* No entry reads as fresh while it is out of date, except for a moment: between a
\* commit and its bump. What else can leave one are the lost bumps (until the next
\* bump of the counter), a commit that planned its bumps on a category that had
\* changed meanwhile (a cancellation: or on a target that had), and a build that spans a loss of Redis' data.
AcceptedIsCurrent == OutOfDate => BumpDue \/ Stamps \intersect lost # {} \/ misdirected

\* Once a write was answered, no request that comes in afterwards is answered from
\* before it: the reader's view of a promotion, creation or ingested price never
\* goes back. (Without faults, with the write's bumps planned for what it changed, and
\* outside the moment in which a batch has moved the product and not yet bumped: an
\* entry stamped with the category it left cannot see the bumps of the new one.)
AnsweredWritesAreSeen ==
    \A q \in Request : LET r == request[q] IN
        r.at = "answer" /\ r.e.cat # NoCategory /\ faults = 0 /\ ~misdirected => r.e.asOf >= r.due

\* Every promotion write invalidates what it changed: without faults, an entry that
\* reads as fresh is current up to the bumps that are due.
PromotionsInvalidate == faults = 0 /\ OutOfDate => BumpDue

\* The same of ingestion batches, a repeated batch included: when a chunk was
\* processed in the end, what any of its deliveries changed is invalidated.
RepeatedBatchInvalidates == OutOfDate => BumpDue \/ RetryDue \/ misdirected
=============================================================================
