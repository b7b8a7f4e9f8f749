-------------------------- MODULE CatalogCacheProofs --------------------------
(***************************************************************************)
(* Proofs about CatalogCache: for any number of categories, writers,       *)
(* requests, commits and faults, and for every scene, an entry that reads  *)
(* as fresh is current up to the named exceptions, and without faults an   *)
(* answered write is seen by every later request.                          *)
(*                                                                         *)
(* The invariant is about copies: the entry and the values that builds are *)
(* about to store. A copy's stamps are no newer than the counters          *)
(* (Behind), a copy that is out of date has a writer or a fault to show    *)
(* for it (Excused), and without faults it waits for a writer that has not *)
(* answered, or for a batch that moved the product (Waits).                *)
(***************************************************************************)
EXTENDS CatalogCache, TLAPS

\* What a reader could accept one day.
IsCopy(e) == e.cat \in (IF scene.view = "product" THEN Category ELSE {Listing})

Group(e) == IF scene.view = "product" THEN e.cat ELSE scene.view
StampsOf(e) == IF scene.view = "product" THEN {"product", e.cat} ELSE {scene.view}

Behind(e) ==
    /\ e.epoch <= epoch
    /\ e.epoch = epoch => /\ e.gv <= ver[Group(e)]
                          /\ scene.view = "product" => e.pv <= ver["product"]

Matches(e) ==
    /\ e.epoch = epoch
    /\ e.gv = ver[Group(e)]
    /\ scene.view = "product" => e.pv = ver["product"]

\* Writers that still have to bump a counter of the copy.
OwesBump(w, e) == writer[w].at = "committed" /\ writer[w].keys \intersect StampsOf(e) # {}
DueFor(e) == \E w \in Writer : OwesBump(w, e)
MoveDueFor(e) == scene.view = "product" /\ \E w \in Writer : writer[w].op = "ingest" /\ OwesBump(w, e)

Calm == faults = 0 /\ ~misdirected

\* A product's copy is of the category the product is in, or out of date.
InPlace(e) ==
    /\ e.asOf <= clock
    /\ scene.view = "product" => /\ category # NoCategory
                                 /\ e.asOf >= changed => e.cat = category

Excused(e) ==
    Matches(e) /\ e.asOf < changed => DueFor(e) \/ StampsOf(e) \intersect lost # {} \/ misdirected

\* Whom a copy waits for that is older than a commit, than what was announced, or than
\* what a request may expect.
Waits(e) ==
    Calm /\ Matches(e) =>
        /\ scene.view = "product" /\ e.cat # category => MoveDueFor(e)
        /\ \A w \in Writer : writer[w].at = "committed" /\ e.asOf < writer[w].commit => OwesBump(w, e) \/ MoveDueFor(e)
        /\ e.asOf < announced => MoveDueFor(e)
        /\ \A q \in Request : e.asOf >= request[q].due

Copy(e) ==
    /\ IsCopy(e) \/ e.cat \in {Absent, NoCategory}
    /\ IsCopy(e) => Behind(e) /\ InPlace(e) /\ Excused(e) /\ Waits(e)

\* The copies there are, and the stamps of builds that have not read their data.
Held(e) == e = entry \/ \E q \in Request : request[q].at = "store" /\ e = request[q].e
Draft(e) == \E q \in Request : request[q].at = "fetch" /\ request[q].cache /\ e = request[q].e

\* The counters a writer planned to bump.
BumpsOf(c, t) == IF t = "product" THEN {"product", "all", c} \ {NoCategory} ELSE {t, "all"}
Planned(w) ==
    LET c == writer[w].saw[1]
        t == writer[w].saw[2]
        new == writer[w].new
        op == writer[w].op
    IN
    CASE op = "promote" -> BumpsOf(c, new)
      [] op = "cancel" -> BumpsOf(c, t)
      [] op = "assign" -> BumpsOf(c, t) \union BumpsOf(c, new)
      [] op = "ingest" -> {c, new, "all"} \ {NoCategory}

\* The writers.
WriterOK(w) ==
    /\ writer[w].commit <= clock
    /\ writer[w].at = "resolved" =>
          /\ writer[w].op \in {"promote", "cancel", "assign", "ingest"}
          /\ writer[w].keys = Planned(w) \intersect Counter
          /\ writer[w].op = "assign" => rowLock = w /\ writer[w].saw[2] = promo.target /\ promo.target # NoTarget
          /\ writer[w].op \in {"promote", "assign"} => writer[w].new \in Target
          /\ writer[w].op = "ingest" => writer[w].new \in Category
    /\ faults = 0 /\ writer[w].at # "committed" => writer[w].commit = 0 /\ writer[w].at # "retry"

\* The requests.
RequestOK(q) ==
    LET r == request[q] IN
    /\ r.due <= clock
    /\ r.at = "away" => r.due = 0
    /\ scene.view = "product" /\ r.at \in {"stamp", "fetch"} => r.e.cat \in Category /\ category # NoCategory
    /\ scene.view # "product" => r.at \notin {"confirm", "lookup"}
    /\ r.at = "store" /\ r.e.cat # NoCategory => r.e.asOf >= r.due
    /\ r.at = "confirm" => r.e.cat \in Category
    /\ r.at = "confirm" /\ Calm => r.e.gv <= ver[r.e.cat] /\ (r.e.gv = ver[r.e.cat] => r.e.asOf >= r.due)
    /\ r.at = "answer" /\ Calm /\ r.e.cat # NoCategory => r.e.asOf >= r.due

Inv ==
    /\ TypeOK
    /\ changed <= clock /\ announced <= clock
    /\ faults = 0 => epoch = 0
    /\ \A w \in Writer : WriterOK(w)
    /\ \A q \in Request : RequestOK(q)
    /\ \A e \in Entry : Held(e) => Copy(e)
    /\ \A e \in Entry : Draft(e) => IsCopy(e) /\ Behind(e)

-----------------------------------------------------------------------------
(* Names. *)

LEMMA Names ==
    /\ \A c \in Category : c # "product" /\ c # "all" /\ c # NoCategory /\ c # NoTarget /\ c # Listing /\ c # Absent
    /\ NoCategory \notin {"product", "all", NoTarget, Listing, Absent} /\ Listing # Absent
    /\ NoTarget \notin Target /\ "product" \in Target /\ Category \subseteq Target
    /\ Nobody \notin Writer
    /\ MaxCommits \in Nat /\ MaxFaults \in Nat
  BY NamesAssumption, LimitsAssumption DEF NoCategory, NoTarget, Listing, Absent, Target

LEMMA Scene ==
    ASSUME TypeOK
    PROVE  /\ scene.view \in View /\ scene.ops \in SUBSET Operation /\ scene.faults \in SUBSET FaultKind
           /\ scene.view = "product" => Counter = Target
           /\ scene.view # "product" => Counter = {scene.view} /\ scene.view \in {"all"} \union Category
  BY NamesAssumption DEF TypeOK, Counter, View

\* A copy's counters are counters.
LEMMA Groups ==
    ASSUME TypeOK, NEW e, IsCopy(e)
    PROVE  /\ Group(e) \in Counter /\ StampsOf(e) \subseteq Counter /\ Group(e) \in StampsOf(e)
           /\ scene.view = "product" => "product" \in Counter /\ StampsOf(e) = {"product", Group(e)}
           /\ scene.view # "product" => StampsOf(e) = {Group(e)}
  BY Scene, Names DEF IsCopy, Group, StampsOf

\* A copy of this data exists in this state.
LEMMA HeldTyped ==
    ASSUME TypeOK
    PROVE  /\ entry \in Entry /\ \A q \in Request : request[q] \in RequestState /\ request[q].e \in Entry
           /\ \A e \in Entry : e.asOf \in Nat /\ e.pv \in Nat /\ e.gv \in Nat /\ e.epoch \in Nat
           /\ \A w \in Writer : writer[w] \in WriterState /\ writer[w].commit \in Nat
           /\ \A q \in Request : request[q].due \in Nat
           /\ clock \in Nat /\ changed \in Nat /\ announced \in Nat /\ epoch \in Nat /\ faults \in Nat
           /\ \A k \in Counter : ver[k] \in Nat
           /\ misdirected \in BOOLEAN
  BY Names DEF TypeOK, Entry, RequestState, WriterState

-----------------------------------------------------------------------------
(* The initial state. *)

LEMMA InvInit == Init => Inv
  <1> SUFFICES ASSUME Init PROVE Inv
    OBVIOUS
  <1>1. /\ NoEntry \in Entry /\ Idle \in WriterState /\ Away \in RequestState
    BY Names DEF NoEntry, Entry, Idle, WriterState, Away, RequestState
  <1>2. TypeOK
    <2>1. promo \in [target : Target \union {NoTarget}, active : BOOLEAN]
      BY DEF Init
    <2>2. clock \in 0 .. MaxCommits /\ changed \in 0 .. MaxCommits /\ announced \in 0 .. MaxCommits /\ faults \in 0 .. MaxFaults
      BY Names DEF Init
    <2>3. ver \in [Counter -> Nat] /\ epoch \in Nat
      BY DEF Init
    <2>4. writer \in [Writer -> WriterState] /\ request \in [Request -> RequestState]
      BY <1>1 DEF Init
    <2> QED
      BY <1>1, <2>1, <2>2, <2>3, <2>4 DEF Init, TypeOK
  <1>3. \A w \in Writer : WriterOK(w)
    <2> TAKE w \in Writer
    <2>1. writer[w].at = "idle" /\ writer[w].commit = 0 /\ clock = 0
      BY DEF Init, Idle
    <2> QED
      BY <2>1 DEF WriterOK
  <1>4. \A q \in Request : RequestOK(q)
    <2> TAKE q \in Request
    <2>1. request[q].at = "away" /\ request[q].due = 0 /\ clock = 0
      BY DEF Init, Away
    <2> QED
      BY <2>1 DEF RequestOK
  <1>5. \A e \in Entry : Held(e) => Copy(e)
    <2> SUFFICES ASSUME NEW e \in Entry, Held(e) PROVE ~IsCopy(e) /\ e.cat = Absent
      BY DEF Copy
    <2>1. e = NoEntry
      BY DEF Held, Init, Away
    <2> QED
      BY <2>1, Names DEF IsCopy, NoEntry
  <1>6. \A e \in Entry : ~Draft(e)
    BY DEF Draft, Init, Away
  <1>7. changed <= clock /\ announced <= clock /\ epoch = 0
    BY DEF Init
  <1> QED
    BY <1>2, <1>3, <1>4, <1>5, <1>6, <1>7 DEF Inv

-----------------------------------------------------------------------------
(* What steps leave alone. *)

\* Copies and stamps depend on the scene, the counters and the epoch.
LEMMA SameCounters ==
    ASSUME scene' = scene, ver' = ver, epoch' = epoch, NEW e
    PROVE  /\ IsCopy(e)' = IsCopy(e) /\ Group(e)' = Group(e) /\ StampsOf(e)' = StampsOf(e)
           /\ Behind(e)' = Behind(e) /\ Matches(e)' = Matches(e) /\ Counter' = Counter
  <1>1. IsCopy(e)' = IsCopy(e) /\ Group(e)' = Group(e) /\ StampsOf(e)' = StampsOf(e) /\ Counter' = Counter
    BY DEF IsCopy, Group, StampsOf, Counter
  <1> QED
    BY <1>1 DEF Behind, Matches

\* A writer that had committed nothing is owed no bumps, and the others are as before.
LEMMA Owing ==
    ASSUME scene' = scene, NEW w \in Writer, writer[w].at # "committed",
           \A x \in Writer : x # w => writer'[x] = writer[x], NEW e
    PROVE  /\ DueFor(e) => DueFor(e)'
           /\ MoveDueFor(e) => MoveDueFor(e)'
           /\ \A x \in Writer : x # w => OwesBump(x, e)' = OwesBump(x, e)
           /\ \A x \in Writer : OwesBump(x, e) => OwesBump(x, e)'
  <1>1. StampsOf(e)' = StampsOf(e)
    BY DEF StampsOf
  <1>2. \A x \in Writer : x # w => OwesBump(x, e)' = OwesBump(x, e)
    BY <1>1 DEF OwesBump
  <1>3. \A x \in Writer : OwesBump(x, e) => x # w
    BY DEF OwesBump
  <1>4. DueFor(e) => DueFor(e)'
    BY <1>2, <1>3 DEF DueFor
  <1>5. MoveDueFor(e) => MoveDueFor(e)'
    <2> SUFFICES ASSUME MoveDueFor(e) PROVE MoveDueFor(e)'
      OBVIOUS
    <2>1. PICK x \in Writer : writer[x].op = "ingest" /\ OwesBump(x, e)
      BY DEF MoveDueFor
    <2>2. writer'[x].op = "ingest" /\ OwesBump(x, e)'
      BY <1>2, <1>3, <2>1
    <2> QED
      BY <2>1, <2>2 DEF MoveDueFor
  <1> QED
    BY <1>2, <1>3, <1>4, <1>5

\* Another writer's record stays right.
LEMMA OthersOK ==
    ASSUME Inv, NEW x \in Writer, writer'[x] = writer[x], scene' = scene, clock' \in Nat, clock' >= clock,
           faults' = 0 => faults = 0,
           writer[x].op = "assign" /\ writer[x].at = "resolved" => rowLock' = rowLock /\ promo'.target = promo.target
    PROVE  WriterOK(x)'
  <1>1. WriterOK(x) /\ writer[x].commit \in Nat /\ clock \in Nat
    BY HeldTyped DEF Inv
  <1>2. Counter' = Counter /\ Planned(x)' = Planned(x)
    BY DEF Counter, Planned
  <1>3. writer[x].commit <= clock'
    BY <1>1 DEF WriterOK
  <1> QED
    BY <1>1, <1>2, <1>3 DEF WriterOK

\* Requests do not depend on what writers do before they bump.
LEMMA RequestsOK ==
    ASSUME Inv, scene' = scene, request' = request, ver' = ver, clock' \in Nat, clock' >= clock,
           Calm' => Calm, category' = NoCategory => category = NoCategory, NEW q \in Request
    PROVE  RequestOK(q)'
  <1>1. RequestOK(q) /\ request[q].due \in Nat /\ clock \in Nat
    BY HeldTyped DEF Inv
  <1>2. request[q].due <= clock'
    BY <1>1 DEF RequestOK
  <1> QED
    BY <1>1, <1>2 DEF RequestOK

\* A writer plans, or has nothing to do any more.
LEMMA PlanStep ==
    ASSUME Inv, NEW w \in Writer, NEW r \in WriterState,
           writer[w].at # "committed", r.at # "committed", writer' = [writer EXCEPT ![w] = r],
           rowLock' \in Writer \union {Nobody}, WriterOK(w)',
           \A x \in Writer \ {w} : writer[x].op = "assign" /\ writer[x].at = "resolved" => rowLock' = rowLock,
           UNCHANGED <<scene, category, promo, clock, changed, misdirected, ver, entry, epoch, request, announced, lost, faults>>
    PROVE  Inv'
  <1>1. TypeOK /\ writer \in [Writer -> WriterState]
    BY DEF Inv, TypeOK
  <1>2. writer'[w] = r /\ \A x \in Writer : x # w => writer'[x] = writer[x]
    BY <1>1
  <1>3. Counter' = Counter
    BY DEF Counter
  <1>4. WriterState' = WriterState /\ Entry' = Entry /\ RequestState' = RequestState
    BY <1>3 DEF WriterState, Entry, RequestState
  <1>5. TypeOK'
    BY <1>1, <1>3, <1>4 DEF TypeOK
  <1>6. clock \in Nat
    BY <1>1, HeldTyped
  <1>7. \A x \in Writer : WriterOK(x)'
    BY <1>2, <1>6, OthersOK
  <1>8. \A q \in Request : RequestOK(q)'
    BY <1>6, RequestsOK DEF Calm
  <1>9. ASSUME NEW e \in Entry, Copy(e) PROVE Copy(e)'
    <2>1. /\ IsCopy(e)' = IsCopy(e) /\ StampsOf(e)' = StampsOf(e)
          /\ Behind(e)' = Behind(e) /\ Matches(e)' = Matches(e)
      BY SameCounters
    <2>2. /\ DueFor(e) => DueFor(e)'
          /\ MoveDueFor(e) => MoveDueFor(e)'
          /\ \A x \in Writer : OwesBump(x, e) => OwesBump(x, e)'
      BY <1>2, Owing
    <2>3. InPlace(e)' = InPlace(e)
      BY DEF InPlace
    <2>4. Excused(e) => Excused(e)'
      BY <2>1, <2>2 DEF Excused
    <2>5. Waits(e) => Waits(e)'
      <3>1. \A x \in Writer : writer'[x].at = "committed" => writer'[x] = writer[x]
        BY <1>2
      <3> QED
        BY <2>1, <2>2, <3>1 DEF Waits, Calm
    <2> QED
      BY <1>9, <2>1, <2>3, <2>4, <2>5 DEF Copy
  <1>10. \A e \in Entry : Held(e)' => Copy(e)'
    BY <1>9 DEF Held, Inv
  <1>11. \A e \in Entry : Draft(e)' => IsCopy(e)' /\ Behind(e)'
    BY SameCounters DEF Draft, Inv
  <1> QED
    BY <1>4, <1>5, <1>7, <1>8, <1>10, <1>11 DEF Inv

-----------------------------------------------------------------------------
(* The writers' plans. *)

LEMMA Categories ==
    ASSUME TypeOK
    PROVE  category \in Category \union {NoCategory} /\ promo.target \in Target \union {NoTarget} /\ promo.active \in BOOLEAN
           /\ rowLock \in Writer \union {Nobody}
  BY DEF TypeOK

\* The record of a writer that has planned.
Plan(op, t, keys) ==
    [Idle EXCEPT !.at = "resolved", !.op = op, !.new = t, !.saw = <<category, promo.target>>, !.keys = keys \intersect Counter]

LEMMA Resolved ==
    ASSUME Inv, NEW op \in {"promote", "cancel", "assign"}, NEW t \in Target \union {NoTarget}, NEW keys
    PROVE  /\ Plan(op, t, keys) \in WriterState
           /\ Plan(op, t, keys).at = "resolved" /\ Plan(op, t, keys).op = op /\ Plan(op, t, keys).new = t
           /\ Plan(op, t, keys).saw = <<category, promo.target>>
           /\ Plan(op, t, keys).keys = keys \intersect Counter /\ Plan(op, t, keys).commit = 0
  <1>1. category \in Category \union {NoCategory} /\ promo.target \in Target \union {NoTarget}
    BY Categories DEF Inv
  <1>2. PICK saw : saw = <<category, promo.target>>
    OBVIOUS
  <1>3. PICK left : left = keys \intersect Counter
    OBVIOUS
  <1>4. saw \in (Category \union {NoCategory}) \X (Target \union {NoTarget})
    BY <1>1, <1>2
  <1>5. 0 \in 0 .. MaxCommits /\ left \in SUBSET Counter /\ op \in Operation \union {"none"}
    BY <1>3, Names DEF Operation
  <1>6. Plan(op, t, keys) = [Idle EXCEPT !.at = "resolved", !.op = op, !.new = t, !.saw = saw, !.keys = left]
    BY <1>2, <1>3 DEF Plan
  <1>7. Plan(op, t, keys) = [at |-> "resolved", op |-> op, saw |-> saw, new |-> t, keys |-> left, commit |-> 0]
    BY <1>6 DEF Idle
  <1>8. Plan(op, t, keys) \in WriterState
    BY <1>4, <1>5, <1>7 DEF WriterState
  <1> QED
    BY <1>2, <1>3, <1>7, <1>8

LEMMA Resolving ==
    ASSUME Inv, NEW w \in Writer, NEW op, NEW t, NEW keys, Resolves(w, op, t, keys)
    PROVE  /\ writer' = [writer EXCEPT ![w] = Plan(op, t, keys)] /\ writer'[w] = Plan(op, t, keys)
           /\ writer[w].at = "idle"
  <1>1. writer' = [writer EXCEPT ![w] = Plan(op, t, keys)] /\ writer[w].at = "idle"
    BY DEF Resolves, Plan
  <1> QED
    BY <1>1 DEF Inv, TypeOK

LEMMA PromoteReadStep ==
    ASSUME Inv, NEW w \in Writer, NEW t \in Target, PromoteRead(w, t)
    PROVE  Inv'
  <1> DEFINE r == Plan("promote", t, Bumps(t))
  <1>0. writer' = [writer EXCEPT ![w] = r] /\ writer'[w] = r /\ writer[w].at = "idle"
    BY Resolving DEF PromoteRead
  <1>1. /\ r \in WriterState
        /\ r.at = "resolved" /\ r.op = "promote" /\ r.new = t /\ r.saw = <<category, promo.target>>
        /\ r.keys = Bumps(t) \intersect Counter /\ r.commit = 0
    BY Resolved
  <1> HIDE DEF r
  <1>2. UNCHANGED <<dbVars, ver, entry, epoch, request, announced, lost, faults>>
    BY DEF PromoteRead
  <1>3. Counter' = Counter /\ clock \in Nat
    BY <1>2, HeldTyped DEF Inv, Counter, dbVars
  <1>4. WriterOK(w)'
    BY <1>0, <1>1, <1>2, <1>3 DEF WriterOK, Planned, Bumps, BumpsOf, dbVars
  <1> QED
    BY <1>0, <1>1, <1>2, <1>4, PlanStep, Categories DEF dbVars, Inv

LEMMA CancelReadStep ==
    ASSUME Inv, NEW w \in Writer, CancelRead(w)
    PROVE  Inv'
  <1> DEFINE r == Plan("cancel", NoTarget, Bumps(promo.target))
  <1>0. writer' = [writer EXCEPT ![w] = r] /\ writer'[w] = r /\ writer[w].at = "idle"
    BY Resolving DEF CancelRead
  <1>1. /\ r \in WriterState
        /\ r.at = "resolved" /\ r.op = "cancel" /\ r.new = NoTarget /\ r.saw = <<category, promo.target>>
        /\ r.keys = Bumps(promo.target) \intersect Counter /\ r.commit = 0
    BY Resolved
  <1> HIDE DEF r
  <1>2. UNCHANGED <<dbVars, ver, entry, epoch, request, announced, lost, faults>>
    BY DEF CancelRead
  <1>3. Counter' = Counter /\ clock \in Nat
    BY <1>2, HeldTyped DEF Inv, Counter, dbVars
  <1>4. WriterOK(w)'
    BY <1>0, <1>1, <1>2, <1>3 DEF WriterOK, Planned, Bumps, BumpsOf, dbVars
  <1> QED
    BY <1>0, <1>1, <1>2, <1>4, PlanStep, Categories DEF dbVars, Inv

LEMMA AssignReadStep ==
    ASSUME Inv, NEW w \in Writer, NEW t \in Target, AssignRead(w, t)
    PROVE  Inv'
  <1> DEFINE r == Plan("assign", t, AssignBumps(t))
  <1>0. writer' = [writer EXCEPT ![w] = r] /\ writer'[w] = r /\ writer[w].at = "idle"
    BY Resolving DEF AssignRead
  <1>1. /\ r \in WriterState
        /\ r.at = "resolved" /\ r.op = "assign" /\ r.new = t /\ r.saw = <<category, promo.target>>
        /\ r.keys = AssignBumps(t) \intersect Counter /\ r.commit = 0
    BY Resolved
  <1> HIDE DEF r
  <1>2. /\ UNCHANGED <<scene, category, promo, clock, changed, misdirected, ver, entry, epoch, request, announced, lost, faults>>
        /\ rowLock' = w /\ rowLock = Nobody /\ promo.target # NoTarget
    BY DEF AssignRead, RowFree
  <1>3. Counter' = Counter /\ clock \in Nat
    BY <1>2, HeldTyped DEF Inv, Counter
  <1>4. WriterOK(w)'
    BY <1>0, <1>1, <1>2, <1>3 DEF WriterOK, Planned, AssignBumps, Bumps, BumpsOf
  <1>5. \A x \in Writer : ~(writer[x].op = "assign" /\ writer[x].at = "resolved")
    BY <1>2, Names DEF Inv, WriterOK
  <1> QED
    BY <1>0, <1>1, <1>2, <1>4, <1>5, PlanStep

LEMMA IngestReadStep ==
    ASSUME Inv, NEW w \in Writer, NEW c \in Category, IngestRead(w, c)
    PROVE  Inv'
  <1> DEFINE r == [Idle EXCEPT !.at = "resolved", !.op = "ingest", !.new = c,
                               !.saw = <<category, promo.target>>, !.keys = Touched(c) \intersect Counter,
                               !.commit = writer[w].commit]
  <1>1. writer[w] \in WriterState /\ category \in Category \union {NoCategory} /\ promo.target \in Target \union {NoTarget}
    BY Categories, HeldTyped DEF Inv
  <1>2. writer' = [writer EXCEPT ![w] = r] /\ writer[w].at \in {"idle", "retry"}
    BY DEF IngestRead
  <1>3. /\ r \in WriterState
        /\ r.at = "resolved" /\ r.op = "ingest" /\ r.new = c /\ r.saw = <<category, promo.target>>
        /\ r.keys = Touched(c) \intersect Counter /\ r.commit = writer[w].commit
    BY <1>1, Names DEF Idle, WriterState, Operation
  <1> HIDE DEF r
  <1>4. UNCHANGED <<dbVars, ver, entry, epoch, request, announced, lost, faults>>
    BY DEF IngestRead
  <1>5. writer'[w] = r
    BY <1>2 DEF Inv, TypeOK
  <1>6. Counter' = Counter /\ clock \in Nat /\ WriterOK(w)
    BY <1>4, HeldTyped DEF Inv, Counter, dbVars
  <1>7. WriterOK(w)'
    BY <1>2, <1>3, <1>4, <1>5, <1>6 DEF WriterOK, Planned, Touched, dbVars
  <1> QED
    BY <1>2, <1>3, <1>4, <1>7, PlanStep, Categories DEF dbVars, Inv

LEMMA NothingToCommitStep ==
    ASSUME Inv, NEW w \in Writer, NothingToCommit(w)
    PROVE  Inv'
  <1>1. writer' = [writer EXCEPT ![w] = Idle] /\ writer[w].at = "resolved"
    BY DEF NothingToCommit
  <1>2. Idle \in WriterState /\ Idle.at = "idle" /\ Idle.commit = 0
    BY Names DEF Idle, WriterState
  <1>3. UNCHANGED <<dbVars, ver, entry, epoch, request, announced, lost, faults>>
    BY DEF NothingToCommit
  <1>4. writer'[w] = Idle /\ clock \in Nat
    BY <1>1, HeldTyped DEF Inv, TypeOK
  <1>5. WriterOK(w)'
    BY <1>2, <1>3, <1>4 DEF WriterOK, dbVars
  <1> QED
    BY <1>1, <1>2, <1>3, <1>5, PlanStep, Categories DEF dbVars, Inv

-----------------------------------------------------------------------------
(* The writers' commits. *)

\* The keys cover a commit: every copy it changes has a counter among them.
Covers(keys) ==
    \A e \in Entry : IsCopy(e) /\ (scene.view = "product" => e.cat = category) => keys \intersect StampsOf(e) # {}

\* A commit leaves the copies it changes behind, with a writer that owes them a bump.
LEMMA CommittedCopy ==
    ASSUME Inv, NEW w \in Writer, writer[w].at # "committed", NEW views,
           scene' = scene, ver' = ver, epoch' = epoch, request' = request, announced' = announced, lost' = lost,
           faults' = faults, misdirected => misdirected', clock' = clock + 1,
           changed' = IF scene.view \in views THEN clock + 1 ELSE changed,
           \A x \in Writer : x # w => writer'[x] = writer[x],
           writer'[w].at = "committed",
           scene.view \in views => writer'[w].commit = clock + 1,
           scene.view \notin views => writer'[w].commit \in {0, writer[w].commit},
           scene.view \in views /\ ~misdirected' => \/ Covers(writer'[w].keys)
                                                    \/ scene.view = "product" /\ category = NoCategory,
           category' # category => /\ category' # NoCategory
                                   /\ scene.view = "product" =>
                                         scene.view \in views /\ (category # NoCategory => writer'[w].op = "ingest"),
           NEW e \in Entry, Copy(e), IsCopy(e)
    PROVE  Copy(e)'
  <1>1. /\ IsCopy(e)' = IsCopy(e) /\ Group(e)' = Group(e) /\ StampsOf(e)' = StampsOf(e)
        /\ Behind(e)' = Behind(e) /\ Matches(e)' = Matches(e)
    BY SameCounters
  <1>2. /\ DueFor(e) => DueFor(e)'
        /\ MoveDueFor(e) => MoveDueFor(e)'
        /\ \A x \in Writer : x # w => OwesBump(x, e)' = OwesBump(x, e)
    BY Owing
  <1>3. Behind(e) /\ InPlace(e) /\ Excused(e) /\ Waits(e)
    BY DEF Copy
  <1>4. e.asOf \in Nat /\ clock \in Nat /\ changed \in Nat /\ writer[w].commit \in Nat /\ changed <= clock
    BY HeldTyped DEF Inv
  <1>5. e.asOf <= clock /\ (scene.view = "product" => category # NoCategory)
    BY <1>3 DEF InPlace
  <1>6. ASSUME scene.view \in views, ~misdirected', scene.view = "product" => e.cat = category
        PROVE  OwesBump(w, e)'
    <2>1. writer'[w].keys \intersect StampsOf(e) # {}
      BY <1>5, <1>6 DEF Covers
    <2> QED
      BY <1>1, <2>1 DEF OwesBump
  <1>7. InPlace(e)'
    <2>1. e.asOf <= clock'
      BY <1>4, <1>5
    <2>2. ASSUME scene.view = "product" PROVE category' # NoCategory
      BY <1>5, <2>2
    <2>3. ASSUME scene.view = "product", e.asOf >= changed' PROVE e.cat = category'
      <3>1. scene.view \notin views
        BY <1>4, <1>5, <2>3
      <3>2. category' = category /\ changed' = changed
        BY <2>3, <3>1
      <3> QED
        BY <1>3, <2>3, <3>2 DEF InPlace
    <2> QED
      BY <2>1, <2>2, <2>3 DEF InPlace
  <1>8. Excused(e)'
    <2> SUFFICES ASSUME Matches(e), e.asOf < changed', ~misdirected'
                 PROVE  DueFor(e)' \/ StampsOf(e) \intersect lost # {}
      BY <1>1 DEF Excused
    <2>1. CASE e.asOf < changed
      BY <1>2, <1>3, <2>1 DEF Excused
    <2>2. CASE e.asOf >= changed
      <3>1. scene.view \in views /\ (scene.view = "product" => e.cat = category)
        BY <1>3, <1>4, <2>2 DEF InPlace
      <3> QED
        BY <1>6, <3>1 DEF DueFor
    <2> QED
      BY <1>4, <2>1, <2>2
  <1>9. Waits(e)'
    <2> SUFFICES ASSUME Calm', Matches(e)
                 PROVE  /\ scene.view = "product" /\ e.cat # category' => MoveDueFor(e)'
                        /\ \A x \in Writer : writer'[x].at = "committed" /\ e.asOf < writer'[x].commit
                                            => OwesBump(x, e)' \/ MoveDueFor(e)'
                        /\ e.asOf < announced => MoveDueFor(e)'
                        /\ \A q \in Request : e.asOf >= request[q].due
      BY <1>1 DEF Waits
    <2>1. Calm /\ ~misdirected' /\ faults = 0
      BY DEF Calm
    <2>2. /\ scene.view = "product" /\ e.cat # category => MoveDueFor(e)
          /\ \A x \in Writer : writer[x].at = "committed" /\ e.asOf < writer[x].commit => OwesBump(x, e) \/ MoveDueFor(e)
          /\ e.asOf < announced => MoveDueFor(e)
          /\ \A q \in Request : e.asOf >= request[q].due
      BY <1>3, <2>1 DEF Waits
    <2>3. ASSUME scene.view = "product", e.cat # category' PROVE MoveDueFor(e)'
      <3>1. CASE e.cat # category
        BY <1>2, <2>2, <2>3, <3>1
      <3>2. CASE e.cat = category
        <4>1. category' # category
          BY <2>3, <3>2
        <4>2. scene.view \in views /\ writer'[w].op = "ingest"
          BY <1>5, <2>3, <4>1
        <4>3. OwesBump(w, e)'
          BY <1>6, <2>1, <3>2, <4>2
        <4> QED
          BY <2>3, <4>2, <4>3 DEF MoveDueFor
      <3> QED
        BY <3>1, <3>2
    <2>4. ASSUME NEW x \in Writer, writer'[x].at = "committed", e.asOf < writer'[x].commit
          PROVE  OwesBump(x, e)' \/ MoveDueFor(e)'
      <3>1. CASE x # w
        BY <1>2, <2>2, <2>4, <3>1
      <3>2. CASE x = w
        <4>1. writer[w].commit = 0
          BY <2>1 DEF Inv, WriterOK
        <4>2. scene.view \in views
          BY <1>4, <2>4, <3>2, <4>1
        <4>3. CASE scene.view = "product" => e.cat = category
          BY <1>6, <2>1, <3>2, <4>2, <4>3
        <4>4. CASE scene.view = "product" /\ e.cat # category
          BY <1>2, <2>2, <4>4
        <4> QED
          BY <4>3, <4>4
      <3> QED
        BY <3>1, <3>2
    <2> QED
      BY <1>2, <2>2, <2>3, <2>4
  <1> QED
    BY <1>1, <1>7, <1>8, <1>9, <1>3 DEF Copy

LEMMA CommitStep ==
    ASSUME Inv, NEW w \in Writer, NEW r \in WriterState, writer[w].at # "committed", NEW views,
           UNCHANGED <<scene, ver, entry, epoch, request, announced, lost, faults>>,
           misdirected => misdirected', misdirected' \in BOOLEAN,
           clock < MaxCommits, clock' = clock + 1, changed' = IF scene.view \in views THEN clock + 1 ELSE changed,
           writer' = [writer EXCEPT ![w] = r], r.at = "committed",
           scene.view \in views => r.commit = clock + 1,
           scene.view \notin views => r.commit \in {0, writer[w].commit},
           scene.view \in views /\ ~misdirected' => \/ Covers(r.keys)
                                                    \/ scene.view = "product" /\ category = NoCategory,
           category' \in Category \union {NoCategory},
           category' # category => /\ category' # NoCategory
                                   /\ scene.view = "product" =>
                                         scene.view \in views /\ (category # NoCategory => r.op = "ingest"),
           promo' \in [target : Target \union {NoTarget}, active : BOOLEAN], rowLock' \in Writer \union {Nobody},
           \A x \in Writer \ {w} : writer[x].op = "assign" /\ writer[x].at = "resolved"
                                   => rowLock' = rowLock /\ promo'.target = promo.target
    PROVE  Inv'
  <1>1. TypeOK /\ writer \in [Writer -> WriterState]
    BY DEF Inv, TypeOK
  <1>2. writer'[w] = r /\ \A x \in Writer : x # w => writer'[x] = writer[x]
    BY <1>1
  <1>3. Counter' = Counter
    BY DEF Counter
  <1>4. WriterState' = WriterState /\ Entry' = Entry /\ RequestState' = RequestState
    BY <1>3 DEF WriterState, Entry, RequestState
  <1>5. clock \in Nat /\ changed \in Nat /\ announced \in Nat /\ clock' \in Nat /\ clock' >= clock /\ writer[w].commit \in Nat
        /\ changed <= clock /\ announced <= clock
    BY <1>1, HeldTyped DEF Inv
  <1>6. clock' \in 0 .. MaxCommits /\ changed' \in 0 .. MaxCommits /\ changed' <= clock' /\ announced' <= clock'
    BY <1>1, <1>5, Names DEF TypeOK
  <1>7. TypeOK'
    BY <1>1, <1>3, <1>4, <1>6 DEF TypeOK
  <1>8. WriterOK(w)'
    <2>1. writer[w].commit <= clock /\ r.commit <= clock'
      BY <1>5 DEF Inv, WriterOK
    <2> QED
      BY <1>2, <2>1 DEF WriterOK
  <1>9. \A x \in Writer : WriterOK(x)'
    BY <1>2, <1>5, <1>8, OthersOK
  <1>10. \A q \in Request : RequestOK(q)'
    BY <1>5, RequestsOK DEF Calm
  <1>11. ASSUME NEW e \in Entry, Copy(e) PROVE Copy(e)'
    <2>1. CASE IsCopy(e)
      BY <1>2, <1>11, <2>1, CommittedCopy
    <2>2. CASE ~IsCopy(e)
      BY <1>11, <2>2, SameCounters DEF Copy
    <2> QED
      BY <2>1, <2>2
  <1>12. \A e \in Entry : Held(e)' => Copy(e)'
    BY <1>11 DEF Held, Inv
  <1>13. \A e \in Entry : Draft(e)' => IsCopy(e)' /\ Behind(e)'
    BY SameCounters DEF Draft, Inv
  <1>14. faults' = 0 => epoch' = 0
    BY DEF Inv
  <1> QED
    BY <1>4, <1>6, <1>7, <1>9, <1>10, <1>12, <1>13, <1>14 DEF Inv

\* Committed plans are as good as what they were made from.
LEMMA CommittedStep ==
    ASSUME Inv, NEW w \in Writer, writer[w].at = "resolved", NEW views, Committed(w, views),
           UNCHANGED <<ver, entry, epoch, request, announced, lost, faults>>,
           /\ scene.view \in views
           /\ writer[w].saw[1] = category
           /\ writer[w].op = "cancel" => writer[w].saw[2] = promo.target
           => Covers(writer[w].keys) \/ (scene.view = "product" /\ category = NoCategory),
           category' \in Category \union {NoCategory},
           category' # category => /\ category' # NoCategory /\ writer[w].op = "ingest"
                                   /\ scene.view = "product" => scene.view \in views,
           promo' \in [target : Target \union {NoTarget}, active : BOOLEAN], rowLock' \in Writer \union {Nobody},
           \A x \in Writer \ {w} : writer[x].op = "assign" /\ writer[x].at = "resolved"
                                   => rowLock' = rowLock /\ promo'.target = promo.target
    PROVE  Inv'
  <1> DEFINE r == [writer[w] EXCEPT !.at = "committed", !.saw = Idle.saw,
                                    !.commit = IF scene.view \in views THEN clock + 1 ELSE @]
             raced == writer[w].saw[1] # category \/ (writer[w].op = "cancel" /\ writer[w].saw[2] # promo.target)
             covers == IF scene.view = "product" THEN {"product", category} ELSE {scene.view}
  <1>1. writer' = [writer EXCEPT ![w] = r]
    BY DEF Committed
  <1>2. /\ clock < MaxCommits /\ clock' = clock + 1 /\ scene' = scene
        /\ changed' = IF scene.view \in views THEN clock + 1 ELSE changed
    BY DEF Committed, Commits
  <1>3. misdirected' = (misdirected \/ (raced /\ scene.view \in views /\ covers \intersect writer[w].keys = {}))
    BY DEF Committed
  <1>4. r \in WriterState /\ r.at = "committed" /\ r.op = writer[w].op /\ r.keys = writer[w].keys
        /\ r.commit = IF scene.view \in views THEN clock + 1 ELSE writer[w].commit
    <2>1. PICK n : n = IF scene.view \in views THEN clock + 1 ELSE writer[w].commit
      OBVIOUS
    <2>2. writer[w] \in WriterState /\ clock \in 0 .. MaxCommits
      BY HeldTyped DEF Inv, TypeOK
    <2>3. n \in 0 .. MaxCommits
      BY <1>2, <2>1, <2>2, Names DEF WriterState
    <2>4. PICK saw : saw = Idle.saw
      OBVIOUS
    <2>5. saw \in (Category \union {NoCategory}) \X (Target \union {NoTarget})
      BY <2>4 DEF Idle
    <2>6. r = [writer[w] EXCEPT !.at = "committed", !.saw = saw, !.commit = n]
      BY <2>1, <2>2, <2>4 DEF WriterState
    <2> HIDE DEF r
    <2>7. r \in WriterState /\ r.at = "committed" /\ r.op = writer[w].op /\ r.keys = writer[w].keys /\ r.commit = n
      BY <2>2, <2>3, <2>5, <2>6 DEF WriterState
    <2> QED
      BY <2>1, <2>7
  <1> HIDE DEF r
  <1>5. misdirected' \in BOOLEAN /\ (misdirected => misdirected')
    BY <1>3, HeldTyped DEF Inv
  <1>6. ASSUME scene.view \in views, ~misdirected'
        PROVE  Covers(r.keys) \/ (scene.view = "product" /\ category = NoCategory)
    <2>1. CASE raced
      <3>1. covers \intersect r.keys # {}
        BY <1>3, <1>4, <1>6, <2>1
      <3>2. ASSUME NEW e \in Entry, scene.view = "product" => e.cat = category PROVE covers = StampsOf(e)
        BY <3>2 DEF StampsOf
      <3> QED
        BY <3>1, <3>2 DEF Covers
    <2>2. CASE ~raced
      BY <1>4, <1>6, <2>2
    <2> QED
      BY <2>1, <2>2
  <1> HIDE DEF raced, covers
  <1>7. /\ scene.view \in views => r.commit = clock + 1
        /\ scene.view \notin views => r.commit \in {0, writer[w].commit}
    BY <1>4
  <1> QED
    BY <1>1, <1>2, <1>4, <1>5, <1>6, <1>7, CommitStep

\* The rows a plan was made from.
LEMMA PlanOf ==
    ASSUME Inv, NEW w \in Writer, writer[w].at = "resolved"
    PROVE  /\ writer[w].keys = Planned(w) \intersect Counter
           /\ writer[w].op = "assign" => rowLock = w /\ writer[w].saw[2] = promo.target /\ promo.target # NoTarget
           /\ writer[w].op \in {"promote", "assign"} => writer[w].new \in Target
           /\ writer[w].op = "ingest" => writer[w].new \in Category
  BY DEF Inv, WriterOK

\* The counters of a target cover what its promotion changes.
LEMMA BumpsCover ==
    ASSUME Inv, NEW t \in Target \union {NoTarget}, scene.view \in Shows(t), NEW keys, Bumps(t) \intersect Counter \subseteq keys
    PROVE  Covers(keys)
  <1> SUFFICES ASSUME NEW e \in Entry, IsCopy(e), scene.view = "product" => e.cat = category
               PROVE  keys \intersect StampsOf(e) # {}
    BY DEF Covers
  <1>1. CASE scene.view = "product"
    <2>1. Counter = Target /\ StampsOf(e) = {"product", category} /\ category \in Category
      BY <1>1, Scene DEF Inv, StampsOf, IsCopy
    <2>2. "product" \in Bumps(t) \/ category \in Bumps(t)
      BY <1>1, <2>1, Names DEF Shows, Bumps
    <2> QED
      BY <2>1, <2>2, Names
  <1>2. CASE scene.view # "product"
    <2>1. Counter = {scene.view} /\ StampsOf(e) = {scene.view}
      BY <1>2, Scene DEF Inv, StampsOf
    <2>2. scene.view \in Bumps(t)
      BY <1>2 DEF Shows, Bumps
    <2> QED
      BY <2>1, <2>2
  <1> QED
    BY <1>1, <1>2

LEMMA BumpsPlanned ==
    ASSUME NEW t
    PROVE  Bumps(t) = BumpsOf(category, t)
  BY DEF Bumps, BumpsOf

LEMMA PromoteCommitStep ==
    ASSUME Inv, NEW w \in Writer, PromoteCommit(w)
    PROVE  Inv'
  <1>1. PICK t : t = writer[w].new
    OBVIOUS
  <1>2. PICK views : views = Shows(t)
    OBVIOUS
  <1>3. /\ writer[w].at = "resolved" /\ writer[w].op = "promote" /\ promo.target = NoTarget
        /\ promo' = [target |-> t, active |-> TRUE] /\ Committed(w, views)
        /\ UNCHANGED <<category, rowLock, ver, entry, epoch, request, announced, lost, faults>>
    BY <1>1, <1>2 DEF PromoteCommit
  <1>4. t \in Target /\ writer[w].keys = BumpsOf(writer[w].saw[1], t) \intersect Counter
    BY <1>1, <1>3, PlanOf DEF Planned
  <1>5. ASSUME scene.view \in views, writer[w].saw[1] = category PROVE Covers(writer[w].keys)
    <2>1. writer[w].keys = Bumps(t) \intersect Counter
      BY <1>4, <1>5, BumpsPlanned
    <2> QED
      BY <1>2, <1>4, <1>5, <2>1, BumpsCover
  <1>6. \A x \in Writer \ {w} : ~(writer[x].op = "assign" /\ writer[x].at = "resolved")
    BY <1>3 DEF Inv, WriterOK
  <1>7. promo' \in [target : Target \union {NoTarget}, active : BOOLEAN]
    BY <1>3, <1>4
  <1> QED
    BY <1>3, <1>5, <1>6, <1>7, CommittedStep, Categories DEF Inv

LEMMA CancelCommitStep ==
    ASSUME Inv, NEW w \in Writer, CancelCommit(w)
    PROVE  Inv'
  <1>1. PICK t : t = promo.target
    OBVIOUS
  <1>2. PICK views : views = Shows(t)
    OBVIOUS
  <1>3. /\ writer[w].at = "resolved" /\ writer[w].op = "cancel"
        /\ promo' = [promo EXCEPT !.active = FALSE] /\ Committed(w, views)
        /\ UNCHANGED <<category, rowLock, ver, entry, epoch, request, announced, lost, faults>>
    BY <1>1, <1>2 DEF CancelCommit
  <1>4. t \in Target \union {NoTarget} /\ writer[w].keys = BumpsOf(writer[w].saw[1], writer[w].saw[2]) \intersect Counter
    BY <1>1, <1>3, PlanOf, Categories DEF Planned, Inv
  <1>5. ASSUME scene.view \in views, writer[w].saw[1] = category, writer[w].saw[2] = t PROVE Covers(writer[w].keys)
    <2>1. writer[w].keys = Bumps(t) \intersect Counter
      BY <1>4, <1>5, BumpsPlanned
    <2> QED
      BY <1>2, <1>4, <1>5, <2>1, BumpsCover
  <1>6. promo' \in [target : Target \union {NoTarget}, active : BOOLEAN] /\ promo'.target = promo.target
    BY <1>3 DEF Inv, TypeOK
  <1> QED
    BY <1>1, <1>3, <1>5, <1>6, CommittedStep, Categories DEF Inv

LEMMA AssignCommitStep ==
    ASSUME Inv, NEW w \in Writer, AssignCommit(w)
    PROVE  Inv'
  <1>1. PICK t : t = promo.target
    OBVIOUS
  <1>2. PICK new : new = writer[w].new
    OBVIOUS
  <1>3. PICK views : views = IF promo.active THEN Shows(t) \union Shows(new) ELSE {}
    OBVIOUS
  <1>4. /\ writer[w].at = "resolved" /\ writer[w].op = "assign" /\ rowLock' = Nobody
        /\ promo' = [promo EXCEPT !.target = new] /\ Committed(w, views)
        /\ UNCHANGED <<category, ver, entry, epoch, request, announced, lost, faults>>
    BY <1>1, <1>2, <1>3 DEF AssignCommit
  <1>5. /\ t \in Target /\ new \in Target /\ writer[w].saw[2] = t /\ rowLock = w
        /\ writer[w].keys = (BumpsOf(writer[w].saw[1], t) \union BumpsOf(writer[w].saw[1], new)) \intersect Counter
    BY <1>1, <1>2, <1>4, PlanOf, Categories DEF Planned, Inv
  <1>6. ASSUME scene.view \in views, writer[w].saw[1] = category PROVE Covers(writer[w].keys)
    <2>1. Bumps(t) \intersect Counter \subseteq writer[w].keys /\ Bumps(new) \intersect Counter \subseteq writer[w].keys
      BY <1>5, <1>6, BumpsPlanned
    <2>2. scene.view \in Shows(t) \/ scene.view \in Shows(new)
      BY <1>3, <1>6
    <2> QED
      BY <1>5, <2>1, <2>2, BumpsCover
  <1>7. promo' \in [target : Target \union {NoTarget}, active : BOOLEAN]
    BY <1>4, <1>5 DEF Inv, TypeOK
  <1>8. \A x \in Writer \ {w} : ~(writer[x].op = "assign" /\ writer[x].at = "resolved")
    BY <1>5 DEF Inv, WriterOK
  <1> QED
    BY <1>4, <1>6, <1>7, <1>8, CommittedStep, Categories DEF Inv

LEMMA IngestCommitStep ==
    ASSUME Inv, NEW w \in Writer, IngestCommit(w)
    PROVE  Inv'
  <1>1. PICK new : new = writer[w].new
    OBVIOUS
  <1>2. PICK views : views = {"product", "all", category, new} \ {NoCategory}
    OBVIOUS
  <1>3. /\ writer[w].at = "resolved" /\ writer[w].op = "ingest" /\ category' = new /\ Committed(w, views)
        /\ UNCHANGED <<promo, rowLock, ver, entry, epoch, request, announced, lost, faults>>
    BY <1>1, <1>2 DEF IngestCommit
  <1>4. /\ new \in Category
        /\ writer[w].keys = ({writer[w].saw[1], new, "all"} \ {NoCategory}) \intersect Counter
    BY <1>1, <1>3, PlanOf DEF Planned
  <1>5. ASSUME scene.view \in views, writer[w].saw[1] = category
        PROVE  Covers(writer[w].keys) \/ (scene.view = "product" /\ category = NoCategory)
    <2>1. CASE scene.view = "product" /\ category # NoCategory
      <3>1. category \in writer[w].keys
        BY <1>4, <1>5, <2>1, Scene, Names, Categories DEF Inv
      <3>2. ASSUME NEW e \in Entry, e.cat = category PROVE category \in StampsOf(e)
        BY <2>1, <3>2 DEF StampsOf
      <3> QED
        BY <2>1, <3>1, <3>2 DEF Covers
    <2>2. CASE scene.view # "product"
      <3>1. scene.view \in writer[w].keys
        BY <1>2, <1>4, <1>5, <2>2, Scene DEF Inv
      <3>2. ASSUME NEW e \in Entry PROVE scene.view \in StampsOf(e)
        BY <2>2 DEF StampsOf
      <3> QED
        BY <3>1, <3>2 DEF Covers
    <2> QED
      BY <2>1, <2>2
  <1>6. promo \in [target : Target \union {NoTarget}, active : BOOLEAN]
    BY DEF Inv, TypeOK
  <1>7. new # NoCategory /\ "product" \in views
    BY <1>2, <1>4, Names
  <1> QED
    BY <1>3, <1>4, <1>5, <1>6, <1>7, CommittedStep, Categories DEF Inv

LEMMA CreateCommitStep ==
    ASSUME Inv, NEW w \in Writer, NEW c \in Category, CreateCommit(w, c)
    PROVE  Inv'
  <1> DEFINE views == {"product", c, "all"}
             r == [Idle EXCEPT !.at = "committed", !.op = "create", !.keys = {c, "all"} \intersect Counter,
                               !.commit = IF scene.view \in {"product", c, "all"} THEN clock + 1 ELSE 0]
  <1>1. /\ writer[w].at = "idle" /\ category = NoCategory /\ category' = c
        /\ writer' = [writer EXCEPT ![w] = r]
        /\ UNCHANGED <<promo, rowLock, misdirected, ver, entry, epoch, request, announced, lost, faults>>
    BY DEF CreateCommit
  <1>2. /\ clock < MaxCommits /\ clock' = clock + 1 /\ scene' = scene
        /\ changed' = IF scene.view \in views THEN clock + 1 ELSE changed
    BY DEF CreateCommit, Commits
  <1>3. /\ r \in WriterState /\ r.at = "committed" /\ r.keys = {c, "all"} \intersect Counter
        /\ r.commit = IF scene.view \in views THEN clock + 1 ELSE 0
    <2>1. PICK n : n = IF scene.view \in views THEN clock + 1 ELSE 0
      OBVIOUS
    <2>2. PICK keys : keys = {c, "all"} \intersect Counter
      OBVIOUS
    <2>3. clock \in 0 .. MaxCommits
      BY DEF Inv, TypeOK
    <2>4. n \in 0 .. MaxCommits /\ keys \in SUBSET Counter
      BY <1>2, <2>1, <2>2, <2>3, Names
    <2>0. r = [Idle EXCEPT !.at = "committed", !.op = "create", !.keys = keys, !.commit = n]
      BY <2>1, <2>2
    <2> HIDE DEF r
    <2>5. r = [at |-> "committed", op |-> "create", saw |-> <<NoCategory, NoTarget>>, new |-> NoTarget, keys |-> keys, commit |-> n]
      BY <2>0 DEF Idle
    <2>6. r \in WriterState
      BY <2>4, <2>5 DEF WriterState, Operation
    <2> QED
      BY <2>1, <2>2, <2>5, <2>6
  <1> HIDE DEF r
  <1>4. ASSUME scene.view \in views PROVE Covers(r.keys) \/ scene.view = "product"
    <2> SUFFICES ASSUME scene.view # "product" PROVE Covers(r.keys)
      OBVIOUS
    <2>1. scene.view \in r.keys
      BY <1>3, <1>4, Scene DEF Inv
    <2>2. ASSUME NEW e \in Entry PROVE scene.view \in StampsOf(e)
      BY DEF StampsOf
    <2> QED
      BY <2>1, <2>2 DEF Covers
  <1>5. /\ promo \in [target : Target \union {NoTarget}, active : BOOLEAN] /\ rowLock \in Writer \union {Nobody}
        /\ misdirected \in BOOLEAN
    BY DEF Inv, TypeOK
  <1>6. c # NoCategory /\ "product" \in views
    BY Names
  <1> HIDE DEF views
  <1> QED
    BY <1>1, <1>2, <1>3, <1>4, <1>5, <1>6, CommitStep

-----------------------------------------------------------------------------
(* The writers' bumps and answers. *)

\* A record with these keys, and no other change.
LEMMA Rekeyed ==
    ASSUME Inv, NEW w \in Writer, NEW keys \in SUBSET Counter, writer' = [writer EXCEPT ![w].keys = keys]
    PROVE  /\ writer' \in [Writer -> WriterState]
           /\ writer'[w].keys = keys /\ writer'[w].at = writer[w].at /\ writer'[w].op = writer[w].op
           /\ writer'[w].commit = writer[w].commit
           /\ \A x \in Writer : x # w => writer'[x] = writer[x]
  <1>1. writer \in [Writer -> WriterState] /\ writer[w] \in WriterState
    BY DEF Inv, TypeOK
  <1>2. writer'[w] = [writer[w] EXCEPT !.keys = keys] /\ \A x \in Writer : x # w => writer'[x] = writer[x]
    BY <1>1
  <1>3. writer'[w] \in WriterState
    BY <1>1, <1>2 DEF WriterState
  <1>4. writer'[w].keys = keys /\ writer'[w].at = writer[w].at /\ writer'[w].op = writer[w].op
        /\ writer'[w].commit = writer[w].commit
    BY <1>1, <1>2 DEF WriterState
  <1> QED
    BY <1>1, <1>2, <1>3, <1>4

\* A bumped counter makes every copy that is stamped with it unacceptable.
LEMMA BumpStep ==
    ASSUME Inv, NEW w \in Writer, NEW k \in Counter, Bump(w, k)
    PROVE  Inv'
  <1>1. /\ writer[w].at = "committed" /\ k \in writer[w].keys /\ ver' = [ver EXCEPT ![k] = ver[k] + 1]
        /\ writer' = [writer EXCEPT ![w].keys = writer[w].keys \ {k}] /\ lost' = lost \ {k}
        /\ UNCHANGED <<scene, category, promo, rowLock, clock, changed, misdirected, entry, epoch, request, announced, faults>>
    BY DEF Bump, dbVars
  <1>2. PICK keys \in SUBSET Counter : keys = writer[w].keys \ {k}
    BY HeldTyped DEF Inv, WriterState
  <1>3. /\ writer' \in [Writer -> WriterState]
        /\ writer'[w].keys = keys /\ writer'[w].at = writer[w].at /\ writer'[w].op = writer[w].op
        /\ writer'[w].commit = writer[w].commit
        /\ \A x \in Writer : x # w => writer'[x] = writer[x]
    BY <1>1, <1>2, Rekeyed
  <1>4. Counter' = Counter
    BY <1>1 DEF Counter
  <1>5. WriterState' = WriterState /\ Entry' = Entry /\ RequestState' = RequestState
    BY <1>4 DEF WriterState, Entry, RequestState
  <1>6. ver \in [Counter -> Nat] /\ lost \in SUBSET Counter /\ TypeOK
    BY DEF Inv, TypeOK
  <1>7. ver' \in [Counter -> Nat] /\ ver'[k] = ver[k] + 1 /\ (\A j \in Counter : j # k => ver'[j] = ver[j])
    BY <1>1, <1>6
  <1>8. TypeOK'
    BY <1>1, <1>3, <1>4, <1>5, <1>6, <1>7 DEF TypeOK
  <1>9. WriterOK(w)'
    BY <1>1, <1>3 DEF Inv, WriterOK
  <1>10. \A x \in Writer : WriterOK(x)'
    BY <1>1, <1>3, <1>9, OthersOK, HeldTyped DEF Inv
  <1>11. ASSUME NEW q \in Request PROVE RequestOK(q)'
    <2>1. RequestOK(q) /\ Calm' = Calm /\ request[q].e.gv \in Nat
      BY <1>1, HeldTyped DEF Inv, Calm
    <2>2. ASSUME request[q].at = "confirm", Calm
          PROVE  /\ request[q].e.gv <= ver'[request[q].e.cat]
                 /\ request[q].e.gv = ver'[request[q].e.cat] => request[q].e.asOf >= request[q].due
      <3>1. scene.view = "product" /\ request[q].e.cat \in Counter
        BY <2>1, <2>2, Scene, Names, <1>6 DEF RequestOK
      <3>2. /\ request[q].e.gv <= ver[request[q].e.cat]
            /\ request[q].e.gv = ver[request[q].e.cat] => request[q].e.asOf >= request[q].due
        BY <2>1, <2>2 DEF RequestOK
      <3>3. CASE request[q].e.cat = k
        <4>1. request[q].e.gv < ver'[request[q].e.cat]
          BY <1>6, <1>7, <2>1, <3>2, <3>3
        <4> QED
          BY <1>7, <2>1, <3>1, <4>1
      <3>4. CASE request[q].e.cat # k
        BY <1>7, <3>1, <3>2, <3>4
      <3> QED
        BY <3>3, <3>4
    <2> QED
      BY <1>1, <2>1, <2>2 DEF RequestOK
  <1>12. ASSUME NEW e \in Entry
         PROVE  /\ IsCopy(e)' = IsCopy(e) /\ Group(e)' = Group(e) /\ StampsOf(e)' = StampsOf(e) /\ InPlace(e)' = InPlace(e)
    BY <1>1 DEF IsCopy, Group, StampsOf, InPlace
  <1>13. ASSUME NEW e \in Entry, IsCopy(e), Behind(e)
         PROVE  Behind(e)' /\ (k \in StampsOf(e) => ~Matches(e)') /\ (k \notin StampsOf(e) => Matches(e)' = Matches(e))
    <2>1. /\ Group(e) \in Counter /\ StampsOf(e) \subseteq Counter
          /\ scene.view = "product" => "product" \in Counter /\ StampsOf(e) = {"product", Group(e)}
          /\ scene.view # "product" => StampsOf(e) = {Group(e)}
      BY <1>6, <1>13, Groups
    <2>2. PICK g : g = Group(e)
      OBVIOUS
    <2>3. e.gv \in Nat /\ e.pv \in Nat /\ e.epoch \in Nat /\ epoch \in Nat
      BY <1>6, HeldTyped
    <2>4. ver[g] \in Nat /\ ver'[g] = IF g = k THEN ver[g] + 1 ELSE ver[g]
      BY <1>6, <1>7, <2>1, <2>2
    <2>5. scene.view = "product" => /\ ver["product"] \in Nat
                                    /\ ver'["product"] = IF "product" = k THEN ver["product"] + 1 ELSE ver["product"]
      BY <1>6, <1>7, <2>1
    <2>6. /\ e.epoch <= epoch
          /\ e.epoch = epoch => e.gv <= ver[g] /\ (scene.view = "product" => e.pv <= ver["product"])
      BY <1>13, <2>2 DEF Behind
    <2>7. Behind(e)'
      <3>1. e.epoch = epoch => e.gv <= ver'[g] /\ (scene.view = "product" => e.pv <= ver'["product"])
        BY <2>3, <2>4, <2>5, <2>6
      <3> QED
        BY <1>1, <1>12, <2>2, <2>6, <3>1 DEF Behind
    <2>8. ASSUME k \in StampsOf(e), e.epoch = epoch, e.gv = ver'[g], scene.view = "product" => e.pv = ver'["product"] PROVE FALSE
      <3>1. CASE g = k
        BY <2>3, <2>4, <2>6, <2>8, <3>1
      <3>2. CASE g # k
        <4>1. scene.view = "product" /\ k = "product"
          BY <2>1, <2>2, <2>8, <3>2
        <4> QED
          BY <2>3, <2>5, <2>6, <2>8, <4>1
      <3> QED
        BY <3>1, <3>2
    <2>9. k \in StampsOf(e) => ~Matches(e)'
      BY <1>1, <1>12, <2>2, <2>8 DEF Matches
    <2>10. ASSUME k \notin StampsOf(e) PROVE Matches(e)' = Matches(e)
      <3>1. g # k /\ (scene.view = "product" => "product" # k)
        BY <2>1, <2>2, <2>10
      <3> QED
        BY <1>1, <1>12, <2>2, <2>4, <2>5, <3>1 DEF Matches
    <2> QED
      BY <2>7, <2>9, <2>10
  <1>14. ASSUME NEW e \in Entry, Copy(e) PROVE Copy(e)'
    <2>1. CASE ~IsCopy(e)
      BY <1>12, <1>14, <2>1 DEF Copy
    <2>2. CASE IsCopy(e)
      <3>1. Behind(e) /\ InPlace(e) /\ Excused(e) /\ Waits(e)
        BY <1>14, <2>2 DEF Copy
      <3>2. Behind(e)' /\ InPlace(e)'
        BY <1>12, <1>13, <2>2, <3>1
      <3>3. CASE k \in StampsOf(e)
        <4>1. ~Matches(e)'
          BY <1>13, <2>2, <3>1, <3>3
        <4> QED
          BY <1>12, <1>14, <3>2, <4>1 DEF Copy, Excused, Waits
      <3>4. CASE k \notin StampsOf(e)
        <4>1. Matches(e)' = Matches(e) /\ Calm' = Calm
          BY <1>1, <1>13, <2>2, <3>1, <3>4 DEF Calm
        <4>2. \A x \in Writer : OwesBump(x, e)' = OwesBump(x, e) /\ writer'[x].op = writer[x].op
                              /\ writer'[x].at = writer[x].at /\ writer'[x].commit = writer[x].commit
          BY <1>1, <1>2, <1>3, <1>12, <3>4 DEF OwesBump
        <4>3. DueFor(e)' = DueFor(e) /\ MoveDueFor(e)' = MoveDueFor(e)
          BY <1>1, <4>2 DEF DueFor, MoveDueFor
        <4>4. Excused(e)'
          BY <1>1, <1>12, <3>1, <3>4, <4>1, <4>3 DEF Excused
        <4>5. Waits(e)'
          BY <1>1, <3>1, <4>1, <4>2, <4>3 DEF Waits
        <4> QED
          BY <1>12, <1>14, <3>2, <4>4, <4>5 DEF Copy
      <3> QED
        BY <3>3, <3>4
    <2> QED
      BY <2>1, <2>2
  <1>15. \A e \in Entry : Held(e)' => Copy(e)'
    BY <1>1, <1>14 DEF Held, Inv
  <1>16. \A e \in Entry : Draft(e)' => IsCopy(e)' /\ Behind(e)'
    <2> SUFFICES ASSUME NEW e \in Entry, Draft(e)' PROVE IsCopy(e)' /\ Behind(e)'
      OBVIOUS
    <2>1. IsCopy(e) /\ Behind(e)
      BY <1>1 DEF Draft, Inv
    <2> QED
      BY <1>12, <1>13, <2>1
  <1> QED
    BY <1>1, <1>5, <1>8, <1>10, <1>11, <1>15, <1>16 DEF Inv

\* What a writer does not bump after a fault is lost.
LEMMA WriterFaultStep ==
    ASSUME Inv, NEW w \in Writer, NEW r \in WriterState, writer' = [writer EXCEPT ![w] = r],
           r.at # "resolved", r.commit \in {0, writer[w].commit}, faults < MaxFaults, faults' = faults + 1,
           lost' \in SUBSET Counter, lost \subseteq lost', writer[w].at = "committed" => writer[w].keys \subseteq lost',
           rowLock' \in Writer \union {Nobody}, \A x \in Writer \ {w} : rowLock = x => rowLock' = x,
           UNCHANGED <<scene, category, promo, clock, changed, misdirected, ver, entry, epoch, request, announced>>
    PROVE  Inv'
  <1>1. TypeOK /\ writer \in [Writer -> WriterState]
    BY DEF Inv, TypeOK
  <1>2. writer'[w] = r /\ \A x \in Writer : x # w => writer'[x] = writer[x]
    BY <1>1
  <1>3. Counter' = Counter
    BY DEF Counter
  <1>4. WriterState' = WriterState /\ Entry' = Entry /\ RequestState' = RequestState
    BY <1>3 DEF WriterState, Entry, RequestState
  <1>5. faults \in 0 .. MaxFaults /\ faults' \in 0 .. MaxFaults /\ faults' # 0 /\ clock \in Nat /\ ~Calm'
    BY <1>1, Names, HeldTyped DEF TypeOK, Calm
  <1>6. TypeOK'
    BY <1>1, <1>3, <1>4, <1>5 DEF TypeOK
  <1>7. WriterOK(w)'
    <2>1. r.commit <= clock
      BY <1>5, HeldTyped DEF Inv, WriterOK
    <2> QED
      BY <1>2, <1>5, <2>1 DEF WriterOK
  <1>8. ASSUME NEW x \in Writer, x # w PROVE WriterOK(x)'
    <2>1. writer[x].op = "assign" /\ writer[x].at = "resolved" => rowLock' = rowLock
      BY <1>8 DEF Inv, WriterOK
    <2> QED
      BY <1>2, <1>5, <1>8, <2>1, OthersOK
  <1>9. \A q \in Request : RequestOK(q)'
    BY <1>5, RequestsOK
  <1>10. ASSUME NEW e \in Entry, Copy(e) PROVE Copy(e)'
    <2>1. /\ IsCopy(e)' = IsCopy(e) /\ StampsOf(e)' = StampsOf(e)
          /\ Behind(e)' = Behind(e) /\ Matches(e)' = Matches(e)
      BY SameCounters
    <2>2. InPlace(e)' = InPlace(e)
      BY DEF InPlace
    <2>3. Waits(e)'
      BY <1>5 DEF Waits
    <2>4. DueFor(e) => DueFor(e)' \/ StampsOf(e) \intersect lost' # {}
      <3> SUFFICES ASSUME DueFor(e) PROVE DueFor(e)' \/ StampsOf(e) \intersect lost' # {}
        OBVIOUS
      <3>1. PICK x \in Writer : writer[x].at = "committed" /\ writer[x].keys \intersect StampsOf(e) # {}
        BY DEF DueFor, OwesBump
      <3>2. CASE x = w
        BY <3>1, <3>2
      <3>3. CASE x # w
        BY <1>2, <2>1, <3>1, <3>3 DEF DueFor, OwesBump
      <3> QED
        BY <3>2, <3>3
    <2>5. Excused(e) => Excused(e)'
      BY <2>1, <2>4 DEF Excused
    <2> QED
      BY <1>10, <2>1, <2>2, <2>3, <2>5 DEF Copy
  <1>11. \A e \in Entry : Held(e)' => Copy(e)'
    BY <1>10 DEF Held, Inv
  <1>12. \A e \in Entry : Draft(e)' => IsCopy(e)' /\ Behind(e)'
    BY SameCounters DEF Draft, Inv
  <1> QED
    BY <1>4, <1>5, <1>6, <1>7, <1>8, <1>9, <1>11, <1>12 DEF Inv

LEMMA BumpFailsStep ==
    ASSUME Inv, NEW w \in Writer, BumpFails(w)
    PROVE  Inv'
  <1> DEFINE r == [writer[w] EXCEPT !.keys = {}]
  <1>1. writer \in [Writer -> WriterState] /\ writer[w] \in WriterState /\ lost \in SUBSET Counter /\ rowLock \in Writer \union {Nobody}
    BY DEF Inv, TypeOK
  <1>2. /\ writer' = [writer EXCEPT ![w] = r] /\ writer[w].at = "committed" /\ lost' = lost \union writer[w].keys
        /\ faults < MaxFaults /\ faults' = faults + 1
        /\ UNCHANGED <<dbVars, ver, entry, epoch, request, announced>>
    BY DEF BumpFails, Fault
  <1>3. r \in WriterState /\ r.at = "committed" /\ r.commit = writer[w].commit /\ writer[w].keys \in SUBSET Counter
    BY <1>1, <1>2 DEF WriterState
  <1> HIDE DEF r
  <1>4. lost' \in SUBSET Counter
    BY <1>1, <1>2, <1>3
  <1> QED
    BY <1>1, <1>2, <1>3, <1>4, WriterFaultStep DEF dbVars

LEMMA WriterDiesStep ==
    ASSUME Inv, NEW w \in Writer, WriterDies(w)
    PROVE  Inv'
  <1> DEFINE r == IF writer[w].op = "ingest" THEN [writer[w] EXCEPT !.at = "retry", !.saw = Idle.saw, !.keys = {}] ELSE Idle
  <1>1. writer \in [Writer -> WriterState] /\ writer[w] \in WriterState /\ lost \in SUBSET Counter /\ rowLock \in Writer \union {Nobody}
    BY DEF Inv, TypeOK
  <1>2. /\ writer' = [writer EXCEPT ![w] = r]
        /\ lost' = lost \union (IF writer[w].at = "committed" THEN writer[w].keys ELSE {})
        /\ rowLock' = IF rowLock = w THEN Nobody ELSE rowLock
        /\ faults < MaxFaults /\ faults' = faults + 1
        /\ UNCHANGED <<scene, category, promo, clock, changed, misdirected, ver, entry, epoch, request, announced>>
    BY DEF WriterDies, Fault
  <1>3. r \in WriterState /\ r.at # "resolved" /\ r.commit \in {0, writer[w].commit}
    <2>1. CASE writer[w].op = "ingest"
      BY <1>1, <2>1, Names DEF WriterState, Idle
    <2>2. CASE writer[w].op # "ingest"
      BY <2>2, Names DEF WriterState, Idle
    <2> QED
      BY <2>1, <2>2
  <1> HIDE DEF r
  <1>4. writer[w].keys \in SUBSET Counter
    BY <1>1 DEF WriterState
  <1>5. /\ lost' \in SUBSET Counter /\ lost \subseteq lost' /\ (writer[w].at = "committed" => writer[w].keys \subseteq lost')
        /\ rowLock' \in Writer \union {Nobody} /\ \A x \in Writer \ {w} : rowLock = x => rowLock' = x
    BY <1>1, <1>2, <1>4
  <1> QED
    BY <1>2, <1>3, <1>5, WriterFaultStep

\* A writer that answers owes nothing: what it announces, every copy shows or waits
\* for another writer.
LEMMA AnswerStep ==
    ASSUME Inv, NEW w \in Writer, Answer(w)
    PROVE  Inv'
  <1>1. /\ writer[w].at = "committed" /\ writer[w].keys = {} /\ writer' = [writer EXCEPT ![w] = Idle]
        /\ announced' = IF announced < writer[w].commit THEN writer[w].commit ELSE announced
        /\ entry' = entry \/ entry' = NoEntry
        /\ UNCHANGED <<scene, category, promo, rowLock, clock, changed, misdirected, ver, epoch, request, lost, faults>>
    BY DEF Answer, dbVars
  <1>2. /\ TypeOK /\ writer \in [Writer -> WriterState] /\ writer[w] \in WriterState /\ writer[w].commit \in 0 .. MaxCommits
        /\ announced \in 0 .. MaxCommits
    BY DEF Inv, TypeOK, WriterState
  <1>3. Idle \in WriterState /\ Idle.at = "idle" /\ Idle.commit = 0 /\ NoEntry \in Entry /\ NoEntry.cat = Absent
    BY Names DEF Idle, WriterState, NoEntry, Entry
  <1>4. writer'[w] = Idle /\ (\A x \in Writer : x # w => writer'[x] = writer[x])
    BY <1>1, <1>2
  <1>5. Counter' = Counter
    BY <1>1 DEF Counter
  <1>6. WriterState' = WriterState /\ Entry' = Entry /\ RequestState' = RequestState
    BY <1>5 DEF WriterState, Entry, RequestState
  <1>7. announced' \in 0 .. MaxCommits /\ announced' <= clock /\ clock \in Nat
    BY <1>1, <1>2, HeldTyped DEF Inv, WriterOK
  <1>8. TypeOK'
    BY <1>1, <1>2, <1>3, <1>5, <1>6, <1>7 DEF TypeOK
  <1>9. WriterOK(w)'
    BY <1>1, <1>3, <1>4, <1>7 DEF WriterOK
  <1>10. \A x \in Writer : WriterOK(x)'
    BY <1>1, <1>4, <1>7, <1>9, OthersOK
  <1>11. \A q \in Request : RequestOK(q)'
    BY <1>1, <1>7, RequestsOK DEF Calm
  <1>12. ASSUME NEW e \in Entry, Copy(e) PROVE Copy(e)'
    <2>1. /\ IsCopy(e)' = IsCopy(e) /\ StampsOf(e)' = StampsOf(e)
          /\ Behind(e)' = Behind(e) /\ Matches(e)' = Matches(e) /\ Calm' = Calm
      BY <1>1, SameCounters DEF Calm
    <2>2. InPlace(e)' = InPlace(e)
      BY <1>1 DEF InPlace
    <2>3. ~OwesBump(w, e) /\ ~OwesBump(w, e)' /\ \A x \in Writer : x # w => OwesBump(x, e)' = OwesBump(x, e)
      BY <1>1, <1>3, <1>4, <2>1 DEF OwesBump
    <2>4. DueFor(e)' = DueFor(e)
      BY <2>3 DEF DueFor
    <2>5. MoveDueFor(e)' = MoveDueFor(e)
      BY <1>1, <1>4, <2>3 DEF MoveDueFor
    <2>6. Excused(e) => Excused(e)'
      BY <1>1, <2>1, <2>4 DEF Excused
    <2>7. Waits(e) => Waits(e)'
      <3> SUFFICES ASSUME Waits(e), Calm, Matches(e)
                   PROVE  /\ scene.view = "product" /\ e.cat # category => MoveDueFor(e)
                          /\ \A x \in Writer : writer'[x].at = "committed" /\ e.asOf < writer'[x].commit
                                              => OwesBump(x, e)' \/ MoveDueFor(e)
                          /\ e.asOf < announced' => MoveDueFor(e)
                          /\ \A q \in Request : e.asOf >= request[q].due
        BY <1>1, <2>1, <2>5 DEF Waits
      <3>1. /\ scene.view = "product" /\ e.cat # category => MoveDueFor(e)
            /\ \A x \in Writer : writer[x].at = "committed" /\ e.asOf < writer[x].commit => OwesBump(x, e) \/ MoveDueFor(e)
            /\ e.asOf < announced => MoveDueFor(e)
            /\ \A q \in Request : e.asOf >= request[q].due
        BY DEF Waits
      <3>2. \A x \in Writer : writer'[x].at = "committed" => x # w /\ writer'[x] = writer[x]
        BY <1>3, <1>4
      <3>3. e.asOf < announced' => MoveDueFor(e)
        BY <1>1, <2>3, <3>1
      <3> QED
        BY <2>3, <3>1, <3>2, <3>3
    <2> QED
      BY <1>12, <2>1, <2>2, <2>6, <2>7 DEF Copy
  <1>13. \A e \in Entry : Held(e)' => Copy(e)'
    <2> SUFFICES ASSUME NEW e \in Entry, Held(e)' PROVE Copy(e)'
      OBVIOUS
    <2>1. CASE Held(e)
      BY <1>12, <2>1 DEF Inv
    <2>2. CASE e = NoEntry
      BY <1>3, <2>2, Names DEF Copy, IsCopy
    <2> QED
      BY <1>1, <2>1, <2>2 DEF Held
  <1>14. \A e \in Entry : Draft(e)' => IsCopy(e)' /\ Behind(e)'
    BY <1>1, SameCounters DEF Draft, Inv
  <1> QED
    BY <1>1, <1>6, <1>7, <1>8, <1>10, <1>11, <1>13, <1>14 DEF Inv

-----------------------------------------------------------------------------
(* The requests and the entry. *)

\* A copy stays right while only requests and the entry change, if the requests expect
\* no more than before, or what was announced.
LEMMA CopyKept ==
    ASSUME Inv, UNCHANGED <<dbVars, ver, epoch, writer, announced, lost, faults>>,
           \A q \in Request : request'[q].due \in {0, request[q].due} \/ (request'[q].due = announced /\ ~MoveDue),
           NEW e \in Entry, Copy(e)
    PROVE  Copy(e)'
  <1>1. UNCHANGED <<scene, category, clock, changed, misdirected>>
    BY DEF dbVars
  <1>2. /\ IsCopy(e)' = IsCopy(e) /\ StampsOf(e)' = StampsOf(e)
        /\ Behind(e)' = Behind(e) /\ Matches(e)' = Matches(e) /\ Calm' = Calm
    BY <1>1, SameCounters DEF Calm
  <1>3. InPlace(e)' = InPlace(e)
    BY <1>1 DEF InPlace
  <1>4. \A w \in Writer : OwesBump(w, e)' = OwesBump(w, e)
    BY <1>2 DEF OwesBump
  <1>5. DueFor(e)' = DueFor(e) /\ MoveDueFor(e)' = MoveDueFor(e)
    BY <1>1, <1>4 DEF DueFor, MoveDueFor
  <1>6. Excused(e)' = Excused(e)
    BY <1>1, <1>2, <1>5 DEF Excused
  <1>7. Waits(e) => Waits(e)'
    <2> SUFFICES ASSUME Waits(e), Calm, Matches(e), NEW q \in Request PROVE e.asOf >= request'[q].due
      BY <1>1, <1>2, <1>4, <1>5 DEF Waits
    <2>1. e.asOf >= request[q].due /\ (e.asOf < announced => MoveDueFor(e))
      BY DEF Waits
    <2>2. MoveDueFor(e) => MoveDue
      BY DEF MoveDueFor, MoveDue, OwesBump
    <2>3. e.asOf \in Nat /\ announced \in Nat
      BY HeldTyped DEF Inv
    <2> QED
      BY <2>1, <2>2, <2>3
  <1> QED
    BY <1>2, <1>3, <1>6, <1>7 DEF Copy

LEMMA RequestStepInv ==
    ASSUME Inv, NEW q \in Request, NEW r \in RequestState, request' = [request EXCEPT ![q] = r], entry' \in Entry,
           UNCHANGED <<dbVars, ver, epoch, writer, announced, lost, faults>>,
           r.due \in {0, request[q].due} \/ (r.due = announced /\ ~MoveDue),
           RequestOK(q)',
           entry' = entry \/ entry' = NoEntry \/ Copy(entry'),
           r.at = "store" => Copy(r.e),
           r.at = "fetch" /\ r.cache => IsCopy(r.e) /\ Behind(r.e)
    PROVE  Inv'
  <1>1. /\ TypeOK /\ request \in [Request -> RequestState]
        /\ UNCHANGED <<scene, category, promo, rowLock, clock, changed, misdirected>>
    BY DEF Inv, TypeOK, dbVars
  <1>2. request'[q] = r /\ (\A p \in Request : p # q => request'[p] = request[p])
    BY <1>1
  <1>3. Counter' = Counter
    BY <1>1 DEF Counter
  <1>4. WriterState' = WriterState /\ Entry' = Entry /\ RequestState' = RequestState
    BY <1>3 DEF WriterState, Entry, RequestState
  <1>5. TypeOK'
    BY <1>1, <1>3, <1>4 DEF TypeOK
  <1>6. clock \in Nat
    BY <1>1, HeldTyped
  <1>7. \A x \in Writer : WriterOK(x)'
    BY <1>1, <1>6, OthersOK
  <1>8. ASSUME NEW p \in Request PROVE RequestOK(p)'
    <2>1. CASE p = q
      BY <2>1
    <2>2. CASE p # q
      <3>1. request'[p] = request[p] /\ RequestOK(p) /\ Calm' = Calm
        BY <1>1, <1>2, <2>2 DEF Inv, Calm
      <3> QED
        BY <1>1, <3>1 DEF RequestOK
    <2> QED
      BY <2>1, <2>2
  <1>9. \A p \in Request : request'[p].due \in {0, request[p].due} \/ (request'[p].due = announced /\ ~MoveDue)
    BY <1>2
  <1>10. ASSUME NEW e \in Entry, Copy(e) PROVE Copy(e)'
    BY <1>9, <1>10, CopyKept
  <1>11. Copy(NoEntry) /\ NoEntry \in Entry
    BY Names DEF NoEntry, Copy, IsCopy, Entry
  <1>12. ASSUME NEW e \in Entry, Held(e)' PROVE Copy(e)'
    <2>1. CASE e = entry'
      <3>1. CASE e = entry
        BY <1>10, <3>1 DEF Inv, Held
      <3>2. CASE e # entry
        BY <1>10, <1>11, <2>1, <3>2
      <3> QED
        BY <3>1, <3>2
    <2>2. CASE \E p \in Request : request'[p].at = "store" /\ e = request'[p].e
      <3>1. PICK p \in Request : request'[p].at = "store" /\ e = request'[p].e
        BY <2>2
      <3>2. CASE p = q
        BY <1>2, <1>10, <3>1, <3>2
      <3>3. CASE p # q
        <4>1. Held(e)
          BY <1>2, <3>1, <3>3 DEF Held
        <4> QED
          BY <1>10, <4>1 DEF Inv
      <3> QED
        BY <3>2, <3>3
    <2> QED
      BY <1>12, <2>1, <2>2 DEF Held
  <1>13. ASSUME NEW e \in Entry, Draft(e)' PROVE IsCopy(e)' /\ Behind(e)'
    <2>1. PICK p \in Request : request'[p].at = "fetch" /\ request'[p].cache /\ e = request'[p].e
      BY <1>13 DEF Draft
    <2>2. IsCopy(e) /\ Behind(e)
      <3>1. CASE p = q
        BY <1>2, <2>1, <3>1
      <3>2. CASE p # q
        BY <1>2, <2>1, <3>2 DEF Draft, Inv
      <3> QED
        BY <3>1, <3>2
    <2> QED
      BY <1>1, <2>2, SameCounters
  <1> QED
    BY <1>1, <1>4, <1>5, <1>7, <1>8, <1>12, <1>13 DEF Inv

LEMMA ShownTyped ==
    ASSUME NEW e \in Entry
    PROVE  Shown(e) \in Entry /\ Shown(e).asOf = e.asOf /\ (Shown(e).cat # NoCategory => e.cat # NoCategory)
  <1>1. PICK c : c = IF e.cat = NoCategory THEN NoCategory ELSE Listing
    OBVIOUS
  <1>2. Shown(e) = [NoEntry EXCEPT !.asOf = e.asOf, !.cat = c]
    BY <1>1 DEF Shown
  <1>3. Shown(e) = [asOf |-> e.asOf, pv |-> 0, gv |-> 0, epoch |-> 0, cat |-> c]
    BY <1>2 DEF NoEntry
  <1>4. e.asOf \in 0 .. MaxCommits /\ c \in {NoCategory, Listing}
    BY <1>1 DEF Entry
  <1>5. Shown(e) \in Entry
    BY <1>3, <1>4 DEF Entry
  <1> QED
    BY <1>1, <1>3, <1>5

\* An answer that is no older than its request may expect.
LEMMA AnswersStep ==
    ASSUME Inv, NEW q \in Request, NEW e \in Entry, Moves(q, "answer", e), entry' \in Entry,
           entry' = entry \/ Copy(entry'),
           Calm /\ e.cat # NoCategory => e.asOf >= request[q].due
    PROVE  Inv'
  <1> DEFINE r == [request[q] EXCEPT !.at = "answer", !.cache = TRUE, !.e = Shown(e)]
  <1>1. request \in [Request -> RequestState] /\ request[q] \in RequestState
    BY DEF Inv, TypeOK
  <1>2. request' = [request EXCEPT ![q] = r] /\ UNCHANGED <<dbVars, ver, epoch, writer, announced, lost, faults>>
    BY DEF Moves
  <1>3. PICK s \in Entry : s = Shown(e) /\ s.asOf = e.asOf /\ (s.cat # NoCategory => e.cat # NoCategory)
    BY ShownTyped
  <1>4. r = [request[q] EXCEPT !.at = "answer", !.cache = TRUE, !.e = s]
    BY <1>3
  <1> HIDE DEF r
  <1>5. r \in RequestState /\ r.at = "answer" /\ r.e = s /\ r.due = request[q].due
    BY <1>1, <1>4 DEF RequestState
  <1>6. request'[q] = r /\ Calm' = Calm /\ clock' = clock /\ request[q].due <= clock
    BY <1>1, <1>2 DEF Calm, dbVars, Inv, RequestOK
  <1>7. RequestOK(q)'
    BY <1>3, <1>5, <1>6 DEF RequestOK
  <1> QED
    BY <1>2, <1>5, <1>7, RequestStepInv

\* Without faults, a copy whose counters stand is as new as every request may expect.
LEMMA FreshIsNew ==
    ASSUME Inv, NEW e \in Entry, Copy(e), IsCopy(e), Calm, e.gv = ver[Group(e)], scene.view = "product" => e.pv = ver["product"],
           NEW q \in Request
    PROVE  e.asOf >= request[q].due
  <1>1. epoch = 0 /\ e.epoch \in Nat /\ Behind(e) /\ Waits(e)
    BY HeldTyped DEF Inv, Calm, Copy
  <1>2. e.epoch = epoch
    BY <1>1 DEF Behind
  <1> QED
    BY <1>1, <1>2 DEF Waits, Matches

LEMMA EmptyEntries ==
    /\ NoEntry \in Entry /\ NoEntry.cat = Absent /\ NotFound \in Entry /\ NotFound.cat = NoCategory
    /\ NoEntry.asOf = 0 /\ Away \in RequestState /\ Away.at = "away" /\ Away.due = 0
  BY Names DEF NoEntry, NotFound, Entry, Away, RequestState

LEMMA ArriveStep ==
    ASSUME Inv, NEW q \in Request, Arrive(q)
    PROVE  Inv'
  <1>1. PICK d : d = IF MoveDue THEN 0 ELSE announced
    OBVIOUS
  <1> DEFINE r == [Away EXCEPT !.at = "check", !.due = d]
  <1>2. /\ request' = [request EXCEPT ![q] = r]
        /\ UNCHANGED <<dbVars, ver, entry, epoch, writer, announced, lost, faults>>
    BY <1>1 DEF Arrive
  <1>3. d \in 0 .. MaxCommits /\ d <= clock /\ (d = 0 \/ (d = announced /\ ~MoveDue))
    BY <1>1, Names, HeldTyped DEF Inv, TypeOK
  <1>4. d \in 0 .. MaxCommits /\ Away \in RequestState
    BY <1>3, EmptyEntries
  <1>5. r \in RequestState /\ r.at = "check" /\ r.due = d
    BY <1>4 DEF RequestState
  <1> HIDE DEF r
  <1>6. request'[q] = r /\ clock' = clock
    BY <1>2 DEF Inv, TypeOK, dbVars
  <1>7. RequestOK(q)'
    BY <1>3, <1>5, <1>6 DEF RequestOK
  <1>8. entry' \in Entry
    BY <1>2, HeldTyped DEF Inv
  <1> QED
    BY <1>2, <1>3, <1>5, <1>7, <1>8, RequestStepInv

\* A move that neither answers nor holds a copy.
LEMMA OnwardStep ==
    ASSUME Inv, NEW q \in Request, NEW at \in {"confirm", "lookup", "stamp", "fetch", "store"}, NEW e \in Entry,
           Moves(q, at, e), entry' = entry,
           at \in {"confirm", "lookup"} => scene.view = "product",
           scene.view = "product" /\ at \in {"stamp", "fetch"} => e.cat \in Category /\ category # NoCategory,
           at = "store" => Copy(e) /\ (e.cat # NoCategory => e.asOf >= request[q].due),
           at = "fetch" => IsCopy(e) /\ Behind(e),
           at = "confirm" => /\ e.cat \in Category
                             /\ Calm => e.gv <= ver[e.cat] /\ (e.gv = ver[e.cat] => e.asOf >= request[q].due)
    PROVE  Inv'
  <1> DEFINE r == [request[q] EXCEPT !.at = at, !.cache = TRUE, !.e = e]
  <1>1. request \in [Request -> RequestState] /\ request[q] \in RequestState
    BY DEF Inv, TypeOK
  <1>2. request' = [request EXCEPT ![q] = r] /\ UNCHANGED <<dbVars, ver, epoch, writer, announced, lost, faults>>
    BY DEF Moves
  <1>3. r \in RequestState /\ r.at = at /\ r.e = e /\ r.cache = TRUE /\ r.due = request[q].due
    BY <1>1 DEF RequestState
  <1> HIDE DEF r
  <1>4. request'[q] = r
    BY <1>1, <1>2
  <1>5. /\ UNCHANGED <<scene, category, clock, ver, faults, misdirected>>
        /\ Calm' = Calm /\ request[q].due <= clock
    BY <1>2 DEF Calm, dbVars, Inv, RequestOK
  <1>6. RequestOK(q)'
    BY <1>3, <1>4, <1>5 DEF RequestOK
  <1>7. entry' \in Entry
    BY HeldTyped DEF Inv
  <1> QED
    BY <1>2, <1>3, <1>6, <1>7, RequestStepInv

LEMMA CheckListingStep ==
    ASSUME Inv, NEW q \in Request, CheckListing(q)
    PROVE  Inv'
  <1>1. scene.view # "product" /\ entry' = entry /\ entry \in Entry /\ Held(entry)
    BY HeldTyped DEF CheckListing, Inv, Held
  <1>2. PICK e \in Entry : e = entry
    BY <1>1
  <1>3. Copy(e)
    BY <1>1, <1>2 DEF Inv
  <1>4. CASE e.cat = Listing /\ e.gv = ver[scene.view]
    <2>1. Moves(q, "answer", e)
      BY <1>2, <1>4 DEF CheckListing
    <2>2. Calm => e.asOf >= request[q].due
      BY <1>1, <1>3, <1>4, FreshIsNew DEF IsCopy, Group
    <2> QED
      BY <1>1, <1>2, <2>1, <2>2, AnswersStep
  <1>5. CASE ~(e.cat = Listing /\ e.gv = ver[scene.view])
    <2>1. Moves(q, "stamp", NoEntry)
      BY <1>2, <1>5 DEF CheckListing
    <2> QED
      BY <1>1, <2>1, EmptyEntries, OnwardStep
  <1> QED
    BY <1>4, <1>5

LEMMA CheckProductStep ==
    ASSUME Inv, NEW q \in Request, CheckProduct(q)
    PROVE  Inv'
  <1>1. scene.view = "product" /\ entry' = entry /\ entry \in Entry /\ Held(entry)
    BY HeldTyped DEF CheckProduct, Inv, Held
  <1>2. PICK e \in Entry : e = entry
    BY <1>1
  <1>3. Copy(e)
    BY <1>1, <1>2 DEF Inv
  <1>4. CASE e.cat = NoCategory /\ Moves(q, "answer", e)
    BY <1>1, <1>2, <1>4, AnswersStep
  <1>5. CASE e.cat \in Category /\ e.pv = ver["product"] /\ Moves(q, "confirm", e)
    <2>1. IsCopy(e) /\ Group(e) = e.cat
      BY <1>1, <1>5 DEF IsCopy, Group
    <2>2. ASSUME Calm PROVE e.gv <= ver[e.cat]
      <3>1. epoch = 0 /\ e.epoch \in Nat /\ Behind(e)
        BY <1>3, <2>1, <2>2, HeldTyped DEF Inv, Calm, Copy
      <3> QED
        BY <2>1, <3>1 DEF Behind
    <2>3. Calm /\ e.gv = ver[e.cat] => e.asOf >= request[q].due
      BY <1>3, <1>5, <2>1, FreshIsNew
    <2> QED
      BY <1>1, <1>5, <2>2, <2>3, OnwardStep
  <1>6. CASE Moves(q, "lookup", NoEntry)
    BY <1>1, <1>6, EmptyEntries, OnwardStep
  <1> QED
    BY <1>2, <1>4, <1>5, <1>6 DEF CheckProduct

LEMMA ConfirmStep ==
    ASSUME Inv, NEW q \in Request, Confirm(q)
    PROVE  Inv'
  <1>1. PICK e \in Entry : e = request[q].e
    BY HeldTyped DEF Inv
  <1>2. request[q].at = "confirm" /\ entry' = entry /\ entry \in Entry /\ RequestOK(q)
    BY HeldTyped DEF Confirm, Inv
  <1>3. scene.view = "product" /\ (Calm /\ e.gv = ver[e.cat] => e.asOf >= request[q].due)
    BY <1>1, <1>2 DEF RequestOK
  <1>4. CASE GroupFresh(e)
    <2>1. Moves(q, "answer", e)
      BY <1>1, <1>4 DEF Confirm
    <2> QED
      BY <1>2, <1>3, <1>4, <2>1, AnswersStep DEF GroupFresh
  <1>5. CASE ~GroupFresh(e)
    <2>1. Moves(q, "lookup", NoEntry)
      BY <1>1, <1>5 DEF Confirm
    <2> QED
      BY <1>2, <1>3, <2>1, EmptyEntries, OnwardStep
  <1> QED
    BY <1>4, <1>5

LEMMA LookupStep ==
    ASSUME Inv, NEW q \in Request, Lookup(q)
    PROVE  Inv'
  <1>1. request[q].at = "lookup" /\ entry' = entry /\ RequestOK(q) /\ category \in Category \union {NoCategory}
    BY Categories DEF Lookup, Inv
  <1>2. scene.view = "product"
    BY <1>1 DEF RequestOK
  <1>3. CASE category = NoCategory
    <2>1. Moves(q, "store", NotFound)
      BY <1>3 DEF Lookup
    <2>2. Copy(NotFound)
      BY <1>2, EmptyEntries, Names DEF Copy, IsCopy
    <2> QED
      BY <1>1, <1>2, <2>1, <2>2, EmptyEntries, OnwardStep
  <1>4. CASE category # NoCategory
    <2>1. PICK c \in Category : c = category
      BY <1>1, <1>4
    <2>2. PICK e : e = [NoEntry EXCEPT !.cat = c]
      OBVIOUS
    <2>3. Moves(q, "stamp", e)
      BY <1>4, <2>1, <2>2 DEF Lookup
    <2>4. e \in Entry /\ e.cat = c
      BY <2>2, Names DEF NoEntry, Entry
    <2> QED
      BY <1>1, <1>2, <1>4, <2>3, <2>4, OnwardStep
  <1> QED
    BY <1>3, <1>4

LEMMA StampStep ==
    ASSUME Inv, NEW q \in Request, Stamp(q)
    PROVE  Inv'
  <1>1. PICK c : c = request[q].e.cat
    OBVIOUS
  <1>2. PICK e : e = IF scene.view = "product"
                     THEN [asOf |-> 0, pv |-> ver[scene.view], gv |-> ver[c], epoch |-> epoch, cat |-> c]
                     ELSE [asOf |-> 0, pv |-> 0, gv |-> ver[scene.view], epoch |-> epoch, cat |-> Listing]
    OBVIOUS
  <1>3. request[q].at = "stamp" /\ Moves(q, "fetch", e) /\ entry' = entry /\ RequestOK(q)
    BY <1>1, <1>2 DEF Stamp, Version, Inv
  <1>4. epoch \in Nat /\ ver \in [Counter -> Nat]
    BY DEF Inv, TypeOK
  <1>5. CASE scene.view = "product"
    <2>1. c \in Category /\ category # NoCategory /\ c \in Counter /\ "product" \in Counter
      BY <1>1, <1>3, <1>5, Scene, Names DEF RequestOK, Inv
    <2>2. PICK pv \in Nat : pv = ver["product"]
      BY <1>4, <2>1
    <2>3. PICK gv \in Nat : gv = ver[c]
      BY <1>4, <2>1
    <2>4. PICK n \in Nat : n = epoch
      BY <1>4
    <2>5. e = [asOf |-> 0, pv |-> pv, gv |-> gv, epoch |-> n, cat |-> c]
      BY <1>2, <1>5, <2>2, <2>3, <2>4
    <2>6. e \in Entry /\ e.cat = c /\ e.pv = pv /\ e.gv = gv /\ e.epoch = n
      BY <2>1, <2>5, Names DEF Entry
    <2>7. IsCopy(e) /\ Behind(e)
      BY <1>5, <2>1, <2>2, <2>3, <2>4, <2>6 DEF IsCopy, Behind, Group
    <2> QED
      BY <1>3, <2>1, <2>6, <2>7, OnwardStep
  <1>6. CASE scene.view # "product"
    <2>1. scene.view \in Counter
      BY <1>6, Scene DEF Inv
    <2>2. PICK gv \in Nat : gv = ver[scene.view]
      BY <1>4, <2>1
    <2>3. PICK n \in Nat : n = epoch
      BY <1>4
    <2>4. e = [asOf |-> 0, pv |-> 0, gv |-> gv, epoch |-> n, cat |-> Listing]
      BY <1>2, <1>6, <2>2, <2>3
    <2>5. e \in Entry /\ e.cat = Listing /\ e.gv = gv /\ e.epoch = n
      BY <2>4, Names DEF Entry
    <2>6. IsCopy(e) /\ Behind(e)
      BY <1>6, <2>2, <2>3, <2>5 DEF IsCopy, Behind, Group
    <2> QED
      BY <1>3, <1>6, <2>5, <2>6, OnwardStep
  <1> QED
    BY <1>5, <1>6

LEMMA StampFailsStep ==
    ASSUME Inv, NEW q \in Request, StampFails(q)
    PROVE  Inv'
  <1> DEFINE r == [request[q] EXCEPT !.at = "fetch", !.cache = FALSE]
  <1>1. request \in [Request -> RequestState] /\ request[q] \in RequestState
    BY DEF Inv, TypeOK
  <1>2. /\ request[q].at = "stamp" /\ request' = [request EXCEPT ![q] = r]
        /\ UNCHANGED <<dbVars, ver, entry, epoch, writer, announced, lost, faults>>
    BY DEF StampFails
  <1>3. r \in RequestState /\ r.at = "fetch" /\ r.e = request[q].e /\ r.cache = FALSE /\ r.due = request[q].due
    BY <1>1 DEF RequestState
  <1> HIDE DEF r
  <1>4. request'[q] = r
    BY <1>1, <1>2
  <1>5. UNCHANGED <<scene, category, clock>> /\ RequestOK(q)
    BY <1>2 DEF dbVars, Inv
  <1>6. RequestOK(q)'
    BY <1>2, <1>3, <1>4, <1>5 DEF RequestOK
  <1>7. entry' \in Entry
    BY <1>2, HeldTyped DEF Inv
  <1> QED
    BY <1>2, <1>3, <1>6, <1>7, RequestStepInv

\* A build's data is read after its stamps: it is current, and its stamps are not newer
\* than the counters.
LEMMA FetchedCopy ==
    ASSUME Inv, NEW d \in Entry, IsCopy(d), Behind(d), NEW e \in Entry,
           e.asOf = clock, e.pv = d.pv, e.gv = d.gv, e.epoch = d.epoch, e.cat = d.cat,
           scene.view = "product" => e.cat = category
    PROVE  Copy(e) /\ e.cat # NoCategory
  <1>1. IsCopy(e) /\ Group(e) = Group(d)
    BY DEF IsCopy, Group
  <1>2. Behind(e)
    BY <1>1 DEF Behind
  <1>3. clock \in Nat /\ changed \in Nat /\ announced \in Nat /\ changed <= clock /\ announced <= clock
    BY HeldTyped DEF Inv
  <1>4. e.cat # NoCategory
    BY <1>1, Names DEF IsCopy
  <1>5. InPlace(e)
    BY <1>3, <1>4 DEF InPlace
  <1>6. Excused(e)
    BY <1>3 DEF Excused
  <1>7. Waits(e)
    <2>1. \A w \in Writer : writer[w].commit \in Nat /\ writer[w].commit <= clock
      BY HeldTyped DEF Inv, WriterOK
    <2>2. \A q \in Request : request[q].due \in Nat /\ request[q].due <= clock
      BY HeldTyped DEF Inv, RequestOK
    <2> QED
      BY <1>3, <2>1, <2>2 DEF Waits
  <1> QED
    BY <1>1, <1>2, <1>4, <1>5, <1>6, <1>7 DEF Copy

LEMMA FetchStep ==
    ASSUME Inv, NEW q \in Request, Fetch(q)
    PROVE  Inv'
  <1>1. PICK d \in Entry : d = request[q].e
    BY HeldTyped DEF Inv
  <1>2. PICK c : c = IF scene.view = "product" THEN category ELSE Listing
    OBVIOUS
  <1>3. PICK n \in 0 .. MaxCommits : n = clock
    BY DEF Inv, TypeOK
  <1>4. PICK e : e = [d EXCEPT !.asOf = n, !.cat = c]
    OBVIOUS
  <1>5. c \in Category \union {NoCategory, Listing, Absent}
    BY <1>2, Categories DEF Inv
  <1>6. e \in Entry /\ e.asOf = clock /\ e.cat = c /\ e.pv = d.pv /\ e.gv = d.gv /\ e.epoch = d.epoch
    BY <1>3, <1>4, <1>5 DEF Entry
  <1>7. request[q].at = "fetch" /\ entry' = entry /\ entry' \in Entry /\ RequestOK(q) /\ request[q].due <= clock
    BY HeldTyped DEF Fetch, Inv, RequestOK
  <1>8. CASE request[q].cache /\ (scene.view = "product" => CategoryKept(d))
    <2>1. Moves(q, "store", e)
      BY <1>1, <1>2, <1>3, <1>4, <1>8 DEF Fetch
    <2>2. IsCopy(d) /\ Behind(d)
      BY <1>1, <1>7, <1>8 DEF Inv, Draft
    <2>3. e.cat = d.cat
      BY <1>2, <1>6, <1>8, <2>2 DEF CategoryKept, IsCopy
    <2>4. scene.view = "product" => e.cat = category
      BY <1>2, <1>6
    <2>5. Copy(e) /\ e.cat # NoCategory
      BY <1>6, <2>2, <2>3, <2>4, FetchedCopy
    <2> QED
      BY <1>6, <1>7, <2>1, <2>5, OnwardStep
  <1>9. CASE ~(request[q].cache /\ (scene.view = "product" => CategoryKept(d)))
    <2>1. Moves(q, "answer", e)
      BY <1>1, <1>2, <1>3, <1>4, <1>9 DEF Fetch
    <2> QED
      BY <1>6, <1>7, <2>1, AnswersStep
  <1> QED
    BY <1>8, <1>9

LEMMA StoreStep ==
    ASSUME Inv, NEW q \in Request, Store(q)
    PROVE  Inv'
  <1>1. PICK e \in Entry : e = request[q].e
    BY HeldTyped DEF Inv
  <1>2. request[q].at = "store" /\ entry' = e /\ Moves(q, "answer", e) /\ RequestOK(q)
    BY <1>1 DEF Store, Inv
  <1>3. Held(e)
    BY <1>1, <1>2 DEF Held
  <1>4. Copy(e) /\ (e.cat # NoCategory => e.asOf >= request[q].due)
    BY <1>1, <1>2, <1>3 DEF Inv, RequestOK
  <1> QED
    BY <1>2, <1>4, AnswersStep

LEMMA LeaveStep ==
    ASSUME Inv, NEW q \in Request, Leave(q)
    PROVE  Inv'
  <1>1. /\ request' = [request EXCEPT ![q] = Away]
        /\ UNCHANGED <<dbVars, ver, entry, epoch, writer, announced, lost, faults>>
    BY DEF Leave
  <1>2. request'[q] = Away /\ clock' = clock /\ clock \in Nat /\ entry' \in Entry
    BY <1>1, HeldTyped DEF Inv, TypeOK, dbVars
  <1>3. RequestOK(q)'
    BY <1>2, EmptyEntries DEF RequestOK
  <1> QED
    BY <1>1, <1>2, <1>3, EmptyEntries, RequestStepInv

LEMMA EntryExpiresStep ==
    ASSUME Inv, EntryExpires
    PROVE  Inv'
  <1>1. /\ entry' = NoEntry /\ UNCHANGED <<dbVars, ver, epoch, writer, request, announced, lost, faults>>
        /\ UNCHANGED <<scene, category, promo, rowLock, clock, changed, misdirected>>
    BY DEF EntryExpires, dbVars
  <1>2. Counter' = Counter
    BY <1>1 DEF Counter
  <1>3. WriterState' = WriterState /\ Entry' = Entry /\ RequestState' = RequestState
    BY <1>2 DEF WriterState, Entry, RequestState
  <1>4. TypeOK'
    BY <1>1, <1>2, <1>3, EmptyEntries DEF Inv, TypeOK
  <1>5. (\A x \in Writer : WriterOK(x)') /\ (\A q \in Request : RequestOK(q)')
    BY <1>1, OthersOK, RequestsOK, HeldTyped DEF Inv, Calm
  <1>6. \A e \in Entry : Held(e)' => Copy(e)'
    <2> SUFFICES ASSUME NEW e \in Entry, Held(e)' PROVE Copy(e)'
      OBVIOUS
    <2>1. Held(e) \/ e = NoEntry
      BY <1>1 DEF Held
    <2>2. Copy(e)
      BY <2>1, EmptyEntries, Names DEF Inv, Copy, IsCopy
    <2> QED
      BY <1>1, <2>2, CopyKept
  <1>7. \A e \in Entry : Draft(e)' => IsCopy(e)' /\ Behind(e)'
    BY <1>1, SameCounters DEF Draft, Inv
  <1> QED
    BY <1>1, <1>3, <1>4, <1>5, <1>6, <1>7 DEF Inv

\* After a loss of Redis' data no older copy matches: its epoch is another.
LEMMA RedisLosesDataStep ==
    ASSUME Inv, RedisLosesData
    PROVE  Inv'
  <1>1. /\ entry' = NoEntry /\ ver' = [k \in Counter |-> 0] /\ epoch' = epoch + 1 /\ lost' = {}
        /\ faults < MaxFaults /\ faults' = faults + 1
        /\ UNCHANGED <<scene, category, promo, rowLock, clock, changed, misdirected, writer, request, announced>>
    BY DEF RedisLosesData, Fault, dbVars
  <1>2. Counter' = Counter
    BY <1>1 DEF Counter
  <1>3. WriterState' = WriterState /\ Entry' = Entry /\ RequestState' = RequestState
    BY <1>2 DEF WriterState, Entry, RequestState
  <1>4. TypeOK /\ faults \in 0 .. MaxFaults /\ epoch \in Nat /\ clock \in Nat
    BY HeldTyped DEF Inv, TypeOK
  <1>5. faults' \in 0 .. MaxFaults /\ faults' # 0 /\ epoch' \in Nat /\ ver' \in [Counter -> Nat] /\ ~Calm'
    BY <1>1, <1>4, Names DEF Calm
  <1>6. TypeOK'
    BY <1>1, <1>2, <1>3, <1>4, <1>5, EmptyEntries DEF TypeOK
  <1>7. \A x \in Writer : WriterOK(x)'
    BY <1>1, <1>4, <1>5, OthersOK
  <1>8. ASSUME NEW q \in Request PROVE RequestOK(q)'
    BY <1>1, <1>5 DEF Inv, RequestOK
  <1>9. ASSUME NEW e \in Entry
        PROVE  /\ IsCopy(e)' = IsCopy(e) /\ InPlace(e)' = InPlace(e)
               /\ Behind(e) => Behind(e)' /\ ~Matches(e)'
    <2>1. IsCopy(e)' = IsCopy(e) /\ InPlace(e)' = InPlace(e)
      BY <1>1 DEF IsCopy, InPlace
    <2>2. e.epoch \in Nat
      BY <1>4, HeldTyped
    <2>3. e.epoch <= epoch => e.epoch <= epoch' /\ e.epoch # epoch'
      BY <1>1, <1>4, <2>2
    <2> QED
      BY <2>1, <2>3 DEF Behind, Matches
  <1>10. ASSUME NEW e \in Entry, Copy(e) PROVE Copy(e)'
    BY <1>9, <1>10 DEF Copy, Excused, Waits
  <1>11. \A e \in Entry : Held(e)' => Copy(e)'
    <2> SUFFICES ASSUME NEW e \in Entry, Held(e)' PROVE Copy(e)'
      OBVIOUS
    <2>1. Held(e) \/ e = NoEntry
      BY <1>1 DEF Held
    <2>2. Copy(e)
      BY <2>1, EmptyEntries, Names DEF Inv, Copy, IsCopy
    <2> QED
      BY <1>10, <2>2
  <1>12. \A e \in Entry : Draft(e)' => IsCopy(e)' /\ Behind(e)'
    BY <1>1, <1>9 DEF Draft, Inv
  <1> QED
    BY <1>1, <1>3, <1>5, <1>6, <1>7, <1>8, <1>11, <1>12 DEF Inv

-----------------------------------------------------------------------------
(* The invariant, and what it is for. *)

LEMMA InvStutter ==
    ASSUME Inv, UNCHANGED vars
    PROVE  Inv'
  <1>1. /\ UNCHANGED <<dbVars, ver, entry, epoch, writer, request, announced, lost, faults>>
        /\ UNCHANGED <<scene, category, promo, rowLock, clock, changed, misdirected>>
    BY DEF vars, dbVars
  <1>2. Counter' = Counter
    BY <1>1 DEF Counter
  <1>3. WriterState' = WriterState /\ Entry' = Entry /\ RequestState' = RequestState
    BY <1>2 DEF WriterState, Entry, RequestState
  <1>4. TypeOK'
    BY <1>1, <1>2, <1>3 DEF Inv, TypeOK
  <1>5. (\A x \in Writer : WriterOK(x)') /\ (\A q \in Request : RequestOK(q)')
    BY <1>1, OthersOK, RequestsOK, HeldTyped DEF Inv, Calm
  <1>6. \A e \in Entry : Held(e)' => Copy(e)'
    BY <1>1, CopyKept DEF Held, Inv
  <1>7. \A e \in Entry : Draft(e)' => IsCopy(e)' /\ Behind(e)'
    BY <1>1, SameCounters DEF Draft, Inv
  <1> QED
    BY <1>1, <1>3, <1>4, <1>5, <1>6, <1>7 DEF Inv

LEMMA InvNext == Inv /\ [Next]_vars => Inv'
  <1> SUFFICES ASSUME Inv, [Next]_vars PROVE Inv'
    OBVIOUS
  <1>1. ASSUME NEW w \in Writer, WriterStep(w) PROVE Inv'
    <2>1. CASE \E t \in Target : PromoteRead(w, t) \/ AssignRead(w, t)
      BY <2>1, PromoteReadStep, AssignReadStep
    <2>2. CASE \E c \in Category : IngestRead(w, c) \/ CreateCommit(w, c)
      BY <2>2, IngestReadStep, CreateCommitStep
    <2>3. CASE \E k \in Counter : Bump(w, k)
      <3>1. PICK k \in Counter : Bump(w, k)
        BY <2>3
      <3> QED
        BY <3>1, BumpStep
    <2>4. CASE CancelRead(w) \/ PromoteCommit(w) \/ CancelCommit(w) \/ NothingToCommit(w)
      BY <2>4, CancelReadStep, PromoteCommitStep, CancelCommitStep, NothingToCommitStep
    <2>5. CASE AssignCommit(w) \/ IngestCommit(w)
      BY <2>5, AssignCommitStep, IngestCommitStep
    <2>6. CASE BumpFails(w) \/ Answer(w) \/ WriterDies(w)
      BY <2>6, BumpFailsStep, AnswerStep, WriterDiesStep
    <2> QED
      BY <1>1, <2>1, <2>2, <2>3, <2>4, <2>5, <2>6 DEF WriterStep
  <1>2. ASSUME NEW q \in Request, RequestStep(q) PROVE Inv'
    <2>1. CASE Arrive(q) \/ CheckListing(q) \/ CheckProduct(q) \/ Confirm(q) \/ Lookup(q)
      BY <2>1, ArriveStep, CheckListingStep, CheckProductStep, ConfirmStep, LookupStep
    <2>2. CASE Stamp(q) \/ StampFails(q) \/ Fetch(q) \/ Store(q) \/ Leave(q)
      BY <2>2, StampStep, StampFailsStep, FetchStep, StoreStep, LeaveStep
    <2> QED
      BY <1>2, <2>1, <2>2 DEF RequestStep
  <1>3. CASE EntryExpires \/ RedisLosesData
    BY <1>3, EntryExpiresStep, RedisLosesDataStep
  <1>4. CASE UNCHANGED vars
    BY <1>4, InvStutter
  <1> QED
    BY <1>1, <1>2, <1>3, <1>4 DEF Next

LEMMA Invariant == Spec => []Inv
  <1> QED
    BY InvInit, InvNext, PTL DEF Spec

LEMMA EntryIsExcused == Inv => AcceptedIsCurrent
  <1> SUFFICES ASSUME Inv, OutOfDate PROVE BumpDue \/ Stamps \intersect lost # {} \/ misdirected
    BY DEF AcceptedIsCurrent
  <1>1. PICK e \in Entry : e = entry
    BY HeldTyped DEF Inv
  <1>2. Copy(e) /\ e.cat \notin {Absent, NoCategory} /\ e.epoch = epoch /\ e.asOf < changed
    BY <1>1 DEF Inv, Held, OutOfDate, Accepted
  <1>3. IsCopy(e) /\ Excused(e)
    BY <1>2 DEF Copy
  <1>4. Matches(e) /\ StampsOf(e) = Stamps
    BY <1>1, <1>2 DEF OutOfDate, Accepted, Matches, Group, StampsOf, Stamps
  <1> QED
    BY <1>2, <1>3, <1>4 DEF Excused, DueFor, OwesBump, BumpDue

LEMMA AnswersAreNew == Inv => AnsweredWritesAreSeen
  BY DEF Inv, RequestOK, Calm, AnsweredWritesAreSeen

\* Every variable keeps its type, for any number of writers, requests and categories.
THEOREM TypeCorrect == Spec => []TypeOK
  <1>1. Inv => TypeOK
    BY DEF Inv
  <1> QED
    BY <1>1, Invariant, PTL

\* An entry that reads as fresh is current, up to the moment between a commit and its
\* bumps, lost bumps, and the race of a commit with the row its bumps were planned on
\* (cache/versions.ts, the writers' commit-then-bump).
THEOREM EntriesAreInvalidated == Spec => []AcceptedIsCurrent
  <1> QED
    BY Invariant, EntryIsExcused, PTL

\* Without faults and that race, no request is answered from before a write that was
\* answered before the request came in.
THEOREM ReadersSeeAnsweredWrites == Spec => []AnsweredWritesAreSeen
  <1> QED
    BY Invariant, AnswersAreNew, PTL
=============================================================================
