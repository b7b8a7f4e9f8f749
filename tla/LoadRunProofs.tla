---------------------------- MODULE LoadRunProofs ----------------------------
(***************************************************************************)
(* Proofs about LoadRun: for any rate, pool, number of workers, phases,    *)
(* delays and lost answers, every due request is accounted for, the pool   *)
(* is bounded, no promotion is left behind that the run could know of, and *)
(* exit 0 means that everything was measured.                              *)
(*                                                                         *)
(* Requests and promotions are known by their number, and a number is in   *)
(* one place only (RequestsOK): so a promotion that is queued, or whose    *)
(* cancel is under way, has been created once and for all, and where a     *)
(* living promotion can be is a list without gaps (Known).                 *)
(***************************************************************************)
EXTENDS LoadRun, FiniteSetTheorems, SequenceTheorems, WellFoundedInduction, TLAPS

InPhase == at \in {"schedule", "rest", "workers", "drain", "grace"}

Requests == inflight \union stray

\* A promotion of a request that has been answered: no request under way creates it.
Settled(p) == p \in 1 .. next - 1 /\ \A r \in Requests : r.n # p

RequestsOK ==
    /\ \A r \in Requests :
          /\ r.n \in 1 .. next - 1
          /\ r.kind = "create" => r.promo = r.n
          /\ r.kind = "cancel" => Settled(r.promo)
          /\ scenario = "flash-sale" => r.kind = "read"
    /\ \A r, q \in Requests : r.n = q.n => r = q
    /\ inflight \intersect stray = {}
    /\ \A i \in DOMAIN open : Settled(open[i])

\* Where the promotions of the run are.
Ranges ==
    /\ uncancelled \subseteq 1 .. next - 1 /\ doomed \subseteq 1 .. next - 1
    /\ live \subseteq 1 .. next - 1 /\ unknown \subseteq 1 .. next - 1
    /\ sale \in 0 .. next - 1

\* While the run goes on, a living promotion is to be cancelled, the sale's, or that of a
\* create whose answer is under way; then it is doomed; or the run had no word of it.
Known ==
    /\ \A r \in stray : r.kind = "create" => r.promo \in unknown
    /\ \A r \in inflight : r.kind = "cancel" /\ r.served => r.promo \notin live
    /\ at \notin {"cleanup", "done"} =>
          \A p \in live : \/ p \in uncancelled \union unknown \/ p = sale
                          \/ \E r \in inflight : r.kind = "create" /\ r.served /\ r.promo = p
    /\ at \in {"cleanup", "done"} =>
          /\ live \subseteq doomed \union unknown
          /\ \A r \in inflight : r.kind = "create" => r.promo \in unknown
    /\ at = "done" => doomed = {}

\* The requests of the phase without an answer.
Outstanding(pool, from) == {r \in pool : r.n >= from}

TallyOK ==
    /\ IsFiniteSet(inflight)
    /\ IF InPhase THEN counted + dropped + Cardinality(Outstanding(inflight, first)) = next - first
                  ELSE counted + dropped <= next - first
    /\ model = "closed" => dropped = 0

RoomOK == InflightBounded /\ (at = "grace" => aborted)

PlanOK ==
    /\ \A i, j \in DOMAIN plan : plan[i] = "sale" /\ plan[j] = "sale" => i = j
    /\ sale # 0 /\ at # "creating" => \A i \in DOMAIN plan : plan[i] # "sale"
    /\ scenario = "write-mix" => sale = 0 /\ \A i \in DOMAIN plan : plan[i] # "sale"
    /\ at = "creating" => plan # <<>> /\ Head(plan) = "sale" /\ sale # 0
    /\ InPhase => plan # <<>> /\ Head(plan) # "sale"
    /\ at \in {"schedule", "rest"} => model = "open"
    /\ at = "workers" => model = "closed"

\* What was issued was scheduled, and after the schedule nothing more is.
ScheduleOK ==
    model = "open" /\ at \in {"schedule", "rest", "drain"} =>
        /\ first .. next - 1 \subseteq Scheduled
        /\ at # "schedule" => next \notin Scheduled

EndOK ==
    /\ pending > 0 => sale # 0 /\ at # "creating"
    /\ at \in {"cleanup", "done"} => sale = 0
    /\ cut => aborted
    /\ verdict = "ok" => at = "done" /\ ~aborted

Inv == TypeOK /\ RequestsOK /\ Ranges /\ Known /\ TallyOK /\ RoomOK /\ PlanOK /\ ScheduleOK /\ EndOK

-----------------------------------------------------------------------------
(* Numbers. *)

LEMMA Limits ==
  /\ Rate \in Nat /\ Rate > 0 /\ MaxInflight \in Nat /\ MaxInflight > 0
  /\ Concurrency \in Nat /\ Concurrency > 0 /\ \A p \in Phase : Duration[p] \in Nat
  BY LimitsAssumption

LEMMA Below ==
  ASSUME NEW a \in Nat, NEW b \in Nat, a <= b
  PROVE  1 .. a - 1 \subseteq 1 .. b - 1 /\ 0 .. a - 1 \subseteq 0 .. b - 1 /\ \A c \in Nat : a - c <= b - c
  OBVIOUS

\* A set of numbers has a smallest element, and Least is that one.
LEMMA LeastOf ==
  ASSUME NEW S \in SUBSET Nat, S # {}
  PROVE  Least(S) \in S /\ \A y \in S : Least(S) <= y
  <1>1. IsWellFoundedOn({p \in Nat \X Nat : p[1] < p[2]}, Nat)
    BY NatLessThanWellFounded DEF OpToRel
  <1>2. PICK x \in S : \A y \in S : ~(<<y, x>> \in {p \in Nat \X Nat : p[1] < p[2]})
    BY <1>1, WFMin
  <1>3. \A y \in S : x <= y
    <2> TAKE y \in S
    <2>1. ~(<<y, x>> \in {p \in Nat \X Nat : p[1] < p[2]}) /\ x \in Nat /\ y \in Nat
      BY <1>2
    <2>2. ~(y < x)
      BY <2>1
    <2> QED
      BY <2>1, <2>2
  <1> QED
    BY <1>3 DEF Least

\* A product of naturals grows with either factor.
LEMMA ProductMonotone ==
  ASSUME NEW a \in Nat, NEW b \in Nat, NEW c \in Nat, a <= b
  PROVE  a * c \in Nat /\ b * c \in Nat /\ a * c <= b * c /\ c * a <= c * b
  <1>1. PICK z \in Nat : b = a + z
    <2>1. b - a \in Nat /\ b = a + (b - a)
      OBVIOUS
    <2> QED
      BY <2>1
  <1>2. b * c = a * c + z * c /\ c * b = c * a + c * z
    BY <1>1
  <1>3. a * c \in Nat /\ z * c \in Nat /\ c * a \in Nat /\ c * z \in Nat
    BY <1>1
  <1> QED
    BY <1>2, <1>3

\* The number of whole rates in a number grows with it.
LEMMA QuotientMonotone ==
  ASSUME NEW k \in Nat, NEW l \in Nat, k <= l
  PROVE  k \div Rate \in Nat /\ l \div Rate \in Nat /\ k \div Rate <= l \div Rate
  <1>1. PICK b \in Nat : b = Rate /\ b > 0
    BY Limits
  <1>2. PICK q \in Nat : q = k \div b /\ b * q \in Nat /\ b * q <= k /\ k < b * q + b
    <2>1. k \div b \in Nat /\ b * (k \div b) <= k /\ k < b * (k \div b) + b
      BY <1>1
    <2>2. b * (k \div b) \in Nat
      BY <1>1, <2>1
    <2> QED
      BY <2>1, <2>2
  <1>3. PICK r \in Nat : r = l \div b /\ b * r \in Nat /\ b * r <= l /\ l < b * r + b
    <2>1. l \div b \in Nat /\ b * (l \div b) <= l /\ l < b * (l \div b) + b
      BY <1>1
    <2>2. b * (l \div b) \in Nat
      BY <1>1, <2>1
    <2> QED
      BY <2>1, <2>2
  <1>4. ~(r < q)
    <2> SUFFICES ASSUME r < q PROVE FALSE
      OBVIOUS
    <2>1. PICK z \in Nat : q = r + 1 + z
      <3>1. q - r - 1 \in Nat /\ q = r + 1 + (q - r - 1)
        OBVIOUS
      <3> QED
        BY <3>1
    <2>2. b * q = b * r + b + b * z /\ b * z \in Nat
      BY <1>1, <2>1
    <2> QED
      BY <1>2, <1>3, <2>2
  <1> QED
    BY <1>1, <1>2, <1>3, <1>4

\* The instants by which the k-th request of the ramp may be due.
RampTicks(k) == {t \in 0 .. Duration["ramp"] + k : Rate * t * t >= 2 * k * Duration["ramp"]}

\* There is one: at the latest tick the sum of the rates so far is a square.
LEMMA RampEnds ==
  ASSUME NEW k \in Nat
  PROVE  RampTicks(k) \subseteq Nat /\ RampTicks(k) # {}
  <1>1. PICK d \in Nat : d = Duration["ramp"]
    BY Limits DEF Phase
  <1>2. PICK t \in Nat : t = d + k
    BY <1>1
  <1>3. PICK s \in Nat : s = t * t
    BY <1>2
  <1>4. s = d * d + 2 * k * d + k * k /\ d * d \in Nat /\ k * k \in Nat /\ 2 * k * d \in Nat
    BY <1>1, <1>2, <1>3
  <1>5. s >= 2 * k * d
    BY <1>4
  <1>6. Rate * s >= s
    <2>1. 1 <= Rate /\ Rate \in Nat
      BY Limits
    <2>2. 1 * s <= Rate * s
      BY <1>3, <2>1, ProductMonotone
    <2>3. Rate * s \in Nat
      BY <1>3, <2>1
    <2> QED
      BY <1>3, <2>2, <2>3
  <1>7. Rate * t * t = Rate * s /\ Rate * s \in Nat
    BY <1>2, <1>3, Limits
  <1>8. Rate * t * t >= 2 * k * d
    BY <1>3, <1>4, <1>5, <1>6, <1>7
  <1>9. t \in RampTicks(k)
    BY <1>1, <1>2, <1>8 DEF RampTicks
  <1> QED
    BY <1>9 DEF RampTicks

\* Requests become due in order.
LEMMA OffsetMonotone ==
  ASSUME NEW k \in Nat, NEW l \in Nat, k <= l
  PROVE  Offset(k) \in Nat /\ Offset(l) \in Nat /\ Offset(k) <= Offset(l)
  <1>1. CASE Head(plan) = "ramp"
    <2>1. Offset(k) = Least(RampTicks(k)) /\ Offset(l) = Least(RampTicks(l))
      BY <1>1 DEF Offset, RampTicks
    <2>2. PICK a \in RampTicks(k) : a = Least(RampTicks(k)) /\ \A y \in RampTicks(k) : a <= y
      BY RampEnds, LeastOf
    <2>3. PICK b \in RampTicks(l) : b = Least(RampTicks(l))
      BY RampEnds, LeastOf
    <2>4. a \in Nat /\ b \in Nat
      BY RampEnds
    <2>5. PICK d \in Nat : d = Duration["ramp"]
      BY Limits DEF Phase
    <2>6. Rate * b * b >= 2 * l * d /\ a <= d + k
      BY <2>5 DEF RampTicks
    <2>7. 2 * k * d <= 2 * l * d
      <3>1. k * d <= l * d /\ k * d \in Nat /\ l * d \in Nat
        BY <2>5, ProductMonotone
      <3>2. 2 * k * d = 2 * (k * d) /\ 2 * l * d = 2 * (l * d)
        BY <2>5
      <3> QED
        BY <3>1, <3>2
    <2>8. Rate * b * b \in Nat /\ 2 * k * d \in Nat /\ 2 * l * d \in Nat
      BY <2>4, <2>5, Limits
    <2>9. Rate * b * b >= 2 * k * d
      BY <2>6, <2>7, <2>8
    <2>10. a <= b
      <3>1. CASE b <= d + k
        <4>1. b \in RampTicks(k)
          BY <2>4, <2>5, <2>9, <3>1 DEF RampTicks
        <4> QED
          BY <2>2, <4>1
      <3>2. CASE ~(b <= d + k)
        BY <2>4, <2>5, <2>6, <3>2
      <3> QED
        BY <3>1, <3>2
    <2> QED
      BY <2>1, <2>2, <2>3, <2>4, <2>10
  <1>2. CASE Head(plan) # "ramp"
    BY <1>2, QuotientMonotone DEF Offset
  <1> QED
    BY <1>1, <1>2

LEMMA IntervalSize ==
  ASSUME NEW a \in Nat, NEW b \in Nat, a <= b
  PROVE  IsFiniteSet(a .. b - 1) /\ Cardinality(a .. b - 1) = b - a
  <1>1. PICK e \in Int : e = b - 1
    OBVIOUS
  <1>2. IsFiniteSet(a .. e) /\ Cardinality(a .. e) = IF a > e THEN 0 ELSE e - a + 1
    BY FS_Interval
  <1>3. (IF a > e THEN 0 ELSE e - a + 1) = b - a
    BY <1>1
  <1> QED
    BY <1>1, <1>2, <1>3

-----------------------------------------------------------------------------
(* The schedule. *)

\* A phase is under way or may begin.
AtPhase == plan # <<>> /\ Head(plan) # "sale"

LEMMA PhaseLength ==
  ASSUME TypeOK, AtPhase
  PROVE  Head(plan) \in Phase /\ Duration[Head(plan)] \in Nat /\ first \in Nat /\ next \in Nat /\ first <= next /\ clock \in Nat
  <1>1. plan \in Seq(Phase \union {"sale"}) /\ plan # <<>>
    BY DEF TypeOK, AtPhase
  <1>2. Head(plan) \in Phase \union {"sale"}
    BY <1>1
  <1>3. Head(plan) \in Phase
    BY <1>2 DEF AtPhase
  <1> QED
    BY <1>3, Limits DEF TypeOK

\* What is before a scheduled request is scheduled, no later.
LEMMA ScheduledPrefix ==
  ASSUME TypeOK, AtPhase, NEW i \in Scheduled, NEW j \in Nat, first <= j, j <= i
  PROVE  j \in Scheduled /\ i \in Nat /\ Offset(j - first) \in Nat /\ Offset(i - first) \in Nat /\ Offset(j - first) <= Offset(i - first)
  <1>1. PICK d \in Nat : d = Duration[Head(plan)]
    BY PhaseLength
  <1>2. PICK h \in Nat : h = first + Rate * d
    <2>1. Rate * d \in Nat
      BY <1>1, Limits
    <2> QED
      BY <2>1, PhaseLength
  <1>3. i \in first .. h /\ Offset(i - first) < d
    BY <1>1, <1>2 DEF Scheduled
  <1>4. first \in Nat /\ i \in Nat
    BY <1>2, <1>3, PhaseLength
  <1>5. j - first \in Nat /\ i - first \in Nat /\ j - first <= i - first
    BY <1>4
  <1>6. Offset(j - first) \in Nat /\ Offset(i - first) \in Nat /\ Offset(j - first) <= Offset(i - first)
    BY <1>5, OffsetMonotone
  <1>7. j \in first .. h /\ Offset(j - first) < d
    BY <1>2, <1>3, <1>4, <1>6
  <1> QED
    BY <1>1, <1>2, <1>4, <1>6, <1>7 DEF Scheduled

\* What is due is a block of numbers, from the next one on.
LEMMA DueInterval ==
  ASSUME TypeOK, AtPhase, Due # {}
  PROVE  \E e \in Nat : e > next /\ Due = next .. e - 1
  <1>1. first \in Nat /\ next \in Nat /\ first <= next /\ clock \in Nat
    BY PhaseLength
  <1>2. PICK h \in Nat : h = first + Rate * Duration[Head(plan)]
    <2>1. PICK d \in Nat : d = Duration[Head(plan)]
      BY PhaseLength
    <2>2. Rate * d \in Nat
      BY <2>1, Limits
    <2> QED
      BY <1>1, <2>1, <2>2
  <1>3. Due \subseteq next .. h
    BY <1>1, <1>2 DEF Due, Scheduled
  <1>4. ASSUME NEW i \in Due, NEW j \in next .. i PROVE j \in Due
    <2>1. i \in Scheduled /\ i \in Nat /\ i >= next /\ Offset(i - first) <= clock
      BY <1>1, <1>3 DEF Due
    <2>2. j \in Nat /\ first <= j /\ j <= i
      BY <1>1, <2>1
    <2>3. j \in Scheduled /\ Offset(j - first) \in Nat /\ Offset(i - first) \in Nat /\ Offset(j - first) <= Offset(i - first)
      BY <2>1, <2>2, ScheduledPrefix
    <2>4. Offset(j - first) <= clock
      BY <1>1, <2>1, <2>3
    <2> QED
      BY <1>1, <2>2, <2>3, <2>4 DEF Due
  <1> DEFINE Beyond == {j \in Nat : j >= next /\ j \notin Due}
  <1>5. h + next + 1 \in Beyond
    BY <1>1, <1>2, <1>3
  <1>6. PICK e \in Beyond : \A y \in Beyond : e <= y
    BY <1>5, LeastOf
  <1>7. e \in Nat /\ e >= next /\ e \notin Due
    OBVIOUS
  <1>8. Due \subseteq next .. e - 1
    <2> SUFFICES ASSUME NEW i \in Due PROVE i \in next .. e - 1
      OBVIOUS
    <2>1. i \in Nat /\ i >= next
      BY <1>1, <1>3
    <2>2. ~(e <= i)
      BY <1>1, <1>4, <1>7, <2>1
    <2> QED
      BY <1>1, <1>7, <2>1, <2>2
  <1>9. next .. e - 1 \subseteq Due
    <2> SUFFICES ASSUME NEW i \in next .. e - 1 PROVE i \in Due
      OBVIOUS
    <2>1. i \in Nat /\ i >= next /\ ~(e <= i)
      BY <1>1, <1>7
    <2> QED
      BY <1>6, <2>1
  <1>10. e > next
    <2>1. PICK i \in Due : TRUE
      OBVIOUS
    <2>2. i \in next .. e - 1
      BY <1>8
    <2> QED
      BY <1>1, <1>7, <2>2
  <1> QED
    BY <1>7, <1>8, <1>9, <1>10

\* A phase that is through has issued its schedule.
LEMMA ScheduleIssued ==
  ASSUME TypeOK, AtPhase, first .. next - 1 \subseteq Scheduled, next \notin Scheduled
  PROVE  Scheduled = first .. next - 1
  <1>1. first \in Nat /\ next \in Nat /\ first <= next
    BY PhaseLength
  <1>2. ASSUME NEW i \in Scheduled PROVE i \in first .. next - 1
    <2>1. i \in Nat /\ i >= first
      <3>1. PICK d \in Nat : d = Duration[Head(plan)]
        BY PhaseLength
      <3>2. Rate * d \in Nat
        BY <3>1, Limits
      <3>3. i \in first .. first + Rate * d
        BY <3>1 DEF Scheduled
      <3> QED
        BY <1>1, <3>2, <3>3
    <2>2. ~(next <= i)
      BY <1>1, ScheduledPrefix
    <2> QED
      BY <1>1, <2>1, <2>2
  <1> QED
    BY <1>2

-----------------------------------------------------------------------------
(* Issuing requests. *)

\* A request that a scenario hands out: a cancel is of a promotion in the queue.
Fresh(r, queue) ==
    /\ r \in Request
    /\ r.kind = "create" => r.promo = r.n
    /\ r.kind = "cancel" => \E j \in DOMAIN queue : r.promo = queue[j]
    /\ scenario = "flash-sale" => r.kind = "read"
    /\ r.kind # "read" => ~r.served

LEMMA SpecsAreFresh ==
  ASSUME NEW e \in Nat, next \in Nat, NEW kinds \in [next .. e - 1 -> Kinds], NEW queue \in Seq(Nat),
         NEW i \in next .. e - 1
  PROVE  Specs(next .. e - 1, kinds, queue)[i].n = i /\ Fresh(Specs(next .. e - 1, kinds, queue)[i], queue)
  <1> DEFINE slots == next .. e - 1
             before == {j \in slots : j <= i /\ kinds[j] = "promo"}
             r == Specs(slots, kinds, queue)[i]
  <1> SUFFICES r.n = i /\ Fresh(r, queue)
    OBVIOUS
  <1>1. r = CASE kinds[i] = "read" -> [n |-> i, kind |-> "read", promo |-> 0, served |-> TRUE]
              [] kinds[i] = "promo" /\ Cardinality(before) <= Len(queue) ->
                     [n |-> i, kind |-> "cancel", promo |-> queue[Cardinality(before)], served |-> FALSE]
              [] OTHER -> [n |-> i, kind |-> "create", promo |-> i, served |-> FALSE]
    BY DEF Specs
  <1>2. i \in Nat /\ kinds[i] \in Kinds
    OBVIOUS
  <1>3. CASE kinds[i] = "read"
    <2>1. r = [n |-> i, kind |-> "read", promo |-> 0, served |-> TRUE]
      BY <1>1, <1>3
    <2> HIDE DEF r
    <2> QED
      BY <1>2, <2>1 DEF Fresh, Request
  <1>4. CASE kinds[i] # "read"
    <2>1. kinds[i] = "promo" /\ scenario # "flash-sale"
      BY <1>2, <1>4 DEF Kinds
    <2>2. Cardinality(before) \in Nat /\ Cardinality(before) # 0
      <3>1. IsFiniteSet(slots)
        BY FS_Interval
      <3>2. IsFiniteSet(before)
        BY <3>1, FS_Subset
      <3>3. i \in before
        BY <1>2, <2>1
      <3> HIDE DEF before
      <3> QED
        BY <3>2, <3>3, FS_CardinalityType, FS_EmptySet
    <2> HIDE DEF before
    <2>3. CASE Cardinality(before) <= Len(queue)
      <3>1. PICK j \in DOMAIN queue : j = Cardinality(before) /\ queue[j] \in Nat
        BY <2>2, <2>3
      <3>2. r = [n |-> i, kind |-> "cancel", promo |-> queue[j], served |-> FALSE]
        BY <1>1, <1>4, <2>1, <2>3, <3>1
      <3> HIDE DEF r
      <3> QED
        BY <1>2, <2>1, <3>1, <3>2 DEF Fresh, Request
    <2>4. CASE ~(Cardinality(before) <= Len(queue))
      <3>1. r = [n |-> i, kind |-> "create", promo |-> i, served |-> FALSE]
        BY <1>1, <1>4, <2>4
      <3> HIDE DEF r
      <3> QED
        BY <1>2, <2>1, <3>1 DEF Fresh, Request
    <2> QED
      BY <2>3, <2>4
  <1> QED
    BY <1>3, <1>4

\* The requests that are new in the pool: numbered from the next number on.
Added(new, e, queue) ==
    /\ \A r \in new : r.n \in next .. e - 1 /\ Fresh(r, queue)
    /\ \A r, q \in new : r.n = q.n => r = q

\* Sending a block of numbers: every one of its requests is in the pool or dropped, dropped only in
\* the open model and when the pool is full, and the queue only gets shorter.
Sends(pool, new, e, queue) ==
    /\ next' = e /\ Added(new, e, queue) /\ inflight' = pool \union new
    /\ IsFiniteSet(new) /\ Cardinality(new) + dropped' = e - next + dropped
    /\ dropped' \in Nat /\ dropped' >= dropped
    /\ model = "closed" => dropped' = dropped
    /\ model # "closed" /\ Cardinality(pool) <= MaxInflight => Cardinality(pool) + Cardinality(new) <= MaxInflight
    /\ open' \in Seq(Nat) /\ \A i \in DOMAIN open' : \E j \in DOMAIN queue : open'[i] = queue[j]

LEMMA IssueStep ==
  ASSUME NEW e \in Nat, next \in Nat, e > next, NEW kinds \in [next .. e - 1 -> Kinds],
         NEW pool, IsFiniteSet(pool), NEW queue \in Seq(Nat), Issue(next .. e - 1, kinds, pool, queue),
         dropped \in Nat
  PROVE  \E new : Sends(pool, new, e, queue)
  <1> DEFINE slots == next .. e - 1
             spec == Specs(slots, kinds, queue)
             sent == {i \in slots : Room(Cardinality(pool) + i - Least(slots))}
             promos == Cardinality({i \in slots : kinds[i] = "promo"})
             new == {spec[i] : i \in sent}
  <1>1. /\ next' = next + Cardinality(slots)
        /\ inflight' = pool \union new
        /\ dropped' = dropped + Cardinality(slots \ sent)
        /\ open' = SubSeq(queue, promos + 1, Len(queue))
    BY DEF Issue
  <1>2. IsFiniteSet(slots) /\ Cardinality(slots) = e - next
    BY IntervalSize
  <1>3. IsFiniteSet(sent) /\ sent \subseteq slots /\ Cardinality(sent) \in Nat
    BY <1>2, FS_Subset, FS_CardinalityType
  <1>4. Least(slots) = next
    <2>1. next \in slots /\ slots \subseteq Nat
      OBVIOUS
    <2>2. PICK x \in slots : x = Least(slots) /\ x <= next
      BY <2>1, LeastOf
    <2> QED
      BY <2>2
  <1>5. Cardinality(slots \ sent) = e - next - Cardinality(sent) /\ Cardinality(slots \ sent) \in Nat
    <2>1. slots \intersect sent = sent
      BY <1>3
    <2>2. IsFiniteSet(slots \ sent) /\ Cardinality(slots \ sent) = Cardinality(slots) - Cardinality(slots \intersect sent)
      BY <1>2, FS_Difference
    <2>3. Cardinality(slots \ sent) \in Nat
      BY <2>2, FS_CardinalityType
    <2> HIDE DEF slots, sent
    <2> QED
      BY <1>2, <2>1, <2>2, <2>3
  <1>6. promos \in Nat
    <2>1. IsFiniteSet({i \in slots : kinds[i] = "promo"})
      BY <1>2, FS_Subset
    <2> QED
      BY <2>1, FS_CardinalityType
  <1>7. \A i \in slots : spec[i].n = i /\ Fresh(spec[i], queue)
    BY SpecsAreFresh
  <1>8. IsFiniteSet(new) /\ Cardinality(new) = Cardinality(sent)
    <2> DEFINE f == [i \in sent |-> spec[i]]
    <2>1. f \in Bijection(sent, new)
      <3> HIDE DEF spec
      <3>1. f \in Injection(sent, new)
        BY <1>3, <1>7 DEF Injection, IsInjective
      <3>2. f \in Surjection(sent, new)
        BY <1>3, <1>7 DEF Surjection
      <3> QED
        BY <3>1, <3>2 DEF Bijection
    <2>2. ExistsBijection(sent, new)
      BY <2>1 DEF ExistsBijection
    <2> HIDE DEF sent, new
    <2> QED
      BY <1>3, <2>2, FS_Bijection
  <1>9. Added(new, e, queue)
    <2>1. \A r \in new : \E i \in slots : r = spec[i]
      BY <1>3
    <2> HIDE DEF new, spec
    <2>2. \A r \in new : r.n \in slots /\ Fresh(r, queue)
      BY <1>7, <2>1
    <2>3. \A r, q \in new : r.n = q.n => r = q
      BY <1>7, <2>1
    <2> QED
      BY <2>2, <2>3 DEF Added
  <1>10. open' \in Seq(Nat) /\ \A i \in DOMAIN open' : \E j \in DOMAIN queue : open'[i] = queue[j]
    <2> HIDE DEF promos
    <2>1. PICK a \in Nat, l \in Nat : a = promos + 1 /\ a >= 1 /\ l = Len(queue)
      <3>1. promos + 1 \in Nat /\ promos + 1 >= 1
        BY <1>6
      <3> QED
        BY <3>1
    <2>2. open' = SubSeq(queue, a, l)
      BY <1>1, <2>1
    <2>3. DOMAIN queue = 1 .. l /\ \A i \in 1 .. l : queue[i] \in Nat
      BY <2>1
    <2>4. \A i \in a .. l : i \in 1 .. l /\ queue[i] \in Nat
      BY <2>1, <2>3
    <2>5. /\ open' \in Seq(Nat)
          /\ Len(open') = IF a <= l THEN l - a + 1 ELSE 0
          /\ \A i \in 1 .. l - a + 1 : open'[i] = queue[a + i - 1]
      BY <2>2, <2>4, SubSeqProperties
    <2>6. ASSUME NEW i \in DOMAIN open' PROVE \E j \in DOMAIN queue : open'[i] = queue[j]
      <3>1. i \in 1 .. l - a + 1
        BY <2>5
      <3>2. a + i - 1 \in 1 .. l
        BY <2>1, <3>1
      <3> QED
        BY <2>3, <2>5, <3>1, <3>2
    <2> QED
      BY <2>5, <2>6
  <1>11. model = "closed" => sent = slots
    BY DEF Room
  <1>12. model # "closed" /\ Cardinality(pool) <= MaxInflight => Cardinality(pool) + Cardinality(sent) <= MaxInflight
    <2> SUFFICES ASSUME model # "closed", Cardinality(pool) <= MaxInflight
                 PROVE  Cardinality(pool) + Cardinality(sent) <= MaxInflight
      OBVIOUS
    <2>1. PICK c \in Nat : c = Cardinality(pool)
      BY FS_CardinalityType
    <2>2. PICK m \in Nat : m = MaxInflight /\ c <= m
      BY <2>1, Limits
    <2>3. PICK f \in Nat : f = next + (m - c)
      BY <2>2
    <2>4. sent \subseteq next .. f - 1
      <3> SUFFICES ASSUME NEW i \in sent PROVE i \in next .. f - 1
        OBVIOUS
      <3>1. i \in Nat /\ i >= next /\ Room(c + i - next)
        BY <1>4, <2>1
      <3>2. c + i - next < m
        BY <2>2, <3>1 DEF Room
      <3> HIDE DEF sent
      <3> QED
        BY <2>1, <2>2, <2>3, <3>1, <3>2
    <2>5. IsFiniteSet(next .. f - 1) /\ Cardinality(next .. f - 1) = f - next
      <3>1. next <= f
        BY <2>2, <2>3
      <3> QED
        BY <3>1, IntervalSize
    <2>6. Cardinality(sent) <= f - next
      BY <2>4, <2>5, FS_Subset
    <2> HIDE DEF sent
    <2> QED
      BY <1>3, <2>1, <2>2, <2>3, <2>6
  <1>13. PICK k \in Nat : k = Cardinality(sent)
    BY <1>3
  <1>14. model = "closed" => k = e - next
    BY <1>2, <1>11, <1>13
  <1> HIDE DEF sent, new, slots
  <1>15. next' = e
    BY <1>1, <1>2
  <1>16. PICK d \in Nat : d = Cardinality(slots \ sent) /\ d = e - next - k
    BY <1>5, <1>13
  <1>17. /\ dropped' = dropped + d /\ dropped' \in Nat /\ dropped' >= dropped
         /\ k + dropped' = e - next + dropped
         /\ model = "closed" => dropped' = dropped
    <2>1. dropped' = dropped + d
      BY <1>1, <1>16
    <2>2. dropped' \in Nat /\ dropped' >= dropped /\ k + dropped' = e - next + dropped
      BY <1>16, <2>1
    <2>3. model = "closed" => d = 0
      BY <1>14, <1>16
    <2> QED
      BY <2>1, <2>2, <2>3
  <1> QED
    BY <1>1, <1>8, <1>9, <1>10, <1>12, <1>13, <1>15, <1>17 DEF Sends

-----------------------------------------------------------------------------
(* Steps of the client that send nothing and hear nothing. *)

\* What they leave alone.
NoLoad == next' \in Nat /\ next' >= next /\ UNCHANGED <<scenario, model, inflight, stray, open>>

LEMMA RequestsStay ==
  ASSUME TypeOK, RequestsOK, NoLoad
  PROVE  RequestsOK'
  <1>1. next \in Nat
    BY DEF TypeOK
  <1>2. Requests' = Requests
    BY DEF NoLoad, Requests
  <1>3. ASSUME NEW p, Settled(p) PROVE Settled(p)'
    <2>1. p \in 1 .. next - 1 /\ \A r \in Requests : r.n # p
      BY <1>3 DEF Settled
    <2>2. 1 .. next - 1 \subseteq 1 .. next' - 1
      BY <1>1, Below DEF NoLoad
    <2> QED
      BY <1>2, <2>1, <2>2 DEF Settled
  <1> QED
    BY <1>1, <1>2, <1>3 DEF NoLoad, RequestsOK

\* The number of requests without an answer.
LEMMA OutstandingCounts ==
  ASSUME TallyOK, NEW from
  PROVE  /\ IsFiniteSet(Outstanding(inflight, from)) /\ Cardinality(Outstanding(inflight, from)) \in Nat
         /\ Cardinality(inflight) \in Nat
  <1>1. Outstanding(inflight, from) \subseteq inflight
    BY DEF Outstanding
  <1> QED
    BY <1>1, FS_Subset, FS_CardinalityType DEF TallyOK

\* A phase's tally stays, or is over with the phase.
LEMMA TallyStays ==
  ASSUME TypeOK, TallyOK, NoLoad, UNCHANGED <<first, counted, dropped>>, InPhase' => InPhase /\ next' = next
  PROVE  TallyOK'
  <1>1. PICK o \in Nat : o = Cardinality(Outstanding(inflight, first))
    BY OutstandingCounts
  <1>2. Outstanding(inflight, first)' = Outstanding(inflight, first)
    BY DEF NoLoad, Outstanding
  <1>3. first \in Nat /\ next \in Nat /\ counted \in Nat /\ dropped \in Nat
    BY DEF TypeOK
  <1>4. IsFiniteSet(inflight') /\ (model' = "closed" => dropped' = 0)
    BY DEF TallyOK, NoLoad
  <1>5. CASE InPhase'
    BY <1>2, <1>4, <1>5 DEF TallyOK
  <1>6. CASE ~InPhase'
    <2>1. counted + dropped <= next - first
      BY <1>1, <1>3 DEF TallyOK
    <2>2. counted' = counted /\ dropped' = dropped /\ first' = first /\ next' \in Nat /\ next' >= next
      BY DEF NoLoad
    <2>3. counted' + dropped' <= next' - first'
      <3>1. PICK n \in Nat : n = next
        BY <1>3
      <3>2. PICK m \in Nat : m = next' /\ n <= m
        BY <2>2, <3>1
      <3>3. PICK f \in Nat, x \in Nat : f = first /\ x = counted + dropped
        BY <1>3
      <3>4. x <= n - f /\ n <= m
        BY <2>1, <3>1, <3>2, <3>3
      <3>5. x <= m - f
        BY <3>4
      <3> QED
        BY <2>2, <3>2, <3>3, <3>5
    <2> QED
      BY <1>4, <1>6, <2>3 DEF TallyOK
  <1> QED
    BY <1>5, <1>6

LEMMA PlanTail ==
  ASSUME TypeOK, plan # <<>>
  PROVE  /\ Tail(plan) \in Seq(Phase \union {"sale"})
         /\ \A i \in DOMAIN Tail(plan) : i \in Nat /\ i + 1 \in DOMAIN plan /\ Tail(plan)[i] = plan[i + 1]
         /\ 1 \in DOMAIN plan /\ Head(plan) = plan[1]
  <1>1. plan \in Seq(Phase \union {"sale"})
    BY DEF TypeOK
  <1>2. /\ Tail(plan) \in Seq(Phase \union {"sale"}) /\ Len(Tail(plan)) = Len(plan) - 1
        /\ \A i \in 1 .. Len(Tail(plan)) : Tail(plan)[i] = plan[i + 1]
    BY <1>1, HeadTailProperties
  <1>3. Len(plan) \in Nat /\ Len(plan) # 0 /\ DOMAIN plan = 1 .. Len(plan) /\ DOMAIN Tail(plan) = 1 .. Len(Tail(plan))
    BY <1>1, <1>2, EmptySeq
  <1> QED
    BY <1>1, <1>2, <1>3

\* There is at most one sale, and none after a tail that begins after it.
LEMMA PlanShrinks ==
  ASSUME TypeOK, PlanOK, plan # <<>>
  PROVE  /\ \A i, j \in DOMAIN Tail(plan) : Tail(plan)[i] = "sale" /\ Tail(plan)[j] = "sale" => i = j
         /\ (\A i \in DOMAIN plan : plan[i] # "sale") => \A i \in DOMAIN Tail(plan) : Tail(plan)[i] # "sale"
         /\ Head(plan) = "sale" => \A i \in DOMAIN Tail(plan) : Tail(plan)[i] # "sale"
  <1>1. /\ \A i \in DOMAIN Tail(plan) : i \in Nat /\ i + 1 \in DOMAIN plan /\ Tail(plan)[i] = plan[i + 1]
        /\ 1 \in DOMAIN plan /\ Head(plan) = plan[1]
    BY PlanTail
  <1>2. \A i, j \in DOMAIN plan : plan[i] = "sale" /\ plan[j] = "sale" => i = j
    BY DEF PlanOK
  <1>3. \A i, j \in DOMAIN Tail(plan) : Tail(plan)[i] = "sale" /\ Tail(plan)[j] = "sale" => i = j
    <2> SUFFICES ASSUME NEW i \in DOMAIN Tail(plan), NEW j \in DOMAIN Tail(plan), Tail(plan)[i] = "sale", Tail(plan)[j] = "sale"
                 PROVE  i = j
      OBVIOUS
    <2>1. i + 1 = j + 1 /\ i \in Nat /\ j \in Nat
      BY <1>1, <1>2
    <2> QED
      BY <2>1
  <1>4. (\A i \in DOMAIN plan : plan[i] # "sale") => \A i \in DOMAIN Tail(plan) : Tail(plan)[i] # "sale"
    BY <1>1
  <1>5. Head(plan) = "sale" => \A i \in DOMAIN Tail(plan) : Tail(plan)[i] # "sale"
    <2> SUFFICES ASSUME Head(plan) = "sale", NEW i \in DOMAIN Tail(plan), Tail(plan)[i] = "sale" PROVE FALSE
      OBVIOUS
    <2>1. i + 1 = 1 /\ i \in Nat
      BY <1>1, <1>2
    <2>2. i \in 1 .. Len(Tail(plan))
      BY PlanTail
    <2> QED
      BY <2>1, <2>2
  <1> QED
    BY <1>3, <1>4, <1>5

\* Skip: only the plan and the flags change.
LEMMA SkipInv ==
  ASSUME Inv, Skip
  PROVE  Inv'
  <1> USE DEF Inv, promoVars
  <1>1. NoLoad
    BY DEF Skip, NoLoad, TypeOK
  <1>2. at = "between" /\ at' = at /\ plan # <<>> /\ plan' = Tail(plan) /\ Head(plan) # "sale"
    BY DEF Skip
  <1>3. TypeOK'
    BY <1>2, PlanTail DEF Skip, TypeOK
  <1>4. TallyOK'
    BY <1>1, <1>2, TallyStays DEF Skip, InPhase
  <1>5. PlanOK'
    BY <1>2, PlanShrinks DEF Skip, PlanOK, InPhase
  <1>6. EndOK'
    BY DEF Skip, EndOK, TypeOK, Runs, Recorded
  <1>7. Ranges' /\ Known' /\ RoomOK' /\ ScheduleOK'
    BY <1>2 DEF Skip, promoVars, Ranges, Known, RoomOK, InflightBounded, ScheduleOK
  <1> QED
    BY <1>1, <1>3, <1>4, <1>5, <1>6, <1>7, RequestsStay

\* What is scheduled depends on the phase.
LEMMA ScheduleStays ==
  ASSUME ScheduleOK, UNCHANGED <<model, plan, first, next>>,
         at' \in {"schedule", "rest", "drain"} /\ model = "open" =>
             at \in {"schedule", "rest", "drain"} /\ (at = "schedule" /\ at' # "schedule" => next \notin Scheduled)
  PROVE  ScheduleOK'
  <1>1. Scheduled' = Scheduled
    BY DEF Scheduled, Offset
  <1>2. (first .. next - 1)' = first .. next - 1
    OBVIOUS
  <1> QED
    BY <1>1, <1>2 DEF ScheduleOK

\* BeginOpen: a phase without requests yet.
LEMMA BeginOpenInv ==
  ASSUME Inv, BeginOpen
  PROVE  Inv'
  <1> USE DEF Inv, promoVars, resultVars, Begins, NewMetrics
  <1>1. NoLoad
    BY DEF BeginOpen, NoLoad, TypeOK
  <1>2. at = "between" /\ at' = "schedule" /\ plan # <<>> /\ Head(plan) # "sale" /\ plan' = plan /\ model = "open" /\ ~aborted
    BY DEF BeginOpen
  <1>3. next \in Nat /\ next' = next /\ first' = next /\ counted' = 0 /\ dropped' = 0 /\ next >= 1
    BY DEF BeginOpen, TypeOK
  <1>4. TypeOK'
    BY <1>2, <1>3 DEF BeginOpen, TypeOK
  <1>5. TallyOK'
    <2>1. inflight = {} /\ inflight' = inflight
      BY <1>2 DEF RoomOK, InflightBounded, BeginOpen
    <2>2. Outstanding(inflight', first') = {} /\ Cardinality({}) = 0 /\ IsFiniteSet({})
      BY <2>1, FS_EmptySet DEF Outstanding
    <2>3. counted' + dropped' + 0 = next' - first'
      BY <1>3
    <2> QED
      BY <1>2, <1>3, <2>1, <2>2, <2>3 DEF TallyOK, InPhase
  <1>6. ScheduleOK'
    <2>1. (first .. next - 1)' = {}
      BY <1>3
    <2> QED
      BY <1>2, <2>1 DEF ScheduleOK
  <1>7. PlanOK' /\ EndOK'
    BY <1>2 DEF BeginOpen, PlanOK, InPhase, EndOK
  <1>8. Ranges' /\ Known' /\ RoomOK'
    BY <1>2 DEF BeginOpen, Ranges, Known, RoomOK, InflightBounded
  <1> QED
    BY <1>1, <1>4, <1>5, <1>6, <1>7, <1>8, RequestsStay

\* The stages of a phase, and its end.
LEMMA LeavesInv ==
  ASSUME Inv, ScheduleDone \/ RestOver \/ WorkersDone \/ Interrupted
  PROVE  Inv'
  <1> USE DEF Inv, promoVars, resultVars, Leaves
  <1> DEFINE Moved ==
        \/ at = "schedule" /\ at' = "rest" /\ next \notin Scheduled
        \/ at = "rest" /\ at' = "drain"
        \/ at = "workers" /\ at' = "drain"
        \/ at \in {"schedule", "rest", "workers"} /\ at' = "grace" /\ aborted
  <1>1. Moved
    BY DEF ScheduleDone, RestOver, WorkersDone, Interrupted, ScheduleOver
  <1>2. UNCHANGED <<scenario, model, plan, clock, first, counted, dropped, next, inflight, stray, promoVars, live, aborted, unknown, resultVars>>
    BY DEF ScheduleDone, RestOver, WorkersDone, Interrupted
  <1>3. NoLoad
    BY <1>2 DEF NoLoad, TypeOK
  <1>4. TypeOK'
    BY <1>1, <1>2 DEF TypeOK
  <1>5. TallyOK'
    BY <1>1, <1>2, <1>3, TallyStays DEF InPhase
  <1>6. ScheduleOK'
    BY <1>1, <1>2, ScheduleStays DEF PlanOK
  <1>7. PlanOK' /\ EndOK'
    BY <1>1, <1>2 DEF PlanOK, InPhase, EndOK
  <1>8. Ranges' /\ Known' /\ RoomOK'
    BY <1>1, <1>2 DEF Ranges, Known, RoomOK, InflightBounded
  <1> QED
    BY <1>3, <1>4, <1>5, <1>6, <1>7, <1>8, RequestsStay

LEMMA PhaseEndsInv ==
  ASSUME Inv, PhaseEnds
  PROVE  Inv'
  <1> USE DEF Inv, promoVars, PhaseEnds
  <1>1. NoLoad
    BY DEF NoLoad, TypeOK
  <1>2. /\ at \in {"grace", "drain"} /\ at' = "between" /\ plan' = Tail(plan) /\ plan # <<>> /\ Head(plan) # "sale"
        /\ at = "grace" => aborted
        /\ at = "drain" => inflight = {}
    BY DEF RoomOK, PlanOK, InPhase, Drained
  <1>3. TypeOK'
    BY <1>2, PlanTail DEF TypeOK
  <1>4. TallyOK'
    BY <1>1, <1>2, TallyStays DEF InPhase
  <1>5. ScheduleOK'
    BY <1>2 DEF ScheduleOK
  <1>6. PlanOK'
    BY <1>2, PlanShrinks DEF PlanOK, InPhase
  <1>7. EndOK'
    BY <1>2 DEF EndOK, TypeOK, Recorded
  <1>8. Ranges' /\ Known' /\ RoomOK'
    BY <1>2 DEF Ranges, Known, RoomOK, InflightBounded
  <1> QED
    BY <1>1, <1>3, <1>4, <1>5, <1>6, <1>7, <1>8, RequestsStay

\* Time passes, someone presses Ctrl-C, a check ends.
LEMMA TickInv ==
  ASSUME Inv, Tick
  PROVE  Inv'
  <1> USE DEF Inv, promoVars, resultVars, Tick
  <1>1. NoLoad
    BY DEF NoLoad, TypeOK
  <1>2. TypeOK'
    BY DEF TypeOK
  <1>3. TallyOK'
    BY <1>1, TallyStays DEF InPhase
  <1>4. ScheduleOK'
    BY ScheduleStays
  <1>5. PlanOK' /\ EndOK' /\ Ranges' /\ Known' /\ RoomOK'
    BY DEF PlanOK, InPhase, EndOK, Ranges, Known, RoomOK, InflightBounded
  <1> QED
    BY <1>1, <1>2, <1>3, <1>4, <1>5, RequestsStay

LEMMA AbortInv ==
  ASSUME Inv, Abort
  PROVE  Inv'
  <1> USE DEF Inv, phaseVars, promoVars, resultVars, Abort
  <1>1. NoLoad
    BY DEF NoLoad, TypeOK
  <1>2. TypeOK'
    BY DEF TypeOK
  <1>3. TallyOK'
    BY <1>1, TallyStays DEF InPhase
  <1>4. ScheduleOK'
    BY ScheduleStays
  <1>5. PlanOK' /\ EndOK' /\ Ranges' /\ Known' /\ RoomOK'
    BY DEF PlanOK, InPhase, EndOK, Ranges, Known, RoomOK, InflightBounded
  <1> QED
    BY <1>1, <1>2, <1>3, <1>4, <1>5, RequestsStay

LEMMA CheckEndsInv ==
  ASSUME Inv, CheckEnds
  PROVE  Inv'
  <1> USE DEF Inv, phaseVars, promoVars, CheckEnds
  <1>1. NoLoad
    BY DEF NoLoad, TypeOK
  <1>2. pending' \in 0 .. 2 /\ clean' \in BOOLEAN
    <2>1. PICK p \in 0 .. 2 : p = pending /\ p > 0
      BY DEF TypeOK
    <2>2. p - 1 \in 0 .. 2
      BY <2>1
    <2>3. pending' = p - 1
      BY <2>1
    <2>4. clean' \in BOOLEAN
      BY DEF TypeOK
    <2> QED
      BY <2>2, <2>3, <2>4
  <1>7. TypeOK'
    BY <1>2 DEF TypeOK
  <1>3. TallyOK'
    BY <1>1, TallyStays DEF InPhase
  <1>4. ScheduleOK'
    BY ScheduleStays
  <1>5. EndOK'
    BY DEF EndOK, TypeOK
  <1>6. PlanOK' /\ Ranges' /\ Known' /\ RoomOK'
    BY DEF PlanOK, InPhase, Ranges, Known, RoomOK, InflightBounded
  <1> QED
    BY <1>1, <1>3, <1>4, <1>5, <1>6, <1>7, RequestsStay

-----------------------------------------------------------------------------
(* The sale, the clean-up and the end. *)

\* Ranges grow with the numbers.
LEMMA RangesStay ==
  ASSUME TypeOK, NEW S, S \subseteq 1 .. next - 1, next' \in Nat, next' >= next
  PROVE  S \subseteq 1 .. next' - 1
  <1>1. next \in Nat
    BY DEF TypeOK
  <1>2. 1 .. next - 1 \subseteq 1 .. next' - 1
    BY <1>1, Below
  <1> QED
    BY <1>2

LEMMA StartSaleInv ==
  ASSUME Inv, StartSale
  PROVE  Inv'
  <1> USE DEF Inv, MayStartSale
  <1>1. /\ at = "between" /\ plan # <<>> /\ Head(plan) = "sale" /\ scenario' = scenario
        /\ UNCHANGED <<model, clock, first, counted, dropped, inflight, stray, open, uncancelled, doomed, live, aborted, unknown, interrupted, pending, clean, verdict>>
    BY DEF StartSale
  <1>2. sale = 0 /\ pending = 0 /\ scenario # "write-mix"
    <2>1. 1 \in DOMAIN plan /\ plan[1] = "sale"
      BY <1>1, PlanTail
    <2>2. sale = 0 /\ scenario # "write-mix"
      BY <1>1, <2>1 DEF PlanOK
    <2>3. ~(pending > 0) /\ pending \in 0 .. 2
      BY <2>2 DEF EndOK, TypeOK
    <2> QED
      BY <2>2, <2>3
  <1>3. PICK n \in Nat : n = next /\ n >= 1
    BY DEF TypeOK
  <1>4. CASE ~aborted
    <2>1. at' = "creating" /\ sale' = n /\ next' = n + 1 /\ plan' = plan /\ cut' = cut
      BY <1>3, <1>4 DEF StartSale
    <2>2. next' \in Nat /\ next' >= next
      BY <1>3, <2>1
    <2>3. NoLoad
      BY <1>1, <2>2 DEF NoLoad
    <2>4. Ranges'
      <3>1. uncancelled \subseteq 1 .. next' - 1 /\ doomed \subseteq 1 .. next' - 1 /\ live \subseteq 1 .. next' - 1 /\ unknown \subseteq 1 .. next' - 1
        BY <2>2, RangesStay DEF Ranges
      <3>2. sale' \in 0 .. next' - 1
        BY <2>1
      <3> QED
        BY <1>1, <3>1, <3>2 DEF Ranges
    <2>5. TypeOK'
      <3>1. first \in 1 .. n /\ counted \in 0 .. n - first /\ dropped \in 0 .. n - first /\ live \subseteq 1 .. n /\ unknown \subseteq 1 .. n
        BY <1>3 DEF TypeOK
      <3>2. first \in 1 .. (n + 1) /\ counted \in 0 .. (n + 1) - first /\ dropped \in 0 .. (n + 1) - first /\ live \subseteq 1 .. (n + 1) /\ unknown \subseteq 1 .. (n + 1)
        BY <3>1
      <3> QED
        BY <1>1, <2>1, <3>2 DEF TypeOK
    <2>6. TallyOK'
      BY <1>1, <2>1, <2>3, TallyStays DEF InPhase
    <2>7. PlanOK' /\ EndOK' /\ ScheduleOK'
      BY <1>1, <1>2, <1>3, <2>1 DEF PlanOK, EndOK, ScheduleOK, InPhase
    <2>8. Known'
      BY <1>1, <1>2, <2>1 DEF Known, Ranges
    <2>9. RoomOK'
      BY <1>1, <2>1 DEF RoomOK, InflightBounded
    <2> QED
      BY <2>3, <2>4, <2>5, <2>6, <2>7, <2>8, <2>9, RequestsStay
  <1>5. CASE aborted
    <2>1. at' = at /\ sale' = sale /\ next' = next /\ plan' = <<>> /\ cut' = TRUE
      BY <1>5 DEF StartSale
    <2>2. NoLoad
      BY <1>1, <1>3, <2>1 DEF NoLoad
    <2>3. TypeOK'
      BY <1>1, <2>1 DEF TypeOK
    <2>4. TallyOK'
      BY <1>1, <2>1, <2>2, TallyStays DEF InPhase
    <2>5. PlanOK' /\ EndOK' /\ ScheduleOK'
      BY <1>1, <1>2, <1>5, <2>1 DEF PlanOK, EndOK, ScheduleOK, InPhase
    <2>6. Known' /\ Ranges' /\ RoomOK'
      BY <1>1, <2>1 DEF Known, Ranges, RoomOK, InflightBounded
    <2> QED
      BY <2>2, <2>3, <2>4, <2>5, <2>6, RequestsStay
  <1> QED
    BY <1>4, <1>5 DEF TypeOK

\* In a flash sale the load only reads.
LEMMA SaleReads ==
  ASSUME TypeOK, RequestsOK, PlanOK, at = "creating"
  PROVE  /\ sale # 0 /\ plan # <<>> /\ Head(plan) = "sale" /\ \A r \in Requests : r.kind = "read"
         /\ \A i \in DOMAIN Tail(plan) : Tail(plan)[i] # "sale"
  <1>1. sale # 0 /\ plan # <<>> /\ Head(plan) = "sale"
    BY DEF PlanOK
  <1>2. scenario # "write-mix" /\ scenario \in {"write-mix", "flash-sale"}
    BY <1>1, KindsAssumption DEF PlanOK, TypeOK
  <1> QED
    BY <1>1, <1>2, PlanShrinks DEF RequestsOK

LEMMA SaleStartsInv ==
  ASSUME Inv, SaleStarts
  PROVE  Inv'
  <1> USE DEF Inv, promoVars
  <1>1. /\ at = "creating" /\ at' = "between" /\ live' = live \union {sale} /\ cut' = (cut \/ aborted)
        /\ UNCHANGED <<scenario, model, clock, first, counted, dropped, next, inflight, stray, promoVars, aborted, unknown, interrupted, clean, verdict>>
    BY DEF SaleStarts
  <1>2. /\ sale # 0 /\ plan # <<>> /\ Head(plan) = "sale" /\ \A r \in Requests : r.kind = "read"
        /\ \A i \in DOMAIN Tail(plan) : Tail(plan)[i] # "sale"
    BY <1>1, SaleReads
  <1>3. plan' \in {<<>>, Tail(plan)} /\ pending' \in {0, 2}
    BY DEF SaleStarts
  <1>4. plan' \in Seq(Phase \union {"sale"}) /\ \A i \in DOMAIN plan' : plan'[i] # "sale"
    <2>1. <<>> \in Seq(Phase \union {"sale"}) /\ DOMAIN <<>> = {}
      OBVIOUS
    <2> QED
      BY <1>2, <1>3, <2>1, PlanTail
  <1>5. NoLoad
    BY <1>1 DEF NoLoad, TypeOK
  <1>6. sale \in 1 .. next - 1 /\ sale \in 1 .. next
    BY <1>2 DEF Ranges, TypeOK
  <1>7. TypeOK'
    BY <1>1, <1>3, <1>4, <1>6 DEF TypeOK
  <1>8. Ranges'
    BY <1>1, <1>6 DEF Ranges
  <1>9. TallyOK'
    BY <1>1, <1>5, TallyStays DEF InPhase
  <1>10. PlanOK' /\ ScheduleOK'
    BY <1>1, <1>2, <1>4 DEF PlanOK, ScheduleOK, InPhase
  <1>11. EndOK'
    BY <1>1, <1>2, <1>3 DEF EndOK, TypeOK
  <1>12. Known'
    <2>1. \A r \in inflight : r.kind = "read"
      BY <1>2 DEF Requests
    <2> QED
      BY <1>1, <2>1 DEF Known
  <1>13. RoomOK'
    BY <1>1 DEF RoomOK, InflightBounded
  <1> QED
    BY <1>5, <1>7, <1>8, <1>9, <1>10, <1>11, <1>12, <1>13, RequestsStay

LEMMA SaleFailsInv ==
  ASSUME Inv, SaleFails
  PROVE  Inv'
  <1> USE DEF Inv
  <1>1. /\ at = "creating" /\ at' = "between" /\ live' \subseteq live \union {sale} /\ unknown' = unknown \union {sale}
        /\ sale' = 0 /\ plan' = <<>> /\ verdict' = "threw"
        /\ UNCHANGED <<scenario, model, clock, first, counted, dropped, next, inflight, stray, open, uncancelled, doomed, aborted, interrupted, pending, clean, cut>>
    BY DEF SaleFails
  <1>2. sale # 0 /\ \A r \in Requests : r.kind = "read"
    BY <1>1, SaleReads
  <1>3. <<>> \in Seq(Phase \union {"sale"}) /\ DOMAIN <<>> = {}
    OBVIOUS
  <1>4. NoLoad
    BY <1>1 DEF NoLoad, TypeOK
  <1>5. sale \in 1 .. next - 1 /\ sale \in 1 .. next /\ 0 \in 0 .. next - 1
    BY <1>2 DEF Ranges, TypeOK
  <1>6. TypeOK'
    BY <1>1, <1>3, <1>5 DEF TypeOK
  <1>7. Ranges'
    BY <1>1, <1>5 DEF Ranges
  <1>8. TallyOK'
    BY <1>1, <1>4, TallyStays DEF InPhase
  <1>9. PlanOK' /\ ScheduleOK'
    BY <1>1, <1>3 DEF PlanOK, ScheduleOK, InPhase
  <1>10. EndOK'
    BY <1>1 DEF EndOK, TypeOK
  <1>11. Known'
    <2>1. \A r \in inflight : r.kind = "read"
      BY <1>2 DEF Requests
    <2> QED
      BY <1>1, <2>1 DEF Known
  <1>12. RoomOK'
    BY <1>1 DEF RoomOK, InflightBounded
  <1> QED
    BY <1>4, <1>6, <1>7, <1>8, <1>9, <1>10, <1>11, <1>12, RequestsStay

\* A cancellation kills the promotion, or its end is unknown.
LEMMA Cancelled ==
  ASSUME NEW p, Cancels(p)
  PROVE  live' \subseteq live /\ unknown \subseteq unknown' /\ unknown' \subseteq unknown \union {p} /\ (p \in live' => p \in unknown')
  BY DEF Cancels

LEMMA EndSaleInv ==
  ASSUME Inv, EndSale
  PROVE  Inv'
  <1> USE DEF Inv, phaseVars, resultVars
  <1>1. /\ at = "between" /\ plan = <<>> /\ sale # 0 /\ pending = 0 /\ sale' = 0 /\ Cancels(sale)
        /\ UNCHANGED <<scenario, model, phaseVars, next, inflight, stray, open, uncancelled, doomed, aborted, resultVars>>
    BY DEF EndSale
  <1>2. live' \subseteq live /\ unknown \subseteq unknown' /\ unknown' \subseteq unknown \union {sale} /\ (sale \in live' => sale \in unknown')
    BY <1>1, Cancelled
  <1>3. sale \in 1 .. next - 1 /\ sale \in 1 .. next /\ 0 \in 0 .. next - 1
    BY <1>1 DEF Ranges, TypeOK
  <1>4. NoLoad
    BY <1>1 DEF NoLoad, TypeOK
  <1>5. TypeOK'
    BY <1>1, <1>2, <1>3 DEF TypeOK
  <1>6. Ranges'
    BY <1>1, <1>2, <1>3 DEF Ranges
  <1>7. TallyOK'
    BY <1>1, <1>4, TallyStays DEF InPhase
  <1>8. PlanOK' /\ ScheduleOK'
    BY <1>1 DEF PlanOK, ScheduleOK, InPhase
  <1>9. EndOK'
    BY <1>1 DEF EndOK, TypeOK
  <1>10. Known'
    BY <1>1, <1>2 DEF Known
  <1>11. RoomOK'
    BY <1>1 DEF RoomOK, InflightBounded
  <1> QED
    BY <1>4, <1>5, <1>6, <1>7, <1>8, <1>9, <1>10, <1>11, RequestsStay

\* Everything that lives is to be cancelled or unknown when the clean-up begins.
LEMMA CleanUpInv ==
  ASSUME Inv, CleanUp
  PROVE  Inv'
  <1> USE DEF Inv
  <1> DEFINE late == {r.promo : r \in {q \in inflight : q.kind = "create"}}
  <1>1. /\ at = "between" /\ plan = <<>> /\ sale = 0 /\ at' = "cleanup" /\ doomed' = uncancelled /\ unknown' = unknown \union late
        /\ UNCHANGED <<scenario, model, plan, clock, first, counted, dropped, next, inflight, stray, open, uncancelled, sale, live, aborted, interrupted, pending, clean, cut, verdict>>
    BY DEF CleanUp, ToCancel, resultVars
  <1>2. NoLoad
    BY <1>1 DEF NoLoad, TypeOK
  <1>3. late \subseteq 1 .. next - 1
    BY DEF RequestsOK, Requests
  <1>4. \A r \in inflight : r.kind = "create" => r.promo \in late
    OBVIOUS
  <1> HIDE DEF late
  <1>5. 1 .. next - 1 \subseteq 1 .. next
    BY DEF TypeOK
  <1>6. Ranges'
    BY <1>1, <1>3 DEF Ranges
  <1>7. TypeOK'
    BY <1>1, <1>3, <1>5 DEF TypeOK
  <1>8. TallyOK'
    BY <1>1, <1>2, TallyStays DEF InPhase
  <1>9. PlanOK' /\ ScheduleOK'
    BY <1>1 DEF PlanOK, ScheduleOK, InPhase
  <1>10. EndOK'
    BY <1>1 DEF EndOK, TypeOK
  <1>11. Known'
    <2>1. ASSUME NEW p \in live PROVE p \in uncancelled \union unknown \union late
      <3>1. p # 0
        BY DEF Ranges
      <3> QED
        BY <1>1, <1>4, <3>1 DEF Known
    <2> QED
      BY <1>1, <1>4, <2>1 DEF Known
  <1>12. RoomOK'
    BY <1>1 DEF RoomOK, InflightBounded
  <1> QED
    BY <1>2, <1>6, <1>7, <1>8, <1>9, <1>10, <1>11, <1>12, RequestsStay

LEMMA CancelOneInv ==
  ASSUME Inv, NEW p \in doomed, CancelOne(p)
  PROVE  Inv'
  <1> USE DEF Inv, phaseVars, resultVars
  <1>1. /\ at = "cleanup" /\ Cancels(p) /\ doomed' = doomed \ {p} /\ uncancelled' = uncancelled \ {p}
        /\ UNCHANGED <<scenario, model, phaseVars, next, inflight, stray, open, sale, aborted, resultVars>>
    BY DEF CancelOne
  <1>2. live' \subseteq live /\ unknown \subseteq unknown' /\ unknown' \subseteq unknown \union {p} /\ (p \in live' => p \in unknown')
    BY <1>1, Cancelled
  <1>3. p \in 1 .. next - 1 /\ p \in 1 .. next
    BY DEF Ranges, TypeOK
  <1>4. NoLoad
    BY <1>1 DEF NoLoad, TypeOK
  <1>5. TypeOK'
    BY <1>1, <1>2, <1>3 DEF TypeOK
  <1>6. Ranges'
    BY <1>1, <1>2, <1>3 DEF Ranges
  <1>7. TallyOK'
    BY <1>1, <1>4, TallyStays DEF InPhase
  <1>8. PlanOK' /\ ScheduleOK' /\ EndOK'
    BY <1>1 DEF PlanOK, ScheduleOK, InPhase, EndOK
  <1>9. Known'
    BY <1>1, <1>2 DEF Known
  <1>10. RoomOK'
    BY <1>1 DEF RoomOK, InflightBounded
  <1> QED
    BY <1>4, <1>5, <1>6, <1>7, <1>8, <1>9, <1>10, RequestsStay

LEMMA ReportInv ==
  ASSUME Inv, Report
  PROVE  Inv'
  <1> USE DEF Inv, promoVars
  <1>1. /\ at = "cleanup" /\ doomed = {} /\ at' = "done"
        /\ interrupted' = WasInterrupted
        /\ verdict' \in {"ok", "failed", "interrupted", "threw"} /\ (verdict' = "ok" => ~aborted)
        /\ UNCHANGED <<scenario, model, plan, clock, first, counted, dropped, next, inflight, stray, promoVars, live, aborted, unknown, pending, clean, cut>>
    BY DEF Report, ExitCode, WasInterrupted
  <1>2. NoLoad
    BY <1>1 DEF NoLoad, TypeOK
  <1>3. TypeOK'
    BY <1>1 DEF TypeOK, WasInterrupted
  <1>4. TallyOK'
    BY <1>1, <1>2, TallyStays DEF InPhase
  <1>5. PlanOK' /\ ScheduleOK' /\ Ranges'
    BY <1>1 DEF PlanOK, ScheduleOK, InPhase, Ranges
  <1>6. EndOK'
    BY <1>1 DEF EndOK
  <1>7. Known'
    BY <1>1 DEF Known
  <1>8. RoomOK'
    BY <1>1 DEF RoomOK, InflightBounded
  <1> QED
    BY <1>2, <1>3, <1>4, <1>5, <1>6, <1>7, <1>8, RequestsStay

-----------------------------------------------------------------------------
(* Steps that send. *)

\* What is queued has been created, by no request that is under way.
Cancellable(queue, under) == \A j \in DOMAIN queue : queue[j] \in 1 .. next - 1 /\ \A q \in under : q.n # queue[j]

\* New requests have new numbers, and cancel what no request under way creates.
LEMMA Adding ==
  ASSUME TypeOK, RequestsOK, NEW e \in Nat, e >= next, NEW pool \in SUBSET inflight, NEW new, NEW queue \in Seq(Nat),
         Sends(pool, new, e, queue), stray' \subseteq stray \union (inflight \ pool), scenario' = scenario,
         Cancellable(queue, pool \union stray')
  PROVE  RequestsOK' /\ inflight' \subseteq Request /\ stray' \subseteq Request /\ pool \intersect new = {}
  <1> DEFINE old == pool \union stray'
  <1>1. PICK m \in Nat : m = next /\ m >= 1 /\ m <= e
    BY DEF TypeOK
  <1>2. old \subseteq Requests /\ Requests' = old \union new /\ inflight' = pool \union new
    BY DEF Requests, Sends
  <1>3. \A r \in new : r.n \in m .. e - 1 /\ Fresh(r, queue)
    BY <1>1 DEF Sends, Added
  <1>4. \A r \in Requests : r.n \in 1 .. m - 1
    BY <1>1 DEF RequestsOK
  <1>5. 1 .. m - 1 \subseteq 1 .. e - 1 /\ m .. e - 1 \subseteq 1 .. e - 1 /\ (1 .. m - 1) \intersect (m .. e - 1) = {}
    BY <1>1
  <1>6. \A r \in old, q \in new : r.n # q.n
    BY <1>2, <1>3, <1>4, <1>5
  <1>7. inflight' \subseteq Request /\ stray' \subseteq Request /\ pool \intersect new = {}
    <2>1. inflight \subseteq Request /\ stray \subseteq Request
      BY DEF TypeOK
    <2> QED
      BY <1>2, <1>3, <1>6, <2>1 DEF Fresh
  <1>8. ASSUME NEW p \in 1 .. m - 1, \A q \in old : q.n # p PROVE Settled(p)'
    <2>1. \A q \in new : q.n # p
      BY <1>3, <1>5
    <2>2. p \in 1 .. e - 1 /\ next' = e
      BY <1>5 DEF Sends
    <2> HIDE DEF old
    <2> QED
      BY <1>2, <1>8, <2>1, <2>2 DEF Settled
  <1>9. \A j \in DOMAIN queue : Settled(queue[j])'
    BY <1>1, <1>8 DEF Cancellable
  <1>10. \A r \in old : r.kind = "cancel" => Settled(r.promo)'
    <2> SUFFICES ASSUME NEW r \in old, r.kind = "cancel" PROVE Settled(r.promo)'
      OBVIOUS
    <2>1. r.promo \in 1 .. m - 1 /\ \A q \in Requests : q.n # r.promo
      BY <1>1, <1>2 DEF RequestsOK, Settled
    <2> QED
      BY <1>2, <1>8, <2>1
  <1>11. \A r \in new : r.kind = "cancel" => Settled(r.promo)'
    <2> SUFFICES ASSUME NEW r \in new, r.kind = "cancel" PROVE Settled(r.promo)'
      OBVIOUS
    <2>1. PICK j \in DOMAIN queue : r.promo = queue[j]
      BY <1>3 DEF Fresh
    <2> QED
      BY <1>9, <2>1
  <1>12. \A i \in DOMAIN open' : Settled(open[i])'
    <2>1. \A i \in DOMAIN open' : \E j \in DOMAIN queue : open'[i] = queue[j]
      BY DEF Sends
    <2> QED
      BY <1>9, <2>1
  <1>13. \A r \in Requests' : r.n \in (1 .. next - 1)'
    <2>1. (1 .. next - 1)' = 1 .. e - 1
      BY DEF Sends
    <2> QED
      BY <1>2, <1>3, <1>4, <1>5, <2>1
  <1>14. \A r, q \in Requests' : r.n = q.n => r = q
    <2>1. \A r, q \in old : r.n = q.n => r = q
      BY <1>2 DEF RequestsOK
    <2>2. \A r, q \in new : r.n = q.n => r = q
      BY DEF Sends, Added
    <2> QED
      BY <1>2, <1>6, <2>1, <2>2
  <1>15. inflight' \intersect stray' = {}
    <2>1. pool \intersect stray' = {}
      BY DEF RequestsOK
    <2> QED
      BY <1>2, <1>6, <2>1
  <1>16. \A r \in Requests' : (r.kind = "create" => r.promo = r.n) /\ (scenario' = "flash-sale" => r.kind = "read")
    BY <1>2, <1>3 DEF RequestsOK, Fresh
  <1>17. \A r \in Requests' : r.kind = "cancel" => Settled(r.promo)'
    BY <1>2, <1>10, <1>11
  <1> HIDE DEF old
  <1> QED
    BY <1>7, <1>12, <1>13, <1>14, <1>15, <1>16, <1>17 DEF RequestsOK

\* What is sent adds to what waits for an answer.
LEMMA PoolGrows ==
  ASSUME next \in Nat, NEW e \in Nat, NEW pool, IsFiniteSet(pool), NEW new, NEW queue, Sends(pool, new, e, queue),
         pool \intersect new = {}, NEW from \in Nat, from <= next
  PROVE  /\ IsFiniteSet(inflight') /\ Cardinality(inflight') = Cardinality(pool) + Cardinality(new)
         /\ Cardinality(Outstanding(inflight', from)) = Cardinality(Outstanding(pool, from)) + Cardinality(new)
         /\ Cardinality(pool) \in Nat /\ Cardinality(new) \in Nat /\ Cardinality(Outstanding(pool, from)) \in Nat
  <1>1. inflight' = pool \union new /\ IsFiniteSet(new) /\ \A r \in new : r.n \in next .. e - 1
    BY DEF Sends, Added
  <1>2. pool \intersect new = {} /\ Cardinality({}) = 0
    BY FS_EmptySet
  <1>3. IsFiniteSet(inflight') /\ Cardinality(inflight') = Cardinality(pool) + Cardinality(new) - 0
    BY <1>1, <1>2, FS_Union
  <1>4. \A r \in new : r.n >= from
    BY <1>1
  <1>5. Outstanding(inflight', from) = Outstanding(pool, from) \union new /\ Outstanding(pool, from) \intersect new = {}
    BY <1>1, <1>2, <1>4 DEF Outstanding
  <1>6. IsFiniteSet(Outstanding(pool, from))
    <2>1. Outstanding(pool, from) \subseteq pool
      BY DEF Outstanding
    <2> QED
      BY <2>1, FS_Subset
  <1>7. Cardinality(Outstanding(inflight', from)) = Cardinality(Outstanding(pool, from)) + Cardinality(new) - 0
    BY <1>1, <1>2, <1>5, <1>6, FS_Union
  <1>8. Cardinality(pool) \in Nat /\ Cardinality(new) \in Nat /\ Cardinality(Outstanding(pool, from)) \in Nat
    BY <1>1, <1>6, FS_CardinalityType
  <1> QED
    BY <1>3, <1>7, <1>8

\* The tally of a phase after a step that sends: what is sent is dropped or waits for an answer.
LEMMA TallySends ==
  ASSUME TypeOK, TallyOK, NEW e \in Nat, e >= next, NEW pool, IsFiniteSet(pool), NEW new, NEW queue, Sends(pool, new, e, queue),
         pool \intersect new = {}, model' = model, InPhase', NEW from \in Nat, first' = from, from >= 1, from <= next,
         NEW c \in Nat, counted' = c, c + dropped + Cardinality(Outstanding(pool, from)) = next - from
  PROVE  TallyOK' /\ first' \in 1 .. next' /\ counted' \in 0 .. next' - first' /\ dropped' \in 0 .. next' - first'
  <1>1. PICK n \in Nat : n = next
    BY DEF TypeOK
  <1>2. PICK d \in Nat : d = dropped
    BY DEF TypeOK
  <1>3. /\ IsFiniteSet(inflight')
        /\ Cardinality(Outstanding(inflight', from)) = Cardinality(Outstanding(pool, from)) + Cardinality(new)
        /\ Cardinality(new) \in Nat /\ Cardinality(Outstanding(pool, from)) \in Nat
    BY <1>1, PoolGrows
  <1>4. PICK a \in Nat, o \in Nat : a = Cardinality(new) /\ o = Cardinality(Outstanding(pool, from))
    BY <1>3
  <1>5. PICK x \in Nat : x = dropped' /\ a + x = e - n + d
    BY <1>1, <1>2, <1>4 DEF Sends
  <1>6. c + d + o = n - from /\ n <= e
    BY <1>1, <1>2, <1>4
  <1>7. c + x + (o + a) = e - from /\ c \in 0 .. e - from /\ x \in 0 .. e - from /\ from \in 1 .. e
    <2>1. a + x = e - n + d
      BY <1>5
    <2>2. from <= n
      BY <1>1
    <2>3. c + x + (o + a) = e - from
      BY <1>6, <2>1
    <2>4. c <= e - from /\ x <= e - from
      BY <2>3
    <2>5. 0 <= c /\ 0 <= x /\ 1 <= from /\ from <= e
      BY <1>6, <2>2
    <2> QED
      BY <2>3, <2>4, <2>5
  <1>8. model' = "closed" => dropped' = 0
    BY DEF TallyOK, Sends
  <1>9. next' = e /\ first' = from /\ counted' = c /\ dropped' = x /\ Cardinality(Outstanding(inflight', from)) = o + a
    BY <1>3, <1>4, <1>5 DEF Sends
  <1>10. counted' + dropped' + Cardinality(Outstanding(inflight', first')) = next' - first'
    BY <1>7, <1>9
  <1>11. TallyOK'
    BY <1>3, <1>8, <1>10 DEF TallyOK
  <1> QED
    BY <1>7, <1>9, <1>11

\* Answers do not reach the pool; it only takes what is sent.
LEMMA RoomSends ==
  ASSUME TypeOK, RoomOK, TallyOK, NEW e \in Nat, e >= next, NEW pool \in SUBSET inflight, NEW new, NEW queue, Sends(pool, new, e, queue),
         pool \intersect new = {}, UNCHANGED <<model, aborted>>, at' = "grace" => aborted,
         at' \in {"between", "creating", "cleanup", "done"} => at' = at /\ e = next,
         model = "closed" => Cardinality(pool) + (e - next) <= Concurrency
  PROVE  RoomOK'
  <1>1. PICK n \in Nat : n = next /\ n >= 1
    BY DEF TypeOK
  <1>2. PICK d \in Nat : d = dropped
    BY DEF TypeOK
  <1>3. IsFiniteSet(inflight)
    BY DEF TallyOK
  <1>4. IsFiniteSet(pool) /\ Cardinality(pool) <= Cardinality(inflight) /\ Cardinality(inflight) \in Nat
    BY <1>3, FS_Subset, FS_CardinalityType
  <1>5. /\ Cardinality(inflight') = Cardinality(pool) + Cardinality(new)
        /\ Cardinality(pool) \in Nat /\ Cardinality(new) \in Nat
    <2>1. n \in Nat /\ n <= next
      BY <1>1
    <2> QED
      BY <1>1, <1>4, <2>1, PoolGrows
  <1>6. PICK a \in Nat, b \in Nat : a = Cardinality(new) /\ b = Cardinality(pool)
    BY <1>5
  <1>7. PICK x \in Nat : x = dropped' /\ a + x = e - n + d /\ x >= d
    BY <1>1, <1>2, <1>6 DEF Sends
  <1>8. a <= e - n
    <2>1. a + x = e - n + d /\ x >= d
      BY <1>7
    <2> QED
      BY <2>1
  <1>9. Cardinality(inflight') <= IF model' = "open" THEN MaxInflight ELSE Concurrency
    <2>1. model \in {"open", "closed"}
      BY KindsAssumption DEF TypeOK
    <2>2. CASE model = "open"
      <3>1. PICK m \in Nat : m = MaxInflight
        BY Limits
      <3>2. b <= m
        BY <1>4, <1>6, <2>2, <3>1 DEF RoomOK, InflightBounded
      <3>3. b + a <= m
        BY <1>6, <2>2, <3>1, <3>2 DEF Sends
      <3> QED
        BY <1>5, <1>6, <2>2, <3>1, <3>3
    <2>3. CASE model = "closed"
      <3>1. PICK m \in Nat : m = Concurrency
        BY Limits
      <3>2. b + (e - n) <= m
        BY <1>1, <1>6, <2>3, <3>1
      <3>3. b + a <= m
        BY <1>1, <1>8, <3>2
      <3> QED
        BY <1>5, <1>6, <2>3, <3>1, <3>3
    <2> QED
      BY <2>1, <2>2, <2>3
  <1>10. at' \in {"between", "creating", "cleanup", "done"} /\ inflight' # {} => aborted'
    <2> SUFFICES ASSUME at' \in {"between", "creating", "cleanup", "done"}, inflight' # {} PROVE aborted'
      OBVIOUS
    <2>1. a = 0
      BY <1>1, <1>8
    <2>2. new = {}
      BY <1>6, <2>1, FS_EmptySet DEF Sends
    <2>3. inflight # {}
      BY <2>2 DEF Sends
    <2> QED
      BY <2>3 DEF RoomOK, InflightBounded
  <1> QED
    BY <1>9, <1>10 DEF RoomOK, InflightBounded

LEMMA OneLess ==
  ASSUME TallyOK, NEW r \in inflight, NEW from
  PROVE  /\ IsFiniteSet(inflight \ {r}) /\ Cardinality(inflight \ {r}) = Cardinality(inflight) - 1
         /\ Cardinality(Outstanding(inflight \ {r}, from)) =
               IF r.n >= from THEN Cardinality(Outstanding(inflight, from)) - 1 ELSE Cardinality(Outstanding(inflight, from))
  <1>1. IsFiniteSet(inflight) /\ IsFiniteSet(Outstanding(inflight, from))
    BY OutstandingCounts DEF TallyOK
  <1>2. IsFiniteSet(inflight \ {r}) /\ Cardinality(inflight \ {r}) = Cardinality(inflight) - 1
    BY <1>1, FS_RemoveElement
  <1>3. CASE r.n >= from
    <2>1. Outstanding(inflight \ {r}, from) = Outstanding(inflight, from) \ {r} /\ r \in Outstanding(inflight, from)
      BY <1>3 DEF Outstanding
    <2> QED
      BY <1>1, <1>2, <1>3, <2>1, FS_RemoveElement
  <1>4. CASE ~(r.n >= from)
    <2>1. Outstanding(inflight \ {r}, from) = Outstanding(inflight, from)
      BY <1>4 DEF Outstanding
    <2> QED
      BY <1>2, <1>4, <2>1
  <1> QED
    BY <1>3, <1>4

\* The end of a request: at most one new one is sent, by a worker.
LEMMA EndsForm ==
  ASSUME Inv, NEW r, NEW queue \in Seq(Nat), NEW error, Ends(r, queue, error)
  PROVE  /\ r \in inflight /\ clean' \in BOOLEAN
         /\ counted' = IF r.n >= first /\ InPhase THEN counted + 1 ELSE counted
         /\ UNCHANGED <<scenario, model, plan, at, clock, first, doomed, sale, live, aborted, interrupted, pending, cut, verdict>>
         /\ \E e, new : /\ e \in Nat /\ e >= next /\ e <= next + 1 /\ (at # "workers" => e = next)
                        /\ Sends(inflight \ {r}, new, e, queue)
  <1> USE DEF Inv
  <1>1. /\ r \in inflight
        /\ UNCHANGED <<scenario, model, plan, at, clock, first, doomed, sale, live, aborted, interrupted, pending, cut, verdict>>
        /\ counted' = IF r.n >= first /\ InPhase THEN counted + 1 ELSE counted
        /\ clean' \in BOOLEAN
    BY DEF Ends, Records, InPhase, TypeOK
  <1>2. PICK n \in Nat : n = next
    BY DEF TypeOK
  <1>3. IsFiniteSet(inflight \ {r})
    BY <1>1, OneLess
  <1>4. dropped \in Nat
    BY DEF TypeOK
  <1>5. CASE at = "workers" /\ ~aborted /\ clock < Duration[Head(plan)]
    <2>1. PICK kind \in Kinds : Issue({next}, [i \in {next} |-> kind], inflight \ {r}, queue)
      BY <1>5 DEF Ends
    <2>2. PICK e \in Nat : e = n + 1
      BY <1>2
    <2>3. next .. e - 1 = {next} /\ e > next /\ e <= next + 1 /\ e >= next
      BY <1>2, <2>2
    <2>4. PICK kinds \in [next .. e - 1 -> Kinds] : kinds = [i \in {next} |-> kind]
      BY <2>3
    <2>5. Issue(next .. e - 1, kinds, inflight \ {r}, queue)
      BY <2>1, <2>3, <2>4
    <2>6. \E new : Sends(inflight \ {r}, new, e, queue)
      BY <1>2, <1>3, <1>4, <2>3, <2>5, IssueStep
    <2> QED
      BY <1>1, <1>5, <2>3, <2>6
  <1>6. CASE ~(at = "workers" /\ ~aborted /\ clock < Duration[Head(plan)])
    <2>1. inflight' = inflight \ {r} /\ open' = queue /\ next' = next /\ dropped' = dropped
      BY <1>6 DEF Ends
    <2>2. Sends(inflight \ {r}, {}, n, queue)
      <3>1. IsFiniteSet({}) /\ Cardinality({}) = 0
        BY FS_EmptySet
      <3>2. Added({}, n, queue)
        BY DEF Added
      <3>3. 0 + dropped' = n - next + dropped /\ dropped' \in Nat /\ dropped' >= dropped
        BY <1>2, <1>4, <2>1
      <3>4. model # "closed" /\ Cardinality(inflight \ {r}) <= MaxInflight => Cardinality(inflight \ {r}) + 0 <= MaxInflight
        <4>1. Cardinality(inflight \ {r}) \in Nat
          BY <1>3, FS_CardinalityType
        <4> QED
          BY <4>1
      <3>5. next' = n /\ inflight' = (inflight \ {r}) \union {} /\ open' \in Seq(Nat) /\ \A i \in DOMAIN open' : open'[i] = queue[i] /\ i \in DOMAIN queue
        BY <1>2, <2>1
      <3>6. model = "closed" => dropped' = dropped
        BY <2>1
      <3> QED
        BY <3>1, <3>2, <3>3, <3>4, <3>5, <3>6 DEF Sends
    <2>3. n >= next /\ n <= next + 1 /\ n = next
      BY <1>2
    <2> QED
      BY <1>1, <2>2, <2>3
  <1> QED
    BY <1>5, <1>6

\* What an answer, a refusal and a failure have in common.
LEMMA EndsInv ==
  ASSUME Inv, NEW r, NEW queue \in Seq(Nat), NEW error, Ends(r, queue, error), stray' \subseteq stray \union {r},
         Cancellable(queue, (inflight \ {r}) \union stray'), uncancelled' \subseteq 1 .. next - 1, unknown' \subseteq 1 .. next - 1
  PROVE  /\ TypeOK' /\ RequestsOK' /\ Ranges' /\ TallyOK' /\ RoomOK' /\ PlanOK' /\ ScheduleOK' /\ EndOK'
         /\ inflight \ {r} \subseteq inflight' /\ at' = at /\ live' = live /\ doomed' = doomed /\ sale' = sale
         /\ \A q \in inflight' : q \in inflight \ {r} \/ (q.kind # "read" => ~q.served)
         /\ at # "workers" => inflight' \subseteq inflight
  <1> USE DEF Inv
  <1>1. /\ r \in inflight /\ clean' \in BOOLEAN
        /\ counted' = IF r.n >= first /\ InPhase THEN counted + 1 ELSE counted
        /\ UNCHANGED <<scenario, model, plan, at, clock, first, doomed, sale, live, aborted, interrupted, pending, cut, verdict>>
    BY EndsForm
  <1>a. PICK end, new : /\ end \in Nat /\ end >= next /\ end <= next + 1 /\ (at # "workers" => end = next)
                        /\ Sends(inflight \ {r}, new, end, queue)
    BY EndsForm
  <1>2. PICK e \in Nat : /\ e >= next /\ e <= next + 1 /\ (at # "workers" => e = next)
                         /\ Sends(inflight \ {r}, new, e, queue)
    BY <1>a
  <1> DEFINE pool == inflight \ {r}
  <1>3. PICK n \in Nat : n = next /\ n >= 1
    BY DEF TypeOK
  <1>4. pool \in SUBSET inflight /\ inflight \ pool = {r} /\ IsFiniteSet(pool) /\ Cardinality(pool) = Cardinality(inflight) - 1
    BY <1>1, OneLess
  <1>5. Sends(pool, new, e, queue)
    BY <1>2
  <1>6. RequestsOK' /\ inflight' \subseteq Request /\ stray' \subseteq Request /\ pool \intersect new = {}
    <2>1. Cancellable(queue, pool \union stray')
      OBVIOUS
    <2>2. stray' \subseteq stray \union (inflight \ pool) /\ scenario' = scenario
      BY <1>1
    <2>3. TypeOK /\ RequestsOK /\ e >= next
      BY <1>2
    <2> HIDE DEF pool, Inv
    <2> QED
      BY <1>4, <1>5, <2>1, <2>2, <2>3, Adding
  <1>7. at # "workers" => new = {}
    <2>1. e = n => n .. e - 1 = {}
      BY <1>3
    <2>2. \A q \in new : q.n \in n .. e - 1
      BY <1>3, <1>5 DEF Sends, Added
    <2> QED
      BY <1>2, <1>3, <2>1, <2>2
  <1>8. PICK f \in Nat, k \in Nat, d \in Nat : f = first /\ k = counted /\ d = dropped /\ f >= 1 /\ f <= n
    BY <1>3 DEF TypeOK
  <1>9. PICK c \in Nat : c = counted'
    BY <1>1, <1>8
  <1>10. TallyOK' /\ first' \in 1 .. next' /\ counted' \in 0 .. next' - first' /\ dropped' \in 0 .. next' - first'
    <2>1. CASE InPhase
      <3>1. InPhase' /\ first' = f
        BY <1>1, <1>8, <2>1 DEF InPhase
      <3>2. PICK o \in Nat : o = Cardinality(Outstanding(inflight, f))
        BY OutstandingCounts
      <3>3. k + d + o = n - f
        BY <1>3, <1>8, <2>1, <3>2 DEF TallyOK
      <3>4. Cardinality(Outstanding(pool, f)) = IF r.n >= f THEN o - 1 ELSE o
        BY <1>1, <3>2, OneLess
      <3>5. c + d + Cardinality(Outstanding(pool, f)) = n - f
        <4>1. CASE r.n >= f
          <5>1. c = k + 1
            BY <1>1, <1>8, <1>9, <2>1, <4>1
          <5>2. Cardinality(Outstanding(pool, f)) = o - 1
            BY <3>4, <4>1
          <5> QED
            BY <3>3, <5>1, <5>2
        <4>2. CASE ~(r.n >= f)
          <5>1. c = k
            BY <1>1, <1>8, <1>9, <4>2
          <5>2. Cardinality(Outstanding(pool, f)) = o
            BY <3>4, <4>2
          <5> QED
            BY <3>3, <5>1, <5>2
        <4> QED
          BY <4>1, <4>2
      <3>6. c + dropped + Cardinality(Outstanding(pool, f)) = next - f
        BY <1>3, <1>8, <3>5
      <3> HIDE DEF pool
      <3>7. f <= next
        BY <1>3, <1>8
      <3> QED
        BY <1>1, <1>2, <1>4, <1>5, <1>6, <1>8, <1>9, <3>1, <3>6, <3>7, TallySends
    <2>2. CASE ~InPhase
      <3>1. ~InPhase' /\ at # "workers"
        BY <1>1, <2>2 DEF InPhase
      <3>2. next' = next /\ first' = first /\ counted' = counted /\ model' = model
        BY <1>1, <1>2, <2>2, <3>1 DEF Sends
      <3>3. dropped' = dropped
        <4>1. Cardinality(new) = 0
          BY <1>7, <3>1, FS_EmptySet
        <4>2. PICK x \in Nat : x = dropped'
          BY <1>2 DEF Sends
        <4>3. 0 + x = n - n + d
          BY <1>2, <1>3, <1>8, <3>1, <4>1, <4>2 DEF Sends
        <4>4. x = d
          BY <4>3
        <4> QED
          BY <1>8, <4>2, <4>4
      <3>4. inflight' = pool
        BY <1>5, <1>7, <3>1 DEF Sends
      <3>5. first' \in 1 .. next' /\ counted' \in 0 .. next' - first' /\ dropped' \in 0 .. next' - first'
        BY <3>2, <3>3 DEF TypeOK
      <3>6. counted' + dropped' <= next' - first' /\ (model' = "closed" => dropped' = 0)
        BY <2>2, <3>2, <3>3 DEF TallyOK
      <3> QED
        BY <1>4, <3>1, <3>4, <3>5, <3>6 DEF TallyOK
    <2> QED
      BY <2>1, <2>2
  <1>11. PICK b \in Nat : b = Cardinality(pool)
    BY <1>4, FS_CardinalityType
  <1>12. RoomOK'
    <2>1. model = "closed" => b + (e - n) <= Concurrency
      <3> SUFFICES ASSUME model = "closed" PROVE b + (e - n) <= Concurrency
        OBVIOUS
      <3>1. PICK h \in Nat : h = Cardinality(inflight) /\ b = h - 1
        <4>1. Cardinality(inflight) \in Nat
          BY FS_CardinalityType DEF TallyOK
        <4> QED
          BY <1>4, <1>11, <4>1
      <3>2. PICK m \in Nat : m = Concurrency
        BY Limits
      <3>3. h <= m
        BY <3>1, <3>2 DEF RoomOK, InflightBounded
      <3>4. e <= n + 1
        BY <1>2, <1>3
      <3> QED
        BY <3>1, <3>2, <3>3, <3>4
    <2>2. model = "closed" => Cardinality(pool) + (e - next) <= Concurrency
      BY <1>3, <1>11, <2>1
    <2>3. at' \in {"between", "creating", "cleanup", "done"} => at' = at /\ e = next
      BY <1>1, <1>2
    <2>4. at' = "grace" => aborted
      BY <1>1 DEF RoomOK
    <2> HIDE DEF pool
    <2> QED
      BY <1>1, <1>2, <1>4, <1>5, <1>6, <2>2, <2>3, <2>4, RoomSends
  <1>13. next' = e /\ open' \in Seq(Nat) /\ inflight' = pool \union new
    BY <1>5 DEF Sends
  <1>14. 1 .. n - 1 \subseteq 1 .. e - 1 /\ 1 .. n - 1 \subseteq 1 .. e /\ 1 .. n \subseteq 1 .. e /\ 0 .. n - 1 \subseteq 0 .. e - 1
    BY <1>2, <1>3
  <1>15. TypeOK'
    <2>1. live' \subseteq 1 .. next'
      BY <1>1, <1>3, <1>13, <1>14 DEF TypeOK
    <2>2. unknown' \subseteq 1 .. next' /\ uncancelled' \subseteq Nat
      BY <1>3, <1>13, <1>14
    <2> QED
      BY <1>1, <1>6, <1>10, <1>13, <2>1, <2>2 DEF TypeOK
  <1>16. Ranges'
    BY <1>1, <1>3, <1>13, <1>14 DEF Ranges
  <1>17. PlanOK' /\ EndOK'
    BY <1>1 DEF PlanOK, EndOK, InPhase
  <1>18. ScheduleOK'
    <2>1. CASE at = "workers"
      BY <1>1, <2>1 DEF ScheduleOK
    <2>2. CASE at # "workers"
      <3>1. next' = next
        BY <1>2, <1>13, <2>2
      <3> QED
        BY <1>1, <3>1, ScheduleStays
    <2> QED
      BY <2>1, <2>2
  <1>19. \A q \in new : q.kind # "read" => ~q.served
    BY <1>5 DEF Sends, Added, Fresh
  <1> QED
    BY <1>1, <1>6, <1>7, <1>10, <1>12, <1>13, <1>15, <1>16, <1>17, <1>18, <1>19

\* The queue of promotions stays fit to be cancelled when a request ends.
LEMMA QueueStays ==
  ASSUME RequestsOK, NEW others \in SUBSET Requests
  PROVE  Cancellable(open, others)
  BY DEF RequestsOK, Settled, Cancellable

\* Answer: the promotion that a create made goes to the end of the queue.
LEMMA AnswerInv ==
  ASSUME Inv, NEW r, Answer(r)
  PROVE  Inv'
  <1> USE DEF Inv
  <1> DEFINE queue == IF r.kind = "create" THEN Append(open, r.promo) ELSE open
  <1>1. /\ r.served /\ Ends(r, queue, FALSE) /\ stray' = stray /\ unknown' = unknown
        /\ uncancelled' = CASE r.kind = "create" -> uncancelled \union {r.promo}
                            [] r.kind = "cancel" -> uncancelled \ {r.promo}
                            [] OTHER -> uncancelled
    BY DEF Answer
  <1>2. r \in inflight /\ r \in Requests
    BY <1>1 DEF Ends, Requests
  <1>3. PICK n \in Nat : n = next /\ n >= 1
    BY DEF TypeOK
  <1>4. r.n \in 1 .. n - 1 /\ (r.kind = "create" => r.promo = r.n) /\ r.promo \in Nat /\ open \in Seq(Nat)
    BY <1>2, <1>3 DEF RequestsOK, TypeOK, Request
  <1> DEFINE others == (inflight \ {r}) \union stray'
  <1>5. others \subseteq Requests /\ r \notin others
    BY <1>1, <1>2 DEF Requests, RequestsOK
  <1>6. \A q \in others : q.n # r.n
    BY <1>2, <1>5 DEF RequestsOK
  <1>7. Cancellable(open, others)
    BY <1>5, QueueStays
  <1>8. queue \in Seq(Nat) /\ Cancellable(queue, others)
    <2>1. CASE r.kind = "create"
      <3>1. PICK l \in Nat : l = Len(open) /\ DOMAIN open = 1 .. l
        BY <1>4
      <3>2. /\ queue = Append(open, r.promo) /\ queue \in Seq(Nat) /\ DOMAIN queue = 1 .. l + 1
            /\ \A i \in 1 .. l : queue[i] = open[i]
            /\ queue[l + 1] = r.promo
        BY <1>4, <2>1, <3>1
      <3>3. \A i \in 1 .. l + 1 : i \in 1 .. l \/ i = l + 1
        OBVIOUS
      <3> HIDE DEF others, queue
      <3>4. ASSUME NEW i \in DOMAIN queue PROVE queue[i] \in 1 .. next - 1 /\ \A q \in others : q.n # queue[i]
        <4>1. CASE i \in 1 .. l
          BY <1>7, <3>1, <3>2, <4>1 DEF Cancellable
        <4>2. CASE i = l + 1
          BY <1>3, <1>4, <1>6, <2>1, <3>2, <4>2
        <4> QED
          BY <3>2, <3>3, <4>1, <4>2
      <3> QED
        BY <3>2, <3>4 DEF Cancellable
    <2>2. CASE r.kind # "create"
      BY <1>4, <1>7, <2>2
    <2> QED
      BY <2>1, <2>2
  <1>9. uncancelled' \subseteq 1 .. next - 1 /\ unknown' \subseteq 1 .. next - 1
    <2>1. uncancelled' \subseteq uncancelled \union (IF r.kind = "create" THEN {r.promo} ELSE {})
      BY <1>1
    <2> QED
      BY <1>1, <1>3, <1>4, <2>1 DEF Ranges
  <1>10. stray' \subseteq stray \union {r}
    BY <1>1
  <1> HIDE DEF queue
  <1>11. /\ TypeOK' /\ RequestsOK' /\ Ranges' /\ TallyOK' /\ RoomOK' /\ PlanOK' /\ ScheduleOK' /\ EndOK'
         /\ inflight \ {r} \subseteq inflight' /\ at' = at /\ live' = live /\ doomed' = doomed /\ sale' = sale
         /\ \A q \in inflight' : q \in inflight \ {r} \/ (q.kind # "read" => ~q.served)
         /\ at # "workers" => inflight' \subseteq inflight
    BY <1>1, <1>8, <1>9, <1>10, EndsInv
  <1>12. Known'
    <2>1. ASSUME NEW p \in live, at \notin {"cleanup", "done"}
          PROVE  p \in uncancelled' \union unknown' \/ p = sale' \/ \E q \in inflight' : q.kind = "create" /\ q.served /\ q.promo = p
      <3>1. CASE p \in uncancelled
        <4>1. r.kind = "cancel" => r.promo \notin live
          BY <1>1, <1>2 DEF Known
        <4> QED
          BY <1>1, <3>1, <4>1
      <3>2. CASE p \in unknown \/ p = sale
        BY <1>1, <1>11, <3>2
      <3>3. CASE \E q \in inflight : q.kind = "create" /\ q.served /\ q.promo = p
        <4>1. PICK q \in inflight : q.kind = "create" /\ q.served /\ q.promo = p
          BY <3>3
        <4>2. CASE q = r
          BY <1>1, <4>1, <4>2
        <4>3. CASE q # r
          BY <1>11, <4>1, <4>3
        <4> QED
          BY <4>2, <4>3
      <3> QED
        BY <2>1, <3>1, <3>2, <3>3 DEF Known
    <2>2. \A q \in inflight' : q.kind = "cancel" /\ q.served => q.promo \notin live'
      BY <1>11 DEF Known
    <2>3. \A q \in stray' : q.kind = "create" => q.promo \in unknown'
      BY <1>1 DEF Known
    <2>4. at' \in {"cleanup", "done"} => live' \subseteq doomed' \union unknown' /\ \A q \in inflight' : q.kind = "create" => q.promo \in unknown'
      BY <1>1, <1>11 DEF Known
    <2>5. at' = "done" => doomed' = {}
      BY <1>11 DEF Known
    <2> QED
      BY <1>11, <2>1, <2>2, <2>3, <2>4, <2>5 DEF Known
  <1> QED
    BY <1>11, <1>12

\* Refuse: nothing was done.
LEMMA RefuseInv ==
  ASSUME Inv, NEW r, Refuse(r)
  PROVE  Inv'
  <1> USE DEF Inv
  <1>1. ~r.served /\ Ends(r, open, FALSE) /\ UNCHANGED <<uncancelled, stray, unknown>>
    BY DEF Refuse
  <1>2. r \in inflight /\ open \in Seq(Nat) /\ stray' \subseteq stray \union {r}
    BY <1>1 DEF Ends, TypeOK
  <1>3. Cancellable(open, (inflight \ {r}) \union stray')
    <2>1. (inflight \ {r}) \union stray' \subseteq Requests
      BY <1>1 DEF Requests
    <2> QED
      BY <2>1, QueueStays
  <1>4. uncancelled' \subseteq 1 .. next - 1 /\ unknown' \subseteq 1 .. next - 1
    BY <1>1 DEF Ranges
  <1>5. /\ TypeOK' /\ RequestsOK' /\ Ranges' /\ TallyOK' /\ RoomOK' /\ PlanOK' /\ ScheduleOK' /\ EndOK'
        /\ inflight \ {r} \subseteq inflight' /\ at' = at /\ live' = live /\ doomed' = doomed /\ sale' = sale
        /\ \A q \in inflight' : q \in inflight \ {r} \/ (q.kind # "read" => ~q.served)
        /\ at # "workers" => inflight' \subseteq inflight
    BY <1>1, <1>2, <1>3, <1>4, EndsInv
  <1>6. Known'
    BY <1>1, <1>5 DEF Known
  <1> QED
    BY <1>5, <1>6

\* Fail: the client gives up; what it does not know, it notes.
LEMMA FailInv ==
  ASSUME Inv, NEW r, Fail(r)
  PROVE  Inv'
  <1> USE DEF Inv
  <1>1. /\ Ends(r, open, TRUE) /\ uncancelled' = uncancelled
        /\ stray' = IF r.served THEN stray ELSE stray \union {r}
        /\ unknown' = IF r.kind = "create" THEN unknown \union {r.promo} ELSE unknown
    BY DEF Fail
  <1>2. r \in inflight /\ r \in Requests /\ open \in Seq(Nat) /\ stray' \subseteq stray \union {r}
    BY <1>1 DEF Ends, TypeOK, Requests
  <1>3. Cancellable(open, (inflight \ {r}) \union stray')
    <2>1. (inflight \ {r}) \union stray' \subseteq Requests
      BY <1>2 DEF Requests
    <2> QED
      BY <2>1, QueueStays
  <1>4. uncancelled' \subseteq 1 .. next - 1 /\ unknown' \subseteq 1 .. next - 1
    <2>1. r.kind = "create" => r.promo \in 1 .. next - 1
      BY <1>2 DEF RequestsOK
    <2> QED
      BY <1>1, <2>1 DEF Ranges
  <1>5. /\ TypeOK' /\ RequestsOK' /\ Ranges' /\ TallyOK' /\ RoomOK' /\ PlanOK' /\ ScheduleOK' /\ EndOK'
        /\ inflight \ {r} \subseteq inflight' /\ at' = at /\ live' = live /\ doomed' = doomed /\ sale' = sale
        /\ \A q \in inflight' : q \in inflight \ {r} \/ (q.kind # "read" => ~q.served)
        /\ at # "workers" => inflight' \subseteq inflight
    BY <1>1, <1>2, <1>3, <1>4, EndsInv
  <1>6. Known'
    BY <1>1, <1>5 DEF Known
  <1> QED
    BY <1>5, <1>6

\* Serve, of a request that the client waits for.
LEMMA ServedCounts ==
  ASSUME TypeOK, RequestsOK, TallyOK, NEW r \in inflight, NEW s, s.n = r.n, NEW from,
         inflight' = (inflight \ {r}) \union {s}, r # s
  PROVE  /\ IsFiniteSet(inflight') /\ Cardinality(inflight') = Cardinality(inflight)
         /\ Cardinality(Outstanding(inflight', from)) = Cardinality(Outstanding(inflight, from))
  <1>1. s \notin inflight
    BY DEF RequestsOK, Requests
  <1>2. PICK k \in Nat : k = Cardinality(inflight)
    BY OutstandingCounts
  <1>3. PICK o \in Nat : o = Cardinality(Outstanding(inflight, from))
    BY OutstandingCounts
  <1>4. IsFiniteSet(inflight \ {r}) /\ Cardinality(inflight \ {r}) = k - 1
    BY <1>2, OneLess
  <1>5. IsFiniteSet(inflight') /\ Cardinality(inflight') = k
    <2>1. s \notin inflight \ {r}
      BY <1>1
    <2>2. IsFiniteSet(inflight') /\ Cardinality(inflight') = (k - 1) + 1
      BY <1>4, <2>1, FS_AddElement
    <2> QED
      BY <1>2, <2>2
  <1>6. Cardinality(Outstanding(inflight', from)) = o
    <2>1. CASE r.n >= from
      <3>1. Cardinality(Outstanding(inflight \ {r}, from)) = o - 1
        BY <1>3, <2>1, OneLess
      <3>2. Outstanding(inflight', from) = Outstanding(inflight \ {r}, from) \union {s} /\ s \notin Outstanding(inflight \ {r}, from)
        BY <1>1, <2>1 DEF Outstanding
      <3>3. IsFiniteSet(Outstanding(inflight \ {r}, from))
        <4>1. Outstanding(inflight \ {r}, from) \subseteq inflight \ {r}
          BY DEF Outstanding
        <4> QED
          BY <1>4, <4>1, FS_Subset
      <3>4. PICK T : T = Outstanding(inflight \ {r}, from)
        OBVIOUS
      <3>5. Cardinality(T \union {s}) = Cardinality(T) + 1
        BY <3>2, <3>3, <3>4, FS_AddElement
      <3>6. Cardinality(Outstanding(inflight', from)) = (o - 1) + 1
        BY <3>1, <3>2, <3>4, <3>5
      <3> QED
        BY <3>6
    <2>2. CASE ~(r.n >= from)
      <3>1. Outstanding(inflight', from) = Outstanding(inflight, from)
        BY <2>2 DEF Outstanding
      <3> QED
        BY <1>3, <3>1
    <2> QED
      BY <2>1, <2>2
  <1> QED
    BY <1>2, <1>3, <1>5, <1>6

LEMMA ServeInv ==
  ASSUME Inv, NEW r \in inflight \union stray, Serve(r)
  PROVE  Inv'
  <1> USE DEF Inv, phaseVars, promoVars, resultVars
  <1> DEFINE s == [r EXCEPT !.served = TRUE]
  <1>1. /\ ~r.served
        /\ live' = IF r.kind = "create" THEN live \union {r.promo} ELSE live \ {r.promo}
        /\ inflight' = IF r \in inflight THEN (inflight \ {r}) \union {s} ELSE inflight
        /\ stray' = stray \ {r}
        /\ UNCHANGED <<scenario, model, phaseVars, next, promoVars, aborted, unknown, resultVars>>
    BY DEF Serve
  <1>2. r \in Requests /\ r \in Request
    BY DEF Requests, TypeOK
  <1>3. s \in Request /\ s.n = r.n /\ s.kind = r.kind /\ s.promo = r.promo /\ s.served = TRUE /\ s # r
    BY <1>1, <1>2 DEF Request
  <1> HIDE DEF s
  <1>4. r.n \in 1 .. next - 1 /\ (r.kind = "create" => r.promo = r.n) /\ (r.kind = "cancel" => Settled(r.promo))
    BY <1>2 DEF RequestsOK
  <1>5. Requests' \subseteq (Requests \ {r}) \union {s}
    BY <1>1 DEF Requests, RequestsOK
  <1>6. RequestsOK'
    <2>1. ASSUME NEW p, Settled(p) PROVE Settled(p)'
      BY <1>1, <1>2, <1>3, <1>5, <2>1 DEF Settled
    <2>2. \A q \in Requests' : \E o \in Requests : o.n = q.n /\ o.kind = q.kind /\ o.promo = q.promo /\ (q = s => o = r) /\ (q # s => o = q)
      BY <1>2, <1>3, <1>5
    <2>3. \A q \in Requests' : /\ q.n \in 1 .. next - 1
                               /\ q.kind = "create" => q.promo = q.n
                               /\ q.kind = "cancel" => Settled(q.promo)'
                               /\ scenario = "flash-sale" => q.kind = "read"
      BY <2>1, <2>2 DEF RequestsOK
    <2>4. \A q, o \in Requests' : q.n = o.n => q = o
      <3> SUFFICES ASSUME NEW q \in Requests', NEW o \in Requests', q.n = o.n PROVE q = o
        OBVIOUS
      <3>1. CASE q \in Requests \ {r} /\ o \in Requests \ {r}
        BY <3>1 DEF RequestsOK
      <3>2. CASE q = s /\ o \in Requests \ {r}
        BY <1>2, <1>3, <3>2 DEF RequestsOK
      <3>3. CASE o = s /\ q \in Requests \ {r}
        BY <1>2, <1>3, <3>3 DEF RequestsOK
      <3> QED
        BY <1>5, <3>1, <3>2, <3>3
    <2>5. inflight' \intersect stray' = {}
      <3>1. s \notin stray' \/ r \notin inflight
        BY <1>1, <1>3 DEF RequestsOK, Requests
      <3> QED
        BY <1>1, <3>1 DEF RequestsOK
    <2>6. \A i \in DOMAIN open' : Settled(open[i])'
      BY <1>1, <2>1 DEF RequestsOK
    <2> QED
      BY <1>1, <2>3, <2>4, <2>5, <2>6 DEF RequestsOK
  <1>7. r.kind = "create" => r.promo \in 1 .. next - 1 /\ r.promo \in 1 .. next
    BY <1>4 DEF TypeOK
  <1>8. TypeOK'
    <2>1. inflight' \subseteq Request /\ stray' \subseteq Request /\ live' \subseteq 1 .. next
      BY <1>1, <1>3, <1>7 DEF TypeOK
    <2> QED
      BY <1>1, <2>1 DEF TypeOK
  <1>9. Ranges'
    BY <1>1, <1>7 DEF Ranges
  <1>10. /\ IsFiniteSet(inflight') /\ Cardinality(inflight') = Cardinality(inflight)
         /\ Cardinality(Outstanding(inflight', first)) = Cardinality(Outstanding(inflight, first))
    <2>1. CASE r \in inflight
      <3>1. inflight' = (inflight \ {r}) \union {s}
        BY <1>1, <2>1
      <3> QED
        BY <1>3, <2>1, <3>1, ServedCounts
    <2>2. CASE r \notin inflight
      BY <1>1, <2>2 DEF TallyOK
    <2> QED
      BY <2>1, <2>2
  <1>11. TallyOK'
    BY <1>1, <1>10 DEF TallyOK, InPhase
  <1>12. RoomOK'
    <2>1. inflight' # {} => inflight # {}
      BY <1>1
    <2> QED
      BY <1>1, <1>10, <2>1 DEF RoomOK, InflightBounded
  <1>13. PlanOK' /\ EndOK'
    BY <1>1 DEF PlanOK, EndOK, InPhase
  <1>14. ScheduleOK'
    BY <1>1, ScheduleStays
  <1>15. Known'
    <2>1. \A q \in stray' : q.kind = "create" => q.promo \in unknown'
      BY <1>1 DEF Known
    <2>2. \A q \in inflight' : q.kind = "cancel" /\ q.served => q.promo \notin live'
      <3> SUFFICES ASSUME NEW q \in inflight', q.kind = "cancel", q.served PROVE q.promo \notin live'
        OBVIOUS
      <3>1. CASE q = s
        BY <1>1, <1>3, <3>1
      <3>2. CASE q # s
        <4>1. q \in inflight /\ q \in Requests
          BY <1>1, <3>2 DEF Requests
        <4>2. q.promo \notin live /\ Settled(q.promo)
          BY <4>1 DEF Known, RequestsOK
        <4>3. r.kind = "create" => r.promo # q.promo
          BY <1>2, <1>4, <4>2 DEF Settled
        <4> QED
          BY <1>1, <4>2, <4>3
      <3> QED
        BY <3>1, <3>2
    <2>3. ASSUME NEW p \in live', at \notin {"cleanup", "done"}
          PROVE  p \in uncancelled \union unknown \/ p = sale \/ \E q \in inflight' : q.kind = "create" /\ q.served /\ q.promo = p
      <3>1. CASE p \in live
        <4>1. ASSUME NEW q \in inflight, q.served PROVE q \in inflight'
          BY <1>1, <4>1
        <4> QED
          BY <2>3, <3>1, <4>1 DEF Known
      <3>2. CASE p \notin live
        <4>1. r.kind = "create" /\ p = r.promo
          BY <1>1, <3>2
        <4>2. CASE r \in inflight
          BY <1>1, <1>3, <4>1, <4>2
        <4>3. CASE r \in stray
          BY <4>1, <4>3 DEF Known
        <4> QED
          BY <4>2, <4>3
      <3> QED
        BY <3>1, <3>2
    <2>4. at \in {"cleanup", "done"} =>
             live' \subseteq doomed \union unknown /\ \A q \in inflight' : q.kind = "create" => q.promo \in unknown
      <3> SUFFICES ASSUME at \in {"cleanup", "done"}
                   PROVE  live' \subseteq doomed \union unknown /\ \A q \in inflight' : q.kind = "create" => q.promo \in unknown
        OBVIOUS
      <3>1. r.kind = "create" => r.promo \in unknown
        BY DEF Known
      <3>2. live \subseteq doomed \union unknown /\ \A q \in inflight : q.kind = "create" => q.promo \in unknown
        BY DEF Known
      <3> QED
        BY <1>1, <1>3, <3>1, <3>2
    <2>5. at = "done" => doomed = {}
      BY DEF Known
    <2> QED
      BY <1>1, <2>1, <2>2, <2>3, <2>4, <2>5 DEF Known
  <1> QED
    BY <1>6, <1>8, <1>9, <1>11, <1>12, <1>13, <1>14, <1>15

\* Nothing that is sent has been served before.
LEMMA KnownSends ==
  ASSUME Known, NEW e, NEW new, NEW queue, Sends(inflight, new, e, queue),
         UNCHANGED <<stray, uncancelled, doomed, sale, live, unknown>>,
         at \notin {"cleanup", "done"}, at' \notin {"cleanup", "done"}
  PROVE  Known'
  <1>1. inflight' = inflight \union new /\ \A q \in new : q.kind # "read" => ~q.served
    BY DEF Sends, Added, Fresh
  <1> QED
    BY <1>1 DEF Known

\* BeginClosed: a request for every worker.
LEMMA BeginClosedInv ==
  ASSUME Inv, NEW kinds, BeginClosed(kinds)
  PROVE  Inv'
  <1> USE DEF Inv, resultVars, NewMetrics
  <1>1. /\ at = "between" /\ at' = "workers" /\ model = "closed" /\ plan # <<>> /\ Head(plan) # "sale" /\ ~aborted
        /\ clock' = 0 /\ first' = next /\ counted' = 0
        /\ kinds \in [next .. next + Concurrency - 1 -> Kinds]
        /\ Issue(next .. next + Concurrency - 1, kinds, inflight, open)
        /\ UNCHANGED <<scenario, model, plan, stray, uncancelled, doomed, sale, live, aborted, unknown, resultVars>>
    BY DEF BeginClosed, Begins
  <1>2. PICK n \in Nat, w \in Nat : n = next /\ n >= 1 /\ w = Concurrency /\ w > 0
    BY Limits DEF TypeOK
  <1>3. PICK e \in Nat : e = n + w
    BY <1>2
  <1>4. e > next /\ e >= next /\ next .. next + Concurrency - 1 = next .. e - 1
    BY <1>2, <1>3
  <1>5. inflight = {} /\ IsFiniteSet({}) /\ Cardinality({}) = 0
    BY <1>1, FS_EmptySet DEF RoomOK, InflightBounded
  <1>6. open \in Seq(Nat) /\ dropped \in Nat /\ dropped = 0
    BY <1>1 DEF TypeOK, TallyOK
  <1>7. PICK new : Sends(inflight, new, e, open)
    <2>1. kinds \in [next .. e - 1 -> Kinds] /\ Issue(next .. e - 1, kinds, inflight, open) /\ next \in Nat
      BY <1>1, <1>2, <1>4
    <2> QED
      BY <1>4, <1>5, <1>6, <2>1, IssueStep
  <1>8. RequestsOK' /\ inflight' \subseteq Request /\ stray' \subseteq Request /\ inflight \intersect new = {}
    <2>1. Cancellable(open, inflight \union stray')
      BY <1>1, QueueStays DEF Requests
    <2>2. stray' \subseteq stray \union (inflight \ inflight) /\ scenario' = scenario
      BY <1>1
    <2>3. inflight \in SUBSET inflight
      OBVIOUS
    <2> QED
      BY <1>4, <1>6, <1>7, <2>1, <2>2, <2>3, Adding
  <1>9. TallyOK' /\ first' \in 1 .. next' /\ counted' \in 0 .. next' - first' /\ dropped' \in 0 .. next' - first'
    <2>1. Outstanding(inflight, n) = {}
      BY <1>5 DEF Outstanding
    <2>2. 0 + dropped + Cardinality(Outstanding(inflight, n)) = next - n
      <3>1. next - n = 0
        BY <1>2
      <3>2. Cardinality(Outstanding(inflight, n)) = 0
        BY <1>5, <2>1
      <3> QED
        BY <1>6, <3>1, <3>2
    <2>3. InPhase' /\ model' = model /\ first' = n /\ n >= 1 /\ n <= next /\ counted' = 0 /\ 0 \in Nat
      BY <1>1, <1>2 DEF InPhase
    <2> QED
      BY <1>4, <1>5, <1>7, <1>8, <2>2, <2>3, TallySends
  <1>10. RoomOK'
    <2>1. e - next = w /\ 0 + w <= w
      BY <1>2, <1>3
    <2>2. model = "closed" => Cardinality(inflight) + (e - next) <= Concurrency
      BY <1>2, <1>5, <2>1
    <2>3. inflight \in SUBSET inflight
      OBVIOUS
    <2>4. /\ UNCHANGED <<model, aborted>> /\ (at' = "grace" => aborted)
          /\ (at' \in {"between", "creating", "cleanup", "done"} => at' = at /\ e = next)
      BY <1>1
    <2> QED
      BY <1>4, <1>7, <1>8, <2>2, <2>3, <2>4, RoomSends
  <1>11. next' = e /\ open' \in Seq(Nat)
    BY <1>7 DEF Sends
  <1>12. 1 .. n - 1 \subseteq 1 .. e - 1 /\ 1 .. n \subseteq 1 .. e /\ 0 .. n - 1 \subseteq 0 .. e - 1
    BY <1>3
  <1>13. TypeOK'
    <2>1. live' \subseteq 1 .. next' /\ unknown' \subseteq 1 .. next'
      BY <1>1, <1>2, <1>11, <1>12 DEF TypeOK
    <2> QED
      BY <1>1, <1>8, <1>9, <1>11, <2>1 DEF TypeOK
  <1>14. Ranges'
    BY <1>1, <1>2, <1>11, <1>12 DEF Ranges
  <1>15. Known'
    BY <1>1, <1>7, KnownSends
  <1>16. PlanOK' /\ EndOK' /\ ScheduleOK'
    BY <1>1 DEF PlanOK, InPhase, EndOK, ScheduleOK
  <1> QED
    BY <1>8, <1>9, <1>10, <1>13, <1>14, <1>15, <1>16

\* Fire: everything that is due is sent or dropped, and was scheduled.
LEMMA FireInv ==
  ASSUME Inv, NEW kinds, Fire(kinds)
  PROVE  Inv'
  <1> USE DEF Inv, resultVars
  <1>1. /\ at = "schedule" /\ at' = at /\ Due # {} /\ kinds \in [Due -> Kinds] /\ Issue(Due, kinds, inflight, open)
        /\ UNCHANGED <<scenario, model, plan, clock, first, counted, stray, uncancelled, doomed, sale, live, aborted, unknown, resultVars>>
    BY DEF Fire
  <1>2. AtPhase /\ model = "open" /\ InPhase
    BY <1>1 DEF PlanOK, InPhase, AtPhase
  <1>3. PICK n \in Nat, f \in Nat, c \in Nat : n = next /\ n >= 1 /\ f = first /\ f >= 1 /\ f <= n /\ c = counted
    BY DEF TypeOK
  <1>4. PICK e \in Nat : e > next /\ Due = next .. e - 1
    BY <1>1, <1>2, DueInterval
  <1>5. e >= next /\ n < e
    BY <1>3, <1>4
  <1>6. open \in Seq(Nat) /\ dropped \in Nat /\ IsFiniteSet(inflight)
    BY DEF TypeOK, TallyOK
  <1>7. PICK new : Sends(inflight, new, e, open)
    <2>1. kinds \in [next .. e - 1 -> Kinds] /\ Issue(next .. e - 1, kinds, inflight, open) /\ next \in Nat
      BY <1>1, <1>3, <1>4
    <2> QED
      BY <1>4, <1>6, <2>1, IssueStep
  <1>8. RequestsOK' /\ inflight' \subseteq Request /\ stray' \subseteq Request /\ inflight \intersect new = {}
    <2>1. Cancellable(open, inflight \union stray')
      BY <1>1, QueueStays DEF Requests
    <2>2. stray' \subseteq stray \union (inflight \ inflight) /\ scenario' = scenario
      BY <1>1
    <2>3. inflight \in SUBSET inflight
      OBVIOUS
    <2> QED
      BY <1>5, <1>6, <1>7, <2>1, <2>2, <2>3, Adding
  <1>9. TallyOK' /\ first' \in 1 .. next' /\ counted' \in 0 .. next' - first' /\ dropped' \in 0 .. next' - first'
    <2>1. c + dropped + Cardinality(Outstanding(inflight, f)) = next - f
      BY <1>2, <1>3 DEF TallyOK
    <2>2. InPhase' /\ model' = model /\ first' = f /\ f >= 1 /\ f <= next /\ counted' = c
      BY <1>1, <1>3 DEF InPhase
    <2> QED
      BY <1>5, <1>6, <1>7, <1>8, <2>1, <2>2, TallySends
  <1>10. RoomOK'
    <2>1. inflight \in SUBSET inflight
      OBVIOUS
    <2>2. /\ UNCHANGED <<model, aborted>> /\ (at' = "grace" => aborted) /\ model # "closed"
          /\ (at' \in {"between", "creating", "cleanup", "done"} => at' = at /\ e = next)
      BY <1>1, <1>2
    <2> QED
      BY <1>5, <1>7, <1>8, <2>1, <2>2, RoomSends
  <1>11. next' = e /\ open' \in Seq(Nat)
    BY <1>7 DEF Sends
  <1>12. 1 .. n - 1 \subseteq 1 .. e - 1 /\ 1 .. n \subseteq 1 .. e /\ 0 .. n - 1 \subseteq 0 .. e - 1
    BY <1>5
  <1>13. TypeOK'
    <2>1. live' \subseteq 1 .. next' /\ unknown' \subseteq 1 .. next'
      BY <1>1, <1>3, <1>11, <1>12 DEF TypeOK
    <2> QED
      BY <1>1, <1>8, <1>9, <1>11, <2>1 DEF TypeOK
  <1>14. Ranges'
    BY <1>1, <1>3, <1>11, <1>12 DEF Ranges
  <1>15. Known'
    BY <1>1, <1>7, KnownSends
  <1>16. PlanOK' /\ EndOK'
    BY <1>1 DEF PlanOK, InPhase, EndOK
  <1>17. ScheduleOK'
    <2>1. f .. n - 1 \subseteq Scheduled
      BY <1>1, <1>2, <1>3 DEF ScheduleOK
    <2>2. n .. e - 1 \subseteq Scheduled
      BY <1>3, <1>4 DEF Due
    <2>3. f .. e - 1 \subseteq (f .. n - 1) \union (n .. e - 1)
      BY <1>3, <1>5
    <2>4. Scheduled' = Scheduled
      BY <1>1 DEF Scheduled, Offset
    <2>5. (first .. next - 1)' = f .. e - 1
      BY <1>1, <1>3, <1>11
    <2> QED
      BY <1>1, <2>1, <2>2, <2>3, <2>4, <2>5 DEF ScheduleOK
  <1> QED
    BY <1>8, <1>9, <1>10, <1>13, <1>14, <1>15, <1>16, <1>17

-----------------------------------------------------------------------------
(* The invariant and the theorems. *)

LEMMA InitInv == Init => Inv
  <1> SUFFICES ASSUME Init PROVE Inv
    OBVIOUS
  <1> USE DEF Init
  <1>1. /\ plan \in Seq(Phase \union {"sale"})
        /\ \A i, j \in DOMAIN plan : plan[i] = "sale" /\ plan[j] = "sale" => i = j
        /\ scenario = "write-mix" => \A i \in DOMAIN plan : plan[i] # "sale"
    <2>1. CASE scenario = "write-mix"
      <3>1. plan = <<"ramp", "warmup", "main">>
        BY <2>1 DEF Phases
      <3> QED
        BY <3>1 DEF Phase
    <2>2. CASE scenario # "write-mix"
      <3>1. plan = <<"ramp", "warmup", "before", "sale", "after">>
        BY <2>2 DEF Phases
      <3>2. plan \in Seq(Phase \union {"sale"})
        BY <3>1 DEF Phase
      <3>3. \A i \in DOMAIN plan : plan[i] = "sale" => i = 4
        BY <3>1
      <3> QED
        BY <2>2, <3>2, <3>3
    <2> QED
      BY <2>1, <2>2
  <1>2. IsFiniteSet(inflight) /\ Cardinality(inflight) = 0
    BY FS_EmptySet
  <1>3. TypeOK
    <2>1. first \in 1 .. next /\ counted \in 0 .. next - first /\ dropped \in 0 .. next - first /\ next \in Nat
      OBVIOUS
    <2>2. open \in Seq(Nat)
      OBVIOUS
    <2>3. inflight \subseteq Request /\ stray \subseteq Request /\ live \subseteq 1 .. next /\ unknown \subseteq 1 .. next
      OBVIOUS
    <2>4. clock \in Nat /\ sale \in Nat /\ pending \in 0 .. 2 /\ uncancelled \subseteq Nat /\ doomed \subseteq Nat
      OBVIOUS
    <2>5. aborted \in BOOLEAN /\ interrupted \in BOOLEAN /\ clean \in BOOLEAN /\ cut \in BOOLEAN
      OBVIOUS
    <2>6. scenario \in Scenarios /\ model \in Models
          /\ at \in {"between", "schedule", "rest", "workers", "drain", "grace", "creating", "cleanup", "done"}
          /\ verdict \in {"none", "ok", "failed", "interrupted", "threw"}
      OBVIOUS
    <2> HIDE DEF Init
    <2> QED
      BY <1>1, <2>1, <2>2, <2>3, <2>4, <2>5, <2>6 DEF TypeOK
  <1>4. RequestsOK /\ Ranges /\ Known
    BY DEF RequestsOK, Requests, Ranges, Known
  <1>5. TallyOK /\ ScheduleOK
    BY <1>2 DEF TallyOK, InPhase, ScheduleOK
  <1>6. RoomOK
    BY <1>2, Limits DEF RoomOK, InflightBounded
  <1>7. PlanOK /\ EndOK
    BY <1>1 DEF PlanOK, InPhase, EndOK
  <1> QED
    BY <1>3, <1>4, <1>5, <1>6, <1>7 DEF Inv

LEMMA StepInv == Inv /\ [Next]_vars => Inv'
  <1> SUFFICES ASSUME Inv, [Next]_vars PROVE Inv'
    OBVIOUS
  <1>1. CASE Skip \/ BeginOpen \/ ScheduleDone \/ RestOver \/ WorkersDone \/ Interrupted \/ PhaseEnds \/ Tick
    BY <1>1, SkipInv, BeginOpenInv, LeavesInv, PhaseEndsInv, TickInv
  <1>2. ASSUME NEW kinds \in [next .. next + Concurrency - 1 -> Kinds], BeginClosed(kinds) PROVE Inv'
    BY <1>2, BeginClosedInv
  <1>3. ASSUME NEW kinds \in [Due -> Kinds], Fire(kinds) PROVE Inv'
    BY <1>3, FireInv
  <1>4. CASE StartSale \/ SaleStarts \/ CheckEnds \/ SaleFails \/ EndSale \/ CleanUp \/ Report
    BY <1>4, StartSaleInv, SaleStartsInv, CheckEndsInv, SaleFailsInv, EndSaleInv, CleanUpInv, ReportInv
  <1>5. ASSUME NEW p \in doomed, CancelOne(p) PROVE Inv'
    BY <1>5, CancelOneInv
  <1>6. ASSUME NEW r \in inflight, Answer(r) \/ Refuse(r) \/ Fail(r) PROVE Inv'
    BY <1>6, AnswerInv, RefuseInv, FailInv
  <1>7. ASSUME NEW r \in inflight \union stray, Serve(r) PROVE Inv'
    BY <1>7, ServeInv
  <1>8. CASE Abort
    BY <1>8, AbortInv
  <1>9. CASE UNCHANGED vars
    <2> USE <1>9 DEF Inv, vars, phaseVars, promoVars, resultVars
    <2>1. NoLoad
      BY DEF NoLoad, TypeOK
    <2>2. RequestsOK' /\ ScheduleOK'
      BY <2>1, RequestsStay, ScheduleStays
    <2>3. TypeOK' /\ Ranges' /\ Known' /\ TallyOK'
      BY <2>1, TallyStays DEF TypeOK, Ranges, Known, InPhase
    <2>4. RoomOK' /\ PlanOK' /\ EndOK'
      BY DEF RoomOK, InflightBounded, PlanOK, InPhase, EndOK
    <2> QED
      BY <2>2, <2>3, <2>4
  <1> QED
    BY <1>1, <1>2, <1>3, <1>4, <1>5, <1>6, <1>7, <1>8, <1>9 DEF Next, ClientStep, AnswerStep

THEOREM Invariant == Spec => []Inv
  BY InitInv, StepInv, PTL DEF Spec

\* The variables keep their types; the numbers of a phase stay within the requests it issued.
THEOREM TypeCorrect == Spec => []TypeOK
  <1>1. Inv => TypeOK
    BY DEF Inv
  <1> QED
    BY <1>1, Invariant, PTL

\* NoneLeftBehind, for any number of requests, workers and lost answers: no promotion outlives
\* the run that made it, unless its creation or its end was not answered in time.
THEOREM NothingLeftBehind == Spec => []NoneLeftBehind
  <1>1. Inv => NoneLeftBehind
    BY DEF Inv, Known, NoneLeftBehind
  <1> QED
    BY <1>1, Invariant, PTL

\* InflightBounded, for any --max-inflight and any number of workers: the pool never takes more,
\* and only an interrupted run leaves a phase with requests unanswered.
THEOREM PoolIsBounded == Spec => []InflightBounded
  <1>1. Inv => InflightBounded
    BY DEF Inv, RoomOK
  <1> QED
    BY <1>1, Invariant, PTL

\* ExitZeroMeansFullRun, for any durations and whenever Ctrl-C comes: exit 0 means that every
\* recorded phase ran to its end and the sale's checks were made.
THEOREM ZeroMeansFullRun == Spec => []ExitZeroMeansFullRun
  <1>1. Inv => ExitZeroMeansFullRun
    <2> SUFFICES ASSUME Inv, verdict = "ok" PROVE ~cut /\ pending = 0
      BY DEF ExitZeroMeansFullRun
    <2>1. ~cut /\ ~(pending > 0)
      BY DEF Inv, EndOK
    <2>2. pending \in 0 .. 2
      BY DEF Inv, TypeOK
    <2> QED
      BY <2>1, <2>2
  <1> QED
    BY <1>1, Invariant, PTL

\* A phase leaves "drain" with every request answered.
LEMMA DrainEnds ==
  ASSUME Inv, [Next]_vars, at = "drain", at' # "drain"
  PROVE  inflight = {}
  <1>1. CASE PhaseEnds
    BY <1>1 DEF PhaseEnds, Drained
  <1>2. CASE Skip \/ BeginOpen \/ ScheduleDone \/ RestOver \/ WorkersDone \/ Interrupted \/ Tick
    BY <1>2 DEF Skip, BeginOpen, Begins, ScheduleDone, RestOver, WorkersDone, Interrupted, Tick
  <1>3. ASSUME NEW kinds \in [next .. next + Concurrency - 1 -> Kinds], BeginClosed(kinds) PROVE FALSE
    BY <1>3 DEF BeginClosed, Begins
  <1>4. ASSUME NEW kinds \in [Due -> Kinds], Fire(kinds) PROVE FALSE
    BY <1>4 DEF Fire
  <1>5. CASE StartSale \/ SaleStarts \/ CheckEnds \/ SaleFails \/ EndSale \/ CleanUp \/ Report
    BY <1>5 DEF StartSale, SaleStarts, CheckEnds, SaleFails, EndSale, CleanUp, Report, phaseVars
  <1>6. ASSUME NEW p \in doomed, CancelOne(p) PROVE FALSE
    BY <1>6 DEF CancelOne
  <1>7. ASSUME NEW r \in inflight, Answer(r) \/ Refuse(r) \/ Fail(r) PROVE FALSE
    BY <1>7 DEF Answer, Refuse, Fail, Ends
  <1>8. ASSUME NEW r \in inflight \union stray, Serve(r) PROVE FALSE
    BY <1>8 DEF Serve, phaseVars
  <1>9. CASE Abort \/ UNCHANGED vars
    BY <1>9 DEF Abort, vars, phaseVars
  <1> QED
    BY <1>1, <1>2, <1>3, <1>4, <1>5, <1>6, <1>7, <1>8, <1>9 DEF Next, ClientStep, AnswerStep

\* EveryDueRequestCounts, for any rate, ramp and stall: a phase that runs to its end recorded
\* each request of its schedule once, or dropped it.
THEOREM EveryRequestCounts == Spec => EveryDueRequestCounts
  <1> DEFINE Counted == counted + dropped = IF model = "open" THEN Cardinality(Scheduled) ELSE next - first
  <1>1. ASSUME Inv, [Next]_vars, at = "drain", at' # "drain" PROVE Counted
    <2>1. inflight = {}
      BY <1>1, DrainEnds
    <2>2. PICK n \in Nat, f \in Nat, c \in Nat, d \in Nat : n = next /\ f = first /\ c = counted /\ d = dropped /\ f <= n
      BY <1>1 DEF Inv, TypeOK
    <2>3. c + d = n - f
      <3>1. Outstanding(inflight, first) = {} /\ Cardinality({}) = 0
        BY <2>1, FS_EmptySet DEF Outstanding
      <3>2. c + d + 0 = n - f
        BY <1>1, <2>2, <3>1 DEF Inv, TallyOK, InPhase
      <3> QED
        BY <3>2
    <2>4. model = "open" => Cardinality(Scheduled) = n - f
      <3> SUFFICES ASSUME model = "open" PROVE Cardinality(Scheduled) = n - f
        OBVIOUS
      <3>1. AtPhase /\ first .. next - 1 \subseteq Scheduled /\ next \notin Scheduled /\ TypeOK
        BY <1>1 DEF Inv, PlanOK, ScheduleOK, InPhase, AtPhase
      <3>2. Scheduled = f .. n - 1
        BY <2>2, <3>1, ScheduleIssued
      <3> QED
        BY <2>2, <3>2, IntervalSize
    <2> QED
      BY <2>2, <2>3, <2>4
  <1>2. Inv /\ [Next]_vars => [at = "drain" /\ at' # "drain" => Counted]_vars
    BY <1>1
  <1> QED
    BY <1>2, Invariant, PTL DEF Spec, EveryDueRequestCounts
=============================================================================
