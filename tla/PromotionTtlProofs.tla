-------------------------- MODULE PromotionTtlProofs --------------------------
(***************************************************************************)
(* Proofs about PromotionTtl, for any products, categories, windows, time  *)
(* to live and length of a second: a cached price was right shortly        *)
(* before, an entry is dropped for a reason, and a "not found" is brief.   *)
(*                                                                         *)
(* The invariant is about an entry and about what the builder holds: while *)
(* no write has touched what they show since the version was read          *)
(* (Fresh), the price is the one of every instant up to the boundary       *)
(* (Holds). That the boundary is missed by less than a second is           *)
(* arithmetic of the time to live (TtlOf).                                 *)
(***************************************************************************)
EXTENDS PromotionTtl, FiniteSetTheorems, WellFoundedInduction, TLAPS

Cancelled == {i \in DOMAIN promo : promo[i].cancelled}

\* The types, and what is due: at most one bump for every promotion created, every one
\* cancelled, and the insert.
Typed ==
    /\ TypeOK
    /\ promo \in Seq(Promotion) /\ Len(promo) <= MaxPromos
    /\ unbumped <= Len(promo) + Cardinality(Cancelled) + (IF born \in 1 .. MaxClock THEN 1 ELSE 0)

\* No write that concerns the entry was committed since this version was read.
Fresh(v) == v = version /\ unbumped = 0

\* These prices are right at every one of these instants.
Holds(price, from, to) == \A t \in from .. to : PriceAt(t) = price

\* A promotion in scope starts or ends in this time.
Turns(from, to) ==
    \E i \in DOMAIN promo : InScope(promo[i].target) /\ {promo[i].starts, promo[i].ends} \intersect (from + 1 .. to) # {}

EntryOK(e) ==
    /\ e.asOf <= e.stored /\ e.stored <= clock /\ clock < e.expires
    /\ e.version <= version
    /\ ~e.found => e.asOf <= born /\ e.expires = e.stored + NotFoundTtl * Second
    /\ e.found =>
          /\ view = "slug" => e.price = NoPrice
          /\ view # "slug" /\ Fresh(e.version) => Holds(e.price, e.asOf, e.asOf + (e.expires - e.stored) - Second)
          /\ e.stored + Second <= e.expires
          /\ e.expires = e.stored + MaxTtl * Second \/ Turns(e.asOf, e.asOf + (e.expires - e.stored))

BuilderOK(b) ==
    /\ b.asOf <= clock /\ b.version <= version
    /\ b.at # "store" => b.found /\ b.boundary = Never
    /\ b.at \notin {"boundary", "store"} => b.price = NoPrice
    /\ b.at \in {"version", "page", "boundary"} => view # "slug"
    /\ b.at = "lookup" => Single
    /\ b.at = "boundary" /\ Fresh(b.version) => PriceAt(b.asOf) = b.price
    /\ ~b.found => b.asOf <= born
    /\ b.at = "store" /\ b.found =>
          /\ b.asOf < b.boundary
          /\ view = "slug" => b.boundary = Never /\ b.price = NoPrice
          /\ view # "slug" /\ Fresh(b.version) => Holds(b.price, b.asOf, b.boundary - 1)
          /\ b.boundary = Never \/ Turns(b.asOf, b.boundary)

Inv ==
    /\ Typed
    /\ entry # NoEntry => EntryOK(entry)
    /\ BuilderOK(builder)

-----------------------------------------------------------------------------
(* Numbers. *)

LEMMA Limits ==
    /\ Second \in Nat /\ Second > 0 /\ MaxTtl \in Nat /\ MaxTtl > 0 /\ NotFoundTtl \in Nat /\ MaxClock \in Nat /\ MaxPromos \in Nat
    /\ MaxTtl * Second \in Nat /\ MaxTtl * Second >= Second
    /\ NotFoundTtl * Second \in Nat /\ NotFoundTtl * Second >= Second /\ NotFoundTtl * Second <= MaxTtl * Second
    /\ Never \in Nat /\ Never = MaxClock + MaxTtl * Second + 1 /\ MaxClock + 1 <= Never
  <1>1. PICK s \in Nat : s = Second /\ s > 0
    BY LimitsAssumption
  <1>2. PICK m \in Nat : m = MaxTtl /\ m > 0
    BY LimitsAssumption
  <1>3. PICK n \in Nat : n = NotFoundTtl /\ n > 0 /\ n <= m
    BY <1>2, LimitsAssumption
  <1>4. PICK k \in Nat : n = k + 1
    <2>1. n - 1 \in Nat /\ n = (n - 1) + 1
      BY <1>3
    <2> QED
      BY <2>1
  <1>5. PICK j \in Nat : m = n + j
    <2>1. m - n \in Nat /\ m = n + (m - n)
      BY <1>2, <1>3
    <2> QED
      BY <2>1
  <1>6. n * s = k * s + s /\ m * s = n * s + j * s /\ k * s \in Nat /\ j * s \in Nat
    BY <1>4, <1>5
  <1>7. n * s \in Nat /\ m * s \in Nat /\ n * s >= s /\ m * s >= s /\ n * s <= m * s
    BY <1>6
  <1>8. MaxClock \in Nat /\ MaxPromos \in Nat
    BY LimitsAssumption
  <1>9. MaxClock + m * s + 1 \in Nat /\ MaxClock + 1 <= MaxClock + m * s + 1
    BY <1>7, <1>8
  <1> QED
    BY <1>1, <1>2, <1>3, <1>7, <1>8, <1>9 DEF Never

\* A set of natural numbers has a smallest element.
LEMMA MinOf ==
    ASSUME NEW S \in SUBSET Nat, S # {}
    PROVE  Min(S) \in S /\ \A y \in S : Min(S) <= y
  <1>1. IsWellFoundedOn({p \in Nat \X Nat : p[1] < p[2]}, Nat)
    BY NatLessThanWellFounded DEF OpToRel
  <1>2. PICK x \in S : \A y \in S : ~(<<y, x>> \in {p \in Nat \X Nat : p[1] < p[2]})
    BY <1>1, WFMin
  <1>3. \A y \in S : x <= y
    <2> TAKE y \in S
    <2>1. ~(<<y, x>> \in {p \in Nat \X Nat : p[1] < p[2]}) /\ x \in Nat /\ y \in Nat
      BY <1>2
    <2>2. ~(y < x)
      BY <2>1
    <2> QED
      BY <2>1, <2>2
  <1> QED
    BY <1>3 DEF Min

\* A bounded one has a largest.
LEMMA MaxOf ==
    ASSUME NEW n \in Nat, NEW S \in SUBSET (0 .. n), S # {}
    PROVE  Max(S) \in S /\ \A y \in S : Max(S) >= y
  <1> DEFINE T == {z \in Nat : n - z \in S}
  <1>1. \A y \in S : y \in Nat /\ n - y \in Nat /\ n - (n - y) = y
    OBVIOUS
  <1>2. T \in SUBSET Nat /\ \A y \in S : n - y \in T
    BY <1>1
  <1>3. PICK m \in T : \A z \in T : m <= z
    BY <1>2, MinOf
  <1>4. PICK x \in S : x = n - m
    BY <1>3
  <1>5. \A y \in S : m <= n - y
    BY <1>2, <1>3
  <1>6. \A y \in S : x >= y
    BY <1>1, <1>2, <1>4, <1>5
  <1> QED
    BY <1>6 DEF Max

\* Rounding up costs less than a second.
LEMMA SecondsOf ==
    ASSUME NEW x \in Nat, x > 0
    PROVE  /\ Seconds(x) \in Nat /\ Seconds(x) > 0 /\ Seconds(x) * Second \in Nat
           /\ x <= Seconds(x) * Second /\ Seconds(x) * Second <= x + Second - 1
  <1>1. PICK s \in Nat : s = Second /\ s > 0
    BY Limits
  <1>2. PICK y \in Nat : y = x + s - 1
    BY <1>1
  <1>3. PICK q \in Nat : q = y \div s /\ s * q <= y /\ y < s * q + s
    <2>1. y \div s \in Nat /\ s * (y \div s) <= y /\ y < s * (y \div s) + s
      BY <1>1
    <2> QED
      BY <2>1
  <1>4. q = Seconds(x)
    BY <1>1, <1>2, <1>3 DEF Seconds
  <1>5. s * q \in Nat /\ q * s = s * q
    OBVIOUS
  <1>6. q # 0
    <2> SUFFICES ASSUME q = 0 PROVE FALSE
      OBVIOUS
    <2>1. s * q = 0
      OBVIOUS
    <2> QED
      BY <1>1, <1>2, <1>3, <2>1
  <1>7. x <= s * q /\ s * q <= x + s - 1
    BY <1>1, <1>2, <1>3, <1>5
  <1> QED
    BY <1>1, <1>4, <1>5, <1>6, <1>7

\* The time to live ends with the boundary, or less than a second after it, or is the longest.
LEMMA TtlOf ==
    ASSUME NEW asOf \in Nat, NEW b \in Nat, asOf < b
    PROVE  /\ Ttl(asOf, b) \in Nat
           /\ Ttl(asOf, b) * Second \in Nat /\ Second <= Ttl(asOf, b) * Second
           /\ Ttl(asOf, b) * Second <= MaxTtl * Second /\ Ttl(asOf, b) * Second <= b - asOf + Second - 1
           /\ Ttl(asOf, b) = MaxTtl \/ b - asOf <= Ttl(asOf, b) * Second
  <1>1. PICK x \in Nat : x = b - asOf /\ x > 0
    BY DEF Ttl
  <1>2. PICK k \in Nat : k = Seconds(x)
    BY <1>1, SecondsOf
  <1>3. PICK s \in Nat : s = Second /\ s > 0 /\ k > 0 /\ k * s \in Nat /\ x <= k * s /\ k * s <= x + s - 1
    BY <1>1, <1>2, SecondsOf, Limits
  <1>4. PICK m \in Nat : m = MaxTtl /\ m > 0
    BY Limits
  <1>5. PICK n \in Nat : n = Min({m, k})
    BY MinOf
  <1>6. n \in {m, k} /\ n <= m /\ n <= k
    BY <1>5, MinOf
  <1>7. Max({1, n}) = n
    <2>1. n > 0
      BY <1>3, <1>4, <1>6
    <2>2. {1, n} \in SUBSET (0 .. n)
      BY <2>1
    <2>3. Max({1, n}) \in {1, n} /\ Max({1, n}) >= n
      BY <2>2, MaxOf
    <2> QED
      BY <2>1, <2>3
  <1>8. Ttl(asOf, b) = n
    BY <1>1, <1>2, <1>4, <1>5, <1>7 DEF Ttl
  <1>9. ASSUME NEW i \in Nat, NEW j \in Nat, i <= j PROVE i * s \in Nat /\ j * s \in Nat /\ i * s <= j * s
    <2>1. PICK z \in Nat : j = i + z
      <3>1. j - i \in Nat /\ j = i + (j - i)
        BY <1>9
      <3> QED
        BY <3>1
    <2>2. j * s = i * s + z * s /\ i * s \in Nat /\ z * s \in Nat
      BY <2>1
    <2> QED
      BY <2>2
  <1>10. n * s \in Nat /\ n * s <= m * s /\ n * s <= k * s /\ m * s \in Nat
    BY <1>6, <1>9
  <1>11. s <= n * s
    <2>1. 1 <= n
      BY <1>3, <1>4, <1>6
    <2>2. 1 * s <= n * s /\ 1 * s = s
      BY <1>9, <2>1
    <2> QED
      BY <2>2
  <1>12. n = m \/ x <= n * s
    BY <1>3, <1>6
  <1>13. n * s <= x + s - 1
    BY <1>3, <1>10
  <1> QED
    BY <1>1, <1>3, <1>4, <1>8, <1>10, <1>11, <1>12, <1>13

-----------------------------------------------------------------------------
(* Promotions and prices. *)

LEMMA Types ==
    ASSUME Typed
    PROVE  /\ view \in Views /\ clock \in Nat /\ clock <= MaxClock /\ born \in Nat /\ version \in Nat /\ unbumped \in Nat
           /\ promo \in Seq(Promotion) /\ Len(promo) \in Nat /\ Len(promo) <= MaxPromos /\ DOMAIN promo = 1 .. Len(promo)
           /\ \A i \in DOMAIN promo : /\ i \in Nat /\ promo[i] \in Promotion
                                      /\ promo[i].starts \in Nat /\ promo[i].starts <= MaxClock
                                      /\ promo[i].ends \in Nat /\ promo[i].ends <= MaxClock + 1
  <1>1. /\ view \in Views /\ clock \in Tick /\ born \in Tick \union {Never} /\ version \in Nat /\ unbumped \in 0 .. 2 * MaxPromos + 1
        /\ promo \in Seq(Promotion) /\ Len(promo) <= MaxPromos
    BY DEF Typed, TypeOK
  <1>2. Len(promo) \in Nat /\ DOMAIN promo = 1 .. Len(promo) /\ \A i \in DOMAIN promo : i \in Nat /\ promo[i] \in Promotion
    BY <1>1
  <1>3. \A p \in Promotion : p.starts \in Nat /\ p.starts <= MaxClock /\ p.ends \in Nat /\ p.ends <= MaxClock + 1
    BY Limits DEF Promotion, Tick
  <1> QED
    BY <1>1, <1>2, <1>3, Limits DEF Tick

LEMMA ShowsProducts ==
    /\ Shows(view) \subseteq Product /\ \A x \in Product : Home[x] \in Category
    /\ "slug" \notin Product /\ "slug" \notin Category /\ "all" \notin Product /\ "all" \notin Category
    /\ view = "slug" => Shows(view) = {}
  BY NamesAssumption DEF Shows

\* A slug's entry shows no price.
LEMMA SlugPrices ==
    ASSUME NEW t, view = "slug"
    PROVE  PriceAt(t) = NoPrice
  BY ShowsProducts DEF PriceAt, NoPrice

LEMMA PricesTyped ==
    ASSUME Typed, NEW t \in Int
    PROVE  PriceAt(t) \in Prices
  <1>1. ASSUME NEW x \in Shows(view) PROVE Max(Active(x, t) \union {0}) \in 0 .. MaxPromos
    <2>1. Active(x, t) \union {0} \in SUBSET (0 .. MaxPromos)
      BY Types, Limits DEF Active
    <2> QED
      BY <2>1, MaxOf, Limits
  <1>2. PriceAt(t) \in [Shows(view) -> 0 .. MaxPromos]
    BY <1>1 DEF PriceAt
  <1> QED
    BY <1>2, Types DEF Prices

\* Until the next boundary no promotion that the entry depends on starts or ends.
LEMMA PricesHold ==
    ASSUME Typed, view # "slug", NEW asOf \in Nat, asOf <= MaxClock
    PROVE  /\ NextBoundary(asOf) \in Nat /\ asOf < NextBoundary(asOf) /\ NextBoundary(asOf) <= Never
           /\ Holds(PriceAt(asOf), asOf, NextBoundary(asOf) - 1)
           /\ NextBoundary(asOf) = Never \/ Turns(asOf, NextBoundary(asOf))
  <1> DEFINE S == Boundaries(asOf) \union {Never}
             live == {i \in DOMAIN promo : ~promo[i].cancelled /\ InScope(promo[i].target)}
  <1>1. /\ \A i \in live : promo[i].starts > asOf => promo[i].starts \in S
        /\ \A i \in live : promo[i].starts <= asOf /\ promo[i].ends > asOf => promo[i].ends \in S
        /\ \A y \in S : y = Never \/ \E i \in live : y \in {promo[i].starts, promo[i].ends} /\ y > asOf
    BY DEF Boundaries, StartsLater, EndsLater
  <1> HIDE DEF S
  <1>2. ASSUME NEW y \in S PROVE y \in Nat /\ y > asOf /\ y <= Never
    <2>1. CASE y = Never
      BY <2>1, Limits
    <2>2. CASE y # Never
      <3>1. PICK i \in DOMAIN promo : y \in {promo[i].starts, promo[i].ends} /\ y > asOf
        BY <1>1, <2>2
      <3>2. MaxClock + 1 <= Never /\ Never \in Nat /\ MaxClock \in Nat
        BY Limits
      <3> QED
        BY <3>1, <3>2, Types
    <2> QED
      BY <2>1, <2>2
  <1>3. Never \in S
    BY DEF S
  <1>4. PICK b \in Nat : b = NextBoundary(asOf) /\ b \in S /\ \A y \in S : b <= y
    <2>1. Min(S) \in S /\ \A y \in S : Min(S) <= y
      BY <1>2, <1>3, MinOf
    <2> QED
      BY <1>2, <2>1 DEF NextBoundary, S
  <1>5. b > asOf /\ b <= Never
    BY <1>2, <1>4
  <1>6. ASSUME NEW t \in asOf .. b - 1, NEW x \in Shows(view) PROVE Active(x, t) = Active(x, asOf)
    <2> SUFFICES ASSUME NEW i \in DOMAIN promo, ~promo[i].cancelled, promo[i].target \in {x, Home[x]}
                 PROVE  promo[i].starts <= t /\ t < promo[i].ends <=> promo[i].starts <= asOf /\ asOf < promo[i].ends
      BY DEF Active
    <2>1. InScope(promo[i].target)
      BY Types, NamesAssumption DEF Shows, InScope
    <2>2. t \in Int /\ asOf <= t /\ t < b /\ promo[i].starts \in Nat /\ promo[i].ends \in Nat
      BY Types
    <2>3. /\ promo[i].starts > asOf => b <= promo[i].starts
          /\ promo[i].starts <= asOf /\ promo[i].ends > asOf => b <= promo[i].ends
      BY <1>1, <1>4, <2>1
    <2> QED
      BY <2>2, <2>3
  <1>7. Holds(PriceAt(asOf), asOf, b - 1)
    BY <1>6 DEF Holds, PriceAt
  <1>8. b = Never \/ Turns(asOf, b)
    <2> SUFFICES ASSUME b # Never PROVE Turns(asOf, b)
      OBVIOUS
    <2>1. PICK i \in live : b \in {promo[i].starts, promo[i].ends}
      BY <1>1, <1>4
    <2>2. b \in asOf + 1 .. b
      BY <1>5
    <2> QED
      BY <2>1, <2>2 DEF Turns
  <1> QED
    BY <1>4, <1>5, <1>7, <1>8

-----------------------------------------------------------------------------
(* Others' steps. *)

\* What any step does to the versions and the promotions.
Grows ==
    /\ view' = view /\ version' \in Nat /\ clock' \in Nat /\ version <= version' /\ clock <= clock' /\ born' \in {born, clock}
    /\ version' = version /\ unbumped' = 0 => unbumped = 0 /\ \A t \in Int : PriceAt(t)' = PriceAt(t)
    /\ DOMAIN promo \subseteq DOMAIN promo'
    /\ \A i \in DOMAIN promo : /\ promo'[i].starts = promo[i].starts /\ promo'[i].ends = promo[i].ends
                               /\ promo'[i].target = promo[i].target

LEMMA TurnsStay ==
    ASSUME Grows, NEW from, NEW to, Turns(from, to)
    PROVE  Turns(from, to)'
  <1>1. \A target : InScope(target)' = InScope(target)
    BY DEF Grows, InScope
  <1> QED
    BY <1>1 DEF Grows, Turns

LEMMA FreshStays ==
    ASSUME Typed, Grows, NEW v \in Nat, v <= version, Fresh(v)'
    PROVE  Fresh(v) /\ \A t \in Int : PriceAt(t)' = PriceAt(t)
  BY Types DEF Fresh, Grows

LEMMA HoldStays ==
    ASSUME Typed, Grows, NEW v \in Nat, v <= version, NEW price, NEW from \in Int, NEW to \in Int,
           Fresh(v) => Holds(price, from, to), Fresh(v)'
    PROVE  Holds(price, from, to)'
  <1>1. Fresh(v) /\ \A t \in Int : PriceAt(t)' = PriceAt(t)
    BY FreshStays
  <1> QED
    BY <1>1 DEF Holds

LEMMA EntryStays ==
    ASSUME Typed, Grows, NEW e \in Entry, EntryOK(e), clock' < e.expires
    PROVE  EntryOK(e)'
  <1>1. e.asOf \in Nat /\ e.stored \in Nat /\ e.expires \in Nat /\ e.version \in Nat
    BY Limits DEF Entry, Tick
  <1>2. /\ clock \in Nat /\ clock' \in Nat /\ clock <= clock' /\ version \in Nat /\ version' \in Nat /\ version <= version' /\ view' = view
        /\ born' \in {born, clock} /\ born \in Nat
    BY Types DEF Grows
  <1>3. PICK to \in Int : to = e.asOf + (e.expires - e.stored) - Second
    BY <1>1, Limits
  <1>4. view # "slug" /\ e.found /\ Fresh(e.version)' => Holds(e.price, e.asOf, to)'
    <2> SUFFICES ASSUME view # "slug", e.found, Fresh(e.version)' PROVE Holds(e.price, e.asOf, to)'
      OBVIOUS
    <2>1. Fresh(e.version) => Holds(e.price, e.asOf, to)
      BY <1>3 DEF EntryOK
    <2> QED
      BY <1>1, <2>1, HoldStays DEF EntryOK
  <1>5. PICK end : end = e.asOf + (e.expires - e.stored)
    OBVIOUS
  <1>6. Turns(e.asOf, end) => Turns(e.asOf, end)'
    BY TurnsStay
  <1> QED
    BY <1>1, <1>2, <1>3, <1>4, <1>5, <1>6 DEF EntryOK

LEMMA BuilderStays ==
    ASSUME Typed, Grows, NEW b \in BuilderState, BuilderOK(b)
    PROVE  BuilderOK(b)'
  <1>1. b.asOf \in Nat /\ b.version \in Nat /\ b.boundary \in Nat
    BY Limits DEF BuilderState, Tick
  <1>2. /\ clock \in Nat /\ clock' \in Nat /\ clock <= clock' /\ version \in Nat /\ version' \in Nat /\ version <= version' /\ view' = view
        /\ born' \in {born, clock} /\ born \in Nat /\ Single' = Single
    BY Types DEF Grows, Single
  <1>3. b.at = "boundary" /\ Fresh(b.version)' => PriceAt(b.asOf)' = b.price
    <2> SUFFICES ASSUME b.at = "boundary", Fresh(b.version)' PROVE PriceAt(b.asOf)' = b.price
      OBVIOUS
    <2>1. Fresh(b.version) /\ \A t \in Int : PriceAt(t)' = PriceAt(t)
      BY <1>1, FreshStays DEF BuilderOK
    <2> QED
      BY <1>1, <2>1 DEF BuilderOK
  <1>4. b.at = "store" /\ b.found /\ view # "slug" /\ Fresh(b.version)' => Holds(b.price, b.asOf, b.boundary - 1)'
    <2> SUFFICES ASSUME b.at = "store", b.found, view # "slug", Fresh(b.version)' PROVE Holds(b.price, b.asOf, b.boundary - 1)'
      OBVIOUS
    <2>1. Fresh(b.version) => Holds(b.price, b.asOf, b.boundary - 1)
      BY DEF BuilderOK
    <2>2. b.boundary - 1 \in Int /\ b.asOf \in Int /\ b.version <= version
      BY <1>1 DEF BuilderOK
    <2> QED
      BY <1>1, <2>1, <2>2, HoldStays
  <1>5. Turns(b.asOf, b.boundary) => Turns(b.asOf, b.boundary)'
    BY TurnsStay
  <1> QED
    BY <1>1, <1>2, <1>3, <1>4, <1>5 DEF BuilderOK

LEMMA StepInv ==
    ASSUME Inv, Grows, Typed', NEW r \in BuilderState, builder' = r, BuilderOK(r),
           NEW e \in Entry \union {NoEntry}, entry' = e, e # NoEntry => EntryOK(e) /\ clock' < e.expires
    PROVE  Inv'
  <1>1. Typed
    BY DEF Inv
  <1>2. BuilderOK(r)'
    BY <1>1, BuilderStays
  <1>3. e # NoEntry => EntryOK(e)'
    BY <1>1, EntryStays
  <1> QED
    BY <1>2, <1>3 DEF Inv

LEMMA OtherVars ==
    ASSUME Inv
    PROVE  /\ Typed /\ undeleted \in BOOLEAN /\ entry \in Entry \union {NoEntry} /\ builder \in BuilderState /\ BuilderOK(builder)
           /\ entry # NoEntry => entry \in Entry /\ EntryOK(entry) /\ clock < entry.expires
  BY DEF Inv, Typed, TypeOK, EntryOK

\* A step of the cache, which changes no table and no counter.
LEMMA CacheStep ==
    ASSUME Inv, UNCHANGED <<view, clock, born, promo, version, unbumped>>, undeleted' \in BOOLEAN,
           NEW r \in BuilderState, builder' = r, BuilderOK(r),
           NEW e \in Entry \union {NoEntry}, entry' = e, e # NoEntry => EntryOK(e)
    PROVE  Inv'
  <1>1. Grows
    <2>1. \A t : PriceAt(t)' = PriceAt(t)
      BY DEF PriceAt, Active, Shows
    <2> QED
      BY <2>1, Types, OtherVars DEF Grows
  <1>2. Typed'
    BY DEF Inv, Typed, TypeOK, Cancelled
  <1> QED
    BY <1>1, <1>2, StepInv DEF EntryOK

LEMMA AwayOK ==
    ASSUME Typed
    PROVE  Away \in BuilderState /\ BuilderOK(Away)
  <1>1. Away \in BuilderState
    BY Limits DEF Away, BuilderState, Tick, Prices
  <1>2. /\ Away.at = "away" /\ Away.asOf = 0 /\ Away.found = TRUE /\ Away.version = 0 /\ Away.price = NoPrice /\ Away.boundary = Never
    BY DEF Away
  <1> QED
    BY <1>1, <1>2, Types DEF BuilderOK

-----------------------------------------------------------------------------
(* The steps of the cache. *)

LEMMA MissStep ==
    ASSUME Inv, Miss
    PROVE  Inv'
  <1>1. PICK b \in BuilderState : b = builder /\ BuilderOK(b)
    BY OtherVars
  <1>2. PICK e \in Entry \union {NoEntry} : e = entry /\ (e # NoEntry => EntryOK(e))
    BY OtherVars
  <1> DEFINE r == [b EXCEPT !.at = "missed"]
  <1>3. b.at = "away" /\ builder' = r /\ UNCHANGED <<view, clock, born, undeleted, promo, version, unbumped, entry>>
    BY <1>1 DEF Miss
  <1>4. /\ r \in BuilderState /\ r.at = "missed" /\ r.asOf = b.asOf /\ r.found = b.found /\ r.version = b.version /\ r.price = b.price
        /\ r.boundary = b.boundary
    BY DEF BuilderState
  <1> HIDE DEF r
  <1>5. BuilderOK(r)
    BY <1>1, <1>3, <1>4 DEF BuilderOK
  <1> QED
    BY <1>2, <1>3, <1>4, <1>5, CacheStep, OtherVars

LEMMA BeginStep ==
    ASSUME Inv, Begin
    PROVE  Inv'
  <1>1. PICK b \in BuilderState : b = builder /\ BuilderOK(b)
    BY OtherVars
  <1>2. PICK e \in Entry \union {NoEntry} : e = entry /\ (e # NoEntry => EntryOK(e))
    BY OtherVars
  <1>3. PICK at \in {"lookup", "version"} : at = IF Single THEN "lookup" ELSE "version"
    OBVIOUS
  <1>4. PICK now \in Tick : now = clock
    BY OtherVars DEF Typed, TypeOK
  <1> DEFINE r == [b EXCEPT !.at = at, !.asOf = now]
  <1>5. b.at = "missed" /\ builder' = r /\ UNCHANGED <<view, clock, born, undeleted, promo, version, unbumped, entry>>
    BY <1>1, <1>3, <1>4 DEF Begin
  <1>6. /\ r \in BuilderState /\ r.at = at /\ r.asOf = now /\ r.found = b.found /\ r.version = b.version /\ r.price = b.price
        /\ r.boundary = b.boundary
    BY DEF BuilderState
  <1> HIDE DEF r
  <1>7. now \in Nat /\ (at = "version" => view # "slug") /\ (at = "lookup" => Single)
    BY <1>3, <1>4, Limits DEF Tick, Single
  <1>8. BuilderOK(r)
    BY <1>1, <1>4, <1>5, <1>6, <1>7 DEF BuilderOK
  <1> QED
    BY <1>2, <1>5, <1>6, <1>8, CacheStep, OtherVars

LEMMA LookupStep ==
    ASSUME Inv, Lookup
    PROVE  Inv'
  <1>1. PICK b \in BuilderState : b = builder /\ BuilderOK(b)
    BY OtherVars
  <1>2. PICK e \in Entry \union {NoEntry} : e = entry /\ (e # NoEntry => EntryOK(e))
    BY OtherVars
  <1>3. PICK at \in {"version", "store"} : at = IF born # Never /\ view \in Product THEN "version" ELSE "store"
    OBVIOUS
  <1>4. PICK found \in BOOLEAN : found <=> born # Never
    OBVIOUS
  <1> DEFINE r == [b EXCEPT !.at = at, !.found = found]
  <1>5. b.at = "lookup" /\ UNCHANGED <<view, clock, born, undeleted, promo, version, unbumped, entry>>
    BY <1>1 DEF Lookup
  <1>6. builder' = r
    <2>1. builder' = [b EXCEPT !.at = at, !.found = (born # Never)]
      BY <1>1, <1>3 DEF Lookup
    <2> QED
      BY <1>4, <2>1
  <1>7. /\ r \in BuilderState /\ r.at = at /\ r.asOf = b.asOf /\ r.found = found /\ r.version = b.version /\ r.price = b.price
        /\ r.boundary = b.boundary
    BY DEF BuilderState
  <1> HIDE DEF r
  <1>8. b.asOf \in Nat /\ b.asOf < Never
    BY Limits DEF BuilderState, Tick
  <1>9. b.boundary = Never /\ b.price = NoPrice /\ Single
    BY <1>1, <1>5 DEF BuilderOK
  <1>10. (at = "version" => found /\ view # "slug") /\ (at = "store" /\ found => view = "slug") /\ (~found => b.asOf <= born)
    <2>1. at = "version" => found /\ view # "slug"
      BY <1>3, <1>4, ShowsProducts
    <2>2. at = "store" /\ found => view = "slug"
      BY <1>3, <1>4, <1>9 DEF Single
    <2>3. ~found => b.asOf <= born
      BY <1>4, <1>8, Limits
    <2> QED
      BY <2>1, <2>2, <2>3
  <1>11. BuilderOK(r)
    BY <1>1, <1>7, <1>8, <1>9, <1>10 DEF BuilderOK
  <1> QED
    BY <1>2, <1>5, <1>6, <1>7, <1>11, CacheStep, OtherVars

LEMMA ReadVersionStep ==
    ASSUME Inv, ReadVersion
    PROVE  Inv'
  <1>1. PICK b \in BuilderState : b = builder /\ BuilderOK(b)
    BY OtherVars
  <1>2. PICK e \in Entry \union {NoEntry} : e = entry /\ (e # NoEntry => EntryOK(e))
    BY OtherVars
  <1>3. PICK v \in Nat : v = version
    BY OtherVars, Types
  <1> DEFINE r == [b EXCEPT !.at = "page", !.version = v]
  <1>4. b.at = "version" /\ builder' = r /\ UNCHANGED <<view, clock, born, undeleted, promo, version, unbumped, entry>>
    BY <1>1, <1>3 DEF ReadVersion
  <1>5. /\ r \in BuilderState /\ r.at = "page" /\ r.asOf = b.asOf /\ r.found = b.found /\ r.version = v /\ r.price = b.price
        /\ r.boundary = b.boundary
    BY DEF BuilderState
  <1> HIDE DEF r
  <1>6. BuilderOK(r)
    BY <1>1, <1>3, <1>4, <1>5 DEF BuilderOK
  <1> QED
    BY <1>2, <1>4, <1>5, <1>6, CacheStep, OtherVars

LEMMA FetchPageStep ==
    ASSUME Inv, FetchPage
    PROVE  Inv'
  <1>1. PICK b \in BuilderState : b = builder /\ BuilderOK(b)
    BY OtherVars
  <1>2. PICK e \in Entry \union {NoEntry} : e = entry /\ (e # NoEntry => EntryOK(e))
    BY OtherVars
  <1>3. PICK price \in Prices : price = PriceAt(b.asOf)
    <2>1. b.asOf \in Int
      BY Limits DEF BuilderState, Tick
    <2> QED
      BY <2>1, PricesTyped, OtherVars
  <1> DEFINE r == [b EXCEPT !.at = "boundary", !.price = price]
  <1>4. b.at = "page" /\ builder' = r /\ UNCHANGED <<view, clock, born, undeleted, promo, version, unbumped, entry>>
    BY <1>1, <1>3 DEF FetchPage
  <1>5. /\ r \in BuilderState /\ r.at = "boundary" /\ r.asOf = b.asOf /\ r.found = b.found /\ r.version = b.version /\ r.price = price
        /\ r.boundary = b.boundary
    BY DEF BuilderState
  <1> HIDE DEF r
  <1>6. BuilderOK(r)
    BY <1>1, <1>3, <1>4, <1>5 DEF BuilderOK
  <1> QED
    BY <1>2, <1>4, <1>5, <1>6, CacheStep, OtherVars

LEMMA FetchBoundaryStep ==
    ASSUME Inv, FetchBoundary
    PROVE  Inv'
  <1>1. PICK b \in BuilderState : b = builder /\ BuilderOK(b)
    BY OtherVars
  <1>2. PICK e \in Entry \union {NoEntry} : e = entry /\ (e # NoEntry => EntryOK(e))
    BY OtherVars
  <1>3. b.at = "boundary" /\ UNCHANGED <<view, clock, born, undeleted, promo, version, unbumped, entry>>
    BY <1>1 DEF FetchBoundary
  <1>4. b.asOf \in Nat /\ b.asOf <= MaxClock /\ view # "slug"
    BY <1>1, <1>3, Limits DEF BuilderState, Tick, BuilderOK
  <1>5. PICK n \in Nat : n = NextBoundary(b.asOf)
    BY <1>4, PricesHold, OtherVars
  <1>6. b.asOf < n /\ n <= Never /\ Holds(PriceAt(b.asOf), b.asOf, n - 1) /\ (n = Never \/ Turns(b.asOf, n))
    BY <1>4, <1>5, PricesHold, OtherVars
  <1> DEFINE r == [b EXCEPT !.at = "store", !.boundary = n]
  <1>7. builder' = r
    BY <1>1, <1>5 DEF FetchBoundary
  <1>8. n \in 0 .. Never
    BY <1>6, Limits
  <1>9. /\ r \in BuilderState /\ r.at = "store" /\ r.asOf = b.asOf /\ r.found = b.found /\ r.version = b.version /\ r.price = b.price
        /\ r.boundary = n
    BY <1>8 DEF BuilderState
  <1> HIDE DEF r
  <1>10. Fresh(b.version) => Holds(b.price, b.asOf, n - 1)
    BY <1>1, <1>3, <1>6 DEF BuilderOK
  <1>11. BuilderOK(r)
    BY <1>1, <1>3, <1>4, <1>6, <1>9, <1>10 DEF BuilderOK
  <1> QED
    BY <1>2, <1>3, <1>7, <1>9, <1>11, CacheStep, OtherVars

LEMMA StoreStep ==
    ASSUME Inv, Store
    PROVE  Inv'
  <1>1. PICK b \in BuilderState : b = builder /\ BuilderOK(b)
    BY OtherVars
  <1>2. PICK now \in Tick : now = clock
    BY OtherVars DEF Typed, TypeOK
  <1>3. PICK ttl : ttl = EntryTtl(b)
    OBVIOUS
  <1>4. PICK d : d = ttl * Second
    OBVIOUS
  <1> DEFINE e == [found |-> b.found, price |-> b.price, version |-> b.version, asOf |-> b.asOf, stored |-> now, expires |-> now + d]
  <1>5. b.at = "store" /\ builder' = Away /\ entry' = e /\ UNCHANGED <<view, clock, born, undeleted, promo, version, unbumped>>
    BY <1>1, <1>2, <1>3, <1>4 DEF Store
  <1>6. /\ b.asOf \in Nat /\ b.boundary \in Nat /\ b.boundary <= Never /\ now \in Nat /\ now <= MaxClock /\ b.asOf <= now /\ b.version <= version
        /\ b.asOf <= MaxClock
    BY <1>1, <1>2, Limits DEF BuilderState, Tick, BuilderOK
  <1>7. ~b.found => d = NotFoundTtl * Second
    BY <1>3, <1>4 DEF EntryTtl
  <1>8. b.found => /\ d \in Nat /\ Second <= d /\ d <= MaxTtl * Second /\ d <= b.boundary - b.asOf + Second - 1
                   /\ d = MaxTtl * Second \/ b.boundary - b.asOf <= d
    <2> SUFFICES ASSUME b.found PROVE /\ d \in Nat /\ Second <= d /\ d <= MaxTtl * Second /\ d <= b.boundary - b.asOf + Second - 1
                                      /\ d = MaxTtl * Second \/ b.boundary - b.asOf <= d
      OBVIOUS
    <2>1. b.asOf < b.boundary
      BY <1>1, <1>5 DEF BuilderOK
    <2>2. ttl = Ttl(b.asOf, b.boundary)
      BY <1>3 DEF EntryTtl
    <2> QED
      BY <1>4, <1>6, <2>1, <2>2, TtlOf
  <1>9. PICK longest \in Nat : longest = MaxTtl * Second
    BY Limits
  <1>10. d \in Nat /\ Second <= d /\ d <= longest
    BY <1>7, <1>8, <1>9, Limits
  <1>11. Second \in Nat /\ Second > 0 /\ MaxClock \in Nat /\ Never = MaxClock + longest + 1 /\ Never \in Nat
    BY <1>9, Limits
  <1>12. now + d \in 1 .. Never
    BY <1>6, <1>10, <1>11
  <1>13. /\ e \in Entry /\ e.found = b.found /\ e.price = b.price /\ e.version = b.version /\ e.asOf = b.asOf /\ e.stored = now
         /\ e.expires = now + d /\ e.expires - e.stored = d
    <2>1. e \in Entry
      BY <1>12 DEF Entry, BuilderState
    <2>2. (now + d) - now = d
      BY <1>6, <1>10
    <2> QED
      BY <2>1, <2>2
  <1> HIDE DEF e
  <1>14. e.asOf <= e.stored /\ e.stored <= clock /\ clock < e.expires /\ e.version <= version
    BY <1>2, <1>6, <1>10, <1>11, <1>13
  <1>15. ~e.found => e.asOf <= born /\ e.expires = e.stored + NotFoundTtl * Second
    BY <1>1, <1>7, <1>13 DEF BuilderOK
  <1>16. ASSUME b.found PROVE /\ view = "slug" => b.price = NoPrice
                              /\ view # "slug" /\ Fresh(b.version) => Holds(b.price, b.asOf, b.boundary - 1)
                              /\ b.boundary = Never \/ Turns(b.asOf, b.boundary)
    BY <1>1, <1>5, <1>16 DEF BuilderOK
  <1>17. ASSUME b.found, view # "slug", Fresh(b.version) PROVE Holds(b.price, b.asOf, b.asOf + d - Second)
    <2>1. b.asOf + d - Second <= b.boundary - 1
      BY <1>6, <1>8, <1>10, <1>11, <1>17
    <2>2. \A t \in b.asOf .. b.asOf + d - Second : t \in b.asOf .. b.boundary - 1
      BY <1>6, <1>10, <1>11, <2>1
    <2> QED
      BY <1>16, <1>17, <2>2 DEF Holds
  <1>18. ASSUME b.found, d # longest PROVE Turns(b.asOf, b.asOf + d)
    <2>1. b.boundary - b.asOf <= d
      BY <1>8, <1>9, <1>18
    <2>2. b.boundary # Never
      BY <1>6, <1>10, <1>11, <2>1
    <2>3. \A t \in b.asOf + 1 .. b.boundary : t \in b.asOf + 1 .. b.asOf + d
      BY <1>6, <1>10, <2>1
    <2> QED
      BY <1>16, <1>18, <2>2, <2>3 DEF Turns
  <1>19. EntryOK(e)
    BY <1>9, <1>10, <1>13, <1>14, <1>15, <1>16, <1>17, <1>18, <1>6, <1>11 DEF EntryOK
  <1> QED
    BY <1>5, <1>13, <1>19, CacheStep, AwayOK, OtherVars

LEMMA AbandonStep ==
    ASSUME Inv, Abandon
    PROVE  Inv'
  <1>1. PICK e \in Entry \union {NoEntry} : e = entry /\ (e # NoEntry => EntryOK(e))
    BY OtherVars
  <1>2. builder' = Away /\ UNCHANGED <<view, clock, born, undeleted, promo, version, unbumped, entry>>
    BY DEF Abandon
  <1> QED
    BY <1>1, <1>2, CacheStep, AwayOK, OtherVars

LEMMA DeleteStep ==
    ASSUME Inv, Delete
    PROVE  Inv'
  <1>1. PICK b \in BuilderState : b = builder /\ BuilderOK(b)
    BY OtherVars
  <1>2. PICK e \in Entry \union {NoEntry} : e = entry' /\ (e # NoEntry => EntryOK(e))
    BY OtherVars DEF Delete
  <1>3. undeleted' \in BOOLEAN /\ UNCHANGED <<view, clock, born, promo, version, unbumped, builder>>
    BY DEF Delete
  <1> QED
    BY <1>1, <1>2, <1>3, CacheStep

-----------------------------------------------------------------------------
(* The steps of the tables, the counter and the clock. *)

LEMMA FirstNumbers ==
    ASSUME NEW n \in Nat
    PROVE  IsFiniteSet(1 .. n) /\ Cardinality(1 .. n) = n
  <1>1. PICK e \in Int : e = n
    OBVIOUS
  <1>2. IsFiniteSet(1 .. e) /\ Cardinality(1 .. e) = IF 1 > e THEN 0 ELSE e - 1 + 1
    BY FS_Interval
  <1>3. (IF 1 > e THEN 0 ELSE e - 1 + 1) = e
    BY <1>1
  <1> QED
    BY <1>1, <1>2, <1>3

LEMMA CancelledCount ==
    ASSUME Typed
    PROVE  IsFiniteSet(Cancelled) /\ Cardinality(Cancelled) \in Nat /\ Cardinality(Cancelled) <= Len(promo)
  <1>1. PICK n \in Nat : n = Len(promo)
    BY Types
  <1>2. Cancelled \in SUBSET (1 .. n)
    BY <1>1, Types DEF Cancelled
  <1>3. IsFiniteSet(1 .. n) /\ Cardinality(1 .. n) = n
    BY FirstNumbers
  <1>4. IsFiniteSet(Cancelled) /\ Cardinality(Cancelled) <= n
    BY <1>2, <1>3, FS_Subset
  <1> QED
    BY <1>1, <1>4, FS_CardinalityType

\* What is due is in its bounds.
LEMMA DueBounded ==
    ASSUME NEW n \in Nat, n <= MaxPromos, NEW k \in Nat, k <= n, NEW u \in Nat, NEW one \in {0, 1}, u <= n + k + one
    PROVE  u \in 0 .. 2 * MaxPromos + 1
  <1>1. PICK m \in Nat : m = MaxPromos
    BY Limits
  <1> QED
    BY <1>1

\* A step that leaves the cache alone.
LEMMA TableStep ==
    ASSUME Inv, Grows, Typed', UNCHANGED <<builder, entry>>, entry # NoEntry => clock' < entry.expires
    PROVE  Inv'
  <1>1. PICK b \in BuilderState : b = builder /\ BuilderOK(b)
    BY OtherVars
  <1>2. PICK e \in Entry \union {NoEntry} : e = entry /\ (e # NoEntry => EntryOK(e))
    BY OtherVars
  <1> QED
    BY <1>1, <1>2, StepInv

LEMMA InsertStep ==
    ASSUME Inv, Insert
    PROVE  Inv'
  <1>1. PICK more \in {0, 1} : more = IF view \in Product THEN 1 ELSE 0
    OBVIOUS
  <1>2. /\ born = Never /\ clock > 0 /\ born' = clock /\ undeleted' \in BOOLEAN /\ unbumped' = unbumped + more
        /\ UNCHANGED <<view, clock, promo, version, entry, builder>>
    BY <1>1 DEF Insert
  <1>3. Typed /\ unbumped \in Nat /\ clock \in Nat /\ clock <= MaxClock /\ version \in Nat /\ born \in Nat
    BY OtherVars, Types
  <1>4. Grows
    <2>1. \A t : PriceAt(t)' = PriceAt(t)
      BY <1>2 DEF PriceAt, Active, Shows
    <2>2. unbumped' = 0 => unbumped = 0
      BY <1>1, <1>2, <1>3
    <2> QED
      BY <1>2, <1>3, <2>1, <2>2 DEF Grows
  <1>5. Typed'
    <2>1. born \notin 1 .. MaxClock /\ born' \in 1 .. MaxClock /\ born' \in Tick
      BY <1>2, <1>3, Limits DEF Tick
    <2>2. Cancelled' = Cancelled
      BY <1>2 DEF Cancelled
    <2>3. PICK n \in Nat : n = Len(promo) /\ n <= MaxPromos
      BY <1>3, Types
    <2>4. PICK k \in Nat : k = Cardinality(Cancelled) /\ k <= n
      BY <1>3, <2>3, CancelledCount
    <2>5. unbumped <= n + k
      BY <1>3, <2>1, <2>3, <2>4 DEF Typed
    <2>6. unbumped' \in Nat /\ unbumped' <= n + k + 1
      BY <1>1, <1>2, <1>3, <2>5
    <2>7. unbumped' \in 0 .. 2 * MaxPromos + 1
      BY <2>3, <2>4, <2>6, DueBounded
    <2>8. TypeOK'
      BY <1>2, <1>3, <2>1, <2>7 DEF Typed, TypeOK
    <2> QED
      BY <1>2, <1>3, <2>1, <2>2, <2>3, <2>4, <2>6, <2>8 DEF Typed
  <1> QED
    BY <1>2, <1>4, <1>5, TableStep, OtherVars

LEMMA CreateStep ==
    ASSUME Inv, NEW w \in Windows, NEW target \in Targets, Create(w, target)
    PROVE  Inv'
  <1>1. PICK new : new = [starts |-> w[1], ends |-> w[2], target |-> target, cancelled |-> FALSE]
    OBVIOUS
  <1>2. PICK more \in {0, 1} : more = IF Affects(target) THEN 1 ELSE 0
    OBVIOUS
  <1>3. PICK n \in Nat : n = Len(promo) /\ n <= MaxPromos
    BY OtherVars, Types
  <1>4. /\ n < MaxPromos /\ promo' = Append(promo, new) /\ unbumped' = unbumped + more
        /\ UNCHANGED <<view, clock, born, undeleted, version, entry, builder>>
    BY <1>1, <1>2, <1>3 DEF Create, Commits
  <1>5. Typed /\ unbumped \in Nat /\ clock \in Nat /\ version \in Nat /\ born \in Nat /\ promo \in Seq(Promotion)
    BY OtherVars, Types
  <1>6. new \in Promotion
    <2>1. w[1] \in Tick /\ w[2] \in 1 .. MaxClock + 1
      BY NamesAssumption DEF Tick
    <2> QED
      BY <1>1, <2>1 DEF Promotion
  <1>7. /\ promo' \in Seq(Promotion) /\ Len(promo') = n + 1 /\ DOMAIN promo = 1 .. n /\ DOMAIN promo' = 1 .. n + 1
        /\ promo'[n + 1] = new /\ \A i \in DOMAIN promo : promo'[i] = promo[i]
    BY <1>3, <1>4, <1>5, <1>6
  <1>8. Grows
    <2>1. ASSUME ~Affects(target), NEW t \in Int PROVE PriceAt(t)' = PriceAt(t)
      <3>1. ASSUME NEW x \in Shows(view) PROVE Active(x, t)' = Active(x, t)
        <4>1. new.target \notin {x, Home[x]}
          BY <1>1, <2>1 DEF Affects
        <4>2. \A i \in DOMAIN promo' : i \in DOMAIN promo \/ i = n + 1
          BY <1>7
        <4>3. DOMAIN promo \subseteq DOMAIN promo'
          BY <1>7
        <4> QED
          BY <1>7, <4>1, <4>2, <4>3 DEF Active
      <3>2. Shows(view)' = Shows(view)
        BY <1>4 DEF Shows
      <3> QED
        BY <3>1, <3>2 DEF PriceAt
    <2>2. unbumped' = 0 => unbumped = 0 /\ ~Affects(target)
      BY <1>2, <1>4, <1>5
    <2>3. DOMAIN promo \subseteq DOMAIN promo'
      BY <1>7
    <2> QED
      BY <1>4, <1>5, <1>7, <2>1, <2>2, <2>3 DEF Grows
  <1>9. Typed'
    <2>1. Cancelled' = Cancelled
      <3>1. \A i \in DOMAIN promo' : promo'[i].cancelled <=> i \in DOMAIN promo /\ promo[i].cancelled
        <4>1. ~new.cancelled /\ n + 1 \notin DOMAIN promo
          BY <1>1, <1>7
        <4>2. \A i \in DOMAIN promo' : i \in DOMAIN promo \/ i = n + 1
          BY <1>7
        <4> QED
          BY <1>7, <4>1, <4>2
      <3>2. DOMAIN promo \subseteq DOMAIN promo'
        BY <1>7
      <3> QED
        BY <3>1, <3>2 DEF Cancelled
    <2>2. PICK k \in Nat : k = Cardinality(Cancelled) /\ k <= n
      BY <1>3, <1>5, CancelledCount
    <2>3. PICK one \in {0, 1} : one = IF born \in 1 .. MaxClock THEN 1 ELSE 0
      OBVIOUS
    <2>4. unbumped <= n + k + one
      BY <1>3, <1>5, <2>2, <2>3 DEF Typed
    <2>5. unbumped' \in Nat /\ unbumped' <= (n + 1) + k + one /\ n + 1 <= MaxPromos
      BY <1>2, <1>3, <1>4, <1>5, <2>4, Limits
    <2>6. unbumped' \in 0 .. 2 * MaxPromos + 1
      <3>1. PICK m \in Nat : m = n + 1 /\ k <= m
        BY <2>2
      <3> QED
        BY <2>5, <3>1, DueBounded
    <2>7. promo' \in [DOMAIN promo' -> Promotion] /\ DOMAIN promo' \subseteq Id
      <3>1. PICK m \in Nat : m = n + 1 /\ m <= MaxPromos
        BY <2>5
      <3>2. promo' \in [1 .. m -> Promotion] /\ DOMAIN promo' = 1 .. m
        BY <1>7, <3>1
      <3> QED
        BY <3>1, <3>2, Limits DEF Id
    <2>8. TypeOK'
      BY <1>4, <1>5, <2>6, <2>7 DEF Typed, TypeOK
    <2> QED
      BY <1>4, <1>7, <2>1, <2>2, <2>3, <2>5, <2>8 DEF Typed
  <1> QED
    BY <1>4, <1>8, <1>9, TableStep, OtherVars

LEMMA CancelStep ==
    ASSUME Inv, NEW i \in DOMAIN promo, Cancel(i)
    PROVE  Inv'
  <1>1. PICK more \in {0, 1} : more = IF Affects(promo[i].target) THEN 1 ELSE 0
    OBVIOUS
  <1>2. /\ ~promo[i].cancelled /\ promo' = [promo EXCEPT ![i].cancelled = TRUE] /\ unbumped' = unbumped + more
        /\ UNCHANGED <<view, clock, born, undeleted, version, entry, builder>>
    BY <1>1 DEF Cancel, Commits
  <1>3. PICK n \in Nat : n = Len(promo) /\ n <= MaxPromos /\ DOMAIN promo = 1 .. n
    BY OtherVars, Types
  <1>4. /\ Typed /\ unbumped \in Nat /\ clock \in Nat /\ version \in Nat /\ born \in Nat /\ promo \in Seq(Promotion)
        /\ \A j \in DOMAIN promo : promo[j] \in Promotion
    BY OtherVars, Types
  <1>5. /\ DOMAIN promo' = 1 .. n /\ \A j \in DOMAIN promo : j # i => promo'[j] = promo[j]
        /\ promo'[i].starts = promo[i].starts /\ promo'[i].ends = promo[i].ends /\ promo'[i].target = promo[i].target
        /\ promo'[i].cancelled = TRUE
    BY <1>2, <1>3, <1>4 DEF Promotion
  <1>6. promo' \in [1 .. n -> Promotion]
    <2>1. [promo[i] EXCEPT !.cancelled = TRUE] \in Promotion
      BY <1>4 DEF Promotion
    <2>2. promo' = [promo EXCEPT ![i] = [promo[i] EXCEPT !.cancelled = TRUE]]
      BY <1>2
    <2>3. promo \in [1 .. n -> Promotion]
      BY <1>3, <1>4
    <2> QED
      BY <1>3, <2>1, <2>2, <2>3
  <1>7. promo' \in Seq(Promotion) /\ Len(promo') = n
    BY <1>6
  <1>8. Grows
    <2>1. ASSUME ~Affects(promo[i].target), NEW t \in Int PROVE PriceAt(t)' = PriceAt(t)
      <3>1. ASSUME NEW x \in Shows(view) PROVE Active(x, t)' = Active(x, t)
        <4>1. promo[i].target \notin {x, Home[x]}
          BY <2>1 DEF Affects
        <4> QED
          BY <1>3, <1>5, <4>1 DEF Active
      <3>2. Shows(view)' = Shows(view)
        BY <1>2 DEF Shows
      <3> QED
        BY <3>1, <3>2 DEF PriceAt
    <2>2. unbumped' = 0 => unbumped = 0 /\ ~Affects(promo[i].target)
      BY <1>1, <1>2, <1>4
    <2>3. \A j \in DOMAIN promo : /\ promo'[j].starts = promo[j].starts /\ promo'[j].ends = promo[j].ends
                                  /\ promo'[j].target = promo[j].target
      BY <1>5
    <2> QED
      BY <1>2, <1>3, <1>4, <1>5, <2>1, <2>2, <2>3 DEF Grows
  <1>9. Typed'
    <2>1. Cancelled' = Cancelled \union {i} /\ i \notin Cancelled
      BY <1>2, <1>3, <1>5 DEF Cancelled
    <2>2. PICK k \in Nat : k = Cardinality(Cancelled)
      BY <1>4, CancelledCount
    <2>3. Cardinality(Cancelled') = k + 1
      BY <1>4, <2>1, <2>2, CancelledCount, FS_AddElement
    <2>4. k + 1 <= n
      <3>1. Cancelled' \in SUBSET (1 .. n)
        BY <1>5 DEF Cancelled
      <3>2. IsFiniteSet(1 .. n) /\ Cardinality(1 .. n) = n
        BY FirstNumbers
      <3> QED
        BY <2>3, <3>1, <3>2, FS_Subset
    <2>5. PICK one \in {0, 1} : one = IF born \in 1 .. MaxClock THEN 1 ELSE 0
      OBVIOUS
    <2>6. unbumped <= n + k + one
      BY <1>3, <1>4, <2>2, <2>5 DEF Typed
    <2>7. unbumped' \in Nat /\ unbumped' <= n + (k + 1) + one
      BY <1>1, <1>2, <1>4, <2>6
    <2>8. unbumped' \in 0 .. 2 * MaxPromos + 1
      BY <1>3, <2>4, <2>7, DueBounded
    <2>9. promo' \in [DOMAIN promo' -> Promotion] /\ DOMAIN promo' \subseteq Id
      BY <1>3, <1>5, <1>6, Limits DEF Id
    <2>10. TypeOK'
      BY <1>2, <1>4, <2>8, <2>9 DEF Typed, TypeOK
    <2> QED
      BY <1>2, <1>3, <1>7, <2>2, <2>3, <2>5, <2>7, <2>10 DEF Typed
  <1> QED
    BY <1>2, <1>8, <1>9, TableStep, OtherVars

LEMMA BumpStep ==
    ASSUME Inv, Bump
    PROVE  Inv'
  <1>1. /\ unbumped > 0 /\ unbumped' = unbumped - 1 /\ version' = version + 1
        /\ UNCHANGED <<view, clock, born, undeleted, promo, entry, builder>>
    BY DEF Bump
  <1>2. Typed /\ unbumped \in Nat /\ clock \in Nat /\ version \in Nat /\ born \in Nat
    BY OtherVars, Types
  <1>3. Grows
    BY <1>1, <1>2 DEF Grows
  <1>4. Typed'
    <2>1. Cancelled' = Cancelled
      BY <1>1 DEF Cancelled
    <2>2. PICK due \in Nat : due = Len(promo) + Cardinality(Cancelled) + (IF born \in 1 .. MaxClock THEN 1 ELSE 0)
      BY <1>2, CancelledCount, Types
    <2>3. unbumped' \in Nat /\ unbumped' <= due /\ unbumped' <= unbumped
      BY <1>1, <1>2, <2>2 DEF Typed
    <2>4. unbumped' \in 0 .. 2 * MaxPromos + 1
      <3>1. PICK top \in Nat : top = 2 * MaxPromos + 1
        BY Limits
      <3>2. unbumped \in 0 .. top
        BY <1>2, <3>1 DEF Typed, TypeOK
      <3> QED
        BY <2>3, <3>1, <3>2
    <2>5. TypeOK'
      BY <1>1, <1>2, <2>4 DEF Typed, TypeOK
    <2> QED
      BY <1>1, <1>2, <2>1, <2>2, <2>3, <2>5 DEF Typed
  <1> QED
    BY <1>1, <1>3, <1>4, TableStep, OtherVars

LEMMA PassesStep ==
    ASSUME Inv, Passes
    PROVE  Inv'
  <1>1. /\ clock < MaxClock /\ clock' = clock + 1 /\ entry' = IF entry.expires = clock + 1 THEN NoEntry ELSE entry
        /\ UNCHANGED <<view, born, undeleted, promo, version, unbumped, builder>>
    BY DEF Passes
  <1>2. Typed /\ clock \in Nat /\ version \in Nat /\ born \in Nat
    BY OtherVars, Types
  <1>3. PICK e \in Entry \union {NoEntry} : e = entry'
    BY <1>1, OtherVars
  <1>4. e # NoEntry => EntryOK(e) /\ clock' < e.expires
    <2> SUFFICES ASSUME e # NoEntry PROVE EntryOK(e) /\ clock' < e.expires
      OBVIOUS
    <2>1. entry.expires # clock + 1 /\ e = entry
      BY <1>1, <1>3
    <2>2. EntryOK(e) /\ clock < e.expires /\ e \in Entry
      BY <2>1, OtherVars
    <2>3. e.expires \in Nat
      BY <2>2, Limits DEF Entry
    <2> QED
      BY <1>1, <1>2, <2>1, <2>2, <2>3
  <1>5. Grows
    <2>1. \A t : PriceAt(t)' = PriceAt(t)
      BY <1>1 DEF PriceAt, Active, Shows
    <2> QED
      BY <1>1, <1>2, <2>1 DEF Grows
  <1>6. Typed'
    <2>1. clock' \in Tick
      BY <1>1, <1>2, Limits DEF Tick
    <2>2. Cancelled' = Cancelled
      BY <1>1 DEF Cancelled
    <2>3. TypeOK'
      BY <1>1, <1>2, <1>3, <2>1 DEF Typed, TypeOK
    <2> QED
      BY <1>1, <1>2, <2>2, <2>3 DEF Typed
  <1> QED
    BY <1>1, <1>3, <1>4, <1>5, <1>6, StepInv, OtherVars

LEMMA StutterStep ==
    ASSUME Inv, UNCHANGED vars
    PROVE  Inv'
  <1>1. PICK b \in BuilderState : b = builder /\ BuilderOK(b)
    BY OtherVars
  <1>2. PICK e \in Entry \union {NoEntry} : e = entry /\ (e # NoEntry => EntryOK(e))
    BY OtherVars
  <1> QED
    BY <1>1, <1>2, CacheStep, OtherVars DEF vars

LEMMA InvInit == Init => Inv
  <1> SUFFICES ASSUME Init PROVE Inv
    OBVIOUS
  <1>1. /\ view \in Views /\ clock = 0 /\ born \in {0, Never} /\ undeleted = FALSE /\ promo = <<>> /\ version = 0 /\ unbumped = 0
        /\ entry = NoEntry /\ builder = Away
    BY DEF Init
  <1>2. Cancelled = {} /\ Cardinality(Cancelled) = 0
    BY <1>1, FS_EmptySet DEF Cancelled
  <1>3. Away \in BuilderState /\ 0 \in Tick /\ 0 \in 0 .. 2 * MaxPromos + 1
    BY Limits DEF Away, BuilderState, Tick, Prices
  <1>4. promo \in Seq(Promotion) /\ Len(promo) = 0 /\ DOMAIN promo = {}
    BY <1>1
  <1>5. born \notin 1 .. MaxClock
    BY <1>1, Limits
  <1>6. TypeOK
    <2>1. promo \in [DOMAIN promo -> Promotion] /\ DOMAIN promo \subseteq Id
      BY <1>4
    <2>2. born \in Tick \union {Never} /\ 0 \in Nat
      BY <1>1, <1>3
    <2> QED
      BY <1>1, <1>3, <2>1, <2>2 DEF TypeOK
  <1>7. Typed
    BY <1>1, <1>2, <1>4, <1>5, <1>6, Limits DEF Typed
  <1> QED
    BY <1>1, <1>7, AwayOK DEF Inv

LEMMA InvNext ==
    ASSUME Inv, [Next]_vars
    PROVE  Inv'
  <1>1. CASE UNCHANGED vars
    BY <1>1, StutterStep
  <1>2. ASSUME NEW w \in Windows, NEW target \in Targets, Create(w, target) PROVE Inv'
    BY <1>2, CreateStep
  <1>3. ASSUME NEW i \in DOMAIN promo, Cancel(i) PROVE Inv'
    BY <1>3, CancelStep
  <1>4. CASE Insert \/ Delete \/ Bump \/ Miss \/ Begin \/ Lookup
    BY <1>4, InsertStep, DeleteStep, BumpStep, MissStep, BeginStep, LookupStep
  <1>5. CASE ReadVersion \/ FetchPage \/ FetchBoundary \/ Store \/ Abandon \/ Passes
    BY <1>5, ReadVersionStep, FetchPageStep, FetchBoundaryStep, StoreStep, AbandonStep, PassesStep
  <1> QED
    BY <1>1, <1>2, <1>3, <1>4, <1>5 DEF Next

LEMMA Invariant == Spec => []Inv
  <1>1. Init => Inv
    BY InvInit
  <1>2. Inv /\ [Next]_vars => Inv'
    BY InvNext
  <1> QED
    BY <1>1, <1>2, PTL DEF Spec

-----------------------------------------------------------------------------
(* The theorems. *)

\* Every reachable state is well typed: a time to live is positive and at most the longest
\* one, and no more bumps are due than there were commits.
THEOREM TypeCorrect == Spec => []TypeOK
  <1>1. Inv => TypeOK
    BY DEF Inv, Typed
  <1> QED
    BY <1>1, Invariant, PTL

\* A cached price was right less than a second, and the time its build took, ago (see
\* PriceWasRight), whatever is created and cancelled while the entry is built and read.
THEOREM PricesAreRecent == Spec => []PriceWasRight
  <1>1. Inv => PriceWasRight
    <2> SUFFICES ASSUME Inv, Accepted, entry.found, unbumped = 0
                 PROVE  \E t \in clock - (Second - 1) - (entry.stored - entry.asOf) .. clock : PriceAt(t) = entry.price
      BY DEF PriceWasRight
    <2>1. PICK e \in Entry : e = entry /\ EntryOK(e)
      BY OtherVars DEF Accepted
    <2>2. e.asOf \in Nat /\ e.stored \in Nat /\ e.expires \in Nat /\ Second \in Nat /\ Second > 0 /\ clock \in Nat
      BY Types, OtherVars, Limits DEF Entry, Tick
    <2>3. e.asOf <= e.stored /\ e.stored <= clock /\ clock < e.expires /\ e.stored + Second <= e.expires
      BY <2>1 DEF EntryOK
    <2>4. CASE view = "slug"
      <3>1. e.price = NoPrice
        BY <2>1, <2>4 DEF EntryOK
      <3>2. clock \in clock - (Second - 1) - (e.stored - e.asOf) .. clock
        BY <2>2, <2>3
      <3>3. PriceAt(clock) = NoPrice
        BY <2>4, SlugPrices
      <3> QED
        BY <2>1, <3>1, <3>2, <3>3
    <2>5. CASE view # "slug"
      <3>1. Fresh(e.version)
        BY <2>1, <2>5 DEF Accepted, Fresh
      <3>2. Holds(e.price, e.asOf, e.asOf + (e.expires - e.stored) - Second)
        BY <2>1, <2>5, <3>1 DEF EntryOK
      <3>3. PICK early \in Int : early = clock - (Second - 1) - (e.stored - e.asOf)
        BY <2>2
      <3>4. PICK t \in Int : t = IF early > e.asOf THEN early ELSE e.asOf
        BY <2>2
      <3>5. t \in e.asOf .. e.asOf + (e.expires - e.stored) - Second
        BY <2>2, <2>3, <3>3, <3>4
      <3>6. t \in early .. clock
        BY <2>2, <2>3, <3>3, <3>4
      <3>7. PriceAt(t) = e.price
        BY <3>2, <3>5 DEF Holds
      <3> QED
        BY <2>1, <3>3, <3>6, <3>7
    <2> QED
      BY <2>4, <2>5
  <1> QED
    BY <1>1, Invariant, PTL

\* A cached "not found" denies what was inserted for its short time to live at most (see
\* NotFoundIsBrief).
THEOREM DenialsAreBrief == Spec => []NotFoundIsBrief
  <1>1. Inv => NotFoundIsBrief
    <2> SUFFICES ASSUME Inv, entry # NoEntry, ~entry.found, born # Never
                 PROVE  entry.asOf <= born /\ clock - born < NotFoundTtl * Second + (entry.stored - entry.asOf)
      BY DEF NotFoundIsBrief
    <2>1. PICK e \in Entry : e = entry /\ EntryOK(e)
      BY OtherVars
    <2>2. e.asOf \in Nat /\ e.stored \in Nat /\ e.expires \in Nat /\ clock \in Nat /\ born \in Nat
      BY Types, OtherVars, Limits DEF Entry, Tick
    <2>3. e.asOf <= born /\ clock < e.expires /\ e.expires = e.stored + NotFoundTtl * Second
      BY <2>1 DEF EntryOK
    <2>4. PICK d \in Nat : d = NotFoundTtl * Second
      BY Limits
    <2>5. clock - born < d + (e.stored - e.asOf)
      BY <2>2, <2>3, <2>4
    <2> QED
      BY <2>1, <2>3, <2>4, <2>5
  <1> QED
    BY <1>1, Invariant, PTL

\* Every category a promotion is for has a product.
TargetsShown == \A c \in Targets \intersect Category : \E x \in Product : Home[x] = c

\* The code's scope names no promotion that the entry does not show.
LEMMA ScopeAffects ==
    ASSUME TargetsShown, Typed, NEW i \in DOMAIN promo, InScope(promo[i].target)
    PROVE  Affects(promo[i].target)
  <1>1. PICK target \in Targets : target = promo[i].target
    BY Types DEF Promotion
  <1>2. InScope(target)
    BY <1>1
  <1>3. target \in Product \/ target \in Targets \intersect Category
    BY NamesAssumption
  <1>4. CASE view \in Product
    BY <1>1, <1>2, <1>4, NamesAssumption DEF InScope, Shows, Affects
  <1>5. CASE view = "all"
    <2>1. Shows(view) = Product
      BY <1>5, NamesAssumption DEF Shows
    <2>2. \E x \in Product : target \in {x, Home[x]}
      BY <1>3 DEF TargetsShown
    <2> QED
      BY <1>1, <2>1, <2>2 DEF Affects
  <1>6. CASE view \in Category
    <2>1. Shows(view) = {x \in Product : Home[x] = view} /\ view \notin Product
      BY <1>6, NamesAssumption DEF Shows
    <2>2. \E x \in Product : Home[x] = view /\ target \in {x, Home[x]}
      <3>1. target \in {view} \union {x \in Product : Home[x] = view}
        BY <1>2, <1>6, NamesAssumption DEF InScope
      <3>2. target = view => target \in Targets \intersect Category
        BY <1>6
      <3> QED
        BY <3>1, <3>2 DEF TargetsShown
    <2> QED
      BY <1>1, <2>1, <2>2 DEF Affects
  <1> QED
    BY <1>2, <1>4, <1>5, <1>6 DEF InScope

\* An entry that is dropped was stored the longest time to live ago, or shows promotions
\* that have started or ended since (see DroppedForAReason): as long as there are no
\* promotions of empty categories, which are boundaries of the listing all the same.
THEOREM DropsHaveReasons == TargetsShown => (Spec => DroppedForAReason)
  <1> SUFFICES ASSUME TargetsShown PROVE Spec => DroppedForAReason
    OBVIOUS
  <1> DEFINE Reason ==
        \/ undeleted
        \/ clock' >= entry.stored + MaxTtl * Second
        \/ \E i \in DOMAIN promo :
              /\ Affects(promo[i].target)
              /\ {promo[i].starts, promo[i].ends} \intersect (entry.asOf + 1 .. clock') # {}
  <1>1. ASSUME Inv, [Next]_vars, entry # NoEntry, entry.found, entry' = NoEntry PROVE Reason
    <2>1. entry' # entry
      BY <1>1
    <2>2. Delete \/ Passes \/ Store
      BY <1>1, <2>1 DEF Next, vars, Create, Cancel, Insert, Bump, Miss, Begin, Lookup, ReadVersion, FetchPage, FetchBoundary, Abandon
    <2>3. CASE Delete
      BY <2>3 DEF Delete
    <2>4. CASE Store
      <3>1. "found" \in DOMAIN entry' /\ DOMAIN NoEntry = {"expires"}
        BY <2>4 DEF Store, NoEntry
      <3> QED
        BY <1>1, <3>1
    <2>5. CASE Passes
      <3>1. PICK e \in Entry : e = entry /\ EntryOK(e)
        BY <1>1, OtherVars
      <3>2. e.expires = clock + 1 /\ clock' = clock + 1
        BY <1>1, <2>1, <2>5, <3>1 DEF Passes
      <3>3. e.asOf \in Nat /\ e.stored \in Nat /\ e.expires \in Nat /\ e.asOf <= e.stored /\ clock \in Nat
        BY <1>1, <3>1, Types, OtherVars, Limits DEF Entry, Tick, EntryOK
      <3>4. CASE e.expires = e.stored + MaxTtl * Second
        <4>1. clock' = e.stored + MaxTtl * Second /\ clock' \in Nat
          BY <3>2, <3>3, <3>4
        <4> QED
          BY <3>1, <4>1
      <3>5. CASE Turns(e.asOf, e.asOf + (e.expires - e.stored))
        <4>1. PICK i \in DOMAIN promo : /\ InScope(promo[i].target)
                                        /\ {promo[i].starts, promo[i].ends} \intersect (e.asOf + 1 .. e.asOf + (e.expires - e.stored)) # {}
          BY <3>5 DEF Turns
        <4>2. \A t \in e.asOf + 1 .. e.asOf + (e.expires - e.stored) : t \in e.asOf + 1 .. clock'
          BY <3>2, <3>3
        <4>3. Affects(promo[i].target)
          BY <1>1, <4>1, ScopeAffects, OtherVars
        <4> QED
          BY <3>1, <4>1, <4>2, <4>3
      <3> QED
        BY <1>1, <3>1, <3>4, <3>5 DEF EntryOK
    <2> QED
      BY <2>2, <2>3, <2>4, <2>5
  <1>2. Inv /\ [Next]_vars => [entry # NoEntry /\ entry.found /\ entry' = NoEntry => Reason]_vars
    BY <1>1
  <1> QED
    BY <1>2, Invariant, PTL DEF Spec, DroppedForAReason
==============================================================================
