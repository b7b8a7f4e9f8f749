---------------------------- MODULE PromotionTtl ----------------------------
(***************************************************************************)
(* Prices that change by the clock: promotions start and end without any   *)
(* write, so a cached price is given a time to live that ends with the     *)
(* next start or end of a promotion it depends on (ttlSeconds). And        *)
(* answers that no version covers: the cached "not found" of a product or  *)
(* a category's slug lives a few seconds, whatever is written meanwhile.   *)
(*                                                                         *)
(* Products that stay in their categories, promotions that are created and *)
(* cancelled, one cached entry (a product's, a listing's or a slug's) and  *)
(* the holder of its build lock. A price is the promotion it comes from:   *)
(* two prices are never taken for equal. Which counters a write bumps is   *)
(* CatalogCache's subject, who may build is ReadThrough's; here a write    *)
(* bumps the entry's version if the entry shows its target, and one        *)
(* request builds at a time. Clocks are in step.                           *)
(***************************************************************************)
EXTENDS Integers, Sequences, FiniteSetsExt

CONSTANTS
    Product, Category,
    Home,        \* the products' categories
    Views,       \* the entries looked at: a product, the listing of a category, "all", "slug"
    Targets,     \* bound: what promotions are for
    Windows,     \* bound: when they start and end
    Second,      \* clock ticks of a second
    MaxTtl,      \* DEFAULT_TTL_SECONDS and SLUG_TTL_SECONDS
    NotFoundTtl, \* NOT_FOUND_TTL_SECONDS
    MaxClock,    \* bound: the last tick
    MaxPromos    \* bound: promotions

ASSUME NamesAssumption ==
    /\ Home \in [Product -> Category]
    /\ Product \intersect Category = {} /\ {"all", "slug"} \intersect (Product \union Category) = {}
    /\ Views \subseteq Product \union Category \union {"all", "slug"}
    /\ Targets \subseteq Product \union Category
    /\ Windows \subseteq {w \in (0 .. MaxClock) \X (1 .. MaxClock + 1) : w[1] < w[2]}
ASSUME LimitsAssumption ==
    /\ Second \in Nat \ {0} /\ MaxTtl \in Nat \ {0} /\ NotFoundTtl \in 1 .. MaxTtl /\ MaxClock \in Nat /\ MaxPromos \in Nat

VARIABLES
    view,     \* the entry this behaviour follows
    clock,
    born,     \* when the product or category was inserted: 0 before this behaviour, Never not yet
    undeleted, \* createProduct still has to delete the product's entry
    promo,    \* the promotions, in the order of created_at
    version,  \* the counter the entry is stamped with
    unbumped, \* commits whose bump is still to come
    entry,    \* the cached entry
    builder   \* the lock holder's progress

vars == <<view, clock, born, undeleted, promo, version, unbumped, entry, builder>>

Tick == 0 .. MaxClock
Id == 1 .. MaxPromos
Never == MaxClock + MaxTtl * Second + 1

\* scope, product_id and category_id are one: the target.
Promotion == [starts : Tick, ends : 1 .. MaxClock + 1, target : Targets, cancelled : BOOLEAN]

\* The products an entry shows, and the winning promotion of each (0: none).
Shows(v) == IF v \in Product THEN {v} ELSE IF v = "all" THEN Product ELSE IF v = "slug" THEN {} ELSE {x \in Product : Home[x] = v}
NoPrice == [x \in {} |-> 0]
Prices == {NoPrice} \union UNION {[Shows(v) -> 0 .. MaxPromos] : v \in Views}

\* found: not a "not found"; asOf: the instant it was built for; stored: when it was stored.
Entry == [found : BOOLEAN, price : Prices, version : Nat, asOf : Tick, stored : Tick, expires : 1 .. Never]
NoEntry == [expires |-> 0]

BuilderState == [at : {"away", "missed", "lookup", "version", "page", "boundary", "store"}, asOf : Tick, found : BOOLEAN,
                 version : Nat, price : Prices, boundary : 0 .. Never]
Away == [at |-> "away", asOf |-> 0, found |-> TRUE, version |-> 0, price |-> NoPrice, boundary |-> Never]

TypeOK ==
    /\ view \in Views
    /\ clock \in Tick
    /\ born \in Tick \union {Never}
    /\ undeleted \in BOOLEAN
    /\ promo \in [DOMAIN promo -> Promotion] /\ DOMAIN promo \subseteq Id
    /\ version \in Nat
    /\ unbumped \in 0 .. 2 * MaxPromos + 1
    /\ entry \in Entry \union {NoEntry}
    /\ builder \in BuilderState

\* The entries of one product or category, which may not be there yet.
Single == view \in Product \union {"slug"}

Init ==
    /\ view \in Views
    /\ clock = 0
    /\ born \in (IF Single THEN {0, Never} ELSE {0})
    /\ undeleted = FALSE
    /\ promo = <<>>
    /\ version = 0
    /\ unbumped = 0
    /\ entry = NoEntry
    /\ builder = Away

-----------------------------------------------------------------------------
(* The promotions table. *)

\* The promotions of a product, by either scope, that are not cancelled and run at t.
Active(x, t) ==
    {i \in DOMAIN promo : /\ ~promo[i].cancelled
                          /\ promo[i].starts <= t /\ t < promo[i].ends
                          /\ promo[i].target \in {x, Home[x]}}

\* The last created one decides.
PriceAt(t) == [x \in Shows(view) |-> Max(Active(x, t) \union {0})]

\* Whether the entry shows a product with this target.
Affects(target) == \E x \in Shows(view) : target \in {x, Home[x]}

Commits(target) == unbumped' = unbumped + (IF Affects(target) THEN 1 ELSE 0)

\* createProduct, or a batch of a worker, which deletes nothing. A slug has no version.
Insert ==
    /\ born = Never /\ clock > 0
    /\ born' = clock
    /\ undeleted' \in BOOLEAN /\ (undeleted' => view \in Product)
    /\ unbumped' = unbumped + (IF view \in Product THEN 1 ELSE 0)
    /\ UNCHANGED <<view, clock, promo, version, entry, builder>>

\* Best effort, after the bump.
Delete ==
    /\ undeleted /\ unbumped = 0
    /\ undeleted' = FALSE
    /\ entry' \in {NoEntry, entry}
    /\ UNCHANGED <<view, clock, born, promo, version, unbumped, builder>>

\* A promotion may start in the past and may even have ended. (Bound: promotions of what
\* exists from the start; a slug's entry has none.)
Create(w, target) ==
    /\ born = 0 /\ view # "slug"
    /\ Len(promo) < MaxPromos
    /\ promo' = Append(promo, [starts |-> w[1], ends |-> w[2], target |-> target, cancelled |-> FALSE])
    /\ Commits(target)
    /\ UNCHANGED <<view, clock, born, undeleted, version, entry, builder>>

Cancel(i) ==
    /\ ~promo[i].cancelled
    /\ promo' = [promo EXCEPT ![i].cancelled = TRUE]
    /\ Commits(promo[i].target)
    /\ UNCHANGED <<view, clock, born, undeleted, version, entry, builder>>

Bump ==
    /\ unbumped > 0
    /\ unbumped' = unbumped - 1
    /\ version' = version + 1
    /\ UNCHANGED <<view, clock, born, undeleted, promo, entry, builder>>

-----------------------------------------------------------------------------
(* The cached entry. *)

\* A "not found" and a slug carry no version.
Accepted == entry # NoEntry /\ (~entry.found \/ view = "slug" \/ entry.version = version)

\* A request finds no entry it accepts, and takes the lock.
Miss ==
    /\ builder.at = "away"
    /\ ~Accepted
    /\ builder' = [builder EXCEPT !.at = "missed"]
    /\ UNCHANGED <<view, clock, born, undeleted, promo, version, unbumped, entry>>

\* The build fixes the instant it prices for.
Begin ==
    /\ builder.at = "missed"
    /\ builder' = [builder EXCEPT !.at = IF Single THEN "lookup" ELSE "version", !.asOf = clock]
    /\ UNCHANGED <<view, clock, born, undeleted, promo, version, unbumped, entry>>

\* A product's category, or a slug's.
Lookup ==
    /\ builder.at = "lookup"
    /\ builder' = [builder EXCEPT !.at = IF born # Never /\ view \in Product THEN "version" ELSE "store",
                                  !.found = born # Never]
    /\ UNCHANGED <<view, clock, born, undeleted, promo, version, unbumped, entry>>

ReadVersion ==
    /\ builder.at = "version"
    /\ builder' = [builder EXCEPT !.at = "page", !.version = version]
    /\ UNCHANGED <<view, clock, born, undeleted, promo, version, unbumped, entry>>

\* The page, or the product, priced for that instant.
FetchPage ==
    /\ builder.at = "page"
    /\ builder' = [builder EXCEPT !.at = "boundary", !.price = PriceAt(builder.asOf)]
    /\ UNCHANGED <<view, clock, born, undeleted, promo, version, unbumped, entry>>

StartsLater(i, t) == promo[i].starts > t

EndsLater(i, t) == promo[i].starts <= t /\ promo[i].ends > t

\* Mutant: a category's listing depends on the category's promotions only.
CategoryOnly(target) == target = view \/ view = "all" \/ (view \in Product /\ target = Home[view])

\* The target clause of nextPromotionBoundary, for a product, the whole listing and a category.
InScope(target) ==
    \/ view \in Product /\ target \in {view, Home[view]}
    \/ view = "all"
    \/ view \in Category /\ target \in {view} \union {x \in Product : Home[x] = view}

\* The next start of a scheduled promotion or end of a running one, Never without one.
Boundaries(t) ==
    LET live == {i \in DOMAIN promo : ~promo[i].cancelled /\ InScope(promo[i].target)} IN
    {promo[i].starts : i \in {j \in live : StartsLater(j, t)}}
      \union {promo[i].ends : i \in {j \in live : EndsLater(j, t)}}
NextBoundary(t) == Min(Boundaries(t) \union {Never})

FetchBoundary ==
    /\ builder.at = "boundary"
    /\ builder' = [builder EXCEPT !.at = "store", !.boundary = NextBoundary(builder.asOf)]
    /\ UNCHANGED <<view, clock, born, undeleted, promo, version, unbumped, entry>>

\* Mutant: a fraction of a second is dropped.
WholeSeconds(ticks) == ticks \div Second

Seconds(ticks) == (ticks + Second - 1) \div Second

\* Mutant: an entry without a boundary lives as long as it takes.
TtlUncapped(asOf, boundary) == Max({1, Seconds(boundary - asOf)})

Ttl(asOf, boundary) == Max({1, Min({MaxTtl, Seconds(boundary - asOf)})})

\* Mutant: a "not found" is kept like anything else.
NotFoundKept(b) == Ttl(b.asOf, b.boundary)

\* What the build asks for: a slug that was found has no boundary.
EntryTtl(b) == IF b.found THEN Ttl(b.asOf, b.boundary) ELSE NotFoundTtl

\* SET EX counts from when it takes effect.
Store ==
    /\ builder.at = "store"
    /\ entry' = [found |-> builder.found, price |-> builder.price, version |-> builder.version, asOf |-> builder.asOf, stored |-> clock,
                 expires |-> clock + EntryTtl(builder) * Second]
    /\ builder' = Away
    /\ UNCHANGED <<view, clock, born, undeleted, promo, version, unbumped>>

\* The build or the SET fails, or its process dies.
Abandon ==
    /\ builder.at # "away"
    /\ builder' = Away
    /\ UNCHANGED <<view, clock, born, undeleted, promo, version, unbumped, entry>>

\* Time passes, between any two steps; Redis drops the entry when its time is over.
Passes ==
    /\ clock < MaxClock
    /\ clock' = clock + 1
    /\ entry' = IF entry.expires = clock + 1 THEN NoEntry ELSE entry
    /\ UNCHANGED <<view, born, undeleted, promo, version, unbumped, builder>>

Next ==
    \/ \E w \in Windows, target \in Targets : Create(w, target)
    \/ \E i \in DOMAIN promo : Cancel(i)
    \/ Insert \/ Delete \/ Bump \/ Miss \/ Begin \/ Lookup \/ ReadVersion \/ FetchPage \/ FetchBoundary \/ Store \/ Abandon \/ Passes

Spec == Init /\ [][Next]_vars

-----------------------------------------------------------------------------
(* Properties. *)

\* A price in the cache is out of date only for a moment: apart from writes whose bump
\* is due, what an accepted entry shows was right less than a second, and the time its
\* build took, ago. The rounding of the time to live and its counting from the SET cost
\* no more than that; no start or end of a promotion that the entry depends on is missed.
PriceWasRight ==
    Accepted /\ entry.found /\ unbumped = 0 =>
        \E t \in clock - (Second - 1) - (entry.stored - entry.asOf) .. clock : PriceAt(t) = entry.price

\* An entry is dropped for one of two reasons: it was stored MaxTtl ago, or a promotion
\* it depends on has started or ended since it was built. The cap never costs a rebuild
\* that shows the same promotions. (Or it is deleted when its product was created.)
DroppedForAReason ==
    [][ entry # NoEntry /\ entry.found /\ entry' = NoEntry =>
            \/ undeleted
            \/ clock' >= entry.stored + MaxTtl * Second
            \/ \E i \in DOMAIN promo :
                  /\ Affects(promo[i].target)
                  /\ {promo[i].starts, promo[i].ends} \intersect (entry.asOf + 1 .. clock') # {} ]_vars

\* A cached "not found" outlives the insert that belies it by less than its time to live
\* and the time its build took, although nothing invalidates it: the delete of
\* createProduct may fail or come before the entry is stored, and a worker that inserts
\* a product or a category deletes nothing.
NotFoundIsBrief ==
    entry # NoEntry /\ ~entry.found /\ born # Never =>
        entry.asOf <= born /\ clock - born < NotFoundTtl * Second + (entry.stored - entry.asOf)
=============================================================================
