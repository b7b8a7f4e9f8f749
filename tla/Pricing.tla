------------------------------ MODULE Pricing ------------------------------
(***************************************************************************)
(* One product's price, from the vendor's text to the effective price of a *)
(* promotion: the pipeline every vendor row goes through, the column it is *)
(* stored in, the database's discount expression and the load client's     *)
(* recomputation of it.                                                    *)
(*                                                                         *)
(* Cents and percentages are integers, a percentage in hundredths of a     *)
(* percent. A money text is the number before the point and the digits     *)
(* after it. The code multiplies cents by a margin in double arithmetic:   *)
(* for amounts below ten million its error is smaller than the distance    *)
(* between two results, so it can only show when the exact result is half  *)
(* a cent, and then either neighbour may come out.                         *)
(***************************************************************************)
EXTENDS Integers, Sequences

CONSTANTS
    VendorPrices,   \* texts of the vendor_price column
    BasePrices,     \* texts of basePrice in POST /products
    Promotions,     \* discounts asked for in POST /promotions
    Categories,     \* pricing columns of the categories' rows
    MaxWhole,       \* bound: the largest whole amount of a text
    MaxMargin       \* bound: the largest margin_pct, a numeric(6,2)

Margins == -MaxMargin .. MaxMargin
MoneyText == [whole : 0 .. MaxWhole, frac : {digits \in Seq(0 .. 9) : Len(digits) <= 2}]
Promotion == [type : {"percentage", "fixed"}, value : MoneyText]
Category == [margin : Margins, floor : MoneyText, ceiling : MoneyText]

ASSUME AmountsAssumption == MaxWhole \in Nat /\ MaxMargin \in Nat
ASSUME PricesAssumption == VendorPrices \subseteq MoneyText /\ BasePrices \subseteq MoneyText
ASSUME RequestsAssumption == Promotions \subseteq Promotion /\ Categories \subseteq Category

VARIABLES
    base,       \* the product's base_price, as the text read back
    quote,      \* the vendor row the base price comes from; empty when it was created through the API
    promotions  \* the promotions that target the product and are not cancelled

pricingVars == <<base, quote, promotions>>

-----------------------------------------------------------------------------
(* Money. *)

\* frac.padEnd(2, '0')
Padded(digits) == [i \in 1 .. 2 |-> IF i <= Len(digits) THEN digits[i] ELSE 0]

ToCents(text) == text.whole * 100 + Padded(text.frac)[1] * 10 + Padded(text.frac)[2]

FromCents(cents) == [whole |-> cents \div 100, frac |-> <<(cents % 100) \div 10, cents % 10>>]

\* A numeric(12,2) column gives every text two decimals.
Column(text) == FromCents(ToCents(text))

RoundUpTo99(cents) ==
    LET candidate == (cents \div 100) * 100 + 99 IN
    IF candidate >= cents THEN candidate ELSE candidate + 100

AtLeast(cents, floor) == IF cents >= floor THEN cents ELSE floor
AtMost(cents, ceiling) == IF cents <= ceiling THEN cents ELSE ceiling
ClampCents(cents, floor, ceiling) == AtMost(AtLeast(cents, floor), ceiling)

-----------------------------------------------------------------------------
(* The pricing pipeline. *)

CategoryPricing(row) ==
    [margin |-> row.margin, floor |-> ToCents(row.floor), ceiling |-> ToCents(row.ceiling)]

\* n ten-thousandths of a cent in whole cents.
Rounded(n) ==
    IF n % 10000 = 5000 THEN {n \div 10000, n \div 10000 + 1}
    ELSE IF n % 10000 > 5000 THEN {n \div 10000 + 1}
    ELSE {n \div 10000}

WithMargin(cents, margin) == Rounded(cents * (10000 + margin))

\* Mutant: the floor and the ceiling before the price point.
ClampedFirst(text, row) ==
    LET vendor == ToCents(text)
        pricing == CategoryPricing(row)
    IN  IF vendor <= 0 THEN {}
        ELSE {RoundUpTo99(ClampCents(c, pricing.floor, pricing.ceiling)) : c \in WithMargin(vendor, pricing.margin)}

\* The base prices a vendor row can get; none when the row is rejected.
PriceVendorRow(text, row) ==
    LET vendor == ToCents(text)
        pricing == CategoryPricing(row)
    IN  IF vendor <= 0 THEN {}
        ELSE {ClampCents(RoundUpTo99(c), pricing.floor, pricing.ceiling) : c \in WithMargin(vendor, pricing.margin)}

-----------------------------------------------------------------------------
(* Discounts. *)

\* round(n / 10000, 2) of a numeric: half a cent goes away from zero.
RoundedHalfAway(n) ==
    IF n >= 0 THEN (n + 5000) \div 10000 ELSE -((5000 - n) \div 10000)

\* What the database answers for a product under a promotion.
EffectivePrice(text, p) ==
    IF p.type = "percentage" THEN RoundedHalfAway(ToCents(text) * (10000 - ToCents(p.value)))
    ELSE AtLeast(ToCents(text) - ToCents(p.value), 0)

\* Mutant: no half cent.
TruncatedCents(cents, basisPoints) == (cents * (10000 - basisPoints)) \div 10000

PercentageOffCents(cents, basisPoints) == (cents * (10000 - basisPoints) + 5000) \div 10000

\* What the load client expects of it.
DiscountedPrice(text, p) ==
    IF p.type = "percentage" THEN PercentageOffCents(ToCents(text), ToCents(p.value))
    ELSE AtLeast(ToCents(text) - ToCents(p.value), 0)

-----------------------------------------------------------------------------
PricingTypeOK ==
    /\ base \in MoneyText
    /\ quote \in SUBSET [price : VendorPrices, category : Categories]
    /\ promotions \in SUBSET Promotions

\* The product as POST /products creates it.
PricingInit ==
    /\ \E text \in BasePrices : base = Column(text)
    /\ quote = {}
    /\ promotions = {}

\* A vendor file's row for the product, in any of its categories.
Ingest ==
    /\ \E text \in VendorPrices, row \in Categories :
          \E cents \in PriceVendorRow(text, row) :
              /\ base' = FromCents(cents)
              /\ quote' = {[price |-> text, category |-> row]}
    /\ UNCHANGED promotions

\* Mutant: no bound on a percentage.
AnyDiscount(p) == TRUE

ValidDiscount(p) == p.type = "percentage" => ToCents(p.value) <= 10000

Promote ==
    /\ \E p \in Promotions :
          /\ ValidDiscount(p)
          /\ promotions' = promotions \union {p}
    /\ UNCHANGED <<base, quote>>

Cancel ==
    /\ \E p \in promotions : promotions' = promotions \ {p}
    /\ UNCHANGED <<base, quote>>

PricingNext == Ingest \/ Promote \/ Cancel

PricingSpec == PricingInit /\ [][PricingNext]_pricingVars

-----------------------------------------------------------------------------
(* What the prices promise. *)

\* The amount a decimal text stands for, in cents.
Worth(text) ==
    text.whole * 100
    + (IF Len(text.frac) >= 1 THEN text.frac[1] * 10 ELSE 0)
    + (IF Len(text.frac) >= 2 THEN text.frac[2] ELSE 0)

\* The stored price covers the vendor's price and the margin, up to the half cent of the rounding.
CoversMargin(cents, q) ==
    cents * 10000 + 5000 >= Worth(q.price) * (10000 + q.category.margin)

\* And asks less than one unit of money more.
NotTooDear(cents, q) ==
    (cents - 100) * 10000 < Worth(q.price) * (10000 + q.category.margin)

FollowsRule(cents, q) ==
    LET floor == Worth(q.category.floor)
        ceiling == Worth(q.category.ceiling)
    IN  /\ cents <= ceiling
        /\ cents < ceiling => cents >= floor /\ CoversMargin(cents, q)
        /\ cents \notin {floor, ceiling} => cents % 100 = 99 /\ NotTooDear(cents, q)

\* A base price that came from a vendor row, read back from the column: no
\* higher than the category's ceiling; at the ceiling, or no lower than the
\* floor and covering the row's price and margin; and off the floor and the
\* ceiling it is a .99 price, less than one unit above what it has to cover.
\* (priceVendorRow: margin, then price point, then floor, then ceiling; the
\* text that fromCents stores.)
PriceFollowsRule == \A q \in quote : FollowsRule(Worth(base), q)

\* Whatever live promotion a read applies, the effective price is neither
\* negative nor above the base price (the percentage check of
\* PromotionService.create and greatest() in effectivePriceExpr).
DiscountInRange ==
    \A p \in promotions : EffectivePrice(base, p) \in 0 .. Worth(base)

\* The integer arithmetic of the load client gives the cent the database's
\* round() gives, so a listing that is right is never reported as stale
\* (discountedPrice and effectivePriceExpr).
ClientAgrees ==
    \A p \in promotions : DiscountedPrice(base, p) = EffectivePrice(base, p)
=============================================================================
