SPECIFICATION PricingSpec
CONSTANTS
    VendorPrices <- VendorTexts
    BasePrices <- BaseTexts
    Promotions <- Discounts
    Categories <- Rows
    MaxWhole = 9999999
    MaxMargin = 999999
INVARIANTS
    PriceFollowsRule
    DiscountInRange
    ClientAgrees
