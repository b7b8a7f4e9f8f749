SPECIFICATION Spec
CONSTANTS
  Product = {"p", "q"}
  Category = {"a", "b"}
  Home <- Homes
  Views = {"p", "a", "all", "slug"}
  Targets = {"p", "a", "q"}
  Windows <- SomeWindows
  Second = 2
  MaxTtl = 2
  NotFoundTtl = 1
  MaxClock = 4
  MaxPromos = 2
INVARIANTS
  TypeOK
  PriceWasRight
  NotFoundIsBrief
PROPERTIES
  DroppedForAReason
CHECK_DEADLOCK FALSE
