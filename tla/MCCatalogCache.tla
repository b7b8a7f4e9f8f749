--------------------------- MODULE MCCatalogCache ---------------------------
(* Small instances of CatalogCache for TLC. *)
EXTENDS CatalogCache, TLC

\* Writers are interchangeable, and so are requests and categories: there is a scene
\* for the listing of each category.
Symmetry == Permutations(Writer) \union Permutations(Request) \union Permutations(Category)

\* The product's entry, with calls that fail, when promotions are made and batches move
\* the product, and when promotions move (cancel bumps what promote bumps: it is left to
\* the listings); the listings, with a loss of Redis' data and a promotion that exists.
ProductScene(op) == [view |-> "product", ops |-> {"promote", "create", op}, faults |-> {"crash", "bump"}]
ListingScene(c) == [view |-> c, ops |-> Operation \ {"promote"}, faults |-> {"flush"}]
CatalogScenes == {ProductScene("ingest"), ProductScene("assign")} \union {ListingScene(c) : c \in Category}

PromotionScenes == {[view |-> c, ops |-> {"promote", "cancel", "assign"}, faults |-> {}] : c \in Category}
IngestScenes == {[view |-> c, ops |-> {"ingest"}, faults |-> {"crash"}] : c \in Category}
=============================================================================
