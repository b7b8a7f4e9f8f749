--------------------------- MODULE MCStockCounters ---------------------------
(* Small instances of StockCounters for TLC. *)
EXTENDS StockCounters, TLC

\* Writers are interchangeable, and so are readers.
Symmetry == Permutations(Writer) \union Permutations(Reader)

AllFailures == {"set", "del", "fill", "get", "crash"}
Crashes == {"crash"}
=============================================================================
