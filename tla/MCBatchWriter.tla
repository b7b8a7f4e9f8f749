--------------------------- MODULE MCBatchWriter ---------------------------
(* Small instances of BatchWriter for TLC. *)
EXTENDS BatchWriter, TLC

Symmetry == Permutations(Delivery)

\* Two names of one slug.
Slugs == [n \in {"Shoes", "shoes"} |-> "shoes"]

\* Good and refused rows of one SKU, a row of another SKU with the other name, and one of each
\* kind that is rejected.
Rows == {[kind |-> k, sku |-> "a", name |-> "Shoes"] : k \in {"good", "refused", "malformed", "garbled"}}
          \union {[kind |-> k, sku |-> "b", name |-> "shoes"] : k \in {"good", "invalid"}}
=============================================================================
