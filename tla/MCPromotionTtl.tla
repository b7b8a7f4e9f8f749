--------------------------- MODULE MCPromotionTtl ---------------------------
(* Small instances of PromotionTtl for TLC. *)
EXTENDS PromotionTtl

\* A product in either category.
Homes == [x \in {"p", "q"} |-> IF x = "p" THEN "a" ELSE "b"]

\* Under way from the start, and starting within the first second and after it.
SomeWindows == {<<0, 2>>, <<1, 4>>, <<3, 5>>}
=============================================================================
