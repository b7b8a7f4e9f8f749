---------------------------- MODULE MCReadThrough ----------------------------
(* Small instances of ReadThrough for TLC. *)
EXTENDS ReadThrough, TLC

\* Requests are interchangeable.
Symmetry == Permutations(Reader)
=============================================================================
