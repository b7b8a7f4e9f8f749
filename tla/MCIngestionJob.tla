--------------------------- MODULE MCIngestionJob ---------------------------
(* Small instances of IngestionJob for TLC. *)
EXTENDS IngestionJob, TLC

\* Message slots are interchangeable, event slots too.
Symmetry == Permutations(MsgId) \union Permutations(EventId)
=============================================================================
