--------------------------- MODULE MCChunkReader ---------------------------
(* Small instances of ChunkReader for TLC. *)
EXTENDS ChunkReader
=============================================================================
