--------------------------- MODULE MCUploadClient ---------------------------
(* Small instances of UploadClient for TLC. *)
EXTENDS UploadClient
=============================================================================
