--------------------------- MODULE MCReleaseLookup ---------------------------
(* Small instances of ReleaseLookup. *)
EXTENDS ReleaseLookup
=============================================================================
