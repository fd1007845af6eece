--------------------------- MODULE MCRealNumbers ---------------------------
(* Small instances of RealNumbers for TLC. *)
EXTENDS RealNumbers

MCRationals == {-1, 1}
=============================================================================
