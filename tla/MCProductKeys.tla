--------------------------- MODULE MCProductKeys ---------------------------
(* A small instance of ProductKeys for TLC. *)
EXTENDS ProductKeys

MCId == {3, 6, 7}
=============================================================================
