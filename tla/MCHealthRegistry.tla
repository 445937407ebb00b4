--------------------------- MODULE MCHealthRegistry ---------------------------
(* Two components. *)
EXTENDS HealthRegistry

CONSTANTS c1, c2

MCComps == {c1, c2}
=============================================================================
