--------------------------- MODULE MCSigningKeys ---------------------------
(* Small instances of SigningKeys for TLC. *)
EXTENDS SigningKeys

CONSTANTS i1, i2, r1, r2
=============================================================================
