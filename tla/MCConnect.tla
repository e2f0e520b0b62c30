------------------------------ MODULE MCConnect -----------------------------
(* Three requests of one application page, one of which does not decode.     *)
EXTENDS Connect

CONSTANTS r1, r2, r3
=============================================================================
