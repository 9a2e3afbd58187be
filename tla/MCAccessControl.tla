--------------------------- MODULE MCAccessControl ---------------------------
(* An administrator and another user for TLC. *)
EXTENDS AccessControl

CONSTANTS a, u, r1, r2
=============================================================================
