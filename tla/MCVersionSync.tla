---------------------------- MODULE MCVersionSync ----------------------------
(* A page, and changes from elsewhere, for TLC. *)
EXTENDS VersionSync

CONSTANTS a, b, s1, s2
=============================================================================
