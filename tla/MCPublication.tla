---------------------------- MODULE MCPublication ----------------------------
(* Two posts and a page for TLC. *)
EXTENDS Publication

CONSTANTS x1, x2, g
=============================================================================
