----------------------------- MODULE MCLockNews -----------------------------
(* A slot and a team lock for TLC. *)
EXTENDS LockNews

CONSTANTS s1, s2, t
=============================================================================
