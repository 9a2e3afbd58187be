------------------------------ MODULE MCTeamShelf ------------------------------
(* Three team ids, one of them with subsidies, for TLC. *)
EXTENDS TeamShelf, TLC

CONSTANTS a, b, c, u, g, w

AnyId == Permutations(Ids)
=============================================================================
