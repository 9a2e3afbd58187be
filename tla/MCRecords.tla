------------------------------ MODULE MCRecords ------------------------------
(* Logs of two teams, notices to a member, backups and a reader, for TLC. *)
EXTENDS Records, TLC

CONSTANTS t, x, u

AnyTeam == Permutations(Teams)
=============================================================================
