------------------------------ MODULE MCRestores ------------------------------
(* A team of one slot, of which an archive and a backup are kept, for TLC. *)
EXTENDS Restores

CONSTANTS t1, u1, p1, r1, r2, tank

OneSeat == {t1} \X {0}
MCTeamOf == [s \in Seats |-> s[1]]
=============================================================================
