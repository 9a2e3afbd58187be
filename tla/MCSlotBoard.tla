----------------------------- MODULE MCSlotBoard -----------------------------
(* Small boards for TLC. *)
EXTENDS SlotBoard, TLC

CONSTANTS t1, u1, u2, p1, p2, tank

OneSeat == {t1} \X {0}
MCTeamOf == [s \in Seats |-> s[1]]

AnyProc == Permutations(Procs)
=============================================================================
