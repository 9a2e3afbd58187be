---------------------------- MODULE MCQuickReserve ----------------------------
(* A team of three slots, the last one preferred for T, for TLC. *)
EXTENDS QuickReserve

CONSTANTS t1, u1, tank, blade

Slots     == {<<t1, 0>>, <<t1, 1>>, <<t1, 2>>}
MCTeamOf  == [s \in Seats |-> s[1]]
MCIndexOf == [s \in Seats |-> s[2]]
ArtRules  == {{tank}, {blade}}
=============================================================================
