----------------------------- MODULE SlotRegister -----------------------------
(***************************************************************************)
(* What the signup board promises about who sits where: every seat is a    *)
(* register, a ticket is good for one change of the one seat it was issued *)
(* for, and the ticket of an ordinary user can only write that user's own  *)
(* name or vacate the seat.  Locks, timeouts, validation and transactions  *)
(* are the business of SlotBoard, which implements this.                   *)
(***************************************************************************)
CONSTANTS Seats, Users, Admins, NoOne

VARIABLES
    cell,       \* who sits on each seat
    tickets,    \* the tickets handed out: [tok, seat, qq]
    used        \* tokens of the tickets that have been used up

vars == <<cell, tickets, used>>

Init ==
    /\ cell = [s \in Seats |-> NoOne]
    /\ tickets = {}
    /\ used = {}

\* A new ticket; its token was never seen before.
Issue ==
    /\ \E k \in tickets' :
          /\ tickets' = tickets \cup {k}
          /\ k.seat \in Seats /\ k.qq \in Users
          /\ k.tok \notin used
          /\ \A j \in tickets : j.tok # k.tok
    /\ UNCHANGED <<cell, used>>

\* A mutation uses its ticket up.
Use(k, who) ==
    /\ k.tok \notin used
    /\ who \in {k.qq, NoOne} \/ k.qq \in Admins
    /\ used' = used \cup {k.tok}
    /\ cell' = [cell EXCEPT ![k.seat] = who]
    /\ UNCHANGED tickets

\* An administrator assigns one seat without a ticket,
Assign(s, who) ==
    /\ cell' = [cell EXCEPT ![s] = who]
    /\ UNCHANGED <<tickets, used>>

\* or empties many, removing or replacing their team.
Empty(S) ==
    /\ cell' = [s \in Seats |-> IF s \in S THEN NoOne ELSE cell[s]]
    /\ UNCHANGED <<tickets, used>>

Next ==
    \/ Issue
    \/ \E k \in tickets, who \in Users \cup {NoOne} : Use(k, who)
    \/ \E s \in Seats, who \in Users \cup {NoOne} : Assign(s, who)
    \/ \E S \in SUBSET Seats : Empty(S)

Spec == Init /\ [][Next]_vars
=============================================================================
