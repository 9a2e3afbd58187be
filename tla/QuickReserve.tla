----------------------------- MODULE QuickReserve -----------------------------
(***************************************************************************)
(* Reserving many slots at once: quickReserve of backend-cpp/src/main.cpp, *)
(* over the board of SlotBoard, between signups and the other steps of     *)
(* administration.                                                         *)
(*                                                                         *)
(* quickReserve is told how many slots of a kind there should be and adds  *)
(* or resets slots until that is so, in an order of preference.  It writes *)
(* the whole team back, like setSlotRole, and looks at no slot lock.       *)
(*                                                                         *)
(* Here a signup is its transaction alone.  SlotBoard shows that nothing   *)
(* else of the lock protocol touches the database, and any user can come   *)
(* to hold a ticket for any slot.                                          *)
(***************************************************************************)
EXTENDS SlotBoard, FiniteSets

CONSTANTS
    IndexOf,    \* the slot index of a seat
    TankArts,   \* martial arts of role T; the other TnArts are healers
    TankFirst,  \* slot indices 20..24, where T slots go first
    HealFirst,  \* slot indices 15..19, where healer slots go first
    Boss        \* the reserve type boss; the others are rules

ASSUME SeatsAssumption == IsFiniteSet(Seats)
ASSUME IndexAssumption ==
    /\ IndexOf \in [Seats -> Nat]
    /\ \A x, y \in Seats : TeamOf[x] = TeamOf[y] /\ IndexOf[x] = IndexOf[y] => x = y
ASSUME PreferredAssumption == TankFirst \cup HealFirst \subseteq 0 .. 24
ASSUME TankArtsAssumption == TankArts \subseteq TnArts

Tanks   == TankArts
Healers == TnArts \ TankArts
DpsArts == Arts \ TnArts

\* reserveType, with its martial art: T, healer, a DPS art, or boss
ReserveTypes == ({Tanks, Healers} \ {{}}) \cup {{x} : x \in DpsArts} \cup {Boss}

ASSUME ReserveTypesAssumption == ReserveTypes \ {Boss} \subseteq Rules /\ Boss \notin Rules

-----------------------------------------------------------------------------
\* quickReserveOrder, as a rank: the preferred slots, then the others
Preferred(type) == IF type = Tanks THEN TankFirst
                   ELSE IF type = Healers THEN HealFirst ELSE {}

Rank(type, s) ==
    IF IndexOf[s] \in Preferred(type) THEN IndexOf[s] ELSE IndexOf[s] + 25

\* mutant: one too many
FirstPlusOne(type, n, S) ==
    {s \in S : Cardinality({x \in S : Rank(type, x) < Rank(type, s)}) <= n}

\* the n slots of S that come first
First(type, n, S) ==
    {s \in S : Cardinality({x \in S : Rank(type, x) < Rank(type, s)}) < n}

\* mutant: taken slots with the rule are counted as well
ReservedAsAnyStatus(t, type) ==
    IF type = Boss THEN reserved \cap SeatsOf(t)
    ELSE {s \in SeatsOf(t) : seat[s].rule # NoRule /\ seat[s].rule \subseteq type}

\* the slots quickReserve counts: for boss the whole reserved list, members
\* or not; otherwise the slots fixed for this type that nobody has taken
ReservedAs(t, type) ==
    IF type = Boss THEN reserved \cap SeatsOf(t)
    ELSE {s \in SeatsOf(t) : /\ seat[s].status = "fixed"
                             /\ seat[s].rule # NoRule /\ seat[s].rule \subseteq type}

Free(t) == {s \in SeatsOf(t) : seat[s].status = "empty" /\ s \notin reserved}

Reserve(type) == IF type = Boss THEN ReservedSeat ELSE FixedSeat(type)

\* mutant: what is taken away stays on the reserved list
StoreReservedKeepingList(t, type, gone, new) ==
    StoreTeam(t, [s \in Seats |-> IF s \in gone THEN EmptySeat
                                  ELSE IF s \in new THEN Reserve(type) ELSE seat[s]],
              IF type = Boss THEN reserved \cup new ELSE reserved)

\* the team with the slots gone reset and the slots new reserved
StoreReserved(t, type, gone, new) ==
    StoreTeam(t, [s \in Seats |-> IF s \in gone THEN EmptySeat
                                  ELSE IF s \in new THEN Reserve(type) ELSE seat[s]],
              IF type = Boss THEN (reserved \ gone) \cup new ELSE reserved)

\* quickReserve
Set(t, type, count) ==
    LET held == ReservedAs(t, type)
    IN  /\ DbFree
        /\ t \in teams
        /\ t \in onlyTn => type \notin {{x} : x \in DpsArts}
        /\ IF count < Cardinality(held)
           THEN StoreReserved(t, type, held \ First(type, count, held), {})
           ELSE StoreReserved(t, type, {}, First(type, count - Cardinality(held), Free(t)))
        /\ UNCHANGED <<teams, onlyTn, uniqueQq, runtime, requests>>

-----------------------------------------------------------------------------
(* The transactions of SlotBoard's mutations.                               *)

Ask(op, s, actor, member) ==
    [op |-> op, ticket |-> [tok |-> 1, seat |-> s, qq |-> actor],
     expected |-> MemberQq(seat[s].member), member |-> member]

Write(r, row) ==
    /\ DbFree /\ Authorised(r) /\ Accepted(r)
    /\ seat' = [seat EXCEPT ![r.ticket.seat] = row]
    /\ UNCHANGED <<teams, onlyTn, uniqueQq, reserved, runtime, requests>>

Save(s, actor, m) == Write(Ask("save", s, actor, m), TakenSeat(m, seat[s].rule))

Leave(s, actor) == Write(Ask("leave", s, actor, NoMember), Vacated(s))

Signup ==
    \E s \in Seats, q \in Users : Leave(s, q) \/ \E m \in Members : Save(s, q, m)

QuickReserve ==
    \E t \in Teams, type \in ReserveTypes :
        \E count \in 0 .. Cardinality(SeatsOf(t)) : Set(t, type, count)

ReserveNext == Signup \/ QuickReserve \/ AdminStep

ReserveSpec == Init /\ [][ReserveNext]_vars

-----------------------------------------------------------------------------
(* What should hold.                                                        *)

\* A quick reservation ends with the number of slots it was asked for, or
\* with no free slot left: what is counted, what is added and what is taken
\* away agree, whatever signups and single reservations came before.
ReachesCount ==
    [][\A t \in Teams, type \in ReserveTypes :
          \A count \in 0 .. Cardinality(SeatsOf(t)) :
             Set(t, type, count) =>
                \/ Cardinality(ReservedAs(t, type)') = count
                \/ Cardinality(ReservedAs(t, type)') < count /\ Free(t)' = {}]_vars

\* A quick reservation unseats nobody, with one exception that the code makes
\* without looking: a smaller number of boss slots resets the last slots of
\* the reserved list, whoever has signed up there.
UnseatsOnlyBossSlots ==
    [][\A s \in Seats :
          seat[s].member \notin {NoMember, seat'[s].member} =>
             \A t \in Teams, type \in ReserveTypes :
                \A count \in 0 .. Cardinality(SeatsOf(t)) :
                   Set(t, type, count) => type = Boss /\ s \in reserved /\ s \notin reserved']_vars
=============================================================================
