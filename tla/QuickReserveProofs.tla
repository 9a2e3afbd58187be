--------------------------- MODULE QuickReserveProofs ---------------------------
(***************************************************************************)
(* Proofs about QuickReserve, for any teams, slots, users and rules: what  *)
(* quickReserve counts, adds and takes away agree, and it leaves the rows  *)
(* of the board in the order in which signups and setSlotRole need them.   *)
(*                                                                         *)
(* The counts rest on the rows being in order, which is the invariant of   *)
(* SlotBoardProofs: a slot fixed for a type is on no reserved list, and a  *)
(* free slot is neither, so that storing the team changes the slots that   *)
(* were chosen and no other.                                               *)
(***************************************************************************)
EXTENDS QuickReserve, SlotBoardProofs, FiniteSetTheorems, WellFoundedInduction

-----------------------------------------------------------------------------
(* The first slots in the order of preference.                              *)

\* quickReserveOrder: no two slots of a team have the same place.
LEMMA RanksDiffer ==
    ASSUME NEW t \in Teams, NEW type
    PROVE  /\ \A s \in SeatsOf(t) : Rank(type, s) \in Nat
           /\ \A x, y \in SeatsOf(t) : x # y => Rank(type, x) # Rank(type, y)
<1>1. Preferred(type) \subseteq 0 .. 24
  BY PreferredAssumption DEF Preferred
<1>2. \A s \in SeatsOf(t) : s \in Seats /\ IndexOf[s] \in Nat /\ TeamOf[s] = t
  BY IndexAssumption DEF SeatsOf
<1>3. ASSUME NEW x \in SeatsOf(t), NEW y \in SeatsOf(t), Rank(type, x) = Rank(type, y) PROVE x = y
  <2>1. IndexOf[x] = IndexOf[y]
    BY <1>1, <1>2, <1>3 DEF Rank
  <2> QED  BY <1>2, <2>1, IndexAssumption
<1>4. \A s \in SeatsOf(t) : Rank(type, s) \in Nat
  BY <1>2 DEF Rank
<1> QED  BY <1>3, <1>4

\* How many slots of S come before s.
Before(type, S, s) == Cardinality({x \in S : Rank(type, x) < Rank(type, s)})

LEMMA BeforeGrows ==
    ASSUME NEW t \in Teams, NEW type, NEW S \in SUBSET SeatsOf(t)
    PROVE  /\ IsFiniteSet(S)
           /\ \A s \in S : Before(type, S, s) \in Nat /\ Before(type, S, s) < Cardinality(S)
           /\ \A x, y \in S : Rank(type, x) < Rank(type, y) =>
                                  Before(type, S, x) < Before(type, S, y)
<1>1. IsFiniteSet(S)
  BY SeatsAssumption, FS_Subset DEF SeatsOf
<1>2. ASSUME NEW A, NEW B \in SUBSET S, A \subseteq B, NEW b \in B, b \notin A
      PROVE  Cardinality(A) \in Nat /\ Cardinality(B) \in Nat /\ Cardinality(A) < Cardinality(B)
  <2>1. IsFiniteSet(B) /\ A \in SUBSET B /\ A # B
    BY <1>1, <1>2, FS_Subset
  <2>2. IsFiniteSet(A) /\ Cardinality(A) <= Cardinality(B) /\ Cardinality(A) # Cardinality(B)
    BY <2>1, FS_Subset
  <2>3. Cardinality(A) \in Nat /\ Cardinality(B) \in Nat
    BY <2>1, <2>2, FS_CardinalityType
  <2> QED  BY <2>2, <2>3
<1>3. \A s \in S : Rank(type, s) \in Nat
  BY RanksDiffer
<1>4. ASSUME NEW s \in S PROVE Before(type, S, s) \in Nat /\ Before(type, S, s) < Cardinality(S)
  <2>1. PICK A : A = {x \in S : Rank(type, x) < Rank(type, s)}
    OBVIOUS
  <2>2. A \subseteq S /\ s \notin A
    BY <1>3, <2>1
  <2>3. Cardinality(A) \in Nat /\ Cardinality(A) < Cardinality(S)
    BY <1>2, <2>2
  <2> QED  BY <2>1, <2>3 DEF Before
<1>5. ASSUME NEW x \in S, NEW y \in S, Rank(type, x) < Rank(type, y)
      PROVE  Before(type, S, x) < Before(type, S, y)
  <2>1. PICK A, B : /\ A = {z \in S : Rank(type, z) < Rank(type, x)}
                    /\ B = {z \in S : Rank(type, z) < Rank(type, y)}
    OBVIOUS
  <2>2. B \in SUBSET S /\ A \subseteq B /\ x \in B /\ x \notin A
    BY <1>3, <1>5, <2>1
  <2>3. Cardinality(A) < Cardinality(B)
    BY <1>2, <2>2
  <2> QED  BY <2>1, <2>3 DEF Before
<1> QED  BY <1>1, <1>4, <1>5

\* The first n slots of S are n slots, or all of S if it has no more.
LEMMA FirstCounts ==
    ASSUME NEW t \in Teams, NEW type, NEW S \in SUBSET SeatsOf(t), NEW n \in Nat
    PROVE  /\ First(type, n, S) \subseteq S /\ IsFiniteSet(First(type, n, S))
           /\ n <= Cardinality(S) => Cardinality(First(type, n, S)) = n
           /\ Cardinality(S) <= n => First(type, n, S) = S
<1>1. PICK F \in SUBSET S : F = First(type, n, S)
  BY DEF First
<1>2. \A s \in S : s \in F <=> Before(type, S, s) < n
  BY <1>1 DEF First, Before
<1>3. IsFiniteSet(S) /\ IsFiniteSet(F) /\ Cardinality(F) \in Nat /\ Cardinality(S) \in Nat
  BY BeforeGrows, FS_Subset, FS_CardinalityType
<1>4. ASSUME Cardinality(S) <= n PROVE F = S
  BY <1>2, <1>3, <1>4, BeforeGrows
<1>5. Cardinality(F) <= n
  <2>1. PICK place : place = [s \in F |-> Before(type, S, s)]
    OBVIOUS
  <2>2. place \in [F -> 0 .. n - 1]
    BY <1>2, <2>1, BeforeGrows
  <2>3. IsFiniteSet(0 .. n - 1) /\ Cardinality(0 .. n - 1) = n
    BY FS_Interval
  <2>4. ASSUME NEW x \in F, NEW y \in F, x # y PROVE place[x] # place[y]
    <3>1. Rank(type, x) # Rank(type, y) /\ Rank(type, x) \in Nat /\ Rank(type, y) \in Nat
      BY <2>4, RanksDiffer
    <3>2. /\ Before(type, S, x) \in Nat /\ Before(type, S, y) \in Nat
          /\ Before(type, S, x) < Before(type, S, y) \/ Before(type, S, y) < Before(type, S, x)
      BY <3>1, BeforeGrows
    <3> QED  BY <2>1, <3>2
  <2>5. ~(Cardinality(0 .. n - 1) < Cardinality(F))
    BY <1>3, <2>2, <2>3, <2>4, FS_PigeonHole
  <2> QED  BY <1>3, <2>3, <2>5
<1>6. ASSUME n <= Cardinality(S) PROVE Cardinality(F) = n
  <2>1. CASE F = S
    BY <1>3, <1>5, <1>6, <2>1
  <2>2. CASE F # S
    <3>1. PICK ranks \in SUBSET Nat : ranks = {Rank(type, s) : s \in S \ F}
      BY RanksDiffer
    <3>2. PICK r \in ranks : \A q \in ranks : ~(<<q, r>> \in OpToRel(<, Nat))
      <4>1. ranks # {}
        BY <2>2, <3>1
      <4> QED  BY <4>1, NatLessThanWellFounded, WFMin
    <3>3. \A q \in ranks : ~(q < r)
      BY <3>2 DEF OpToRel
    <3>4. PICK s \in S \ F : Rank(type, s) = r
      BY <3>1
    <3>5. PICK A : A = {x \in S : Rank(type, x) < Rank(type, s)}
      OBVIOUS
    <3>6. A \in SUBSET F
      BY <3>1, <3>3, <3>4, <3>5
    <3>7. Cardinality(A) <= Cardinality(F)
      BY <1>3, <3>6, FS_Subset
    <3>8. Before(type, S, s) = Cardinality(A)
      BY <3>5 DEF Before
    <3>9. Before(type, S, s) \in Nat /\ ~(Before(type, S, s) < n)
      BY <1>2, <3>4, BeforeGrows
    <3> QED  BY <1>3, <1>5, <3>7, <3>8, <3>9
  <2> QED  BY <2>1, <2>2
<1> QED  BY <1>1, <1>3, <1>4, <1>6

-----------------------------------------------------------------------------
(* What storing the team does.                                              *)

LEMMA ReserveRow ==
    ASSUME NEW type \in ReserveTypes
    PROVE  /\ Reserve(type) \in SeatRows /\ Reserve(type).member = NoMember
           /\ type = Boss => Reserve(type) = ReservedSeat
           /\ type # Boss => type \in Rules /\ Reserve(type) = FixedSeat(type)
<1>1. CASE type = Boss
  BY <1>1, SeatRowTypes DEF Reserve, ReservedSeat
<1>2. CASE type # Boss
  BY <1>2, SeatRowTypes, ReserveTypesAssumption DEF Reserve, FixedSeat
<1> QED  BY <1>1, <1>2

\* The slots gone are reset, the slots new are reserved, the others are as they
\* were, and every row is in good order.
Stored(type, gone, new) ==
    /\ seat' \in [Seats -> SeatRows]
    /\ \A s \in Seats : seat'[s] = IF s \in gone THEN EmptySeat
                                   ELSE IF s \in new THEN Reserve(type) ELSE seat[s]
    /\ reserved' = IF type = Boss THEN (reserved \ gone) \cup new ELSE reserved
    /\ \A s \in Seats : SeatOK(seat'[s], s \in reserved')

\* That is what quickReserve does: normalisation finds nothing to put right.
LEMMA StoreEffect ==
    ASSUME SeatInv, NEW t \in Teams, NEW type \in ReserveTypes,
           NEW gone \in SUBSET ReservedAs(t, type), NEW new \in SUBSET Free(t),
           StoreReserved(t, type, gone, new)
    PROVE  Stored(type, gone, new)
<1>0. seat \in [Seats -> SeatRows] /\ reserved \subseteq Seats
  BY DEF SeatInv, TypeOK
<1>1. PICK rows : rows = [s \in Seats |-> IF s \in gone THEN EmptySeat
                                          ELSE IF s \in new THEN Reserve(type) ELSE seat[s]]
  OBVIOUS
<1>2. PICK res : res = IF type = Boss THEN (reserved \ gone) \cup new ELSE reserved
  OBVIOUS
<1>3. gone \subseteq SeatsOf(t) /\ new \subseteq SeatsOf(t) /\ SeatsOf(t) \subseteq Seats
  BY DEF ReservedAs, Free, SeatsOf
<1>4. rows \in [Seats -> SeatRows]
  BY <1>0, <1>1, SeatRowTypes, ReserveRow
<1>5. ASSUME NEW s \in Seats PROVE SeatOK(rows[s], s \in res)
  <2>1. SeatOK(seat[s], s \in reserved)
    BY DEF SeatInv
  <2>2. CASE s \in gone
    <3>1. type = Boss => s \in reserved
      BY <2>2 DEF ReservedAs
    <3>2. type # Boss => seat[s].status = "fixed"
      BY <2>2 DEF ReservedAs
    <3>3. s \notin new
      <4>1. s \in new => seat[s].status = "empty" /\ s \notin reserved
        BY DEF Free
      <4> QED  BY <3>1, <3>2, <4>1
    <3>4. s \notin res
      BY <1>2, <2>1, <2>2, <3>2, <3>3 DEF SeatOK
    <3>5. rows[s] = EmptySeat
      BY <1>1, <2>2
    <3> QED  BY <3>4, <3>5, NoValueAssumption DEF SeatOK, EmptySeat
  <2>3. CASE s \notin gone /\ s \in new
    <3>1. seat[s].status = "empty" /\ s \notin reserved
      BY <2>3 DEF Free
    <3>2. rows[s] = Reserve(type)
      BY <1>1, <2>3
    <3>3. CASE type = Boss
      <4>1. s \in res /\ rows[s] = ReservedSeat
        BY <1>2, <2>3, <3>2, <3>3, ReserveRow
      <4> QED  BY <4>1, NoValueAssumption DEF SeatOK, ReservedSeat
    <3>4. CASE type # Boss
      <4>1. s \notin res /\ rows[s] = FixedSeat(type) /\ type # NoRule
        BY <1>2, <3>1, <3>2, <3>4, ReserveRow, NoValueAssumption
      <4> QED  BY <4>1 DEF SeatOK, FixedSeat
    <3> QED  BY <3>3, <3>4
  <2>4. CASE s \notin gone /\ s \notin new
    <3>1. rows[s] = seat[s] /\ (s \in res <=> s \in reserved)
      BY <1>1, <1>2, <2>4
    <3> QED  BY <2>1, <3>1 DEF SeatOK
  <2> QED  BY <2>2, <2>3, <2>4
<1>6. PICK held : held = res \cup {s \in SeatsOf(t) : rows[s].status = "reserved"}
  OBVIOUS
<1>7. held = res
  BY <1>3, <1>5, <1>6 DEF SeatOK
<1>8. /\ reserved' = held
      /\ seat' = [s \in Seats |-> IF TeamOf[s] = t THEN NormalSeat(rows[s], s \in held) ELSE seat[s]]
  BY <1>1, <1>2, <1>6 DEF StoreReserved, StoreTeam
<1>9. ASSUME NEW s \in Seats PROVE seat'[s] = rows[s]
  <2>1. NormalSeat(rows[s], s \in held) = rows[s]
    <3>1. rows[s] \in SeatRows /\ SeatOK(rows[s], s \in held) /\ (s \in held) \in BOOLEAN
      BY <1>4, <1>5, <1>7
    <3> QED  BY <3>1, NormalOfGood
  <2>2. CASE TeamOf[s] = t
    BY <1>8, <2>1, <2>2
  <2>3. CASE TeamOf[s] # t
    <3>1. s \notin gone /\ s \notin new
      BY <1>3, <2>3 DEF SeatsOf
    <3> QED  BY <1>1, <1>8, <2>3, <3>1
  <2> QED  BY <2>2, <2>3
<1>10. seat' = rows
  BY <1>4, <1>8, <1>9
<1> QED  BY <1>1, <1>2, <1>4, <1>5, <1>7, <1>8, <1>10 DEF Stored

\* Either some of the reserved slots are reset or some free ones are reserved.
LEMMA SetStores ==
    ASSUME NEW t \in Teams, NEW type \in ReserveTypes, NEW count \in Nat, Set(t, type, count)
    PROVE  \E gone \in SUBSET ReservedAs(t, type), new \in SUBSET Free(t) :
              /\ StoreReserved(t, type, gone, new)
              /\ \/ /\ count < Cardinality(ReservedAs(t, type)) /\ new = {}
                    /\ gone = ReservedAs(t, type) \ First(type, count, ReservedAs(t, type))
                 \/ /\ ~(count < Cardinality(ReservedAs(t, type))) /\ gone = {}
                    /\ new = First(type, count - Cardinality(ReservedAs(t, type)), Free(t))
<1>1. PICK held : held = ReservedAs(t, type)
  OBVIOUS
<1>2. CASE count < Cardinality(held)
  <2>1. StoreReserved(t, type, held \ First(type, count, held), {})
    BY <1>1, <1>2 DEF Set
  <2> QED  BY <1>1, <1>2, <2>1
<1>3. CASE ~(count < Cardinality(held))
  <2>1. StoreReserved(t, type, {}, First(type, count - Cardinality(held), Free(t)))
    BY <1>1, <1>3 DEF Set
  <2>2. First(type, count - Cardinality(held), Free(t)) \subseteq Free(t)
    BY DEF First
  <2> QED  BY <1>1, <1>3, <2>1, <2>2
<1> QED  BY <1>2, <1>3

\* What is counted and what is free afterwards.
LEMMA CountedAfter ==
    ASSUME SeatInv, NEW t \in Teams, NEW type \in ReserveTypes,
           NEW gone \in SUBSET ReservedAs(t, type), NEW new \in SUBSET Free(t),
           StoreReserved(t, type, gone, new)
    PROVE  /\ ReservedAs(t, type)' = (ReservedAs(t, type) \ gone) \cup new
           /\ gone = {} => Free(t)' = Free(t) \ new
<1>1. /\ \A s \in Seats : seat'[s] = IF s \in gone THEN EmptySeat
                                     ELSE IF s \in new THEN Reserve(type) ELSE seat[s]
      /\ reserved' = IF type = Boss THEN (reserved \ gone) \cup new ELSE reserved
  <2>1. Stored(type, gone, new)
    BY StoreEffect
  <2> QED  BY <2>1 DEF Stored
<1>2. new \subseteq SeatsOf(t) /\ SeatsOf(t) \subseteq Seats
  BY DEF Free, SeatsOf
<1>3. CASE type = Boss
  <2>1. ReservedAs(t, type) = reserved \cap SeatsOf(t) /\ ReservedAs(t, type)' = reserved' \cap SeatsOf(t)
    BY <1>3 DEF ReservedAs
  <2>2. \A s \in new : seat'[s].status = "reserved" \/ s \in gone
    BY <1>1, <1>2, <1>3, ReserveRow DEF ReservedSeat
  <2>3. gone = {} => Free(t)' = Free(t) \ new
    BY <1>1, <1>2, <1>3, <2>2 DEF Free
  <2> QED  BY <1>1, <1>2, <1>3, <2>1, <2>3
<1>4. CASE type # Boss
  <2>0. reserved' = reserved /\ type # NoRule
    BY <1>1, <1>4, ReserveRow, NoValueAssumption
  <2>1. /\ ReservedAs(t, type) = {s \in SeatsOf(t) : /\ seat[s].status = "fixed"
                                                    /\ seat[s].rule # NoRule /\ seat[s].rule \subseteq type}
        /\ ReservedAs(t, type)' = {s \in SeatsOf(t) : /\ seat'[s].status = "fixed"
                                                     /\ seat'[s].rule # NoRule /\ seat'[s].rule \subseteq type}
    BY <1>4 DEF ReservedAs
  <2>2. \A s \in new : s \notin gone /\ s \notin ReservedAs(t, type)
    BY <2>1 DEF Free
  <2>3. \A s \in new : seat'[s].status = "fixed" /\ seat'[s].rule = type
    BY <1>1, <1>2, <1>4, <2>2, ReserveRow DEF FixedSeat
  <2>4. \A s \in gone : s \in Seats /\ seat'[s].status = "empty"
    BY <1>1, <1>2, <2>1 DEF EmptySeat
  <2>5. \A s \in SeatsOf(t) : s \notin gone /\ s \notin new => seat'[s] = seat[s]
    BY <1>1, <1>2
  <2>6. ReservedAs(t, type)' = (ReservedAs(t, type) \ gone) \cup new
    BY <1>2, <2>0, <2>1, <2>2, <2>3, <2>4, <2>5
  <2>7. gone = {} => Free(t)' = Free(t) \ new
    BY <2>0, <2>3, <2>5 DEF Free
  <2> QED  BY <2>6, <2>7
<1> QED  BY <1>3, <1>4

-----------------------------------------------------------------------------
(* The counts, and who is unseated.                                         *)

LEMMA SetReachesCount ==
    ASSUME SeatInv, NEW t \in Teams, NEW type \in ReserveTypes, NEW count \in Nat,
           Set(t, type, count)
    PROVE  \/ Cardinality(ReservedAs(t, type)') = count
           \/ Cardinality(ReservedAs(t, type)') < count /\ Free(t)' = {}
<1>1. PICK held, free : held = ReservedAs(t, type) /\ free = Free(t)
  OBVIOUS
<1>2. held \in SUBSET SeatsOf(t) /\ free \in SUBSET SeatsOf(t) /\ held \cap free = {}
  BY <1>1 DEF ReservedAs, Free
<1>3. /\ IsFiniteSet(held) /\ IsFiniteSet(free)
      /\ Cardinality(held) \in Nat /\ Cardinality(free) \in Nat
  BY <1>2, BeforeGrows, FS_CardinalityType
<1>4. PICK gone \in SUBSET held, new \in SUBSET free :
         /\ StoreReserved(t, type, gone, new)
         /\ \/ count < Cardinality(held) /\ new = {} /\ gone = held \ First(type, count, held)
            \/ /\ ~(count < Cardinality(held)) /\ gone = {}
               /\ new = First(type, count - Cardinality(held), free)
  BY <1>1, SetStores
<1>5. ReservedAs(t, type)' = (held \ gone) \cup new /\ (gone = {} => Free(t)' = free \ new)
  BY <1>1, <1>4, CountedAfter
<1>6. CASE count < Cardinality(held)
  <2>1. First(type, count, held) \subseteq held /\ Cardinality(First(type, count, held)) = count
    BY <1>2, <1>3, <1>6, FirstCounts
  <2>2. (held \ gone) \cup new = First(type, count, held)
    BY <1>4, <1>6, <2>1
  <2> QED  BY <1>5, <2>1, <2>2
<1>7. CASE ~(count < Cardinality(held))
  <2>1. PICK n \in Nat : n = count - Cardinality(held)
    BY <1>3, <1>7
  <2>2. gone = {} /\ new = First(type, n, free)
    BY <1>4, <1>7, <2>1
  <2>3. /\ n <= Cardinality(free) => Cardinality(new) = n
        /\ Cardinality(free) <= n => new = free
        /\ IsFiniteSet(new)
    BY <1>2, <2>2, FirstCounts
  <2>4. Cardinality(new) \in Nat
    BY <2>3, FS_CardinalityType
  <2>5. ReservedAs(t, type)' = held \cup new /\ Free(t)' = free \ new /\ held \cap new = {}
    BY <1>2, <1>5, <2>2
  <2>6. Cardinality(held \cup new) = Cardinality(held) + Cardinality(new)
    <3>1. Cardinality(held \cap new) = 0
      BY <2>5, FS_EmptySet
    <3>2. Cardinality(held \cup new) = Cardinality(held) + Cardinality(new) - Cardinality(held \cap new)
      BY <1>3, <2>3, FS_Union
    <3> QED  BY <1>3, <2>4, <3>1, <3>2
  <2>7. CASE n <= Cardinality(free)
    BY <1>3, <2>1, <2>3, <2>5, <2>6, <2>7
  <2>8. CASE ~(n <= Cardinality(free))
    <3>1. new = free
      BY <1>3, <2>3, <2>8
    <3> QED  BY <1>3, <2>1, <2>5, <2>6, <2>8, <3>1
  <2> QED  BY <2>7, <2>8
<1> QED  BY <1>6, <1>7

LEMMA SetUnseats ==
    ASSUME SeatInv, NEW t \in Teams, NEW type \in ReserveTypes, NEW count \in Nat,
           Set(t, type, count), NEW s \in Seats
    PROVE  /\ seat'[s].member \in {seat[s].member, NoMember}
           /\ seat[s].member \notin {NoMember, seat'[s].member} =>
                  type = Boss /\ s \in reserved /\ s \notin reserved'
<1>1. PICK gone \in SUBSET ReservedAs(t, type), new \in SUBSET Free(t) :
         StoreReserved(t, type, gone, new) /\ (gone = {} \/ new = {})
  BY SetStores
<1>2. /\ seat'[s] = IF s \in gone THEN EmptySeat ELSE IF s \in new THEN Reserve(type) ELSE seat[s]
      /\ reserved' = IF type = Boss THEN (reserved \ gone) \cup new ELSE reserved
  <2>1. Stored(type, gone, new)
    BY <1>1, StoreEffect
  <2> QED  BY <2>1 DEF Stored
<1>3. EmptySeat.member = NoMember /\ Reserve(type).member = NoMember
  BY ReserveRow DEF EmptySeat
<1>4. SeatOK(seat[s], s \in reserved)
  BY DEF SeatInv
<1>5. s \in new => seat[s].member = NoMember
  BY <1>4 DEF Free, SeatOK
<1>6. s \in gone => (type = Boss /\ s \in reserved) \/ seat[s].member = NoMember
  BY <1>4 DEF ReservedAs, SeatOK
<1> QED  BY <1>1, <1>2, <1>3, <1>5, <1>6

-----------------------------------------------------------------------------
(* The invariant of the board, with quick reservations.                     *)

\* A signup writes a row in good order, for somebody who has no other seat
\* where only one is allowed.
LEMMA SignupRow ==
    ASSUME SeatInv, Signup
    PROVE  /\ UNCHANGED <<teams, onlyTn, uniqueQq, reserved, runtime, requests>>
           /\ \E s \in Seats, row \in SeatRows :
                 /\ SeatOK(row, s \in reserved)
                 /\ seat' = [seat EXCEPT ![s] = row]
                 /\ \/ row.member = NoMember
                    \/ /\ row.member \in Members
                       /\ TeamOf[s] \in uniqueQq => ~SignedElsewhere(row.member.qq, s)
<1>1. PICK s \in Seats, q \in Users : Leave(s, q) \/ \E m \in Members : Save(s, q, m)
  BY DEF Signup
<1>2. seat[s] \in SeatRows /\ SeatOK(seat[s], s \in reserved)
  BY DEF SeatInv, TypeOK
<1>3. seat[s].rule \in Rules \cup {NoRule}
  BY <1>2 DEF SeatRows
<1>4. CASE Leave(s, q)
  <2>1. /\ UNCHANGED <<teams, onlyTn, uniqueQq, reserved, runtime, requests>>
        /\ seat' = [seat EXCEPT ![s] = Vacated(s)]
    BY <1>4 DEF Leave, Write, Ask
  <2>2. Vacated(s) \in SeatRows /\ Vacated(s).member = NoMember
    BY <1>3 DEF Vacated, SeatRows, Statuses
  <2>3. SeatOK(Vacated(s), s \in reserved)
    BY <1>2 DEF SeatOK, Vacated
  <2> QED  BY <2>1, <2>2, <2>3
<1>5. ASSUME NEW m \in Members, Save(s, q, m)
      PROVE  /\ UNCHANGED <<teams, onlyTn, uniqueQq, reserved, runtime, requests>>
             /\ seat' = [seat EXCEPT ![s] = TakenSeat(m, seat[s].rule)]
             /\ TakenSeat(m, seat[s].rule) \in SeatRows
             /\ SeatOK(TakenSeat(m, seat[s].rule), s \in reserved)
             /\ TakenSeat(m, seat[s].rule).member = m
             /\ TeamOf[s] \in uniqueQq => ~SignedElsewhere(m.qq, s)
  <2>1. /\ UNCHANGED <<teams, onlyTn, uniqueQq, reserved, runtime, requests>>
        /\ seat' = [seat EXCEPT ![s] = TakenSeat(m, seat[s].rule)]
        /\ MayTake(m, q, s)
    BY <1>5 DEF Save, Write, Ask, Accepted
  <2>2. SeatOK(TakenSeat(m, seat[s].rule), s \in reserved)
    BY <1>2, <2>1, NoValueAssumption DEF SeatOK, TakenSeat, MayTake
  <2>3. TakenSeat(m, seat[s].rule) \in SeatRows /\ TakenSeat(m, seat[s].rule).member = m
    BY <1>3, SeatRowTypes DEF TakenSeat
  <2> QED  BY <2>1, <2>2, <2>3 DEF MayTake
<1>6. CASE \E m \in Members : Save(s, q, m)
  <2>1. PICK m \in Members : Save(s, q, m)
    BY <1>6
  <2>2. PICK row : row = TakenSeat(m, seat[s].rule)
    OBVIOUS
  <2> QED  BY <1>5, <2>1, <2>2
<1> QED  BY <1>1, <1>4, <1>6

LEMMA QuickReserveIsSet ==
    ASSUME QuickReserve
    PROVE  \E t \in Teams, type \in ReserveTypes, count \in Nat : Set(t, type, count)
BY DEF QuickReserve

LEMMA ReserveStep == SeatInv /\ [ReserveNext]_vars => SeatInv'
<1> SUFFICES ASSUME SeatInv, [ReserveNext]_vars PROVE SeatInv'
  OBVIOUS
<1>0. TypeOK
  BY DEF SeatInv
<1>1. CASE Signup
  <2>1. UNCHANGED <<teams, onlyTn, uniqueQq, reserved, runtime, requests>>
    BY <1>1, SignupRow
  <2>2. PICK s \in Seats, row \in SeatRows :
           SeatOK(row, s \in reserved) /\ seat' = [seat EXCEPT ![s] = row]
    BY <1>1, SignupRow
  <2>3. TypeOK'
    BY <1>0, <2>1, <2>2 DEF TypeOK, runtime, requests
  <2> QED  BY <1>0, <2>1, <2>2, <2>3 DEF SeatInv, TypeOK
<1>2. CASE QuickReserve
  <2>1. PICK t \in Teams, type \in ReserveTypes, count \in Nat : Set(t, type, count)
    BY <1>2, QuickReserveIsSet
  <2>2. PICK gone \in SUBSET ReservedAs(t, type), new \in SUBSET Free(t) :
           StoreReserved(t, type, gone, new)
    BY <2>1, SetStores
  <2>3. UNCHANGED <<teams, onlyTn, uniqueQq, runtime, requests>>
    BY <2>1 DEF Set
  <2>4. /\ seat' \in [Seats -> SeatRows]
        /\ reserved' = IF type = Boss THEN (reserved \ gone) \cup new ELSE reserved
        /\ \A s \in Seats : SeatOK(seat'[s], s \in reserved')
    BY <2>2, StoreEffect DEF Stored
  <2>5. reserved' \subseteq Seats
    BY <1>0, <2>4 DEF TypeOK, Free, SeatsOf
  <2>6. TypeOK'
    BY <1>0, <2>3, <2>4, <2>5 DEF TypeOK, runtime, requests
  <2> QED  BY <2>4, <2>6 DEF SeatInv
<1>3. CASE AdminStep
  <2>1. TypeOK'
    BY <1>0, <1>3, StepType DEF Next
  <2> QED  BY <1>3, <2>1, AdminKeepsSeats
<1>4. CASE UNCHANGED vars
  <2>1. TypeOK' /\ UNCHANGED <<seat, reserved>>
    BY <1>0, <1>4, StepType DEF vars, database
  <2> QED  BY <2>1 DEF SeatInv
<1> QED  BY <1>1, <1>2, <1>3, <1>4 DEF ReserveNext

\* The invariant of the theorems below.
THEOREM AlwaysSeatInv == ReserveSpec => []SeatInv
BY InitSeat, ReserveStep, PTL DEF ReserveSpec

\* SeatConsistent and SeatMatchesRule: quickReserve, too, leaves the columns of
\* the slot rows and the reserved lists in agreement.
THEOREM ReservedRowsConsistent == ReserveSpec => [](SeatConsistent /\ SeatMatchesRule)
BY AlwaysSeatInv, SeatInvMeans, PTL

\* NoNewDuplicate: quickReserve gives nobody a seat, and so nobody a second.
THEOREM ReservingAddsNoDuplicate == ReserveSpec => NoNewDuplicate
<1>1. ASSUME SeatInv, [ReserveNext]_vars PROVE [AddsNoDuplicate]_vars
  <2>0. TypeOK
    BY <1>1 DEF SeatInv
  <2>1. CASE Signup
    BY <1>1, <2>0, <2>1, SignupRow, OneSeatTaken
  <2>2. CASE QuickReserve
    <3>1. \A s \in Seats : seat'[s].member \in {seat[s].member, NoMember}
      BY <1>1, <2>2, QuickReserveIsSet, SetUnseats
    <3> QED  BY <3>1, NobodySits DEF AddsNoDuplicate, SameSigner, MemberQq
  <2> QED  BY <1>1, <2>1, <2>2, AdminAddsNoDuplicate DEF ReserveNext
<1> QED  BY <1>1, AlwaysSeatInv, PTL DEF ReserveSpec, NoNewDuplicate

\* ReachesCount: quickReserve ends with as many slots of the type as it was
\* asked for, or with no free slot left.
THEOREM ReachesCountHolds == ReserveSpec => ReachesCount
<1> DEFINE A == \A t \in Teams, type \in ReserveTypes :
                   \A count \in 0 .. Cardinality(SeatsOf(t)) :
                      Set(t, type, count) =>
                         \/ Cardinality(ReservedAs(t, type)') = count
                         \/ Cardinality(ReservedAs(t, type)') < count /\ Free(t)' = {}
<1>1. SeatInv => A
  <2> SUFFICES ASSUME SeatInv, NEW t \in Teams, NEW type \in ReserveTypes,
                      NEW count \in 0 .. Cardinality(SeatsOf(t)), Set(t, type, count)
               PROVE  \/ Cardinality(ReservedAs(t, type)') = count
                      \/ Cardinality(ReservedAs(t, type)') < count /\ Free(t)' = {}
    OBVIOUS
  <2>1. count \in Nat
    OBVIOUS
  <2> QED  BY <2>1, SetReachesCount
<1>2. ReachesCount <=> [][A]_vars
  BY DEF ReachesCount
<1> HIDE DEF A
<1> QED  BY <1>1, <1>2, AlwaysSeatInv, PTL

\* UnseatsOnlyBossSlots: quickReserve unseats nobody but those on the boss
\* slots it takes off the reserved list.
THEOREM UnseatsOnlyBossSlotsHolds == ReserveSpec => UnseatsOnlyBossSlots
<1> DEFINE A == \A s \in Seats :
                   seat[s].member \notin {NoMember, seat'[s].member} =>
                      \A t \in Teams, type \in ReserveTypes :
                         \A count \in 0 .. Cardinality(SeatsOf(t)) :
                            Set(t, type, count) => type = Boss /\ s \in reserved /\ s \notin reserved'
<1>1. SeatInv => A
  <2> SUFFICES ASSUME SeatInv, NEW s \in Seats, seat[s].member \notin {NoMember, seat'[s].member},
                      NEW t \in Teams, NEW type \in ReserveTypes,
                      NEW count \in 0 .. Cardinality(SeatsOf(t)), Set(t, type, count)
               PROVE  type = Boss /\ s \in reserved /\ s \notin reserved'
    OBVIOUS
  <2>1. count \in Nat
    OBVIOUS
  <2> QED  BY <2>1, SetUnseats
<1>2. UnseatsOnlyBossSlots <=> [][A]_vars
  BY DEF UnseatsOnlyBossSlots
<1> HIDE DEF A
<1> QED  BY <1>1, <1>2, AlwaysSeatInv, PTL

=============================================================================
