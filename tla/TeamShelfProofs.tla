---------------------------- MODULE TeamShelfProofs ----------------------------
(***************************************************************************)
(* Proofs about TeamShelf, for any team ids, members, subsidies and bounds: *)
(* teams keep their places apart, no team is in two places, and selections *)
(* fit the types of their team unless they were registered late.           *)
(***************************************************************************)
EXTENDS TeamShelf, FiniteSetTheorems, SequenceTheorems, WellFoundedInduction, TLAPS

-----------------------------------------------------------------------------
(* Operators.                                                               *)

LEMMA LargestExists ==
    ASSUME NEW n \in Nat, NEW K \in SUBSET (0 .. n), K # {}
    PROVE  \E k \in K : \A j \in K : j <= k
<1> DEFINE D == {n - k : k \in K}
<1>0. PICK i \in K : TRUE
  OBVIOUS
<1>1. D \in SUBSET Nat /\ n - i \in D
  OBVIOUS
<1>2. PICK d \in D : \A e \in D : ~(<<e, d>> \in OpToRel(<, Nat))
  BY <1>1, NatLessThanWellFounded, WFMin
<1>3. PICK k \in K : d = n - k
  BY <1>2
<1>4. ASSUME NEW j \in K PROVE j <= k
  <2>1. n - j \in D /\ n - j \in Nat /\ d \in Nat
    BY <1>1
  <2>2. ~(n - j < d)
    BY <1>2, <2>1 DEF OpToRel
  <2> QED  BY <1>3, <2>1, <2>2
<1> QED  BY <1>4

LEMMA MentionLast ==
    ASSUME NEW ids \in Seq(Ids), NEW t
    PROVE  /\ Mention(ids, t) \in 0 .. Len(ids)
           /\ Mention(ids, t) # 0 => ids[Mention(ids, t)] = t
           /\ \A k \in 1 .. Len(ids) : ids[k] = t => k <= Mention(ids, t)
<1> DEFINE K == {k \in 1 .. Len(ids) : ids[k] = t}
<1>0. Len(ids) \in Nat
  OBVIOUS
<1>1. CASE K = {}
  BY <1>0, <1>1 DEF Mention
<1>2. CASE K # {}
  <2>0. K \in SUBSET (0 .. Len(ids))
    BY <1>0
  <2>1. PICK m \in K : \A j \in K : j <= m
    BY ONLY <1>0, <1>2, <2>0, LargestExists
  <2>2. ids[m] = t /\ \A j \in m + 1 .. Len(ids) : ids[j] # t
    BY <1>0, <2>1
  <2>3. Mention(ids, t) = CHOOSE k \in 1 .. Len(ids) : ids[k] = t /\ \A j \in k + 1 .. Len(ids) : ids[j] # t
    BY <1>2 DEF Mention
  <2>4. /\ Mention(ids, t) \in 1 .. Len(ids) /\ ids[Mention(ids, t)] = t
        /\ \A j \in Mention(ids, t) + 1 .. Len(ids) : ids[j] # t
    BY <2>1, <2>2, <2>3
  <2> QED  BY <1>0, <2>4
<1> QED  BY <1>1, <1>2

\* How many of the first ids are there.
LEMMA NamedGrows ==
    ASSUME NEW ids \in Seq(Ids), NEW n \in 0 .. Len(ids)
    PROVE  /\ Named(ids, n) \in Nat
           /\ \A m \in 0 .. n : Named(ids, m) <= Named(ids, n)
           /\ \A m \in 1 .. n : ids[m] \in Live => Named(ids, m - 1) < Named(ids, n)
<1> DEFINE K(m) == {k \in 1 .. m : ids[k] \in Live}
<1>0. n \in Nat
  OBVIOUS
<1>1. ASSUME NEW m \in Nat PROVE IsFiniteSet(K(m)) /\ Named(ids, m) \in Nat
  <2>1. IsFiniteSet(1 .. m)
    BY FS_Interval
  <2>2. IsFiniteSet(K(m))
    BY <2>1, FS_Subset
  <2> QED  BY <2>2, FS_CardinalityType DEF Named
<1>2. ASSUME NEW m \in 0 .. n PROVE Named(ids, m) <= Named(ids, n)
  <2>1. K(m) \subseteq K(n)
    BY <1>0
  <2> QED  BY <1>0, <1>1, <2>1, FS_Subset DEF Named
<1>3. ASSUME NEW m \in 1 .. n, ids[m] \in Live PROVE Named(ids, m - 1) < Named(ids, n)
  <2>1. K(m - 1) \subseteq K(n) /\ m \in K(n) /\ m \notin K(m - 1) /\ m - 1 \in Nat
    BY <1>0, <1>3
  <2>2. Cardinality(K(m - 1)) <= Cardinality(K(n)) /\ Cardinality(K(m - 1)) # Cardinality(K(n))
    BY <1>0, <1>1, <2>1, FS_Subset
  <2>3. Named(ids, m - 1) = Cardinality(K(m - 1)) /\ Named(ids, n) = Cardinality(K(n))
    BY DEF Named
  <2>4. Named(ids, m - 1) \in Nat /\ Named(ids, n) \in Nat
    BY <1>0, <1>1, <2>1
  <2> QED  BY <2>2, <2>3, <2>4
<1> QED  BY <1>0, <1>1, <1>2, <1>3

\* The next place is behind all others.
LEMMA NextIsLast ==
    ASSUME TypeOK
    PROVE  NextOrder \in 0 .. MaxOrder + 1 /\ \A t \in Live : row[t].order < NextOrder
<1>1. MaxOrder \in Nat /\ Orders \in SUBSET (0 .. MaxOrder)
  BY MaxOrderAssumption DEF TypeOK, Orders, Live, Rows
<1>0. \A k \in Orders : k \in Nat /\ k <= MaxOrder
  BY <1>1
<1>2. CASE Live = {}
  BY <1>1, <1>2 DEF NextOrder
<1>3. CASE Live # {}
  <2>1. Orders # {}
    BY <1>3 DEF Orders
  <2>2. PICK m \in Orders : \A k \in Orders : k <= m
    BY <1>1, <2>1, LargestExists
  <2>3. PICK n \in Orders : NextOrder = 1 + n /\ \A k \in Orders : k <= n
    BY <1>3, <2>2 DEF NextOrder
  <2>4. NextOrder \in 0 .. MaxOrder + 1
    BY <1>0, <1>1, <2>3
  <2>5. ASSUME NEW t \in Live PROVE row[t].order < NextOrder
    <3>1. row[t].order \in Orders
      BY DEF Orders
    <3>2. row[t].order \in Nat /\ n \in Nat /\ row[t].order <= n
      BY <1>0, <2>3, <3>1
    <3> QED  BY <2>3, <3>2
  <2> QED  BY <2>4, <2>5
<1> QED  BY <1>2, <1>3

-----------------------------------------------------------------------------
(* Types.                                                                   *)

LEMMA RowParts ==
    ASSUME TypeOK
    PROVE  /\ \A t \in Live : t \in Ids /\ row[t] \in Rows /\ row[t].team \in Contents
           /\ \A k \in Ids \X Stamps : archive[k] # NoRow => archive[k] \in Contents
BY DEF TypeOK, Live, Rows, Archives

LEMMA RowsAreRows == NoRow \notin Rows /\ NoRow \notin Contents
BY NoRowAssumption

\* What registering and setting types make of the contents of a row.
LEMMA ContentsKept ==
    ASSUME NEW c \in Contents
    PROVE  /\ \A ts \in SUBSET Types : WithTypes(c, ts) \in Contents /\ WithTypes(c, ts).board = c.board
           /\ \A u \in Users, sel \in SUBSET Choices, week \in Weeks \cup {NoWeek} :
                 /\ Registered(c, u, sel, week) \in Contents
                 /\ Registered(c, u, sel, week).board = c.board
                 /\ Registered(c, u, sel, week).types = c.types
<1>1. ASSUME NEW ts \in SUBSET Types PROVE WithTypes(c, ts) \in Contents /\ WithTypes(c, ts).board = c.board
  BY DEF WithTypes, Contents
<1>2. ASSUME NEW u \in Users, NEW sel \in SUBSET Choices, NEW week \in Weeks \cup {NoWeek}
      PROVE  /\ Registered(c, u, sel, week) \in Contents
             /\ Registered(c, u, sel, week).board = c.board
             /\ Registered(c, u, sel, week).types = c.types
  <2>1. Scoped(sel, week) \in SUBSET Choices
    BY DEF Scoped, Choices
  <2>2. \A old \in SUBSET Choices : Chosen(old, sel, week) \in SUBSET Choices
    BY <2>1 DEF Chosen
  <2> QED  BY <2>2 DEF Registered, Contents
<1> QED  BY <1>1, <1>2

LEMMA BlankType == \A b \in 1 .. MaxBoard : Blank(b) \in Contents
BY DEF Blank, Contents

LEMMA CreateType == ASSUME TypeOK, NEW ids \in Seq(Ids), Create(ids) PROVE TypeOK'
<1>1. Len(ids) \in Nat /\ boards \in Nat /\ MaxBoard \in Nat /\ MaxOrder \in Nat
  BY MaxBoardAssumption, MaxOrderAssumption DEF TypeOK
<1>2. boards' \in 0 .. MaxBoard
  BY <1>1 DEF Create
<1>3. ASSUME NEW t \in Ids PROVE row'[t] \in Rows \cup {NoRow}
  <2>1. CASE Mention(ids, t) = 0
    BY <2>1 DEF Create, TypeOK
  <2>2. CASE Mention(ids, t) # 0
    <3>1. Mention(ids, t) \in 1 .. Len(ids)
      BY <2>2, MentionLast
    <3>2. /\ NextOrder + Mention(ids, t) - 1 \in 0 .. MaxOrder
          /\ boards + Mention(ids, t) \in 1 .. MaxBoard
      BY <1>1, <3>1, NextIsLast DEF Create
    <3>3. row'[t] = [order |-> NextOrder + Mention(ids, t) - 1, team |-> Blank(boards + Mention(ids, t))]
      BY <2>2 DEF Create
    <3> QED  BY <3>2, <3>3, BlankType DEF Rows
  <2> QED  BY <2>1, <2>2
<1>4. row' \in [Ids -> Rows \cup {NoRow}]
  BY <1>3 DEF Create
<1> QED  BY <1>2, <1>4 DEF Create, TypeOK

LEMMA RemoveType ==
    ASSUME TypeOK, NEW t \in Ids, NEW fallback, Remove(t, fallback)
    PROVE  row' \in [Ids -> Rows \cup {NoRow}] /\ boards' \in 0 .. MaxBoard
<1>1. boards \in Nat /\ MaxBoard \in Nat /\ MaxOrder \in Nat
  BY MaxBoardAssumption, MaxOrderAssumption DEF TypeOK
<1>2. CASE Live = {t} /\ fallback # NoRow
  <2>1. boards + 1 \in 1 .. MaxBoard /\ boards' \in 0 .. MaxBoard
    BY <1>1, <1>2 DEF Remove
  <2>2. [order |-> 0, team |-> Blank(boards + 1)] \in Rows
    BY <1>1, <2>1, BlankType DEF Rows
  <2> QED  BY <1>2, <2>1, <2>2 DEF Remove
<1>3. CASE ~(Live = {t} /\ fallback # NoRow)
  BY <1>3 DEF Remove, TypeOK
<1> QED  BY <1>2, <1>3

\* A reorder moves every team to its place, and that is all.
LEMMA ReorderEffect ==
    ASSUME TypeOK, NEW ids \in Seq(Ids), Reorder(ids)
    PROVE  /\ TypeOK' /\ Live' = Live
           /\ \A t \in Live : row'[t].order = Place(ids, t) /\ row'[t].team = row[t].team
<1>1. ASSUME NEW t \in Live
      PROVE  row'[t] \in Rows /\ row'[t].order = Place(ids, t) /\ row'[t].team = row[t].team
  <2>1. row[t].order \in Nat /\ Len(ids) \in Nat /\ MaxOrder \in Nat
    BY RowParts, MaxOrderAssumption DEF Rows
  <2>2. \A n \in 0 .. Len(ids) : Named(ids, n) \in Nat
    BY NamedGrows
  <2>3. Place(ids, t) \in Nat
    BY <2>1, <2>2, MentionLast DEF Place
  <2>4. Place(ids, t) \in 0 .. MaxOrder
    BY <2>1, <2>3 DEF Reorder
  <2>5. row'[t] = [row[t] EXCEPT !.order = Place(ids, t)]
    BY DEF Reorder, Live
  <2> QED  BY <2>4, <2>5, RowParts DEF Rows
<1>2. \A t \in Ids \ Live : row'[t] = NoRow
  BY DEF Reorder, Live
<1>3. row' \in [Ids -> Rows \cup {NoRow}]
  BY <1>1, <1>2 DEF Reorder, Live
<1>4. Live' = Live
  BY <1>1, <1>2, RowsAreRows DEF Live
<1> QED  BY <1>1, <1>3, <1>4 DEF Reorder, TypeOK

LEMMA ListsAreSeqs == Arrangements \subseteq Seq(Ids)
<1>1. Cardinality(Ids) \in Nat
  BY IdsAssumption, FS_CardinalityType
<1>2. \A n \in Nat : [1 .. n -> Ids] \subseteq Seq(Ids)
  BY IsASeq
<1>3. Lists \subseteq Seq(Ids)
  <2> SUFFICES ASSUME NEW k \in 1 .. 2, NEW ids \in [1 .. k -> Ids] PROVE ids \in Seq(Ids)
    BY DEF Lists
  <2> QED  BY <1>2
<1>4. [1 .. Cardinality(Ids) -> Ids] \subseteq Seq(Ids)
  BY <1>1, <1>2
<1> QED  BY <1>3, <1>4 DEF Arrangements

\* Creations and removals, archives and orders.
LEMMA ShelfType ==
    ASSUME TypeOK,
           \/ \E ids \in Lists : Create(ids)
           \/ \E t \in Ids, fallback \in Ids \cup {NoRow} :
                 Delete(t, fallback) \/ \E at \in Stamps : Archive(t, at, fallback)
           \/ \E k \in Ids \X Stamps : Restore(k)
           \/ \E ids \in Arrangements : Reorder(ids)
    PROVE  TypeOK'
<1>1. ASSUME NEW ids \in Lists, Create(ids) PROVE TypeOK'
  BY <1>1, CreateType, ListsAreSeqs DEF Arrangements
<1>2. ASSUME NEW t \in Ids, NEW fallback, Delete(t, fallback) PROVE TypeOK'
  BY <1>2, RemoveType DEF Delete, TypeOK
<1>3. ASSUME NEW t \in Ids, NEW fallback, NEW at \in Stamps, Archive(t, at, fallback) PROVE TypeOK'
  <2>1. archive' \in Archives
    BY <1>3, RowParts DEF Archive, TypeOK, Archives
  <2> QED  BY <1>3, <2>1, RemoveType DEF Archive, TypeOK
<1>4. ASSUME NEW k \in Ids \X Stamps, Restore(k) PROVE TypeOK'
  <2>1. archive' \in Archives
    BY <1>4 DEF Restore, TypeOK, Archives
  <2>2. k[1] \in Ids /\ archive[k] \in Contents /\ NextOrder \in 0 .. MaxOrder
    BY <1>4, RowParts, NextIsLast, MaxOrderAssumption DEF Restore
  <2>3. [order |-> NextOrder, team |-> archive[k]] \in Rows
    BY <2>2 DEF Rows
  <2> QED  BY <1>4, <2>1, <2>2, <2>3 DEF Restore, TypeOK
<1> QED  BY <1>1, <1>2, <1>3, <1>4, ReorderEffect, ListsAreSeqs

\* A step that gives one team or one archive other contents.
LEMMA OneRowType ==
    ASSUME TypeOK, NEW c \in Contents
    PROVE  /\ \A t \in Live : [row EXCEPT ![t].team = c] \in [Ids -> Rows \cup {NoRow}]
           /\ \A k \in Ids \X Stamps : [archive EXCEPT ![k] = c] \in Archives
<1>1. ASSUME NEW t \in Live PROVE [row EXCEPT ![t].team = c] \in [Ids -> Rows \cup {NoRow}]
  <2>1. [row[t] EXCEPT !.team = c] \in Rows
    BY RowParts DEF Rows
  <2> QED  BY <2>1 DEF TypeOK
<1> QED  BY <1>1 DEF TypeOK, Archives

LEMMA LateType ==
    ASSUME TypeOK, NEW c \in Contents, NEW sel \in SUBSET Choices, NoteLate(c, sel)
    PROVE  late' \subseteq (1 .. MaxBoard) \X Types
BY DEF NoteLate, TypeOK, Contents, Choices

LEMMA TypeStep == TypeOK /\ [Next]_vars => TypeOK'
<1> SUFFICES ASSUME TypeOK, [Next]_vars PROVE TypeOK'
  OBVIOUS
<1>1. ASSUME NEW t \in Ids, NEW ts \in SUBSET Types, SetTypes(t, ts) PROVE TypeOK'
  <2>1. t \in Live /\ row' = [row EXCEPT ![t].team = WithTypes(row[t].team, ts)]
    BY <1>1 DEF SetTypes, TypeOK
  <2>2. row' \in [Ids -> Rows \cup {NoRow}]
    BY <2>1, RowParts, ContentsKept, OneRowType
  <2> QED  BY <1>1, <2>2 DEF SetTypes, TypeOK
<1>2. ASSUME NEW u \in Users, NEW sel \in SUBSET Choices, NEW week \in Weeks \cup {NoWeek},
             NEW t \in Ids, RegisterInTeam(t, u, sel, week)
      PROVE  TypeOK'
  <2>1. t \in Live /\ row' = [row EXCEPT ![t].team = Registered(row[t].team, u, sel, week)]
    BY <1>2 DEF RegisterInTeam, TypeOK
  <2>2. row' \in [Ids -> Rows \cup {NoRow}]
    BY <2>1, RowParts, ContentsKept, OneRowType
  <2> QED  BY <1>2, <2>1, <2>2, RowParts, LateType DEF RegisterInTeam, TypeOK
<1>3. ASSUME NEW u \in Users, NEW sel \in SUBSET Choices, NEW week \in Weeks \cup {NoWeek},
             NEW k \in Ids \X Stamps, RegisterInArchive(k, u, sel, week)
      PROVE  TypeOK'
  <2>1. archive[k] \in Contents /\ archive' = [archive EXCEPT ![k] = Registered(archive[k], u, sel, week)]
    BY <1>3, RowParts DEF RegisterInArchive, TypeOK, Archives
  <2>2. archive' \in Archives
    BY <2>1, ContentsKept, OneRowType
  <2> QED  BY <1>3, <2>1, <2>2, LateType DEF RegisterInArchive, TypeOK
<1>4. CASE UNCHANGED vars
  BY <1>4 DEF vars, TypeOK
<1> QED  BY <1>1, <1>2, <1>3, <1>4, ShelfType DEF Next

\* TypeOK: rows of the tables are rows, and their places and boards are in range.
THEOREM TypeCorrect == Spec => []TypeOK
<1>1. Init => TypeOK
  BY MaxBoardAssumption DEF Init, TypeOK, Archives
<1> QED  BY <1>1, TypeStep, PTL DEF Spec

-----------------------------------------------------------------------------
(* Where the boards are.                                                    *)

Archived == {k \in Ids \X Stamps : archive[k] # NoRow}

\* Every board was created: its number is not given again.
BoardsGiven ==
    /\ \A t \in Live : row[t].team.board <= boards
    /\ \A k \in Archived : archive[k].board <= boards

BoardInv == OnePlace /\ BoardsGiven

\* The boards in the tables are natural numbers.
LEMMA BoardsType ==
    ASSUME TypeOK
    PROVE  /\ boards \in Nat
           /\ \A t \in Live : row[t].team.board \in Nat
           /\ \A k \in Archived : archive[k].board \in Nat
BY RowParts, MaxBoardAssumption DEF Archived, TypeOK, Contents

\* Nothing changes places.
LEMMA SameBoards ==
    ASSUME BoardInv, boards' = boards, Live' = Live, Archived' = Archived,
           \A t \in Live : row'[t].team.board = row[t].team.board,
           \A k \in Archived : archive'[k].board = archive[k].board
    PROVE  BoardInv'
BY DEF BoardInv, OnePlace, BoardsGiven, Archived

LEMMA CreateBoards == ASSUME TypeOK, BoardInv, NEW ids \in Seq(Ids), Create(ids) PROVE BoardInv'
<1>0. boards \in Nat /\ Len(ids) \in Nat /\ boards' = boards + Len(ids) /\ archive' = archive
  BY BoardsType DEF Create
<1>1. ASSUME NEW t \in Live'
      PROVE  \/ Mention(ids, t) = 0 /\ t \in Live /\ row'[t] = row[t]
             \/ Mention(ids, t) \in 1 .. Len(ids) /\ row'[t].team.board = boards + Mention(ids, t)
  BY MentionLast DEF Create, Live, Blank
<1>2. \A t \in Live' : row'[t].team.board <= boards'
  BY <1>0, <1>1, BoardsType DEF BoardInv, BoardsGiven
<1>3. \A k \in Archived' : k \in Archived /\ archive'[k] = archive[k] /\ archive[k].board <= boards
                           /\ archive[k].board <= boards'
  BY <1>0, BoardsType DEF Archived, BoardInv, BoardsGiven
<1>4. ASSUME NEW t \in Live', NEW x \in Live', row'[t].team.board = row'[x].team.board PROVE t = x
  <2>1. CASE Mention(ids, t) = 0 /\ Mention(ids, x) = 0
    BY <1>1, <1>4, <2>1 DEF BoardInv, OnePlace
  <2>2. CASE Mention(ids, t) # 0 /\ Mention(ids, x) # 0
    <3>1. Mention(ids, t) = Mention(ids, x)
      BY <1>0, <1>1, <1>4, <2>2
    <3> QED  BY <2>2, <3>1, MentionLast
  <2>3. CASE Mention(ids, t) = 0 /\ Mention(ids, x) # 0
    BY <1>0, <1>1, <1>4, <2>3, BoardsType DEF BoardInv, BoardsGiven
  <2>4. CASE Mention(ids, t) # 0 /\ Mention(ids, x) = 0
    BY <1>0, <1>1, <1>4, <2>4, BoardsType DEF BoardInv, BoardsGiven
  <2> QED  BY <2>1, <2>2, <2>3, <2>4
<1>5. ASSUME NEW t \in Live', NEW k \in Archived' PROVE archive'[k].board # row'[t].team.board
  BY <1>0, <1>1, <1>3, BoardsType DEF BoardInv, OnePlace, Archived
<1> QED  BY <1>0, <1>2, <1>3, <1>4, <1>5 DEF BoardInv, OnePlace, BoardsGiven, Archived

\* What is left in the table when a team is removed.
LEMMA RemoveLeaves ==
    ASSUME TypeOK, NEW t \in Live, NEW fallback, Remove(t, fallback)
    PROVE  /\ boards \in Nat /\ boards' \in Nat /\ boards <= boards'
           /\ \A x \in Live' :
                 \/ x \in Live /\ x # t /\ row'[x] = row[x]
                 \/ Live' = {x} /\ row'[x].team.board = boards' /\ boards < boards'
<1>1. boards \in Nat
  BY BoardsType
<1>2. CASE Live = {t} /\ fallback # NoRow
  BY <1>1, <1>2 DEF Remove, Live, Blank
<1>3. CASE ~(Live = {t} /\ fallback # NoRow)
  BY <1>1, <1>3 DEF Remove, Live, TypeOK
<1> QED  BY <1>2, <1>3

LEMMA DeleteBoards ==
    ASSUME TypeOK, BoardInv, NEW t, NEW fallback, Delete(t, fallback) PROVE BoardInv'
<1>1. t \in Live /\ archive' = archive /\ Archived' = Archived
  BY DEF Delete, Archived
<1>2. /\ boards \in Nat /\ boards' \in Nat /\ boards <= boards'
      /\ \A x \in Live' : \/ x \in Live /\ x # t /\ row'[x] = row[x]
                          \/ Live' = {x} /\ row'[x].team.board = boards' /\ boards < boards'
  BY <1>1, RemoveLeaves DEF Delete
<1>3. BoardsGiven'
  BY <1>1, <1>2, BoardsType DEF BoardInv, BoardsGiven
<1>4. OnePlace'
  BY <1>1, <1>2, BoardsType DEF BoardInv, BoardsGiven, OnePlace, Archived
<1> QED  BY <1>3, <1>4 DEF BoardInv

LEMMA ArchiveBoards ==
    ASSUME TypeOK, BoardInv, NEW t \in Ids, NEW at \in Stamps, NEW fallback, Archive(t, at, fallback)
    PROVE  BoardInv'
<1>0. PICK a \in Ids \X Stamps : a = <<t, at>>
  OBVIOUS
<1>1. t \in Live /\ archive' = [archive EXCEPT ![a] = row[t].team] /\ row[t].team \in Contents
  BY <1>0, RowParts DEF Archive
<1>2. /\ boards \in Nat /\ boards' \in Nat /\ boards <= boards'
      /\ \A x \in Live' : \/ x \in Live /\ x # t /\ row'[x] = row[x]
                          \/ Live' = {x} /\ row'[x].team.board = boards' /\ boards < boards'
  BY <1>1, RemoveLeaves DEF Archive
<1>3. /\ archive'[a] = row[t].team
      /\ \A k \in Archived' : k = a \/ (k \in Archived /\ archive'[k] = archive[k])
  BY <1>1 DEF Archived, TypeOK, Archives
<1>4. BoardsGiven'
  BY <1>1, <1>2, <1>3, BoardsType DEF BoardInv, BoardsGiven
<1>5. \A k, j \in Archived' : archive'[k].board = archive'[j].board => k = j
  BY <1>1, <1>3 DEF BoardInv, OnePlace, Archived
<1>6. \A x, y \in Live' : row'[x].team.board = row'[y].team.board => x = y
  BY <1>2 DEF BoardInv, OnePlace
<1>7. ASSUME NEW x \in Live', NEW k \in Archived' PROVE archive'[k].board # row'[x].team.board
  <2>1. archive'[k].board \in Nat /\ archive'[k].board <= boards
    BY <1>1, <1>3, BoardsType DEF BoardInv, BoardsGiven
  <2>2. CASE x \in Live /\ x # t /\ row'[x] = row[x]
    BY <1>1, <1>3, <2>2 DEF BoardInv, OnePlace, Archived
  <2>3. CASE row'[x].team.board = boards' /\ boards < boards'
    BY <1>2, <2>1, <2>3
  <2> QED  BY <1>2, <2>2, <2>3
<1> QED  BY <1>4, <1>5, <1>6, <1>7 DEF BoardInv, OnePlace, Archived

LEMMA RestoreBoards ==
    ASSUME TypeOK, BoardInv, NEW a \in Ids \X Stamps, Restore(a) PROVE BoardInv'
<1>1. /\ a \in Archived /\ boards' = boards /\ a[1] \in Ids
      /\ row' = [row EXCEPT ![a[1]] = [order |-> NextOrder, team |-> archive[a]]]
      /\ archive' = [archive EXCEPT ![a] = NoRow]
  BY DEF Restore, Archived
<1>2. \A k \in Archived' : k \in Archived /\ k # a /\ archive'[k] = archive[k]
  BY <1>1 DEF Archived, TypeOK, Archives
<1>3. \A x \in Live' : \/ x = a[1] /\ row'[x].team = archive[a]
                       \/ x \in Live /\ x # a[1] /\ row'[x] = row[x]
  BY <1>1 DEF Live, TypeOK
<1>4. BoardsGiven'
  BY <1>1, <1>2, <1>3 DEF BoardInv, BoardsGiven
<1>5. OnePlace'
  BY <1>1, <1>2, <1>3 DEF BoardInv, OnePlace, Archived
<1> QED  BY <1>4, <1>5 DEF BoardInv

LEMMA BoardStep == TypeOK /\ BoardInv /\ [Next]_vars => BoardInv'
<1> SUFFICES ASSUME TypeOK, BoardInv, [Next]_vars PROVE BoardInv'
  OBVIOUS
<1>1. ASSUME NEW ids \in Seq(Ids), Reorder(ids) PROVE BoardInv'
  BY <1>1, ReorderEffect, SameBoards DEF Reorder, Archived
<1>2. ASSUME NEW t \in Ids, NEW ts \in SUBSET Types, SetTypes(t, ts) PROVE BoardInv'
  <2>1. t \in Live /\ row' = [row EXCEPT ![t].team = WithTypes(row[t].team, ts)]
    BY <1>2 DEF SetTypes, TypeOK
  <2>2. Live' = Live /\ \A x \in Live : row'[x].team.board = row[x].team.board
    BY <2>1, RowParts, ContentsKept, RowsAreRows DEF TypeOK, Live, Rows
  <2> QED  BY <1>2, <2>2, SameBoards DEF SetTypes, Archived
<1>3. ASSUME NEW u \in Users, NEW sel \in SUBSET Choices, NEW week \in Weeks \cup {NoWeek},
             NEW t \in Ids, RegisterInTeam(t, u, sel, week)
      PROVE  BoardInv'
  <2>1. t \in Live /\ row' = [row EXCEPT ![t].team = Registered(row[t].team, u, sel, week)]
    BY <1>3 DEF RegisterInTeam, TypeOK
  <2>2. Live' = Live /\ \A x \in Live : row'[x].team.board = row[x].team.board
    BY <2>1, RowParts, ContentsKept, RowsAreRows DEF TypeOK, Live, Rows
  <2> QED  BY <1>3, <2>2, SameBoards DEF RegisterInTeam, Archived
<1>4. ASSUME NEW u \in Users, NEW sel \in SUBSET Choices, NEW week \in Weeks \cup {NoWeek},
             NEW k \in Ids \X Stamps, RegisterInArchive(k, u, sel, week)
      PROVE  BoardInv'
  <2>1. archive[k] \in Contents /\ archive' = [archive EXCEPT ![k] = Registered(archive[k], u, sel, week)]
    BY <1>4, RowParts DEF RegisterInArchive, TypeOK, Archives
  <2>2. Archived' = Archived /\ \A j \in Archived : archive'[j].board = archive[j].board
    BY <2>1, ContentsKept, RowsAreRows DEF TypeOK, Archived, Archives
  <2> QED  BY <1>4, <2>2, SameBoards DEF RegisterInArchive, Live
<1>5. CASE UNCHANGED vars
  BY <1>5, SameBoards DEF vars, Live, Archived
<1>6. ASSUME NEW ids \in Lists, Create(ids) PROVE BoardInv'
  BY <1>6, CreateBoards, ListsAreSeqs DEF Arrangements
<1> QED  BY <1>1, <1>2, <1>3, <1>4, <1>5, <1>6, DeleteBoards, ArchiveBoards, RestoreBoards, ListsAreSeqs
         DEF Next

-----------------------------------------------------------------------------
(* The order of the list.                                                   *)

\* Where reorderTeams puts two teams: named before not named, otherwise by the
\* last mention, otherwise as they were.
LEMMA PlacesInOrder ==
    ASSUME TypeOK, NEW ids \in Seq(Ids), NEW t \in Live, NEW x \in Live,
           \/ Mention(ids, t) # 0 /\ Mention(ids, x) = 0
           \/ Mention(ids, t) # 0 /\ Mention(ids, t) < Mention(ids, x)
           \/ Mention(ids, t) = Mention(ids, x) /\ row[t].order < row[x].order
    PROVE  Place(ids, t) < Place(ids, x)
<1>0. /\ row[t].order \in Nat /\ row[x].order \in Nat /\ Len(ids) \in Nat
      /\ Mention(ids, t) \in 0 .. Len(ids) /\ Mention(ids, x) \in 0 .. Len(ids)
      /\ \A n \in 0 .. Len(ids) : Named(ids, n) \in Nat
  BY RowParts, MentionLast, NamedGrows DEF Rows
<1>1. CASE Mention(ids, t) # 0 /\ Mention(ids, x) = 0
  <2>1. Named(ids, Mention(ids, t) - 1) < Named(ids, Len(ids))
    BY <1>0, <1>1, MentionLast, NamedGrows
  <2>2. Named(ids, Mention(ids, t) - 1) \in Nat /\ Named(ids, Len(ids)) \in Nat
    BY <1>0, <1>1
  <2> QED  BY <1>0, <1>1, <2>1, <2>2 DEF Place
<1>2. CASE Mention(ids, t) # 0 /\ Mention(ids, t) < Mention(ids, x)
  <2>1. Named(ids, Mention(ids, t) - 1) < Named(ids, Mention(ids, x) - 1)
    <3>1. /\ Mention(ids, x) - 1 \in 0 .. Len(ids)
          /\ Mention(ids, t) \in 1 .. Mention(ids, x) - 1
      BY <1>0, <1>2
    <3>2. ids[Mention(ids, t)] \in Live
      BY <1>2, MentionLast
    <3> QED  BY <3>1, <3>2, NamedGrows
  <2> QED  BY <1>0, <1>2, <2>1 DEF Place
<1>3. CASE Mention(ids, t) = Mention(ids, x) /\ row[t].order < row[x].order
  <2>1. Mention(ids, t) = 0
    BY <1>0, <1>3, MentionLast
  <2> QED  BY <1>0, <1>3, <2>1 DEF Place
<1> QED  BY <1>1, <1>2, <1>3

LEMMA ReorderPlaces ==
    ASSUME TypeOK, PlacesDistinct, NEW ids \in Seq(Ids), Reorder(ids) PROVE PlacesDistinct'
<1> SUFFICES ASSUME NEW t \in Live, NEW x \in Live, t # x PROVE Place(ids, t) # Place(ids, x)
  BY ReorderEffect DEF PlacesDistinct
<1>1. /\ row[t].order \in Nat /\ row[x].order \in Nat /\ row[t].order # row[x].order
      /\ Mention(ids, t) \in Nat /\ Mention(ids, x) \in Nat
  BY RowParts, MentionLast DEF Rows, PlacesDistinct
<1>2. Mention(ids, t) = Mention(ids, x) => Mention(ids, t) = 0
  BY MentionLast
<1>3. Place(ids, t) < Place(ids, x) \/ Place(ids, x) < Place(ids, t)
  BY <1>1, <1>2, PlacesInOrder
<1>4. Place(ids, t) \in Nat /\ Place(ids, x) \in Nat
  <2>1. TypeOK' /\ row'[t].order = Place(ids, t) /\ row'[x].order = Place(ids, x) /\ Live' = Live
    BY ReorderEffect
  <2> QED  BY <2>1 DEF TypeOK, Live, Rows
<1> QED  BY <1>3, <1>4

LEMMA CreatePlaces ==
    ASSUME TypeOK, PlacesDistinct, NEW ids \in Seq(Ids), Create(ids) PROVE PlacesDistinct'
<1>0. NextOrder \in Nat /\ Len(ids) \in Nat /\ \A t \in Live : row[t].order \in Nat
  BY NextIsLast, RowParts, MaxOrderAssumption DEF Rows
<1>1. ASSUME NEW t \in Live'
      PROVE  \/ Mention(ids, t) = 0 /\ t \in Live /\ row'[t] = row[t]
             \/ Mention(ids, t) \in 1 .. Len(ids) /\ row'[t].order = NextOrder + Mention(ids, t) - 1
  BY MentionLast DEF Create, Live
<1> SUFFICES ASSUME NEW t \in Live', NEW x \in Live', t # x PROVE row'[t].order # row'[x].order
  BY DEF PlacesDistinct
<1>2. Mention(ids, t) = Mention(ids, x) => Mention(ids, t) = 0
  BY <1>0, MentionLast
<1>3. \A y \in Live : row[y].order < NextOrder
  BY NextIsLast
<1> QED  BY <1>0, <1>1, <1>2, <1>3 DEF PlacesDistinct

LEMMA PlaceStep == TypeOK /\ PlacesDistinct /\ [Next]_vars => PlacesDistinct'
<1> SUFFICES ASSUME TypeOK, PlacesDistinct, [Next]_vars PROVE PlacesDistinct'
  OBVIOUS
<1>1. ASSUME NEW t \in Live, NEW fallback, Remove(t, fallback) PROVE PlacesDistinct'
  BY <1>1, RemoveLeaves DEF PlacesDistinct
<1>2. ASSUME NEW k \in Ids \X Stamps, Restore(k) PROVE PlacesDistinct'
  <2>1. \A x \in Live' : \/ x = k[1] /\ row'[x].order = NextOrder
                         \/ x \in Live /\ x # k[1] /\ row'[x] = row[x]
    BY <1>2 DEF Restore, Live, TypeOK
  <2>2. NextOrder \in Nat /\ \A x \in Live : row[x].order < NextOrder /\ row[x].order \in Nat
    BY NextIsLast, RowParts, MaxOrderAssumption DEF Rows
  <2> QED  BY <2>1, <2>2 DEF PlacesDistinct
<1>3. ASSUME NEW t \in Live, NEW c, row' = [row EXCEPT ![t].team = c] PROVE PlacesDistinct'
  <2>1. \A x \in Live' : x \in Live /\ row'[x].order = row[x].order
    BY <1>3, RowParts DEF TypeOK, Live, Rows
  <2> QED  BY <2>1 DEF PlacesDistinct
<1>4. ASSUME NEW t, NEW ts \in SUBSET Types, SetTypes(t, ts) PROVE PlacesDistinct'
  BY <1>3, <1>4 DEF SetTypes
<1>5. ASSUME NEW u, NEW sel, NEW week, NEW t, RegisterInTeam(t, u, sel, week) PROVE PlacesDistinct'
  BY <1>3, <1>5 DEF RegisterInTeam
<1>6. CASE row' = row
  BY <1>6 DEF PlacesDistinct, Live
<1>7. ASSUME NEW ids \in Lists, Create(ids) PROVE PlacesDistinct'
  BY <1>7, CreatePlaces, ListsAreSeqs DEF Arrangements
<1>8. ASSUME NEW ids \in Arrangements, Reorder(ids) PROVE PlacesDistinct'
  BY <1>8, ReorderPlaces, ListsAreSeqs
<1>9. ASSUME NEW t, NEW fallback, NEW at, Delete(t, fallback) \/ Archive(t, at, fallback)
      PROVE  PlacesDistinct'
  BY <1>1, <1>9 DEF Delete, Archive
<1>10. ASSUME NEW k, NEW u, NEW sel, NEW week, RegisterInArchive(k, u, sel, week)
       PROVE  PlacesDistinct'
  BY <1>6, <1>10 DEF RegisterInArchive
<1>11. CASE UNCHANGED vars
  BY <1>6, <1>11 DEF vars
<1> QED  BY <1>2, <1>4, <1>5, <1>7, <1>8, <1>9, <1>10, <1>11 DEF Next

-----------------------------------------------------------------------------
(* Subsidies.                                                               *)

\* What a member has chosen is among the types, or was registered late.
Fits(c) ==
    \A u \in Users : \A x \in c.chosen[u] : x.type \in c.types \/ <<c.board, x.type>> \in late

LEMMA KeptFits == DanglingOnlyIfLate <=> \A c \in Kept : Fits(c)
BY DEF DanglingOnlyIfLate, Fits

LEMMA KeptParts ==
    /\ \A t \in Live : row[t].team \in Kept
    /\ \A k \in Archived : archive[k] \in Kept
    /\ \A c \in Kept : \/ \E t \in Live : c = row[t].team
                       \/ \E k \in Archived : c = archive[k]
BY DEF Kept, Archived

LEMMA BlankFits == \A b : Fits(Blank(b))
BY DEF Fits, Blank

\* Moves between the tables, and new teams.
LEMMA MovesFit ==
    ASSUME DanglingOnlyIfLate, late' = late,
           \A t \in Live' : row'[t].team \in Kept \/ \E b : row'[t].team = Blank(b),
           \A k \in Archived' : archive'[k] \in Kept
    PROVE  DanglingOnlyIfLate'
<1>1. \A c \in Kept' : c \in Kept \/ \E b : c = Blank(b)
  BY DEF Kept, Archived
<1>2. \A c : Fits(c) => Fits(c)'
  BY DEF Fits
<1>3. (\A c \in Kept : Fits(c))'
  BY <1>1, <1>2, KeptFits, BlankFits
<1> QED  BY <1>3 DEF DanglingOnlyIfLate, Fits

LEMMA ShelfFits ==
    ASSUME TypeOK, DanglingOnlyIfLate,
           \/ \E ids \in Lists : Create(ids)
           \/ \E t \in Ids, fallback \in Ids \cup {NoRow} :
                 Delete(t, fallback) \/ \E at \in Stamps : Archive(t, at, fallback)
           \/ \E k \in Ids \X Stamps : Restore(k)
           \/ \E ids \in Arrangements : Reorder(ids)
    PROVE  DanglingOnlyIfLate'
<1>1. ASSUME NEW ids \in Lists, Create(ids) PROVE DanglingOnlyIfLate'
  <2>1. \A t \in Live' : \/ t \in Live /\ row'[t] = row[t]
                         \/ row'[t].team = Blank(boards + Mention(ids, t))
    BY <1>1 DEF Create, Live
  <2> QED  BY <1>1, <2>1, KeptParts, MovesFit DEF Create, Archived
<1>2. ASSUME NEW t \in Live, NEW fallback, Remove(t, fallback), NEW x \in Live'
      PROVE  row'[x].team \in Kept \/ \E b : row'[x].team = Blank(b)
  <2>1. \/ x \in Live /\ row'[x] = row[x]
        \/ row'[x].team = Blank(boards + 1)
    BY <1>2 DEF Remove, Live, TypeOK
  <2> QED  BY <2>1, KeptParts
<1>3. ASSUME NEW t, NEW fallback, Delete(t, fallback) PROVE DanglingOnlyIfLate'
  BY <1>2, <1>3, KeptParts, MovesFit DEF Delete, Archived
<1>4. ASSUME NEW t \in Ids, NEW at \in Stamps, NEW fallback, Archive(t, at, fallback)
      PROVE  DanglingOnlyIfLate'
  <2>1. PICK a \in Ids \X Stamps : a = <<t, at>>
    OBVIOUS
  <2>2. \A k \in Archived' : archive'[k] = row[t].team \/ (k \in Archived /\ archive'[k] = archive[k])
    BY <1>4, <2>1 DEF Archive, Archived, TypeOK, Archives
  <2> QED  BY <1>2, <1>4, <2>2, KeptParts, MovesFit DEF Archive
<1>5. ASSUME NEW k \in Ids \X Stamps, Restore(k) PROVE DanglingOnlyIfLate'
  <2>1. k \in Archived
    BY <1>5 DEF Restore, Archived
  <2>2. \A x \in Live' : row'[x].team = archive[k] \/ (x \in Live /\ row'[x] = row[x])
    BY <1>5 DEF Restore, Live, TypeOK
  <2>3. \A j \in Archived' : j \in Archived /\ archive'[j] = archive[j]
    BY <1>5 DEF Restore, Archived, TypeOK, Archives
  <2> QED  BY <1>5, <2>1, <2>2, <2>3, KeptParts, MovesFit DEF Restore
<1>6. ASSUME NEW ids \in Arrangements, Reorder(ids) PROVE DanglingOnlyIfLate'
  <2>1. \A x \in Live' : x \in Live /\ row'[x].team = row[x].team
    BY <1>6, ReorderEffect, ListsAreSeqs
  <2>2. archive' = archive /\ late' = late
    BY <1>6 DEF Reorder
  <2> QED  BY <2>1, <2>2, KeptParts, MovesFit DEF Archived
<1> QED  BY <1>1, <1>3, <1>4, <1>5, <1>6

\* Setting the types drops what is left over, and forgets what was late.
LEMMA SetTypesFits ==
    ASSUME TypeOK, BoardInv, DanglingOnlyIfLate, NEW t, NEW ts \in SUBSET Types, SetTypes(t, ts)
    PROVE  DanglingOnlyIfLate'
<1>0. PICK c : c = row[t].team
  OBVIOUS
<1>1. /\ t \in Live /\ row' = [row EXCEPT ![t].team = WithTypes(c, ts)]
      /\ late' = {x \in late : x[1] # c.board} /\ archive' = archive
  BY <1>0 DEF SetTypes, TypeOK, Live
<1>2. \A x \in Live' : x \in Live /\ row'[x].team = IF x = t THEN WithTypes(c, ts) ELSE row[x].team
  BY <1>1, RowParts DEF Live, TypeOK, Rows
<1>3. Fits(WithTypes(c, ts))'
  BY <1>0, <1>1, RowParts DEF Fits, WithTypes, Contents
<1>4. ASSUME NEW d \in Kept, d.board # c.board PROVE Fits(d)'
  <2>1. Fits(d)
    BY KeptFits
  <2> QED  BY <1>1, <1>4, <2>1 DEF Fits
<1>5. \A d \in Kept' : d = WithTypes(c, ts) \/ (d \in Kept /\ d.board # c.board)
  <2>1. \A x \in Live : x # t => row[x].team \in Kept /\ row[x].team.board # c.board
    BY <1>0, <1>1, KeptParts DEF BoardInv, OnePlace
  <2>2. \A k \in Archived' : archive'[k] \in Kept /\ archive'[k].board # c.board
    BY <1>0, <1>1, KeptParts DEF BoardInv, OnePlace, Archived
  <2>3. \A d \in Kept' : (\E x \in Live' : d = row'[x].team) \/ (\E k \in Archived' : d = archive'[k])
    BY DEF Kept, Archived
  <2> QED  BY <1>2, <2>1, <2>2, <2>3
<1>6. (\A d \in Kept : Fits(d))'
  BY <1>3, <1>4, <1>5
<1> QED  BY <1>6 DEF DanglingOnlyIfLate, Fits

\* A member registers: his choice fits, or is noted as late.
LEMMA RegisteredFits ==
    ASSUME TypeOK, NEW c \in Contents, Fits(c), NEW u \in Users, NEW sel \in SUBSET Choices,
           NEW week \in Weeks \cup {NoWeek}, NoteLate(c, sel)
    PROVE  /\ late \subseteq late'
           /\ Fits(Registered(c, u, sel, week))'
<1> DEFINE d == Registered(c, u, sel, week)
<1>1. late' = late \cup {<<c.board, x.type>> : x \in {y \in sel : y.type \notin c.types}}
  BY DEF NoteLate
<1>2. d.board = c.board /\ d.types = c.types
  BY ContentsKept
<1>3. \A v \in Users : d.chosen[v] = IF v = u THEN Chosen(c.chosen[u], sel, week) ELSE c.chosen[v]
  BY DEF Registered, Contents
<1>4. \A x \in Chosen(c.chosen[u], sel, week) : x \in c.chosen[u] \/ \E y \in sel : y.type = x.type
  <2>1. \A x \in Scoped(sel, week) : \E y \in sel : y.type = x.type
    BY DEF Scoped, Choices
  <2> QED  BY <2>1 DEF Chosen
<1>5. \A y \in sel : y.type \in c.types \/ <<c.board, y.type>> \in late'
  BY <1>1
<1>6. ASSUME NEW v \in Users, NEW x \in d.chosen[v] PROVE x.type \in c.types \/ <<c.board, x.type>> \in late'
  <2>1. x \in c.chosen[v] \/ \E y \in sel : y.type = x.type
    BY <1>3, <1>4
  <2>2. CASE x \in c.chosen[v]
    BY <1>1, <2>2 DEF Fits
  <2>3. CASE \E y \in sel : y.type = x.type
    BY <1>5, <2>3
  <2> QED  BY <2>1, <2>2, <2>3
<1>7. Fits(d)'
  BY <1>2, <1>6 DEF Fits
<1> QED  BY <1>1, <1>7

LEMMA RegisterFits ==
    ASSUME TypeOK, DanglingOnlyIfLate, NEW u \in Users, NEW sel \in SUBSET Choices,
           NEW week \in Weeks \cup {NoWeek}
    PROVE  /\ \A t \in Ids : RegisterInTeam(t, u, sel, week) => DanglingOnlyIfLate'
           /\ \A k \in Ids \X Stamps : RegisterInArchive(k, u, sel, week) => DanglingOnlyIfLate'
<1>0. ASSUME NEW c \in Kept, NoteLate(c, sel), c \in Contents,
             \A d \in Kept' : d \in Kept \/ d = Registered(c, u, sel, week)
      PROVE  DanglingOnlyIfLate'
  <2>1. late \subseteq late' /\ Fits(Registered(c, u, sel, week))'
    BY <1>0, KeptFits, RegisteredFits
  <2>2. \A d \in Kept : Fits(d)'
    BY <2>1, KeptFits DEF Fits
  <2>3. (\A d \in Kept : Fits(d))'
    BY <1>0, <2>1, <2>2
  <2> QED  BY <2>3 DEF DanglingOnlyIfLate, Fits
<1>1. ASSUME NEW t \in Ids, RegisterInTeam(t, u, sel, week) PROVE DanglingOnlyIfLate'
  <2> DEFINE c == row[t].team
  <2>1. /\ t \in Live /\ row' = [row EXCEPT ![t].team = Registered(c, u, sel, week)]
        /\ NoteLate(c, sel) /\ archive' = archive /\ c \in Contents
    BY <1>1, RowParts DEF RegisterInTeam, TypeOK
  <2>2. \A x \in Live' : x \in Live /\ row'[x].team = IF x = t THEN Registered(c, u, sel, week)
                                                               ELSE row[x].team
    BY <2>1, RowParts DEF Live, TypeOK, Rows
  <2>3. \A d \in Kept' : d \in Kept \/ d = Registered(c, u, sel, week)
    <3>1. \A d \in Kept' : (\E x \in Live' : d = row'[x].team) \/ (\E k \in Archived' : d = archive'[k])
      BY DEF Kept, Archived
    <3>2. \A k \in Archived' : archive'[k] \in Kept
      BY <2>1, KeptParts DEF Archived
    <3> QED  BY <2>2, <3>1, <3>2, KeptParts
  <2> QED  BY <1>0, <2>1, <2>3, KeptParts
<1>2. ASSUME NEW a \in Ids \X Stamps, RegisterInArchive(a, u, sel, week) PROVE DanglingOnlyIfLate'
  <2> DEFINE c == archive[a]
  <2>1. /\ a \in Archived /\ archive' = [archive EXCEPT ![a] = Registered(c, u, sel, week)]
        /\ NoteLate(c, sel) /\ row' = row /\ c \in Contents
    BY <1>2, RowParts DEF RegisterInArchive, TypeOK, Archives, Archived
  <2>2. \A k \in Archived' : \/ archive'[k] = Registered(c, u, sel, week)
                             \/ k \in Archived /\ archive'[k] = archive[k]
    BY <2>1 DEF Archived, TypeOK, Archives
  <2>3. \A d \in Kept' : d \in Kept \/ d = Registered(c, u, sel, week)
    <3>1. \A d \in Kept' : (\E x \in Live' : d = row'[x].team) \/ (\E k \in Archived' : d = archive'[k])
      BY DEF Kept, Archived
    <3>2. \A x \in Live' : row'[x].team \in Kept
      BY <2>1, KeptParts DEF Live
    <3> QED  BY <2>2, <3>1, <3>2, KeptParts
  <2> QED  BY <1>0, <2>1, <2>3, KeptParts
<1> QED  BY <1>1, <1>2

LEMMA DanglingStep == TypeOK /\ BoardInv /\ DanglingOnlyIfLate /\ [Next]_vars => DanglingOnlyIfLate'
<1>1. TypeOK /\ DanglingOnlyIfLate /\ UNCHANGED vars => DanglingOnlyIfLate'
  BY DEF vars, DanglingOnlyIfLate, Kept, Live
<1> QED  BY <1>1, ShelfFits, SetTypesFits, RegisterFits DEF Next

-----------------------------------------------------------------------------
LEMMA AlwaysBoards == Spec => []BoardInv
<1>1. Init => BoardInv
  BY DEF Init, BoardInv, OnePlace, BoardsGiven, Live, Archived
<1> QED  BY <1>1, BoardStep, TypeCorrect, PTL DEF Spec

\* OnePlace: no team is in the list and in an archive, nor in two archives or
\* twice in the list.
THEOREM OnePlaceHolds == Spec => []OnePlace
<1>1. BoardInv => OnePlace
  BY DEF BoardInv
<1> QED  BY <1>1, AlwaysBoards, PTL

\* PlacesDistinct: creates, removals, restores and reorders with any list of
\* ids leave no two teams with the same sort_order.
THEOREM PlacesDistinctHolds == Spec => []PlacesDistinct
<1>1. Init => PlacesDistinct
  BY DEF Init, PlacesDistinct, Live
<1> QED  BY <1>1, PlaceStep, TypeCorrect, PTL DEF Spec

\* DanglingOnlyIfLate: what a member has chosen and his team does not offer
\* was registered since the types were last set.
THEOREM DanglingOnlyIfLateHolds == Spec => []DanglingOnlyIfLate
<1>1. Init => DanglingOnlyIfLate
  BY DEF Init, DanglingOnlyIfLate, Kept, Live
<1> QED  BY <1>1, DanglingStep, AlwaysBoards, TypeCorrect, PTL DEF Spec

\* ReorderObeyed: reorderTeams puts the ids it is given first, in the order of
\* their last mention, and the other teams behind them in their old order.
THEOREM ReorderObeyedHolds == Spec => ReorderObeyed
<1>1. ASSUME TypeOK, NEW ids \in Arrangements, Reorder(ids), NEW t \in Live, NEW x \in Live,
             \/ Mention(ids, t) # 0 /\ Mention(ids, x) = 0
             \/ Mention(ids, t) # 0 /\ Mention(ids, t) < Mention(ids, x)
             \/ Mention(ids, t) = Mention(ids, x) /\ row[t].order < row[x].order
      PROVE  row'[t].order < row'[x].order
  <2>1. ids \in Seq(Ids)
    BY ListsAreSeqs
  <2> QED  BY <1>1, <2>1, ReorderEffect, PlacesInOrder
<1>2. TypeOK => (OnlyPlacesChange => \A ids \in Arrangements : Reorder(ids) =>
          \A t, x \in Live :
             \/ Mention(ids, t) # 0 /\ Mention(ids, x) = 0
             \/ Mention(ids, t) # 0 /\ Mention(ids, t) < Mention(ids, x)
             \/ Mention(ids, t) = Mention(ids, x) /\ row[t].order < row[x].order
             => row'[t].order < row'[x].order)
  BY <1>1
<1> QED  BY <1>2, TypeCorrect, PTL DEF ReorderObeyed
=============================================================================
