------------------------------ MODULE TeamShelf ------------------------------
(***************************************************************************)
(* Where teams are kept: the table teams with its sort_order, the table    *)
(* archives, and the subsidies members register in either, of              *)
(* backend-cpp/src/main.cpp.                                               *)
(*                                                                         *)
(* A team is known by its id, which its creator chooses: a create or a     *)
(* restore with an id that is in use replaces the team that has it.  An    *)
(* archive is known by the team id and the time it was archived at, which  *)
(* the client may choose too.  To tell apart teams that had the same id    *)
(* one after the other, each row carries a board number that the code does *)
(* not have; it stands for the slots and the settings of that team.        *)
(*                                                                         *)
(* Every step is one transaction under mutex_.  A member's list of         *)
(* selections is a set here, and a selection is its type and its week.     *)
(***************************************************************************)
EXTENDS Naturals, FiniteSets, Sequences

CONSTANTS
    Ids,        \* team ids
    Stamps,     \* values of archivedAt
    Users,      \* QQ numbers
    Types,      \* subsidy type ids
    Weeks,      \* values of weekStart
    MaxBoard,   \* bound of the model: teams ever created
    MaxOrder,   \* bound of the model: sort_order
    Funded,     \* bound of the model: the boards that are given subsidies
    NoRow, NoWeek

ASSUME MaxBoardAssumption == MaxBoard \in Nat /\ Cardinality(Ids) <= MaxBoard
ASSUME MaxOrderAssumption == MaxOrder \in Nat /\ Cardinality(Ids) <= MaxOrder

ASSUME IdsAssumption == IsFiniteSet(Ids)

VARIABLES
    row,        \* the table teams
    archive,    \* the table archives, by team id and archivedAt
    boards,     \* how many teams were created
    late        \* history: types registered, by board, that were not there then

vars == <<row, archive, boards, late>>

-----------------------------------------------------------------------------
Choices == [type : Types, week : Weeks \cup {NoWeek}]

Contents == [board : 1 .. MaxBoard, types : SUBSET Types, chosen : [Users -> SUBSET Choices]]

Rows     == [order : 0 .. MaxOrder, team : Contents]
Archives == [Ids \X Stamps -> Contents \cup {NoRow}]

ASSUME NoRowAssumption == NoRow \notin Rows \cup Contents

Blank(b) == [board |-> b, types |-> {}, chosen |-> [u \in Users |-> {}]]

Live == {t \in Ids : row[t] # NoRow}

Orders == {row[t].order : t \in Live}

\* mutant: the number of teams is taken for the next position
NextOrderByCount == Cardinality(Live)

\* nextTeamSortOrderUnlocked: one more than the largest, 0 in an empty table
NextOrder == IF Live = {} THEN 0 ELSE 1 + CHOOSE n \in Orders : \A k \in Orders : k <= n

\* what the rows of teams and archives hold
Kept == {row[t].team : t \in Live} \cup {archive[k] : k \in {j \in Ids \X Stamps : archive[j] # NoRow}}

-----------------------------------------------------------------------------
\* the last place of an id in a list of ids, 0 if it is not there
Mention(ids, t) ==
    IF \E k \in 1 .. Len(ids) : ids[k] = t
    THEN CHOOSE k \in 1 .. Len(ids) : ids[k] = t /\ \A j \in k + 1 .. Len(ids) : ids[j] # t
    ELSE 0

\* createTeam (one id) and createTeams: each of ids in turn, INSERT OR REPLACE
Create(ids) ==
    /\ boards + Len(ids) <= MaxBoard
    /\ NextOrder + Len(ids) <= MaxOrder + 1
    /\ row' = [t \in Ids |->
                 IF Mention(ids, t) = 0 THEN row[t]
                 ELSE [order |-> NextOrder + Mention(ids, t) - 1,
                       team  |-> Blank(boards + Mention(ids, t))]]
    /\ boards' = boards + Len(ids)
    /\ UNCHANGED <<archive, late>>

\* DELETE FROM teams, then the fallback team at the first place if no team
\* is left and the client sent one
Remove(t, fallback) ==
    IF Live = {t} /\ fallback # NoRow
    THEN /\ boards < MaxBoard
         /\ row' = [x \in Ids |-> IF x = fallback
                                  THEN [order |-> 0, team |-> Blank(boards + 1)] ELSE NoRow]
         /\ boards' = boards + 1
    ELSE /\ row' = [row EXCEPT ![t] = NoRow]
         /\ UNCHANGED boards

\* deleteTeam
Delete(t, fallback) ==
    /\ t \in Live
    /\ Remove(t, fallback)
    /\ UNCHANGED <<archive, late>>

\* archiveTeam: an archive of that id and time, if there is one, is replaced
Archive(t, at, fallback) ==
    /\ t \in Live
    /\ archive' = [archive EXCEPT ![<<t, at>>] = row[t].team]
    /\ Remove(t, fallback)
    /\ UNCHANGED late

\* mutant: the archive stays
RestoreCopying(k) ==
    /\ archive[k] # NoRow
    /\ NextOrder <= MaxOrder
    /\ row' = [row EXCEPT ![k[1]] = [order |-> NextOrder, team |-> archive[k]]]
    /\ UNCHANGED <<archive, boards, late>>

\* restoreArchive: at the end of the list, over a team of the same id
Restore(k) ==
    /\ archive[k] # NoRow
    /\ NextOrder <= MaxOrder
    /\ row' = [row EXCEPT ![k[1]] = [order |-> NextOrder, team |-> archive[k]]]
    /\ archive' = [archive EXCEPT ![k] = NoRow]
    /\ UNCHANGED <<boards, late>>

Named(ids, n) == Cardinality({k \in 1 .. n : ids[k] \in Live})

\* mutant: the teams not named are not pushed back
PlaceUnpushed(ids, t) ==
    IF Mention(ids, t) # 0 THEN Named(ids, Mention(ids, t) - 1) ELSE row[t].order

\* mutant: the first place is one too low
PlaceTooLow(ids, t) ==
    IF Mention(ids, t) # 0 THEN Named(ids, Mention(ids, t) - 1) - 1
                           ELSE row[t].order + Named(ids, Len(ids))

\* Where reorderTeams puts team t: the ids that exist are numbered as they
\* come, so the last mention counts; the others are pushed behind them.
Place(ids, t) ==
    IF Mention(ids, t) # 0 THEN Named(ids, Mention(ids, t) - 1)
                           ELSE row[t].order + Named(ids, Len(ids))

Reorder(ids) ==
    /\ UNCHANGED <<archive, boards, late>>
    /\ \A t \in Live : Place(ids, t) <= MaxOrder
    /\ row' = [t \in Ids |-> IF row[t] = NoRow THEN NoRow
                             ELSE [row[t] EXCEPT !.order = Place(ids, t)]]

-----------------------------------------------------------------------------
(* Subsidies.                                                               *)

\* mutant: the selections stay
WithTypesOnly(c, ts) == [c EXCEPT !.types = ts]

\* cleanMemberSubsidiesForTypes
WithTypes(c, ts) ==
    [c EXCEPT !.types = ts,
              !.chosen = [u \in Users |-> {x \in c.chosen[u] : x.type \in ts}]]

\* updateTeamSubsidyTypes, of teams only
SetTypes(t, ts) ==
    /\ t \in Live
    /\ row[t].team.board \in Funded
    /\ row' = [row EXCEPT ![t].team = WithTypes(@, ts)]
    /\ late' = {x \in late : x[1] # row[t].team.board}
    /\ UNCHANGED <<archive, boards>>

\* normalizeMemberSubsidySelections: the week of the request goes before the
\* selection's own
Scoped(sel, week) == {IF week = NoWeek THEN x ELSE [x EXCEPT !.week = week] : x \in sel}

\* what registerMemberSubsidies makes of a member's selections: those of other
\* weeks are kept if the request names a week, those without a week are not
Chosen(old, sel, week) ==
    IF week = NoWeek THEN Scoped(sel, week)
    ELSE {x \in old : x.week \notin {NoWeek, week}} \cup Scoped(sel, week)

\* The types of the selections are not compared with the team's.
Registered(c, u, sel, week) == [c EXCEPT !.chosen[u] = Chosen(@, sel, week)]

NoteLate(c, sel) ==
    late' = late \cup {<<c.board, x.type>> : x \in {y \in sel : y.type \notin c.types}}

\* registerMemberSubsidies, in a team or in an archive
RegisterInTeam(t, u, sel, week) ==
    /\ t \in Live
    /\ row[t].team.board \in Funded
    /\ row' = [row EXCEPT ![t].team = Registered(@, u, sel, week)]
    /\ NoteLate(row[t].team, sel)
    /\ UNCHANGED <<archive, boards>>

RegisterInArchive(k, u, sel, week) ==
    /\ archive[k] # NoRow
    /\ archive[k].board \in Funded
    /\ archive' = [archive EXCEPT ![k] = Registered(@, u, sel, week)]
    /\ NoteLate(archive[k], sel)
    /\ UNCHANGED <<row, boards>>

-----------------------------------------------------------------------------
Init ==
    /\ row = [t \in Ids |-> NoRow]
    /\ archive = [k \in Ids \X Stamps |-> NoRow]
    /\ boards = 0
    /\ late = {}

\* short lists of ids, the same id perhaps twice, and all ids in any order
Lists == UNION {[1 .. k -> Ids] : k \in 1 .. 2}
Arrangements ==
    Lists \cup {ids \in [1 .. Cardinality(Ids) -> Ids] : {ids[k] : k \in DOMAIN ids} = Ids}

Next ==
    \/ \E ids \in Lists : Create(ids)
    \/ \E t \in Ids, fallback \in Ids \cup {NoRow} :
          Delete(t, fallback) \/ \E at \in Stamps : Archive(t, at, fallback)
    \/ \E k \in Ids \X Stamps : Restore(k)
    \/ \E ids \in Arrangements : Reorder(ids)
    \/ \E t \in Ids, ts \in SUBSET Types : SetTypes(t, ts)
    \/ \E u \in Users, sel \in SUBSET Choices, week \in Weeks \cup {NoWeek} :
          \/ \E t \in Ids : RegisterInTeam(t, u, sel, week)
          \/ \E k \in Ids \X Stamps : RegisterInArchive(k, u, sel, week)

Spec == Init /\ [][Next]_vars

-----------------------------------------------------------------------------
TypeOK ==
    /\ row \in [Ids -> Rows \cup {NoRow}]
    /\ archive \in Archives
    /\ boards \in 0 .. MaxBoard
    /\ late \subseteq (1 .. MaxBoard) \X Types

\* No two teams share a place in the list, after any mix of creations,
\* removals, restores and reorders with partial, repeated or unknown ids:
\* the order an administrator arranged is the order shown.
PlacesDistinct == \A t, x \in Live : row[t].order = row[x].order => t = x

\* A team is in the list or in the archive, never in both and never in two
\* archives: no signups are counted twice, and none can come back from an
\* archive that was restored already.
OnePlace ==
    /\ \A t, x \in Live : row[t].team.board = row[x].team.board => t = x
    /\ \A k, j \in Ids \X Stamps :
          archive[k] # NoRow /\ archive[j] # NoRow /\ archive[k].board = archive[j].board => k = j
    /\ \A t \in Live, k \in Ids \X Stamps :
          archive[k] # NoRow => archive[k].board # row[t].team.board

\* A selection for a type its team does not have was registered since the
\* types were last set: setting them removes all others, also those that were
\* registered in the archive, before or after an earlier restore.
DanglingOnlyIfLate ==
    \A c \in Kept, u \in Users : \A x \in c.chosen[u] :
        x.type \in c.types \/ <<c.board, x.type>> \in late

OnlyPlacesChange ==
    /\ row' # row
    /\ \A t \in Live : row'[t] # NoRow /\ row'[t].team = row[t].team

\* A reorder puts the teams it names first, in the order of their last
\* mention, and keeps the others behind them as they were among themselves.
ReorderObeyed ==
    [][OnlyPlacesChange => \A ids \in Arrangements : Reorder(ids) =>
          \A t, x \in Live :
             \/ Mention(ids, t) # 0 /\ Mention(ids, x) = 0
             \/ Mention(ids, t) # 0 /\ Mention(ids, t) < Mention(ids, x)
             \/ Mention(ids, t) = Mention(ids, x) /\ row[t].order < row[x].order
             => row'[t].order < row'[x].order]_vars
=============================================================================
