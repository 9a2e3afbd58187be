------------------------------- MODULE Restores -------------------------------
(***************************************************************************)
(* Bringing old data back onto the board of SlotBoard, while clients hold  *)
(* slot locks: restoreBackup, importBackup and replaceData, which replace  *)
(* every team, and archiveTeam with restoreArchive, for one team, all of   *)
(* backend-cpp/src/main.cpp.                                               *)
(*                                                                         *)
(* The first three clear all locks, but only after they have given mutex_  *)
(* back: a mutation that waits for it may come in between.  And if the     *)
(* files cannot be listed after COMMIT the request fails, its data stay    *)
(* and the locks are not cleared at all.  restoreArchive clears no lock.   *)
(*                                                                         *)
(* A backup file is one that createBackup wrote; what makes its directory  *)
(* is in Records, and the places of several archived teams in TeamShelf.   *)
(***************************************************************************)
EXTENDS SlotBoard, FiniteSets

CONSTANTS
    Restorers,  \* restores that can be in flight together
    MaxKept,    \* bound of the model: archived teams and backups
    NoBoard

VARIABLES
    archives,   \* the table archives.  Bound of the model: one of each team
    backup,     \* a file.  Bound of the model: the last one made
    clearFrom,  \* of each restore that has not cleared the locks yet: nextToken at its COMMIT
    retired     \* history: older tokens are from before a restore that has answered

restores == <<backup, clearFrom, retired>>
rvars    == <<vars, archives, restores>>

\* what team_json holds, and the data of a file
ArchivedTeams == [onlyTn : BOOLEAN, uniqueQq : BOOLEAN,
                  reserved : SUBSET Seats, seat : [Seats -> SeatRows]]
Shelves == [Teams -> ArchivedTeams \cup {NoBoard}]
Boards  == [teams : SUBSET Teams, onlyTn : SUBSET Teams, uniqueQq : SUBSET Teams,
            reserved : SUBSET Seats, seat : [Seats -> SeatRows], archives : Shelves]

-----------------------------------------------------------------------------
\* archiveTeam.  normalizeTeam is left to RestoreArchive: it does not matter
\* how often it is applied.
ArchiveTeam(t, fallback) ==
    /\ DeleteTeam(t, fallback)
    /\ archives' = [archives EXCEPT ![t] =
          [onlyTn |-> t \in onlyTn, uniqueQq |-> t \in uniqueQq,
           reserved |-> reserved \cap SeatsOf(t),
           seat |-> [s \in Seats |-> IF TeamOf[s] = t THEN seat[s] ELSE EmptySeat]]]
    /\ UNCHANGED restores

\* restoreArchive, over a team of the same id too
RestoreArchive(t) ==
    /\ DbFree
    /\ archives[t] # NoBoard
    /\ LET a == archives[t]
       IN  /\ onlyTn' = IF a.onlyTn THEN onlyTn \cup {t} ELSE onlyTn \ {t}
           /\ uniqueQq' = IF a.uniqueQq THEN uniqueQq \cup {t} ELSE uniqueQq \ {t}
           /\ StoreTeam(t, a.seat, (reserved \ SeatsOf(t)) \cup a.reserved)
    /\ teams' = teams \cup {t}
    /\ archives' = [archives EXCEPT ![t] = NoBoard]
    /\ UNCHANGED <<runtime, requests, restores>>

\* createBackup, createAutomaticBackup: bootstrapDataUnlocked copies the rows
CreateBackup ==
    /\ DbFree
    /\ backup' = [teams |-> teams, onlyTn |-> onlyTn, uniqueQq |-> uniqueQq,
                  reserved |-> reserved, seat |-> seat, archives |-> archives]
    /\ UNCHANGED <<vars, archives, clearFrom, retired>>

\* deleteBackup
DeleteBackup ==
    /\ DbFree
    /\ backup' = NoBoard
    /\ UNCHANGED <<vars, archives, clearFrom, retired>>

\* mutant: the reserved lists are not replaced
RestoreBackupKeepingReserved(r, listed) ==
    /\ DbFree
    /\ backup # NoBoard
    /\ clearFrom[r] = 0
    /\ teams' = backup.teams
    /\ onlyTn' = backup.onlyTn
    /\ uniqueQq' = backup.uniqueQq
    /\ seat' = backup.seat
    /\ archives' = backup.archives
    /\ clearFrom' = IF listed THEN [clearFrom EXCEPT ![r] = nextToken] ELSE clearFrom
    /\ UNCHANGED <<reserved, runtime, requests, backup, retired>>

\* restoreBackup, importBackup, replaceData: from mutex_ to mutex_.  Unless
\* the files are listed the request ends here, with an error.
RestoreBackup(r, listed) ==
    /\ DbFree
    /\ backup # NoBoard
    /\ clearFrom[r] = 0
    /\ teams' = backup.teams
    /\ onlyTn' = backup.onlyTn
    /\ uniqueQq' = backup.uniqueQq
    /\ reserved' = backup.reserved
    /\ seat' = backup.seat
    /\ archives' = backup.archives
    /\ clearFrom' = IF listed THEN [clearFrom EXCEPT ![r] = nextToken] ELSE clearFrom
    /\ UNCHANGED <<runtime, requests, backup, retired>>

\* clearRuntimeLocks, and the answer
ClearRuntimeLocks(r) ==
    /\ clearFrom[r] # 0
    /\ locks' = [s \in Seats |-> NoLock]
    /\ lockedFor' = [t \in Teams |-> NotLocked]
    /\ retired' = IF clearFrom[r] > retired THEN clearFrom[r] ELSE retired
    /\ clearFrom' = [clearFrom EXCEPT ![r] = 0]
    /\ UNCHANGED <<database, nextToken, issued, requests, archives, backup>>

\* a restore in flight ends with the process
RestartRestores ==
    /\ Restart
    /\ clearFrom' = [r \in Restorers |-> 0]
    /\ UNCHANGED <<archives, backup, retired>>

-----------------------------------------------------------------------------
RestoreInit ==
    /\ Init
    /\ archives = [t \in Teams |-> NoBoard]
    /\ backup = NoBoard
    /\ clearFrom = [r \in Restorers |-> 0]
    /\ retired = 0

BoardStep == LockStep \/ (\E p \in Procs : MutationStep(p)) \/ AdminStep

RestoreStep ==
    \/ \E t \in Teams, fallback \in Teams \cup {NoTeam} : ArchiveTeam(t, fallback)
    \/ \E t \in Teams : RestoreArchive(t)
    \/ CreateBackup \/ DeleteBackup
    \/ \E r \in Restorers, listed \in BOOLEAN : RestoreBackup(r, listed)
    \/ \E r \in Restorers : ClearRuntimeLocks(r)

Kept == Cardinality({t \in Teams : archives[t] # NoBoard}) + IF backup = NoBoard THEN 0 ELSE 1

RestoreNext ==
    \/ BoardStep /\ UNCHANGED <<archives, restores>>
    \/ RestoreStep /\ Kept' <= MaxKept
    \/ RestartRestores

RestoreSpec == RestoreInit /\ [][RestoreNext]_rvars

\* Nothing more is assumed of restores: one in flight may never go on.
FairRestoreSpec == RestoreSpec /\ Fairness

-----------------------------------------------------------------------------
\* Once a restore has answered that it is done, no mutation enters its
\* transaction with a ticket from before the data were replaced, although it
\* may have been validated then and have waited for mutex_ all the time, and
\* although other restores may be at any point of theirs.  Until the answer
\* some may enter, and all of them if the restore fails after COMMIT.
OldTicketsEnd ==
    [][\A p \in Procs :
          pc[p] = "waiting" /\ pc'[p] = "txn" => req[p].ticket.tok >= retired]_rvars
=============================================================================
