------------------------------- MODULE Records -------------------------------
(***************************************************************************)
(* What the server of backend-cpp/src/main.cpp keeps of the past: the log  *)
(* of operations, the notices to members whose signup was cancelled, the   *)
(* backups, and the pages in which a client reads the log.                 *)
(*                                                                         *)
(* A log row has the id "timestamp-team-serial", with a serial counted by  *)
(* the process.  The timestamp is the clock's, but the logs of archiveTeam *)
(* and restoreArchive have the time the client sends, if it sends one.  A  *)
(* backup holds the newest LogWindow logs and NoticeWindow notices, as a   *)
(* page's data does, and restoring it replaces all there is.               *)
(*                                                                         *)
(* One reader pages through the logs of the teams that are shown to it.    *)
(* Teams and slots, and the runtime locks that restoring a backup clears,  *)
(* are in the other modules.                                               *)
(***************************************************************************)
EXTENDS Naturals, FiniteSets

CONSTANTS
    Teams,          \* team ids
    Users,          \* QQ numbers
    LogWindow,      \* kBootstrapLogLimit
    NoticeWindow,   \* kBootstrapCancellationLimit
    HistoryLimit,   \* kBackupHistoryLimit
    PageSizes,      \* the values of limit once clamped
    MaxTime,        \* bound of the model: the clock
    MaxLogs,        \* bound of the model: log rows, and serials of a process
    MaxFiles,       \* bound of the model: files in the directory
    ClientTimes     \* bound of the model: values of archivedAt and restoredAt

ASSUME LimitsAssumption ==
    /\ LogWindow \in Nat \ {0} /\ NoticeWindow \in Nat \ {0} /\ HistoryLimit \in Nat \ {0}
    /\ PageSizes \subseteq Nat \ {0}
ASSUME BoundsAssumption == MaxTime \in Nat /\ MaxLogs \in Nat /\ MaxFiles \in Nat
ASSUME ClientTimesAssumption == ClientTimes \subseteq 0 .. MaxTime

VARIABLES
    now,        \* nowMs
    serial,     \* logIdCounter_
    logs,       \* the table operation_logs
    notices,    \* the table cancellations
    files,      \* the directory of backups
    hidden,     \* the teams that are not shown to the reader
    reader,     \* the client that pages: what it has, the cursor it goes on from, those used
    steady      \* history: logs the reader was allowed to see ever since it began

store == <<now, serial, logs, notices>>
vars  == <<now, serial, logs, notices, files, hidden, reader, steady>>

-----------------------------------------------------------------------------
Times   == 0 .. MaxTime
Logs    == [at : Times, team : Teams, serial : 0 .. MaxLogs - 1, dated : BOOLEAN]
Notices == [qq : Users, at : Times, team : Teams]
Files   == [name : 0 .. MaxTime + MaxFiles, written : Times, whole : BOOLEAN,
            logs : SUBSET Logs, notices : SUBSET Notices]

Min(m, n) == IF m < n THEN m ELSE n

\* mutant: ORDER BY timestamp without DESC
Oldest(S, n) ==
    {W \in SUBSET S : /\ Cardinality(W) = Min(n, Cardinality(S))
                      /\ \A x \in W, y \in S \ W : x.at <= y.at}

\* ORDER BY timestamp DESC LIMIT n: rows of one time in any order
Newest(S, n) ==
    {W \in SUBSET S : /\ Cardinality(W) = Min(n, Cardinality(S))
                      /\ \A x \in W, y \in S \ W : x.at >= y.at}

-----------------------------------------------------------------------------
(* Logs and notices.                                                        *)

SameId(x, y) == x.at = y.at /\ x.team = y.team /\ x.serial = y.serial

\* mutant: no serial
InsertLogUncounted(team, at, dated) ==
    /\ logs' = logs \cup {[at |-> at, team |-> team, serial |-> serial, dated |-> dated]}
    /\ UNCHANGED serial

\* insertLogUnlocked: INSERT OR REPLACE
InsertLog(team, at, dated) ==
    LET row == [at |-> at, team |-> team, serial |-> serial, dated |-> dated]
        kept == {x \in logs : ~SameId(x, row)}
    IN  /\ serial < MaxLogs /\ Cardinality(kept) < MaxLogs
        /\ logs' = kept \cup {row}
        /\ serial' = serial + 1

\* saveSlotMember, leaveSlotMember, updateNickname and the others that log;
\* archiveTeam and restoreArchive too if the client sends no time
LogIt(team) ==
    /\ InsertLog(team, now, FALSE)
    /\ UNCHANGED <<now, notices, files, hidden, reader>>

\* archiveTeam with archivedAt, restoreArchive with restoredAt
LogDated(team, at) ==
    /\ InsertLog(team, at, TRUE)
    /\ UNCHANGED <<now, notices, files, hidden, reader>>

\* cancelSlotMember, of a taken slot: notice and log in one transaction
Cancel(q, team) ==
    /\ notices' = {n \in notices : ~(n.qq = q /\ n.at = now)}
                      \cup {[qq |-> q, at |-> now, team |-> team]}
    /\ InsertLog(team, now, FALSE)
    /\ UNCHANGED <<now, files, hidden, reader>>

\* dismissCancellation
Dismiss(q, at) ==
    /\ notices' = {n \in notices : ~(n.qq = q /\ n.at = at)}
    /\ UNCHANGED <<now, serial, logs, files, hidden, reader>>

-----------------------------------------------------------------------------
(* Backups.                                                                 *)

\* mutant: a file of the same millisecond is written over
NameAtNow == now

\* allocateBackupPathUnlocked
FreeName == CHOOSE n \in now .. MaxTime + MaxFiles :
                /\ \A f \in files : f.name # n
                /\ \A m \in now .. n - 1 : \E f \in files : f.name = m

\* the order of listBackupsUnlocked
Later(f, g) == f.written > g.written \/ (f.written = g.written /\ f.name > g.name)

\* mutant: one less is kept
PruneOne(S) == {f \in S : Cardinality({g \in S : Later(g, f)}) + 1 < HistoryLimit}

\* pruneBackupsUnlocked
Prune(S) == {f \in S : Cardinality({g \in S : Later(g, f)}) < HistoryLimit}

\* createBackupUnlocked: the windows of bootstrapDataUnlocked; the file is
\* broken if it could not be written to its end, which nobody notices
Backups(whole) ==
    {[name |-> FreeName, written |-> now, whole |-> whole, logs |-> w[1], notices |-> w[2]] :
        w \in IF whole THEN Newest(logs, LogWindow) \X Newest(notices, NoticeWindow)
                       ELSE {<<{}, {}>>}}

\* createBackup, createAutomaticBackup.  If the directory cannot be listed
\* the new file stays and none is removed; that a file could not be removed
\* is ignored.
CreateBackup(whole) ==
    /\ \E f \in Backups(whole) :
          LET all == files \cup {f}
          IN  \E removed \in SUBSET (all \ Prune(all)) : files' = all \ removed
    /\ Cardinality(files') <= MaxFiles
    /\ UNCHANGED <<store, hidden, reader>>

\* deleteBackup
DeleteBackup(f) ==
    /\ files' = files \ {f}
    /\ UNCHANGED <<store, hidden, reader>>

\* restoreBackup of a file, importBackup of its download, replaceData with
\* its contents: a file that is broken is refused.  What follows COMMIT, the
\* listing of the files and the clearing of the locks, changes nothing here.
RestoreBackup(f) ==
    /\ f.whole
    /\ logs' = f.logs
    /\ notices' = f.notices
    /\ UNCHANGED <<now, serial, files, hidden, reader>>

-----------------------------------------------------------------------------
(* Time and restarts.                                                       *)

Tick ==
    /\ now < MaxTime
    /\ now' = now + 1
    /\ UNCHANGED <<serial, logs, notices, files, hidden, reader>>

\* A restart takes at least a millisecond; it may come in the middle of a
\* backup, whose file is then broken and not followed by pruning.
Restart ==
    /\ now < MaxTime
    /\ now' = now + 1
    /\ serial' = 0
    /\ \/ UNCHANGED files
       \/ /\ Cardinality(files) < MaxFiles
          /\ \E f \in Backups(FALSE) : files' = files \cup {f}
    /\ UNCHANGED <<logs, notices, hidden, reader>>

-----------------------------------------------------------------------------
(* Paging.                                                                  *)

Readable(ls, hs) == {x \in ls : x.team \notin hs}

NotReading == [began |-> FALSE, got |-> {}, cursor |-> 0, used |-> {}, more |-> FALSE]

Older(before) == {x \in Readable(logs, hidden) : x.at < before}

\* mutant: no row is asked for beyond the page
HasMoreUnprobed(before, limit) == FALSE

\* one row more than the page is asked for, and tells whether there are more
HasMore(before, limit) == Cardinality(Older(before)) > limit

\* historyPageUnlocked; nextCursor is the time of the last row, 0 stands for null
Page(before, limit, page, next) ==
    /\ page \in Newest(Older(before), limit)
    /\ IF page = {} THEN next = 0
                    ELSE next \in {x.at : x \in page} /\ \A x \in page : next <= x.at

\* The first page, without before: historyPageUnlocked, or the page's data.
BeginReading(limit) ==
    /\ ~reader.began
    /\ \E page \in SUBSET logs, next \in Times :
          /\ Page(MaxTime + 1, limit, page, next)
          /\ reader' = [began |-> TRUE, got |-> page, cursor |-> next, used |-> {},
                        more |-> HasMore(MaxTime + 1, limit)]
    /\ UNCHANGED <<store, files, hidden>>

\* The next page: nextCursor becomes before.
ReadOn(limit) ==
    /\ reader.more
    /\ \E page \in SUBSET logs, next \in Times :
          /\ Page(reader.cursor, limit, page, next)
          /\ reader' = [began |-> TRUE, got |-> reader.got \cup page, cursor |-> next,
                        used |-> reader.used \cup {reader.cursor},
                        more |-> HasMore(reader.cursor, limit)]
    /\ UNCHANGED <<store, files, hidden>>

\* the team is deleted, or is no longer public, or is again
SetHidden(team) ==
    /\ reader.more
    /\ hidden' \in {hidden \cup {team}, hidden \ {team}}
    /\ UNCHANGED <<store, files, reader>>

-----------------------------------------------------------------------------
Init ==
    /\ now = 0
    /\ serial = 0
    /\ logs = {}
    /\ notices = {}
    /\ files = {}
    /\ hidden \in SUBSET Teams
    /\ reader = NotReading
    /\ steady = {}

Steps ==
    \/ \E t \in Teams : LogIt(t) \/ SetHidden(t)
    \/ \E t \in Teams, at \in ClientTimes : LogDated(t, at)
    \/ \E q \in Users, t \in Teams : Cancel(q, t)
    \/ \E n \in notices : Dismiss(n.qq, n.at)
    \/ \E whole \in BOOLEAN : CreateBackup(whole)
    \/ \E f \in files : DeleteBackup(f) \/ RestoreBackup(f)
    \/ Tick \/ Restart
    \/ \E limit \in PageSizes : BeginReading(limit) \/ ReadOn(limit)

\* Bound of the model: at most one of notices, a reader, and several backups.
\* Paging looks at no notice and no backup, and pruning at no notice.
Apart ==
    /\ reader.began => notices = {} /\ Cardinality(files) <= 1
    /\ Cardinality(files) > 1 => notices = {}

Next ==
    /\ Steps
    /\ Apart'
    /\ steady' = IF reader'.began
                 THEN (IF reader.began THEN steady ELSE Readable(logs, hidden))
                          \cap Readable(logs', hidden')
                 ELSE {}

Spec == Init /\ [][Next]_vars

-----------------------------------------------------------------------------
TypeOK ==
    /\ now \in Times /\ serial \in 0 .. MaxLogs
    /\ logs \subseteq Logs
    /\ notices \subseteq Notices
    /\ files \subseteq Files
    /\ \A f, g \in files : f.name = g.name => f = g
    /\ hidden \subseteq Teams
    /\ reader \in [began : BOOLEAN, got : SUBSET Logs, cursor : Times, used : SUBSET Times,
                   more : BOOLEAN]

\* A log with the clock's time takes the place of no other such log: one of
\* this millisecond has a serial below the next one, after restarts of the
\* counter and restores of earlier rows too.  Logs with a client's time, of
\* teams archived or restored, are left out: IdsUnique is not true of them.
FreshIds == \A x \in logs : x.at = now /\ ~x.dated => x.serial < serial

\* What the comment in insertLogUnlocked says of the ids: that they are
\* globally unique, so that a new log is added to those there are.
IdsUnique == [][(\E f \in files : RestoreBackup(f)) \/ logs \subseteq logs']_vars

\* A client that has paged to the end has every log it could see all along,
\* except those of the millisecond at which one page ended and the next began.
PagingComplete ==
    reader.began /\ ~reader.more => \A x \in steady : x \in reader.got \/ x.at \in reader.used

\* The log tells of every cancellation a member still has a notice of, however
\* backups cut both lists: a notice without its log is older than a full
\* window of logs.
NoticeHasLog ==
    \A n \in notices :
        \/ \E x \in logs : x.at = n.at /\ x.team = n.team
        \/ Cardinality({x \in logs : x.at >= n.at}) >= LogWindow

\* Making a backup removes a file only when HistoryLimit later ones stay,
\* however often directories could not be listed or files not be removed
\* before.  The new file is there afterwards, unless there were HistoryLimit
\* files of this very millisecond.
PruneKeepsNewest ==
    [][\A whole \in BOOLEAN : CreateBackup(whole) =>
          /\ \/ \E f \in files' : f \notin files
             \/ Cardinality({g \in files : g.written = now}) >= HistoryLimit
          /\ \A g \in files \ files' :
                Cardinality({h \in files' : Later(h, g)}) >= HistoryLimit]_vars
=============================================================================
