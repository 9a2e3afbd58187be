----------------------------- MODULE RecordsProofs -----------------------------
(***************************************************************************)
(* Proofs about Records, for any teams, windows, page sizes and bounds:    *)
(* the clock's log ids are not given twice, a reader misses nothing but    *)
(* what shares the millisecond of a cursor, a notice keeps its log, and    *)
(* pruning removes the oldest files only.                                  *)
(*                                                                         *)
(* For the ids the rows that matter are not only those of the table but    *)
(* also those of every backup, from which they may come back.  For the     *)
(* reader the invariant says where a log it has not got yet must be: not   *)
(* after the cursor it goes on from, with more to come.  Notices have      *)
(* their logs in the table and in every backup, since a restore brings     *)
(* both back.  Pruning keeps the files whose rank, by how many are later,  *)
(* is small; ranks are distinct because file names are.                    *)
(***************************************************************************)
EXTENDS Records, FiniteSetTheorems, WellFoundedInduction, TLAPS

\* all log rows there are, in the table and in the backups
Rows == logs \cup UNION {f.logs : f \in files}

\* The rows of the table and of the backups are finite sets of rows.
RowsTyped ==
    /\ now \in Times
    /\ serial \in 0 .. MaxLogs
    /\ Rows \subseteq Logs
    /\ IsFiniteSet(logs)
    /\ \A f \in files : IsFiniteSet(f.logs)

\* A row with the clock's time is of the past, or has a serial given out.
IdsGiven ==
    \A x \in Rows : ~x.dated => x.at < now \/ (x.at = now /\ x.serial < serial)

\* What the reader could see all along it has, or it is at a cursor used, or
\* not newer than the cursor, and the reader has been told there is more.
NothingSkipped ==
    /\ reader.more \in BOOLEAN
    /\ reader.began => reader.cursor \in Times
    /\ reader.more => reader.began
    /\ reader.began =>
         \A x \in steady : /\ x \in Readable(logs, hidden)
                           /\ \/ x \in reader.got
                              \/ x.at \in reader.used
                              \/ reader.more /\ x.at <= reader.cursor

IInv == RowsTyped /\ IdsGiven /\ NothingSkipped

-----------------------------------------------------------------------------
\* The newest n of a finite set of rows are all of it, if there are no more
\* than n; otherwise there is one at least, and the others are no newer.
LEMMA NewestRows ==
    ASSUME NEW S \in SUBSET Logs, IsFiniteSet(S), NEW n \in Nat \ {0}, NEW W \in Newest(S, n)
    PROVE  /\ W \subseteq S /\ IsFiniteSet(W)
           /\ Cardinality(S) <= n => W = S
           /\ S # {} => W # {}
           /\ \A x \in W, y \in S \ W : x.at >= y.at
<1>1. W \in SUBSET S /\ Cardinality(W) = Min(n, Cardinality(S))
  BY DEF Newest
<1>2. IsFiniteSet(W) /\ Cardinality(S) \in Nat
  BY <1>1, FS_Subset, FS_CardinalityType
<1>3. ASSUME Cardinality(S) <= n PROVE W = S
  <2>1. Cardinality(W) = Cardinality(S)
    BY <1>1, <1>2, <1>3 DEF Min
  <2> QED  BY <1>1, <2>1, FS_Subset
<1>4. ASSUME S # {} PROVE W # {}
  <2>1. Cardinality(S) # 0
    BY <1>4, FS_EmptySet
  <2>2. Cardinality(W) # 0
    BY <1>1, <1>2, <2>1 DEF Min
  <2> QED  BY <2>2, FS_EmptySet
<1>5. \A x \in W, y \in S \ W : x.at >= y.at
  BY DEF Newest
<1> QED  BY <1>1, <1>2, <1>3, <1>4, <1>5

\* What a step leaves alone.
LEMMA RowsKept ==
    ASSUME RowsTyped, IdsGiven, Rows' \subseteq Rows, UNCHANGED <<now, serial>>,
           IsFiniteSet(logs'), \A f \in files' : IsFiniteSet(f.logs)
    PROVE  (RowsTyped /\ IdsGiven)'
BY DEF RowsTyped, IdsGiven

\* insertLogUnlocked with the clock's time, or with the client's
LEMMA InsertKeeps ==
    ASSUME RowsTyped, IdsGiven, NEW t \in Teams, NEW at \in Times, NEW a \in BOOLEAN,
           InsertLog(t, at, a), a \/ at = now, UNCHANGED <<now, files>>
    PROVE  (RowsTyped /\ IdsGiven)'
<1> DEFINE row == [at |-> at, team |-> t, serial |-> serial, dated |-> a]
           kept == {x \in logs : ~SameId(x, row)}
<1>1. logs' = kept \cup {row} /\ serial' = serial + 1 /\ serial < MaxLogs
  BY DEF InsertLog
<1>2. row \in Logs /\ serial' \in 0 .. MaxLogs
  BY <1>1, BoundsAssumption DEF RowsTyped, Logs
<1>3. Rows' \subseteq Rows \cup {row}
  BY <1>1 DEF Rows
<1>4. IsFiniteSet(logs')
  <2>1. IsFiniteSet(kept)
    BY FS_Subset DEF RowsTyped
  <2> QED  BY <1>1, <2>1, FS_AddElement
<1>5. RowsTyped'
  BY <1>2, <1>3, <1>4 DEF RowsTyped
<1>6. ASSUME NEW x \in Rows', ~x.dated
      PROVE  x.at < now' \/ (x.at = now' /\ x.serial < serial')
  <2>1. CASE x = row
    BY <1>1, <1>6, <2>1 DEF RowsTyped
  <2>2. CASE x # row
    <3>1. x \in Rows /\ x \in Logs
      BY <1>3, <2>2 DEF RowsTyped
    <3> QED  BY <1>1, <1>6, <3>1 DEF IdsGiven, RowsTyped, Logs
  <2> QED  BY <2>1, <2>2
<1> QED  BY <1>5, <1>6 DEF IdsGiven

\* createBackupUnlocked copies rows of the table.
LEMMA BackupsRows ==
    ASSUME RowsTyped, NEW whole \in BOOLEAN, NEW f \in Backups(whole)
    PROVE  f.logs \subseteq logs /\ IsFiniteSet(f.logs)
<1>1. PICK w \in IF whole THEN Newest(logs, LogWindow) \X Newest(notices, NoticeWindow)
                          ELSE {<<{}, {}>>} : f.logs = w[1]
  BY DEF Backups
<1>2. CASE whole
  <2>1. f.logs \in Newest(logs, LogWindow)
    BY <1>1, <1>2
  <2> QED  BY <2>1, FS_Subset DEF Newest, RowsTyped
<1>3. CASE ~whole
  BY <1>1, <1>3, FS_EmptySet
<1> QED  BY <1>2, <1>3

\* A restart, or a tick: with the next millisecond serials may start again.
LEMMA TimeKeeps ==
    ASSUME RowsTyped, IdsGiven, now < MaxTime, now' = now + 1, serial' \in 0 .. MaxLogs,
           UNCHANGED logs, Rows' \subseteq Rows, \A f \in files' : IsFiniteSet(f.logs)
    PROVE  (RowsTyped /\ IdsGiven)'
<1>1. now' \in Times /\ now \in Nat
  BY BoundsAssumption DEF RowsTyped, Times
<1>2. RowsTyped'
  BY <1>1 DEF RowsTyped
<1>3. ASSUME NEW x \in Rows', ~x.dated PROVE x.at < now'
  <2>1. x \in Rows /\ x \in Logs
    BY DEF RowsTyped
  <2>2. x.at \in Nat
    BY <2>1 DEF Logs, Times
  <2>3. x.at < now \/ x.at = now
    BY <1>3, <2>1 DEF IdsGiven
  <2> QED  BY <1>1, <2>2, <2>3
<1> QED  BY <1>2, <1>3 DEF IdsGiven

LEMMA RowsKeep ==
    ASSUME RowsTyped, IdsGiven, [Next]_vars
    PROVE  (RowsTyped /\ IdsGiven)'
<1>1. ASSUME NEW t \in Teams, LogIt(t) PROVE (RowsTyped /\ IdsGiven)'
  BY <1>1, InsertKeeps DEF LogIt, RowsTyped
<1>2. ASSUME NEW t \in Teams, NEW at \in ClientTimes, LogDated(t, at)
      PROVE  (RowsTyped /\ IdsGiven)'
  <2>1. at \in Times /\ TRUE \in BOOLEAN
    BY ClientTimesAssumption DEF Times
  <2>2. InsertLog(t, at, TRUE) /\ UNCHANGED <<now, files>>
    BY <1>2 DEF LogDated
  <2> QED  BY <2>1, <2>2, InsertKeeps
<1>3. ASSUME NEW q \in Users, NEW t \in Teams, Cancel(q, t) PROVE (RowsTyped /\ IdsGiven)'
  BY <1>3, InsertKeeps DEF Cancel, RowsTyped
<1>4. ASSUME UNCHANGED <<now, serial, logs, files>> PROVE (RowsTyped /\ IdsGiven)'
  BY <1>4 DEF RowsTyped, IdsGiven, Rows
<1>5. ASSUME NEW whole \in BOOLEAN, CreateBackup(whole) PROVE (RowsTyped /\ IdsGiven)'
  <2>1. PICK f \in Backups(whole) : files' \subseteq files \cup {f}
    BY <1>5 DEF CreateBackup
  <2>2. f.logs \subseteq logs /\ IsFiniteSet(f.logs)
    BY <2>1, BackupsRows
  <2>3. files' \subseteq files \cup {f} /\ UNCHANGED <<now, serial, logs>>
    BY <1>5, <2>1 DEF CreateBackup, store
  <2>4. Rows' \subseteq Rows
    BY <2>2, <2>3 DEF Rows
  <2>5. \A g \in files' : IsFiniteSet(g.logs)
    BY <2>2, <2>3 DEF RowsTyped
  <2> QED  BY <2>3, <2>4, <2>5, RowsKept DEF RowsTyped
<1>6. ASSUME NEW f \in files, DeleteBackup(f) PROVE (RowsTyped /\ IdsGiven)'
  <2>1. files' \subseteq files /\ UNCHANGED <<now, serial, logs>>
    BY <1>6 DEF DeleteBackup, store
  <2>2. Rows' \subseteq Rows
    BY <2>1 DEF Rows
  <2> QED  BY <2>1, <2>2, RowsKept DEF RowsTyped
<1>7. ASSUME NEW f \in files, RestoreBackup(f) PROVE (RowsTyped /\ IdsGiven)'
  <2>1. logs' = f.logs /\ UNCHANGED <<now, serial, files>>
    BY <1>7 DEF RestoreBackup
  <2>2. Rows' \subseteq Rows
    BY <2>1 DEF Rows
  <2> QED  BY <2>1, <2>2, RowsKept DEF RowsTyped
<1>8. CASE Tick
  BY <1>8, TimeKeeps DEF Tick, Rows, RowsTyped
<1>9. CASE Restart
  <2>1. /\ now < MaxTime /\ now' = now + 1 /\ serial' = 0 /\ logs' = logs
        /\ files' = files \/ \E f \in Backups(FALSE) : files' = files \cup {f}
    BY <1>9 DEF Restart
  <2>2. \A f \in Backups(FALSE) : f.logs \subseteq logs /\ IsFiniteSet(f.logs)
    BY BackupsRows
  <2>3. Rows' \subseteq Rows
    BY <2>1, <2>2 DEF Rows
  <2>4. \A f \in files' : IsFiniteSet(f.logs)
    BY <2>1, <2>2 DEF RowsTyped
  <2>5. serial' \in 0 .. MaxLogs
    BY <2>1, BoundsAssumption
  <2> QED  BY <2>1, <2>3, <2>4, <2>5, TimeKeeps
<1>10. ASSUME Steps PROVE (RowsTyped /\ IdsGiven)'
  <2>1. ASSUME NEW t \in Teams, SetHidden(t) PROVE UNCHANGED <<now, serial, logs, files>>
    BY <2>1 DEF SetHidden, store
  <2>2. ASSUME NEW n \in notices, Dismiss(n.qq, n.at) PROVE UNCHANGED <<now, serial, logs, files>>
    BY <2>2 DEF Dismiss
  <2>3. ASSUME NEW limit \in PageSizes, BeginReading(limit) \/ ReadOn(limit)
        PROVE  UNCHANGED <<now, serial, logs, files>>
    BY <2>3 DEF BeginReading, ReadOn, store
  <2> QED  BY <1>1, <1>2, <1>3, <1>4, <1>5, <1>6, <1>7, <1>8, <1>9, <1>10,
              <2>1, <2>2, <2>3 DEF Steps
<1>11. CASE UNCHANGED vars
  BY <1>4, <1>11 DEF vars
<1> QED  BY <1>10, <1>11 DEF Next

-----------------------------------------------------------------------------
\* A page after a cursor leaves out only what is no newer than its last row.
LEMMA PageSkipsNothing ==
    ASSUME RowsTyped, NEW before \in Nat, NEW limit \in PageSizes, NEW page, NEW next \in Times,
           Page(before, limit, page, next),
           NEW x \in Readable(logs, hidden), x.at < before
    PROVE  x \in page \/ (HasMore(before, limit) /\ x.at <= next)
<1> DEFINE S == Older(before)
<1>1. S \in SUBSET Logs /\ IsFiniteSet(S) /\ x \in S
  BY FS_Subset DEF Older, Readable, RowsTyped, Rows
<1>2. limit \in Nat \ {0} /\ page \in Newest(S, limit)
  BY LimitsAssumption DEF Page
<1>3. /\ Cardinality(S) <= limit => page = S
      /\ page # {}
      /\ \A w \in page, y \in S \ page : w.at >= y.at
  BY <1>1, <1>2, NewestRows
<1>4. ASSUME x \notin page PROVE HasMore(before, limit) /\ x.at <= next
  <2>1. ~(Cardinality(S) <= limit)
    BY <1>1, <1>3, <1>4
  <2>2. HasMore(before, limit)
    BY <1>1, <1>2, <2>1, FS_CardinalityType DEF HasMore
  <2>3. PICK w \in page : next = w.at
    BY <1>3 DEF Page
  <2>4. w.at >= x.at /\ x.at \in Nat
    BY <1>1, <1>3, <1>4 DEF Logs, Times
  <2> QED  BY <2>2, <2>3, <2>4 DEF Times
<1> QED  BY <1>4

\* The reader begins with the newest logs it may see, ...
LEMMA BeginKeeps ==
    ASSUME RowsTyped, NEW limit \in PageSizes, BeginReading(limit),
           steady' = Readable(logs, hidden) \cap Readable(logs', hidden')
    PROVE  NothingSkipped'
<1>1. PICK page \in SUBSET logs, next \in Times :
          /\ Page(MaxTime + 1, limit, page, next)
          /\ reader' = [began |-> TRUE, got |-> page, cursor |-> next, used |-> {},
                        more |-> HasMore(MaxTime + 1, limit)]
  BY DEF BeginReading
<1>2. UNCHANGED <<logs, hidden>> /\ MaxTime + 1 \in Nat
  BY BoundsAssumption DEF BeginReading, store
<1>3. HasMore(MaxTime + 1, limit) \in BOOLEAN
  BY DEF HasMore
<1>4. ASSUME NEW x \in steady'
      PROVE  /\ x \in Readable(logs', hidden')
             /\ x \in page \/ (HasMore(MaxTime + 1, limit) /\ x.at <= next)
  <2>1. x \in Readable(logs, hidden) /\ x \in Readable(logs', hidden')
    BY <1>4, <1>2
  <2>2. x.at < MaxTime + 1
    BY <2>1, BoundsAssumption DEF Readable, RowsTyped, Rows, Logs, Times
  <2> QED  BY <1>1, <1>2, <2>1, <2>2, PageSkipsNothing
<1> QED  BY <1>1, <1>3, <1>4 DEF NothingSkipped

\* ... and reads on below its cursor.
LEMMA ReadOnKeeps ==
    ASSUME RowsTyped, NothingSkipped, NEW limit \in PageSizes, ReadOn(limit),
           steady' = steady \cap Readable(logs', hidden')
    PROVE  NothingSkipped'
<1> DEFINE c == reader.cursor
<1>1. PICK page \in SUBSET logs, next \in Times :
          /\ Page(c, limit, page, next)
          /\ reader' = [began |-> TRUE, got |-> reader.got \cup page, cursor |-> next,
                        used |-> reader.used \cup {c}, more |-> HasMore(c, limit)]
  BY DEF ReadOn
<1>2. UNCHANGED <<logs, hidden>> /\ reader.began /\ c \in Times /\ c \in Nat
  BY DEF ReadOn, store, NothingSkipped, Times
<1>3. HasMore(c, limit) \in BOOLEAN
  BY DEF HasMore
<1>4. ASSUME NEW x \in steady', x \notin reader.got, x.at \notin reader.used, x.at # c
      PROVE  x \in page \/ (HasMore(c, limit) /\ x.at <= next)
  <2>1. x \in steady /\ x \in Readable(logs, hidden)
    BY <1>2
  <2>2. x.at <= c
    BY <1>2, <1>4, <2>1 DEF NothingSkipped
  <2>3. x.at \in Nat
    BY <2>1 DEF Readable, RowsTyped, Rows, Logs, Times
  <2>4. x.at < c
    BY <1>2, <1>4, <2>2, <2>3
  <2> QED  BY <1>1, <1>2, <2>1, <2>4, PageSkipsNothing
<1> QED  BY <1>1, <1>3, <1>4 DEF NothingSkipped

\* Steps of others can only hide logs from the reader.
LEMMA ReaderKeeps ==
    ASSUME RowsTyped, NothingSkipped, [Next]_vars
    PROVE  NothingSkipped'
<1>1. ASSUME UNCHANGED reader,
             reader.began => steady' = steady \cap Readable(logs', hidden')
      PROVE  NothingSkipped'
  BY <1>1 DEF NothingSkipped
<1>2. ASSUME NEW limit \in PageSizes, BeginReading(limit), Next PROVE NothingSkipped'
  <2>1. ~reader.began /\ reader'.began
    BY <1>2 DEF BeginReading
  <2>2. steady' = Readable(logs, hidden) \cap Readable(logs', hidden')
    BY <1>2, <2>1 DEF Next
  <2> QED  BY <1>2, <2>2, BeginKeeps
<1>3. ASSUME NEW limit \in PageSizes, ReadOn(limit), Next PROVE NothingSkipped'
  <2>1. reader.began /\ reader'.began
    BY <1>3 DEF ReadOn, NothingSkipped
  <2>2. steady' = steady \cap Readable(logs', hidden')
    BY <1>3, <2>1 DEF Next
  <2> QED  BY <1>3, <2>2, ReadOnKeeps
<1>4. ASSUME Next, UNCHANGED reader PROVE NothingSkipped'
  BY <1>1, <1>4 DEF Next
<1>5. ASSUME Next, ~(\E limit \in PageSizes : BeginReading(limit) \/ ReadOn(limit))
      PROVE  UNCHANGED reader
  BY <1>5 DEF Next, Steps, LogIt, SetHidden, LogDated, Cancel, Dismiss, CreateBackup,
              DeleteBackup, RestoreBackup, Tick, Restart
<1>6. CASE UNCHANGED vars
  BY <1>6 DEF vars, NothingSkipped, Readable
<1> QED  BY <1>2, <1>3, <1>4, <1>5, <1>6

-----------------------------------------------------------------------------
LEMMA InitInv == Init => IInv
<1> SUFFICES ASSUME Init PROVE IInv
  OBVIOUS
<1>1. Rows = {}
  BY DEF Init, Rows
<1>2. RowsTyped /\ IdsGiven
  BY <1>1, FS_EmptySet, BoundsAssumption DEF Init, RowsTyped, IdsGiven, Times
<1>3. NothingSkipped
  BY DEF Init, NotReading, NothingSkipped
<1> QED  BY <1>2, <1>3 DEF IInv

\* The invariant of the theorems below.
THEOREM AlwaysIInv == Spec => []IInv
<1>1. IInv /\ [Next]_vars => IInv'
  BY RowsKeep, ReaderKeeps DEF IInv
<1> QED  BY InitInv, <1>1, PTL DEF Spec

\* FreshIds: across restarts and restores, insertLogUnlocked never gives a log
\* with the clock's time the id of another such log.
THEOREM FreshIdsHolds == Spec => []FreshIds
<1>1. IInv => FreshIds
  <2> SUFFICES ASSUME IInv, NEW x \in logs, x.at = now, ~x.dated PROVE x.serial < serial
    BY DEF FreshIds
  <2>1. x \in Rows /\ now \in Nat
    BY DEF Rows, IInv, RowsTyped, Times
  <2> QED  BY <2>1 DEF IInv, IdsGiven
<1> QED  BY <1>1, AlwaysIInv, PTL

\* PagingComplete: whatever is logged, restored or hidden while a client pages
\* by nextCursor, it gets all that was there for it throughout, except at the
\* milliseconds of its cursors.
THEOREM PagingCompleteHolds == Spec => []PagingComplete
<1>1. IInv => PagingComplete
  BY DEF IInv, NothingSkipped, PagingComplete
<1> QED  BY <1>1, AlwaysIInv, PTL

-----------------------------------------------------------------------------
(* Notices and the logs that tell of them.                                  *)

\* logs ls tell of notices ns: of each, or a full window of them is newer
Tell(ls, ns) ==
    \A n \in ns :
        \/ \E x \in ls : x.at = n.at /\ x.team = n.team
        \/ Cardinality({x \in ls : x.at >= n.at}) >= LogWindow

UniqueIds(ls) == \A x, y \in ls : SameId(x, y) => x = y

\* It holds of the tables, and of every backup they may be restored from.
NoticesTold ==
    /\ Tell(logs, notices) /\ UniqueIds(logs)
    /\ \A f \in files : Tell(f.logs, f.notices) /\ UniqueIds(f.logs)

\* A row replaces at most one, of its own time, so no notice loses its logs.
LEMMA InsertTells ==
    ASSUME RowsTyped, TypeOK, NoticesTold, NEW t \in Teams, NEW at \in Times, NEW a \in BOOLEAN,
           InsertLog(t, at, a), UNCHANGED files,
           \A n \in notices' : n \in notices \/ (n.at = at /\ n.team = t)
    PROVE  NoticesTold'
<1> DEFINE row == [at |-> at, team |-> t, serial |-> serial, dated |-> a]
           gone == {x \in logs : SameId(x, row)}
<1>1. logs' = (logs \ gone) \cup {row}
  BY DEF InsertLog
<1>2. UniqueIds(logs')
  BY <1>1 DEF NoticesTold, UniqueIds, SameId
<1>3. gone = {} \/ \E x \in logs : gone = {x} /\ x.at = at /\ x.team = t
  BY DEF NoticesTold, UniqueIds, SameId
<1>4. row.at = at /\ row.team = t
  OBVIOUS
<1>5. ASSUME NEW n \in notices,
             ~ \E x \in logs' : x.at = n.at /\ x.team = n.team
      PROVE  Cardinality({x \in logs' : x.at >= n.at}) >= LogWindow
  <2> DEFINE Old == {x \in logs : x.at >= n.at}
             New == {x \in logs' : x.at >= n.at}
  <2>1. ~ \E x \in logs : x.at = n.at /\ x.team = n.team
    BY <1>1, <1>3, <1>4, <1>5
  <2>2. Cardinality(Old) >= LogWindow
    BY <1>5, <2>1 DEF NoticesTold, Tell
  <2>3. IsFiniteSet(Old) /\ IsFiniteSet(logs')
    <3>1. IsFiniteSet(logs \ gone) /\ IsFiniteSet(Old)
      BY FS_Subset DEF RowsTyped
    <3> QED  BY <1>1, <3>1, FS_AddElement
  <2>4. IsFiniteSet(New)
    BY <2>3, FS_Subset
  <2>5. CASE Old \cap gone = {}
    <3>1. Old \in SUBSET New
      BY <1>1, <2>5
    <3> QED  BY <2>2, <2>3, <2>4, <3>1, FS_Subset, FS_CardinalityType, LimitsAssumption
  <2>6. CASE Old \cap gone # {}
    <3>1. PICK x \in Old : gone = {x} /\ x.at = at
      BY <1>3, <2>6
    <3>2. row \in New /\ row \notin Old \ {x} /\ (Old \ {x}) \cup {row} \in SUBSET New
      <4>1. \A y \in logs : y = row => y \in gone
        BY DEF SameId
      <4> QED  BY <1>1, <1>4, <3>1, <4>1
    <3>3. IsFiniteSet(Old \ {x}) /\ Cardinality(Old \ {x}) = Cardinality(Old) - 1
      BY <2>3, <3>1, FS_RemoveElement
    <3>4. Cardinality((Old \ {x}) \cup {row}) = Cardinality(Old \ {x}) + 1
      BY <3>2, <3>3, FS_AddElement
    <3>5. Cardinality((Old \ {x}) \cup {row}) <= Cardinality(New)
      BY <2>4, <3>2, FS_Subset
    <3>6. Cardinality(Old) \in Nat /\ Cardinality(New) \in Nat /\ LogWindow \in Nat
      BY <2>3, <2>4, FS_CardinalityType, LimitsAssumption
    <3> QED  BY <2>2, <3>3, <3>4, <3>5, <3>6
  <2> QED  BY <2>5, <2>6
<1>6. Tell(logs', notices')
  <2> SUFFICES ASSUME NEW n \in notices', ~ \E x \in logs' : x.at = n.at /\ x.team = n.team
               PROVE  Cardinality({x \in logs' : x.at >= n.at}) >= LogWindow
    BY DEF Tell
  <2>1. row \in logs'
    BY <1>1
  <2>2. n \in notices
    BY <1>4, <2>1
  <2> QED  BY <1>5, <2>2
<1> QED  BY <1>2, <1>6 DEF NoticesTold

\* The windows of a backup tell each other as the tables do.
LEMMA BackupsTell ==
    ASSUME RowsTyped, TypeOK, NoticesTold, NEW whole \in BOOLEAN, NEW f \in Backups(whole)
    PROVE  Tell(f.logs, f.notices) /\ UniqueIds(f.logs)
<1>1. PICK w \in IF whole THEN Newest(logs, LogWindow) \X Newest(notices, NoticeWindow)
                          ELSE {<<{}, {}>>} : f.logs = w[1] /\ f.notices = w[2]
  BY DEF Backups
<1>2. CASE ~whole
  BY <1>1, <1>2 DEF Tell, UniqueIds
<1>3. CASE whole
  <2> DEFINE W == f.logs
  <2>1. W \in Newest(logs, LogWindow) /\ f.notices \subseteq notices
    BY <1>1, <1>3 DEF Newest
  <2>2. logs \in SUBSET Logs /\ IsFiniteSet(logs) /\ LogWindow \in Nat \ {0}
    BY LimitsAssumption DEF RowsTyped, TypeOK
  <2>3. /\ W \subseteq logs /\ IsFiniteSet(W)
        /\ Cardinality(logs) <= LogWindow => W = logs
        /\ \A x \in W, y \in logs \ W : x.at >= y.at
        /\ Cardinality(W) = Min(LogWindow, Cardinality(logs))
    BY <2>1, <2>2, NewestRows DEF Newest
  <2>4. Cardinality(W) \in Nat /\ Cardinality(logs) \in Nat
    BY <2>2, <2>3, FS_CardinalityType
  <2>5. W # logs => Cardinality(W) = LogWindow
    BY <2>2, <2>3, <2>4 DEF Min
  <2>6. ASSUME NEW n \in f.notices, ~ \E x \in W : x.at = n.at /\ x.team = n.team
        PROVE  Cardinality({x \in W : x.at >= n.at}) >= LogWindow
    <3>0. n \in notices /\ n.at \in Nat /\ \A x \in logs : x.at \in Nat
      BY <2>1 DEF TypeOK, Notices, Logs, Times
    <3> DEFINE S == {x \in logs : x.at >= n.at}
    <3>1. CASE \E x \in logs : x.at = n.at /\ x.team = n.team
      <4>1. PICK x \in logs \ W : x.at = n.at
        BY <2>6, <3>1
      <4>2. {y \in W : y.at >= n.at} = W /\ W # logs
        BY <2>3, <4>1
      <4>3. Cardinality({y \in W : y.at >= n.at}) = LogWindow
        BY <2>5, <4>2, Zenon
      <4> QED  BY <2>2, <4>3
    <3>2. CASE Cardinality(S) >= LogWindow
      <4>1. CASE W = logs
        BY <3>2, <4>1
      <4>2. CASE W # logs
        <5>1. ASSUME NEW x \in W, ~(x.at >= n.at) PROVE FALSE
          <6>1. S \in SUBSET (W \ {x})
            BY <2>3, <3>0, <5>1
          <6>2. IsFiniteSet(W \ {x}) /\ Cardinality(W \ {x}) = LogWindow - 1
            BY <2>3, <2>5, <4>2, <5>1, FS_RemoveElement
          <6>3. Cardinality(S) <= LogWindow - 1 /\ Cardinality(S) \in Nat
            BY <6>1, <6>2, FS_Subset, FS_CardinalityType
          <6> QED  BY <2>2, <3>2, <6>3
        <5>2. {x \in W : x.at >= n.at} = W
          BY <5>1
        <5>3. Cardinality({x \in W : x.at >= n.at}) = LogWindow
          BY <2>5, <4>2, <5>2, Zenon
        <5> QED  BY <2>2, <5>3
      <4> QED  BY <4>1, <4>2
    <3> QED  BY <3>0, <3>1, <3>2 DEF NoticesTold, Tell
  <2>7. UniqueIds(W)
    BY <2>3 DEF NoticesTold, UniqueIds
  <2> QED  BY <2>6, <2>7 DEF Tell
<1> QED  BY <1>2, <1>3

LEMMA NoticesKeep ==
    ASSUME RowsTyped, TypeOK, NoticesTold, [Next]_vars
    PROVE  NoticesTold'
<1>0. now \in Times
  BY DEF TypeOK
<1>1. ASSUME NEW t \in Teams, LogIt(t) PROVE NoticesTold'
  BY <1>0, <1>1, InsertTells DEF LogIt
<1>2. ASSUME NEW t \in Teams, NEW at \in ClientTimes, LogDated(t, at) PROVE NoticesTold'
  <2>1. at \in Times
    BY ClientTimesAssumption DEF Times
  <2> QED  BY <1>2, <2>1, InsertTells DEF LogDated
<1>3. ASSUME NEW q \in Users, NEW t \in Teams, Cancel(q, t) PROVE NoticesTold'
  <2>1. \A n \in notices' : n \in notices \/ (n.at = now /\ n.team = t)
    BY <1>3 DEF Cancel
  <2> QED  BY <1>0, <1>3, <2>1, InsertTells DEF Cancel
<1>4. ASSUME notices' \subseteq notices, UNCHANGED logs,
             \A f \in files' : f \in files \/ (Tell(f.logs, f.notices) /\ UniqueIds(f.logs))
      PROVE  NoticesTold'
  BY <1>4 DEF NoticesTold, Tell
<1>5. ASSUME NEW n \in notices, Dismiss(n.qq, n.at) PROVE NoticesTold'
  BY <1>4, <1>5 DEF Dismiss
<1>6. ASSUME NEW whole \in BOOLEAN, CreateBackup(whole) PROVE NoticesTold'
  <2>1. PICK f \in Backups(whole) : files' \subseteq files \cup {f}
    BY <1>6 DEF CreateBackup
  <2>2. files' \subseteq files \cup {f} /\ UNCHANGED <<logs, notices>>
    BY <1>6, <2>1 DEF CreateBackup, store
  <2> QED  BY <1>4, <2>2, BackupsTell
<1>7. ASSUME NEW f \in files, DeleteBackup(f) PROVE NoticesTold'
  BY <1>4, <1>7 DEF DeleteBackup, store
<1>8. ASSUME NEW f \in files, RestoreBackup(f) PROVE NoticesTold'
  BY <1>8 DEF RestoreBackup, NoticesTold
<1>9. ASSUME Restart PROVE NoticesTold'
  <2>1. \A f \in files' : f \in files \/ f \in Backups(FALSE)
    BY <1>9 DEF Restart
  <2> QED  BY <1>4, <1>9, <2>1, BackupsTell DEF Restart
<1>10. ASSUME Steps PROVE NoticesTold'
  <2>1. ASSUME NEW t \in Teams, SetHidden(t) PROVE UNCHANGED <<logs, notices, files>>
    BY <2>1 DEF SetHidden, store
  <2>2. ASSUME Tick PROVE UNCHANGED <<logs, notices, files>>
    BY <2>2 DEF Tick, store
  <2>3. ASSUME NEW limit \in PageSizes, BeginReading(limit) \/ ReadOn(limit)
        PROVE  UNCHANGED <<logs, notices, files>>
    BY <2>3 DEF BeginReading, ReadOn, store
  <2> QED  BY <1>1, <1>2, <1>3, <1>4, <1>5, <1>6, <1>7, <1>8, <1>9, <1>10, <2>1, <2>2, <2>3 DEF Steps
<1>11. CASE UNCHANGED vars
  BY <1>4, <1>11 DEF vars
<1> QED  BY <1>10, <1>11 DEF Next

-----------------------------------------------------------------------------
(* The files: names and pruning.                                            *)

LEMMA SmallestExists ==
    ASSUME NEW S \in SUBSET Nat, S # {}
    PROVE  \E m \in S : \A n \in S : m <= n
<1>1. PICK m \in S : \A n \in S : ~(<<n, m>> \in OpToRel(<, Nat))
  BY NatLessThanWellFounded, WFMin
<1>2. ASSUME NEW n \in S PROVE m <= n
  <2>1. m \in Nat /\ n \in Nat /\ ~(n < m)
    BY <1>1 DEF OpToRel
  <2> QED  BY <2>1
<1> QED  BY <1>2

FilesTyped ==
    /\ IsFiniteSet(files) /\ Cardinality(files) <= MaxFiles
    /\ files \subseteq Files
    /\ \A f, g \in files : f.name = g.name => f = g

\* allocateBackupPathUnlocked finds a name that no file has.
LEMMA FreeNameIsFree ==
    ASSUME FilesTyped, now \in Times
    PROVE  FreeName \in 0 .. MaxTime + MaxFiles /\ \A f \in files : f.name # FreeName
<1>0. /\ now \in Nat /\ now <= MaxTime /\ MaxTime \in Nat /\ MaxFiles \in Nat
      /\ Cardinality(files) \in Nat /\ Cardinality(files) <= MaxFiles
  BY BoundsAssumption, FS_CardinalityType DEF Times, FilesTyped
<1> DEFINE fn == [f \in files |-> f.name]
           Taken == {f.name : f \in files}
           Free == (now .. now + MaxFiles) \ Taken
<1>1. fn \in Surjection(files, Taken)
  BY DEF Surjection
<1>2. IsFiniteSet(Taken) /\ Cardinality(Taken) <= Cardinality(files) /\ Cardinality(Taken) \in Nat
  BY <1>1, FS_Surjection, FS_CardinalityType DEF FilesTyped
<1>3. Cardinality(now .. now + MaxFiles) = MaxFiles + 1
  BY <1>0, FS_Interval
<1>4. Free # {}
  <2> SUFFICES ASSUME Free = {} PROVE FALSE
    OBVIOUS
  <2>1. (now .. now + MaxFiles) \in SUBSET Taken
    OBVIOUS
  <2>2. Cardinality(now .. now + MaxFiles) <= Cardinality(Taken)
    BY <1>2, <2>1, FS_Subset
  <2> QED  BY <1>0, <1>2, <1>3, <2>2
<1>5. Free \in SUBSET Nat
  BY <1>0
<1>6. PICK n \in Free : \A m \in Free : n <= m
  BY <1>4, <1>5, SmallestExists
<1>7. n \in now .. MaxTime + MaxFiles /\ \A f \in files : f.name # n
  BY <1>0, <1>6
<1>8. ASSUME NEW m \in now .. n - 1 PROVE \E f \in files : f.name = m
  <2>1. m \in now .. now + MaxFiles /\ ~(n <= m)
    BY <1>0, <1>6, <1>8
  <2> QED  BY <1>6, <2>1
<1>9. /\ FreeName \in now .. MaxTime + MaxFiles
      /\ \A f \in files : f.name # FreeName
  BY <1>7, <1>8 DEF FreeName
<1> QED  BY <1>0, <1>9

\* how many files of S are later than f
Rank(S, f) == Cardinality({h \in S : Later(h, f)})

LEMMA LaterRanks ==
    ASSUME NEW S \in SUBSET Files, IsFiniteSet(S), \A f, g \in S : f.name = g.name => f = g
    PROVE  /\ \A f, g, h \in S : Later(f, g) /\ Later(g, h) => Later(f, h)
           /\ \A f, g \in S : Later(f, g) => ~Later(g, f) /\ f # g
           /\ \A f, g \in S : f # g => Later(f, g) \/ Later(g, f)
           /\ \A f \in S : Rank(S, f) \in Nat
           /\ \A f, g \in S : Later(f, g) => Rank(S, f) < Rank(S, g)
<1>1. \A f \in S : f.name \in Nat /\ f.written \in Nat
  BY BoundsAssumption DEF Files, Times
<1>2. /\ \A f, g, h \in S : Later(f, g) /\ Later(g, h) => Later(f, h)
      /\ \A f, g \in S : Later(f, g) => ~Later(g, f) /\ f # g
      /\ \A f, g \in S : f # g => Later(f, g) \/ Later(g, f)
  BY <1>1 DEF Later
<1>3. ASSUME NEW f \in S PROVE IsFiniteSet({h \in S : Later(h, f)}) /\ Rank(S, f) \in Nat
  <2>1. IsFiniteSet({h \in S : Later(h, f)})
    BY FS_Subset
  <2> QED  BY <2>1, FS_CardinalityType DEF Rank
<1>4. ASSUME NEW f \in S, NEW g \in S, Later(f, g) PROVE Rank(S, f) < Rank(S, g)
  <2>1. /\ {h \in S : Later(h, f)} \in SUBSET {h \in S : Later(h, g)}
        /\ f \in {h \in S : Later(h, g)} /\ f \notin {h \in S : Later(h, f)}
    BY <1>2, <1>4
  <2>2. /\ Cardinality({h \in S : Later(h, f)}) <= Cardinality({h \in S : Later(h, g)})
        /\ Cardinality({h \in S : Later(h, f)}) # Cardinality({h \in S : Later(h, g)})
    BY <1>3, <2>1, FS_Subset
  <2>3. Rank(S, f) \in Nat /\ Rank(S, g) \in Nat
    BY <1>3
  <2> QED  BY <2>2, <2>3 DEF Rank
<1> QED  BY <1>2, <1>3, <1>4

\* pruneBackupsUnlocked leaves the files of small rank, ...
LEMMA PruneByRank ==
    ASSUME NEW S \in SUBSET Files, IsFiniteSet(S)
    PROVE  /\ Prune(S) \subseteq S /\ IsFiniteSet(Prune(S))
           /\ \A f \in S : f \in Prune(S) <=> Rank(S, f) < HistoryLimit
BY FS_Subset DEF Prune, Rank

\* ... of which HistoryLimit are later than any it may remove.
LEMMA PruneLeavesLatest ==
    ASSUME NEW S \in SUBSET Files, IsFiniteSet(S), \A f, g \in S : f.name = g.name => f = g,
           NEW g \in S \ Prune(S)
    PROVE  Cardinality({h \in Prune(S) : Later(h, g)}) >= HistoryLimit
<1> DEFINE Kept == {h \in Prune(S) : Later(h, g)}
           Lost == {h \in S \ Prune(S) : Later(h, g)}
           Ranks == {Rank(S, h) : h \in Lost}
<1>0. /\ HistoryLimit \in Nat /\ Prune(S) \subseteq S /\ IsFiniteSet(Prune(S))
      /\ \A f \in S : Rank(S, f) \in Nat /\ (f \in Prune(S) <=> Rank(S, f) < HistoryLimit)
  BY PruneByRank, LaterRanks, LimitsAssumption
<1>1. IsFiniteSet(Kept) /\ Cardinality(Kept) \in Nat
  BY <1>0, FS_Subset, FS_CardinalityType
<1>2. ASSUME NEW h \in S, {x \in S : Later(x, h)} \subseteq Kept, h \notin Prune(S)
      PROVE  Cardinality(Kept) >= HistoryLimit
  <2>1. Rank(S, h) <= Cardinality(Kept)
    BY <1>1, <1>2, FS_Subset DEF Rank
  <2> QED  BY <1>0, <1>1, <1>2, <2>1
<1>3. CASE Lost = {}
  <2>1. {x \in S : Later(x, g)} \subseteq Kept
    BY <1>3
  <2> QED  BY <1>2, <2>1
<1>4. CASE Lost # {}
  <2>1. Ranks \in SUBSET Nat /\ Ranks # {}
    BY <1>0, <1>4
  <2>2. PICK r \in Ranks : \A q \in Ranks : r <= q
    BY <2>1, SmallestExists
  <2>3. PICK h \in Lost : r = Rank(S, h)
    BY <2>2
  <2>4. ASSUME NEW x \in S, Later(x, h) PROVE x \in Kept
    <3>1. Later(x, g) /\ Rank(S, x) < Rank(S, h)
      BY <2>3, <2>4, LaterRanks
    <3>2. x \notin Lost
      BY <1>0, <2>2, <2>3, <3>1
    <3> QED  BY <2>4, <3>1, <3>2
  <2> QED  BY <1>2, <2>3, <2>4
<1> QED  BY <1>3, <1>4

\* Nothing is from the future.
FilesPast == \A f \in files : f.written <= now

TypeInv == TypeOK /\ FilesTyped /\ FilesPast

\* createBackupUnlocked, before pruning
LEMMA BackupsTyped ==
    ASSUME TypeInv, NEW whole \in BOOLEAN, NEW f \in Backups(whole)
    PROVE  /\ f \in Files /\ f.written = now /\ f \notin files
           /\ IsFiniteSet(files \cup {f}) /\ files \cup {f} \subseteq Files
           /\ \A g, h \in files \cup {f} : g.name = h.name => g = h
<1>1. PICK w \in IF whole THEN Newest(logs, LogWindow) \X Newest(notices, NoticeWindow)
                          ELSE {<<{}, {}>>} :
        f = [name |-> FreeName, written |-> now, whole |-> whole, logs |-> w[1], notices |-> w[2]]
  BY DEF Backups
<1>2. w[1] \subseteq Logs /\ w[2] \subseteq Notices
  <2>1. CASE whole
    BY <1>1, <2>1 DEF Newest, TypeInv, TypeOK
  <2>2. CASE ~whole
    BY <1>1, <2>2
  <2> QED  BY <2>1, <2>2
<1>3. FreeName \in 0 .. MaxTime + MaxFiles /\ \A g \in files : g.name # FreeName
  BY FreeNameIsFree DEF TypeInv, TypeOK
<1>4. f \in Files /\ f.name = FreeName /\ f.written = now
  BY <1>1, <1>2, <1>3 DEF Files, TypeInv, TypeOK
<1>5. IsFiniteSet(files \cup {f})
  BY FS_AddElement DEF TypeInv, FilesTyped
<1> QED  BY <1>3, <1>4, <1>5 DEF TypeInv, FilesTyped

LEMMA TypeStep == TypeInv /\ [Next]_vars => TypeInv'
<1> SUFFICES ASSUME TypeInv, [Next]_vars PROVE TypeInv'
  OBVIOUS
<1>0. /\ now \in Times /\ now \in Nat /\ MaxTime \in Nat /\ MaxLogs \in Nat
      /\ serial \in 0 .. MaxLogs
      /\ logs \subseteq Logs /\ notices \subseteq Notices /\ hidden \subseteq Teams
      /\ reader \in [began : BOOLEAN, got : SUBSET Logs, cursor : Times, used : SUBSET Times, more : BOOLEAN]
      /\ FilesTyped /\ FilesPast
  BY BoundsAssumption DEF TypeInv, TypeOK, Times
\* The tables.
<1>1. now' \in Times /\ serial' \in 0 .. MaxLogs /\ logs' \subseteq Logs /\ notices' \subseteq Notices
  <2>1. ASSUME NEW t \in Teams, NEW at \in Times, NEW a \in BOOLEAN, InsertLog(t, at, a)
        PROVE  serial' \in 0 .. MaxLogs /\ logs' \subseteq Logs
    <3>1. serial + 1 \in 0 .. MaxLogs /\ serial \in 0 .. MaxLogs - 1
      BY <1>0, <2>1 DEF InsertLog
    <3>2. [at |-> at, team |-> t, serial |-> serial, dated |-> a] \in Logs
      BY <3>1 DEF Logs
    <3> QED  BY <1>0, <2>1, <3>1, <3>2 DEF InsertLog
  <2>2. ASSUME NEW t \in Teams, LogIt(t)
        PROVE  now' \in Times /\ serial' \in 0 .. MaxLogs /\ logs' \subseteq Logs /\ notices' \subseteq Notices
    BY <1>0, <2>1, <2>2 DEF LogIt
  <2>3. ASSUME NEW t \in Teams, NEW at \in ClientTimes, LogDated(t, at)
        PROVE  now' \in Times /\ serial' \in 0 .. MaxLogs /\ logs' \subseteq Logs /\ notices' \subseteq Notices
    <3>1. at \in Times
      BY ClientTimesAssumption DEF Times
    <3> QED  BY <1>0, <2>1, <2>3, <3>1 DEF LogDated
  <2>4. ASSUME NEW q \in Users, NEW t \in Teams, Cancel(q, t)
        PROVE  now' \in Times /\ serial' \in 0 .. MaxLogs /\ logs' \subseteq Logs /\ notices' \subseteq Notices
    <3>1. [qq |-> q, at |-> now, team |-> t] \in Notices
      BY <1>0 DEF Notices
    <3> QED  BY <1>0, <2>1, <2>4, <3>1 DEF Cancel
  <2>5. ASSUME NEW n \in notices, Dismiss(n.qq, n.at)
        PROVE  now' \in Times /\ serial' \in 0 .. MaxLogs /\ logs' \subseteq Logs /\ notices' \subseteq Notices
    BY <1>0, <2>5 DEF Dismiss
  <2>6. ASSUME NEW f \in files, RestoreBackup(f)
        PROVE  now' \in Times /\ serial' \in 0 .. MaxLogs /\ logs' \subseteq Logs /\ notices' \subseteq Notices
    BY <1>0, <2>6 DEF RestoreBackup, FilesTyped, Files
  <2>7. CASE Tick \/ Restart
    <3>1. now' = now + 1 /\ now < MaxTime /\ serial' \in {serial, 0} /\ UNCHANGED <<logs, notices>>
      BY <2>7 DEF Tick, Restart
    <3> QED  BY <1>0, <3>1 DEF Times
  <2>8. CASE UNCHANGED store
    BY <1>0, <2>8 DEF store
  <2>9. ASSUME Steps, ~UNCHANGED store
        PROVE  \/ \E t \in Teams : LogIt(t)
               \/ \E t \in Teams, at \in ClientTimes : LogDated(t, at)
               \/ \E q \in Users, t \in Teams : Cancel(q, t)
               \/ \E n \in notices : Dismiss(n.qq, n.at)
               \/ \E f \in files : RestoreBackup(f)
               \/ Tick \/ Restart
    BY <2>9 DEF Steps, SetHidden, CreateBackup, DeleteBackup, BeginReading, ReadOn
  <2>10. UNCHANGED vars => UNCHANGED store
    BY DEF vars, store
  <2> QED  BY <2>2, <2>3, <2>4, <2>5, <2>6, <2>7, <2>8, <2>9, <2>10 DEF Next
\* The files.
<1>2. FilesTyped' /\ FilesPast'
  <2>1. ASSUME NEW whole \in BOOLEAN, CreateBackup(whole) PROVE FilesTyped' /\ FilesPast'
    <3>1. PICK f \in Backups(whole) : files' \subseteq files \cup {f}
      BY <2>1 DEF CreateBackup
    <3>2. /\ f.written = now
          /\ IsFiniteSet(files \cup {f}) /\ files \cup {f} \subseteq Files
          /\ \A g, h \in files \cup {f} : g.name = h.name => g = h
      BY <3>1, BackupsTyped
    <3>3. IsFiniteSet(files') /\ Cardinality(files') <= MaxFiles /\ now' = now
      BY <2>1, <3>1, <3>2, FS_Subset DEF CreateBackup, store
    <3> QED  BY <1>0, <3>1, <3>2, <3>3 DEF FilesTyped, FilesPast
  <2>2. ASSUME NEW f \in files, DeleteBackup(f) PROVE FilesTyped' /\ FilesPast'
    <3>1. files' \in SUBSET files /\ now' = now
      BY <2>2 DEF DeleteBackup, store
    <3>2. IsFiniteSet(files') /\ Cardinality(files') <= Cardinality(files)
      BY <1>0, <3>1, FS_Subset DEF FilesTyped
    <3>3. Cardinality(files') \in Nat /\ Cardinality(files) \in Nat /\ MaxFiles \in Nat
      BY <1>0, <3>2, FS_CardinalityType, BoundsAssumption DEF FilesTyped
    <3>4. Cardinality(files') <= MaxFiles
      BY <1>0, <3>2, <3>3 DEF FilesTyped
    <3> QED  BY <1>0, <3>1, <3>2, <3>4 DEF FilesTyped, FilesPast
  <2>3. ASSUME now' = now + 1, files' = files PROVE FilesTyped' /\ FilesPast'
    <3>1. \A f \in files : f.written \in Nat /\ f.written <= now
      BY <1>0 DEF FilesTyped, FilesPast, Files, Times
    <3>2. \A f \in files' : f.written <= now'
      BY <1>0, <2>3, <3>1
    <3> QED  BY <1>0, <2>3, <3>2 DEF FilesTyped, FilesPast
  <2>4. CASE Tick
    BY <2>3, <2>4 DEF Tick
  <2>5. CASE Restart
    <3>1. now' = now + 1
      BY <2>5 DEF Restart
    <3>2. ASSUME Cardinality(files) < MaxFiles, NEW f \in Backups(FALSE), files' = files \cup {f}
          PROVE  FilesTyped' /\ FilesPast'
      <4>0. Cardinality(files') <= MaxFiles
        <5>1. f \notin files /\ IsFiniteSet(files)
          BY <1>0, <3>2, BackupsTyped DEF FilesTyped
        <5>2. Cardinality(files') = Cardinality(files) + 1 /\ Cardinality(files) \in Nat
          BY <3>2, <5>1, FS_AddElement, FS_CardinalityType
        <5> QED  BY <3>2, <5>2, BoundsAssumption
      <4>1. /\ f.written = now /\ IsFiniteSet(files') /\ files' \subseteq Files
            /\ \A g, h \in files' : g.name = h.name => g = h
        BY <3>2, BackupsTyped
      <4>2. \A g \in files' : g.written \in Nat /\ g.written <= now
        BY <1>0, <3>2, <4>1 DEF FilesTyped, FilesPast, Files, Times
      <4>3. \A g \in files' : g.written <= now'
        BY <1>0, <3>1, <4>2
      <4> QED  BY <4>0, <4>1, <4>3 DEF FilesTyped, FilesPast
    <3> QED  BY <2>3, <2>5, <3>1, <3>2 DEF Restart
  <2>6. CASE UNCHANGED <<now, files>>
    BY <1>0, <2>6 DEF FilesTyped, FilesPast
  <2>7. ASSUME Steps, ~UNCHANGED <<now, files>>
        PROVE  \/ \E whole \in BOOLEAN : CreateBackup(whole)
               \/ \E f \in files : DeleteBackup(f)
               \/ Tick \/ Restart
    BY <2>7 DEF Steps, LogIt, LogDated, Cancel, Dismiss, RestoreBackup, SetHidden,
                BeginReading, ReadOn, store
  <2>8. UNCHANGED vars => UNCHANGED <<now, files>>
    BY DEF vars
  <2> QED  BY <2>1, <2>2, <2>4, <2>5, <2>6, <2>7, <2>8 DEF Next
\* The reader.
<1>3. hidden' \subseteq Teams
  <2>1. ASSUME NEW t \in Teams, SetHidden(t) PROVE hidden' \subseteq Teams
    BY <1>0, <2>1 DEF SetHidden
  <2>2. ASSUME Steps, ~ \E t \in Teams : SetHidden(t) PROVE UNCHANGED hidden
    BY <2>2 DEF Steps, LogIt, LogDated, Cancel, Dismiss, CreateBackup, DeleteBackup, RestoreBackup,
                Tick, Restart, BeginReading, ReadOn
  <2>3. CASE UNCHANGED vars
    BY <1>0, <2>3 DEF vars
  <2> QED  BY <1>0, <2>1, <2>2, <2>3 DEF Next
<1>4. reader' \in [began : BOOLEAN, got : SUBSET Logs, cursor : Times, used : SUBSET Times, more : BOOLEAN]
  <2>0. \A before, limit : HasMore(before, limit) \in BOOLEAN
    BY DEF HasMore
  <2>1. ASSUME NEW limit \in PageSizes, BeginReading(limit) \/ ReadOn(limit)
        PROVE  reader' \in [began : BOOLEAN, got : SUBSET Logs, cursor : Times, used : SUBSET Times, more : BOOLEAN]
    <3>1. PICK page \in SUBSET logs, next \in Times, more \in BOOLEAN :
             \/ reader' = [began |-> TRUE, got |-> page, cursor |-> next, used |-> {},
                           more |-> more]
             \/ reader' = [began |-> TRUE, got |-> reader.got \cup page, cursor |-> next,
                           used |-> reader.used \cup {reader.cursor}, more |-> more]
      BY <2>0, <2>1 DEF BeginReading, ReadOn
    <3>2. page \subseteq Logs /\ reader.got \cup page \in SUBSET Logs /\ reader.used \cup {reader.cursor} \in SUBSET Times
      BY <1>0
    <3>3. {} \in SUBSET Times /\ page \in SUBSET Logs
      BY <3>2
    <3>4. CASE reader' = [began |-> TRUE, got |-> page, cursor |-> next, used |-> {},
                          more |-> more]
      BY <3>3, <3>4
    <3>5. CASE reader' = [began |-> TRUE, got |-> reader.got \cup page, cursor |-> next,
                          used |-> reader.used \cup {reader.cursor}, more |-> more]
      BY <3>2, <3>3, <3>5
    <3> QED  BY <3>1, <3>4, <3>5
  <2>2. ASSUME Steps, ~ \E limit \in PageSizes : BeginReading(limit) \/ ReadOn(limit)
        PROVE  UNCHANGED reader
    BY <2>2 DEF Steps, LogIt, LogDated, Cancel, Dismiss, CreateBackup, DeleteBackup, RestoreBackup,
                Tick, Restart, SetHidden
  <2>3. UNCHANGED vars => UNCHANGED reader
    BY DEF vars
  <2> QED  BY <1>0, <2>1, <2>2, <2>3 DEF Next
<1>5. \A f, g \in files' : f.name = g.name => f = g
  BY <1>2 DEF FilesTyped
<1>6. TypeOK'
  BY <1>1, <1>2, <1>3, <1>4, <1>5 DEF TypeOK, FilesTyped
<1> QED  BY <1>2, <1>6 DEF TypeInv

LEMMA TypeInit == Init => TypeInv
<1> SUFFICES ASSUME Init PROVE TypeInv
  OBVIOUS
<1>1. 0 \in Times /\ 0 \in 0 .. MaxLogs
  BY BoundsAssumption DEF Times
<1>2. reader \in [began : BOOLEAN, got : SUBSET Logs, cursor : Times, used : SUBSET Times, more : BOOLEAN]
  BY <1>1 DEF Init, NotReading
<1>3. FilesTyped /\ FilesPast
  BY FS_EmptySet, BoundsAssumption DEF Init, FilesTyped, FilesPast
<1> QED  BY <1>1, <1>2, <1>3 DEF Init, TypeInv, TypeOK

LEMMA AlwaysTypeInv == Spec => []TypeInv
BY TypeInit, TypeStep, PTL DEF Spec

\* TypeOK: allocateBackupPathUnlocked never runs out of names or gives one
\* twice, and serials stay within the bound.
THEOREM TypeCorrect == Spec => []TypeOK
<1>1. TypeInv => TypeOK
  BY DEF TypeInv
<1> QED  BY <1>1, AlwaysTypeInv, PTL

\* NoticeHasLog: cancelSlotMember writes a notice and its log together, and no
\* backup, restore or replaced row tears them apart, unless the log was cut as
\* older than a full window.
THEOREM NoticeHasLogHolds == Spec => []NoticeHasLog
<1>1. Init => NoticesTold
  BY DEF Init, NoticesTold, Tell, UniqueIds
<1>2. IInv /\ TypeInv /\ NoticesTold /\ [Next]_vars => NoticesTold'
  BY NoticesKeep DEF IInv, TypeInv
<1>3. NoticesTold => NoticeHasLog
  BY DEF NoticesTold, Tell, NoticeHasLog
<1> QED  BY <1>1, <1>2, <1>3, AlwaysIInv, AlwaysTypeInv, PTL DEF Spec

\* PruneKeepsNewest: createBackupUnlocked and pruneBackupsUnlocked remove a
\* file only if HistoryLimit later ones stay, whatever earlier ones left
\* behind, and the new file is lost only among HistoryLimit of its millisecond.
THEOREM PruneKeepsNewestHolds == Spec => PruneKeepsNewest
<1>1. ASSUME TypeInv, NEW whole \in BOOLEAN, CreateBackup(whole)
      PROVE  /\ \/ \E f \in files' : f \notin files
                \/ Cardinality({g \in files : g.written = now}) >= HistoryLimit
             /\ \A g \in files \ files' : Cardinality({h \in files' : Later(h, g)}) >= HistoryLimit
  <2>1. PICK f \in Backups(whole) : \E removed \in SUBSET ((files \cup {f}) \ Prune(files \cup {f})) :
                                      files' = (files \cup {f}) \ removed
    BY <1>1 DEF CreateBackup
  <2> DEFINE S == files \cup {f}
  <2>2. /\ f.written = now /\ f \notin files
        /\ S \in SUBSET Files /\ IsFiniteSet(S)
        /\ \A g, h \in S : g.name = h.name => g = h
    BY <1>1, BackupsTyped
  <2>3. Prune(S) \subseteq files' /\ files' \subseteq S /\ IsFiniteSet(files')
    BY <2>1, <2>2, PruneByRank, FS_Subset
  <2>4. ASSUME NEW g \in S \ files' PROVE Cardinality({h \in files' : Later(h, g)}) >= HistoryLimit
    <3>1. Cardinality({h \in Prune(S) : Later(h, g)}) >= HistoryLimit
      BY <2>2, <2>3, <2>4, PruneLeavesLatest
    <3>2. /\ {h \in Prune(S) : Later(h, g)} \in SUBSET {h \in files' : Later(h, g)}
          /\ IsFiniteSet({h \in files' : Later(h, g)})
      BY <2>3, FS_Subset
    <3>3. /\ Cardinality({h \in Prune(S) : Later(h, g)}) <= Cardinality({h \in files' : Later(h, g)})
          /\ IsFiniteSet({h \in Prune(S) : Later(h, g)})
      BY <3>2, FS_Subset
    <3>4. /\ Cardinality({h \in Prune(S) : Later(h, g)}) \in Nat
          /\ Cardinality({h \in files' : Later(h, g)}) \in Nat
      BY <3>2, <3>3, FS_CardinalityType
    <3> QED  BY <3>1, <3>3, <3>4, LimitsAssumption
  <2>5. ASSUME f \notin files' PROVE Cardinality({g \in files : g.written = now}) >= HistoryLimit
    <3> DEFINE L == {h \in files' : Later(h, f)}
    <3>1. ASSUME NEW h \in L PROVE h \in files /\ h.written = now
      <4>1. h \in files /\ h.written \in Nat /\ h.written <= now /\ now \in Nat
        BY <1>1, <2>3, <2>5, <3>1 DEF TypeInv, TypeOK, FilesTyped, FilesPast, Files, Times
      <4> QED  BY <2>2, <3>1, <4>1 DEF Later
    <3>2. L \in SUBSET {g \in files : g.written = now}
      BY <3>1
    <3>3. Cardinality(L) >= HistoryLimit
      BY <2>4, <2>5
    <3>4. IsFiniteSet({g \in files : g.written = now}) /\ IsFiniteSet(L)
      BY <1>1, <3>2, FS_Subset DEF TypeInv, FilesTyped
    <3> QED  BY <3>2, <3>3, <3>4, FS_Subset, FS_CardinalityType, LimitsAssumption
  <2>6. f \in files' => \E g \in files' : g \notin files
    BY <2>2
  <2> QED  BY <2>4, <2>5, <2>6
<1>2. TypeInv /\ [Next]_vars =>
         [\A whole \in BOOLEAN : CreateBackup(whole) =>
            /\ \/ \E f \in files' : f \notin files
               \/ Cardinality({g \in files : g.written = now}) >= HistoryLimit
            /\ \A g \in files \ files' :
                  Cardinality({h \in files' : Later(h, g)}) >= HistoryLimit]_vars
  BY <1>1
<1> QED  BY <1>2, AlwaysTypeInv, PTL DEF Spec, PruneKeepsNewest
=============================================================================
