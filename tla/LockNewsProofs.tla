----------------------------- MODULE LockNewsProofs -----------------------------
(***************************************************************************)
(* Proofs about LockNews, for any slots and bounds: a page at the version  *)
(* of the server shows the locks of the server, and no late answer takes   *)
(* it back to older ones.                                                  *)
(*                                                                         *)
(* Versions carry no locks, so the argument needs what the locks were at   *)
(* each version of this life of the server.  No variable remembers that;   *)
(* the invariant says that there is such a history H, that every answer    *)
(* under way agrees with it, and that the page shows H at its cursor or is *)
(* so far behind that it will have to ask again.                           *)
(***************************************************************************)
EXTENDS LockNews, FiniteSetTheorems, SequenceTheorems, TLAPS

Marks     == {"free", "page", "elsewhere"}
Locks     == [Things -> Marks]
Histories == [Nat -> Locks]

\* The part of TypeOK that the argument needs; no bound is in it.
Typed ==
    /\ holder \in Locks /\ shows \in Locks
    /\ old \subseteq Things
    /\ lockVersion \in Nat \ {0} /\ cursor \in Nat
    /\ syncing \in {NoCall} \cup [phase : {"asked", "same"}, asked : Nat]
                     \cup [phase : {"locks"}, asked : Nat, version : Nat, locks : Locks]
    /\ granted \in {NoGrant} \cup [seat : Seats, version : Nat \ {0}]

\* The locks of the moment, and the answers under way, are those of H.
Recorded(H) ==
    /\ H[lockVersion] = holder
    /\ syncing.phase = "locks" =>
          syncing.version <= lockVersion /\ syncing.locks = H[syncing.version]
    /\ granted # NoGrant =>
          /\ granted.version <= lockVersion
          /\ H[granted.version] = [H[granted.version - 1] EXCEPT ![granted.seat] = "page"]

\* The same locks, except those the page has given up.
Near(a, b) == \A x \in Things : a[x] # b[x] => b[x] = "page" /\ a[x] = "free"

\* The cursor cannot get to the server's version without another sync.
Behind == cursor + 1 < lockVersion /\ (granted # NoGrant => cursor + 1 < granted.version)

\* A page that follows this life of the server.
Follows(H) ==
    /\ cursor <= lockVersion
    /\ syncing # NoCall => syncing.asked <= cursor
    /\ syncing.phase = "locks" => syncing.asked <= syncing.version
    /\ Near(shows, H[cursor]) \/ Behind

IInv == Typed /\ \E H \in Histories : Recorded(H) /\ (foreign \/ Follows(H))

-----------------------------------------------------------------------------
(* The server.                                                              *)

LEMMA MarksOfFreed == ASSUME Typed, NEW S PROVE Freed(S) \in Locks
BY DEF Typed, Freed, Locks, Marks

\* What is known of an answer under way.
LEMMA AnswersTyped ==
    ASSUME Typed
    PROVE  /\ granted # NoGrant => /\ granted.seat \in Seats /\ granted.seat \in Things
                                   /\ granted.version \in Nat \ {0} /\ granted.version - 1 \in Nat
           /\ syncing # NoCall => syncing.asked \in Nat
           /\ syncing.phase = "locks" => /\ syncing # NoCall /\ syncing.version \in Nat
                                         /\ syncing.locks \in Locks
BY DEF Typed, NoCall, Things

\* Another version with other locks: what the page has is of earlier ones.
LEMMA HistoryGrows ==
    ASSUME Typed, UNCHANGED <<syncing, cursor, shows, foreign>>,
           lockVersion' \in Nat, lockVersion < lockVersion',
           NEW H \in Histories, Recorded(H), foreign \/ Follows(H),
           NEW G \in Histories, \A v \in 0 .. lockVersion : G[v] = H[v], G[lockVersion'] = holder',
           \/ granted' = granted
           \/ granted'.version = lockVersion'
              /\ G[lockVersion'] = [G[lockVersion' - 1] EXCEPT ![granted'.seat] = "page"]
    PROVE  Recorded(G)' /\ (foreign \/ Follows(G))'
<1>0. lockVersion \in Nat /\ cursor \in Nat
  BY DEF Typed
<1>1. syncing.phase = "locks" =>
          syncing.version <= lockVersion' /\ syncing.locks = G[syncing.version]
  BY <1>0, AnswersTyped DEF Recorded
<1>2. CASE granted' = granted
  <2>1. granted # NoGrant =>
          /\ granted.version \in 1 .. lockVersion
          /\ G[granted.version] = [G[granted.version - 1] EXCEPT ![granted.seat] = "page"]
    <3> SUFFICES ASSUME granted # NoGrant
                 PROVE  /\ granted.version \in 1 .. lockVersion
                        /\ G[granted.version] = [G[granted.version - 1] EXCEPT ![granted.seat] = "page"]
      OBVIOUS
    <3>1. granted.version \in 1 .. lockVersion
      BY <1>0, AnswersTyped DEF Recorded
    <3>2. G[granted.version] = H[granted.version] /\ G[granted.version - 1] = H[granted.version - 1]
      BY <1>0, <3>1
    <3> QED  BY <3>1, <3>2 DEF Recorded
  <2>2. Recorded(G)'
    BY <1>0, <1>1, <1>2, <2>1 DEF Recorded
  <2>3. ASSUME Follows(H) PROVE Follows(G)'
    BY <1>0, <1>2, <2>1, <2>3 DEF Follows, Near, Behind
  <2> QED  BY <2>2, <2>3
<1>3. CASE /\ granted'.version = lockVersion'
           /\ G[lockVersion'] = [G[lockVersion' - 1] EXCEPT ![granted'.seat] = "page"]
  <2>1. Recorded(G)'
    BY <1>0, <1>1, <1>3 DEF Recorded
  <2>2. ASSUME Follows(H) PROVE Follows(G)'
    BY <1>0, <1>3, <2>2 DEF Follows, Near, Behind
  <2> QED  BY <2>1, <2>2
<1> QED  BY <1>2, <1>3

LEMMA NextVersion ==
    ASSUME IInv, UNCHANGED page, lockVersion' = lockVersion + 1, holder' \in Locks,
           old' \subseteq Things
    PROVE  IInv'
<1> USE DEF IInv
<1>1. UNCHANGED <<syncing, granted, cursor, shows, foreign>> /\ lockVersion \in Nat
  BY DEF page, Typed
<1>2. Typed'
  BY <1>1 DEF Typed
<1>3. PICK H \in Histories : Recorded(H) /\ (foreign \/ Follows(H))
  OBVIOUS
<1>4. PICK G : G = [H EXCEPT ![lockVersion + 1] = holder']
  OBVIOUS
<1>5. G \in Histories /\ G[lockVersion'] = holder' /\ \A v \in 0 .. lockVersion : G[v] = H[v]
  BY <1>1, <1>4 DEF Histories
<1>6. Recorded(G)' /\ (foreign \/ Follows(G))'
  BY <1>1, <1>3, <1>5, HistoryGrows
<1> QED  BY <1>2, <1>5, <1>6

LEMMA AcquireKeeps ==
    ASSUME IInv, NEW s \in Seats, NEW who \in {"page", "elsewhere"}, Acquire(s, who) PROVE IInv'
<1> USE DEF IInv
<1>1. PICK cleaned \in Locks, next \in Nat :
        /\ holder' = [cleaned EXCEPT ![s] = who] /\ old' = {} /\ lockVersion' = next
        /\ granted' = IF who = "page" THEN [seat |-> s, version |-> next] ELSE granted
        /\ lockVersion < next /\ (next - 1 = lockVersion => cleaned = holder)
  <2>1. Freed(old) \in Locks /\ (old = {} => Freed(old) = holder)
    BY MarksOfFreed DEF Freed, Typed, Locks
  <2>2. PICK next : next = lockVersion + (IF old = {} THEN 1 ELSE 2)
    OBVIOUS
  <2>3. next \in Nat /\ lockVersion < next /\ (next - 1 = lockVersion => old = {})
    BY <2>2 DEF Typed
  <2>4. /\ holder' = [Freed(old) EXCEPT ![s] = who] /\ old' = {} /\ lockVersion' = next
        /\ granted' = IF who = "page" THEN [seat |-> s, version |-> next] ELSE granted
    BY <2>2 DEF Acquire
  <2> QED  BY <2>1, <2>3, <2>4
<1>2. UNCHANGED <<syncing, cursor, shows, foreign>> /\ lockVersion \in Nat /\ s \in Things
  BY DEF Acquire, Typed, Things
<1>3. Typed'
  BY <1>1, <1>2 DEF Typed, Locks, Marks
<1>4. PICK H \in Histories : Recorded(H) /\ (foreign \/ Follows(H))
  OBVIOUS
<1>5. PICK G : G = [v \in Nat |-> IF v = next THEN holder' ELSE IF v = next - 1 THEN cleaned ELSE H[v]]
  OBVIOUS
<1>6. G \in Histories
  BY <1>3, <1>5 DEF Histories, Typed
<1>7. G[next] = holder' /\ G[next - 1] = cleaned
  BY <1>1, <1>2, <1>5
<1>8. \A v \in 0 .. lockVersion : G[v] = H[v]
  BY <1>1, <1>2, <1>4, <1>5 DEF Recorded
<1>9. Recorded(G)' /\ (foreign \/ Follows(G))'
  BY <1>1, <1>2, <1>4, <1>6, <1>7, <1>8, HistoryGrows
<1> QED  BY <1>3, <1>6, <1>9

\* The new process begins a history of its own.
LEMMA RestartKeeps == ASSUME IInv, Restart PROVE IInv'
<1> DEFINE H == [v \in Nat |-> Free]
<1>1. Free \in Locks /\ H \in Histories
  BY DEF Free, Locks, Marks, Histories
<1>2. /\ holder' = Free /\ old' = {} /\ lockVersion' = 1 /\ syncing' = NoCall /\ granted' = NoGrant
      /\ foreign' /\ UNCHANGED <<cursor, shows>>
  BY DEF Restart
<1>3. Typed'
  BY <1>1, <1>2 DEF IInv, Typed
<1>4. Recorded(H)'
  BY <1>2 DEF Recorded, NoCall
<1> QED  BY <1>1, <1>2, <1>3, <1>4 DEF IInv

LEMMA ServerKeeps == ASSUME IInv, ServerStep PROVE IInv'
<1>0. Typed
  BY DEF IInv
<1>1. ASSUME NEW s \in Seats, Age(s) PROVE IInv'
  <2>1. UNCHANGED <<holder, lockVersion, syncing, granted, cursor, shows, foreign>> /\ old' \subseteq Things
    BY <1>0, <1>1 DEF Age, Held, page, Typed, Things
  <2>2. Typed'
    BY <1>0, <2>1 DEF Typed
  <2>3. \A H \in Histories : (Recorded(H) => Recorded(H)') /\ (Follows(H) => Follows(H)')
    BY <2>1 DEF Recorded, Follows, Near, Behind
  <2> QED  BY <2>1, <2>2, <2>3 DEF IInv
<1>2. ASSUME NEW s \in Seats, Release(s) PROVE IInv'
  BY <1>0, <1>2, MarksOfFreed, NextVersion DEF Release, Bump, Typed
<1>3. CASE CleanByReader \/ CleanByTimer
  BY <1>0, <1>3, MarksOfFreed, NextVersion DEF CleanByReader, CleanByTimer, Clean, Bump
<1>4. CASE LockTeam
  <2>1. holder' \in Locks
    BY <1>0, <1>4 DEF LockTeam, Typed, Locks, Marks
  <2> QED  BY <1>0, <1>4, <2>1, NextVersion DEF LockTeam, Bump, Typed
<1>5. CASE UnlockTeam
  BY <1>0, <1>5, MarksOfFreed, NextVersion DEF UnlockTeam, Bump, Typed
<1>6. CASE ClearLocks
  BY <1>6, NextVersion DEF ClearLocks, Bump, Free, Locks, Marks
<1> QED  BY <1>1, <1>2, <1>3, <1>4, <1>5, <1>6, AcquireKeeps, RestartKeeps DEF ServerStep

-----------------------------------------------------------------------------
(* The page.                                                                *)

\* The page stands still, or a sync of its own cursor begins or fails.
LEMMA CallsKeep ==
    ASSUME IInv, UNCHANGED <<holder, old, lockVersion, cursor, shows, foreign>>,
           granted' \in {granted, NoGrant},
           syncing' \in {syncing, NoCall, Asked(cursor)}
    PROVE  IInv'
<1>1. Typed'
  BY DEF IInv, Typed, Asked
<1>2. syncing' # syncing => syncing'.phase # "locks" /\ (syncing' # NoCall => syncing'.asked = cursor)
  BY DEF Asked, NoCall
<1>3. cursor <= cursor
  BY DEF IInv, Typed
<1>4. \A H \in Histories : (Recorded(H) => Recorded(H)') /\ (Follows(H) => Follows(H)')
  BY <1>2, <1>3 DEF Recorded, Follows, Near, Behind
<1> QED  BY <1>1, <1>4 DEF IInv

LEMMA AnswerKeeps == ASSUME IInv, AnswerSync PROVE IInv'
<1> USE DEF IInv
<1>1. UNCHANGED <<holder, old, lockVersion, granted, cursor, shows, foreign>>
  BY DEF AnswerSync, server
<1>2. syncing \in [phase : {"asked"}, asked : Nat] /\ syncing # NoCall
  BY DEF AnswerSync, Typed, NoCall
<1>3. \/ syncing' = [phase |-> "locks", asked |-> syncing.asked, version |-> lockVersion, locks |-> holder]
      \/ syncing' = [phase |-> "same", asked |-> syncing.asked]
  BY DEF AnswerSync
<1>4. Typed'
  BY <1>1, <1>2, <1>3 DEF Typed
<1>5. \A H \in Histories : (Recorded(H) => Recorded(H)') /\ (Follows(H) => Follows(H)')
  BY <1>1, <1>2, <1>3 DEF Recorded, Follows, Near, Behind, Typed
<1> QED  BY <1>1, <1>4, <1>5

\* An answer that comes is the history at its version, and the page has not
\* gone past it, or it takes no notice.
LEMMA ArrivalKeeps == ASSUME IInv, SyncArrives PROVE IInv' /\ (cursor' < cursor => foreign)
<1> USE DEF IInv
<1>1. UNCHANGED <<holder, old, lockVersion, granted>>
  BY DEF SyncArrives, server
<1>2. /\ syncing # NoCall /\ syncing.phase \in {"locks", "same"} /\ syncing.asked \in Nat
      /\ syncing.phase = "locks" => syncing.version \in Nat /\ syncing.locks \in Locks
      /\ cursor \in Nat /\ lockVersion \in Nat
  BY AnswersTyped DEF SyncArrives, NoCall, Typed
<1>3. syncing' = NoCall \/ syncing' = Asked(cursor')
  BY DEF SyncArrives
<1>4. PICK H \in Histories : Recorded(H) /\ (foreign \/ Follows(H))
  OBVIOUS
<1>5. Near(H[cursor], H[cursor]) /\ \A v \in Nat : Near(H[v], H[v])
  BY DEF Near
<1>6. \/ UNCHANGED <<cursor, shows, foreign>>
      \/ /\ syncing.phase = "same" /\ cursor' = syncing.asked /\ shows' = shows
         /\ foreign' <=> foreign
         /\ cursor <= syncing.asked \/ cursor = syncing.asked
      \/ /\ syncing.phase = "locks" /\ cursor' = syncing.version /\ shows' = syncing.locks
         /\ ~foreign'
         /\ cursor <= syncing.version \/ cursor = syncing.asked
  BY <1>2 DEF SyncArrives, ShouldApply
<1>7. Typed' /\ cursor' \in Nat
  BY <1>1, <1>2, <1>3, <1>6 DEF Typed, Asked
<1>8. Recorded(H)'
  BY <1>1, <1>3, <1>4 DEF Recorded, NoCall, Asked
<1>9. /\ syncing' # NoCall => syncing'.asked <= cursor'
      /\ syncing'.phase # "locks"
  BY <1>3, <1>7 DEF NoCall, Asked
<1>10. foreign' \/ Follows(H)'
  <2>1. CASE UNCHANGED <<cursor, shows, foreign>>
    BY <1>1, <1>4, <1>9, <2>1 DEF Follows, Near, Behind
  <2>2. CASE /\ syncing.phase = "same" /\ cursor' = syncing.asked /\ shows' = shows
             /\ foreign' <=> foreign
             /\ cursor <= syncing.asked \/ cursor = syncing.asked
    BY <1>1, <1>2, <1>4, <1>9, <2>2 DEF Follows, Near, Behind
  <2>3. CASE /\ syncing.phase = "locks" /\ cursor' = syncing.version /\ shows' = syncing.locks
    <3>1. syncing.version <= lockVersion /\ shows' = H[syncing.version]
      BY <1>4, <2>3 DEF Recorded
    <3> QED  BY <1>1, <1>2, <1>5, <1>9, <2>3, <3>1 DEF Follows, Near, Behind
  <2> QED  BY <1>6, <2>1, <2>2, <2>3
<1>11. cursor' < cursor => foreign
  BY <1>2, <1>4, <1>6 DEF Follows
<1> QED  BY <1>4, <1>7, <1>8, <1>10, <1>11

\* A grant is the next step of the history, or comes over a gap.
LEMMA GrantKeeps == ASSUME IInv, GrantArrives PROVE IInv' /\ (cursor' < cursor => foreign)
<1> USE DEF IInv
<1>1. /\ UNCHANGED <<holder, old, lockVersion, syncing, foreign>> /\ granted' = NoGrant /\ granted # NoGrant
      /\ \/ UNCHANGED <<cursor, shows>> /\ ~(granted.version > cursor)
         \/ /\ granted.version > cursor /\ granted.version # cursor + 1
            /\ shows' = [shows EXCEPT ![granted.seat] = "page"] /\ cursor' = cursor
         \/ /\ granted.version = cursor + 1
            /\ shows' = [shows EXCEPT ![granted.seat] = "page"] /\ cursor' = cursor + 1
  BY DEF GrantArrives, server
<1>2. /\ granted.seat \in Things /\ granted.version \in Nat /\ cursor \in Nat /\ lockVersion \in Nat
      /\ syncing # NoCall => syncing.asked \in Nat
      /\ shows \in Locks
  BY <1>1, AnswersTyped DEF Typed
<1>3. Typed'
  BY <1>1, <1>2 DEF Typed, Locks, Marks
<1>4. PICK H \in Histories : Recorded(H) /\ (foreign \/ Follows(H))
  OBVIOUS
<1>5. Recorded(H)'
  BY <1>1, <1>4 DEF Recorded
<1>6. ASSUME Follows(H) PROVE Follows(H)'
  <2>1. CASE UNCHANGED <<cursor, shows>>
    BY <1>1, <1>6, <2>1 DEF Follows, Near, Behind
  <2>2. CASE granted.version > cursor /\ granted.version # cursor + 1 /\ cursor' = cursor
    <3>1. cursor + 1 < lockVersion
      BY <1>1, <1>2, <1>4, <2>2 DEF Recorded
    <3> QED  BY <1>1, <1>6, <2>2, <3>1 DEF Follows, Behind
  <2>3. CASE /\ granted.version = cursor + 1
             /\ shows' = [shows EXCEPT ![granted.seat] = "page"] /\ cursor' = cursor + 1
    <3>1. H[cursor + 1] = [H[cursor] EXCEPT ![granted.seat] = "page"] /\ cursor + 1 <= lockVersion
      BY <1>1, <1>2, <1>4, <2>3 DEF Recorded
    <3>2. Near(shows, H[cursor])
      BY <1>1, <1>2, <1>6, <2>3 DEF Follows, Behind
    <3>3. H[cursor] \in Locks
      BY <1>2 DEF Histories
    <3>4. Near(shows', H[cursor + 1])
      BY <1>2, <2>3, <3>1, <3>2, <3>3 DEF Near, Locks
    <3>5. syncing # NoCall => syncing.asked <= cursor + 1
      BY <1>2, <1>6 DEF Follows
    <3> QED  BY <1>1, <1>6, <2>3, <3>1, <3>4, <3>5 DEF Follows
  <2> QED  BY <1>1, <2>1, <2>2, <2>3
<1>7. cursor' < cursor => foreign
  BY <1>1, <1>2
<1> QED  BY <1>1, <1>3, <1>4, <1>5, <1>6, <1>7

LEMMA GiveUpKeeps == ASSUME IInv, NEW s \in Seats, GiveUp(s) PROVE IInv'
<1> USE DEF IInv
<1>1. UNCHANGED <<holder, old, lockVersion, syncing, granted, cursor, foreign>>
  BY DEF GiveUp, server
<1>2. shows[s] = "page" /\ shows' = [shows EXCEPT ![s] = "free"] /\ shows \in Locks /\ s \in Things
  BY DEF GiveUp, Typed, Things
<1>3. Typed'
  BY <1>1, <1>2 DEF Typed, Locks, Marks
<1>4. \A b : Near(shows, b) => Near(shows', b)
  BY <1>2 DEF Near, Locks
<1>5. \A H \in Histories : (Recorded(H) => Recorded(H)') /\ (Follows(H) => Follows(H)')
  BY <1>1, <1>4 DEF Recorded, Follows, Behind
<1> QED  BY <1>1, <1>3, <1>5

-----------------------------------------------------------------------------
LEMMA InitInv == Init => IInv
<1> SUFFICES ASSUME Init PROVE IInv
  OBVIOUS
<1> DEFINE H == [v \in Nat |-> Free]
<1>1. Free \in Locks /\ H \in Histories
  BY DEF Free, Locks, Marks, Histories
<1>2. Typed
  BY <1>1 DEF Init, Typed
<1>3. Recorded(H)
  BY DEF Init, Recorded, NoCall
<1>4. Follows(H)
  BY DEF Init, Follows, Near, NoCall
<1> QED  BY <1>1, <1>2, <1>3, <1>4 DEF IInv

\* Every step keeps the invariant, and only a page of an earlier life of the
\* server goes back.
LEMMA StepInv == IInv /\ [Next]_vars => IInv' /\ (cursor' < cursor => foreign)
<1> SUFFICES ASSUME IInv, [Next]_vars PROVE IInv' /\ (cursor' < cursor => foreign)
  OBVIOUS
<1>0. cursor \in Nat
  BY DEF IInv, Typed
<1>1. CASE ServerStep
  <2>1. cursor' = cursor
    BY <1>1 DEF ServerStep, Age, Release, Acquire, CleanByReader, CleanByTimer, Clean, LockTeam,
                UnlockTeam, ClearLocks, Restart, page
  <2> QED  BY <1>0, <1>1, <2>1, ServerKeeps
<1>2. CASE HubStep
  <2>1. UNCHANGED <<holder, old, lockVersion, syncing, granted, cursor, shows, foreign>>
    BY <1>2 DEF HubStep, ReadVersion, SendEvent, Connect, Subscribe, server, page
  <2> QED  BY <1>0, <2>1, CallsKeep
<1>3. CASE EventArrives \/ Poll \/ SyncData \/ SyncFails \/ GrantUnused
  <2>1. /\ UNCHANGED <<holder, old, lockVersion, cursor, shows, foreign>>
        /\ granted' \in {granted, NoGrant} /\ syncing' \in {syncing, NoCall, Asked(cursor)}
    BY <1>3 DEF EventArrives, Poll, Hear, SyncData, SyncFails, GrantUnused, server, hub
  <2> QED  BY <1>0, <2>1, CallsKeep
<1>4. CASE AnswerSync
  <2>1. cursor' = cursor
    BY <1>4 DEF AnswerSync
  <2> QED  BY <1>0, <1>4, <2>1, AnswerKeeps
<1>5. ASSUME NEW s \in Seats, GiveUp(s) PROVE IInv' /\ (cursor' < cursor => foreign)
  <2>1. cursor' = cursor
    BY <1>5 DEF GiveUp
  <2> QED  BY <1>0, <1>5, <2>1, GiveUpKeeps
<1>6. CASE UNCHANGED vars
  <2>1. UNCHANGED <<holder, old, lockVersion, syncing, granted, cursor, shows, foreign>>
    BY <1>6 DEF vars, server, page
  <2> QED  BY <1>0, <2>1, CallsKeep
<1> QED  BY <1>1, <1>2, <1>3, <1>4, <1>5, <1>6, ArrivalKeeps, GrantKeeps DEF Next, PageStep

LEMMA AlwaysIInv == Spec => []IInv
BY InitInv, StepInv, PTL DEF Spec

\* SameVersionSameLocks: equal versions are equal locks, whatever syncs,
\* grants, releases and expiries overtake each other in one life of the
\* server; only a lock of its own the page may have stopped showing.
THEOREM SameVersionSameLocksHolds == Spec => []SameVersionSameLocks
<1>1. ASSUME IInv PROVE SameVersionSameLocks
  <2> SUFFICES ASSUME cursor = lockVersion, ~foreign PROVE Near(shows, holder)
    BY DEF SameVersionSameLocks, Near
  <2>1. PICK H \in Histories : Recorded(H) /\ Follows(H)
    BY <1>1 DEF IInv
  <2>2. ~Behind
    BY <1>1 DEF Behind, IInv, Typed
  <2> QED  BY <2>1, <2>2 DEF Recorded, Follows
<1> QED  BY <1>1, AlwaysIInv, PTL

\* BackOnlyAfterRestart: the lock cursor goes back only where the server
\* itself began again.
THEOREM BackOnlyAfterRestartHolds == Spec => BackOnlyAfterRestart
BY AlwaysIInv, StepInv, PTL DEF Spec, BackOnlyAfterRestart

-----------------------------------------------------------------------------
(* Types and bounds.                                                        *)

Locked == {x \in Things : holder[x] # "free"}

\* Every lock taken so far may still take a version to end.
LocksTyped ==
    /\ holder \in Holders /\ old \subseteq Held
    /\ lockVersion \in Versions /\ restarts \in 0 .. MaxRestarts
    /\ lockVersion + Cardinality(Locked) <= MaxVersion + 1 + Cardinality(Things)

\* Every event is read or sent within the bound, and a stream being opened
\* has read its greeting.
EventsTyped ==
    /\ sending \subseteq Versions
    /\ stream \in {"down", "opening", "up"}
    /\ greeting \in Versions \cup {None}
    /\ stream = "opening" => greeting # None
    /\ wire \in Seq(Versions)
    /\ Cardinality(sending) + Len(wire) <= MaxEvents

PageTyped ==
    /\ pending \in Versions \cup {None}
    /\ syncing \in Syncs
    /\ granted \in Grants
    /\ cursor \in Versions
    /\ shows \in Holders

FlagsTyped == owed \in BOOLEAN /\ foreign \in BOOLEAN

LEMMA ThingsFinite ==
    /\ IsFiniteSet(Things) /\ Cardinality(Things) \in Nat
    /\ \A S \in SUBSET Things : /\ IsFiniteSet(S) /\ Cardinality(S) \in Nat
                                /\ Cardinality(S) <= Cardinality(Things)
    /\ \A S, T \in SUBSET Things :
          S \subseteq T /\ S # T => Cardinality(S) + 1 <= Cardinality(T)
<1>1. IsFiniteSet(Things)
  BY LockNewsAssumption, FS_AddElement DEF Things
<1>2. \A S \in SUBSET Things : /\ IsFiniteSet(S) /\ Cardinality(S) \in Nat
                               /\ Cardinality(S) <= Cardinality(Things)
  BY <1>1, FS_Subset, FS_CardinalityType
<1>3. ASSUME NEW S \in SUBSET Things, NEW T \in SUBSET Things, S \subseteq T, S # T
      PROVE  Cardinality(S) + 1 <= Cardinality(T)
  <2>1. Cardinality(S) <= Cardinality(T) /\ Cardinality(S) # Cardinality(T)
    BY <1>2, <1>3, FS_Subset
  <2>2. Cardinality(S) \in Nat /\ Cardinality(T) \in Nat
    BY <1>2
  <2> QED  BY <2>1, <2>2
<1>4. Cardinality(Things) \in Nat
  BY <1>1, FS_CardinalityType
<1> QED  BY <1>1, <1>2, <1>3, <1>4

LEMMA VersionsFinite == IsFiniteSet(Versions) /\ Versions \subseteq Nat \ {0} /\ 1 \in Versions
<1>1. MaxVersion + 2 + Cardinality(Things) \in Nat /\ 1 <= MaxVersion + 2 + Cardinality(Things)
  BY ThingsFinite, LockNewsAssumption
<1>2. IsFiniteSet(1 .. MaxVersion + 2 + Cardinality(Things))
  BY <1>1, FS_Interval
<1> QED  BY <1>1, <1>2 DEF Versions

LEMMA SendingFinite ==
    ASSUME EventsTyped
    PROVE  /\ IsFiniteSet(sending) /\ Cardinality(sending) \in Nat
           /\ wire \in Seq(Versions) /\ Len(wire) \in Nat /\ MaxEvents \in Nat
<1>1. sending \in SUBSET Versions /\ wire \in Seq(Versions) /\ MaxEvents \in Nat
  BY LockNewsAssumption DEF EventsTyped
<1>2. IsFiniteSet(sending)
  BY <1>1, VersionsFinite, FS_Subset
<1> QED  BY <1>1, <1>2, FS_CardinalityType

LEMMA FlagsStep == FlagsTyped /\ [Next]_vars => FlagsTyped'
BY Zenon DEF FlagsTyped, Next, vars, server, hub, page, ServerStep, HubStep, PageStep,
   Age, Release, Acquire, CleanByReader, CleanByTimer, Clean, LockTeam, UnlockTeam, ClearLocks,
   Restart, Changed, ReadVersion, SendEvent, Connect, Subscribe, EventArrives, Poll, Hear, SyncData,
   AnswerSync, SyncFails, SyncArrives, GrantArrives, GrantUnused, GiveUp

\* The locks.
LEMMA LocksStep == LocksTyped /\ [Next]_vars => LocksTyped'
<1> SUFFICES ASSUME LocksTyped, [Next]_vars PROVE LocksTyped'
  OBVIOUS
<1>0. /\ lockVersion \in Nat \ {0} /\ MaxVersion \in Nat \ {0} /\ MaxRestarts \in Nat /\ restarts \in Nat
      /\ Cardinality(Things) \in Nat
      /\ Cardinality(Locked) \in Nat /\ Cardinality(Locked) <= Cardinality(Things)
      /\ Team \notin Seats /\ Things = Seats \cup {Team} /\ Locked \subseteq Things /\ Held \subseteq Locked
  BY LockNewsAssumption, ThingsFinite, VersionsFinite DEF LocksTyped, Things, Locked, Held
<1>1. ASSUME UNCHANGED restarts, holder' \in Holders, old' \subseteq Held', lockVersion' = lockVersion + 1,
             Locked' \subseteq Locked, Locked' # Locked
      PROVE  LocksTyped'
  <2>1. Cardinality(Locked') + 1 <= Cardinality(Locked) /\ Cardinality(Locked') \in Nat
    BY <1>0, <1>1, ThingsFinite
  <2> QED  BY <1>0, <1>1, <2>1 DEF LocksTyped, Versions
<1>2. ASSUME NEW S, S \cap Locked # {}, UNCHANGED restarts, holder' = Freed(S), old' \subseteq old \ S,
             lockVersion' = lockVersion + 1
      PROVE  LocksTyped'
  <2>1. holder' \in Holders
    BY <1>0, <1>2 DEF LocksTyped, Holders, Freed
  <2>2. Locked' = Locked \ S
    BY <1>2 DEF Freed, Locked
  <2>3. old' \subseteq Held'
    BY <1>0, <1>2, <2>2 DEF LocksTyped, Locked, Held
  <2>4. Locked' \subseteq Locked /\ Locked' # Locked
    BY <1>2, <2>2
  <2> QED  BY <1>1, <1>2, <2>1, <2>3, <2>4
<1>3. ASSUME UNCHANGED restarts, lockVersion + restarts < MaxVersion,
             lockVersion' \in {lockVersion + 1, lockVersion + 2},
             holder' \in Holders, old' \subseteq Held'
      PROVE  LocksTyped'
  <2>1. Cardinality(Locked') <= Cardinality(Things) /\ Cardinality(Locked') \in Nat
    BY ThingsFinite DEF Locked
  <2>2. lockVersion' \in Nat \ {0} /\ lockVersion' <= MaxVersion + 1
    BY <1>0, <1>3
  <2> QED  BY <1>0, <1>3, <2>1, <2>2 DEF LocksTyped, Versions
<1>4. ASSUME NEW s \in Seats, Age(s) PROVE LocksTyped'
  BY <1>0, <1>4 DEF Age, LocksTyped, Locked, Held
<1>5. ASSUME NEW s \in Seats, Release(s) PROVE LocksTyped'
  <2>1. s \in Locked
    BY <1>0, <1>5 DEF Release
  <2> QED  BY <1>2, <1>5, <2>1 DEF Release, Bump, Changed
<1>6. ASSUME NEW s \in Seats, NEW who \in {"page", "elsewhere"}, Acquire(s, who) PROVE LocksTyped'
  <2>1. Freed(old) \in Holders /\ s # Team
    BY <1>0 DEF LocksTyped, Holders, Freed
  <2>2. holder' \in Holders
    BY <1>0, <1>6, <2>1 DEF Acquire, Holders
  <2> QED  BY <1>3, <1>6, <2>2 DEF Acquire, Changed
<1>7. CASE CleanByReader \/ CleanByTimer
  <2>1. old \cap Locked # {}
    BY <1>0, <1>7 DEF CleanByReader, CleanByTimer, Clean, LocksTyped
  <2> QED  BY <1>2, <1>7, <2>1 DEF CleanByReader, CleanByTimer, Clean, Bump
<1>8. CASE LockTeam
  <2>1. holder' \in Holders /\ \A s \in Seats : holder'[s] = holder[s]
    BY <1>0, <1>8 DEF LockTeam, LocksTyped, Holders
  <2>2. old' \subseteq Held'
    BY <1>8, <2>1 DEF LockTeam, LocksTyped, Held
  <2> QED  BY <1>3, <1>8, <2>1, <2>2 DEF LockTeam, Bump, Changed
<1>9. CASE UnlockTeam
  <2>1. Team \in Locked /\ old' \subseteq old \ {Team}
    BY <1>0, <1>9 DEF UnlockTeam, Locked, LocksTyped, Held
  <2> QED  BY <1>2, <1>9, <2>1 DEF UnlockTeam, Bump, Changed
<1>10. CASE ClearLocks
  <2>1. Free = Freed(Things) /\ Things \cap Locked # {}
    BY <1>10 DEF ClearLocks, Free, Freed, Locked, LocksTyped, Holders
  <2> QED  BY <1>2, <1>10, <2>1 DEF ClearLocks, Bump, Changed
<1>11. CASE Restart
  <2>1. Locked' = {} /\ holder' \in Holders
    BY <1>0, <1>11 DEF Restart, Free, Locked, Holders
  <2>2. Cardinality(Locked') = 0
    BY <2>1, FS_EmptySet
  <2> QED  BY <1>0, <1>11, <2>1, <2>2 DEF Restart, LocksTyped, Versions, Held
<1>12. CASE UNCHANGED <<holder, old, lockVersion, restarts>>
  BY <1>12 DEF LocksTyped, Locked, Held
<1>13. HubStep \/ PageStep \/ UNCHANGED vars => UNCHANGED <<holder, old, lockVersion, restarts>>
  BY DEF HubStep, PageStep, vars, server, ReadVersion, SendEvent, Connect, Subscribe, EventArrives,
         Poll, Hear, SyncData, AnswerSync, SyncFails, SyncArrives, GrantArrives, GrantUnused, GiveUp
<1> QED  BY <1>4, <1>5, <1>6, <1>7, <1>8, <1>9, <1>10, <1>11, <1>12, <1>13 DEF Next, ServerStep

\* The events.
LEMMA EventsStep == LocksTyped /\ EventsTyped /\ [Next]_vars => EventsTyped'
<1> SUFFICES ASSUME LocksTyped, EventsTyped, [Next]_vars PROVE EventsTyped'
  OBVIOUS
<1>0. /\ IsFiniteSet(sending) /\ Cardinality(sending) \in Nat
      /\ wire \in Seq(Versions) /\ Len(wire) \in Nat /\ MaxEvents \in Nat
      /\ Cardinality(sending) + Len(wire) <= MaxEvents
      /\ lockVersion \in Versions
  BY SendingFinite DEF EventsTyped, LocksTyped
<1>1. ASSUME NEW v \in Versions, MoreEvents, sending' = sending \cup {v}, wire' = wire
      PROVE  sending' \subseteq Versions /\ Cardinality(sending') + Len(wire') <= MaxEvents
  <2>1. Cardinality(sending') \in {Cardinality(sending), Cardinality(sending) + 1}
    BY <1>0, <1>1, FS_AddElement
  <2> QED  BY <1>0, <1>1, <2>1 DEF MoreEvents, EventsTyped
<1>2. CASE ReadVersion
  BY <1>0, <1>1, <1>2 DEF ReadVersion, EventsTyped
<1>3. ASSUME NEW v \in sending, SendEvent(v) PROVE EventsTyped'
  <2>1. Cardinality(sending \ {v}) = Cardinality(sending) - 1
    BY <1>0, FS_RemoveElement
  <2>2. /\ Append(wire, v) \in Seq(Versions) /\ Len(Append(wire, v)) = Len(wire) + 1
    BY <1>0 DEF EventsTyped
  <2>3. wire' \in Seq(Versions) /\ Len(wire') <= Len(wire) + 1 /\ Len(wire') \in Nat
    BY <1>0, <1>3, <2>2 DEF SendEvent
  <2>4. sending' = sending \ {v} /\ UNCHANGED <<stream, greeting>>
    BY <1>3 DEF SendEvent
  <2>5. Cardinality(sending') + Len(wire') <= MaxEvents
    BY <1>0, <2>1, <2>3, <2>4
  <2> QED  BY <2>3, <2>4, <2>5 DEF EventsTyped
<1>4. CASE Connect
  BY <1>0, <1>4, VersionsFinite DEF Connect, EventsTyped, None
<1>5. CASE Subscribe
  BY <1>1, <1>5 DEF Subscribe, EventsTyped
<1>6. CASE EventArrives
  <2>1. wire' \in Seq(Versions) /\ Len(wire') = Len(wire) - 1 /\ UNCHANGED <<sending, stream, greeting>>
    BY <1>0, <1>6, HeadTailProperties DEF EventArrives
  <2> QED  BY <1>0, <2>1 DEF EventsTyped
<1>7. CASE Restart
  <2>1. sending' = {} /\ wire' = <<>> /\ stream' = "down" /\ greeting' = None
    BY <1>7 DEF Restart
  <2>2. Cardinality(sending') + Len(wire') <= MaxEvents
    BY <1>0, <2>1, FS_EmptySet
  <2> QED  BY <2>1, <2>2 DEF EventsTyped
<1>8. CASE UNCHANGED <<sending, stream, greeting, wire>>
  BY <1>8 DEF EventsTyped
<1>9. ServerStep => Restart \/ UNCHANGED <<sending, stream, greeting, wire>>
  BY DEF ServerStep, hub, Age, Release, Acquire, CleanByReader, CleanByTimer, Clean, LockTeam,
         UnlockTeam, ClearLocks, Changed
<1>10. PageStep => EventArrives \/ UNCHANGED <<sending, stream, greeting, wire>>
  BY DEF PageStep, hub, Poll, SyncData, AnswerSync, SyncFails, SyncArrives, GrantArrives, GrantUnused,
         GiveUp
<1> QED  BY <1>2, <1>3, <1>4, <1>5, <1>6, <1>7, <1>8, <1>9, <1>10 DEF Next, HubStep, vars, hub

\* The page.
LEMMA PageStepTyped == LocksTyped /\ EventsTyped /\ PageTyped /\ [Next]_vars => PageTyped'
<1> SUFFICES ASSUME LocksTyped, EventsTyped, PageTyped, [Next]_vars PROVE PageTyped'
  OBVIOUS
<1>0. /\ lockVersion \in Versions /\ Versions \subseteq Nat \ {0} /\ Team \notin Seats
      /\ Things = Seats \cup {Team} /\ holder \in Holders
  BY VersionsFinite, LockNewsAssumption DEF LocksTyped, Things
<1>1. ASSUME NEW s \in Seats, NEW who \in {"page", "elsewhere"}, Acquire(s, who) PROVE PageTyped'
  <2>1. lockVersion + (IF old = {} THEN 1 ELSE 2) \in Versions
    BY <1>0, <1>1, ThingsFinite, LockNewsAssumption DEF Acquire, Versions, LocksTyped
  <2>2. granted' \in Grants
    BY <1>1, <2>1 DEF Acquire, PageTyped, Grants
  <2> QED  BY <1>1, <2>2 DEF Acquire, PageTyped
<1>2. CASE Restart
  BY <1>2 DEF Restart, PageTyped, Syncs, Grants
<1>3. ASSUME NEW v \in Versions \cup {None}, Hear(v) PROVE PageTyped'
  <2>1. Asked(cursor) \in Syncs
    BY DEF PageTyped, Asked, Syncs
  <2> QED  BY <1>3, <2>1 DEF Hear, PageTyped, Syncs
<1>4. CASE EventArrives
  <2>1. Head(wire) \in Versions
    BY <1>4, HeadTailProperties DEF EventArrives, EventsTyped
  <2> QED  BY <1>3, <1>4, <2>1 DEF EventArrives
<1>5. CASE Poll
  BY <1>0, <1>3, <1>5 DEF Poll, PageTyped
<1>6. CASE SyncData
  BY <1>6 DEF SyncData, PageTyped, Asked, Syncs
<1>7. CASE AnswerSync
  <2>1. syncing.asked \in Versions
    BY <1>7 DEF AnswerSync, PageTyped, Syncs, NoCall
  <2> QED  BY <1>0, <1>7, <2>1 DEF AnswerSync, PageTyped, Syncs
<1>8. CASE SyncFails
  BY <1>8 DEF SyncFails, PageTyped, Syncs
<1>9. CASE SyncArrives
  <2>1. /\ syncing.asked \in Versions
        /\ syncing.phase # "same" => syncing.version \in Versions /\ syncing.locks \in Holders
    BY <1>9 DEF SyncArrives, PageTyped, Syncs, NoCall
  <2>2. cursor' \in Versions /\ shows' \in Holders
    BY <1>9, <2>1 DEF SyncArrives, PageTyped
  <2>3. syncing' = NoCall \/ syncing' = Asked(cursor')
    BY <1>9 DEF SyncArrives
  <2> QED  BY <1>9, <2>2, <2>3 DEF SyncArrives, PageTyped, Syncs, Asked
<1>10. CASE GrantArrives
  <2>1. granted.seat \in Seats /\ granted.version \in Versions
    BY <1>10 DEF GrantArrives, PageTyped, Grants
  <2>2. shows' \in Holders /\ cursor' \in Versions
    BY <1>0, <1>10, <2>1 DEF GrantArrives, PageTyped, Holders
  <2> QED  BY <1>10, <2>2 DEF GrantArrives, PageTyped, Grants
<1>11. CASE GrantUnused
  BY <1>11 DEF GrantUnused, PageTyped, Grants
<1>12. ASSUME NEW s \in Seats, GiveUp(s) PROVE PageTyped'
  <2>1. shows' \in Holders
    BY <1>0, <1>12 DEF GiveUp, PageTyped, Holders
  <2> QED  BY <1>12, <2>1 DEF GiveUp, PageTyped
<1>13. CASE UNCHANGED <<pending, syncing, granted, cursor, shows>>
  BY <1>13 DEF PageTyped
<1>14. ServerStep => \/ \E s \in Seats, who \in {"page", "elsewhere"} : Acquire(s, who)
                     \/ Restart \/ UNCHANGED <<pending, syncing, granted, cursor, shows>>
  BY DEF ServerStep, page, Age, Release, CleanByReader, CleanByTimer, Clean, LockTeam, UnlockTeam, ClearLocks
<1>15. HubStep \/ UNCHANGED vars => UNCHANGED <<pending, syncing, granted, cursor, shows>>
  BY DEF HubStep, ReadVersion, SendEvent, Connect, Subscribe, vars, page
<1> QED  BY <1>1, <1>2, <1>4, <1>5, <1>6, <1>7, <1>8, <1>9, <1>10, <1>11, <1>12, <1>13, <1>14, <1>15
         DEF Next, PageStep

\* TypeOK: every variable keeps its type, and the versions that end locks and
\* the events on their way stay within the bounds of the model.
THEOREM TypeCorrect == Spec => []TypeOK
<1> DEFINE TInv == LocksTyped /\ EventsTyped /\ PageTyped /\ FlagsTyped
<1>1. Init => TInv
  <2> SUFFICES ASSUME Init PROVE TInv
    OBVIOUS
  <2>1. /\ 1 \in Versions /\ Free \in Holders /\ MaxRestarts \in Nat /\ MaxEvents \in Nat
        /\ MaxVersion \in Nat /\ Cardinality(Things) \in Nat
    BY LockNewsAssumption, ThingsFinite, VersionsFinite DEF Things, Free, Holders
  <2>2. Locked = {} /\ Cardinality({}) = 0
    BY FS_EmptySet DEF Init, Locked, Free
  <2>3. LocksTyped
    BY <2>1, <2>2 DEF Init, LocksTyped
  <2>4. EventsTyped
    BY <2>1, <2>2 DEF Init, EventsTyped
  <2>5. PageTyped
    BY <2>1 DEF Init, PageTyped, Syncs, Grants
  <2>6. FlagsTyped
    BY DEF Init, FlagsTyped
  <2> QED  BY <2>3, <2>4, <2>5, <2>6
<1>2. TInv /\ [Next]_vars => TInv'
  BY LocksStep, EventsStep, PageStepTyped, FlagsStep
<1>3. TInv => TypeOK
  <2> SUFFICES ASSUME TInv PROVE Len(wire) <= MaxEvents
    BY DEF LocksTyped, EventsTyped, PageTyped, FlagsTyped, TypeOK
  <2>1. Cardinality(sending) \in Nat /\ Len(wire) \in Nat /\ MaxEvents \in Nat
    BY SendingFinite
  <2> QED  BY <2>1 DEF EventsTyped
<1> HIDE DEF TInv
<1> QED  BY <1>1, <1>2, <1>3, PTL DEF Spec
=============================================================================
