------------------------------ MODULE LockNews ------------------------------
(***************************************************************************)
(* How a page learns which slots and teams are locked: the lock table and  *)
(* lockVersion, VersionEventHub and /sync of backend-cpp/src/main.cpp, and *)
(* the lock cursor of frontend/src/App.tsx.                                *)
(*                                                                         *)
(* The locks of the server live in memory only.  Each change gives them    *)
(* another version; a handler answers first and then publishes the version *)
(* of that moment as an event, from its own thread.  An event carries no   *)
(* locks: a page that receives a version it is not at calls /sync, and a   *)
(* poll does the same.  A page besides shows its own locks as soon as they *)
(* are granted, and no longer as soon as it gives them up.                 *)
(*                                                                         *)
(* One page is followed; "elsewhere" stands for every other client.  Who   *)
(* may take or release which lock is the business of SlotBoard.            *)
(***************************************************************************)
EXTENDS Naturals, Sequences, FiniteSets

CONSTANTS
    Seats,       \* the slots of a team
    Team,        \* the team itself, which an administrator may lock
    Polls,       \* whether the page polls besides listening
    MaxRestarts, \* bound of the model: restarts of the server
    MaxVersion,  \* bound of the model: no lock is taken at this version, less the
                 \* restarts, or later
    MaxEvents    \* bound of the model: events read to be sent or on their way

ASSUME LockNewsAssumption ==
    /\ IsFiniteSet(Seats) /\ Team \notin Seats
    /\ Polls \in BOOLEAN
    /\ MaxRestarts \in Nat
    /\ MaxVersion \in Nat \ {0}
    /\ MaxEvents \in Nat \ {0}

VARIABLES
    holder,      \* runtimeLocks_: who holds which slot, and whether the team is locked
    old,         \* slots whose lock is older than lockTimeoutMs_
    lockVersion, \* runtimeLocks_.version, lockVersionCache_
    restarts,    \* how often the server was started again
    owed,        \* a handler has answered and has yet to publish
    sending,     \* versions read by publishVersion and not sent on the page's stream yet
    stream,      \* the page's event stream, as the hub knows it
    greeting,    \* the version the hello of a stream being opened will carry
    wire,        \* the events sent to the page, in order
    pending,     \* pendingServerEventRef: the latest event while a sync runs
    syncing,     \* the page's sync
    granted,     \* the answer to the page's request for a slot lock
    cursor,      \* lockVersionRef
    shows,       \* the locks the page shows
    foreign      \* history: the cursor comes from an earlier life of the server

server == <<holder, old, lockVersion>>
hub    == <<owed, sending, stream, greeting, wire>>
page   == <<pending, syncing, granted, cursor, shows, foreign>>
vars   == <<server, restarts, hub, page>>

-----------------------------------------------------------------------------
Things   == Seats \cup {Team}
Free     == [x \in Things |-> "free"]
Holders  == {h \in [Things -> {"free", "page", "elsewhere"}] : h[Team] # "page"}
Held     == {s \in Seats : holder[s] # "free"}
\* each lock taken by then may still end, and a removal takes a version
Versions == 1 .. MaxVersion + 2 + Cardinality(Things)
None     == 0
NoCall   == [phase |-> "none"]
Asked(v) == [phase |-> "asked", asked |-> v]
Syncs    == {NoCall} \cup [phase : {"asked"}, asked : Versions]
              \cup [phase : {"same"}, asked : Versions]
              \cup [phase : {"locks"}, asked : Versions, version : Versions, locks : Holders]
NoGrant  == [seat |-> Team, version |-> 0]
Grants   == {NoGrant} \cup [seat : Seats, version : Versions]

Freed(S) == [x \in Things |-> IF x \in S THEN "free" ELSE holder[x]]

\* bumpLockVersionLocked
Bump(n) == lockVersion' = lockVersion + n

-----------------------------------------------------------------------------
\* The lock table.

\* a lock grows older than its 60 seconds
Age(s) ==
    /\ s \in Held \ old
    /\ old' = old \cup {s}
    /\ UNCHANGED <<holder, lockVersion, restarts, hub, page>>

\* mutant: expired locks go without another version
CleanUnversioned ==
    /\ old # {}
    /\ holder' = Freed(old)
    /\ old' = {}
    /\ UNCHANGED <<lockVersion, restarts, page>>

\* cleanExpiredLocksLocked
Clean ==
    /\ old # {}
    /\ holder' = Freed(old)
    /\ old' = {}
    /\ Bump(1)
    /\ UNCHANGED <<restarts, page>>

\* publicLocks, validateSlotLock and refused requests clean up and tell nobody.
CleanByReader == Clean /\ UNCHANGED hub

\* the five-second timer publishes what it cleaned up
CleanByTimer == Clean /\ owed' = TRUE /\ UNCHANGED <<sending, stream, greeting, wire>>

Changed == owed' = TRUE /\ UNCHANGED <<restarts, sending, stream, greeting, wire>>

\* acquireSlotLock: expired locks go first, under a version of their own
Acquire(s, who) ==
    LET cleaned == Freed(old)
        next    == lockVersion + (IF old = {} THEN 1 ELSE 2)
    IN  /\ lockVersion + restarts < MaxVersion
        /\ cleaned[Team] = "free"
        /\ cleaned[s] \in {"free", who}
        /\ who = "page" => granted = NoGrant
        /\ holder' = [cleaned EXCEPT ![s] = who]
        /\ old' = {}
        /\ lockVersion' = next
        /\ granted' = IF who = "page" THEN [seat |-> s, version |-> next] ELSE granted
        /\ Changed
        /\ UNCHANGED <<pending, syncing, cursor, shows, foreign>>

\* releaseSlotLock, and releaseMutationSlotLock once a mutation has committed
Release(s) ==
    /\ s \in Held
    /\ holder' = Freed({s})
    /\ old' = old \ {s}
    /\ Bump(1)
    /\ Changed
    /\ UNCHANGED page

\* setTeamLock
LockTeam ==
    /\ lockVersion + restarts < MaxVersion
    /\ holder' = [holder EXCEPT ![Team] = "elsewhere"]
    /\ Bump(1)
    /\ Changed
    /\ UNCHANGED <<old, page>>

\* removeTeamLock
UnlockTeam ==
    /\ holder[Team] # "free"
    /\ holder' = Freed({Team})
    /\ Bump(1)
    /\ Changed
    /\ UNCHANGED <<old, page>>

\* clearRuntimeLocks, and clearRuntimeLocksForTeam of a team that goes
ClearLocks ==
    /\ holder # Free
    /\ holder' = Free
    /\ old' = {}
    /\ Bump(1)
    /\ Changed
    /\ UNCHANGED page

\* mutant: a new process remembers which slots had old locks
RestartKeepingAges ==
    /\ restarts < MaxRestarts
    /\ restarts' = restarts + 1
    /\ holder' = Free
    /\ lockVersion' = 1
    /\ owed' = FALSE /\ sending' = {} /\ stream' = "down" /\ greeting' = None /\ wire' = <<>>
    /\ syncing' = NoCall /\ granted' = NoGrant
    /\ foreign' = TRUE
    /\ UNCHANGED <<old, pending, cursor, shows>>

\* The process starts again: no locks, version 1, and every connection gone.
Restart ==
    /\ restarts < MaxRestarts
    /\ restarts' = restarts + 1
    /\ holder' = Free /\ old' = {}
    /\ lockVersion' = 1
    /\ owed' = FALSE /\ sending' = {} /\ stream' = "down" /\ greeting' = None /\ wire' = <<>>
    /\ syncing' = NoCall /\ granted' = NoGrant
    /\ foreign' = TRUE
    /\ UNCHANGED <<pending, cursor, shows>>

-----------------------------------------------------------------------------
\* The hub and the page's stream.

MoreEvents == Cardinality(sending) + Len(wire) < MaxEvents

\* publishVersion reads the version when its thread gets there
ReadVersion ==
    /\ owed
    /\ MoreEvents
    /\ owed' = FALSE
    /\ sending' = sending \cup {lockVersion}
    /\ UNCHANGED <<server, restarts, stream, greeting, wire, page>>

\* VersionEventHub::publish: threads that publish at once send in any order
SendEvent(v) ==
    /\ v \in sending
    /\ sending' = sending \ {v}
    /\ wire' = IF stream = "up" THEN Append(wire, v) ELSE wire
    /\ UNCHANGED <<server, restarts, owed, stream, greeting, page>>

\* GET /events: the version is read before subscribe is entered
Connect ==
    /\ stream = "down"
    /\ stream' = "opening"
    /\ greeting' = lockVersion
    /\ UNCHANGED <<server, restarts, owed, sending, wire, page>>

\* VersionEventHub::subscribe: the hello is sent after the hub's lock is
\* given back, by then perhaps behind other events
Subscribe ==
    /\ stream = "opening"
    /\ MoreEvents
    /\ stream' = "up" /\ greeting' = None
    /\ sending' = sending \cup {greeting}
    /\ UNCHANGED <<server, restarts, owed, wire, page>>

-----------------------------------------------------------------------------
\* The page.

\* An event, or the version a poll has fetched; a newer one replaces the one
\* that waits for a sync to end.
Hear(v) ==
    /\ IF syncing # NoCall THEN pending' = v /\ UNCHANGED syncing
       ELSE /\ pending' = None
            /\ syncing' = IF v = cursor THEN NoCall ELSE Asked(cursor)
    /\ UNCHANGED <<server, restarts, granted, cursor, shows, foreign>>

EventArrives ==
    /\ wire # <<>>
    /\ wire' = Tail(wire)
    /\ Hear(Head(wire))
    /\ UNCHANGED <<owed, sending, stream, greeting>>

Poll ==
    /\ Polls
    /\ syncing = NoCall
    /\ pending # None \/ lockVersion # cursor
    /\ Hear(IF pending # None THEN pending ELSE lockVersion)
    /\ UNCHANGED hub

\* a sync for the sake of the data
SyncData ==
    /\ syncing = NoCall
    /\ syncing' = Asked(cursor)
    /\ UNCHANGED <<server, restarts, hub, pending, granted, cursor, shows, foreign>>

\* sync(): the locks with their version, of this moment; none at all if the
\* version it began with is the one asked from and the data need no snapshot
AnswerSync ==
    /\ syncing.phase = "asked"
    /\ \/ syncing' = [phase |-> "locks", asked |-> syncing.asked, version |-> lockVersion,
                      locks |-> holder]
       \/ /\ lockVersion = syncing.asked
          /\ syncing' = [phase |-> "same", asked |-> syncing.asked]
    /\ UNCHANGED <<server, restarts, hub, pending, granted, cursor, shows, foreign>>

SyncFails ==
    /\ syncing # NoCall
    /\ syncing' = NoCall
    /\ UNCHANGED <<server, restarts, hub, pending, granted, cursor, shows, foreign>>

\* mutant: an answer is applied however late it comes
ShouldApplyAlways(current, requested, response) == TRUE

\* shouldApplySyncVersion
ShouldApply(current, requested, response) == response >= current \/ current = requested

\* The answer, and then the event that came in the meantime, unless its
\* version is the cursor's.
SyncArrives ==
    /\ syncing.phase \in {"locks", "same"}
    /\ LET to == IF syncing.phase = "same" THEN syncing.asked ELSE syncing.version
       IN  IF ShouldApply(cursor, syncing.asked, to)
           THEN /\ cursor' = to
                /\ shows' = IF syncing.phase = "same" THEN shows ELSE syncing.locks
                /\ foreign' = (foreign /\ syncing.phase = "same")
           ELSE UNCHANGED <<cursor, shows, foreign>>
    /\ pending' = None
    /\ syncing' = IF pending \in {None, cursor'} THEN NoCall ELSE Asked(cursor')
    /\ UNCHANGED <<server, restarts, hub, granted>>

\* mutant: the cursor jumps over the changes of others
GrantArrivesJumping ==
    /\ granted # NoGrant
    /\ granted.version > cursor
    /\ shows' = [shows EXCEPT ![granted.seat] = "page"]
    /\ cursor' = granted.version
    /\ granted' = NoGrant
    /\ UNCHANGED <<server, restarts, hub, pending, syncing, foreign>>

\* applyAcquiredSlotLock
GrantArrives ==
    /\ granted # NoGrant
    /\ IF granted.version > cursor
       THEN /\ shows' = [shows EXCEPT ![granted.seat] = "page"]
            /\ cursor' = IF granted.version = cursor + 1 THEN granted.version ELSE cursor
       ELSE UNCHANGED <<shows, cursor>>
    /\ granted' = NoGrant
    /\ UNCHANGED <<server, restarts, hub, pending, syncing, foreign>>

\* The answer is lost, or comes when the dialog is closed.
GrantUnused ==
    /\ granted # NoGrant
    /\ granted' = NoGrant
    /\ UNCHANGED <<server, restarts, hub, pending, syncing, cursor, shows, foreign>>

\* applyReleasedSlotLock: before the server has released it, or even if it never does
GiveUp(s) ==
    /\ shows[s] = "page"
    /\ shows' = [shows EXCEPT ![s] = "free"]
    /\ UNCHANGED <<server, restarts, hub, pending, syncing, granted, cursor, foreign>>

-----------------------------------------------------------------------------
\* A page that has just loaded, at a server that has just started.
Init ==
    /\ holder = Free /\ old = {} /\ lockVersion = 1
    /\ restarts = 0
    /\ owed = FALSE /\ sending = {} /\ stream = "down" /\ greeting = None /\ wire = <<>>
    /\ pending = None /\ syncing = NoCall /\ granted = NoGrant
    /\ cursor = 1 /\ shows = Free
    /\ foreign = FALSE

ServerStep ==
    \/ \E s \in Seats : Age(s) \/ Release(s) \/ \E who \in {"page", "elsewhere"} : Acquire(s, who)
    \/ CleanByReader \/ CleanByTimer
    \/ LockTeam \/ UnlockTeam \/ ClearLocks
    \/ Restart

HubStep ==
    \/ ReadVersion
    \/ \E v \in sending : SendEvent(v)
    \/ Connect \/ Subscribe

PageStep ==
    \/ EventArrives \/ Poll \/ SyncData
    \/ AnswerSync \/ SyncFails \/ SyncArrives
    \/ GrantArrives \/ GrantUnused
    \/ \E s \in Seats : GiveUp(s)

Next == ServerStep \/ HubStep \/ PageStep

Spec == Init /\ [][Next]_vars

\* Locks grow old, the timers of server and page fire, the hub sends, the
\* page connects, and not every sync is lost.  Nothing is assumed of users.
FairSpec ==
    /\ Spec
    /\ \A s \in Seats : WF_vars(Age(s))
    /\ WF_vars(CleanByTimer)
    /\ WF_vars(ReadVersion)
    /\ WF_vars(\E v \in sending : SendEvent(v))
    /\ WF_vars(Connect) /\ WF_vars(Subscribe)
    /\ WF_vars(EventArrives)
    /\ WF_vars(Poll)
    /\ SF_vars(AnswerSync)
    /\ SF_vars(SyncArrives)

-----------------------------------------------------------------------------
TypeOK ==
    /\ holder \in Holders
    /\ old \subseteq Held
    /\ lockVersion \in Versions
    /\ restarts \in 0 .. MaxRestarts
    /\ owed \in BOOLEAN
    /\ sending \subseteq Versions
    /\ stream \in {"down", "opening", "up"}
    /\ greeting \in Versions \cup {None}
    /\ wire \in Seq(Versions) /\ Len(wire) <= MaxEvents
    /\ pending \in Versions \cup {None}
    /\ syncing \in Syncs
    /\ granted \in Grants
    /\ cursor \in Versions
    /\ shows \in Holders
    /\ foreign \in BOOLEAN

\* A page at the server's version shows the server's locks, except that it
\* may have stopped showing one of its own: it will not ask again as long as
\* the version stands.  However syncs, grants, releases and expiries overtake
\* each other, equal versions are equal locks, in one life of the server.
SameVersionSameLocks ==
    cursor = lockVersion /\ ~foreign =>
        \A x \in Things : shows[x] # holder[x] => holder[x] = "page" /\ shows[x] = "free"

\* The page follows its cursor back only to the server's new beginning:
\* within one life of the server no late answer takes it to older locks.
BackOnlyAfterRestart == [][cursor' < cursor => foreign]_vars

UpToDate == \A x \in Things : shows[x] = holder[x]

\* a page of the last life at a number the new life has reached as well
Mistaken == foreign /\ cursor = lockVersion

\* After the last change a page that polls ends up showing the server's
\* locks, whatever events it missed: except a page that took no notice of a
\* restart until the new process had counted to the same number.
LocksFollow == <>[](UpToDate \/ Mistaken)

\* The stated aim of the events, that a page need not poll: a page that keeps
\* its stream ends up showing the server's locks.
EventsSuffice == <>[]UpToDate
=============================================================================
