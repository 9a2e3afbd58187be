------------------------------ MODULE SlotBoard ------------------------------
(***************************************************************************)
(* The signup board of backend-cpp/src/main.cpp: the slot locks and team   *)
(* locks kept in memory under runtimeMutex_, the teams and slots kept in   *)
(* SQLite under mutex_, and the requests that need both.                   *)
(*                                                                         *)
(* A client first acquires a slot lock and is given a token (its ticket),  *)
(* then sends a save, leave or cancel carrying the ticket and the member   *)
(* it believes sits there.  The handler validates the lock (Preflight),    *)
(* waits for mutex_, validates it again (Enter), decides and writes in one *)
(* SQLite transaction (Commit, Reject or CommitFails), and only then frees *)
(* the lock (ReleaseAfterCommit), mutex_ still held.  runtimeMutex_ is     *)
(* free between these steps, so locks come and go meanwhile.               *)
(*                                                                         *)
(* Times are ages: the age of a lock is nowMs() minus its timestamp,       *)
(* capped one above the timeout, where it no longer matters.  Logs,        *)
(* cancellation notices and version counters are written by these          *)
(* transactions but read by none of their guards; they are left out here.  *)
(***************************************************************************)
EXTENDS Naturals

CONSTANTS
    Teams,      \* team ids
    Seats,      \* the (team, slot index) pairs, the keys of runtimeLocks_.slots
    TeamOf,     \* the team of a seat
    Users,      \* QQ numbers
    Admins,     \* the users that pass isAdminRequest
    Arts,       \* martial art indices
    TnArts,     \* those whose role is T or healer
    Rules,      \* what a fixed role or a fixed art admits: sets of arts
    Procs,      \* slot mutations that can be in flight together
    Timeout,    \* kSlotLockTimeoutMs, in ticks
    MaxToken,   \* bound of the model: tickets handed out
    NoOne, NoMember, NoRule, NoLock, NoReq, NoTeam

ASSUME TeamOfAssumption == TeamOf \in [Seats -> Teams]
ASSUME TimeoutAssumption == Timeout \in Nat
ASSUME MaxTokenAssumption == MaxToken \in Nat
ASSUME AdminsAssumption == Admins \subseteq Users
ASSUME RulesAssumption == Rules \subseteq SUBSET Arts

Members == [qq : Users, art : Arts]

ASSUME NoValueAssumption ==
    /\ NoOne \notin Users
    /\ NoMember \notin Members
    /\ NoRule \notin Rules
    /\ NoTeam \notin Teams

VARIABLES
    teams,      \* rows of the table teams
    onlyTn,     \* teams whose only_tn_signup is set
    uniqueQq,   \* teams whose unique_qq_signup is set
    reserved,   \* seats listed in their team's reserved_slots_json
    seat,       \* rows of the table slots
    locks,      \* runtimeLocks_.slots
    lockedFor,  \* runtimeLocks_.teams: how long the team has been locked
    nextToken,  \* nextLockToken_
    issued,     \* tickets clients have been given
    spent,      \* history: tokens that carried a committed mutation
    pc, req,    \* where each mutation in flight stands, and its arguments
    clearing    \* the team being deleted: row gone, locks not cleared yet

database == <<teams, onlyTn, uniqueQq, reserved, seat>>
runtime  == <<locks, lockedFor, nextToken, issued>>
requests == <<spent, pc, req, clearing>>
vars     == <<database, runtime, requests>>

-----------------------------------------------------------------------------
(* Values.                                                                  *)

AgeLimit == Timeout + 1
Ages     == 0 .. AgeLimit
NotLocked == AgeLimit + 1       \* lockedFor of a team without a team lock

Tokens  == Nat \ {0}
Tickets == [tok : Tokens, seat : Seats, qq : Users]
Locks   == [tok : Tokens, qq : Users, age : Ages]

Statuses == {"empty", "reserved", "fixed", "occupied"}
SeatRows == [status : Statuses,
             member : Members \cup {NoMember},
             rule   : Rules \cup {NoRule}]

\* "leave" stands for cancelSlotMember too, which differs by its notice.
Requests == [op       : {"save", "leave"},
             ticket   : Tickets,
             expected : Users \cup {NoOne},
             member   : Members \cup {NoMember}]

EmptySeat    == [status |-> "empty", member |-> NoMember, rule |-> NoRule]
ReservedSeat == [status |-> "reserved", member |-> NoMember, rule |-> NoRule]
FixedSeat(r) == [status |-> "fixed", member |-> NoMember, rule |-> r]
TakenSeat(m, r) == [status |-> "occupied", member |-> m, rule |-> r]

SeatsOf(t)  == {s \in Seats : TeamOf[s] = t}
MemberQq(m) == IF m = NoMember THEN NoOne ELSE m.qq

\* mutex_ is held from Enter until the transaction's end or, after a commit,
\* until the slot lock is released; and while a deleted team's locks go.
DbFree == clearing = NoTeam /\ \A p \in Procs : pc[p] \notin {"txn", "release"}

-----------------------------------------------------------------------------
(* Slot locks.                                                              *)

\* mutant: the locks of a locked team are never cleaned
UnexpiredOfOpenTeams ==
    [s \in Seats |->
       IF locks[s] # NoLock /\ locks[s].age > Timeout /\ lockedFor[TeamOf[s]] = NotLocked
       THEN NoLock ELSE locks[s]]

\* cleanExpiredLocksLocked
Unexpired == [s \in Seats |->
                IF locks[s] # NoLock /\ locks[s].age > Timeout THEN NoLock
                                                               ELSE locks[s]]

\* validateSlotMutationLockLocked, after its cleaning
Valid(k) ==
    LET l == Unexpired[k.seat]
    IN  /\ l # NoLock
        /\ l.qq = k.qq
        /\ l.tok = k.tok
        /\ lockedFor[TeamOf[k.seat]] >= l.age

\* The 5 s timer.  A refused acquisition, a validation that fails and a
\* listing of the locks have this same effect and no other.
ExpireLocks ==
    /\ locks' = Unexpired
    /\ UNCHANGED <<database, lockedFor, nextToken, issued, requests>>

\* mutant: the team lock is not looked at
AcquireInLockedTeam(s, q) ==
    /\ nextToken <= MaxToken
    /\ Unexpired[s] # NoLock => Unexpired[s].qq = q \/ Unexpired[s].age >= Timeout
    /\ locks' = [Unexpired EXCEPT ![s] = [tok |-> nextToken, qq |-> q, age |-> 0]]
    /\ issued' = issued \cup {[tok |-> nextToken, seat |-> s, qq |-> q]}
    /\ nextToken' = nextToken + 1
    /\ UNCHANGED <<database, lockedFor, requests>>

\* POST /slot-locks
AcquireSlotLock(s, q) ==
    /\ nextToken <= MaxToken
    /\ lockedFor[TeamOf[s]] = NotLocked
    /\ LET l == Unexpired[s]
       IN  l # NoLock => l.qq = q \/ l.age >= Timeout
    /\ locks' = [Unexpired EXCEPT ![s] = [tok |-> nextToken, qq |-> q, age |-> 0]]
    /\ issued' = issued \cup {[tok |-> nextToken, seat |-> s, qq |-> q]}
    /\ nextToken' = nextToken + 1
    /\ UNCHANGED <<database, lockedFor, requests>>

\* DELETE /slot-locks/{team}/{slot}.  The token is optional: without one,
\* whatever lock the user has on the seat by now is dropped.
ReleaseSlotLock(k, withToken) ==
    /\ locks[k.seat] # NoLock
    /\ locks[k.seat].qq = k.qq
    /\ withToken => locks[k.seat].tok = k.tok
    /\ locks' = [locks EXCEPT ![k.seat] = NoLock]
    /\ UNCHANGED <<database, lockedFor, nextToken, issued, requests>>

\* POST and DELETE /team-locks
SetTeamLock(t) ==
    /\ lockedFor' = [lockedFor EXCEPT ![t] = 0]
    /\ UNCHANGED <<database, locks, nextToken, issued, requests>>

RemoveTeamLock(t) ==
    /\ lockedFor[t] # NotLocked
    /\ lockedFor' = [lockedFor EXCEPT ![t] = NotLocked]
    /\ UNCHANGED <<database, locks, nextToken, issued, requests>>

Older(a) == IF a < AgeLimit THEN a + 1 ELSE a

\* nowMs() moves on
Tick ==
    /\ locks' = [s \in Seats |->
                   IF locks[s] = NoLock THEN NoLock
                   ELSE [locks[s] EXCEPT !.age = Older(@)]]
    /\ lockedFor' = [t \in Teams |-> Older(lockedFor[t])]
    /\ UNCHANGED <<database, nextToken, issued, requests>>

-----------------------------------------------------------------------------
(* Mutations of one slot: saveSlotMember, leaveSlotMember, cancelSlotMember. *)

\* the checks of the three handlers before they call the database
Authorised(r) ==
    \/ r.ticket.qq \in Admins
    \/ r.op = "save" /\ r.member.qq = r.ticket.qq
    \/ r.op # "save" /\ r.expected \in {NoOne, r.ticket.qq}

WellFormed(r) == (r.op = "save") <=> (r.member # NoMember)

\* A failed validation has the effect of ExpireLocks.
Preflight(p, r) ==
    /\ pc[p] = "idle"
    /\ r.ticket \in issued
    /\ WellFormed(r) /\ Authorised(r)
    /\ Valid(r.ticket)
    /\ locks' = Unexpired
    /\ pc' = [pc EXCEPT ![p] = "waiting"]
    /\ req' = [req EXCEPT ![p] = r]
    /\ UNCHANGED <<database, lockedFor, nextToken, issued, spent, clearing>>

\* mutant: the lock is validated before mutex_ only
EnterUnchecked(p) ==
    /\ pc[p] = "waiting"
    /\ DbFree
    /\ pc' = [pc EXCEPT ![p] = "txn"]
    /\ UNCHANGED <<database, runtime, spent, req, clearing>>

\* takes mutex_, BEGIN IMMEDIATE, second validation
Enter(p) ==
    /\ pc[p] = "waiting"
    /\ DbFree
    /\ locks' = Unexpired
    /\ IF Valid(req[p].ticket)
       THEN pc' = [pc EXCEPT ![p] = "txn"] /\ UNCHANGED req
       ELSE pc' = [pc EXCEPT ![p] = "idle"] /\ req' = [req EXCEPT ![p] = NoReq]
    /\ UNCHANGED <<database, lockedFor, nextToken, issued, spent, clearing>>

\* teamHasMemberQqInAnotherSlotUnlocked
SignedElsewhere(q, s) ==
    \E x \in SeatsOf(TeamOf[s]) \ {s} : MemberQq(seat[x].member) = q

MayTake(m, actor, s) ==
    /\ seat[s].rule # NoRule => m.art \in seat[s].rule
    /\ TeamOf[s] \in onlyTn => m.art \in TnArts
    /\ TeamOf[s] \in uniqueQq => m.qq = actor /\ ~SignedElsewhere(m.qq, s)

\* mutant: the team may be gone
AcceptedInAnyTeam(r) ==
    LET s == r.ticket.seat
    IN  /\ MemberQq(seat[s].member) = r.expected
        /\ r.op = "save" => MayTake(r.member, r.ticket.qq, s)

Accepted(r) ==
    LET s == r.ticket.seat
    IN  /\ TeamOf[s] \in teams
        /\ MemberQq(seat[s].member) = r.expected
        /\ r.op = "save" => MayTake(r.member, r.ticket.qq, s)

\* mutant: the reserved list is forgotten
VacatedEmpty(s) ==
    [status |-> IF seat[s].rule # NoRule THEN "fixed" ELSE "empty",
     member |-> NoMember,
     rule   |-> seat[s].rule]

\* computeResetStatus and updateSlotStatusUnlocked: the rule stays
Vacated(s) ==
    [status |-> IF seat[s].rule # NoRule THEN "fixed"
                ELSE IF s \in reserved THEN "reserved" ELSE "empty",
     member |-> NoMember,
     rule   |-> seat[s].rule]

\* what the three transactions have in common when they commit
Committed(p, row) ==
    LET k == req[p].ticket
    IN  /\ Accepted(req[p])
        /\ seat' = [seat EXCEPT ![k.seat] = row]
        /\ spent' = spent \cup {k.tok}
        /\ pc' = [pc EXCEPT ![p] = "release"]
        /\ UNCHANGED <<teams, onlyTn, uniqueQq, reserved, runtime, req, clearing>>

\* saveSlotMember
CommitSave(p) ==
    /\ pc[p] = "txn" /\ req[p].op = "save"
    /\ Committed(p, TakenSeat(req[p].member, seat[req[p].ticket.seat].rule))

\* leaveSlotMember, cancelSlotMember
CommitLeave(p) ==
    /\ pc[p] = "txn" /\ req[p].op = "leave"
    /\ Committed(p, Vacated(req[p].ticket.seat))

Commit(p) == CommitSave(p) \/ CommitLeave(p)

\* mutant: ROLLBACK without the return
GiveUpStaying(p) ==
    /\ req' = [req EXCEPT ![p] = NoReq]
    /\ UNCHANGED <<database, runtime, spent, pc, clearing>>

GiveUp(p) ==
    /\ pc' = [pc EXCEPT ![p] = "idle"]
    /\ req' = [req EXCEPT ![p] = NoReq]
    /\ UNCHANGED <<database, runtime, spent, clearing>>

\* notFound, slotChanged, slotRestriction, onlyTnSignup, selfSignupOnly or
\* uniqueQqSignup: ROLLBACK, and the slot lock is kept
Reject(p) == pc[p] = "txn" /\ ~Accepted(req[p]) /\ GiveUp(p)

\* a statement or COMMIT throws: ROLLBACK, HTTP 500, and the lock is kept
CommitFails(p) == pc[p] = "txn" /\ Accepted(req[p]) /\ GiveUp(p)

\* mutant: waits for a lock that may be gone
ReleaseOwnLock(p) ==
    /\ pc[p] = "release"
    /\ locks[req[p].ticket.seat] # NoLock
    /\ locks[req[p].ticket.seat].tok = req[p].ticket.tok
    /\ locks' = [locks EXCEPT ![req[p].ticket.seat] = NoLock]
    /\ pc' = [pc EXCEPT ![p] = "idle"]
    /\ req' = [req EXCEPT ![p] = NoReq]
    /\ UNCHANGED <<database, lockedFor, nextToken, issued, spent, clearing>>

\* releaseMutationSlotLock, then mutex_ is released
ReleaseAfterCommit(p) ==
    LET k == req[p].ticket
        l == locks[k.seat]
    IN  /\ pc[p] = "release"
        /\ locks' = IF l # NoLock /\ l.qq = k.qq /\ l.tok = k.tok
                    THEN [locks EXCEPT ![k.seat] = NoLock] ELSE locks
        /\ pc' = [pc EXCEPT ![p] = "idle"]
        /\ req' = [req EXCEPT ![p] = NoReq]
        /\ UNCHANGED <<database, lockedFor, nextToken, issued, spent, clearing>>

-----------------------------------------------------------------------------
(* Administration: whole transactions under mutex_, blind to slot locks.    *)

\* normalizeSlot; held: the index is among the reserved ones
NormalSeat(x, held) ==
    IF x.status = "occupied" /\ x.member # NoMember THEN TakenSeat(x.member, x.rule)
    ELSE IF x.status = "fixed" /\ x.rule # NoRule THEN FixedSeat(x.rule)
    ELSE IF x.status = "reserved" \/ held THEN ReservedSeat
    ELSE EmptySeat

\* updateTeamFromJsonUnlocked: normalizeTeam, then insertTeamUnlocked
StoreTeam(t, rows, res) ==
    LET held == res \cup {s \in SeatsOf(t) : rows[s].status = "reserved"}
    IN  /\ reserved' = held
        /\ seat' = [s \in Seats |->
                      IF TeamOf[s] = t THEN NormalSeat(rows[s], s \in held)
                                       ELSE seat[s]]

\* setSlotRole, its four outcomes
SetSlot(s, row, res) ==
    /\ DbFree
    /\ TeamOf[s] \in teams
    /\ StoreTeam(TeamOf[s], [seat EXCEPT ![s] = row], res)
    /\ UNCHANGED <<teams, onlyTn, uniqueQq, runtime, requests>>

ReserveForBoss(s) == SetSlot(s, ReservedSeat, reserved \cup {s})

ClearRole(s) == SetSlot(s, EmptySeat, reserved \ {s})

\* mutant: the occupant keeps the seat
FixRuleKeepingMember(s, r) ==
    /\ TeamOf[s] \in onlyTn => r \subseteq TnArts
    /\ SetSlot(s, [seat[s] EXCEPT !.rule = r], reserved \ {s})

FixRule(s, r) ==
    /\ TeamOf[s] \in onlyTn => r \subseteq TnArts
    /\ SetSlot(s, FixedSeat(r), reserved \ {s})

\* mutant: no look at the other seats
AssignSecondSeat(s, m, admin) ==
    /\ TeamOf[s] \in onlyTn => m.art \in TnArts
    /\ TeamOf[s] \in uniqueQq => m.qq = admin
    /\ SetSlot(s, TakenSeat(m, NoRule), reserved \ {s})

AssignMember(s, m, admin) ==
    /\ TeamOf[s] \in onlyTn => m.art \in TnArts
    /\ TeamOf[s] \in uniqueQq => m.qq = admin /\ ~SignedElsewhere(m.qq, s)
    /\ SetSlot(s, TakenSeat(m, NoRule), reserved \ {s})

\* patchTeam, its two signup rules; who already sits is not looked at
PatchTeam(t, tn, uq) ==
    /\ DbFree
    /\ t \in teams
    /\ onlyTn' = IF tn THEN onlyTn \cup {t} ELSE onlyTn \ {t}
    /\ uniqueQq' = IF uq THEN uniqueQq \cup {t} ELSE uniqueQq \ {t}
    /\ UNCHANGED <<teams, reserved, seat, runtime, requests>>

\* nothing of team t is left: its rules, its reservations, its slots
Wipe(t) ==
    /\ onlyTn' = onlyTn \ {t}
    /\ uniqueQq' = uniqueQq \ {t}
    /\ reserved' = reserved \ SeatsOf(t)
    /\ seat' = [s \in Seats |-> IF TeamOf[s] = t THEN EmptySeat ELSE seat[s]]

\* insertTeamUnlocked of a blank team: REPLACE drops an older row of that id
\* and, by cascade, its slots; the locks of the older team stay
CreateTeam(t) ==
    /\ DbFree
    /\ teams' = teams \cup {t}
    /\ Wipe(t)
    /\ UNCHANGED <<runtime, requests>>

\* DELETE FROM teams (slots go by cascade), the fallback team if none is
\* left and the client sent one, COMMIT; mutex_ is kept
DeleteTeam(t, fallback) ==
    /\ DbFree
    /\ t \in teams
    /\ teams' = IF teams = {t} /\ fallback # NoTeam THEN {fallback} ELSE teams \ {t}
    /\ Wipe(t)
    /\ clearing' = t
    /\ UNCHANGED <<runtime, spent, pc, req>>

\* clearRuntimeLocksForTeam, then mutex_ is released
ClearTeamLocks ==
    /\ clearing # NoTeam
    /\ locks' = [s \in Seats |-> IF TeamOf[s] = clearing THEN NoLock ELSE locks[s]]
    /\ lockedFor' = [lockedFor EXCEPT ![clearing] = NotLocked]
    /\ clearing' = NoTeam
    /\ UNCHANGED <<database, nextToken, issued, spent, pc, req>>

\* mutant: tokens are numbered from 1 again
RestartRenumbering ==
    /\ locks' = [s \in Seats |-> NoLock]
    /\ lockedFor' = [t \in Teams |-> NotLocked]
    /\ nextToken' = 1
    /\ pc' = [p \in Procs |-> "idle"]
    /\ req' = [p \in Procs |-> NoReq]
    /\ clearing' = NoTeam
    /\ UNCHANGED <<database, issued, spent>>

\* The process dies and starts again: memory is gone, SQLite keeps what was
\* committed.  A token starts with its time of issue, so none is issued twice.
Restart ==
    /\ locks' = [s \in Seats |-> NoLock]
    /\ lockedFor' = [t \in Teams |-> NotLocked]
    /\ pc' = [p \in Procs |-> "idle"]
    /\ req' = [p \in Procs |-> NoReq]
    /\ clearing' = NoTeam
    /\ UNCHANGED <<database, nextToken, issued, spent>>

-----------------------------------------------------------------------------
Init ==
    /\ teams = Teams
    /\ onlyTn = {} /\ uniqueQq = {} /\ reserved = {}
    /\ seat = [s \in Seats |-> EmptySeat]
    /\ locks = [s \in Seats |-> NoLock]
    /\ lockedFor = [t \in Teams |-> NotLocked]
    /\ nextToken = 1
    /\ issued = {} /\ spent = {}
    /\ pc = [p \in Procs |-> "idle"]
    /\ req = [p \in Procs |-> NoReq]
    /\ clearing = NoTeam

\* What an issued ticket can be used to ask for.
RequestsOf(k) ==
    [op : {"save", "leave"}, ticket : {k},
     expected : Users \cup {NoOne}, member : Members \cup {NoMember}]

LockStep ==
    \/ ExpireLocks
    \/ Tick
    \/ \E s \in Seats, q \in Users : AcquireSlotLock(s, q)
    \/ \E k \in issued, b \in BOOLEAN : ReleaseSlotLock(k, b)
    \/ \E t \in Teams : SetTeamLock(t) \/ RemoveTeamLock(t)

Finish(p) == Commit(p) \/ Reject(p) \/ CommitFails(p) \/ ReleaseAfterCommit(p)

MutationStep(p) ==
    \/ \E k \in issued : \E r \in RequestsOf(k) : Preflight(p, r)
    \/ Enter(p)
    \/ Finish(p)

AdminStep ==
    \/ \E s \in Seats : ReserveForBoss(s) \/ ClearRole(s)
    \/ \E s \in Seats, r \in Rules : FixRule(s, r)
    \/ \E s \in Seats, m \in Members, a \in Admins : AssignMember(s, m, a)
    \/ \E t \in Teams, tn, uq \in BOOLEAN : PatchTeam(t, tn, uq)
    \/ \E t \in Teams : CreateTeam(t)
    \/ \E t \in Teams, fallback \in Teams \cup {NoTeam} : DeleteTeam(t, fallback)
    \/ ClearTeamLocks

Next == LockStep \/ (\E p \in Procs : MutationStep(p)) \/ AdminStep \/ Restart

Spec == Init /\ [][Next]_vars

\* A transaction that was begun ends, a committed mutation frees its lock, a
\* deleted team's locks go, the timer fires and time passes.  Nothing is
\* assumed of clients, of administrators, or of who gets mutex_ next.
Fairness ==
    /\ \A p \in Procs : WF_vars(Finish(p))
    /\ WF_vars(ClearTeamLocks)
    /\ WF_vars(ExpireLocks)
    /\ WF_vars(Tick)

-----------------------------------------------------------------------------
(* What should hold.                                                        *)

TypeOK ==
    /\ teams \subseteq Teams
    /\ onlyTn \subseteq Teams /\ uniqueQq \subseteq Teams
    /\ reserved \subseteq Seats
    /\ seat \in [Seats -> SeatRows]
    /\ locks \in [Seats -> Locks \cup {NoLock}]
    /\ lockedFor \in [Teams -> Ages \cup {NotLocked}]
    /\ nextToken \in Tokens
    /\ issued \subseteq Tickets
    /\ spent \subseteq Tokens
    /\ pc \in [Procs -> {"idle", "waiting", "txn", "release"}]
    /\ req \in [Procs -> Requests \cup {NoReq}]
    /\ \A p \in Procs : pc[p] # "idle" => req[p] \in Requests
    /\ clearing \in Teams \cup {NoTeam}

\* A mutation that was let into its transaction carries a token that no
\* mutation has committed with: a save that is sent twice (a double click, a
\* retry after a lost answer) is applied once, although both copies can pass
\* the first validation.  Rests on the second validation inside mutex_ and on
\* the lock being freed before mutex_ is.
TicketSpentOnce ==
    \A p \in Procs : pc[p] = "txn" => req[p].ticket.tok \notin spent

\* The columns of a slot row and its team's reserved list agree, whatever mix
\* of signups and administration wrote them: occupied is having a member, a
\* reserved or fixed slot can get its status back when its member leaves, and
\* no slot is both reserved and fixed.
SeatConsistent ==
    \A s \in Seats :
        /\ (seat[s].status = "occupied") <=> (seat[s].member # NoMember)
        /\ seat[s].status = "reserved" => s \in reserved
        /\ s \in reserved => seat[s].status \in {"reserved", "occupied"}
        /\ seat[s].status = "fixed" => seat[s].rule # NoRule
        /\ seat[s].rule # NoRule =>
              s \notin reserved /\ seat[s].status \in {"fixed", "occupied"}

\* Nobody sits on a fixed slot with an art the slot does not admit, although
\* the rule of a slot may change between a user's look at it and the save.
SeatMatchesRule ==
    \A s \in Seats :
        seat[s].member # NoMember /\ seat[s].rule # NoRule =>
            seat[s].member.art \in seat[s].rule

\* Nothing is kept of a team that is not there, although a save may have been
\* validated before the team was deleted and enter mutex_ after it.
NoOrphans ==
    \A t \in Teams \ teams :
        /\ t \notin onlyTn \cup uniqueQq
        /\ \A s \in SeatsOf(t) : seat[s] = EmptySeat /\ s \notin reserved

\* No slot lock is younger than the team lock its team is under: none is
\* handed out while a team is locked, so a locked team runs dry of usable
\* locks.
TeamLockYoungest ==
    \A s \in Seats :
        locks[s] # NoLock /\ lockedFor[TeamOf[s]] # NotLocked =>
            locks[s].age >= lockedFor[TeamOf[s]]

SameSigner(x, y) ==
    MemberQq(seat[x].member) # NoOne /\ MemberQq(seat[x].member) = MemberQq(seat[y].member)

\* In a team where everybody may sign up once, no step gives anybody a second
\* seat.  (A user who already had two when the rule was switched on keeps
\* them: patchTeam does not look.)
AddsNoDuplicate ==
    \A x, y \in Seats :
       /\ x # y
       /\ TeamOf[x] = TeamOf[y]
       /\ TeamOf[x] \in uniqueQq
       /\ SameSigner(x, y)'
       => SameSigner(x, y)

NoNewDuplicate == [][AddsNoDuplicate]_vars

\* The board implements one-change tickets on registers.
Register == INSTANCE SlotRegister WITH
    cell <- [s \in Seats |-> MemberQq(seat[s].member)], tickets <- issued, used <- spent

Refinement == Register!Spec

\* Whoever holds a lock does not hold it for ever: closed tabs and lost
\* release calls do not block a seat.
LocksEnd ==
    \A s \in Seats, n \in 1 .. MaxToken :
        (locks[s] # NoLock /\ locks[s].tok = n) ~> (locks[s] = NoLock \/ locks[s].tok # n)

\* mutex_ is always given back.
MutexReleased == []<>DbFree
=============================================================================
