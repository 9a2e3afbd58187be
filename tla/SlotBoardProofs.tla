--------------------------- MODULE SlotBoardProofs ---------------------------
(***************************************************************************)
(* What holds of the signup board for any teams, seats, users, rules,      *)
(* timeout and number of requests in flight: its invariants, that no step  *)
(* gives anybody a second seat in a team of single signups, and that the   *)
(* board implements the registers and one-shot tickets of SlotRegister.    *)
(* The last part does the same for the board of Restores, onto which       *)
(* archives and backups come back.                                         *)
(***************************************************************************)
EXTENDS Restores, TLAPS

\* The step of a mutation or of an administrator that writes rows keeps them
\* rows: the values the code writes.
LEMMA SeatRowTypes ==
    /\ EmptySeat \in SeatRows
    /\ ReservedSeat \in SeatRows
    /\ \A r \in Rules : FixedSeat(r) \in SeatRows
    /\ \A m \in Members, r \in Rules \cup {NoRule} : TakenSeat(m, r) \in SeatRows
  BY DEF EmptySeat, ReservedSeat, FixedSeat, TakenSeat, SeatRows, Statuses

\* Normalising a row that is about to be stored gives a row.
LEMMA NormalSeatType ==
    ASSUME NEW x \in SeatRows, NEW held
    PROVE  NormalSeat(x, held) \in SeatRows
<1>1. CASE x.status = "occupied" /\ x.member # NoMember
  <2>1. x.member \in Members /\ x.rule \in Rules \cup {NoRule}
    BY <1>1 DEF SeatRows
  <2>2. NormalSeat(x, held) = TakenSeat(x.member, x.rule)
    BY <1>1 DEF NormalSeat
  <2> QED BY <2>1, <2>2, SeatRowTypes
<1>2. CASE ~(x.status = "occupied" /\ x.member # NoMember) /\ x.status = "fixed" /\ x.rule # NoRule
  <2>1. x.rule \in Rules
    BY <1>2 DEF SeatRows
  <2>2. NormalSeat(x, held) = FixedSeat(x.rule)
    BY <1>2 DEF NormalSeat
  <2> QED BY <2>1, <2>2, SeatRowTypes
<1>3. CASE /\ ~(x.status = "occupied" /\ x.member # NoMember)
           /\ ~(x.status = "fixed" /\ x.rule # NoRule)
  <2>1. NormalSeat(x, held) \in {ReservedSeat, EmptySeat}
    BY <1>3 DEF NormalSeat
  <2> QED BY <2>1, SeatRowTypes
<1> QED BY <1>1, <1>2, <1>3

\* Cleaning expired locks leaves every lock as it was or removes it.
LEMMA UnexpiredSome ==
    ASSUME NEW s \in Seats
    PROVE  Unexpired[s] \in {locks[s], NoLock}
  BY DEF Unexpired

-----------------------------------------------------------------------------
(* Type correctness.                                                        *)

LEMMA UnexpiredType ==
    ASSUME TypeOK
    PROVE  Unexpired \in [Seats -> Locks \cup {NoLock}]
  BY DEF TypeOK, Unexpired

\* A row array with one slot replaced by a row, stored, is a row array.
LEMMA StoreTeamType ==
    ASSUME TypeOK, NEW s \in Seats, NEW row \in SeatRows, NEW res \in SUBSET Seats,
           StoreTeam(TeamOf[s], [seat EXCEPT ![s] = row], res)
    PROVE  seat' \in [Seats -> SeatRows] /\ reserved' \subseteq Seats
<1> DEFINE rows == [seat EXCEPT ![s] = row]
<1> DEFINE held == res \cup {x \in SeatsOf(TeamOf[s]) : rows[x].status = "reserved"}
<1>1. rows \in [Seats -> SeatRows]
  BY DEF TypeOK
<1>2. reserved' = held
  BY DEF StoreTeam
<1>3. held \subseteq Seats
  BY DEF SeatsOf
<1>4. seat' = [x \in Seats |-> IF TeamOf[x] = TeamOf[s] THEN NormalSeat(rows[x], x \in held)
                                                        ELSE seat[x]]
  BY DEF StoreTeam
<1>5. ASSUME NEW x \in Seats PROVE seat'[x] \in SeatRows
  <2>1. NormalSeat(rows[x], x \in held) \in SeatRows
    <3>1. rows[x] \in SeatRows
      BY <1>1
    <3> HIDE DEF rows, held
    <3> QED BY <3>1, NormalSeatType
  <2>2. seat[x] \in SeatRows
    BY DEF TypeOK
  <2> QED BY <1>4, <2>1, <2>2
<1> QED BY <1>2, <1>3, <1>4, <1>5

LEMMA SetSlotType ==
    ASSUME TypeOK, NEW s \in Seats, NEW row \in SeatRows, NEW res \in SUBSET Seats,
           SetSlot(s, row, res)
    PROVE  TypeOK'
<1>1. seat' \in [Seats -> SeatRows] /\ reserved' \subseteq Seats
  BY StoreTeamType DEF SetSlot
<1> QED BY <1>1 DEF TypeOK, SetSlot, runtime, requests

LEMMA WipeType ==
    ASSUME TypeOK, NEW t \in Teams, Wipe(t)
    PROVE  /\ onlyTn' \subseteq Teams /\ uniqueQq' \subseteq Teams
           /\ reserved' \subseteq Seats
           /\ seat' \in [Seats -> SeatRows]
  BY SeatRowTypes DEF TypeOK, Wipe

\* Every lock operation leaves well-typed tables.
LEMMA LockStepType == TypeOK /\ LockStep => TypeOK'
<1> SUFFICES ASSUME TypeOK, LockStep PROVE TypeOK'
  OBVIOUS
<1> USE TimeoutAssumption
<1>1. CASE ExpireLocks
  BY <1>1, UnexpiredType DEF ExpireLocks, TypeOK, database, requests
<1>2. CASE Tick
  <2>1. locks' \in [Seats -> Locks \cup {NoLock}]
    <3> SUFFICES ASSUME NEW s \in Seats, locks[s] # NoLock
                 PROVE  [locks[s] EXCEPT !.age = Older(@)] \in Locks
      BY <1>2 DEF Tick
    <3>1. locks[s] \in Locks
      BY DEF TypeOK
    <3>2. Older(locks[s].age) \in Ages
      BY <3>1 DEF Locks, Older, Ages, AgeLimit
    <3> QED BY <3>1, <3>2 DEF Locks
  <2>2. lockedFor' \in [Teams -> Ages \cup {NotLocked}]
    BY <1>2 DEF Tick, TypeOK, Older, Ages, NotLocked, AgeLimit
  <2> QED BY <1>2, <2>1, <2>2 DEF Tick, TypeOK, database, requests
<1>3. ASSUME NEW s \in Seats, NEW q \in Users, AcquireSlotLock(s, q) PROVE TypeOK'
  <2>1. [tok |-> nextToken, qq |-> q, age |-> 0] \in Locks
    BY DEF Locks, Ages, AgeLimit, TypeOK
  <2>2. locks' \in [Seats -> Locks \cup {NoLock}]
    BY <1>3, <2>1, UnexpiredType DEF AcquireSlotLock
  <2>3. [tok |-> nextToken, seat |-> s, qq |-> q] \in Tickets
    BY DEF Tickets, TypeOK
  <2>4. nextToken' \in Tokens
    BY <1>3 DEF AcquireSlotLock, TypeOK, Tokens
  <2> QED BY <1>3, <2>2, <2>3, <2>4 DEF AcquireSlotLock, TypeOK, database, requests
<1>4. ASSUME NEW k \in issued, NEW b \in BOOLEAN, ReleaseSlotLock(k, b) PROVE TypeOK'
  BY <1>4 DEF ReleaseSlotLock, TypeOK, Tickets, database, requests
<1>5. ASSUME NEW t \in Teams, SetTeamLock(t) \/ RemoveTeamLock(t) PROVE TypeOK'
  BY <1>5 DEF SetTeamLock, RemoveTeamLock, TypeOK, Ages, AgeLimit, NotLocked,
              database, requests
<1> QED BY <1>1, <1>2, <1>3, <1>4, <1>5 DEF LockStep

\* So does every step of a mutation.
LEMMA MutationStepType ==
    ASSUME TypeOK, NEW p \in Procs, MutationStep(p)
    PROVE  TypeOK'
<1>1. ASSUME NEW k \in issued, NEW r \in RequestsOf(k), Preflight(p, r) PROVE TypeOK'
  <2>1. r \in Requests
    BY DEF RequestsOf, Requests, TypeOK
  <2> QED BY <1>1, <2>1, UnexpiredType DEF Preflight, TypeOK, database
<1>2. CASE Enter(p)
  BY <1>2, UnexpiredType DEF Enter, TypeOK, database
<1>3. CASE Commit(p)
  <2> DEFINE s == req[p].ticket.seat
  <2>1. req[p] \in Requests /\ s \in Seats /\ req[p].ticket.tok \in Tokens
    BY <1>3 DEF Commit, CommitSave, CommitLeave, Committed, TypeOK, Requests, Tickets
  <2>2. seat[s] \in SeatRows
    BY <2>1 DEF TypeOK
  <2>3. Vacated(s) \in SeatRows
    BY <2>2 DEF Vacated, SeatRows, Statuses
  <2>4. CASE req[p].op = "save" /\ req[p].member # NoMember
    <3>1. TakenSeat(req[p].member, seat[s].rule) \in SeatRows
      BY <2>1, <2>2, <2>4 DEF TakenSeat, SeatRows, Statuses, Requests
    <3> QED BY <1>3, <2>1, <2>4, <3>1 DEF Commit, CommitSave, CommitLeave, Committed,
                                          TypeOK, runtime
  <2>5. CASE req[p].op = "save" /\ req[p].member = NoMember
    <3>1. TakenSeat(req[p].member, seat[s].rule) \in SeatRows
      BY <2>1, <2>2, <2>5 DEF TakenSeat, SeatRows, Statuses
    <3> QED BY <1>3, <2>1, <2>5, <3>1 DEF Commit, CommitSave, CommitLeave, Committed,
                                          TypeOK, runtime
  <2>6. CASE req[p].op # "save"
    BY <1>3, <2>1, <2>3, <2>6 DEF Commit, CommitSave, CommitLeave, Committed, TypeOK,
                                  runtime
  <2> QED BY <2>4, <2>5, <2>6
<1>4. CASE Reject(p) \/ CommitFails(p)
  BY <1>4 DEF Reject, CommitFails, GiveUp, TypeOK, database, runtime
<1>5. CASE ReleaseAfterCommit(p)
  BY <1>5 DEF ReleaseAfterCommit, TypeOK, database
<1> QED BY <1>1, <1>2, <1>3, <1>4, <1>5 DEF MutationStep, Finish

\* And every administrative transaction.
LEMMA AdminStepType == TypeOK /\ AdminStep => TypeOK'
<1> SUFFICES ASSUME TypeOK, AdminStep PROVE TypeOK'
  OBVIOUS
<1>0. reserved \subseteq Seats
  BY DEF TypeOK
<1>1. ASSUME NEW s \in Seats, ReserveForBoss(s) \/ ClearRole(s) PROVE TypeOK'
  BY <1>0, <1>1, SetSlotType, SeatRowTypes DEF ReserveForBoss, ClearRole
<1>2. ASSUME NEW s \in Seats, NEW r \in Rules, FixRule(s, r) PROVE TypeOK'
  BY <1>0, <1>2, SetSlotType, SeatRowTypes DEF FixRule
<1>3. ASSUME NEW s \in Seats, NEW m \in Members, NEW a \in Admins, AssignMember(s, m, a)
      PROVE  TypeOK'
  BY <1>0, <1>3, SetSlotType, SeatRowTypes DEF AssignMember
<1>4. ASSUME NEW t \in Teams, NEW tn \in BOOLEAN, NEW uq \in BOOLEAN, PatchTeam(t, tn, uq)
      PROVE  TypeOK'
  BY <1>4 DEF PatchTeam, TypeOK, runtime, requests
<1>5. ASSUME NEW t \in Teams, CreateTeam(t) PROVE TypeOK'
  BY <1>5, WipeType DEF CreateTeam, TypeOK, runtime, requests
<1>6. ASSUME NEW t \in Teams, NEW f \in Teams \cup {NoTeam}, DeleteTeam(t, f) PROVE TypeOK'
  BY <1>6, WipeType DEF DeleteTeam, TypeOK, runtime
<1>7. CASE ClearTeamLocks
  BY <1>7 DEF ClearTeamLocks, TypeOK, database
<1> QED BY <1>1, <1>2, <1>3, <1>4, <1>5, <1>6, <1>7 DEF AdminStep

LEMMA InitType == Init => TypeOK
  BY SeatRowTypes DEF Init, TypeOK, Tokens, Ages, NotLocked, AgeLimit

LEMMA StepType == TypeOK /\ [Next]_vars => TypeOK'
<1> SUFFICES ASSUME TypeOK, [Next]_vars PROVE TypeOK'
  OBVIOUS
<1>1. CASE Restart
  BY <1>1 DEF Restart, TypeOK, Ages, NotLocked, AgeLimit, database
<1>2. CASE UNCHANGED vars
  BY <1>2 DEF vars, database, runtime, requests, TypeOK
<1> QED BY <1>1, <1>2, LockStepType, MutationStepType, AdminStepType DEF Next

\* Every table of the board holds only well-formed rows.
THEOREM TypeCorrect == Spec => []TypeOK
  BY InitType, StepType, PTL DEF Spec

-----------------------------------------------------------------------------
(* One mutation per ticket.                                                 *)
(*                                                                          *)
(* TicketSpentOnce is not inductive: Enter must know that a token that      *)
(* validates is not spent.  It is not, because a spent token stays locked   *)
(* only until its mutation, which alone holds mutex_, frees the lock; and   *)
(* it frees it on the right seat because a token belongs to one seat.       *)

\* mutex_ has one holder.
Exclusive ==
    /\ \A p, q \in Procs :
          pc[p] \in {"txn", "release"} /\ pc[q] \in {"txn", "release"} => p = q
    /\ clearing # NoTeam => \A p \in Procs : pc[p] \notin {"txn", "release"}

\* Tokens are dealt out in order; a lock on a seat has its ticket out there.
TicketsDealt ==
    /\ \A k \in issued : k.tok < nextToken
    /\ \A j, k \in issued : j.tok = k.tok => j = k
    /\ \A n \in spent : n < nextToken
    /\ \A s \in Seats : locks[s] # NoLock =>
          [tok |-> locks[s].tok, seat |-> s, qq |-> locks[s].qq] \in issued
    /\ \A p \in Procs : pc[p] # "idle" =>
          req[p].ticket \in issued /\ WellFormed(req[p]) /\ Authorised(req[p])

\* A spent token is still on a lock only while its mutation is about to free it.
SpentUnlocked ==
    \A s \in Seats : locks[s] # NoLock /\ locks[s].tok \in spent =>
        \E p \in Procs : pc[p] = "release" /\ req[p].ticket.tok = locks[s].tok

TicketInv == TypeOK /\ Exclusive /\ TicketsDealt /\ SpentUnlocked /\ TicketSpentOnce

\* A step that only removes locks, or moves their age, keeps the invariant.
LEMMA FewerLocks ==
    ASSUME TicketInv,
           \A s \in Seats : locks'[s] # NoLock =>
              locks[s] # NoLock /\ locks'[s].tok = locks[s].tok /\ locks'[s].qq = locks[s].qq,
           UNCHANGED <<nextToken, issued, spent, pc, req, clearing>>
    PROVE  (Exclusive /\ TicketsDealt /\ SpentUnlocked /\ TicketSpentOnce)'
<1>1. Exclusive' /\ TicketSpentOnce'
  BY DEF TicketInv, Exclusive, TicketSpentOnce
<1>2. TicketsDealt'
  BY DEF TicketInv, TicketsDealt, WellFormed, Authorised
<1>3. SpentUnlocked'
  BY DEF TicketInv, SpentUnlocked
<1> QED BY <1>1, <1>2, <1>3

LEMMA UnexpiredFewer ==
    ASSUME NEW s \in Seats, Unexpired[s] # NoLock
    PROVE  locks[s] # NoLock /\ Unexpired[s] = locks[s]
  BY DEF Unexpired

LEMMA LockStepTicket == TicketInv /\ LockStep => TicketInv'
<1> SUFFICES ASSUME TicketInv, LockStep PROVE TicketInv'
  OBVIOUS
<1>0. TypeOK /\ TypeOK'
  BY LockStepType DEF TicketInv
<1>1. CASE ExpireLocks
  BY <1>0, <1>1, FewerLocks, UnexpiredFewer DEF ExpireLocks, requests, TicketInv
<1>2. CASE Tick
  <2>1. ASSUME NEW s \in Seats, locks'[s] # NoLock
        PROVE  /\ locks[s] # NoLock
               /\ locks'[s].tok = locks[s].tok /\ locks'[s].qq = locks[s].qq
    BY <1>0, <1>2, <2>1 DEF Tick, TypeOK, Locks
  <2> QED BY <1>0, <1>2, <2>1, FewerLocks DEF Tick, requests, TicketInv
<1>3. ASSUME NEW s \in Seats, NEW q \in Users, AcquireSlotLock(s, q) PROVE TicketInv'
  <2> DEFINE k == [tok |-> nextToken, seat |-> s, qq |-> q]
  <2>1. /\ issued' = issued \cup {k} /\ nextToken' = nextToken + 1
        /\ UNCHANGED <<spent, pc, req, clearing>>
    BY <1>3 DEF AcquireSlotLock, requests
  <2>2. locks'[s] = [tok |-> nextToken, qq |-> q, age |-> 0]
    BY <1>0, <1>3, UnexpiredType DEF AcquireSlotLock
  <2>3. ASSUME NEW x \in Seats, x # s, locks'[x] # NoLock
        PROVE  locks[x] # NoLock /\ locks'[x] = locks[x]
    BY <1>0, <1>3, <2>3, UnexpiredType, UnexpiredFewer DEF AcquireSlotLock
  <2>4. nextToken \in Nat /\ (\A j \in issued : j.tok \in Nat) /\ spent \subseteq Nat
    BY <1>0 DEF TypeOK, Tokens, Tickets
  <2>5. TicketsDealt'
    <3>1. \A j \in issued' : j.tok < nextToken'
      BY <2>1, <2>4 DEF TicketInv, TicketsDealt
    <3>2. \A i, j \in issued' : i.tok = j.tok => i = j
      BY <2>1, <2>4 DEF TicketInv, TicketsDealt
    <3>3. \A n \in spent' : n < nextToken'
      BY <2>1, <2>4 DEF TicketInv, TicketsDealt
    <3>4. ASSUME NEW x \in Seats, locks'[x] # NoLock
          PROVE  [tok |-> locks'[x].tok, seat |-> x, qq |-> locks'[x].qq] \in issued'
      BY <2>1, <2>2, <2>3, <3>4 DEF TicketInv, TicketsDealt
    <3>5. \A p \in Procs : pc'[p] # "idle" =>
             req'[p].ticket \in issued' /\ WellFormed(req[p])' /\ Authorised(req[p])'
      BY <2>1 DEF TicketInv, TicketsDealt, WellFormed, Authorised
    <3> QED BY <3>1, <3>2, <3>3, <3>4, <3>5 DEF TicketsDealt
  <2>6. nextToken \notin spent
    BY <2>4 DEF TicketInv, TicketsDealt
  <2>7. SpentUnlocked'
    BY <2>1, <2>2, <2>3, <2>6 DEF TicketInv, SpentUnlocked
  <2>8. Exclusive' /\ TicketSpentOnce'
    BY <2>1 DEF TicketInv, Exclusive, TicketSpentOnce
  <2> QED BY <1>0, <2>5, <2>7, <2>8 DEF TicketInv
<1>4. ASSUME NEW k \in issued, NEW b \in BOOLEAN, ReleaseSlotLock(k, b) PROVE TicketInv'
  <2>1. \A s \in Seats : locks'[s] # NoLock => locks[s] # NoLock /\ locks'[s] = locks[s]
    BY <1>0, <1>4 DEF ReleaseSlotLock, TypeOK
  <2> QED BY <1>0, <1>4, <2>1, FewerLocks DEF ReleaseSlotLock, requests, TicketInv
<1>5. ASSUME NEW t \in Teams, SetTeamLock(t) \/ RemoveTeamLock(t) PROVE TicketInv'
  <2>1. UNCHANGED locks
    BY <1>5 DEF SetTeamLock, RemoveTeamLock
  <2> QED BY <1>0, <1>5, <2>1, FewerLocks DEF SetTeamLock, RemoveTeamLock, requests,
                                              TicketInv
<1> QED BY <1>1, <1>2, <1>3, <1>4, <1>5 DEF LockStep

LEMMA MutationStepTicket ==
    ASSUME TicketInv, NEW p \in Procs, MutationStep(p)
    PROVE  TicketInv'
<1>0. TypeOK /\ TypeOK'
  BY MutationStepType DEF TicketInv
<1>1. ASSUME NEW k \in issued, NEW r \in RequestsOf(k), Preflight(p, r) PROVE TicketInv'
  <2>1. /\ UNCHANGED <<nextToken, issued, spent, clearing>>
        /\ pc' = [pc EXCEPT ![p] = "waiting"] /\ req' = [req EXCEPT ![p] = r]
        /\ pc[p] = "idle" /\ r.ticket \in issued /\ WellFormed(r) /\ Authorised(r)
        /\ locks' = Unexpired
    BY <1>1 DEF Preflight
  <2>2. Exclusive'
    BY <1>0, <2>1 DEF TicketInv, Exclusive, TypeOK
  <2>3. TicketsDealt'
    BY <1>0, <2>1, UnexpiredFewer DEF TicketInv, TicketsDealt, TypeOK, WellFormed,
                                      Authorised
  <2>4. SpentUnlocked'
    <3> SUFFICES ASSUME NEW s \in Seats, locks'[s] # NoLock, locks'[s].tok \in spent
                 PROVE  \E q \in Procs : pc'[q] = "release" /\ req'[q].ticket.tok = locks'[s].tok
      BY <2>1 DEF SpentUnlocked
    <3>1. locks[s] # NoLock /\ locks'[s] = locks[s]
      BY <2>1, UnexpiredFewer
    <3>2. PICK q \in Procs : pc[q] = "release" /\ req[q].ticket.tok = locks[s].tok
      BY <3>1 DEF TicketInv, SpentUnlocked
    <3>3. q # p
      BY <2>1, <3>2
    <3> QED BY <1>0, <2>1, <3>1, <3>2, <3>3 DEF TypeOK
  <2>5. TicketSpentOnce'
    BY <1>0, <2>1 DEF TicketInv, TicketSpentOnce, TypeOK
  <2> QED BY <1>0, <2>2, <2>3, <2>4, <2>5 DEF TicketInv
<1>2. CASE Enter(p)
  <2>1. /\ UNCHANGED <<nextToken, issued, spent, clearing>>
        /\ pc[p] = "waiting" /\ DbFree /\ locks' = Unexpired
        /\ \/ /\ Valid(req[p].ticket)
              /\ pc' = [pc EXCEPT ![p] = "txn"] /\ UNCHANGED req
           \/ /\ pc' = [pc EXCEPT ![p] = "idle"] /\ req' = [req EXCEPT ![p] = NoReq]
    BY <1>2 DEF Enter
  <2>2. Exclusive'
    BY <1>0, <2>1 DEF DbFree, Exclusive, TypeOK
  <2>3. TicketsDealt'
    BY <1>0, <2>1, UnexpiredFewer DEF TicketInv, TicketsDealt, TypeOK, WellFormed,
                                      Authorised
  <2>4. \A s \in Seats : locks[s] # NoLock => locks[s].tok \notin spent
    BY <2>1 DEF TicketInv, SpentUnlocked, DbFree
  <2>5. SpentUnlocked'
    BY <2>1, <2>4, UnexpiredFewer DEF SpentUnlocked
  <2>6. Valid(req[p].ticket) => req[p].ticket.tok \notin spent
    <3>1. req[p].ticket.seat \in Seats
      BY <1>0, <2>1 DEF TypeOK, Requests, Tickets
    <3> QED BY <2>4, <3>1, UnexpiredFewer DEF Valid
  <2>7. TicketSpentOnce'
    BY <1>0, <2>1, <2>6 DEF TicketInv, TicketSpentOnce, TypeOK
  <2> QED BY <1>0, <2>2, <2>3, <2>5, <2>7 DEF TicketInv
<1>3. CASE Commit(p)
  <2>1. /\ UNCHANGED <<locks, nextToken, issued, clearing, req>>
        /\ pc[p] = "txn" /\ pc' = [pc EXCEPT ![p] = "release"]
        /\ spent' = spent \cup {req[p].ticket.tok}
    BY <1>3 DEF Commit, CommitSave, CommitLeave, Committed, runtime
  <2>2. Exclusive'
    BY <1>0, <2>1 DEF TicketInv, Exclusive, TypeOK
  <2>3. TicketsDealt'
    BY <1>0, <2>1 DEF TicketInv, TicketsDealt, TypeOK, WellFormed, Authorised
  <2>4. SpentUnlocked'
    BY <1>0, <2>1 DEF TicketInv, SpentUnlocked, TypeOK
  <2>5. TicketSpentOnce'
    BY <1>0, <2>1 DEF TicketInv, TicketSpentOnce, Exclusive, TypeOK
  <2> QED BY <1>0, <2>2, <2>3, <2>4, <2>5 DEF TicketInv
<1>4. CASE Reject(p) \/ CommitFails(p)
  <2>1. /\ UNCHANGED <<locks, nextToken, issued, spent, clearing>>
        /\ pc[p] = "txn"
        /\ pc' = [pc EXCEPT ![p] = "idle"] /\ req' = [req EXCEPT ![p] = NoReq]
    BY <1>4 DEF Reject, CommitFails, GiveUp, runtime
  <2>2. Exclusive'
    BY <1>0, <2>1 DEF TicketInv, Exclusive, TypeOK
  <2>3. TicketsDealt'
    BY <1>0, <2>1 DEF TicketInv, TicketsDealt, TypeOK, WellFormed, Authorised
  <2>4. SpentUnlocked'
    BY <1>0, <2>1 DEF TicketInv, SpentUnlocked, TypeOK
  <2>5. TicketSpentOnce'
    BY <1>0, <2>1 DEF TicketInv, TicketSpentOnce, TypeOK
  <2> QED BY <1>0, <2>2, <2>3, <2>4, <2>5 DEF TicketInv
<1>5. CASE ReleaseAfterCommit(p)
  <2> DEFINE k == req[p].ticket
             l == locks[k.seat]
  <2>1. /\ UNCHANGED <<nextToken, issued, spent, clearing>>
        /\ pc[p] = "release"
        /\ pc' = [pc EXCEPT ![p] = "idle"] /\ req' = [req EXCEPT ![p] = NoReq]
        /\ locks' = IF l # NoLock /\ l.qq = k.qq /\ l.tok = k.tok
                    THEN [locks EXCEPT ![k.seat] = NoLock] ELSE locks
    BY <1>5 DEF ReleaseAfterCommit
  <2>2. k \in issued /\ k.seat \in Seats
    BY <1>0, <2>1 DEF TicketInv, TicketsDealt, TypeOK, Tickets
  <2>3. \A s \in Seats : locks'[s] # NoLock => locks[s] # NoLock /\ locks'[s] = locks[s]
    BY <1>0, <2>1, <2>2 DEF TypeOK
  <2>4. ASSUME NEW s \in Seats, locks'[s] # NoLock PROVE locks'[s].tok \notin spent
    <3> SUFFICES ASSUME locks[s].tok \in spent PROVE FALSE
      BY <2>3, <2>4
    <3>1. locks[s] # NoLock /\ locks'[s] = locks[s]
      BY <2>3, <2>4
    <3>2. k.tok = locks[s].tok
      BY <2>1, <3>1 DEF TicketInv, SpentUnlocked, Exclusive
    <3>3. k = [tok |-> locks[s].tok, seat |-> s, qq |-> locks[s].qq]
      BY <2>2, <3>1, <3>2 DEF TicketInv, TicketsDealt
    <3>4. locks'[s] = NoLock
      BY <1>0, <2>1, <3>1, <3>3 DEF TypeOK
    <3> QED BY <3>4, <2>4
  <2>5. Exclusive'
    BY <1>0, <2>1 DEF TicketInv, Exclusive, TypeOK
  <2>6. TicketsDealt'
    BY <1>0, <2>1, <2>3 DEF TicketInv, TicketsDealt, TypeOK, WellFormed, Authorised
  <2>7. SpentUnlocked'
    BY <2>1, <2>4 DEF SpentUnlocked
  <2>8. TicketSpentOnce'
    BY <1>0, <2>1 DEF TicketInv, TicketSpentOnce, TypeOK
  <2> QED BY <1>0, <2>5, <2>6, <2>7, <2>8 DEF TicketInv
<1> QED BY <1>1, <1>2, <1>3, <1>4, <1>5 DEF MutationStep, Finish

LEMMA AdminStepTicket == TicketInv /\ AdminStep => TicketInv'
<1> SUFFICES ASSUME TicketInv, AdminStep PROVE TicketInv'
  OBVIOUS
<1>0. TypeOK /\ TypeOK'
  BY AdminStepType DEF TicketInv
<1>1. CASE UNCHANGED <<runtime, requests>>
  BY <1>0, <1>1, FewerLocks DEF runtime, requests, TicketInv
<1>2. ASSUME NEW t \in Teams, NEW f \in Teams \cup {NoTeam}, DeleteTeam(t, f) PROVE TicketInv'
  <2>1. UNCHANGED <<locks, nextToken, issued, spent, pc, req>> /\ DbFree
    BY <1>2 DEF DeleteTeam, runtime
  <2>2. Exclusive'
    BY <2>1 DEF DbFree, Exclusive
  <2>3. TicketsDealt' /\ SpentUnlocked' /\ TicketSpentOnce'
    BY <2>1 DEF TicketInv, TicketsDealt, SpentUnlocked, TicketSpentOnce, WellFormed,
                Authorised
  <2> QED BY <1>0, <2>2, <2>3 DEF TicketInv
<1>3. CASE ClearTeamLocks
  <2>1. UNCHANGED <<nextToken, issued, spent, pc, req>> /\ clearing' = NoTeam
    BY <1>3 DEF ClearTeamLocks
  <2>2. \A s \in Seats : locks'[s] # NoLock => locks[s] # NoLock /\ locks'[s] = locks[s]
    BY <1>3 DEF ClearTeamLocks
  <2>3. Exclusive'
    BY <2>1 DEF TicketInv, Exclusive
  <2>4. TicketsDealt' /\ SpentUnlocked' /\ TicketSpentOnce'
    BY <2>1, <2>2 DEF TicketInv, TicketsDealt, SpentUnlocked, TicketSpentOnce,
                      WellFormed, Authorised
  <2> QED BY <1>0, <2>3, <2>4 DEF TicketInv
<1>4. (\E s \in Seats : ReserveForBoss(s) \/ ClearRole(s)) => UNCHANGED <<runtime, requests>>
  BY DEF ReserveForBoss, ClearRole, SetSlot
<1>5. (\E s \in Seats, r \in Rules : FixRule(s, r)) => UNCHANGED <<runtime, requests>>
  BY DEF FixRule, SetSlot
<1>6. (\E s \in Seats, m \in Members, a \in Admins : AssignMember(s, m, a))
        => UNCHANGED <<runtime, requests>>
  BY DEF AssignMember, SetSlot
<1>7. (\E t \in Teams, tn, uq \in BOOLEAN : PatchTeam(t, tn, uq)) => UNCHANGED <<runtime, requests>>
  BY DEF PatchTeam
<1>8. (\E t \in Teams : CreateTeam(t)) => UNCHANGED <<runtime, requests>>
  BY DEF CreateTeam
<1> QED BY <1>1, <1>2, <1>3, <1>4, <1>5, <1>6, <1>7, <1>8 DEF AdminStep

LEMMA StepTicket == TicketInv /\ [Next]_vars => TicketInv'
<1> SUFFICES ASSUME TicketInv, [Next]_vars PROVE TicketInv'
  OBVIOUS
<1>0. TypeOK /\ TypeOK'
  BY StepType DEF TicketInv
<1>1. CASE Restart
  BY <1>0, <1>1 DEF Restart, TicketInv, Exclusive, TicketsDealt, SpentUnlocked,
                    TicketSpentOnce
<1>2. CASE UNCHANGED vars
  BY <1>0, <1>2, FewerLocks DEF vars, runtime, requests, TicketInv
<1> QED BY <1>1, <1>2, LockStepTicket, MutationStepTicket, AdminStepTicket DEF Next

LEMMA InitTicket == Init => TicketInv
  BY InitType DEF Init, TicketInv, Exclusive, TicketsDealt, SpentUnlocked,
                  TicketSpentOnce

\* A ticket carries at most one committed mutation, however often it is sent.
THEOREM OneMutationPerTicket == Spec => []TicketSpentOnce
<1>1. Spec => []TicketInv
  BY InitTicket, StepTicket, PTL DEF Spec
<1>2. TicketInv => TicketSpentOnce
  BY DEF TicketInv
<1> QED BY <1>1, <1>2, PTL

-----------------------------------------------------------------------------
(* The rows of the board make sense.                                        *)

SeatOK(x, held) ==
    /\ (x.status = "occupied") <=> (x.member # NoMember)
    /\ x.status = "reserved" => held
    /\ held => x.status \in {"reserved", "occupied"}
    /\ x.status = "fixed" => x.rule # NoRule
    /\ x.rule # NoRule => ~held /\ x.status \in {"fixed", "occupied"}
    /\ x.member # NoMember /\ x.rule # NoRule => x.member.art \in x.rule

SeatInv == TypeOK /\ \A s \in Seats : SeatOK(seat[s], s \in reserved)

LEMMA SeatInvMeans == SeatInv => SeatConsistent /\ SeatMatchesRule
  BY DEF SeatInv, SeatOK, SeatConsistent, SeatMatchesRule

\* Normalising a row in good order changes nothing.
LEMMA NormalOfGood ==
    ASSUME NEW x \in SeatRows, NEW held \in BOOLEAN, SeatOK(x, held)
    PROVE  NormalSeat(x, held) = x
<1>1. x = [status |-> x.status, member |-> x.member, rule |-> x.rule]
  BY DEF SeatRows
<1>2. CASE x.status = "occupied"
  BY <1>1, <1>2 DEF SeatOK, NormalSeat, TakenSeat
<1>3. CASE x.status = "fixed"
  BY <1>1, <1>3 DEF SeatOK, NormalSeat, FixedSeat
<1>4. CASE x.status = "reserved"
  BY <1>1, <1>4 DEF SeatOK, NormalSeat, ReservedSeat
<1>5. CASE x.status = "empty"
  BY <1>1, <1>5 DEF SeatOK, NormalSeat, EmptySeat
<1> QED BY <1>2, <1>3, <1>4, <1>5 DEF SeatRows, Statuses

\* setSlotRole writes its row on its slot and leaves the other slots alone.
LEMMA SetSlotEffect ==
    ASSUME SeatInv, NEW s \in Seats, NEW row \in SeatRows, NEW res \in SUBSET Seats,
           SeatOK(row, s \in res), \A x \in Seats \ {s} : x \in res <=> x \in reserved,
           SetSlot(s, row, res)
    PROVE  seat' = [seat EXCEPT ![s] = row] /\ reserved' = res
<1> DEFINE t == TeamOf[s]
           rows == [seat EXCEPT ![s] = row]
           held == res \cup {x \in SeatsOf(t) : rows[x].status = "reserved"}
<1>1. seat \in [Seats -> SeatRows] /\ rows \in [Seats -> SeatRows]
  BY DEF SeatInv, TypeOK
<1>2. \A x \in Seats : SeatOK(rows[x], x \in res)
  BY <1>1 DEF SeatInv
<1>3. held = res
  BY <1>2 DEF SeatOK, SeatsOf
<1>4. /\ reserved' = held
      /\ seat' = [x \in Seats |-> IF TeamOf[x] = t THEN NormalSeat(rows[x], x \in held) ELSE seat[x]]
  BY DEF SetSlot, StoreTeam
<1>5. ASSUME NEW x \in Seats PROVE NormalSeat(rows[x], x \in held) = rows[x]
  <2>1. rows[x] \in SeatRows /\ SeatOK(rows[x], x \in held) /\ (x \in held) \in BOOLEAN
    BY <1>1, <1>2, <1>3
  <2> HIDE DEF rows, held
  <2> QED BY <2>1, NormalOfGood
<1>6. ASSUME NEW x \in Seats PROVE seat'[x] = rows[x]
  BY <1>1, <1>4, <1>5
<1> QED BY <1>1, <1>3, <1>4, <1>6

\* What an administrator's change of one slot amounts to.
RoleEffect(s, row, res) ==
    /\ SeatOK(row, s \in res)
    /\ \A x \in Seats \ {s} : x \in res <=> x \in reserved
    /\ seat' = [seat EXCEPT ![s] = row] /\ reserved' = res

LEMMA SetSlotRole ==
    ASSUME SeatInv, NEW s \in Seats, NEW row \in SeatRows, NEW res \in SUBSET Seats,
           SeatOK(row, s \in res), \A x \in Seats \ {s} : x \in res <=> x \in reserved,
           SetSlot(s, row, res)
    PROVE  RoleEffect(s, row, res)
  BY SetSlotEffect DEF RoleEffect

LEMMA RoleChange ==
    ASSUME SeatInv, NEW s \in Seats,
           \/ ReserveForBoss(s) \/ ClearRole(s)
           \/ \E r \in Rules : FixRule(s, r)
           \/ \E m \in Members, a \in Admins : AssignMember(s, m, a)
    PROVE  \E row \in SeatRows, res \in SUBSET Seats :
              /\ RoleEffect(s, row, res)
              /\ \/ row.member = NoMember
                 \/ \E m \in Members, a \in Admins : row = TakenSeat(m, NoRule) /\ AssignMember(s, m, a)
<1> DEFINE more == reserved \cup {s}
           less == reserved \ {s}
<1>0. /\ more \in SUBSET Seats /\ s \in more /\ \A x \in Seats \ {s} : x \in more <=> x \in reserved
      /\ less \in SUBSET Seats /\ s \notin less /\ \A x \in Seats \ {s} : x \in less <=> x \in reserved
  BY DEF SeatInv, TypeOK
<1>1. CASE ReserveForBoss(s)
  <2>1. SetSlot(s, ReservedSeat, more)
    BY <1>1 DEF ReserveForBoss
  <2>2. ReservedSeat \in SeatRows /\ ReservedSeat.member = NoMember
    BY SeatRowTypes DEF ReservedSeat
  <2>3. SeatOK(ReservedSeat, s \in more)
    BY <1>0, NoValueAssumption DEF SeatOK, ReservedSeat
  <2> HIDE DEF more
  <2>4. RoleEffect(s, ReservedSeat, more)
    BY <1>0, <2>1, <2>2, <2>3, SetSlotRole
  <2> QED BY <1>0, <2>2, <2>4
<1>2. CASE ClearRole(s)
  <2>1. SetSlot(s, EmptySeat, less)
    BY <1>2 DEF ClearRole
  <2>2. EmptySeat \in SeatRows /\ EmptySeat.member = NoMember
    BY SeatRowTypes DEF EmptySeat
  <2>3. SeatOK(EmptySeat, s \in less)
    BY <1>0, NoValueAssumption DEF SeatOK, EmptySeat
  <2> HIDE DEF less
  <2>4. RoleEffect(s, EmptySeat, less)
    BY <1>0, <2>1, <2>2, <2>3, SetSlotRole
  <2> QED BY <1>0, <2>2, <2>4
<1>3. CASE \E r \in Rules : FixRule(s, r)
  <2>1. PICK r \in Rules : SetSlot(s, FixedSeat(r), less)
    BY <1>3 DEF FixRule
  <2>2. FixedSeat(r) \in SeatRows /\ FixedSeat(r).member = NoMember
    BY SeatRowTypes DEF FixedSeat
  <2>3. SeatOK(FixedSeat(r), s \in less)
    BY <1>0, NoValueAssumption DEF SeatOK, FixedSeat
  <2> HIDE DEF less
  <2>4. RoleEffect(s, FixedSeat(r), less)
    BY <1>0, <2>1, <2>2, <2>3, SetSlotRole
  <2> QED BY <1>0, <2>2, <2>4
<1>4. CASE \E m \in Members, a \in Admins : AssignMember(s, m, a)
  <2>1. PICK m \in Members, a \in Admins : AssignMember(s, m, a)
    BY <1>4
  <2>2. SetSlot(s, TakenSeat(m, NoRule), less)
    BY <2>1 DEF AssignMember
  <2>3. TakenSeat(m, NoRule) \in SeatRows
    BY SeatRowTypes
  <2>4. SeatOK(TakenSeat(m, NoRule), s \in less)
    BY <1>0, NoValueAssumption DEF SeatOK, TakenSeat
  <2> HIDE DEF less
  <2>5. RoleEffect(s, TakenSeat(m, NoRule), less)
    BY <1>0, <2>2, <2>3, <2>4, SetSlotRole
  <2> QED BY <1>0, <2>1, <2>3, <2>5
<1> QED BY <1>1, <1>2, <1>3, <1>4

\* A committed mutation writes a row in good order on the ticket's seat.
LEMMA CommitRow ==
    ASSUME SeatInv, TicketInv, NEW p \in Procs, Commit(p)
    PROVE  \E row \in SeatRows :
              /\ SeatOK(row, req[p].ticket.seat \in reserved)
              /\ seat' = [seat EXCEPT ![req[p].ticket.seat] = row]
              /\ row.member = IF req[p].op = "save" THEN req[p].member ELSE NoMember
<1> DEFINE r == req[p]
           s == r.ticket.seat
<1>1. /\ r \in Requests /\ s \in Seats /\ WellFormed(r) /\ Accepted(r)
      /\ seat' = [seat EXCEPT ![s] =
                    IF r.op = "save" THEN TakenSeat(r.member, seat[s].rule) ELSE Vacated(s)]
  BY DEF Commit, CommitSave, CommitLeave, Committed, TicketInv, TicketsDealt, TypeOK,
         Requests, Tickets
<1>2. seat[s] \in SeatRows /\ SeatOK(seat[s], s \in reserved)
  BY <1>1 DEF SeatInv, TypeOK
<1>3. CASE r.op = "save"
  <2>1. r.member \in Members
    BY <1>1, <1>3 DEF WellFormed, Requests
  <2>2. seat[s].rule # NoRule => r.member.art \in seat[s].rule
    BY <1>1, <1>3 DEF Accepted, MayTake
  <2>3. seat[s].rule \in Rules \cup {NoRule}
    BY <1>2 DEF SeatRows
  <2>4. TakenSeat(r.member, seat[s].rule) \in SeatRows
    BY <2>1, <2>3, SeatRowTypes
  <2>5. SeatOK(TakenSeat(r.member, seat[s].rule), s \in reserved)
    BY <1>2, <2>1, <2>2, NoValueAssumption DEF SeatOK, TakenSeat
  <2> QED BY <1>1, <1>3, <2>4, <2>5 DEF TakenSeat
<1>4. CASE r.op # "save"
  <2>1. Vacated(s) \in SeatRows
    BY <1>2 DEF Vacated, SeatRows, Statuses
  <2>2. SeatOK(Vacated(s), s \in reserved)
    BY <1>2 DEF SeatOK, Vacated
  <2> QED BY <1>1, <1>4, <2>1, <2>2 DEF Vacated
<1> QED BY <1>3, <1>4

\* The steps that touch neither slots nor reservations.
LEMMA RestKeepsSeats ==
    ASSUME \/ LockStep
           \/ \E p \in Procs : /\ MutationStep(p) /\ ~Commit(p)
           \/ \E t \in Teams, tn, uq \in BOOLEAN : PatchTeam(t, tn, uq)
           \/ ClearTeamLocks \/ Restart \/ UNCHANGED vars
    PROVE  UNCHANGED <<seat, reserved>>
<1>1. LockStep => UNCHANGED <<seat, reserved>>
  BY DEF LockStep, ExpireLocks, Tick, AcquireSlotLock, ReleaseSlotLock, SetTeamLock,
         RemoveTeamLock, database
<1>2. ASSUME NEW p \in Procs, MutationStep(p), ~Commit(p) PROVE UNCHANGED <<seat, reserved>>
  BY <1>2 DEF MutationStep, Finish, Preflight, Enter, Reject, CommitFails, GiveUp,
              ReleaseAfterCommit, database
<1> QED BY <1>1, <1>2 DEF PatchTeam, ClearTeamLocks, Restart, vars, database

\* Deleting or recreating a team empties its slots and no other.
LEMMA WipeSeats ==
    ASSUME SeatInv, NEW t \in Teams, Wipe(t)
    PROVE  \A s \in Seats : SeatOK(seat'[s], s \in reserved')
<1> SUFFICES ASSUME NEW s \in Seats PROVE SeatOK(seat'[s], s \in reserved')
  OBVIOUS
<1>1. CASE TeamOf[s] = t
  BY <1>1, NoValueAssumption DEF Wipe, SeatsOf, SeatOK, EmptySeat
<1>2. CASE TeamOf[s] # t
  <2>1. seat'[s] = seat[s] /\ (s \in reserved' <=> s \in reserved)
    BY <1>2 DEF Wipe, SeatsOf
  <2> QED BY <2>1 DEF SeatInv, SeatOK
<1> QED BY <1>1, <1>2

\* Administration leaves every row in good order.
LEMMA AdminKeepsSeats == ASSUME SeatInv, TypeOK', AdminStep PROVE SeatInv'
<1>0. TypeOK
  BY DEF SeatInv
<1>1. ASSUME UNCHANGED <<seat, reserved>> PROVE SeatInv'
  BY <1>0, <1>1 DEF SeatInv
<1>2. ASSUME NEW s \in Seats,
             \/ ReserveForBoss(s) \/ ClearRole(s)
             \/ \E r \in Rules : FixRule(s, r)
             \/ \E m \in Members, a \in Admins : AssignMember(s, m, a)
      PROVE  SeatInv'
  <2>1. PICK row \in SeatRows, res \in SUBSET Seats : RoleEffect(s, row, res)
    BY <1>2, RoleChange
  <2>2. /\ SeatOK(row, s \in res)
        /\ \A x \in Seats \ {s} : x \in res <=> x \in reserved
        /\ seat' = [seat EXCEPT ![s] = row] /\ reserved' = res
    BY <2>1 DEF RoleEffect
  <2>3. ASSUME NEW x \in Seats PROVE SeatOK(seat'[x], x \in reserved')
    <3>1. CASE x = s
      BY <1>0, <2>2, <3>1 DEF TypeOK
    <3>2. CASE x # s
      BY <1>0, <2>2, <3>2 DEF TypeOK, SeatInv
    <3> QED BY <3>1, <3>2
  <2> QED BY <1>0, <2>3 DEF SeatInv
<1>3. ASSUME NEW t \in Teams, CreateTeam(t) \/ (\E f \in Teams \cup {NoTeam} : DeleteTeam(t, f))
      PROVE  SeatInv'
  BY <1>0, <1>3, WipeSeats DEF SeatInv, CreateTeam, DeleteTeam
<1> QED
  BY <1>1, <1>2, <1>3, RestKeepsSeats DEF AdminStep

LEMMA StepSeat == SeatInv /\ TicketInv /\ [Next]_vars => SeatInv'
<1> SUFFICES ASSUME SeatInv, TicketInv, [Next]_vars PROVE SeatInv'
  OBVIOUS
<1>0. TypeOK /\ TypeOK'
  BY StepType DEF SeatInv
<1>1. ASSUME UNCHANGED <<seat, reserved>> PROVE SeatInv'
  BY <1>0, <1>1 DEF SeatInv
<1>2. ASSUME NEW p \in Procs, Commit(p) PROVE SeatInv'
  <2>1. PICK row \in SeatRows :
           /\ SeatOK(row, req[p].ticket.seat \in reserved)
           /\ seat' = [seat EXCEPT ![req[p].ticket.seat] = row]
    BY <1>2, CommitRow
  <2>2. reserved' = reserved
    BY <1>2 DEF Commit, CommitSave, CommitLeave, Committed
  <2> QED BY <1>0, <2>1, <2>2 DEF SeatInv, TypeOK
<1>3. CASE AdminStep
  BY <1>0, <1>3, AdminKeepsSeats
<1> QED
  BY <1>1, <1>2, <1>3, RestKeepsSeats DEF Next

LEMMA InitSeat == Init => SeatInv
  BY InitType DEF Init, SeatInv, SeatOK, EmptySeat

\* The columns of every slot row agree with one another and with the team's
\* reserved list, and whoever sits on a fixed slot plays what it admits.
THEOREM RowsConsistent == Spec => [](SeatConsistent /\ SeatMatchesRule)
<1>1. Spec => [](SeatInv /\ TicketInv)
  BY InitSeat, InitTicket, StepSeat, StepTicket, PTL DEF Spec
<1>2. SeatInv /\ TicketInv => SeatConsistent /\ SeatMatchesRule
  BY SeatInvMeans
<1> QED BY <1>1, <1>2, PTL

\* SeatMatchesRule: nobody sits on a fixed slot with an art it does not admit,
\* whatever setSlotRole and saveSlotMember did to the slot and in which order.
THEOREM SeatsMatchRules == Spec => []SeatMatchesRule
BY RowsConsistent, PTL

-----------------------------------------------------------------------------
(* A locked team hands out no slot locks.                                    *)

YoungInv == TypeOK /\ TeamLockYoungest

\* Locks that only disappear, under team locks that only disappear.
LEMMA FewerYoung ==
    ASSUME YoungInv, TypeOK',
           \A s \in Seats : locks'[s] # NoLock => locks'[s] = locks[s],
           \A t \in Teams : lockedFor'[t] # NotLocked => lockedFor'[t] = lockedFor[t]
    PROVE  YoungInv'
  BY TeamOfAssumption DEF YoungInv, TeamLockYoungest, TypeOK

\* A tick keeps the order of ages and neither makes nor ends a lock.
LEMMA OlderMonotone ==
    /\ \A a \in Ages : Older(a) \in Ages /\ Older(a) # NotLocked
    /\ Older(NotLocked) = NotLocked
    /\ \A a, b \in Ages : a >= b => Older(a) >= Older(b)
  BY TimeoutAssumption DEF Older, Ages, AgeLimit, NotLocked

LEMMA LockStepYoung == YoungInv /\ LockStep => YoungInv'
<1> SUFFICES ASSUME YoungInv, LockStep PROVE YoungInv'
  OBVIOUS
<1>0. TypeOK /\ TypeOK'
  BY LockStepType DEF YoungInv
<1>1. CASE ExpireLocks
  BY <1>0, <1>1, FewerYoung DEF ExpireLocks, Unexpired
<1>2. ASSUME NEW s \in Seats, NEW q \in Users, AcquireSlotLock(s, q) PROVE YoungInv'
  <2>1. /\ lockedFor[TeamOf[s]] = NotLocked /\ lockedFor' = lockedFor
        /\ \A x \in Seats \ {s} : locks'[x] # NoLock => locks'[x] = locks[x]
    BY <1>2 DEF AcquireSlotLock, Unexpired
  <2> QED BY <1>0, <2>1 DEF YoungInv, TeamLockYoungest
<1>3. ASSUME NEW k \in issued, NEW b \in BOOLEAN, ReleaseSlotLock(k, b) PROVE YoungInv'
  BY <1>0, <1>3, FewerYoung DEF ReleaseSlotLock, TypeOK
<1>4. ASSUME NEW t \in Teams, SetTeamLock(t) PROVE YoungInv'
  <2>1. /\ locks' = locks
        /\ \A u \in Teams : lockedFor'[u] = IF u = t THEN 0 ELSE lockedFor[u]
    BY <1>0, <1>4 DEF SetTeamLock, TypeOK
  <2>2. \A s \in Seats : locks[s] # NoLock => locks[s].age \in Ages
    BY <1>0 DEF TypeOK, Locks
  <2>3. \A a \in Ages : a >= 0
    BY TimeoutAssumption DEF Ages, AgeLimit
  <2> QED BY <1>0, <2>1, <2>2, <2>3, TeamOfAssumption DEF YoungInv, TeamLockYoungest
<1>5. ASSUME NEW t \in Teams, RemoveTeamLock(t) PROVE YoungInv'
  BY <1>0, <1>5, FewerYoung DEF RemoveTeamLock, TypeOK
<1>6. CASE Tick
  <2> SUFFICES ASSUME NEW s \in Seats, locks'[s] # NoLock, lockedFor'[TeamOf[s]] # NotLocked
               PROVE  locks'[s].age >= lockedFor'[TeamOf[s]]
    BY <1>0 DEF YoungInv, TeamLockYoungest
  <2>1. TeamOf[s] \in Teams
    BY TeamOfAssumption
  <2>2. /\ locks[s] # NoLock /\ locks[s] \in Locks
        /\ locks'[s] = [locks[s] EXCEPT !.age = Older(@)]
        /\ lockedFor'[TeamOf[s]] = Older(lockedFor[TeamOf[s]])
    BY <1>0, <1>6, <2>1 DEF Tick, TypeOK
  <2>3. locks[s].age \in Ages /\ locks'[s].age = Older(locks[s].age)
    BY <2>2 DEF Locks
  <2>4. lockedFor[TeamOf[s]] # NotLocked /\ lockedFor[TeamOf[s]] \in Ages
    BY <1>0, <2>1, <2>2, OlderMonotone DEF TypeOK
  <2>5. locks[s].age >= lockedFor[TeamOf[s]]
    BY <2>2, <2>4 DEF YoungInv, TeamLockYoungest
  <2> QED BY <2>2, <2>3, <2>4, <2>5, OlderMonotone
<1> QED BY <1>1, <1>2, <1>3, <1>4, <1>5, <1>6 DEF LockStep

LEMMA StepYoung == YoungInv /\ [Next]_vars => YoungInv'
<1> SUFFICES ASSUME YoungInv, [Next]_vars PROVE YoungInv'
  OBVIOUS
<1>0. TypeOK /\ TypeOK'
  BY StepType DEF YoungInv
<1>1. ASSUME NEW p \in Procs, MutationStep(p) PROVE YoungInv'
  <2>1. lockedFor' = lockedFor /\ \A s \in Seats : locks'[s] # NoLock => locks'[s] = locks[s]
    BY <1>0, <1>1 DEF MutationStep, Finish, Preflight, Enter, Commit, CommitSave,
                      CommitLeave, Committed, Reject, CommitFails, GiveUp,
                      ReleaseAfterCommit, runtime, Unexpired, TypeOK
  <2> QED BY <1>0, <2>1, FewerYoung
<1>2. CASE ClearTeamLocks
  BY <1>0, <1>2, FewerYoung DEF ClearTeamLocks, TypeOK
<1>3. CASE Restart
  BY <1>0, <1>3, FewerYoung DEF Restart
<1>4. CASE UNCHANGED runtime
  BY <1>0, <1>4, FewerYoung DEF runtime
<1>5. AdminStep => ClearTeamLocks \/ UNCHANGED runtime
  BY DEF AdminStep, ReserveForBoss, ClearRole, FixRule, AssignMember, SetSlot,
         PatchTeam,
         CreateTeam, DeleteTeam
<1>6. UNCHANGED vars => UNCHANGED runtime
  BY DEF vars, runtime
<1> QED BY <1>1, <1>2, <1>3, <1>4, <1>5, <1>6, LockStepYoung DEF Next

\* No slot lock is younger than the lock its team is under, for any timeout.
THEOREM LockedTeamRunsDry == Spec => []TeamLockYoungest
<1>1. Init => YoungInv
  BY InitType DEF Init, YoungInv, TeamLockYoungest
<1>2. YoungInv => TeamLockYoungest
  BY DEF YoungInv
<1> QED BY <1>1, <1>2, StepYoung, PTL DEF Spec

-----------------------------------------------------------------------------
(* Nothing is kept of a team that is not there.                             *)

\* The one seat that is written belongs to a team that is there.
LEMMA OneSeatKeepsOrphans ==
    ASSUME TypeOK, NoOrphans, NEW s \in Seats, TeamOf[s] \in teams, NEW row, NEW res,
           seat' = [seat EXCEPT ![s] = row], reserved' = res,
           \A x \in Seats \ {s} : x \in res <=> x \in reserved,
           UNCHANGED <<teams, onlyTn, uniqueQq>>
    PROVE  NoOrphans'
<1> SUFFICES ASSUME NEW t \in Teams \ teams
             PROVE  /\ t \notin onlyTn \cup uniqueQq
                    /\ \A x \in SeatsOf(t) : seat'[x] = EmptySeat /\ x \notin reserved'
  BY DEF NoOrphans, SeatsOf
<1>1. \A x \in SeatsOf(t) : x \in Seats \ {s} /\ seat'[x] = seat[x]
  BY DEF SeatsOf, TypeOK
<1> QED BY <1>1 DEF NoOrphans

\* Removing or replacing a team leaves nothing of it.
LEMMA WipeKeepsOrphans ==
    ASSUME TypeOK, NoOrphans, NEW t \in Teams, Wipe(t), teams \ {t} \subseteq teams'
    PROVE  NoOrphans'
<1> SUFFICES ASSUME NEW u \in Teams \ teams'
             PROVE  /\ u \notin onlyTn' \cup uniqueQq'
                    /\ \A x \in SeatsOf(u) : seat'[x] = EmptySeat /\ x \notin reserved'
  BY DEF NoOrphans, SeatsOf
<1>1. CASE u = t
  BY <1>1 DEF Wipe, SeatsOf
<1>2. CASE u # t
  <2>1. u \in Teams \ teams
    BY <1>2
  <2> QED BY <1>2, <2>1 DEF NoOrphans, Wipe, SeatsOf
<1> QED BY <1>1, <1>2

LEMMA StepOrphans == SeatInv /\ TicketInv /\ NoOrphans /\ [Next]_vars => NoOrphans'
<1> SUFFICES ASSUME SeatInv, TicketInv, NoOrphans, [Next]_vars PROVE NoOrphans'
  OBVIOUS
<1>0. TypeOK
  BY DEF SeatInv
<1>1. CASE UNCHANGED database
  BY <1>1 DEF database, NoOrphans, SeatsOf
<1>2. ASSUME NEW p \in Procs, Commit(p) PROVE NoOrphans'
  <2> DEFINE s == req[p].ticket.seat
  <2>1. PICK row \in SeatRows : seat' = [seat EXCEPT ![s] = row]
    BY <1>2, CommitRow
  <2>2. s \in Seats /\ TeamOf[s] \in teams /\ UNCHANGED <<teams, onlyTn, uniqueQq, reserved>>
    BY <1>0, <1>2 DEF Commit, CommitSave, CommitLeave, Committed, Accepted,
                      TicketInv, TicketsDealt, TypeOK, Requests, Tickets
  <2> HIDE DEF s
  <2> QED BY <1>0, <2>1, <2>2, OneSeatKeepsOrphans
<1>3. ASSUME NEW s \in Seats,
             \/ ReserveForBoss(s) \/ ClearRole(s)
             \/ \E r \in Rules : FixRule(s, r)
             \/ \E m \in Members, a \in Admins : AssignMember(s, m, a)
      PROVE  NoOrphans'
  <2>1. PICK row \in SeatRows, res \in SUBSET Seats : RoleEffect(s, row, res)
    BY <1>3, RoleChange
  <2>2. TeamOf[s] \in teams /\ UNCHANGED <<teams, onlyTn, uniqueQq>>
    BY <1>3 DEF ReserveForBoss, ClearRole, FixRule, AssignMember, SetSlot
  <2> QED BY <1>0, <2>1, <2>2, OneSeatKeepsOrphans DEF RoleEffect
<1>4. ASSUME NEW t \in Teams, NEW tn \in BOOLEAN, NEW uq \in BOOLEAN, PatchTeam(t, tn, uq)
      PROVE  NoOrphans'
  BY <1>4 DEF PatchTeam, NoOrphans, SeatsOf
<1>5. ASSUME NEW t \in Teams, CreateTeam(t) PROVE NoOrphans'
  BY <1>0, <1>5, WipeKeepsOrphans DEF CreateTeam
<1>6. ASSUME NEW t \in Teams, NEW f \in Teams \cup {NoTeam}, DeleteTeam(t, f) PROVE NoOrphans'
  <2>1. Wipe(t) /\ teams \ {t} \subseteq teams'
    BY <1>6 DEF DeleteTeam
  <2> QED BY <1>0, <2>1, WipeKeepsOrphans
<1>7. LockStep \/ ClearTeamLocks \/ Restart \/ UNCHANGED vars => UNCHANGED database
  BY DEF LockStep, ExpireLocks, Tick, AcquireSlotLock, ReleaseSlotLock, SetTeamLock,
         RemoveTeamLock, ClearTeamLocks, Restart, vars, database
<1>8. ASSUME NEW p \in Procs, MutationStep(p) PROVE Commit(p) \/ UNCHANGED database
  BY <1>8 DEF MutationStep, Finish, Preflight, Enter, Reject, CommitFails, GiveUp,
              ReleaseAfterCommit, database
<1> QED BY <1>1, <1>2, <1>3, <1>4, <1>5, <1>6, <1>7, <1>8 DEF Next, AdminStep

\* No signup, rule or reservation outlives its team or slips in after it.
THEOREM NothingOutlivesItsTeam == Spec => []NoOrphans
<1>1. Init => NoOrphans
  BY DEF Init, NoOrphans
<1> QED BY <1>1, InitSeat, InitTicket, StepSeat, StepTicket, StepOrphans, PTL DEF Spec

-----------------------------------------------------------------------------
(* What steps may do to who sits where: no second seat, and SlotRegister.   *)

\* Nobody, in terms of QQ numbers.
LEMMA NobodySits ==
    /\ MemberQq(NoMember) = NoOne
    /\ \A m \in Members : m # NoMember /\ MemberQq(m) = m.qq /\ m.qq \in Users /\ m.qq # NoOne
  BY NoValueAssumption DEF MemberQq, Members

-----------------------------------------------------------------------------
(* No step gives anybody a second seat.                                     *)

\* A step that changes one seat, and gives it to somebody who had no other.
LEMMA OneSeatTaken ==
    ASSUME TypeOK, NEW s \in Seats, NEW row \in SeatRows, seat' = [seat EXCEPT ![s] = row],
           \/ row.member = NoMember
           \/ /\ row.member \in Members
              /\ TeamOf[s] \in uniqueQq => ~SignedElsewhere(row.member.qq, s)
    PROVE  AddsNoDuplicate
<1> SUFFICES ASSUME NEW x \in Seats, NEW y \in Seats, x # y, TeamOf[x] = TeamOf[y],
                    TeamOf[x] \in uniqueQq, SameSigner(x, y)'
             PROVE  SameSigner(x, y)
  BY DEF AddsNoDuplicate
<1>1. seat'[s] = row /\ \A z \in Seats \ {s} : seat'[z] = seat[z]
  BY DEF TypeOK
<1>2. /\ MemberQq(seat'[x].member) # NoOne
      /\ MemberQq(seat'[x].member) = MemberQq(seat'[y].member)
  BY DEF SameSigner, MemberQq
<1>3. ASSUME NEW z \in Seats \ {s}, TeamOf[z] = TeamOf[s], TeamOf[s] \in uniqueQq,
             MemberQq(row.member) # NoOne, MemberQq(seat[z].member) = MemberQq(row.member)
      PROVE  FALSE
  <2>1. row.member \in Members /\ MemberQq(row.member) = row.member.qq
    BY <1>3, NobodySits
  <2>2. ~SignedElsewhere(row.member.qq, s)
    BY <1>3, <2>1, NobodySits
  <2> QED BY <1>3, <2>1, <2>2 DEF SignedElsewhere, SeatsOf
<1>4. CASE x = s
  BY <1>1, <1>2, <1>3, <1>4
<1>5. CASE y = s
  BY <1>1, <1>2, <1>3, <1>5
<1>6. CASE x # s /\ y # s
  BY <1>1, <1>2, <1>6 DEF SameSigner
<1> QED BY <1>4, <1>5, <1>6

\* A step that empties all the seats of a team.
LEMMA TeamWiped ==
    ASSUME NEW t \in Teams, Wipe(t)
    PROVE  AddsNoDuplicate
<1> SUFFICES ASSUME NEW x \in Seats, NEW y \in Seats, x # y, TeamOf[x] = TeamOf[y],
                    TeamOf[x] \in uniqueQq, SameSigner(x, y)'
             PROVE  SameSigner(x, y)
  BY DEF AddsNoDuplicate
<1>1. /\ MemberQq(seat'[x].member) # NoOne
      /\ MemberQq(seat'[x].member) = MemberQq(seat'[y].member)
  BY DEF SameSigner, MemberQq
<1>2. TeamOf[x] # t
  BY <1>1, NobodySits DEF Wipe, EmptySeat
<1>3. seat'[x] = seat[x] /\ seat'[y] = seat[y]
  BY <1>2 DEF Wipe
<1> QED BY <1>1, <1>3 DEF SameSigner

LEMMA AdminAddsNoDuplicate == ASSUME SeatInv, AdminStep PROVE AddsNoDuplicate
<1>0. TypeOK
  BY DEF SeatInv
<1>1. CASE UNCHANGED <<seat, reserved>>
  BY <1>1 DEF AddsNoDuplicate, SameSigner, MemberQq
<1>2. ASSUME NEW s \in Seats,
             \/ ReserveForBoss(s) \/ ClearRole(s)
             \/ \E r \in Rules : FixRule(s, r)
             \/ \E m \in Members, a \in Admins : AssignMember(s, m, a)
      PROVE  AddsNoDuplicate
  <2>1. PICK row \in SeatRows, res \in SUBSET Seats :
           /\ RoleEffect(s, row, res)
           /\ \/ row.member = NoMember
              \/ \E m \in Members, a \in Admins : row = TakenSeat(m, NoRule) /\ AssignMember(s, m, a)
    BY <1>2, RoleChange
  <2>2. seat' = [seat EXCEPT ![s] = row]
    BY <2>1 DEF RoleEffect
  <2>3. ASSUME NEW m \in Members, NEW a \in Admins, row = TakenSeat(m, NoRule), AssignMember(s, m, a)
        PROVE  /\ row.member \in Members
               /\ TeamOf[s] \in uniqueQq => ~SignedElsewhere(row.member.qq, s)
    BY <2>3 DEF TakenSeat, AssignMember
  <2> QED BY <1>0, <2>1, <2>2, <2>3, OneSeatTaken
<1>3. ASSUME NEW t \in Teams, CreateTeam(t) \/ (\E f \in Teams \cup {NoTeam} : DeleteTeam(t, f))
      PROVE  AddsNoDuplicate
  BY <1>3, TeamWiped DEF CreateTeam, DeleteTeam
<1> QED BY <1>1, <1>2, <1>3, RestKeepsSeats DEF AdminStep

LEMMA StepAddsNoDuplicate == SeatInv /\ TicketInv /\ [Next]_vars => AddsNoDuplicate
<1> SUFFICES ASSUME SeatInv, TicketInv, [Next]_vars PROVE AddsNoDuplicate
  OBVIOUS
<1>0. TypeOK
  BY DEF SeatInv
<1>1. CASE UNCHANGED <<seat, reserved>>
  BY <1>1 DEF AddsNoDuplicate, SameSigner, MemberQq
<1>2. ASSUME NEW p \in Procs, Commit(p) PROVE AddsNoDuplicate
  <2> DEFINE r == req[p]
             s == r.ticket.seat
  <2>1. PICK row \in SeatRows :
           /\ seat' = [seat EXCEPT ![s] = row]
           /\ row.member = IF r.op = "save" THEN r.member ELSE NoMember
    BY <1>2, CommitRow
  <2>2. s \in Seats /\ r \in Requests /\ WellFormed(r) /\ Accepted(r)
    BY <1>0, <1>2 DEF Commit, CommitSave, CommitLeave, Committed, TicketInv,
                      TicketsDealt, TypeOK, Requests, Tickets
  <2>3. r.op = "save" =>
           /\ r.member \in Members
           /\ TeamOf[s] \in uniqueQq => ~SignedElsewhere(r.member.qq, s)
    BY <2>2 DEF WellFormed, Requests, Accepted, MayTake
  <2> HIDE DEF r, s
  <2> QED BY <1>0, <2>1, <2>2, <2>3, OneSeatTaken
<1> QED BY <1>1, <1>2, AdminAddsNoDuplicate, RestKeepsSeats DEF Next

\* In a team of single signups no step gives anybody a second seat, whoever
\* else is saving, assigning or changing rules at the same time.
THEOREM NobodyGainsASecondSeat == Spec => NoNewDuplicate
<1>1. Spec => [](SeatInv /\ TicketInv)
  BY InitSeat, InitTicket, StepSeat, StepTicket, PTL DEF Spec
<1> QED BY <1>1, StepAddsNoDuplicate, PTL DEF Spec, NoNewDuplicate

-----------------------------------------------------------------------------
(* The board implements SlotRegister.                                       *)

Cell == [s \in Seats |-> MemberQq(seat[s].member)]

\* Writing one row writes one register.
LEMMA OneCell ==
    ASSUME TypeOK, NEW s \in Seats, NEW row \in SeatRows, seat' = [seat EXCEPT ![s] = row]
    PROVE  Cell' = [Cell EXCEPT ![s] = MemberQq(row.member)]
  BY DEF TypeOK, Cell, MemberQq

\* What a row can put into a register.
LEMMA RowSigner ==
    ASSUME NEW row \in SeatRows
    PROVE  MemberQq(row.member) \in Users \cup {NoOne}
  BY NobodySits DEF SeatRows

LEMMA InitRefines == Init => Register!Init
  BY NobodySits DEF Init, Register!Init, EmptySeat

LEMMA StepRefines == SeatInv /\ TicketInv /\ [Next]_vars => [Register!Next]_(Register!vars)
<1> SUFFICES ASSUME SeatInv, TicketInv, [Next]_vars PROVE [Register!Next]_(Register!vars)
  OBVIOUS
<1>0. TypeOK
  BY DEF SeatInv
<1>1. CASE UNCHANGED <<seat, issued, spent>>
  BY <1>1 DEF Register!vars, MemberQq
<1>2. ASSUME NEW s \in Seats, NEW q \in Users, AcquireSlotLock(s, q)
      PROVE  Register!Next
  <2> DEFINE k == [tok |-> nextToken, seat |-> s, qq |-> q]
  <2>1. k \in issued' /\ issued' = issued \cup {k} /\ UNCHANGED <<seat, spent>>
    BY <1>2 DEF AcquireSlotLock, database, requests
  <2>2. k.tok \notin spent /\ \A j \in issued : j.tok # k.tok
    BY <1>0 DEF TicketInv, TicketsDealt, TypeOK, Tickets, Tokens
  <2>3. k.seat \in Seats /\ k.qq \in Users
    OBVIOUS
  <2>4. UNCHANGED Cell
    BY <2>1 DEF Cell, MemberQq
  <2>5. Register!Issue
    BY <2>1, <2>2, <2>3, <2>4 DEF Register!Issue, Cell
  <2> QED BY <2>5 DEF Register!Next
<1>3. ASSUME NEW p \in Procs, Commit(p) PROVE Register!Next
  <2> DEFINE r == req[p]
             k == r.ticket
  <2>1. PICK row \in SeatRows :
           /\ seat' = [seat EXCEPT ![k.seat] = row]
           /\ row.member = IF r.op = "save" THEN r.member ELSE NoMember
    BY <1>3, CommitRow
  <2>2. /\ r \in Requests /\ WellFormed(r) /\ Authorised(r)
        /\ k \in issued /\ k \in Tickets /\ k.seat \in Seats /\ k.tok \notin spent
    BY <1>0, <1>3 DEF Commit, CommitSave, CommitLeave, Committed, TicketInv,
                      TicketsDealt, TicketSpentOnce, TypeOK, Tickets
  <2>3. spent' = spent \cup {k.tok} /\ issued' = issued
    BY <1>3 DEF Commit, CommitSave, CommitLeave, Committed, runtime
  <2> DEFINE who == MemberQq(row.member)
  <2>4. who \in {k.qq, NoOne} \/ k.qq \in Admins
    BY <2>1, <2>2, NobodySits DEF WellFormed, Authorised, Requests
  <2>5. who \in Users \cup {NoOne}
    BY RowSigner
  <2>6. Cell' = [Cell EXCEPT ![k.seat] = who]
    BY <1>0, <2>1, <2>2, OneCell
  <2>7. Register!Use(k, who)
    BY <2>2, <2>3, <2>4, <2>6 DEF Register!Use, Cell
  <2> QED BY <2>2, <2>5, <2>7 DEF Register!Next
<1>4. ASSUME NEW s \in Seats,
             \/ ReserveForBoss(s) \/ ClearRole(s)
             \/ \E r \in Rules : FixRule(s, r)
             \/ \E m \in Members, a \in Admins : AssignMember(s, m, a)
      PROVE  Register!Next
  <2>1. PICK row \in SeatRows, res \in SUBSET Seats : RoleEffect(s, row, res)
    BY <1>4, RoleChange
  <2>2. seat' = [seat EXCEPT ![s] = row]
    BY <2>1 DEF RoleEffect
  <2>3. UNCHANGED <<issued, spent>>
    BY <1>4 DEF ReserveForBoss, ClearRole, FixRule, AssignMember, SetSlot, runtime,
                requests
  <2>4. Cell' = [Cell EXCEPT ![s] = MemberQq(row.member)]
    BY <1>0, <2>2, OneCell
  <2>5. MemberQq(row.member) \in Users \cup {NoOne}
    BY RowSigner
  <2>6. Register!Assign(s, MemberQq(row.member))
    BY <2>3, <2>4 DEF Register!Assign, Cell
  <2> QED BY <2>5, <2>6 DEF Register!Next
<1>5. ASSUME NEW t \in Teams, CreateTeam(t) \/ (\E f \in Teams \cup {NoTeam} : DeleteTeam(t, f))
      PROVE  Register!Next
  <2>1. Wipe(t) /\ UNCHANGED <<issued, spent>>
    BY <1>5 DEF CreateTeam, DeleteTeam, runtime, requests
  <2>2. Cell' = [s \in Seats |-> IF s \in SeatsOf(t) THEN NoOne ELSE Cell[s]]
    BY <2>1, NobodySits DEF Wipe, Cell, SeatsOf, EmptySeat, MemberQq
  <2>3. SeatsOf(t) \in SUBSET Seats
    BY DEF SeatsOf
  <2>4. Register!Empty(SeatsOf(t))
    BY <2>1, <2>2 DEF Register!Empty, Cell
  <2> QED BY <2>3, <2>4 DEF Register!Next
<1>6. LockStep =>
         \/ UNCHANGED <<seat, issued, spent>>
         \/ \E s \in Seats, q \in Users : AcquireSlotLock(s, q)
  BY DEF LockStep, ExpireLocks, Tick, ReleaseSlotLock, SetTeamLock, RemoveTeamLock,
         database, requests
<1>7. \A p \in Procs : MutationStep(p) => Commit(p) \/ UNCHANGED <<seat, issued, spent>>
  BY DEF MutationStep, Finish, Preflight, Enter, Reject, CommitFails, GiveUp,
         ReleaseAfterCommit, database, runtime
<1>8. /\ (\E t \in Teams, tn, uq \in BOOLEAN : PatchTeam(t, tn, uq)) => UNCHANGED <<seat, issued, spent>>
      /\ ClearTeamLocks \/ Restart \/ UNCHANGED vars => UNCHANGED <<seat, issued, spent>>
  BY DEF PatchTeam, ClearTeamLocks, Restart, vars, database, runtime, requests
<1> QED BY <1>1, <1>2, <1>3, <1>4, <1>5, <1>6, <1>7, <1>8 DEF Next, AdminStep

\* Every run of the board is a run of registers changed with tickets that are
\* good for one change of one seat, by their owner or an administrator.
THEOREM BoardImplementsRegister == Spec => Refinement
<1>1. Spec => [](SeatInv /\ TicketInv)
  BY InitSeat, InitTicket, StepSeat, StepTicket, PTL DEF Spec
<1> QED BY <1>1, InitRefines, StepRefines, PTL DEF Spec, Refinement, Register!Spec
-----------------------------------------------------------------------------
(* Backups and archives brought back (Restores).                            *)
(*                                                                          *)
(* What is kept of the board must be in as good order as the board itself,  *)
(* since it may become the board again.                                     *)

GoodShelf(shelf) ==
    /\ shelf \in Shelves
    /\ \A t \in Teams : shelf[t] # NoBoard =>
          /\ shelf[t] \in ArchivedTeams
          /\ shelf[t].reserved \subseteq SeatsOf(t)
          /\ \A s \in SeatsOf(t) : SeatOK(shelf[t].seat[s], s \in shelf[t].reserved)

GoodBoard(b) ==
    /\ b \in Boards
    /\ \A s \in Seats : SeatOK(b.seat[s], s \in b.reserved)
    /\ \A t \in Teams \ b.teams :
          /\ t \notin b.onlyTn \cup b.uniqueQq
          /\ \A s \in SeatsOf(t) : b.seat[s] = EmptySeat /\ s \notin b.reserved
    /\ GoodShelf(b.archives)

KeptInv == GoodShelf(archives) /\ (backup # NoBoard => GoodBoard(backup))

\* A lock is no older than the last restore that has answered.
RetiredInv ==
    /\ clearFrom \in [Restorers -> Nat] /\ retired \in Nat
    /\ retired <= nextToken /\ \A r \in Restorers : clearFrom[r] <= nextToken
    /\ \A s \in Seats : locks[s] # NoLock => locks[s].tok >= retired

RestoreInv == SeatInv /\ TicketInv /\ YoungInv /\ NoOrphans /\ KeptInv /\ RetiredInv

\* What is an ordinary step of the board.
LEMMA BoardPart ==
    ASSUME [RestoreNext]_rvars
    PROVE  \/ [Next]_vars
           \/ \E t \in Teams : RestoreArchive(t)
           \/ \E r \in Restorers, listed \in BOOLEAN : RestoreBackup(r, listed)
           \/ \E r \in Restorers : ClearRuntimeLocks(r)
<1>1. ASSUME NEW t \in Teams, NEW f \in Teams \cup {NoTeam}, ArchiveTeam(t, f) PROVE Next
  BY <1>1 DEF ArchiveTeam, Next, AdminStep
<1>2. CreateBackup \/ DeleteBackup => UNCHANGED vars
  BY DEF CreateBackup, DeleteBackup
<1>3. BoardStep \/ RestartRestores => Next
  BY DEF BoardStep, RestartRestores, Next
<1>4. UNCHANGED rvars => UNCHANGED vars
  BY DEF rvars
<1> QED BY <1>1, <1>2, <1>3, <1>4 DEF RestoreNext, RestoreStep

\* restoreArchive brings the rows back as they were archived, and touches no
\* other team's.
LEMMA ArchiveComesBack ==
    ASSUME SeatInv, NoOrphans, GoodShelf(archives), NEW t \in Teams, RestoreArchive(t)
    PROVE  SeatInv' /\ NoOrphans'
<1> DEFINE a == archives[t]
           res == (reserved \ SeatsOf(t)) \cup a.reserved
           held == res \cup {s \in SeatsOf(t) : a.seat[s].status = "reserved"}
<1>0. TypeOK
  BY DEF SeatInv
<1>1. /\ a \in ArchivedTeams /\ a.reserved \subseteq SeatsOf(t)
      /\ \A s \in SeatsOf(t) : SeatOK(a.seat[s], s \in a.reserved)
  BY DEF GoodShelf, RestoreArchive
<1>2. /\ onlyTn' = IF a.onlyTn THEN onlyTn \cup {t} ELSE onlyTn \ {t}
      /\ uniqueQq' = IF a.uniqueQq THEN uniqueQq \cup {t} ELSE uniqueQq \ {t}
      /\ teams' = teams \cup {t} /\ UNCHANGED <<runtime, requests>>
      /\ reserved' = held
      /\ seat' = [s \in Seats |-> IF TeamOf[s] = t THEN NormalSeat(a.seat[s], s \in held)
                                                   ELSE seat[s]]
  BY DEF RestoreArchive, StoreTeam
<1>3. held = res
  BY <1>1 DEF SeatOK
<1>4. ASSUME NEW s \in SeatsOf(t)
      PROVE  seat'[s] = a.seat[s] /\ a.seat[s] \in SeatRows /\ SeatOK(a.seat[s], s \in reserved')
  <2>1. a.seat[s] \in SeatRows /\ s \in Seats /\ TeamOf[s] = t
    BY <1>1 DEF ArchivedTeams, SeatsOf
  <2>2. SeatOK(a.seat[s], s \in held) /\ (s \in held) \in BOOLEAN
    BY <1>1, <1>3
  <2>3. seat'[s] = NormalSeat(a.seat[s], s \in held)
    BY <1>2, <2>1
  <2> HIDE DEF a, held
  <2> QED BY <1>2, <2>1, <2>2, <2>3, NormalOfGood
<1>5. ASSUME NEW s \in Seats \ SeatsOf(t) PROVE seat'[s] = seat[s] /\ (s \in reserved' <=> s \in reserved)
  BY <1>1, <1>2, <1>3 DEF SeatsOf
<1>6. reserved' \subseteq Seats /\ seat' \in [Seats -> SeatRows]
  <2>1. \A s \in Seats : seat'[s] \in SeatRows
    BY <1>0, <1>4, <1>5 DEF TypeOK
  <2>2. held \subseteq Seats
    BY <1>0, <1>1, <1>3 DEF TypeOK, SeatsOf
  <2> QED BY <1>2, <2>1, <2>2
<1>7. TypeOK'
  BY <1>0, <1>2, <1>6 DEF TypeOK, runtime, requests
<1>8. SeatInv'
  BY <1>4, <1>5, <1>7 DEF SeatInv, SeatOK
<1>9. NoOrphans'
  <2> SUFFICES ASSUME NEW u \in Teams \ teams'
               PROVE  /\ u \notin onlyTn' \cup uniqueQq'
                      /\ \A s \in SeatsOf(u) : seat'[s] = EmptySeat /\ s \notin reserved'
    BY DEF NoOrphans, SeatsOf
  <2>1. u # t /\ u \in Teams \ teams
    BY <1>2
  <2>2. \A s \in SeatsOf(u) : s \in Seats \ SeatsOf(t)
    BY <2>1 DEF SeatsOf
  <2> QED BY <1>2, <1>5, <2>1, <2>2 DEF NoOrphans
<1> QED BY <1>8, <1>9

\* A board restored from a file is in as good order as the file.
LEMMA BackupComesBack ==
    ASSUME TypeOK, KeptInv, NEW r \in Restorers, NEW listed \in BOOLEAN, RestoreBackup(r, listed)
    PROVE  SeatInv' /\ NoOrphans' /\ GoodShelf(archives')
<1>1. GoodBoard(backup)
  BY DEF KeptInv, RestoreBackup
<1>2. /\ teams' = backup.teams /\ onlyTn' = backup.onlyTn /\ uniqueQq' = backup.uniqueQq
      /\ reserved' = backup.reserved /\ seat' = backup.seat /\ archives' = backup.archives
      /\ UNCHANGED <<runtime, requests>>
  BY DEF RestoreBackup
<1>3. TypeOK'
  BY <1>1, <1>2 DEF GoodBoard, Boards, TypeOK, runtime, requests
<1> QED BY <1>1, <1>2, <1>3 DEF GoodBoard, SeatInv, NoOrphans, SeatsOf

\* The invariants of SlotBoard hold across restores too.
LEMMA RestoreKeepsBoard ==
    ASSUME RestoreInv, [RestoreNext]_rvars
    PROVE  (SeatInv /\ TicketInv /\ YoungInv /\ NoOrphans)'
<1>1. CASE [Next]_vars
  BY <1>1, StepSeat, StepTicket, StepYoung, StepOrphans DEF RestoreInv
<1>2. ASSUME SeatInv', NoOrphans', UNCHANGED <<runtime, requests>>
      PROVE  (SeatInv /\ TicketInv /\ YoungInv /\ NoOrphans)'
  <2>1. TypeOK'
    BY <1>2 DEF SeatInv
  <2>2. TicketInv'
    BY <1>2, <2>1, FewerLocks DEF RestoreInv, runtime, requests, TicketInv
  <2>3. YoungInv'
    BY <1>2, <2>1, FewerYoung DEF RestoreInv, runtime
  <2> QED BY <1>2, <2>2, <2>3
<1>3. ASSUME NEW t \in Teams, RestoreArchive(t)
      PROVE  (SeatInv /\ TicketInv /\ YoungInv /\ NoOrphans)'
  BY <1>2, <1>3, ArchiveComesBack DEF RestoreInv, KeptInv, RestoreArchive
<1>4. ASSUME NEW r \in Restorers, NEW listed \in BOOLEAN, RestoreBackup(r, listed)
      PROVE  (SeatInv /\ TicketInv /\ YoungInv /\ NoOrphans)'
  BY <1>2, <1>4, BackupComesBack DEF RestoreInv, RestoreBackup, SeatInv
<1>5. ASSUME NEW r \in Restorers, ClearRuntimeLocks(r)
      PROVE  (SeatInv /\ TicketInv /\ YoungInv /\ NoOrphans)'
  <2>1. /\ locks' = [s \in Seats |-> NoLock] /\ lockedFor' = [t \in Teams |-> NotLocked]
        /\ UNCHANGED <<database, nextToken, issued, spent, pc, req, clearing>>
    BY <1>5 DEF ClearRuntimeLocks, requests
  <2>2. TypeOK'
    BY <2>1 DEF RestoreInv, SeatInv, TypeOK, database, NotLocked
  <2>3. SeatInv' /\ NoOrphans'
    BY <2>1, <2>2 DEF RestoreInv, SeatInv, NoOrphans, SeatsOf, database
  <2>4. TicketInv'
    BY <2>1, <2>2, FewerLocks DEF RestoreInv, TicketInv
  <2>5. YoungInv'
    BY <2>1, <2>2, FewerYoung DEF RestoreInv
  <2> QED BY <2>3, <2>4, <2>5
<1> QED BY <1>1, <1>3, <1>4, <1>5, BoardPart

\* What archiveTeam and createBackup put away is in good order.
LEMMA RestoreKeepsKept ==
    ASSUME RestoreInv, [RestoreNext]_rvars
    PROVE  KeptInv'
<1>1. ASSUME UNCHANGED <<archives, backup>> PROVE KeptInv'
  BY <1>1 DEF RestoreInv, KeptInv
<1>2. ASSUME NEW t \in Teams, NEW f \in Teams \cup {NoTeam}, ArchiveTeam(t, f) PROVE KeptInv'
  <2> DEFINE a == [onlyTn |-> t \in onlyTn, uniqueQq |-> t \in uniqueQq,
                   reserved |-> reserved \cap SeatsOf(t),
                   seat |-> [s \in Seats |-> IF TeamOf[s] = t THEN seat[s] ELSE EmptySeat]]
  <2>1. archives' = [archives EXCEPT ![t] = a] /\ backup' = backup /\ archives \in Shelves
    BY <1>2 DEF ArchiveTeam, restores, RestoreInv, KeptInv, GoodShelf
  <2>2. a \in ArchivedTeams
    BY SeatRowTypes DEF RestoreInv, SeatInv, TypeOK, ArchivedTeams
  <2>3. /\ a.reserved \subseteq SeatsOf(t)
        /\ \A s \in SeatsOf(t) : SeatOK(a.seat[s], s \in a.reserved)
    BY DEF RestoreInv, SeatInv, SeatsOf
  <2> HIDE DEF a
  <2>4. archives' \in Shelves /\ archives'[t] = a /\ \A u \in Teams \ {t} : archives'[u] = archives[u]
    BY <2>1, <2>2 DEF Shelves
  <2>5. GoodShelf(archives')
    BY <2>2, <2>3, <2>4 DEF RestoreInv, KeptInv, GoodShelf
  <2> QED BY <2>1, <2>5 DEF RestoreInv, KeptInv
<1>3. ASSUME NEW t \in Teams, RestoreArchive(t) PROVE KeptInv'
  <2>1. archives' = [archives EXCEPT ![t] = NoBoard] /\ backup' = backup /\ archives \in Shelves
    BY <1>3 DEF RestoreArchive, restores, RestoreInv, KeptInv, GoodShelf
  <2>2. /\ archives' \in Shelves /\ archives'[t] = NoBoard
        /\ \A u \in Teams \ {t} : archives'[u] = archives[u]
    BY <2>1 DEF Shelves
  <2> QED BY <2>1, <2>2 DEF RestoreInv, KeptInv, GoodShelf
<1>4. CASE CreateBackup
  <2> DEFINE b == [teams |-> teams, onlyTn |-> onlyTn, uniqueQq |-> uniqueQq,
                   reserved |-> reserved, seat |-> seat, archives |-> archives]
  <2>1. backup' = b /\ archives' = archives
    BY <1>4 DEF CreateBackup
  <2>2. b \in Boards
    BY DEF RestoreInv, SeatInv, TypeOK, KeptInv, GoodShelf, Boards
  <2>3. GoodBoard(b)
    BY <2>2 DEF RestoreInv, SeatInv, NoOrphans, KeptInv, GoodBoard
  <2> QED BY <2>1, <2>3 DEF RestoreInv, KeptInv
<1>5. CASE DeleteBackup
  BY <1>5 DEF DeleteBackup, RestoreInv, KeptInv
<1>6. ASSUME NEW r \in Restorers, NEW listed \in BOOLEAN, RestoreBackup(r, listed) PROVE KeptInv'
  BY <1>6, BackupComesBack DEF RestoreInv, SeatInv, RestoreBackup, KeptInv
<1>7. ASSUME NEW r \in Restorers, ClearRuntimeLocks(r) PROVE KeptInv'
  BY <1>1, <1>7 DEF ClearRuntimeLocks
<1>8. CASE RestartRestores \/ UNCHANGED <<archives, restores>> \/ UNCHANGED rvars
  BY <1>1, <1>8 DEF RestartRestores, restores, rvars
<1> QED BY <1>2, <1>3, <1>4, <1>5, <1>6, <1>7, <1>8 DEF RestoreNext, RestoreStep

\* A step of the board hands out locks with the next token only.
LEMMA TokensGoOn ==
    ASSUME TypeOK, [Next]_vars
    PROVE  /\ nextToken' \in {nextToken, nextToken + 1}
           /\ \A s \in Seats : locks'[s] # NoLock =>
                 (locks[s] # NoLock /\ locks'[s].tok = locks[s].tok) \/ locks'[s].tok = nextToken
<1> DEFINE Ok == /\ nextToken' \in {nextToken, nextToken + 1}
                 /\ \A s \in Seats : locks'[s] # NoLock =>
                       (locks[s] # NoLock /\ locks'[s].tok = locks[s].tok) \/ locks'[s].tok = nextToken
<1>0. locks \in [Seats -> Locks \cup {NoLock}]
  BY DEF TypeOK
<1>1. ASSUME UNCHANGED nextToken,
             \A s \in Seats : locks'[s] # NoLock => locks[s] # NoLock /\ locks'[s].tok = locks[s].tok
      PROVE  Ok
  BY <1>1
<1>2. ASSUME LockStep PROVE Ok
  <2>1. CASE ExpireLocks
    BY <1>1, <2>1 DEF ExpireLocks, Unexpired
  <2>2. CASE Tick
    <3>1. ASSUME NEW s \in Seats, locks'[s] # NoLock PROVE locks[s] # NoLock /\ locks'[s].tok = locks[s].tok
      <4>1. locks[s] # NoLock /\ locks'[s] = [locks[s] EXCEPT !.age = Older(@)]
        BY <2>2, <3>1 DEF Tick
      <4>2. locks[s] \in Locks
        BY <1>0, <4>1
      <4> QED BY <4>1, <4>2 DEF Locks
    <3> QED BY <1>1, <2>2, <3>1 DEF Tick
  <2>3. ASSUME NEW s \in Seats, NEW q \in Users, AcquireSlotLock(s, q) PROVE Ok
    <3>1. /\ nextToken' = nextToken + 1
          /\ locks' = [Unexpired EXCEPT ![s] = [tok |-> nextToken, qq |-> q, age |-> 0]]
      BY <2>3 DEF AcquireSlotLock
    <3>2. \A x \in Seats : locks'[x].tok = nextToken \/ locks'[x] \in {locks[x], NoLock}
      BY <3>1 DEF Unexpired
    <3> QED BY <3>1, <3>2
  <2>4. ASSUME NEW k \in issued, NEW b \in BOOLEAN, ReleaseSlotLock(k, b) PROVE Ok
    BY <1>0, <1>1, <2>4 DEF ReleaseSlotLock
  <2>5. ASSUME NEW t \in Teams, SetTeamLock(t) \/ RemoveTeamLock(t) PROVE Ok
    BY <1>1, <2>5 DEF SetTeamLock, RemoveTeamLock
  <2> QED BY <1>2, <2>1, <2>2, <2>3, <2>4, <2>5 DEF LockStep
<1>3. ASSUME NEW p \in Procs, MutationStep(p) PROVE Ok
  <2>1. nextToken' = nextToken /\ \A s \in Seats : locks'[s] # NoLock => locks'[s] = locks[s]
    BY <1>0, <1>3 DEF MutationStep, Finish, Preflight, Enter, Commit, CommitSave,
                      CommitLeave, Committed, Reject, CommitFails, GiveUp,
                      ReleaseAfterCommit, runtime, Unexpired
  <2> QED BY <1>1, <2>1
<1>4. CASE ClearTeamLocks \/ Restart
  BY <1>1, <1>4 DEF ClearTeamLocks, Restart
<1>5. CASE UNCHANGED runtime
  BY <1>1, <1>5 DEF runtime
<1>6. AdminStep => ClearTeamLocks \/ UNCHANGED runtime
  BY DEF AdminStep, ReserveForBoss, ClearRole, FixRule, AssignMember, SetSlot,
         PatchTeam, CreateTeam, DeleteTeam
<1>7. UNCHANGED vars => UNCHANGED runtime
  BY DEF vars, runtime
<1> QED BY <1>2, <1>3, <1>4, <1>5, <1>6, <1>7 DEF Next

\* The locks that clearRuntimeLocks takes away are those a restore retires.
LEMMA RestoreKeepsRetired ==
    ASSUME RestoreInv, [RestoreNext]_rvars
    PROVE  RetiredInv'
<1>0. /\ TypeOK /\ nextToken \in Nat /\ clearFrom \in [Restorers -> Nat] /\ retired \in Nat
      /\ retired <= nextToken /\ \A r \in Restorers : clearFrom[r] <= nextToken
      /\ \A s \in Seats : locks[s] # NoLock => locks[s].tok >= retired
  BY DEF RestoreInv, SeatInv, TypeOK, Tokens, RetiredInv
<1>1. ASSUME [Next]_vars, clearFrom' \in [Restorers -> Nat], UNCHANGED retired,
             \A r \in Restorers : clearFrom'[r] \in {0, clearFrom[r]}
      PROVE  RetiredInv'
  <2>1. /\ nextToken' \in Nat /\ nextToken' >= nextToken
        /\ \A s \in Seats : locks'[s] # NoLock =>
              (locks[s] # NoLock /\ locks'[s].tok = locks[s].tok) \/ locks'[s].tok = nextToken
    BY <1>0, <1>1, TokensGoOn
  <2>2. \A r \in Restorers : clearFrom'[r] <= nextToken'
    BY <1>0, <1>1, <2>1
  <2>3. \A s \in Seats : locks'[s] # NoLock => locks'[s].tok >= retired
    BY <1>0, <2>1
  <2> QED BY <1>0, <1>1, <2>1, <2>2, <2>3 DEF RetiredInv
<1>2. ASSUME UNCHANGED <<locks, nextToken, retired, clearFrom>> PROVE RetiredInv'
  BY <1>0, <1>2 DEF RetiredInv
<1>3. ASSUME NEW r \in Restorers, NEW listed \in BOOLEAN, RestoreBackup(r, listed) PROVE RetiredInv'
  <2>1. /\ UNCHANGED <<locks, nextToken, retired>>
        /\ clearFrom' = [clearFrom EXCEPT ![r] = nextToken] \/ clearFrom' = clearFrom
    BY <1>3 DEF RestoreBackup, runtime
  <2> QED BY <1>0, <2>1 DEF RetiredInv
<1>4. ASSUME NEW r \in Restorers, ClearRuntimeLocks(r) PROVE RetiredInv'
  <2>1. /\ nextToken' = nextToken /\ \A s \in Seats : locks'[s] = NoLock
        /\ retired' \in {retired, clearFrom[r]} /\ clearFrom' = [clearFrom EXCEPT ![r] = 0]
    BY <1>4 DEF ClearRuntimeLocks
  <2> QED BY <1>0, <2>1 DEF RetiredInv
<1>5. ASSUME UNCHANGED restores, [Next]_vars PROVE RetiredInv'
  BY <1>0, <1>1, <1>5 DEF restores
<1>6. ASSUME NEW t \in Teams, NEW f \in Teams \cup {NoTeam}, ArchiveTeam(t, f) PROVE RetiredInv'
  BY <1>5, <1>6 DEF ArchiveTeam, Next, AdminStep
<1>7. ASSUME NEW t \in Teams, RestoreArchive(t) PROVE RetiredInv'
  BY <1>2, <1>7 DEF RestoreArchive, restores, runtime
<1>8. CASE CreateBackup \/ DeleteBackup
  BY <1>2, <1>8 DEF CreateBackup, DeleteBackup, vars, runtime
<1>9. CASE RestartRestores
  BY <1>0, <1>1, <1>9 DEF RestartRestores, Next
<1>10. CASE BoardStep /\ UNCHANGED <<archives, restores>>
  BY <1>5, <1>10 DEF BoardStep, Next
<1>11. CASE UNCHANGED rvars
  BY <1>5, <1>11 DEF rvars
<1> QED BY <1>3, <1>4, <1>6, <1>7, <1>8, <1>9, <1>10, <1>11 DEF RestoreNext, RestoreStep

LEMMA RestoreInitially == RestoreInit => RestoreInv
<1> SUFFICES ASSUME RestoreInit PROVE RestoreInv
  OBVIOUS
<1>1. SeatInv /\ TicketInv /\ YoungInv /\ NoOrphans
  BY InitSeat, InitTicket, InitType DEF RestoreInit, Init, YoungInv, TeamLockYoungest, NoOrphans
<1>2. KeptInv
  BY DEF RestoreInit, KeptInv, GoodShelf, Shelves
<1>3. RetiredInv
  BY DEF RestoreInit, Init, RetiredInv
<1> QED BY <1>1, <1>2, <1>3 DEF RestoreInv

LEMMA AlwaysRestoreInv == RestoreSpec => []RestoreInv
<1>1. RestoreInv /\ [RestoreNext]_rvars => RestoreInv'
  BY RestoreKeepsBoard, RestoreKeepsKept, RestoreKeepsRetired DEF RestoreInv
<1> QED BY RestoreInitially, <1>1, PTL DEF RestoreSpec

\* SeatConsistent, and the board's other invariants, with backups and archives
\* restored at any time: restoreArchive and replaceDataUnlocked bring back rows
\* and reserved lists that agree, keep nothing of a team that is not there, and
\* spend no ticket twice although they leave locks on replaced data.
THEOREM RestoredBoardConsistent ==
    RestoreSpec => [](SeatConsistent /\ SeatMatchesRule /\ NoOrphans /\ TicketSpentOnce /\ TeamLockYoungest)
<1>1. RestoreInv => SeatConsistent /\ SeatMatchesRule /\ NoOrphans /\ TicketSpentOnce /\ TeamLockYoungest
  BY SeatInvMeans DEF RestoreInv, TicketInv, YoungInv
<1> QED BY <1>1, AlwaysRestoreInv, PTL

\* A mutation gets into its transaction by Enter only.
LEMMA OnlyByEnter ==
    ASSUME [RestoreNext]_rvars, NEW p \in Procs, pc[p] = "waiting", pc'[p] = "txn",
           TypeOK
    PROVE  Enter(p)
<1>0. pc \in [Procs -> {"idle", "waiting", "txn", "release"}]
  BY DEF TypeOK
<1>1. ASSUME NEW q \in Procs, MutationStep(q) PROVE Enter(p)
  <2>1. CASE q # p
    <3>1. pc'[p] = pc[p]
      BY <1>0, <1>1, <2>1 DEF MutationStep, Finish, Preflight, Enter, Commit, CommitSave, CommitLeave,
                              Committed, Reject, CommitFails, GiveUp, ReleaseAfterCommit
    <3> QED BY <3>1
  <2>2. CASE q = p
    BY <1>0, <1>1, <2>2 DEF MutationStep, Finish, Preflight, Commit, CommitSave, CommitLeave,
                            Committed, Reject, CommitFails, GiveUp, ReleaseAfterCommit
  <2> QED BY <2>1, <2>2
<1>2. UNCHANGED pc => FALSE
  OBVIOUS
<1>3. LockStep \/ AdminStep => UNCHANGED pc
  BY DEF LockStep, ExpireLocks, Tick, AcquireSlotLock, ReleaseSlotLock, SetTeamLock, RemoveTeamLock,
         AdminStep, ReserveForBoss, ClearRole, FixRule, AssignMember, SetSlot, PatchTeam, CreateTeam,
         DeleteTeam, ClearTeamLocks, requests
<1>4. ~Restart
  BY DEF Restart
<1>5. UNCHANGED vars => UNCHANGED pc
  BY DEF vars, requests
<1>6. (\E t \in Teams : RestoreArchive(t)) => UNCHANGED pc
  BY DEF RestoreArchive, requests
<1>7. (\E r \in Restorers, listed \in BOOLEAN : RestoreBackup(r, listed)) => UNCHANGED pc
  BY DEF RestoreBackup, requests
<1>8. (\E r \in Restorers : ClearRuntimeLocks(r)) => UNCHANGED pc
  BY DEF ClearRuntimeLocks, requests
<1> QED BY <1>1, <1>2, <1>3, <1>4, <1>5, <1>6, <1>7, <1>8, BoardPart DEF Next

\* OldTicketsEnd: after restoreBackup, importBackup or replaceData has answered,
\* the second validation keeps out every mutation that waited through it.
THEOREM OldTicketsEndHolds == RestoreSpec => OldTicketsEnd
<1>1. ASSUME RestoreInv, [RestoreNext]_rvars, NEW p \in Procs, pc[p] = "waiting", pc'[p] = "txn"
      PROVE  req[p].ticket.tok >= retired
  <2> DEFINE k == req[p].ticket
  <2>1. TypeOK
    BY <1>1 DEF RestoreInv, SeatInv
  <2>2. Valid(k)
    BY <1>1, <2>1, OnlyByEnter DEF Enter, TypeOK
  <2>3. k.seat \in Seats
    BY <1>1, <2>1 DEF TypeOK, Requests, Tickets
  <2>4. locks[k.seat] # NoLock /\ locks[k.seat].tok = k.tok
    BY <2>2, <2>3, UnexpiredSome DEF Valid
  <2> QED BY <1>1, <2>3, <2>4 DEF RestoreInv, RetiredInv
<1>2. RestoreInv /\ [RestoreNext]_rvars =>
         [\A p \in Procs : pc[p] = "waiting" /\ pc'[p] = "txn" => req[p].ticket.tok >= retired]_rvars
  BY <1>1
<1> QED BY <1>2, AlwaysRestoreInv, PTL DEF RestoreSpec, OldTicketsEnd
=============================================================================
