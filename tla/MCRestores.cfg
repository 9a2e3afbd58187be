\* Archives and backups restored while a member holds tickets for a slot.
CONSTANTS
    t1 = t1  u1 = u1  p1 = p1  r1 = r1  r2 = r2
    tank = tank
    Teams = {t1}
    Seats <- OneSeat
    TeamOf <- MCTeamOf
    Users = {u1}
    Admins = {}
    Arts = {tank}
    TnArts = {tank}
    Rules = {}
    Procs = {p1}
    Restorers = {r1, r2}
    Timeout = 0
    MaxToken = 1
    MaxKept = 1
    NoOne = NoOne  NoMember = NoMember  NoRule = NoRule
    NoLock = NoLock  NoReq = NoReq  NoTeam = NoTeam  NoBoard = NoBoard
SPECIFICATION FairRestoreSpec
INVARIANTS SeatConsistent
PROPERTIES OldTicketsEnd LocksEnd MutexReleased
