\* Two users, two mutations in flight on one seat.
CONSTANTS
    t1 = t1  u1 = u1  u2 = u2  p1 = p1  p2 = p2
    tank = tank
    Teams = {t1}
    Seats <- OneSeat
    TeamOf <- MCTeamOf
    Users = {u1, u2}
    Admins = {}
    Arts = {tank}
    TnArts = {tank}
    Rules = {}
    Procs = {p1, p2}
    Timeout = 1
    MaxToken = 2
    NoOne = NoOne  NoMember = NoMember  NoRule = NoRule
    NoLock = NoLock  NoReq = NoReq  NoTeam = NoTeam
SPECIFICATION Spec
SYMMETRY AnyProc
INVARIANTS TypeOK TicketSpentOnce TeamLockYoungest NoOrphans
PROPERTIES Refinement
