\* Quick reservations between signups and single reservations; an administrator signs up too.
CONSTANTS
    t1 = t1  u1 = u1
    tank = tank  blade = blade
    Teams = {t1}
    Seats <- Slots
    TeamOf <- MCTeamOf
    IndexOf <- MCIndexOf
    Users = {u1}
    Admins = {u1}
    Arts = {tank, blade}
    TnArts = {tank}
    TankArts = {tank}
    TankFirst = {2}
    HealFirst = {1}
    Rules <- ArtRules
    Boss = Boss
    Procs = {}
    Timeout = 0
    MaxToken = 0
    NoOne = NoOne  NoMember = NoMember  NoRule = NoRule
    NoLock = NoLock  NoReq = NoReq  NoTeam = NoTeam
SPECIFICATION ReserveSpec
INVARIANTS SeatConsistent SeatMatchesRule
PROPERTIES NoNewDuplicate ReachesCount UnseatsOnlyBossSlots
