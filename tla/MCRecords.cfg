\* Logs, notices, backups, restores and paging, over restarts.
CONSTANTS
    t = t  x = x  u = u
    Teams = {t, x}
    Users = {u}
    LogWindow = 1
    NoticeWindow = 1
    HistoryLimit = 1
    PageSizes = {1}
    MaxTime = 1
    MaxLogs = 2
    MaxFiles = 2
    ClientTimes = {1}
SPECIFICATION Spec
SYMMETRY AnyTeam
INVARIANTS TypeOK FreshIds PagingComplete NoticeHasLog
PROPERTIES PruneKeepsNewest
