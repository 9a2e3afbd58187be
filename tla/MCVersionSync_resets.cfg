\* Versions that go back: COMMIT fails, backups are restored, the server restarts;
\* no data is looked at, so one user is enough.
CONSTANTS
    a = a  b = b  s1 = s1  s2 = s2
    Users = {a}
    Pages = {a}
    Items = {s1}
    MaxPatches = 1
    MaxVersion = 2
    Faults = {"commit", "restore"}
    Nobody = Nobody  NoVersion = NoVersion  Idle = Idle
SPECIFICATION FairSpec
PROPERTIES CatchesUp
