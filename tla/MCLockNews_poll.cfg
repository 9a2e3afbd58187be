\* Two slots and the team lock, a page that polls, a restart.
CONSTANTS
    s1 = s1  s2 = s2  t = t
    Seats = {s1, s2}
    Team = t
    Polls = TRUE
    MaxRestarts = 1
    MaxVersion = 3
    MaxEvents = 1
SPECIFICATION FairSpec
INVARIANTS TypeOK SameVersionSameLocks
PROPERTIES BackOnlyAfterRestart LocksFollow
