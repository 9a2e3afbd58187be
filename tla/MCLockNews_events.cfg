\* A slot and the team lock, a page that only listens; no restart.
CONSTANTS
    s1 = s1  s2 = s2  t = t
    Seats = {s1}
    Team = t
    Polls = FALSE
    MaxRestarts = 0
    MaxVersion = 3
    MaxEvents = 2
SPECIFICATION FairSpec

PROPERTY EventsSuffice
