\* Two posts, a page, a server that may start again; fairness.
CONSTANTS
    x1 = x1  x2 = x2  g = g
    Posts = {x1, x2}
    Pages = {g}
    MaxTime = 4
    MaxEdits = 4
SPECIFICATION FairSpec
INVARIANTS TypeOK CacheCorrect StaleIsDue
PROPERTY OpenPagesFollow
