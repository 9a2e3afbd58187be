\* A page, changes from elsewhere, two slots, patches that run out;
\* that a slot is taken or free is all that is told apart, so one user is enough.
CONSTANTS
    a = a  b = b  s1 = s1  s2 = s2
    Users = {a}
    Pages = {a}
    Items = {s1, s2}
    MaxPatches = 2
    MaxVersion = 3
    Faults = {}
    Nobody = Nobody  NoVersion = NoVersion  Idle = Idle
SPECIFICATION FairSpec
INVARIANTS TypeOK SameVersionSameData
PROPERTIES Converges
