\* A late sync answer and a newer slot: one slot is enough.
CONSTANTS
    a = a  b = b  s1 = s1  s2 = s2
    Users = {a, b}
    Pages = {a}
    Items = {s1}
    MaxPatches = 2
    MaxVersion = 3
    Faults = {}
    Nobody = Nobody  NoVersion = NoVersion  Idle = Idle
SPECIFICATION Spec
PROPERTIES NoRollback
