\* Teams come and go, are ordered, archived and restored, with subsidies.
CONSTANTS
    a = a  b = b  c = c  u = u  g = g  w = w
    Ids = {a, b, c}
    Stamps = {1}
    Users = {u}
    Types = {g}
    Weeks = {w}
    MaxBoard = 4
    MaxOrder = 4
    Funded = {1}
    NoRow = NoRow  NoWeek = NoWeek
SPECIFICATION Spec
SYMMETRY AnyId
INVARIANTS TypeOK PlacesDistinct OnePlace DanglingOnlyIfLate
PROPERTIES ReorderObeyed
