\* A request and a page, while sessions, invitations and publication change.
CONSTANTS
    a = a  u = u  r1 = r1  r2 = r2
    Qqs = {a, u}
    Admins = {a}
    Viewer = a
    Requests = {r1}
    Ttl = 1
    MaxTime = 2
    MaxTokens = 1
    MaxInvites = 2
    MaxVersion = 3
SPECIFICATION Spec
INVARIANTS TypeOK AdminInForce HiddenOnlyLate PageShowsItsView
