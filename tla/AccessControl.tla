---------------------------- MODULE AccessControl ----------------------------
(***************************************************************************)
(* Who may do what, and who sees what, while rights come and go:           *)
(* AdminSessions, the require... checks of the handlers, teamAccess and    *)
(* regenerateAccessGateToken of backend-cpp/src/main.cpp, and the          *)
(* visibility key by which /sync and a page of frontend/src/App.tsx agree  *)
(* on what the page is allowed to show.                                    *)
(*                                                                         *)
(* A handler checks rights first, in critical sections of their own, and   *)
(* changes the board in a later one.  An administrator's session ends by   *)
(* logout, after its time, or with the process; the shared invite token    *)
(* stops counting when another is generated; a team is hidden or opened by *)
(* an administrator, or opens at its time.  One team is enough to tell     *)
(* rights apart.  Which change a request makes is the business of          *)
(* SlotBoard and TeamShelf, how pages learn of openings of Publication.    *)
(***************************************************************************)
EXTENDS Naturals, Sequences

CONSTANTS
    Qqs,        \* users
    Admins,     \* the administrators of admin.json
    Viewer,     \* the user of the page that is followed
    Requests,   \* requests under way at once
    Ttl,        \* kSessionTtlMs
    MaxTime,    \* bound of the model: the clock
    MaxTokens,  \* bound of the model: sessions ever created
    MaxInvites, \* bound of the model: invite tokens ever generated
    MaxVersion  \* bound of the model: no change at this data version or later

ASSUME AccessAssumption ==
    /\ Admins \subseteq Qqs /\ Viewer \in Qqs
    /\ Ttl \in Nat \ {0}
    /\ MaxTime \in Nat /\ MaxTokens \in Nat
    /\ MaxInvites \in Nat \ {0} /\ MaxVersion \in Nat \ {0}

VARIABLES
    now,        \* nowMs()
    sessions,   \* sessions_
    issued,     \* how many session tokens were generated
    invite,     \* the invite token of access_gate; the n-th generated is n
    opensAt,    \* when the team is public; Never if it is not for signup
    version,    \* dataVersionCache_
    base,       \* the oldest version from which dataPatches_ lead to version
    req,        \* the requests under way
    token,      \* the session token the page holds
    link,       \* the invite token the page was opened with
    cursor,     \* dataVersionRef; 0 is null
    key,        \* visibilityKeyRef
    shows,      \* whether the page shows the team
    call,       \* the page's sync
    plain       \* history: the last sync applied began without any special right

clockwork == <<now, sessions, issued>>
board     == <<invite, opensAt, version, base>>
page      == <<token, link, cursor, key, shows, call, plain>>
vars      == <<clockwork, board, req, page>>

-----------------------------------------------------------------------------
None     == 0
Never    == MaxTime + 1
Times    == 0 .. MaxTime
Tokens   == 1 .. MaxTokens
Invites  == 1 .. MaxInvites
Versions == 1 .. MaxVersion
Keys     == {"", "public", "invite", "admin"}

\* the rights a handler asks for, in its order
Checks == [seat    |-> <<"team">>,           \* one's own seat, subsidy, lock
           proxy   |-> <<"team", "admin">>,  \* a seat for somebody else
           subsidy |-> <<"admin", "team">>,  \* a subsidy for somebody else
           patch   |-> <<"admin">>,          \* patchTeam, the publication fields
           renew   |-> <<"admin">>]          \* access-gate/token

Ops       == DOMAIN Checks
Idle      == [op |-> "none"]
Openings  == {0, MaxTime, Never}            \* at once, later, not for signup
Under     == [op : Ops, qq : Qqs, token : Tokens \cup {None}, link : Invites \cup {None},
              opens : Openings, left : 0 .. 2,
              asAdmin : BOOLEAN, invited : BOOLEAN, saw : BOOLEAN]
NoCall    == [phase |-> "none"]
Calls     == {NoCall}
               \cup [phase : {"asked", "data"}, admin : BOOLEAN, plain : BOOLEAN]
               \cup [phase : {"same"}, key : Keys, plain : BOOLEAN]
               \cup [phase : {"patches"}, key : Keys, to : Versions, plain : BOOLEAN]
               \cup [phase : {"snapshot"}, key : Keys, to : Versions, team : BOOLEAN,
                     plain : BOOLEAN]

Public == opensAt <= now

Sessions == [token : Tokens, qq : Qqs, expires : Nat]

\* mutant: sessions count until somebody cleans up
IsValidUntilCleaned(qq, t) == \E s \in sessions : s.token = t /\ s.qq = qq

\* AdminSessions::isValid
IsValid(qq, t) == \E s \in sessions : s.token = t /\ s.qq = qq /\ s.expires > now

\* isAdminRequest
IsAdminRequest(qq, t) == qq \in Admins /\ IsValid(qq, t)

\* cleanExpiredLocked
Clean == {s \in sessions : s.expires > now}

\* viewerVisibilityUnlocked
KeyOf(admin, inviteToken) ==
    IF admin THEN "admin" ELSE IF inviteToken = invite THEN "invite" ELSE "public"

Sees(k) == k \in {"admin", "invite"} \/ Public

-----------------------------------------------------------------------------
\* Sessions and time.

\* the history of the requests under way, when the team is public or not
Seen(rs, public) ==
    [r \in Requests |-> IF rs[r] = Idle THEN Idle ELSE [rs[r] EXCEPT !.saw = @ \/ public]]

Tick ==
    /\ now < MaxTime
    /\ now' = now + 1
    /\ req' = Seen(req, opensAt <= now + 1)
    /\ UNCHANGED <<sessions, issued, board, page>>

\* mutant: the next session gets the same token
CreateUncounted(qq) ==
    /\ issued < MaxTokens
    /\ sessions' = Clean \cup {[token |-> issued + 1, qq |-> qq, expires |-> now + Ttl]}
    /\ UNCHANGED issued

\* AdminSessions::create
Create(qq) ==
    /\ issued < MaxTokens
    /\ sessions' = Clean \cup {[token |-> issued + 1, qq |-> qq, expires |-> now + Ttl]}
    /\ issued' = issued + 1

\* admin/login with the right password, from another client
Login(qq) ==
    /\ qq \in Admins
    /\ Create(qq)
    /\ UNCHANGED <<now, board, req, page>>

\* admin/logout: revoke
Logout(t) ==
    /\ sessions' = {s \in sessions : s.token # t}
    /\ UNCHANGED <<now, issued, board, req, page>>

\* The process starts again: the sessions were in memory, and requests and
\* syncs go with their connections.
Restart ==
    /\ sessions' = {}
    /\ base' = version
    /\ req' = [r \in Requests |-> Idle]
    /\ call' = NoCall
    /\ UNCHANGED <<now, issued, invite, opensAt, version, token, link, cursor, key, shows,
                   plain>>

-----------------------------------------------------------------------------
\* Requests.

\* history: the sender is an administrator with a session of his own, not yet ended
Entitled(qq, t) ==
    qq \in Admins /\ [token |-> t, qq |-> qq] \in {[token |-> s.token, qq |-> s.qq] :
                                                 s \in {x \in sessions : now < x.expires}}

\* Anybody may send anything he has got hold of.
Arrive(r, op, qq, t, l, opens) ==
    /\ req[r] = Idle
    /\ t <= issued /\ l <= invite
    /\ op # "patch" => opens = 0
    /\ Checks[op] = <<"admin">> => l = None
    /\ req' = [req EXCEPT ![r] =
           [op |-> op, qq |-> qq, token |-> t, link |-> l, opens |-> opens,
            left |-> Len(Checks[op]),
            asAdmin |-> Entitled(qq, t), invited |-> l = invite, saw |-> Public]]
    /\ UNCHANGED <<clockwork, board, page>>

\* the check a request has come to
Current(q) == Checks[q.op][Len(Checks[q.op]) + 1 - q.left]

\* mutant: a team that is not for signup counts as public from the start
PassesUnlessDated(q) ==
    \/ IsAdminRequest(q.qq, q.token)
    \/ Current(q) = "team" /\ (KeyOf(FALSE, q.link) = "invite" \/ Public \/ opensAt = Never)

\* requireAdmin, requireAdminQq, requireSelfOrAdmin; requireTeamAccess with teamAccess
Passes(q) ==
    \/ IsAdminRequest(q.qq, q.token)
    \/ Current(q) = "team" /\ Sees(KeyOf(FALSE, q.link))

Check(r) ==
    /\ req[r] # Idle /\ req[r].left > 0
    /\ req' = [req EXCEPT ![r] = IF Passes(req[r]) THEN [req[r] EXCEPT !.left = @ - 1]
                                                   ELSE Idle]
    /\ sessions' = IF req[r].qq \in Admins /\ req[r].token # None THEN Clean ELSE sessions
    /\ UNCHANGED <<now, issued, board, page>>

\* bumpDataVersionUnlocked, and with the patches dropped
Bump         == version < MaxVersion /\ version' = version + 1
BumpAndClear == Bump /\ base' = version + 1

\* The handler's own transaction, some time after its checks.
Commit(r) ==
    /\ req[r] # Idle /\ req[r].left = 0
    /\ CASE req[r].op = "patch" -> BumpAndClear /\ opensAt' = req[r].opens /\ UNCHANGED invite
         [] req[r].op = "renew" -> /\ invite < MaxInvites /\ invite' = invite + 1
                                   /\ BumpAndClear /\ UNCHANGED opensAt
         [] OTHER -> Bump /\ UNCHANGED <<base, opensAt, invite>>
    /\ req' = Seen([req EXCEPT ![r] = Idle], opensAt' <= now)
    /\ UNCHANGED <<clockwork, page>>

-----------------------------------------------------------------------------
\* The page of an administrator, or of a guest with or without an invitation.

\* handleAdminPasswordLogin: a new session and a fresh cursor
PageLogin ==
    /\ Viewer \in Admins
    /\ Create(Viewer)
    /\ token' = issued + 1
    /\ cursor' = None /\ key' = "" /\ call' = NoCall
    /\ UNCHANGED <<now, board, req, link, shows, plain>>

\* handleLogout, handleLogin; the revocation it sends may come late or never
PageLogout ==
    /\ token' = None
    /\ cursor' = None /\ key' = "" /\ call' = NoCall
    /\ UNCHANGED <<clockwork, board, req, link, shows, plain>>

\* /sync: the handler looks at the session
BeginSync ==
    /\ call = NoCall
    /\ LET admin == IsAdminRequest(Viewer, token)
       IN  call' = [phase |-> "asked", admin |-> admin, plain |-> ~admin /\ link # invite]
    /\ sessions' = IF Viewer \in Admins /\ token # None THEN Clean ELSE sessions
    /\ UNCHANGED <<now, issued, board, req, token, link, cursor, key, shows, plain>>

\* mutant: /sync does not look at what the page was allowed before
PlanSyncKeyless ==
    /\ call.phase = "asked"
    /\ LET k == KeyOf(call.admin, link)
       IN  call' = IF cursor = version THEN [phase |-> "same", key |-> k, plain |-> call.plain]
                   ELSE IF cursor >= base
                        THEN [phase |-> "patches", key |-> k, to |-> version, plain |-> call.plain]
                        ELSE [call EXCEPT !.phase = "data"]
    /\ UNCHANGED <<clockwork, board, req, token, link, cursor, key, shows, plain>>

\* sync(): its first critical section compares keys and versions
PlanSync ==
    /\ call.phase = "asked"
    /\ LET k       == KeyOf(call.admin, link)
           changed == key # "" /\ key # k
       IN  call' = IF ~changed /\ cursor = version
                   THEN [phase |-> "same", key |-> k, plain |-> call.plain]
                   ELSE IF ~changed /\ cursor >= base
                        THEN [phase |-> "patches", key |-> k, to |-> version, plain |-> call.plain]
                        ELSE [call EXCEPT !.phase = "data"]
    /\ UNCHANGED <<clockwork, board, req, token, link, cursor, key, shows, plain>>

\* bootstrap(): another critical section, with a key of its own
FetchData ==
    /\ call.phase = "data"
    /\ LET k == KeyOf(call.admin, link)
       IN  call' = [phase |-> "snapshot", key |-> k, to |-> version, team |-> Sees(k),
                    plain |-> call.plain]
    /\ UNCHANGED <<clockwork, board, req, token, link, cursor, key, shows, plain>>

LoseSync ==
    /\ call # NoCall
    /\ call' = NoCall
    /\ UNCHANGED <<clockwork, board, req, token, link, cursor, key, shows, plain>>

\* syncServerChanges; the patches of a slot show no other teams
SyncArrives ==
    /\ call.phase \in {"same", "patches", "snapshot"}
    /\ key' = call.key
    /\ cursor' = IF call.phase = "same" THEN cursor ELSE call.to
    /\ shows' = IF call.phase = "snapshot" THEN call.team ELSE shows
    /\ plain' = call.plain
    /\ call' = NoCall
    /\ UNCHANGED <<clockwork, board, req, token, link>>

-----------------------------------------------------------------------------
Init ==
    /\ now = 0
    /\ sessions = {} /\ issued = 0
    /\ invite = 1
    /\ opensAt \in {0, Never}
    /\ version = 1 /\ base = 1
    /\ req = [r \in Requests |-> Idle]
    /\ token = None
    /\ link \in {None, 1}
    /\ cursor = None /\ key = "" /\ shows = FALSE /\ call = NoCall /\ plain = FALSE

SessionStep ==
    \/ \E qq \in Qqs : Login(qq)
    \/ \E s \in sessions : Logout(s.token)
    \/ Restart

RequestStep(r) ==
    \/ \E op \in Ops, qq \in Qqs, t \in 0 .. issued, l \in 0 .. invite, o \in Openings :
           Arrive(r, op, qq, t, l, o)
    \/ Check(r) \/ Commit(r)

PageStep ==
    \/ PageLogin \/ PageLogout
    \/ BeginSync \/ PlanSync \/ FetchData \/ LoseSync \/ SyncArrives

Next ==
    \/ Tick
    \/ SessionStep
    \/ \E r \in Requests : RequestStep(r)
    \/ PageStep

Spec == Init /\ [][Next]_vars

-----------------------------------------------------------------------------
TypeOK ==
    /\ now \in Times
    /\ sessions \subseteq Sessions /\ issued \in 0 .. MaxTokens
    /\ \A s \in sessions : s.token <= issued /\ s.expires <= now + Ttl
    /\ \A s1, s2 \in sessions : s1.token = s2.token => s1 = s2
    /\ invite \in Invites
    /\ opensAt \in Times \cup {Never}
    /\ version \in Versions /\ base \in Versions
    /\ req \in [Requests -> Under \cup {Idle}]
    /\ token \in Tokens \cup {None}
    /\ link \in Invites \cup {None}
    /\ cursor \in Versions \cup {None}
    /\ key \in Keys
    /\ shows \in BOOLEAN
    /\ call \in Calls
    /\ plain \in BOOLEAN

\* request r has passed the check c, be it not committed yet
Passed(q, c) == \E i \in 1 .. Len(Checks[q.op]) - q.left : Checks[q.op][i] = c

\* A request that passed as an administrator's had a session when it arrived:
\* what arrives after a logout, after twelve hours or after a restart is
\* refused, however long its handler waits between its checks and its change.
AdminInForce ==
    \A r \in Requests : req[r] # Idle /\ Passed(req[r], "admin") => req[r].asAdmin

\* A request that is let to a hidden team was on its way when the team was
\* still public, or when its sender was an administrator or invited.  (It may
\* be: its handler does not look again when it commits.)
HiddenOnlyLate ==
    \A r \in Requests : req[r] # Idle /\ Passed(req[r], "team") =>
        req[r].saw \/ req[r].asAdmin \/ req[r].invited

\* A page at the server's version shows what its visibility key stands for,
\* although rights end without a new version and an answer takes its key and
\* its data at different moments; and a sync that began without special
\* rights leaves none.
PageShowsItsView ==
    cursor # None /\ cursor = version =>
        /\ key = "public" /\ shows => Public
        /\ key \in {"admin", "invite"} => shows
        /\ plain => key = "public"
=============================================================================
