----------------------------- MODULE AccessProofs -----------------------------
(***************************************************************************)
(* Proofs about AccessControl, for any users, requests and bounds: rights  *)
(* a request was let through with are rights it had on its way.            *)
(*                                                                         *)
(* Requests pass their checks one by one, and what they rest on may end in *)
(* between.  The invariant therefore says more than the two properties: a  *)
(* request under way that would pass a check now is already known to have  *)
(* had the right.  No later step gives it one, since a session created     *)
(* later has a token that did not exist when the request was sent, and an  *)
(* invite token generated later is another than the request's.             *)
(*                                                                         *)
(* For what a page shows the invariant follows an answer from the moment   *)
(* it has taken its key to the moment the page applies it.  What a key     *)
(* stands for changes only with a version no patch leads to, or in favour  *)
(* of those who see nothing; so a page that patches can still reach shows  *)
(* what its key stands for.                                                *)
(***************************************************************************)
EXTENDS AccessControl, TLAPS

\* The part of TypeOK that the argument needs.
Typed ==
    /\ now \in Nat
    /\ issued \in 0 .. MaxTokens
    /\ sessions \subseteq Sessions
    /\ \A s \in sessions : s.token <= issued
    /\ invite \in Invites
    /\ opensAt \in Nat
    /\ req \in [Requests -> Under \cup {Idle}]

\* A request under way was sent with what existed, ...
Grounded(q) ==
    /\ q.token <= issued
    /\ q.link <= invite
    /\ q.left <= Len(Checks[q.op])

\* ... what it would pass a check with now it had on its way, ...
Recorded(q) ==
    /\ Public => q.saw
    /\ IsAdminRequest(q.qq, q.token) => q.asAdmin
    /\ q.link = invite => q.invited

\* ... and so it had what it passed its checks with.
Earned(q) ==
    /\ Passed(q, "admin") => q.asAdmin
    /\ Passed(q, "team") => q.saw \/ q.asAdmin \/ q.invited

Sound == \A r \in Requests : req[r] # Idle => Grounded(req[r]) /\ Recorded(req[r]) /\ Earned(req[r])

IInv == Typed /\ Sound

-----------------------------------------------------------------------------
\* Every operation asks for one or two rights.
LEMMA ChecksType ==
    /\ Ops = {"seat", "proxy", "subsidy", "patch", "renew"}
    /\ \A op \in Ops : Len(Checks[op]) \in 1 .. 2
BY DEF Ops, Checks

\* The absence of a request is no request.
LEMMA IdleIsNone == Idle \notin Under
<1>1. Idle.op = "none"
  BY DEF Idle
<1>2. \A q \in Under : q.op \in Ops
  BY DEF Under
<1>3. "none" \notin Ops
  BY ChecksType
<1> QED  BY <1>1, <1>2, <1>3

\* A step after which time has not gone back, and whose new sessions have new
\* tokens, makes no request an administrator's that was not.
LEMMA NoNewAdmin ==
    ASSUME Typed, now' \in Nat, now <= now',
           \A s \in sessions' : s \in sessions \/ s.token > issued
    PROVE  \A q \in Under : q.token <= issued /\ IsAdminRequest(q.qq, q.token)'
                                => IsAdminRequest(q.qq, q.token)
<1> SUFFICES ASSUME NEW q \in Under, q.token <= issued, q.qq \in Admins,
                    NEW s \in sessions', s.token = q.token, s.qq = q.qq, s.expires > now'
             PROVE  IsValid(q.qq, q.token)
  BY DEF IsAdminRequest, IsValid
<1>1. q.token \in Nat
  BY AccessAssumption DEF Under, Tokens, None
<1>2. s \in sessions
  BY <1>1 DEF Typed
<1>3. s.expires \in Nat
  BY <1>2 DEF Typed, Sessions
<1> QED  BY <1>2, <1>3 DEF IsValid, Typed

\* What one check leads to: the rights passed are those before and its own.
LEMMA OneCheck ==
    ASSUME NEW q \in Under, q.left \in 1 .. Len(Checks[q.op]), NEW c
    PROVE  /\ [q EXCEPT !.left = @ - 1] \in Under
           /\ Passed([q EXCEPT !.left = @ - 1], c) => Passed(q, c) \/ Current(q) = c
<1> DEFINE p == [q EXCEPT !.left = @ - 1]
<1>1. q.left \in 1 .. 2 /\ Len(Checks[q.op]) \in 1 .. 2
  BY ChecksType DEF Under
<1>2. p \in Under
  BY <1>1 DEF Under
<1>3. p.op = q.op /\ p.left = q.left - 1
  BY DEF Under
<1>4. ASSUME Passed(p, c) PROVE Passed(q, c) \/ Current(q) = c
  <2>1. PICK i \in 1 .. Len(Checks[q.op]) - (q.left - 1) : Checks[q.op][i] = c
    BY <1>3, <1>4 DEF Passed
  <2>2. CASE i = Len(Checks[q.op]) + 1 - q.left
    BY <2>1, <2>2 DEF Current
  <2>3. CASE i # Len(Checks[q.op]) + 1 - q.left
    <3>1. i \in 1 .. Len(Checks[q.op]) - q.left
      BY <1>1, <2>1, <2>3
    <3> QED  BY <2>1, <3>1 DEF Passed
  <2> QED  BY <2>2, <2>3
<1> QED  BY <1>2, <1>4

-----------------------------------------------------------------------------
\* A step that leaves the requests, the clock and the board alone keeps what
\* is known of the requests.
LEMMA QuietSteps ==
    ASSUME IInv, UNCHANGED <<now, req, invite, opensAt>>,
           issued' \in 0 .. MaxTokens, issued <= issued',
           sessions' \subseteq Sessions,
           \A s \in sessions' : s.token <= issued',
           \A s \in sessions' : s \in sessions \/ s.token > issued
    PROVE  IInv'
<1>1. Typed'
  BY DEF IInv, Typed
<1>2. ASSUME NEW r \in Requests, req[r] # Idle
      PROVE  (Grounded(req[r]) /\ Recorded(req[r]) /\ Earned(req[r]))'
  <2>1. req[r] \in Under /\ req[r].token \in Nat
    BY <1>2, AccessAssumption DEF IInv, Typed, Under, Tokens, None
  <2>2. Grounded(req[r]) /\ Recorded(req[r]) /\ Earned(req[r])
    BY <1>2 DEF IInv, Sound
  <2>3. Grounded(req[r])'
    BY <2>1, <2>2 DEF Grounded, IInv, Typed
  <2>4. IsAdminRequest(req[r].qq, req[r].token)' => IsAdminRequest(req[r].qq, req[r].token)
    BY <2>1, <2>2, NoNewAdmin DEF Grounded, IInv, Typed, IsAdminRequest, IsValid
  <2>5. Recorded(req[r])'
    BY <2>2, <2>4 DEF Recorded, Public
  <2>6. Earned(req[r])'
    BY <2>2 DEF Earned, Passed
  <2> QED  BY <2>3, <2>5, <2>6
<1> QED  BY <1>1, <1>2 DEF IInv, Sound

\* cleanExpiredLocked and logins give no token that existed before.
LEMMA CleanKeeps ==
    ASSUME Typed
    PROVE  /\ Clean \subseteq sessions
           /\ \A qq \in Qqs : Create(qq) =>
                /\ issued' = issued + 1 /\ issued' \in 0 .. MaxTokens
                /\ sessions' \subseteq Sessions
                /\ \A s \in sessions' : s.token <= issued'
                /\ \A s \in sessions' : s \in sessions \/ s.token > issued
<1>1. Clean \subseteq sessions
  BY DEF Clean
<1>2. ASSUME NEW qq \in Qqs, Create(qq)
      PROVE  /\ issued' = issued + 1 /\ issued' \in 0 .. MaxTokens
             /\ sessions' \subseteq Sessions
             /\ \A s \in sessions' : s.token <= issued'
             /\ \A s \in sessions' : s \in sessions \/ s.token > issued
  <2> DEFINE new == [token |-> issued + 1, qq |-> qq, expires |-> now + Ttl]
  <2>1. issued' = issued + 1 /\ issued' \in 0 .. MaxTokens
    BY <1>2, AccessAssumption DEF Create, Typed
  <2>2. new \in Sessions /\ new.token = issued + 1
    BY <1>2, AccessAssumption DEF Create, Typed, Sessions, Tokens
  <2>3. sessions' = Clean \cup {new}
    BY <1>2 DEF Create
  <2>4. \A s \in sessions : s \in Sessions /\ s.token <= issued /\ s.token \in Nat
    BY AccessAssumption DEF Typed, Sessions, Tokens
  <2> QED  BY <1>1, <2>1, <2>2, <2>3, <2>4 DEF Typed
<1> QED  BY <1>1, <1>2

\* What happens to pages and sessions alone.
LEMMA SessionsKeep ==
    ASSUME IInv, (\E qq \in Qqs : Login(qq)) \/ (\E s \in sessions : Logout(s.token)) \/ PageStep
    PROVE  IInv'
<1> USE DEF IInv
<1>0. Typed /\ Clean \subseteq sessions
  BY CleanKeeps
<1>1. CASE \E qq \in Qqs : Login(qq)
  <2>1. PICK qq \in Qqs : Login(qq)
    BY <1>1
  <2>2. Create(qq) /\ UNCHANGED <<now, req, invite, opensAt>>
    BY <2>1 DEF Login, board
  <2> QED  BY <2>2, CleanKeeps, QuietSteps DEF Typed
<1>2. CASE \E s \in sessions : Logout(s.token)
  <2>1. /\ sessions' \subseteq sessions
        /\ UNCHANGED <<now, issued, req, invite, opensAt>>
    BY <1>2 DEF Logout, board
  <2> QED  BY <2>1, QuietSteps DEF Typed
<1>3. CASE PageLogin
  <2>1. Create(Viewer) /\ UNCHANGED <<now, req, invite, opensAt>> /\ Viewer \in Qqs
    BY <1>3, AccessAssumption DEF PageLogin, board
  <2> QED  BY <2>1, CleanKeeps, QuietSteps DEF Typed
<1>4. CASE BeginSync
  <2>1. /\ sessions' \subseteq sessions
        /\ UNCHANGED <<now, issued, req, invite, opensAt>>
    BY <1>0, <1>4 DEF BeginSync, board
  <2> QED  BY <2>1, QuietSteps DEF Typed
<1>5. CASE PageLogout \/ PlanSync \/ FetchData \/ LoseSync \/ SyncArrives
  <2>1. UNCHANGED <<now, sessions, issued, req, invite, opensAt>>
    BY <1>5 DEF PageLogout, PlanSync, FetchData, LoseSync, SyncArrives, clockwork, board
  <2> QED  BY <2>1, QuietSteps DEF Typed
<1> QED  BY <1>1, <1>2, <1>3, <1>4, <1>5 DEF PageStep

\* Time: sessions end, and a team that opens is noted.
LEMMA TickKeeps == ASSUME IInv, Tick PROVE IInv'
<1> USE DEF IInv
<1>1. /\ now' = now + 1 /\ now' \in Nat
      /\ UNCHANGED <<sessions, issued, invite, opensAt>>
      /\ req' = Seen(req, opensAt <= now + 1)
  BY DEF Tick, board, Typed
<1>2. ASSUME NEW r \in Requests
      PROVE  /\ req'[r] \in Under \cup {Idle}
             /\ req'[r] # Idle =>
                  /\ req[r] # Idle /\ req[r] \in Under
                  /\ req'[r] = [req[r] EXCEPT !.saw = @ \/ (opensAt <= now + 1)]
  <2>1. req[r] \in Under \cup {Idle}
    BY DEF Typed
  <2>2. CASE req[r] = Idle
    BY <1>1, <2>2 DEF Seen
  <2>3. CASE req[r] # Idle
    <3>1. req'[r] = [req[r] EXCEPT !.saw = @ \/ (opensAt <= now + 1)]
      BY <1>1, <2>3 DEF Seen
    <3>2. (req[r].saw \/ (opensAt <= now + 1)) \in BOOLEAN
      OBVIOUS
    <3>3. req'[r] \in Under
      BY <2>1, <2>3, <3>1, <3>2 DEF Under
    <3> QED  BY <2>1, <2>3, <3>1, <3>3
  <2> QED  BY <2>2, <2>3
<1>3. Typed'
  BY <1>1, <1>2 DEF Typed, Seen
<1>4. ASSUME NEW r \in Requests, req'[r] # Idle
      PROVE  (Grounded(req[r]) /\ Recorded(req[r]) /\ Earned(req[r]))'
  <2> DEFINE p == req'[r]
             q == req[r]
  <2>1. q \in Under /\ q # Idle /\ p \in Under
    BY <1>2, <1>4
  <2>2. /\ p.op = q.op /\ p.qq = q.qq /\ p.token = q.token /\ p.link = q.link
        /\ p.left = q.left /\ p.asAdmin = q.asAdmin /\ p.invited = q.invited
        /\ p.saw = (q.saw \/ (opensAt <= now + 1))
    BY <1>2, <1>4, <2>1 DEF Under
  <2>3. Grounded(q) /\ Recorded(q) /\ Earned(q)
    BY <2>1 DEF Sound
  <2>4. Grounded(req[r])'
    BY <1>1, <2>2, <2>3 DEF Grounded
  <2>5. q.qq \in Admins /\ (\E s \in sessions' : s.token = q.token /\ s.qq = q.qq /\ s.expires > now')
          => IsAdminRequest(q.qq, q.token)
    <3>1. now <= now' /\ now' \in Nat
      BY <1>1 DEF Typed
    <3>2. \A s \in sessions' : s \in sessions \/ s.token > issued
      BY <1>1
    <3> QED  BY <2>1, <2>3, <3>1, <3>2, NoNewAdmin DEF Grounded, IsAdminRequest, IsValid
  <2>6. Recorded(req[r])'
    BY <1>1, <2>2, <2>3, <2>5 DEF Recorded, Public, IsAdminRequest, IsValid
  <2>7. Earned(req[r])'
    BY <2>2, <2>3 DEF Earned, Passed
  <2> QED  BY <2>4, <2>6, <2>7
<1> QED  BY <1>3, <1>4 DEF Sound

\* A request that arrives is recorded with the rights it has then.
LEMMA ArriveKeeps ==
    ASSUME IInv, NEW r \in Requests, NEW op \in Ops, NEW qq \in Qqs, NEW t \in 0 .. issued,
           NEW l \in 0 .. invite, NEW o \in Openings, Arrive(r, op, qq, t, l, o)
    PROVE  IInv'
<1> USE DEF IInv
<1> DEFINE q == [op |-> op, qq |-> qq, token |-> t, link |-> l, opens |-> o,
                 left |-> Len(Checks[op]),
                 asAdmin |-> Entitled(qq, t), invited |-> l = invite, saw |-> Public]
<1>1. /\ req' = [req EXCEPT ![r] = q]
      /\ UNCHANGED <<now, sessions, issued, invite, opensAt>>
  BY DEF Arrive, clockwork, board
<1>2. /\ Entitled(qq, t) \in BOOLEAN /\ (l = invite) \in BOOLEAN /\ Public \in BOOLEAN
      /\ Len(Checks[op]) \in 0 .. 2
  BY ChecksType DEF Entitled, Public
<1>3. t \in Tokens \cup {None} /\ l \in Invites \cup {None}
  BY AccessAssumption DEF Typed, Tokens, Invites, None
<1>4. q \in Under
  BY <1>2, <1>3 DEF Under
<1>5. Typed'
  BY <1>1, <1>4 DEF Typed
<1>6. ASSUME NEW x \in Requests, req'[x] # Idle
      PROVE  (Grounded(req[x]) /\ Recorded(req[x]) /\ Earned(req[x]))'
  <2>1. CASE x # r
    <3>1. req'[x] = req[x]
      BY <1>1, <2>1 DEF Typed
    <3>2. Grounded(req[x]) /\ Recorded(req[x]) /\ Earned(req[x])
      BY <1>6, <3>1 DEF Sound
    <3> QED  BY <1>1, <3>1, <3>2
             DEF Grounded, Recorded, Earned, Passed, Public, IsAdminRequest, IsValid
  <2>2. CASE x = r
    <3>1. req'[x] = q
      BY <1>1, <2>2 DEF Typed
    <3>2. Grounded(req[x])'
      BY <1>1, <3>1, ChecksType DEF Grounded
    <3>3. IsAdminRequest(qq, t) => Entitled(qq, t)
      <4> SUFFICES ASSUME qq \in Admins, NEW s \in sessions, s.token = t, s.qq = qq,
                          s.expires > now
                   PROVE  Entitled(qq, t)
        BY DEF IsAdminRequest, IsValid
      <4>1. s.expires \in Nat /\ now \in Nat
        BY DEF Typed, Sessions
      <4>2. s \in {z \in sessions : now < z.expires}
        BY <4>1
      <4> QED  BY <4>2 DEF Entitled
    <3>4. Recorded(req[x])'
      <4>1. /\ req'[x].qq = qq /\ req'[x].token = t /\ req'[x].link = l
            /\ req'[x].asAdmin = Entitled(qq, t)
            /\ req'[x].invited = (l = invite) /\ req'[x].saw = Public
        BY <3>1
      <4>2. Public' => req'[x].saw
        BY <1>1, <4>1 DEF Public
      <4>3. IsAdminRequest(req[x].qq, req[x].token)' => req'[x].asAdmin
        BY <1>1, <3>3, <4>1 DEF IsAdminRequest, IsValid
      <4>4. (req[x].link = invite)' => req'[x].invited
        BY <1>1, <4>1
      <4> QED  BY <4>2, <4>3, <4>4 DEF Recorded
    <3>5. Earned(req[x])'
      <4>1. 1 .. Len(Checks[op]) - Len(Checks[op]) = {}
        BY ChecksType
      <4> QED  BY <3>1, <4>1 DEF Earned, Passed
    <3> QED  BY <3>2, <3>4, <3>5
  <2> QED  BY <2>1, <2>2
<1> QED  BY <1>5, <1>6 DEF Sound

\* A check is passed with a right that is recorded.
LEMMA CheckKeeps == ASSUME IInv, NEW r \in Requests, Check(r) PROVE IInv'
<1> USE DEF IInv
<1> DEFINE q == req[r]
           p == [q EXCEPT !.left = @ - 1]
<1>0. sessions' \subseteq sessions
  BY CleanKeeps DEF Check
<1>1. /\ q # Idle /\ q.left > 0
      /\ req' = [req EXCEPT ![r] = IF Passes(q) THEN p ELSE Idle]
      /\ sessions' \subseteq sessions
      /\ UNCHANGED <<now, issued, invite, opensAt>>
  <2>1. UNCHANGED <<now, issued, board>>
    BY DEF Check
  <2>2. UNCHANGED <<invite, opensAt>>
    BY <2>1 DEF board
  <2>3. /\ req[r] # Idle /\ req[r].left > 0
        /\ req' = [req EXCEPT ![r] = IF Passes(req[r]) THEN [req[r] EXCEPT !.left = @ - 1] ELSE Idle]
    BY DEF Check
  <2> QED  BY <1>0, <2>1, <2>2, <2>3
<1>2. q \in Under /\ Grounded(q) /\ Recorded(q) /\ Earned(q)
  BY <1>1 DEF Sound, Typed
<1>3. q.left \in 1 .. Len(Checks[q.op])
  BY <1>1, <1>2, ChecksType DEF Grounded, Under
<1>4. p \in Under /\ \A c : Passed(p, c) => Passed(q, c) \/ Current(q) = c
  BY <1>2, <1>3, OneCheck
<1>5. Typed'
  BY <1>1, <1>4 DEF Typed
<1>6. ASSUME NEW z \in Under, z.token <= issued
      PROVE  z.qq \in Admins /\ (\E s \in sessions' : s.token = z.token /\ s.qq = z.qq /\ s.expires > now)
                => IsAdminRequest(z.qq, z.token)
  BY <1>1 DEF IsAdminRequest, IsValid
<1>7. ASSUME NEW x \in Requests, req'[x] # Idle
      PROVE  (Grounded(req[x]) /\ Recorded(req[x]) /\ Earned(req[x]))'
  <2>1. CASE x # r
    <3>1. req'[x] = req[x] /\ req[x] \in Under
      BY <1>1, <1>7, <2>1 DEF Typed
    <3>2. Grounded(req[x]) /\ Recorded(req[x]) /\ Earned(req[x])
      BY <1>7, <3>1 DEF Sound
    <3>3. Recorded(req[x])'
      BY <1>1, <1>6, <3>1, <3>2 DEF Grounded, Recorded, Public, IsAdminRequest, IsValid
    <3> QED  BY <1>1, <3>1, <3>2, <3>3 DEF Grounded, Earned, Passed
  <2>2. CASE x = r
    <3>1. Passes(q) /\ req'[x] = p
      BY <1>1, <1>7, <2>2 DEF Typed
    <3>2. /\ req'[x].op = q.op /\ req'[x].qq = q.qq /\ req'[x].token = q.token
          /\ req'[x].link = q.link /\ req'[x].saw = q.saw
          /\ req'[x].asAdmin = q.asAdmin /\ req'[x].invited = q.invited
          /\ req'[x].left = q.left - 1
      BY <1>2, <3>1 DEF Under
    <3> HIDE DEF p, q
    <3>3. Grounded(req[x])'
      <4>1. q.left - 1 <= Len(Checks[q.op])
        BY <1>3, <1>2, ChecksType DEF Under
      <4> QED  BY <1>1, <1>2, <3>2, <4>1 DEF Grounded
    <3>4. Recorded(req[x])'
      <4>1. (req[x].link = invite)' => req'[x].invited
        BY <1>1, <1>2, <3>2 DEF Recorded
      <4>2. Public' => req'[x].saw
        BY <1>1, <1>2, <3>2 DEF Recorded, Public
      <4>3. IsAdminRequest(req[x].qq, req[x].token)' => req'[x].asAdmin
        BY <1>1, <1>2, <1>6, <3>2 DEF Grounded, Recorded, IsAdminRequest, IsValid
      <4> QED  BY <4>1, <4>2, <4>3 DEF Recorded
    <3>5. q.asAdmin \/ (Current(q) = "team" /\ (q.saw \/ q.invited))
      BY <1>2, <3>1 DEF Passes, Recorded, Sees, KeyOf
    <3>6. Passed(p, "admin") => q.asAdmin
      BY <1>2, <1>4, <3>5 DEF Earned
    <3>7. Passed(p, "team") => q.saw \/ q.asAdmin \/ q.invited
      BY <1>2, <1>4, <3>5 DEF Earned
    <3>8. Earned(req[x])'
      BY <3>1, <3>2, <3>6, <3>7 DEF Earned, Passed
    <3> QED  BY <3>3, <3>4, <3>8
  <2> QED  BY <2>1, <2>2
<1> QED  BY <1>5, <1>7 DEF Sound

\* A change of the board is noted by the other requests, and an invite token
\* that is generated is none of theirs.
LEMMA CommitKeeps == ASSUME IInv, NEW r \in Requests, Commit(r) PROVE IInv'
<1> USE DEF IInv
<1>1. /\ req[r] # Idle /\ req[r] \in Under
      /\ UNCHANGED <<now, sessions, issued>>
      /\ req' = Seen([req EXCEPT ![r] = Idle], opensAt' <= now)
  BY DEF Commit, clockwork, Typed
<1>2. \/ opensAt' = req[r].opens /\ UNCHANGED invite
      \/ invite < MaxInvites /\ invite' = invite + 1 /\ UNCHANGED opensAt
      \/ UNCHANGED <<opensAt, invite>>
  BY DEF Commit
<1>3. opensAt' \in Nat /\ invite' \in Invites /\ invite \in Nat
      /\ (invite' = invite \/ invite' = invite + 1)
  <2>1. req[r].opens \in Nat
    BY <1>1, AccessAssumption DEF Under, Openings, Never
  <2> QED  BY <1>2, <2>1, AccessAssumption DEF Typed, Invites
<1>4. ASSUME NEW x \in Requests
      PROVE  /\ req'[x] \in Under \cup {Idle}
             /\ req'[x] # Idle =>
                  /\ req[x] # Idle /\ req[x] \in Under
                  /\ req'[x] = [req[x] EXCEPT !.saw = @ \/ (opensAt' <= now)]
  <2> DEFINE rs == [req EXCEPT ![r] = Idle]
  <2>1. rs[x] = Idle \/ (rs[x] = req[x] /\ req[x] \in Under)
    BY DEF Typed
  <2>2. req'[x] = IF rs[x] = Idle THEN Idle ELSE [rs[x] EXCEPT !.saw = @ \/ (opensAt' <= now)]
    BY <1>1 DEF Seen
  <2>3. CASE rs[x] = Idle
    BY <2>2, <2>3
  <2>4. CASE rs[x] # Idle
    <3>1. (req[x].saw \/ (opensAt' <= now)) \in BOOLEAN
      OBVIOUS
    <3>2. [req[x] EXCEPT !.saw = @ \/ (opensAt' <= now)] \in Under
      BY <2>1, <2>4, <3>1 DEF Under
    <3> QED  BY <2>1, <2>2, <2>4, <3>2
  <2> QED  BY <2>3, <2>4
<1>5. Typed'
  BY <1>1, <1>3, <1>4 DEF Typed, Seen
<1>6. ASSUME NEW x \in Requests, req'[x] # Idle
      PROVE  (Grounded(req[x]) /\ Recorded(req[x]) /\ Earned(req[x]))'
  <2> DEFINE p == req'[x]
             q == req[x]
  <2>1. q \in Under /\ q # Idle /\ p \in Under
    BY <1>4, <1>6
  <2>2. /\ p.op = q.op /\ p.qq = q.qq /\ p.token = q.token /\ p.link = q.link
        /\ p.left = q.left /\ p.asAdmin = q.asAdmin /\ p.invited = q.invited
        /\ p.saw = (q.saw \/ (opensAt' <= now))
    BY <1>4, <1>6, <2>1 DEF Under
  <2>3. Grounded(q) /\ Recorded(q) /\ Earned(q)
    BY <2>1 DEF Sound
  <2>4. q.link \in Nat
    BY <2>1, AccessAssumption DEF Under, Invites, None
  <2>5. Grounded(req[x])'
    BY <1>1, <1>3, <2>2, <2>3, <2>4 DEF Grounded
  <2>6. q.link = invite' => q.invited
    BY <1>3, <2>3, <2>4 DEF Grounded, Recorded
  <2>7. Recorded(req[x])'
    BY <1>1, <2>2, <2>3, <2>6 DEF Recorded, Public, IsAdminRequest, IsValid
  <2>8. Earned(req[x])'
    BY <2>2, <2>3 DEF Earned, Passed
  <2> QED  BY <2>5, <2>7, <2>8
<1> QED  BY <1>5, <1>6 DEF Sound

\* A restart leaves no request.
LEMMA RestartKeeps == ASSUME IInv, Restart PROVE IInv'
<1>1. /\ sessions' = {} /\ UNCHANGED <<now, issued, invite, opensAt>>
      /\ req' = [x \in Requests |-> Idle]
  BY DEF Restart
<1> QED  BY <1>1 DEF IInv, Typed, Sound

-----------------------------------------------------------------------------
LEMMA InitSound == Init => IInv
<1> SUFFICES ASSUME Init PROVE IInv
  OBVIOUS
<1>0. opensAt \in {0, Never} /\ invite = 1 /\ issued = 0
  BY DEF Init
<1>1. opensAt \in Nat /\ invite \in Invites /\ issued \in 0 .. MaxTokens
  BY <1>0, AccessAssumption DEF Never, Invites
<1> QED  BY <1>1 DEF Init, IInv, Typed, Sound

LEMMA NextSound == IInv /\ [Next]_vars => IInv'
<1> SUFFICES ASSUME IInv, [Next]_vars PROVE IInv'
  OBVIOUS
<1>1. CASE Tick
  BY <1>1, TickKeeps
<1>2. CASE SessionStep
  BY <1>2, SessionsKeep, RestartKeeps DEF SessionStep
<1>3. ASSUME NEW r \in Requests, RequestStep(r) PROVE IInv'
  BY <1>3, ArriveKeeps, CheckKeeps, CommitKeeps DEF RequestStep
<1>4. CASE PageStep
  BY <1>4, SessionsKeep
<1>5. CASE UNCHANGED vars
  <2>1. UNCHANGED <<now, sessions, issued, req, invite, opensAt>>
    BY <1>5 DEF vars, clockwork, board
  <2> QED  BY <2>1, QuietSteps DEF IInv, Typed
<1> QED  BY <1>1, <1>2, <1>3, <1>4, <1>5 DEF Next

\* The invariant of the two theorems below.
THEOREM AlwaysSound == Spec => []IInv
BY InitSound, NextSound, PTL DEF Spec

\* AdminInForce: a request that passed a check for administrators was sent
\* while its sender had a session, however sessions end in between.
THEOREM AdminInForceHolds == Spec => []AdminInForce
<1>1. IInv => AdminInForce
  BY DEF IInv, Sound, Earned, AdminInForce
<1> QED  BY <1>1, AlwaysSound, PTL

\* HiddenOnlyLate: a request that passed the check of a hidden team was on its
\* way when its sender could see the team.
THEOREM HiddenOnlyLateHolds == Spec => []HiddenOnlyLate
<1>1. IInv => HiddenOnlyLate
  BY DEF IInv, Sound, Earned, HiddenOnlyLate
<1> QED  BY <1>1, AlwaysSound, PTL

-----------------------------------------------------------------------------
(* Types and bounds.                                                        *)

\* Tokens are given once, and no session outlives its time.
SessionsTyped ==
    /\ \A s \in sessions : s.token <= issued /\ s.expires <= now + Ttl
    /\ \A s1, s2 \in sessions : s1.token = s2.token => s1 = s2

BoardTyped ==
    /\ now \in Times /\ invite \in Invites /\ opensAt \in Times \cup {Never}
    /\ version \in Versions /\ base \in Versions

PageTyped ==
    /\ token \in Tokens \cup {None}
    /\ link \in Invites \cup {None}
    /\ cursor \in Versions \cup {None}
    /\ key \in Keys
    /\ shows \in BOOLEAN
    /\ call \in Calls
    /\ plain \in BOOLEAN

TypeInv == IInv /\ SessionsTyped /\ BoardTyped /\ PageTyped

LEMMA NumbersAreNat ==
    /\ Versions \subseteq Nat \ {0} /\ Invites \subseteq Nat \ {0} /\ Tokens \subseteq Nat \ {0}
    /\ Times \subseteq Nat /\ Never \in Nat /\ 1 \in Versions /\ 1 \in Invites
BY AccessAssumption DEF Versions, Invites, Tokens, Times, Never

LEMMA SessionsTypedStep == IInv /\ SessionsTyped /\ [Next]_vars => SessionsTyped'
<1> SUFFICES ASSUME IInv, SessionsTyped, [Next]_vars PROVE SessionsTyped'
  OBVIOUS
<1>0. /\ now \in Nat /\ issued \in Nat /\ Ttl \in Nat
      /\ \A s \in sessions : s.token \in Nat /\ s.expires \in Nat
  <2>1. now \in Nat /\ issued \in Nat /\ Ttl \in Nat
    BY AccessAssumption DEF IInv, Typed
  <2>2. ASSUME NEW s \in sessions PROVE s.token \in Tokens /\ s.expires \in Nat
    BY <2>2 DEF IInv, Typed, Sessions
  <2>3. Tokens \subseteq Nat
    BY NumbersAreNat
  <2> QED  BY <2>1, <2>2, <2>3
<1>1. ASSUME sessions' \subseteq sessions, issued' = issued, now' \in {now, now + 1} PROVE SessionsTyped'
  BY <1>0, <1>1 DEF SessionsTyped
<1>2. ASSUME NEW qq, Create(qq), now' = now PROVE SessionsTyped'
  <2>1. PICK n : n = [token |-> issued + 1, qq |-> qq, expires |-> now + Ttl]
    OBVIOUS
  <2>2. sessions' = Clean \cup {n} /\ issued' = issued + 1 /\ Clean \subseteq sessions
    BY <1>2, <2>1 DEF Create, Clean
  <2>3. n.token = issued + 1 /\ n.expires = now + Ttl
    BY <2>1
  <2>4. \A s \in sessions : s.token # n.token /\ s.token <= issued + 1
    BY <1>0, <2>3 DEF SessionsTyped
  <2> QED  BY <1>0, <1>2, <2>2, <2>3, <2>4 DEF SessionsTyped
<1>3. CASE Tick
  BY <1>1, <1>3 DEF Tick
<1>4. CASE SessionStep
  BY <1>1, <1>2, <1>4 DEF SessionStep, Login, Logout, Restart
<1>5. ASSUME NEW r \in Requests, RequestStep(r) PROVE SessionsTyped'
  BY <1>1, <1>5 DEF RequestStep, Arrive, Check, Commit, Clean, clockwork
<1>6. CASE PageStep
  BY <1>1, <1>2, <1>6 DEF PageStep, PageLogin, PageLogout, BeginSync, PlanSync, FetchData,
                          LoseSync, SyncArrives, Clean, clockwork
<1>7. CASE UNCHANGED vars
  BY <1>1, <1>7 DEF vars, clockwork
<1> QED  BY <1>3, <1>4, <1>5, <1>6, <1>7 DEF Next

LEMMA BoardTypedStep == IInv /\ BoardTyped /\ [Next]_vars => BoardTyped'
<1> SUFFICES ASSUME IInv, BoardTyped, [Next]_vars PROVE BoardTyped'
  OBVIOUS
<1>1. CASE UNCHANGED <<now, board>>
  BY <1>1 DEF BoardTyped, board
<1>2. CASE Tick
  BY <1>2, AccessAssumption DEF Tick, BoardTyped, Times, board
<1>3. CASE SessionStep
  BY <1>1, <1>3 DEF SessionStep, Login, Logout, Restart, BoardTyped, board
<1>4. ASSUME NEW r \in Requests, RequestStep(r) PROVE BoardTyped'
  <2>1. CASE Commit(r)
    <3>1. req[r].opens \in Times \cup {Never}
      BY <2>1, AccessAssumption DEF Commit, IInv, Typed, Under, Openings, Times
    <3>2. version < MaxVersion /\ version' = version + 1 /\ base' \in {base, version + 1}
      BY <2>1 DEF Commit, Bump, BumpAndClear
    <3>3. opensAt' \in {opensAt, req[r].opens} /\ (invite' = invite \/ (invite < MaxInvites /\ invite' = invite + 1))
      BY <2>1 DEF Commit
    <3>4. version + 1 \in Versions
      BY <3>2, AccessAssumption DEF BoardTyped, Versions
    <3>5. invite' \in Invites
      BY <3>3, AccessAssumption DEF BoardTyped, Invites
    <3> QED  BY <2>1, <3>1, <3>2, <3>3, <3>4, <3>5 DEF Commit, BoardTyped, clockwork
  <2>2. CASE ~Commit(r)
    BY <1>1, <1>4, <2>2 DEF RequestStep, Arrive, Check, clockwork
  <2> QED  BY <2>1, <2>2
<1>5. CASE PageStep
  BY <1>1, <1>5 DEF PageStep, PageLogin, PageLogout, BeginSync, PlanSync, FetchData,
                    LoseSync, SyncArrives, clockwork
<1>6. CASE UNCHANGED vars
  BY <1>1, <1>6 DEF vars, clockwork
<1> QED  BY <1>2, <1>3, <1>4, <1>5, <1>6 DEF Next

LEMMA PageTypedStep == IInv /\ BoardTyped /\ PageTyped /\ [Next]_vars => PageTyped'
<1> SUFFICES ASSUME IInv, BoardTyped, PageTyped, [Next]_vars PROVE PageTyped'
  OBVIOUS
<1>0. NoCall \in Calls /\ "" \in Keys /\ \A a, l : KeyOf(a, l) \in Keys
  BY DEF Calls, Keys, KeyOf
<1>1. CASE UNCHANGED page
  BY <1>1 DEF PageTyped, page
<1>2. ASSUME NEW r \in Requests, RequestStep(r) PROVE UNCHANGED page
  BY <1>2 DEF RequestStep, Arrive, Check, Commit
<1>3. CASE SessionStep
  BY <1>0, <1>1, <1>3 DEF SessionStep, Login, Logout, Restart, PageTyped
<1>4. CASE PageLogin
  <2>1. issued + 1 \in Tokens
    <3>1. issued \in 0 .. MaxTokens /\ issued < MaxTokens
      BY <1>4 DEF PageLogin, Create, IInv, Typed
    <3> QED  BY <3>1, AccessAssumption DEF Tokens
  <2> QED  BY <1>0, <1>4, <2>1 DEF PageLogin, PageTyped
<1>5. CASE PageLogout
  BY <1>0, <1>5 DEF PageLogout, PageTyped
<1>6. CASE BeginSync
  <2>1. PICK a : a = IsAdminRequest(Viewer, token) /\ a \in BOOLEAN
    BY DEF IsAdminRequest, IsValid
  <2>2. PICK p : p = (~a /\ link # invite) /\ p \in BOOLEAN
    OBVIOUS
  <2>3. call' = [phase |-> "asked", admin |-> a, plain |-> p]
    BY <1>6, <2>1, <2>2 DEF BeginSync
  <2>4. call' \in Calls
    BY <2>1, <2>2, <2>3 DEF Calls
  <2> QED  BY <1>6, <2>4 DEF BeginSync, PageTyped
<1>7. ASSUME call.phase \in {"asked", "data"}
      PROVE  call.admin \in BOOLEAN /\ call.plain \in BOOLEAN /\ [call EXCEPT !.phase = "data"] \in Calls
  <2>1. call \in [phase : {"asked", "data"}, admin : BOOLEAN, plain : BOOLEAN]
    BY <1>7 DEF PageTyped, Calls, NoCall
  <2> QED  BY <2>1 DEF Calls
<1>8. CASE PlanSync
  <2>1. PICK k \in Keys : \/ call' = [phase |-> "same", key |-> k, plain |-> call.plain]
                          \/ call' = [phase |-> "patches", key |-> k, to |-> version, plain |-> call.plain]
                          \/ call' = [call EXCEPT !.phase = "data"]
    BY <1>0, <1>8 DEF PlanSync
  <2>2. call.phase = "asked" /\ version \in Versions
    BY <1>8 DEF PlanSync, BoardTyped
  <2>3. call' \in Calls
    BY <1>7, <2>1, <2>2 DEF Calls
  <2> QED  BY <1>8, <2>3 DEF PlanSync, PageTyped
<1>9. CASE FetchData
  <2>1. \A k : Sees(k) \in BOOLEAN
    BY DEF Sees, Public
  <2>2. PICK k \in Keys : call' = [phase |-> "snapshot", key |-> k, to |-> version, team |-> Sees(k),
                                   plain |-> call.plain]
    BY <1>0, <1>9 DEF FetchData
  <2>3. call.phase = "data" /\ version \in Versions
    BY <1>9 DEF FetchData, BoardTyped
  <2>4. call' \in Calls
    BY <1>7, <2>1, <2>2, <2>3 DEF Calls
  <2> QED  BY <1>9, <2>4 DEF FetchData, PageTyped
<1>10. CASE LoseSync
  BY <1>0, <1>10 DEF LoseSync, PageTyped
<1>11. CASE SyncArrives
  <2>1. /\ call.phase \in {"same", "patches", "snapshot"} => call.key \in Keys /\ call.plain \in BOOLEAN
        /\ call.phase \in {"patches", "snapshot"} => call.to \in Versions
        /\ call.phase = "snapshot" => call.team \in BOOLEAN
    BY DEF PageTyped, Calls, NoCall
  <2> QED  BY <1>0, <1>11, <2>1 DEF SyncArrives, PageTyped
<1>12. CASE UNCHANGED vars \/ Tick
  BY <1>1, <1>12 DEF vars, Tick
<1> QED  BY <1>1, <1>2, <1>3, <1>4, <1>5, <1>6, <1>8, <1>9, <1>10, <1>11, <1>12 DEF Next, PageStep

LEMMA InitTyped == Init => SessionsTyped /\ BoardTyped /\ PageTyped
<1> SUFFICES ASSUME Init PROVE SessionsTyped /\ BoardTyped /\ PageTyped
  OBVIOUS
<1>1. SessionsTyped
  BY DEF Init, SessionsTyped
<1>2. 0 \in Times
  BY AccessAssumption DEF Times
<1>3. BoardTyped
  BY <1>2, NumbersAreNat DEF Init, BoardTyped
<1>4. PageTyped
  BY NumbersAreNat DEF Init, PageTyped, Keys, Calls
<1> QED  BY <1>1, <1>3, <1>4

LEMMA AlwaysTypeInv == Spec => []TypeInv
<1>1. Init => TypeInv
  BY InitSound, InitTyped DEF TypeInv
<1>2. TypeInv /\ [Next]_vars => TypeInv'
  BY NextSound, SessionsTypedStep, BoardTypedStep, PageTypedStep DEF TypeInv
<1> QED  BY <1>1, <1>2, PTL DEF Spec

\* TypeOK: AdminSessions gives no token twice and no session more than its
\* time, and every request and sync is of a form its handler gives it.
THEOREM TypeCorrect == Spec => []TypeOK
<1>1. TypeInv => TypeOK
  BY DEF TypeInv, IInv, Typed, SessionsTyped, BoardTyped, PageTyped, TypeOK
<1> QED  BY <1>1, AlwaysTypeInv, PTL

-----------------------------------------------------------------------------
(* What the page shows.                                                     *)

\* What a page may show of the team with the visibility key k.
Right(k, t) ==
    /\ k = "public" /\ t => Public
    /\ k \in {"admin", "invite"} => t

Bounded == base <= version /\ cursor <= version /\ link <= invite

\* No patches lead past a change of what the key stands for: a page they can
\* still reach shows what its key stands for, not only one at the version.
PageRight ==
    /\ cursor # None => key # ""
    /\ plain => key \in {"", "public"}
    /\ cursor # None /\ base <= cursor => Right(key, shows)

\* And so does one that the answer under way will make of it.
CallRight ==
    /\ call.phase \in {"asked", "data"} /\ call.plain => ~call.admin /\ link # invite
    /\ call.phase \in {"same", "patches", "snapshot"} =>
           call.key # "" /\ (call.plain => call.key = "public")
    /\ call.phase \in {"same", "patches"} => call.key = key /\ cursor # None
    /\ call.phase = "patches" => call.to <= version /\ (base <= call.to => Right(key, shows))
    /\ call.phase = "snapshot" =>
           call.to <= version /\ (base <= call.to => Right(call.key, call.team))

ViewInv == TypeInv /\ Bounded /\ PageRight /\ CallRight

\* A step of the server leaves the page right: either what the key stands for
\* stays, or no patches lead from where the page is any more.
LEMMA ServerSteps ==
    ASSUME ViewInv, UNCHANGED <<link, cursor, key, shows, plain>>, call' \in {call, NoCall},
           version' \in Versions, base' \in Versions, invite' \in Invites,
           version <= version', base <= base', base' <= version', invite <= invite',
           (Public => Public') \/ version < base'
    PROVE  (Bounded /\ PageRight /\ CallRight)'
<1>0. /\ version \in Nat /\ base \in Nat /\ cursor \in Nat /\ link \in Nat /\ invite \in Nat
      /\ version' \in Nat /\ base' \in Nat /\ invite' \in Nat
  <2>1. /\ version \in Versions /\ base \in Versions /\ invite \in Invites
        /\ cursor \in Versions \cup {None} /\ link \in Invites \cup {None}
    BY DEF ViewInv, TypeInv, BoardTyped, PageTyped
  <2>2. None \in Nat
    BY DEF None
  <2> QED  BY <2>1, <2>2, NumbersAreNat
<1>1. Bounded'
  BY <1>0 DEF ViewInv, Bounded
<1>2. \A v, k, t : v \in Nat /\ v <= version /\ base' <= v /\ (base <= v => Right(k, t)) => Right(k, t)'
  BY <1>0 DEF Right
<1>3. PageRight'
  BY <1>0, <1>2 DEF ViewInv, Bounded, PageRight
<1>4. ASSUME call' = NoCall PROVE CallRight'
  <2>1. call'.phase = "none"
    BY <1>4 DEF NoCall
  <2> QED  BY <2>1 DEF CallRight
<1>5. ASSUME call' = call PROVE CallRight'
  <2>1. CallRight
    BY DEF ViewInv
  <2>2. ASSUME call.phase \in {"patches", "snapshot"} PROVE call.to \in Nat
    <3>1. call \in Calls
      BY DEF ViewInv, TypeInv, PageTyped
    <3>2. call.to \in Versions
      BY <2>2, <3>1 DEF Calls, NoCall
    <3> QED  BY <3>2, NumbersAreNat
  <2>3. ASSUME call.phase \in {"asked", "data"}, call.plain PROVE ~call.admin /\ link' # invite'
    <3>1. ~call.admin /\ link # invite /\ link <= invite
      BY <2>1, <2>3 DEF ViewInv, Bounded, CallRight
    <3> QED  BY <1>0, <3>1
  <2>4. ASSUME call.phase = "patches"
        PROVE  call.to <= version' /\ (base' <= call.to => Right(key, shows)')
    <3>1. call.to <= version /\ (base <= call.to => Right(key, shows))
      BY <2>1, <2>4 DEF CallRight
    <3>2. PICK v : v = call.to
      OBVIOUS
    <3>3. v \in Nat
      BY <2>2, <2>4, <3>2
    <3>4. v <= version /\ (base <= v => Right(key, shows))
      BY <3>1, <3>2
    <3>5. v <= version' /\ (base' <= v => Right(key, shows)')
      BY <1>0, <1>2, <3>3, <3>4
    <3> QED  BY <3>2, <3>5
  <2>5. ASSUME call.phase = "snapshot"
        PROVE  call.to <= version' /\ (base' <= call.to => Right(call.key, call.team)')
    <3>1. call.to <= version /\ (base <= call.to => Right(call.key, call.team))
      BY <2>1, <2>5 DEF CallRight
    <3>2. PICK v, k, t : v = call.to /\ k = call.key /\ t = call.team
      OBVIOUS
    <3>3. v \in Nat
      BY <2>2, <2>5, <3>2
    <3>4. v <= version /\ (base <= v => Right(k, t))
      BY <3>1, <3>2
    <3>5. v <= version' /\ (base' <= v => Right(k, t)')
      BY <1>0, <1>2, <3>3, <3>4
    <3>6. Right(k, t)' => Right(call.key, call.team)'
      BY <1>5, <3>2 DEF Right
    <3> QED  BY <3>2, <3>5, <3>6
  <2>6. UNCHANGED <<key, cursor, shows>>
    OBVIOUS
  <2> QED  BY <1>5, <2>1, <2>3, <2>4, <2>5, <2>6 DEF CallRight
<1> QED  BY <1>1, <1>3, <1>4, <1>5

LEMMA BoardStepsView ==
    ASSUME ViewInv, TypeInv', Tick \/ SessionStep \/ \E r \in Requests : RequestStep(r)
    PROVE  (Bounded /\ PageRight /\ CallRight)'
<1>0. /\ version \in Nat /\ base \in Nat /\ invite \in Nat /\ now \in Nat /\ opensAt \in Nat
      /\ version \in Versions /\ base \in Versions /\ invite \in Invites /\ base <= version
      /\ version' \in Versions /\ base' \in Versions /\ invite' \in Invites
  BY NumbersAreNat DEF ViewInv, TypeInv, IInv, Typed, BoardTyped, Bounded
<1>1. CASE Tick
  <2>1. Public => Public'
    BY <1>0, <1>1 DEF Tick, Public, board
  <2> QED  BY <1>0, <1>1, <2>1, ServerSteps DEF Tick, board, page
<1>2. CASE SessionStep
  <2>1. UNCHANGED <<now, opensAt, version, invite, link, cursor, key, shows, plain>>
        /\ base' \in {base, version} /\ call' \in {call, NoCall}
    BY <1>2 DEF SessionStep, Login, Logout, Restart, board, page
  <2> QED  BY <1>0, <2>1, ServerSteps DEF Public
<1>3. ASSUME NEW r \in Requests, RequestStep(r) PROVE (Bounded /\ PageRight /\ CallRight)'
  <2>1. UNCHANGED <<now, link, cursor, key, shows, call, plain>>
    BY <1>3 DEF RequestStep, Arrive, Check, Commit, clockwork, page
  <2>2. CASE UNCHANGED board
    BY <1>0, <2>1, <2>2, ServerSteps DEF board, Public
  <2>3. CASE Commit(r)
    <3>1. /\ version' = version + 1
          /\ \/ base' = base /\ opensAt' = opensAt
             \/ base' = version + 1
          /\ invite' \in {invite, invite + 1}
      BY <2>3 DEF Commit, Bump, BumpAndClear
    <3> QED  BY <1>0, <2>1, <3>1, ServerSteps DEF Public
  <2> QED  BY <1>3, <2>2, <2>3 DEF RequestStep, Arrive, Check
<1> QED  BY <1>1, <1>2, <1>3

\* A page keeps its view until an answer arrives, and a new session starts it
\* without one.
LEMMA PageStepsView ==
    ASSUME ViewInv, TypeInv', PageStep
    PROVE  (Bounded /\ PageRight /\ CallRight)'
<1>0. /\ version \in Nat /\ base \in Nat /\ cursor \in Nat /\ link \in Nat /\ invite \in Nat
      /\ base # 0 /\ version # 0
  <2>1. /\ version \in Versions /\ base \in Versions /\ invite \in Invites
        /\ cursor \in Versions \cup {None} /\ link \in Invites \cup {None}
    BY DEF ViewInv, TypeInv, BoardTyped, PageTyped
  <2> QED  BY <2>1, NumbersAreNat DEF None
<1>1. UNCHANGED <<now, opensAt, version, base, invite, link>>
  BY DEF PageStep, PageLogin, PageLogout, BeginSync, PlanSync, FetchData, LoseSync, SyncArrives,
         clockwork, board
<1>2. Public' <=> Public
  BY <1>1 DEF Public
<1>3. ASSUME UNCHANGED <<cursor, key, shows, plain>> PROVE (Bounded /\ PageRight)'
  BY <1>1, <1>2, <1>3 DEF ViewInv, Bounded, PageRight, Right
<1>4. ASSUME call' = NoCall PROVE CallRight'
  <2>1. call'.phase = "none"
    BY <1>4 DEF NoCall
  <2> QED  BY <2>1 DEF CallRight
<1>5. CASE PageLogin \/ PageLogout
  <2>1. cursor' = 0 /\ key' = "" /\ plain' = plain /\ call' = NoCall
    BY <1>5 DEF PageLogin, PageLogout, None
  <2>2. Bounded'
    <3>1. base <= version /\ link <= invite /\ 0 <= version
      BY <1>0 DEF ViewInv, Bounded
    <3> QED  BY <1>1, <2>1, <3>1 DEF Bounded
  <2>3. PageRight'
    BY <2>1 DEF ViewInv, PageRight, None
  <2> QED  BY <1>4, <2>1, <2>2, <2>3
<1>6. CASE BeginSync
  <2>1. PICK admin \in BOOLEAN : admin <=> IsAdminRequest(Viewer, token)
    OBVIOUS
  <2>2. PICK p \in BOOLEAN : p <=> ~admin /\ link # invite
    OBVIOUS
  <2>3. call' = [phase |-> "asked", admin |-> IsAdminRequest(Viewer, token),
                 plain |-> ~IsAdminRequest(Viewer, token) /\ link # invite]
    BY <1>6 DEF BeginSync
  <2>4. call'.phase = "asked" /\ (call'.plain => ~call'.admin /\ link # invite)
    BY <2>3
  <2>5. CallRight'
    BY <1>1, <2>4 DEF CallRight
  <2> QED  BY <1>3, <1>6, <2>5 DEF BeginSync
<1>7. CASE PlanSync
  <2>1. PICK k : k = KeyOf(call.admin, link)
    OBVIOUS
  <2>2. k # "" /\ (call.plain => k = "public") /\ k \in Keys
    BY <1>7, <2>1 DEF PlanSync, ViewInv, CallRight, KeyOf, Keys
  <2>3. CASE call' = [phase |-> "same", key |-> k, plain |-> call.plain] /\ key \in {"", k} /\ cursor = version
    <3>1. call'.phase = "same" /\ call'.key = k /\ (call'.plain <=> call.plain)
      BY <2>3
    <3>2. cursor' = cursor /\ key' = key
      BY <1>7 DEF PlanSync
    <3>3. cursor # None /\ key # ""
      BY <1>0, <2>3 DEF ViewInv, PageRight, None
    <3>4. CallRight'
      BY <2>2, <2>3, <3>1, <3>2, <3>3 DEF CallRight
    <3> QED  BY <1>3, <1>7, <3>4 DEF PlanSync
  <2>4. CASE /\ call' = [phase |-> "patches", key |-> k, to |-> version, plain |-> call.plain]
             /\ key \in {"", k} /\ base <= cursor
    <3>1. call'.phase = "patches" /\ call'.key = k /\ call'.to = version /\ (call'.plain <=> call.plain)
      BY <2>4
    <3>2. cursor' = cursor /\ key' = key /\ shows' = shows /\ version' = version
      BY <1>1, <1>7 DEF PlanSync
    <3>3. cursor # None
      <4>1. base <= cursor /\ base # 0
        BY <1>0, <2>4
      <4> QED  BY <1>0, <4>1 DEF None
    <3>4. key # "" /\ Right(key, shows)
      BY <2>4, <3>3 DEF ViewInv, PageRight
    <3>5. Right(key, shows)'
      BY <1>2, <3>2, <3>4 DEF Right
    <3>6. call'.to <= version'
      BY <1>0, <3>1, <3>2
    <3>7. CallRight'
      BY <2>2, <2>4, <3>1, <3>2, <3>3, <3>4, <3>5, <3>6 DEF CallRight
    <3> QED  BY <1>3, <1>7, <3>7 DEF PlanSync
  <2>5. CASE call' = [call EXCEPT !.phase = "data"]
    <3>1. call \in [phase : {"asked", "data"}, admin : BOOLEAN, plain : BOOLEAN]
      <4>1. call.phase = "asked" /\ call \in Calls
        BY <1>7 DEF PlanSync, ViewInv, TypeInv, PageTyped
      <4> QED  BY <4>1 DEF Calls, NoCall
    <3>2. call'.phase = "data" /\ call'.plain = call.plain /\ call'.admin = call.admin
      BY <2>5, <3>1
    <3>3. call.plain => ~call.admin /\ link # invite
      BY <1>7 DEF PlanSync, ViewInv, CallRight
    <3>4. CallRight'
      BY <1>1, <3>2, <3>3 DEF CallRight
    <3> QED  BY <1>3, <1>7, <3>4 DEF PlanSync
  <2> QED  BY <1>7, <2>1, <2>3, <2>4, <2>5 DEF PlanSync
<1>8. CASE FetchData
  <2>1. PICK k : k = KeyOf(call.admin, link)
    OBVIOUS
  <2>2. k # "" /\ (call.plain => k = "public")
    BY <1>8, <2>1 DEF FetchData, ViewInv, CallRight, KeyOf
  <2>3. call' = [phase |-> "snapshot", key |-> k, to |-> version, team |-> Sees(k),
                 plain |-> call.plain]
    BY <1>8, <2>1 DEF FetchData
  <2>4. /\ call'.phase = "snapshot" /\ call'.key = k /\ call'.to = version
        /\ (call'.plain <=> call.plain) /\ (call'.team <=> Sees(k))
    BY <2>3
  <2>5. Right(k, call.team)'
    BY <1>2, <2>4 DEF Right, Sees
  <2>6. call'.to <= version'
    BY <1>0, <1>1, <2>4
  <2>7. CallRight'
    BY <2>2, <2>4, <2>5, <2>6 DEF CallRight
  <2> QED  BY <1>3, <1>8, <2>7 DEF FetchData
<1>9. CASE LoseSync
  BY <1>3, <1>4, <1>9 DEF LoseSync
<1>10. CASE SyncArrives
  <2>1. call.phase \in {"same", "patches", "snapshot"} /\ call' = NoCall
    BY <1>10 DEF SyncArrives
  <2>2. key' = call.key /\ plain' = call.plain /\ key' # "" /\ (plain' => key' = "public")
    BY <1>10, <2>1 DEF SyncArrives, ViewInv, CallRight
  <2>3. cursor' <= version' /\ (cursor' # None /\ base' <= cursor' => Right(key, shows)')
    <3>1. CASE call.phase = "same"
      <4>1. cursor' = cursor /\ shows' = shows /\ key' = key
        BY <1>10, <3>1 DEF SyncArrives, ViewInv, CallRight
      <4> QED  BY <1>1, <1>2, <4>1 DEF ViewInv, Bounded, PageRight, Right
    <3>2. CASE call.phase = "patches"
      <4>1. cursor' = call.to /\ shows' = shows /\ key' = key
        BY <1>10, <3>2 DEF SyncArrives, ViewInv, CallRight
      <4>2. call.to <= version /\ (base <= call.to => Right(key, shows))
        BY <3>2 DEF ViewInv, CallRight
      <4> QED  BY <1>1, <1>2, <4>1, <4>2 DEF Right
    <3>3. CASE call.phase = "snapshot"
      <4>1. cursor' = call.to /\ shows' = call.team /\ key' = call.key
        BY <1>10, <3>3 DEF SyncArrives
      <4>2. call.to <= version /\ (base <= call.to => Right(call.key, call.team))
        BY <3>3 DEF ViewInv, CallRight
      <4> QED  BY <1>1, <1>2, <4>1, <4>2 DEF Right
    <3> QED  BY <2>1, <3>1, <3>2, <3>3
  <2>4. Bounded'
    BY <1>1, <2>3 DEF ViewInv, Bounded
  <2>5. PageRight'
    BY <2>2, <2>3 DEF PageRight
  <2> QED  BY <1>4, <2>1, <2>4, <2>5
<1> QED  BY <1>5, <1>6, <1>7, <1>8, <1>9, <1>10 DEF PageStep

LEMMA AlwaysViewInv == Spec => []ViewInv
<1>1. ASSUME Init PROVE Bounded /\ PageRight /\ CallRight
  <2>1. version = 1 /\ base = 1 /\ cursor = 0 /\ link \in {0, 1} /\ invite = 1 /\ plain = FALSE
    BY <1>1 DEF Init, None
  <2>2. call.phase = "none"
    BY <1>1 DEF Init, NoCall
  <2>3. Bounded
    BY <2>1 DEF Bounded
  <2>4. PageRight
    BY <2>1 DEF PageRight, None
  <2>5. CallRight
    BY <2>2 DEF CallRight
  <2> QED  BY <2>3, <2>4, <2>5
<1>2. ASSUME ViewInv, [Next]_vars PROVE ViewInv'
  <2>1. TypeInv'
    BY <1>2, NextSound, SessionsTypedStep, BoardTypedStep, PageTypedStep DEF ViewInv, TypeInv
  <2>2. CASE UNCHANGED vars
    BY <1>2, <2>1, <2>2 DEF ViewInv, Bounded, PageRight, CallRight, Right, Public, vars, board,
                            page, clockwork
  <2> QED  BY <1>2, <2>1, <2>2, BoardStepsView, PageStepsView DEF ViewInv, Next
<1>3. Init => TypeInv
  BY InitSound, InitTyped DEF TypeInv
<1> QED  BY <1>1, <1>2, <1>3, PTL DEF Spec, ViewInv

\* PageShowsItsView: a page at the server's version shows what its visibility
\* key stands for, although key and data of an answer are of different moments
\* and rights end without a new version.
THEOREM PageShowsItsViewHolds == Spec => []PageShowsItsView
<1>1. ViewInv => PageShowsItsView
  <2> SUFFICES ASSUME ViewInv, cursor # None, cursor = version
               PROVE  /\ key = "public" /\ shows => Public
                      /\ key \in {"admin", "invite"} => shows
                      /\ plain => key = "public"
    BY DEF PageShowsItsView
  <2> QED  BY DEF ViewInv, Bounded, PageRight, Right
<1> QED  BY <1>1, AlwaysViewInv, PTL

=============================================================================
