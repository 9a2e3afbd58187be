--------------------------- MODULE PublicationProofs ---------------------------
(***************************************************************************)
(* Proofs about Publication, for any posts, pages and bounds: the cache is *)
(* right when it is used, and open pages are told of what is published.    *)
(*                                                                         *)
(* Neither property can be kept up from itself, since nothing happens at   *)
(* the moment a post becomes public.  The invariants say for an earlier    *)
(* moment what was public then, and for everything that opens after it how *)
(* it will be noticed: by the query of the check, by the due time in the   *)
(* cache, or because it has been noticed already.  That the version stays  *)
(* within its bound rests on a check bumping it at most once a tick.       *)
(***************************************************************************)
EXTENDS Publication, WellFoundedInduction, TLAPS

\* What was public at the time s, and what opens later.
PublicAt(s)   == {x \in Posts : kind[x] # "none" /\ open[x] /\ opensAt[x] <= s}
OpensAfter(s) == {x \in Posts : kind[x] # "none" /\ open[x] /\ opensAt[x] > s}

\* The part of TypeOK that the argument needs; no bound is in it.
Typed ==
    /\ now \in Nat /\ lastCheck \in Nat /\ lastCheck <= now
    /\ version \in Nat \ {0} /\ base \in Nat /\ base <= version
    /\ kind \in [Posts -> Kinds] /\ opensAt \in [Posts -> Nat]
    /\ cache \in [version : Nat, next : Nat, shown : SUBSET Posts]
    /\ pending => lastCheck < now
    /\ cursor \in [Pages -> Nat]
    /\ \A p \in Pages : cursor[p] <= version
    /\ shows \in [Pages -> SUBSET Posts]

\* A cache of this version was computed at a time c, and its due time is not
\* later than anything that opens after c.
CacheComputed ==
    cache.version = version =>
        \E c \in Nat : /\ c <= now
                       /\ cache.shown = PublicAt(c)
                       /\ \A x \in OpensAfter(c) : cache.next # 0 /\ cache.next <= opensAt[x]

\* What opens after the time s is noticed by a check, if it was not already.
Watched(s) ==
    \A x \in OpensAfter(s) :
        \/ pending
        \/ kind[x] = "team" /\ lastCheck < opensAt[x]
        \/ lastCheck < cache.next /\ cache.next <= opensAt[x]

\* A page that holds the posts of now shows what was public at a time s.
PagesWatched ==
    missed \/ \A p \in Pages : cursor[p] >= base =>
                 \E s \in Nat : s <= now /\ shows[p] = PublicAt(s) /\ Watched(s)

IInv == Typed /\ CacheComputed /\ PagesWatched

-----------------------------------------------------------------------------
\* The due time is that of the post that opens first.
LEMMA EarliestIsLeast ==
    ASSUME NEW T \in SUBSET Nat
    PROVE  /\ Earliest(T) \in Nat
           /\ \A t \in T : Earliest(T) \in T /\ Earliest(T) <= t
<1>1. CASE T = {}
  BY <1>1 DEF Earliest
<1>2. CASE T # {}
  <2>1. PICK t \in T : \A u \in T : ~(<<u, t>> \in OpToRel(<, Nat))
    BY <1>2, NatLessThanWellFounded, WFMin
  <2>2. ASSUME NEW u \in T PROVE t <= u
    <3>1. ~(u < t)
      BY <2>1 DEF OpToRel
    <3> QED  BY <3>1
  <2> QED  BY <1>2, <2>2 DEF Earliest
<1> QED  BY <1>1, <1>2

\* viewerVisibilityUnlocked: whatever it finds in the cache, it leaves what is
\* public now and the due time of the next post, and it loses no occasion.
LEMMA LookKeeps ==
    ASSUME Typed, CacheComputed, Look, UNCHANGED <<now, data, lastCheck>>
    PROVE  /\ cache' \in [version : Nat, next : Nat, shown : SUBSET Posts]
           /\ pending' => lastCheck < now
           /\ CacheComputed'
           /\ cache'.shown = PublicAt(now)
           /\ Watched(now)'
           /\ \A s \in Nat : Watched(s) => Watched(s)'
<1> USE DEF Typed
<1>0. UNCHANGED <<kind, open, opensAt, version>> /\ \A s \in Nat : UNCHANGED <<PublicAt(s), OpensAfter(s)>>
  BY DEF data, posts, PublicAt, OpensAfter
<1>1. CASE Fresh
  <2>1. cache' = cache /\ (pending' <=> pending)
    BY <1>1 DEF Look
  <2>2. PICK c \in Nat : /\ c <= now
                         /\ cache.shown = PublicAt(c)
                         /\ \A x \in OpensAfter(c) : cache.next # 0 /\ cache.next <= opensAt[x]
    BY <1>1 DEF Fresh, CacheComputed
  <2>3. cache.shown = PublicAt(now)
    BY <1>1, <2>2 DEF Fresh, PublicAt, OpensAfter
  <2>4. Watched(now)'
    <3> SUFFICES ASSUME NEW x \in OpensAfter(now) PROVE lastCheck < cache.next /\ cache.next <= opensAt[x]
      BY <1>0, <2>1 DEF Watched
    <3>1. x \in OpensAfter(c)
      BY <2>2 DEF OpensAfter
    <3> QED  BY <1>1, <2>2, <3>1 DEF Fresh
  <2>5. CacheComputed'
    BY <1>0, <2>1 DEF CacheComputed
  <2>6. \A s \in Nat : Watched(s) => Watched(s)'
    BY <1>0, <2>1 DEF Watched
  <2> QED  BY <2>1, <2>3, <2>4, <2>5, <2>6
<1>2. CASE ~Fresh
  <2>1. cache' = Computed
    BY <1>2 DEF Look
  <2>2. ToCome \in SUBSET Nat /\ \A x \in OpensAfter(now) : opensAt[x] \in ToCome
    BY DEF ToCome, OpensAfter
  <2>3. /\ cache'.version = version
        /\ cache'.next = Earliest(ToCome)
        /\ cache'.shown = PublicAt(now)
        /\ cache' \in [version : Nat, next : Nat, shown : SUBSET Posts]
    BY <2>1, <2>2, EarliestIsLeast DEF Computed, PublicNow, Public, PublicAt
  <2>4. \A x \in OpensAfter(now) : now < cache'.next /\ cache'.next <= opensAt[x]
    <3> SUFFICES ASSUME NEW x \in OpensAfter(now) PROVE now < cache'.next /\ cache'.next <= opensAt[x]
      OBVIOUS
    <3>0. opensAt[x] \in ToCome
      BY <2>2
    <3>1. Earliest(ToCome) \in ToCome /\ Earliest(ToCome) <= opensAt[x]
      BY ONLY <2>2, <3>0, EarliestIsLeast
    <3>2. cache'.next \in ToCome /\ cache'.next <= opensAt[x]
      BY <2>3, <3>1, Zenon
    <3> QED  BY <3>2 DEF ToCome
  <2>5. Watched(now)'
    BY <1>0, <2>3, <2>4 DEF Watched, OpensAfter
  <2>6. CacheComputed'
    BY <1>0, <2>3, <2>4 DEF CacheComputed
  <2>7. (pending' => lastCheck < now) /\ (pending \/ CacheDue => pending')
    <3>1. CacheDue => lastCheck < now
      BY DEF CacheDue
    <3>2. pending' = (pending \/ CacheDue)
      BY <1>2, Zenon DEF Look
    <3> QED  BY <3>1, <3>2, Zenon
  <2>8. ASSUME NEW s \in Nat, Watched(s) PROVE Watched(s)'
    <3> SUFFICES ASSUME NEW x \in OpensAfter(s), ~pending',
                        ~(kind[x] = "team" /\ lastCheck < opensAt[x])
                 PROVE  lastCheck < cache'.next /\ cache'.next <= opensAt[x]
      BY <1>0 DEF Watched
    <3>1. lastCheck < cache.next /\ cache.next <= opensAt[x] /\ ~CacheDue
      BY <2>7, <2>8 DEF Watched
    <3>2. x \in OpensAfter(now)
      BY <3>1 DEF CacheDue, OpensAfter
    <3> QED  BY <2>3, <2>4, <3>2
  <2> QED  BY <2>3, <2>5, <2>6, <2>7, <2>8
<1> QED  BY <1>1, <1>2

-----------------------------------------------------------------------------
\* Requests, and the syncs of pages.
LEMMA ViewKeeps == ASSUME IInv, View PROVE IInv'
<1> USE DEF IInv
<1>1. Look /\ UNCHANGED <<now, data, posts, lastCheck, version, base, pages, missed, kind, open, opensAt, cursor, shows>>
  BY DEF View, data, posts, pages
<1>2. Typed'
  BY <1>1, LookKeeps DEF Typed
<1>3. \A s \in Nat : PublicAt(s)' = PublicAt(s)
  BY <1>1 DEF PublicAt
<1>4. PagesWatched'
  BY <1>1, <1>3, LookKeeps DEF PagesWatched
<1> QED  BY <1>1, <1>2, <1>4, LookKeeps

LEMMA SyncKeeps == ASSUME IInv, NEW p \in Pages, Sync(p) PROVE IInv'
<1> USE DEF IInv
<1>1. /\ Look
      /\ UNCHANGED <<now, data, lastCheck, version, base, missed, kind, open, opensAt>>
      /\ cursor' = [cursor EXCEPT ![p] = version]
      /\ shows' = [shows EXCEPT ![p] = IF cursor[p] >= base THEN @ ELSE cache'.shown]
  BY DEF Sync, data, posts
<1>2. Typed'
  BY <1>1, LookKeeps DEF Typed
<1>3. \A s \in Nat : PublicAt(s)' = PublicAt(s)
  BY <1>1 DEF PublicAt
<1>4. PagesWatched'
  <2> SUFFICES ASSUME ~missed, NEW q \in Pages, cursor'[q] >= base
               PROVE  \E s \in Nat : s <= now /\ shows'[q] = PublicAt(s) /\ Watched(s)'
    BY <1>1, <1>3 DEF PagesWatched
  <2>1. CASE cursor[q] >= base
    <3>1. shows'[q] = shows[q]
      BY <1>1, <2>1 DEF Typed
    <3>2. PICK s \in Nat : s <= now /\ shows[q] = PublicAt(s) /\ Watched(s)
      BY <2>1 DEF PagesWatched
    <3> QED  BY <1>1, <3>1, <3>2, LookKeeps
  <2>2. CASE ~(cursor[q] >= base)
    <3>1. q = p
      BY <1>1, <2>2 DEF Typed
    <3>2. shows'[q] = PublicAt(now)
      BY <1>1, <2>2, <3>1, LookKeeps DEF Typed
    <3> QED  BY <1>1, <3>2, LookKeeps DEF Typed
  <2> QED  BY <2>1, <2>2
<1> QED  BY <1>1, <1>2, <1>4, LookKeeps

\* Saves leave the posts alone and the due time in the cache.
LEMMA SaveKeeps ==
    ASSUME IInv, Bump, UNCHANGED <<now, posts, base, watch, shows, missed>>,
           cursor' \in [Pages -> Nat],
           \A p \in Pages : cursor'[p] <= version + 1 /\ (cursor'[p] = cursor[p] \/ cursor[p] = version)
    PROVE  IInv'
<1> USE DEF IInv
<1>1. /\ version' = version + 1
      /\ cache' = [cache EXCEPT !.version = 0]
      /\ cache'.next = cache.next /\ cache'.version = 0
      /\ UNCHANGED <<now, kind, open, opensAt, pending, lastCheck, base, shows, missed>>
  BY DEF Bump, posts, watch, Typed
<1>2. Typed'
  BY <1>1 DEF Typed
<1>3. CacheComputed'
  BY <1>1, <1>2 DEF CacheComputed, Typed
<1>4. \A s \in Nat : PublicAt(s)' = PublicAt(s) /\ (Watched(s) => Watched(s)')
  BY <1>1 DEF PublicAt, Watched, OpensAfter
<1>5. \A p \in Pages : cursor'[p] >= base => cursor[p] >= base
  BY DEF Typed
<1>6. PagesWatched'
  BY <1>1, <1>4, <1>5 DEF PagesWatched
<1> QED  BY <1>2, <1>3, <1>6

\* A change that drops the patches: no page has the posts that are there now.
LEMMA ClearKeeps ==
    ASSUME IInv, BumpAndClear, UNCHANGED <<now, pages>>,
           lastCheck' \in Nat, lastCheck' <= now, pending' => lastCheck' < now,
           kind' \in [Posts -> Kinds], opensAt' \in [Posts -> Nat]
    PROVE  IInv'
<1> USE DEF IInv
<1>1. /\ version' = version + 1 /\ base' = version + 1 /\ missed' = FALSE
      /\ cache' = [cache EXCEPT !.version = 0] /\ cache'.version = 0
      /\ UNCHANGED <<cursor, shows>>
  BY DEF BumpAndClear, Bump, pages, Typed
<1>2. Typed'
  BY <1>1 DEF Typed
<1>3. CacheComputed'
  BY <1>1, <1>2 DEF CacheComputed, Typed
<1>4. PagesWatched'
  BY <1>1 DEF PagesWatched, Typed
<1> QED  BY <1>2, <1>3, <1>4

LEMMA AdminKeeps == ASSUME IInv, AdminStep PROVE IInv'
<1> USE DEF IInv
<1>1. kind' \in [Posts -> Kinds] /\ opensAt' \in [Posts -> Nat]
  BY DEF AdminStep, PutTeam, DeleteTeam, ArchiveTeam, RestoreArchive, Move, UpdateAccessGate, Typed,
         Times, Kinds
<1>2. AdminChange
  BY DEF AdminStep, PutTeam, DeleteTeam, ArchiveTeam, RestoreArchive, Move, UpdateAccessGate
<1> QED  BY <1>1, <1>2, ClearKeeps DEF AdminChange, watch, Typed

\* A check that finds nothing due: nothing has opened that anybody waits for.
LEMMA NothingDue ==
    ASSUME Typed, ~Due, NEW s \in Nat, s <= now, Watched(s), NEW x \in OpensAfter(s)
    PROVE  /\ now < opensAt[x]
           /\ kind[x] = "team" \/ (now < cache.next /\ cache.next <= opensAt[x])
<1>1. opensAt[x] \in Nat /\ cache.next \in Nat /\ x \in Posts /\ kind[x] # "none" /\ open[x]
  BY DEF Typed, OpensAfter
<1> QED  BY <1>1 DEF Watched, Due, TeamDue, CacheDue, Typed

LEMMA CheckKeeps == ASSUME IInv, CheckPublication PROVE IInv'
<1> USE DEF IInv
<1>0. /\ UNCHANGED <<now, kind, open, opensAt, cursor, shows>> /\ pending' = FALSE /\ lastCheck' = now
  BY DEF CheckPublication, posts, pages
<1>1. CASE Due
  BY <1>0, <1>1, ClearKeeps DEF CheckPublication, Typed, pages
<1>2. CASE ~Due
  <2>1. UNCHANGED <<version, base, cache, missed>>
    BY <1>2 DEF CheckPublication
  <2>2. Typed'
    BY <1>0, <2>1 DEF Typed
  <2>3. CacheComputed'
    BY <1>0, <2>1 DEF CacheComputed, PublicAt, OpensAfter
  <2>4. ASSUME NEW s \in Nat, s <= now, Watched(s) PROVE Watched(s)'
    BY <1>0, <1>2, <2>1, <2>4, NothingDue DEF Watched, OpensAfter
  <2>5. \A s \in Nat : PublicAt(s)' = PublicAt(s)
    BY <1>0 DEF PublicAt
  <2>6. PagesWatched'
    BY <1>0, <2>1, <2>4, <2>5 DEF PagesWatched
  <2> QED  BY <2>2, <2>3, <2>6
<1> QED  BY <1>1, <1>2

LEMMA TickKeeps == ASSUME IInv, Tick PROVE IInv'
<1> USE DEF IInv
<1>1. /\ now' = now + 1
      /\ UNCHANGED <<kind, open, opensAt, version, base, cache, pending, lastCheck, missed, cursor, shows>>
  BY DEF Tick, server, data, posts, watch, pages
<1>2. Typed'
  BY <1>1 DEF Typed
<1>3. \A s \in Nat : /\ PublicAt(s)' = PublicAt(s) /\ OpensAfter(s)' = OpensAfter(s)
                     /\ Watched(s)' = Watched(s) /\ (s <= now => s <= now')
  BY <1>1 DEF PublicAt, OpensAfter, Watched, Typed
<1>4. CacheComputed'
  BY <1>1, <1>3 DEF CacheComputed
<1>5. PagesWatched'
  BY <1>1, <1>3 DEF PagesWatched
<1> QED  BY <1>2, <1>4, <1>5

\* A restart that is not noted as a miss finds nothing that was awaited of
\* the cache, and teams are found by the query of the check.
LEMMA RestartKeeps == ASSUME IInv, Restart PROVE IInv'
<1> USE DEF IInv
<1>1. /\ UNCHANGED <<now, kind, open, opensAt, version, cursor, shows>>
      /\ base' = version /\ pending' = FALSE /\ lastCheck' = now
      /\ cache' = [version |-> 0, next |-> 0, shown |-> {}]
      /\ missed' = (missed \/ Due \/ ArchiveToCome)
  BY DEF Restart, posts, pages
<1>2. Typed'
  BY <1>1 DEF Typed
<1>3. CacheComputed'
  BY <1>1 DEF CacheComputed, Typed
<1>4. PagesWatched'
  <2> SUFFICES ASSUME ~missed, ~Due, ~ArchiveToCome, NEW p \in Pages, cursor[p] >= version
               PROVE  \E s \in Nat : s <= now /\ shows[p] = PublicAt(s)' /\ Watched(s)'
    BY <1>1 DEF PagesWatched
  <2>1. PICK s \in Nat : s <= now /\ shows[p] = PublicAt(s) /\ Watched(s)
    BY DEF PagesWatched, Typed
  <2>2. ASSUME NEW x \in OpensAfter(s) PROVE kind[x] = "team" /\ now < opensAt[x]
    <3>1. now < opensAt[x]
      BY <2>1, <2>2, NothingDue
    <3>2. kind[x] # "archive"
      BY <3>1 DEF ArchiveToCome, OpensAfter
    <3> QED  BY <3>1, <3>2 DEF OpensAfter, Typed, Kinds
  <2>3. Watched(s)'
    BY <1>1, <2>2 DEF Watched, OpensAfter
  <2>4. PublicAt(s)' = PublicAt(s)
    BY <1>1 DEF PublicAt
  <2> QED  BY <2>1, <2>3, <2>4
<1> QED  BY <1>2, <1>3, <1>4

-----------------------------------------------------------------------------
LEMMA InitInv == Init => IInv
BY DEF Init, IInv, Typed, Kinds, CacheComputed, PagesWatched

LEMMA StepInv == IInv /\ [Next]_vars => IInv'
<1> SUFFICES ASSUME IInv, [Next]_vars PROVE IInv'
  OBVIOUS
<1>1. CASE Save
  BY <1>1, SaveKeeps DEF Save, pages, IInv, Typed
<1>2. ASSUME NEW p \in Pages, OwnSave(p) PROVE IInv'
  <2>1. cursor' \in [Pages -> Nat]
    BY <1>2 DEF OwnSave, IInv, Typed
  <2>2. \A q \in Pages : cursor'[q] <= version + 1 /\ (cursor'[q] = cursor[q] \/ cursor[q] = version)
    BY <1>2 DEF OwnSave, IInv, Typed
  <2> QED  BY <1>2, <2>1, <2>2, SaveKeeps DEF OwnSave
<1>3. CASE UNCHANGED vars
  BY <1>3 DEF vars, data, posts, watch, pages, IInv, Typed, CacheComputed, PagesWatched, PublicAt,
              OpensAfter, Watched
<1> QED  BY <1>1, <1>2, <1>3, ViewKeeps, SyncKeeps, AdminKeeps, CheckKeeps, TickKeeps, RestartKeeps DEF Next

\* The invariant of the theorems below.
THEOREM AlwaysIInv == Spec => []IInv
BY InitInv, StepInv, PTL DEF Spec

\* CacheCorrect: publicVisibilityCache_ holds what is public now whenever
\* viewerVisibilityUnlocked is satisfied with it.
THEOREM CacheCorrectHolds == Spec => []CacheCorrect
<1>1. ASSUME IInv PROVE CacheCorrect
  <2> SUFFICES ASSUME Fresh PROVE cache.shown = PublicNow
    BY DEF CacheCorrect
  <2>1. PICK c \in Nat : /\ c <= now
                         /\ cache.shown = PublicAt(c)
                         /\ \A x \in OpensAfter(c) : cache.next # 0 /\ cache.next <= opensAt[x]
    BY <1>1 DEF Fresh, CacheComputed, IInv
  <2> QED  BY <1>1, <2>1 DEF Fresh, PublicAt, OpensAfter, PublicNow, Public, IInv, Typed
<1> QED  BY <1>1, AlwaysIInv, PTL

\* StaleIsDue: an open page at the server's version that shows outdated posts
\* will be told by the next publishScheduledTeams, unless a restart forgot.
THEOREM StaleIsDueHolds == Spec => []StaleIsDue
<1>1. ASSUME IInv PROVE StaleIsDue
  <2> SUFFICES ASSUME ~missed, NEW p \in Pages, cursor[p] = version, shows[p] # PublicNow
               PROVE  now > lastCheck /\ Due
    BY DEF StaleIsDue, AlwaysTold
  <2>1. PICK s \in Nat : s <= now /\ shows[p] = PublicAt(s) /\ Watched(s)
    BY <1>1 DEF IInv, PagesWatched, Typed
  <2>2. PICK x \in OpensAfter(s) : opensAt[x] <= now
    BY <1>1, <2>1 DEF PublicNow, Public, PublicAt, OpensAfter, IInv, Typed
  <2>3. Due
    BY <1>1, <2>1, <2>2, NothingDue DEF IInv, Typed, OpensAfter
  <2>4. lastCheck < now
    BY <1>1, <2>3 DEF Due, TeamDue, CacheDue, IInv, Typed
  <2> QED  BY <1>1, <2>3, <2>4 DEF IInv, Typed
<1> QED  BY <1>1, AlwaysIInv, PTL

-----------------------------------------------------------------------------
(* Types and bounds.                                                        *)

\* Only a check bumps the version beyond the edits, and only once a tick.
Bounded == TypeOK /\ version <= MaxEdits + lastCheck

LEMMA VersionsFit ==
    ASSUME NEW v \in Nat, NEW c \in Times, v <= MaxEdits + c
    PROVE  v \in Versions
BY MaxTimeAssumption, MaxEditsAssumption DEF Versions, Times

LEMMA LookTypes == ASSUME Typed, TypeOK, Look PROVE cache' \in Caches /\ pending' \in BOOLEAN
<1>1. ToCome \subseteq Times /\ Times \subseteq Nat /\ 0 \in Times
  BY MaxTimeAssumption DEF TypeOK, ToCome, Times
<1>2. Earliest(ToCome) \in Times
  <2>1. CASE ToCome = {}
    BY <1>1, <2>1 DEF Earliest
  <2>2. CASE ToCome # {}
    <3>1. ToCome \in SUBSET Nat
      BY <1>1
    <3>2. Earliest(ToCome) \in ToCome
      BY <2>2, <3>1, EarliestIsLeast
    <3> QED  BY <1>1, <3>2
  <2> QED  BY <2>1, <2>2
<1>3. Computed \in Caches
  <2>1. PublicNow \in SUBSET Posts /\ version \in Versions
    BY DEF TypeOK, PublicNow
  <2> QED  BY <1>2, <2>1 DEF Computed, Caches
<1>4. cache' \in Caches
  BY <1>3 DEF Look, TypeOK
<1>5. pending' \in BOOLEAN
  <2>1. pending' = (pending \/ (~Fresh /\ CacheDue))
    BY DEF Look
  <2> QED  BY <2>1, Zenon
<1> QED  BY <1>4, <1>5

LEMMA BoundedStep == IInv /\ Bounded /\ [Next]_vars => Bounded'
<1> SUFFICES ASSUME IInv, Bounded, [Next]_vars PROVE Bounded'
  OBVIOUS
<1>0. /\ version \in Nat /\ version <= MaxEdits + lastCheck /\ lastCheck <= now
      /\ lastCheck \in Times /\ now \in Times /\ Times \subseteq Nat /\ 0 \in Versions /\ 0 \in Times
  BY MaxTimeAssumption, MaxEditsAssumption DEF IInv, Typed, Bounded, TypeOK, Times, Versions
<1>1. ASSUME MayEdit PROVE version + 1 \in Versions /\ version + 1 <= MaxEdits + lastCheck
  BY <1>0, <1>1, VersionsFit, MaxEditsAssumption DEF MayEdit
<1>2. [cache EXCEPT !.version = 0] \in Caches
  BY <1>0 DEF Bounded, TypeOK, Caches
<1>3. CASE View
  BY <1>3, LookTypes DEF View, IInv, Bounded, TypeOK, data, posts, pages
<1>4. ASSUME NEW p \in Pages, Sync(p) PROVE Bounded'
  <2>1. cache' \in Caches /\ pending' \in BOOLEAN
    BY <1>4, LookTypes DEF Sync, IInv, Bounded
  <2>2. cursor' \in [Pages -> Versions]
    BY <1>4 DEF Sync, Bounded, TypeOK
  <2>3. cache'.shown \in SUBSET Posts
    BY <2>1 DEF Caches
  <2>4. shows' \in [Pages -> SUBSET Posts]
    BY <1>4, <2>3 DEF Sync, Bounded, TypeOK
  <2> QED  BY <1>4, <2>1, <2>2, <2>4 DEF Sync, Bounded, TypeOK, data, posts
<1>5. CASE Save
  BY <1>1, <1>2, <1>5 DEF Save, Bump, Bounded, TypeOK, posts, watch, pages
<1>6. ASSUME NEW p \in Pages, OwnSave(p) PROVE Bounded'
  <2>1. cursor' \in [Pages -> Versions]
    BY <1>1, <1>6 DEF OwnSave, Bounded, TypeOK
  <2> QED  BY <1>1, <1>2, <1>6, <2>1 DEF OwnSave, Bump, Bounded, TypeOK, posts, watch
<1>7. CASE AdminStep
  <2>1. AdminChange
    BY <1>7 DEF AdminStep, PutTeam, DeleteTeam, ArchiveTeam, RestoreArchive, Move, UpdateAccessGate
  <2>2. /\ kind' \in [Posts -> Kinds]
        /\ open' \in [Posts -> BOOLEAN]
        /\ opensAt' \in [Posts -> Times]
    BY <1>7 DEF AdminStep, PutTeam, DeleteTeam, ArchiveTeam, RestoreArchive, Move, UpdateAccessGate,
                Bounded, TypeOK, Kinds
  <2> QED  BY <1>1, <1>2, <2>1, <2>2 DEF AdminChange, BumpAndClear, Bump, Bounded, TypeOK, watch, pages
<1>8. CASE CheckPublication
  <2>1. /\ UNCHANGED <<now, kind, open, opensAt, cursor, shows>> /\ lastCheck < now
        /\ pending' = FALSE /\ lastCheck' = now
    BY <1>8 DEF CheckPublication, posts, pages
  <2>2. CASE Due
    <3>1. version + 1 <= MaxEdits + now
      BY <1>0, <2>1, MaxEditsAssumption
    <3>2. version + 1 \in Versions
      BY <1>0, <3>1, VersionsFit
    <3> QED  BY <1>0, <1>2, <1>8, <2>1, <2>2, <3>1, <3>2 DEF CheckPublication, BumpAndClear, Bump,
                                                           Bounded, TypeOK
  <2>3. CASE ~Due
    <3>1. version <= MaxEdits + now
      BY <1>0, MaxEditsAssumption
    <3> QED  BY <1>0, <1>8, <2>1, <2>3, <3>1 DEF CheckPublication, Bounded, TypeOK
  <2> QED  BY <2>2, <2>3
<1>9. CASE Tick
  <2>1. now' \in Times
    BY <1>9, MaxTimeAssumption DEF Tick, Bounded, TypeOK, Times
  <2> QED  BY <1>9, <2>1 DEF Tick, Bounded, TypeOK, server, data, posts, watch, pages
<1>10. CASE Restart
  <2>1. /\ UNCHANGED <<now, kind, open, opensAt, version, cursor, shows>>
        /\ base' = version /\ pending' = FALSE /\ lastCheck' = now
        /\ cache' = [version |-> 0, next |-> 0, shown |-> {}]
    BY <1>10 DEF Restart, posts, pages
  <2>2. version <= MaxEdits + now
    BY <1>0, MaxEditsAssumption
  <2>3. cache' \in Caches
    BY <1>0, <2>1 DEF Caches
  <2>4. missed' \in BOOLEAN
    <3>1. missed' = (missed \/ Due \/ ArchiveToCome)
      BY <1>10 DEF Restart
    <3> QED  BY <3>1, Zenon
  <2> QED  BY <1>0, <2>1, <2>2, <2>3, <2>4 DEF Bounded, TypeOK
<1>11. CASE UNCHANGED vars
  BY <1>11 DEF vars, data, posts, watch, pages, Bounded, TypeOK
<1> QED  BY <1>3, <1>4, <1>5, <1>6, <1>7, <1>8, <1>9, <1>10, <1>11 DEF Next

\* TypeOK: publishScheduledTeams bumps the version at most once a tick, so its
\* bumps and those of the edits stay within the bound of the model.
THEOREM TypeCorrect == Spec => []TypeOK
<1>1. ASSUME Init PROVE Bounded
  <2>1. 0 \in Times /\ 1 \in Times /\ 0 \in Versions /\ 1 \in Versions /\ 1 <= MaxEdits + 1
    BY MaxTimeAssumption, MaxEditsAssumption DEF Times, Versions
  <2>2. cache \in Caches
    BY <1>1, <2>1 DEF Init, Caches
  <2> QED  BY <1>1, <2>1, <2>2 DEF Init, Bounded, TypeOK, Kinds
<1>2. Bounded => TypeOK
  BY DEF Bounded
<1> QED  BY <1>1, <1>2, InitInv, StepInv, BoundedStep, PTL DEF Spec

=============================================================================
