----------------------------- MODULE Publication -----------------------------
(***************************************************************************)
(* When a team or an archive becomes visible to ordinary users, and how    *)
(* the pages they have open learn of it: viewerVisibilityUnlocked with its *)
(* cache and publishScheduledTeams of backend-cpp/src/main.cpp, and        *)
(* TeamVisibility.h.                                                       *)
(*                                                                         *)
(* Becoming public is an event nobody commits: only the clock moves.  The  *)
(* server computes what is public when it is asked, caches it until the    *)
(* data change or the next publication is due, and once a second bumps the *)
(* data version if a publication has come due, so that open pages, which   *)
(* ask for nothing as long as the version stands, ask again.               *)
(*                                                                         *)
(* Every step below is one critical section of mutex_.  A sync applies its *)
(* answer at once: VersionSync is about late answers.  A post is a team or *)
(* an archived team.                                                       *)
(***************************************************************************)
EXTENDS Naturals

CONSTANTS
    Posts,      \* teams and archives
    Pages,      \* open pages of ordinary users
    MaxTime,    \* bound of the model: the clock
    MaxEdits    \* bound of the model: no edit at this data version or later

ASSUME MaxTimeAssumption == MaxTime \in Nat \ {0}
ASSUME MaxEditsAssumption == MaxEdits \in Nat \ {0}

VARIABLES
    now,        \* nowMs()
    kind,       \* where a post is: no row, the table teams, the table archives
    open,       \* publicSignup of a post
    opensAt,    \* publicAtMs of a post; 0 is at once
    version,    \* dataVersionCache_
    base,       \* the oldest version from which dataPatches_ lead to version
    cache,      \* publicVisibilityCache_
    pending,    \* pendingPublication_
    lastCheck,  \* lastPublicationCheckMs_
    cursor,     \* the version each page is at
    shows,      \* the posts each page shows
    missed      \* history: a restart forgot a publication, nothing announced since

posts == <<kind, open, opensAt>>
data  == <<posts, version, base>>
watch == <<pending, lastCheck>>
pages == <<cursor, shows>>
server == <<data, cache, watch, missed>>
vars  == <<now, data, cache, watch, pages, missed>>

-----------------------------------------------------------------------------
Times    == 0 .. MaxTime
Versions == 0 .. MaxEdits + MaxTime    \* a check bumps at most once a tick
Kinds    == {"none", "team", "archive"}
Caches   == [version : Versions, next : Times, shown : SUBSET Posts]

Public(x) == kind[x] # "none" /\ open[x] /\ opensAt[x] <= now
PublicNow == {x \in Posts : Public(x)}

\* the times of publications still to come
ToCome == {opensAt[x] : x \in {y \in Posts : kind[y] # "none" /\ open[y] /\ opensAt[y] > now}}

Earliest(T) == IF T = {} THEN 0 ELSE CHOOSE t \in T : \A u \in T : t <= u

\* mutant: the publications of archives are not remembered
ComputedForTeams ==
    [version |-> version,
     next    |-> Earliest({opensAt[x] : x \in {y \in Posts : /\ kind[y] = "team"
                                                             /\ open[y] /\ opensAt[y] > now}}),
     shown   |-> PublicNow]

Computed == [version |-> version, next |-> Earliest(ToCome), shown |-> PublicNow]

\* mutant: the cache stands until the data change
FreshUntilChange == cache.version = version

Fresh == cache.version = version /\ (cache.next = 0 \/ now < cache.next)

\* the cached publication has come due and no check has seen it yet
CacheDue == lastCheck < cache.next /\ cache.next <= now

\* mutant: the due time in the cache is lost when the cache is renewed
LookOnly ==
    /\ cache' = IF Fresh THEN cache ELSE Computed
    /\ UNCHANGED pending

\* viewerVisibilityUnlocked for an ordinary user
Look ==
    /\ cache' = IF Fresh THEN cache ELSE Computed
    /\ pending' = (pending \/ (~Fresh /\ CacheDue))

\* bumpDataVersionUnlocked
Bump ==
    /\ version' = version + 1
    /\ cache' = [cache EXCEPT !.version = 0]

\* bumpDataVersionAndClearPatchesUnlocked
BumpAndClear == Bump /\ base' = version + 1 /\ missed' = FALSE

MayEdit == version < MaxEdits

-----------------------------------------------------------------------------
\* Any request of an ordinary user that asks what he may see.
View == Look /\ UNCHANGED <<now, data, lastCheck, pages, missed>>

\* /sync of a page at another version: patches, which show no other posts,
\* or a snapshot
Sync(p) ==
    /\ cursor[p] # version
    /\ Look
    /\ cursor' = [cursor EXCEPT ![p] = version]
    /\ shows' = [shows EXCEPT ![p] = IF cursor[p] >= base THEN @ ELSE cache'.shown]
    /\ UNCHANGED <<now, data, lastCheck, missed>>

\* a slot mutation from elsewhere
Save ==
    /\ MayEdit
    /\ Bump
    /\ UNCHANGED <<now, posts, base, watch, pages, missed>>

\* a page's own slot mutation: its answer moves the cursor by one, no sync
OwnSave(p) ==
    /\ cursor[p] = version
    /\ MayEdit
    /\ Bump
    /\ cursor' = [cursor EXCEPT ![p] = version + 1]
    /\ UNCHANGED <<now, posts, base, watch, shows, missed>>

AdminChange == MayEdit /\ BumpAndClear /\ UNCHANGED <<now, watch, pages>>

\* createTeam, and patchTeam with its publication fields
PutTeam(x, o, t) ==
    /\ kind[x] # "archive"
    /\ kind' = [kind EXCEPT ![x] = "team"]
    /\ open' = [open EXCEPT ![x] = o]
    /\ opensAt' = [opensAt EXCEPT ![x] = t]
    /\ AdminChange

Move(x, from, to) ==
    /\ kind[x] = from
    /\ kind' = [kind EXCEPT ![x] = to]
    /\ UNCHANGED <<open, opensAt>>
    /\ AdminChange

DeleteTeam(x)     == Move(x, "team", "none")
ArchiveTeam(x)    == Move(x, "team", "archive")
RestoreArchive(x) == Move(x, "archive", "team")

\* updateAccessGate: all teams, and only teams
UpdateAccessGate(t) ==
    /\ open' = [x \in Posts |-> open[x] \/ kind[x] = "team"]
    /\ opensAt' = [x \in Posts |-> IF kind[x] = "team" THEN t ELSE opensAt[x]]
    /\ AdminChange
    /\ UNCHANGED kind

TeamDue ==
    \E x \in Posts : kind[x] = "team" /\ open[x] /\ lastCheck < opensAt[x] /\ opensAt[x] <= now

Due == TeamDue \/ pending \/ CacheDue

\* mutant: a check does not remember when it was
CheckForgetful ==
    /\ now > lastCheck
    /\ IF Due THEN BumpAndClear ELSE UNCHANGED <<version, base, cache, missed>>
    /\ pending' = FALSE
    /\ UNCHANGED <<now, posts, lastCheck, pages>>

\* publishScheduledTeams, every second
CheckPublication ==
    /\ now > lastCheck
    /\ IF Due THEN BumpAndClear ELSE UNCHANGED <<version, base, cache, missed>>
    /\ pending' = FALSE
    /\ lastCheck' = now
    /\ UNCHANGED <<now, posts, pages>>

Tick ==
    /\ now < MaxTime
    /\ now' = now + 1
    /\ UNCHANGED <<server, pages>>

\* An archive that opens later: no query of the check looks at it.
ArchiveToCome == \E x \in Posts : kind[x] = "archive" /\ open[x] /\ opensAt[x] > now

\* The process starts again, any time after it went down; its members are
\* what their initialisers say, and only the database is left.
Restart ==
    /\ base' = version
    /\ cache' = [version |-> 0, next |-> 0, shown |-> {}]
    /\ pending' = FALSE
    /\ lastCheck' = now
    /\ missed' = (missed \/ Due \/ ArchiveToCome)
    /\ UNCHANGED <<now, posts, version, pages>>

-----------------------------------------------------------------------------
Init ==
    /\ now = 1
    /\ kind \in [Posts -> {"team", "archive"}]
    /\ open = [x \in Posts |-> FALSE]
    /\ opensAt = [x \in Posts |-> 0]
    /\ version = 1 /\ base = 1
    /\ cache = [version |-> 0, next |-> 0, shown |-> {}]
    /\ pending = FALSE
    /\ lastCheck = 1
    /\ cursor = [p \in Pages |-> 0]
    /\ shows = [p \in Pages |-> {}]
    /\ missed = FALSE

AdminStep ==
    \/ \E x \in Posts, o \in BOOLEAN, t \in Times : PutTeam(x, o, t)
    \/ \E x \in Posts : DeleteTeam(x) \/ ArchiveTeam(x) \/ RestoreArchive(x)
    \/ \E t \in Times : UpdateAccessGate(t)

Next ==
    \/ Tick
    \/ View
    \/ Save
    \/ AdminStep
    \/ CheckPublication
    \/ Restart
    \/ \E p \in Pages : Sync(p) \/ OwnSave(p)

Spec == Init /\ [][Next]_vars

\* Time passes, the timer fires, and a page that hears of another version
\* syncs.  Nothing is assumed of users and administrators.
FairSpec ==
    /\ Spec
    /\ WF_vars(Tick)
    /\ WF_vars(CheckPublication)
    /\ \A p \in Pages : WF_vars(Sync(p))

-----------------------------------------------------------------------------
TypeOK ==
    /\ now \in Times
    /\ kind \in [Posts -> Kinds]
    /\ open \in [Posts -> BOOLEAN]
    /\ opensAt \in [Posts -> Times]
    /\ version \in Versions /\ base \in Versions
    /\ cache \in Caches
    /\ pending \in BOOLEAN
    /\ lastCheck \in Times
    /\ cursor \in [Pages -> Versions]
    /\ shows \in [Pages -> SUBSET Posts]
    /\ missed \in BOOLEAN

\* Ordinary users are shown what is public now, neither before its time nor
\* after it was withdrawn, although what they are shown may come from a cache
\* computed earlier.
CacheCorrect == Fresh => cache.shown = PublicNow

\* A page that asks for nothing, being at the server's version, and does not
\* show what is public now will be told: the next check of publications bumps
\* the version.
AlwaysTold ==
    \A p \in Pages : cursor[p] = version /\ shows[p] # PublicNow => now > lastCheck /\ Due

\* That much is true until a restart forgets a publication that has come due,
\* or the archives its cache was waiting for, and again after the next change
\* that drops the patches.  The cache that is renewed in between, the archives
\* no query of the check looks at, and saves that move page and server on
\* together do not lose the occasion.
StaleIsDue == missed \/ AlwaysTold

\* After the last change and the last publication, every open page comes to
\* show exactly what is public, unless a restart forgot a publication.
OpenPagesFollow == <>[](missed \/ \A p \in Pages : shows[p] = PublicNow)
=============================================================================
