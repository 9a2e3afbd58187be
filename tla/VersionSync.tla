----------------------------- MODULE VersionSync -----------------------------
(***************************************************************************)
(* How the pages of a signup board stay up to date: the data version and   *)
(* the queue of patches of backend-cpp/src/main.cpp, and the cursor of     *)
(* frontend/src/App.tsx and syncCursor.ts.                                 *)
(*                                                                         *)
(* Each page shows a copy of the board and a cursor, the data version it   *)
(* believes its copy to be at.  Copies move in three ways, and their       *)
(* answers arrive in any order: a page's own mutation is answered with its *)
(* patch and version; GET /sync answers with nothing new, with the patches *)
(* since the cursor, or with a full snapshot; and a login asks /sync for   *)
(* everything.  What prompts a sync (an SSE event, which may be late, lost *)
(* or out of order, or a poll of /version) carries no data, and is left    *)
(* open here: a page may sync whenever it is not syncing yet.              *)
(*                                                                         *)
(* The board is reduced to items (slots), each holding who sits there and  *)
(* at which version it was written.  Runtime locks, visibility and pages   *)
(* without a server (serverMode off) are left out.                         *)
(***************************************************************************)
EXTENDS Naturals, Sequences, FiniteSets

CONSTANTS
    Users,
    Pages,          \* the open pages that are followed, named by their users
    Items,
    MaxPatches,     \* maxDataPatches_
    MaxVersion,     \* bound of the model: data version
    Faults,         \* subset of {"commit", "restore"}: see RollBackPatch, Restore
    Nobody, NoVersion, Idle

ASSUME PagesAssumption == Pages \subseteq Users /\ Nobody \notin Users
ASSUME NoVersionAssumption == NoVersion \notin Nat
ASSUME MaxPatchesAssumption == MaxPatches \in Nat \ {0}
ASSUME MaxVersionAssumption == MaxVersion \in Nat

VARIABLES
    db,         \* the committed board
    persisted,  \* data_version in the table meta_versions
    version,    \* dataVersionCache_
    patches,    \* dataPatches_
    view,       \* snapshotRef: what each page shows
    cursor,     \* dataVersionRef of each page
    online,     \* serverMode of each page
    mutation,   \* the mutation a page has in flight
    fetch       \* the /sync requests a page has in flight: its first and the other

server == <<db, persisted, version, patches>>
pages  == <<view, cursor, online>>
vars   == <<server, pages, mutation, fetch>>

-----------------------------------------------------------------------------
Versions == 0 .. MaxVersion
Cells    == [who : Users \cup {Nobody}, at : Versions]
Boards   == [Items -> Cells]
Patches  == [version : Versions, item : Items, who : Users \cup {Nobody}]

\* "init" is the one the page sends after a login, "sync" all others
Fetches == {"init", "sync"}

Mutations ==
    [at : {"sent"}, kind : {"slot", "bulk"}, item : Items,
     who : Users \cup {Nobody}, expected : Users \cup {Nobody}]
    \cup [at : {"done"}, patch : Patches]
    \cup [at : {"restoring", "restored"}]
    \cup [at : {"copied"}, board : Boards]

Cursors == Versions \cup {NoVersion}

Requests ==
    [at : {"asked", "copying"}, cursor : Cursors]
    \cup [at : {"same"}, cursor : Cursors, version : Versions]
    \cup [at : {"patches"}, cursor : Cursors, version : Versions, patches : Seq(Patches)]
    \cup [at : {"full"}, cursor : Cursors, version : Versions, board : Boards]

Stage(r) == IF r = Idle THEN "idle" ELSE r.at

Apply(board, p) == [board EXCEPT ![p.item] = [who |-> p.who, at |-> p.version]]

SameData(b, c) == \A i \in Items : b[i].who = c[i].who

-----------------------------------------------------------------------------
(* The server.  Each step is one critical section of mutex_.                *)

\* mutant: the queue is never cut
RememberAll(p) == patches' = Append(patches, p)

\* rememberDataPatchUnlocked
Remember(p) ==
    LET q == Append(patches, p)
    IN  patches' = IF Len(q) > MaxPatches THEN Tail(q) ELSE q

\* a slot mutation is remembered, any other change clears the queue
RememberChange(kind, p) ==
    IF kind = "slot" THEN Remember(p) ELSE patches' = <<>>

NextPatch(i, who) == [version |-> version + 1, item |-> i, who |-> who]

CommitPatch(kind, p) ==
    /\ version < MaxVersion
    /\ db' = Apply(db, p)
    /\ persisted' = persisted + 1
    /\ version' = version + 1
    /\ RememberChange(kind, p)

\* COMMIT throws: SQLite rolls back, data_version with it; the cached version
\* and the patch queue are not put back
RollBackPatch(kind, p) ==
    /\ "commit" \in Faults
    /\ version < MaxVersion
    /\ version' = version + 1
    /\ RememberChange(kind, p)
    /\ UNCHANGED <<db, persisted>>

\* a change from elsewhere: another page, the bot
OtherChange(kind, i, who) ==
    /\ CommitPatch(kind, NextPatch(i, who)) \/ RollBackPatch(kind, NextPatch(i, who))
    /\ UNCHANGED <<pages, mutation, fetch>>

\* a page's mutation commits and is answered with its patch and version;
\* expectedMemberQq is compared for slot mutations only
CommitMutation(c) ==
    LET m == mutation[c]
        p == NextPatch(m.item, m.who)
    IN  /\ Stage(m) = "sent"
        /\ m.kind = "slot" => db[m.item].who = m.expected
        /\ CommitPatch(m.kind, p)
        /\ mutation' = [mutation EXCEPT ![c] = [at |-> "done", patch |-> p]]
        /\ UNCHANGED <<pages, fetch>>

\* restoreBackup: everything is replaced (here by an empty board),
Restore(c) ==
    /\ Stage(mutation[c]) = "restoring"
    /\ version < MaxVersion
    /\ db' = [i \in Items |-> [who |-> Nobody, at |-> version + 1]]
    /\ persisted' = persisted + 1
    /\ version' = version + 1
    /\ patches' = <<>>
    /\ mutation' = [mutation EXCEPT ![c] = [at |-> "restored"]]
    /\ UNCHANGED <<pages, fetch>>

\* mutex_ is released, and the answer is a snapshot taken later
CopyRestored(c) ==
    /\ Stage(mutation[c]) = "restored"
    /\ mutation' = [mutation EXCEPT ![c] = [at |-> "copied", board |-> db]]
    /\ UNCHANGED <<server, pages, fetch>>

\* mutant: patches are sent whether or not the first of them is the next one
PatchesSinceAny(n) ==
    SelectSeq(patches, LAMBDA p : n # NoVersion /\ p.version > n /\ p.version <= version)

\* the places in the queue of the patches after n
Later(n) == {k \in DOMAIN patches : patches[k].version > n /\ patches[k].version <= version}

\* dataPatchesSince: the patches that lead from n to version, <<>> if some
\* are gone
PatchesSince(n) ==
    IF /\ n # NoVersion
       /\ n <= version
       /\ \A k \in Later(n) : patches[k].version = n + Cardinality({j \in Later(n) : j <= k})
       /\ Cardinality(Later(n)) = version - n
    THEN [i \in 1 .. version - n |-> patches[CHOOSE k \in Later(n) : patches[k].version = n + i]]
    ELSE <<>>

\* sync(), its first critical section: nothing new, patches, or neither
AnswerSync(c, f) ==
    /\ Stage(fetch[c][f]) = "asked"
    /\ LET n == fetch[c][f].cursor
       IN  fetch' = [fetch EXCEPT ![c][f] =
             IF n = version THEN [at |-> "same", cursor |-> n, version |-> version]
             ELSE IF n # NoVersion /\ PatchesSince(n) # <<>>
                  THEN [at |-> "patches", cursor |-> n, version |-> version,
                        patches |-> PatchesSince(n)]
             ELSE [at |-> "copying", cursor |-> n]]
    /\ UNCHANGED <<server, pages, mutation>>

\* its second one: bootstrap()
AnswerBootstrap(c, f) ==
    /\ Stage(fetch[c][f]) = "copying"
    /\ fetch' = [fetch EXCEPT ![c][f] =
                   [at |-> "full", cursor |-> @.cursor, version |-> version, board |-> db]]
    /\ UNCHANGED <<server, pages, mutation>>

\* The process starts again.  Its requests are gone or sent again.
Restart ==
    /\ version' = persisted
    /\ patches' = <<>>
    /\ fetch' = [c \in Pages |-> [f \in Fetches |->
                   IF Stage(fetch[c][f]) = "copying"
                   THEN [at |-> "asked", cursor |-> fetch[c][f].cursor] ELSE fetch[c][f]]]
    /\ UNCHANGED <<db, persisted, pages, mutation>>

-----------------------------------------------------------------------------
(* A page.                                                                  *)

\* resetServerCursor and enterApp: what is in flight belongs to an older
\* generation, its answers are dropped; a restore knows no generations
Login(c) ==
    /\ cursor' = [cursor EXCEPT ![c] = NoVersion]
    /\ online' = [online EXCEPT ![c] = TRUE]
    /\ mutation' = [mutation EXCEPT ![c] =
                      IF Stage(@) \in {"restoring", "restored", "copied"} THEN @ ELSE Idle]
    /\ fetch' = [fetch EXCEPT ![c] = [f \in Fetches |->
                   IF f = "init" THEN [at |-> "asked", cursor |-> NoVersion] ELSE Idle]]
    /\ UNCHANGED <<server, view>>

\* past the loading screen, in serverMode
Loaded(c) == online[c] /\ fetch[c]["init"] = Idle

\* runMutation, up to the answer
SendMutation(c, kind, i, who) ==
    /\ Loaded(c)
    /\ mutation[c] = Idle
    /\ who \in {c, Nobody}
    /\ mutation' = [mutation EXCEPT ![c] =
          [at |-> "sent", kind |-> kind, item |-> i, who |-> who, expected |-> view[c][i].who]]
    /\ UNCHANGED <<server, pages, fetch>>

SendRestore(c) ==
    /\ "restore" \in Faults
    /\ Loaded(c)
    /\ mutation[c] = Idle
    /\ mutation' = [mutation EXCEPT ![c] = [at |-> "restoring"]]
    /\ UNCHANGED <<server, pages, fetch>>

\* The mutation is refused, or its answer never arrives.
LoseMutation(c) ==
    /\ mutation[c] # Idle
    /\ mutation' = [mutation EXCEPT ![c] = Idle]
    /\ UNCHANGED <<server, pages, fetch>>

\* mutant: the cursor jumps over what it has not seen
PlanJumping(c, v) ==
    [apply |-> cursor[c] = NoVersion \/ v > cursor[c],
     next  |-> IF cursor[c] # NoVersion /\ v > cursor[c] THEN v ELSE cursor[c]]

\* planMutationSync: shown if new, but the cursor only ever moves by one
Plan(c, v) ==
    [apply |-> cursor[c] # NoVersion => v > cursor[c],
     next  |-> IF cursor[c] # NoVersion /\ v = cursor[c] + 1 THEN v ELSE cursor[c]]

\* runMutation, from the answer on; the sync it asks for if there was a gap
\* is one more prompt
MutationAnswered(c) ==
    /\ Stage(mutation[c]) = "done"
    /\ LET p == mutation[c].patch
           plan == Plan(c, p.version)
       IN  /\ view' = [view EXCEPT ![c] = IF plan.apply THEN Apply(@, p) ELSE @]
           /\ cursor' = [cursor EXCEPT ![c] = plan.next]
    /\ mutation' = [mutation EXCEPT ![c] = Idle]
    /\ UNCHANGED <<server, online, fetch>>

\* handleBackupRestored looks at no version
RestoreAnswered(c) ==
    /\ Stage(mutation[c]) = "copied"
    /\ view' = [view EXCEPT ![c] = mutation[c].board]
    /\ mutation' = [mutation EXCEPT ![c] = Idle]
    /\ UNCHANGED <<server, cursor, online, fetch>>

\* syncServerChanges, up to the answer: one at a time
StartSync(c) ==
    /\ online[c]
    /\ fetch[c]["sync"] = Idle
    /\ fetch' = [fetch EXCEPT ![c]["sync"] = [at |-> "asked", cursor |-> cursor[c]]]
    /\ UNCHANGED <<server, pages, mutation>>

\* A poll that sees another version than the cursor.
Poll(c) == cursor[c] # version /\ StartSync(c)

\* mutant: no server version is ever taken back
ShouldApplyNewer(c, r) == cursor[c] # NoVersion => r.version >= cursor[c]

\* shouldApplySyncVersion
ShouldApply(c, r) ==
    cursor[c] \in {NoVersion, r.cursor} \/ r.version >= cursor[c]

\* unseenServerPatches keeps those that
Unseen(c, p) == cursor[c] # NoVersion => p.version > cursor[c]

\* applySnapshotPatches, one after the other, of those not seen
ApplyUnseen(c, ps) ==
    LET after[n \in 0 .. Len(ps)] ==
          IF n = 0 THEN view[c]
          ELSE IF Unseen(c, ps[n]) THEN Apply(after[n-1], ps[n]) ELSE after[n-1]
    IN  after[Len(ps)]

\* syncServerChanges, from the answer on
SyncAnswered(c) ==
    LET r == fetch[c]["sync"]
    IN  /\ Stage(r) \in {"same", "patches", "full"}
        /\ view' = [view EXCEPT ![c] =
              CASE ~ShouldApply(c, r) \/ r.at = "same" -> @
                [] ShouldApply(c, r) /\ r.at = "patches" -> ApplyUnseen(c, r.patches)
                [] ShouldApply(c, r) /\ r.at = "full" -> r.board]
        /\ cursor' = [cursor EXCEPT ![c] = IF ShouldApply(c, r) THEN r.version ELSE @]
        /\ fetch' = [fetch EXCEPT ![c]["sync"] = Idle]
        /\ UNCHANGED <<server, online, mutation>>

SyncFails(c) ==
    /\ fetch[c]["sync"] # Idle
    /\ fetch' = [fetch EXCEPT ![c]["sync"] = Idle]
    /\ UNCHANGED <<server, pages, mutation>>

\* initialize, from the answer on
InitAnswered(c) ==
    LET r == fetch[c]["init"]
        fresh == cursor[c] # NoVersion => r.version >= cursor[c]
    IN  /\ Stage(r) = "full"
        /\ view' = [view EXCEPT ![c] = IF fresh THEN r.board ELSE @]
        /\ cursor' = [cursor EXCEPT ![c] = IF fresh THEN r.version ELSE @]
        /\ fetch' = [fetch EXCEPT ![c]["init"] = Idle]
        /\ UNCHANGED <<server, online, mutation>>

\* the page goes on without the server until the next login
InitFails(c) ==
    /\ fetch[c]["init"] # Idle
    /\ online' = [online EXCEPT ![c] = FALSE]
    /\ fetch' = [fetch EXCEPT ![c]["init"] = Idle]
    /\ UNCHANGED <<server, view, cursor, mutation>>

-----------------------------------------------------------------------------
EmptyBoard == [i \in Items |-> [who |-> Nobody, at |-> 0]]

Init ==
    /\ db = EmptyBoard
    /\ persisted = 0 /\ version = 0
    /\ patches = <<>>
    /\ view = [c \in Pages |-> EmptyBoard]
    /\ cursor = [c \in Pages |-> NoVersion]
    /\ online = [c \in Pages |-> FALSE]
    /\ mutation = [c \in Pages |-> Idle]
    /\ fetch = [c \in Pages |-> [f \in Fetches |-> Idle]]

ServerStep ==
    \/ \E kind \in {"slot", "bulk"}, i \in Items, who \in Users \cup {Nobody} :
          OtherChange(kind, i, who)
    \/ \E c \in Pages : CommitMutation(c) \/ Restore(c) \/ CopyRestored(c)
    \/ \E c \in Pages, f \in Fetches : AnswerSync(c, f) \/ AnswerBootstrap(c, f)
    \/ Restart

PageStep(c) ==
    \/ Login(c)
    \/ \E i \in Items, kind \in {"slot", "bulk"}, who \in {c, Nobody} : SendMutation(c, kind, i, who)
    \/ SendRestore(c)
    \/ LoseMutation(c)
    \/ MutationAnswered(c)
    \/ RestoreAnswered(c)
    \/ StartSync(c)
    \/ SyncAnswered(c)
    \/ SyncFails(c)
    \/ InitAnswered(c)
    \/ InitFails(c)

Next == ServerStep \/ \E c \in Pages : PageStep(c)

Spec == Init /\ [][Next]_vars

\* Polls go on, and a request that is tried for ever is answered and the
\* answer gets through some time, although any one try may fail (SF).
\* Nothing is assumed of users, of mutations or of events.
FairSpec ==
    /\ Spec
    /\ \A c \in Pages :
          /\ WF_vars(Poll(c))
          /\ \A f \in Fetches : SF_vars(AnswerSync(c, f)) /\ SF_vars(AnswerBootstrap(c, f))
          /\ SF_vars(SyncAnswered(c))
          /\ WF_vars(InitAnswered(c) \/ InitFails(c))

-----------------------------------------------------------------------------
TypeOK ==
    /\ db \in Boards
    /\ persisted \in Versions /\ version \in Versions
    /\ patches \in Seq(Patches) /\ Len(patches) <= MaxPatches
    /\ view \in [Pages -> Boards]
    /\ cursor \in [Pages -> Cursors]
    /\ online \in [Pages -> BOOLEAN]
    /\ mutation \in [Pages -> Mutations \cup {Idle}]
    /\ fetch \in [Pages -> [Fetches -> Requests \cup {Idle}]]

\* A page whose cursor is at the server's version shows the server's data.
\* Such a page asks for nothing more, so a difference would stay.
SameVersionSameData ==
    \A c \in Pages : cursor[c] = version => SameData(view[c], db)

\* A page never shows an older state of a slot after a newer one, however
\* late the answers to its requests are.
NoRollback ==
    [][\A c \in Pages, i \in Items : view'[c][i].at >= view[c][i].at]_vars

\* Changes come to an end (MaxVersion); a page that is loaded and stays with
\* the server then comes to show what the server has.
Converges == \A c \in Pages : <>[]Loaded(c) => <>[]SameData(view[c], db)

\* Even where versions go back (a COMMIT failed, the server started again), a
\* page ends up at the version the server settles at: it does not wait for a
\* version the server no longer has.
CatchesUp ==
    \A c \in Pages :
        <>[]Loaded(c) /\ <>[][FALSE]_version => <>[](cursor[c] = version)
=============================================================================
