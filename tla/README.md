# TeamAssistant: a verification project

TeamAssistant is a signup board for 25-seat game teams: a C++ server
(`backend-cpp/src/main.cpp`, Drogon and SQLite), a React page
(`frontend/src`), and a QQ bot (`qqbot/src`).  This directory holds TLA+
models of its core, the TLC configurations that check them, and machine-checked
proofs.  Paths below are relative to the repository.

## 1. The system

### 1.1 Parts, their state, and how they meet

| Part | State | Operations | Talks to |
|---|---|---|---|
| Signup board (`SqliteDb`) | tables `teams`, `slots`; `runtimeLocks_` (slot locks, team locks) in memory; `nextLockToken_` | acquire / validate / release slot lock, set / remove team lock, save / leave / cancel a member, set a slot's role, patch / create / delete teams | pages and bot over HTTP; two mutexes: `mutex_` around SQLite, `runtimeMutex_` around the locks |
| Data versions | `meta_versions.data_version`, `dataVersionCache_`, `dataPatches_` (128 at most), snapshot cache | bump, remember or clear patches, `/version`, `/sync`, `/bootstrap` | every write bumps; pages pull |
| Page (`App.tsx`) | snapshot, `dataVersionRef`, `lockVersionRef`, generation, requests in flight | initialise, poll, SSE prompt, sync, mutate, restore a backup, login | `/version`, `/sync`, mutations, events |
| Publication | `public_signup`, `public_at_ms` of teams and archives, `publicVisibilityCache_`, `pendingPublication_`, `lastPublicationCheckMs_` | compute what a viewer may see, check once a second, edit | bumps the data version |
| Version events (`VersionEventHub`) | streams | subscribe, publish, heartbeat | timers and mutation handlers to pages |
| Reservations (`quickReserve`, `normalizeTeam`) | slot rows, `reserved_slots_json` | bulk reserve, bulk undo | the board's tables |
| Archives, team order | `archives`, `sort_order` | archive, restore, reorder | the board's tables and locks |
| Backups | files, the whole database | create, prune, restore, import | replaces the board, clears the locks |
| Admin sessions | token, QQ, expiry | login, check, revoke | guards of every admin handler |
| History | `operation_logs`, `cancellations` | append, page by timestamp | written by mutations |
| Adaptive poll (`polling.ts`) | timer, running, failures | schedule, run, stop | prompts syncs |
| QQ bot | semaphore (`limiter.js`), bindings, a signup client (`team.js`) | limit, bind, acquire-save-release | HTTP to the server |
| Subsidies, forms, rendering | rows, form state | single writes | - |

### 1.2 What is hard about it

* A save needs a slot lock (memory, expiring by the clock) *and* a transaction
  (SQLite).  It validates the lock, waits for `mutex_`, validates again,
  commits, and only then frees the lock.  `runtimeMutex_` is free in between:
  locks expire, are taken over, are dropped by a token-less release or by the
  deletion of their team.
* Administration rewrites whole teams without looking at slot locks.
* Pages receive the answers to mutations, syncs and first loads in any order,
  with overlapping patches and snapshots, and must neither lose a change nor
  wait for one that will never come.
* The data version is cached in memory and changed before COMMIT.
* Becoming public is an event nobody commits; a timer must notice it although
  readers renew the cache in between, and although the process may restart.

* Lock changes reach a page as version numbers over an event stream that may
  be late or silent; the numbers start again with the process.
* A handler checks rights, then changes the board in a later critical section;
  rights end without a new data version.
* Log ids come from a counter that starts again with the process, and from a
  time that may be a client's; restores bring old rows back; pages of history
  are cut at a timestamp.
* A restore replaces the board first and clears the locks later, or never if it
  fails in between; saves may wait for `mutex_` all the while.

`PROJECT.json` lists each such hazard with its line and the properties aimed
at it; those without a property say why, or which planned module will take them.

### 1.3 What makes each part correct

* Board: one lock token, one change, of its own seat; nobody overwrites a
  member he did not see; rows, reserved lists and rules agree; one-signup teams
  get no new duplicates; a locked team runs dry of locks; locks end; `mutex_`
  is given back; nothing is written for a team that is gone.
* Versions and cursors: same version, same data; pages converge; pages follow
  a version that goes back; no page goes back in time.
* Publication: the cache is right whenever it is used; a page with outdated
  posts is about to be told; open pages follow.
* Quick reservations: the count asked for is reached, rows and lists still
  agree, nobody is unseated except by shrinking the boss list.
* Team list and archives: one place per team, one team per position, a reorder
  is obeyed, subsidies belong to their types.
* Lock news: same lock version, same locks; a page that polls ends up right.
* Access: what passes as an administrator's had a session on arrival; what
  reaches a hidden team was sent while it could be; a page shows what its
  visibility key stands for.
* Records: a log with the clock's time replaces no other such log, paging loses
  nothing but the milliseconds at which pages meet, notices have their logs,
  pruning keeps the newest.
* Restores: the restored board is in as good an order as the one that was kept;
  once a restore has answered, no ticket from before it is accepted.

## 2. Modules

| Module | What it is |
|---|---|
| `SlotRegister` | what the board promises: seats are registers, changed by one-change tickets |
| `SlotBoard` | the board: locks, transactions, administration, restarts |
| `Restores` | archives and backups brought back over the board of `SlotBoard`, which it extends |
| `SlotBoardProofs` | the invariants of both, the one-signup action property and the refinement of `SlotRegister`, proved |
| `QuickReserve` | quick reservations over the board of `SlotBoard`, which it extends |
| `QuickReserveProofs` | its invariants and action properties, proved |
| `VersionSync` | data version, patch queue and the cursors of pages |
| `VersionSyncProofs` | its types and bounds, and its main invariant where nothing fails, proved |
| `Publication` | visibility, its cache, the publication timer, pages |
| `PublicationProofs` | its invariants, proved |
| `LockNews` | lock table and version, event hub, stream, a page's lock cursor |
| `LockNewsProofs` | its invariants and action property, proved |
| `TeamShelf` | the tables of teams and archives, their order, subsidies |
| `TeamShelfProofs` | its invariants and action property, proved |
| `AccessControl` | sessions, invite tokens, the checks of handlers, the visibility key |
| `AccessProofs` | its invariants, proved |
| `Records` | logs, notices, the directory of backups, paging |
| `RecordsProofs` | its invariants and action property, proved |
| `MC...` | small instances of these for TLC |

Each module's definitions are tied to lines of the source by `map` in
`PROJECT.json`.  Definitions under a comment `mutant:` are deliberately wrong
variants, used in place of the definition they are variants of to show that a
property notices.

### 2.1 SlotBoard

*State.* `teams`, `onlyTn`, `uniqueQq`, `reserved`, `seat` are the database;
`locks`, `lockedFor`, `nextToken` the memory; `issued` the tickets clients
know; `pc`, `req` the mutations in flight; `clearing` the team whose deletion
has committed and whose locks are not cleared yet; `spent` is a history
variable.  Times are kept as ages, capped just above the timeout.

*A mutation* (`saveSlotMember`, `leaveSlotMember`, `cancelSlotMember`, which
share their shape) is four steps:

    Preflight            authorisation of the handler, first validation
    Enter                mutex_, BEGIN IMMEDIATE, second validation
    CommitSave / CommitLeave / Reject / CommitFails
                         checks and writes in one transaction, or ROLLBACK
    ReleaseAfterCommit   releaseMutationSlotLock, then mutex_ is released

`waiting` mutations hold nothing; `txn` and `release` hold `mutex_`
(`DbFree`).  Lock operations may happen between any two steps.  A client may
send any ticket ever issued, any number of times, with any member and any
expected member: that covers pages, the bot, retries and duplicates.

*Administration* (`setSlotRole` in its four outcomes, `patchTeam`'s rules,
`createTeam`, `deleteTeam`) are single steps under `mutex_`, except deletion,
which clears the locks in a second step.  `StoreTeam` is the read-normalise-
insert path (`normalizeTeam`, `insertTeamUnlocked`).  `createTeam` is given the
blank team a page sends.

*Abstractions.* A member is a QQ and a martial art; a fixed role or art is the
set of arts it admits; the role table is `TnArts`.  Logs, notices and versions
are written by these transactions but read by none of their guards.

*Token freshness.* `nextToken` survives `Restart`: a real token is
`<milliseconds>-<counter>`, and the model assumes that the milliseconds differ
after a restart.

### 2.2 VersionSync

*State.* `db` and `persisted` are SQLite, `version` and `patches` the server's
memory; `view`, `cursor`, `online` a page; `mutation` and `fetch` what the page
has in flight, at each stage between sending and the answer's arrival.  Every
cell records at which version it was written, so that "older" can be said.

`AnswerSync` and `AnswerBootstrap` are the two critical sections of `sync()`.
`Plan`, `ShouldApply` and `Unseen` are `syncCursor.ts`; `ApplyUnseen` applies to
each slot the newest patch the page has not seen.  `Faults` switches two
things on that the ideal run leaves out: a COMMIT that throws (`RollBackPatch`:
the cached version and the queue are not put back) and a restore of a backup
(`Restore`, `CopyRestored`, `RestoreAnswered`).  What *prompts* a sync is left
open: a page may sync at any time, so lost, late and reordered events are all
allowed.  A page has one mutation in flight at a time.

### 2.3 Publication

*State.* The clock, the posts (teams and archives) with `open` and `opensAt`,
the version and the oldest version patches reach back to (`base`), the cache,
the timer's two fields, and pages that show a set of posts.  `Look` is
`viewerVisibilityUnlocked` for an ordinary user, `CheckPublication` is
`publishScheduledTeams`.  Invite tokens and administrators see everything and
touch no cache.  A sync is applied at once: late answers are `VersionSync`'s
subject.

A restart forgets `pendingPublication_`, the cache and the time of the last
check.  `missed` is a history variable: it is set when a restart drops a
publication that had come due (`Due`) or the due time of an archive, which no
query of the check looks at (`ArchiveToCome`), and cleared by the next change
that drops the patches.  `StaleIsDue` and `OpenPagesFollow` hold until then.

### 2.4 QuickReserve

Extends `SlotBoard`: `Set` is `quickReserve`, `Rank` is `quickReserveOrder`,
`StoreReserved` writes the team back through `StoreTeam`.  A type is the set of
arts it admits, or `Boss`.  A signup is its transaction alone (`Write` with
the checks `Authorised` and `Accepted` of `SlotBoard`): the lock protocol
around it touches no table, and every user can come to hold a ticket for every
slot.  The priorities of 25 slots (20..24, 15..19) become `TankFirst` and
`HealFirst` over three slots.

### 2.5 TeamShelf

*State.* `row` is the table `teams` with `sort_order`, `archive` the table
`archives`.  Ids are chosen by clients, so a team that is created again under
an old id must be told apart: each carries a board number the code does not
have.  `Place` is the net effect of the loop of `reorderTeams`, with repeated
and unknown ids.  Registering for subsidies looks at no types, and with a
`weekStart` drops the member's selections without a week: `Chosen` says so.
`late` is a history variable: types registered though not offered.

### 2.6 LockNews

*State.* `holder` and `old` are `runtimeLocks_` with the locks that have passed
their timeout; `owed`, `sending`, `stream`, `greeting`, `wire` follow an event
from the handler that owes it to the page; `pending`, `syncing`, `granted`,
`cursor`, `shows` are the page's.  `CleanByReader` is every reader that cleans
up and tells nobody; `CleanByTimer` is the timer that does tell.  `Connect`
reads the version of the hello and `Subscribe` registers the stream, two steps
as in the code.  A release and a removal by anybody are allowed at any time:
which token may do so is `SlotBoard`'s subject.  `foreign` is a history
variable: the cursor is of an earlier life of the server.

### 2.7 AccessControl

*State.* The clock, `sessions`, the invite token in force, when the one team is
public, the requests under way with the checks they still face, and a page with
its token, link, cursor and visibility key.  `Checks` lists what each kind of
handler asks, in order; each check is a critical section, the change (`Commit`)
a later one.  A `/sync` looks at the session, then compares keys and versions
(`PlanSync`), then perhaps takes data with a key of its own (`FetchData`).
`asAdmin`, `invited`, `saw` and `plain` are history variables: what a request
was entitled to on arrival, whether the team was public since, and whether the
page's last sync began without special rights.

### 2.8 Records

*State.* The tables of logs and notices, the directory of backups with each
file's contents as the windows of `bootstrapDataUnlocked` cut them, the teams
hidden from a reader, and the reader's pages.  Rows of one timestamp come in any
order, as SQL leaves it.  Logs without a team are read like those of a team that
is always shown.

A log is `dated` if its time is a client's: `archiveTeam` and `restoreArchive`
take it from the request when there is one (`LogDated`), every other log has the
server's clock (`LogIt`, `Cancel`).  The clock is taken not to go back.

A backup may be broken: `writeGzipFile` looks at no error, and a process may die
in it; pruning counts such a file.  After the new file is written the directory
may not be listed, and then nothing is pruned, or a file may not be removed,
which is ignored: `CreateBackup` removes any part of what is over the limit.
The contents given to `importBackup` and `replaceData` are taken to be ones a
backup could have.

### 2.9 Restores

Extends `SlotBoard`: its actions go on between those of this module.  `archives`
holds the last archive of each team, `backup` a file; both bounds only limit
what can be brought back.  `RestoreBackup` is `restoreBackup`, `importBackup` or
`replaceData` from taking `mutex_` to giving it back, with `listed` for whether
the files could be listed after COMMIT; if not, the request ends with an error.
`ClearRuntimeLocks` is the rest of the request, up to its answer.  `archiveTeam`
is `DeleteTeam` of `SlotBoard` with a copy kept, so its locks are cleared in a
second step under `mutex_`.  `clearFrom` keeps, for each restore in flight, the
first token after its COMMIT; `retired`, a history variable, the last of those
of the restores that have answered.

`replaceDataUnlocked` stores teams as they are (it does not normalise them), and
`restoreArchive` normalises.

## 3. Runs

| Run | Instance | What it shows |
|---|---|---|
| `board_race` | 1 seat, 2 users, 2 mutations in flight, 2 tickets, timeout 1 | `TypeOK`, `TicketSpentOnce`, `TeamLockYoungest`, `NoOrphans`, `Refinement` |
| `reserve` | 3 seats, 2 arts, 1 administrator who signs up too | `SeatConsistent`, `SeatMatchesRule`, `NoNewDuplicate`, `ReachesCount`, `UnseatsOnlyBossSlots` |
| `sync` | 1 page, changes from elsewhere, 2 slots, 2 patches, 3 versions, fairness | `TypeOK`, `SameVersionSameData`, `Converges` |
| `sync_resets` | failed COMMITs, restores and restarts, fairness | `CatchesUp` |
| `publication` | 2 posts, 1 page, 4 ticks, 4 edits, restarts, fairness | `TypeOK`, `CacheCorrect`, `StaleIsDue`, `OpenPagesFollow` |
| `shelf` | 3 team ids, 4 boards, positions to 4, 1 subsidy type | `TypeOK`, `PlacesDistinct`, `OnePlace`, `DanglingOnlyIfLate`, `ReorderObeyed` |
| `lock_news` | 2 slots and the team lock, a page that polls, 1 restart, fairness | `TypeOK`, `SameVersionSameLocks`, `BackOnlyAfterRestart`, `LocksFollow` |
| `access` | 1 request and 1 page, 2 users, 2 ticks, 1 session, 2 invitations | `TypeOK`, `AdminInForce`, `HiddenOnlyLate`, `PageShowsItsView` |
| `restores` | 1 seat, 1 user, 1 mutation and 2 restores in flight, 1 ticket, an archive or a backup, fairness | `SeatConsistent`, `OldTicketsEnd`, `LocksEnd`, `MutexReleased` |
| `records` | 2 teams, 2 logs, windows of 1, 2 files, a limit of 1, 1 restart | `TypeOK`, `FreshIds`, `PagingComplete`, `NoticeHasLog`, `PruneKeepsNewest` |
| `sync_rollback`, `lock_events` | small | each refutes one statement of the docs or tests: section 5 |

*Bounds, by name.* `MaxToken` (tickets handed out): two let a seat's lock be
taken over once, which is where a stale ticket meets a fresh one.  `Timeout` in
ticks: 1 separates fresh, old and expired; 0 where fresh and expired will do.
`MaxVersion` in `VersionSync`: 3 with a queue of 2 makes the queue overflow and
leaves a gap; the server's steps stop there, the pages' do not.  `MaxTime`: 4
gives two publications a tick before, at and after each other.  `MaxEdits` in
`Publication` bounds edits by the version they find; checks are not bounded, so
none is cut off.  Two mutations on one seat are enough for every interleaving of
two holders of `mutex_`; a third would wait like the second.  `reserve` keeps
a signup to its transaction because it adds arts, rules, an administrator and
quick reservations; that two saves at once add no duplicate is proved
(section 4).

`MaxBoard` 4 in `TeamShelf` lets an id be used again while its first team is
archived and another stands in the list; `MaxOrder` 4 leaves gaps in the order,
which deletions and restores make.  `Funded` gives one of the boards subsidies,
the others differ in nothing else.  In `LockNews` `MaxVersion` bounds the taking
of locks, never their end; a restart costs one of the versions, so that the new
process can count to a number the page has seen.  `MaxEvents` 1 suffices where
the page polls, since an event only prompts a sync; `lock_events` has 2, for
events that overtake each other.  `MaxTokens` in `AccessControl`: with one
request under way, one session and its end separate before and after; two
invitations are one renewal.  `Records` has windows and a history of one, so
that two rows and two files overflow them; `MaxFiles` 2 is one more than the
limit, so that a file left over meets the next pruning; `ClientTimes` has the
time a restart is over, which a client may send before.  Its bound `Apart`
keeps notices, a reader, and a second backup from being explored together:
paging looks at no notice and no backup, and pruning at no notice.  `Restores`
has one of each thing that a ticket must meet: `MaxKept` 1 keeps an archive or a
backup, so that each is restored over every state of the seat, and two restores
overlap; one ticket is enough for a mutation that was validated before both.
Larger instances were checked with the same result: `Restores` with two
tickets, where the other invariants of the board were checked too; `Records`
with time to 2 and one file.

*Symmetry.* Mutations in flight (`board_race`), team ids (`shelf`) and teams
(`records`) are permuted, in runs without liveness properties only.

*Fairness.* `SlotBoard`, and `Restores` over it: a begun transaction ends and a
committed mutation frees its lock (straight-line code under `mutex_`), the 5 s timer fires, time
passes.  Nothing is assumed of clients, or of who gets `mutex_`: a mutation may
wait for ever, and `LocksEnd` does not depend on it; nor does it on restores that
go on to clear the locks.  `VersionSync`: polls go on
(`startAdaptivePoll` always reschedules itself), and a request tried for ever
succeeds some time (strong fairness of the answer, since any single try may
fail); a first load succeeds or fails.  `Publication`: time, the 1 s timer, and
a page that learns of another version syncs.  `LockNews`: locks grow old, the
5 s timer fires, threads that owe an event get to it, the browser's EventSource
reconnects, polls go on, and a sync tried for ever is answered some time
(strong fairness).  Nothing is assumed of those who hold locks or of grants.
`QuickReserve`, `TeamShelf`, `AccessControl` and `Records` have no
liveness properties: nothing in them must happen.

## 4. Proofs

TLAPS proves every invariant, every action property and the refinement that the
passing runs check, for every value of the constants.  The theorems rest on the
named assumptions of the modules and on nothing else:

* the null values are no values (`NoValueAssumption`, `NoVersionAssumption`,
  `NoRowAssumption`, part of `PagesAssumption`), and each constant has its kind;
* `SlotBoard`: a seat has a team, administrators are users, a rule is a set of
  arts, the timeout is a number;
* `QuickReserve`: a board has finitely many slots and no two of a team have the
  same index (`IndexAssumption`, the primary key of `slots`), the preferred
  indices are below 25 (`quickReserveOrder`), and what a reserve type admits is
  a rule a slot can have;
* `TeamShelf`, `LockNews`: finitely many ids and slots; the bounds on boards,
  orders and versions leave room for those of the initial state;
* `Records`: windows, page sizes and the history limit are positive.

The bounds of the models (`MaxTime`, `MaxVersion`, ...) are constants too, so
the theorems hold for each of their values.  One theorem has a hypothesis of its
own: `SameVersionSameDataHolds` assumes `Faults = {}`, since a COMMIT that
throws and the restore of a backup do break the property (section 5).

| Module | Theorem | Property |
|---|---|---|
| `SlotBoardProofs` | `TypeCorrect` | `TypeOK` |
| | `OneMutationPerTicket` | `TicketSpentOnce` |
| | `RowsConsistent`, `SeatsMatchRules` | `SeatConsistent` and `SeatMatchesRule` |
| | `LockedTeamRunsDry` | `TeamLockYoungest` |
| | `NothingOutlivesItsTeam` | `NoOrphans` |
| | `NobodyGainsASecondSeat` | `NoNewDuplicate` |
| | `BoardImplementsRegister` | `Refinement` |
| | `RestoredBoardConsistent` | `SeatConsistent`, `SeatMatchesRule`, `NoOrphans`, `TicketSpentOnce`, `TeamLockYoungest` with restores |
| | `OldTicketsEndHolds` | `OldTicketsEnd` |
| `QuickReserveProofs` | `ReservedRowsConsistent` | `SeatConsistent` and `SeatMatchesRule` |
| | `ReservingAddsNoDuplicate` | `NoNewDuplicate` |
| | `ReachesCountHolds` | `ReachesCount` |
| | `UnseatsOnlyBossSlotsHolds` | `UnseatsOnlyBossSlots` |
| `VersionSyncProofs` | `TypeCorrect` | `TypeOK`, whatever fails |
| | `SameVersionSameDataHolds` | `SameVersionSameData`, if nothing fails |
| `PublicationProofs` | `TypeCorrect` | `TypeOK` |
| | `CacheCorrectHolds` | `CacheCorrect` |
| | `StaleIsDueHolds` | `StaleIsDue` |
| `LockNewsProofs` | `TypeCorrect` | `TypeOK` |
| | `SameVersionSameLocksHolds` | `SameVersionSameLocks` |
| | `BackOnlyAfterRestartHolds` | `BackOnlyAfterRestart` |
| `TeamShelfProofs` | `TypeCorrect` | `TypeOK` |
| | `OnePlaceHolds` | `OnePlace` |
| | `PlacesDistinctHolds` | `PlacesDistinct` |
| | `DanglingOnlyIfLateHolds` | `DanglingOnlyIfLate` |
| | `ReorderObeyedHolds` | `ReorderObeyed` |
| `AccessProofs` | `TypeCorrect` | `TypeOK` |
| | `AdminInForceHolds` | `AdminInForce` |
| | `HiddenOnlyLateHolds` | `HiddenOnlyLate` |
| | `PageShowsItsViewHolds` | `PageShowsItsView` |
| `RecordsProofs` | `TypeCorrect` | `TypeOK` |
| | `FreshIdsHolds` | `FreshIds` |
| | `PagingCompleteHolds` | `PagingComplete` |
| | `NoticeHasLogHolds` | `NoticeHasLog` |
| | `PruneKeepsNewestHolds` | `PruneKeepsNewest` |

*The board.* `TicketSpentOnce` is not inductive: that a mutation in its
transaction has an unspent token depends on the mutation before it having freed
its lock.  `TicketInv` adds: a token names one ticket; tokens below `nextToken`
only; a lock's token is that of a ticket for that seat and user, and is not
spent unless the mutation that spent it is at `release`; and at most one
mutation holds `mutex_`, none while a deletion clears locks.  The second
validation then finds a lock, so an unspent token, and `mutex_` excludes
everybody who could spend it before the commit.

`SeatInv` strengthens `SeatConsistent` and `SeatMatchesRule` so that a row is
one of four well-formed kinds; `normalizeSlot` maps those to themselves, so
rewriting a team changes only the slot the administrator named
(`SetSlotEffect`).  `NoOrphans` needs both invariants: a commit writes only if
the team is there, which `mutex_` keeps true.  The refinement maps each seat to
the QQ in its row; each step of the board is a step or a stutter of the
register.

*Restores.* What is kept must be in as good an order as the board: the invariant
asks `SeatInv` of every archived team and of the backup, the archives in the
backup included, and that neither has seats or rules of a team it has not.  It
is kept up by itself, since a copy is made of a board that satisfies it, and
the normalisation in `restoreArchive` changes no well-formed row.  A restore
touches no lock and no request, so what `TicketInv` says of tokens stays, and
the mutation at the end of its transaction excludes a restore through `mutex_`.
For `OldTicketsEnd`: the token of every lock that is held is at least `retired`,
because clearing leaves none and tokens given out later are not smaller than
`clearFrom`; the second validation asks for a lock with the ticket's token.

*Quick reservations.* They start from `SeatInv`: a row in good order is either
fixed for a type or on reserved lists, never both, so that the normalisation at
the end of `quickReserve` changes the slots that were chosen and no other
(`Stored`, `StoreEffect`).  For `ReachesCount` the first `n` slots of a set in
the order of preference must be `n`.  `FirstCounts` gets this from the order
having no ties: not more, since their ranks are different numbers below `n`; not
fewer, since the least slot left out has `n` before it.  The slots of the type
afterwards are then those before, less the ones taken away, plus the ones given.

*Access.* `AdminInForce` and `HiddenOnlyLate` look at checks passed in the past,
so the invariant says what a check would find *now*: a request whose sender
would pass as an administrator at this moment was entitled when it arrived, and
one that would see the team now is marked as having seen it, having been
invited, or being an administrator's.  The first half needs that tokens are never given twice and that
sessions made later have tokens no waiting request can carry; the second that
links are never newer than the invite in force, so that a renewal takes rights
away and gives none to what is under way.

For `PageShowsItsView` an answer is followed from the moment it has taken its
key to the moment the page applies it.  What a key stands for changes only with
a version no patch leads to (`BumpAndClear`), or by time passing, in favour of
those who saw nothing.  A page that patches can still reach therefore shows what
its key stands for (`ViewInv`).

*Publication.* Nothing happens at the moment a post becomes public, so neither
property can be kept up from itself.  The invariants speak of an earlier moment:
what the cache, and what a page that has the posts of now, shows is what was
public *then*, and everything that opens after it will be noticed, by the query
of the check (teams opening after the last check), by the due time in the cache,
or because `pendingPublication_` says so (`Watched`).  A check that finds nothing
due moves the moment of the last check past nothing awaited; renewing the cache
either keeps the due time or notes it; a restart that leaves `missed` alone had
only teams still to come.  `TypeOK`, too, needs more than itself: that the
version stays within its bound rests on a check bumping it at most once a tick.

*Versions.* `SameVersionSameData` is about what the board was at past versions,
which no variable keeps.  The invariant says that there is a history `H` of
boards such that every patch leads `H` from one version to the next, every answer
under way agrees with `H`, and the page shows each slot as it was at its cursor
or at a later version: an answer to the page's own change may have brought in a
slot the cursor has not reached.  Two lemmas carry the steps.  `PatchesSince`
sends one patch for every missing version or none: as many distinct versions as
there are versions missing are all of them.  `ApplyUnseen` brings such a page to
`H` at the version of the answer; if it did not, there would be a
first patch after which the page is wrong, and there is none.  If a COMMIT throws after its patch was
made, or a backup is restored, there is no such history, hence the hypothesis.

*Lock news.* Lock versions carry no locks, so again the invariant gives a
history, here of the locks at each version of this life of the server.  A page
shows the locks `H` has at its cursor, but for those it gave up itself (`Near`),
or it is `Behind` and cannot get to the server's version without asking again.

*The team shelf.* `reorderTeams` numbers the ids of a request as they come and
pushes the other teams behind them.  An id named twice keeps the number of its
last mention (`MentionLast`); the numbers of two teams named differ because the
count of existing ids grows between their mentions, and the others come after
all of them (`NamedGrows`).  For `OnePlace` the invariant adds that each board in
the tables has a number given out, so that a new one is nowhere else;
`DanglingOnlyIfLate` is inductive with the types.

*Records.* `FreshIds` is inductive only together with the rows in backups: a
restore brings a row back after a restart has reset the counter, and a row of a
backup that has the clock's time must be older than the clock or below the
counter as well.  A restart takes a millisecond, which is where the counter may
start again.  For `PagingComplete` the invariant is that, while the reader has a
cursor, every log seen all along is in hand, is strictly older than the cursor,
or has the time of a cursor used or to be used; `Newest` gives that a page leaves
out only rows not newer than its last.  `NoticeHasLog` speaks of the table and
must hold in every backup as well, as a restore brings both back; a log that is
replaced gives way to one of the same team and time, which stands for it.
`PruneKeepsNewest` counts, for each file, how many are later; names make these
ranks distinct, so the `HistoryLimit` latest of all files stay whatever part of
the others is removed, and each that goes has all of them later.  A new file has
none later but those of its own millisecond.

*Model-checked only.* Liveness: `LocksEnd`, `MutexReleased`, `Converges`,
`CatchesUp`, `OpenPagesFollow` and `LocksFollow`.  Fairness needs `ENABLED`,
which the prover does not treat.  The two violations of section 5 are
counterexamples and stay with TLC.

## 5. Disagreements found

With a run of their own:

* `sync_rollback`: a sync sent before a page's own mutation, whose answer
  crosses a version gap, puts the older slot back (`App.tsx:530-538`,
  `syncCursor.ts:9`), against the claim tested in
  `frontend/test/sync-cursor.test.mjs:5`.  The next sync repairs it
  (`SameVersionSameData` and `Converges` hold).
* `lock_events`: a lock change published while a page's stream is being opened
  reaches neither the stream nor its hello (`main.cpp:4214`, `109-114`), and one
  a reader cleaned up is never published (`2859`), against `docs/api-v2.md:472`.
  Polls repair both (`LocksFollow` of `lock_news`).

Shown by the same models under other constants, or by what a property must
except:

* With `Faults = {"commit"}`, `SameVersionSameData` of `VersionSync` fails:
  when COMMIT throws, the cached version and the queued patch stay
  (`main.cpp:783-789`, `2990`), and pages are shown a change that was refused,
  against `docs/api-v2.md:113`.
* With `Faults = {"restore"}` it fails too: the answer to a restore is shown
  without looking at its version (`App.tsx:590-598`).
* `AlwaysTold` of `Publication` fails: a publication that comes due while the
  server is down is never announced (`main.cpp:1890`), nor one of an archive
  whose due time only the lost cache held, against `docs/api-v2.md:148`.
  `StaleIsDue` excepts this by `missed`.
* `IdsUnique` of `Records` fails: the ids of logs are not globally unique,
  against the comment at `main.cpp:2920-2926`.  The log of a team that is
  archived (`1191`) or restored (`1242`) has the client's time; if that is ahead,
  and the process restarts before its clock gets there, a later log of the team
  may get the same id and replace the row.  What does hold is `FreshIds`.
* `PagingComplete` excepts the milliseconds at which pages meet
  (`main.cpp:1989`), and `UnseatsOnlyBossSlots` the members a smaller boss count
  unseats (`main.cpp:1536`).
* `LocksFollow` excepts a page that took no notice of a restart until the new
  process had counted to the number it holds (`main.cpp:3010`).

Against no statement of the docs, but worth a look:

* A restore whose listing of the files throws after COMMIT (`main.cpp:1780`,
  `1833`) answers with an error although the data are replaced, and the locks
  are not cleared: tickets from before it go on being accepted until they
  expire.  `OldTicketsEnd` speaks of restores that have answered `ok` only.
* A save that waits for `mutex_` when a restore gives it back (`1781`) may commit
  to the restored data before the locks are cleared (`1782`).  The expected
  member of the request is all that is compared with what was restored.
* A backup file that could not be written to its end counts like a good one when
  files are pruned, and may push a good one out (`3417`, `3443`).

Worth knowing, and no errors: `patchTeam` leaves existing duplicates alone when
the one-signup rule is switched on (hence the action property, not an
invariant); a release without a token drops any newer lock of the same user;
a restored archive replaces a live team of its id; registering for subsidies
with a week drops the member's selections without one; a handler does not look
at rights again when it commits (hence "late" in `HiddenOnlyLate`).

## 6. Not modelled, and the plan

Left aside for good: rendering, forms, dates, texts, command parsing, vendored
libraries, HTTP parsing, password hashing, the completion of malformed stored
teams.  Next, in this order:

1. `AdaptivePoll`: one timer, whatever the page's visibility does while a poll
   is running; the model's single-timer invariant is the theorem to prove.
2. A page's `applyMutation` against the server's own outcome.
3. User profiles and subsidy presets in backups, beside `Records`.
