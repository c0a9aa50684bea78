# A specification of the employee hierarchy

The application keeps a company's reporting lines: who reports to whom, from
which day on, and who may change that. These TLA+ modules describe the service
and the web client where order matters: dated reporting rows and the cache of
today's manager, overlapping requests in the database, tokens shared by the tabs
of a browser, and pages that show one thing while the server has another. TLC
checks the modules on small instances; TLAPS proves all the safety properties
the runs check, but for a part of one, for instances of any size.

Paths below are relative to `src/` (`api/...`, `web/...`; the client's are short
for `web/src/...`).

## 1. The system

A FastAPI service over PostgreSQL and a React client. Every request has its own
database session and transaction; the router commits at the end, and a request
that raises is rolled back when its session is closed (`api/app/db/session.py`).
The client reads through TanStack Query and writes with `If-Match`.

| Component | State | Operations | What is hard | What makes it correct |
|---|---|---|---|---|
| Effective-dated edges (`services/assignment_service.py`, `repositories/assignment_repository.py`) | rows `employee_assignment(employee, manager, valid_from, valid_to)` | `reassign` on any day, `cancel_scheduled`, `set_edge`, `sync_effective` | rows split, dropped and joined in any order; changes scheduled, landing by the mere passing of a day | one gapless sequence of rows per person; the past stands still; no loop on any day |
| Cached manager (`employee.manager_id`, `sync_effective_assignments()`) | one column per employee | the sync that opens every write | stale between midnight and the next write; departed people never synced | in step after every write |
| Cycle prevention (`assert_no_reporting_cycle` trigger, `_assert_acyclic`) | none | deferred trigger at commit; a move is checked on every day on which anything changes, a move of the import on today's cache alone | looks only at updated rows; cannot see other transactions | no loop in the cache; none that a move closes on any day |
| Employee records (`services/employee_service.py`) | `employee` rows with `version`, `deleted_at` | create, update under `If-Match`, soft delete, restore | version checked in memory; restore of somebody whose world moved on | no lost update; the restored row fits the rows in force |
| Deletion policies (`services/deletion_policy.py`) | none | Reparent, PromoteToRoot, Cascade | reports found by the cache, without locks | nobody is left under somebody who is gone |
| As-at reads (`_TREE_SQL` etc., `routers/hierarchy.py`) | none | tree, subtree, ancestors, roots, history, scheduled, diff | departed managers, days without a row | the chart of a day shows everybody of that day |
| Bulk import (`services/import_service.py`, `reassignment_service.py`) | none | validate, commit | validated against one structure, applied row by row beside others' commits; rows loaded before the sync and never refreshed | all or nothing, and what the file says |
| Sessions (`services/session_service.py`, `core/tokens.py`) | `refresh_token` rows | issue, rotate, revoke, revoke all | a rotated token presented again by a second tab or a retry | one live token per sign-in |
| Avatars (`services/avatar_service.py`) | `avatar_image` rows | store, set, discard if unused | discard beside a new reference | no dangling reference, no orphan |
| Analytics, audit log, rate limiter, exports, seed data | aggregates, append-only rows, a window per client | | | |
| Web: requests and sign-in (`lib/apiClient.ts`, `lib/auth.ts`) | tokens, one refresh in flight per tab | fetch, refresh, retry, sign out | many 401s at once, several tabs | one refresh, every call settles, no older pair put back |
| Web: org chart (`useOrgChartData.ts`, `OrgChartPage.tsx`, `MovePreviewDialog.tsx`) | queries answered at different moments, overrides, expanded branches | expand, look up, drag, preview, optimistic move | structures mixed from several moments, overrides dropped too early or never | shows its own moves, and the server's chart when up to date |
| Web: planned moves (`ScheduledChangesPanel.tsx`) | the list, the open drawer's history | list, cancel | the row left the list meanwhile; two administrators | a cancelled move is gone everywhere |
| Web: editing (`EditEmployeeSheet.tsx`, `mutations.ts`) | form, picked manager, version, conflict | edit, move, keep mine, use theirs | two requests per save, answers after the sheet was closed | overwrites only what was shown |
| Web: list (`EmployeesListPage.tsx` and its dialogs) | the address, the search box, rows kept from the last question | search, filter, sort, page, delete, restore, create | a debounced box beside an address that changes | the rows answer the address; policies as picked |
| Web: import (`ImportPage.tsx`, `csv.ts`) | table, marks, dialogs | load, check, correct, submit | verdicts of a table that has changed | marks belong to rows, text reads back |
| Web: photos (`ProfilePage.tsx`, `EmployeeDetailPage.tsx`, `avatar-editor.tsx`) | profile, record on screen | upload, remove, set an address | versions read before the last change came back | the card says what is shown |

How they interact. Every write opens with the sync, which copies the edge in
force today into `employee.manager_id` and bumps `version`; a move locks both
employees, checks every boundary day, rewrites rows by `set_edge` and, when it takes
effect at once, forces the sync again; a move of the import checks the cached
structure of today alone, writes the cache itself and an edge from today on; the deferred trigger walks
`employee.manager_id` when COMMIT starts. Deletion finds reports by the cache
and moves them by `set_edge`. Nothing runs at midnight: a change that falls due
is in the rows at once and in the cache after the next write or start-up. The
pages invalidate what they believe a write of their own has changed; nothing
tells them of the writes of others.

## 2. Modules

| Module | What it is |
|---|---|
| `ReportingGraph` | the structure as a function from employees to a manager, and what the recursive queries and the trigger compute on it, as closures of sets |
| `Timeline` | the assignment rows of one employee: `SetEdge`, `CancelRun`, lookups by day |
| `EffectiveDating` | the core: every operation that writes a reporting edge, the import's moves included, one transaction per action |
| `OrgChart` | the abstract specification: a chart of managers by day, a staff and a calendar |
| `ConcurrentMoves` | present-day moves and deletions taken apart into statements, row locks, deferred trigger and commit |
| `VersionedEdits` | one row under `If-Match`: edits, moves and scheduled moves that overlap |
| `PlannedMoves` | one employee's scheduled moves, cancelled from a page beside a colleague, statement by statement |
| `Sessions` | the tabs of a browser, their pair of tokens, and the server's refresh tokens |
| `Photos` | photos from the pages to the table, as overlapping transactions |
| `QueryCache` | one entry of TanStack Query: in flight, kept, invalidated |
| `ChartView` | what the chart page computes from the records it has |
| `ChartClient` | the org chart page: queries, expansion, look-up, the optimistic move |
| `EmployeeEditor` | the edit sheet in its two hosts, saves and conflicts |
| `EmployeeList` | the list with its address, search box and dialogs |
| `CsvText` | how the page writes CSV, and how the page and the server read it, character by character |
| `ImportService` | the transaction behind the import, statement by statement beside others' commits |
| `ImportWizard` | the import page, with that transaction behind it |
| `MC...` | instances of these for TLC |
| `EffectiveDatingProofs` | what the operators of `ReportingGraph` and `Timeline` preserve; invariants and action properties of the core; that it implements `OrgChart` |
| `ConcurrentMovesProofs`, `VersionedEditsProofs`, `PlannedMovesProofs` | the same for overlapping requests |
| `PhotosProofs` | photos, from the pages to the table |
| `ImportWizardProofs` | CSV read back by the page, what an import writes, and the import page |
| `ChartClientProofs` | the chart page |
| `WebClientProofs` | the list, the edit sheet and the sessions: the first as it stands, the others as instances (`Edit`, `Auth`), for their names overlap |

`ConcurrentMoves` and the core share `ReportingGraph`; `ChartClient`,
`EmployeeEditor` and `ImportWizard` compose a page with a server that has the
core's rules and is changed by others as well, so that a page is checked against
the service and not against answers made up for it.

Variables and code:

* `EffectiveDating`: `exists` is the set of ids with a row, `deletedAt` the
  column of that name (`Horizon` for NULL), `manager` the cached column,
  `timeline` the assignment rows, `today` is `CURRENT_DATE`. Each action is one
  handler with the sync it opens with and the trigger it commits under:
  `Create`, `Reassign`, `CancelScheduled`, `DeleteReparent`,
  `DeletePromoteToRoot`, `DeleteCascade`, `Restore`, and `Import`, a whole file;
  `Sync` is start-up, or a write that touches no edge; `NextDay` is the calendar. `Init` is what the
  effective-dating migration leaves, with people already deleted who have no
  rows. A handler that raises is no step.
* `ConcurrentMoves`: `pc` says which statement a request runs next, `held` which
  rows it has locked in which mode. A statement sees what is committed when it
  starts (READ COMMITTED), and a lock waits. Nothing falls due in this module, so
  the sync that opens a move touches no row and takes no lock. `CommitCheck` is the deferred
  trigger, which runs before the transaction becomes visible to others. `stale`
  and `strangers` are history variables: `stale` stands for the version number
  of `If-Match`; `strangers` is only read by a property.
* `VersionedEdits`: `row` is the committed employee row (`content` names its
  last editor), `edge` and `planned` the committed edges, `mine` what an open
  transaction has written, `loaded` the version SQLAlchemy holds in memory, `seen`
  what a client read.
* `PlannedMoves`: `history` are the committed rows of one employee, one entry
  per commit or midnight; `request` is the progress of a DELETE (read without a
  lock, found, row locked, committed); `plan` and `past` are cache entries whose
  data is an index into `history`; `dialog` and the drawer as on the page.
* `Sessions`: `stored` is the pair in local storage, `live` the rows that are
  not revoked, `login` the sign-in a token descends from, `refresh` and `call`
  the progress of a tab's refresh and of each request. `ReadToken` takes the row
  lock, `Rotate` and `RevokeAllForUser` commit under it. An access token may be found expired
  at any time.
* `Photos`: `ref` is the address each record holds, `images` the photos stored,
  `tx` the transactions (version compared, row written and locked, committed),
  `page`, `sheet` and `profile` what the pages have. `raced` and `abandoned` name
  the photos that the two races of section 5 leave dangling or orphaned.
* `ChartClient`: `past` is the server's sequence of structures; `query` maps
  each query key to a cache entry; `expanded`, `extra`, `focus` are
  `pendingExpandIds`, `extraIds` and the look-up in flight; `failed` are the pinned
  records whose last request failed, which the chart leaves out; `move` is the dialog
  and its request, `override` is `managerOverrides`, `awaited` what `onSettled`
  waits to read again.
* `EmployeeEditor`: `row` is the server's records, `sheet` the component's
  state, `save` the calls of `submitWithVersion`. `of` and `picked` are
  ghosts: whose version the sheet has, and whether its user picked the manager.
  The drawer of the chart hands the sheet a new object at every render; `Refresh`
  is a re-read of the records with that render.
* `EmployeeList`: `url` is the address, `box`, `typed`, `applied` are
  `searchInput`, `debouncedSearch`, `lastAppliedQRef`; `shown` and `last` are the
  query of the address and the rows kept from the one before; `asked` are the
  rosters its request may be answered from, `away` those of the requests still in
  flight for other addresses. `seen` are all rosters there were, `fresh` those since
  the page's last change, and `missed` those before it in answers to requests that
  the invalidation left alone.
* `ImportService`: `db` is the employee table as committed, with the cached manager
  and the edge in force today, the departed included; `stage` and `at` say which
  statement comes next, for which row. `people` is what validation read,
  `loaded` the objects in memory, which nothing refreshes, `own` what the
  transaction has written, `updates` what the deferred trigger will look at.
  `ReadPeople` to `CheckTrigger` are the statements, each of which sees what is
  committed by then; `OthersWrite` and `OthersDelete` come in between wherever no
  row lock keeps them out. `overtaken` and `alone` are ghosts: whose row changed
  between its loading and its writing, and whether nothing was due and nobody else
  has written.
* `ImportWizard`: `table`, `issues`, `committed`, `dialog` are the component's
  state; `checks` and `writing` are the requests in flight with the rows they
  carry.

PostgreSQL's row locks and deadlock detection, loss of a connection, the
calendar, TanStack Query, Python's `csv.DictReader`, `useForm`, local storage and the look-up of a Gravatar are
not in the repository; they are modelled as the code uses them and marked
external in the map.

## 3. Runs

| Run | Instance | Properties |
|---|---|---|
| `hierarchy` | 3 employees, 2 days, files of up to 2 rows, symmetry; 36,684 states | `TypeOK`, `TimelinesContiguous`, `CacheAcyclic`, `CancelUndoesSchedule`, `ChartComplete`, `LoopsHaveACause`, `PastIsStable`, `CacheInStep`, `NobodyLeftToday`, `ImplementsChart` |
| `moves_overlap` | 4 people, 2 movers, symmetry; 684,713 | `MovesNeverDeadlock`, `LoopsNeedStrangers` |
| `deletions_overlap` | 3 people, 1 mover, 1 deleter; 29,270 | `NobodyLeftUnderDeleted`, `RequestsFinish` |
| `versions_overlap` | 2 clients, 2 managers, versions read up to 3, symmetry; 9,023 | `WritesLeaveRowInStep`, `MovesAreNotOvertaken`, `VersionsRepeatOnlyByOverlap`, `ConflictMeansChangedOrDue` |
| `planned_moves` | 2 moves planned, 1 colleague, 3 days, 3 moments; 1,499,198 | `CancelledIsGone`, `GapsNeedAdjoiningCancels` |
| `sessions_overlap` | 2 tabs, 3 calls, 3 pairs of tokens; 225,737 | `OneLivePerLogin`, `PairNeverGoesBack`, `CallsSettle` |
| `photos` | 1 employee and the account, 2 photos, 2 requests at once, 2 changes by others, symmetry; 383,230 | `PhotosAreThere`, `NoPhotoIsLeft`, `CardTellsTheTruth`, `ConflictIsReal` |
| `chart_moves` | 2 employees, 2 moves, depths of 1; 223,442 | `LoopNeedsTwoMoves`, `OwnMoveShows`, `ChartMatchesServer`, `OverrideEnds` |
| `edit_sheet` | 2 employees, 3 e-mails, 1 save at once, both hosts, symmetry; 920,650 | `SavedOverSeen`, `MovesOnlyWhatWasPicked` |
| `employee_list` | 2 employees, 1 search, pages of 1, 2 rosters; 1,434,884 | `BoxIsTheSearch`, `OwnChangesShow`, `PolicyIsPicked` |
| `import_file` | 3 numbers, 3 e-mails and a wrong cell, 2 files of up to 3 rows, 4 tables (one with a new number, with a due change, with somebody departed, with both), one change of each employee by others; 843,149 | `MarksAreInTheTable`, `TextsAreRead`, `WrittenAsTheFileSays`, `RaisesOnlyForTheOrder` |

What they show, beyond the names:

* `hierarchy`: in every order of transactions and midnights, rows remain a
  gapless sequence that implements the dated chart, what is before a change's
  date stands still, and a loop on some day is never closed by a move. A
  cancellation closes one on days the cancelled row held; a deletion that hands its
  reports on and an import close one from today on, for both look at today's cache
  alone; and what they close today has somebody departed in it. Deleting leaves no report behind that the cache
  knew of.
* `moves_overlap`: rings of waiting are kept away by the order of ids, and two
  moves that have anybody in common cannot close a loop between them.
* `deletions_overlap`: a move into a branch and its deletion exclude each other
  by row locks and the foreign key's lock; a ring of waiting that does
  arise is broken and both requests are answered.
* `versions_overlap`: a write never leaves the row beside the edge in force; a
  version is taken twice only if one edit overtook another; a conflict is about a
  change, or a change that fell due.
* `planned_moves`: a row that was cancelled leaves list and history in any
  order of answers; an employee loses a row for some days only if two people
  cancel at once rows that adjoin, or of which a colleague's move has put one inside
  the other.
* `sessions_overlap`: whatever tabs present at the same time, a sign-in has one live
  token; a late answer of another tab's refresh never puts back an older
  pair of the sign-in; waiting calls end.
* `photos`: a referenced photo exists and an unreferenced one does not, apart
  from the named races; a conflict means somebody else's change, or one's own
  not yet read back.
* `chart_moves`: answers one move apart never make a loop; own moves are read
  back before the override goes, and the override goes.
* `edit_sheet`: "keep mine" overwrites a version the user has seen, and a manager
  is set only if the user picked one, though the drawer resets the sheet under
  the user's hands.
* `employee_list`: box, address and rows agree again after any mixture of typing,
  filters and links; rows that count as fresh know of the page's own changes, unless
  their request was left alone by the invalidation (`missed`); the policy picked for
  one person is not applied to the next.
* `import_file`: whatever others commit between the statements, a commit leaves
  what the file says in any order of rows, and of everybody else lands what was due
  at most; a cell that agrees with what was loaded of an employee is not written,
  and so others' change to it stays (`overtaken`). Where nobody else writes, a
  file that passed and fails half-way fails for one reason: between the employee and
  the new manager is still somebody a later row moves away, or somebody departed.
  The server reads every row the page sends, in its place, and the page what it has
  saved; marks stay on rows.

`photo_blocks_edit` ends in a counterexample, and is the one finding: the edit
form of an employee with an uploaded photo opens with the photo's path in the
address field, which the form's own schema refuses, so that nothing in the form
can be saved, while the API and its test
(`test_uploaded_avatar_path_survives_a_patch_round_trip`) accept the path.

### Bounds, and why they are enough

A loop needs two employees, one closed behind a departed employee three, two
strangers' moves four. Two days are today and a later one; a change between two
others needs three, which two employees have been checked with (and four), and
the proofs hold for any. Three people let a deletion have a report and
somebody to give it to; two deleters have been checked apart from liveness
(193,643 states), and the proof is for any number. In `Sessions` three pairs are a
sign-in, its rotation, and either a second rotation or another sign-in; two calls in
one tab share a refresh, the third is the other tab's. `ChartClient` needs two moves between two
answers to mix a loop, and has them. `Photos` has a photo to replace and one to
replace it by in either record; it was also checked with three changes by others
(2,550,095 states). An import closes a loop on a later day with a file of one row and
two people; a file of two rows moves somebody between two others. One that fails half-way
needs two employees to turn a line round, three for somebody departed between them.
`EmployeeList` has a roster before a change of the page and one after it, and requests
asked for over either. `MaxVersion`, `MaxIssued`, `MaxMoves`, `MaxMoments`,
`MaxHistory`, `MaxRows`, `Horizon` and `LastDay` bound what counts upward and
appear in guards only; `RowChoice`, `FirstTable`, `OtherRow`, `FileChoice`, `OtherEmail`,
`FirstPlans`, `MovesTried` and `FirstRoster` bound what is tried.

What a guard leaves out besides is called a bound in the comment above it:

* `ChartClient`: only what a move waits for fails, and one query at a time; windows
  are refocused and people looked up with nothing under way; a user who
  expands branches does not look anybody up; the page makes one move that
  the server accepts, and nothing is proposed while one is in flight.
* `ImportService`, `ImportWizard`: one import at a time, two checks and two files at
  once; the number of somebody who has left, or who was there for a moment, is not
  given to somebody new, and others renumber nobody; others write while an import
  waits to be written; one cell is edited while a request is in flight; a commit
  is confirmed with no other check or file under way; the page hears of the end no
  sooner than the server ends it; midnight does not fall into a transaction. A
  row's check and its write to the structure are one step, for both rows are
  locked; `ConcurrentMoves` takes them apart.
* `EmployeeList`: what is in flight for other addresses is kept as one set of
  rosters, and answered or lost together; the page makes one change of any kind.
* `Photos`: the sheet is opened with nothing under way.
* `ConcurrentMoves`: no change falls due.

Symmetry is used where ids are only compared for equality; not in
`ConcurrentMoves` for employees, whose ids order the locks, and not where
liveness is checked.

`CHECK_DEADLOCK FALSE`: the core does stop, when the last day of the model is
reached and a loop that has landed makes the trigger refuse every write
(section 5 says how the code gets there). The other models stop when a bound is
used up and the user has closed everything. That requests do not block
each other for ever is `RequestsFinish`, `CallsSettle` and `OverrideEnds`.

### Fairness

* `ConcurrentMoves`. `WF(Proceeds(s))`: a statement that nothing blocks is
  executed, an exception rolls back, and PostgreSQL breaks a deadlock after
  `deadlock_timeout`. `SF(Takes(s))`: the queue of a row lock is served in
  order, so a request that could again and again have the lock gets it.
* `Sessions`. `WF(CallStep(c))`, `WF(RefreshStep(p))`: a request is answered or
  its connection fails, and the promise that waits for it goes on.
* `ChartClient`. `WF(Arrive(k) \/ FetchFails(k))`, `WF(MoveStep)`: the same.

Nothing is assumed of users, of midnight, or of other clients. The other modules
state no fairness, and only safety is checked of them.

## 4. Proofs

All theorems hold for every value of the constants that satisfies the named
assumptions of the module: finitely many employees and a NULL that is none of
them; ordered ids and sessions that serve one kind of request; clients, versions, tokens
that are what they are called; plans that are gapless rows; a photo that is no
address on the web; users who expand and look up employees, and a chart that
starts without a loop; tables in which every manager has a row, no record, no rows
and a wrong cell that are none of the records, files and e-mails. Of the 40 properties the runs
check, 36 are theorems; of the others three are liveness, and `TextsAreRead` is
proved for one of its two readers.

Four stand on an instance of their module (`Edit!SavedOverSeen`,
`Edit!MovesOnlyWhatWasPicked`, `Auth!OneLivePerLogin`, `Auth!PairNeverGoesBack`);
the runs `edit_sheet` and `sessions_overlap` check the same definitions. What
`Sessions` assumes of its constants is a hypothesis of the theorems about `Auth`.

### The core

`EffectiveDatingProofs` starts with the operators and then argues from `TypeOK /\
TimelinesContiguous`, for some theorems with `CacheAcyclic`.

* `TypeCorrect`. Only `Run` needs an argument: a `SetEdge` truncates a row that
  starts before the day, so no range is empty.
* `TimelinesStayContiguous`: `SetEdge` preserves
  `Contiguous` on any day from the first row on (the guard that
  `get_earliest_valid_from` provides), `CancelRun` on any row that is not
  the first. Alone, contiguity does not say that rows are rows.
* `CancellingUndoesScheduling`: in a contiguous timeline the run that ends on
  the day of a change scheduled behind all others is the one it cut short.
* `PastStaysStable`: from `ManagerAfterSetEdge` and `ManagerAfterCancelRun`,
  which say what each operation does to every day.
* `CacheStaysAcyclic`. The trigger looks only at the rows a transaction
  updated. `CheckedUpdatesKeepAcyclic` shows that this is enough: a loop in the
  new structure contains a minimal closed group, in which everybody is reached
  from everybody; the old structure had no loop, so somebody in it was updated,
  and the walk of that row comes back to it.
* `ChartStaysComplete`: the as-at tree starts at whoever has no manager alive
  that day; in a structure without a loop whoever it left out would have a
  manager that is left out too, without end.
* `CacheStaysInStep`. A write syncs before or after it touches rows; where it
  is before, the rows of today must not be touched: a change scheduled, or taken
  back, starts tomorrow at the earliest, and `ManagerOfStep` says that the days
  before it keep their manager.
* `NobodyIsLeftToday`: whoever the cache has under the deleted employee is moved,
  and to somebody else, for a structure without a loop has nobody over
  themselves; under Cascade whoever stays was not under them.
* `LoopsStayExplained`. `_assert_acyclic` looks at the day of the move and at the later
  days on which some row starts or ends. `StructureOfBoundary` shows that these are all the
  structures there are: a day has the structure of the last such day up to it
  (`LargestOf` finds it). So a move that passes closes no loop on any day
  (`MoveKeepsAcyclic`). A new employee closes none because nobody's
  rows refer to an id not yet used (`References`, an invariant of its own),
  promotion only cuts edges, and a cancellation changes only the days of its row.
  A deletion and an import leave the past alone; what either closes today has
  somebody departed in it, for among those present the rows of today are the cache
  the trigger has just looked at (`CacheStaysInStep`, `CacheStaysAcyclic`).
* `RowsImplementChart`: with `chart` read off the
  rows and `staff` off `deleted_at`, every transaction is one step of `OrgChart` or
  none. It needs contiguity (a cancelled change gives its days back to the row
  before it), and that an id not yet used has no rows and no reports
  (`UnusedIds`), for a new employee to be a hire.

### Requests that overlap

`ConcurrentMovesProofs`. None of the properties is inductive: what a statement
may rely on is what the locks held by its transaction keep others from doing.
The invariant says which locks those are. `LocksExclude`: no two sessions hold
locks that exclude each other; `MoveHolds`: a move has locked the rows it no
longer has to, from the lowest id up, and the people in them are there;
`DeletionHolds`: a deletion keeps the departing row locked, and whoever
reports there is on its list or already written.

* `TypeCorrect`.
* `NobodyIsLeftUnderDeleted`: at commit, the list was complete when it was read,
  and since then a new report would have had to lock the departing row.
* `MovesStayFree`: among the sessions of a ring, take what each still needs; it
  waits for a row above all it has, so the set of rows above what a session waits for
  (`Above`) shrinks strictly along the ring, which finite sets do not do for ever.
* `LoopsTakeStrangers`: what a move's check has found stays allowed
  (`StillAllowed`) as long as all that commit in between share a person with
  it, for then they wait; `MoveKeepsAcyclic` does the rest.

`VersionedEditsProofs`. The invariant adds to the types: what a transaction with
the lock has written names the manager in force (`InStep`); before the version
check the lock is there only for the sync (`SyncOnly`); what was checked still
holds unless somebody overtook it (`Checked`). From it: `RowStaysInStep`,
`MovesStayOnTop`, `VersionsRise`, `ConflictsHaveCauses`.

`PlannedMovesProofs`. A cancellation reads its row, finds the row before it,
locks that one and commits; the first two hold nothing. The invariant relates what
each request has read to the rows that are there now: an id, once used, never
stands for another row (`Used` collects the history), and a row keeps its first
day (`Reading`); unless a cancellation that touched its row committed meanwhile, the
row has at most been shortened, and only the row found ends where it starts
(`Untouched`); `LocksExclude`.

* `GapsOnlyWhenCrossed`: then the commit takes away one row, and extends the one
  before it to the end the cancelled row had when it was read, which is not
  before its end now, so no day is left over. The property first said "adjoining" and TLC agreed; the proof
  did not go through. A colleague's move can cut a row short and leave a
  new one inside the range another request has read, so that cancelling the new
  one makes the gap although the two rows do not adjoin. With `Touches` the
  statement is the true one.
* `CancelledStaysGone`: what a page was told is cancelled had a row and has none
  (`CancelledGone`), and a list or history that is no longer awaited was
  made after that.

### Sessions and photos

`WebClientProofs`, over `Auth`. One live token per sign-in is not inductive, since a rotation
revokes one row and adds another. The invariant says that a live token is
the newest of its sign-in (`LiveIsLatest`), that a rotation under way has the only
lock on a live row (`LocksExclude`, `RotatesLive`), and that a pair on its way to a
tab is newer than all its sign-in had and known to nobody else
(`GrantIsNews`). `TokensAreTokens`, `OneTokenPerLogin` and `PairsGoForward` follow.

`PhotosProofs`. A transaction decides to delete a photo before it commits. The
invariant therefore speaks of every transaction that has written and not
committed: whoever refers to a photo it dooms took it up meanwhile, which makes
the photo one of `raced` (`DoomedIsUnused`); one it spares is used elsewhere
(`SparedIsUsed`); a new upload is nobody's yet (`UploadsAreNew`); one row has one
writer. `PageKnows` is what the client adds: the page's version is the
employee's unless somebody else changed it, or its own change is to be read
back. `PhotosStayThere`, `PhotosAreCollected`, `CardStaysTrue` and
`ConflictsAreReal` follow.

### Imports

`ImportWizardProofs`. The library's induction takes an operator as its parameter,
which the provers cannot instantiate; `RowAfterRow` says the same of a set of
numbers: if 0 is in it, and i whenever i - 1 is, all are. (Else there is a least set `0 .. i`
whose last number is not in it, since the subsets of a finite set are well-founded.)
The inductions over texts are uses of it; so is `LevelByLevel` of the chart.

* `TablesAreReadBack`, for any number of lines of any number of cells with any
  characters in them. A printed text is a concatenation of pieces: cells of
  characters, lines of cells, a file of lines, each of which stands where
  those before it end. The scanner goes over each piece in the same
  way: over a character in quotes and over a plain cell it collects what the cell has, at a comma
  it ends the cell and at a line end the row, and where a carriage return is followed by a
  newline it skips one. So at the end it has the rows, but for the lines with nothing
  in them (`Filled`) and the blanks around cells, which `Cleaned` takes off the table.

What holds of the transaction between any two of its statements, whatever others
commit there, is `ImportInv`: `TypeOK` and three parts.

* `Shape`: how far it is and of what its rows are. A row it has written is one the
  file has by now, or one of the sync, in which only what was due has landed; whoever
  a row refers to has a row (`Refers`, the foreign keys); `OthersDo` says what a
  commit of others may do to the tables, given the locks. `TypeCorrect` follows. That
  managers are present is assumed nowhere.
* `Filed`: what of the file stands in the rows that are written. Of each cell it says
  that it is as the file has it, or that it was not written because it agreed with what
  was loaded, and the employee has been overtaken since (`Stands`); whoever was
  not overtaken is as they were loaded (`AsLoaded`). At the commit all rows are
  written and moved, which is `FileIsWritten`.
* `Quiet`, while nothing is due and nobody else has written: the tables are what the check
  has seen but for the rows that are written, and these have the managers of the
  file up to the one that is being moved (`HalfWay`); the cache has no loop if it had
  none. Then the rows are all found, fit and pass the trigger (`AllAreFound`, `AllFit`,
  `AllPass`), so that only a move can be refused, and for the walk:
  `RaisesForTheOrder`. The new manager is below the employee half-way, and would not be, were all
  rows moved as checked; so somebody on the way up has another manager in the
  structure that was checked (`TheWayIsLost`): a later row moves them, or they or their
  manager have left (`SomebodyBetween`).
* `MarksStayInTheTable` from `OneFile`: with one file at a time, a check or a
  write in flight carries as many rows as the table has, and none survives the
  next file.

### The pages

`ChartClientProofs`.

* `LoopsNeedTwoMoves`. The server's structures have no loop and follow one
  another by one move (`History`), and each record on the page is the record of
  one of these moments (`RecordsTyped`). A walk that does not end stays in a
  closed group whose records, if no two are two moves apart, come from two
  adjoining structures; these differ in one person, so on the group the mixture is
  one of the two, which has no loop.
* `OwnMoveAlwaysShows`. Unless the page has yet to invalidate its queries,
  each entry that is shown and holds structure knows of the page's own last move,
  waits for an answer to a request sent after it, or is one of the two cases the
  property excepts, a failed read and a first read under way (`Abreast`); one that
  is not shown may also be empty or stale (`Pending`). `EntryAbreast` says this of each operation of `QueryCache`.

* `UpToDateChartMatches`. The page puts the chart together in the browser, level by
  level from the records it has; the server's chart is defined by closure. That
  they agree, for any number of levels, is an induction on the level
  (`LevelByLevel`): a walk down from some people finds, at level n, whom the
  structure puts n below them (`WalksAgree`, `BelowLevels`), in a structure without a
  loop everybody is below a root (`WaysUp`), and the drop the page refuses is one into
  the branch (`AllowedUnlessAbove`).

`WebClientProofs`.

* `BoxStaysTheSearch` from `BoxInv`: the address holds the search that the box
  applied last.
* `OwnChangesAlwaysShow` from `FreshInv`: what is on its way was asked for after
  the page's last change, so it is made of a roster since then, for a
  change invalidates what had been asked for before.
* `PolicyStaysPicked` from `PolicyInv`: a dialog that was opened for somebody else starts
  from the default.
* `SavesOverWhatWasSeen`, `MovesAreAlwaysPicked`. A sheet with somebody in it
  has their record and another manager only if one was picked (`Filled`); a save under way
  is of somebody, and goes on to a move only if one was picked (`Filed`); and
  unless a sheet was closed under its save, all that is under way is of whom
  the open sheet shows (`InHand`), which is what makes the conflict shown to the user
  a conflict about that record.
### What only TLC checks

Liveness: `RequestsFinish`, `CallsSettle`, `OverrideEnds`. No module
uses RECURSIVE: closures are quantified over sets, walks are recursive functions.
Of `TextsAreRead` the page's reader is proved to read back every table
(`TablesAreReadBack`); that the server's does is checked, for the tables of the run.

`ChartClient`, `EmployeeEditor`, `EmployeeList` and `Photos` state a `TypeOK` for
the reader; it was checked while they were written and has no run of its own.

## 5. What the code does that a reader may not expect

Met while modelling. Where a definition states the promise that fails, its name
is given; it is in the module and in no run, except where section 3 says so.

The core:

* Taking back one of two scheduled changes closes a loop on the day of the
  other, for `cancel_scheduled` checks nothing (`EffectiveDating.NoLoopOnAnyDay`).
* An import that puts somebody under a person who is scheduled below them closes a
  loop on the day of that change: it checks the cached structure of today, and its
  edge is open-ended. A deletion that hands on its reports does the same.
* The trigger walks departed people, whose cache is never synced, and refuses a
  due change although no day has a loop; every write that syncs is then
  refused (`DueChangesApply`).
* Reparent overlooks a report that is scheduled, or landed and not yet cached
  (`DeletionLeavesNoReport`).
* A restored employee has the cached manager of the day they left until the
  next write: the sync runs while the row is still deleted. `CacheInStep` leaves
  that row out.

Overlapping requests:

* Two moves of four different people pass both the check and the trigger, and
  commit a loop (`ConcurrentMoves.NoLoopCommitted`).
* A report moved away while its manager is being deleted is moved back:
  `DeleteWrite` writes what `DeleteRead` found.
* Two overlapping edits with one `If-Match` are both committed
  (`VersionedEdits.EditsBuildOnWhatWasRead`), and the version the first took is
  taken again by the second, so a third client that read the first is not
  told.
* Once a scheduled change is due, the request's own sync makes its `If-Match`
  stale, and the 409 undoes the sync, so retries go on failing until some other
  write commits it (`VersionedEdits.ConflictMeansChanged`).
* Two administrators who cancel adjoining scheduled moves, or one of whom cancels a
  row that a move has put inside the other's since it was read, leave the
  employee without a manager's row for those days, though the dialog says they keep
  their current manager (`PlannedMoves.CancelKeepsManager`).
* A PATCH that takes up a photo's path while it is being discarded leaves a
  dangling path; a PATCH that clears the path, and one of two overlapping uploads,
  leave a photo nobody refers to.
* The CSV export pages by offset over READ COMMITTED: a row can be missed or
  listed twice.

Sessions:

* A refresh answered after another tab signed in or out puts its pair into
  local storage all the same.
* Revoking all of an account's tokens misses one that is being inserted.
* A call repeated after a refresh may carry the principal of another tab's sign-in,
  and the cached `me` is never read again.

The pages:

* Chart: the walks up and down (`OrgChartPage.tsx:147`, `getDescendantIds`) do
  not end on a loop mixed from answers two moves apart. The preview dialog
  allows the move when its preview failed; the late answer to one move closes the
  dialog of the next. `effectiveFrom` is the day the dialog opened; after
  midnight the move is backdated. A query that is read for the first time when a
  move is answered counts as fresh.
* Edit sheet: the drawer resets a picked manager and an open conflict whenever it
  renders; the conflict of a closed sheet opens over the next record
  (`SavedOverSeen` excludes that case, `EmployeeEditor.ConflictShowsAChange` states
  what it breaks besides); a save that ends closes whichever sheet is open; a PATCH whose answer is
  lost is reported as "The record is unchanged"; a re-read that fails after
  a 409 is not handled.
* List: a first read that is in flight when the page changes something is left alone by
  the invalidation, and its answer, which may be older than the change, counts as
  fresh (`missed`); the page of a link is lost on arrival; a search cleared and typed
  again within the pause stays in the box and is not applied (`crossed`); the rows of
  the last question carry the menu of the next one; the last row of a page
  deleted leaves "No employees match these filters".
* Import: a file can pass the check and raise on commit although nobody else writes:
  when somebody moves under a person who is below them by way of somebody a later row
  moves away, as when a line is turned round, or by way of somebody departed,
  whose reports were left to them: the check looks at those present, the walk leads
  through everybody (`RaisesOnlyForTheOrder`). A row whose manager is the one that was
  loaded is skipped, also when a due change or another's move has replaced that
  manager since: the answer is "committed" and the employee has another manager than
  the file says (`overtaken`). A blank manager makes an existing employee a
  root; two files dropped at once race (`crowded`); cells can be edited while a
  check is under way; a failed check can stand beside "Every row passes"; an answer
  that is lost is reported as "Nothing was written" when all was.
  The downloaded report of blocked rows does not quote a carriage return
  (`features/import/api.ts:24`), which ends a line when it is read.
* Photos: a second change before the page has read its first back is answered
  with a conflict that nobody else caused.
* Planned moves: a cancellation invalidates neither the chart nor the drawer
  of others, and the employee's history only if the row is still listed.

## 6. What is not modelled

Analytics (aggregates over columns the models abstract away), the audit log
(append-only), the login rate limiter (one list per client in one process), the
seed data and the deployment: nothing in them waits for, or overlaps with, anything
else that is modelled. Exports only read; their one hazard is in section 5.
Search, the command palette, the choice of another day on the chart, the list
view and rendering show what the modelled queries return. Within the modelled
parts: field validation other than the address and the unique e-mail, sorting and formatting, the
depth limit of 1000, salary figures, decoding of images and spreadsheets,
signatures and roles, DELETE with the cascade policy beside other requests.

The model has one clock: the code takes today's date both from the process (UTC)
and from the database (`CURRENT_DATE`), and a request that crosses midnight, or a
database in another zone, is outside it; `PlannedMoves` lets midnight fall
between any two statements.

## 7. Plan

Done: the core and its abstract chart; overlapping moves, deletions, edits and
cancellations; sessions; photos; the pages of the client; the proofs of section 4.

Left, in this order:

1. That the list and the edit sheet keep their whole type, of which the
   proofs carry the part they need.
2. The cascade policy in `ConcurrentMoves`, a change that falls due there, and the
   chart of another day.
3. That the server reads back every table, of which the proofs have the page's half.
