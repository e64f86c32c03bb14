# CourseBox in TLA+

CourseBox is a FastAPI application over one SQLite database and one directory of uploaded
files. One server process runs its handlers in a pool of threads; `py -m app.maintenance`
and `py -m app.backup` are processes of their own. SQLite makes each statement, and each
run of statements from the first write to the commit, atomic. Everything between two such
runs interleaves, and the uploads directory takes part in no transaction. Most of what is
hard in this code lives in those two gaps.

## Inventory

| Part (source) | State | Operations | What is hard | Correct means | Module |
|---|---|---|---|---|---|
| File store (`db.py` 504-701, `api/files.py`, `api/courses.py`, `main.py` 85-115, `maintenance.py`) | rows of `courses`, `files`, `file_deletion_journal`; files under stored and staged names | upload, bin, restore, purge, sweep of expired rows, deletion of a course, recovery at the start | a file and its row cannot change together; deletions, restores, the maintenance process and the server at once; every rename, unlink, commit may fail; a crash anywhere | no row without its bytes, no bytes of a row that is gone, only the bin is purged | `FileStore`, `FileLifecycle` |
| Accounts (`api/auth.py`, `api/users.py`, `auth.py`) | `users`, `sessions`; the rows a handler has read | login, register, logout, revoke, change and reset passwords, create and update users, in batches | handlers write from rows read earlier; the role of the caller is read once | an active administrator is always left; sessions end with the password or the account | `Accounts` |
| Library (`api/files.py` 113-306 and 749-1304, `api/courses.py`, `api/insights.py`) | size, status, version, title of the rows | quotas, edits with versions, names of courses, reviews, every route that shows a file | test first, act later; restores test no quota; visibility is written out in each route | quotas hold for uploads, no lost update, nobody sees what is not approved | `Shelf`, `Quotas`, `Revisions`, `Readers`, `Library` |
| Comments and shares (`api/comments.py`, `api/share.py`) | `comments`, `share_links` | create, delete, list; create, revoke, expire, view | the row is tested before the INSERT | nothing hangs on a row that is gone; a share shows live approved files until it expires | `Readers` |
| Login lock (`db.py` 382-447, 476-488) | `login_attempts` | test, count a failure, clear, purge | threads that passed the test together; the count survives the lock | bounded guesses per lock | `LoginLock` |
| Session times (`auth.py` 9-97, `api/auth.py` 57-103, `main.py` 377-391) | `expires_at`, `created_at`, the cookie | renew, hard deadline | renewal near the deadline, renewals at once, a lost answer | no session outlives its deadline; one in use does not end early | `SessionTime` |
| Rate limits (`ratelimit.py`, `main.py` 233-268) | windows per key | hit, prune | the boundary of a window; the clock is read outside the lock | a bound per window's length | `RateLimiter` |
| Backup (`backup.py`) | backup files by stamp, `.partial` files | copy, verify, archive, prune, clear | two moments, a crash, two runs | a backup that is named is whole and fits its archive | `Backup` |
| Schema and migration (`db.py` 38-363, 756-799) | columns, indexes, triggers, `user_version` | create, migrate, index, bootstrap | a crash half way, two processes, one of them serving | a re-run ends at the same schema | `Migration` |
| Health (`main.py` 611-768, `db.py` 704-748) | cached answer, probe files | check, sweep | stale cache, checks at once | an answer is never older than its limit | `HealthCache` |
| Search, lists, statistics, exports, audit log, configuration, schemas, middleware, front end, scripts | none of their own | reads, parsers, I/O | | | not modelled |

How they interact. Handlers share the database only. `delete_course`, purge and sweep call
the same staging protocol of `db.py`; the server's start calls its recovery and then the
sweep; `app.maintenance` calls the sweep beside a running server, and `app.backup` reads
both database and directory beside it. Every process opens the database through `init_db`.
Disabling an account and setting a password delete rows of `sessions`, which every request
reads first. The limits, the lock and the health check share only the clock.

## Modules

* `FileLifecycle` is the abstract promise of the file store: a file is absent, live, in
  the bin or gone, and its bytes are there or not. It has no journal, staging or process.
* `FileStore` is the protocol. Its variables are the tables (`course`, `row`, `journal`),
  the directory (`disk`, `staged`), the server (`server`, `crashes`) and one job per
  process (`at`, `task`, `plan`, `held`, `done`): the locals of the handler. A deletion
  goes through `StageJournal` (names drawn and journaled), `Move` for each file,
  `DeleteRows`, `Discard` for each name, `ClearDiscarded`; a failure leads through
  `PutBack` to `ClearUndone` and `ForgetPlan` (inside staging) or to `ClearRestored`
  (after a failed transaction). `BootStart` to `BootSweep` are `run_startup_maintenance`.
  `Visible` and `Stored` map it to `FileLifecycle`.
* `Accounts` models the handlers of `api/auth.py` and `api/users.py`. `seen` is the row a
  handler has read, `actor` the user its session gave it, `left` what a batch has still to
  do. `Apply` writes both columns from `seen`, as the code does. A password is a
  generation number and `proof` the generation a session's login verified. Two history
  variables, which no guard reads, follow what a login misses: `late` is the logins inside
  which the sessions of their user were ended, `stray` the sessions such logins opened.
* `Shelf` has the rows of courses and files as the other three parts of the library see
  them: `UploadBegin` and `UploadInsert`, `Trash`, `Restore`, the two steps of a purge
  (`PurgeBegin` reads the bin, `PurgeCommit` deletes by id), `DropCourse` with its
  cascade. What happens to the bytes is in `FileStore`.
  * `Quotas` adds sizes: `Allowance` is `upload_quota`, granted when an upload begins;
    `Fits` is the guard of `quota_guard_clauses` inside the INSERT; an empty upload is
    refused (`UploadDropped`). `Sum` is the number of
    bytes of a set of rows, a cardinality, so that the proofs need no induction.
  * `Revisions` adds titles and versions. A form is a page with the version and title it
    showed (`seen`, `shown`); saving sends the version or none. Names of courses are
    tested (`RenameTest`, `CreateTest`) and written later, under the unique index if there
    is one.
  * `Readers` adds review status, roles, comments and share links, and one operator for
    each way a route decides who sees a file: `Listed`, `Served`, `Mine`, `Shared`,
    `OnHomePage`, `InBin`.
  * `Library` composes them over one shelf.
* `Clock` is the time that the next four read. `SessionTime` splits a request into its
  SELECT (`Find`), its UPDATE (`Renew`, with the expiry computed at the SELECT) and its
  answer, which may be lost. `LoginLock` splits a login into the test and the outcome.
  `RateLimiter` splits a hit into the reading of the clock and what is done under the
  lock; its history `passed` holds the requests let through in the last window's length.
  `HealthCache` splits a check into looking, removing the probe and storing the
  answer. `FrontDoor` composes them.
* `Migration` has one process per opener of the database; each DDL statement is a step of
  its own, since SQLite commits it at once. A process that serves inserts rows meanwhile.
* `Backup` has one process per run, the server's uploads and deletions file by file beside
  them, and pruning, which counts a database without an archive as a backup.
* `MC...` modules give the constants of small instances, `...Proofs` and
  `FileStorePromise` hold the proofs.

Grain. A step is a transaction from its first write to its commit, one SELECT, or one
rename or unlink with the existence tests right before it. The existence test and the
rename are one step because every staged name is new and no other code moves that file
between the two without failing the rename, which `MoveFails` has. A SELECT and a later
UPDATE are one step where the UPDATE tests the same condition again (`SaveFile`) or changes
nothing where the SELECT would find no row by then (`Restore` in `Shelf`). The sums of
`Allowance` are three SELECTs (`api/files.py:143-157`) read in one step: they only decide
what the upload may read, and the INSERT tests all of them again.

Why `Library` and `FrontDoor` have one kind of traffic at a time. Three parts of `Library`
add columns to the same rows, and none reads a column another adds: an edit does not look
at sizes, a quota not at titles. Every property belongs to one part and the shelf. A
behaviour with all of them at once projects to a behaviour of each, so `subject` chooses
one and lets the others rest; the product would add states but no case. The parts of
`FrontDoor` share only the clock and the threads, and `traffic` does the same there.

Abstracted. Types of files and the text of titles, comments and notes. Sizes are left out of
`FileStore`: an upload is refused at any time (`UploadRefused`), since too large, over quota
and duplicate lead to the same clean-up. Digests matter as equal or not. Names of staged
files are model values, each drawn for one file; "drawn by `uuid4`" is "known to nobody"
(`FreeNames`). A refused login, a wrong password or a rate limit changes none of the tables
of `Accounts`. Who may trash or edit a file (its uploader or an administrator) is left open
in `Shelf` and `Revisions`: any user may, which only adds behaviours. So does the missing
test for a live twin in `Shelf.Restore`; `FileStore` has that test. The count of downloads
is one atomic UPDATE that only the order of a list depends on. A link expires at any time
(`LinkExpires`), without a clock. What a health check finds is one Boolean that turns at any
time. Answers of handlers are not modelled.

Initial states are databases earlier runs left. `FileStore` begins with rows in every
state, bytes for each of them, and relics under staged names whose rows are gone, from
versions without a journal; `Migration` with each earlier release; `Revisions` with
courses of one name and then without the index; `Quotas` with sums over the limits;
`SessionTime` with sessions of a release without the deadline.

## Runs

| Run | Instance | Question |
|---|---|---|
| `file_store_safety` | two files of one course, two names for each, a request thread, a maintenance run, every fault but the put-back inside staging, one crash | Does a row ever lose its bytes, or the scan of a start find some? Is `IInv` invariant? |
| `file_store_one_at_a_time` | one thread, equal digests, two crashes, failing renames, restores, commits, journal | Does the store implement `FileLifecycle`, and leave no file without its record? |
| `file_store_vanish` | two threads, trash, restore, purge, sweep, one crash, under `FairSpec` | Are the bytes of a purged row unlinked in the end? Does a start leave nothing staged? |
| `undo_loses_bytes` (violation) | sweep, failing rename and put-back | `BytesSafe` fails: the journal is cleared for a file that was not put back |
| `restore_then_purge` (violation) | two threads, no fault | `OnlyBinIsPurged` fails: a purge deletes a file restored after its SELECT |
| `accounts` | two accounts, three tokens, two threads; demoting, disabling, raising; logins race with everything, `RaisesRace` FALSE | Which sessions outlive their password or their account's disabling, and how many can an account have of them? Is an active administrator always left, and `AdminInv` invariant? |
| `last_admin_vanishes` (violation) | demoting and enabling | `AdminRemains` fails: a stale row skips the guard |
| `session_outlives_reset` (violation) | passwords change inside logins | `SessionsAreCurrent` fails: the login inserts its session afterwards |
| `library` | two courses, two users, two forms, two titles, one link; three files against every quota, one file for the other traffic | Do uploads at once stay within the quotas, and is the allowance shown what the INSERT accepts? Is an edit ever lost, a name given twice, a row left hanging? Do the routes agree, and hide what is not vetted? |
| `front_door` | two threads, one session, two keys, every part with its own small times | Does a session keep to its deadline, and stay while it is used? How many guesses, how many hits in a window's length? How old is an answer, and are probes in use left alone? |
| `migration` | two processes, four releases of three columns in two tables, twins, one crash or lock, under `FairSpec` | Does the version ever lie? Does anybody serve too early? Does search find all, do twins get in, does every start complete? |
| `backup` | two files, two runs one after the other or overlapping, `Keep` 1, one crash | Is what is named whole, does the archive fit the database, does a whole backup remain? |

Bounds. `MaxCrashes` bounds the crashes (in `Migration` the locked statements, too),
`MaxPassword` the passwords an account has had, `NRuns` the runs of a backup, `Horizon`
the time (from `Epoch`, which lets old sessions have been there before), `Surplus` the
refused hits in a window, `MaxProbes` the probes that cannot be removed, `MaxVersion` the
versions of a row, `MaxFew` the files while the traffic is not about quotas. `Stall` is
not a bound but an assumption: how long a handler may take between two steps. The rest of
an instance is finite by its sets. Two files are enough for a rename to fail after one
succeeded, two names per file for a second deletion of a file put back, two threads for
any pair of handlers. Two accounts are enough for administrators to demote each other;
three tokens let two stray sessions add up beside the administrator's, were the first not
ended with the second disabling. Three files of two sizes (and an empty one) under a
limit of three let two uploads that each fit exceed it together, beside one from the bin.
Two forms race for a name and for a version; no property of edits and readers relates two
files, so one is enough there, while two courses are needed for names. From `Epoch` 6 to
`Horizon` 15 a session of `TTL` 4 and `MaxLife` 6 is renewed more than once and reaches
its deadline, a lock of 3 ends and is renewed, and a window of 3 is opened three times. Two runs of
the backup with `Keep` 1 prune each other. Two processes and one failure are every pair of
steps of `init_db` and a re-run.

Staged names of one file, threads, tokens, accounts, files, forms, titles and courses are
interchangeable in the runs that have them as symmetry sets; `TypeOK` and every property
there treat them alike. Runs with a liveness property use none. Deadlock is not checked:
every instance uses up its files, names, tokens, versions, runs or time, and the system
may then rest.

`Overlap` is whether `app.maintenance` may run while the server is starting. The code does
not keep the two apart; with `Overlap = TRUE` the start would take the staged files of the
running maintenance for leftovers. `RaisesRace` is whether an update may make an account an
active administrator while another update of that account stands between its SELECT and
its UPDATE. With FALSE these are assumptions about the environment; `last_admin_vanishes`
drops the second. Logins have no such assumption: in every run of `Accounts` a password
changes, or an account is disabled, between the SELECT and the INSERT of a login.
`session_outlives_reset` shows that `SessionsAreCurrent`, what the comments say, fails;
`accounts` shows what does hold. Only a session of such a login is ever left behind
(`OnlyStraysAreStale`, `DisabledIsOut`), and the next reset, change or disabling takes it,
also if the account was enabled in between and the session works again: an account never
has as many of them as there are threads (`StraysAreFew`).

History variables remember what excepts a promise: `stray` (above), `exempt` (files that
came back from the bin or were there before the limits), `missed` (sessions whose new cookie
was lost, or that a purge took inside a renewal), `legacy`, `vetted`, `overlapped` and
`touched` (backups), `slipped` and `reverted` (migration). Each names a case in which the
code does not hold the promise, and the property says so rather than leave the case out: two
backups at once may name an empty database, because one removes the `.partial` file of the
other, whose check then opens, and so makes, a new one; a process that dies or finds the
database locked between the creation of the search table and its rebuild leaves old rows out
of the search for good; two processes that upgrade the index on digests may drop it under
each other, and twins stored meanwhile keep it from being built again.

Fairness. `FileStore.FairSpec` has weak fairness on the next step of every job and on the
server's start. A thread, a maintenance run and the start are scheduled by the operating
system, and `docker-compose.yml:19` (`restart: unless-stopped`) restarts a server that
ended. There is no fairness on requests, faults or crashes. Retries are not assumed: a
rename or unlink that fails stays failed for that job. `unlink` and `recover` faults are
excluded there, since a file that is locked for ever is never unlinked, and so are crashes
of the maintenance process, whose staged files wait for the next start of the server.
`Migration.FairSpec` has weak fairness on the next step of every process, its start
included: the container restarts the server and the scheduler the maintenance. Deaths and
locked statements have none and are bounded. `StartsComplete` would fail without the
restarts: a process whose column another has just added ends with an error, and only its
next start finds the column there.

## Proofs

For every value of the constants that satisfies the named assumptions:

* Type correctness of every specification, no hypothesis: `TypeCorrect` (`FileStore`),
  `AccountsTyped`, `LibraryTyped`, `MigrationTyped`, `BackupTyped`, `FrontDoorTyped`, with
  `SessionsTyped` and `LockTyped` of its parts.
* `JobsAreCurrent`, `BytesNeverLost`, `ScanIsHarmless`: with `~Overlap` and put-backs
  inside staging that do not fail, `IInv`, `BytesSafe` and `UnjournaledIsGone` hold
  whatever else fails. `BytesSafe` is not inductive: it says nothing about which process
  may unlink a name. `IInv` adds that jobs have disjoint names and an upload's file is in
  no other job (`Apart`), that a name is journaled until nothing is left under it
  (`NamesOK`), that what is about to be unlinked belongs to a row that is gone (`RowsOK`),
  and who runs when (`Alone`). One lemma per conjunct, one step per action.
  `undo_loses_bytes` shows that the hypothesis on the put-back is needed.
* `StartsDrain`: the action property `BootDrains`, with `~Overlap` and if the unlinks and
  the renames of recovery succeed; writes to the journal may fail, and so may anything in
  the sweep that follows but an unlink. `BootTidy` follows what is staged through the
  start: journaled names are held by the recovery, the scan has none of them left, the
  glob knows the rest, and the sweep holds what it stages itself.
* `StoreKeepsPromise`: `Spec => Lifecycle!Spec`, without restores from the bin or, with
  them, one request or maintenance run at a time (`OneAtATime`). `BinInv` adds that a purge
  or a sweep works on rows in the bin or gone, and a restore on one that is in the bin
  or gone. Uploads map to `Store` and `Publish`, `DeleteRows` to `EmptyBin` or
  `DropCourse`, unlinks to `Unlink`, renames to stuttering. `restore_then_purge` shows that
  the hypothesis is needed.
* `NothingIsOrphaned`: with `OneAtATime`, `NoOrphan` through any crash and any fault but
  the put-back inside staging. `TakesAll` adds that a deletion has every row it will delete
  in its task, of a course all of them, a name for each file that is still there while it
  moves them, and none there when it deletes the rows. Without `OneAtATime` it is false
  (see below, what overlapping jobs leave behind).
* `SessionsEnd`, `TheDisabledAreOut`, `StraysStayFew`: `OnlyStraysAreStale`,
  `DisabledIsOut` and `StraysAreFew`, no hypothesis on what races. For the first two,
  `SessionInv` adds that a login in flight that is not late has seen the current password
  of an active account, and `JobOK` that a session from which the password is being
  changed, if it is still there, is of an active account. For the third, `FewInv` counts
  with an account's strays the late logins that may yet leave one (`LateOf`). A late login
  that opens its session moves from one set to the other (`LoginKeepsFew`). Ending an
  account's sessions empties the first, and the thread that does so is in no login, so the
  second has one thread fewer than there are (`EndKeepsFew`). Everything else can only
  shrink both (`ShrinkKeepsFew`). There must be finitely many threads.
* `SkippedGuardsAreIdle`, `AdminStays`: with `~RaisesRace`, `AdminInv` and with it
  `AdminRemains`, enabling and promoting included. `AdminInv` adds that an account seen to
  be no active administrator has not become one since; `COUNT(*) > 1` is the existence of
  two.
* `EditsAreNotLost`, `NamesStayApart`, `NothingIsLeftBehind`, `TheUnvettedStayHidden`,
  `RoutesAlwaysAgree`, `UploadsAlwaysFit`, `AllowancesAreHonest`: of `Library`, no
  hypothesis. `LibraryInv` has a part for the shelf (rows are deleted once and belong to an
  open course), one for edits (`FormsKnow`: no form has a version above its row's, and one
  of the same version shows the row's title, or its row is gone for good), one for readers
  (`Hangs`; `Vetting`: what is approved is vetted, during the upload already), one for
  quotas (`QuotaInv`), and that the parts which rest do. `ShelfKept` is proved once, and
  each part shows that its steps are steps of the shelf.
* `UploadsFit` is inductive with the types, once it is known what the operations do to
  sums: every step but the INSERT can only take rows out of the sums that are limited
  (`Narrows`, and `LimitKept` for each of the three limits), and the INSERT adds one row
  that its guard has counted (`LimitReached`). Both follow from `TotalShrinks` and
  `TotalGrows`, lemmas about cardinalities. A restore adds a row, but an exempt one.
  `AllowanceIsHonest` holds in every state, by `LeastOfFive` on the minimum of the limits.
* `DeadlineHolds`, `VisitorsStay`: of `SessionTime`, the second with `2 * Stall <= TTL`.
  The first adds that an expiry about to be written is not behind the deadline. The second
  needs that a request at work knows of an expiry which covers its own visit, and that the
  row's is as good as that of any request answered, however the UPDATEs are ordered.
* `GuessesAreBounded`: of `LoginLock`. `failed` is bounded through `late`, the threads
  that have guessed since the present lock began: while it lasts none of them can be back.
* `SpansAreBounded`: of `RateLimiter`. Twice the limit in any window's length, what one
  expects of a fixed window, is false here: a window begins at a time up to `Stall` ago,
  and a hit of another key may remove a window as over while a thread that read the clock
  before still waits and opens the next inside it. With `Stall` 2 and a window of 3, three
  windows let requests through within one. `WindowInv` numbers the windows from the present
  one back and says how far back each ends: of the present one and the one before all
  requests may be in a window's length less `Stall`, of a third some may be in the rest of
  it, of a fourth none if `2 * Stall <= Window`. `PlacesOfWindows` gives each request of
  `m` windows one of `m * Limit` seats.
* `AnswersAreFresh`, `ProbesInUseStay`: of `HealthCache`, the second with
  `Stall < ProbeAge`. `FreshInv` adds that a check at work has looked within `Stall`, and
  that what is stored was seen within `Stall` before it was stored.
* `PartsRunAsAlone`, `FrontDoorKeepsAll`: every behaviour of `FrontDoor` is one of each of
  its four parts, so it keeps what they promise alone.
* `VersionNeverLies`, `OnlyReadyIsServed`, `ContentsStayApart`, `SearchStaysWhole`: of
  `Migration`, no hypothesis. `Knows(p)` says which columns a process can rely on at each
  step; columns only come. `ContentsApart` adds to `NoTwins` that a process past the index
  on digests has it in its new form, and that none builds it over an old one. `IndexInv`
  adds to `SearchFindsAll` that the triggers are there unless their process is about to
  create them: only then can a row that is stored miss the index.
* `OnlyWholeIsNamed`, `ArchiveHasTheBytes`, `GoodBackupStays`: of `Backup`. `SoloInv` says
  where a run is while none overlaps; `ArchiveInv` follows a file from the copy through
  the list into the archive, and holds with overlapping runs, too.

The hypotheses are those of the runs. `Stall` against a TTL, a window or the age of a probe
compares a delay of seconds with minutes or days. Every safety invariant and action
property that a passing run checks is proved.

Only model-checked. Liveness is out of the prover's reach: `PurgedBytesVanish` and
`StartsComplete`. That the promise of the file store is kept with restores that overlap
no purge, but overlap other requests, is neither stated nor proved.

## Where the code and its documents part

`findings` of PROJECT.json has the details: `db.py:577` clears the journal of files that
were not put back; `api/files.py:1429` deletes by id what it read in the bin;
`api/users.py:192` writes without the guard from a stale row; `api/auth.py:213` opens a
session for a password that was replaced since.

Without a promise to hold them against, the models also have: bytes left without a row by
an upload that overlaps the deletion of its course, by a crash before the INSERT of an
upload, and by a failing deletion that puts back what another one deleted; the three cases
of backup and migration under History above; an uploader made a viewer, who may still
download and comment on what only the list of own files shows (`RoutesAgree` names the
exception). The docstring of `download_course_archive` (`api/files.py:1007-1008`) says
that pending and rejected files are never packed, while its query uses `file_visibility`
and packs for administrators and uploaders what they see in the list.

## Not modelled

* Search text and ranking, ordering and paging of lists, statistics, CSV export, the audit
  log: single SELECTs over state the models have, and one INSERT that commits with the
  change it records. Who may see a row in them is `Listed`.
* Configuration and request schemas: parsers of values without state; the values are
  CONSTANTS.
* Request ids, body limits, security and cache headers, error pages, OpenAPI texts: I/O
  around the handlers. The renewal of the cookie and the rate limit are the two
  middlewares with state, and are modelled.
* The bytes of downloads, previews and archives. A file that is staged between the test
  and the opening is a failed download; nothing is written, but for a temporary archive
  that stays when `record_audit` raises after packing (`api/files.py:1062`).
* The front end, the scripts and the container files.

## What is left

`StoreKeepsPromise` with restores that do not overlap a purge of the same file; the limit
of registrations per address; a backup that is restored.
