# A verification model of Kiro

Kiro (`src/`) is a skeleton for server-rendered web applications: FastAPI routes
that run in worker threads, one synchronous SQLAlchemy session per request over
PostgreSQL, accounts with server-side sessions and password recovery, rate limits
counted in the database, and a design engine that compiles `design.toml` into a
style sheet. This directory holds TLA+ modules translated from that code, the
configurations under which TLC checks them, and proofs checked by TLAPS.

Paths below are relative to `src/`.

## The system

| Part | State | Operations | Talks to |
|---|---|---|---|
| Accounts, sessions, recovery (`app/services/auth.py`, `app/routers/auth.py`, `app/deps.py`) | rows of `users`, `user_sessions`, `password_reset_tokens` | register, login, logout, resolve a session, request a link, look at a link, spend a link | the unit of work, the limiter, the email sender, analytics |
| Unit of work (`app/db.py`) | a pooled connection, a transaction | open, commit after the response, roll back on any exception | PostgreSQL |
| Rate limiter (`app/services/rate_limit.py`) | rows of `rate_limit_hits` | is_blocked, record, reset, purge | the same transaction as its caller |
| Request lifecycle (`app/main.py`, `app/exceptions.py`) | worker threads, pooled connections, background tasks | run a handler, send, run tasks, commit | everything else |
| CSRF (`app/middleware/csrf.py`) | a cookie in each browser | set it on the first visit, compare on each POST | every form |
| Notes (`app/services/note.py`) | rows of `notes` | list, create, delete one's own | accounts |
| Analytics and consent (`app/analytics`) | none | track in the background, never raising | login, register |
| Emails (`app/emails`) | none | send, or raise | recovery |
| Design contract and compiler (`app/design_engine`) | `design.toml`, `input.css`, font and script files | load, validate, derive a palette, compile, write marked blocks, check | design scripts |
| Design runtime (`app/design_engine/runtime.py`) | one cached `DesignRuntime` and the fingerprint it was made from, shared by every thread | current | every page |
| Design scripts (`scripts/design.py`, `scripts/font.py`, `scripts/motion.py`) | the same files | build, set, init, watch, add a font | the compiler |
| Migrations (`migrations`) | the tables and `alembic_version` | upgrade, downgrade | PostgreSQL |
| Seed (`scripts/seed.py`) | rows of `users`, `user_roles` | create the administrator, grant the role | migrations, accounts |
| Installer (`setup.sh`) | `.env`, tokens in files, a marker, a git history, a volume | install, re-run, recover | docker, git |

What is hard in it: requests interleave statement by statement on the same rows
under READ COMMITTED, and nothing in the code takes an explicit lock or keeps a
version column; the transaction is committed after the response was sent and the
background tasks have run; an email leaves before the commit; the limiter checks
first and records later; worker threads and pooled connections are both scarce, and
a request can hold one while it waits for the other; several threads share one cached
design, and several scripts write the same files, under a temporary name they share;
the files that a build reads were edited, lost or half replaced by people before.

## Modules

| Module | Models | Uses |
|---|---|---|
| `ReadCommitted` | PostgreSQL at its default isolation level (external: modelled from how `app/` uses it): committed rows, the newest version of each row, row locks held to the end of the transaction | |
| `Accounts` | the account, session and recovery handlers, one action per SQL statement | `ReadCommitted` |
| `AccountsInv` | the inductive invariant of `Accounts` | `Accounts` |
| `Accounts_proofs` | its theorems, first about locks and sweeps, then about rollbacks, refusals and racing registrations | `AccountsInv`, TLAPS |
| `MCAccounts` | its instances for TLC | `AccountsInv` |
| `RateLimiter`, `MCRateLimiter` | the limiter's counts, records, purges and resets inside the requests that call it, with a clock and a connection pool | `ReadCommitted` |
| `DesignProxy`, `MCDesignProxy` | the cached identity every worker thread reads, and the files under it | |
| `Server`, `MCServer` | the life of a request: CSRF cookie and guard, threads, connections, dependencies, the handlers of notes and login, error pages, analytics, commit | `ReadCommitted` |
| `Server_proofs` | its inductive invariant and theorems | `Server`, TLAPS |
| `DesignProxy_proofs` | theorems about the proxy | `DesignProxy`, TLAPS |
| `RateLimiter_proofs` | the inductive invariant and theorems of the limiter | `RateLimiter`, TLAPS |
| `DesignFiles_proofs` | the same for the design commands | `DesignFiles`, TLAPS |
| `Deployment_proofs` | the same for migrations and seeds | `Deployment`, TLAPS |
| `Deployment`, `MCDeployment` | migrations up and down and the seed, statement by statement, with table locks | `ReadCommitted` |
| `DesignFiles`, `MCDesignFiles` | the design commands over `design.toml`, `input.css`, fonts and libraries, one action per system call that matters | |
| `Palette` | how a palette is derived and audited and what is suggested instead, for greys, as operators | |
| `Branding`, `MCBranding` | choosing a colour: build, refusal, suggestion | `Palette` |
| `Branding_proofs` | what reads on what, for every pair of greys | `Branding`, TLAPS |
| `Blocks` | the marked blocks of `input.css`, as operators on sequences of tokens | |
| `Project`, `MCProject` | the commands one at a time over all the files of a project, what people do to them in between, and `make design-check` | `Blocks`, `Palette` |
| `Project_proofs` | what every style sheet keeps, whoever edits it, and three theorems | `Project`, TLAPS |

Definitions keep the names of the code where they can. Operators whose comment
begins with "Mutant:" are not part of any model: each is the definition below it
with a plausible mistake, kept to show which property would notice.

The modules meet where the code does: `Accounts`, `RateLimiter`, `Server` and
`Deployment` are built on one database, `ReadCommitted`. `Accounts` goes into the
statements of one transaction and leaves threads and connections out; `Server` has
those, and of the statements only what notes and logins need. `DesignFiles` has the
design commands at once, call by call, over small files; `Project` one at a time,
with everything they write.

### Accounts and the unit of work

`Requests` are HTTP requests, each with one transaction. `db`, `work` and `lock`
are the tables; `pc[r]` is the next statement of a request; `job`, `who` and
`verdict` are the locals of its handler; `todo[r]` the rows a running UPDATE has
chosen in its snapshot and not yet visited; `mail` and `expired` the world outside;
`past` records what was open when a request arrived and no action reads it.

- `Arrive` opens the session (`get_db`); `Read*` are the SELECTs with the guards
  and early returns of the handlers; `Rehash`, `MarkUsed`, `SetPassword`,
  `IssueLink`, `Touch`, `EndSession`, `StartSession`, `CreateUser` their writes.
- `revoke_all_for_user` and `invalidate_all_for_user` are UPDATEs of many rows:
  `RevokeAll`/`InvalidateAll` choose rows in a snapshot, `EndRow` locks them one
  after another (and waits for each), `AllEnded` ends the statement. This is where
  deadlocks and rows inserted meanwhile come from.
- `Respond` comes before `Commit`: FastAPI runs the code after `yield` once the
  response is out. `Undo` is the rollback, called by `Fail`, `DuplicateUser` and
  `DeadlockVictim`, whose outcome is "lost" when the visitor had already been told.
- `RefuseEarly` stands for what stops a handler before it reads an account: the
  limiter, a form that does not validate.

Abstracted: a credential is keyed by the request that mints it; passwords are
values and a hash is a password with a flag for outdated parameters; expiry is an
event that may happen to a credential at any time; the key-share locks that foreign
keys take do not conflict with the updates of the code and are left out.

### Rate limiter

A request adds at most two hits, named by the request and the bucket's part
(`ip`, `email`). `Begin` and `CheckEmail` are the two counts of `is_blocked`
(`any` stops at the first), `Verify` the three ends of a login, `Record`, `Purge`,
`Clear` and `Delete` the writes, `Send`/`SendRaises` the email of a reset. A DELETE
chooses rows in a snapshot and deletes them when no other transaction holds them.
`created_at` is the time the transaction began, as `now()` is in PostgreSQL.
`FreeConnection` is the pool: a request holds its connection until its transaction
is over. With several processes, `PoolSize` is the sum of theirs. The
application's clock and the database's agree; the 128-character cut of an address
is left out; a DELETE takes its locks in one order.

### Design proxy

One action for each read or write of the proxy or the disk in `current()`:
`Check`, `Stat` (twice), `Compare`, `SetStamp`, `Read`, `Resolve`, `Store`,
`Return`. The disk is the version of `design.toml` and of the folders of fonts and
scripts; a version is what an mtime tells, so two writes within one tick of the
file system's clock are outside the model. Versions in `Broken` do not parse.

### Design files

Paths name inodes, since an open file survives a rename over its name; `fd[p]` is
the inode a command has open. `Edit` stands for `set_values`, `set_colors` and
`add_font`, which all load the contract, change one value and write the file;
`Open`, `Write` and `Replace` are `write_atomically`; `Load`, `Compile`, `Visit`,
`Truncate`, `Fill`, `FontsReady` and `Compare` are `build`, which every command but
`watch` ends with and `watch` repeats. A contract is a colour (one of them
unreadable), a font or not, motion libraries or not; a style sheet is the contract
it was compiled from and a count of the changes made by hand outside the markers.
A text written over another's may come out torn, and a torn TOML may be an error or
happen to parse. `Kill` may come between any two actions.

### Server

`pc[r]` is where a request is: waiting for a worker thread (`depend`, `handle`,
`error`, `track`), at a statement (`load`, `touch`, `open`, `select`, `insert`,
`find`, `erase`), rendering, or over. FastAPI runs every plain `def` on a thread, so
`Enter` takes one for each dependency, handler, error handler and background task,
and `Leave` gives it back in between; `TakeConnection` comes with the first statement
and the connection stays until `EndTx` or `Raise`. `PoolTimeout` is SQLAlchemy's.

- `Arrive` is the request with the cookies its browser has at that moment, and the
  guard; `Respond` what the browser has when the answer is out: the CSRF cookie if one
  was minted, the token of the page, the session. Tokens and notes are named by the
  request that makes them.
- `Raise` is an exception: `get_db` rolls back and closes, then the error page needs a
  thread of its own. `Crash` is one nobody expected, anywhere; its page is made outside
  the middleware, so it carries a token whose cookie is not set.
- `Return` sends the answer, adds the background task of a login if the visitor agreed
  to marketing cookies, and leaves the commit for later: `Track` calls one destination
  after the other, `Commit` or `LoseCommit` end the transaction.
- `excused` is an observation: the browsers in which a form may be refused.

Abstracted: what a page shows; registration and recovery (see `Accounts`); the
limiter; a session that is stale once; one login per browser, and none while it holds
a session.

### Deployment

One run of alembic is one transaction with its DDL. A migration is at revision `at[p]`
on its way to `goal[p]`, and about to execute line `line[p]` of the upgrade or downgrade
in hand (`Script`): a CREATE or DROP for each table in the order of the revision, the
default roles at the end of the first upgrade, and the row of `alembic_version` after
each revision (`Doing`), which takes it one revision on (`Toward`). `CreateVersionTable`
precedes them on a new database. Failure, kill and deadlock roll back and give the
connection back (`Rollback`, `Ends`). A statement looks up its tables before it
waits (`WrongName`): one that is not there, or already is, fails at once (`FailByName`),
and what others have not committed is not seen. Tables are rows that CREATE
and DROP own; every other use is a mode in `held[p]` (`read`, `write`, and `refer` for
a foreign key that is being created), kept to the end of the transaction. A seed is
`FindAdmin`, `MakeAdmin`, `LoadRoles`, `FindRole`, `FlushRole`. `ChooseOwnPassword`
is the application beside it: that address registers, or changes its password.
`alone` is an observation. Abstracted: columns, indexes and the rows of other people.

### Palette and Branding

For a grey the conversions of `branding.py` reduce to one number, so lightness is an
integer of thousandths, luminance of millionths, contrast of thousandths. `Solve`,
`Lifted`, `Tokens`, `Failures` and `SuggestPrimary` are `_solve`, `brand_tokens`,
`_build_mode`, `_audit` and `suggest_primary`. Integers round where the code has
floats: `TARGET` leaves a margin over `AA`, and `AsHex` lets a suggestion land on any
of the nearest hex greys. Hues are outside the model, and so is the destructive red,
which no brand colour touches. `Branding` is the dialogue around it: a build refuses,
a person pastes one of the suggestions, until it builds.

### Blocks and Project

A style sheet is a sequence of what the regular expressions of `blocks.py` tell apart:
markers, the `@import` of a theme, the `@source` anchor, line ends, what a block
declares, and a person's words. `apply_block`, `remove_block` and `apply_theme_block`
yield the set of the texts they return, empty when they raise.

`Project` has the whole of `build` (`Outcome`, in the order of the code: compile, header, fonts,
scripts, write), the commands that edit a contract first, `make motion`, NOTICE.md,
and `run_checks` as the set of the kinds of error it reports (what only warns is left
out: `data-motion` in templates, DESIGN.md, fonts nobody uses). `served` is which origins
answer during a command: all, or all but one. Between commands people edit
`design.toml` and `input.css`, lose or break files, merge an upgrade, or copy Basecoat
again. `build` asks for the header but not for the style sheet of the theme (`themes`)
that it imports, so `BuildSettles` makes an exception of it: after a build the check
reports that the theme is not vendored exactly when it is not. `input.css` itself is
edited but never lost.

## Runs

Passing runs (TLC explores every state of the instance):

| Run | Shows |
|---|---|
| `accounts_sessions` | a committed reset ended every session its account had open when the request arrived; an ended session or link is refused and never revived, though logins, pages, logouts and recoveries write the same rows |
| `accounts_recovery` | resets and requests for a link end the links outstanding at their arrival; every request that arrives ends, though recoveries of one account deadlock |
| `accounts_faults` | a rolled back request leaves no session or link and ends none, wherever it failed; of two registrations of an address at most one commits |
| `limiter` | a window never holds more than `max_attempts - 1` hits and one pool's worth; an exhausted bucket is freed by time or by its own successful login, and by nothing else |
| `proxy_one_thread` | with one thread, a call returns the files as they were during the call; in production the identity never changes after the first resolution |
| `files_commands` | kills and failed downloads leave no half-written file and no style sheet without its fonts; success means complete; an edit keeps the other values |
| `files_watch` | fonts two builds fetch at once are whole when neither writes; a watch brings the style sheet to the contract |
| `server` | what fails, before or after its answer, leaves nothing behind and keeps no lock, thread or connection; a form is refused only where cookies overlapped, ran out or crashed; who was told to be logged in is let in once that is committed; analytics undo nothing; a note goes only by its owner; every request ends, with all threads and connections taken |
| `deployment` | tables and revision agree, whatever fails, is killed or runs at once; a command by itself succeeds; a seed that succeeds leaves an administrator and nobody's password changed; every command ends |
| `project` | a build that succeeds leaves nothing to report but a default identity or a theme that is not vendored, and nothing for a second one to do; a passed check means that what is declared is shipped; installed libraries are in NOTICE.md; what a person wrote stays |
| `branding` | only the label of a brand colour can fail, every text on a neutral surface reads, and pasting suggestions ends in a palette that builds |

One run ends in a violation, of a sentence of the code (the quotation is with the
property): `accounts_single_use`, in which one reset link is spent twice.

### Known divergences

The models have further behaviours that some sentence of the code rules out. Each
follows from the actions named here. The first four have a property and a
configuration that shows them (`tlc -config <name>.cfg <module>`).

- The hash upgrade of a login restores the password that a reset changed meanwhile
  (`Rehash`): `Accounts!LoginKeepsPassword`, `accounts_rehash_race.cfg`, `MCAccounts`.
- With two threads, one that stamps first and loads last leaves the old identity until
  the files change again (`SetStamp`, `Store`); `app/design_engine/runtime.py:77`:
  `DesignProxy!ShowsUpOnNextRequest`, `proxy_stale.cfg`, `MCDesignProxy`.
- What somebody saves outside the markers while a build downloads is overwritten
  (`Save`, `Replace`); `app/design_engine/blocks.py:3`:
  `DesignFiles!OutsideLeftAlone`, `files_save_lost.cfg`, `MCDesignFiles`.
- The liveness probe is a plain `def` and waits for a thread while all of them wait for
  a connection (`Enter`); `app/routers/health.py:5`:
  `Server!ProbeNeedsNoConnection`, `server_probe.cfg`, `MCServer`.
- A login that verified the old password opens its session after a reset chose the
  sessions to revoke (`ReadLogin`, `RevokeAll`, `StartSession`);
  `app/services/auth.py:12` says that changing a password ends every session.
- Two requests for a link leave two live links, since neither sees the other's
  (`InvalidateAll`, `IssueLink`); `app/services/auth.py:177`.
- The loser of two registrations gets the database's error, not `ConflictError`
  (`DuplicateUser`); `app/services/auth.py:63`.
- More than `max_attempts` get through, up to the bound of `OvershootIsBounded`;
  `app/services/rate_limit.py:36`.
- A reset request whose email fails is not counted (`SendRaises`);
  `app/routers/auth.py:325`.
- A page is served the defaults while another thread loads a good contract
  (`SetStamp` before `Store`); `app/design_engine/runtime.py:11`.
- A build succeeds although the theme its style sheet imports is not vendored (`Build`,
  `themes`), and only the check says so; the comment in `build` has everything that can
  fail go before the write (`scripts/design.py:129`).
- A library left half-written by a kill is shipped by every later build
  (`FontsReady` asks for its name only); `scripts/motion.py:13`.
- Two commands share a temporary name, and a half-written file is moved into place
  (`Open`, `Write`, `Replace`); `scripts/design.py:55`.
- The page of an unexpected exception is made outside the middlewares: no CSRF cookie,
  request identifier or security headers (`Crash`, `SetsCookie`); `app/main.py:59`.
- A POST redirects before its transaction is committed, so the page that follows may
  not show what was just saved, or take the visitor for a stranger (`Return`,
  `Commit`, `job.early`); `app/db.py:45` speaks of the end of the request.
- A block whose end marker is lost is not found, and each build inserts another one
  before it (`Openings`); `app/design_engine/compiler.py:65` says that compiling the
  output again returns it unchanged. `CssEdits` has no edit of a single marker.
- `design-check` passes a default contract over a style sheet that imports another
  theme and was never branded (`pristine`); only the "defaults" finding is left, with
  or without `--allow-defaults`.
- A vendored script that is there but corrupt is found by `make motion` alone, not by
  a build or the check (`missing_files`).

### Bounds

- Accounts: three to five requests, one or two accounts and passwords. Every
  property is about at most two requests that race and the one or two that set the
  scene (a login to have a session, a request to have a link). The theorems below
  hold without these bounds.
- `MayExpire`, `MayDisable`, `Faulty`: which credentials, accounts and requests may
  meet that event, so that a run pays for it only where its question needs it.
- Rate limiter: limits of one, windows of one clock unit and a clock of two, so that
  hits leave their window; `PurgeAfter` equal to the window, the shortest the comment
  of `PURGE_AFTER` allows (the windows are settings, and nothing checks it); a pool
  of two. Three attempts are enough to fill a window, overshoot it and be refused.
- Proxy: one thread, or two for the race; `MaxVersion` lets the files change before,
  during and after a load; a version in the middle does not parse.
- Server: three requests of one browser, two threads and two connections. Two deletions
  of one note race; a login, a handler that fails and a cookie that runs out go beside
  them; the third request waits while two hold everything. `Pool` is at most `Threads`
  (15 and 40 in the code): with more connections than threads, every thread could wait
  for a row whose owner waits for a thread, and no timeout would end it.
- Deployment: three commands, every starting revision. Two migrations and a seed are
  enough for each to hold what another needs.
- Branding: every grey, beside no second colour or one of nine that read or do not.
- Project: five contracts that differ in each field a command sets, one of them
  unreadable; two edits by people, anywhere between any number of commands; one origin
  down at a time, since a build stops at the first. The text grows only by edits.
- Files: two fonts and two libraries, so that a command can stop between them; three
  commands, one or (with a watch) two at once (`Together` does not count watches);
  one change by hand. Downloads that fail and kills happen at every step.

`CHECK_DEADLOCK FALSE` wherever requests, calls and commands are finite in number, so
that a behaviour may end; in `Project` something can always be done, and TLC checks
that. That nobody waits for ever is stated as `EveryRequestEnds` and
`EveryCommandEnds` instead.

### Fairness

`Accounts!FairSpec` is weak fairness of `Advance(r)` for each request: a worker
thread keeps running its handler, PostgreSQL wakes a statement whose lock is free,
and its deadlock detector (a disjunct of `Advance`) acts on a cycle. Nothing makes
requests arrive or fail. `DesignFiles!FairSpec` is weak fairness of `Step(p)`: a
command that was started keeps running. Nobody has to start one, and no kill or
download failure is forced.

`Server!FairSpec` is weak fairness of `Step(r)` for each request that arrived: the
event loop and the threads keep running, and the pool's timeout, a disjunct of `Step`,
fires. It is weak because requests are finite in number, and nobody overtakes for
ever. No exception is forced. `Deployment!FairSpec` asks less: while some command can
go on, some command does; the deadlock detector is one of its steps.

## Proofs

`Accounts_proofs`, for any sets of requests, users and passwords, any workload and
any faults, from the assumptions named in `Accounts` (`WorkloadAssumption`,
`BoundsAssumption`, `AbsentAssumption`):

| Theorem | States |
|---|---|
| `TypeCorrect` | `[]TypeOK` |
| `Invariant` | `[]IInv` |
| `ResetsEndSessions` | `[]ResetEndsEarlierSessions` |
| `NewLinksEndLinks` | `[]EarlierLinksEnd` |
| `EndedIsFinal` | `EndedStaysEnded`, as an action property |

The promise of a reset is not inductive: it speaks of the end of a request whose
UPDATEs chose their rows long before. `IInv` adds what carries it from step to
step. About the database (`DbInv`): versions differ only under a lock, no
uncommitted version revives, deletes or gives away a row, and a credential that is
not committed is locked by the request that mints it. About each request
(`ReqInv`): which request can be at which step, that the account and rows it is
about to write exist, that it cannot see its own credential before it mints it, and
`Swept`: the rows that were open at arrival are in `todo`, or ended already, or
ended by the request's own uncommitted version. A row another request ends
meanwhile stays ended because of `WorkFollows`, whether that request commits or not.

The proof groups actions by what they write: no row (`QuietStep`, `ReadStep`), one
row (`WriteStep`), a row of a sweep (`EndRowStep`), a commit or a rollback. Lemmas
`StoreStep`, `CommitStep`, `RollbackStep` and `DisableStep` show once what each does
to `DbInv`; `OthersKeep` shows that a step of one request keeps `ReqInv` of all the
others, so each action is left with its own request only (`OneRequest`).

Its second half, the traces, goes on from there, under the same assumptions:

| Theorem | States |
|---|---|
| `TracesInvariant` | `[](IInv /\ TInv)` |
| `RollbacksLeaveNothing` | `[]RollbackLeavesNoTrace` |
| `EndedIsUseless` | `[]EndedIsRefused` |
| `OneRegistrationWins` | `[]OneAccountPerEmail` |

`TInv` relates the tables to who wrote them: what is ended was ended by a done
request of the right kind, and what a request has written as ended was so already or
is its own to end (`Ending`); what was ended at arrival still is (`PastEnded`), and the
row that let a request in is not among it (`LetIn`); a registration holds the key of its
account, which nobody has committed, until its own commit publishes it (`Claim`). Each
action owes `Own`: the half of `TInv` about its request, and that nothing but a commit
ends or registers anything. `OthersTraces` keeps the rest.

`Server_proofs`, for any requests, browsers, accounts and analytics destinations, any
workload, any failures and any number of threads and connections, from
`WorkloadAssumption`, `BoundsAssumption`, `AbsentAssumption` and `PoolAssumption`:

| Theorem | States |
|---|---|
| `TypeCorrect` | `[]TypeOK`, the limits of threads and connections included |
| `Invariant` | `[]Inv` |
| `EverythingIsGivenBack` | `[]NothingKept` |
| `TrackingIsHarmless` | `[]AnalyticsIsHarmless` |
| `WritesOfTheDoneOnly` | `[]OnlyTheDoneCounts` |
| `LoggedInIsLetIn` | `[]SignedIsLetIn` |
| `NobodyElseIsRefused` | `[]RefusedForAReason` |
| `OnlyTheOwnerDeletes` | `NotesLeaveByOwner`, as an action property |

None of them is inductive. `Inv` has four parts. `Types` is the type invariant with
what it says of cardinalities made explicit (the sets are finite). `RequestInv` says
which request can be at which step with which outcome, what it has tracked by then,
and what it can occupy: a lock only with a connection, a connection only for an
operation that needs the database, a thread only at a step that runs. `TableInv` ties
rows to requests: what nobody locked is committed; a session row belongs to the one
login of its browser and is there for good once that login is done; a browser whose
cookie has no committed row has a login that was answered and is not done, which is
what makes a later request `early`; a note is locked only between answer and commit,
by its maker or by a deletion that found it its owner's. `CookieInv` is about the
browsers that are not excused: pages and requests under way carry the token of the
cookie, and while there is none at most one request is under way.

Each part is shown to be kept separately (`NextTypes`, `RequestStep`, `TableStep`,
`CookieStep`), the later ones using the earlier. Again actions are grouped by what they
write: nothing (`QuietTable`), a rollback, the session, a note, a commit.

`DesignProxy_proofs`, for any number of threads and versions:

| Theorem | States |
|---|---|
| `TypeCorrect` | `[]TypeOK` |
| `BuildShowsUp` | if there is one thread at most, `[]ShowsUpOnNextRequest` |
| `ProductionSettles` | `ResolvedOnce`, as an action property, for any number of threads |

`FreshInv` says, at each step of a call, how the stamp, the cached identity and the
locals of the only thread relate to the versions on disk since the call began. The
assumption is needed: `proxy_stale` is the counterexample with two threads. `ResolvedOnce`
needs no such assumption: a production process that has a cached identity and no call under
way never starts to resolve again, however many threads call it (`Settled`).

`RateLimiter_proofs`, for any requests, addresses, limits, windows, pool size and
failures, from `WorkloadAssumption`, `LimitsAssumption` (limits and windows are
numbers, and no window is longer than `PurgeAfter`) and `AbsentAssumption`:

| Theorem | States |
|---|---|
| `TypeCorrect` | `[]TypeOK` |
| `Invariant` | `[]Inv` |
| `OvershootBounded` | `[]OvershootIsBounded` |
| `UnblockedBySuccess` | `BlockedStaysBlocked`, as an action property |

A count of committed hits says nothing of the requests that were let through by an
earlier count and have yet to commit, so the bound is not inductive. `Bounded` counts
both: the claims on a bucket in a window (`Claims`) are the hits in it and the requests
that may still add one, whose transaction began in it (`Pending`). A request joins the
second kind only where the first kind is under the limit, and then the second kind is
at most the pool (`Pooled`: each open request holds a connection); from there claims
only move from one kind to the other, or go. That a hit which leaves was meant to is
`Doomed`: what a DELETE chose stays out of every window, or in a bucket of its own
successful login, until it is deleted, whoever waits meanwhile. `Written` and `Script`
tie uncommitted rows and locks to the step of their request. Nothing is assumed finite:
that finitely many hits are stored and finitely many requests open is in `Pooled`.

`DesignFiles_proofs`, for any number of commands, fonts and libraries, any workload and
any failed downloads, from `WorkloadAssumption`, `AbsentAssumption` and
`FilesAssumption` (the commands are finitely many, fonts and libraries have names of
their own, as the directories of `fonts.py` and `motion.py` do):

| Theorem | States |
|---|---|
| `TypeCorrect` | `[]TypeOK` |
| `BaseInvariant` | `[]Base` |
| `FontsRest` | if nothing is killed, `[]FontsWholeAtRest`, with any commands and watches at once |
| `SoleInvariant` | if commands follow one another, `[]Sole` |
| `FontsFirst` | then `[]FontsBeforeCss` |
| `FilesComplete` | then `[]NothingHalfWritten` |
| `SuccessComplete` | then `[]SuccessIsComplete` |
| `EditsKeepTheRest` | then `EditsOneValue`, as an action property |

"Commands follow one another" is `OneAtATime`: at most one runs and none is a watch,
which is what the run `files_commands` has, kills and failed downloads included. It is
needed: two commands share a temporary name, and can move half a file into place (see
the divergences). `Base` holds without it: no inode is ever named as both files, by a
path or by an open file (`Apart`), so a text of one never lands in the other; a
temporary name finds an inode that nobody uses, by counting the names there are
(`InodeToSpare`); and each command has at each step what the step needs (`ProcOK`).
`FontsSound(Bad)` is about fonts in a bad state: a style sheet that names a font, in
any inode `input.css` or its temporary name may lead to, has none of them, and whoever
is on the way to writing such a sheet still has every one of them on its list. It is
proved once, for any set of bad states in which nothing gets worse (`FontsStep`), and
used twice: with only "absent" bad it holds for any number of builds at once, with
"partial" bad too when there is one. `NoneAbandoned` says who is filling what is
partial. `Sole` adds what the one running command knows of the disk (`Own`): its
temporary file is empty, then holds its text; `input.css` is as it read it but for
changes outside the markers; the contract it is about to write differs from the one on
disk in one value; a library that is missing is still on its list.

`Deployment_proofs`, for any number of migrations and seeds, any of which may be killed,
from `WorkloadAssumption` and `AbsentAssumption`:

| Theorem | States |
|---|---|
| `TypeCorrect` | `[]TypeOK` |
| `Invariant` | `[]Inv` |
| `SchemaMatches` | `[]SchemaMatchesVersion` |
| `AloneNeverFails` | `[]AloneSucceeds` |
| `SeedsGrant` | `SeedGrants`, as an action property |

That tables and revision agree after a commit is a matter of everything the transaction
did before it, and of what others did meanwhile. `MigrationInv` says it for a migration
at any statement: `Written` is what its statements so far have written, `ThereAt` what
is there by then. Once it has locked the row of the revision, it sees exactly that: the
UPDATE finds the revision it read at the start, so nobody has committed another
migration since, and nobody will. Before that, which tables it sees is anybody's guess,
but the only rows it holds that differ from the committed ones are those it wrote
itself; and a migration that commits holds the row of the revision, or has written
nothing. `CreateInOrder` and `DropInOrder` show from the scripts themselves that what a
statement refers to is there and that nothing left refers to what it drops. `SeedInv`:
a table that a seed uses is committed and no migration owns it, so the account and the
role that the seed has seen or made are still there when it commits. `AloneInv` adds
that what a command saw is still so, if nothing else runs; from it no statement can
fail and no cycle of waiting exists, which is `AloneSucceeds`.

What a step of one command may do to the others is said once (`Frame`), and `StepKeeps`
shows from it that the invariant of the others is kept. Each action owes `Frame` and its
own half of the invariant; the statements of a migration share `StatementMigration`,
those of a seed `SeedKeeps`, and failures, kills and deadlocks `RollbackKeeps`.

`Project_proofs`, for any contracts, any number of edits, and style sheets of any length,
from `ContractsAssumption`:

| Theorem | States |
|---|---|
| `Invariant` | `[](Inv /\ Built)` |
| `NoticesKeptUp` | `[]NoticeKeepsUp` |
| `BuildsSettle` | `[]BuildSettles` |
| `PassedIsShipped` | `[]PassedCheckIsShipped` |

That a second build changes nothing, and that what the check compares is what a browser
reads, both depend on the shape of a text that was edited any number of times. `Tidy` is
that shape: each block is whole (its start, one declaration of its kind, its end) and
there at most once, a palette or a list of faces is nowhere else, there is one import of
a theme, in its block or bare, and at most one anchor. Every operation of `Blocks`, and
what a person does, is a replacement of a stretch of text (`Splice`) that no block
straddles (`Clear`). The lemmas `SpliceFacts`, `SplicePlace`, `SpliceKeeps` and
`SpliceFills` say where each token comes from and goes; `SpliceShaped`, `SpliceOnce` and
`SpliceTidy` that the shape survives, `SpliceHolds` that the other blocks do. From these,
one lemma for each operation (`RewriteFacts`, `InsertFacts`, `ApplyBlockFacts`,
`RemoveBlockFacts`, `ApplyThemeFacts`) says what it leaves. `CompileFacts`: what the
compiler returns is `Settled`; `CompileSettled`: it returns a `Settled` text as it was;
`SettledIsEffective`: the last declaration of each kind is the one of the contract.
`Built` carries the first from a build to its end state. `NoticeKeepsUp` is inductive by
itself, because a download that stops leaves the library without a file
(`FetchFacts`) and no other library has that file (`LibraryFacts`).

`Branding_proofs`, for any choice of two greys and a surface (`ChosenAssumption`):

| Theorem | States |
|---|---|
| `Invariant` | `[]BrandingInv` |
| `PalettesRead` | `[]EveryPaletteReads` |
| `SuggestionsSettle` | `[]SuggestionsEnd` |

A contrast is a quotient of luminances, and a luminance a cube. `QuotientFacts` and
`ContrastFacts` turn a bound on a contrast into a comparison of products, and
`LuminanceFacts` says that lighter is brighter, so one contrast settles all those beyond
it. A label reads at `TARGET` on a grey below 552 (a light label) or above 579 (a dark
one); written as a hex colour, a suggestion moves by at most 3, and stays in `Sound`, up
to 555 or from 576. `SoundReads`: a label on a sound grey reads at `AA` in every mode,
because what is lifted in a dark project is lifted no further than 487, and in a project
with both modes to where a dark label reads (`LiftedFacts`). `BrandingInv` is that
whatever was pasted is sound, which pasting keeps because `SuggestPrimary` finds a
candidate for every grey (`SuggestFacts`). For `EveryPaletteReads`, `SolveFacts` says that
what `_solve` finds reads wherever it must, and `MutedFacts` that it finds something on
every neutral surface.

Only model-checked: everything about liveness (`EveryRequestEnds`, `WatchCatchesUp`,
`EveryCommandEnds`), which is out of the prover's reach, and `OwnTextStays`, whose `Outside`
folds over the names and filters a text of any length, so that a proof would be an
induction over data.

## What checking taught about the code

- "Two recoveries deadlock only when the account has two outstanding links" is
  false: a reset locks the link it spends, then the user, then every link, and
  another request may hold one of them already.
- `WatchCatchesUp` does not hold without its exceptions: two commands that write
  `.input.css.tmp` at once can tear the style sheet, after which every build
  refuses it; and when other commands overlap each other a stale build may be the
  last to write, with no further change of `design.toml` for the watch to see.
- A sequence of builds repairs a half-written font but not a half-written library:
  `ensure_fonts` looks into each file, `ensure_motion` only at its name.
- "A form is never refused to somebody who only clicks" is false: two first visits at
  once leave a page with the token of the one and the cookie of the other, and so does
  a first visit that crashes. `RefusedForAReason` lists all there is.
- `suggest_primary` looks at a colour in one mode, and the palette is judged in two:
  that its suggestion is never refused again takes the lift of `brand_tokens` and the
  margin of `TARGET`. Without that margin the rounding to hex is enough to fail.
- A build must look at the framework's own scripts again after it vendored a library:
  otherwise an upgrade that was merged half way ships a page that loads nothing.

## Not modelled

- Argon2, tokens and signatures, templates, SEO, headers, schemas: pure functions of
  one value, tested as such in `tests/`. Of colours, all but the greys.
- E-mails: texts and calls of a provider, without state. That one leaves before the
  commit, and may raise, is in `Accounts` and `RateLimiter`.
- Configuration: read once, validators of single values.
- The installer: a shell script over docker, git and `.env`. Its hazard is listed (a
  re-run writes a new password while the volume keeps the old one), but nearly all of
  a model of it would be about programs outside `src/`.
- The browser's animation scripts, vendored code, the logo command.
- `delete_expired` of sessions and tokens: nothing calls it.
