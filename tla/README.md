# Verification of Beego's stateful core

TLA+ models of the stateful parts of this repository: Beego v2, a Go web framework
with an ORM, caches, sessions, logging, a task scheduler and a graceful-restart
server. TLC checks every module on small instances; TLAPS proves theorems about nineteen
components for every value of the constants, a refinement among them.

The hard part of Beego is of two kinds. Some state is shared by goroutines, programs
or requests without a single owner: locks that are given up and taken again, channels
without buffers, WaitGroups lent from one goroutine to another, timers and collectors
that act on what they saw earlier, sessions that several requests save. Other state
belongs to one goroutine and is shared by mistake or survives by mistake: arrays
behind slices, contexts from a pool, maps inside maps, a result that ends half way.
The modules are about both.

* [1. The system](#1-the-system)
* [2. Modules](#2-modules)
* [3. Runs](#3-runs)
* [4. Bounds](#4-bounds)
* [5. Fairness](#5-fairness)
* [6. Proofs](#6-proofs)
* [7. Where the code and its text disagree](#7-where-the-code-and-its-text-disagree)
* [8. What is not modelled](#8-what-is-not-modelled)
* [9. Plan](#9-plan)

## 1. The system

### 1.1 Components

| Component | State it keeps | Operations | What is hard | Correct when |
|---|---|---|---|---|
| Prepared-statement cache, `client/orm/db_alias.go` | LRU of statements, a WaitGroup per statement, an RWMutex | ExecContext, QueryContext, QueryRowContext through `getStmtDecorator`; eviction | a statement is evicted while others look it up or use it; the write lock is taken after a miss that may be stale | nobody uses a closed statement, every statement is closed once, every query gets out |
| ORM writes, `client/orm/orm.go`, `db.go`, `orm_querym2m.go` | tables; the transaction | Insert, InsertMulti, Update, Delete with its cascade, m2m Add/Remove/Clear, Begin, Commit, Rollback, DoTx | an operation is a series of statements, one of which fails; references in a circle | no reference to a deleted row, nothing deleted that was not meant, an abort undoes all |
| ORM queries, `orm_conds.go`, `orm_queryset.go`, `db_tables.go` | conditions that share arrays | And, Or, AndCond, Filter, Exclude, Limit, All, One, Count, Exist | append writes into an array another condition sees; flat text with two connectives; joins | a condition keeps its meaning, joins lose no rows, Count counts what All reads |
| ORM results, `db.go`, `orm_raw.go` | the caller's container | Read, One, All, Values*, Raw.QueryRow(s), RowsTo* | rows end early, are NULL or do not fit; the container was used before | one answer in the container, or what was there |
| ORM models, `client/orm/internal/models` | fields, registered models | Register, NewFieldInfo, bootstrap | corrections of tags one behind another; bootstrap goes through maps in any order | sane columns, one key, relations connected in both directions |
| ORM filters, `filter_orm_decorator.go` | a chain around each Ormer and transaction | every method, DoTx | a filter or the task panics or answers itself | DoTx ends its transaction, in order and in the same chain |
| Migrations, `client/orm/migration` | the migrations table, the schema | Upgrade, Rollback, Reset, Refresh | no transaction: statements fail, programs stop between any two | the table says what was done |
| HTTP client, `client/httplib` | default settings, requests, the answer | AddFilters, SetFilters, Param, Body, PostFile, DoRequest, Bytes, ToFile, Client | slices share arrays; attempts consume the body | a try sends the whole request, an accessor sends nothing again |
| Task manager, `task/task.go` | task list, next run times, `started`, channels `stop` and `changed`, a WaitGroup | StartTask, StopTask, GracefulShutdown, AddTask, DeleteTask, ClearTask, the loop `run` | the loop works from a snapshot; sends on unbuffered channels wait for a loop that may not exist | one loop, no occurrence run twice, no task forgotten, a reported shutdown means quiet |
| Cron schedules, `task/task.go` | bits of a spec | SetCron, Next | carries from seconds to years, days of month against days of week | the first matching instant |
| Asynchronous logger, `core/logs/log.go` | outputs, three channels, a WaitGroup | log calls, Async, Flush, Reset, Close, SetLogger | Flush borrows the WaitGroup that stands for the goroutine's life; three places take messages out of the channel | order per writer, nothing twice, Flush leaves nothing behind, calls return |
| File log, `core/logs/file.go` | the open file, its counters, goroutines of midnight, old files | WriteMsg, doRotate, dailyRotate, deleteOldLog | rotation between a check and a write; renames and opens that fail | no line lost, files not too long, somebody waits for midnight |
| Configurations, `core/config` | maps of sections or nested maps, comments | parse, Set, Sub, typed reads, SaveConfigFile | order of sections and comments, quotes; sub-configurations share maps | saving and parsing changes nothing, views agree |
| Memory session provider, `server/web/session/sess_mem.go` | map of sessions, list in order of last access | SessionRead, SessionRegenerate, SessionDestroy, SessionUpdate, SessionGC | locks given up between finding an element and using it; refreshes run in goroutines of their own | the list is in order, no live session is beyond the collector's reach, expired ones go |
| Session manager and the other providers, `server/web/session` | the browsers' ids, the stores | SessionStart, SessionRegenerateID, SessionDestroy, release | overlapping requests each save a copy; a move is two commands in some stores | what a browser left it finds; what it destroyed is gone |
| Request pipeline, `server/web/router.go`, `filter.go`, `policy.go`, `context` | contexts in a pool | ServeHTTP: filters, policies, session, routing, handler, recover, release | panics at every stage, answers at every stage, contexts used again | own session, sessions released, status delivered |
| Router, `tree.go`, `router.go`, `namespace.go` | a tree per method, filters, nested registers | AddRouter, InsertFilter, Namespace, Match | wildcards that compete; linking puts prefixes into what is already built | the route the patterns call for, under its full pattern |
| Static files, `staticfile.go`, `acceptencoder.go` | cache of small files, pools of compressors | serve, cache, encode | the file changes between the look and the read | served as it was when asked for |
| Captcha and rate limit, `captcha`, `filter/ratelimit` | challenges; a token bucket per key | create, verify; take | two verifications of one id; racing creation, unsigned arithmetic | one try per challenge; bounds over a life and in any window |
| Caches, `client/cache` | items, a vacuum goroutine, pending timers, the single-flight call; external stores | Get, Set, Put, Delete, Incr, Decr, GetMulti, ClearAll | loads that outlive a Set; stores that fail or time out; ClearAll page by page | one load per flight, nothing cached that was never stored, counters exact |
| Hot restart, `server/web/grace` | state, listener and two goroutines per server, processes, signals | ListenAndServe, handleSignals, fork, shutdown | signals to several servers at once, lost signals, a parent that goes too early | sockets stay open, requests are not cut, the parent goes |

### 1.2 How they interact

* The ORM runs every statement through the statement cache of its `DB`; the eviction
  callback of the LRU calls back into it with the lock held. Filters wrap the Ormer
  and every transaction it begins.
* A web server (`server.go`) starts either `net/http` or a `grace.Server`. A request
  takes a context from the pool, goes through filters and policies, gets its session
  from the session manager, is routed through the tree of its method, and gives the
  context back; the session manager calls the configured provider and runs its
  collector from a timer.
* The cache decorators wrap any cache adapter and one another; the functions that load
  and store are the application's.
* The task loop asks a task's schedule for the next instant.
* Everything logs; the asynchronous mode and the file adapter keep state across calls.

Compositions in the models: `CachePatterns` extends `MemoryCache`, the adapter the
decorators wrap; `SessionManager` puts the manager, the controllers' calls, the
deferred release and eight providers together, and refines `SessionApi`. Where one part
uses another through a narrow interface the user has the interface as an assumption:
`TaskManager` takes the instants of a schedule as given and `Schedule` shows how they are
found; `WebPipeline` takes a route as found and `RouterTree` and `WebRegister` show which;
`OrmFilter` takes a transaction as a call and `OrmCrud` shows what it does.

## 2. Modules

Every module keeps the names of the code. A variable `pc` (or `wpc`, `cpc`, `main`,
`handler`, `step`, `at`, `stage`) is the place of a goroutine, request or program between
two steps that others can observe: a lock taken or given up, a channel operation, a
command to a store, a call that blocks. Definitions marked *Mutant* are not part of any
specification: each is a plausible bug in the definition after it, and shows that a
property notices. History variables, which no guard reads, say so at their declaration.

### StmtCache

`rank` and `cached` are the LRU, an external library: a query's place in the
recency list, and its decorator. `ReadLookup` and `AcquireHit` are the two halves
of the fast path under the read lock. `WriteLock`, `WriteHit`, `Prepare`,
`PrepareFails` and `AddToCache` are the slow path under the write lock, with its
second lookup. `Release` is the caller's deferred `release()`. `WaitReturns` and
`CloseStmt` are the goroutine that `destroy()` starts. One client takes one step
at a time, so that an eviction can fall anywhere between two of them.

### TaskManager

`run()` is cut where the API can get in between: `RunInit`, `Snapshot` (under the
read lock), `Effective` (the emptiness test without any lock, and the choice of
the instant to sleep to), the three cases of the select (`TimerFires`,
`RecvChanged`, `RecvStop`), `MarkManagerStop`, and the loop of `runNextTasks`,
whose iterations are `StartRun` and `Advance`. `changed` counts the goroutines
blocked in `m.changed <- true`, and `stopper` follows the goroutine of a StopTask
or GracefulShutdown call. Instants are numbers; `Due` says at which of them a
task's schedule matches, which is all that `Schedule.Next` is used for.
`Less` and `Sorted` keep the zero time last and the order of equals open, as
`sort.Sort` does.

### BeeLogger

`writeMsg` is `WriteSync`, or `WriteCheck` (looks at `bl.outputs`) followed by `Send`, `Discard`
(non-blocking mode with a full channel) or `SendOnClosed`, a panic. `startLogger` is `RecvMsg`,
`RecvFlush` and `RecvClose`, then `Drain` and `Drained` for the loop of `flush()`, then `Done`.
Flush, Reset and Close share `FlushSend`/`CloseSend` (after which the caller is at `sent` and has
not looked at the WaitGroup), `Wait` or `Woken`, and end with `FlushAdd` or `CloseChans`. The
WaitGroup is modelled with its panics: below zero, and reuse before a released `Wait` has returned.

### MemSession

`sessions` is the map, `list` the list, and `sid` and `accessed` the fields of an
element, which outlives its place in either. `SessionRead`/`Create` and
`SessionRegenerate`/`Swap` are cut where the read lock is given up and the write
lock taken; `updates` holds the refreshes that have been started and not run;
`GcLook` and `GcRemove` are one turn of the collector's loop.

### RateLimit

`GetBucket`, `CreateBucket` and `Take` are the three locked sections of a
request. `Take` keeps the order of the code: credit whole tokens and advance
`lastCheckAt` by exactly those, compare, decrement, and cut to the capacity last.
`Mark` is an observer that may begin a window at any time.

### MemoryCache and CachePatterns

`MemoryCache` is the adapter seen from one key, with the age of the item instead
of its creation time and the vacuum in its two locked sections. `CachePatterns`
adds the database and the decorators. `rd`, `wr` and `random` say which read
decorator, which write decorator and whether the randomised expiration is in
use; Init chooses them, so that one run covers all combinations. A Get is `Get`
(the lookup, which goes on only after a miss), with the single-flight decorator `Do` (group.Do,
without another look at the cache), `Load` or `LoadFails`, and `PutLoaded`; those that joined the
flight return with it. A Set is `Set` (storeFunc stores the value), `StoreFails`, which changes
nothing, or `StoreTimesOut`; then `Finish`, with `Arm` and `DeleteAgain` for the double delete. A store that
timed out (`Overdue`) has taken effect, never will, or is `late` and takes effect at any time (`StoreLate`).
`held` remembers what the database ever held, and `crossed` that the last delete of a Set met a load of
an older value or came before a late store: the two cases in which deleting does not help.

### GraceServer

A process is a number, its child the next. Each server of each process has a
main goroutine (`getListener`, `SignalParent`, `Serve`, `ServeReturns`) and a
signal goroutine (`Notify`, `fork`, `shutdown`, `Drained` or `DrainTimesOut`,
`PostSignal`) that meet in `Terminal`. `Deliver` is how `signal.Notify` treats an
unbuffered channel: a handler that is not receiving misses the signal, which the
history variable `lost` records; before any handler is installed the signal
ends the process. `early` records a signal to a process that is still starting,
which `shutdown` swallows and in which `fork` panics. `fork` also fails: a child that cannot be launched ends
the parent (`log.Fatalf`), and a socket that `File()` cannot duplicate is left out without a word; `forkFailed`
remembers either. `End` is how a process ends, whatever its servers are doing, and sets `cut` if one of them
is answering a request. The program around the package is the one its documentation shows: a goroutine per address, and an exit
when all have returned.

### OrmCrud

Tables of rows whose columns are foreign keys, with their `onDelete`. An operation puts the
statements it will send into `work[c]`, and `Continue` sends the first: `InsertRows`, `Find`
(the select a cascade begins with, which puts the statements of the next level in front, as the
recursive `deleteRels` does), `Clear`, `RemoveRows`. Every statement after the first
may fail (`Fail`), which ends the operation. `owner` is the client whose transaction keeps the others
out (isolation is the database's), and `saved` what Rollback goes back to. `doomed` remembers
what a delete may take: the least set that holds the rows it was asked to delete and the rows that refer
to one of them by a cascading column (`Closure`). `clean` and `hurt` remember that a delete was left half
done, or met another client's writes, outside and inside the open transaction. `SchemaAssumption`
and `InputAssumption` say what is asked of the schema and of what an application hands over: a column belongs
to one table, a column with set_default has a default, what is stored at first has no reference to
a missing row, InsertMulti is given models of one table.

### OrmQuery

`arr` are the arrays behind `Condition.params`, a condition is an array and a length, `Extend` is
append, which writes in place when the capacity allows, and `Combine` the calls that clone first.
`forked` remembers the arrays in which two conditions have written over each other, or that were copied from one
(`CopyForked`). The limit -1 stands for none.
`Flat` evaluates the text that `getCondSQL` writes, AND before OR and sub-conditions in
parentheses, in SQL's three truth values (a column of a row that is not there is unknown); `ideal`
is what the calls meant. `InnerJoin` decides the kind of join, and `All`, `Count` and `Delete` read the same
rows with their limits.

### OrmRead

One action per row that arrives (`ReadRow`, `BatchRow`, `RawRow` and their kin) with the values
that do not fit, NULLs and the error between two rows; `cont` is the caller's container and
`acc` the slice that is built beside it and stored at the end. `SetFieldValue` and `RawSetFieldValue` say for each
type of field what a value leaves in it: the first may panic, the second writes a zero value, keeps
what was there (`RawKeeps`), or ends the read with the error of `Fielder.SetRaw`.

### OrmFields and OrmRegistry

`OrmFields` builds a model field by field: `NewFieldInfo` is a chain of corrections (`Flags`,
`CheckOnDelete`, `TypeRules`, `KeyRules`, `Initial`), each of which may refuse. Init takes every combination of the tags.
`OrmRegistry` registers two models with every set of relations between them and goes through the
four rounds of `bootstrap`, in every order of the map of models. Within one model the order of the
columns is the declared one: another order decides only which of several errors comes first.

### OrmFilter

`frames` is the stack of calls: a filter, the Ormer behind it, DoTx, its deferred function. A
frame returns, fails or panics; `Unwind` is the deferred function of DoTx. A filter may panic around any
call, Begin, Commit and Rollback among them, and answer any but Begin; the task may end its transaction
itself (`Enders`). `cut` remembers the first call of a DoTx that was broken off and where, `own` that the task
ended the transaction, `verdict` what the task returned.

### Migration

`cmd[p]` is what a program is doing: which command, at which migration, at which statement.
`Up` and `Down` send one statement, `AddOrUpdateRecord` writes the record. Either may fail, and a
program may stop anywhere (`Crash`). `migrated` is which statements are in effect in the schema and
`recorded` the table. `tolerant` says whether the statements may be repeated.

### SessionApi and SessionManager

`SessionManager` has requests of several browsers, each with an object `req[r]` that holds what
`SessionRead` got. `Provider` and `Store` are tables of what the providers do differently: whether reading
creates, whether a release creates what is not there, whether it shuts the connection of its object (`Shut`: the
next release saves nothing), how a move is done (rename, copy and delete in two commands, insert under the
new id). `AskProvider` has the three outcomes of a request for a new id: a session, an error, or no
session and no error, after which the answer names an id that has none (`Bare`). `End` is the deferred release and `Expire` the stores'
forgetting. `jar` is the browser's cookie, which it takes from the answer. `SessionApi` is the
abstract promise, with four actions; the refinement maps the sessions of the store to `live`, and
a session between the two commands of a move counts for the id it moves to.

### WebPipeline, RouterTree and WebRegister

`WebPipeline` is one request after another through `serveHttp`: `BeforeStatic`, static files,
session, `BeforeRouter`, routing, `BeforeExec`, policies, the handler, `AfterExec`, the finish
filters, and then the deferred calls in their order. Each user function may answer, set a status,
steer the request or panic; Abort sets 200 for a code that is no number. `options` are RecoverPanic
and EnableErrorsShow, and `Recovered` what the recover function answers under each of them. `ctx` is the pooled context, and `Reset` what `Context.Reset` and the
resets of input and output clear.

`RouterTree` builds the tree as `addtree` and `addseg` do and searches it as `match` does. The tree
is a sequence of nodes that name their subtrees by number, as the code's nodes do by pointer;
`AddSeg` and `Match` are recursive functions over the rest of the path. The properties compare the
result with the patterns one by one. `WebRegister` has registers with routers and filters, links
namespaces in any order, and follows a request through the filters of the register it meets.

### StaticFiles and Captcha

`StaticFiles` cuts a request at the Stat, the look into the cache and the reading of the file, with
the file changing in between. `level`, `custom` and `best` are the pools of compressors.
`Captcha` has verifications that read the challenge, compare and delete, and a store that drops
challenges or fails: when the Delete of a verification fails the challenge stays.

### Schedule, IniConfig and TreeConfig

`Schedule` runs `Next` loop by loop over a calendar of small units, from every instant and for every
spec of the fields' bits. `IniConfig` parses line by line, with sections, comments in front of keys and
sections, quotes and environment variables; then `Set`, `SaveConfigFile` (`SaveLines`) and a second
parse. `TreeConfig` is a heap of maps: json, yaml, xml and toml differ in how a key is looked up
(`YamlWalk` and its kin), in what `Set` does with a path and in what `Sub` shares.

### FileLog

A writer is `Begin`, `Check` under the read lock, `Rotate` (the second check under the write lock, and
`DoRotate` with `FreeName`, the rename and `InitFd`) and `Write`. `timers` are the goroutines
that wait for the next day, one per opening of the file; `cleaners` those of `deleteOldLog`. Rename and
open may fail, `MaxFaults` times.

### CacheAdapters

The operations of the file, redis, memcache and ssdb adapters as commands to their stores, with
`ClearAll` page by page, `GetMulti` as the stores answer it, and counters of `2 * Half` values with
`IncrVal` and `DecrVal` of `calc_utils.go`. A redis server is shared: `Prefixes` are those of other caches there,
`Name` and `Associate` how a key is called on the server (without a colon under `skipEmptyPrefix`), and `Glob` is
the match of ClearAll's pattern, in which characters of the prefix may have a meaning.

### HttpClient

`arrays` are the arrays behind slices of filters, those of the default setting among them. A send
builds the URL and the body once (`BuildURL`), and `Attempt` fails before or after the server has
read the body; `CopyBody` is what the retry loop leaves for the next one. `Bytes`, `ToFile` and
`HandleResponse` read the answer that is kept. `Client` requests start from the client's setting.

### MC modules, suites and proof modules

`MC<Module>` extends a module for TLC and holds what a configuration cannot express (schedules,
databases, symmetry sets). `MCOrm` and `MCParts` are suites: they INSTANCE several small modules,
`which` says which of them a behaviour is about, and the variables of the others stay at `Unused`.
The parts of a suite share nothing, so a suite's states are the union of its parts' and each
invariant speaks of one part. The eight modules `*Proofs` hold the
theorems and proofs, each about the module it is named after; `PartsProofs` is about `MCParts`,
`OrmProofs` about `StmtCache` and `OrmCrud`, `OrmPartsProofs` about `MCOrm`, and `MemoryProofs` about
`MemSession` and `CachePatterns`. No
configuration replaces a definition, so that TLC and the proofs speak of the same specification.

## 3. Runs

A run per question. `tlc -workers 2 -config X.cfg MCModule` repeats one. Related properties of a
module are checked as one conjunction, whose parts are definitions of their own with a comment each.

| Run | Configuration | Checks | Parts of the conjunctions, and what the run shows |
|---|---|---|---|
| `stmt_cache` | StmtCache.cfg | NoUseAfterClose, NoLeakedStmt, CacheWellFormed, NoAcquireAfterEviction, StmtProgress | EvictedStmtIsClosed, QueryGetsStmt. With three queries and room for two, evictions meet lookups, acquisitions and users in every order, and no statement is closed under a user, leaked or acquired late; deadlock is checked |
| `orm_crud` | OrmCrud.cfg | DatabaseSound, StatementsExact, OperationEnds | CrudTypeOK, NoOrphans, MultiComplete; ExactDeleteStep. Two clients with transactions and failing statements over a tree, a circle and a many-to-many table: no cascade leaves a reference behind unless a statement failed outside a transaction, none takes a row too many, and every operation ends |
| `task_manager` | TaskManager.cfg | LoopSound, NoDoubleRun | TypeOK, SingleLoop, ShutdownMeansQuiet, DeletedRunsAtMostOnce. Start, stop and restart around a changing list: one loop; no occurrence starts twice; a deleted task runs at most once more; a closed `done` channel means that nothing runs |
| `task_manager_live` | TaskManagerLive.cfg | LoopProgress | NoStuckTask, LoneShutdownReports. A registered task does not keep a run time for good; a shutdown that is the only stop request reports |
| `logger` | BeeLogger.cfg | LoggerSound, LoggerProgress | TypeOK, WriterOrder, FlushDrains, WaitGroupSound; CallReturns, AcceptedIsWritten. With one controlling goroutine Flush, Reset and Close drain, keep the WaitGroup sound and return, in both sending modes |
| `mem_session` | MemSession.cfg | ListSound, ExpiredIsCollected | TypeOK, ListByAge, KeptUnlessRenamed. The list stays in order whatever refreshes run late; only a rename can lose a session to the collector |
| `orm` | Orm.cfg | QuerySound, ReadSound, FieldsSound, LinksSound, TxSound, MigrationSound | LinearStable, FilterNarrows, JoinKeepsRows, CountAgrees; NothingOldAmongNew, FailedReadKeeps; ColumnSane, OneKey; LinksRight, OneReverse; TxEnded, FilterOrder; UpgradeComplete, UpInOrder, RollbackClean. The ORM's other parts, one at a time |
| `session_manager` | SessionManager.cfg | SessionsSound, ImplementsApi | TypeOK, DestroyedStaysGone, Continuity, RegenerateKeeps. Overlapping requests over eight providers; the refinement: ids are one browser's, a session holds what that browser put there, a move is one step |
| `parts` | Parts.cfg | PipelineSound, RoutingSound, RegisterSound, StaticSound, OneTry, LimitsHold, NextSound, ConfigsSound, FileLogSound, AdaptersSound, ClientSound | SessionIsOwn, SessionsReleased, StatusDelivered, PanicShows; MatchSound, MatchComplete, FixedFirst, ParamsRight; CondHolds, Reachable, PatternFull; Fresh, EncodingRight, PoolsPure; RateLimit's TypeOK, TotalBound, WindowBound; Earliest, GivesUpOnlyIfNone; RoundTrip, CommentsKept, SubConsistent, SetFrame; NothingLost, LinesBound, TimerPending; ClearDone, PrefixSafe, MultiAligned, CounterExact; BodyWhole, ParamsOnce, SentOnce. The parts of the web server, core and clients, one at a time |
| `http_filters` | HttpFilters.cfg | FiltersOwn, violated | section 7, 1 |
| `cache_patterns` | CachePatterns.cfg | SingleLoad, CachedWasStored, DeleteHeals, CacheProgress | StaleEnds, GetReturns, ExpiredIsCleared. All nine pairs of decorators, with and without the random offset, with stores that fail, time out or take effect late |
| `grace` | GraceServer.cfg | HandoverSound, ParentRetires | TypeOK, SocketKept, NoRequestCut. A restart whose child starts keeps each address open in some process, no process ends during a request, and the parent goes unless a signal was lost |

`CHECK_DEADLOCK FALSE` stands where the system may really stop: the bounds on messages, clock,
calls or signals are used up, a request, a parse or a command is over, a manager is shut down, a
program has ended, a panic ended the process. The statement cache always has a next query and is
checked for deadlock.

Some properties are conditional, and the condition is part of what they say:

* `WaitGroupSound` and `FlushDrains` hold for one controlling goroutine; with two they do not.
* `KeptUnlessRenamed` excepts sessions whose id was regenerated.
* `ShutdownMeansQuiet` speaks of a manager that was started once; one that is started again may run
  tasks after an older shutdown has reported.
* `LoneShutdownReports` needs the shutdown to be the only stop request.
* `SocketKept`, `NoRequestCut` and `ParentRetires` assume that the operator signals a process that is up;
  the first two also that no fork failed, and `ParentRetires` that no signal was lost, which the code
  cannot rule out because its signal channel has no buffer. A request that outlives DefaultTimeout is given up
  by Shutdown and not counted as cut.
* `DeleteHeals` excepts the load that began before a Set and ends after the last delete, and the store
  that timed out and takes effect after it: neither write-delete nor double delete can do anything about them.
  `StaleEnds` speaks of Sets that have ended: while Sets of write through overlap, staleness need not end.
* `TxEnded` excepts a filter that panics behind Begin, or that does not let Commit or Rollback through
  (`LeftOpen`), and a task that commits its transaction itself.
* `NothingOldAmongNew` excepts raw reads into a field of a type in `RawKeeps`.
* `PanicShows` allows a 200 that was asked for before the panic.
* `OneTry` excepts a challenge whose Delete failed each time, until it expires.
* `ClearDone` excepts redis with an empty prefix that is skipped, `PrefixSafe` a cache whose prefix begins with
  this one's and a colon, and a prefix with a character of patterns.
* `CommentsKept` excepts the comment of the default section, and `SetFrame` the keys of yaml that lead to the same
  place past segments that do not exist.
* `NoOrphans` and `ExactDeleteStep` speak of histories in which no delete failed half way outside a
  transaction or met a write of another client between two of its statements (the code has no
  protection against either but a transaction); `NoOrphans` also of columns that say cascade or set_null.
* `DestroyedStaysGone` excepts an id that another request had open when it was destroyed, and
  `Continuity` a browser whose requests overlapped: release saves what the request had read; values that were
  set after a release that shut the connection; and what the cookie provider was asked to regenerate.
* `RegenerateKeeps` speaks of a request that came with the id of its session, of a session that has not been
  destroyed, and not of ledis.
* `LinearStable` excepts conditions whose array was extended in place a second time, or was copied from
  such an array: And and Or of one condition write over each other, which the code does not prevent.
* `UpgradeComplete` excepts migrations of which a Down was begun, and `RollbackClean` commands that overlap.
* `LinesBound` allows one line for each other writer that had passed the check; it and `TimerPending` speak
  of logs whose rotations did not fail.

## 4. Bounds

Every bound is a constant with a comment, or a set given by the configuration.

| Module | Instance | Why it is enough for the cases aimed at |
|---|---|---|
| StmtCache | 2 clients, 3 queries, `Limit` 2, 3 statements | one client evicts what the other looks up, uses or has just released; the third query forces an eviction |
| OrmCrud | 2 clients, 2 operations, 1 failing statement; 3 nodes, a card, a link; three tables of `on_delete` | a cascade of three levels, a circle, set_null and do_nothing at its end, a second client between two statements, a chunk of InsertMulti that fails |
| OrmQuery | `MaxConds` 4, `BaseLen` 3, limits of none, the default and 1, an offset of 0 or 1, `DefaultRows` 2 | an array with room to spare and two conditions that append to it; AND, OR and a sub-condition together |
| OrmRead | `MaxRows` 3 | a longer and a shorter result than the container's; a row that does not fit, or breaks off, between two that do |
| OrmFields, OrmRegistry | every combination of tags for two fields; every set of relations of two models | the corrections follow one another within a field; a relation has two ends |
| OrmFilter | `NFilters` 2, `MaxCalls` 4 | an inner and an outer filter, calls inside a transaction of a DoTx, a panic around each |
| Migration | 2 programs, 2 migrations of 2 statements, 3 commands, 2 failures | stop half way and repeat; two programs that upgrade together |
| SessionManager | eight providers, one of them with the id in a header field; 2 browsers, 2 overlapping requests, 3 in all, 3 ids, 2 calls per request | a logout or a move while another request is under way, and a request afterwards that sees what is left |
| WebPipeline | 2 requests, 2 filters of a position, both options on and off, statuses 200, 201 and 403 | what one request leaves in the context the next one gets; a status that has an error page and one that looks like success |
| RouterTree | 2 routes of 3 and 2 segments, paths of 3 words | two patterns that compete for a path, a wildcard above a fixed segment |
| WebRegister | 3 steps | a namespace in a namespace, linked before or after it is filled |
| StaticFiles | 2 requests, 3 versions of a file, 2 file times, room for 1 file | a change between Stat and read, a change within the clock's resolution, a full cache |
| Captcha | 2 ids, 2 verifications, 3 challenges | two verifications of one challenge, a reload in between |
| RateLimit | 2 requests, 1 key, 2 buckets, `Capacity` 2, `Rate` 2, `RateTime` 7 | the race of creation, fractions of a token, a bucket that fills up, overflows and empties again; keys do not interact |
| Schedule | 2 years | every carry; a schedule that matches in one month only, and one that never does |
| IniConfig, TreeConfig | files of 4 lines, 1 Set; 2 calls on trees of depth 2 | a section with a comment and a key; a Set through a parent and a read through a sub-configuration |
| FileLog | 2 writers, 3 messages, 3 days, 2 files, 1 fault, limit of none or 1 line | both writers want to rotate; midnight comes between check and write; the rename or the open fails |
| CacheAdapters | 3 keys, pages of 2, counters of 8 values, 3 calls; the prefix `a`, `?` or none, and other caches of the prefixes `b`, `ab` and `a:b` | a second page that changes while the first is cleared; a counter at both ends of its range; a prefix beside, in front of and above this one's |
| HttpClient | 1 request, 1 retry, 2 filters, 2 sends (`FiltersOwn`: 2 requests) | an attempt that fails after the body was read; a second send of a request |
| TaskManager | 2 tasks, 2 loops, 2 stop requests, `MaxTime` 2, `MaxChanged` 1 | a tie of due tasks, a second occurrence, a restart, two stop requests of which one finds no receiver, a list change during a round; the live run has one task and one loop |
| BeeLogger | 2 writers of 2 messages, `ChanLen` 1, 2 calls | the channel is full while a flush drains it and a writer is blocked or discards; two calls follow one another with Reset and Close among them |
| MemSession | 2 requests, 2 ids, 3 elements, `Lifetime` 1, `MaxTime` 2 | an id created twice, renamed and destroyed while the collector holds a victim |
| CachePatterns | 2 readers, 2 writers, 2 values, 1 pending timer, 1 late store, `expiration` 0 with an offset of 1 or none | two Sets in both orders of store and put, a load across a Set, a late store behind the last delete; items that live forever and items that expire. Two values are enough because a value counts only as the database's or not; three (one bloom-filter reader, two writers) were checked too |
| GraceServer | 2 servers, 2 generations, 2 signals, one request at a time, of the process that can be restarted | parent and child with two listeners each; a restart and a stop, or two restarts of which one is a repeated signal; after a failed fork neither signals nor requests, of which no property speaks |

Symmetry is used in `task_manager`, `session_manager`, `orm` (programs) and `parts` (requests, writers), only for sets the specification does not tell
apart and only in runs without liveness properties (the refinement of `session_manager` has safety only).
`Stmts`, `Elems` and `Buckets` bound how many objects are ever created; a client that would need one more
stops there, and the liveness properties are stated so that this does not make them vacuous
(`EvictedStmtIsClosed` speaks of statements, `ExpiredIsCollected` of elements that exist; a query whose
statement cannot be prepared for want of an object can still take `PrepareFails`).

## 5. Fairness

Safety is checked without fairness wherever a run has no liveness property.

* The Go scheduler runs a goroutine that can run: weak fairness for steps that,
  once enabled, stay enabled (inside `getStmtDecorator`, the loop's straight-line
  code, Drain and Done, the main goroutine of a server).
* Locks and selects disable one another. Go's RWMutex lets neither readers nor
  writers starve, hence strong fairness of `ReadLookup` and `WriteLock`; a select
  chooses uniformly among its ready cases, hence strong fairness of each case of
  the task loop. In the logger weak fairness per case is enough for the
  properties stated.
* Time passes (`Tick`, `Age`), the collector and the vacuum run again and again
  (both are driven by timers), a task's function returns, a query releases its
  statement, a load ends, a program whose servers are over exits.
* The database answers a statement, and the user's function inside a transaction ends it: weak
  fairness of `Continue` and of Commit or Rollback in `OrmCrud`, for `OperationEnds`.
* Nobody has to call: `Call`, `AddTask`, `Get`, `Set`, log calls, requests and
  signals have no fairness. Nor have `Respond` (a client may hold a request
  forever; `DrainTimesOut` is the code's answer) and second deletes.

## 6. Proofs

`tlapm <Module>.tla` checks the theorems of a module. Every assumption they use is an ASSUME of the
module they are about, which TLC evaluates on the instance of section 4. The theorems hold for every
value of the constants these allow: any number of clients, requests, tasks or processes, and of the
steps and objects the bounds of section 4 limit. No module a theorem uses declares a RECURSIVE operator;
recursion is written as recursive functions.

Each proof has the same shape. An inductive invariant (`IInv`, or `SInv` and, in `PartsProofs`, one named
after the part, such as `CrudInv`) is a conjunction of named parts; a lemma per action, or per operation, says that the action keeps
it; `Invariance` puts them together; the property follows from it. Each of these invariants was first
checked by TLC.

| Module | Theorem | States |
|---|---|---|
| `OrmProofs`, on StmtCache | `TypeCorrect` | `Spec => []TypeOK`; a decorator's WaitGroup never goes below zero |
| | `UseSafety` | `Spec => []NoUseAfterClose` |
| | `EvictionIsFinal` | `Spec => NoAcquireAfterEviction`, an action property |
| | `NoLeak` | `Spec => []NoLeakedStmt` |
| | `WellFormedness` | `Spec => []CacheWellFormed` |
| on OrmCrud | `CrudTypeCorrect` | `CrudSpec => [](CrudTypeOK /\ MultiComplete)`, for any ways to delete |
| | `StatementsSound` | `WhereCols` empty: `CrudSpec => []DatabaseSound` |
| | `DeletesExact` | `WhereCols` empty: `CrudSpec => StatementsExact`, an action property |
| `OrmPartsProofs`, on MCOrm | `MigrationSafety` | `OrmSpec => []MigrationSound` |
| | `TxSafety` | `OrmSpec => []TxSound` |
| | `ReadSafety` | `OrmSpec => []ReadSound` |
| | `FieldsSafety` | `OrmSpec => []FieldsSound` |
| | `AppendSafety` | `LinearStable` of OrmQuery, a part of `QuerySound` |
| `MemoryProofs`, on CachePatterns | `PatternTypeCorrect` | `PatternSpec => []PatternTypeOK`, with the equivalence between a registered flight and a loading reader |
| | `FlightIsSingle` | `PatternSpec => []SingleLoad` |
| | `NeverAhead` | `PatternSpec => []CachedWasStored` |
| | `Healing` | `PatternSpec => []DeleteHeals` |
| on MemSession | `ListCorrect` | `Spec => []ListSound` |
| `TaskManagerProofs` | `LoopCorrect` | `Spec => []LoopSound` |
| | `RunsOnce` | `Spec => NoDoubleRun`, an action property |
| `BeeLoggerProofs` | `LoggerCorrect` | one controller: `Spec => []LoggerSound` |
| | `InOrder` | any controllers: `Spec => []WriterOrder` |
| `GraceServerProofs` | `TypeCorrect` | `Spec => []TypeOK` |
| | `HandoverCorrect` | `Spec => []HandoverSound` |
| `SessionManagerProofs` | `Refinement` | `Spec => ImplementsApi` |
| | `SessionsCorrect` | `Spec => []SessionsSound` |
| `PartsProofs` | `CaptchaSpent` | `Spec => []OneTry` of MCParts |
| | `RateLimited` | `Spec => []LimitsHold` of MCParts |
| | `StaticFresh` | `Spec => []StaticSound` of MCParts |
| | `ClientCorrect` | `Spec => []ClientSound` of MCParts |
| | `PipelineCorrect` | `Spec => []PipelineSound` of MCParts |
| | `FileLogKept` | `LinesBound`, `TimerPending` and the second half of `NothingLost`, of FileLog |
| | `AdaptersCorrect` | `Spec => []AdaptersSound` of MCParts |

### OrmProofs

*The statement cache.* For any finite set of clients, any queries, any statements and any limit of at least one
(`StmtAssumption`). `NoUseAfterClose` is not inductive. A statement is closed when its counter is zero,
so one must know that the counter is the number of users: `CountInv`, an equation between `wg` and a
cardinality, which is why Clients has to be finite. A client that has found a statement and not yet
acquired it is not counted; what protects it is that it holds the read lock (`LockInv`), that the lock
keeps the entry in the cache (`HitInv`), and that a cached statement has no reaper (`CacheInv`).
`ReapInv` says that a reaper past its Wait has no users left. The action property follows from `IInv`:
every step that raises a counter raises it for a statement that is cached or just prepared.
`CacheWellFormed` needs `RankInv`: the places of the recency list are taken once each and without a gap,
so that the list is as long as its last place says.

*The database.* For any schema in which a column belongs to one table (`SchemaAssumption`), any clients,
batches and failures. `CrudTypes` says which statements an operation can still have to send: an operation inserts
or it deletes (`OneKind`), and what an InsertMulti has still to send holds exactly the rows that are not counted
yet (`Counting`, `Remaining`), which gives `MultiComplete`.

`NoOrphans` is far from inductive, because a delete takes the row first and what refers to it later, level by level,
along references that may run in a circle. `LiveInv` holds between any two statements: every
reference to a row that is gone is *covered* by a statement still to be sent, a select or an update of its column with
its value, or a removal of the row that has it. A statement that goes out of the list is replaced by statements
that cover what it leaves; when the list is empty nothing is left to cover. `LiveInv` says the same of `saved` and
the operations of the other clients, for the Rollback.

`ExactDeleteStep` needs the other half, that what is still to be sent never takes too much. `DoomInv`:
`doomed` is closed under the cascading columns *as the database is now*, and what any statement still to be sent would take is
in it. Closure survives each statement because rows are only removed, and the columns an update
clears are not those a cascade goes by. `doomed` used to be computed by a recursive function; the proof needs that
it is the least closed set, and the module says that now (`Closure`), with the same states. When a transaction is
rolled back under another client's delete, `DoomInv` knows that the transaction has written nothing, since it would not be
`clean` otherwise.

Both theorems assume `WhereCols = {}`, because the code is wrong otherwise (section 7).

### OrmPartsProofs

*Migrations.* For any programs, migrations, statements and failures. `CmdOk` says what a
command knows from its place in the code: an Upgrade that has come to a migration has a record of every one before
it, and the statements before its own are in effect unless a Down was begun. `RollbackClean` is about commands that do not
overlap, so `MigAlone` holds a second form, `DownOk`, of what a Down has undone so far.

*Conditions.* `CondOk`: a condition lies within its array, and an array that nobody forked has, from its start, what
each of its conditions was built of. The proof attempt showed that `LinearStable` as it stood was false beyond the bounds of
the run: with five conditions, the first of three expressions, a condition can be copied from an array over whose last
cell two others have written, and the copy keeps what the second wrote. TLC confirmed it. The exception covers
such copies now (`CopyForked`).

*Reading.* `ReadInv` follows the slice that is built on the side, which has a row for every one counted and no old value
among them, until it is stored in the container; and says when a field of a single object may still have its old
value: read in place by a raw read, of a type whose value such a read may leave (`StaysOld`).

*Fields.* `NewFieldInfo` is one step of the model and a chain of corrections in it; each stage has its own postcondition
(`Flagged`, `Typed`, `Keyed`), and `ColumnSane` follows from the last. `FieldsInv` adds the model that collects them, for `OneKey`.

*Filters.* The stack of calls has one invocation at a time outside a transaction (`Lone`), or a DoTx and above it its Begin, a
method its task called, or the end of its transaction (`Pair`); each says whether a transaction is open there, and what
was broken off if it is when nobody is left to end it (`LeftOpen`). Both say that an invocation has gone through the
first filters in their order (`Right`).

### MemoryProofs

*The cache decorators.* For any readers, writers, values (at least one), any expiration, any offsets, any subset of the
decorators (`CacheAssumption`, `PatternAssumption`). `SingleLoad` needs the equivalence in `PatternTypeOK`: a
Get joins exactly when somebody loads. `CachedWasStored` needs the same of the values on their way into
the cache (`StoredInv`). `DeleteHeals` is not inductive for two reasons: the stale value may still be
with a reader, so `HealInv` looks at loads as well as at the item and at expired items too; and for the
double delete only the *second* delete counts, because the timer may fire before the first, so `HealInv`
asks for a pending timer or a Set that has not armed it yet. A late store may make the item old at any
time: then the last delete is still to come (`LastOwed`), or the history says `crossed`. `StepInv` says which
steps a decorator takes.

*The memory session provider.* For any clients and ids. `KeptUnlessRenamed` is not inductive: destroy and the collector take one
element out of the list and one entry out of the map, and no other entry may lead to that element.
`RefInv` says why none does: an element that was never renamed is in the map under its own id only.
`ListByAge` needs `AgeInv`, no access lies in the future. What `RemoveAt` and `Without` leave of a list
are lemmas about sequences without repetition.

### TaskManagerProofs

For any tasks, schedules, loops and stop requests. The parts hold together or not at all. The counter of
`wait` is the number of tasks that run (`WaitInv`) only if no occurrence is started twice; an occurrence
is not started again because the task's next run time is past it (`RunInv`), except between `StartRun`
and `Advance`; the next run time stays past it because what sets it anew is the clock, or a loop that
has not been overtaken (`LoopInv`), of which there is one (`SingleLoop`). `LateInv` follows a deleted
task through the snapshot it is still in, `QuietInv` says which loop a shutdown that reports has ended.
That a list has no task twice, and a cardinality that counts, are lemmas about `Sorted` and `ToSet`.

### BeeLoggerProofs

For any writers, any length of the channel and any calls. Order needs no more than the channel: what is
written, what is in the channel and what a writer is about to send are three stretches of one increasing
sequence per writer (`OrderInv`, `AcceptInv`), and `InOrder` has no assumption. `FlushDrains` and
`WaitGroupSound` are false for two goroutines that call Flush, Reset or Close at the same time (section
7), so `LoggerCorrect` assumes `OneController`, as the run does. `PhaseInv` says where the goroutine can
be at each point of the call: its one of the WaitGroup is lent from its `Done` to the caller's
`FlushAdd`. `DrainInv` remembers, while it is lent, that what came before the call is out of the
channel.

### GraceServerProofs

For any addresses, generations, signals and requests. `SocketKept` looks at all processes; what carries
it is the youngest. A parent may close its listeners as soon as *one* server of the child has signalled
it, so that the other sockets are held only as files the child has not got to yet. The child must
therefore stay alive, which it does because the server that signalled cannot fail any more:
`HandoverInv`. `BirthInv` puts the processes in a row, a process that has forked having a handler; `ServerInv`
ties a server's two goroutines to its state and its listener, and says that in a process that was up when SIGHUP
came every server is past its start, so that a fork that cannot go on is one that failed. `RequestInv` says where a
request can be answered, and that a process ends with one only by an early signal or a failed fork.

### SessionManagerProofs

For any browsers, requests, ids and calls, and every set of providers and carriers
(`SessionAssumption`).

The refinement maps `live`, the sessions of SessionApi, to the store and to the values a request holds
between the two commands of a move. Its steps are simple once one knows whose everything is: every id a
request, a jar or a stored value refers to was issued to that browser (`ReqsOk`, `JarOk`, `StoreOk`),
and nobody but the request that moves a session knows the id it moves it to (`PrivateInv`), so that
nobody writes there in between. `NextMaps` has a lemma per operation (the lemmas with `Maps` in their
names).

`SessionsSound` speaks of the end of requests and of moves. `SInv` says what a request that ran by
itself so far knows on the way (`PlainOk`): the browser will have the id of its session (`Stay`), the
values it has in hand are those stored until it changes them (`Val`), and while it moves the session the
values are where the command it has reached says (`Carried`); which differs from provider to provider.
A request whose object has lost its connection (`shut`) runs by itself only until it sets another value.
`GoneInv` is about destroyed ids, `CalmInv` is `Continuity` while a request is about to read.

An earlier form of `RegenerateKeeps` did not exclude sessions that had been destroyed. The proof stopped
at the providers that update and do not insert, and TLC, with four calls per request, found the
behaviour: a handler that sets a value, destroys its session, sets another one and regenerates the id
loses the second value under MySQL and PostgreSQL. The property has the condition now, and section 7 the
behaviour.

### PartsProofs

The theorems are about MCParts, and so about the properties its run checks: the invariant of a part is
kept by the steps of that part, and a behaviour is about one part. For any ids and verifications,
`OneTry` needs that a challenge belongs to one id also while a Verify has it in hand (`OwnId`):
otherwise the Delete of that Verify would leave it under another. A Delete that fails spends nothing; that the same
challenge is spent by the Delete of another Verify, or not at all, is what the history `spent` is about. For any clients, keys, capacity, rate
and length of time (`RatesAssumption`), `LimitsHold` is a balance: what was let through and what is left
in the bucket were there at first or came since, one per period (`CreditInv`); in a window that is so up
to one token, because `Take` cuts to the capacity after it has taken (`WindowInv`). The arithmetic of
whole periods is the lemma `Division`.

`StaticSound` speaks of what a request has got, and others fill the cache between its look at the file
and its look into the cache. A copy carries the stamp, time and size, of the `FileInfo` its request
found, and the content of the file as it was opened later. `CopyInv` says that while stamps tell the
versions apart a copy with the stamp of today's file is not older than it; `FetchInv` says the same of
the file a request has found and of every copy that is put in meanwhile. Whether stamps tell them apart is
a cardinality (`Coarse`), so that the step that changes the file needs the theorems about finite sets.

For `ClientSound` the parts of a request are tied together by `RequestOk`: data has a reader, the
parameters are in the URL from the first time it is sent, and a program that only asks for the answer has
it after one.

`PipelineSound` is shown of whatever user code does by a relation between the answer before and after
(`Follows`): what was sent stays, the session is untouched, and a panic that is shown later sends nothing
itself. Each way to answer is in that relation (`UserCodeFollows`, `ExceptionFollows`,
`CrashedFollows`). `AnswerOk` is what holds of an answer on the way: as long as nothing was sent, the
status that is wanted is the one that was set last, and `WriteHeader` has not been used up. `AnswerInv`
follows it through the deferred calls, for each setting of the options. A 200 after a panic is one that was
asked for, as Abort does for a code that is no number; with RecoverPanic off the panic reaches net/http and nothing
is sent.

For any writers, days, files and failures (`FilesAssumption`: finitely many writers, and MaxDays is not
zero, since otherwise deleteOldLog deletes the open file too), `FileLogKept` needs `RoomInv`: a writer
that found room has its line in the bound already, so that the lines of the log and the writers that are
about to write stay below it together. `OpenInv` says that as long as no rotation failed the log is open,
younger than the last midnight but one, and awaited by the timer of its day, which is why deleteOldLog
cannot take it.

`AdaptersSound` is shown for any number of keys, size of a page and width of a counter
(`AdaptersAssumption`: a page has a key, and a counter has at least four values). `AdapterInv` says of
every key that a ClearAll has to remove and that is still there that it is yet to come (`Coming`): behind
the cursor or among the keys found. That a page of ssdb skips nothing is a fact about the order of the
keys (`ScanRight`): those it leaves out come after its last one, and an empty page means that none is
left. On redis it says that what was found, and what is gone of other caches, matched the pattern
(`FoundMatch`, `LostMatch`); a key of another cache that matches belongs to one whose prefix begins with this one's
and a colon (`OtherMatch`), and every key of this cache matches (`OwnMatch`) but under a skipped empty prefix. The
proof of `MultiAligned` needs that the ordered list of keys that ssdb answers with exists
and is without repetition. Every arithmetic of `incr` and `decr` is `CounterRight`.

### Only model-checked

* Liveness: `StmtProgress`, `OperationEnds`, `LoopProgress`, `LoggerProgress`, `ExpiredIsCollected`,
  `CacheProgress`, `ParentRetires`. The prover handles neither fairness nor ENABLED.
* What recursive definitions compute for every input, which needs induction over data: whether a filter narrows, a join keeps its
  rows and Count agrees (`QuerySound`, but for `LinearStable`), the search in the tree of routes (`RoutingSound`), the rounds of
  bootstrap over a map (`LinksSound`), the parsers and trees of configurations (`ConfigsSound`), and the carries of
  `Next` (`NextSound`). For the same reason the first half of FileLog's `NothingLost`, a sum over the files.
* Of MCParts also `RegisterSound`: section 9.

## 7. Where the code and its text disagree

One disagreement has a run that shows it:

1. `client/httplib/httplib.go:257`. `AddFilters` appends to a copy of the default slice, whose array has
   room for four and is shared by all requests: one request's filter is written over another's. The test
   says "make sure that AddFilters only work for the specific request" (`httplib_test.go:309`), and
   compares lengths.

The following are properties in the modules that TLC refutes, with the name a reader can put in a
configuration; they have no run:

* `EmptyListJustSleeps` (`task/task.go:515`): the snapshot is taken under the lock, the emptiness test reads
  the live map; a task added in between makes `sortList.Vals[0]` index an empty slice.
* `FlushDrains` with two controllers (`core/logs/log.go:596`): two Flush calls share one WaitGroup, and the
  first `Done` releases both.
* `MapInList` (`session/sess_mem.go:131`): a session removed between the two locks of SessionRegenerate comes
  back in the map and not in the list, where the collector never finds it.
* `HandoverComplete` (`grace/server.go:83`): the first server of a child makes the whole parent go; the next
  may then signal the init process, get an error and return although its socket was inherited.
* `DatabaseSound` and `StatementsExact` with a `WhereCols` that is not empty (`orm/db.go:801`): a delete by another
  column than the key hands the values of that column to deleteRels as if they were keys. Rows that refer to the deleted
  ones stay, and rows that refer to others are taken.
* `RegenerateKeepsData` (`session/session.go:291`): for a request that came with an expired id the provider is
  asked to move the expired session, and the values of the current one are lost.
* `OwnHandler` (`context/input.go:68`): RunController and RunMethod are not reset with the context, so that a
  filter's choice can reach a later request.
* `SplatRight` (`tree.go:332`): `treePattern` stays cut when a fixed branch is given up, and `:splat` lacks words.
* `FilterCovers` (`filter.go:33`): with a case-insensitive router the path is lowered and the tree of a
  filter keeps its pattern as written: a filter with an upper-case pattern is never run.
* `OverwriteRight` (`config/ini.go:349`): the file is opened without O_TRUNC: saving over a
  longer file leaves the end of the old one. Saving of toml does the same.
* `DefaultsAnswer` (`config/xml/xml.go:154`): Int of a key that is not there, or is a map, panics, and DefaultInt with it.
* `ExistsFresh` (`cache/file.go:271`): IsExist of the file cache says yes for an expired item.
* `OnDeletePossible` (`models_info_f.go:442`): `on_delete(set_default)` is accepted at line 347 and its default
  cleared for a unique column, which every `rel(one)` is.
* `FilesWhole` and `ReadsWhole` (`httplib.go:508`): a retried upload of files sends no body; a body that broke off
  is kept, and returned without an error the next time.
* `Refreshed` (`migration.go:246`): Refresh does not apply again what it rolled back, because Upgrade skips every
  recorded name; Reset runs Down of migrations that were never applied.

The following are cases a reader of the code may not expect; the property named excepts each of them (section 3):

* `client/orm/orm.go:580`: "a transaction ends" is not so when a filter panics around Begin, before the deferred
  function of line 585 is set up, or does not let the Rollback or Commit of lines 587 and 592 through: the
  transaction stays open (`LeftOpen`). A nil result of DoTx does not mean that it was committed either: the error
  of Commit is only logged (593).
* `orm_raw.go:160`: a raw read into a struct that was used keeps the old value of a time and of a sql.Null that do not parse, and of
  types it does not know (`RawKeeps`).
* `orm/db_tables.go:144`: a relation followed backwards is joined with INNER JOIN, so that rows without a
  counterpart are lost (`JoinKeepsRows`). `db.go:1412`: Count hands on the offset, which skips the one row the count
  is in, and returns an error (`CountAgrees`).
* `session/mysql/sess_mysql.go:113`, `sess_postgresql.go`, `couchbase/sess_couchbase.go:108`: a release closes the connection of its
  object. After SessionReleaseIfPresent the release at the end of the request saves nothing, and what was
  set in between is lost (`Continuity`).
* `session/sess_cookie.go:167`: the cookie provider answers SessionRegenerate with no session and no error, and
  `session.go:313` tells the browser the new id all the same: the session is lost.
  `sess_couchbase.go:187`: reading an id that is not there is an error, so that SessionStart gives nobody a first session.
* `controller.go:390`: Abort with a code that is no number sets 200, which the recover function sends: the client is told
  of success (`PanicShows`).
* `captcha/captcha.go:219`: an error of the store's Delete is dropped, and the challenge can be tried again until it expires (`OneTry`).
* `config/ini.go:381`: the comment of the default section is parsed and never written (`CommentsKept`).
  `yaml/yaml.go:320`: a key is looked up past segments that do not exist, so that Set of "a" changes "b.a" (`SetFrame`).
* `cache/redis/redis.go:163`: ClearAll of the cache "a" scans "a:*", which also finds the keys of a cache "a:b", and a prefix with
  a character of patterns finds those of others (`PrefixSafe`). With SkipEmptyPrefix and no prefix it scans ":*", and removes
  none of its own (`ClearDone`).
* `cache/write_through.go:44`: two Sets that overlap may store in one order and put in the other, again and again: the item is
  stale as long as they go on, although each put makes it young (`StaleEnds`). `singleflight.go:52`: readers that missed together
  may each load, one after the other, because group.Do does not look at the cache again. `write_delete.go:47`: a store that
  timed out may take effect after the delete (`DeleteHeals`).
* `grace/server.go:356`: when the child cannot be launched `log.Fatalf` ends the parent, with all its addresses and
  requests; line 331 ignores the error of `File()` and leaves the socket
  out (`SocketKept`, `NoRequestCut`).

Met while modelling, without a property of their own:

* `task/task.go:605`: GracefulShutdown behind another stop request, or of a manager that is not started, never
  reports. `task.go:529`: when `changed` and the timer are ready together, `changed` may win and move every task
  past the occurrence that was due. A spec of the form `*/0` never ends its loop, and a task whose ErrLimit is 0
  divides by it when it fails.
* `sess_mem.go:108` and `:169`: creating an id twice leaves the first element in the list without an entry; the
  collector may remove a session that was refreshed after it was found expired.
* `sess_mysql.go:121` and `sess_postgresql.go:124`: a release updates a row and does not insert one. A handler that sets a value,
  destroys its session, sets another value and regenerates the id loses the second value.
* `ledis_session.go:170`, `sess_memcache.go:177`: SessionRegenerate of these providers loses the values of an id
  that is not there, or creates under the new id what expired in between.
* `filter/ratelimit/limiter.go:92` promises an excess of at most the capacity; after a pause a client gets one
  more, because the cut comes after the token is taken.
* `core/logs/log.go:320`: a writer between the check of `bl.outputs` and its send panics if Close closes the channel
  in between.
* `client/cache/memory.go:227`: `clearItems` deletes what was found expired earlier, including an item put since.
  `random_expired_cache.go:43`: a timeout of 0, forever, becomes the offset. `file.go:242`: Incr and Decr read and
  write the file without a lock, so concurrent ones are lost.
* `orm/orm.go:178`: ReadOrCreate reads and inserts in two statements; two clients may both insert.
* `migration.go:139` and `:175`: an error of Prepare, and one of reading the table, are not reported.
* `httplib.go`: a redirect with status 307 gets a reader that is used up; a second send after a failed one has the
  GET parameters twice; DoRequest followed by an accessor sends twice; ToFile does not truncate.
* `server/web/server.go:217`: in graceful mode the HTTP listener is opened with `net.Listen` and not taken from the
  parent, so that a child finds the address in use.

## 8. What is not modelled

In the modelled components:

* StmtCache: the path without a cache (`StmtCacheSize` 0), a direct call of `database/sql`.
* ORM: SQL text and the differences between databases; grouping, ordering and index hints; operators beyond one
  truth value per expression and row; embedded structs, multi-column indexes, rel_through and rel_table; isolation
  weaker than serial; the text of DDL statements in migrations.
* TaskManager: `Prev` and the remembered errors of a task, the timeout context. Schedule: names of months and
  days, refused specs, daylight saving.
* BeeLogger: levels, formatting, DelLogger; use of a logger after Close, other than the panics it causes.
  FileLog: rotation by size and by hour, which is the same code with another unit.
* MemSession: the values in a session store, which have a lock of their own. SessionManager: failures of a store
  other than a missing key, connection settings.
* Router: "*.*", suffix extensions, regular expressions other than `:id:int`, prefixes with parameters, reflection
  on controllers. WebPipeline: reading of input, cookies, templates.
* Configurations: block comments, Strings, GetSection, Unmarshaler, OnChange; parsing of json, yaml, xml and toml.
* RateLimit: other bucket implementations; `rate <= 0`, which switches the limit off.
* MemoryCache: Incr and Decr; several keys (keys do not interact in the adapter).
* HttpClient: headers, cookies, transport settings, compressed answers.
* GraceServer: TLS, where the listener is not stored in `srv.ln`; user hooks and shutdown callbacks; HttpServer.Run.

Components without a module:

| Component | Reason |
|---|---|
| SQL text and drivers | text for a database; what makes it right is the meaning of SQL |
| ORM field types and conversions | accessors for each kind of column |
| Filters of the HTTP client and the ORM | functions around one call; their place in the chain is in OrmFilter and HttpClient |
| Other log adapters, formatting | one external write per message, text |
| Server start-up | sequential, once, before the first request |
| Context, rendering, errors | state of one request used by one goroutine, conversions of text, reflection |
| Admin pages, statistics, task commands | show what other parts hold |
| Other web filters, captcha images | functions of one request |
| Other configuration sources | the environment and etcd hold their own state |
| Validation, beans, utilities, errors, admin commands | sequential functions of their input, or a map under one lock |

## 9. Plan

Done: the modules of section 2, in the order StmtCache and its proofs, TaskManager, BeeLogger, MemSession,
RateLimit, MemoryCache with CachePatterns and their proofs, GraceServer; then the ORM (OrmCrud, OrmQuery, OrmRead,
OrmFields, OrmRegistry, OrmFilter, Migration), SessionApi and SessionManager, the web server (WebPipeline,
RouterTree, WebRegister, StaticFiles, Captcha), and Schedule, IniConfig, TreeConfig, FileLog, CacheAdapters,
HttpClient.

The theorem worth proving next is WebRegister's `Reachable`: a route that was placed stays in the tree it
was placed in.

Modules worth adding: GraceServer with HttpServer.Run as a second way to start, and TLS; Incr and Decr of the memory
cache; `conn` and `multifile` of the log adapters.
