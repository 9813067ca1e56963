# grannos: a verification project

`grannos` is a server for database clients. It reads requests as lines of JSON
on stdin, runs them against databases through drivers, and writes responses and
progress notifications to stdout. It is one process with one asyncio event
loop; many requests are in flight at once, several of them on one connection.
This directory holds TLA+ models of it, TLC configurations that check them, and
proofs checked by TLAPS. Paths below are relative to `src/grannos/`.

## Inventory

| Component | State | Operations | Talks to |
|---|---|---|---|
| Request framing, `server.py` 191-221 | the stream's buffer | read a line, skip an oversized one | stdin, the read loop |
| Request lifecycle, `server.py` | table of tasks by request id, one task per line | read, handle, cancel, respond, end of input | dispatcher (await), stdout (lock) |
| Dispatcher, `dispatcher.py` | store of connections; per connection a semaphore and an idle watchdog | connect, disconnect, one handler per method, reconnect-and-retry | drivers (await), the server (exceptions, progress callback) |
| Explore cache, `explore_cache.py` | per connection a tree of lists, describes and finds; a JSON file shared by connections with equal parameters | list, describe, find, reset, load, persist | the wrapped driver, the file system |
| Symbol search, `explore_find.py` | a budget of list calls, for the length of one search | resolve templates against the tree | the driver's `explore_list` |
| PostgreSQL, Oracle, SQL Server drivers | the session, remembered settings, a catalog cache per connection | execute, copy / LOAD, explore, reconnect | the database |
| SQLite, DuckDB, Neo4j, MongoDB, Elasticsearch, Prometheus drivers | the client object | execute, explore | the database |
| S3 driver, `drivers/s3.py` | the client object | shell-like commands; copy, move and delete of many keys | the object store |
| Base driver, `drivers/base.py` | a bounded cache of large values by reference | register, download | every driver |
| Diagram, `diagram/` | none | foreign-key graph, layers, placement, routing, drawing | `explore_describe` |
| Protocol, logging, tables, command line | none | decode, encode, format | all |

Hard in this system:

* **Order on one event loop.** Every `await` is a place where another request
  runs. What can happen between two of them is decided by the loop's queue.
* **Cancellation.** A `cancel` line may hit its target before its first step,
  while it queues for a slot, between being given the slot and running, inside
  a reconnect, or after it has ended.
* **Lost connections.** A request that finds its session gone reconnects and
  runs again, while others use, or reconnect, the same driver.
* **The idle watchdog.** It is stopped, restarted and may fire while requests
  come, wait, end and are cancelled.
* **Caches.** Results are stored after an await, copied under several keys,
  reset by other requests, and written to a file that others write too.
* **Failures part-way.** A setting rejected in the middle of several, a write
  of the cache file that fails, a process that ends between two steps, a move of
  many objects of which some are copied and none is deleted yet.
* **Nine trees.** Every driver has its own explorer: what it lists, finds,
  describes, previews and shows of a foreign key comes from different queries,
  and each has to agree with the others, while other sessions change what is
  there.

What makes each component correct: framing gives each line one outcome however
its bytes arrive; each line gets exactly one answer, and `cancel` reaches the
request it names and no other; a connection's slots are conserved and served in
order, and its session is closed when it is idle and only then; nothing read
before a reset, or before a statement that changed the catalog, is served after
it; a session has the settings its user gave it; diagrams show each table once; a
search finds what the tree holds, what it finds can be described, and a
description is the same from the cache; no command on objects loses one.
`PROJECT.json` lists the hazards line by line with the properties that cover them.

## Modules

| Module | What it is | Lines |
|---|---|---|
| `LineReader` | `_read_line` and `_skip_line` over the stream reader, byte by byte | `server.py` 28-42, 86-119, 182-221 |
| `LineReaderProofs` | theorems about it | - |
| `RequestService` | what a client may rely on: an abstract specification with no event loop | - |
| `RequestServer` | the read loop, tasks, task table, cancellation, responses, end of the process | `server.py` 54-179 |
| `RequestServerProofs` | theorems about it, and that it implements `RequestService` | - |
| `ConnectionLifecycle` | one connection: semaphore, watchdog, retry, disconnect, cancellation | `dispatcher.py` 40-125, 147-180, 241-248, 404-478 |
| `ConnectionLifecycleProofs` | theorems about it | - |
| `ExploreCache` | the cache, its reset and its file, as the dispatcher drives it | `explore_cache.py` 82-400 |
| `ExploreCacheProofs` | theorems about it | - |
| `SqlSession` | a SQL driver: settings, LOAD, reconnect with replay, catalog cache | `drivers/oracle/driver.py` 235-486, `drivers/oracle/queries.py` 107-137, and the same in PostgreSQL's |
| `SqlSessionProofs` | theorems about it | - |
| `OracleLoad` | a LOAD: reading the file, batches, the second attempt, the transaction | `drivers/oracle/driver.py` 377-437, 487-512, `drivers/oracle/load.py` 65-84, 244-285 |
| `OracleLoadProofs` | theorems about it | - |
| `DiagramGraph` | a diagram's first stage, the walk along foreign keys | `diagram/graph.py` |
| `DiagramLayout` | extends it: hub, sides, columns, order of a column | `diagram/layout.py` |
| `DiagramPlace` | extends it: boxes, and the ladder of spacings that placement and routing are tried on | `diagram/place.py`, `diagram/__init__.py` |
| `DiagramProofs` | theorems about the graph, the layout and the placement | - |
| `ExploreAnswers` | what drivers answer (`protocol.py`) and the helpers they share (`drivers/base.py`) | `protocol.py`, `drivers/base.py` 360-425 |
| `SqlCatalog` | the dictionary of a SQL database and what all five SQL drivers list alike | `drivers/postgres/queries.py` |
| `SqliteTree`, `DuckdbTree`, `SqlServerTree`, `PostgresTree`, `OracleTree` | the explorer of a SQL driver: `FIND_PATHS`, `explore_list`, `explore_describe`, `explore_preview`, and Oracle's `explore_find` | the driver's file, and its `queries.py` |
| `Neo4jTree`, `MongoTree`, `ElasticTree`, `PrometheusTree` | the same of the others | the driver's file |
| `ExploreFind` | composes them: the walk of a search, and what the cache remembers of searches and descriptions | `explore_find.py`, `explore_cache.py` 82-196 |
| `S3Transfer` | `cp`, `mv` and `rm`, one call of the store a step | `drivers/s3.py` 170-253, 501-603, 668-686 |
| `S3TransferProofs` | theorems about it | - |
| `MC*` | the same modules with constants TLC can use | - |

Definitions carry the names of the code where they can; `PROJECT.json` maps
each to its lines. Operators marked *faulty variant* stand before the one they
vary and are used by nothing: put in its place, each is a plausible bug, and the
property named for it in `PROJECT.json` ("mutants") is then violated.

**LineReader.** `buffer` is the stream's buffer, `pc` says which of the two
functions is running, `out` is what the read loop has been given. A byte is a
newline, a digit or another; the id pattern is cut down to the digits at the
head of a line. Bytes only arrive while the reader waits, in chunks of any size
up to `MaxChunk`. `IdHead <= Limit + 1` holds for the defaults (256 and 16 MiB);
nothing in the code enforces it, and below it the id that is reported depends on
how the bytes arrive.

**RequestServer.** `ready` is the event loop's queue and every action is what
the entry at its head does until it suspends. That order matters: a cancel can
only end a task before its first step (and so without an answer) if it is ahead
of it in the queue. The awaits of one handler are taken as one suspension, and
what a cancelled driver awaits on its way out as a second (`"cleaning"`: a LOAD
puts the session's formats back). `threads` are the blocking calls of the
drivers that use an executor; a cancellation abandons such a call but does not
end its thread. The end of the process is `asyncio.run`'s: cancel what is left,
wait for it, join the threads.
Responses are events in the order they are written; progress notifications are
not modelled.

**ConnectionLifecycle.** `pc[r]` is how far request `r` is, `value` and
`waiters` are the semaphore's, `timer` the watchdog's task, `session` the
driver's backend session, `closing` the client's disconnect. `asyncio.Semaphore`
is modelled from its contract with its users: `release` hands the slot to the
first waiter, a waiter cancelled after that gives it back. The several describe
calls of an `explore.diagram` are taken as one call.

**ExploreCache.** A cached result is the database's version when it was read, so
that stale means older than a reset. Describing an entity stores its columns
and foreign keys too (`Entries`). A reset or a store changes the memory, and the
file is written by a second step (`WriteFile`, `WriteFails`): the event loop does
nothing else in between (`writing`), but the process may end there and the
database may change. `resets` and `saved` are history: the version at each
connection's resets and at those the file has. A call that had read an older
database when a reset ran has the path of that reset in its `late`, and what it
stores counts as missed by it: the one exception to `ResetReaches` and
`ResetOutlivesSession`.

**SqlSession.** A statement's round trip and what the driver does with its
answer are two steps, so that a cancellation, a lost session or another request
may come between. `job[r]` is a request with the locals of the coroutines it is
in. `attached` says whether the dict a catalog query will store in is still the
connection's: `invalidate_cache` drops the dict, so a late result goes to one
nobody reads. A statement with rows goes by way of "fetching" and invalidates
nothing. `job[r].opened` is the session the request's own reconnect opened, which
need not be the driver's any more. `overlapped` (a change of settings met another
one, or a reconnect) and the "cut" end of a request are history, for the
conditions under which settings are kept; reconnects that meet only each other do
not count as an overlap.

**OracleLoad.** A record of the file is how many lines it takes, how many fields
it has and whether the table accepts it; a record with no field is a blank line.
`at` and `batch` are the reader's and the loop's locals, which the second attempt
begins anew. `work` is the session's transaction, `table` what is committed,
both as sequences of the records' places in the file. `refused` is history: the
INSERT failed for no row of it, and the line in the error is the batch's first. A statement of another
request, or of the user afterwards, is a COMMIT or a ROLLBACK.

**Diagram modules.** `stage` is the step of `build_diagram` that comes next, and
each module adds the variables of its stage to those before, so that one run
goes through the pipeline. The loops are actions one round at a time where their
end or their order is in question (the walk, growing the sides, swapping, moving
tables apart, the ladder); sorts, sweeps and the nudging of boxes are operators.
`NudgeDown` and `NudgeUp` state the chain of pushes in closed form, which is what
the code's loop comes to as long as the boxes keep their gap, itself proved.
Sorting is `InOrder`, which puts each element where the number of smaller ones
says: what `SetToSortSeq` is, without TLC's `SortSeq`, of which nothing can be proved.
Node ids count from 1. `GraphAssumption` says that a reference in the answer about
a table is on the side it says it is, which is how `_iter_refs` and the drivers'
answers make it. A box is its size and the router an outcome: every edge
connected, or `NoRouteError`. A path is taken for the identity of its table,
which holds for drivers that report names as the catalog has them. SQLite reports
the table of a key as its DDL spells it: there `Parent` and `parent` become two
boxes, against `diagram/__init__.py` 4 ("exactly one box ... never twice").

**The trees.** Each is a module without variables: functions from a database to
what the driver answers about a path, `Nothing` for None and `Failure` for an
error. A SQL database is its tables with their columns, keys and rows, indexes,
foreign keys and, for Oracle, synonyms; the statements the driver sends are
modelled by what they select, bounds and filters included. Names are model
strings, and the ones that matter are told apart by operators: `Fold` and
`Upper` for case, `Bare` for names that a query can hold without quotes
(`PRAGMA` in SQLite, selectors in Prometheus, labels in Neo4j), `Routed` for the
names MongoDB's driver takes for GridFS. Values of rows are strings, and one of
them, of `Unwritable`, has no JSON. The type of a listed node is a string too:
"type" stands for the data type of a column, "method" for what PostgreSQL, SQL
Server and Oracle list an index by.

**ExploreFind.** One `explore_list` of a walk is a step, between any two of
which another session may alter the database (`version`); `pending` is what the
recursion of `_walk` has still to do. The cache is kept by path and by
`find_key`, with the version each was read at as history. `TreeAt` is every path
that the explorer shows, and `Wanted` tells from it, and not from `FIND_PATHS`,
what a search should find. Which listed type is of which kind is `IsKind`; it is
wider than `NodeType`, since what some drivers list is (see below).

**S3Transfer.** A key is a sequence of pieces of which "/" is one, because what
counts is what it begins with and where its slashes are; a file is a path of
segments. `todo` is the rest of the loop the thread is in, a set taken in the order
`Precedes`: keys are sorted as strings, paths by their segments. `attempt` is which run of
`_reconnect_and_retry` it is. `cancelled` does not stop the thread: it ends the
command after the call of `_run` it is in. `Lose` stands for
`EndpointConnectionError`, before or after the call had its effect, since boto
repeats calls whose answer is lost. S3 refuses to copy an object onto itself.

## Runs

| Run | Bounds | Shows |
|---|---|---|
| `MCLineReader` | all inputs of up to 7 bytes, limit 2, chunks of up to 3 | each line one outcome, in order, in any chunking; bounded buffer; the loop reaches the end |
| `MCServerFresh` | 3 lines, ids never reused | every line answered once; a cancelled request is answered unless its driver hangs in its own cleanup; end of input ends the process unless such a cleanup or a thread hangs; `RequestService` is implemented |
| `MCServerAnyIds` | 3 lines, 2 ids reused at will, unencodable results | cancel hits only requests that were named; a cancelled request never gets another answer |
| `MCServerRegistry` | 2 lines | **violated**: a request in flight may be missing from the task table |
| `MCConn` | 3 requests, 1 slot, 2 cancellations | slots conserved, the queue exact, order of service, every request ends, disconnect sticks; through one cancellation, an idle connection is watched and closed |
| `MCCache` | 1 connection, 2 requests at once, 5 paths, 3 calls, 1 change, failing writes, crashes | nothing cached before a reset gets round it, in the session or by the file, but for results it overtook |
| `MCCacheRace` | as `MCCache`, 5 calls, no failing writes | **violated**: a result fetched before a reset is stored after it |
| `MCSqlSession` | 3 requests, 2 at once, 2 parameters, 3 sessions, 1 cancellation | settings kept (outside overlaps and requests cut short), catalog cache current, retries on the session they opened configured |
| `MCOracleLoad` | every file of up to 4 records of 5 kinds, batches of 2, with and without header, SKIP, columns, unreadable text; one retry, 2 COMMITs or ROLLBACKs | no row is loaded twice or left out, an error names the line of the first bad row |
| `MCExplore` | one database of each of the nine drivers, in two versions; 5 list calls a search, 1 search remembered, 2 descriptions, samples of 2 | a search finds what was there all along and nothing that never was; what it finds is described; what the cache holds is what the driver answers; both ends of a foreign key agree |
| `MCS3Transfer` | 58 commands on 3 stores, batches of 2, one spot another program touches | `mv` loses nothing, and a command that succeeds did what it says and nothing else |
| `MCDiagram` | all schemas of 3 tables with up to 3 keys, all connected graphs of 5 tables, all trees and some graphs of 6, depth 3 for 20 | each table within reach is drawn once and joined to its neighbours, joined tables are apart, parts keep their side, swaps reduce crossings, boxes never touch and can be reached on every rung, every diagram ends |

The bounds are the least at which the interesting cases happen. Three lines are
a request, another that replaces the loop's local `req`, and a cancel. Three
requests on one slot are the least with two waiters; two cancellations are what
it takes to leave a connection unwatched. More slots, and several connections over one cache file, are left to the proofs. The tree of the
cache run has a path with an ancestor, a group, a descendant and a sibling. Seven
bytes hold two oversized lines, or one, a newline and a whole line. The trees of
six tables are the least that push a box up, and `Other` in `MCDiagram` holds the
least graphs that tell the walk from a depth-first one and need a second round of
moving apart; five tables are enough for swaps. Three
sessions let one reconnect close what another has just opened. Symmetry is used only where
no liveness is checked, over requests and parameters, which no definition tells
apart.

The databases of `MCExplore` hold two tables joined by keys, one from a unique
column, a self-reference, a table of the same name in another schema or in
another case, simple and composite indexes, an Oracle synonym, a GridFS bucket
with one of its halves, a hidden index, a metric no selector can hold. Between
the versions a table comes, goes or is renamed. Five list calls are fewer than
some searches need, so that the budget's refusal happens too. A session there
searches or describes, not both: neither reads what the other remembered. A
description is read in one step. Some searches of a driver differ only in the case
of their scopes, so that what one left in the cache answers the other. Four records of a LOAD make two batches behind a
skipped record or a header, with a bad row in either. The stores of `MCS3Transfer` hold a prefix and a
longer one beside it, doubled slashes, the marker object of a folder and files at
two depths; three objects and batches of two make a full batch and a partial one.

**Fairness.** The event loop always takes its next turn (`RequestServer`), a
request that can go on does, timers expire and driver calls return
(`ConnectionLifecycle`), and the bytes the client wrote arrive
(`LineReader`), the one coroutine of a diagram goes on (`DiagramPlace`; a describe
answers). asyncio gives the first two and the last but for the describe. That a database call ever returns
is not promised: `EveryLineAnswered` has it as a hypothesis. `CancelIsAnswered`
and `EndOfInputExits` do without, and say what they need instead: that what a
cancelled driver awaits in its own `finally` ends (`CleanupsEnd`), and for the
exit that executor threads return (`ThreadsReturn`), because the interpreter joins
them. A LOAD cancelled on a session that hangs, and a blocking call that never
returns, keep the request, or the process, alive. Nothing is assumed of the
client or of the backend dropping sessions.

### What the models showed

With a run:

* `server.py` 127: the done callback reads the loop's local `req` when it runs.
  Two requests, the first ends: the *second* leaves the table, and cannot be
  cancelled any more.
* `explore_cache.py` 86: a fetch stores its result after the await even if the
  path was reset meanwhile.

Without one. The first six are places where the models
have to state a condition, in the text of the property or in its formula:

* `explore_cache.py` 397: of two connections over one file, each writes its own
  memory, so what one has reset is in the file, and in the next session, again
  after the other's next store.
* `drivers/oracle/driver.py` 288 (PostgreSQL 197 likewise): `reconnect` publishes
  the new session before its settings are replayed. When two requests reconnect,
  the second closes the session the first has just replayed into, and the first
  is run again (`dispatcher.py` 416) on a session without settings, though the HELP
  (205) has them "automatically re-applied".
* `drivers/postgres/driver.py` 254 and `drivers/oracle/driver.py` 359: a statement
  that returns rows is answered before `invalidate_cache`, also if it was an
  `INSERT ... RETURNING` or a function that runs DDL; "Call after any DDL or DML",
  says `drivers/postgres/queries.py` 90.
* `explore_find.py` 112: scopes of a table and of a view stand at the same level of
  the templates, so that they widen each other, where `protocol.py` 171-173 says
  that scopes of different types all have to hold.
* `explore_cache.py` 195: the key of a search folds the case of its scopes, as
  "both resolvers" do; Oracle's does not (`drivers/oracle/driver.py` 1088). Two
  searches whose scopes differ in case share one entry, with whichever answer came
  first.
* `drivers/sqlserver.py` 264 and 299: tables are listed as "base table", indexes as
  "clustered" or "nonclustered"; PostgreSQL and Oracle list an index by its method.
  None is a `NodeType`, which `protocol.py` 97-98 calls the vocabulary of
  `explore.list`.
* `drivers/sqlite.py` 451, and the single-column samples of the other SQL
  drivers: a sample is answered as the database gives it, bytes too, though
  `base.py` 408-410 says such values are skipped. The description of a table with
  a BLOB column in SQLite or DuckDB cannot be encoded, its request gets no
  answer, and the cache file is not written again by that session.
* `dispatcher.py` 74: the countdown restarts when any request ends. A query
  longer than `idle_timeout` loses its session once a shorter one beside it ended.
* `drivers/oracle/driver.py` 398: the formats of a LOAD are applied one by one
  before the `try` that restores them. When the second is rejected the first
  stays on the session.
* `drivers/oracle/load.py` 261: SKIP drops records of the csv reader, where the
  help (`drivers/oracle/driver.py` 164) says "leading lines": a quote in a skipped
  line takes the lines up to the next one with it.
* `dispatcher.py` 416: a COMMIT that finds its session lost is run again on the
  new one and answers success, with nothing committed.

Conditions of the passing properties that the code itself does not guarantee;
removing them in the configuration gives a counterexample:

* `DoneIsAnswered` needs fresh ids, cancels that follow their request
  (`FreshIds`) and results that encode (`Unencodable = FALSE`). A cancel that is
  ahead of its target in the queue ends it outside `_handle`'s `try`, and
  `_send` encodes outside it: in both cases there is no response.
* `IdleIsWatched` stops at one cancellation: `__aenter__` stops the watchdog
  before it waits for a slot.
* `DisconnectSticks` needs an idle timeout: a request in flight reconnects a
  connection that was disconnected, and only the watchdog its exit restarts
  closes the session again.
* `ResetOutlivesSession` speaks of the connection that last wrote the file, and
  of its last write that succeeded: another connection writes the whole of its
  own memory, and a failed write is only logged, so that the
  next session has what the reset had dropped.
* `LineIsNamed` is about rows that are rejected. When the whole INSERT fails
  (`drivers/oracle/driver.py` 505) the message names a line as well, the first of the
  batch, which may hold a good row.
* `LoadIsOnce` excludes a COMMIT or ROLLBACK that runs while the LOAD does: it
  parts the rows, and if the session is lost after it, those it committed are
  loaded again.
* `SettingsFollow` excludes overlaps and requests cut short: a cancellation
  inside a replay or a LOAD leaves a live session with part of its settings.
* `RetryIsConfigured` is about the session the request's own reconnect opened, and
  excludes overlaps too.
* `FindIsExact` holds Oracle to the names it stores in upper case (`Upright`), which
  are those its own search finds however a client writes them, and takes tables and
  views for one kind, as scopes too: see `explore_cache.py` 195 and `explore_find.py`
  112 above.
* `FoundIsDescribed` is about names a driver's queries can hold (`Sound`).
  SQLite's `PRAGMA` names are not quoted: one table called `my-table` spoils the
  description of *every* table. Oracle looks the names of a path up in upper
  case: a table stored as `Mixed` is listed and found, not described; an index
  owned by another schema than its table's is listed, not described.
* `RememberedIsTrue` leaves out samples, which drivers with one query for all
  columns take differently for a single one, and columns with two foreign keys,
  whose last is remembered and whose first is described; `base.py` 256-264 asks
  for "the exact same" in both cases. Under Prometheus' `jobs` the targets of a
  description are remembered where the driver would describe a metric.
* `KeysSeenFromBothEnds` leaves out what SQLite's query for incoming keys does:
  a table's keys to itself, and keys that name no column.
* `MoveLosesNothing` and `DoneIsComplete` are about commands whose targets are
  apart (`Separate`) and objects the other program leaves alone (`Undisturbed`).
  Nothing may go to where the command takes from, whether it was there or the
  other program put it there, and the other program may not make or empty a
  directory at the path of a single download (`SameDirectory`): the target is
  asked whether it is one when the object is fetched. `mv --recursive`
  of a prefix that ends within a segment sends `d/a` and `da` to one key, and doubled
  slashes do the same to `d/a` and `d//a`: one of the two is lost. An object replaced after its copy is
  deleted unread, and a deletion the store refuses is reported as done.

What else reading for the explorer's trees and for S3 showed:

* Oracle's own search, which looks for a name as written and in upper case, does
  not prefer exact names either.
* PostgreSQL describes an index whatever table the path says; an index on
  `(a, lower(b))` counts as one on `a` alone. DuckDB's and Oracle's
  `CREATE UNIQUE INDEX` makes no column unique; only constraints do.
* A description of a table that is not there is an entity without columns, and
  is cached. A MongoDB collection called `gridfs` cannot be reached.
* `cp s3://a/ s3://b/ --recursive` gives every key a leading slash, against
  "preserving relative paths" (HELP), as the upload of a directory does not. A
  recursive download fails on the marker object of a folder. `Path` drops the
  slash of `./new/`, so that a download to it is a file `new`. `mv` that lost its
  connection after the deletion fails on its second attempt with the work done.
* A cancelled `rm` or `mv` goes on in its thread until the call of `_run` ends.

`EveryPairJoined` leaves out the pairs of two tables at `MAX_DEPTH`: both are
leaves, so neither's references are followed and the connector between them is
missing, though `diagram/__init__.py` 112 fails a diagram rather than draw it
without a relationship. And the branch of `_grow_balanced` that "shouldn't
happen" (`layout.py` 154) is taken by connected graphs as well: a side is walled
in when the other side has claimed everything next to it. The node it then gets
need not touch it.

## Proofs

`ConnectionLifecycleProofs` proves, for any finite set of requests, any
`MaxConcurrency` and any number of cancellations:

* `TypeCorrect`: `Spec => []TypeOK`, with the semaphore's counter in
  `0..MaxConcurrency`;
* `SlotsAreConserved`: free slots and slot holders add up to `MaxConcurrency`;
* `QueueStaysExact`: the queue holds exactly the requests inside `acquire`, once
  each;
* `FirstComeFirstServed`: no request overtakes one that waits (`NoOvertaking`).

The inductive invariant is `IInv`, the conjunction of the three state
invariants. None is inductive alone: the counter's bound needs the accounting
(`value + 1` stays within bounds because the request that leaves held a slot),
the accounting needs the queue to be exact (a woken waiter must be counted once,
and must have been waiting), and the queue needs its type. The proof has one
lemma for each way a request moves (`EnterKeeps`, `ExitKeeps`, `LeavingKeeps`,
`OthersKeep`, ...), each resting on lemmas about removing an element from a
sequence without duplicates and about counting woken waiters. The assumptions
are `LifecycleAssumption` (a positive `MaxConcurrency`, finitely many requests)
and nothing else. `NoOvertaking` follows from `IInv` and from the form of
`FirstPending`.

`RequestServerProofs` proves, for any number of lines, any ids, reused at will,
and results that encode or not:

* `TypeCorrect`: `Spec => []TypeOK`, the base of all that follows (proved only, no
  run repeats it);
* `NoBystanderIsCancelled`: `OnlyNamedAreCancelled`;
* `CancellationIsFinal`: `CancelIsFinal`;

and, under `FreshIds /\ ~Unencodable` (the conditions explained above):

* `EveryEndIsAnswered`: `DoneIsAnswered`;
* `ServerImplementsService`: `Spec => ImplementsService`, the refinement of
  `RequestService`: initial states map to initial states, every step to a step
  or a stutter.

What carries these proofs is the order of the event loop's queue, `QueueInv`:
the first step of a task that has not started is in the queue, before the step
of any task made later and before `Stop`; no step and not `Main` or `Stop` is in
it twice; `Main` is in it only while the loop reads, `Stop` only after; and the
steps in it are those of unfinished tasks. `TaskInv` adds that the table maps an
id to a request of that id, that an unfinished task has no answer and that only
requests are cancelled. `IInv` joins both to the type and the two cancellation
properties; each action's lemma says what it does to the queue (`Popped`,
`Pushed`, `PushedNew`, `Joined`) and to the tasks (`Moved`, `Appended`). The
second part adds `FInv`: with fresh ids a cancel line is read after the request
it names (`NamedLater`), hence, by the queue's order, runs after the request's
first step (`TargetStarted`), so that whatever is cancelled has started
(`CancelledStarted`) and is answered inside `_handle`'s `try`. `IInv` and `FInv`
were model-checked before they were proved.
The assumption is `ServerAssumption`, the types of the constants.

`ConnectionLifecycleProofs` also has `IdleConnectionIsWatched` (`IdleIsWatched`).
What makes it inductive is `WatchInv`: when the watchdog of a live, registered
connection is off, somebody will start it. That is a request that has its slot,
since `__aexit__` does it, or requests in the queue, one more than cancellations
can take out of it. With one cancellation a queue of two is enough, which is where
the bound of the property comes from.

`LineReaderProofs` proves `LinesRead` (`LinesAreExact`) and `BufferStaysBounded`
(`BufferIsBounded`) for every input and every chunking, from `ReaderAssumption`
(positive bounds, `IdHead <= Limit + 1`). The property compares what was read with
a function of the whole input, so the invariant is in the input's coordinates.
`BufferInv`: the buffer is the input's stretch from `Consumed` to `arrived`.
`CursorInv`: between two lines `Consumed` is at the end of a line, and as many
outcomes are out as lines have ended there; inside an oversized line (`InLong`)
there is a boundary behind which no newline comes up to `Consumed`, and `id` is
that line's head. `OutInv`: each outcome is that of its line. The lemmas under it
say what a line's end is and that outcome `n + 1` is the next line's
(`LineExpected`).

`ExploreCacheProofs` proves `ResetHolds` (`ResetReaches`) and `ResetOutlives`
(`ResetOutlivesSession`) for any tree, any calls, any number of connections over
the file and any concurrency, with failing writes and crashes. `CacheInv` adds to
the two properties that a call which has read the database is as new as every
reset on its connection but those that have overtaken it (`Current`): what it
stores is then fresh or counted as missed.

`SqlSessionProofs` proves, for any number of requests, parameters, sessions and
cancellations:

* `TypeCorrect` (`TypeInv`): the driver's session is the last opened, a request
  works on one that was opened, and a replay sets only what is remembered;
* `CatalogFollows` (`CatalogIsCurrent`), with `FetchIsCurrent`: what a fetch under
  way will store, where it will be read, is as new as every statement that has
  returned;
* `SettingsAreFollowed` (`SettingsFollow`), with `SettingsInv`: while no change of
  settings meets another or a reconnect (`Alone`), the driver's session is
  `Settled`: each parameter is right or some request still has to put it right
  (`Pends`: a replay, a SET not yet remembered, a LOAD that restores);
* `RetryRunsConfigured` (`RetryIsConfigured`), an action property, from the part of
  `SettingsInv` that stands when requests were cut short as well (`Replayed`): what
  a reconnect has not replayed is all that the session it opened is without, if
  that still is the driver's; and once it is done the session it runs on is
  configured, however many others reconnect.

`OracleLoadProofs` proves, for every file, options and batch size, `TypeCorrect`,
`LoadsOnce` (`LoadIsOnce`) and `ErrorNamesLine` (`LineIsNamed`). `OnceInv`: while the
LOAD runs, the transaction followed by the batch is every row read so far, in
order, and nothing of it is committed; a lost session takes all of it. `NamedInv`:
everything in the transaction comes before the first bad row, and of the rows read
only those of the batch can be bad; an INSERT that fails as a whole adds nothing. The assumption is `LoadAssumption`, the types
of files and options.

`S3TransferProofs` proves, for any store, names, commands and batch size, with
everything that can go wrong in the model, `TypeCorrect`, `MoveIsSafe`
(`MoveLosesNothing`) and `SuccessIsComplete` (`DoneIsComplete`). The argument is in
two parts. `WorldInv` is about the store as a whole: whatever is in it was there
at the start, is the other program's or lies at the target of something
(`Accounted`), the side the command does not take from loses nothing
(`RestStays`), and the target of a download stays a directory or not
(`DirectoryStays`), so that a key goes to the same place in both attempts. `WayInv`
follows each undisturbed source: it is whole at its own place or has arrived
(`Whole`), it has arrived once the thread is past it and before anything is
deleted, and what is still there is on the list or was refused (`OnWay`). Neither
is inductive alone: that nothing overwrites a source on its way needs
the first, and the first needs to know what is copied. Lemma `LoseWay` has the second attempt
start with all of `Whole` and nothing of `OnWay`, which is why `Whole` is
apart from it.

`DiagramProofs` proves, for any tables, any foreign keys and any `MAX_DEPTH`,
through all stages of a diagram, `TablesOnce` (`EveryTableOnce`), `PairsJoined`
(`EveryPairJoined`) and `EdgesTell` (`EdgesTellTheirKey`). `NodesInv`: ids and tables
are inverse to each other. `EdgesInv`: the pairs seen are those of the edges, one
edge each, and each tells its key; it needs `NodesInv` because an edge names its
tables by id. `WalkInv` is breadth-first search: the queue holds entries of the
level being expanded and then of the next, each table of the level is known, and
of a table that has left the queue every reference is followed or is still in
`todo`. That the table taken next may begin a new level (`NextKeepsWalk`) is where the
order of the queue counts: with a stack, the mutant, it is false. `Within` is a recursive
function; that it exists, and that levels only grow, is shown by looking at the
least number for which it would not (`LeastIs`, from the library's
`WFMin`), since the induction theorems cannot be used. `GraphAssumption` and the
types of the database are the assumptions.

From the same invariant it proves `EverySwapPays` (`SwapsPay`): `_kl_swap` never
swaps two nodes for nothing. The edges between the sides are those that belong to neither or
to both of the two nodes, which a swap leaves as they are, and those that belong
to one of them, which change over (`CrossingIs`). `EdgesInv` gives one edge for each pair, so
these are counted by neighbours (`AmongCounts`), as the code counts them, and the
edge between the two, which both balances count, is what the gain takes off again
(`BalanceIs`, `SwapPays`). `SideInv` adds that there are two sides and that all
nodes but the hub have one when swapping begins.

`LayoutHolds` is the invariant of the layout, `LayoutInv`, from which
`JoinedStayApart` (`JoinedAreApart`) and `PartsStay` (`PartsKeepTheirSide`) follow.
Its parts build on each other. `RootInv`: each node but the first is joined to an earlier
one, so that every node is reached from the hub and its distance is a positive number
(`DistanceIs`), hence its column is on its side of the hub (`SignedAre`). `HubInv`:
`adj` lists the neighbours by the edges. `PartsInv`: when the hub divides the rest,
joined nodes have one side, as they are in one component (`ComponentIs`,
`PartsAreDisjoint`) and each component is assigned as a whole (`LptIs`). `ColumnInv`:
a pass over the edges takes nodes away from the hub only, and each node it moves
further away than it was (`BumpIs`, `BumpedIs`); hence a pass that left every node in
its column found every edge's ends apart, as nothing it moved can have come back. `RowsInv`: each
column lists its own nodes, once each, which a sort keeps whatever the means it
compares; those are fractions, whose order has to be shown to be one
(`Fractions`, `SortIs`). A sort, a fold and a sum are folds of recursive functions:
that these exist, and what each step keeps, is shown from 0 up to the length
(`UpTo`, `StepsExist`), by a set with no least element that is missing from it.

`PlacementHolds` adds `PlacedInv`, from which `DistanceIsKept`
(`BoxesKeepTheirDistance`) and `BoxesCanAnchor` (`EveryBoxCanAnchor`) follow, for boxes
of any size that `SizeAssumption` allows: two borders with a line between them, and
the width of the borders of an empty name. `Stacks` are the rows of boxes in which each
box of a column is a gap below the one before it. The first rows are among them, being
sums of heights (`InitialIs`), and so are the rows after a nudge, whatever row is
desired and whatever the priorities: the room of a run of boxes can be split off at
either end (`SumSplit`, `RoomsAre`), so that of two neighbours that are pushed the
gap stays, and of two of which one is pushed it grows (`NudgeDownIs`, `NudgeUpIs`).
Barriers and priorities hence decide where boxes end up, and the order of a column
does not rest on them. That boxes keep their gap is also what the closed form of
`NudgeDown` and `NudgeUp` supposes. Across, columns follow each other by their widths and
channels (`ColumnXIs`), a channel has room for two stubs and a lane, and the margin is
longer than a stub.

Every inductive invariant above was model-checked before it was proved. Two
changes of the models came of it: the order in which local files are copied
(`Precedes`, before as strings), and the conditions `SameDirectory` and "nothing goes
where the command takes from" for what the other program adds, whose lack
made `DoneIsComplete` false once the run's other program wrote `g/b` on the disk.

Model-checked only:

* all liveness, and what needs `ENABLED`: out of the prover's reach;
* `ExploreFind` and the trees: the answers are data, computed by functions over
  functions of a database, and what they compute for every input is an induction
  over data.

## Not modelled, and why

* `connect`: a driver is created, then registered; a failure or cancellation
  between the two leaves a session nobody closes. Planned.
* Parameter checks, protocol decoding and encoding, logging, tables and the
  command line: no state, or only text.
* Running statements and translating queries (the drivers' `execute`), the rows
  and values they answer: wire calls against services that are not in the
  repository. Of the catalog queries, what they select is modelled and how long
  they take is not: a description is one step.
* The copying of PostgreSQL's COPY, and the table of large values: planned. What
  `parse_load` makes of a LOAD's text: no state.
* `ls`, `presign`, the explorer and downloads of S3: one reading call each. (The
  size of an inline download is checked on an earlier answer than its content.)
* What a diagram's boxes say, and the canvas they are drawn on: text.
* Two server processes over one cache directory: needs file semantics.

## Plan

1. *Done*: `RequestServer` with `RequestService` and `ConnectionLifecycle`, with
   their proofs, `ExploreCache`, `LineReader`, `SqlSession`.
2. *Done* up to placement: `DiagramGraph`, `DiagramLayout`, `DiagramPlace`. Left:
   `DiagramRoute`, the search for each edge, ripping up and retrying, and
   compaction (lines and boxes do not collide, anchors are not shared while any
   is free); and a run with two spellings of one table.
3. *Done*: the explorers of nine drivers, `ExploreFind` over them, `S3Transfer`.
4. `LobCache` (the bounded cache of large values, filled from executor threads),
   and `connect` in the dispatcher. *Done*: `OracleLoad`.
5. Theorems: *done* for `RequestServer`, `ConnectionLifecycle`, `LineReader`,
   `ExploreCache`, `SqlSession`, `OracleLoad`, `S3Transfer`, `DiagramGraph`,
   `DiagramLayout` and `DiagramPlace`. Left: an abstract specification of the
   connection's slots that `ConnectionLifecycle` implements.
