# MySQLOO: a TLA+ development

MySQLOO is a Garry's Mod module, written in C++, that lets Lua scripts talk to
MySQL servers without blocking the game. Every connected database has a thread
of its own that executes queries one after the other; all the rest happens on
the one thread that runs Lua. The code is in `src/src`: `mysql/` holds the
database, its queries and their execution, `lua/` the objects Lua sees. Paths
below are relative to the repository (`src/`).

This directory models the part in which two threads, a server and a network
meet, checks it with TLC and proves the central properties with TLAPS.

| module | what it is |
|---|---|
| `BlockingQueue` | the operations of `BlockingQueue<T>` on the queue's value |
| `Database` | queue, database thread, connecting, waiting, aborting, disconnecting |
| `DatabaseProperties` | what is claimed of `Database`, with the refinement mapping |
| `QueryLifecycle` | abstract specification: what a database promises for a statement |
| `Transaction` | `runQuery`, its retry, transactions and the server's session |
| `PreparedQuery` | prepared queries, the statement cache, the connection handle |
| `LuaDatabase` | the Lua side: think, nested callbacks, references, garbage collection |
| `LuaResults` | Lua queries and transactions: shared data, result sets, the cached tables |
| `MCDatabase`, `MCTransaction`, `MCPreparedQuery`, `MCLuaDatabase`, `MCLuaResults` | instances for TLC, with symmetry sets where they are sound |
| `BlockingQueueProofs`, `DatabaseProofs`, `TransactionProofs`, `PreparedQueryProofs`, `LuaDatabaseProofs`, `LuaResultsProofs` | lemmas and theorems |

`PROJECT.json` maps each definition to the lines it models, and lists the runs,
the mutant of each property, the hazards and the findings.

## 1. Inventory

### Components

**BlockingQueue** (`src/BlockingQueue.h`). State: a deque under one mutex, with
a condition variable for `take`. Operations: `put`, `take`, `swapToFrontIf`,
`removeIf`, `clear`. Correct if nothing is lost or doubled and the order of
what stays is kept.

**Database** (`src/mysql/Database.cpp`). State: `queryQueue` and
`finishedQueries`; `m_status`, `m_success`, `m_connectionDone`,
`startedConnecting`, `disconnected`; `m_waitingQuery` and `m_canWait` (who is
asleep in `wait()` and whether anybody still may); the handle `m_sql`; the
statement cache. Mutexes: `m_connectMutex`, `m_queryMutex`, `m_queryWaitMutex`,
`m_statementMutex`. Operations of the Lua thread: `connect`, `wait`,
`enqueueQuery`, `waitForQuery`, `abortAllQueries`, `ping`, `disconnect`,
`escape`, `setCharacterSet`. Operations of the database thread: `connectRun`,
`run`, `runQuery`, `attemptReconnect`. Correct if each statement is executed
once, in order, and reported truthfully; if every call returns; and if nobody
uses a handle or a statement that is gone.

**IQuery, IQueryData** (`src/mysql/IQuery.cpp`). A query object may be started
many times; each start builds an `IQueryData` with a status, a result status
and a finished flag, which both threads write. Operations: `start`, `wait`,
`abort`, `isRunning`, `finishQueryData`.

**Query, ResultData** (`src/mysql/Query.cpp`). Sends text, stores result sets.

**Transaction** (`src/mysql/Transaction.cpp`). Runs its queries with autocommit
off, commits or rolls back, and gives each of them a status and a result.
Correct if all or none of the queries take effect, if what is reported took
effect, and if the session is clean for whoever comes next.

**PreparedQuery, StatementHandle** (`src/mysql/PreparedQuery.cpp`,
`StatementHandle.h`). Parameter sets, one cached statement per query object,
shared with the database's cache. Correct if each statement is closed exactly
once, by the database thread, whatever fails.

**PingQuery** (`src/mysql/PingQuery.cpp`). Tests the connection and reconnects.

**LuaDatabase, LuaIQuery** (`src/lua`). The Lua API of databases and queries;
`think` delivers connection events and query results as callbacks, from which
Lua may call into the module again. State: `m_tableReference`,
`m_hasOnDisconnected`, `m_dbCallbackRan`; for each started data the references
to its query's table and callbacks; the queries' `m_databaseReference`. Correct
if each start gets one end callback, if nothing a callback needs is collected
before, if everything is collected afterwards, and if each reference is freed
once.

**LuaQuery, LuaTransaction, LuaPreparedQuery** (`src/lua`). What a callback sees.
State: `callbackQueryData` and the cached table `m_dataReference` of a query,
`m_addedQueryData` of a transaction, which every start of the transaction uses
again. Correct if a callback sees the results of its own data, and none that the
database thread is writing.

**LuaObject, GMModule** (`src/lua`). Registration, metatables, protected calls,
the Think hook (on every frame: `think` of every database), a version check over
HTTP.

**Lua libraries** (`lua/`). A connection pool and two wrappers of the API.

### How they interact

Lua calls `start`: the query builds its data, which goes into `queryQueue`. The
database thread takes it, executes it, puts it into `finishedQueries`, sets it
finished and wakes who waits. The Think hook, or a blocking call before it
returns, takes the results and runs the callbacks, after which
`finishQueryData` ends the run. A null pair in `queryQueue` (the *poison pill*,
put by `disconnect`) ends the thread. A lost connection is repaired while a
query runs: `runQuery` reconnects and executes it a second time.

### What is hard

- `wait`, `ping`, `disconnect(true)`, `Database::wait` and garbage collection
  block the game's thread on a thread that may be connecting, executing,
  blocked in `take` or ending.
- The data's status is written by both threads, and `start`, `abort`,
  `abortAllQueries`, `wait(true)` and `take` race on the queue.
- The connection may be lost at any request, also between the server's commit
  and its answer; the retry executes again what may have been executed.
- Session state (autocommit), statement handles and the connection handle
  outlive the query that created them, and the connection they belong to.
- Statement handles are dropped by garbage collection on one thread and closed
  on the other.
- `think` runs inside callbacks of `think`, since every blocking call ends with
  one; a frame holds results while an inner one delivers others.
- References are freed in one place and tested in another, and the connection
  may change between two tests of the same `think`.
- Data are shared: between a transaction and its queries, between two starts of
  the same transaction, and through a table that is cached per query.

`hazards` in `PROJECT.json` lists each of these at its line with the properties
that watch it.

## 2. The models

### Database

State and names follow the code. `queryQueue` and `finishedQueries` are
sequences. Each start of a query builds a new datum, numbered in the order of
building (`Data == 1..MaxData`); `owner` is the query object it belongs to,
`Ping` for a `PingQuery`. `Null` is the null pointer: no datum in
`m_waitingQuery`, and the pill in the queue. `running` is the union of all
`runningQueryData`. `outcome`, `pills` and `cut` are history: what became of a
datum, how many pills were put, and the first datum built after the first
disconnect.

An action is one critical section, or one access to a shared atomic. Calls that
block or touch shared state more than once are cut into several actions;
`pc` says where main is, `thread` where the database thread is:

| code | actions |
|---|---|
| `IQuery::start`, `enqueueQuery` | `Start`/`PingStart`, then `SetWaiting`: the datum is in the queue before its status is set |
| `IQuery::wait`, `waitForQuery` | `Wait`, `SwapToFront`, `WaitForQuery` (to the sleep on the condition variable), `Wake` |
| `ping` | `PingStart`, the steps of `wait(true)`, `PingEnd` |
| `IQuery::abort` | `Abort` copies the running data, `AbortOne` removes one of them |
| `abortAllQueries` (C++ and Lua) | `AbortAll` |
| `think` | `ThinkHook` (each frame) and `Think` (before a blocking call returns), then `FinishData` for each result |
| `connect`, `Database::wait` | `Connect`; `ConnectWait`, `ConnectTest` |
| `disconnect`, `onDestroyedByLua` | `Disconnect`; `DisconnectWait`, `Join`; `Destroy`, `Destroyed` |
| `connectRun` | `LockConnect`, `ConnectionDone`, `SetConnectionStatus`, `SetServerInfo` or `FailClose`, `CloseConnection`, `ResetStatus`, `ThreadEnd` |
| `run` | `Take`, `SetRunning`, `RunQuery`, `PutFinished`, `SetFinished`, `NotifyAll` |

Main is the most general client: when it is not in a call it may make any call
in `Api`, also while it holds results whose callbacks have not returned (a call
from inside a callback). Condition variables may wake without a notify
(`SpuriousWakeup`). `Faults` says whether a connection attempt (`"connect"`) or
`mysql_init` (`"init"`) may fail. `runQuery` is one step here with either
result; `Transaction` and `PreparedQuery` look inside.

`QueryLifecycle` is the abstract specification: a statement is accepted, then
either aborted, or executed (one at a time) to one result. `DatabaseProperties`
maps each datum to its stage, and `Database` implements it
(`ImplementsLifecycle`, checked in `core` and proved). `LuaResults` implements it
too, so both models of the same thread keep the same promise to what is above
them: there the stage is read off `m_resultStatus` and `finished`, as Lua does,
and not off history.

### Transaction

An action is one request to the server (or the code between two requests), for
`runQuery`, `Transaction::executeStatement` and `Query::executeStatement`. The
server's session is `link` (the connection is up), `autocommit`, `pending` (how
often each statement was executed in the open transaction) and `committed` (how
often for good). Turning autocommit on commits an open transaction, as MySQL
does; a lost connection discards it; a new connection starts in autocommit mode.
`Faults`: the connection is `lost` before the server acts, the `answer` is lost
after it acted, the server answers with an `error` (retriable or not), the
`reconnect` fails, and an `exception` that is not a `MySQLException` is thrown
while results are stored (the out-of-memory case `runQuery` has a handler for).
Such an exception passes the catch block of `executeStatement`, so that there is
neither a rollback nor autocommit afterwards; `foreign` is history and says that it
happened. `results` counts result sets, also those that a plain query keeps from
its first attempt. A query of several statements (on by default) and a `CALL` may
fail in the loop over their result sets, when the server has executed a part of them
and perhaps a result set was stored: `Interrupted`, in a transaction and outside.
Outside, what was executed stays. `unanswered` counts executions whose answer was
lost, `partial` the plain queries' attempts that were interrupted; `Unreported` is the
sum, and the properties compare everything else with what is reported. The effect of
one statement and that of several are not told apart.

### PreparedQuery

From the moment the database is connected: parameter sets and their copy into
the data, `executeStatement` for each parameter set, the statement cache with
its two sets `cachedStatements` and `freedStatements`, `runQuery`'s reconnect
and retry, `ping`'s own reconnect, `escape` and `setCharacterSet` with the
mutexes that protect `m_sql`, garbage collection of query objects, and the end
of the thread. `caching` and `autoReconnect` can be set only before
`connect()`, so `Init` chooses them.

`m_statementMutex` is held throughout every operation on the cache but
`freeStatement`, which tests `isValid` before it locks; that is the only
operation that is split (`Collect`, then `MainFree`). A `MYSQL_STMT` is its
address, and an address is free again once it was closed, so that a second
close would hit a stranger's statement. `detached` are the statements whose
connection has been closed (the client library then answers `CR_SERVER_LOST`).
A Lua object cannot be collected while one of its data is on its way to a
callback (`m_tableReference`), which `Running` states. `blame` is history: it
records whether what makes the current query fail is the server's doing.

The put and the swap of `ping` are one step here (`Database` has them apart),
and `abort` is left to `Database`.

### LuaDatabase

Lua is one thread with a stack: `stack` holds a frame for each call of Lua that
has not returned, with the place it is in (`at`), the object whose method runs
(`self`), the data it has to finish (`todo`) and the one it waits for (`d`). A
callback is a place in a frame; while the last frame is in one, the script may
make any call, which pushes another frame, up to `MaxDepth`.

| code | actions |
|---|---|
| `query`, `prepare`, `createTransaction` | `CreateQuery` (with `m_databaseReference`) |
| `start`, `referenceCallbacks` | `Start` |
| `wait` of a query, of the database, `disconnect(true)` | `Wait`, `WaitForQuery`; `ConnectWait`; `Disconnect`; then `Unblock` |
| `abort`, `abortAllQueries` | `Abort`, `AbortAll`, both `RunAborted`; then the callbacks of the frame |
| `connect` | `Connect`, also a second call, which changes the object before it throws |
| `think` | `ThinkHook` or the end of a blocking call, then `ThinkConnection`, `ConnectionReported`, `ThinkTake`, `RunCallback`, `CallbackReturns`, `NoMoreCallbacks`, `ThinkDisconnected`, `OnDisconnectedReturns` |
| `runCallback`, `finishLuaQueryData` | `RunCallback`, `CallbackReturns` (`FinishLuaQueryData`) |
| `__gc` | `Collect` of a query; `CollectDatabase`, `Destroyed` |

A reference is `"zero"`, `"live"`, or `"freed"` if it was freed and its number was
kept. `misuse` becomes `"use"` or `"free"` when a freed one is pushed or freed
again, and nothing is modelled after that, since Lua hands the number to somebody
else. An object may be collected when neither the script (`held`, `dbHeld`), nor
a frame, nor a live reference has it. `Fields` are the callbacks the script has
set. The database thread moves between any two steps of Lua, in four actions of
its own (`EndConnecting`, `Take`, `Execute`, `EndThread`); `Database` has its
critical sections. `m_status` and the ping are left to `Database`, and
`abortAllQueries` with a pill in the queue, which ends the process, is not
entered here.

### LuaResults

Queries and transactions with the data they build: `AddQuery`, `ClearQueries`,
`StartQuery`, `StartTransaction`, `Wait`, `Abort`, and `GetData`,
`GetNextResults` at any time. A data that `addQuery` has built is used by every
start of the transaction (`m_queries`). The database thread stores result sets
one query after the other (`Begin`, `ExecuteMember`, `Commit`, `Fail`, for a plain
query `Execute`). A result set is its number in the execution, and 0 is the empty
one of a failed query; a table is a data and the result set it was made from, so
that a stale table is told from a fresh one. `RunSuccess`, `OnDataReturns`,
`RunTransactionSuccess`, `RunError`, `RunAborted` and `CallbackReturns` are the
callbacks with what they do to `callbackQueryData`, `m_dataReference` and
`runningQueryData`. `advanced` is history: `getNextResults` was called in `onData`.

`thread` says whether `connect()` was called and whether the thread has ended
(`Connect`, `EndThread`), and so what `m_canWait` is. `Wait` sleeps while the thread
is there and otherwise fails the datum (`FailWaitingQuery`), be it queued, finished or
a member of a transaction; `EndThread` does the same to the datum `wait()` sleeps on.
`failed` is history: the stage a datum had when that happened. A failed datum may come
to `think` twice, or without ever having been started (a member): `RunUnreferenced`
is a callback that finds `m_tableReference` zero. `mysql_init` does not fail here.

`wait()` calls `think` before it returns; here other steps may come before those
callbacks, so every order of the code is there and some more. One callback runs at
a time here; nesting is in `LuaDatabase`, and the retry in `Transaction`.

### Assumptions about what is not in the repository

The MySQL client library and server are modelled from their use. A rollback and
a change of the autocommit mode fail only if the connection is lost. Result
sets are counted, not looked into. `generateMysqlBinds` cannot throw: a
parameter is stored under its own index, which is what it compares. Query objects are the ones
Lua can create, whose data start as `QUERY_COMPLETE`.

## 3. What TLC checks

Passing runs (distinct states, time with two workers):

| run | size | what it shows |
|---|---|---|
| `core` | 849k, 40 s | all calls; `TypeOK`, `NoQueryForgotten`, `WaiterIsKnown`, `NoMutualWait`, `ImplementsLifecycle`, `WaitSeesConnection` |
| `order` | 393k, 10 s | without swaps: `TakenInOrder`, `DisconnectDrains` |
| `calls` | 207k, 90 s | under fairness: `CallsReturn`, `QueriesEnd`; with only `wait(true)`: `SwappedIsNext` |
| `tx` | 437k, 45 s | every fault, under fairness: `SessionClean`, `AllOrNothing`, `EffectAsReported`, `AtMostTwice`, `MembersReported`, `PlainResults`, `RunEnds`, `TypeInvariant` |
| `stmt` | 2.5M, 70 s | `TypeOK`, `ClosedOnce`, `StatementsFreed`, `AppliedAsGiven`, `ErrorsAreReal`, `ConnectionKept` |
| `think` | 5.4M, 2 min | nested calls: `KeptAlive`, `CallbackIsComing`, `EndsOnce`, `SecondCallbackIsNested`, `ReferencesSound` |
| `collect` | 73k, 30 s | under fairness: `ConnectionReportedInTheEnd`, `DisconnectReported`, `EverythingCollected`, `TypeOK` |
| `results` | 1.3M, 160 s | `NotWrittenWhileShown`, `OwnResults`, `NoStaleTable`, `RunningIsOutstanding`, `WaitIsAnswered`, `ImplementsLifecycle` |

Bounds, and why they are enough:

- `core`: two data and two pills. Two data are the least for which one is
  waited for while another is executed, swapped or aborted, and for a ping
  beside a query; two pills let a disconnect follow a disconnect or a
  destruction. `order` has three data, so that one is removed from the middle of
  the queue. `calls` has one query object (liveness rules out symmetry) with
  two data, so it still has a ping or a second start beside the one that is
  waited for.
- `tx`: two transactions of two queries and a plain query: a transaction can
  leave its session to another one and to a plain query, and fail in the middle.
  The retry doubles every attempt.
- `stmt`: two queries and two statement addresses (the least for an address to
  be used again by another query), four calls and two faults: a lost
  connection and a failure of the retry.
- `think`: two data and three frames: a callback of one data, in it a call that
  delivers the other, in whose callback there is a third call; one query, since
  the frames tell data apart and not queries. Both connection callbacks that
  share `m_tableReference` are set.
- `collect`: one data and two frames, enough for a query that outlives the
  script's interest in it and for a call from a callback.
- `results`: two queries, one transaction, three data, two result sets: a
  transaction of two queries, or of one query twice, or a query beside a
  transaction of one; a transaction that is started twice shares one data.
  `wait()` fails one datum (`MaxFailed`), which may be any of them, in any stage;
  a failed datum affects others only as a member of a transaction.

Deadlock is checked in the runs of `Database` and `LuaDatabase`: `NoMutualWait`
says why there is none in the first, and in the second a call that blocked for
ever would be one, once the thread has nothing to do and nothing is collected. The other three
specifications may stop, because a finite set of transactions, calls or data is
used up, so their cfgs turn deadlock checking off.

Fairness. In `Database`: weak fairness of the database thread and of main inside
a call, since the operating system schedules both; that a statement or a
connection attempt ends is up to the client library and the server. Strong fairness of
the Think hook and of finishing a result, since the hook runs on every frame for
as long as the game does and runs every callback it took, however often Lua makes
other calls in between. Starting calls is not fair. In `Transaction`: weak
fairness of the steps of `runQuery`, since every request is answered or fails. In
`LuaDatabase`: weak fairness of the database thread and of C++ inside a call,
strong fairness of a callback's return and of the Think hook, for the same reason as
above, and of each collection: Lua's collector comes round in the end, and
what a script can still take hold of in between is not collectable at that
time. `LuaResults` has no fairness: `WaitIsAnswered` says that there is always
somebody to answer a `wait()`, and that this then happens is `CallsReturn` of
`Database`.

Each property of a passing run has a mutant of the model, a plausible slip in
the code, under which TLC finds it violated (`mutants` in `PROJECT.json`; the
mutated forms stand next to the originals, marked "Mutant").

### Disagreements between the code and its comments or documentation

Runs that TLC must find violated:

| run | property | what happens |
|---|---|---|
| `abortall` | `AbortAllReturns` | `abortAllQueries()` after `disconnect()` gets the pill among the aborted queries and follows its null pointer |
| `leak` | `AllStatementsFreed` | with caching on, a statement whose prepare fails is neither cached nor closed |
| `exclusive` | `ConnectionExclusive` | the thread closes statements without `m_queryMutex` while main, holding it, changes the character set on the same connection |
| `doublefree` | `ReferenceFreedOnce` | the connection fails and its thread ends between two tests of one `think`; `onDisconnected` frees `m_tableReference` without zeroing it, and the next `think` uses it |

Seen while modelling, without a run of their own:

- `connectRun` returns without `abortWaitingQuery` when `mysql_init` fails
  (line 391): a `query:wait()` at that moment never returns. Hence the
  theorems on blocking assume `"init" \notin Faults`.
- `enqueueQuery` sets `QUERY_WAITING` after the query is in the queue; the thread
  may have completed it by then, and `status()` in the callback says waiting.
- `wait(true)` on a query started after `disconnect()` swaps it with the front: it
  passes the pill and the old front lands behind it and is not executed.
- `wait()` after the thread has ended overwrites the result of a query that has
  succeeded and not been reported yet (`onError` is called for what took effect),
  and puts it into `finishedQueries` a second time. `EndsOnce` and
  `SecondCallbackIsNested` say what that can lead to: the second callback comes only
  inside the first. `ImplementsLifecycle` of `LuaResults` follows a datum until
  `wait()` fails it.
- An exception that is not a `MySQLException` leaves
  `Transaction::executeStatement` without a rollback and with autocommit off. The
  properties about sessions and effects hold until the first one (`foreign`).
- If the answer to a commit is lost, the transaction is executed again, or
  `onError` is called although it is committed. `EffectAsReported` counts these.
- A query of several statements outside a transaction may fail in the loop over its
  result sets, after the first statements took effect: `onError` is called for
  something that happened in part, and if the connection was lost the retry executes
  it from the beginning. `EffectAsReported` counts these attempts too (`partial`).
- `m_connectionDone` is published before `m_status`, so `onConnected` may run
  while `db:status()` still says connecting.
- `ping()` before `connect()` returns at once and leaves its datum queued; it is
  executed later and reaches `think`.
- `wait()` before `connect()` fails a query that stays in the queue. Its `onError` runs
  and `isRunning()` becomes false, yet the thread executes it after `connect()`, and
  writes the data that `getData()` and `lastInsert()` now look at; a query can be
  aborted, without a callback, after its `onError`. The same goes for the queries of
  a transaction that was failed so. These data (`Disowned`) are the second exception
  in `NotWrittenWhileShown` and `RunningIsOutstanding`, and the failed query of
  a transaction one in `OwnResults`.
- `onConnected` that calls `disconnect(true)` runs `onDisconnected` inside itself,
  and both free `m_tableReference`. A second `connect()` throws, but not before it
  has changed `m_hasOnDisconnected` and perhaps created a reference nobody frees.
  `ReferencesSound` excepts both (`disorder`).
- `query:wait()` on a member of a started transaction does not return before the
  connection ends: the member is neither queued nor set finished.
  `transaction:start()` twice shares the data of the members, which main may read
  while the thread writes them. Both are exceptions in the properties of
  `LuaResults`.
- `getNextResults` in `onData` frees the table that the copy `dataReference` in
  `runSuccessCallback` still names, so `onSuccess` gets whatever the number refers
  to by then.
- `getData()` shows the data of the last callback. After an abort, and between a
  start and its callback, these are rows of an earlier run; the repository's
  README says nil if the query was aborted. `hasMoreResults` likewise.
- After a ping has reconnected, cached statements belong to a closed connection;
  without autoreconnect each fails once. A character set chosen before a
  reconnect is not chosen again.
- A plain query that is retried keeps the result sets of its first attempt, which
  may have stored some and then failed (`PlainResults` bounds them).

## 4. What is proved

All theorems hold for every value of the constants, in particular for any number
of queries, data, transactions, statements, faults and nested calls. Each
invariance theorem is shown from `Init => Inv` and `Inv /\ [Next]_vars => Inv'`,
action by action. Every listed property but the types of `LuaResults` is also an
invariant or property of a passing run.

**`BlockingQueueProofs`** has lemmas on what `put`, `take`, `swapToFrontIf` and
`removeIf` do to the type, the elements, the length and the absence of duplicates
of a queue. `removeIf` numbers the elements it keeps by their rank;
`GreatestNatLemma` supplies the greatest kept index below a bound, from which
`RemoveLemma` gets the previous kept element.

**`DatabaseProofs`**

- `TypeCorrect` (`TypeOK`). `BaseInv` adds which call main is in and with which
  datum (`MainInv`), that the thread has a datum in hand exactly between `Take`
  and `SetFinished` and has been started exactly if `startedConnecting` holds
  (`ThreadInv`), and that only data that were built are queued (`QueueInv`);
  without these `status[arg]` and `status[cur]` would have no type.
- `WaiterAlwaysKnown` (`WaiterIsKnown`) and `NeverMutualWait` (`NoMutualWait`),
  if `mysql_init` does not fail. The argument: `m_canWait` is true only while the
  thread has yet to pass `abortWaitingQuery`; a sleeper's datum is in
  `m_waitingQuery` until it is finished; and a datum that is not finished is
  queued or in the thread's hands, so the thread does not block in `take` on an
  empty queue. These are `WaitInv`, `UnfinishedInv` and `BlockInv`, which need
  each other and are proved together.
- `NeverForgotten` (`NoQueryForgotten`): `ReportInv` says that what is finished
  or aborted has been put where `think` or the aborting call will find it.
- `LifecycleImplemented` (`ImplementsLifecycle`): initial states map to initial
  states, and each step to a step of `QueryLifecycle` or a stutter.
- `WaitAlwaysSeesConnection` (`WaitSeesConnection`), without any hypothesis.
  `ConnInv` says at each place of `connectRun` what `m_status`, `m_success` and
  `m_serverInfo` are; `BlockInv` that `m_connectionDone` is set under
  `m_connectMutex`, which the waiter needs and the thread keeps until the rest is
  written.
- `AlwaysTakenInOrder` (`TakenInOrder`) and `DisconnectAlwaysDrains`
  (`DisconnectDrains`), if no call of `wait(true)` or `ping` is made
  (`"swapWait"` and `"ping"` not in `Api`). Both calls change the order on purpose, and
  a swap behind the pill really leaves a query unexecuted (section 3); `order`
  has the same `Api`. `SortedInv`: a datum that precedes another in the queue was
  built before it. `CutInv`: no datum from before the first disconnect is behind a
  pill, so none is left when the thread has come to one.
- `SwappedAlwaysNext` (`SwappedIsNext`), without any hypothesis. `FrontInv`: what
  main does while it waits, and every step of the thread, leave the front of the
  queue alone until it is taken.

**`TransactionProofs`**, without any assumption about faults

- `TransactionTypeCorrect` (`TypeInvariant`).
- `SessionAlwaysClean`, `AlwaysAllOrNothing`, `AlwaysAsReported`,
  `AlwaysAtMostTwice`, all as long as no foreign exception was thrown, as the
  properties say. `CleanInv` says exactly
  what is pending at each place of `executeStatement`: the queries before `next`,
  once each, and nothing outside it. `EffectInv` says that `committed` is the
  number of unanswered executions, plus one once the transaction is committed,
  for all its queries alike; `AllOrNothing` follows because neither depends on
  the query. For a plain query the interrupted attempts are added (`Unreported`).
  `RetryInv` bounds their number by the attempts made.
- `MembersAlwaysReported` (`MembersReported`), as long as no foreign exception was
  thrown. `MemberInv`: while `executeStatement` runs, the queries before `next`
  are complete with one result (`Going`), and the catch block turns this into a
  division at some `k` (`Ended`); `Begin` clears both for the retry.
- `PlainResultsAlways` (`PlainResults`). `PlainInv`: until a plain query has
  succeeded it has no more results than attempts that were unanswered or interrupted.

**`PreparedQueryProofs`**, without any assumption about faults

- `PreparedTypeCorrect` (`TypeOK`), with the fact that a query always has a
  last parameter set to write to.
- `AlwaysClosedOnce` (`ClosedOnce`). `HandleInv`: handles in `cachedStatements`
  are valid, own distinct allocated statements, and none of these is in
  `freedStatements`; hence the `isValid` test outside the lock is harmless,
  because membership in `cachedStatements` is tested again under it. `UseInv`:
  the statement in use is open, and while it is cached it is the handle of the
  running query. `OwnerInv`: a query whose handle main is destroying is not the
  one the thread executes, which needs the references that keep a running query
  alive.
- `AlwaysStatementsFreed` (`StatementsFreed`): `KnownInv` says that a prepared
  statement is cached, freed, or in use.
- `AlwaysConnectionKept` (`ConnectionKept`): from `MutexInv`, the exclusion of
  the two threads by `m_queryMutex` and `m_connectMutex`.
- `ErrorsAlwaysReal` (`ErrorsAreReal`). What can go wrong is that the second
  attempt meets a handle of the first one's connection. `SecondInv` says it cannot:
  after the reconnect no handle is valid, and the statement of the second attempt is
  one of the new connection, which is up unless a loss was blamed. `RetryInv`:
  only autoreconnect leads there; `FreshInv`: a datum begins without a result;
  `BlameInv`: an exception that will not be repaired has been blamed.
- `AlwaysAppliedAsGiven` (`AppliedAsGiven`). `AppliedInv`: at each place of
  `executeStatement` the sets applied are a prefix from the first attempt,
  empty unless there was one, and a prefix whose length `next` tells.

**`LuaDatabaseProofs`**, without any assumption, for any depth of nesting. Two
lemmas summarise the steps once for all invariants. `StackStep`: a step leaves
the stack alone, enters a frame, moves the last one or leaves it, and only as
`GoesOn` lists. `ContentStep`: the data are at *sites* (`Content`: the queue, the
thread, the finished queries, then one per frame), and a step moves them in one of
ten ways.

- `LuaTypeCorrect` (`TypeOK`). `BaseInv` adds that every frame but the last is in
  a callback, that a frame in a callback of a data has one, and that only built
  data are anywhere; otherwise `Head(Top.todo)` would have no type.
- `AlwaysKeptAlive` (`KeptAlive`). `AliveInv`: the references of a data are live
  exactly while it is running; this is what forbids `Collect`, and through the
  queries' references to their database `CollectDatabase`.
- `CallbackIsAlwaysComing` (`CallbackIsComing`). `ComingInv`: a running data is at
  some site. The difficult step is the end of a destruction, which clears the
  queues: nothing is running then.
- `SecondIsNested` (`SecondCallbackIsNested`). `NestInv`: a running data that
  has had a callback is the head of a frame in one, because the end of
  that callback finishes it; without references it is told nothing.
- `EndsExactlyOnce` (`EndsOnce`). `OnceInv`: a data that `wait()` has not failed is
  at one site at most, and there once (`Single`); if it has had its callback it
  is the head of the frame of that callback, or finished. `Transfer` says for every
  kind of step that a data moves but does not multiply.
- `ReferencesAlwaysSound` (`ReferencesSound`). `RefInv`: without disorder, when
  `m_tableReference` has been freed, or `onDisconnected` is running, the connection
  has been reported, no frame is in its report, and `m_hasOnDisconnected` is false,
  so nothing uses or frees the reference again; and at most one frame is in
  `onDisconnected`, where the reference is live.

**`LuaResultsProofs`**, without any assumption, for any number of queries,
transactions, data and result sets. First come lemmas on what the model's
operators return (`FinishAllLemma`: finishing the data of a transaction takes
one entry for each out of `runningQueryData` and leaves the others in order;
`LastOfLemma`). `Inv` is inductive (`InvHolds`); its parts need each other:

- `TypesHold` (`TypeOK`), with `DataInv`: only data of queries belong to a
  transaction, and nothing refers to a datum that was not built.
- `JobInv`: a started datum is queued, executed, finished, aborted or in its
  callback, and in one of these places once. It needs that a datum built by
  `addQuery` is never started by itself.
- `WaitAlwaysAnswered` (`WaitIsAnswered`), a part of `FailInv`: what is running and not
  finished is queued or executed, from `JobInv` and `RunInv`, and `EndThread` fails
  the datum that is waited for in the step that ends the thread.
- `RunningAlwaysOutstanding` (`RunningIsOutstanding`). `RunInv`: the data in
  `runningQueryData` are exactly those at the places of `JobInv` and their
  members, each once. A datum shared by two starts of a transaction is excepted;
  that its other start shares it for good (`SharedKept`) keeps the exception stable.
  For a datum that `wait()` has failed only one direction is left: what is running is
  outstanding. `FailInv` says that such a datum is finished and was not executing when
  it was failed, and that the thread has nothing in hand unless it is up.
- `NeverWrittenWhileShown` (`NotWrittenWhileShown`). `ShownInv`: the datum a query
  shows has had its turn, or belongs to a transaction that has (`Turned`: not queued,
  not executed, not in `finishedQueries`; for a datum that `wait()` has failed: its
  callback has begun). So if the thread has it in hand, it is shared or failed.
- `AlwaysOwnResults` and `NeverAStaleTable` (`OwnResults`, `NoStaleTable`).
  `ResultInv` follows the first result set from `Execute` through the queue of
  results to the callback, where it must be there for `runSuccessCallback`;
  `CallInv` says what `m_dataReference` refers to between `onData` and `onSuccess`.
- `ResultsImplementLifecycle` (`ImplementsLifecycle`). `LuaMoves` and
  `ThreadMoves` sort all steps into six kinds by what they do to the started data
  (`Stays`, `Starts`, `Aborts`, `Takes`, `Reports`, `FailsOne`). `LifeInv`, which follows
  from these kinds alone, says that a finished datum is not queued or executed again
  and that a queued one has no result, as long as `wait()` has not failed it; from
  then on its stage stays what it was. That the execution of a transaction,
  which rewrites the results of its members, never touches a started datum
  is `WritesAdded`, from `JobInv`.

Only model-checked: the liveness properties (`CallsReturn`, `QueriesEnd`,
`RunEnds`, `ConnectionReportedInTheEnd`, `DisconnectReported`,
`EverythingCollected`), which are out of the prover's reach. Every
invariant and every action property of a passing run is a theorem.

## 5. What is not modelled, and the plan

Not modelled, because they keep no state on which another part depends: the
conversion of result sets to Lua values (`ResultData`) and of Lua values to bound
parameters, options, formatting, counters for diagnostics, the registration of
functions and metatables, the version check, SSL and timeout settings, and the
wrapper libraries with the connection pool, which picks the database with the
shortest queue. A script that writes into the table `getQueries` returns, and one
that shares a query between two databases, are outside the models.

Abstracted across modules: `LuaDatabase` has the database thread in four steps,
`LuaResults` has neither nested callbacks nor the retry, `Transaction` has no
Lua. Each of these is in one of the other modules, but no module composes them.

Next, in this order:

1. `BlockingQueue` with its mutex and condition variable, shown to implement the
   atomic operations used here.
2. `LuaDatabase` over `Database` as a refinement: the four steps of its thread
   against the thread's critical sections.
3. `DisconnectDrains` and `TakenInOrder` for a client that swaps: what order a swap
   leaves between the data it does not touch.
