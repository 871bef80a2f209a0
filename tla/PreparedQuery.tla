---------------------------- MODULE PreparedQuery ----------------------------
(***************************************************************************)
(* Prepared queries, the cache of their statements and the connection      *)
(* handle, from the moment the database is connected.                      *)
(*                                                                         *)
(* Two threads touch them.  Main sets parameters, starts queries, escapes  *)
(* strings, changes the character set, pings, collects query objects and   *)
(* disconnects.  The database thread takes the queue's entries, prepares,  *)
(* executes, reconnects, and is the only one to close statements.          *)
(*                                                                         *)
(* m_statementMutex is held from the first to the last access of every     *)
(* operation on the two sets of statements but one: freeStatement looks at *)
(* the handle before it locks, and is split there.                         *)
(***************************************************************************)
EXTENDS Naturals, Sequences

CONSTANTS
    Query,          \* the prepared queries Lua holds
    Value,          \* what a parameter set can be filled with
    Stmt,           \* the addresses a MYSQL_STMT can have
    MaxCalls,       \* bound: calls of the API
    MaxFaults       \* bound: failures of the network, the server, malloc

Null == "null"

\* A parameter set into which nothing was put.
Empty == "empty"

ASSUME PreparedQueryAssumption ==
    /\ Null \notin Query \cup Stmt /\ {"ping", "pill"} \cap Query = {}
    /\ Empty \notin Value
    /\ MaxCalls \in Nat /\ MaxFaults \in Nat

VARIABLES
    \* cachePreparedStatements, shouldAutoReconnect
    caching, autoReconnect,
    \* the connection handle (0 for nullptr, otherwise one of the two that
    \* exist at once while reconnecting) and whether its server is there
    m_sql, link,
    \* the MYSQL_STMT objects: allocated, prepared by the server, and those
    \* whose connection has been closed
    open, prepared, detached,
    \* the statement of cachedStatement, the queries whose handle is valid,
    \* whose handle is in cachedStatements, and the set freedStatements
    cachedStatement, valid, cachedStatements, freedStatements,
    \* m_parameters; the queue; finishedQueries
    m_parameters, queue, finished,
    \* the database thread: where it is, its entry and the locals of
    \* runQuery and executeStatement
    pc, cur, stmt, next, retry, err,
    \* main: the call it is in, the query it destroys, the queries whose Lua
    \* object is gone, and the number of calls so far
    main, victim, collected, calls,
    \* failures so far, and (history) whether the server, and not a lost
    \* connection alone, makes cur fail
    faults, blame

settings   == <<caching, autoReconnect>>
connection == <<m_sql, link>>
library    == <<open, prepared, detached>>
cache      == <<cachedStatement, valid, cachedStatements, freedStatements>>
work       == <<m_parameters, queue, finished>>
locals     == <<cur, stmt, next, retry, err, blame>>
mainState  == <<main, victim, collected, calls>>
vars == <<settings, connection, library, cache, work, pc, locals, faults, mainState>>

\* An entry of the queue: a PreparedQuery with its data, a PingQuery, or the
\* poison pill.
Entry(q, p) == [query |-> q, params |-> p, applied |-> <<>>, result |-> "NONE"]
Ping == Entry("ping", <<>>)
Pill == Entry("pill", <<>>)

Init ==
    /\ caching \in BOOLEAN /\ autoReconnect \in BOOLEAN
    /\ m_sql = 1 /\ link = TRUE
    /\ open = {} /\ prepared = {} /\ detached = {}
    /\ cachedStatement = [q \in Query |-> Null]
    /\ valid = {} /\ cachedStatements = {} /\ freedStatements = {}
    /\ m_parameters = [q \in Query |-> <<Empty>>]
    /\ queue = <<>> /\ finished = <<>>
    /\ pc = "take" /\ cur = Pill /\ stmt = Null /\ next = 1
    /\ retry = FALSE /\ err = "none" /\ blame = FALSE /\ faults = 0
    /\ main = "idle" /\ victim = Null /\ collected = {} /\ calls = 0

\* The database thread holds m_queryMutex from after take() to the end of
\* runQuery.  Main holds it in setCharacterSet, and m_connectMutex in escape.
RunsQuery == pc \in {"execute", "bind", "result", "caught", "reconnect",
                     "refresh", "complete"}
MainHoldsQueryMutex   == main = "charset"
MainHoldsConnectMutex == main = "escape"

-----------------------------------------------------------------------------
(* The statement cache *)

StmtsOf(handles) == {cachedStatement[q] : q \in handles}

\* cacheStatement and the assignment of its result: q gets a valid handle.
CacheStatement(q, s) ==
    /\ cachedStatement' = [cachedStatement EXCEPT ![q] = s]
    /\ valid' = valid \cup {q}
    /\ cachedStatements' = cachedStatements \cup {q}
    /\ UNCHANGED freedStatements

\* freeStatement, after its first line has found the handle valid.
FreeIn(q, owners) ==
    /\ cachedStatements' = cachedStatements \ {q}
    /\ freedStatements' = freedStatements \cup {cachedStatement[o] : o \in owners}
    /\ valid' = valid \ {q}
    /\ UNCHANGED cachedStatement

\* Mutant: the statement is freed again although the handle is not cached
\* any more.
FreeLockedAgain(q) == FreeIn(q, {q})

FreeLocked(q) == FreeIn(q, {q} \cap cachedStatements)

\* All of freeStatement, where no other thread can reach the handle.
FreeStatement(q) ==
    \/ q \in valid /\ FreeLocked(q)
    \/ q \notin valid /\ UNCHANGED cache

Close(stmts) ==
    /\ open' = open \ stmts /\ prepared' = prepared \ stmts
    /\ detached' = detached \ stmts

FreeWith(stmts) ==
    /\ Close(StmtsOf(cachedStatements \cap valid) \cup stmts)
    /\ valid' = valid \ cachedStatements
    /\ cachedStatements' = {} /\ freedStatements' = {}
    /\ UNCHANGED cachedStatement

\* Mutant: the statements freed before are forgotten.
FreeCachedStatementsOnly == FreeWith({})

FreeCachedStatements == FreeWith(freedStatements)

FreeUnusedStatements ==
    /\ Close(freedStatements)
    /\ freedStatements' = {}
    /\ UNCHANGED <<cachedStatement, valid, cachedStatements>>

-----------------------------------------------------------------------------
(* Main *)

\* A call of main that leaves the database thread's state alone.
MainStep == UNCHANGED <<settings, library, pc, locals, faults>>

\* Lua makes a call ...
Call == main = "idle" /\ calls < MaxCalls /\ calls' = calls + 1 /\ MainStep

\* ... of a query that it has not collected.
CallOf(q) == q \notin collected /\ Call

ParametersBecome(q, sets) ==
    /\ CallOf(q)
    /\ m_parameters' = [m_parameters EXCEPT ![q] = sets]
    /\ UNCHANGED <<connection, cache, queue, finished, main, victim, collected>>

\* setNumber, setString, setBoolean and setNull on the last parameter set.
SetParameter(q, v) ==
    ParametersBecome(q, [m_parameters[q] EXCEPT ![Len(m_parameters[q])] = v])

PutNewParameters(q) == ParametersBecome(q, Append(m_parameters[q], Empty))

\* Mutant: no new parameter set takes the place of the cleared ones.
ClearParametersOnly(q) == ParametersBecome(q, <<>>)

ClearParameters(q) == ParametersBecome(q, <<Empty>>)

\* buildQueryData: the data gets a copy of the parameters, of which the last
\* set stays with the query.
BuildQueryData(q) ==
    m_parameters' = [m_parameters EXCEPT ![q] = <<@[Len(@)]>>]

Start(q) ==
    /\ CallOf(q)
    /\ queue' = Append(queue, Entry(q, m_parameters[q]))
    /\ BuildQueryData(q)
    /\ UNCHANGED <<connection, cache, finished, main, victim, collected>>

\* Database::disconnect.
Disconnect ==
    /\ Call /\ Pill \notin {queue[i] : i \in DOMAIN queue}
    /\ pc \notin {"close", "closing", "ended"}
    /\ queue' = Append(queue, Pill)
    /\ UNCHANGED <<connection, cache, m_parameters, finished, main, victim, collected>>

\* Database::ping starts a PingQuery, swaps it to the front of the queue
\* and sleeps until it is done.
PingStart ==
    /\ Call /\ pc # "ended"
    /\ queue' = LET q == Append(queue, Ping)
                IN  [q EXCEPT ![1] = Ping, ![Len(q)] = q[1]]
    /\ main' = "ping"
    /\ UNCHANGED <<connection, cache, m_parameters, finished, victim, collected>>

\* escape uses m_sql under m_connectMutex ...
EscapeBegin ==
    /\ Call /\ m_sql # 0
    /\ main' = "escape"
    /\ UNCHANGED <<connection, cache, work, victim, collected>>

\* ... and setCharacterSet sends a request under m_queryMutex.
SetCharacterSetBegin ==
    /\ Call /\ m_sql # 0 /\ ~RunsQuery
    /\ main' = "charset"
    /\ UNCHANGED <<connection, cache, work, victim, collected>>

CallEnd ==
    /\ main \in {"escape", "charset"}
    /\ main' = "idle"
    /\ UNCHANGED <<connection, cache, work, victim, collected, calls>>
    /\ MainStep

\* think runs the callback of a finished query and releases its data.
Think ==
    /\ main = "idle" /\ finished # <<>>
    /\ finished' = Tail(finished)
    /\ UNCHANGED <<connection, cache, m_parameters, queue, mainState>>
    /\ MainStep

\* Data that are queued, executed or waiting for their callback keep the Lua
\* object of their query alive (m_tableReference).
Running(q) ==
    \/ \E i \in DOMAIN queue : queue[i].query = q
    \/ \E i \in DOMAIN finished : finished[i].query = q
    \/ cur.query = q /\ (RunsQuery \/ pc \in {"lock", "report"})

\* The Lua object of q is collected.  Unless the database thread still has
\* the last reference in run(), ~PreparedQuery runs here: the first line of
\* freeStatement decides whether there is anything to free.
Collect(q) ==
    /\ CallOf(q) /\ ~Running(q)
    /\ collected' = collected \cup {q}
    /\ IF cur.query # q /\ q \in valid
       THEN main' = "free" /\ victim' = q
       ELSE UNCHANGED <<main, victim>>
    /\ UNCHANGED <<connection, cache, work>>

\* The rest of freeStatement.
MainFree ==
    /\ main = "free"
    /\ FreeLocked(victim)
    /\ main' = "idle" /\ victim' = Null
    /\ UNCHANGED <<connection, work, collected, calls>>
    /\ MainStep

-----------------------------------------------------------------------------
(* The database thread: run *)

\* A step of the database thread that leaves main and its calls alone.
ThreadStep == UNCHANGED <<settings, m_parameters, mainState>>

\* Something outside the program fails, or nothing does.
Fault == faults < MaxFaults /\ faults' = faults + 1
NoFault == UNCHANGED faults

Take ==
    /\ pc = "take" /\ queue # <<>>
    /\ queue' = Tail(queue)
    /\ cur' = Head(queue)
    /\ pc' = IF Head(queue) = Pill THEN "close" ELSE "lock"
    /\ UNCHANGED <<connection, library, cache, finished, stmt, next, retry, err, blame>>
    /\ ThreadStep /\ NoFault

\* m_queryMutex is free, and runQuery is called.
RunQueryWith(again) ==
    /\ pc = "lock" /\ ~MainHoldsQueryMutex
    /\ pc' = "execute" /\ retry' = again /\ blame' = FALSE
    /\ UNCHANGED <<connection, library, cache, queue, finished, cur, stmt, next, err>>
    /\ ThreadStep /\ NoFault

\* Mutant: runQuery is not told to retry.
RunQueryOnce == RunQueryWith(FALSE)

RunQuery == RunQueryWith(autoReconnect)

\* Mutant: attemptReconnect without m_connectMutex.
ReplacedUnlocked ==
    /\ m_sql' = 3 - m_sql /\ link' = TRUE
    /\ detached' = open
    /\ UNCHANGED <<open, prepared>> /\ NoFault

\* attemptReconnect: the new handle takes the place of the old one, which
\* is closed, under m_connectMutex.
Replaced == ~MainHoldsConnectMutex /\ ReplacedUnlocked

\* The new connection cannot be made.
NotReplaced == Fault /\ UNCHANGED <<connection, library>>

\* PingQuery::executeStatement.
ExecutePing ==
    /\ pc = "execute" /\ cur = Ping
    /\ \/ link /\ UNCHANGED <<connection, library>> /\ NoFault
       \/ ~link /\ (Replaced \/ NotReplaced)
    /\ pc' = "complete"
    /\ UNCHANGED <<cache, queue, finished, locals>>
    /\ ThreadStep

-----------------------------------------------------------------------------
(* PreparedQuery::executeStatement *)

\* A MySQLException is thrown and leaves the block.  It counts against the
\* server unless it is one that the retry is there to repair.
Throw(e, byServer) ==
    /\ err' = e /\ pc' = "caught"
    /\ stmt' = Null /\ next' = 1
    /\ blame' = (blame \/ (byServer /\ (e = "other" \/ ~retry)))

\* A request fails because the connection is not there, ...
Unreachable == ~link /\ Throw("retriable", FALSE) /\ NoFault

\* ... or because the server answers with an error, for which
\* isRetriableError may hold as well.
Refused ==
    /\ link /\ Fault
    /\ \E e \in {"retriable", "other"} : Throw(e, TRUE)

\* stmtClose: a statement that is not cached lives as long as the call.
StmtClose == Close(IF caching THEN {} ELSE {stmt})

\* A valid handle is used again.
UseCached ==
    /\ pc = "execute" /\ cur.query \in valid
    /\ stmt' = cachedStatement[cur.query] /\ next' = 1 /\ pc' = "bind"
    /\ UNCHANGED <<connection, library, cache, queue, finished, cur, retry, err, blame>>
    /\ ThreadStep /\ NoFault

\* Otherwise mysqlStmtInit allocates a statement for the connection ...
New(s) == pc = "execute" /\ cur.query \in Query \ valid /\ s \notin open

\* ... which the server prepares and which is cached.
Prepare(s) ==
    /\ New(s) /\ link
    /\ open' = open \cup {s} /\ prepared' = prepared \cup {s}
    /\ stmt' = s /\ next' = 1 /\ pc' = "bind"
    /\ IF caching THEN CacheStatement(cur.query, s) ELSE UNCHANGED cache
    /\ UNCHANGED <<connection, detached, queue, finished, cur, retry, err, blame>>
    /\ ThreadStep /\ NoFault

\* mysqlStmtPrepare throws: stmtClose closes the statement, but not if
\* statements are to be cached.
PrepareFails(s) ==
    /\ New(s) /\ (Unreachable \/ Refused)
    /\ open' = IF caching THEN open \cup {s} ELSE open
    /\ UNCHANGED <<connection, prepared, detached, cache, queue, finished, cur, retry>>
    /\ ThreadStep

\* mysqlStmtInit throws CR_OUT_OF_MEMORY.
InitFails ==
    /\ pc = "execute" /\ cur.query \in Query \ valid
    /\ Fault \/ (open = Stmt /\ NoFault)
    /\ Throw("other", TRUE)
    /\ UNCHANGED <<connection, library, cache, queue, finished, cur, retry>>
    /\ ThreadStep

\* The server executes the statement with the next parameter set.
Execute ==
    /\ pc = "bind" /\ next <= Len(cur.params)
    /\ link /\ stmt \notin detached
    /\ cur' = [cur EXCEPT !.applied = Append(@, cur.params[next])]
    /\ pc' = "result"
    /\ UNCHANGED <<connection, library, cache, queue, finished, stmt, next, retry, err, blame>>
    /\ ThreadStep /\ NoFault

\* mysqlStmtBindParameter or mysqlStmtExecute throws.  A statement whose
\* connection was closed answers CR_SERVER_LOST by itself.
ExecuteFails ==
    /\ pc = "bind" /\ next <= Len(cur.params)
    /\ \/ Unreachable
       \/ stmt \notin detached /\ Refused
       \/ stmt \in detached /\ Throw("retriable", FALSE) /\ NoFault
    /\ StmtClose
    /\ UNCHANGED <<connection, cache, queue, finished, cur, retry>>
    /\ ThreadStep

\* mysqlStmtStoreResult and mysqlStmtNextResult fetch the results ...
StoreResult ==
    /\ pc = "result" /\ link
    /\ next' = next + 1 /\ pc' = "bind"
    /\ UNCHANGED <<connection, library, cache, queue, finished, cur, stmt, retry, err, blame>>
    /\ ThreadStep /\ NoFault

\* ... or throw, after the statement was executed.
StoreResultFails ==
    /\ pc = "result"
    /\ Unreachable \/ Refused
    /\ StmtClose
    /\ UNCHANGED <<connection, cache, queue, finished, cur, retry>>
    /\ ThreadStep

\* Every parameter set has been executed.
SucceedAfter(last) ==
    /\ pc = "bind" /\ next > last
    /\ cur' = [cur EXCEPT !.result = "SUCCESS"]
    /\ pc' = "complete"
    /\ StmtClose
    /\ stmt' = Null /\ next' = 1
    /\ UNCHANGED <<connection, cache, queue, finished, retry, err, blame>>
    /\ ThreadStep /\ NoFault

\* Mutant: the last parameter set is left out.
SuccessEarly == SucceedAfter(Len(cur.params) - 1)

Success == SucceedAfter(Len(cur.params))

-----------------------------------------------------------------------------
(* runQuery's handler, reconnect and retry *)

Fail ==
    /\ cur' = [cur EXCEPT !.result = "ERROR"]
    /\ pc' = "complete"

\* The handler of executeStatement frees the statement after a retriable
\* error; the one of runQuery reconnects or gives up.
Caught ==
    /\ pc = "caught"
    /\ IF err = "retriable" THEN FreeStatement(cur.query) ELSE UNCHANGED cache
    /\ \/ retry /\ err = "retriable" /\ pc' = "reconnect" /\ UNCHANGED cur
       \/ ~(retry /\ err = "retriable") /\ Fail
    /\ err' = "none"
    /\ UNCHANGED <<connection, library, queue, finished, stmt, next, retry, blame>>
    /\ ThreadStep /\ NoFault

Reconnect ==
    /\ pc = "reconnect"
    /\ \/ Replaced /\ pc' = "refresh" /\ UNCHANGED <<cur, blame>>
       \/ NotReplaced /\ Fail /\ blame' = TRUE
    /\ UNCHANGED <<cache, queue, finished, stmt, next, retry, err>>
    /\ ThreadStep

\* freeCachedStatements and the second call of runQuery.
Retry ==
    /\ pc = "refresh"
    /\ FreeCachedStatements
    /\ pc' = "execute" /\ retry' = FALSE
    /\ UNCHANGED <<connection, queue, finished, cur, stmt, next, err, blame>>
    /\ ThreadStep /\ NoFault

-----------------------------------------------------------------------------
(* The end of an iteration, and of run *)

\* The status is set and m_queryMutex released.
Complete ==
    /\ pc = "complete"
    /\ pc' = "report" /\ retry' = FALSE /\ blame' = FALSE
    /\ UNCHANGED <<connection, library, cache, queue, finished, cur, stmt, next, err>>
    /\ ThreadStep /\ NoFault

\* The entry goes to finishedQueries and a waiting ping() wakes up, which
\* takes its own entry out again.
Report ==
    /\ pc = "report"
    /\ pc' = "sweep"
    /\ IF cur.query = "ping" THEN main' = "idle" /\ UNCHANGED finished
       ELSE finished' = Append(finished, cur) /\ UNCHANGED main
    /\ UNCHANGED <<settings, connection, library, cache, m_parameters, queue,
                   locals, faults, victim, collected, calls>>

Sweep ==
    /\ pc = "sweep"
    /\ FreeUnusedStatements
    /\ pc' = "release"
    /\ UNCHANGED <<connection, queue, finished, locals>>
    /\ ThreadStep /\ NoFault

\* The references of the iteration go.  If Lua has dropped the query,
\* ~PreparedQuery runs here, on the database thread.
Release ==
    /\ pc = "release"
    /\ IF cur.query \in collected THEN FreeStatement(cur.query) ELSE UNCHANGED cache
    /\ cur' = Pill /\ pc' = "take"
    /\ UNCHANGED <<connection, library, queue, finished, stmt, next, retry, err, blame>>
    /\ ThreadStep /\ NoFault

\* run() returns and its finally block frees the statements; ...
CloseStatements ==
    /\ pc = "close"
    /\ FreeCachedStatements
    /\ pc' = "closing"
    /\ UNCHANGED <<connection, queue, finished, locals>>
    /\ ThreadStep /\ NoFault

\* ... then connectRun closes the connection, under both mutexes, and fails
\* a waiting ping().
CloseConnection ==
    /\ pc = "closing" /\ ~MainHoldsQueryMutex /\ ~MainHoldsConnectMutex
    /\ m_sql' = 0 /\ link' = FALSE
    /\ main' = IF main = "ping" THEN "idle" ELSE main
    /\ pc' = "ended"
    /\ UNCHANGED <<settings, library, cache, work, locals, faults, victim, collected, calls>>

\* The network or the server drops the connection.
ConnectionLost ==
    /\ link /\ Fault
    /\ link' = FALSE
    /\ blame' = (blame \/ pc = "refresh" \/ (RunsQuery /\ ~retry))
    /\ UNCHANGED <<settings, m_sql, library, cache, work, pc, cur, stmt, next,
                   retry, err, mainState>>

-----------------------------------------------------------------------------
Main ==
    \/ \E q \in Query :
          \/ \E v \in Value : SetParameter(q, v)
          \/ PutNewParameters(q) \/ ClearParameters(q)
          \/ Start(q) \/ Collect(q)
    \/ Disconnect \/ PingStart \/ EscapeBegin \/ SetCharacterSetBegin \/ CallEnd
    \/ Think \/ MainFree

Thread ==
    \/ Take \/ RunQuery \/ ExecutePing \/ UseCached
    \/ \E s \in Stmt : Prepare(s) \/ PrepareFails(s)
    \/ InitFails \/ Execute \/ ExecuteFails \/ StoreResult \/ StoreResultFails
    \/ Success \/ Caught \/ Reconnect \/ Retry
    \/ Complete \/ Report \/ Sweep \/ Release
    \/ CloseStatements \/ CloseConnection

Next == Main \/ Thread \/ ConnectionLost

Spec == Init /\ [][Next]_vars

-----------------------------------------------------------------------------
(* Properties *)

Params == Seq(Value \cup {Empty})
Entries == [query : Query \cup {"ping", "pill"}, params : Params,
            applied : Params, result : {"NONE", "SUCCESS", "ERROR"}]

\* The type of every variable.  A query always has a parameter set for
\* m_parameters.back().
TypeOK ==
    /\ caching \in BOOLEAN /\ autoReconnect \in BOOLEAN
    /\ m_sql \in 0..2 /\ link \in BOOLEAN
    /\ open \in SUBSET Stmt /\ prepared \in SUBSET open /\ detached \in SUBSET open
    /\ cachedStatement \in [Query -> Stmt \cup {Null}]
    /\ valid \in SUBSET Query /\ cachedStatements \in SUBSET Query
    /\ freedStatements \in SUBSET Stmt
    /\ m_parameters \in [Query -> Params \ {<<>>}]
    /\ queue \in Seq(Entries) /\ finished \in Seq(Entries)
    /\ pc \in {"take", "lock", "execute", "bind", "result", "caught", "reconnect",
               "refresh", "complete", "report", "sweep", "release",
               "close", "closing", "ended"}
    /\ cur \in Entries /\ stmt \in Stmt \cup {Null} /\ next \in Nat \ {0}
    /\ retry \in BOOLEAN /\ err \in {"none", "retriable", "other"}
    /\ blame \in BOOLEAN /\ faults \in 0..MaxFaults
    /\ main \in {"idle", "ping", "escape", "charset", "free"}
    /\ victim \in Query \cup {Null} /\ collected \in SUBSET Query
    /\ calls \in 0..MaxCalls

\* cacheStatement, freeStatement, freeCachedStatements, freeUnusedStatements:
\* every pointer the two sets hold is of an allocated statement and is held
\* once, so that no mysql_stmt_close closes a statement that is closed
\* already, or one that got its address since; and the statement the database
\* thread is about to use has not been closed.
ClosedOnce ==
    /\ freedStatements \subseteq open
    /\ StmtsOf(cachedStatements) \subseteq open \ freedStatements
    /\ \A q, r \in cachedStatements :
          cachedStatement[q] = cachedStatement[r] => q = r
    /\ pc \in {"bind", "result"} => stmt \in open

\* When connectRun has closed the connection, every statement that was ever
\* prepared has been closed.
StatementsFreed == pc = "ended" => prepared = {}

\* "This makes sure that all stmts always get freed" (Database.cpp, above
\* cacheStatement): the same for every statement that was allocated.
AllStatementsFreed == pc = "ended" => open = {}

\* What was applied to the server for a data: its parameter sets up to some
\* point, in order, and after a retry from the first one again.
Attempts(e, k, n) ==
    e.applied = SubSeq(e.params, 1, k) \o SubSeq(e.params, 1, n)

\* PreparedQuery::executeStatement with the retry of runQuery: a successful
\* data has applied all the parameter sets given to it at start(), in their
\* order, as its last deed, and before that at most a part of them once; the
\* part only with autoreconnect.
AppliedAsGiven ==
    \A e \in {finished[i] : i \in DOMAIN finished} :
        \E k, n \in 0..Len(e.params) :
            /\ Attempts(e, k, n)
            /\ e.result = "SUCCESS" => n = Len(e.params)
            /\ ~autoReconnect => k = 0

\* With autoreconnect a data fails only because the server refused a
\* request, the reconnect failed, or the connection was lost a second time:
\* never because of a statement left over from a connection that ping() or
\* an earlier query has replaced, or of a connection lost in between.
ErrorsAreReal ==
    autoReconnect /\ pc = "complete" /\ cur.result = "ERROR" => blame

\* escape and setCharacterSet: while main uses the connection the database
\* thread neither closes nor replaces it.
ConnectionKept == [][(main = "escape" \/ main = "charset") => m_sql' = m_sql]_vars

\* m_queryMutex is "locked while query thread operates on m_sql object"
\* (Database.h): while main sends the request of setCharacterSet, the
\* database thread closes no statement of that connection, which would send
\* a request as well.
ConnectionExclusive ==
    [][main = "charset" => open \ open' \subseteq detached]_vars
=============================================================================
