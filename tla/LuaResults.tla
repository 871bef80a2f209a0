------------------------------ MODULE LuaResults ------------------------------
(***************************************************************************)
(* Queries and transactions as Lua uses them (src/lua/LuaQuery.cpp,        *)
(* LuaTransaction.cpp): the QueryData that addQuery and start build, which *)
(* a started transaction shares with its queries, the result sets the      *)
(* database thread stores in them, and the callbacks, in which getData     *)
(* and getNextResults look at the callback data through a cached table.    *)
(*                                                                         *)
(* There is one callback at a time here; LuaDatabase nests them.           *)
(***************************************************************************)
EXTENDS BlockingQueue, SequencesExt

CONSTANTS
    Query,      \* the query objects
    Tx,         \* the transaction objects
    MaxData,    \* bound on the data that are built
    MaxResults, \* bound on the result sets of an execution
    MaxFailed   \* bound on the data wait() fails at once, each of them once

ASSUME ResultsAssumption ==
    MaxData \in Nat /\ MaxResults \in Nat \ {0} /\ MaxFailed \in Nat
    /\ Query \cap Tx = {}

Data == 1..MaxData
Null == 0
None == "none"

VARIABLES
    \* the data: how many, whose, the queries of a transaction's data,
    \* m_resultStatus, m_results and m_insertIds, and finished
    built, owner, m_queries, resultStatus, results, finished,
    \* LuaTransaction and IQuery
    m_addedQueryData, runningQueryData,
    \* the database thread: its queues, what it runs, the next query of it
    queryQueue, cur, member, finishedQueries,
    \* Query: callbackQueryData and the table m_dataReference refers to
    callbackQueryData, m_dataReference,
    \* Lua: where it is, for which data, the tables it is passed, and the
    \* data abort() has still to finish
    lua, aborted,
    \* the thread of the database is "none", "up" or "ended"; m_canWait is
    \* true while it is up
    thread,
    \* history: getNextResults was called in onData, and the stage of a data
    \* when wait() has failed it
    advanced, failed

dataVars   == <<built, owner, m_queries>>
resultVars == <<resultStatus, results, finished>>
threadVars == <<cur, member>>
cacheVars  == <<callbackQueryData, m_dataReference>>
vars == <<dataVars, resultVars, m_addedQueryData, runningQueryData, queryQueue,
          threadVars, finishedQueries, cacheVars, lua, aborted, advanced,
          thread, failed>>
connection == <<thread, failed>>

\* The Lua table of a result set (0: of none) of a data.
Table == [data : Data, result : 0..MaxResults]
NoTable == [data |-> Null, result |-> 0]

Init ==
    /\ built = 0 /\ owner = [d \in Data |-> None] /\ m_queries = [d \in Data |-> <<>>]
    /\ resultStatus = [d \in Data |-> "NONE"] /\ results = [d \in Data |-> <<>>]
    /\ finished = {}
    /\ m_addedQueryData = [t \in Tx |-> <<>>]
    /\ runningQueryData = [o \in Query \cup Tx |-> <<>>]
    /\ queryQueue = <<>> /\ cur = Null /\ member = 1 /\ finishedQueries = <<>>
    /\ callbackQueryData = [q \in Query |-> Null]
    /\ m_dataReference = [q \in Query |-> NoTable]
    /\ lua = [at |-> "script", d |-> Null, argument |-> <<>>]
    /\ aborted = <<>> /\ advanced = FALSE
    /\ thread = "none" /\ failed = [d \in Data |-> None]

Members(d) == Range(m_queries[d])

\* The stage of a data that was started, read off the queue, the database
\* thread and what the data says of itself, until wait() fails it.
StageOf(d) ==
    IF failed[d] # None THEN failed[d]
    ELSE IF d = cur THEN "executing"
    ELSE IF d \in Range(queryQueue) THEN "queued"
    ELSE IF d \notin finished THEN "new"
    ELSE IF resultStatus[d] = "NONE" THEN "aborted"
    ELSE resultStatus[d]

-----------------------------------------------------------------------------
(* Building and starting *)

LuaRuns ==
    /\ lua.at \in {"script", "onData", "onSuccess", "onError", "onAborted"}
    /\ (lua.at = "script" => aborted = <<>>)

New(o) == built < MaxData /\ built' = built + 1 /\ owner' = [owner EXCEPT ![built + 1] = o]

\* addQuery builds the data of the query.
AddQuery(t, q) ==
    /\ LuaRuns /\ New(q)
    /\ m_addedQueryData' = [m_addedQueryData EXCEPT ![t] = Append(@, built + 1)]
    /\ UNCHANGED <<m_queries, resultVars, runningQueryData, queryQueue, threadVars,
                   finishedQueries, cacheVars, lua, aborted, advanced, connection>>

ClearQueries(t) ==
    /\ LuaRuns /\ m_addedQueryData[t] # <<>>
    /\ m_addedQueryData' = [m_addedQueryData EXCEPT ![t] = <<>>]
    /\ UNCHANGED <<dataVars, resultVars, runningQueryData, queryQueue, threadVars,
                   finishedQueries, cacheVars, lua, aborted, advanced, connection>>

Enqueue(running) ==
    /\ runningQueryData' = running
    /\ queryQueue' = put(queryQueue, built + 1)
    /\ UNCHANGED <<resultVars, m_addedQueryData, threadVars, finishedQueries,
                   m_dataReference, lua, aborted, advanced, connection>>

Starting(q, shown) ==
    /\ LuaRuns /\ New(q) /\ UNCHANGED m_queries
    /\ callbackQueryData' = [callbackQueryData EXCEPT ![q] = shown]
    /\ Enqueue([runningQueryData EXCEPT ![q] = Append(@, built + 1)])

\* Mutant: the new data is the callback data.
StartQueryShown(q) == Starting(q, built + 1)

StartQuery(q) == Starting(q, callbackQueryData[q])

\* LuaTransaction::buildQueryData: the data addQuery has built are used in
\* every start.
StartTransaction(t) ==
    LET added(o) == removeIf(m_addedQueryData[t], {d \in Data : owner[d] # o}) IN
    /\ LuaRuns /\ New(t) /\ UNCHANGED callbackQueryData
    /\ m_queries' = [m_queries EXCEPT ![built + 1] = m_addedQueryData[t]]
    /\ Enqueue([o \in Query \cup Tx |->
                   IF o = t THEN Append(runningQueryData[t], built + 1)
                            ELSE runningQueryData[o] \o added(o)])

\* connect(); the connection may still fail.
Connect ==
    /\ LuaRuns /\ thread = "none" /\ thread' = "up"
    /\ UNCHANGED <<dataVars, resultVars, m_addedQueryData, runningQueryData,
                   queryQueue, threadVars, finishedQueries, cacheVars, lua, aborted,
                   advanced, failed>>

Failed == {d \in Data : failed[d] # None}

\* d gets an error and is put into finishedQueries, wherever it is.
FailWaitingQuery(d) ==
    /\ resultStatus' = [resultStatus EXCEPT ![d] = "ERROR"]
    /\ finished' = finished \cup {d}
    /\ finishedQueries' = put(finishedQueries, d)
    /\ failed' = [failed EXCEPT ![d] = StageOf(d)]
    /\ UNCHANGED results

\* wait() waits for the last of the running data, if the thread is there, and
\* fails it if not.
Wait(o) ==
    LET d == Last(runningQueryData[o]) IN
    /\ lua.at = "script" /\ LuaRuns /\ runningQueryData[o] # <<>>
    /\ \/ /\ thread = "up"
          /\ lua' = [lua EXCEPT !.at = "waiting", !.d = d]
          /\ UNCHANGED <<resultVars, finishedQueries, failed>>
       \/ /\ thread # "up"
          /\ failed[d] = None /\ Cardinality(Failed) < MaxFailed
          /\ FailWaitingQuery(d)
          /\ UNCHANGED lua
    /\ UNCHANGED <<dataVars, m_addedQueryData, runningQueryData, queryQueue,
                   threadVars, cacheVars, aborted, advanced, thread>>

WaitReturns ==
    /\ lua.at = "waiting" /\ lua.d \in finished
    /\ lua' = [lua EXCEPT !.at = "script", !.d = Null]
    /\ UNCHANGED <<dataVars, resultVars, m_addedQueryData, runningQueryData,
                   queryQueue, threadVars, finishedQueries, cacheVars, aborted, advanced,
                   connection>>

\* The data that are removed from the queue, and their callbacks to come.
Aborting(removed) ==
    /\ lua.at = "script" /\ LuaRuns /\ removed # <<>>
    /\ queryQueue' = removeIf(queryQueue, Range(removed))
    /\ finished' = finished \cup Range(removed)
    /\ aborted' = removed
    /\ UNCHANGED <<dataVars, resultStatus, results, m_addedQueryData, runningQueryData,
                   threadVars, finishedQueries, cacheVars, lua, advanced, connection>>

\* Mutant: abort() does not look at the result of removeIf.
AbortRunning(o) == Aborting(runningQueryData[o])

\* Every running data of o that is still in the queue is removed.
Abort(o) ==
    Aborting(removeIf(runningQueryData[o], Data \ Range(queryQueue)))

-----------------------------------------------------------------------------
(* The database thread *)

Take ==
    /\ thread = "up" /\ cur = Null /\ NonEmpty(queryQueue)
    /\ cur' = Head(queryQueue) /\ queryQueue' = Tail(queryQueue) /\ member' = 1
    /\ UNCHANGED <<dataVars, resultVars, m_addedQueryData, runningQueryData,
                   finishedQueries, cacheVars, lua, aborted, advanced, connection>>

\* The data is put into finishedQueries, and then set finished.
Report(status) ==
    /\ finishedQueries' = put(finishedQueries, cur)
    /\ finished' = finished \cup {cur}
    /\ cur' = Null /\ resultStatus' = status

\* Query::executeStatement; an error may come after the first result sets.
Execute ==
    /\ cur # Null /\ owner[cur] \in Query
    /\ \E n \in 0..MaxResults, r \in {"SUCCESS", "ERROR"} :
          /\ IF r = "SUCCESS" THEN n > 0 ELSE n < MaxResults
          /\ results' = [results EXCEPT ![cur] = @ \o [i \in 1..n |-> i]]
          /\ Report([resultStatus EXCEPT ![cur] = r])
    /\ UNCHANGED <<dataVars, member, m_addedQueryData, runningQueryData, queryQueue,
                   cacheVars, lua, aborted, advanced, connection>>

\* Transaction::executeStatement clears its queries ...
Begin ==
    /\ cur # Null /\ owner[cur] \in Tx /\ member = 1
    /\ results' = [d \in Data |-> IF d \in Members(cur) THEN <<>> ELSE results[d]]
    /\ resultStatus' = [d \in Data |-> IF d \in Members(cur) THEN "NONE" ELSE resultStatus[d]]
    /\ member' = 2
    /\ UNCHANGED <<dataVars, finished, cur, m_addedQueryData, runningQueryData,
                   queryQueue, finishedQueries, cacheVars, lua, aborted, advanced, connection>>

\* ... and executes one after the other, ...
ExecuteMember ==
    /\ cur # Null /\ member \in 2..(Len(m_queries[cur]) + 1)
    /\ LET d == m_queries[cur][member - 1] IN
       /\ \E n \in 1..MaxResults :
             results' = [results EXCEPT ![d] = @ \o [i \in 1..n |-> i]]
       /\ resultStatus' = [resultStatus EXCEPT ![d] = "SUCCESS"]
    /\ member' = member + 1
    /\ UNCHANGED <<dataVars, finished, cur, m_addedQueryData, runningQueryData,
                   queryQueue, finishedQueries, cacheVars, lua, aborted, advanced, connection>>

\* ... and commits, ...
Commit ==
    /\ cur # Null /\ owner[cur] \in Tx /\ member = Len(m_queries[cur]) + 2
    /\ Report([resultStatus EXCEPT ![cur] = "SUCCESS"])
    /\ UNCHANGED <<dataVars, results, member, m_addedQueryData, runningQueryData,
                   queryQueue, cacheVars, lua, aborted, advanced, connection>>

\* ... or fails, perhaps after the first result sets of a query: the queries
\* that were not executed, and that one, get an empty result.
Fail ==
    /\ cur # Null /\ owner[cur] \in Tx /\ member > 1
    /\ LET open == {m_queries[cur][i] : i \in (member - 1)..Len(m_queries[cur])} IN
       /\ Report([d \in Data |->
                     IF d \in open \cup {cur} THEN "ERROR" ELSE resultStatus[d]])
       /\ \E n \in 0..MaxResults-1 :
             results' = [d \in Data |->
                            IF d \notin open THEN results[d]
                            ELSE results[d] \o (IF d = m_queries[cur][member - 1]
                                               THEN [i \in 1..n |-> i] ELSE <<>>) \o <<0>>]
    /\ UNCHANGED <<dataVars, member, m_addedQueryData, runningQueryData, queryQueue,
                   cacheVars, lua, aborted, advanced, connection>>

\* Mutant: abortWaitingQuery only clears m_canWait.
EndThreadSilently ==
    /\ thread = "up" /\ cur = Null /\ thread' = "ended"
    /\ UNCHANGED <<dataVars, resultVars, m_addedQueryData, runningQueryData, queryQueue,
                   threadVars, finishedQueries, cacheVars, lua, aborted, advanced, failed>>

\* The connection has failed, or the thread has taken the pill of
\* disconnect(): abortWaitingQuery fails the data wait() waits for.
EndThread ==
    /\ thread = "up" /\ cur = Null /\ thread' = "ended"
    /\ IF lua.at = "waiting" /\ lua.d \notin finished
       THEN FailWaitingQuery(lua.d)
       ELSE UNCHANGED <<resultVars, finishedQueries, failed>>
    /\ UNCHANGED <<dataVars, m_addedQueryData, runningQueryData, queryQueue,
                   threadVars, cacheVars, lua, aborted, advanced>>

-----------------------------------------------------------------------------
(* The data a callback sees *)

\* createDataReference
Created(d) == [data |-> d, result |-> IF results[d] = <<>> THEN 0 ELSE Head(results[d])]
Cached(q, d) == IF m_dataReference[q] # NoTable THEN m_dataReference[q] ELSE Created(d)

\* Mutant: what is cached is taken for the table of any data.
FreshKept(q, d) == Cached(q, d)

\* createDataReference after freeDataReference
Fresh(q, d) == Created(d)

\* setCallbackData for the queries of a transaction, in their order: the
\* last data of each query stays.
LastOf(q, d) ==
    CHOOSE i \in DOMAIN m_queries[d] :
        /\ owner[m_queries[d][i]] = q
        /\ \A j \in DOMAIN m_queries[d] : owner[m_queries[d][j]] = q => j <= i

MembersShown(d) ==
    [q \in Query |-> IF \E m \in Members(d) : owner[m] = q
                     THEN m_queries[d][LastOf(q, d)] ELSE callbackQueryData[q]]

\* query:getData
GetData(q) ==
    LET d == callbackQueryData[q] IN
    /\ LuaRuns /\ d # Null /\ resultStatus[d] # "ERROR" /\ m_dataReference[q] = NoTable
    /\ m_dataReference' = [m_dataReference EXCEPT ![q] = Cached(q, d)]
    /\ UNCHANGED <<dataVars, resultVars, m_addedQueryData, runningQueryData, queryQueue,
                   threadVars, finishedQueries, callbackQueryData, lua, aborted, advanced, connection>>

\* query:getNextResults throws if there are none, but frees first.
NextResults(q, cached) ==
    LET d == callbackQueryData[q] IN
    /\ LuaRuns /\ (d # Null \/ m_dataReference[q] # NoTable)
    /\ m_dataReference' = [m_dataReference EXCEPT ![q] = cached]
    /\ IF d = Null \/ results[d] = <<>> THEN UNCHANGED results
       ELSE results' = [results EXCEPT ![d] = Tail(@)]
    /\ advanced' = (advanced \/ (lua.at = "onData" /\ owner[lua.d] = q))
    /\ UNCHANGED <<dataVars, resultStatus, finished, m_addedQueryData, runningQueryData,
                   queryQueue, threadVars, finishedQueries, callbackQueryData, lua, aborted,
                   connection>>

\* Mutant: the cached table stays.
GetNextResultsCached(q) == NextResults(q, m_dataReference[q])

GetNextResults(q) == NextResults(q, NoTable)

-----------------------------------------------------------------------------
(* Callbacks *)

FinishQueryData(running, d) ==
    LET r == running[owner[d]] IN
    [running EXCEPT ![owner[d]] =
        IF NonEmpty(r) /\ Head(r) = d THEN Tail(r) ELSE removeIf(r, {d})]

\* Mutant: the queries of the transaction stay running.
FinishTransactionOnly(d) == runningQueryData' = FinishQueryData(runningQueryData, d)

\* One data after the other is finished.
FinishAll(list) ==
    LET running[i \in 0..Len(list)] ==
            IF i = 0 THEN runningQueryData ELSE FinishQueryData(running[i - 1], list[i])
    IN  running[Len(list)]

\* A transaction's data finishes its queries' too.
FinishLuaQueryData(d) == runningQueryData' = FinishAll(<<d>> \o m_queries[d])

Enter(at, d, argument) == lua' = [at |-> at, d |-> d, argument |-> argument]
Leave == lua' = [at |-> "script", d |-> Null, argument |-> <<>>]

\* think takes the next finished data d.
ThinkNext(d) ==
    /\ lua.at = "script" /\ aborted = <<>>
    /\ NonEmpty(finishedQueries) /\ d = Head(finishedQueries)
    /\ finishedQueries' = Tail(finishedQueries)
    /\ UNCHANGED <<dataVars, resultVars, m_addedQueryData, queryQueue, threadVars,
                   aborted, connection>>

\* m_tableReference: start sets it, finishLuaQueryData frees it; addQuery does
\* not set it.
Referenced(d) ==
    /\ d \in Range(runningQueryData[owner[d]])
    /\ \A t \in Data : owner[t] \in Tx => d \notin Members(t)

\* LuaQuery::runSuccessCallback: onData for each row ...
RunSuccess(d) ==
    LET q == owner[d] IN
    /\ ThinkNext(d) /\ Referenced(d) /\ q \in Query /\ resultStatus[d] = "SUCCESS"
    /\ callbackQueryData' = [callbackQueryData EXCEPT ![q] = d]
    /\ m_dataReference' = [m_dataReference EXCEPT ![q] = Fresh(q, d)]
    /\ Enter("onData", d, <<Fresh(q, d)>>)
    /\ advanced' = FALSE
    /\ UNCHANGED runningQueryData

\* ... then onSuccess, if there is one, with what dataReference refers to now.
OnDataReturns ==
    LET q == owner[lua.d] IN
    /\ lua.at = "onData"
    /\ \/ /\ Enter("onSuccess", lua.d,
                   IF m_dataReference[q] = NoTable THEN <<>> ELSE <<m_dataReference[q]>>)
          /\ UNCHANGED runningQueryData
       \/ FinishLuaQueryData(lua.d) /\ Leave
    /\ UNCHANGED <<dataVars, resultVars, m_addedQueryData, queryQueue, threadVars,
                   finishedQueries, cacheVars, aborted, advanced, connection>>

\* LuaTransaction::runSuccessCallback; without onSuccess the tables stay
\* cached.
RunTransactionSuccess(d) ==
    LET table(i) == Fresh(owner[m_queries[d][i]], m_queries[d][i])
        shown == MembersShown(d)
    IN
    /\ ThinkNext(d) /\ Referenced(d) /\ owner[d] \in Tx /\ resultStatus[d] = "SUCCESS"
    /\ callbackQueryData' = shown
    /\ m_dataReference' = [q \in Query |-> IF \E m \in Members(d) : owner[m] = q
                                           THEN Fresh(q, shown[q]) ELSE m_dataReference[q]]
    /\ \/ /\ Enter("onSuccess", d, [i \in DOMAIN m_queries[d] |-> table(i)])
          /\ UNCHANGED runningQueryData
       \/ FinishLuaQueryData(d) /\ UNCHANGED lua
    /\ advanced' = FALSE

\* A transaction shows its queries' data, a query its own.
RunError(d) ==
    /\ ThinkNext(d) /\ Referenced(d) /\ resultStatus[d] = "ERROR"
    /\ callbackQueryData' = IF owner[d] \in Tx THEN MembersShown(d)
                            ELSE [callbackQueryData EXCEPT ![owner[d]] = d]
    /\ Enter("onError", d, <<>>)
    /\ UNCHANGED <<m_dataReference, runningQueryData, advanced, connection>>

\* What wait() has failed comes twice if the thread reports it as well, and a
\* query of a transaction has no callbacks: only runCallback's and
\* runSuccessCallback's first steps are taken.
RunUnreferenced(d) ==
    LET q == owner[d] IN
    /\ ThinkNext(d) /\ ~Referenced(d)
    /\ callbackQueryData' = IF q \in Query THEN [callbackQueryData EXCEPT ![q] = d]
                            ELSE callbackQueryData
    /\ m_dataReference' = IF q \in Query /\ resultStatus[d] = "SUCCESS"
                          THEN [m_dataReference EXCEPT ![q] = Fresh(q, d)]
                          ELSE m_dataReference
    /\ FinishLuaQueryData(d)
    /\ UNCHANGED <<lua, advanced>>

\* Only a transaction sets callback data.
RunAborted ==
    /\ lua.at = "script" /\ aborted # <<>>
    /\ callbackQueryData' = MembersShown(Head(aborted))
    /\ Enter("onAborted", Head(aborted), <<>>)
    /\ aborted' = Tail(aborted)
    /\ UNCHANGED <<dataVars, resultVars, m_addedQueryData, runningQueryData, queryQueue,
                   threadVars, finishedQueries, m_dataReference, advanced, connection>>

\* The tables are freed after onSuccess.
CallbackReturns ==
    /\ lua.at \in {"onSuccess", "onError", "onAborted"}
    /\ FinishLuaQueryData(lua.d) /\ Leave
    /\ m_dataReference' =
          [q \in Query |->
              IF lua.at = "onSuccess" /\ (\E d \in Members(lua.d) \cup {lua.d} : owner[d] = q)
              THEN NoTable ELSE m_dataReference[q]]
    /\ UNCHANGED <<dataVars, resultVars, m_addedQueryData, queryQueue, threadVars,
                   finishedQueries, callbackQueryData, aborted, advanced, connection>>

-----------------------------------------------------------------------------
Call ==
    \/ Connect
    \/ \E o \in Query \cup Tx : Wait(o) \/ Abort(o)
    \/ \E t \in Tx : ClearQueries(t) \/ StartTransaction(t)
    \/ \E t \in Tx, q \in Query : AddQuery(t, q)
    \/ \E q \in Query : StartQuery(q) \/ GetData(q) \/ GetNextResults(q)

Callbacks ==
    \/ \E d \in Data : RunSuccess(d) \/ RunTransactionSuccess(d) \/ RunError(d)
                        \/ RunUnreferenced(d)
    \/ OnDataReturns \/ RunAborted \/ CallbackReturns \/ WaitReturns

DatabaseThread == Take \/ Execute \/ Begin \/ ExecuteMember \/ Commit \/ Fail

Next == Call \/ Callbacks \/ DatabaseThread \/ EndThread

Spec == Init /\ [][Next]_vars

-----------------------------------------------------------------------------
(* Properties *)

(* Every variable holds a value of its type.                               *)
TypeOK ==
    /\ built \in 0..MaxData /\ owner \in [Data -> Query \cup Tx \cup {None}]
    /\ m_queries \in [Data -> Seq(Data)]
    /\ resultStatus \in [Data -> {"NONE", "ERROR", "SUCCESS"}]
    /\ results \in [Data -> Seq(0..MaxResults)] /\ finished \in SUBSET Data
    /\ m_addedQueryData \in [Tx -> Seq(Data)]
    /\ runningQueryData \in [Query \cup Tx -> Seq(Data)]
    /\ queryQueue \in Seq(Data) /\ finishedQueries \in Seq(Data) /\ aborted \in Seq(Data)
    /\ cur \in Data \cup {Null} /\ member \in 1..(MaxData + 2)
    /\ callbackQueryData \in [Query -> Data \cup {Null}]
    /\ m_dataReference \in [Query -> Table \cup {NoTable}]
    /\ lua \in [at : {"script", "waiting", "onData", "onSuccess", "onError", "onAborted"},
                d : Data \cup {Null}, argument : Seq(Table)]
    /\ advanced \in BOOLEAN
    /\ thread \in {"none", "up", "ended"}
    /\ failed \in [Data -> {None, "new", "queued", "executing", "aborted", "ERROR", "SUCCESS"}]

\* The data of transactions that share the queries' data with another start
\* of the same transaction.
Started == {d \in Data : \E o \in Tx : owner[d] = o}
Shared(m) == \E d, e \in Started : d # e /\ m \in Members(d) \cap Members(e)

\* The data that wait() has failed while they were queued or executing, and
\* the queries that go with them: their callbacks run, but they stay where
\* they are.
Disowned(m) ==
    \/ failed[m] # None
    \/ \E d \in Started : failed[d] # None /\ m \in Members(d)

(* What getData, getNextResults and the callbacks can look at is not being *)
(* written by the database thread, which uses no lock here.  There are two *)
(* exceptions: the same queries were started with their transaction twice, *)
(* or wait() was called before connect() and has failed them.              *)
NotWrittenWhileShown ==
    cur # Null =>
        \A q \in Query :
            LET d == callbackQueryData[q] IN
            d \in Members(cur) \cup {cur} => Shared(d) \/ Disowned(d)

(* onSuccess of a transaction gets one table per query, in the order of    *)
(* addQuery, each with the query's own first result set, also if one query *)
(* was added several times; onSuccess of a query gets the first result set *)
(* unless onData has called getNextResults.  A query of a transaction that *)
(* wait() has failed shows its data before the transaction does.           *)
OwnResults ==
    lua.at = "onSuccess" =>
        IF owner[lua.d] \in Tx
        THEN \A i \in DOMAIN m_queries[lua.d] :
                \/ Shared(m_queries[lua.d][i]) \/ failed[m_queries[lua.d][i]] # None
                \/ lua.argument[i] = [data |-> m_queries[lua.d][i], result |-> 1]
        ELSE advanced \/ lua.argument = <<[data |-> lua.d, result |-> 1]>>

\* The data whose callbacks are under way for a query.
ShownIn(q) == {d \in Members(lua.d) \cup {lua.d} : owner[d] = q}

(* In a success callback, a query shows its last data of the finished      *)
(* transaction (or of itself), and the cached table is that data's current *)
(* result set, never what an earlier callback has left in the cache.       *)
NoStaleTable ==
    lua.at \in {"onData", "onSuccess"} =>
        \A q \in Query : ShownIn(q) # {} =>
            /\ callbackQueryData[q] \in ShownIn(q)
            /\ LET d == callbackQueryData[q] IN
               \/ Shared(d)
               \/ m_dataReference[q] \in {NoTable, Fresh(q, d)}

\* The callback of a started data is still to come, or running.
Outstanding ==
    LET jobs == Range(queryQueue) \cup Range(finishedQueries) \cup Range(aborted)
                \cup ({cur, lua.d} \ {Null})
    IN  jobs \cup UNION {Members(d) : d \in jobs}

(* isRunning() of a query or transaction is true exactly from its start    *)
(* (or that of the transaction it was added to) to the end of its          *)
(* callback; one that wait() has failed may be queued or execute longer,   *)
(* but is not said to run when it does not.                                *)
RunningIsOutstanding ==
    \A d \in 1..built :
        LET running == d \in Range(runningQueryData[owner[d]]) IN
        \/ Shared(d)
        \/ /\ running => d \in Outstanding
           /\ d \in Outstanding => running \/ Disowned(d)

Stages == [d \in Data |-> StageOf(d)]

Lifecycle == INSTANCE QueryLifecycle WITH stage <- Stages

(* Queries and transactions implement QueryLifecycle, by what their data   *)
(* say without any history: m_resultStatus and finished are written by two *)
(* threads, and for the queries of a transaction by its execution, yet a   *)
(* started data is aborted or gets one result, which no later start of     *)
(* the same query or transaction changes.  wait() breaks this (a data it   *)
(* fails has an error and is still queued, or was a success before), so a  *)
(* data is followed until wait() fails it.                                 *)
ImplementsLifecycle == Lifecycle!Spec

(* query:wait() "forces the server to wait for the query to finish"        *)
(* (README): when it sleeps, the data is finished or the thread has it, or *)
(* will, and does not leave before; except for a query of a transaction,   *)
(* whose data nobody sets finished while the connection lasts.             *)
WaitIsAnswered ==
    lua.at = "waiting" =>
        \/ lua.d \in finished
        \/ thread = "up" /\ lua.d \in Range(queryQueue) \cup {cur}
        \/ \E d \in Started : lua.d \in Members(d)
===============================================================================
