------------------------------ MODULE Database ------------------------------
(***************************************************************************)
(* One Database object (src/mysql/Database.cpp) with the query objects     *)
(* that were created from it (src/mysql/IQuery.cpp), the database thread   *)
(* that connectRun() starts, and the one thread that runs Lua and calls    *)
(* the API ("main").  Main is the most general client: between two calls   *)
(* it may make any call that Api allows, also while it still holds results *)
(* it has not finished (a call made from a callback).                      *)
(*                                                                         *)
(* An action is one critical section or one access to a shared atomic; a   *)
(* call that blocks or touches shared state twice is several actions, with *)
(* pc (main) and thread (database thread) between them.                    *)
(*                                                                         *)
(* Every start of a query builds a new IQueryData.  The data are numbered  *)
(* in the order in which they are built; Null stands for nullptr: no data  *)
(* in m_waitingQuery, and the poison pill in queryQueue.                   *)
(***************************************************************************)
EXTENDS BlockingQueue, FiniteSetsExt

CONSTANTS
    Query,      \* the query objects Lua has created
    Ping,       \* the owner of the data of PingQuery objects
    MaxData,    \* bound on the IQueryData that are built
    MaxPills,   \* bound on the poison pills that are put
    Api,        \* the calls the client makes
    Faults      \* what may go wrong in connectRun: "connect", "init"

ASSUME ConstantsAssumption ==
    /\ Ping \notin Query
    /\ MaxData \in Nat
    /\ MaxPills \in Nat

Null == 0
Data == 1..MaxData

VARIABLES
    \* Database
    queryQueue, finishedQueries, m_waitingQuery, m_canWait,
    startedConnecting, m_status, m_success, m_connectionDone, m_serverInfo,
    disconnected,
    \* IQuery and IQueryData
    owner, built, running, status, resultStatus, finished,
    \* the database thread: where it is and the data it works on
    thread, cur,
    \* main: where it is, the data its call is about, what abort() has left to
    \* look at, and the results it took or aborted and has not finished yet
    pc, arg, todo, handed,
    \* history: what became of each data, the pills put so far, and the first
    \* data built after the first disconnect (Null: not disconnected)
    outcome, pills, cut

queueVars   == <<queryQueue, finishedQueries>>
waitVars    == <<m_waitingQuery, m_canWait>>
connVars    == <<startedConnecting, m_status, m_success, m_connectionDone,
                 m_serverInfo, disconnected>>
queryVars   == <<owner, built, running>>
dataVars    == <<status, resultStatus, finished>>
threadVars  == <<thread, cur>>
mainVars    == <<pc, arg, todo, handed>>
historyVars == <<outcome, pills, cut>>

vars == <<queueVars, waitVars, connVars, queryVars, dataVars, threadVars,
          mainVars, historyVars>>

-----------------------------------------------------------------------------
DatabaseStatus == {"CONNECTED", "CONNECTING", "NOT_CONNECTED",
                   "CONNECTION_FAILED"}
QueryStatus == {"NOT_RUNNING", "RUNNING", "COMPLETE", "ABORTED", "WAITING"}
QueryResultStatus == {"NONE", "ERROR", "SUCCESS"}

\* m_connectMutex is held by the database thread from its start until the
\* connection attempt is over.
HoldsConnectMutex == {"connecting", "connected", "statusSet", "initFailed",
                      "connectFailed", "failClose"}
\* Between take() and setFinished the database thread has cur in hand.
HasCur == {"taken", "running", "ran", "reported"}
ThreadState == HoldsConnectMutex \cup HasCur \cup
    {"none", "spawned", "taking", "notifying", "poisoned", "ending",
     "statusReset", "ended"}
MainState == {"idle", "enqueued", "swapping", "waiting", "sleeping", "woken",
              "pinged", "aborting", "connWaiting", "connSleeping", "joining",
              "thinking", "destroying", "destroyed", "crashed"}

Init ==
    /\ queryQueue = <<>> /\ finishedQueries = <<>>
    /\ m_waitingQuery = Null /\ m_canWait = FALSE
    /\ startedConnecting = FALSE /\ m_status = "NOT_CONNECTED"
    /\ m_success = TRUE /\ m_connectionDone = FALSE
    /\ m_serverInfo = FALSE /\ disconnected = FALSE
    /\ owner = [d \in Data |-> Ping] /\ built = 0 /\ running = {}
    /\ status = [d \in Data |-> "NOT_RUNNING"]
    /\ resultStatus = [d \in Data |-> "NONE"]
    /\ finished = [d \in Data |-> FALSE]
    /\ thread = "none" /\ cur = Null
    /\ pc = "idle" /\ arg = Null /\ todo = {} /\ handed = {}
    /\ outcome = [d \in Data |-> "none"] /\ pills = 0 /\ cut = Null

-----------------------------------------------------------------------------
(* Main: starting queries *)

\* The end of a call; Lua's wait and disconnect(true) end with a think().
Return == pc' = "idle" /\ arg' = Null
ReturnToThink == pc' = "thinking" /\ arg' = Null

\* runningQueryData of a query object.  Data enter it in the order in which
\* they are built, so back() is the greatest.
RunningOf(q) == {d \in running : owner[d] = q}

\* buildQueryData (LuaQuery's sets QUERY_COMPLETE), addQueryData and the put
\* of enqueueQuery.
EnqueueIn(queue, q) ==
    LET d == built + 1 IN
    /\ pc = "idle" /\ built < MaxData
    /\ built' = d
    /\ owner' = [owner EXCEPT ![d] = q]
    /\ status' = [status EXCEPT ![d] = IF q = Ping THEN @ ELSE "COMPLETE"]
    /\ running' = running \cup {d}
    /\ queryQueue' = queue
    /\ pc' = "enqueued" /\ arg' = d
    /\ UNCHANGED <<finishedQueries, waitVars, connVars, resultStatus, finished,
                   threadVars, todo, handed, historyVars>>

\* Mutant: the newest query goes first.
EnqueueFirst(q) == EnqueueIn(<<built + 1>> \o queryQueue, q)

Enqueue(q) == EnqueueIn(put(queryQueue, built + 1), q)

Start(q) == "start" \in Api /\ Enqueue(q)

PingStart == "ping" \in Api /\ Enqueue(Ping)

\* The rest of enqueueQuery: the data is already in the queue.  ping() goes
\* on with wait(true).
SetWaiting ==
    /\ pc = "enqueued"
    /\ status' = [status EXCEPT ![arg] = "WAITING"]
    /\ IF owner[arg] = Ping THEN pc' = "swapping" /\ arg' = arg ELSE Return
    /\ UNCHANGED <<queueVars, waitVars, connVars, queryVars, resultStatus,
                   finished, threadVars, todo, handed, historyVars>>

-----------------------------------------------------------------------------
(* Main: waiting for a query, and ping() *)

\* IQuery::wait throws unless a data of the query is running.
Wait(q) ==
    /\ pc = "idle" /\ RunningOf(q) # {}
    /\ arg' = Max(RunningOf(q))
    /\ \/ "wait" \in Api /\ pc' = "waiting"
       \/ "swapWait" \in Api /\ pc' = "swapping"
    /\ UNCHANGED <<queueVars, waitVars, connVars, queryVars, dataVars,
                   threadVars, todo, handed, historyVars>>

SwapToFront ==
    /\ pc = "swapping"
    /\ queryQueue' = swapToFrontIf(queryQueue, arg)
    /\ pc' = "waiting"
    /\ UNCHANGED <<finishedQueries, waitVars, connVars, queryVars, dataVars,
                   threadVars, arg, todo, handed, historyVars>>

\* failWaitingQuery, called by both threads.
FailWaitingQuery(d) ==
    /\ resultStatus' = [resultStatus EXCEPT ![d] = "ERROR"]
    /\ status' = [status EXCEPT ![d] = "COMPLETE"]
    /\ finished' = [finished EXCEPT ![d] = TRUE]
    /\ finishedQueries' = put(finishedQueries, d)

\* When waitForQuery returns, so does wait(); ping() has more to do.
ReturnFromWait ==
    IF owner[arg] = Ping THEN pc' = "pinged" /\ arg' = arg ELSE ReturnToThink

\* waitForQuery up to its return or to the wait on the condition variable,
\* which releases m_queryWaitMutex as it blocks.
WaitUnless(over) ==
    /\ pc = "waiting"
    /\ \/ /\ ~m_canWait
          /\ FailWaitingQuery(arg)
          /\ ReturnFromWait /\ UNCHANGED m_waitingQuery
       \/ /\ m_canWait /\ over
          /\ ReturnFromWait
          /\ UNCHANGED <<dataVars, finishedQueries, m_waitingQuery>>
       \/ /\ m_canWait /\ ~over
          /\ m_waitingQuery' = arg /\ pc' = "sleeping" /\ arg' = arg
          /\ UNCHANGED <<dataVars, finishedQueries>>
    /\ UNCHANGED <<queryQueue, m_canWait, connVars, queryVars, threadVars,
                   todo, handed, historyVars>>

\* Mutant: waitForQuery does not look at isFinished before it sleeps.
WaitForQueryBlind == WaitUnless(FALSE)

WaitForQuery == WaitUnless(finished[arg])

\* The wait on the condition variable tests its predicate after a notify.
Wake ==
    /\ pc = "woken"
    /\ IF finished[arg] THEN ReturnFromWait
                        ELSE pc' = "sleeping" /\ arg' = arg
    /\ UNCHANGED <<queueVars, waitVars, connVars, queryVars, dataVars,
                   threadVars, todo, handed, historyVars>>

\* The end of ping(): its data leaves finishedQueries and runningQueryData.
PingEndWith(left) ==
    /\ pc = "pinged"
    /\ finishedQueries' = left
    /\ running' = running \ {arg}
    /\ Return
    /\ UNCHANGED <<queryQueue, waitVars, connVars, owner, built, dataVars,
                   threadVars, todo, handed, historyVars>>

\* Mutant: ping() clears finishedQueries instead of removing its own data.
PingEndClear == PingEndWith(<<>>)

PingEnd == PingEndWith(removeIf(finishedQueries, {arg}))

-----------------------------------------------------------------------------
(* Main: aborting queries, taking and finishing results *)

\* Data that left queryQueue by an abort: no other thread knows them any
\* more.  The caller runs their callbacks and finishes them.
SetAborted(D) ==
    /\ status' = [d \in Data |-> IF d \in D THEN "ABORTED" ELSE status[d]]
    /\ finished' = [d \in Data |-> d \in D \/ finished[d]]
    /\ outcome' = [d \in Data |-> IF d \in D THEN "aborted" ELSE outcome[d]]

\* IQuery::abort copies runningQueryData ...
Abort(q) ==
    /\ "abort" \in Api
    /\ pc = "idle" /\ RunningOf(q) # {}
    /\ todo' = RunningOf(q)
    /\ pc' = "aborting"
    /\ UNCHANGED <<queueVars, waitVars, connVars, queryVars, dataVars,
                   threadVars, arg, handed, historyVars>>

\* ... and tries to remove one data after the other.
AbortNext(removed) ==
    LET d == Min(todo) IN
    /\ pc = "aborting"
    /\ queryQueue' = removeIf(queryQueue, {d})
    /\ SetAborted(removed)
    /\ handed' = handed \cup removed
    /\ todo' = todo \ {d}
    /\ pc' = IF todo = {d} THEN "idle" ELSE "aborting"
    /\ UNCHANGED <<finishedQueries, waitVars, connVars, queryVars,
                   resultStatus, threadVars, arg, pills, cut>>

\* Mutant: abort() does not look at the result of removeIf.
AbortOneAlways == AbortNext({Min(todo)})

AbortOne == AbortNext({Min(todo)} \cap Range(queryQueue))

\* Database::abortAllQueries takes everything, poison pills too, but leaves
\* their null pointers alone.  Its caller follows them, and the process ends.
AbortAll ==
    LET removed == Range(queryQueue) \ {Null} IN
    /\ "abortAll" \in Api
    /\ pc = "idle"
    /\ queryQueue' = <<>>
    /\ SetAborted(removed)
    /\ handed' = handed \cup removed
    /\ pc' = IF Null \in Range(queryQueue) THEN "crashed" ELSE "idle"
    /\ UNCHANGED <<finishedQueries, waitVars, connVars, queryVars,
                   resultStatus, threadVars, arg, todo, pills, cut>>

\* takeFinishedQueries, called by think(), which goes on to run the callbacks.
\* The think hook runs on every tick ...
Hand(results) ==
    /\ handed' = handed \cup results
    /\ finishedQueries' = <<>>
    /\ pc' = "idle"
    /\ UNCHANGED <<queryQueue, waitVars, connVars, queryVars, dataVars,
                   threadVars, arg, todo, historyVars>>

\* Mutant: one result is looked at and the queue cleared.
TakeFinishedQueriesOne ==
    Hand({finishedQueries[i] : i \in {1} \cap DOMAIN finishedQueries})

TakeFinishedQueries == Hand(Range(finishedQueries))

ThinkHook == pc = "idle" /\ TakeFinishedQueries

\* ... and the calls that waited think before they return.
Think == pc = "thinking" /\ TakeFinishedQueries

\* finishQueryData, once the callback of the data has returned.
FinishData(d) ==
    /\ pc = "idle" /\ d \in handed
    /\ handed' = handed \ {d}
    /\ running' = running \ {d}
    /\ UNCHANGED <<queueVars, waitVars, connVars, owner, built, dataVars,
                   threadVars, pc, arg, todo, historyVars>>

-----------------------------------------------------------------------------
(* Main: connecting and disconnecting *)

\* connect() throws if it was called before.
Connect ==
    /\ "connect" \in Api
    /\ pc = "idle" /\ m_status = "NOT_CONNECTED" /\ ~startedConnecting
    /\ m_canWait' = TRUE /\ startedConnecting' = TRUE
    /\ m_status' = "CONNECTING" /\ thread' = "spawned"
    /\ UNCHANGED <<queueVars, m_waitingQuery, m_success, m_connectionDone,
                   m_serverInfo, disconnected, queryVars, dataVars, cur,
                   mainVars, historyVars>>

\* Database::wait throws unless connect() was called.
ConnectWait ==
    /\ "connectWait" \in Api
    /\ pc = "idle" /\ startedConnecting
    /\ pc' = "connWaiting"
    /\ UNCHANGED <<queueVars, waitVars, connVars, queryVars, dataVars,
                   threadVars, arg, todo, handed, historyVars>>

\* Mutant: wait() looks at m_connectionDone without m_connectMutex.
ConnectTestUnlocked ==
    /\ pc = "connWaiting"
    /\ pc' = IF m_connectionDone THEN "thinking" ELSE "connSleeping"
    /\ UNCHANGED <<queueVars, waitVars, connVars, queryVars, dataVars,
                   threadVars, arg, todo, handed, historyVars>>

\* Its loop, entered with m_connectMutex and again after each wakeup.
ConnectTest == thread \notin HoldsConnectMutex /\ ConnectTestUnlocked

\* shutdown(): the poison pill.
ShutdownIn(queue) ==
    /\ pc = "idle" /\ pills < MaxPills
    /\ queryQueue' = queue
    /\ pills' = pills + 1
    /\ cut' = IF cut = Null THEN built + 1 ELSE cut
    /\ UNCHANGED <<finishedQueries, waitVars, connVars, queryVars, dataVars,
                   threadVars, arg, todo, handed, outcome>>

\* Mutant: the pill overtakes what is queued.
ShutdownFirst == ShutdownIn(<<Null>> \o queryQueue)

Shutdown == ShutdownIn(put(queryQueue, Null))

\* A thread that was never started cannot be joined, one that was joined has
\* ended.
Disconnect == "disconnect" \in Api /\ Shutdown /\ pc' = "idle"

DisconnectWait ==
    /\ "disconnectWait" \in Api
    /\ Shutdown
    /\ pc' = IF thread = "none" THEN "thinking" ELSE "joining"

Join ==
    /\ pc = "joining" /\ thread = "ended"
    /\ pc' = "thinking"
    /\ UNCHANGED <<queueVars, waitVars, connVars, queryVars, dataVars,
                   threadVars, arg, todo, handed, historyVars>>

\* LuaDatabase::onDestroyedByLua: disconnect(true), then nothing may stay in
\* the queues.  No callback runs.
Destroy == "destroy" \in Api /\ Shutdown /\ pc' = "destroying"

Destroyed ==
    /\ pc = "destroying" /\ thread \in {"none", "ended"}
    /\ finishedQueries' = <<>> /\ queryQueue' = <<>>
    /\ SetAborted(Range(queryQueue) \ {Null})
    /\ pc' = "destroyed"
    /\ UNCHANGED <<waitVars, connVars, queryVars, resultStatus, threadVars,
                   arg, todo, handed, pills, cut>>

-----------------------------------------------------------------------------
(* The database thread: connectRun() *)

LockConnect ==
    /\ thread = "spawned"
    /\ thread' = "connecting"
    /\ UNCHANGED <<queueVars, waitVars, connVars, queryVars, dataVars, cur,
                   mainVars, historyVars>>

\* mysql_init and attemptConnection, then m_success (which is read only when
\* m_connectionDone is set) and m_connectionDone.
ConnectionDone ==
    /\ thread = "connecting"
    /\ \/ thread' = "connected" /\ m_success' = TRUE
       \/ "connect" \in Faults /\ thread' = "connectFailed" /\ m_success' = FALSE
       \/ "init" \in Faults /\ thread' = "initFailed" /\ m_success' = FALSE
    /\ m_connectionDone' = TRUE
    /\ UNCHANGED <<queueVars, waitVars, startedConnecting, m_status,
                   m_serverInfo, disconnected, queryVars, dataVars, cur,
                   mainVars, historyVars>>

\* Mutant: nobody notifies m_connectWakeupVariable.
NotifyNobody(p) == p

\* Leaving the scope of the connection attempt releases m_connectMutex and
\* then notifies Database::wait.
NotifyConnected(p) == IF p = "connSleeping" THEN "connWaiting" ELSE p

\* m_status follows m_connectionDone.  When mysql_init failed, connectRun
\* returns here.
SetConnectionStatus ==
    /\ \/ /\ thread = "connected"
          /\ m_status' = "CONNECTED" /\ thread' = "statusSet" /\ pc' = pc
       \/ /\ thread = "connectFailed"
          /\ m_status' = "CONNECTION_FAILED" /\ thread' = "failClose" /\ pc' = pc
       \/ /\ thread = "initFailed"
          /\ m_status' = "CONNECTION_FAILED" /\ thread' = "ending"
          /\ pc' = NotifyConnected(pc)
    /\ UNCHANGED <<queueVars, waitVars, startedConnecting, m_success,
                   m_connectionDone, m_serverInfo, disconnected, queryVars,
                   dataVars, cur, arg, todo, handed, historyVars>>

SetServerInfo ==
    /\ thread = "statusSet"
    /\ m_serverInfo' = TRUE
    /\ thread' = "taking"
    /\ pc' = NotifyConnected(pc)
    /\ UNCHANGED <<queueVars, waitVars, startedConnecting, m_status, m_success,
                   m_connectionDone, disconnected, queryVars, dataVars, cur,
                   arg, todo, handed, historyVars>>

NotifyWaiting(p) == IF p = "sleeping" THEN "woken" ELSE p

\* abortWaitingQuery: nobody can wait from now on, and who waits is told.
FailWaiting(p, canWait) ==
    /\ m_canWait' = canWait
    /\ m_waitingQuery' = Null
    /\ IF m_waitingQuery = Null
       THEN pc' = p /\ UNCHANGED <<dataVars, finishedQueries>>
       ELSE pc' = NotifyWaiting(p) /\ FailWaitingQuery(m_waitingQuery)

\* Mutant: m_canWait stays set.
AbortWaitingQueryOpen(p) == FailWaiting(p, m_canWait)

AbortWaitingQuery(p) == FailWaiting(p, FALSE)

\* The connection attempt failed: close the handle and give up.
FailClose ==
    /\ thread = "failClose"
    /\ AbortWaitingQuery(NotifyConnected(pc))
    /\ thread' = "ending"
    /\ UNCHANGED <<queryQueue, connVars, queryVars, cur, arg, todo, handed,
                   historyVars>>

\* closeConnection, after run() has returned.
CloseConnection ==
    /\ thread = "poisoned"
    /\ AbortWaitingQuery(pc)
    /\ thread' = "ending"
    /\ UNCHANGED <<queryQueue, connVars, queryVars, cur, arg, todo, handed,
                   historyVars>>

\* threadEnd: first m_status, then disconnected.
ResetStatus ==
    /\ thread = "ending"
    /\ m_status' = IF m_status = "CONNECTED" THEN "NOT_CONNECTED" ELSE m_status
    /\ thread' = "statusReset"
    /\ UNCHANGED <<queueVars, waitVars, startedConnecting, m_success,
                   m_connectionDone, m_serverInfo, disconnected, queryVars,
                   dataVars, cur, mainVars, historyVars>>

ThreadEnd ==
    /\ thread = "statusReset"
    /\ disconnected' = TRUE
    /\ thread' = "ended"
    /\ UNCHANGED <<queueVars, waitVars, startedConnecting, m_status, m_success,
                   m_connectionDone, m_serverInfo, queryVars, dataVars, cur,
                   mainVars, historyVars>>

-----------------------------------------------------------------------------
(* The database thread: run() *)

\* The next data, and where the thread goes with it.
TakeThen(place) ==
    /\ thread = "taking" /\ NonEmpty(queryQueue)
    /\ queryQueue' = Tail(queryQueue)
    /\ cur' = Head(queryQueue)
    /\ thread' = place
    /\ UNCHANGED <<finishedQueries, waitVars, connVars, queryVars, dataVars,
                   mainVars, historyVars>>

\* Mutant: the pill is not recognised.
TakeAnything == TakeThen("taken")

Take == TakeThen(IF Head(queryQueue) = Null THEN "poisoned" ELSE "taken")

SetRunning ==
    /\ thread = "taken"
    /\ status' = [status EXCEPT ![cur] = "RUNNING"]
    /\ thread' = "running"
    /\ UNCHANGED <<queueVars, waitVars, connVars, queryVars, resultStatus,
                   finished, cur, mainVars, historyVars>>

\* runQuery, with its retry, and setStatus(QUERY_COMPLETE).
RunQuery ==
    /\ thread = "running"
    /\ \E r \in {"SUCCESS", "ERROR"} :
          /\ resultStatus' = [resultStatus EXCEPT ![cur] = r]
          /\ outcome' = [outcome EXCEPT ![cur] = r]
    /\ status' = [status EXCEPT ![cur] = "COMPLETE"]
    /\ thread' = "ran"
    /\ UNCHANGED <<queueVars, waitVars, connVars, queryVars, finished, cur,
                   mainVars, pills, cut>>

PutFinished ==
    /\ thread = "ran"
    /\ finishedQueries' = put(finishedQueries, cur)
    /\ thread' = "reported"
    /\ UNCHANGED <<queryQueue, waitVars, connVars, queryVars, dataVars, cur,
                   mainVars, historyVars>>

\* The section under m_queryWaitMutex.
SetFinished ==
    /\ thread = "reported"
    /\ finished' = [finished EXCEPT ![cur] = TRUE]
    /\ m_waitingQuery' = IF m_waitingQuery = cur THEN Null ELSE m_waitingQuery
    /\ cur' = Null
    /\ thread' = "notifying"
    /\ UNCHANGED <<queueVars, m_canWait, connVars, queryVars, status,
                   resultStatus, mainVars, historyVars>>

NotifyAll ==
    /\ thread = "notifying"
    /\ thread' = "taking"
    /\ pc' = NotifyWaiting(pc)
    /\ UNCHANGED <<queueVars, waitVars, connVars, queryVars, dataVars, cur,
                   arg, todo, handed, historyVars>>

-----------------------------------------------------------------------------
\* A condition variable may wake its waiter although nobody notified it.
SpuriousWakeup ==
    /\ pc \in {"sleeping", "connSleeping"}
    /\ pc' = NotifyWaiting(NotifyConnected(pc))
    /\ UNCHANGED <<queueVars, waitVars, connVars, queryVars, dataVars,
                   threadVars, arg, todo, handed, historyVars>>

\* The calls main may begin when it is not in a call.
Call ==
    \/ \E q \in Query : Start(q) \/ Wait(q) \/ Abort(q)
    \/ PingStart \/ AbortAll \/ Connect \/ ConnectWait
    \/ Disconnect \/ DisconnectWait \/ Destroy

\* What main does in a call it has begun.
InCall ==
    \/ SetWaiting \/ SwapToFront \/ WaitForQuery \/ Wake \/ PingEnd
    \/ AbortOne \/ ConnectTest \/ Join \/ Think \/ Destroyed

Finish == \E d \in Data : FinishData(d)

DatabaseThread ==
    /\ pc # "crashed"
    /\ \/ LockConnect \/ ConnectionDone \/ SetConnectionStatus \/ SetServerInfo
       \/ FailClose \/ CloseConnection \/ ResetStatus \/ ThreadEnd
       \/ Take \/ SetRunning \/ RunQuery \/ PutFinished \/ SetFinished \/ NotifyAll

\* The object, or the process, is gone.
Gone == pc \in {"destroyed", "crashed"} /\ UNCHANGED vars

Next ==
    \/ Call \/ InCall \/ ThinkHook \/ Finish
    \/ DatabaseThread \/ SpuriousWakeup \/ Gone

Spec == Init /\ [][Next]_vars

\* Both threads are scheduled (a call that has begun goes on, a statement and
\* a connection attempt end), and the think hook runs again and again, which
\* takes and finishes results.
Fairness ==
    /\ WF_vars(DatabaseThread)
    /\ WF_vars(InCall)
    /\ SF_vars(ThinkHook)
    /\ \A d \in Data : SF_vars(FinishData(d))

FairSpec == Spec /\ Fairness
=============================================================================
