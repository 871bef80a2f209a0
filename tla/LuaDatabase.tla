----------------------------- MODULE LuaDatabase -----------------------------
(***************************************************************************)
(* The Lua side of one database (src/lua): the think function that reports *)
(* the connection and the results, the callbacks, from which Lua may call  *)
(* into the module again, and the references and collections that decide   *)
(* how long the objects live.                                              *)
(*                                                                         *)
(* There is one Lua thread.  Its calls are a stack of frames, the last one *)
(* is running; a callback is a place in a frame.  The database thread      *)
(* moves between any two steps (Database looks at both threads closely;    *)
(* here execution and its report are one step each).                       *)
(***************************************************************************)
EXTENDS BlockingQueue, FiniteSetsExt, SequencesExt

CONSTANTS
    Query,     \* the query objects Lua may create
    MaxData,   \* bound on the starts
    MaxPills,  \* bound on the calls of disconnect
    MaxDepth,  \* bound on the frames
    Fields     \* the callbacks the script sets on the database

ASSUME LuaAssumption ==
    /\ MaxData \in Nat /\ MaxPills \in Nat /\ MaxDepth \in Nat
    /\ "database" \notin Query

Db == "database"
None == "none"
Null == 0
Data == 1..MaxData

VARIABLES
    \* the database thread and what it shares with Lua
    thread, m_success, queryQueue, cur, finishedQueries, finished,
    \* the started data: how many, their query, which of them are in
    \* runningQueryData, and the references Lua holds for them
    built, owner, running, references,
    \* LuaDatabase
    m_tableReference, m_hasOnDisconnected, m_dbCallbackRan,
    \* Lua: the calls, the objects that exist, and what the script holds
    stack, queries, held, dbHeld, destroyed,
    \* history: end callbacks of each data, data that failWaitingQuery failed,
    \* the poison pills, whether onDisconnected came before the connection was
    \* reported ("early") or connect was called twice ("again"), and what was
    \* done to a freed reference
    ends, failed, pills, disorder, misuse

threadVars  == <<thread, m_success, cur, finished>>
queueVars   == <<queryQueue, finishedQueries>>
dataVars    == <<built, owner, running, references>>
tableVars   == <<m_tableReference, m_hasOnDisconnected, m_dbCallbackRan>>
objectVars  == <<queries, held, dbHeld, destroyed>>
historyVars == <<ends, failed, pills, disorder, misuse>>
vars == <<threadVars, queueVars, dataVars, tableVars, objectVars, stack, historyVars>>

\* A reference is created once, and zeroed when it is freed, or not.
Reference == {"zero", "live", "freed"}

\* Lua code runs in these places of a frame.
Callback == {"connectionCallback", "resultCallback", "abortedCallback",
             "disconnectedCallback"}

\* Where a frame is, whose method runs, the data it has to finish, and the
\* data it waits for.
Frame == [at : Callback \cup
               {"connection", "connectionReported", "take", "results",
                "disconnected", "aborted", "waiting", "sleeping", "connecting",
                "joining", "destroying"},
          self : Query \cup {Db}, todo : Seq(Data), d : Data \cup {Null}]

Init ==
    /\ thread = "none" /\ m_success = TRUE /\ cur = Null
    /\ queryQueue = <<>> /\ finishedQueries = <<>>
    /\ finished = [d \in Data |-> FALSE]
    /\ built = 0 /\ owner = [d \in Data |-> None] /\ running = {}
    /\ references = [d \in Data |-> "zero"]
    /\ m_tableReference = "zero" /\ m_hasOnDisconnected = FALSE
    /\ m_dbCallbackRan = FALSE
    /\ stack = <<>> /\ queries = {} /\ held = {} /\ dbHeld = TRUE
    /\ destroyed = FALSE
    /\ ends = [d \in Data |-> 0] /\ failed = {} /\ pills = 0
    /\ disorder = {} /\ misuse = None

-----------------------------------------------------------------------------
(* Frames *)

Top == stack[Len(stack)]
Goto(at) == stack' = [stack EXCEPT ![Len(stack)].at = at]
Return == stack' = Front(stack)

At(places) == misuse = None /\ stack # <<>> /\ Top.at \in places

\* A method of self, called from Lua, that blocks or runs callbacks.
Enter(at, self, todo, d) ==
    /\ Len(stack) < MaxDepth
    /\ stack' = Append(stack, [at |-> at, self |-> self, todo |-> todo, d |-> d])

\* The script runs, between two frames of the game or in a callback.
LuaRuns == misuse = None /\ ~destroyed /\ (stack = <<>> \/ At(Callback))

\* What the script can call: what it holds, and the argument of the callback.
Reaches(q) ==
    q \in held \/ (At({"resultCallback", "abortedCallback"}) /\ owner[Head(Top.todo)] = q)
ReachesDb == dbHeld \/ At({"connectionCallback", "disconnectedCallback"})

\* isConnectionDone, m_canWait, wasDisconnected
ConnectionDone == thread \in {"up", "failed", "poisoned", "ended"}
CanWait == thread \in {"connecting", "up", "failed", "poisoned"}
WasDisconnected == thread = "ended"

RunningOf(q) == {d \in running : owner[d] = q}

-----------------------------------------------------------------------------
(* Calls from Lua *)

\* db:query, db:prepare and db:createTransaction reference the database.
CreateQuery(q) ==
    /\ LuaRuns /\ ReachesDb
    /\ q \notin queries /\ \A d \in Data : owner[d] # q
    /\ queries' = queries \cup {q} /\ held' = held \cup {q}
    /\ UNCHANGED <<threadVars, queueVars, dataVars, tableVars, dbHeld, destroyed,
                   stack, historyVars>>

\* referenceCallbacks and IQuery::start; queued is the data that is built.
Starting(q, queued) ==
    /\ LuaRuns /\ Reaches(q) /\ built < MaxData
    /\ built' = built + 1 /\ owner' = [owner EXCEPT ![built + 1] = q]
    /\ running' = running \cup {queued}
    /\ references' = [references EXCEPT ![built + 1] = "live"]
    /\ queryQueue' = put(queryQueue, queued)
    /\ UNCHANGED <<threadVars, finishedQueries, tableVars, objectVars, stack, historyVars>>

\* Mutant: the previous data is queued.
StartPrevious(q) == Starting(q, built)

Start(q) == Starting(q, built + 1)

Wait(q) ==
    /\ LuaRuns /\ Reaches(q) /\ RunningOf(q) # {}
    /\ LET d == Max(RunningOf(q)) IN
       /\ queryQueue' \in {queryQueue, swapToFrontIf(queryQueue, d)}
       /\ Enter("waiting", q, <<>>, d)
    /\ UNCHANGED <<threadVars, finishedQueries, dataVars, tableVars, objectVars,
                   historyVars>>

\* Data that were aborted, todo; the queue is what is left of it.
Aborted(self, todo, queue) ==
    /\ todo # <<>>
    /\ Enter("aborted", self, todo, Null)
    /\ queryQueue' = queue
    /\ finished' = [d \in Data |-> finished[d] \/ d \in Range(todo)]
    /\ UNCHANGED <<thread, m_success, cur, finishedQueries, dataVars, tableVars,
                   objectVars, historyVars>>

\* Mutant: the data stay in the queue.
RunAbortedStillQueued(self, todo) == Aborted(self, todo, queryQueue)

RunAborted(self, todo) ==
    Aborted(self, todo, removeIf(queryQueue, Range(todo)))

\* q:abort, for the running data that are in the queue, the oldest first.
Abort(q) ==
    LET removed == RunningOf(q) \cap Range(queryQueue) IN
    /\ LuaRuns /\ Reaches(q)
    /\ \E todo \in [1..Cardinality(removed) -> removed] :
          /\ \A i, j \in DOMAIN todo : i < j => todo[i] < todo[j]
          /\ RunAborted(q, todo)

\* db:abortAllQueries.  (With a pill in the queue the process ends, see
\* Database.)
AbortAll ==
    /\ LuaRuns /\ ReachesDb /\ Null \notin Range(queryQueue)
    /\ RunAborted(Db, queryQueue)

\* db:connect.  A second call throws, after it has done its work here.
Connecting(reference) ==
    /\ LuaRuns /\ ReachesDb
    /\ disorder' = disorder \cup (IF thread = "none" THEN {} ELSE {"again"})
    /\ m_tableReference' = IF m_tableReference = "zero" THEN reference ELSE m_tableReference
    /\ misuse' = IF m_tableReference = "freed" THEN "use" ELSE None
    /\ m_hasOnDisconnected' = ("onDisconnected" \in Fields)
    /\ thread' = IF thread = "none" THEN "connecting" ELSE thread
    /\ UNCHANGED <<m_success, cur, finished, queueVars, dataVars, m_dbCallbackRan,
                   objectVars, stack, ends, failed, pills>>

\* Mutant: no reference is created.
ConnectUnreferenced == Connecting("zero")

Connect == Connecting("live")

\* db:wait
ConnectWait ==
    /\ LuaRuns /\ ReachesDb /\ thread # "none"
    /\ Enter("connecting", Db, <<>>, Null)
    /\ UNCHANGED <<threadVars, queueVars, dataVars, tableVars, objectVars, historyVars>>

\* db:disconnect
Disconnect ==
    /\ LuaRuns /\ ReachesDb /\ pills < MaxPills
    /\ queryQueue' = put(queryQueue, Null) /\ pills' = pills + 1
    /\ \/ UNCHANGED stack
       \/ Enter("joining", Db, <<>>, Null)
    /\ UNCHANGED <<threadVars, finishedQueries, dataVars, tableVars, objectVars,
                   ends, failed, disorder, misuse>>

\* mysqlooThink finds the database in the weak table while it lives.
ThinkHook ==
    /\ misuse = None /\ stack = <<>> /\ ~destroyed
    /\ Enter("connection", Db, <<>>, Null)
    /\ UNCHANGED <<threadVars, queueVars, dataVars, tableVars, objectVars, historyVars>>

-----------------------------------------------------------------------------
(* Blocking *)

\* waitForQuery, then think.
WaitForQuery ==
    /\ At({"waiting"})
    /\ \/ /\ ~CanWait
          /\ finished' = [finished EXCEPT ![Top.d] = TRUE]
          /\ finishedQueries' = put(finishedQueries, Top.d)
          /\ failed' = failed \cup {Top.d}
          /\ Goto("connection")
       \/ /\ CanWait
          /\ Goto(IF finished[Top.d] THEN "connection" ELSE "sleeping")
          /\ UNCHANGED <<finished, finishedQueries, failed>>
    /\ UNCHANGED <<thread, m_success, cur, queryQueue, dataVars, tableVars,
                   objectVars, ends, pills, disorder, misuse>>

\* The other blocking calls end, and go on with think.
Unblock ==
    /\ \/ At({"sleeping"}) /\ finished[Top.d]
       \/ At({"connecting"}) /\ ConnectionDone
       \/ At({"joining"}) /\ thread \in {"none", "ended"}
    /\ Goto("connection")
    /\ UNCHANGED <<threadVars, queueVars, dataVars, tableVars, objectVars, historyVars>>

-----------------------------------------------------------------------------
(* LuaDatabase::think *)

ThinkConnection ==
    /\ At({"connection"})
    /\ \/ /\ ConnectionDone /\ ~m_dbCallbackRan /\ m_tableReference # "zero"
          /\ m_dbCallbackRan' = TRUE
          /\ misuse' = IF m_tableReference = "freed" THEN "use" ELSE None
          /\ Goto(IF (IF m_success THEN "onConnected" ELSE "onConnectionFailed") \in Fields
                  THEN "connectionCallback" ELSE "connectionReported")
       \/ /\ ~ConnectionDone \/ m_dbCallbackRan \/ m_tableReference = "zero"
          /\ Goto("take") /\ UNCHANGED <<m_dbCallbackRan, misuse>>
    /\ UNCHANGED <<threadVars, queueVars, dataVars, m_tableReference,
                   m_hasOnDisconnected, objectVars, ends, failed, pills, disorder>>

\* The callback has returned, and its reference is freed or kept.
Reported(kept) ==
    /\ At({"connectionCallback", "connectionReported"})
    /\ IF kept THEN UNCHANGED <<m_tableReference, misuse>>
       ELSE /\ m_tableReference' = "zero"
            /\ misuse' = IF m_tableReference = "freed" THEN "free" ELSE None
    /\ Goto("take")
    /\ UNCHANGED <<threadVars, queueVars, dataVars, m_hasOnDisconnected,
                   m_dbCallbackRan, objectVars, ends, failed, pills, disorder>>

\* Mutant: the reference is freed although onDisconnected needs it.
ConnectionReportedFrees == Reported(FALSE)

ConnectionReported == Reported(m_hasOnDisconnected)

\* takeFinishedQueries
Taken(results) ==
    /\ At({"take"})
    /\ stack' = [stack EXCEPT ![Len(stack)].at = "results", ![Len(stack)].todo = results]
    /\ finishedQueries' = <<>>
    /\ UNCHANGED <<threadVars, queryQueue, dataVars, tableVars, objectVars, historyVars>>

\* Mutant: results that are not the newest are dropped.
ThinkTakeNewest == Taken(SubSeq(finishedQueries, Max({1, Len(finishedQueries)}),
                                Len(finishedQueries)))

ThinkTake == Taken(finishedQueries)

Place(callback) == IF callback = "resultCallback" THEN "results" ELSE "aborted"

\* Mutant: the references are not freed.
FinishLeaking(d) ==
    running' = running \ {d} /\ UNCHANGED <<references, misuse>>

\* Mutant: the references are freed but not zeroed.
FinishKeeping(d) ==
    /\ running' = running \ {d}
    /\ references' = [references EXCEPT ![d] = IF @ = "zero" THEN @ ELSE "freed"]
    /\ misuse' = IF references[d] = "freed" THEN "free" ELSE None

\* finishLuaQueryData frees what is there, and zeroes it.
FinishLuaQueryData(d) ==
    /\ running' = running \ {d}
    /\ references' = [references EXCEPT ![d] = "zero"]
    /\ misuse' = IF references[d] = "freed" THEN "free" ELSE None

\* The callback of the next data, or, without its references, its end.
RunCallback ==
    /\ At({"results", "aborted"}) /\ Top.todo # <<>>
    /\ LET d == Head(Top.todo) IN
       \/ /\ references[d] # "zero"
          /\ misuse' = IF references[d] = "freed" THEN "use" ELSE None
          /\ ends' = [ends EXCEPT ![d] = @ + 1]
          /\ Goto(IF Top.at = "results" THEN "resultCallback" ELSE "abortedCallback")
          /\ UNCHANGED <<running, references>>
       \/ /\ references[d] = "zero"
          /\ FinishLuaQueryData(d)
          /\ stack' = [stack EXCEPT ![Len(stack)].todo = Tail(@)]
          /\ UNCHANGED ends
    /\ UNCHANGED <<threadVars, queueVars, built, owner, tableVars, objectVars,
                   failed, pills, disorder>>

CallbackReturns ==
    /\ At({"resultCallback", "abortedCallback"})
    /\ FinishLuaQueryData(Head(Top.todo))
    /\ stack' = [stack EXCEPT ![Len(stack)].at = Place(@),
                              ![Len(stack)].todo = Tail(@)]
    /\ UNCHANGED <<threadVars, queueVars, built, owner, tableVars, objectVars,
                   ends, failed, pills, disorder>>

NoMoreCallbacks ==
    /\ At({"results", "aborted"}) /\ Top.todo = <<>>
    /\ IF Top.at = "results" THEN Goto("disconnected") ELSE Return
    /\ UNCHANGED <<threadVars, queueVars, dataVars, tableVars, objectVars, historyVars>>

ConnectionUnreported ==
    ~m_dbCallbackRan \/ \E i \in DOMAIN stack : stack[i].at = "connectionCallback"

ThinkDisconnected ==
    /\ At({"disconnected"})
    /\ IF WasDisconnected /\ m_hasOnDisconnected /\ m_tableReference # "zero"
       THEN /\ m_hasOnDisconnected' = FALSE
            /\ disorder' = disorder \cup (IF ConnectionUnreported THEN {"early"} ELSE {})
            /\ misuse' = IF m_tableReference = "freed" THEN "use" ELSE None
            /\ Goto("disconnectedCallback")
       ELSE Return /\ UNCHANGED <<m_hasOnDisconnected, disorder, misuse>>
    /\ UNCHANGED <<threadVars, queueVars, dataVars, m_tableReference,
                   m_dbCallbackRan, objectVars, ends, failed, pills>>

\* m_tableReference is freed and keeps its value.
OnDisconnectedReturns ==
    /\ At({"disconnectedCallback"})
    /\ m_tableReference' = IF m_tableReference = "zero" THEN "zero" ELSE "freed"
    /\ misuse' = IF m_tableReference = "freed" THEN "free" ELSE None
    /\ Return
    /\ UNCHANGED <<threadVars, queueVars, dataVars, m_hasOnDisconnected,
                   m_dbCallbackRan, objectVars, ends, failed, pills, disorder>>

-----------------------------------------------------------------------------
(* Collection *)

\* The script forgets an object.
Forget ==
    /\ LuaRuns
    /\ \/ \E q \in held : held' = held \ {q} /\ UNCHANGED dbHeld
       \/ dbHeld /\ dbHeld' = FALSE /\ UNCHANGED held
    /\ UNCHANGED <<threadVars, queueVars, dataVars, tableVars, queries, destroyed,
                   stack, historyVars>>

\* self and the argument of a callback are on the Lua stack.
OnStack(q) ==
    \E i \in DOMAIN stack :
        \/ stack[i].self = q
        \/ /\ stack[i].at \in {"resultCallback", "abortedCallback"}
           /\ owner[Head(stack[i].todo)] = q

\* __gc of a query frees its reference to the database.
Collect(q) ==
    /\ misuse = None /\ q \in queries \ held /\ ~OnStack(q)
    /\ \A d \in Data : owner[d] = q => references[d] # "live"
    /\ queries' = queries \ {q}
    /\ UNCHANGED <<threadVars, queueVars, dataVars, tableVars, held, dbHeld,
                   destroyed, stack, historyVars>>

\* Mutant: queries do not reference their database.
NoDatabaseReferences == {}

\* The queries whose m_databaseReference is not 0.
DatabaseReferences == queries

\* __gc of the database disconnects ...
CollectDatabase ==
    /\ misuse = None /\ ~destroyed /\ ~dbHeld /\ stack = <<>>
    /\ m_tableReference # "live" /\ DatabaseReferences = {}
    /\ destroyed' = TRUE
    /\ queryQueue' = put(queryQueue, Null)
    /\ Enter("destroying", Db, <<>>, Null)
    /\ UNCHANGED <<threadVars, finishedQueries, dataVars, tableVars, queries, held,
                   dbHeld, historyVars>>

\* ... and clears the queues when the thread has ended.
Destroyed ==
    /\ At({"destroying"}) /\ thread \in {"none", "ended"}
    /\ queryQueue' = <<>> /\ finishedQueries' = <<>>
    /\ Return
    /\ UNCHANGED <<threadVars, dataVars, tableVars, objectVars, historyVars>>

-----------------------------------------------------------------------------
(* The database thread *)

EndConnecting ==
    /\ thread = "connecting"
    /\ m_success' \in BOOLEAN
    /\ thread' = IF m_success' THEN "up" ELSE "failed"
    /\ UNCHANGED <<cur, finished, queueVars, dataVars, tableVars, objectVars, stack,
                   historyVars>>

Take ==
    /\ thread = "up" /\ cur = Null /\ NonEmpty(queryQueue)
    /\ queryQueue' = Tail(queryQueue)
    /\ cur' = Head(queryQueue)
    /\ thread' = IF Head(queryQueue) = Null THEN "poisoned" ELSE thread
    /\ UNCHANGED <<m_success, finished, finishedQueries, dataVars, tableVars,
                   objectVars, stack, historyVars>>

Execute ==
    /\ cur # Null
    /\ finishedQueries' = put(finishedQueries, cur)
    /\ finished' = [finished EXCEPT ![cur] = TRUE]
    /\ cur' = Null
    /\ UNCHANGED <<thread, m_success, queryQueue, dataVars, tableVars, objectVars,
                   stack, historyVars>>

\* abortWaitingQuery fails the data Lua sleeps for.
EndThread ==
    LET left == IF At({"sleeping"}) /\ ~finished[Top.d] THEN <<Top.d>> ELSE <<>> IN
    /\ thread \in {"failed", "poisoned"}
    /\ thread' = "ended"
    /\ finishedQueries' = finishedQueries \o left
    /\ finished' = [d \in Data |-> finished[d] \/ d \in Range(left)]
    /\ failed' = failed \cup Range(left)
    /\ UNCHANGED <<m_success, cur, queryQueue, dataVars, tableVars, objectVars, stack,
                   ends, pills, disorder, misuse>>

-----------------------------------------------------------------------------
Call ==
    \/ \E q \in Query : CreateQuery(q) \/ Start(q) \/ Wait(q) \/ Abort(q)
    \/ AbortAll \/ Connect \/ ConnectWait \/ Disconnect \/ Forget

\* What C++ does in a call.
InCall ==
    \/ WaitForQuery \/ Unblock
    \/ ThinkConnection \/ (At({"connectionReported"}) /\ ConnectionReported)
    \/ ThinkTake \/ RunCallback \/ NoMoreCallbacks \/ ThinkDisconnected
    \/ Destroyed

ReturnFromCallback ==
    (At(Callback) /\ ConnectionReported) \/ CallbackReturns \/ OnDisconnectedReturns

DatabaseThread == misuse = None /\ (EndConnecting \/ Take \/ Execute \/ EndThread)

Gone == (misuse # None \/ (destroyed /\ stack = <<>>)) /\ UNCHANGED vars

Next ==
    \/ Call \/ ThinkHook \/ InCall \/ ReturnFromCallback
    \/ (\E q \in Query : Collect(q)) \/ CollectDatabase
    \/ DatabaseThread \/ Gone

Spec == Init /\ [][Next]_vars

\* The database thread is scheduled, C++ goes on, a callback returns in the
\* end, the game runs the think hook again and again, and Lua collects what
\* nothing refers to.
FairSpec ==
    /\ Spec
    /\ WF_vars(DatabaseThread) /\ WF_vars(InCall)
    /\ SF_vars(ReturnFromCallback) /\ SF_vars(ThinkHook)
    /\ \A q \in Query : SF_vars(Collect(q))
    /\ SF_vars(CollectDatabase)

-----------------------------------------------------------------------------
(* Properties *)

(* Every variable holds a value of its type.                               *)
TypeOK ==
    /\ thread \in {"none", "connecting", "up", "failed", "poisoned", "ended"}
    /\ m_success \in BOOLEAN
    /\ queryQueue \in Seq(Data \cup {Null}) /\ finishedQueries \in Seq(Data)
    /\ cur \in Data \cup {Null} /\ finished \in [Data -> BOOLEAN]
    /\ built \in 0..MaxData /\ owner \in [Data -> Query \cup {None}]
    /\ running \in SUBSET Data /\ references \in [Data -> Reference]
    /\ m_tableReference \in Reference
    /\ m_hasOnDisconnected \in BOOLEAN /\ m_dbCallbackRan \in BOOLEAN
    /\ stack \in Seq(Frame)
    /\ queries \in SUBSET Query /\ held \in SUBSET Query
    /\ dbHeld \in BOOLEAN /\ destroyed \in BOOLEAN
    /\ ends \in [Data -> Nat] /\ failed \in SUBSET Data
    /\ pills \in 0..MaxPills /\ disorder \in SUBSET {"early", "again"}
    /\ misuse \in {None, "use", "free"}

(* "Used to ensure that the database stays alive while the query exists"   *)
(* (LuaIQuery.h): as long as a callback is to come, neither its query nor  *)
(* the database is collected, whatever the script forgets.                 *)
KeptAlive ==
    \A d \in running : owner[d] \in queries /\ ~destroyed

(* A data whose callback has not run is queued, executing, finished or in  *)
(* a frame that will come to it, however frames nest: a think within a     *)
(* callback loses none of the results of the think around it.              *)
CallbackIsComing ==
    \A d \in running :
        \/ d \in Range(queryQueue) \cup Range(finishedQueries) \cup {cur}
        \/ \E i \in DOMAIN stack : d \in Range(stack[i].todo)

(* Each start gets exactly one of onSuccess, onError and onAborted.        *)
EndsOnce ==
    \A d \in 1..built :
        /\ d \notin failed => ends[d] <= 1
        /\ d \notin running => ends[d] >= 1

(* A data that wait() fails may be queued or finished, so that it is       *)
(* reported twice.  The second callback can only come within the first:    *)
(* nothing that finishes a data leaves it a callback.                      *)
SecondCallbackIsNested ==
    [][\A d \in Data : ends'[d] > ends[d] /\ ends[d] > 0 =>
          \E i \in 1..Len(stack)-1 :
              /\ stack[i].at \in {"resultCallback", "abortedCallback"}
              /\ Head(stack[i].todo) = d]_vars

(* No freed reference is used or freed again, unless onDisconnected ran    *)
(* before the report of the connection was through (the thread ended       *)
(* between the two tests of a think, or onConnected called                 *)
(* disconnect(true)), or the script called connect() twice.                *)
ReferencesSound == misuse # None => disorder # {}

(* The connection is reported, even if the script forgets the database as  *)
(* soon as it has called connect() (but see ReferencesSound).              *)
ConnectionReportedInTheEnd == thread # "none" ~> m_dbCallbackRan \/ disorder # {}

(* "calls the onDisconnected callback if it existed on the database before *)
(* the database was connected" (README).                                   *)
DisconnectReported ==
    m_hasOnDisconnected /\ (pills > 0 \/ ~m_success) ~> ~m_hasOnDisconnected \/ disorder # {}

(* Nothing leaks: what the script has forgotten is collected, the database *)
(* included, unless a callback can never come (a query that is left in the *)
(* queue of a thread that is not there, onDisconnected without disconnect).*)
EverythingCollected ==
    ~dbHeld /\ held = {} ~>
        \/ destroyed \/ held # {} \/ disorder # {}
        \/ running # {} /\ thread \in {"none", "ended"}
        \/ m_hasOnDisconnected /\ pills = 0

(* "Only free the table reference if we do not have an onDisconnected      *)
(* callback.  Otherwise, it will be freed after the onDisconnected         *)
(* callback was called" (LuaDatabase.cpp): what was freed then is not      *)
(* used again, if the script calls connect() once.                         *)
ReferenceFreedOnce == "again" \in disorder \/ misuse = None
=============================================================================
