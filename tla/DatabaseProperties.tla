------------------------- MODULE DatabaseProperties -------------------------
(***************************************************************************)
(* What is claimed of the database thread and its clients (Database).      *)
(***************************************************************************)
EXTENDS Database

(* Every variable holds a value of its C++ type; the deques hold data or   *)
(* poison pills, finishedQueries only data.                                *)
TypeOK ==
    /\ queryQueue \in Seq(Data \cup {Null})
    /\ finishedQueries \in Seq(Data)
    /\ m_waitingQuery \in Data \cup {Null}
    /\ m_canWait \in BOOLEAN
    /\ startedConnecting \in BOOLEAN
    /\ m_status \in DatabaseStatus
    /\ m_success \in BOOLEAN
    /\ m_connectionDone \in BOOLEAN
    /\ m_serverInfo \in BOOLEAN
    /\ disconnected \in BOOLEAN
    /\ owner \in [Data -> Query \cup {Ping}]
    /\ built \in 0..MaxData
    /\ running \in SUBSET Data
    /\ status \in [Data -> QueryStatus]
    /\ resultStatus \in [Data -> QueryResultStatus]
    /\ finished \in [Data -> BOOLEAN]
    /\ thread \in ThreadState
    /\ cur \in Data \cup {Null}
    /\ pc \in MainState
    /\ arg \in Data \cup {Null}
    /\ todo \in SUBSET Data
    /\ handed \in SUBSET Data
    /\ outcome \in [Data -> {"none", "SUCCESS", "ERROR", "aborted"}]
    /\ pills \in 0..MaxPills
    /\ cut \in 0..(MaxData + 1)

-----------------------------------------------------------------------------
(* Statements *)

\* The stage of a statement, read off the state of the two threads.
StageOf(d) ==
    IF outcome[d] # "none" THEN outcome[d]
    ELSE IF cur = d THEN "executing"
    ELSE IF d \in Range(queryQueue) THEN "queued"
    ELSE "new"

Stages == [d \in Data |-> StageOf(d)]

Lifecycle == INSTANCE QueryLifecycle WITH stage <- Stages

(* The database implements QueryLifecycle: however start(), abort(),       *)
(* abortAllQueries(), wait(true) and the database thread interleave, a     *)
(* statement goes from the queue to the server at most once, to one result *)
(* or to an abort and never to both, and none falls out of the queue.      *)
ImplementsLifecycle == Lifecycle!Spec

(* No query is forgotten: as long as isRunning() counts a data, it is      *)
(* queued, in the database thread's hands, or on its way to a callback, so *)
(* the callback that ends it is still to come.                             *)
NoQueryForgotten ==
    pc # "destroyed" =>
        \A d \in running :
            \/ d \in Range(queryQueue) \cup Range(finishedQueries) \cup handed
            \/ cur = d

(* A data is taken before every data that was built after it, as long as   *)
(* nobody asks for a swap: statements run in the order of start().         *)
TakenInOrder ==
    [][thread' = "taken" /\ thread = "taking" =>
        \A d \in Range(queryQueue) \ {Null} : cur' <= d]_vars

(* wait(true) and ping(): a query that was swapped to the front and is     *)
(* waited for stays there until the database thread takes it, so it is the *)
(* next one to run.  (A client that also waits without a swap is held to   *)
(* this for its pings only.)                                               *)
SwappedIsNext ==
    /\ pc \in {"waiting", "sleeping", "woken"} /\ arg \in Range(queryQueue)
    /\ "wait" \notin Api \/ owner[arg] = Ping
    => Head(queryQueue) = arg

(* disconnect() "after finishing all queued queries": when the database    *)
(* thread leaves run(), no data that was started before the first          *)
(* disconnect is left in the queue.                                        *)
DisconnectDrains ==
    m_success /\ thread \in {"poisoned", "ending", "statusReset", "ended"} =>
        \A d \in Range(queryQueue) \ {Null} : cut # Null /\ d >= cut

-----------------------------------------------------------------------------
(* Blocking calls *)

\* Where the database thread still has to pass abortWaitingQuery.
BeforeAbortWaiting == ThreadState \
    {"none", "initFailed", "ending", "statusReset", "ended"}

(* A thread that sleeps in waitForQuery is known to the database thread:   *)
(* either its data is finished and the notify is the thread's next step,   *)
(* or the data is in m_waitingQuery and the thread will still come past    *)
(* setFinished or abortWaitingQuery.                                       *)
WaiterIsKnown ==
    pc = "sleeping" =>
        IF finished[arg] THEN thread = "notifying"
        ELSE m_waitingQuery = arg /\ m_canWait /\ thread \in BeforeAbortWaiting

(* The database thread can move whenever main sleeps or joins: it is       *)
(* alive, and if it is about to block in take() there is something to      *)
(* take.  Hence main and the database thread never wait for each other.    *)
NoMutualWait ==
    /\ pc \in {"sleeping", "connSleeping"} => thread \notin {"none", "ended"}
    /\ pc \in {"sleeping", "connSleeping", "joining", "destroying"}
         /\ thread = "taking" => NonEmpty(queryQueue)

(* When Database::wait() returns, the connection attempt is over in every  *)
(* respect: m_status and the server info are what they will be.            *)
WaitSeesConnection ==
    [][pc = "connWaiting" /\ pc' = "thinking" =>
        m_status # "CONNECTING" /\ m_serverInfo = m_success]_vars

(* Every call returns: query:wait, ping, abort, Database::wait,            *)
(* disconnect(true) and the destruction by Lua come to an end (abortAll    *)
(* does not block; what a crash in it leaves behind is no call).           *)
CallsReturn == pc \notin {"idle", "crashed"} ~> pc \in {"idle", "destroyed"}

(* Every query started on a database that has been told to connect gets    *)
(* its callback, unless the connection fails or is given up by disconnect. *)
QueriesEnd ==
    \A d \in Data : d \in running /\ startedConnecting ~>
        d \notin running \/ ~m_success \/ cut # Null

-----------------------------------------------------------------------------
(* A claim of the repository's comments that the code does not keep.       *)

(* abortAllQueries "returns the number of successfully aborted queries",   *)
(* whatever is in the queue.                                               *)
AbortAllReturns == pc # "crashed"
=============================================================================
