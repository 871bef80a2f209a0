--------------------------- MODULE DatabaseProofs ---------------------------
(***************************************************************************)
(* Proofs of the safety properties of DatabaseProperties for any number of *)
(* queries, data, poison pills and calls.                                  *)
(***************************************************************************)
EXTENDS DatabaseProperties, BlockingQueueProofs

(* A set of data that is not empty has a greatest element.                 *)
LEMMA MaxLemma ==
    ASSUME NEW D \in SUBSET Data, D # {}
    PROVE  Max(D) \in D
<1>1. MaxData \in Nat /\ D \in SUBSET (1..MaxData)
  BY ConstantsAssumption DEF Data
<1> QED BY <1>1, GreatestNatLemma DEF Max

(* ... and a least one.                                                    *)
LEMMA MinLemma ==
    ASSUME NEW D \in SUBSET Data, D # {}
    PROVE  Min(D) \in D
<1>1. PICK k : k \in D
  OBVIOUS
<1>2. D \in SUBSET Nat
  BY ConstantsAssumption DEF Data
<1>3. \E i \in D : \A j \in D : i <= j
  BY <1>1, <1>2, LeastNatLemma
<1> QED BY <1>3 DEF Min

(* The empty deque.                                                        *)
LEMMA EmptyLemma == \A S : <<>> \in Seq(S) /\ Range(<<>>) = {}
BY DEF Range

(* The effect of failWaitingQuery on the types of what it writes.          *)
LEMMA FailLemma ==
    ASSUME TypeOK, NEW d \in Data, FailWaitingQuery(d)
    PROVE  /\ finishedQueries' \in Seq(Data)
           /\ Range(finishedQueries') = Range(finishedQueries) \cup {d}
           /\ status' \in [Data -> QueryStatus]
           /\ resultStatus' \in [Data -> QueryResultStatus]
           /\ finished' \in [Data -> BOOLEAN]
           /\ finished'[d] /\ \A e \in Data : finished[e] => finished'[e]
<1>1. /\ finishedQueries' \in Seq(Data)
      /\ Range(finishedQueries') = Range(finishedQueries) \cup {d}
  <2>1. finishedQueries \in Seq(Data) /\ finishedQueries' = put(finishedQueries, d)
    BY DEF FailWaitingQuery, TypeOK
  <2> QED BY <2>1, PutLemma
<1>2. /\ status' \in [Data -> QueryStatus]
      /\ resultStatus' \in [Data -> QueryResultStatus]
      /\ finished' \in [Data -> BOOLEAN]
      /\ finished'[d] /\ \A e \in Data : finished[e] => finished'[e]
  BY DEF FailWaitingQuery, TypeOK, QueryStatus, QueryResultStatus
<1> QED BY <1>1, <1>2

-----------------------------------------------------------------------------
(* The inductive invariant *)

\* What main has in hand in each of its calls.
MainInv ==
    /\ running \subseteq 1..built
    /\ pc \in {"enqueued", "swapping", "waiting", "sleeping", "woken", "pinged"}
         => arg \in 1..built
    /\ pc = "aborting" => todo # {}

\* What the database thread has in hand.
ThreadInv ==
    /\ IF thread \in HasCur THEN cur \in 1..built ELSE cur = Null
    /\ thread \in {"taken", "running"} => outcome[cur] = "none"
    /\ thread \in {"ran", "reported"} => outcome[cur] \in {"SUCCESS", "ERROR"}
    /\ startedConnecting <=> thread # "none"

\* What is in the queue was built, is there once and was not run or aborted.
QueueInv ==
    /\ NoneTwice(queryQueue, Null)
    /\ \A d \in Range(queryQueue) \ {Null} :
          d \in 1..built /\ d # cur /\ outcome[d] = "none"
    /\ \A d \in Data : d > built => outcome[d] = "none"

BaseInv == TypeOK /\ MainInv /\ ThreadInv /\ QueueInv

(* BaseInv holds initially.                                                *)
LEMMA BaseInit == Init => BaseInv
<1> SUFFICES ASSUME Init PROVE BaseInv
  OBVIOUS
<1> USE ConstantsAssumption DEF Init
<1>1. TypeOK
  <2>1. queryQueue \in Seq(Data \cup {Null}) /\ finishedQueries \in Seq(Data)
    OBVIOUS
  <2>2. /\ status \in [Data -> QueryStatus]
        /\ resultStatus \in [Data -> QueryResultStatus]
        /\ finished \in [Data -> BOOLEAN]
        /\ owner \in [Data -> Query \cup {Ping}]
        /\ outcome \in [Data -> {"none", "SUCCESS", "ERROR", "aborted"}]
    BY DEF QueryStatus, QueryResultStatus
  <2>3. /\ built \in 0..MaxData /\ pills \in 0..MaxPills
        /\ cut \in 0..(MaxData + 1)
    BY DEF Null
  <2>4. /\ m_status \in DatabaseStatus /\ thread \in ThreadState
        /\ pc \in MainState
    BY DEF DatabaseStatus, ThreadState, MainState
  <2> QED BY <2>1, <2>2, <2>3, <2>4 DEF TypeOK
<1>2. MainInv /\ ThreadInv
  BY DEF MainInv, ThreadInv, HasCur
<1>3. QueueInv
  BY DEF QueueInv, NoneTwice, Range
<1> QED BY <1>1, <1>2, <1>3 DEF BaseInv

(* Every step preserves BaseInv.                                           *)
LEMMA BaseStep == BaseInv /\ [Next]_vars => BaseInv'
<1> SUFFICES ASSUME BaseInv, [Next]_vars PROVE BaseInv'
  OBVIOUS
<1>0. MaxData \in Nat /\ MaxPills \in Nat /\ Ping \notin Query
  BY ConstantsAssumption
<1> USE <1>0 DEF BaseInv, TypeOK, MainInv, ThreadInv, QueueInv,
        queueVars, waitVars, connVars, queryVars, dataVars, threadVars,
        mainVars, historyVars, Null, Data, DatabaseStatus, QueryStatus,
        QueryResultStatus, ThreadState, MainState, HoldsConnectMutex, HasCur
<1>1. CASE UNCHANGED vars
  BY <1>1 DEF vars
<1>2. ASSUME NEW q \in Query \cup {Ping}, Enqueue(q) PROVE BaseInv'
  <2> DEFINE d == built + 1
  <2>1. d \in Data /\ d \notin Range(queryQueue)
    BY <1>2 DEF Enqueue, EnqueueIn
  <2>2. /\ queryQueue' \in Seq(Data \cup {Null})
        /\ Range(queryQueue') = Range(queryQueue) \cup {d}
        /\ NoneTwice(queryQueue', Null)
    <3>1. queryQueue' = put(queryQueue, d)
      BY <1>2 DEF Enqueue, EnqueueIn
    <3>2. d # Null /\ d \in Data \cup {Null}
      BY <2>1
    <3> HIDE DEF d, Data, Null
    <3> QED BY <2>1, <3>1, <3>2, PutLemma
  <2>3. TypeOK'
    BY <1>2, <2>1, <2>2 DEF Enqueue, EnqueueIn
  <2>4. MainInv' /\ ThreadInv'
    BY <1>2 DEF Enqueue, EnqueueIn
  <2>5. QueueInv'
    BY <1>2, <2>1, <2>2 DEF Enqueue, EnqueueIn
  <2> QED BY <2>3, <2>4, <2>5
<1>3. CASE SetWaiting
  BY <1>3 DEF SetWaiting, Return
<1>4. ASSUME NEW q \in Query, Wait(q) PROVE BaseInv'
  <2>1. arg' \in running
    <3>1. RunningOf(q) \in SUBSET running /\ RunningOf(q) # {}
      BY <1>4 DEF Wait, RunningOf
    <3>2. arg' = Max(RunningOf(q))
      BY <1>4 DEF Wait
    <3> QED BY <3>1, <3>2, MaxLemma
  <2>2. TypeOK' /\ MainInv'
    BY <1>4, <2>1 DEF Wait
  <2>3. ThreadInv' /\ QueueInv'
    BY <1>4 DEF Wait
  <2> QED BY <2>2, <2>3
<1>5. CASE SwapToFront
  <2>1. /\ queryQueue' \in Seq(Data \cup {Null})
        /\ Range(queryQueue') = Range(queryQueue)
        /\ NoneTwice(queryQueue', Null)
    <3>1. queryQueue' = swapToFrontIf(queryQueue, arg)
      BY <1>5 DEF SwapToFront
    <3> QED BY <3>1, SwapLemma
  <2> QED BY <1>5, <2>1 DEF SwapToFront
<1>6. ASSUME NEW d \in Data PROVE put(finishedQueries, d) \in Seq(Data)
  BY <1>6, PutLemma
<1>7. CASE WaitForQuery
  <2>1. /\ finishedQueries' \in Seq(Data)
        /\ status' \in [Data -> QueryStatus]
        /\ resultStatus' \in [Data -> QueryResultStatus]
        /\ finished' \in [Data -> BOOLEAN]
    <3>1. arg \in Data
      BY <1>7 DEF WaitForQuery, WaitUnless
    <3>2. FailWaitingQuery(arg) \/ UNCHANGED <<dataVars, finishedQueries>>
      BY <1>7 DEF WaitForQuery, WaitUnless
    <3> QED BY <3>1, <3>2, FailLemma
  <2>2. \/ pc' = "sleeping" /\ arg' = arg
        \/ pc' = "pinged" /\ arg' = arg
        \/ pc' = "thinking" /\ arg' = Null
    <3>1. ReturnFromWait \/ (pc' = "sleeping" /\ arg' = arg)
      BY <1>7 DEF WaitForQuery, WaitUnless
    <3> QED BY <3>1 DEF ReturnFromWait, ReturnToThink
  <2>3. m_waitingQuery' \in {m_waitingQuery, arg}
    BY <1>7 DEF WaitForQuery, WaitUnless
  <2>4. UNCHANGED <<queryQueue, m_canWait, connVars, queryVars, threadVars,
                    todo, handed, historyVars>>
    BY <1>7 DEF WaitForQuery, WaitUnless
  <2>5. MainInv' /\ pc' \in MainState
    BY <1>7, <2>2, <2>4 DEF WaitForQuery, WaitUnless
  <2>6. arg \in Data /\ arg' \in Data \cup {Null}
    BY <1>7, <2>2 DEF WaitForQuery, WaitUnless
  <2>7. TypeOK'
    <3> HIDE DEF DatabaseStatus, QueryStatus, QueryResultStatus, ThreadState,
                 MainState, HasCur, HoldsConnectMutex, Data
    <3> QED BY <2>1, <2>3, <2>4, <2>5, <2>6
  <2>8. ThreadInv' /\ QueueInv'
    BY <2>4
  <2> QED BY <2>5, <2>7, <2>8
<1>8. CASE Wake
  BY <1>8 DEF Wake, ReturnFromWait, ReturnToThink
<1>9. CASE PingEnd
  <2>1. finishedQueries' \in Seq(Data)
    BY <1>9, RemoveOneLemma DEF PingEnd, PingEndWith
  <2> QED BY <1>9, <2>1 DEF PingEnd, PingEndWith, Return
<1>10. ASSUME NEW q \in Query, Abort(q) PROVE BaseInv'
  <2>1. todo' \in SUBSET Data /\ todo' # {}
    BY <1>10 DEF Abort, RunningOf
  <2> QED BY <1>10, <2>1 DEF Abort
\* Data in D leave the queue and are aborted.
<1>11. ASSUME NEW D \in SUBSET Data, SetAborted(D),
              Range(queryQueue') \subseteq Range(queryQueue) \ D,
              queryQueue' \in Seq(Data \cup {Null}),
              NoneTwice(queryQueue', Null),
              D \subseteq Range(queryQueue),
              UNCHANGED <<threadVars, startedConnecting, built, resultStatus>>
       PROVE  /\ QueueInv' /\ ThreadInv'
              /\ status' \in [Data -> QueryStatus]
              /\ finished' \in [Data -> BOOLEAN]
              /\ outcome' \in [Data -> {"none", "SUCCESS", "ERROR", "aborted"}]
  <2>1. /\ status' \in [Data -> QueryStatus]
        /\ finished' \in [Data -> BOOLEAN]
        /\ outcome' \in [Data -> {"none", "SUCCESS", "ERROR", "aborted"}]
    BY <1>11 DEF SetAborted
  <2>2. \A d \in Data : d \notin D => outcome'[d] = outcome[d]
    BY <1>11 DEF SetAborted
  <2>3. ThreadInv'
    BY <1>11, <2>2
  <2>4. QueueInv'
    BY <1>11, <2>2
  <2> QED BY <2>1, <2>3, <2>4
<1>12. CASE AbortOne
  <2> DEFINE d == Min(todo)
             removed == {d} \cap Range(queryQueue)
  <2>1. d \in todo
    BY <1>12, MinLemma DEF AbortOne, AbortNext
  <2>2. /\ queryQueue' = removeIf(queryQueue, {d})
        /\ SetAborted(removed)
        /\ handed' = handed \cup removed /\ todo' = todo \ {d}
        /\ pc' = IF todo = {d} THEN "idle" ELSE "aborting"
    BY <1>12 DEF AbortOne, AbortNext
  <2>3. /\ queryQueue' \in Seq(Data \cup {Null})
        /\ Range(queryQueue') = Range(queryQueue) \ {d}
        /\ NoneTwice(queryQueue', Null)
    <3>1. queryQueue \in Seq(Data \cup {Null}) /\ NoneTwice(queryQueue, Null)
      OBVIOUS
    <3> HIDE DEF d, Data, Null, BaseInv, TypeOK, MainInv, ThreadInv, QueueInv
    <3> QED BY <2>2, <3>1, RemoveOneLemma
  <2>4. UNCHANGED <<finishedQueries, waitVars, connVars, queryVars,
                    resultStatus, threadVars, arg, pills, cut>>
    BY <1>12 DEF AbortOne, AbortNext
  <2>5. removed \in SUBSET Data
    BY <2>1
  <2> HIDE DEF d
  <2>6. /\ QueueInv' /\ ThreadInv'
        /\ status' \in [Data -> QueryStatus]
        /\ finished' \in [Data -> BOOLEAN]
        /\ outcome' \in [Data -> {"none", "SUCCESS", "ERROR", "aborted"}]
    BY <1>11, <2>2, <2>3, <2>4, <2>5
  <2>7. todo' \in SUBSET Data /\ handed' \in SUBSET Data
    BY <2>2, <2>5
  <2>8. MainInv' /\ pc' \in MainState
    BY <2>1, <2>2, <2>4
  <2>9. TypeOK'
    <3> HIDE DEF DatabaseStatus, QueryStatus, QueryResultStatus, ThreadState,
                 MainState, HasCur, HoldsConnectMutex, Data
    <3> QED BY <2>3, <2>4, <2>6, <2>7, <2>8
  <2> QED BY <2>6, <2>8, <2>9
<1>13. CASE AbortAll \/ Destroyed
  <2> DEFINE removed == Range(queryQueue) \ {Null}
  <2>1. queryQueue' = <<>> /\ SetAborted(removed)
    BY <1>13 DEF AbortAll, Destroyed
  <2>2. /\ queryQueue' \in Seq(Data \cup {Null}) /\ Range(queryQueue') = {}
        /\ NoneTwice(queryQueue', Null)
    BY <2>1 DEF Range, NoneTwice
  <2>3. removed \in SUBSET Data
    OBVIOUS
  <2>4. UNCHANGED <<waitVars, connVars, queryVars, resultStatus, threadVars,
                    arg, todo, pills, cut>>
    BY <1>13 DEF AbortAll, Destroyed
  <2>5. /\ QueueInv' /\ ThreadInv'
        /\ status' \in [Data -> QueryStatus]
        /\ finished' \in [Data -> BOOLEAN]
        /\ outcome' \in [Data -> {"none", "SUCCESS", "ERROR", "aborted"}]
    BY <1>11, <2>1, <2>2, <2>3, <2>4
  <2>6. finishedQueries' = finishedQueries \/ finishedQueries' = <<>>
    BY <1>13 DEF AbortAll, Destroyed
  <2>7. finishedQueries' \in Seq(Data)
    BY <2>6, EmptyLemma
  <2>8. /\ handed' \in SUBSET Data
        /\ pc' \in {"idle", "destroyed", "crashed"}
    BY <1>13, <2>3 DEF AbortAll, Destroyed
  <2>9. MainInv'
    BY <2>4, <2>8
  <2>10. TypeOK'
    BY <2>2, <2>4, <2>5, <2>7, <2>8
  <2> QED BY <2>5, <2>9, <2>10
<1>14. CASE ThinkHook \/ Think
  <2>1. Range(finishedQueries) \in SUBSET Data
    BY DEF Range
  <2>2. finishedQueries' = <<>> /\ finishedQueries' \in Seq(Data)
    BY <1>14, EmptyLemma DEF ThinkHook, Think, TakeFinishedQueries, Hand
  <2>3. /\ handed' = handed \cup Range(finishedQueries) /\ pc' = "idle"
        /\ UNCHANGED <<queryQueue, waitVars, connVars, queryVars, dataVars,
                       threadVars, arg, todo, historyVars>>
    BY <1>14 DEF ThinkHook, Think, TakeFinishedQueries, Hand
  <2>4. handed' \in SUBSET Data
    BY <2>1, <2>3
  <2>5. TypeOK'
    BY <2>2, <2>3, <2>4
  <2>6. MainInv' /\ ThreadInv' /\ QueueInv'
    BY <2>3
  <2> QED BY <2>5, <2>6
<1>15. ASSUME NEW d \in Data, FinishData(d) PROVE BaseInv'
  BY <1>15 DEF FinishData
<1>16. CASE Connect
  BY <1>16 DEF Connect
<1>17. CASE ConnectWait
  BY <1>17 DEF ConnectWait
<1>18. CASE ConnectTest
  BY <1>18 DEF ConnectTest, ConnectTestUnlocked
<1>19. CASE Disconnect \/ DisconnectWait \/ Destroy
  <2>1. Shutdown /\ pc' \in {"idle", "thinking", "joining", "destroying"}
    BY <1>19 DEF Disconnect, DisconnectWait, Destroy
  <2>2. /\ queryQueue' \in Seq(Data \cup {Null})
        /\ Range(queryQueue') = Range(queryQueue) \cup {Null}
        /\ NoneTwice(queryQueue', Null)
    <3>1. queryQueue' = put(queryQueue, Null)
      BY <2>1 DEF Shutdown, ShutdownIn
    <3> HIDE DEF Null, Data
    <3> QED BY <3>1, PutLemma
  <2> QED BY <2>1, <2>2, SMTT(40) DEF Shutdown, ShutdownIn
<1>20. CASE Join
  BY <1>20 DEF Join
<1>21. CASE LockConnect
  BY <1>21 DEF LockConnect
<1>22. CASE ConnectionDone
  <2>1. /\ thread = "connecting" /\ m_success' \in BOOLEAN
        /\ thread' \in {"connected", "connectFailed", "initFailed"}
        /\ m_connectionDone' \in BOOLEAN
    BY <1>22 DEF ConnectionDone
  <2> QED BY <1>22, <2>1 DEF ConnectionDone
<1>23. CASE SetConnectionStatus
  BY <1>23 DEF SetConnectionStatus, NotifyConnected
<1>24. CASE SetServerInfo
  BY <1>24 DEF SetServerInfo, NotifyConnected
<1>25. CASE FailClose \/ CloseConnection
  <2>1. PICK p \in MainState :
          AbortWaitingQuery(p) /\ p \in {pc, NotifyConnected(pc)}
    BY <1>25 DEF FailClose, CloseConnection, NotifyConnected
  <2>2. /\ finishedQueries' \in Seq(Data)
        /\ status' \in [Data -> QueryStatus]
        /\ resultStatus' \in [Data -> QueryResultStatus]
        /\ finished' \in [Data -> BOOLEAN]
    <3>1. \/ m_waitingQuery # Null /\ FailWaitingQuery(m_waitingQuery)
          \/ UNCHANGED <<dataVars, finishedQueries>>
      BY <2>1 DEF AbortWaitingQuery, FailWaiting
    <3> QED BY <3>1, FailLemma
  <2>3. /\ m_canWait' = FALSE /\ m_waitingQuery' = Null
        /\ pc' \in {p, NotifyWaiting(p)}
    BY <2>1 DEF AbortWaitingQuery, FailWaiting
  <2>4. /\ thread \notin HasCur /\ thread # "none" /\ thread' = "ending"
        /\ UNCHANGED <<queryQueue, connVars, queryVars, cur, arg, todo, handed,
                       historyVars>>
    BY <1>25 DEF FailClose, CloseConnection
  <2>5. MainInv' /\ pc' \in MainState
    BY <2>1, <2>3, <2>4 DEF NotifyConnected, NotifyWaiting
  <2>6. TypeOK'
    <3>1. /\ m_waitingQuery' \in Data \cup {Null} /\ thread' \in ThreadState
          /\ m_canWait' \in BOOLEAN /\ pc' \in MainState
      BY <2>3, <2>4, <2>5
    <3> HIDE DEF Data, Null, MainState, ThreadState, MainInv, ThreadInv,
        QueueInv
    <3> QED BY <2>2, <2>4, <3>1
  <2>7. ThreadInv' /\ QueueInv'
    BY <2>4
  <2> QED BY <2>5, <2>6, <2>7
<1>26. CASE ResetStatus
  BY <1>26 DEF ResetStatus
<1>27. CASE ThreadEnd
  BY <1>27 DEF ThreadEnd
<1>28. CASE Take
  <2>1. /\ queryQueue' \in Seq(Data \cup {Null}) /\ cur' \in Data \cup {Null}
        /\ Range(queryQueue) = {cur'} \cup Range(queryQueue')
        /\ NoneTwice(queryQueue', Null)
        /\ cur' # Null => cur' \notin Range(queryQueue')
    <3>1. NonEmpty(queryQueue) /\ queryQueue' = Tail(queryQueue)
          /\ cur' = Head(queryQueue)
      BY <1>28 DEF Take, TakeThen
    <3> HIDE DEF Null, Data
    <3> QED BY <3>1, TakeLemma
  <2>2. /\ thread' = IF cur' = Null THEN "poisoned" ELSE "taken"
        /\ thread = "taking"
    BY <1>28 DEF Take, TakeThen
  <2>3. UNCHANGED <<finishedQueries, waitVars, connVars, queryVars, dataVars,
                    mainVars, historyVars>>
    BY <1>28 DEF Take, TakeThen
  <2>4. TypeOK' /\ MainInv'
    BY <2>1, <2>2, <2>3
  <2>5. ThreadInv' /\ QueueInv'
    BY <2>1, <2>2, <2>3
  <2> QED BY <2>4, <2>5
<1>29. CASE SetRunning
  BY <1>29 DEF SetRunning
<1>30. CASE RunQuery
  <2>1. PICK r \in {"SUCCESS", "ERROR"} :
          /\ resultStatus' = [resultStatus EXCEPT ![cur] = r]
          /\ outcome' = [outcome EXCEPT ![cur] = r]
    BY <1>30 DEF RunQuery
  <2> QED BY <1>30, <2>1 DEF RunQuery
<1>31. CASE PutFinished
  <2>1. finishedQueries' \in Seq(Data)
    BY <1>31, <1>6 DEF PutFinished
  <2> QED BY <1>31, <2>1 DEF PutFinished
<1>32. CASE SetFinished
  BY <1>32 DEF SetFinished
<1>33. CASE NotifyAll
  BY <1>33 DEF NotifyAll, NotifyWaiting
<1>34. CASE Gone
  BY <1>34 DEF Gone, vars
<1>35. CASE SpuriousWakeup
  BY <1>35 DEF SpuriousWakeup, NotifyWaiting, NotifyConnected
<1> QED
  BY <1>1, <1>2, <1>3, <1>4, <1>5, <1>7, <1>8, <1>9, <1>10, <1>12, <1>13,
     <1>14, <1>15, <1>16, <1>17, <1>18, <1>19, <1>20, <1>21, <1>22, <1>23,
     <1>24, <1>25, <1>26, <1>27, <1>28, <1>29, <1>30, <1>31, <1>32, <1>33,
     <1>34, <1>35
  DEF Next, Call, InCall, Finish, DatabaseThread, Start, PingStart

(* Every value keeps its type, in every reachable state.                   *)
THEOREM TypeCorrect == Spec => []TypeOK
<1>1. BaseInv => TypeOK
  BY DEF BaseInv
<1> QED BY <1>1, BaseInit, BaseStep, PTL DEF Spec

-----------------------------------------------------------------------------
(* Blocking calls *)

\* Where the database thread has not come past a poison pill, nor failed.
BeforePill == {"spawned", "connecting", "connected", "statusSet", "taking",
               "notifying"} \cup HasCur

\* m_waitingQuery is exactly what main sleeps for, until it is finished.
WaitInv ==
    /\ m_canWait => thread \in BeforeAbortWaiting
    /\ m_waitingQuery # Null =>
          pc \in {"sleeping", "woken"} /\ arg = m_waitingQuery /\ ~finished[arg]
    /\ pc \in {"sleeping", "woken"} /\ ~finished[arg] =>
          m_waitingQuery = arg /\ m_canWait
    /\ pc = "sleeping" /\ finished[arg] => thread = "notifying"

\* Who joins has put a pill; who sleeps in Database::wait came before the
\* database thread took m_connectMutex.
BlockInv ==
    /\ pc \in {"connWaiting", "connSleeping", "joining"} => thread # "none"
    /\ m_connectionDone <=> thread \notin {"none", "spawned", "connecting"}
    /\ pc = "connSleeping" => thread \in {"spawned"} \cup HoldsConnectMutex
    /\ pc \in {"joining", "destroying"} /\ thread \in BeforePill =>
          Null \in Range(queryQueue)

\* A data that is not finished is still to be run.
UnfinishedInv ==
    \A d \in 1..built : finished[d] \/ d \in Range(queryQueue) \/ d = cur

(* Every step preserves WaitInv, unless mysql_init fails.                  *)
LEMMA WaitStep ==
    ASSUME "init" \notin Faults, BaseInv, WaitInv, [Next]_vars
    PROVE  WaitInv'
<1> USE DEF WaitInv, Null, BeforeAbortWaiting, ThreadState, HoldsConnectMutex,
        HasCur, queueVars, waitVars, connVars, queryVars, dataVars, threadVars,
        mainVars, historyVars
<1>0. /\ finished \in [Data -> BOOLEAN] /\ thread \in ThreadState
      /\ m_waitingQuery \in Data \cup {0} /\ 0 \notin Data
      /\ m_canWait \in BOOLEAN
      /\ pc \in {"enqueued", "swapping", "waiting", "sleeping", "woken", "pinged"}
           => arg \in Data
      /\ thread \in HasCur => cur \in Data
      /\ thread \in HasCur <=> cur # Null
      /\ startedConnecting <=> thread # "none"
  BY ConstantsAssumption DEF BaseInv, TypeOK, MainInv, ThreadInv, Data
<1>1. CASE UNCHANGED vars
  BY <1>1 DEF vars
\* Calls begin, and go on without waiting.
<1>2. CASE \/ \E q \in Query : Start(q) \/ Wait(q) \/ Abort(q)
           \/ PingStart \/ SetWaiting \/ SwapToFront \/ PingEnd
  BY <1>2, <1>0 DEF Start, PingStart, Enqueue, EnqueueIn, SetWaiting, Return,
      Wait,
                    SwapToFront, PingEnd, PingEndWith, Abort
<1>3. CASE AbortOne \/ AbortAll \/ Destroyed
  BY <1>3, <1>0 DEF AbortOne, AbortNext, AbortAll, Destroyed
<1>4. CASE ThinkHook \/ Think \/ Finish \/ Gone
  BY <1>4, <1>0 DEF ThinkHook, Think, TakeFinishedQueries, Hand, Finish,
      FinishData,
                    Gone, vars
<1>5. CASE Connect
  BY <1>5, <1>0 DEF Connect
<1>6. CASE \/ ConnectWait \/ ConnectTest \/ Join
           \/ Disconnect \/ DisconnectWait \/ Destroy
  BY <1>6, <1>0 DEF ConnectWait, ConnectTest, ConnectTestUnlocked, Join,
      Disconnect, DisconnectWait,
                    Destroy, Shutdown, ShutdownIn
<1>7. CASE WaitForQuery
  <2>1. CASE ~m_canWait
    <3>1. pc' \notin {"sleeping", "woken"} /\ m_waitingQuery' = m_waitingQuery
      BY <1>7, <2>1 DEF WaitForQuery, WaitUnless, ReturnFromWait, ReturnToThink
    <3> QED BY <1>7, <3>1, <1>0 DEF WaitForQuery, WaitUnless
  <2>2. CASE m_canWait /\ finished[arg]
    <3>1. pc' \notin {"sleeping", "woken"} /\ m_waitingQuery' = m_waitingQuery
      BY <1>7, <2>2 DEF WaitForQuery, WaitUnless, ReturnFromWait, ReturnToThink
    <3> QED BY <1>7, <3>1, <1>0 DEF WaitForQuery, WaitUnless
  <2>3. CASE m_canWait /\ ~finished[arg]
    BY <1>7, <2>3, <1>0 DEF WaitForQuery, WaitUnless
  <2> QED BY <2>1, <2>2, <2>3
<1>8. CASE Wake
  <2>1. CASE finished[arg]
    <3>1. m_waitingQuery' = m_waitingQuery /\ pc' \notin {"sleeping", "woken"}
      BY <1>8, <2>1 DEF Wake, ReturnFromWait, ReturnToThink
    <3> QED BY <1>8, <3>1, <1>0 DEF Wake
  <2>2. CASE ~finished[arg]
    BY <1>8, <2>2, <1>0 DEF Wake
  <2> QED BY <2>1, <2>2
\* The database thread.
<1>9. CASE \/ LockConnect \/ ConnectionDone \/ SetConnectionStatus
           \/ SetServerInfo \/ ResetStatus \/ ThreadEnd
  BY <1>9, <1>0 DEF LockConnect, ConnectionDone, SetConnectionStatus,
                    NotifyConnected, SetServerInfo, ResetStatus, ThreadEnd
<1>10. CASE FailClose \/ CloseConnection
  <2>1. m_canWait' = FALSE /\ m_waitingQuery' = Null /\ arg' = arg
    BY <1>10 DEF FailClose, CloseConnection, AbortWaitingQuery, FailWaiting
  <2>2. CASE m_waitingQuery = Null
    BY <1>10, <1>0, <2>1, <2>2 DEF FailClose, CloseConnection,
        AbortWaitingQuery, FailWaiting,
                                   NotifyConnected
  <2>3. CASE m_waitingQuery # Null
    <3>1. pc' \in {"sleeping", "woken"} => pc' = "woken"
      BY <1>10, <1>0, <2>3 DEF FailClose, CloseConnection, AbortWaitingQuery,
          FailWaiting,
                               NotifyConnected, NotifyWaiting
    <3>2. finished'[arg]
      BY <1>10, <1>0, <2>3 DEF FailClose, CloseConnection, AbortWaitingQuery,
          FailWaiting,
                               FailWaitingQuery
    <3> QED BY <2>1, <3>1, <3>2
  <2> QED BY <2>2, <2>3
<1>11. CASE Take \/ SetRunning \/ RunQuery \/ PutFinished
  BY <1>11, <1>0 DEF Take, TakeThen, SetRunning, RunQuery, PutFinished
<1>12. CASE SetFinished
  BY <1>12, <1>0 DEF SetFinished
<1>13. CASE NotifyAll
  BY <1>13, <1>0 DEF NotifyAll, NotifyWaiting
<1>14. CASE SpuriousWakeup
  BY <1>14, <1>0 DEF SpuriousWakeup, NotifyWaiting, NotifyConnected
<1> QED
  BY <1>1, <1>2, <1>3, <1>4, <1>5, <1>6, <1>7, <1>8, <1>9, <1>10, <1>11,
     <1>12, <1>13, <1>14
  DEF Next, Call, InCall, DatabaseThread

(* How a step changes what is in queryQueue.                               *)
LEMMA QueueStep ==
    ASSUME BaseInv, [Next]_vars
    PROVE  \/ Range(queryQueue') = Range(queryQueue)
           \/ /\ \E q \in Query \cup {Ping} : Enqueue(q)
              /\ Range(queryQueue') = Range(queryQueue) \cup {built'}
           \/ /\ Disconnect \/ DisconnectWait \/ Destroy
              /\ Range(queryQueue') = Range(queryQueue) \cup {Null}
           \/ /\ AbortOne \/ AbortAll \/ Destroyed
              /\ \A d \in Range(queryQueue) \ Range(queryQueue') :
                    d = Null \/ finished'[d]
           \/ Take /\ Range(queryQueue) = Range(queryQueue') \cup {cur'}
<1>0. /\ queryQueue \in Seq(Data \cup {Null}) /\ Range(queryQueue) \subseteq Data \cup {Null}
      /\ todo \in SUBSET Data /\ finished \in [Data -> BOOLEAN]
  BY DEF BaseInv, TypeOK, Range
<1>1. ASSUME NEW q \in Query \cup {Ping}, Enqueue(q)
      PROVE  Range(queryQueue') = Range(queryQueue) \cup {built'}
  <2>1. queryQueue' = put(queryQueue, built + 1) /\ built' = built + 1
    BY <1>1 DEF Enqueue, EnqueueIn
  <2>2. built + 1 \in Data
    BY <1>1, ConstantsAssumption DEF Enqueue, EnqueueIn, BaseInv, TypeOK, Data
  <2> QED BY <1>0, <2>1, <2>2, PutLemma
<1>2. CASE SwapToFront
  BY <1>2, <1>0, SwapLemma DEF SwapToFront
<1>3. CASE AbortOne
  <2>1. PICK d : /\ queryQueue' = removeIf(queryQueue, {d})
                 /\ SetAborted({d} \cap Range(queryQueue)) /\ d = Min(todo)
    BY <1>3 DEF AbortOne, AbortNext
  <2>2. d \in Data
    BY <1>3, <1>0, <2>1, MinLemma DEF AbortOne, AbortNext, BaseInv, MainInv
  <2>3. Range(queryQueue') = Range(queryQueue) \ {d}
    BY <1>0, <2>1, RemoveOneLemma
  <2>4. d \in Range(queryQueue) => finished'[d]
    BY <1>0, <2>1, <2>2 DEF SetAborted
  <2> QED BY <1>3, <2>3, <2>4
<1>4. CASE AbortAll \/ Destroyed
  <2>1. SetAborted(Range(queryQueue) \ {Null})
    BY <1>4 DEF AbortAll, Destroyed
  <2>2. \A d \in Range(queryQueue) : d = Null \/ finished'[d]
    BY <1>0, <2>1 DEF SetAborted
  <2> QED BY <1>4, <2>2
<1>5. CASE Disconnect \/ DisconnectWait \/ Destroy
  <2>1. queryQueue' = put(queryQueue, Null)
    BY <1>5 DEF Disconnect, DisconnectWait, Destroy, Shutdown, ShutdownIn
  <2>2. Range(queryQueue') = Range(queryQueue) \cup {Null}
    BY <1>0, <2>1, PutLemma
  <2> QED BY <1>5, <2>2
<1>6. CASE Take
  <2>1. /\ NonEmpty(queryQueue) /\ queryQueue' = Tail(queryQueue)
        /\ cur' = Head(queryQueue)
    BY <1>6 DEF Take, TakeThen
  <2> QED BY <1>6, <1>0, <2>1, TakeLemma
<1>7. CASE UNCHANGED queryQueue
  BY <1>7
<1> USE DEF queueVars
<1>8. CASE \/ \E q \in Query : Wait(q) \/ Abort(q)
           \/ Connect \/ ConnectWait \/ SetWaiting \/ WaitForQuery \/ Wake
           \/ PingEnd \/ ConnectTest \/ Join \/ Think \/ ThinkHook \/ Finish
           \/ SpuriousWakeup \/ Gone \/ UNCHANGED vars
  <2>1. UNCHANGED queryQueue
    BY <1>8 DEF Wait, Abort, Connect, ConnectWait, SetWaiting, WaitForQuery,
        WaitUnless,
        Wake, PingEnd, PingEndWith, ConnectTest, ConnectTestUnlocked, Join,
        Think, ThinkHook,
        TakeFinishedQueries, Hand, Finish, FinishData, SpuriousWakeup, Gone,
        vars
  <2> QED BY <1>7, <2>1
<1>9. CASE DatabaseThread /\ ~Take
  <2>1. UNCHANGED queryQueue
    BY <1>9 DEF DatabaseThread, LockConnect, ConnectionDone,
        SetConnectionStatus, SetServerInfo, FailClose, CloseConnection,
        ResetStatus, ThreadEnd, SetRunning, RunQuery, PutFinished,
        SetFinished, NotifyAll
  <2> QED BY <1>7, <2>1
<1> QED
  BY <1>1, <1>2, <1>3, <1>4, <1>5, <1>6, <1>8, <1>9
  DEF Next, Call, InCall, DatabaseThread, Start, PingStart

(* What is finished stays finished.                                        *)
LEMMA FinishedStep ==
    ASSUME BaseInv, [Next]_vars, NEW d \in Data, finished[d]
    PROVE  finished'[d]
<1> USE DEF dataVars
<1>0. finished \in [Data -> BOOLEAN]
  BY DEF BaseInv, TypeOK
<1>1. CASE UNCHANGED finished
  BY <1>1
<1>2. CASE AbortOne \/ AbortAll \/ Destroyed
  BY <1>0, <1>2 DEF AbortOne, AbortNext, AbortAll, Destroyed, SetAborted
<1>3. CASE WaitForQuery \/ FailClose \/ CloseConnection \/ SetFinished
  BY <1>0, <1>3 DEF WaitForQuery, WaitUnless, FailClose, CloseConnection,
      SetFinished,
                    AbortWaitingQuery, FailWaiting, FailWaitingQuery
<1>4. CASE \/ \E q \in Query : Start(q) \/ Wait(q) \/ Abort(q)
           \/ PingStart \/ Connect \/ ConnectWait \/ Disconnect
           \/ DisconnectWait \/ Destroy \/ SetWaiting \/ SwapToFront \/ Wake
           \/ PingEnd \/ ConnectTest \/ Join \/ Think \/ ThinkHook \/ Finish
           \/ SpuriousWakeup \/ Gone \/ UNCHANGED vars
  <2>1. UNCHANGED finished
    BY <1>4 DEF Start, PingStart, Enqueue, EnqueueIn, Wait, Abort, Connect,
        ConnectWait,
        Disconnect, DisconnectWait, Destroy, Shutdown, ShutdownIn, SetWaiting,
        SwapToFront,
        Wake, PingEnd, PingEndWith, ConnectTest, ConnectTestUnlocked, Join,
        Think, ThinkHook,
        TakeFinishedQueries, Hand, Finish, FinishData, SpuriousWakeup, Gone,
        vars
  <2> QED BY <1>1, <2>1
<1>5. CASE \/ LockConnect \/ ConnectionDone \/ SetConnectionStatus
           \/ SetServerInfo \/ ResetStatus \/ ThreadEnd \/ Take \/ SetRunning
           \/ RunQuery \/ PutFinished \/ NotifyAll
  <2>1. UNCHANGED finished
    BY <1>5 DEF LockConnect, ConnectionDone, SetConnectionStatus,
        SetServerInfo, ResetStatus, ThreadEnd, Take, TakeThen, SetRunning,
        RunQuery,
        PutFinished, NotifyAll
  <2> QED BY <1>1, <2>1
<1> QED
  BY <1>2, <1>3, <1>4, <1>5 DEF Next, Call, InCall, DatabaseThread

(* Only take() and setFinished change what the database thread has in hand. *)
LEMMA CurStep ==
    ASSUME [Next]_vars
    PROVE  UNCHANGED cur \/ Take \/ SetFinished
<1>1. CASE Call
  BY <1>1 DEF Call, Start, PingStart, Enqueue, EnqueueIn, Wait, Abort,
      AbortAll,
              Connect, ConnectWait, Disconnect, DisconnectWait, Destroy,
              Shutdown, ShutdownIn, threadVars
<1>2. CASE InCall \/ ThinkHook \/ Finish \/ SpuriousWakeup
           \/ Gone \/ UNCHANGED vars
  BY <1>2 DEF InCall, SetWaiting, SwapToFront, WaitForQuery, WaitUnless, Wake,
      PingEnd, PingEndWith,
              AbortOne, AbortNext, ConnectTest, ConnectTestUnlocked, Join,
              Think, ThinkHook,
              TakeFinishedQueries, Hand, Destroyed, Finish, FinishData,
              SpuriousWakeup, Gone, vars, threadVars
<1>3. CASE DatabaseThread
  BY <1>3 DEF DatabaseThread, LockConnect, ConnectionDone,
              SetConnectionStatus, SetServerInfo, FailClose,
              CloseConnection, ResetStatus, ThreadEnd, SetRunning,
              RunQuery, PutFinished, NotifyAll, threadVars
<1> QED BY <1>1, <1>2, <1>3 DEF Next

(* Every step preserves UnfinishedInv.                                     *)
LEMMA UnfinishedStep ==
    ASSUME BaseInv, UnfinishedInv, [Next]_vars
    PROVE  UnfinishedInv'
<1> SUFFICES ASSUME NEW d \in 1..built', ~finished'[d]
             PROVE  d \in Range(queryQueue') \/ d = cur'
  BY DEF UnfinishedInv
<1>0. /\ built \in 0..MaxData /\ MaxData \in Nat /\ BaseInv'
      /\ finished \in [Data -> BOOLEAN]
  BY ConstantsAssumption, BaseStep DEF BaseInv, TypeOK
<1>1. d \in Data /\ ~finished[d] /\ d # Null
  BY <1>0, FinishedStep DEF BaseInv, TypeOK, Data, Null
<1>2. \/ d \in Range(queryQueue) \cup {cur}
      \/ d = built' /\ \E q \in Query \cup {Ping} : Enqueue(q)
  <2>1. \/ built' = built
        \/ built' = built + 1 /\ \E q \in Query \cup {Ping} : Enqueue(q)
    <3>1. CASE \E q \in Query : Start(q)
      BY <3>1 DEF Start, Enqueue, EnqueueIn
    <3>2. CASE PingStart
      BY <3>2 DEF PingStart, Enqueue, EnqueueIn
    <3>3. CASE Call /\ ~PingStart /\ ~ \E q \in Query : Start(q)
      BY <3>3 DEF Call, Wait, Abort, AbortAll, Connect, ConnectWait,
                  Disconnect, DisconnectWait, Destroy, Shutdown, ShutdownIn,
                  queryVars
    <3>4. CASE InCall \/ ThinkHook \/ Finish \/ SpuriousWakeup
           \/ Gone \/ UNCHANGED vars
      BY <3>4 DEF InCall, SetWaiting, SwapToFront, WaitForQuery, WaitUnless,
          Wake, PingEnd, PingEndWith,
                  AbortOne, AbortNext, ConnectTest, ConnectTestUnlocked, Join,
                  Think, ThinkHook,
                  TakeFinishedQueries, Hand, Destroyed, Finish, FinishData,
                  SpuriousWakeup, Gone, vars, queryVars
    <3>5. CASE DatabaseThread
      BY <3>5 DEF DatabaseThread, LockConnect, ConnectionDone,
                  SetConnectionStatus, SetServerInfo, FailClose,
                  CloseConnection, ResetStatus, ThreadEnd, Take, TakeThen,
                  SetRunning,
                  RunQuery, PutFinished, SetFinished, NotifyAll, queryVars
    <3> QED BY <3>1, <3>2, <3>3, <3>4, <3>5 DEF Next
  <2> QED BY <1>0, <1>1, <2>1 DEF UnfinishedInv
<1>3. d \in Range(queryQueue) => d \in Range(queryQueue') \cup {cur'}
  BY <1>1, QueueStep
<1>4. d = cur => d = cur'
  <2>1. UNCHANGED cur \/ Take \/ SetFinished
    BY CurStep
  <2>2. Take => cur = Null
    BY DEF Take, TakeThen, BaseInv, ThreadInv, HasCur
  <2>3. SetFinished => d # cur
    BY <1>0, <1>1 DEF SetFinished
  <2> QED BY <1>1, <2>1, <2>2, <2>3
<1>5. (\E q \in Query \cup {Ping} : Enqueue(q)) => built' \in Range(queryQueue')
  <2> SUFFICES ASSUME NEW q \in Query \cup {Ping}, Enqueue(q)
               PROVE  built' \in Range(queryQueue')
    OBVIOUS
  <2>1. queryQueue' = put(queryQueue, built + 1) /\ built' = built + 1
    BY DEF Enqueue, EnqueueIn
  <2>2. built + 1 \in Data /\ queryQueue \in Seq(Data \cup {Null})
    BY <1>0 DEF Enqueue, EnqueueIn, BaseInv, TypeOK, Data
  <2> QED BY <2>1, <2>2, PutLemma
<1> QED BY <1>2, <1>3, <1>4, <1>5

(* Every step preserves BlockInv.                                          *)
LEMMA BlockStep ==
    ASSUME BaseInv, BlockInv, [Next]_vars
    PROVE  BlockInv'
<1> USE DEF BlockInv, BeforePill, HoldsConnectMutex, HasCur, ThreadState,
        connVars, threadVars, mainVars
<1>0. /\ thread \in ThreadState /\ m_connectionDone \in BOOLEAN
      /\ startedConnecting <=> thread # "none"
  BY DEF BaseInv, TypeOK, ThreadInv
\* The pill stays in the queue while main waits for the database thread.
<1>1. ASSUME Null \in Range(queryQueue),
             pc' \in {"joining", "destroying"}
      PROVE  Null \in Range(queryQueue') \/ thread' = "poisoned"
  <2>1. ~AbortOne /\ ~AbortAll /\ ~Destroyed
    BY <1>1 DEF AbortOne, AbortNext, AbortAll, Destroyed
  <2>2. Take /\ cur' = Null => thread' = "poisoned"
    BY DEF Take, TakeThen
  <2> QED BY <1>1, <2>1, <2>2, QueueStep
<1>2. CASE Disconnect \/ DisconnectWait \/ Destroy
  <2>1. Null \in Range(queryQueue')
    <3>1. queryQueue' = put(queryQueue, Null) /\ queryQueue \in Seq(Data \cup {Null})
      BY <1>2 DEF Disconnect, DisconnectWait, Destroy, Shutdown, ShutdownIn,
          BaseInv, TypeOK
    <3> QED BY <3>1, PutLemma
  <2> QED BY <1>2, <2>1 DEF Disconnect, DisconnectWait, Destroy, Shutdown,
      ShutdownIn
<1>3. CASE \/ \E q \in Query : Start(q) \/ Wait(q) \/ Abort(q)
           \/ PingStart \/ AbortAll \/ Connect \/ ConnectWait
  BY <1>0, <1>3 DEF Start, PingStart, Enqueue, EnqueueIn, Wait, Abort,
      AbortAll, Connect,
                    ConnectWait
<1>4. CASE \/ SetWaiting \/ SwapToFront \/ PingEnd \/ AbortOne \/ ConnectTest
           \/ Join \/ Think \/ ThinkHook \/ Destroyed
  BY <1>0, <1>4 DEF SetWaiting, SwapToFront, PingEnd, PingEndWith, AbortOne,
      AbortNext, ConnectTest, ConnectTestUnlocked,
                    Join, Think, ThinkHook, TakeFinishedQueries, Hand,
                    Destroyed,
                    Return
<1>5. CASE WaitForQuery \/ Wake
  <2>1. pc' \in {"sleeping", "pinged", "thinking"}
    <3>1. ReturnFromWait \/ pc' = "sleeping"
      BY <1>5 DEF WaitForQuery, WaitUnless, Wake
    <3> QED BY <3>1 DEF ReturnFromWait, ReturnToThink
  <2> QED BY <1>5, <2>1 DEF WaitForQuery, WaitUnless, Wake
<1>6. CASE Finish \/ SpuriousWakeup
           \/ Gone \/ UNCHANGED vars
  BY <1>6, <1>1 DEF Finish, FinishData, SpuriousWakeup, NotifyWaiting,
                    NotifyConnected, Gone, vars, queueVars
<1>7. CASE \/ LockConnect \/ ConnectionDone \/ SetConnectionStatus
           \/ SetServerInfo \/ ResetStatus \/ ThreadEnd
  BY <1>0, <1>1, <1>7 DEF LockConnect, ConnectionDone, SetConnectionStatus,
                     SetServerInfo, ResetStatus, ThreadEnd, NotifyConnected
<1>8. CASE FailClose \/ CloseConnection
  <2>1. /\ thread \in {"failClose", "poisoned"} /\ thread' = "ending"
        /\ UNCHANGED m_connectionDone
    BY <1>8 DEF FailClose, CloseConnection
  <2>2. thread = "failClose" => pc' # "connSleeping"
    BY <1>8 DEF FailClose, CloseConnection, AbortWaitingQuery, FailWaiting,
        NotifyConnected,
                NotifyWaiting
  <2>3. thread = "poisoned" => pc' \in {pc, NotifyWaiting(pc)}
    BY <1>8 DEF FailClose, CloseConnection, AbortWaitingQuery, FailWaiting
  <2> QED BY <2>1, <2>2, <2>3 DEF NotifyWaiting
<1>9. CASE Take \/ SetRunning \/ RunQuery \/ PutFinished \/ SetFinished
           \/ NotifyAll
  BY <1>0, <1>1, <1>9 DEF Take, TakeThen, SetRunning, RunQuery, PutFinished,
      SetFinished,
                     NotifyAll, NotifyWaiting
<1> QED
  BY <1>2, <1>3, <1>4, <1>5, <1>6, <1>7, <1>8, <1>9
  DEF Next, Call, InCall, DatabaseThread

\* The inductive invariant of the blocking calls.
BlockingInv == BaseInv /\ WaitInv /\ BlockInv /\ UnfinishedInv

(* BlockingInv is inductive, unless mysql_init may fail.                   *)
LEMMA BlockingInvariant ==
    ASSUME "init" \notin Faults
    PROVE  Spec => []BlockingInv
<1>1. Init => BlockingInv
  <2> SUFFICES ASSUME Init PROVE BlockingInv
    OBVIOUS
  <2>1. BaseInv
    BY BaseInit
  <2>2. WaitInv /\ BlockInv /\ UnfinishedInv
    BY DEF Init, WaitInv, BlockInv, UnfinishedInv, BeforePill, HasCur
  <2> QED BY <2>1, <2>2 DEF BlockingInv
<1>2. BlockingInv /\ [Next]_vars => BlockingInv'
  BY BaseStep, WaitStep, BlockStep, UnfinishedStep DEF BlockingInv
<1> QED BY <1>1, <1>2, PTL DEF Spec

(* No sleeper of waitForQuery is lost, for any number of queries and calls *)
(* and however the connection ends, unless mysql_init fails.               *)
THEOREM WaiterAlwaysKnown ==
    ASSUME "init" \notin Faults
    PROVE  Spec => []WaiterIsKnown
<1>1. BlockingInv => WaiterIsKnown
  BY DEF BlockingInv, WaitInv, WaiterIsKnown
<1> QED BY <1>1, BlockingInvariant, PTL

(* Main and the database thread never wait for each other, for any number  *)
(* of queries and calls, unless mysql_init fails.                          *)
THEOREM NeverMutualWait ==
    ASSUME "init" \notin Faults
    PROVE  Spec => []NoMutualWait
<1>1. BlockingInv => NoMutualWait
  <2> SUFFICES ASSUME BlockingInv PROVE NoMutualWait
    OBVIOUS
  <2>0. queryQueue \in Seq(Data \cup {Null}) /\ Range(<<>>) = {}
    BY EmptyLemma DEF BlockingInv, BaseInv, TypeOK
  <2>1. (\E d : d \in Range(queryQueue)) => NonEmpty(queryQueue)
    BY <2>0 DEF NonEmpty
  <2>2. ASSUME pc = "sleeping", thread = "taking"
        PROVE  \E d : d \in Range(queryQueue)
    <3>1. ~finished[arg] /\ arg \in 1..built /\ cur = Null
      BY <2>2 DEF BlockingInv, WaitInv, BaseInv, MainInv, ThreadInv, HasCur
    <3>2. arg # Null
      BY <3>1 DEF Null
    <3> QED BY <3>1, <3>2 DEF BlockingInv, UnfinishedInv
  <2>3. /\ pc \in {"joining", "destroying"} /\ thread = "taking" =>
             Null \in Range(queryQueue)
        /\ pc = "connSleeping" => thread \notin {"none", "ended", "taking"}
    BY DEF BlockingInv, BlockInv, BeforePill, HoldsConnectMutex
  <2>4. pc = "sleeping" => thread \notin {"none", "ended"}
    BY DEF BlockingInv, WaitInv, BeforeAbortWaiting
  <2> QED BY <2>1, <2>2, <2>3, <2>4 DEF NoMutualWait
<1> QED BY <1>1, BlockingInvariant, PTL

-----------------------------------------------------------------------------
(* No query is forgotten *)

\* Where a data is on its way to its callback.
Known == Range(queryQueue) \cup Range(finishedQueries) \cup handed

\* A result that was put stays with main until it is finished.
ReportInv ==
    thread = "reported" /\ cur \in running =>
        cur \in Range(finishedQueries) \cup handed

(* What a step does to the places where main looks for results, and to     *)
(* runningQueryData.                                                       *)
LEMMA ReportStep ==
    ASSUME BaseInv, [Next]_vars, ~Destroyed
    PROVE  /\ \A d \in Range(finishedQueries) \cup handed :
                 d \in Range(finishedQueries') \cup handed' \/ d \notin running'
           /\ \/ running' \subseteq running
              \/ /\ \E q \in Query \cup {Ping} : Enqueue(q)
                 /\ running' = running \cup {built'}
<1> USE DEF queueVars, queryVars, mainVars, historyVars
<1>0. /\ finishedQueries \in Seq(Data) /\ m_waitingQuery \in Data \cup {Null}
      /\ pc \in {"waiting", "pinged"} => arg \in Data
  BY ConstantsAssumption DEF BaseInv, TypeOK, MainInv, Data
<1>1. ASSUME UNCHANGED running
      PROVE  running' \subseteq running
  BY <1>1
<1>2. ASSUME NEW q \in Query \cup {Ping}, Enqueue(q) PROVE running' = running \cup {built'}
  BY <1>2 DEF Enqueue, EnqueueIn
<1>3. CASE \/ \E q \in Query : Start(q)
           \/ PingStart
  BY <1>2, <1>3 DEF Start, PingStart, Enqueue, EnqueueIn
<1>4. CASE \/ \E q \in Query : Wait(q) \/ Abort(q)
           \/ AbortAll \/ Connect \/ ConnectWait
           \/ Disconnect \/ DisconnectWait \/ Destroy
           \/ SetWaiting \/ SwapToFront \/ Wake \/ AbortOne \/ ConnectTest
           \/ Join \/ SpuriousWakeup \/ Gone \/ UNCHANGED vars
  BY <1>4 DEF Wait, Abort, AbortAll, Connect, ConnectWait, Disconnect,
      DisconnectWait, Destroy, Shutdown, ShutdownIn, SetWaiting, SwapToFront,
      Wake,
      AbortOne, AbortNext, ConnectTest, ConnectTestUnlocked, Join,
      SpuriousWakeup, Gone, vars
<1>5. CASE WaitForQuery \/ FailClose \/ CloseConnection
  <2>1. \/ UNCHANGED finishedQueries
        \/ \E d \in Data : finishedQueries' = put(finishedQueries, d)
    BY <1>5, <1>0 DEF WaitForQuery, WaitUnless, FailClose, CloseConnection,
                      AbortWaitingQuery, FailWaiting, FailWaitingQuery
  <2>2. Range(finishedQueries) \subseteq Range(finishedQueries')
    BY <1>0, <2>1, PutLemma
  <2> QED BY <1>5, <2>2 DEF WaitForQuery, WaitUnless, FailClose,
      CloseConnection
<1>6. CASE PingEnd
  BY <1>0, <1>6, RemoveOneLemma DEF PingEnd, PingEndWith
<1>7. CASE Think \/ ThinkHook
  BY <1>7 DEF Think, ThinkHook, TakeFinishedQueries, Hand
<1>8. CASE Finish
  BY <1>8 DEF Finish, FinishData
<1>9. CASE \/ LockConnect \/ ConnectionDone \/ SetConnectionStatus
           \/ SetServerInfo \/ ResetStatus \/ ThreadEnd \/ Take \/ SetRunning
           \/ RunQuery \/ SetFinished \/ NotifyAll
  BY <1>9 DEF LockConnect, ConnectionDone, SetConnectionStatus, SetServerInfo,
      ResetStatus, ThreadEnd, Take, TakeThen, SetRunning, RunQuery,
      SetFinished, NotifyAll
<1>10. CASE PutFinished
  <2>1. cur \in Data
    BY <1>10, ConstantsAssumption DEF PutFinished, BaseInv, TypeOK, ThreadInv,
        HasCur, Data
  <2> QED BY <1>0, <1>10, <2>1, PutLemma DEF PutFinished
<1> QED
  BY <1>3, <1>4, <1>5, <1>6, <1>7, <1>8, <1>9, <1>10
  DEF Next, Call, InCall, DatabaseThread

(* What an abort removes from the queue is handed to main.                 *)
LEMMA AbortedHanded ==
    ASSUME BaseInv, AbortOne \/ AbortAll
    PROVE  \A d \in Range(queryQueue) \ Range(queryQueue') : d = Null \/ d \in handed'
<1>1. CASE AbortAll
  BY <1>1 DEF AbortAll
<1>2. CASE AbortOne
  <2>1. PICK d : /\ queryQueue' = removeIf(queryQueue, {d})
                 /\ handed' = handed \cup ({d} \cap Range(queryQueue))
    BY <1>2 DEF AbortOne, AbortNext
  <2>2. queryQueue \in Seq(Data \cup {Null})
    BY DEF BaseInv, TypeOK
  <2>3. Range(queryQueue') = Range(queryQueue) \ {d}
    BY <2>1, <2>2, RemoveOneLemma
  <2> QED BY <2>1, <2>3
<1> QED BY <1>1, <1>2

(* A destroyed database object stays destroyed.                            *)
LEMMA NeverRevived ==
    ASSUME [Next]_vars, pc = "destroyed"
    PROVE  pc' = "destroyed"
<1>1. CASE Call \/ InCall \/ ThinkHook \/ Finish
  BY <1>1 DEF Call, Start, PingStart, Enqueue, EnqueueIn, Wait, Abort,
      AbortAll,
      Connect, ConnectWait, Disconnect, DisconnectWait, Destroy, Shutdown,
      ShutdownIn,
      InCall, SetWaiting, SwapToFront, WaitForQuery, WaitUnless, Wake, PingEnd,
      PingEndWith, AbortOne, AbortNext,
      ConnectTest, ConnectTestUnlocked, Join, Think, Destroyed, ThinkHook,
      Finish, FinishData,
      mainVars
<1>2. CASE SpuriousWakeup \/ Gone \/ UNCHANGED vars
  BY <1>2 DEF SpuriousWakeup, Gone, vars, mainVars
<1>3. CASE FailClose \/ CloseConnection
  BY <1>3 DEF FailClose, CloseConnection, AbortWaitingQuery, FailWaiting,
      NotifyConnected,
      NotifyWaiting
<1>4. CASE DatabaseThread /\ ~FailClose /\ ~CloseConnection
  BY <1>4 DEF DatabaseThread, LockConnect, ConnectionDone,
      SetConnectionStatus, SetServerInfo, ResetStatus, ThreadEnd, Take,
      TakeThen,
      SetRunning, RunQuery, PutFinished, SetFinished, NotifyAll,
      NotifyConnected, NotifyWaiting, mainVars
<1> QED BY <1>1, <1>2, <1>3, <1>4 DEF Next

(* Every step preserves ReportInv and NoQueryForgotten.                    *)
LEMMA ForgottenStep ==
    ASSUME BaseInv, ReportInv, NoQueryForgotten, [Next]_vars
    PROVE  ReportInv' /\ NoQueryForgotten'
<1>0. /\ MaxData \in Nat /\ built \in 0..MaxData
      /\ running \subseteq 1..built /\ 0 \notin running /\ 0 \notin 1..built
      /\ thread = "reported" <=> thread \in {"reported"}
      /\ thread = "reported" => cur \in 1..built
      /\ thread = "taking" => cur = Null
      /\ finishedQueries \in Seq(Data)
  BY ConstantsAssumption DEF BaseInv, TypeOK, MainInv, ThreadInv, HasCur
<1>1. CASE Destroyed
  BY <1>1 DEF Destroyed, ReportInv, NoQueryForgotten, threadVars
<1>2. CASE ~Destroyed
  <2>1. /\ \A d \in Range(finishedQueries) \cup handed :
             d \in Range(finishedQueries') \cup handed' \/ d \notin running'
        /\ \/ running' \subseteq running
           \/ /\ \E q \in Query \cup {Ping} : Enqueue(q)
              /\ running' = running \cup {built'}
    BY <1>2, ReportStep
  <2>2. \/ thread' # "reported" /\ ~SetFinished
        \/ thread' = "reported" /\ thread = "reported" /\ cur' = cur
        \/ PutFinished
        \/ SetFinished
    <3> USE DEF threadVars
    <3>1. CASE Call
      BY <3>1 DEF Call, Start, PingStart, Enqueue, EnqueueIn, Wait, Abort,
          AbortAll,
                  Connect, ConnectWait, Disconnect, DisconnectWait, Destroy,
                  Shutdown, ShutdownIn
    <3>2. CASE InCall \/ ThinkHook \/ Finish \/ SpuriousWakeup
           \/ Gone \/ UNCHANGED vars
      BY <3>2 DEF InCall, SetWaiting, SwapToFront, WaitForQuery, WaitUnless,
          Wake, PingEnd, PingEndWith,
                  AbortOne, AbortNext, ConnectTest, ConnectTestUnlocked, Join,
                  Think, ThinkHook,
                  TakeFinishedQueries, Hand, Destroyed, Finish, FinishData,
                  SpuriousWakeup, Gone, vars
    <3>3. CASE DatabaseThread
      BY <3>3 DEF DatabaseThread, LockConnect, ConnectionDone,
                  SetConnectionStatus, SetServerInfo, FailClose,
                  CloseConnection, ResetStatus, ThreadEnd, Take, TakeThen,
                  SetRunning,
                  RunQuery, NotifyAll
    <3> QED BY <3>1, <3>2, <3>3 DEF Next
  <2>3. PutFinished => cur' = cur /\ cur \in Range(finishedQueries')
    <3> SUFFICES ASSUME PutFinished PROVE cur' = cur /\ cur \in Range(finishedQueries')
      OBVIOUS
    <3>1. cur \in Data /\ finishedQueries' = put(finishedQueries, cur) /\ cur' = cur
      BY ConstantsAssumption
      DEF PutFinished, BaseInv, TypeOK, ThreadInv, HasCur, Data
    <3> QED BY <1>0, <3>1, PutLemma
  <2>4. ReportInv'
    <3>1. CASE thread' = "reported" /\ thread = "reported" /\ cur' = cur
      <4>1. cur \in running' => cur \in running
        BY <1>0, <2>1, <3>1 DEF Enqueue, EnqueueIn
      <4> QED BY <2>1, <3>1, <4>1 DEF ReportInv
    <3>2. CASE PutFinished
      BY <2>3, <3>2 DEF ReportInv
    <3>3. CASE SetFinished
      BY <3>3 DEF SetFinished, ReportInv
    <3> QED BY <2>2, <3>1, <3>2, <3>3 DEF ReportInv
  <2>5. NoQueryForgotten'
    <3> SUFFICES ASSUME pc' # "destroyed", NEW d \in running'
                 PROVE  d \in Known' \/ cur' = d
      BY DEF NoQueryForgotten, Known
    <3>1. CASE d \notin running
      <4>1. d = built' /\ \E q \in Query \cup {Ping} : Enqueue(q)
        BY <2>1, <3>1
      <4>2. queryQueue' = put(queryQueue, built + 1) /\ built' = built + 1
        BY <4>1 DEF Enqueue, EnqueueIn
      <4>3. built + 1 \in Data /\ queryQueue \in Seq(Data \cup {Null})
        BY <1>0, <4>1 DEF Enqueue, EnqueueIn, BaseInv, TypeOK, Data
      <4>4. built' \in Range(queryQueue')
        BY <4>2, <4>3, PutLemma
      <4> QED BY <4>1, <4>4 DEF Known
    <3>2. CASE d \in running
      <4>1. pc # "destroyed"
        BY NeverRevived
      <4>2. d \in Known \/ cur = d
        BY <3>2, <4>1 DEF NoQueryForgotten, Known
      <4>3. CASE d \in Range(finishedQueries) \cup handed
        BY <2>1, <4>3 DEF Known
      <4>4. CASE d \in Range(queryQueue)
        <5>1. \/ d \in Range(queryQueue') \cup handed' \/ cur' = d
          BY <1>0, <1>2, <3>2, <4>4, AbortedHanded, QueueStep DEF Null
        <5> QED BY <5>1 DEF Known
      <4>5. CASE cur = d
        <5>1. CASE SetFinished
          <6>1. d \in Range(finishedQueries) \cup handed
            BY <3>2, <4>5, <5>1 DEF SetFinished, ReportInv
          <6> QED BY <4>3, <6>1
        <5>2. ~Take
          BY <1>0, <3>2, <4>5 DEF Take, TakeThen, Null
        <5> QED BY <4>5, <5>1, <5>2, CurStep
      <4> QED BY <4>2, <4>3, <4>4, <4>5 DEF Known
    <3> QED BY <3>1, <3>2
  <2> QED BY <2>4, <2>5
<1> QED BY <1>1, <1>2

(* No query is forgotten, for any number of queries and calls and whatever *)
(* goes wrong in connectRun.                                               *)
THEOREM NeverForgotten == Spec => []NoQueryForgotten
<1> DEFINE Inv == BaseInv /\ ReportInv /\ NoQueryForgotten
<1>1. Init => Inv
  BY BaseInit DEF Init, ReportInv, NoQueryForgotten
<1>2. Inv /\ [Next]_vars => Inv'
  BY BaseStep, ForgottenStep
<1> QED BY <1>1, <1>2, PTL DEF Spec

-----------------------------------------------------------------------------
(* Refinement *)

(* Only the server and an abort decide what becomes of a statement.        *)
LEMMA OutcomeStep ==
    ASSUME [Next]_vars
    PROVE  UNCHANGED outcome \/ RunQuery \/ AbortOne \/ AbortAll \/ Destroyed
<1> USE DEF historyVars
<1>1. CASE Call
  BY <1>1 DEF Call, Start, PingStart, Enqueue, EnqueueIn, Wait, Abort, Connect,
      ConnectWait, Disconnect, DisconnectWait, Destroy, Shutdown, ShutdownIn
<1>2. CASE InCall \/ ThinkHook \/ Finish \/ SpuriousWakeup
           \/ Gone \/ UNCHANGED vars
  BY <1>2 DEF InCall, SetWaiting, SwapToFront, WaitForQuery, WaitUnless, Wake,
      PingEnd, PingEndWith,
      ConnectTest, ConnectTestUnlocked, Join, Think, ThinkHook,
      TakeFinishedQueries, Hand, Finish,
      FinishData, SpuriousWakeup, Gone, vars
<1>3. CASE DatabaseThread
  BY <1>3 DEF DatabaseThread, LockConnect, ConnectionDone,
      SetConnectionStatus, SetServerInfo, FailClose, CloseConnection,
      ResetStatus, ThreadEnd, Take, TakeThen, SetRunning, PutFinished,
      SetFinished,
      NotifyAll
<1> QED BY <1>1, <1>2, <1>3 DEF Next

(* An abort step aborts exactly the data that it takes out of the queue.   *)
LEMMA AbortStep ==
    ASSUME BaseInv, AbortOne \/ AbortAll \/ Destroyed
    PROVE  \E D \in SUBSET Data :
              /\ D \subseteq Range(queryQueue) /\ cur' = cur
              /\ Range(queryQueue') \ {Null} = Range(queryQueue) \ (D \cup {Null})
              /\ outcome' = [d \in Data |->
                               IF d \in D THEN "aborted" ELSE outcome[d]]
<1>0. /\ queryQueue \in Seq(Data \cup {Null})
      /\ Range(queryQueue) \subseteq Data \cup {Null}
      /\ todo \in SUBSET Data /\ Range(<<>>) = {}
  BY EmptyLemma DEF BaseInv, TypeOK, Range
<1>1. CASE AbortOne
  <2>1. PICK d : /\ queryQueue' = removeIf(queryQueue, {d})
                 /\ SetAborted({d} \cap Range(queryQueue)) /\ d = Min(todo)
    BY <1>1 DEF AbortOne, AbortNext
  <2>2. d \in Data /\ cur' = cur
    BY <1>1, <1>0, <2>1, MinLemma DEF AbortOne, AbortNext, BaseInv, MainInv,
        threadVars
  <2>3. Range(queryQueue') = Range(queryQueue) \ {d}
    BY <1>0, <2>1, RemoveOneLemma
  <2>4. {d} \cap Range(queryQueue) \in SUBSET Data
    BY <2>2
  <2> WITNESS {d} \cap Range(queryQueue) \in SUBSET Data
  <2> QED BY <2>1, <2>2, <2>3 DEF SetAborted
<1>2. CASE AbortAll \/ Destroyed
  <2>1. /\ SetAborted(Range(queryQueue) \ {Null}) /\ queryQueue' = <<>>
        /\ cur' = cur
    BY <1>2 DEF AbortAll, Destroyed, threadVars
  <2>2. Range(queryQueue) \ {Null} \in SUBSET Data
    BY <1>0
  <2> WITNESS Range(queryQueue) \ {Null} \in SUBSET Data
  <2> QED BY <1>0, <2>1 DEF SetAborted
<1> QED BY <1>1, <1>2

(* Every step of the database is a step of QueryLifecycle or leaves the    *)
(* stages alone.                                                           *)
LEMMA LifecycleStep ==
    ASSUME BaseInv, [Next]_vars
    PROVE  [Lifecycle!Next]_Stages
<1> DEFINE Moved(D, s) ==
             Stages' = [d \in Data |-> IF d \in D THEN s ELSE Stages[d]]
<1>0. /\ MaxData \in Nat /\ built \in 0..MaxData
      /\ \A d \in Data : d # Null
      /\ outcome \in [Data -> {"none", "SUCCESS", "ERROR", "aborted"}]
      /\ Stages = [d \in Data |-> StageOf(d)]
      /\ Stages' = [d \in Data |-> StageOf(d)']
  BY ConstantsAssumption DEF BaseInv, TypeOK, Data, Null, Stages
<1>1. ASSUME UNCHANGED <<outcome, cur>>,
             \A d \in Data : d \in Range(queryQueue) <=> d \in Range(queryQueue')
      PROVE  Stages' = Stages
  BY <1>0, <1>1 DEF StageOf
<1>2. ASSUME NEW q \in Query \cup {Ping}, Enqueue(q) PROVE Lifecycle!Accept
  <2> DEFINE d == built + 1
  <2>1. d \in Data /\ StageOf(d) = "new"
    BY <1>0, <1>2 DEF Enqueue, EnqueueIn, StageOf, BaseInv, ThreadInv,
        QueueInv, HasCur,
                      Data, Null
  <2>2. /\ Range(queryQueue') = Range(queryQueue) \cup {d}
        /\ UNCHANGED <<outcome, cur>> /\ d # cur /\ outcome[d] = "none"
    <3>1. queryQueue' = put(queryQueue, d) /\ queryQueue \in Seq(Data \cup {Null})
      BY <1>2 DEF Enqueue, EnqueueIn, BaseInv, TypeOK
    <3>2. UNCHANGED <<outcome, cur>> /\ d # cur /\ outcome[d] = "none"
      BY <1>0, <1>2, <2>1 DEF Enqueue, EnqueueIn, BaseInv, ThreadInv, QueueInv,
          HasCur,
                      Null, Data, threadVars, historyVars
    <3> HIDE DEF d
    <3> QED BY <2>1, <3>1, <3>2, PutLemma
  <2> HIDE DEF d
  <2>3. Moved({d}, "queued")
    BY <1>0, <2>1, <2>2 DEF StageOf
  <2> QED BY <1>0, <2>1, <2>3 DEF Lifecycle!Accept, Lifecycle!In,
      Lifecycle!Move
<1>3. ASSUME Take, cur' # Null PROVE Lifecycle!Execute
  <2>1. /\ Range(queryQueue) = Range(queryQueue') \cup {cur'} /\ cur = Null
        /\ UNCHANGED outcome /\ cur' \notin Range(queryQueue')
        /\ cur' \in Data /\ outcome[cur'] = "none"
    <3>1. /\ NonEmpty(queryQueue) /\ queryQueue' = Tail(queryQueue)
          /\ cur' = Head(queryQueue) /\ queryQueue \in Seq(Data \cup {Null})
          /\ NoneTwice(queryQueue, Null) /\ cur = Null /\ UNCHANGED outcome
      BY <1>3 DEF Take, TakeThen, BaseInv, TypeOK, QueueInv, ThreadInv, HasCur,
          historyVars
    <3>2. /\ Range(queryQueue) = Range(queryQueue') \cup {cur'}
          /\ cur' \notin Range(queryQueue') /\ cur' \in Data \cup {Null}
      BY <1>3, <3>1, TakeLemma
    <3> QED BY <1>3, <3>1, <3>2 DEF BaseInv, QueueInv
  <2>2. \A d \in Data : Stages[d] # "executing"
    BY <1>0, <2>1 DEF StageOf
  <2>3. Moved({cur'}, "executing") /\ Stages[cur'] = "queued"
    BY <1>0, <2>1 DEF StageOf
  <2> QED BY <2>1, <2>2, <2>3 DEF Lifecycle!Execute, Lifecycle!In,
      Lifecycle!Move
<1>4. ASSUME RunQuery PROVE Lifecycle!Result
  <2>1. PICK r \in {"SUCCESS", "ERROR"} : outcome' = [outcome EXCEPT ![cur] = r]
    BY <1>4 DEF RunQuery
  <2>2. cur \in Data /\ outcome[cur] = "none" /\ UNCHANGED <<cur, queryQueue>>
    BY <1>0, <1>4 DEF RunQuery, BaseInv, ThreadInv, HasCur, Data, queueVars
  <2>3. Moved({cur}, r) /\ Stages[cur] = "executing"
    BY <1>0, <2>1, <2>2 DEF StageOf
  <2> QED BY <2>1, <2>2, <2>3 DEF Lifecycle!Result, Lifecycle!In,
      Lifecycle!Move
<1>5. ASSUME AbortOne \/ AbortAll \/ Destroyed PROVE Lifecycle!Abort
  <2>1. PICK D \in SUBSET Data :
          /\ D \subseteq Range(queryQueue) /\ cur' = cur
          /\ Range(queryQueue') \ {Null} = Range(queryQueue) \ (D \cup {Null})
          /\ outcome' = [d \in Data |->
                            IF d \in D THEN "aborted" ELSE outcome[d]]
    BY <1>5, AbortStep
  <2>2. \A d \in D : outcome[d] = "none" /\ d # cur
    BY <1>0, <2>1 DEF BaseInv, QueueInv
  <2>3. \A d \in D : Stages[d] = "queued"
    BY <1>0, <2>1, <2>2 DEF StageOf
  <2>4. Moved(D, "aborted")
    BY <1>0, <2>1, <2>2 DEF StageOf
  <2> QED BY <2>1, <2>3, <2>4 DEF Lifecycle!Abort, Lifecycle!In, Lifecycle!Move
<1>6. ASSUME SetFinished PROVE Stages' = Stages
  <2>1. /\ cur' = Null /\ cur \in Data /\ outcome[cur] # "none"
        /\ UNCHANGED <<outcome, queryQueue>>
    BY <1>0, <1>6 DEF SetFinished, BaseInv, ThreadInv, HasCur, Data, queueVars,
                      historyVars
  <2> QED BY <1>0, <2>1 DEF StageOf
<1>7. ASSUME Take, cur' = Null PROVE Stages' = Stages
  <2>1. UNCHANGED outcome /\ cur = Null
    BY <1>7 DEF Take, TakeThen, historyVars, BaseInv, ThreadInv, HasCur
  <2>2. \A d \in Data : d \in Range(queryQueue) <=> d \in Range(queryQueue')
    BY <1>0, <1>7, QueueStep DEF Take, TakeThen, Disconnect, DisconnectWait,
        Destroy,
         Shutdown, ShutdownIn, AbortOne, AbortNext, AbortAll, Destroyed,
         Enqueue, EnqueueIn, threadVars
  <2> QED BY <1>1, <1>7, <2>1, <2>2
<1>8. ASSUME ~ \E q \in Query \cup {Ping} : Enqueue(q),
             ~Take, ~RunQuery, ~AbortOne, ~AbortAll, ~Destroyed, ~SetFinished
      PROVE  Stages' = Stages
  <2>1. UNCHANGED <<outcome, cur>>
    BY <1>8, OutcomeStep, CurStep
  <2>2. \A d \in Data : d \in Range(queryQueue) <=> d \in Range(queryQueue')
    BY <1>0, <1>8, QueueStep
  <2> QED BY <1>1, <2>1, <2>2
<1> QED
  BY <1>2, <1>3, <1>4, <1>5, <1>6, <1>7, <1>8 DEF Lifecycle!Next

(* The database implements QueryLifecycle, for any number of queries,      *)
(* calls, poison pills and faults.                                         *)
THEOREM LifecycleImplemented == Spec => ImplementsLifecycle
<1>1. Init => Lifecycle!Init
  <2> SUFFICES ASSUME Init PROVE Stages = [d \in Data |-> "new"]
    BY DEF Lifecycle!Init
  <2>1. ASSUME NEW d \in Data PROVE StageOf(d) = "new"
    BY EmptyLemma, ConstantsAssumption DEF Init, StageOf, Data, Null
  <2> QED BY <2>1 DEF Stages
<1>2. BaseInv /\ [Next]_vars => [Lifecycle!Next]_Stages
  BY LifecycleStep
<1> QED
  BY <1>1, <1>2, BaseInit, BaseStep, PTL
  DEF Spec, ImplementsLifecycle, Lifecycle!Spec
-----------------------------------------------------------------------------
(* The connection *)

\* What the database thread has written about the connection so far.
ConnInv ==
    /\ thread \in {"none", "spawned", "connecting", "connected", "statusSet"}
         => ~m_serverInfo
    /\ thread \in {"connected", "statusSet"} => m_success
    /\ thread \in {"connectFailed", "failClose", "initFailed"}
         => ~m_success /\ ~m_serverInfo
    /\ thread \in {"statusSet", "failClose"} => m_status # "CONNECTING"
    /\ thread \notin {"none", "spawned"} \cup HoldsConnectMutex =>
          m_status # "CONNECTING" /\ m_serverInfo = m_success

(* Every step preserves ConnInv.                                           *)
LEMMA ConnStep ==
    ASSUME BaseInv, ConnInv, [Next]_vars
    PROVE  ConnInv'
<1> USE DEF ConnInv, HoldsConnectMutex
<1>0. /\ thread \in ThreadState /\ m_success \in BOOLEAN /\ m_serverInfo \in BOOLEAN
      /\ startedConnecting <=> thread # "none"
  BY DEF BaseInv, TypeOK, ThreadInv
<1>1. CASE UNCHANGED <<connVars, thread>>
  BY <1>1 DEF connVars
<1>2. CASE Connect
  BY <1>0, <1>2 DEF Connect
<1>3. CASE Call /\ ~Connect
  <2>1. UNCHANGED <<connVars, thread>>
    BY <1>3 DEF Call, Start, PingStart, Enqueue, EnqueueIn, Wait, Abort, AbortAll,
        ConnectWait, Disconnect, DisconnectWait, Destroy, Shutdown, ShutdownIn,
        threadVars
  <2> QED BY <1>1, <2>1
<1>4. CASE InCall \/ ThinkHook \/ Finish \/ SpuriousWakeup \/ Gone \/ UNCHANGED vars
  <2>1. UNCHANGED <<connVars, thread>>
    BY <1>4 DEF InCall, SetWaiting, SwapToFront, WaitForQuery, WaitUnless, Wake,
        PingEnd, PingEndWith, AbortOne, AbortNext, ConnectTest, ConnectTestUnlocked,
        Join, Think, ThinkHook, TakeFinishedQueries, Hand, Destroyed, Finish,
        FinishData, SpuriousWakeup, Gone, vars, threadVars
  <2> QED BY <1>1, <2>1
<1>5. CASE LockConnect \/ ConnectionDone \/ SetServerInfo
  <2>1. LockConnect => ConnInv'
    BY <1>0 DEF LockConnect, connVars
  <2>2. ConnectionDone => ConnInv'
    BY <1>0 DEF ConnectionDone
  <2>3. SetServerInfo => ConnInv'
    BY <1>0 DEF SetServerInfo
  <2> QED BY <1>5, <2>1, <2>2, <2>3
<1>6. CASE SetConnectionStatus
  BY <1>0, <1>6 DEF SetConnectionStatus
<1>7. CASE FailClose \/ CloseConnection
  <2>1. /\ thread \in {"failClose", "poisoned"} /\ thread' = "ending"
        /\ UNCHANGED connVars
    BY <1>7 DEF FailClose, CloseConnection
  <2> QED BY <1>0, <2>1 DEF connVars
<1>8. CASE ResetStatus \/ ThreadEnd
  BY <1>0, <1>8 DEF ResetStatus, ThreadEnd
<1>9. CASE Take \/ SetRunning \/ RunQuery \/ PutFinished \/ SetFinished \/ NotifyAll
  <2>1. /\ UNCHANGED connVars /\ thread \in {"taking", "notifying"} \cup HasCur
        /\ thread' \in {"taking", "notifying", "poisoned"} \cup HasCur
    BY <1>9 DEF Take, TakeThen, SetRunning, RunQuery, PutFinished, SetFinished,
        NotifyAll, HasCur
  <2> QED BY <1>0, <2>1 DEF connVars, HasCur
<1> QED
  BY <1>2, <1>3, <1>4, <1>5, <1>6, <1>7, <1>8, <1>9 DEF Next, DatabaseThread

(* Database::wait returns only when the connection attempt is over in      *)
(* every respect, however it ended; also if mysql_init failed.             *)
THEOREM WaitAlwaysSeesConnection == Spec => WaitSeesConnection
<1>1. Init => ConnInv /\ BlockInv
  BY DEF Init, ConnInv, BlockInv, HoldsConnectMutex, BeforePill, HasCur
<1>2. BaseInv /\ ConnInv /\ BlockInv /\ [Next]_vars => ConnInv' /\ BlockInv'
  BY ConnStep, BlockStep
<1>3. ASSUME BaseInv, ConnInv, BlockInv, [Next]_vars,
             pc = "connWaiting", pc' = "thinking"
      PROVE  m_status # "CONNECTING" /\ m_serverInfo = m_success
  <2>1. ConnectTest
    <3>1. ~Call
      BY <1>3 DEF Call, Start, PingStart, Enqueue, EnqueueIn, Wait, Abort, AbortAll,
          Connect, ConnectWait, Disconnect, DisconnectWait, Destroy, Shutdown,
          ShutdownIn
    <3>2. ~ (ThinkHook \/ Finish \/ SpuriousWakeup \/ Gone \/ UNCHANGED vars)
      BY <1>3 DEF ThinkHook, Finish, FinishData, SpuriousWakeup, Gone, vars, mainVars
    <3>3. ~DatabaseThread
      BY <1>3 DEF DatabaseThread, LockConnect, ConnectionDone, SetConnectionStatus,
          SetServerInfo, NotifyConnected, FailClose, CloseConnection,
          AbortWaitingQuery, FailWaiting, NotifyWaiting, ResetStatus, ThreadEnd,
          Take, TakeThen, SetRunning, RunQuery, PutFinished, SetFinished, NotifyAll,
          mainVars
    <3> QED
      BY <1>3, <3>1, <3>2, <3>3 DEF Next, InCall, SetWaiting, SwapToFront,
          WaitForQuery, WaitUnless, Wake, PingEnd, PingEndWith, AbortOne, AbortNext,
          Join, Think, Destroyed
  <2>2. thread \notin HoldsConnectMutex /\ m_connectionDone
    BY <1>3, <2>1 DEF ConnectTest, ConnectTestUnlocked
  <2>3. thread \notin {"none", "spawned"}
    BY <2>2, <1>3 DEF BlockInv
  <2> QED BY <1>3, <2>2, <2>3 DEF ConnInv
<1>4. BaseInv /\ ConnInv /\ BlockInv /\ [Next]_vars =>
        [pc = "connWaiting" /\ pc' = "thinking" =>
           m_status # "CONNECTING" /\ m_serverInfo = m_success]_vars
  BY <1>3
<1> QED BY <1>1, <1>2, <1>4, BaseInit, BaseStep, PTL DEF Spec, WaitSeesConnection
-----------------------------------------------------------------------------
(* The order of the queue *)

\* Nobody asks for a swap.
NoSwapInv ==
    /\ pc # "swapping"
    /\ pc = "enqueued" => owner[arg] # Ping

\* Where the database thread has left run(), if it came that far.
LeftRun == {"poisoned", "ending", "statusReset", "ended"}

\* The data in the queue are there in the order in which they were built.
SortedInv == \A d, e \in Data : Precedes(queryQueue, d, e) => d < e

\* What was built before the first disconnect precedes every pill, and is
\* gone when the database thread has come to one.
CutInv ==
    /\ cut # Null => cut <= built + 1
    /\ Null \in Range(queryQueue) => cut # Null
    /\ \A e \in Data : Precedes(queryQueue, Null, e) => e >= cut
    /\ m_success /\ thread \in LeftRun =>
          cut # Null /\ \A d \in Range(queryQueue) \ {Null} : d >= cut

(* A client that neither waits with a swap nor pings never swaps.          *)
LEMMA NoSwapStep ==
    ASSUME "swapWait" \notin Api, "ping" \notin Api, BaseInv, NoSwapInv, [Next]_vars
    PROVE  NoSwapInv'
<1> USE DEF NoSwapInv
<1>0. owner \in [Data -> Query \cup {Ping}] /\ Ping \notin Query
  BY ConstantsAssumption DEF BaseInv, TypeOK
<1>1. ASSUME NEW q \in Query, Start(q) PROVE NoSwapInv'
  <2>1. built + 1 \in Data /\ arg' = built + 1 /\ pc' = "enqueued"
        /\ owner' = [owner EXCEPT ![built + 1] = q]
    BY <1>1, ConstantsAssumption DEF Start, Enqueue, EnqueueIn, BaseInv, TypeOK, Data
  <2>2. owner'[built + 1] = q
    BY <1>0, <2>1
  <2> QED BY <1>0, <2>1, <2>2
<1>2. CASE SetWaiting
  BY <1>2 DEF SetWaiting, Return
<1>3. ASSUME UNCHANGED <<pc, arg, owner>> PROVE NoSwapInv'
  BY <1>3
<1>4. ASSUME pc' \notin {"enqueued", "swapping"} PROVE NoSwapInv'
  BY <1>4
<1>5. CASE Call /\ ~ \E q \in Query : Start(q)
  BY <1>4, <1>3, <1>5 DEF Call, PingStart, Wait, Abort, AbortAll, Connect, ConnectWait,
      Disconnect, DisconnectWait, Destroy, Shutdown, ShutdownIn, mainVars, queryVars
<1>6. CASE WaitForQuery \/ Wake
  <2>1. ReturnFromWait \/ pc' = "sleeping"
    BY <1>6 DEF WaitForQuery, WaitUnless, Wake
  <2> QED BY <1>4, <2>1 DEF ReturnFromWait, ReturnToThink
<1>7. CASE SwapToFront \/ PingEnd \/ AbortOne \/ ConnectTest \/ Join
           \/ Think \/ Destroyed \/ ThinkHook
  BY <1>4, <1>7 DEF SwapToFront, PingEnd, PingEndWith, Return, AbortOne, AbortNext,
      ConnectTest, ConnectTestUnlocked, Join, Think, ThinkHook, TakeFinishedQueries,
      Hand, Destroyed
<1>8. CASE Finish \/ Gone \/ UNCHANGED vars
  BY <1>3, <1>8 DEF Finish, FinishData, Gone, vars, mainVars, queryVars
<1>9. CASE DatabaseThread \/ SpuriousWakeup
  <2>1. /\ UNCHANGED <<arg, owner>>
        /\ pc' \in {pc, NotifyConnected(pc), NotifyWaiting(pc),
                    NotifyWaiting(NotifyConnected(pc))}
    BY <1>9 DEF DatabaseThread, LockConnect, ConnectionDone, SetConnectionStatus,
        SetServerInfo, FailClose, CloseConnection, AbortWaitingQuery, FailWaiting,
        ResetStatus, ThreadEnd, Take, TakeThen, SetRunning, RunQuery, PutFinished,
        SetFinished, NotifyAll, SpuriousWakeup, mainVars, queryVars
  <2>2. pc' = pc \/ pc' \notin {"enqueued", "swapping"}
    BY <2>1 DEF NotifyConnected, NotifyWaiting
  <2> QED BY <1>3, <1>4, <2>1, <2>2
<1> QED
  BY <1>1, <1>2, <1>5, <1>6, <1>7, <1>8, <1>9 DEF Next, Call, InCall

(* Without a swap nothing comes to stand before what was there before it.  *)
LEMMA PrecedesStep ==
    ASSUME BaseInv, [Next]_vars, ~SwapToFront, NEW x, NEW y,
           Precedes(queryQueue', x, y)
    PROVE  \/ Precedes(queryQueue, x, y)
           \/ /\ \E q \in Query \cup {Ping} : Enqueue(q)
              /\ x \in Range(queryQueue) /\ y = built'
           \/ /\ Disconnect \/ DisconnectWait \/ Destroy
              /\ x \in Range(queryQueue) /\ y = Null
<1>0. queryQueue \in Seq(Data \cup {Null})
  BY DEF BaseInv, TypeOK
<1>1. ASSUME NEW q \in Query \cup {Ping}, Enqueue(q)
      PROVE  Precedes(queryQueue, x, y) \/ (x \in Range(queryQueue) /\ y = built')
  <2>1. queryQueue' = put(queryQueue, built + 1) /\ built' = built + 1
    BY <1>1 DEF Enqueue, EnqueueIn
  <2>2. built + 1 \in Data
    BY <1>1, ConstantsAssumption DEF Enqueue, EnqueueIn, BaseInv, TypeOK, Data
  <2> QED BY <1>0, <2>1, <2>2, PutLemma
<1>2. CASE UNCHANGED queryQueue
  BY <1>2
<1>3. CASE AbortOne
  <2>1. PICK d : queryQueue' = removeIf(queryQueue, {d})
    BY <1>3 DEF AbortOne, AbortNext
  <2> QED BY <1>0, <2>1, RemoveOneLemma
<1>4. CASE AbortAll \/ Destroyed
  <2>1. queryQueue' = <<>>
    BY <1>4 DEF AbortAll, Destroyed
  <2> QED BY <2>1 DEF Precedes
<1>5. CASE Disconnect \/ DisconnectWait \/ Destroy
  <2>1. queryQueue' = put(queryQueue, Null)
    BY <1>5 DEF Disconnect, DisconnectWait, Destroy, Shutdown, ShutdownIn
  <2> QED BY <1>0, <1>5, <2>1, PutLemma
<1>6. CASE Take
  <2>1. NonEmpty(queryQueue) /\ queryQueue' = Tail(queryQueue)
    BY <1>6 DEF Take, TakeThen
  <2> QED BY <1>0, <2>1, TakeLemma
<1> USE DEF queueVars
<1>7. CASE \/ \E q \in Query : Wait(q) \/ Abort(q)
           \/ Connect \/ ConnectWait \/ SetWaiting \/ WaitForQuery \/ Wake
           \/ PingEnd \/ ConnectTest \/ Join \/ Think \/ ThinkHook \/ Finish
           \/ SpuriousWakeup \/ Gone \/ UNCHANGED vars
  <2>1. UNCHANGED queryQueue
    BY <1>7 DEF Wait, Abort, Connect, ConnectWait, SetWaiting, WaitForQuery,
        WaitUnless, Wake, PingEnd, PingEndWith, ConnectTest, ConnectTestUnlocked,
        Join, Think, ThinkHook, TakeFinishedQueries, Hand, Finish, FinishData,
        SpuriousWakeup, Gone, vars
  <2> QED BY <1>2, <2>1
<1>8. CASE DatabaseThread /\ ~Take
  <2>1. UNCHANGED queryQueue
    BY <1>8 DEF DatabaseThread, LockConnect, ConnectionDone,
        SetConnectionStatus, SetServerInfo, FailClose, CloseConnection,
        ResetStatus, ThreadEnd, SetRunning, RunQuery, PutFinished,
        SetFinished, NotifyAll
  <2> QED BY <1>2, <2>1
<1> QED
  BY <1>1, <1>3, <1>4, <1>5, <1>6, <1>7, <1>8
  DEF Next, Call, InCall, DatabaseThread, Start, PingStart

(* Without a swap the queue stays sorted.                                  *)
LEMMA SortedStep ==
    ASSUME BaseInv, SortedInv, [Next]_vars, ~SwapToFront
    PROVE  SortedInv'
<1> SUFFICES ASSUME NEW d \in Data, NEW e \in Data, Precedes(queryQueue', d, e)
             PROVE  d < e
  BY DEF SortedInv
<1>1. CASE Precedes(queryQueue, d, e)
  BY <1>1 DEF SortedInv
<1>2. ASSUME NEW q \in Query \cup {Ping}, Enqueue(q), d \in Range(queryQueue), e = built'
      PROVE  d < e
  <2>1. built' = built + 1 /\ built \in Nat
    BY <1>2 DEF Enqueue, EnqueueIn, BaseInv, TypeOK
  <2>2. d \in 1..built
    BY <1>2, ConstantsAssumption DEF BaseInv, QueueInv, Null, Data
  <2> QED BY <1>2, <2>1, <2>2
<1>3. e # Null
  BY DEF Data, Null
<1> QED BY <1>1, <1>2, <1>3, PrecedesStep

(* Only take() puts something into the database thread's hands.            *)
LEMMA TakeOnly ==
    ASSUME [Next]_vars, thread = "taking", thread' = "taken"
    PROVE  Take
<1>1. ~Call
  BY DEF Call, Start, PingStart, Enqueue, EnqueueIn, Wait, Abort, AbortAll,
      Connect, ConnectWait, Disconnect, DisconnectWait, Destroy, Shutdown,
      ShutdownIn, threadVars
<1>2. ~ (InCall \/ ThinkHook \/ Finish \/ SpuriousWakeup \/ Gone \/ UNCHANGED vars)
  BY DEF InCall, SetWaiting, SwapToFront, WaitForQuery, WaitUnless, Wake,
      PingEnd, PingEndWith, AbortOne, AbortNext, ConnectTest,
      ConnectTestUnlocked, Join, Think, ThinkHook, TakeFinishedQueries, Hand,
      Destroyed, Finish, FinishData, SpuriousWakeup, Gone, vars, threadVars
<1> QED
  BY <1>1, <1>2 DEF Next, DatabaseThread, LockConnect, ConnectionDone,
      SetConnectionStatus, SetServerInfo, FailClose, CloseConnection,
      ResetStatus, ThreadEnd, SetRunning, RunQuery, PutFinished, SetFinished,
      NotifyAll

(* As long as nobody waits with a swap or pings, data are taken in the     *)
(* order in which they were built, however starts, aborts and disconnects  *)
(* come between.                                                           *)
THEOREM AlwaysTakenInOrder ==
    ASSUME "swapWait" \notin Api, "ping" \notin Api
    PROVE  Spec => TakenInOrder
<1>1. Init => NoSwapInv /\ SortedInv
  BY DEF Init, NoSwapInv, SortedInv, Precedes
<1>2. BaseInv /\ NoSwapInv /\ SortedInv /\ [Next]_vars => NoSwapInv' /\ SortedInv'
  BY NoSwapStep, SortedStep DEF SwapToFront, NoSwapInv
<1>3. ASSUME BaseInv, SortedInv, [Next]_vars, thread' = "taken", thread = "taking",
             NEW d \in Range(queryQueue) \ {Null}
      PROVE  cur' <= d
  <2>2. Take
    BY <1>3, TakeOnly
  <2>3. /\ NonEmpty(queryQueue) /\ queryQueue \in Seq(Data \cup {Null})
        /\ cur' = Head(queryQueue) /\ queryQueue' = Tail(queryQueue) /\ cur' # Null
    BY <1>3, <2>2 DEF Take, TakeThen, BaseInv, TypeOK
  <2>4. /\ cur' \in Data /\ d \in Data
        /\ d = cur' \/ Precedes(queryQueue, cur', d)
    <3>1. cur' \in Data /\ d \in Data
      BY <1>3, <2>3 DEF Range
    <3>2. d \in {cur'} \cup Range(queryQueue')
      BY <1>3, <2>3, TakeLemma
    <3> QED BY <2>3, <3>1, <3>2, TakeLemma
  <2>5. d \in Nat
    BY <2>4, ConstantsAssumption DEF Data
  <2> QED BY <1>3, <2>4, <2>5 DEF SortedInv, Data
<1>4. BaseInv /\ SortedInv /\ [Next]_vars =>
        [thread' = "taken" /\ thread = "taking" =>
           \A d \in Range(queryQueue) \ {Null} : cur' <= d]_vars
  BY <1>3
<1> QED BY <1>1, <1>2, <1>4, BaseInit, BaseStep, PTL DEF Spec, TakenInOrder

(* Without a swap, what was built before the first disconnect stays before *)
(* the poison pills.                                                       *)
LEMMA CutStep ==
    ASSUME BaseInv, ConnInv, CutInv, [Next]_vars, ~SwapToFront
    PROVE  CutInv'
<1>0. /\ cut \in 0..(MaxData + 1) /\ built \in 0..MaxData /\ MaxData \in Nat
      /\ queryQueue \in Seq(Data \cup {Null}) /\ Null \notin Data
      /\ Range(queryQueue) \subseteq Data \cup {Null}
      /\ m_success \in BOOLEAN
  BY ConstantsAssumption DEF BaseInv, TypeOK, Null, Data, Range
\* cut is set by the first disconnect, and built only grows.
<1>1. /\ built' \in Nat /\ built' >= built
      /\ \/ cut' = cut
         \/ /\ cut = Null /\ cut' = built + 1 /\ UNCHANGED <<built, thread, m_success>>
            /\ Disconnect \/ DisconnectWait \/ Destroy
  <2>1. CASE \E q \in Query \cup {Ping} : Enqueue(q)
    BY <1>0, <2>1 DEF Enqueue, EnqueueIn, historyVars
  <2>2. CASE Disconnect \/ DisconnectWait \/ Destroy
    BY <1>0, <2>2 DEF Disconnect, DisconnectWait, Destroy, Shutdown, ShutdownIn,
        queryVars, threadVars, connVars
  <2>3. CASE UNCHANGED <<built, cut>>
    BY <1>0, <2>3
  <2> USE DEF queryVars, historyVars
  <2>4. CASE \/ \E q \in Query : Wait(q) \/ Abort(q)
             \/ AbortAll \/ Connect \/ ConnectWait
    BY <2>3, <2>4 DEF Wait, Abort, AbortAll, Connect, ConnectWait
  <2>5. CASE InCall \/ ThinkHook \/ Finish \/ SpuriousWakeup \/ Gone \/ UNCHANGED vars
    BY <2>3, <2>5 DEF InCall, SetWaiting, SwapToFront, WaitForQuery, WaitUnless, Wake,
        PingEnd, PingEndWith, AbortOne, AbortNext, ConnectTest, ConnectTestUnlocked,
        Join, Think, ThinkHook, TakeFinishedQueries, Hand, Destroyed, Finish,
        FinishData, SpuriousWakeup, Gone, vars
  <2>6. CASE DatabaseThread
    BY <2>3, <2>6 DEF DatabaseThread, LockConnect, ConnectionDone,
        SetConnectionStatus, SetServerInfo, FailClose, CloseConnection, ResetStatus,
        ThreadEnd, Take, TakeThen, SetRunning, RunQuery, PutFinished, SetFinished,
        NotifyAll
  <2> QED BY <2>1, <2>2, <2>4, <2>5, <2>6 DEF Next, Call, Start, PingStart
<1>2. AbortOne \/ AbortAll \/ Destroyed => Range(queryQueue') \subseteq Range(queryQueue)
  <2>1. CASE AbortAll \/ Destroyed
    BY <2>1, EmptyLemma DEF AbortAll, Destroyed
  <2>2. CASE AbortOne
    <3>1. PICK d : queryQueue' = removeIf(queryQueue, {d})
      BY <2>2 DEF AbortOne, AbortNext
    <3>2. Range(queryQueue') = Range(queryQueue) \ {d}
      BY <1>0, <3>1, RemoveOneLemma
    <3> QED BY <3>2
  <2> QED BY <2>1, <2>2
\* A data that comes into the queue is built then.
<1>3. \A d \in Range(queryQueue') \ Range(queryQueue) : d = Null \/ d = built + 1
  <2>1. (\E q \in Query \cup {Ping} : Enqueue(q)) => built' = built + 1
    BY DEF Enqueue, EnqueueIn
  <2>2. Range(queryQueue) = Range(queryQueue') \cup {cur'}
          => Range(queryQueue') \subseteq Range(queryQueue)
    OBVIOUS
  <2> QED BY <1>2, <2>1, <2>2, QueueStep
<1>4. cut' # Null => cut' <= built' + 1
  BY <1>0, <1>1 DEF CutInv
<1>5. Null \in Range(queryQueue') => cut' # Null
  <2>1. Disconnect \/ DisconnectWait \/ Destroy => cut' # Null
    BY <1>0 DEF Disconnect, DisconnectWait, Destroy, Shutdown, ShutdownIn, Null
  <2>2. cut # Null => cut' # Null
    BY <1>1
  <2>3. (\E q \in Query \cup {Ping} : Enqueue(q)) => built' # Null
    BY <1>0 DEF Enqueue, EnqueueIn, Null
  <2> QED BY <1>2, <2>1, <2>2, <2>3, QueueStep DEF CutInv
<1>6. ASSUME NEW e \in Data, Precedes(queryQueue', Null, e) PROVE e >= cut'
  <2>1. CASE Precedes(queryQueue, Null, e)
    <3>1. Null \in Range(queryQueue)
      BY <2>1 DEF Precedes, Range
    <3>2. cut' = cut
      BY <1>1, <3>1 DEF CutInv
    <3> QED BY <2>1, <3>2 DEF CutInv
  <2>2. CASE /\ \E q \in Query \cup {Ping} : Enqueue(q)
             /\ Null \in Range(queryQueue) /\ e = built'
    <3>1. cut' = cut /\ cut # Null /\ built' = built + 1
      BY <2>2 DEF Enqueue, EnqueueIn, historyVars, CutInv
    <3> QED BY <1>0, <2>2, <3>1 DEF CutInv
  <2> QED BY <1>0, <1>6, <2>1, <2>2, PrecedesStep
<1>7. ASSUME m_success', thread' \in LeftRun
      PROVE  cut' # Null /\ \A d \in Range(queryQueue') \ {Null} : d >= cut'
  <2>1. CASE m_success /\ thread \in LeftRun
    <3>1. cut' = cut /\ cut # Null /\ \A d \in Range(queryQueue) \ {Null} : d >= cut
      BY <1>1, <2>1 DEF CutInv
    <3> QED BY <1>0, <1>3, <3>1 DEF CutInv
  <2>2. CASE Take
    <3>1. /\ NonEmpty(queryQueue) /\ queryQueue' = Tail(queryQueue)
          /\ cur' = Head(queryQueue) /\ UNCHANGED cut
          /\ thread' = IF cur' = Null THEN "poisoned" ELSE "taken"
      BY <2>2 DEF Take, TakeThen, historyVars
    <3>2. Head(queryQueue) = Null
      BY <1>7, <3>1 DEF LeftRun
    <3>3. Null \in Range(queryQueue)
          /\ \A d \in Range(queryQueue') : Precedes(queryQueue, Null, d)
      BY <1>0, <3>1, <3>2, TakeLemma
    <3>4. Range(queryQueue') \subseteq Data \cup {Null}
      BY <1>0, <3>1, TakeLemma
    <3> QED BY <3>1, <3>3, <3>4 DEF CutInv
  <2>3. (m_success /\ thread \in LeftRun) \/ Take
    <3>1. CASE Call \/ InCall \/ ThinkHook \/ Finish \/ SpuriousWakeup \/ Gone
               \/ UNCHANGED vars
      <4>1. UNCHANGED <<thread, m_success>> \/ Connect
        BY <3>1 DEF Call, Start, PingStart, Enqueue, EnqueueIn, Wait, Abort, AbortAll,
            ConnectWait, Disconnect, DisconnectWait, Destroy, Shutdown, ShutdownIn,
            InCall, SetWaiting, SwapToFront, WaitForQuery, WaitUnless, Wake, PingEnd,
            PingEndWith, AbortOne, AbortNext, ConnectTest, ConnectTestUnlocked, Join,
            Think, ThinkHook, TakeFinishedQueries, Hand, Destroyed, Finish,
            FinishData, SpuriousWakeup, Gone, vars, threadVars, connVars
      <4> QED BY <1>7, <4>1 DEF Connect, LeftRun
    <3>2. CASE DatabaseThread
      <4>1. CASE LockConnect \/ ConnectionDone \/ SetServerInfo \/ SetRunning
                 \/ RunQuery \/ PutFinished \/ SetFinished \/ NotifyAll
        BY <1>7, <4>1 DEF LockConnect, ConnectionDone, SetServerInfo, SetRunning,
            RunQuery, PutFinished, SetFinished, NotifyAll, LeftRun
      <4>2. CASE SetConnectionStatus \/ FailClose
        BY <1>7, <4>2 DEF SetConnectionStatus, FailClose, LeftRun, ConnInv, connVars
      <4>3. CASE CloseConnection \/ ResetStatus \/ ThreadEnd
        BY <1>7, <4>3 DEF CloseConnection, ResetStatus, ThreadEnd, LeftRun, connVars
      <4> QED BY <3>2, <4>1, <4>2, <4>3 DEF DatabaseThread
    <3> QED BY <3>1, <3>2 DEF Next
  <2> QED BY <2>1, <2>2, <2>3
<1> QED BY <1>4, <1>5, <1>6, <1>7 DEF CutInv

(* As long as nobody waits with a swap or pings, disconnect() finishes     *)
(* what was queued: when the database thread has left run() over a poison  *)
(* pill, no data is queued that was built before the first disconnect.     *)
THEOREM DisconnectAlwaysDrains ==
    ASSUME "swapWait" \notin Api, "ping" \notin Api
    PROVE  Spec => []DisconnectDrains
<1>1. Init => NoSwapInv /\ ConnInv /\ CutInv
  BY DEF Init, NoSwapInv, ConnInv, CutInv, Precedes, Range, LeftRun,
      HoldsConnectMutex
<1>2. BaseInv /\ NoSwapInv /\ ConnInv /\ CutInv /\ [Next]_vars
        => NoSwapInv' /\ ConnInv' /\ CutInv'
  BY NoSwapStep, ConnStep, CutStep DEF SwapToFront, NoSwapInv
<1>3. CutInv => DisconnectDrains
  BY DEF CutInv, DisconnectDrains, LeftRun
<1> QED BY <1>1, <1>2, <1>3, BaseInit, BaseStep, PTL DEF Spec

\* What main waits for is at the front until it is taken, if main only waits
\* with a swap; what ping() waits for always is.
FrontInv ==
    /\ pc \in {"waiting", "sleeping", "woken"} /\ arg \in Range(queryQueue)
    /\ "wait" \notin Api \/ owner[arg] = Ping
    => Head(queryQueue) = arg

(* Every step preserves FrontInv.                                          *)
LEMMA FrontStep ==
    ASSUME BaseInv, FrontInv, [Next]_vars
    PROVE  FrontInv'
<1> USE DEF FrontInv
<1>0. /\ queryQueue \in Seq(Data \cup {Null}) /\ NoneTwice(queryQueue, Null)
      /\ owner \in [Data -> Query \cup {Ping}] /\ Ping \notin Query
      /\ running \in SUBSET Data /\ Null \notin Data
      /\ pc \in {"waiting", "sleeping", "woken"} => arg \in Data
  BY ConstantsAssumption DEF BaseInv, TypeOK, QueueInv, MainInv, Data, Null
<1>1. ASSUME pc' \notin {"waiting", "sleeping", "woken"} PROVE FrontInv'
  BY <1>1
<1>2. ASSUME pc \in {"waiting", "sleeping", "woken"},
             UNCHANGED <<arg, owner, queryQueue>>
      PROVE  FrontInv'
  BY <1>2
<1>3. ASSUME NEW q \in Query, Wait(q) PROVE FrontInv'
  <2>1. /\ arg' = Max(RunningOf(q)) /\ RunningOf(q) # {} /\ UNCHANGED owner
        /\ \/ "wait" \in Api /\ pc' = "waiting"
           \/ pc' = "swapping"
    BY <1>3 DEF Wait, queryVars
  <2>2. arg' \in RunningOf(q)
    BY <1>0, <2>1, MaxLemma DEF RunningOf
  <2>3. owner'[arg'] # Ping
    BY <1>0, <2>1, <2>2 DEF RunningOf
  <2> QED BY <2>1, <2>3
<1>4. CASE Call /\ ~ \E q \in Query : Wait(q)
  BY <1>1, <1>4 DEF Call, Start, PingStart, Enqueue, EnqueueIn, Abort, AbortAll,
      Connect, ConnectWait, Disconnect, DisconnectWait, Destroy, Shutdown,
      ShutdownIn, mainVars
<1>5. CASE SwapToFront
  <2>1. queryQueue' = swapToFrontIf(queryQueue, arg) /\ arg' = arg
    BY <1>5 DEF SwapToFront
  <2>2. Range(queryQueue') = Range(queryQueue)
        /\ (arg \in Range(queryQueue) => Head(queryQueue') = arg)
    BY <1>0, <2>1, SwapLemma
  <2> QED BY <2>1, <2>2
<1>6. CASE WaitForQuery \/ Wake
  <2>1. UNCHANGED <<owner, queryQueue>> /\ pc \in {"waiting", "woken"}
    BY <1>6 DEF WaitForQuery, WaitUnless, Wake, queryVars, queueVars
  <2>2. ReturnFromWait \/ (pc' = "sleeping" /\ arg' = arg)
    BY <1>6 DEF WaitForQuery, WaitUnless, Wake
  <2>3. ReturnFromWait => pc' \notin {"waiting", "sleeping", "woken"}
    BY DEF ReturnFromWait, ReturnToThink
  <2> QED BY <1>1, <1>2, <2>1, <2>2, <2>3
<1>7. CASE SetWaiting \/ PingEnd \/ AbortOne \/ ConnectTest \/ Join
           \/ Think \/ Destroyed \/ ThinkHook \/ Finish
  BY <1>1, <1>7 DEF SetWaiting, Return, PingEnd, PingEndWith, AbortOne, AbortNext,
      ConnectTest, ConnectTestUnlocked, Join, Think, ThinkHook, TakeFinishedQueries,
      Hand, Destroyed, Finish, FinishData
<1>8. CASE Gone \/ UNCHANGED vars
  BY <1>8 DEF Gone, vars, mainVars, queryVars, queueVars
<1>9. CASE Take
  <2>1. /\ NonEmpty(queryQueue) /\ queryQueue' = Tail(queryQueue)
        /\ UNCHANGED <<pc, arg, owner>>
    BY <1>9 DEF Take, TakeThen, mainVars, queryVars
  <2>2. /\ Range(queryQueue') \subseteq Range(queryQueue)
        /\ Head(queryQueue) # Null => Head(queryQueue) \notin Range(queryQueue')
    BY <1>0, <2>1, TakeLemma
  <2> QED BY <1>0, <2>1, <2>2
<1>10. CASE (DatabaseThread /\ ~Take) \/ SpuriousWakeup
  <2>1. /\ UNCHANGED <<arg, owner, queryQueue>>
        /\ pc' \in {pc, NotifyConnected(pc), NotifyWaiting(pc),
                    NotifyWaiting(NotifyConnected(pc))}
    BY <1>10 DEF DatabaseThread, LockConnect, ConnectionDone, SetConnectionStatus,
        SetServerInfo, FailClose, CloseConnection, AbortWaitingQuery, FailWaiting,
        ResetStatus, ThreadEnd, SetRunning, RunQuery, PutFinished, SetFinished,
        NotifyAll, SpuriousWakeup, mainVars, queryVars, queueVars
  <2>2. pc' \in {"waiting", "sleeping", "woken"} => pc \in {"waiting", "sleeping", "woken"}
    BY <2>1 DEF NotifyConnected, NotifyWaiting
  <2> QED BY <1>1, <1>2, <2>1, <2>2
<1> QED
  BY <1>3, <1>4, <1>5, <1>6, <1>7, <1>8, <1>9, <1>10 DEF Next, Call, InCall

(* What was swapped to the front stays there until it is taken: nothing    *)
(* that runs while main waits puts another data before it.                 *)
THEOREM SwappedAlwaysNext == Spec => []SwappedIsNext
<1>1. Init => FrontInv
  BY DEF Init, FrontInv
<1>2. BaseInv /\ FrontInv /\ [Next]_vars => FrontInv'
  BY FrontStep
<1>3. FrontInv => SwappedIsNext
  BY DEF FrontInv, SwappedIsNext
<1> QED BY <1>1, <1>2, <1>3, BaseInit, BaseStep, PTL DEF Spec
=============================================================================
