------------------------- MODULE PreparedQueryProofs -------------------------
(***************************************************************************)
(* Proofs about PreparedQuery, for any number of queries, statements,      *)
(* calls and faults: its types, that no statement is closed twice or used  *)
(* after it was closed, that none that was prepared is left behind, that   *)
(* the connection main uses is neither closed nor replaced, that with      *)
(* autoreconnect an error has a cause outside the program, and that the    *)
(* parameter sets reach the server as they were given.                     *)
(***************************************************************************)
EXTENDS PreparedQuery, SequenceTheorems, TLAPS

Set == Value \cup {Empty}

(* No parameter sets are a sequence of parameter sets.                     *)
LEMMA NoParams == <<>> \in Params
BY EmptySeq DEF Params

(* The data of a ping and the poison pill are entries of the queue.        *)
LEMMA PingPill == Ping \in Entries /\ Pill \in Entries
BY NoParams DEF Ping, Pill, Entry, Entries

\* The parameter sets of a query after a call that changes them.
LEMMA ParameterTypes ==
    ASSUME NEW p \in Params \ {<<>>}, NEW v \in Set
    PROVE  /\ [p EXCEPT ![Len(p)] = v] \in Params \ {<<>>}
           /\ Append(p, v) \in Params \ {<<>>}
           /\ <<v>> \in Params \ {<<>>}
           /\ <<p[Len(p)]>> \in Params \ {<<>>}
           /\ p[Len(p)] \in Set
<1>1. p \in Seq(Set) /\ Len(p) \in Nat /\ Len(p) # 0
  BY NoParams DEF Params, Set
<1>2. Len(p) \in 1..Len(p) /\ p[Len(p)] \in Set
  BY <1>1
<1>3. [p EXCEPT ![Len(p)] = v] \in Seq(Set) /\ Len([p EXCEPT ![Len(p)] = v]) = Len(p)
  BY <1>1, <1>2, ExceptSeq
<1>4. Append(p, v) \in Seq(Set) /\ Len(Append(p, v)) = Len(p) + 1
  BY <1>1
<1>5. <<v>> \in Seq(Set) /\ <<p[Len(p)]>> \in Seq(Set)
  BY <1>2
<1>6. <<v>> # <<>> /\ <<p[Len(p)]>> # <<>>
  OBVIOUS
<1>7. [p EXCEPT ![Len(p)] = v] # <<>> /\ Append(p, v) # <<>>
  BY <1>1, <1>3, <1>4
<1> QED
  BY <1>2, <1>3, <1>4, <1>5, <1>6, <1>7 DEF Params, Set

\* Entries, and what the database thread writes into its own.
LEMMA EntryTypes ==
    ASSUME NEW q \in Query \cup {"ping", "pill"}, NEW p \in Params,
           NEW e \in Entries, NEW v \in Set, NEW r \in {"SUCCESS", "ERROR"}
    PROVE  /\ Entry(q, p) \in Entries
           /\ [e EXCEPT !.applied = Append(@, v)] \in Entries
           /\ [e EXCEPT !.result = r] \in Entries
<1>1. Append(e.applied, v) \in Params
  BY DEF Entries, Params, Set
<1> QED
  BY <1>1, NoParams DEF Entry, Entries

\* The queue after put, take and the swap of ping().
LEMMA QueueTypes ==
    ASSUME NEW s \in Seq(Entries), NEW e \in Entries
    PROVE  /\ Append(s, e) \in Seq(Entries)
           /\ s # <<>> => Head(s) \in Entries /\ Tail(s) \in Seq(Entries)
           /\ LET a == Append(s, e)
              IN  [a EXCEPT ![1] = e, ![Len(a)] = a[1]] \in Seq(Entries)
<1> DEFINE a == Append(s, e)
<1>1. a \in Seq(Entries) /\ 1 \in 1..Len(a) /\ Len(a) \in 1..Len(a) /\ a[1] \in Entries
  OBVIOUS
<1> DEFINE b == [a EXCEPT ![1] = e]
<1>2. b \in Seq(Entries) /\ Len(b) = Len(a)
  BY <1>1, ExceptSeq
<1>3. [b EXCEPT ![Len(a)] = a[1]] \in Seq(Entries)
  <2> HIDE DEF a, b
  <2> QED BY <1>1, <1>2, ExceptSeq
<1>4. s # <<>> => Head(s) \in Entries /\ Tail(s) \in Seq(Entries)
  OBVIOUS
<1> QED
  BY <1>1, <1>3, <1>4

\* A query that is not in the queue does not get in with another entry.
LEMMA NotQueued ==
    ASSUME NEW s \in Seq(Entries), NEW e \in Entries, NEW q,
           \A i \in DOMAIN s : s[i].query # q
    PROVE  /\ e.query # q =>
                  \A i \in DOMAIN Append(s, e) : Append(s, e)[i].query # q
           /\ s # <<>> => /\ Head(s).query # q
                          /\ \A i \in DOMAIN Tail(s) : Tail(s)[i].query # q
           /\ e.query # q =>
                  LET a == Append(s, e)
                      b == [a EXCEPT ![1] = e, ![Len(a)] = a[1]]
                  IN  \A i \in DOMAIN b : b[i].query # q
<1>1. e.query # q => \A i \in DOMAIN Append(s, e) : Append(s, e)[i].query # q
  OBVIOUS
<1>2. s # <<>> => Head(s).query # q /\ \A i \in DOMAIN Tail(s) : Tail(s)[i].query # q
  OBVIOUS
<1>3. ASSUME e.query # q, NEW a, a = Append(s, e), NEW b,
             b = [a EXCEPT ![1] = e, ![Len(a)] = a[1]]
      PROVE  \A i \in DOMAIN b : b[i].query # q
  <2>1. DOMAIN b = DOMAIN a /\ 1 \in DOMAIN a
    BY <1>3
  <2>2. \A i \in DOMAIN b : b[i] = a[i] \/ b[i] = e \/ b[i] = a[1]
    BY <1>3
  <2> QED BY <1>1, <1>3, <2>1, <2>2
<1> QED
  BY <1>1, <1>2, <1>3

-----------------------------------------------------------------------------
(* The inductive invariant *)

\* The types of the cache, of the flags, and of everything else.
CacheType ==
    /\ open \in SUBSET Stmt /\ prepared \in SUBSET open /\ detached \in SUBSET open
    /\ cachedStatement \in [Query -> Stmt \cup {Null}]
    /\ valid \in SUBSET Query /\ cachedStatements \in SUBSET Query
    /\ freedStatements \in SUBSET Stmt

FlagType ==
    /\ caching \in BOOLEAN /\ autoReconnect \in BOOLEAN /\ link \in BOOLEAN
    /\ retry \in BOOLEAN /\ blame \in BOOLEAN

RestType ==
    /\ m_sql \in 0..2
    /\ m_parameters \in [Query -> Params \ {<<>>}]
    /\ queue \in Seq(Entries) /\ finished \in Seq(Entries)
    /\ cur \in Entries /\ stmt \in Stmt \cup {Null} /\ next \in Nat \ {0}
    /\ err \in {"none", "retriable", "other"} /\ faults \in 0..MaxFaults
    /\ main \in {"idle", "ping", "escape", "charset", "free"}
    /\ victim \in Query \cup {Null} /\ collected \in SUBSET Query
    /\ calls \in 0..MaxCalls
    /\ pc \in {"take", "lock", "execute", "bind", "result", "caught", "reconnect",
               "refresh", "complete", "report", "sweep", "release",
               "close", "closing", "ended"}

\* A handle is valid exactly while the set of cached statements has it, and
\* every pointer of the two sets is of an allocated statement and held once.
HandleInv ==
    /\ valid = cachedStatements
    /\ freedStatements \subseteq open
    /\ \A q \in cachedStatements :
          cachedStatement[q] \in open /\ cachedStatement[q] \notin freedStatements
    /\ \A q, r \in cachedStatements :
          cachedStatement[q] = cachedStatement[r] => q = r
    /\ ~caching => cachedStatements = {} /\ freedStatements = {}
    /\ pc \in {"closing", "ended"} => cachedStatements = {} /\ freedStatements = {}

\* The statement in use is the one of the query that is executed.
UseInv ==
    pc \in {"bind", "result"} =>
        /\ stmt \in open
        /\ caching => cur.query \in cachedStatements
                      /\ stmt = cachedStatement[cur.query]

\* Whoever has to close a prepared statement knows it: it waits in one of
\* the two sets, or the running call will close it.
KnownInv ==
    \A s \in prepared :
        \/ s \in freedStatements
        \/ \E q \in cachedStatements : cachedStatement[q] = s
        \/ ~caching /\ pc \in {"bind", "result"} /\ s = stmt

\* The query that main destroys is not the one that is executed: a query
\* that Lua has collected is not queued any more, and at most in the
\* iteration that has just reported it.
OwnerInv ==
    /\ main = "free" => victim \in collected /\ victim # cur.query
    /\ \A q \in collected :
          /\ \A i \in DOMAIN queue : queue[i].query # q
          /\ cur.query = q => pc \in {"sweep", "release"}
    /\ pc \in {"take", "close", "closing", "ended"} => cur = Pill

\* There is a connection until connectRun closes it, and main does not use
\* it under m_queryMutex while a query runs.
MutexInv ==
    /\ m_sql = 0 => pc = "ended"
    /\ main = "charset" => ~RunsQuery

Inv == CacheType /\ FlagType /\ RestType /\ HandleInv /\ UseInv /\ KnownInv /\ OwnerInv /\ MutexInv

(* The inductive invariant holds when the database has connected.          *)
LEMMA InitInv == Init => Inv
<1> SUFFICES ASSUME Init PROVE Inv
  OBVIOUS
<1>1. <<Empty>> \in Params \ {<<>>}
  BY DEF Params
<1>2. RestType
  <2>1. m_parameters \in [Query -> Params \ {<<>>}]
    BY <1>1 DEF Init
  <2>2. queue \in Seq(Entries) /\ finished \in Seq(Entries) /\ cur \in Entries
    BY PingPill, EmptySeq DEF Init
  <2> QED BY <2>1, <2>2, PreparedQueryAssumption DEF Init, RestType
<1>3. FlagType
  BY DEF Init, FlagType
<1>4. CacheType /\ HandleInv /\ UseInv /\ KnownInv
  BY DEF Init, CacheType, HandleInv, UseInv, KnownInv
<1>5. OwnerInv /\ MutexInv
  BY DEF Init, OwnerInv, MutexInv
<1> QED
  BY <1>2, <1>3, <1>4, <1>5 DEF Inv

-----------------------------------------------------------------------------
(* Types are kept *)

(* Every step keeps the types of the flags.                                *)
LEMMA FlagTypeKept == Inv /\ [Next]_vars => FlagType'
<1> SUFFICES ASSUME Inv, [Next]_vars PROVE FlagType'
  OBVIOUS
<1> USE DEF Inv, FlagType, settings, connection, library, cache, work, locals,
    mainState,
            MainStep, ThreadStep, Call, CallOf
<1>1. CASE Main
  BY <1>1 DEF Main, SetParameter, ParametersBecome, PutNewParameters,
      ClearParameters, Start, Collect,
     Disconnect, PingStart, EscapeBegin, SetCharacterSetBegin, CallEnd, Think,
     MainFree
<1>2. CASE Take \/ UseCached \/ Execute \/ StoreResult \/ Success \/ Caught
           \/ Complete \/ Report \/ Sweep \/ Release \/ CloseStatements \/ CloseConnection
  BY <1>2 DEF Take, UseCached, Execute, StoreResult, Success, SucceedAfter,
      Caught, Complete, Report,
     Sweep, Release, CloseStatements, CloseConnection
<1>3. CASE RunQuery \/ ExecutePing \/ Reconnect \/ Retry \/ ConnectionLost
  BY <1>3 DEF RunQuery, RunQueryWith, ExecutePing, Reconnect, Retry,
      ConnectionLost, Replaced, ReplacedUnlocked, NotReplaced
<1>4. ASSUME NEW s \in Stmt, Prepare(s) \/ PrepareFails(s) PROVE FlagType'
  BY <1>4 DEF Prepare, PrepareFails, Unreachable, Refused, Throw
<1>5. CASE InitFails \/ ExecuteFails \/ StoreResultFails
  BY <1>5 DEF InitFails, ExecuteFails, StoreResultFails, Unreachable, Refused,
      Throw
<1>6. CASE UNCHANGED vars
  BY <1>6 DEF vars
<1> QED
  BY <1>1, <1>2, <1>3, <1>4, <1>5, <1>6 DEF Next, Thread

(* Every step keeps the types of the queue, the entry and the objects.     *)
LEMMA RestTypeKept == Inv /\ [Next]_vars => RestType'
<1> SUFFICES ASSUME Inv, [Next]_vars PROVE RestType'
  OBVIOUS
<1> USE PreparedQueryAssumption DEF Inv, RestType
<1> USE DEF settings, connection, library, cache, work, locals, mainState,
    MainStep, ThreadStep,
            Call, CallOf, Fault, NoFault
<1>1. ASSUME NEW q \in Query, NEW v \in Value, SetParameter(q, v) PROVE RestType'
  <2>1. [m_parameters[q] EXCEPT ![Len(m_parameters[q])] = v] \in Params \ {<<>>}
    BY ParameterTypes DEF Set
  <2> QED BY <1>1, <2>1 DEF SetParameter, ParametersBecome
<1>2. ASSUME NEW q \in Query, PutNewParameters(q) PROVE RestType'
  <2>1. Append(m_parameters[q], Empty) \in Params \ {<<>>}
    BY ParameterTypes DEF Set
  <2> QED BY <1>2, <2>1 DEF PutNewParameters, ParametersBecome
<1>3. ASSUME NEW q \in Query, ClearParameters(q) PROVE RestType'
  <2>1. <<Empty>> \in Params \ {<<>>}
    BY ParameterTypes DEF Set
  <2> QED BY <1>3, <2>1 DEF ClearParameters, ParametersBecome
<1>4. ASSUME NEW q \in Query, Start(q) PROVE RestType'
  <2>1. Entry(q, m_parameters[q]) \in Entries
    BY EntryTypes DEF Set
  <2>2. <<m_parameters[q][Len(m_parameters[q])]>> \in Params \ {<<>>}
    BY ParameterTypes DEF Set
  <2> QED BY <1>4, <2>1, <2>2, QueueTypes DEF Start, BuildQueryData
<1>5. ASSUME NEW q \in Query, Collect(q) PROVE RestType'
  BY <1>5 DEF Collect
<1>6. CASE Disconnect
  BY <1>6, PingPill, QueueTypes DEF Disconnect
<1>7. CASE PingStart
  BY <1>7, PingPill, QueueTypes DEF PingStart
<1>8. CASE EscapeBegin \/ SetCharacterSetBegin \/ CallEnd \/ MainFree
  <2>1. CASE EscapeBegin \/ SetCharacterSetBegin
    BY <2>1 DEF EscapeBegin, SetCharacterSetBegin
  <2>2. CASE CallEnd
    BY <2>2 DEF CallEnd
  <2>3. CASE MainFree
    BY <2>3 DEF MainFree
  <2> QED BY <1>8, <2>1, <2>2, <2>3
<1>9. CASE Think
  BY <1>9, QueueTypes, PingPill DEF Think
<1>10. CASE Take
  BY <1>10, QueueTypes, PingPill DEF Take
<1>11. CASE RunQuery \/ UseCached \/ InitFails \/ StoreResult
  <2>1. CASE RunQuery
    BY <2>1 DEF RunQuery, RunQueryWith
  <2>2. CASE UseCached
    BY <2>2 DEF UseCached, CacheType
  <2>3. CASE InitFails
    BY <2>3 DEF InitFails, Throw
  <2>4. CASE StoreResult
    BY <2>4 DEF StoreResult
  <2> QED BY <1>11, <2>1, <2>2, <2>3, <2>4
<1>12. CASE ExecutePing
  BY <1>12 DEF ExecutePing, Replaced, ReplacedUnlocked, NotReplaced, MutexInv
<1>13. ASSUME NEW s \in Stmt, Prepare(s) PROVE RestType'
  BY <1>13 DEF Prepare, New
<1>14. ASSUME NEW s \in Stmt, PrepareFails(s) PROVE RestType'
  BY <1>14 DEF PrepareFails, New, Unreachable, Refused, Throw
<1>15. CASE Execute
  <2>1. cur.params \in Seq(Set)
    BY DEF Entries, Params, Set
  <2>2. cur.params[next] \in Set
    BY <1>15, <2>1 DEF Execute
  <2> QED BY <1>15, <2>2, EntryTypes, NoParams DEF Execute
<1>16. CASE ExecuteFails
  BY <1>16 DEF ExecuteFails, Unreachable, Refused, Throw
<1>17. CASE StoreResultFails
  BY <1>17 DEF StoreResultFails, Unreachable, Refused, Throw
<1>18. CASE Success
  <2>1. [cur EXCEPT !.result = "SUCCESS"] \in Entries
    BY DEF Entries
  <2> QED BY <1>18, <2>1 DEF Success, SucceedAfter
<1>19. CASE Caught
  <2>1. [cur EXCEPT !.result = "ERROR"] \in Entries
    BY DEF Entries
  <2> QED BY <1>19, <2>1 DEF Caught, Fail
<1>20. CASE Reconnect
  <2>1. [cur EXCEPT !.result = "ERROR"] \in Entries
    BY DEF Entries
  <2>2. CASE NotReplaced /\ Fail
    BY <1>20, <2>1, <2>2 DEF Reconnect, Fail, NotReplaced
  <2>3. CASE Replaced /\ pc' = "refresh" /\ UNCHANGED <<cur, blame>>
    BY <1>20, <2>3 DEF Reconnect, Replaced, ReplacedUnlocked, MutexInv
  <2> QED BY <1>20, <2>2, <2>3 DEF Reconnect
<1>21. CASE Retry \/ Complete \/ Sweep
  BY <1>21 DEF Retry, Complete, Sweep
<1>22. CASE Report
  <2>1. Append(finished, cur) \in Seq(Entries)
    BY QueueTypes
  <2> QED BY <1>22, <2>1 DEF Report
<1>23. CASE Release \/ CloseStatements \/ CloseConnection
  BY <1>23, PingPill DEF Release, CloseStatements, CloseConnection
<1>24. CASE ConnectionLost
  BY <1>24 DEF ConnectionLost
<1>25. CASE UNCHANGED vars
  BY <1>25 DEF vars
<1> QED
  BY <1>1, <1>2, <1>3, <1>4, <1>5, <1>6, <1>7, <1>8, <1>9, <1>10, <1>11, <1>12, <1>13,
     <1>14, <1>15, <1>16, <1>17, <1>18, <1>19, <1>20, <1>21, <1>22, <1>23, <1>24, <1>25
     DEF Next, Main, Thread

(* Every step keeps the types of the handles and the cache.                *)
LEMMA CacheTypeKept == Inv /\ [Next]_vars => CacheType'
<1> SUFFICES ASSUME Inv, [Next]_vars PROVE CacheType'
  OBVIOUS
<1> USE DEF Inv, CacheType, HandleInv, library, cache, MainStep, Call, CallOf
<1>1. CASE Main
  <2>1. CASE MainFree
    BY <2>1 DEF MainFree, FreeLocked, FreeIn
  <2>2. CASE ~MainFree
    BY <1>1, <2>2 DEF Main, SetParameter, ParametersBecome, PutNewParameters,
        ClearParameters, Start, Collect,
       Disconnect, PingStart, EscapeBegin, SetCharacterSetBegin, CallEnd, Think
  <2> QED BY <2>1, <2>2
<1>2. CASE Take \/ RunQuery \/ UseCached \/ InitFails \/ Execute \/ StoreResult
           \/ Complete \/ Report \/ CloseConnection \/ ConnectionLost
  BY <1>2 DEF Take, RunQuery, RunQueryWith, UseCached, InitFails, Execute,
      StoreResult, Complete, Report,
     CloseConnection, ConnectionLost
<1>3. CASE ExecutePing \/ Reconnect
  BY <1>3 DEF ExecutePing, Reconnect, Replaced, ReplacedUnlocked, NotReplaced
<1>4. ASSUME NEW s \in Stmt, Prepare(s) PROVE CacheType'
  BY <1>4 DEF Prepare, New, CacheStatement
<1>5. ASSUME NEW s \in Stmt, PrepareFails(s) PROVE CacheType'
  BY <1>5 DEF PrepareFails
<1>6. CASE ExecuteFails \/ StoreResultFails \/ Success
  BY <1>6 DEF ExecuteFails, StoreResultFails, Success, SucceedAfter, StmtClose,
      Close
<1>7. CASE Caught \/ Release
  BY <1>7 DEF Caught, Release, FreeStatement, FreeLocked, FreeIn
<1>8. CASE Retry \/ CloseStatements
  BY <1>8 DEF Retry, CloseStatements, FreeCachedStatements, FreeWith, Close
<1>9. CASE Sweep
  BY <1>9 DEF Sweep, FreeUnusedStatements, Close
<1>10. CASE UNCHANGED vars
  BY <1>10 DEF vars
<1> QED
  BY <1>1, <1>2, <1>3, <1>4, <1>5, <1>6, <1>7, <1>8, <1>9, <1>10 DEF Next,
      Thread

-----------------------------------------------------------------------------
(* The parts of the invariant are kept *)

(* Every step keeps the two threads apart by the mutexes.                  *)
LEMMA MutexInvKept == Inv /\ [Next]_vars => MutexInv'
<1> SUFFICES ASSUME Inv, [Next]_vars PROVE MutexInv'
  OBVIOUS
<1> USE DEF Inv, MutexInv, RestType, RunsQuery, MainHoldsQueryMutex,
    MainHoldsConnectMutex,
            connection, locals, mainState, MainStep, ThreadStep, Call, CallOf
<1>1. CASE Main
  BY <1>1 DEF Main, SetParameter, ParametersBecome, PutNewParameters,
      ClearParameters, Start, Collect,
     Disconnect, PingStart, EscapeBegin, SetCharacterSetBegin, CallEnd, Think,
     MainFree
<1>2. CASE Take \/ RunQuery \/ UseCached \/ InitFails \/ Execute \/ StoreResult \/ Success
           \/ Caught \/ Retry \/ Complete \/ Report \/ Sweep \/ Release
           \/ CloseStatements \/ CloseConnection \/ ConnectionLost
  BY <1>2 DEF Take, RunQuery, RunQueryWith, UseCached, InitFails, Execute,
      StoreResult, Success, SucceedAfter, Caught,
     Retry, Complete, Report, Sweep, Release, CloseStatements, CloseConnection,
     ConnectionLost, Throw, Fail
<1>3. CASE ExecutePing \/ Reconnect
  BY <1>3 DEF ExecutePing, Reconnect, Replaced, ReplacedUnlocked, NotReplaced,
      Fail
<1>4. ASSUME NEW s \in Stmt, Prepare(s) \/ PrepareFails(s) PROVE MutexInv'
  BY <1>4 DEF Prepare, PrepareFails, New, Unreachable, Refused, Throw
<1>5. CASE ExecuteFails \/ StoreResultFails
  BY <1>5 DEF ExecuteFails, StoreResultFails, Unreachable, Refused, Throw
<1>6. CASE UNCHANGED vars
  BY <1>6 DEF vars
<1> QED
  BY <1>1, <1>2, <1>3, <1>4, <1>5, <1>6 DEF Next, Thread

(* Main never destroys the handle of the query that is executed.           *)
LEMMA OwnerInvKept == Inv /\ [Next]_vars => OwnerInv'
<1> SUFFICES ASSUME Inv, [Next]_vars PROVE OwnerInv'
  OBVIOUS
<1> USE PreparedQueryAssumption DEF Inv, OwnerInv, RestType, work, locals,
    mainState,
        MainStep, ThreadStep, Call, CallOf
<1>1. CASE \E q \in Query : \/ \E v \in Value : SetParameter(q, v)
                            \/ PutNewParameters(q) \/ ClearParameters(q)
  BY <1>1 DEF SetParameter, ParametersBecome, PutNewParameters, ClearParameters
<1>2. ASSUME NEW q \in Query, Start(q) PROVE OwnerInv'
  <2>1. Entry(q, m_parameters[q]) \in Entries /\ Entry(q, m_parameters[q]).query = q
    BY EntryTypes DEF Entry, Set
  <2>2. ASSUME NEW r \in collected PROVE \A i \in DOMAIN queue' : queue'[i].query # r
    BY <1>2, <2>1, <2>2, NotQueued DEF Start
  <2> QED BY <1>2, <2>2 DEF Start
<1>3. ASSUME NEW q \in Query, Collect(q) PROVE OwnerInv'
  <2>1. \A i \in DOMAIN queue : queue[i].query # q
    BY <1>3 DEF Collect, Running
  <2>2. cur.query = q => pc \in {"sweep", "release"}
    <3>1. Pill.query # q
      BY DEF Pill, Entry
    <3> QED BY <1>3, <3>1 DEF Collect, Running, RunsQuery
  <2> QED BY <1>3, <2>1, <2>2 DEF Collect
<1>4. CASE Disconnect
  <2>1. ASSUME NEW r \in collected PROVE \A i \in DOMAIN queue' : queue'[i].query # r
    <3>1. Pill.query # r
      BY DEF Pill, Entry
    <3> QED BY <1>4, <2>1, <3>1, PingPill, NotQueued DEF Disconnect
  <2> QED BY <1>4, <2>1 DEF Disconnect
<1>5. CASE PingStart
  <2>1. ASSUME NEW r \in collected PROVE \A i \in DOMAIN queue' : queue'[i].query # r
    <3>1. Ping.query # r
      BY DEF Ping, Entry
    <3> QED BY <1>5, <2>1, <3>1, PingPill, NotQueued DEF PingStart
  <2> QED BY <1>5, <2>1 DEF PingStart
<1>6. CASE EscapeBegin \/ SetCharacterSetBegin \/ CallEnd \/ Think \/ MainFree
  BY <1>6 DEF EscapeBegin, SetCharacterSetBegin, CallEnd, Think, MainFree
<1>7. CASE Take
  <2>1. ASSUME NEW r \in collected
        PROVE  cur'.query # r /\ \A i \in DOMAIN queue' : queue'[i].query # r
    BY <1>7, <2>1, PingPill, NotQueued DEF Take
  <2> QED BY <1>7, <2>1 DEF Take
<1>8. CASE Release
  <2>1. ASSUME NEW r \in collected PROVE Pill.query # r
    BY DEF Pill, Entry
  <2> QED BY <1>8, <2>1 DEF Release
<1>9. CASE RunQuery \/ UseCached \/ ExecutePing \/ InitFails \/ StoreResult
  BY <1>9 DEF RunQuery, RunQueryWith, UseCached, ExecutePing, InitFails,
      StoreResult, Throw
<1>10. ASSUME NEW s \in Stmt, Prepare(s) \/ PrepareFails(s) PROVE OwnerInv'
  BY <1>10 DEF Prepare, PrepareFails, New, Unreachable, Refused, Throw
<1>11. CASE ExecuteFails \/ StoreResultFails
  BY <1>11 DEF ExecuteFails, StoreResultFails, Unreachable, Refused, Throw
<1>12. CASE Execute \/ Success \/ Caught \/ Reconnect
  <2>1. cur'.query = cur.query
    BY <1>12 DEF Execute, Success, SucceedAfter, Caught, Reconnect, Fail,
        Entries
  <2> QED BY <1>12, <2>1 DEF Execute, Success, SucceedAfter, Caught, Reconnect,
      Fail
<1>13. CASE Retry \/ Complete \/ Report \/ Sweep \/ CloseStatements \/ CloseConnection
            \/ ConnectionLost
  BY <1>13 DEF Retry, Complete, Report, Sweep, CloseStatements,
      CloseConnection, ConnectionLost
<1>14. CASE UNCHANGED vars
  BY <1>14 DEF vars
<1> QED
  BY <1>1, <1>2, <1>3, <1>4, <1>5, <1>6, <1>7, <1>8, <1>9, <1>10, <1>11, <1>12, <1>13, <1>14
     DEF Next, Main, Thread

\* The steps after which the cache, the statements and the place of the
\* database thread are as before.
LEMMA MainLeavesCache ==
    Main /\ ~MainFree => UNCHANGED <<cache, library, settings, pc, locals>>
BY DEF Main, SetParameter, ParametersBecome, PutNewParameters, ClearParameters,
       Start, Collect, Disconnect,
   PingStart, EscapeBegin, SetCharacterSetBegin, CallEnd, Think, MainStep,
   Call, CallOf

(* Cached handles stay valid, distinct, and apart from the freed ones.     *)
LEMMA HandleInvKept == Inv /\ [Next]_vars => HandleInv'
<1> SUFFICES ASSUME Inv, [Next]_vars PROVE HandleInv'
  OBVIOUS
<1> USE DEF Inv, HandleInv, CacheType, cache, library, settings, locals,
    MainStep, ThreadStep
<1>1. CASE Main /\ ~MainFree
  BY <1>1, MainLeavesCache
<1>2. CASE MainFree
  BY <1>2 DEF MainFree, FreeLocked, FreeIn
<1>3. CASE Take \/ RunQuery \/ UseCached \/ InitFails \/ Execute \/ StoreResult \/ Complete
           \/ Report \/ ConnectionLost
  BY <1>3 DEF Take, RunQuery, RunQueryWith, UseCached, InitFails, Execute,
      StoreResult, Complete, Report,
     ConnectionLost, Throw
<1>4. CASE ExecutePing \/ Reconnect
  BY <1>4 DEF ExecutePing, Reconnect, Replaced, ReplacedUnlocked, NotReplaced,
      Fail
<1>5. ASSUME NEW s \in Stmt, Prepare(s) PROVE HandleInv'
  BY <1>5 DEF Prepare, New, CacheStatement
<1>6. ASSUME NEW s \in Stmt, PrepareFails(s) PROVE HandleInv'
  BY <1>6 DEF PrepareFails, New, Unreachable, Refused, Throw
<1>7. CASE ExecuteFails \/ StoreResultFails \/ Success
  BY <1>7 DEF ExecuteFails, StoreResultFails, Success, SucceedAfter, StmtClose,
      Close, Unreachable,
     Refused, Throw
<1>8. CASE Caught \/ Release
  BY <1>8 DEF Caught, Release, FreeStatement, FreeLocked, FreeIn, Fail
<1>9. CASE Retry \/ CloseStatements
  BY <1>9 DEF Retry, CloseStatements, FreeCachedStatements, FreeWith, Close
<1>10. CASE Sweep
  BY <1>10 DEF Sweep, FreeUnusedStatements, Close
<1>11. CASE CloseConnection
  BY <1>11 DEF CloseConnection
<1>12. CASE UNCHANGED vars
  BY <1>12 DEF vars
<1> QED
  BY <1>1, <1>2, <1>3, <1>4, <1>5, <1>6, <1>7, <1>8, <1>9, <1>10, <1>11, <1>12
     DEF Next, Thread

(* The statement in use stays open.                                        *)
LEMMA UseInvKept == Inv /\ [Next]_vars => UseInv'
<1> SUFFICES ASSUME Inv, [Next]_vars PROVE UseInv'
  OBVIOUS
<1> USE DEF Inv, UseInv, HandleInv, CacheType, cache, library, settings,
    locals, MainStep,
            ThreadStep
<1>1. CASE Main /\ ~MainFree
  BY <1>1, MainLeavesCache
<1>2. CASE MainFree
  BY <1>2 DEF MainFree, FreeLocked, FreeIn, OwnerInv
<1>3. CASE UseCached
  BY <1>3 DEF UseCached
<1>4. ASSUME NEW s \in Stmt, Prepare(s) PROVE UseInv'
  BY <1>4 DEF Prepare, New, CacheStatement
<1>5. CASE Execute
  <2>1. cur'.query = cur.query
    BY <1>5 DEF Execute, RestType, Entries
  <2> QED BY <1>5, <2>1 DEF Execute
<1>6. CASE StoreResult \/ ConnectionLost
  BY <1>6 DEF StoreResult, ConnectionLost
<1>7. ASSUME NEW s \in Stmt, PrepareFails(s) PROVE UseInv'
  BY <1>7 DEF PrepareFails, Unreachable, Refused, Throw
<1>8. CASE InitFails \/ ExecuteFails \/ StoreResultFails
  BY <1>8 DEF InitFails, ExecuteFails, StoreResultFails, Unreachable, Refused,
      Throw
<1>9. CASE Take \/ RunQuery \/ ExecutePing \/ Success \/ Caught \/ Reconnect \/ Retry
           \/ Complete \/ Report \/ Sweep \/ Release \/ CloseStatements \/ CloseConnection
  BY <1>9 DEF Take, RunQuery, RunQueryWith, ExecutePing, Success, SucceedAfter,
      Caught, Reconnect, Retry, Complete,
     Report, Sweep, Release, CloseStatements, CloseConnection, Fail
<1>10. CASE UNCHANGED vars
  BY <1>10 DEF vars
<1> QED
  BY <1>1, <1>2, <1>3, <1>4, <1>5, <1>6, <1>7, <1>8, <1>9, <1>10 DEF Next,
      Thread

(* A prepared statement stays cached, freed, or in use.                    *)
LEMMA KnownInvKept == Inv /\ [Next]_vars => KnownInv'
<1> SUFFICES ASSUME Inv, [Next]_vars PROVE KnownInv'
  OBVIOUS
<1> USE DEF Inv, KnownInv, HandleInv, CacheType, cache, library, settings,
    locals, MainStep,
            ThreadStep
<1>1. CASE Main /\ ~MainFree
  BY <1>1, MainLeavesCache
<1>2. CASE MainFree
  BY <1>2 DEF MainFree, FreeLocked, FreeIn
<1>3. CASE Take \/ RunQuery \/ UseCached \/ InitFails \/ Execute \/ StoreResult \/ Complete
           \/ Report \/ CloseConnection \/ ConnectionLost
  BY <1>3 DEF Take, RunQuery, RunQueryWith, UseCached, InitFails, Execute,
      StoreResult, Complete, Report,
     CloseConnection, ConnectionLost, Throw
<1>4. CASE ExecutePing \/ Reconnect
  BY <1>4 DEF ExecutePing, Reconnect, Replaced, ReplacedUnlocked, NotReplaced,
      Fail
<1>5. ASSUME NEW s \in Stmt, Prepare(s) PROVE KnownInv'
  BY <1>5 DEF Prepare, New, CacheStatement
<1>6. ASSUME NEW s \in Stmt, PrepareFails(s) PROVE KnownInv'
  BY <1>6 DEF PrepareFails, New, Unreachable, Refused, Throw
<1>7. CASE ExecuteFails \/ StoreResultFails \/ Success
  BY <1>7 DEF ExecuteFails, StoreResultFails, Success, SucceedAfter, StmtClose,
      Close, Unreachable,
     Refused, Throw
<1>8. CASE Caught \/ Release
  BY <1>8 DEF Caught, Release, FreeStatement, FreeLocked, FreeIn, Fail
<1>9. CASE Retry \/ CloseStatements
  BY <1>9 DEF Retry, CloseStatements, FreeCachedStatements, FreeWith, Close,
      StmtsOf
<1>10. CASE Sweep
  BY <1>10 DEF Sweep, FreeUnusedStatements, Close
<1>11. CASE UNCHANGED vars
  BY <1>11 DEF vars
<1> QED
  BY <1>1, <1>2, <1>3, <1>4, <1>5, <1>6, <1>7, <1>8, <1>9, <1>10, <1>11 DEF Next,
      Thread

-----------------------------------------------------------------------------
(* The theorems *)

(* The inductive invariant holds in every reachable state.                 *)
LEMMA Invariance == Spec => []Inv
<1>1. Inv /\ [Next]_vars => Inv'
  BY CacheTypeKept, FlagTypeKept, RestTypeKept, HandleInvKept, UseInvKept, KnownInvKept,
     OwnerInvKept, MutexInvKept DEF Inv
<1> QED
  BY InitInv, <1>1, PTL DEF Spec

\* Every variable keeps its type; in particular a query always has a
\* parameter set for setNumber and its like to write to.
THEOREM PreparedTypeCorrect == Spec => []TypeOK
<1>1. Inv => TypeOK
  BY DEF Inv, CacheType, FlagType, RestType, TypeOK
<1> QED
  BY Invariance, <1>1, PTL

\* Main's ~PreparedQuery, which looks at its handle before it locks, and the
\* database thread, which frees all statements when it reconnects or ends,
\* never close a statement twice, and none is used after it was closed.
THEOREM AlwaysClosedOnce == Spec => []ClosedOnce
<1>1. Inv => ClosedOnce
  BY DEF Inv, HandleInv, UseInv, ClosedOnce, StmtsOf
<1> QED
  BY Invariance, <1>1, PTL

\* After the end of run() no statement that was prepared is left allocated.
THEOREM AlwaysStatementsFreed == Spec => []StatementsFreed
<1>1. Inv => StatementsFreed
  BY DEF Inv, HandleInv, KnownInv, CacheType, StatementsFreed
<1> QED
  BY Invariance, <1>1, PTL

\* While main is in escape or setCharacterSet the connection it uses is
\* neither closed nor replaced.
THEOREM AlwaysConnectionKept == Spec => ConnectionKept
<1>1. Inv /\ [Next]_vars => [(main = "escape" \/ main = "charset") => m_sql' = m_sql]_vars
  <2> SUFFICES ASSUME Inv, Next, main = "escape" \/ main = "charset" PROVE m_sql' = m_sql
    OBVIOUS
  <2> USE DEF Inv, MutexInv, RunsQuery, MainHoldsQueryMutex,
      MainHoldsConnectMutex, connection
  <2>1. CASE Main
    BY <2>1 DEF Main, SetParameter, ParametersBecome, PutNewParameters,
        ClearParameters, Start, Collect,
       Disconnect, PingStart, EscapeBegin, SetCharacterSetBegin, CallEnd,
       Think, MainFree
  <2>2. CASE ExecutePing \/ Reconnect
    BY <2>2 DEF ExecutePing, Reconnect, Replaced, ReplacedUnlocked, NotReplaced
  <2>3. CASE CloseConnection
    BY <2>3 DEF CloseConnection
  <2>4. CASE ConnectionLost
    BY <2>4 DEF ConnectionLost
  <2>5. CASE Thread /\ ~ExecutePing /\ ~Reconnect /\ ~CloseConnection
    BY <2>5 DEF Thread, Take, RunQuery, RunQueryWith, UseCached, Prepare,
        PrepareFails, InitFails, Execute,
       ExecuteFails, StoreResult, StoreResultFails, Success, SucceedAfter,
       Caught, Retry, Complete, Report,
       Sweep, Release, CloseStatements
  <2> QED
    BY <2>1, <2>2, <2>3, <2>4, <2>5 DEF Next
<1> QED
  BY Invariance, <1>1, PTL DEF Spec, ConnectionKept

-----------------------------------------------------------------------------
(* With autoreconnect errors are real *)

\* An entry to which nothing has happened yet.
Untouched(e) == e.applied = <<>> /\ e.result = "NONE"

\* The entries of the queue are untouched, and the one that the database
\* thread has taken has no result until the end of runQuery.
FreshInv ==
    /\ \A i \in DOMAIN queue : Untouched(queue[i])
    /\ pc = "lock" => Untouched(cur)
    /\ pc \in {"execute", "bind", "result", "caught", "reconnect", "refresh"} =>
           cur.result = "NONE"

\* Only with autoreconnect runQuery retries, and only then it reconnects.
RetryInv ==
    /\ retry => autoReconnect
    /\ pc \in {"reconnect", "refresh"} => retry

\* Why the second attempt cannot fail by what the first one left behind: it
\* finds no cached handle and executes a statement of the new connection,
\* which is there unless it was lost since.
SecondInv ==
    autoReconnect =>
        /\ pc = "refresh" => link \/ blame
        /\ ~retry /\ pc \in {"execute", "bind", "result"} => link \/ blame
        /\ ~retry /\ pc = "execute" => valid = {}
        /\ ~retry /\ pc \in {"bind", "result"} => stmt \notin detached

\* An exception that is not going to be repaired has been blamed.
BlameInv ==
    autoReconnect =>
        /\ pc = "caught" => (retry /\ err = "retriable") \/ blame
        /\ pc = "complete" /\ cur.result = "ERROR" => blame

ErrorInv == FreshInv /\ RetryInv /\ SecondInv /\ BlameInv

\* The new entries of the queue are untouched, and those of a queue that
\* comes from put, take or the swap of ping() are.
LEMMA UntouchedEntries ==
    ASSUME NEW s \in Seq(Entries), NEW e \in Entries, Untouched(e),
           \A i \in DOMAIN s : Untouched(s[i])
    PROVE  /\ \A i \in DOMAIN Append(s, e) : Untouched(Append(s, e)[i])
           /\ s # <<>> => /\ Untouched(Head(s))
                          /\ \A i \in DOMAIN Tail(s) : Untouched(Tail(s)[i])
           /\ LET a == Append(s, e)
                  b == [a EXCEPT ![1] = e, ![Len(a)] = a[1]]
              IN  \A i \in DOMAIN b : Untouched(b[i])
<1>1. \A i \in DOMAIN Append(s, e) : Untouched(Append(s, e)[i])
  OBVIOUS
<1>2. s # <<>> => Untouched(Head(s)) /\ \A i \in DOMAIN Tail(s) : Untouched(Tail(s)[i])
  OBVIOUS
<1>3. ASSUME NEW a, a = Append(s, e), NEW b, b = [a EXCEPT ![1] = e, ![Len(a)] = a[1]]
      PROVE  \A i \in DOMAIN b : Untouched(b[i])
  <2>1. DOMAIN b = DOMAIN a /\ 1 \in DOMAIN a
    BY <1>3
  <2>2. \A i \in DOMAIN b : b[i] = a[i] \/ b[i] = e \/ b[i] = a[1]
    BY <1>3
  <2> QED BY <1>1, <1>3, <2>1, <2>2
<1> QED
  BY <1>1, <1>2, <1>3

(* Only the database thread gives an entry a result.                       *)
LEMMA FreshInvKept == Inv /\ FreshInv /\ [Next]_vars => FreshInv'
<1> SUFFICES ASSUME Inv, FreshInv, [Next]_vars PROVE FreshInv'
  OBVIOUS
<1> USE DEF Inv, RestType, FreshInv, work, locals, mainState, MainStep,
    ThreadStep, Call, CallOf
<1>1. CASE \E q \in Query : \/ \E v \in Value : SetParameter(q, v)
                            \/ PutNewParameters(q) \/ ClearParameters(q) \/ Collect(q)
  BY <1>1 DEF SetParameter, ParametersBecome, PutNewParameters,
      ClearParameters, Collect
<1>2. ASSUME NEW q \in Query, Start(q) PROVE FreshInv'
  <2>1. Entry(q, m_parameters[q]) \in Entries /\ Untouched(Entry(q, m_parameters[q]))
    BY EntryTypes DEF Entry, Set, Untouched
  <2>2. \A i \in DOMAIN queue' : Untouched(queue'[i])
    BY <1>2, <2>1, UntouchedEntries DEF Start
  <2> QED BY <1>2, <2>2 DEF Start
<1>3. CASE Disconnect
  <2>1. Untouched(Pill)
    BY DEF Pill, Entry, Untouched
  <2>2. \A i \in DOMAIN queue' : Untouched(queue'[i])
    BY <1>3, <2>1, PingPill, UntouchedEntries DEF Disconnect
  <2> QED BY <1>3, <2>2 DEF Disconnect
<1>4. CASE PingStart
  <2>1. Untouched(Ping)
    BY DEF Ping, Entry, Untouched
  <2>2. \A i \in DOMAIN queue' : Untouched(queue'[i])
    BY <1>4, <2>1, PingPill, UntouchedEntries DEF PingStart
  <2> QED BY <1>4, <2>2 DEF PingStart
<1>5. CASE EscapeBegin \/ SetCharacterSetBegin \/ CallEnd \/ Think \/ MainFree
  BY <1>5 DEF EscapeBegin, SetCharacterSetBegin, CallEnd, Think, MainFree
<1>6. CASE Take
  <2>1. Untouched(cur') /\ \A i \in DOMAIN queue' : Untouched(queue'[i])
    BY <1>6, PingPill, UntouchedEntries DEF Take, Untouched, Ping, Entry
  <2> QED BY <1>6, <2>1 DEF Take
<1>7. CASE RunQuery \/ UseCached \/ ExecutePing \/ InitFails \/ StoreResult
  BY <1>7 DEF RunQuery, RunQueryWith, UseCached, ExecutePing, InitFails,
      StoreResult, Throw, Untouched
<1>8. ASSUME NEW s \in Stmt, Prepare(s) \/ PrepareFails(s) PROVE FreshInv'
  BY <1>8 DEF Prepare, PrepareFails, New, Unreachable, Refused, Throw
<1>9. CASE ExecuteFails \/ StoreResultFails
  BY <1>9 DEF ExecuteFails, StoreResultFails, Unreachable, Refused, Throw
<1>10. CASE Execute
  <2>1. cur'.result = cur.result
    BY <1>10 DEF Execute, Entries
  <2> QED BY <1>10, <2>1 DEF Execute
<1>11. CASE Success \/ Caught \/ Reconnect
  BY <1>11 DEF Success, SucceedAfter, Caught, Reconnect, Fail
<1>12. CASE Retry \/ Complete \/ Report \/ Sweep \/ Release \/ CloseStatements
            \/ CloseConnection \/ ConnectionLost
  BY <1>12 DEF Retry, Complete, Report, Sweep, Release, CloseStatements,
      CloseConnection, ConnectionLost
<1>13. CASE UNCHANGED vars
  BY <1>13 DEF vars
<1> QED
  BY <1>1, <1>2, <1>3, <1>4, <1>5, <1>6, <1>7, <1>8, <1>9, <1>10, <1>11, <1>12, <1>13
     DEF Next, Main, Thread

\* The steps of main leave what a running query is judged by, but that
\* ~PreparedQuery may take a handle away.
LEMMA MainLeavesAttempt ==
    Main => /\ UNCHANGED <<link, library, settings, pc, locals>>
            /\ (valid = {} => valid' = {})
BY DEF Main, SetParameter, ParametersBecome, PutNewParameters, ClearParameters,
       Start, Collect, Disconnect, PingStart, EscapeBegin,
       SetCharacterSetBegin, CallEnd, Think, MainFree, FreeLocked, FreeIn,
       MainStep, Call, CallOf, connection, cache

(* Every step keeps the rules of the retry.                                *)
LEMMA RetryInvKept == Inv /\ RetryInv /\ [Next]_vars => RetryInv'
<1> SUFFICES ASSUME Inv, RetryInv, [Next]_vars PROVE RetryInv'
  OBVIOUS
<1> USE DEF Inv, FlagType, RetryInv, settings, locals, ThreadStep
<1>1. CASE Main
  BY <1>1, MainLeavesAttempt
<1>2. CASE Take \/ RunQuery \/ UseCached \/ ExecutePing \/ Execute \/ StoreResult
           \/ Success \/ Retry \/ Complete \/ Report
  BY <1>2 DEF Take, RunQuery, RunQueryWith, UseCached, ExecutePing, Execute,
      StoreResult, Success, SucceedAfter, Retry, Complete, Report
<1>3. CASE Caught \/ Reconnect \/ Sweep \/ Release \/ CloseStatements
           \/ CloseConnection \/ ConnectionLost
  BY <1>3 DEF Caught, Reconnect, Fail, Sweep, Release, CloseStatements,
      CloseConnection, ConnectionLost
<1>4. ASSUME NEW s \in Stmt, Prepare(s) \/ PrepareFails(s) PROVE RetryInv'
  BY <1>4 DEF Prepare, PrepareFails, Unreachable, Refused, Throw
<1>5. CASE InitFails \/ ExecuteFails \/ StoreResultFails
  BY <1>5 DEF InitFails, ExecuteFails, StoreResultFails, Unreachable, Refused,
      Throw
<1>6. CASE UNCHANGED vars
  BY <1>6 DEF vars
<1> QED
  BY <1>1, <1>2, <1>3, <1>4, <1>5, <1>6 DEF Next, Thread

(* The second attempt meets nothing that the first one has left behind.    *)
LEMMA SecondInvKept ==
    Inv /\ RetryInv /\ SecondInv /\ [Next]_vars => SecondInv'
<1> SUFFICES ASSUME Inv, RetryInv, SecondInv, autoReconnect', [Next]_vars
             PROVE  SecondInv'
  BY DEF SecondInv
<1>1. autoReconnect
  BY DEF Next, Main, Thread, SetParameter, ParametersBecome, PutNewParameters,
         ClearParameters, Start, Collect, Disconnect, PingStart, EscapeBegin,
         SetCharacterSetBegin, CallEnd, Think, MainFree, MainStep, Call, CallOf,
         ThreadStep, Take, RunQuery, RunQueryWith, ExecutePing, UseCached,
         Prepare, PrepareFails, InitFails, Execute, ExecuteFails, StoreResult,
         StoreResultFails, Success, SucceedAfter, Caught, Reconnect, Retry,
         Complete, Report, Sweep, Release, CloseStatements, CloseConnection,
         ConnectionLost, settings, vars
<1> USE <1>1 DEF Inv, CacheType, HandleInv, FlagType, RetryInv, SecondInv,
    connection, library, cache, locals, ThreadStep
<1>2. CASE Main
  BY <1>2, MainLeavesAttempt
<1>3. CASE RunQuery \/ ExecutePing
  BY <1>3 DEF RunQuery, RunQueryWith, ExecutePing
<1>4. CASE UseCached
  BY <1>4 DEF UseCached
<1>5. ASSUME NEW s \in Stmt, Prepare(s) PROVE SecondInv'
  BY <1>5 DEF Prepare, New
<1>6. ASSUME NEW s \in Stmt, PrepareFails(s) PROVE SecondInv'
  BY <1>6 DEF PrepareFails, Unreachable, Refused, Throw
<1>7. CASE InitFails \/ ExecuteFails \/ StoreResultFails
  BY <1>7 DEF InitFails, ExecuteFails, StoreResultFails, Unreachable, Refused,
      Throw
<1>8. CASE Execute \/ StoreResult \/ Success
  BY <1>8 DEF Execute, StoreResult, Success, SucceedAfter
<1>9. CASE Caught
  BY <1>9 DEF Caught, Fail
<1>10. CASE Reconnect
  BY <1>10 DEF Reconnect, Replaced, ReplacedUnlocked, Fail
<1>11. CASE Retry
  BY <1>11 DEF Retry, FreeCachedStatements, FreeWith
<1>12. CASE Take \/ Complete \/ Report \/ Sweep \/ Release \/ CloseStatements
            \/ CloseConnection
  BY <1>12 DEF Take, Complete, Report, Sweep, Release, CloseStatements,
      CloseConnection
<1>13. CASE ConnectionLost
  BY <1>13 DEF ConnectionLost, RunsQuery
<1>14. CASE UNCHANGED vars
  BY <1>14 DEF vars
<1> QED
  BY <1>2, <1>3, <1>4, <1>5, <1>6, <1>7, <1>8, <1>9, <1>10, <1>11, <1>12, <1>13, <1>14
     DEF Next, Thread

(* What is not repaired by the retry has been blamed on someone.           *)
LEMMA BlameInvKept == Inv /\ ErrorInv /\ [Next]_vars => BlameInv'
<1> SUFFICES ASSUME Inv, ErrorInv, [Next]_vars, autoReconnect' PROVE BlameInv'
  BY DEF BlameInv
<1> USE DEF Inv, FlagType, ErrorInv, FreshInv, RetryInv, SecondInv, BlameInv,
    settings, connection, locals, ThreadStep
<1>1. CASE Main
  BY <1>1, MainLeavesAttempt
<1>2. CASE Take \/ RunQuery \/ UseCached \/ Execute \/ StoreResult \/ Retry
           \/ Complete \/ Report
  BY <1>2 DEF Take, RunQuery, RunQueryWith, UseCached, Execute, StoreResult,
      Retry, Complete, Report
<1>3. CASE Sweep \/ Release \/ CloseStatements \/ CloseConnection \/ ConnectionLost
  BY <1>3 DEF Sweep, Release, CloseStatements, CloseConnection, ConnectionLost
<1>4. CASE ExecutePing
  BY <1>4 DEF ExecutePing
<1>5. ASSUME NEW s \in Stmt, Prepare(s) PROVE BlameInv'
  BY <1>5 DEF Prepare
<1>6. ASSUME NEW s \in Stmt, PrepareFails(s) PROVE BlameInv'
  BY <1>6 DEF PrepareFails, New, Unreachable, Refused, Throw
<1>7. CASE InitFails
  BY <1>7 DEF InitFails, Throw
<1>8. CASE ExecuteFails \/ StoreResultFails
  BY <1>8 DEF ExecuteFails, StoreResultFails, Unreachable, Refused, Throw
<1>9. CASE Success
  <2>1. cur'.result = "SUCCESS"
    BY <1>9 DEF Success, SucceedAfter, RestType, Entries
  <2> QED BY <1>9, <2>1 DEF Success, SucceedAfter
<1>10. CASE Caught
  BY <1>10 DEF Caught, Fail
<1>11. CASE Reconnect
  BY <1>11 DEF Reconnect, Fail
<1>12. CASE UNCHANGED vars
  BY <1>12 DEF vars
<1> QED
  BY <1>1, <1>2, <1>3, <1>4, <1>5, <1>6, <1>7, <1>8, <1>9, <1>10, <1>11, <1>12
     DEF Next, Thread

(* No error of the database thread is without someone to blame.            *)
LEMMA ErrorInvariance == Spec => []ErrorInv
<1>1. Init => ErrorInv
  BY DEF Init, ErrorInv, FreshInv, RetryInv, SecondInv, BlameInv, Untouched
<1>2. Inv /\ ErrorInv /\ [Next]_vars => ErrorInv'
  BY FreshInvKept, RetryInvKept, SecondInvKept, BlameInvKept DEF ErrorInv
<1> QED
  BY Invariance, <1>1, <1>2, PTL DEF Spec

\* With autoreconnect a prepared query reports an error only if the server
\* refused a request, the new connection could not be made, or the
\* connection was lost again after it: stale handles, of a connection that
\* ping() or a retry has replaced, are never the reason.
THEOREM ErrorsAlwaysReal == Spec => []ErrorsAreReal
<1>1. ErrorInv => ErrorsAreReal
  BY DEF ErrorInv, BlameInv, ErrorsAreReal
<1> QED
  BY ErrorInvariance, <1>1, PTL

-----------------------------------------------------------------------------
(* What a data has applied *)

\* An attempt of executeStatement has applied the first n sets of the entry,
\* after a first attempt that applied the first k.
Attempted(n) ==
    /\ n \in 0..Len(cur.params)
    /\ \E k \in 0..Len(cur.params) :
          Attempts(cur, k, n) /\ (retry \/ ~autoReconnect => k = 0)

\* What AppliedAsGiven says of one entry.
Given(e) ==
    \E k, n \in 0..Len(e.params) :
        /\ Attempts(e, k, n)
        /\ e.result = "SUCCESS" => n = Len(e.params)
        /\ ~autoReconnect => k = 0

\* next counts the sets that the current attempt has applied.
AppliedInv ==
    /\ pc = "execute" => Attempted(0)
    /\ pc = "bind" => Attempted(next - 1)
    /\ pc = "result" => Attempted(next)
    /\ pc \in {"caught", "reconnect", "refresh"} =>
           \E n \in 0..Len(cur.params) : Attempted(n)
    /\ pc \in {"complete", "report"} => Given(cur)
    /\ \A i \in DOMAIN finished : Given(finished[i])

\* What an entry has applied: nothing is no set of both attempts, a first
\* attempt is one after which the second has still to begin, and one set more
\* is one more of the second.
LEMMA AttemptSteps ==
    ASSUME NEW e \in Entries
    PROVE  /\ Len(e.params) \in Nat
           /\ e.applied = <<>> => Attempts(e, 0, 0)
           /\ \A n \in 0..Len(e.params) : Attempts(e, 0, n) => Attempts(e, n, 0)
           /\ \A k \in 0..Len(e.params), n \in 1..Len(e.params) :
                 Attempts(e, k, n - 1) =>
                     Attempts([e EXCEPT !.applied = Append(@, e.params[n])], k, n)
<1>1. e.params \in Seq(Set) /\ Len(e.params) \in Nat
  BY DEF Entries, Params, Set
<1>2. \A n \in 0..Len(e.params) : /\ SubSeq(e.params, 1, n) \in Seq(Set)
                                  /\ Len(SubSeq(e.params, 1, n)) = n
  BY <1>1
<1>3. SubSeq(e.params, 1, 0) = <<>>
  BY <1>1
<1>4. \A n \in 0..Len(e.params) : /\ <<>> \o SubSeq(e.params, 1, n) = SubSeq(e.params, 1, n)
                                  /\ SubSeq(e.params, 1, n) \o <<>> = SubSeq(e.params, 1, n)
  BY <1>2
<1>5. ASSUME NEW k \in 0..Len(e.params), NEW n \in 1..Len(e.params), Attempts(e, k, n - 1)
      PROVE  Attempts([e EXCEPT !.applied = Append(@, e.params[n])], k, n)
  <2> DEFINE a == SubSeq(e.params, 1, k)
             b == SubSeq(e.params, 1, n - 1)
  <2>1. a \in Seq(Set) /\ b \in Seq(Set) /\ e.params[n] \in Set
    BY <1>1, <1>2
  <2>2. SubSeq(e.params, 1, n) = Append(b, e.params[n])
    BY <1>1
  <2>3. a \o Append(b, e.params[n]) = Append(a \o b, e.params[n])
    <3> HIDE DEF a, b
    <3> QED BY <2>1
  <2>4. e.applied = a \o b
    BY <1>5 DEF Attempts
  <2>5. [e EXCEPT !.applied = Append(@, e.params[n])].applied = Append(e.applied, e.params[n])
        /\ [e EXCEPT !.applied = Append(@, e.params[n])].params = e.params
    BY DEF Entries
  <2> QED BY <2>2, <2>3, <2>4, <2>5 DEF Attempts
<1>6. e.applied = <<>> => Attempts(e, 0, 0)
  BY <1>3 DEF Attempts
<1>7. \A n \in 0..Len(e.params) : Attempts(e, 0, n) => Attempts(e, n, 0)
  BY <1>3, <1>4 DEF Attempts
<1> QED
  BY <1>1, <1>5, <1>6, <1>7

\* A step that leaves the entry and the kind of attempt as they are does not
\* change how far the attempt is.
LEMMA SameAttempt ==
    ASSUME cur'.params = cur.params, cur'.applied = cur.applied,
           retry' = retry, autoReconnect' = autoReconnect, NEW n
    PROVE  Attempted(n) => Attempted(n)'
BY DEF Attempted, Attempts

\* An attempt that ends, without having succeeded or with all sets applied,
\* leaves what AppliedAsGiven says.
LEMMA AttemptEnds ==
    ASSUME NEW n, Attempted(n), cur'.params = cur.params,
           cur'.applied = cur.applied, autoReconnect' = autoReconnect,
           cur'.result = "SUCCESS" => n = Len(cur.params)
    PROVE  Given(cur)'
BY DEF Attempted, Attempts, Given

\* What was said of an entry stays, for autoReconnect does.
LEMMA GivenStays ==
    ASSUME autoReconnect' = autoReconnect
    PROVE  /\ cur' = cur /\ Given(cur) => Given(cur)'
           /\ finished' = finished /\ (\A i \in DOMAIN finished : Given(finished[i]))
              => (\A i \in DOMAIN finished : Given(finished[i]))'
BY DEF Given, Attempts

(* Every step sends the parameter sets on in their order.                  *)
LEMMA AppliedInvKept ==
    Inv /\ FreshInv /\ RetryInv /\ AppliedInv /\ [Next]_vars => AppliedInv'
<1> SUFFICES ASSUME Inv, FreshInv, RetryInv, AppliedInv, [Next]_vars
             PROVE  AppliedInv'
  OBVIOUS
<1> USE DEF settings, locals, work, ThreadStep
<1>0. cur \in Entries /\ next \in Nat \ {0} /\ retry \in BOOLEAN
  BY DEF Inv, RestType, FlagType
<1>1. ASSUME Main PROVE AppliedInv'
  <2>1. UNCHANGED <<settings, pc, locals>>
    BY <1>1, MainLeavesAttempt
  <2>2. finished' = finished \/ (finished # <<>> /\ finished' = Tail(finished))
    <3>1. CASE Think
      BY <3>1 DEF Think
    <3>2. CASE \E q \in Query : \/ \E v \in Value : SetParameter(q, v)
                                \/ PutNewParameters(q) \/ ClearParameters(q)
                                \/ Start(q) \/ Collect(q)
      BY <3>2 DEF SetParameter, ParametersBecome, PutNewParameters,
         ClearParameters, Start, Collect
    <3>3. CASE Disconnect \/ PingStart \/ EscapeBegin \/ SetCharacterSetBegin
               \/ CallEnd \/ MainFree
      BY <3>3 DEF Disconnect, PingStart, EscapeBegin, SetCharacterSetBegin,
         CallEnd, MainFree
    <3> QED BY <1>1, <3>1, <3>2, <3>3 DEF Main
  <2>3. \A i \in DOMAIN finished' : \E j \in DOMAIN finished : finished'[i] = finished[j]
    <3>1. finished \in Seq(Entries)
      BY DEF Inv, RestType
    <3>2. CASE finished' = finished
      BY <3>2
    <3>3. CASE finished # <<>> /\ finished' = Tail(finished)
      BY <3>1, <3>3
    <3> QED BY <2>2, <3>2, <3>3
  <2>4. (\A i \in DOMAIN finished : Given(finished[i]))'
    <3>1. \A i \in DOMAIN finished' : Given(finished'[i])
      BY <2>3 DEF AppliedInv
    <3> QED BY <2>1, <3>1 DEF Given, Attempts
  <2> QED BY <2>1, <2>4, SameAttempt DEF AppliedInv, Given, Attempts
<1>2. CASE Take \/ Complete \/ Sweep \/ Release \/ CloseStatements \/ CloseConnection
           \/ ConnectionLost \/ UNCHANGED vars
  <2>1. finished' = finished /\ autoReconnect' = autoReconnect
    BY <1>2 DEF Take, Complete, Sweep, Release, CloseStatements, CloseConnection,
       ConnectionLost, vars
  <2>2. CASE Take \/ Sweep \/ Release \/ CloseStatements \/ CloseConnection
    BY <2>1, <2>2, GivenStays DEF Take, Sweep, Release, CloseStatements,
       CloseConnection, AppliedInv
  <2>3. CASE Complete
    BY <2>1, <2>3, GivenStays DEF Complete, AppliedInv
  <2>4. CASE ConnectionLost \/ UNCHANGED vars
    <3>1. UNCHANGED <<pc, cur, next, retry>>
      BY <2>4 DEF ConnectionLost, vars
    <3> QED BY <2>1, <3>1, GivenStays, SameAttempt DEF AppliedInv
  <2> QED BY <1>2, <2>2, <2>3, <2>4
<1>3. CASE Report
  <2>1. autoReconnect' = autoReconnect /\ Given(cur) /\ pc' = "sweep"
    BY <1>3 DEF Report, AppliedInv
  <2>2. CASE finished' = finished
    BY <2>1, <2>2, GivenStays DEF AppliedInv
  <2>3. CASE finished' = Append(finished, cur)
    <3>1. \A i \in DOMAIN finished' : Given(finished'[i])
      BY <2>1, <2>3 DEF AppliedInv, Inv, RestType
    <3>2. (\A i \in DOMAIN finished : Given(finished[i]))'
      BY <2>1, <3>1 DEF Given, Attempts
    <3> QED BY <2>1, <3>2 DEF AppliedInv
  <2> QED BY <1>3, <2>2, <2>3 DEF Report
<1> USE <1>0
<1>4. ASSUME Thread, ~Take, ~Complete, ~Report, ~Sweep, ~Release, ~CloseStatements,
             ~CloseConnection
      PROVE  finished' = finished /\ autoReconnect' = autoReconnect
  BY <1>4 DEF Thread, RunQuery, RunQueryWith, ExecutePing, UseCached, Prepare,
     PrepareFails, InitFails, Execute, ExecuteFails, StoreResult, StoreResultFails,
     Success, SucceedAfter, Caught, Reconnect, Retry
<1>5. ASSUME finished' = finished, autoReconnect' = autoReconnect
      PROVE  (\A i \in DOMAIN finished : Given(finished[i]))'
  BY <1>5, GivenStays DEF AppliedInv
<1>6. ASSUME finished' = finished, autoReconnect' = autoReconnect, RunQuery
      PROVE  AppliedInv'
  <2>1. pc' = "execute" /\ cur' = cur /\ Untouched(cur)
    BY <1>6 DEF RunQuery, RunQueryWith, FreshInv
  <2>2. Attempted(0)'
    BY <2>1, AttemptSteps DEF Attempted, Attempts, Untouched
  <2> QED BY <1>5, <1>6, <2>1, <2>2 DEF AppliedInv
<1>7. ASSUME finished' = finished, autoReconnect' = autoReconnect, ExecutePing
      PROVE  AppliedInv'
  <2>1. Attempted(0) /\ cur' = cur /\ pc' = "complete" /\ cur.result = "NONE"
    BY <1>7 DEF ExecutePing, AppliedInv, FreshInv
  <2>2. Given(cur)'
    BY <1>7, <2>1, AttemptEnds
  <2> QED BY <1>5, <1>7, <2>1, <2>2 DEF AppliedInv
<1>8. ASSUME finished' = finished, autoReconnect' = autoReconnect,
             UseCached \/ \E s \in Stmt : Prepare(s)
      PROVE  AppliedInv'
  <2>1. Attempted(0) /\ UNCHANGED <<cur, retry>> /\ pc' = "bind" /\ next' = 1
    BY <1>8 DEF UseCached, Prepare, New, AppliedInv
  <2>2. Attempted(0)'
    BY <1>8, <2>1, SameAttempt
  <2> QED BY <1>5, <1>8, <2>1, <2>2 DEF AppliedInv
<1>9. ASSUME finished' = finished, autoReconnect' = autoReconnect,
             \/ InitFails \/ ExecuteFails \/ StoreResultFails
             \/ \E s \in Stmt : PrepareFails(s)
      PROVE  AppliedInv'
  <2>1. /\ pc \in {"execute", "bind", "result"} /\ pc' = "caught"
        /\ UNCHANGED <<cur, retry>>
    BY <1>9 DEF InitFails, ExecuteFails, StoreResultFails, PrepareFails, New,
       Unreachable, Refused, Throw
  <2>2. PICK n : Attempted(n)
    BY <2>1 DEF AppliedInv
  <2>3. n \in 0..Len(cur'.params) /\ Attempted(n)'
    BY <1>9, <2>1, <2>2, SameAttempt DEF Attempted
  <2> QED BY <1>5, <1>9, <2>1, <2>3 DEF AppliedInv
<1>10. ASSUME finished' = finished, autoReconnect' = autoReconnect, Execute
       PROVE  AppliedInv'
  <2>1. /\ Attempted(next - 1) /\ next \in 1..Len(cur.params)
        /\ cur' = [cur EXCEPT !.applied = Append(@, cur.params[next])]
        /\ pc' = "result" /\ UNCHANGED <<next, retry>>
    BY <1>10, AttemptSteps DEF Execute, AppliedInv
  <2>2. cur'.params = cur.params
    BY <2>1 DEF Entries
  <2>3. PICK k \in 0..Len(cur.params) :
           Attempts(cur, k, next - 1) /\ (retry \/ ~autoReconnect => k = 0)
    BY <2>1 DEF Attempted
  <2>4. Attempts(cur', k, next)
    BY <2>1, <2>3, AttemptSteps
  <2>5. Attempts(cur, k, next)'
    BY <2>1, <2>4 DEF Attempts
  <2>6. Attempted(next)'
    BY <1>10, <2>1, <2>2, <2>3, <2>5 DEF Attempted
  <2> QED BY <1>5, <1>10, <2>1, <2>6 DEF AppliedInv
<1>11. ASSUME finished' = finished, autoReconnect' = autoReconnect, StoreResult
       PROVE  AppliedInv'
  <2>1. Attempted(next) /\ UNCHANGED <<cur, retry>> /\ pc' = "bind" /\ next' - 1 = next
    BY <1>11 DEF StoreResult, AppliedInv
  <2>2. Attempted(next - 1)'
    BY <1>11, <2>1 DEF Attempted, Attempts
  <2> QED BY <1>5, <1>11, <2>1, <2>2 DEF AppliedInv
<1>12. ASSUME finished' = finished, autoReconnect' = autoReconnect, Success
       PROVE  AppliedInv'
  <2>1. /\ Attempted(next - 1) /\ next > Len(cur.params) /\ pc' = "complete"
        /\ cur' = [cur EXCEPT !.result = "SUCCESS"]
    BY <1>12 DEF Success, SucceedAfter, AppliedInv
  <2>2. next - 1 = Len(cur.params)
    BY <2>1, AttemptSteps DEF Attempted
  <2>3. cur'.params = cur.params /\ cur'.applied = cur.applied
    BY <2>1 DEF Entries
  <2>4. Given(cur)'
    BY <1>12, <2>1, <2>2, <2>3, AttemptEnds
  <2> QED BY <1>5, <1>12, <2>1, <2>4 DEF AppliedInv
<1>13. ASSUME finished' = finished, autoReconnect' = autoReconnect, Caught \/ Reconnect
       PROVE  AppliedInv'
  <2>1. /\ pc \in {"caught", "reconnect"} /\ retry' = retry
        /\ \/ pc' \in {"reconnect", "refresh"} /\ cur' = cur
           \/ pc' = "complete" /\ cur' = [cur EXCEPT !.result = "ERROR"]
    BY <1>13 DEF Caught, Reconnect, Fail
  <2>2. PICK n \in 0..Len(cur.params) : Attempted(n)
    BY <2>1 DEF AppliedInv
  <2>3. CASE pc' \in {"reconnect", "refresh"} /\ cur' = cur
    <3>1. Attempted(n)'
      BY <1>13, <2>1, <2>2, <2>3, SameAttempt
    <3> QED BY <1>5, <1>13, <2>2, <2>3, <3>1 DEF AppliedInv
  <2>4. CASE pc' = "complete" /\ cur' = [cur EXCEPT !.result = "ERROR"]
    <3>1. cur'.params = cur.params /\ cur'.applied = cur.applied /\ cur'.result = "ERROR"
      BY <2>4 DEF Entries
    <3>2. Given(cur)'
      BY <1>13, <2>2, <3>1, AttemptEnds
    <3> QED BY <1>5, <1>13, <2>4, <3>2 DEF AppliedInv
  <2> QED BY <2>1, <2>3, <2>4
<1>14. ASSUME finished' = finished, autoReconnect' = autoReconnect, Retry
       PROVE  AppliedInv'
  <2>1. retry /\ autoReconnect /\ ~retry' /\ cur' = cur /\ pc' = "execute"
    BY <1>14 DEF Retry, RetryInv
  <2>2. PICK n \in 0..Len(cur.params) : Attempts(cur, 0, n)
    BY <1>14, <2>1 DEF Retry, AppliedInv, Attempted
  <2>3. Attempts(cur, n, 0)'
    <3>1. Attempts(cur, n, 0)
      BY <2>2, AttemptSteps
    <3> QED BY <2>1, <3>1 DEF Attempts
  <2>4. Len(cur'.params) \in Nat /\ n \in 0..Len(cur'.params)
    BY <2>1, <2>2, AttemptSteps
  <2>5. Attempted(0)'
    <3>1. 0 \in 0..Len(cur'.params) /\ ~(retry' \/ ~autoReconnect')
      BY <1>14, <2>1, <2>4
    <3> QED BY <2>3, <2>4, <3>1 DEF Attempted
  <2> QED BY <1>5, <1>14, <2>1, <2>5 DEF AppliedInv
<1>15. ASSUME Thread, ~Take, ~Complete, ~Report, ~Sweep, ~Release, ~CloseStatements,
              ~CloseConnection
       PROVE  AppliedInv'
  <2>1. finished' = finished /\ autoReconnect' = autoReconnect
    BY <1>4, <1>15
  <2>2. \/ RunQuery \/ ExecutePing \/ (UseCached \/ \E s \in Stmt : Prepare(s))
        \/ (InitFails \/ ExecuteFails \/ StoreResultFails \/ \E s \in Stmt : PrepareFails(s))
        \/ Execute \/ StoreResult \/ Success \/ (Caught \/ Reconnect) \/ Retry
    BY <1>15 DEF Thread
  <2>3. CASE RunQuery \/ ExecutePing
    BY <2>1, <2>3, <1>6, <1>7
  <2>4. CASE UseCached \/ \E s \in Stmt : Prepare(s)
    BY <2>1, <2>4, <1>8
  <2>5. CASE InitFails \/ ExecuteFails \/ StoreResultFails \/ \E s \in Stmt : PrepareFails(s)
    BY <2>1, <2>5, <1>9
  <2>6. CASE Execute \/ StoreResult \/ Success
    BY <2>1, <2>6, <1>10, <1>11, <1>12
  <2>7. CASE Caught \/ Reconnect \/ Retry
    BY <2>1, <2>7, <1>13, <1>14
  <2> QED
    BY <2>2, <2>3, <2>4, <2>5, <2>6, <2>7
<1> QED
  BY <1>1, <1>2, <1>3, <1>15 DEF Next

\* The parameter sets that a data was given at start() reach the server in
\* their order, all of them if the data succeeds; a retry begins again with
\* the first one, and without autoreconnect none is applied twice.
THEOREM AlwaysAppliedAsGiven == Spec => []AppliedAsGiven
<1>1. Init => AppliedInv
  BY DEF Init, AppliedInv
<1>2. Inv /\ ErrorInv /\ AppliedInv /\ [Next]_vars => AppliedInv'
  BY AppliedInvKept DEF ErrorInv
<1>3. AppliedInv => AppliedAsGiven
  BY DEF AppliedInv, AppliedAsGiven, Given
<1> QED
  BY Invariance, ErrorInvariance, <1>1, <1>2, <1>3, PTL DEF Spec
=============================================================================
