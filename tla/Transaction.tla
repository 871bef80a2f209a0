----------------------------- MODULE Transaction -----------------------------
(***************************************************************************)
(* How the database thread executes what it has taken from its queue:      *)
(* Database::runQuery with its one retry after a reconnect, around         *)
(* Transaction::executeStatement and Query::executeStatement, against the  *)
(* session that the MySQL server keeps for the connection.                 *)
(*                                                                         *)
(* An action is one request to the server, or the code between two         *)
(* requests.  A request may find the connection lost, lose it, or be       *)
(* answered with an error.  A lost connection ends the session, and with   *)
(* it the open transaction; a new connection starts in autocommit mode.    *)
(***************************************************************************)
EXTENDS Naturals

CONSTANTS
    Tx,             \* the started transactions
    Plain,          \* the started queries that are not part of one
    Length,         \* the number of queries in each transaction
    AutoReconnect,  \* shouldAutoReconnect
    Faults          \* "lost", "error", "answer", "reconnect", "exception"

\* No transaction or query, and no error.
None == "none"

ASSUME TransactionAssumption ==
    /\ Tx \cap Plain = {}
    /\ None \notin Tx \cup Plain
    /\ Length \in Nat
    /\ AutoReconnect \in BOOLEAN

VARIABLES
    \* the server: the connection is up, the mode of its session, how often
    \* each query was executed, wholly or in part, in the open transaction and
    \* for good
    link, autocommit, pending, committed,
    \* the database thread: what it runs and where, the next query of the
    \* transaction, the argument of runQuery, the error it has caught
    job, pc, next, retry, err,
    \* QueryData of the statements: m_status, m_resultStatus and the number
    \* of m_results
    status, resultStatus, results,
    \* m_resultStatus of the transactions and plain queries, when they are
    \* done, and (history) how often they took effect without an answer, how
    \* often the first statements of a plain query took effect before it
    \* failed, and whether an exception that is not a MySQLException was ever
    \* thrown
    outcome, unanswered, partial, foreign

session    == <<link, autocommit, pending, committed>>
data       == <<status, resultStatus, results>>
unreported == <<unanswered, partial>>
vars == <<session, job, pc, next, retry, err, data, outcome, unreported, foreign>>

Job  == Tx \cup Plain
Stmt == (Tx \X (1..Length)) \cup (Plain \X {1})
Nothing == [s \in Stmt |-> 0]

\* The queries of the running transaction.
Member == {s \in Stmt : s[1] = job}

Init ==
    /\ link = TRUE /\ autocommit = TRUE
    /\ pending = Nothing /\ committed = Nothing
    /\ job = None /\ pc = "idle" /\ next = 1 /\ retry = FALSE /\ err = None
    /\ status = [s \in Stmt |-> "COMPLETE"]
    /\ resultStatus = [s \in Stmt |-> "NONE"]
    /\ results = Nothing
    /\ outcome = [j \in Job |-> "NONE"] /\ unanswered = [j \in Job |-> 0]
    /\ partial = [p \in Plain |-> 0] /\ foreign = FALSE

-----------------------------------------------------------------------------
(* The server *)

One(s) == [Nothing EXCEPT ![s] = 1]
Plus(f, g) == [s \in Stmt |-> f[s] + g[s]]

\* What the server has for good after executing s: in autocommit mode s too.
Kept(s) == IF autocommit THEN Plus(committed, One(s))
                         ELSE committed

Effect(s) ==
    /\ pending' = IF autocommit THEN pending
                  ELSE Plus(pending, One(s))
    /\ committed' = Kept(s)

\* The connection is lost, and the open transaction with it.
Lose == link' = FALSE /\ pending' = Nothing

\* A request fails because the connection was or is being lost ...
Gone ==
    /\ \/ ~link /\ UNCHANGED session
       \/ link /\ "lost" \in Faults /\ Lose /\ UNCHANGED <<autocommit, committed>>
    /\ err' = "retriable"

\* ... or because the server answers with an error, which isRetriableError
\* may accept as well.
Rejected ==
    /\ link /\ "error" \in Faults
    /\ err' \in {"retriable", "other"}
    /\ UNCHANGED session

\* A query of several statements, or a call, fails as well after the first
\* ones were executed and, perhaps, their result set was read.
Interrupted(s) ==
    /\ link /\ UNCHANGED autocommit
    /\ \/ "lost" \in Faults /\ Lose /\ committed' = Kept(s) /\ err' = "retriable"
       \/ /\ "error" \in Faults /\ Effect(s) /\ UNCHANGED link
          /\ err' \in {"retriable", "other"}

\* The server drops an idle connection.
Dropped ==
    /\ pc = "idle" /\ link /\ "lost" \in Faults
    /\ Lose
    /\ UNCHANGED <<autocommit, committed, job, pc, next, retry, err, data,
                   outcome, unreported, foreign>>

-----------------------------------------------------------------------------
(* runQuery *)

\* run() has taken j and calls runQuery.
RunQuery(j) ==
    /\ pc = "idle" /\ outcome[j] = "NONE"
    /\ job' = j /\ retry' = AutoReconnect
    /\ pc' = IF j \in Tx THEN "begin" ELSE "query"
    /\ UNCHANGED <<session, next, err, data, outcome, unreported, foreign>>

\* The connection goes after the server has executed the request.
AnswerLost ==
    /\ link /\ "answer" \in Faults
    /\ Lose /\ UNCHANGED autocommit
    /\ err' = "retriable"
    /\ unanswered' = [unanswered EXCEPT ![job] = @ + 1] /\ UNCHANGED partial

\* runQuery sets the result and returns.
Done(r) ==
    /\ outcome' = [outcome EXCEPT ![job] = r]
    /\ job' = None /\ pc' = "idle"

\* executeStatement threw a MySQLException; again is the retry argument of
\* the recursive call.
CaughtThen(again) ==
    /\ pc = "caught"
    /\ \/ /\ retry /\ err = "retriable"
          /\ link' = TRUE /\ autocommit' = TRUE /\ pending' = Nothing
          /\ retry' = again
          /\ pc' = IF job \in Tx THEN "begin" ELSE "query"
          /\ UNCHANGED <<committed, job, outcome>>
       \/ /\ retry /\ err = "retriable" => "reconnect" \in Faults
          /\ Done("ERROR")
          /\ UNCHANGED <<session, retry>>
    /\ UNCHANGED <<next, err, data, unreported, foreign>>

\* Mutants: the retry may retry; it may if nothing took effect yet.
CaughtAgain == CaughtThen(TRUE)
CaughtUndone == CaughtThen(unanswered[job] = 0)

Caught == CaughtThen(FALSE)

\* Mutant: mysqlStoreResults does not look at the error.
ExecuteQueryEmplaces ==
    LET s == <<job, 1>> IN
    /\ pc = "query"
    /\ Gone \/ Rejected
    /\ pc' = "caught" /\ results' = [results EXCEPT ![s] = @ + 1]
    /\ UNCHANGED <<job, outcome, unreported, foreign>>
    /\ UNCHANGED <<autocommit, next, retry, status, resultStatus>>

\* Query::executeStatement outside a transaction.  The result sets of a
\* successful execution count as one.
ExecuteQuery ==
    LET s == <<job, 1>>
        Store(n) == results' = [results EXCEPT ![s] = @ + n]
        CutShort == /\ \E n \in 0..1 : Store(n)
                    /\ partial' = [partial EXCEPT ![job] = @ + 1]
                    /\ UNCHANGED unanswered
    IN
    /\ pc = "query"
    /\ \/ /\ link /\ Effect(s) /\ UNCHANGED link
          /\ Store(1) /\ Done("SUCCESS") /\ UNCHANGED <<err, unreported, foreign>>
       \/ /\ AnswerLost /\ committed' = Kept(s)
          /\ \E n \in 0..1 : Store(n)
          /\ pc' = "caught" /\ UNCHANGED <<job, outcome, foreign>>
       \/ /\ Gone \/ Rejected
          /\ pc' = "caught" /\ Store(0) /\ UNCHANGED <<job, outcome, unreported, foreign>>
       \/ /\ Interrupted(s) /\ CutShort
          /\ pc' = "caught" /\ UNCHANGED <<job, outcome, foreign>>
       \* Any other exception, while results are stored.
       \/ /\ link /\ "exception" \in Faults
          /\ Effect(s) /\ UNCHANGED link
          /\ CutShort /\ Done("ERROR") /\ foreign' = TRUE /\ UNCHANGED err
    /\ UNCHANGED <<autocommit, next, retry, status, resultStatus>>

-----------------------------------------------------------------------------
(* Transaction::executeStatement *)

\* Every query is reset, then autocommit is turned off.
BeginWith(cleared) ==
    /\ pc = "begin"
    /\ status' = [s \in Stmt |-> IF s \in Member THEN "RUNNING" ELSE status[s]]
    /\ resultStatus' =
          [s \in Stmt |-> IF s \in Member THEN "NONE" ELSE resultStatus[s]]
    /\ results' = cleared
    /\ next' = 1
    /\ \/ /\ link /\ autocommit' = FALSE /\ pc' = "execute"
          /\ UNCHANGED <<link, pending, committed, err>>
       \/ Gone /\ pc' = "catch"
    /\ UNCHANGED <<job, retry, outcome, unreported, foreign>>

\* Mutant: the result sets of a first attempt stay.
BeginKeeps == BeginWith(results)

Begin == BeginWith([s \in Stmt |-> IF s \in Member THEN 0 ELSE results[s]])

\* Mutant: one query too many.
ExecuteMemberBeyond ==
    /\ pc = "execute" /\ next <= Length + 1
    /\ link /\ next' = next + 1
    /\ UNCHANGED <<session, job, pc, retry, err, data, outcome, unreported, foreign>>

ExecuteMember ==
    LET s == <<job, next>>
        Store(n) == results' = [results EXCEPT ![s] = @ + n]
    IN
    /\ pc = "execute" /\ next <= Length
    /\ \/ /\ link /\ Effect(s) /\ UNCHANGED link
          /\ Store(1)
          /\ status' = [status EXCEPT ![s] = "COMPLETE"]
          /\ resultStatus' = [resultStatus EXCEPT ![s] = "SUCCESS"]
          /\ next' = next + 1
          /\ UNCHANGED <<job, pc, err, outcome, foreign>>
       \* An error, perhaps after a first result set.
       \/ /\ \/ (Gone \/ Rejected) /\ Store(0)
             \/ Interrupted(s) /\ \E n \in 0..1 : Store(n)
          /\ resultStatus' = [resultStatus EXCEPT ![s] = "ERROR"]
          /\ pc' = "catch"
          /\ UNCHANGED <<status, next, job, outcome, foreign>>
       \* Any other exception passes both catch blocks here and ends in
       \* runQuery.
       \/ /\ link /\ "exception" \in Faults
          /\ Effect(s) /\ UNCHANGED link
          /\ \E n \in 0..1 : Store(n)
          /\ Done("ERROR") /\ foreign' = TRUE
          /\ UNCHANGED <<status, resultStatus, next, err>>
    /\ UNCHANGED <<autocommit, retry, unreported>>

Commit ==
    /\ pc = "execute" /\ next > Length
    /\ \/ /\ link /\ committed' = Plus(committed, pending)
          /\ pending' = Nothing /\ pc' = "committed"
          /\ UNCHANGED <<link, autocommit, err, unreported>>
       \/ /\ AnswerLost /\ committed' = Plus(committed, pending)
          /\ pc' = "catch"
       \/ (Gone \/ Rejected) /\ pc' = "catch" /\ UNCHANGED unreported
    /\ UNCHANGED <<job, next, retry, data, outcome, foreign>>

\* Turning autocommit on commits an open transaction p.  It fails only if the
\* connection is lost, and the code ignores that.
AutocommitOn(p) ==
    /\ pending' = Nothing
    /\ \/ /\ link /\ autocommit' = TRUE /\ UNCHANGED link
          /\ committed' = Plus(committed, p)
       \/ /\ link => "lost" \in Faults
          /\ link' = FALSE /\ UNCHANGED <<autocommit, committed>>

\* Mutant: autocommit stays off.
CommittedOff ==
    /\ pc = "committed"
    /\ Done("SUCCESS")
    /\ UNCHANGED <<session, next, retry, err, data, unreported, foreign>>

\* Mutant: the result is not ignored.
CommittedThrows ==
    /\ pc = "committed"
    /\ AutocommitOn(pending)
    /\ IF link' THEN Done("SUCCESS") /\ UNCHANGED err
       ELSE pc' = "catch" /\ err' = "retriable" /\ UNCHANGED <<job, outcome>>
    /\ UNCHANGED <<next, retry, data, unreported, foreign>>

Committed ==
    /\ pc = "committed"
    /\ AutocommitOn(pending)
    /\ Done("SUCCESS")
    /\ UNCHANGED <<next, retry, err, data, unreported, foreign>>

\* The catch block: roll back, turn autocommit on, and give every query that
\* is not complete an empty result.
CatchWith(left) ==
    LET open == {s \in Member : status[s] = "RUNNING"} IN
    /\ pc = "catch"
    /\ AutocommitOn(left)
    /\ resultStatus' =
          [s \in Stmt |-> IF s \in open THEN "ERROR" ELSE resultStatus[s]]
    /\ results' = [s \in Stmt |-> IF s \in open THEN results[s] + 1 ELSE results[s]]
    /\ status' = [s \in Stmt |-> IF s \in open THEN "ABORTED" ELSE status[s]]
    /\ pc' = "caught"
    /\ UNCHANGED <<job, next, retry, err, outcome, unreported, foreign>>

\* Mutant: no rollback.
CatchNoRollback == CatchWith(pending)

Catch == CatchWith(Nothing)

-----------------------------------------------------------------------------
Step ==
    \/ Caught \/ ExecuteQuery
    \/ Begin \/ ExecuteMember \/ Commit \/ Committed \/ Catch

Next == (\E j \in Job : RunQuery(j)) \/ Step \/ Dropped

Spec == Init /\ [][Next]_vars

\* The database thread goes on with what it runs; every request is answered
\* or fails.
FairSpec == Spec /\ WF_vars(Step)

-----------------------------------------------------------------------------
(* Properties *)

(* Every variable holds a value of its type.                               *)
TypeInvariant ==
    /\ link \in BOOLEAN /\ autocommit \in BOOLEAN
    /\ pending \in [Stmt -> Nat] /\ committed \in [Stmt -> Nat]
    /\ job \in Job \cup {None}
    /\ pc \in {"idle", "query", "begin", "execute", "committed", "catch", "caught"}
    /\ next \in 1..(Length + 1)
    /\ retry \in BOOLEAN
    /\ err \in {None, "retriable", "other"}
    /\ status \in [Stmt -> {"RUNNING", "COMPLETE", "ABORTED"}]
    /\ resultStatus \in [Stmt -> {"NONE", "ERROR", "SUCCESS"}]
    /\ results \in [Stmt -> Nat]
    /\ outcome \in [Job -> {"NONE", "ERROR", "SUCCESS"}]
    /\ unanswered \in [Job -> Nat] /\ partial \in [Plain -> Nat]
    /\ foreign \in BOOLEAN

\* How often a transaction or query took effect, wholly or in part, in an
\* attempt that failed.  A transaction does so only if the answer to its
\* commit is lost.
Unreported(j) == unanswered[j] + (IF j \in Plain THEN partial[j] ELSE 0)

(* An exception that is not a MySQLException passes the catch block of     *)
(* executeStatement and leaves the transaction open; the next properties   *)
(* are about runs without one.                                             *)

(* A transaction or query leaves the connection to the next one as it was: *)
(* in autocommit mode and with no open transaction, or lost.               *)
SessionClean ==
    ~foreign /\ pc = "idle" /\ link => autocommit /\ pending = Nothing

(* "Either all queries in the transaction are executed successfully or     *)
(* none of them are" (README): what the server keeps of a transaction is   *)
(* the same for each of its queries, at every moment.                      *)
AllOrNothing ==
    ~foreign =>
        \A t \in Tx : \A m, n \in 1..Length : committed[<<t, m>>] = committed[<<t, n>>]

(* What is reported is what happened: a transaction or query that ends     *)
(* with success was executed exactly once, one that ends with an error had *)
(* no effect, also after a reconnect and a retry.  On top come only the    *)
(* executions whose answer never arrived and, for a query outside a        *)
(* transaction, the attempts that failed after their first statements.     *)
EffectAsReported ==
    ~foreign =>
        \A s \in Stmt :
            /\ outcome[s[1]] = "SUCCESS" => committed[s] = Unreported(s[1]) + 1
            /\ outcome[s[1]] = "ERROR" => committed[s] = Unreported(s[1])

(* However many answers are lost, no query takes effect, not even in part, *)
(* more often than runQuery tries it: twice with autoreconnect, once       *)
(* without.                                                                *)
AtMostTwice ==
    ~foreign => \A s \in Stmt : committed[s] <= (IF AutoReconnect THEN 2 ELSE 1)

(* When a transaction is done, its queries are complete, with one result   *)
(* each, up to some point, and aborted with an error from there on; all    *)
(* are complete if it succeeded.  No result of a first attempt survives.   *)
MembersReported ==
    \A t \in Tx :
        ~foreign /\ outcome[t] # "NONE" =>
            \E k \in 1..(Length + 1) :
                /\ outcome[t] = "SUCCESS" => k = Length + 1
                /\ \A n \in 1..Length :
                     LET s == <<t, n>> IN
                     IF n < k
                     THEN /\ status[s] = "COMPLETE" /\ resultStatus[s] = "SUCCESS"
                          /\ results[s] = 1
                     ELSE /\ status[s] = "ABORTED" /\ resultStatus[s] = "ERROR"
                          /\ results[s] \in (IF n = k THEN {1, 2} ELSE {1})

(* A plain query is executed again without clearing what the first attempt *)
(* has stored.  Only an attempt that failed when the server had executed   *)
(* the query, or a part of it, leaves a result that does not belong to the *)
(* last attempt, and a success always has the result of the last one.      *)
PlainResults ==
    \A p \in Plain :
        /\ outcome[p] = "SUCCESS" => results[<<p, 1>>] \in 1..(Unreported(p) + 1)
        /\ outcome[p] = "ERROR" => results[<<p, 1>>] <= Unreported(p)

(* runQuery ends, however often the connection is lost: it retries once.   *)
RunEnds == pc # "idle" ~> pc = "idle"
=============================================================================
