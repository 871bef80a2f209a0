-------------------------- MODULE TransactionProofs --------------------------
(***************************************************************************)
(* Proofs of the safety properties of Transaction, for any number and      *)
(* length of transactions.                                                 *)
(***************************************************************************)
EXTENDS Transaction, TLAPS

(* Nothing and One(s) count statements, and so do sums.                    *)
LEMMA NothingLemma == Nothing \in [Stmt -> Nat] /\ \A s \in Stmt : Nothing[s] = 0
BY DEF Nothing

(* Sums of executions are counts.                                          *)
LEMMA PlusLemma ==
    ASSUME NEW f \in [Stmt -> Nat], NEW g \in [Stmt -> Nat]
    PROVE  /\ Plus(f, g) \in [Stmt -> Nat]
           /\ \A s \in Stmt : Plus(f, g)[s] = f[s] + g[s]
BY DEF Plus

(* One execution of a statement counts for that statement only.            *)
LEMMA OneLemma ==
    ASSUME NEW f \in [Stmt -> Nat], NEW s
    PROVE  /\ Plus(f, One(s)) \in [Stmt -> Nat]
           /\ \A r \in Stmt : Plus(f, One(s))[r] = IF r = s THEN f[r] + 1 ELSE f[r]
<1>1. /\ One(s) \in [Stmt -> Nat]
      /\ \A r \in Stmt : One(s)[r] = IF r = s THEN 1 ELSE 0
  BY NothingLemma DEF One
<1>2. /\ Plus(f, One(s)) \in [Stmt -> Nat]
      /\ \A r \in Stmt : Plus(f, One(s))[r] = f[r] + One(s)[r]
  BY <1>1, PlusLemma
<1>3. \A r \in Stmt : f[r] \in Nat
  OBVIOUS
<1> QED BY <1>1, <1>2, <1>3

(* Adding no execution changes nothing.                                    *)
LEMMA PlusNothing ==
    ASSUME NEW f \in [Stmt -> Nat]
    PROVE  Plus(f, Nothing) = f
<1>1. \A s \in Stmt : Plus(f, Nothing)[s] = f[s]
  BY PlusLemma, NothingLemma
<1>2. Plus(f, Nothing) \in [Stmt -> Nat]
  BY PlusLemma, NothingLemma
<1> QED BY <1>1, <1>2

(* The statements of a transaction and of a plain query.                   *)
LEMMA StmtLemma ==
    /\ \A t \in Tx : \A n \in 1..Length : <<t, n>> \in Stmt
    /\ \A p \in Plain : <<p, 1>> \in Stmt
    /\ \A s \in Stmt : s[1] \in Job
    /\ \A t \in Tx : t \in Job /\ t \notin Plain
    /\ \A p \in Plain : p \in Job /\ p \notin Tx
BY TransactionAssumption DEF Stmt, Job

-----------------------------------------------------------------------------
\* What the database thread runs: a transaction in executeStatement of
\* Transaction, a plain query in that of Query.
JobInv ==
    /\ pc = "idle" <=> job = None
    /\ pc = "query" => job \in Plain
    /\ pc \in {"begin", "execute", "committed", "catch"} => job \in Tx

\* Every value keeps its type.
TypeInv == TypeInvariant /\ JobInv

(* TypeInv holds initially.                                                *)
LEMMA TypeInit == Init => TypeInv
<1> SUFFICES ASSUME Init PROVE TypeInv
  OBVIOUS
<1> USE TransactionAssumption DEF Init
<1>1. pending \in [Stmt -> Nat] /\ committed \in [Stmt -> Nat]
      /\ results \in [Stmt -> Nat]
  BY NothingLemma
<1>2. /\ status \in [Stmt -> {"RUNNING", "COMPLETE", "ABORTED"}]
      /\ resultStatus \in [Stmt -> {"NONE", "ERROR", "SUCCESS"}]
      /\ outcome \in [Job -> {"NONE", "ERROR", "SUCCESS"}]
      /\ unanswered \in [Job -> Nat] /\ partial \in [Plain -> Nat]
      /\ next \in 1..(Length + 1) /\ link \in BOOLEAN /\ autocommit \in BOOLEAN
  OBVIOUS
<1>3. TypeInvariant
  BY <1>1, <1>2 DEF TypeInvariant
<1> QED BY <1>3 DEF TypeInv, JobInv

(* Every request leaves the session well-typed.                            *)
LEMMA SessionStep ==
    ASSUME TypeInv, [Next]_vars
    PROVE  /\ link' \in BOOLEAN /\ autocommit' \in BOOLEAN
           /\ pending' \in [Stmt -> Nat] /\ committed' \in [Stmt -> Nat]
<1>0. /\ link \in BOOLEAN /\ autocommit \in BOOLEAN
      /\ pending \in [Stmt -> Nat] /\ committed \in [Stmt -> Nat]
  BY DEF TypeInv, TypeInvariant
<1>1. ASSUME NEW s, Effect(s)
      PROVE  pending' \in [Stmt -> Nat] /\ committed' \in [Stmt -> Nat]
  <2>1. /\ Plus(pending, One(s)) \in [Stmt -> Nat]
        /\ Plus(committed, One(s)) \in [Stmt -> Nat]
    BY <1>0, OneLemma
  <2> QED BY <1>0, <1>1, <2>1 DEF Effect, Kept
<1>2. Lose => link' = FALSE /\ pending' \in [Stmt -> Nat]
  BY NothingLemma DEF Lose
<1>3. ASSUME NEW p \in [Stmt -> Nat], AutocommitOn(p)
      PROVE  /\ link' \in BOOLEAN /\ autocommit' \in BOOLEAN
             /\ pending' \in [Stmt -> Nat] /\ committed' \in [Stmt -> Nat]
  <2>1. Plus(committed, p) \in [Stmt -> Nat]
    BY <1>0, PlusLemma
  <2> QED BY <1>0, <1>3, <2>1, NothingLemma DEF AutocommitOn
<1>4. Gone \/ Rejected =>
        /\ link' \in BOOLEAN /\ autocommit' \in BOOLEAN
        /\ pending' \in [Stmt -> Nat] /\ committed' \in [Stmt -> Nat]
  BY <1>0, <1>2 DEF Gone, Rejected, session
<1>15. ASSUME NEW s, Interrupted(s)
       PROVE  /\ link' \in BOOLEAN /\ autocommit' \in BOOLEAN
              /\ pending' \in [Stmt -> Nat] /\ committed' \in [Stmt -> Nat]
  <2>1. Kept(s) \in [Stmt -> Nat]
    BY <1>0, OneLemma DEF Kept
  <2> QED BY <1>0, <1>1, <1>2, <1>15, <2>1 DEF Interrupted
<1>5. CASE UNCHANGED vars
  BY <1>0, <1>5 DEF vars, session
<1>6. CASE \E j \in Job : RunQuery(j)
  BY <1>0, <1>6 DEF RunQuery, session
<1>7. CASE Dropped
  BY <1>0, <1>2, <1>7 DEF Dropped
<1>8. CASE Caught
  BY <1>0, <1>8, NothingLemma DEF Caught, CaughtThen, session
<1>9. CASE ExecuteQuery
  <2>1. Kept(<<job, 1>>) \in [Stmt -> Nat]
    BY <1>0, OneLemma DEF Kept
  <2> QED BY <1>0, <1>1, <1>2, <1>4, <1>9, <1>15, <2>1 DEF ExecuteQuery, AnswerLost
<1>10. CASE Begin
  BY <1>0, <1>4, <1>10 DEF Begin, BeginWith
<1>11. CASE ExecuteMember
  BY <1>0, <1>1, <1>4, <1>11, <1>15 DEF ExecuteMember
<1>12. CASE Commit
  <2>1. Plus(committed, pending) \in [Stmt -> Nat]
    BY <1>0, PlusLemma
  <2> QED BY <1>0, <1>2, <1>4, <1>12, <2>1, NothingLemma DEF Commit, AnswerLost
<1>13. CASE Committed
  BY <1>0, <1>3, <1>13 DEF Committed
<1>14. CASE Catch
  BY <1>0, <1>3, <1>14, NothingLemma DEF Catch, CatchWith
<1> QED
  BY <1>5, <1>6, <1>7, <1>8, <1>9, <1>10, <1>11, <1>12, <1>13, <1>14
  DEF Next, Step

(* Every step preserves TypeInv.                                           *)
LEMMA TypeStep == TypeInv /\ [Next]_vars => TypeInv'
<1> SUFFICES ASSUME TypeInv, [Next]_vars PROVE TypeInv'
  OBVIOUS
<1>1. /\ link' \in BOOLEAN /\ autocommit' \in BOOLEAN
      /\ pending' \in [Stmt -> Nat] /\ committed' \in [Stmt -> Nat]
  BY SessionStep
<1>2. Length \in Nat /\ AutoReconnect \in BOOLEAN /\ None \notin Job
  BY TransactionAssumption DEF Job
<1> USE <1>1, <1>2 DEF TypeInv, TypeInvariant, JobInv
<1>0. ASSUME AnswerLost
      PROVE  unanswered' \in [Job -> Nat] /\ partial' = partial /\ err' = "retriable"
  <2>1. CASE job \in Job
    <3>1. unanswered[job] + 1 \in Nat
      BY <2>1
    <3> QED BY <1>0, <3>1 DEF AnswerLost
  <2>2. CASE job \notin Job
    BY <1>0, <2>2 DEF AnswerLost
  <2> QED BY <2>1, <2>2
<1>3. CASE UNCHANGED vars
  BY <1>3 DEF vars, data, session, unreported
<1>4. ASSUME NEW j \in Job, RunQuery(j) PROVE TypeInv'
  BY <1>4 DEF RunQuery, data, Job, unreported
<1>5. CASE Dropped
  BY <1>5 DEF Dropped, data, unreported
<1>6. ASSUME NEW r \in {"ERROR", "SUCCESS"}, Done(r), pc # "idle"
      PROVE  /\ job' = None /\ pc' = "idle"
             /\ outcome' \in [Job -> {"NONE", "ERROR", "SUCCESS"}]
  BY <1>6 DEF Done
<1>7. CASE Caught
  <2>1. UNCHANGED <<next, err, data, unreported>> /\ retry' \in BOOLEAN
    BY <1>7 DEF Caught, CaughtThen
  <2>2. CASE Done("ERROR")
    BY <1>6, <1>7, <2>1, <2>2 DEF Caught, CaughtThen, data, unreported
  <2>3. CASE UNCHANGED <<job, outcome>> /\ pc' = IF job \in Tx THEN "begin" ELSE "query"
    BY <1>7, <2>1, <2>3, StmtLemma DEF Caught, CaughtThen, data, Job, unreported
  <2> QED BY <1>7, <2>2, <2>3 DEF Caught, CaughtThen
<1>8. CASE ExecuteQuery
  <2>1. /\ UNCHANGED <<next, retry, status, resultStatus>>
        /\ err' \in {None, "retriable", "other"} /\ pc = "query"
        /\ unanswered' \in [Job -> Nat] /\ foreign' \in BOOLEAN
    BY <1>0, <1>8 DEF ExecuteQuery, Gone, Rejected, Interrupted, unreported
  <2>4. partial' \in [Plain -> Nat]
    <3>1. job \in Plain
      BY <1>8 DEF ExecuteQuery
    <3>2. UNCHANGED partial \/ partial' = [partial EXCEPT ![job] = @ + 1]
      BY <1>8 DEF ExecuteQuery, AnswerLost, unreported
    <3>3. partial[job] + 1 \in Nat
      BY <3>1
    <3> QED BY <3>2, <3>3
  <2>2. results' \in [Stmt -> Nat]
    BY <1>8 DEF ExecuteQuery
  <2>3. Done("ERROR") \/ Done("SUCCESS")
        \/ (pc' = "caught" /\ UNCHANGED <<job, outcome>>)
    BY <1>8 DEF ExecuteQuery
  <2> QED BY <1>6, <2>1, <2>2, <2>3, <2>4
<1>9. CASE Begin
  BY <1>9 DEF Begin, BeginWith, Gone, unreported
<1>10. CASE ExecuteMember
  <2>1. UNCHANGED <<retry, unanswered, partial>> /\ pc = "execute"
        /\ next' \in 1..(Length + 1) /\ err' \in {None, "retriable", "other"}
    BY <1>10 DEF ExecuteMember, Gone, Rejected, Interrupted, unreported
  <2>2. /\ results' \in [Stmt -> Nat]
        /\ status' \in [Stmt -> {"RUNNING", "COMPLETE", "ABORTED"}]
        /\ resultStatus' \in [Stmt -> {"NONE", "ERROR", "SUCCESS"}]
    <3> DEFINE s == <<job, next>>
    <3>1. /\ \E n \in 0..1 : results' = [results EXCEPT ![s] = @ + n]
          /\ \/ UNCHANGED resultStatus
             \/ resultStatus' = [resultStatus EXCEPT ![s] = "SUCCESS"]
             \/ resultStatus' = [resultStatus EXCEPT ![s] = "ERROR"]
          /\ UNCHANGED status \/ status' = [status EXCEPT ![s] = "COMPLETE"]
      BY <1>10 DEF ExecuteMember
    <3>2. ASSUME NEW n \in 0..1, results' = [results EXCEPT ![s] = @ + n]
          PROVE  results' \in [Stmt -> Nat]
      <4>1. CASE s \in Stmt
        <5>1. results[s] + n \in Nat
          BY <4>1
        <5> QED BY <3>2, <5>1
      <4> QED BY <3>2, <4>1
    <3> QED BY <3>1, <3>2
  <2>3. Done("ERROR")
        \/ (pc' \in {"execute", "catch"} /\ UNCHANGED <<job, outcome>>)
    BY <1>10 DEF ExecuteMember
  <2>4. foreign' \in BOOLEAN
    BY <1>10 DEF ExecuteMember
  <2> QED BY <1>6, <2>1, <2>2, <2>3, <2>4
<1>11. CASE Commit
  BY <1>0, <1>11 DEF Commit, Gone, Rejected, data, unreported
<1>12. CASE Committed
  BY <1>6, <1>12 DEF Committed, data, unreported
<1>13. CASE Catch
  BY <1>13 DEF Catch, CatchWith, unreported
<1> QED
  BY <1>3, <1>4, <1>5, <1>7, <1>8, <1>9, <1>10, <1>11, <1>12, <1>13
  DEF Next, Step

(* Every value keeps its type, in every reachable state.                   *)
THEOREM TransactionTypeCorrect == Spec => []TypeInvariant
<1>1. TypeInv => TypeInvariant
  BY DEF TypeInv
<1> QED BY <1>1, TypeInit, TypeStep, PTL DEF Spec

-----------------------------------------------------------------------------
(* The session *)

\* The first n - 1 queries of j were executed once.
Executed(j, n) == [s \in Stmt |-> IF s[1] = j /\ s[2] < n THEN 1 ELSE 0]

\* The session is in autocommit mode with no open transaction, except while a
\* transaction executes; then the open transaction is what it has executed.
CleanInv ==
    /\ pc \in {"idle", "query", "begin", "caught"} /\ link =>
          autocommit /\ pending = Nothing
    /\ pc = "execute" => link /\ ~autocommit /\ pending = Executed(job, next)
    /\ pc = "committed" => pending = Nothing

SessionInv == TypeInv /\ CleanInv

(* One more query is executed in the open transaction.                     *)
LEMMA ExecutedLemma ==
    ASSUME NEW t \in Tx, NEW n \in 1..Length
    PROVE  Plus(Executed(t, n), One(<<t, n>>)) = Executed(t, n + 1)
<1> DEFINE E == Executed(t, n)
           F == Executed(t, n + 1)
           P == Plus(E, One(<<t, n>>))
<1>1. /\ E \in [Stmt -> Nat] /\ F \in [Stmt -> Nat]
      /\ \A s \in Stmt : E[s] = IF s[1] = t /\ s[2] < n THEN 1 ELSE 0
      /\ \A s \in Stmt : F[s] = IF s[1] = t /\ s[2] < n + 1 THEN 1 ELSE 0
  BY DEF Executed
<1>2. \A s \in Stmt : s = <<s[1], s[2]>> /\ s[2] \in Nat
  BY TransactionAssumption DEF Stmt
<1> HIDE DEF E, F
<1>3. /\ P \in [Stmt -> Nat]
      /\ \A r \in Stmt : P[r] = IF r = <<t, n>> THEN E[r] + 1 ELSE E[r]
  BY <1>1, OneLemma
<1> HIDE DEF P
<1>4. ASSUME NEW r \in Stmt PROVE P[r] = F[r]
  <2>1. r = <<t, n>> <=> r[1] = t /\ r[2] = n
    BY <1>2
  <2>2. n \in Nat /\ r[2] \in Nat
    BY <1>2, TransactionAssumption
  <2> QED BY <1>1, <1>3, <2>1, <2>2
<1>5. P = F
  BY <1>1, <1>3, <1>4
<1> QED BY <1>5 DEF P, E, F

(* Nothing is executed before the first query.                             *)
LEMMA ExecutedNone == \A t \in Tx : Executed(t, 1) = Nothing
<1>1. \A s \in Stmt : s[2] >= 1 /\ s[2] \in Nat
  BY TransactionAssumption DEF Stmt
<1> QED BY <1>1 DEF Executed, Nothing

(* Every step preserves CleanInv, unless an exception of another class     *)
(* passes the catch block of Transaction::executeStatement.                *)
LEMMA CleanStep ==
    ASSUME ~foreign', SessionInv, [Next]_vars
    PROVE  CleanInv'
<1>0. TypeInv /\ TypeInvariant /\ JobInv /\ CleanInv
  BY DEF SessionInv, TypeInv
<1>1. CASE UNCHANGED vars
  BY <1>0, <1>1 DEF vars, session, CleanInv, Executed, Stmt
<1>2. ASSUME NEW j \in Job, RunQuery(j) PROVE CleanInv'
  BY <1>0, <1>2 DEF RunQuery, session, CleanInv
<1>3. CASE Dropped
  BY <1>0, <1>3 DEF Dropped, Lose, CleanInv
<1>4. CASE Caught
  BY <1>0, <1>4 DEF Caught, CaughtThen, Done, session, CleanInv
<1>5. CASE ExecuteQuery
  BY <1>0, <1>5
  DEF ExecuteQuery, Effect, AnswerLost, Lose, Gone, Rejected, Interrupted, Done,
      session, CleanInv
<1>6. CASE Begin
  BY <1>0, <1>6, ExecutedNone DEF Begin, BeginWith, Gone, Lose, JobInv,
      CleanInv, session
<1>7. CASE ExecuteMember
  <2>1. /\ job \in Tx /\ next \in 1..Length /\ link /\ ~autocommit
        /\ pending = Executed(job, next)
    BY <1>0, <1>7, TransactionAssumption
    DEF ExecuteMember, JobInv, CleanInv, TypeInvariant
  <2>2. Plus(pending, One(<<job, next>>)) =
        Executed(job, next + 1)
    BY <2>1, ExecutedLemma
  <2>3. CASE pc' = "catch"
    BY <2>3 DEF CleanInv
  <2>4. CASE pc' # "catch"
    <3>1. /\ Effect(<<job, next>>) /\ UNCHANGED link /\ next' = next + 1
          /\ UNCHANGED <<job, pc, autocommit>>
      BY <1>7, <2>4 DEF ExecuteMember, AnswerLost
    <3>2. pending' = Executed(job', next')
      BY <2>1, <2>2, <3>1 DEF Effect
    <3>3. pc' = "execute"
      BY <1>7, <3>1 DEF ExecuteMember
    <3> QED BY <2>1, <3>1, <3>2, <3>3 DEF CleanInv
  <2> QED BY <2>3, <2>4
<1>8. CASE Commit
  BY <1>8 DEF Commit, CleanInv
<1>9. CASE Committed
  BY <1>9 DEF Committed, AutocommitOn, Done, CleanInv
<1>10. CASE Catch
  BY <1>10 DEF Catch, CatchWith, AutocommitOn, CleanInv
<1> QED
  BY <1>1, <1>2, <1>3, <1>4, <1>5, <1>6, <1>7, <1>8, <1>9, <1>10
  DEF Next, Step

(* No step forgets a foreign exception.                                    *)
LEMMA ForeignStep == [Next]_vars /\ ~foreign' => ~foreign
BY DEF Next, vars, RunQuery, Dropped, Step, Caught, CaughtThen, ExecuteQuery,
       Begin, BeginWith, ExecuteMember,
       Commit, Committed, Catch, CatchWith

(* Types and clean sessions, until a foreign exception is thrown.          *)
LEMMA SessionInvariant == Spec => [](TypeInv /\ (~foreign => CleanInv))
<1>1. Init => TypeInv /\ CleanInv
  BY TypeInit DEF Init, CleanInv
<1>2. TypeInv /\ (~foreign => CleanInv) /\ [Next]_vars
        => TypeInv' /\ (~foreign' => CleanInv')
  BY TypeStep, CleanStep, ForeignStep DEF SessionInv
<1> QED BY <1>1, <1>2, PTL DEF Spec

(* Whatever requests fail, a transaction or query leaves the connection in *)
(* autocommit mode and with no open transaction, or lost.                  *)
THEOREM SessionAlwaysClean == Spec => []SessionClean
<1>1. TypeInv /\ (~foreign => CleanInv) => SessionClean
  BY DEF CleanInv, SessionClean
<1> QED BY <1>1, SessionInvariant, PTL

-----------------------------------------------------------------------------
(* What the server keeps *)

\* How often each statement takes effect beyond the executions without an
\* answer: once if its transaction or query succeeded, and once between the
\* commit of its transaction and the report.
Reported(s) ==
    IF outcome[s[1]] = "SUCCESS" \/ (pc = "committed" /\ job = s[1]) THEN 1 ELSE 0

EffectInv ==
    /\ pc # "idle" => outcome[job] = "NONE"
    /\ \A s \in Stmt : committed[s] = Unreported(s[1]) + Reported(s)

\* The running job takes effect, and nobody is told.
OneMore ==
    \A j \in Job : Unreported(j)' = IF j = job THEN Unreported(j) + 1 ELSE Unreported(j)

(* Unreported counts; nothing changes it but a lost answer and a query that *)
(* is cut short.                                                            *)
LEMMA UnreportedLemma ==
    ASSUME TypeInv
    PROVE  /\ \A j \in Job : Unreported(j) \in Nat
           /\ UNCHANGED unreported => \A j \in Job : Unreported(j)' = Unreported(j)
           /\ job \in Job /\ AnswerLost => OneMore
           /\ /\ job \in Plain /\ UNCHANGED unanswered
              /\ partial' = [partial EXCEPT ![job] = @ + 1]
              => OneMore
<1>1. /\ unanswered \in [Job -> Nat] /\ partial \in [Plain -> Nat]
      /\ \A p \in Plain : p \in Job
  BY StmtLemma DEF TypeInv, TypeInvariant
<1>2. \A j \in Job : unanswered[j] \in Nat
  BY <1>1
<1>3. \A p \in Plain : partial[p] \in Nat
  BY <1>1
<1>4. UNCHANGED unreported => \A j \in Job : Unreported(j)' = Unreported(j)
  BY DEF unreported, Unreported
<1>5. ASSUME job \in Job, AnswerLost PROVE OneMore
  <2>1. /\ UNCHANGED partial
        /\ \A j \in Job : unanswered'[j] = IF j = job THEN unanswered[j] + 1
                                          ELSE unanswered[j]
    BY <1>1, <1>5 DEF AnswerLost
  <2> QED BY <1>2, <1>3, <2>1 DEF OneMore, Unreported
<1>6. ASSUME job \in Plain, UNCHANGED unanswered,
             partial' = [partial EXCEPT ![job] = @ + 1]
      PROVE  OneMore
  <2>1. \A p \in Plain : partial'[p] = IF p = job THEN partial[p] + 1 ELSE partial[p]
    BY <1>1, <1>6
  <2> QED BY <1>2, <1>3, <1>6, <2>1 DEF OneMore, Unreported
<1> QED BY <1>2, <1>3, <1>4, <1>5, <1>6 DEF Unreported

(* What each step does to the counts of the running job's statements; the  *)
(* other statements keep theirs.                                           *)
LEMMA CommittedStep ==
    ASSUME ~foreign', SessionInv, [Next]_vars
    PROVE  \/ /\ UNCHANGED <<committed, unreported>>
              /\ pc \in {"query", "execute"} =>
                    UNCHANGED <<job, outcome>> /\ pc' \notin {"idle", "committed"}
           \/ /\ pc \in {"query", "execute"} /\ job \in Job
              /\ \A s \in Stmt : committed'[s] =
                    IF s[1] = job THEN committed[s] + 1 ELSE committed[s]
              /\ \/ OneMore /\ UNCHANGED <<job, outcome>> /\ pc' \notin {"idle", "committed"}
                 \/ Done("SUCCESS") /\ UNCHANGED unreported
                 \/ pc' = "committed" /\ UNCHANGED <<job, outcome, unreported>>
<1>0. /\ TypeInv /\ TypeInvariant /\ JobInv /\ CleanInv
      /\ committed \in [Stmt -> Nat]
  BY DEF SessionInv, TypeInv, TypeInvariant
<1>1. Plus(committed, Nothing) = committed
  BY <1>0, PlusNothing
<1>2. CASE UNCHANGED vars
  <2>1. UNCHANGED <<committed, unreported, job, outcome, pc>>
    BY <1>2 DEF vars, session
  <2> QED BY <2>1
<1>3. ASSUME NEW j \in Job, RunQuery(j)
      PROVE  UNCHANGED <<committed, unreported>> /\ pc = "idle"
  BY <1>3 DEF RunQuery, session
<1>4. CASE Dropped
  BY <1>4 DEF Dropped
<1>5. CASE Caught
  BY <1>5 DEF Caught, CaughtThen, session
<1>6. CASE ExecuteQuery
  <2>1. pc = "query" /\ job \in Plain /\ job \in Job
    BY <1>0, <1>6, StmtLemma DEF ExecuteQuery, JobInv
  <2>2. CASE (Gone \/ Rejected) /\ pc' = "caught" /\ UNCHANGED <<job, outcome, unreported>>
    BY <2>2 DEF Gone, Rejected, session
  <2>3. CASE \/ link /\ Effect(<<job, 1>>) /\ Done("SUCCESS") /\ UNCHANGED unreported
             \/ /\ AnswerLost /\ committed' = Kept(<<job, 1>>)
                /\ pc' = "caught" /\ UNCHANGED <<job, outcome>>
             \/ /\ Interrupted(<<job, 1>>) /\ UNCHANGED unanswered
                /\ partial' = [partial EXCEPT ![job] = @ + 1]
                /\ pc' = "caught" /\ UNCHANGED <<job, outcome>>
    <3>1. committed' = Plus(committed, One(<<job, 1>>))
      BY <1>0, <2>1, <2>3 DEF AnswerLost, Interrupted, Effect, Kept, CleanInv
    <3>2. \A s \in Stmt : s[1] = job <=> s = <<job, 1>>
      BY <2>1, TransactionAssumption DEF Stmt
    <3>3. \A s \in Stmt : committed'[s] =
            IF s[1] = job THEN committed[s] + 1 ELSE committed[s]
      BY <1>0, <3>1, <3>2, OneLemma
    <3> QED BY <1>0, <2>1, <2>3, <3>3, UnreportedLemma
  <2> QED BY <1>6, <2>2, <2>3 DEF ExecuteQuery
<1>7. CASE Begin
  BY <1>7 DEF Begin, BeginWith, Gone, session
<1>8. CASE ExecuteMember
  <2>1. UNCHANGED <<committed, unreported>>
    BY <1>0, <1>8
    DEF ExecuteMember, Effect, Kept, Gone, Rejected, Interrupted, session, CleanInv
  <2>2. UNCHANGED <<job, outcome>> /\ pc' \notin {"idle", "committed"}
    BY <1>8 DEF ExecuteMember
  <2> QED BY <2>1, <2>2
<1>9. CASE Commit
  <2>1. /\ pc = "execute" /\ job \in Tx /\ job \in Job /\ next = Length + 1
        /\ pending = Executed(job, Length + 1)
    BY <1>0, <1>9, StmtLemma, TransactionAssumption
    DEF Commit, JobInv, CleanInv, TypeInvariant
  <2>2. CASE /\ committed' = Plus(committed, pending) /\ UNCHANGED <<job, outcome>>
             /\ \/ pc' = "committed" /\ UNCHANGED unreported
                \/ AnswerLost /\ pc' = "catch"
    <3>1. \A s \in Stmt : s[1] = job => s[2] \in 1..Length
      BY <2>1, TransactionAssumption DEF Stmt
    <3>2. /\ Executed(job, Length + 1) \in [Stmt -> Nat]
          /\ \A s \in Stmt :
               Executed(job, Length + 1)[s] = IF s[1] = job THEN 1 ELSE 0
      BY <3>1, TransactionAssumption DEF Executed
    <3>3. \A s \in Stmt : committed'[s] =
            IF s[1] = job THEN committed[s] + 1 ELSE committed[s]
      BY <1>0, <2>1, <2>2, <3>2, PlusLemma
    <3> QED BY <1>0, <2>1, <2>2, <3>3, UnreportedLemma
  <2>3. CASE (Gone \/ Rejected) /\ pc' = "catch" /\ UNCHANGED <<job, outcome, unreported>>
    BY <2>3 DEF Gone, Rejected, session
  <2> QED BY <1>9, <2>2, <2>3 DEF Commit
<1>10. CASE Committed
  BY <1>0, <1>1, <1>10 DEF Committed, AutocommitOn, CleanInv
<1>11. CASE Catch
  BY <1>1, <1>11 DEF Catch, CatchWith, AutocommitOn
<1> QED
  BY <1>2, <1>3, <1>4, <1>5, <1>6, <1>7, <1>8, <1>9, <1>10, <1>11
  DEF Next, Step

(* Every step preserves EffectInv.                                         *)
LEMMA EffectStep ==
    ASSUME ~foreign', SessionInv, EffectInv, [Next]_vars
    PROVE  EffectInv'
<1>0. /\ TypeInv /\ TypeInvariant /\ JobInv /\ CleanInv
      /\ committed \in [Stmt -> Nat]
      /\ outcome \in [Job -> {"NONE", "ERROR", "SUCCESS"}]
      /\ pc # "idle" => job \in Job
      /\ pc = "idle" => job = None
      /\ None \notin Job
  BY TransactionAssumption DEF SessionInv, TypeInv, TypeInvariant, JobInv, Job
<1>1. \A s \in Stmt : s[1] \in Job /\ committed[s] \in Nat /\ Unreported(s[1]) \in Nat
  BY <1>0, StmtLemma, UnreportedLemma
<1>5. UNCHANGED unreported => \A s \in Stmt : Unreported(s[1])' = Unreported(s[1])
  BY <1>0, <1>1, UnreportedLemma
<1>2. CASE /\ pc \in {"query", "execute"} /\ job \in Job
           /\ \A s \in Stmt : committed'[s] =
                 IF s[1] = job THEN committed[s] + 1 ELSE committed[s]
           /\ \/ OneMore /\ UNCHANGED <<job, outcome>> /\ pc' \notin {"idle", "committed"}
              \/ Done("SUCCESS") /\ UNCHANGED unreported
              \/ pc' = "committed" /\ UNCHANGED <<job, outcome, unreported>>
  <2>1. CASE OneMore /\ UNCHANGED <<job, outcome>> /\ pc' \notin {"idle", "committed"}
    <3>1. \A s \in Stmt : Unreported(s[1])' =
            IF s[1] = job THEN Unreported(s[1]) + 1 ELSE Unreported(s[1])
      BY <1>1, <2>1 DEF OneMore
    <3>2. \A s \in Stmt : Reported(s)' = Reported(s)
      BY <1>2, <2>1 DEF Reported
    <3>3. \A s \in Stmt : Reported(s) \in Nat
      BY DEF Reported
    <3> QED BY <1>1, <1>2, <2>1, <3>1, <3>2, <3>3 DEF EffectInv
  <2>2. CASE Done("SUCCESS") /\ UNCHANGED unreported
    <3>1. \A s \in Stmt :
            outcome'[s[1]] = IF s[1] = job THEN "SUCCESS" ELSE outcome[s[1]]
      BY <1>0, <1>1, <2>2 DEF Done
    <3>2. \A s \in Stmt : /\ s[1] # job => Reported(s)' = Reported(s)
                          /\ s[1] = job => Reported(s)' = 1 /\ Reported(s) = 0
      <4>1. outcome[job] = "NONE" /\ pc # "committed" /\ pc' # "committed"
        BY <1>2, <2>2 DEF EffectInv, Done
      <4> QED BY <3>1, <4>1 DEF Reported
    <3> QED BY <1>1, <1>2, <1>5, <2>2, <3>2 DEF EffectInv, Done
  <2>3. CASE pc' = "committed" /\ UNCHANGED <<job, outcome, unreported>>
    <3>1. \A s \in Stmt : /\ s[1] # job => Reported(s)' = Reported(s)
                          /\ s[1] = job => Reported(s)' = 1 /\ Reported(s) = 0
      BY <1>2, <2>3 DEF Reported, EffectInv
    <3> QED BY <1>1, <1>2, <1>5, <2>3, <3>1 DEF EffectInv
  <2> QED BY <2>1, <2>2, <2>3, <1>2
<1>3. CASE UNCHANGED <<committed, unreported>> /\ pc \notin {"query", "execute"}
  <2>1. CASE UNCHANGED vars
    BY <1>3, <1>5, <2>1 DEF vars, session, EffectInv, Reported
  <2>2. ASSUME NEW j \in Job, RunQuery(j) PROVE EffectInv'
    <3>1. /\ pc = "idle" /\ pc' \notin {"idle", "committed"} /\ job' = j
          /\ outcome[j] = "NONE" /\ UNCHANGED outcome
      BY <2>2 DEF RunQuery
    <3>2. \A s \in Stmt : Reported(s)' = Reported(s)
      BY <3>1 DEF Reported
    <3> QED BY <1>3, <1>5, <3>1, <3>2 DEF EffectInv
  <2>3. CASE Dropped
    BY <1>3, <1>5, <2>3 DEF Dropped, EffectInv, Reported
  <2>4. ASSUME NEW r, Done(r), pc # "idle", r = "SUCCESS" <=> pc = "committed"
        PROVE  EffectInv'
    <3>1. \A s \in Stmt : outcome'[s[1]] = IF s[1] = job THEN r ELSE outcome[s[1]]
      BY <1>0, <1>1, <2>4 DEF Done
    <3>2. \A s \in Stmt : Reported(s)' = Reported(s)
      <4>1. outcome[job] = "NONE" /\ pc' # "committed"
        BY <2>4 DEF EffectInv, Done
      <4> QED BY <2>4, <3>1, <4>1 DEF Reported
    <3> QED BY <1>3, <1>5, <2>4, <3>2 DEF Done, EffectInv
  <2>5. ASSUME UNCHANGED <<job, outcome>>, pc # "idle", pc # "committed",
               pc' # "committed"
        PROVE  EffectInv'
    BY <1>3, <1>5, <2>5 DEF EffectInv, Reported
  <2>6. CASE Caught
    BY <2>4, <2>5, <2>6 DEF Caught, CaughtThen
  <2>7. CASE Begin
    BY <2>5, <2>7 DEF Begin, BeginWith
  <2>8. CASE Committed
    BY <2>4, <2>8 DEF Committed
  <2>9. CASE Catch
    BY <2>5, <2>9 DEF Catch, CatchWith
  <2> QED
    BY <1>3, <2>1, <2>2, <2>3, <2>6, <2>7, <2>8, <2>9
    DEF Next, Step, ExecuteQuery, ExecuteMember, Commit
<1>4. CASE /\ UNCHANGED <<committed, unreported, job, outcome>>
           /\ pc \in {"query", "execute"} /\ pc' \notin {"idle", "committed"}
  BY <1>4, <1>5 DEF EffectInv, Reported
<1> QED BY <1>2, <1>3, <1>4, CommittedStep

(* What took effect is what is reported or unreported, until then, too.    *)
LEMMA EffectInvariant == Spec => [](~foreign => SessionInv /\ EffectInv)
<1>1. Init => EffectInv
  <2> SUFFICES ASSUME Init PROVE EffectInv
    OBVIOUS
  <2>1. \A s \in Stmt : committed[s] = 0 /\ Unreported(s[1]) = 0 /\ Reported(s) = 0
    BY StmtLemma, NothingLemma DEF Init, Reported, Unreported
  <2> QED BY <2>1 DEF Init, EffectInv
<1>2. /\ TypeInv /\ (~foreign => CleanInv) /\ (~foreign => EffectInv) /\ [Next]_vars
      => (~foreign' => EffectInv')
  BY EffectStep, ForeignStep DEF SessionInv
<1>3. TypeInv /\ (~foreign => CleanInv) /\ (~foreign => EffectInv)
        => (~foreign => SessionInv /\ EffectInv)
  BY DEF SessionInv
<1> QED BY <1>1, <1>2, <1>3, SessionInvariant, PTL DEF Spec

(* As long as no foreign exception was thrown, success means executed once *)
(* and an error means not executed, with or without a retry: apart from    *)
(* executions whose answer was lost and, outside of transactions, the      *)
(* first statements of a query whose later ones failed.                    *)
THEOREM AlwaysAsReported == Spec => []EffectAsReported
<1>1. ASSUME ~foreign => SessionInv /\ EffectInv PROVE EffectAsReported
  <2> SUFFICES ASSUME ~foreign, NEW s \in Stmt
               PROVE  /\ outcome[s[1]] = "SUCCESS" => committed[s] = Unreported(s[1]) + 1
                      /\ outcome[s[1]] = "ERROR" => committed[s] = Unreported(s[1])
    BY DEF EffectAsReported
  <2>1. s[1] \in Job /\ Unreported(s[1]) \in Nat
    BY <1>1, StmtLemma, UnreportedLemma DEF SessionInv
  <2>2. committed[s] = Unreported(s[1]) + Reported(s)
    BY <1>1 DEF EffectInv
  <2>3. outcome[s[1]] = "ERROR" => ~(pc = "committed" /\ job = s[1])
    BY <1>1 DEF EffectInv
  <2> QED BY <2>1, <2>2, <2>3 DEF Reported
<1> QED BY <1>1, EffectInvariant, PTL

(* Whatever requests fail, also if the answer to a commit is lost and the  *)
(* transaction is executed again, the server keeps as much of one query of *)
(* a transaction as of another.                                            *)
THEOREM AlwaysAllOrNothing == Spec => []AllOrNothing
<1>1. ASSUME ~foreign => SessionInv /\ EffectInv PROVE AllOrNothing
  <2> SUFFICES ASSUME ~foreign, NEW t \in Tx, NEW m \in 1..Length, NEW n \in 1..Length
               PROVE  committed[<<t, m>>] = committed[<<t, n>>]
    BY DEF AllOrNothing
  <2>1. <<t, m>> \in Stmt /\ <<t, n>> \in Stmt
    BY StmtLemma
  <2>2. Reported(<<t, m>>) = Reported(<<t, n>>)
    BY DEF Reported
  <2> QED BY <1>1, <2>1, <2>2 DEF EffectInv
<1> QED BY <1>1, EffectInvariant, PTL

-----------------------------------------------------------------------------
(* The retry *)

\* How often a job can have taken effect unreported: once per attempt that
\* has failed.
\* The first attempt has failed when retry is no longer set.
Attempts == IF AutoReconnect /\ ~retry THEN 1 ELSE 0

RetryInv ==
    /\ retry => AutoReconnect
    /\ \A j \in Job :
         /\ outcome[j] = "NONE" /\ j # job => Unreported(j) = 0
         /\ outcome[j] = "NONE" /\ j = job =>
              Unreported(j) <= (IF pc \in {"catch", "caught"}
                                THEN Attempts + 1 ELSE Attempts)
         /\ outcome[j] = "SUCCESS" => Unreported(j) <= (IF AutoReconnect THEN 1 ELSE 0)
         /\ outcome[j] = "ERROR" => Unreported(j) <= (IF AutoReconnect THEN 2 ELSE 1)

(* Every step preserves RetryInv.                                          *)
LEMMA RetryStep ==
    ASSUME ~foreign', TypeInv, pc # "idle" => outcome[job] = "NONE", RetryInv, [Next]_vars
    PROVE  RetryInv'
<1>0. /\ TypeInvariant /\ JobInv
      /\ AutoReconnect \in BOOLEAN /\ retry \in BOOLEAN
      /\ outcome \in [Job -> {"NONE", "ERROR", "SUCCESS"}]
      /\ pc # "idle" => job \in Job
      /\ pc = "idle" => job = None
      /\ None \notin Job
  BY TransactionAssumption DEF TypeInv, TypeInvariant, JobInv, Job
<1>1. \A j \in Job : Unreported(j) \in Nat
  BY <1>0, UnreportedLemma
<1>15. UNCHANGED unreported => \A j \in Job : Unreported(j)' = Unreported(j)
  BY <1>0, UnreportedLemma
<1>2. CASE UNCHANGED vars
  BY <1>2, <1>15 DEF vars, RetryInv, Attempts
<1>3. ASSUME NEW i \in Job, RunQuery(i) PROVE RetryInv'
  <2>1. /\ retry' = AutoReconnect /\ UNCHANGED <<outcome, unreported>>
        /\ job' = i /\ outcome[i] = "NONE" /\ pc = "idle" /\ job = None
        /\ pc' \notin {"catch", "caught"}
    BY <1>0, <1>3 DEF RunQuery
  <2>2. Attempts' = 0
    BY <1>0, <2>1 DEF Attempts
  <2> QED BY <1>0, <1>1, <1>15, <2>1, <2>2 DEF RetryInv
<1>4. CASE Dropped
  BY <1>4, <1>15 DEF Dropped, RetryInv, Attempts
<1>5. ASSUME NEW r \in {"ERROR", "SUCCESS"}, Done(r), UNCHANGED <<unreported, retry>>,
             pc # "idle", r = "SUCCESS" => pc \notin {"catch", "caught"}
      PROVE  RetryInv'
  <2>1. \A j \in Job : outcome'[j] = IF j = job THEN r ELSE outcome[j]
    BY <1>0, <1>5 DEF Done
  <2>2. job' = None /\ job \in Job
    BY <1>0, <1>5 DEF Done
  <2>3. Unreported(job) <= (IF pc \in {"catch", "caught"} THEN Attempts + 1 ELSE Attempts)
    BY <1>5, <2>2 DEF RetryInv
  <2>4. Attempts \in {0, 1} /\ (Attempts = 1 => AutoReconnect)
    BY <1>0 DEF Attempts
  <2> QED BY <1>0, <1>1, <1>5, <1>15, <2>1, <2>2, <2>3, <2>4 DEF RetryInv
<1>6. ASSUME UNCHANGED <<job, outcome, unreported, retry>>, pc # "idle",
             pc \in {"catch", "caught"} => pc' \in {"catch", "caught"}
      PROVE  RetryInv'
  <2>1. Attempts' = Attempts /\ Attempts \in {0, 1}
    BY <1>0, <1>6 DEF Attempts
  <2> QED BY <1>0, <1>1, <1>6, <1>15, <2>1 DEF RetryInv
<1>7. ASSUME OneMore, UNCHANGED <<job, outcome, retry>>, pc # "idle",
             pc \notin {"catch", "caught"}, pc' \in {"catch", "caught"}
      PROVE  RetryInv'
  <2>1. Attempts' = Attempts /\ Attempts \in {0, 1}
    BY <1>0, <1>7 DEF Attempts
  <2>2. \A j \in Job : Unreported(j)' = IF j = job THEN Unreported(j) + 1 ELSE Unreported(j)
    BY <1>7 DEF OneMore
  <2>3. job \in Job /\ outcome[job] = "NONE"
    BY <1>0, <1>7
  <2> QED BY <1>0, <1>1, <1>7, <2>1, <2>2, <2>3 DEF RetryInv
<1>8. CASE Caught
  <2>1. CASE Done("ERROR") /\ UNCHANGED retry
    BY <1>5, <1>8, <2>1 DEF Caught, CaughtThen
  <2>2. CASE /\ retry /\ retry' = FALSE /\ UNCHANGED <<job, outcome, unreported>>
             /\ pc' \notin {"catch", "caught"}
    <3>1. pc = "caught" /\ Attempts = 0 /\ Attempts' = 1
      BY <1>8, <2>2 DEF Caught, CaughtThen, Attempts, RetryInv
    <3> QED BY <1>0, <1>1, <1>15, <2>2, <3>1 DEF RetryInv
  <2> QED BY <1>8, <2>1, <2>2 DEF Caught, CaughtThen
<1>9. CASE ExecuteQuery
  <2>1. pc = "query" /\ job \in Plain /\ job \in Job
    BY <1>0, <1>9 DEF ExecuteQuery, JobInv
  <2>2. CASE pc' = "caught" /\ UNCHANGED <<job, outcome>>
    <3>1. UNCHANGED unreported \/ OneMore
      BY <1>0, <1>9, <2>1, UnreportedLemma DEF ExecuteQuery
    <3>2. UNCHANGED retry
      BY <1>9 DEF ExecuteQuery
    <3> QED BY <1>6, <1>7, <2>1, <2>2, <3>1, <3>2
  <2>3. CASE Done("SUCCESS") /\ UNCHANGED <<unreported, retry>>
    BY <1>5, <2>1, <2>3
  <2> QED BY <1>9, <2>2, <2>3 DEF ExecuteQuery
<1>10. CASE Begin
  BY <1>6, <1>10 DEF Begin, BeginWith
<1>11. CASE ExecuteMember
  BY <1>5, <1>6, <1>11 DEF ExecuteMember
<1>12. CASE Commit
  <2>1. pc = "execute" /\ job \in Job
    BY <1>0, <1>12 DEF Commit
  <2>2. UNCHANGED <<job, outcome, retry>>
    BY <1>12 DEF Commit
  <2>3. CASE AnswerLost /\ pc' = "catch"
    <3>1. OneMore
      BY <2>1, <2>3, UnreportedLemma
    <3> QED BY <1>7, <2>1, <2>2, <2>3, <3>1
  <2>4. CASE UNCHANGED unreported
    BY <1>6, <2>1, <2>2, <2>4
  <2> QED BY <1>12, <2>3, <2>4 DEF Commit
<1>13. CASE Committed
  BY <1>5, <1>13 DEF Committed
<1>14. CASE Catch
  BY <1>6, <1>14 DEF Catch, CatchWith
<1> QED
  BY <1>2, <1>3, <1>4, <1>8, <1>9, <1>10, <1>11, <1>12, <1>13, <1>14
  DEF Next, Step

(* Whatever is lost, no statement takes effect more often than runQuery    *)
(* tries it.                                                               *)
THEOREM AlwaysAtMostTwice == Spec => []AtMostTwice
<1>1. Init => RetryInv
  <2> SUFFICES ASSUME Init PROVE RetryInv
    OBVIOUS
  <2>1. \A j \in Job : Unreported(j) = 0 /\ outcome[j] = "NONE" /\ j # job
    BY TransactionAssumption DEF Init, Unreported, Job
  <2> QED BY <2>1 DEF Init, RetryInv
<1>2. /\ ~foreign => SessionInv /\ EffectInv
      /\ ~foreign => RetryInv
      /\ [Next]_vars
      => (~foreign' => RetryInv')
  BY RetryStep, ForeignStep DEF SessionInv, EffectInv
<1>3. ASSUME ~foreign => SessionInv /\ EffectInv, ~foreign => RetryInv PROVE AtMostTwice
  <2> SUFFICES ASSUME ~foreign, NEW s \in Stmt
               PROVE  committed[s] <= (IF AutoReconnect THEN 2 ELSE 1)
    BY DEF AtMostTwice
  <2>1. /\ s[1] \in Job /\ Unreported(s[1]) \in Nat /\ AutoReconnect \in BOOLEAN
        /\ outcome[s[1]] \in {"NONE", "ERROR", "SUCCESS"}
    BY <1>3, StmtLemma, TransactionAssumption, UnreportedLemma DEF SessionInv, TypeInv,
        TypeInvariant
  <2>2. committed[s] = Unreported(s[1]) + Reported(s)
    BY <1>3 DEF EffectInv
  <2>3. Attempts \in {0, 1} /\ (Attempts = 1 => AutoReconnect)
    BY <2>1 DEF Attempts
  <2>4. CASE outcome[s[1]] = "SUCCESS"
    <3>1. Unreported(s[1]) <= (IF AutoReconnect THEN 1 ELSE 0) /\ Reported(s) = 1
      BY <1>3, <2>1, <2>4 DEF RetryInv, Reported
    <3> QED BY <2>1, <2>2, <3>1
  <2>5. CASE pc = "committed" /\ job = s[1]
    <3>1. Unreported(s[1]) <= Attempts /\ Reported(s) = 1
      BY <1>3, <2>1, <2>5 DEF RetryInv, Reported, EffectInv
    <3> QED BY <2>1, <2>2, <2>3, <3>1
  <2>6. CASE outcome[s[1]] # "SUCCESS" /\ ~(pc = "committed" /\ job = s[1])
    <3>1. Reported(s) = 0
      BY <2>6 DEF Reported
    <3>2. Unreported(s[1]) <= (IF AutoReconnect THEN 2 ELSE 1)
      BY <1>3, <2>1, <2>3, <2>6 DEF RetryInv
    <3> QED BY <2>1, <2>2, <3>1, <3>2
  <2> QED BY <2>4, <2>5, <2>6
<1> QED BY <1>1, <1>2, <1>3, EffectInvariant, PTL DEF Spec
-----------------------------------------------------------------------------
(* What is reported of each query *)

\* The queries of t are complete up to query k, and aborted from there on.
Ended(t, k) ==
    \A n \in 1..Length :
        LET s == <<t, n>> IN
        IF n < k
        THEN /\ status[s] = "COMPLETE" /\ resultStatus[s] = "SUCCESS"
             /\ results[s] = 1
        ELSE /\ status[s] = "ABORTED" /\ resultStatus[s] = "ERROR"
             /\ results[s] \in (IF n = k THEN {1, 2} ELSE {1})

\* While a transaction executes, the queries before next are complete and
\* the others have no result yet; only the one that failed may have one.
Going ==
    \A n \in 1..Length :
        LET s == <<job, n>> IN
        IF n < next
        THEN /\ status[s] = "COMPLETE" /\ resultStatus[s] = "SUCCESS"
             /\ results[s] = 1
        ELSE /\ status[s] = "RUNNING"
             /\ results[s] \in (IF n = next /\ pc = "catch" THEN {0, 1} ELSE {0})

MemberInv ==
    /\ pc # "idle" => outcome[job] = "NONE"
    /\ pc \in {"execute", "committed", "catch"} => Going
    /\ pc = "committed" => next = Length + 1
    /\ pc = "caught" /\ job \in Tx => \E k \in 1..(Length + 1) : Ended(job, k)
    /\ \A t \in Tx : outcome[t] # "NONE" =>
          \E k \in 1..(Length + 1) :
             (outcome[t] = "SUCCESS" => k = Length + 1) /\ Ended(t, k)

(* A step reports only on the transaction or query that runs.              *)
LEMMA ReportFrame ==
    ASSUME TypeInv, [Next]_vars
    PROVE  \A s \in Stmt : s[1] # job =>
              /\ status'[s] = status[s] /\ resultStatus'[s] = resultStatus[s]
              /\ results'[s] = results[s] /\ outcome'[s[1]] = outcome[s[1]]
              /\ Unreported(s[1])' = Unreported(s[1])
<1>0. /\ status \in [Stmt -> {"RUNNING", "COMPLETE", "ABORTED"}]
      /\ resultStatus \in [Stmt -> {"NONE", "ERROR", "SUCCESS"}]
      /\ results \in [Stmt -> Nat]
      /\ outcome \in [Job -> {"NONE", "ERROR", "SUCCESS"}]
      /\ \A s \in Stmt : s[1] \in Job
      /\ TypeInvariant /\ JobInv
  BY StmtLemma DEF TypeInv, TypeInvariant
<1> SUFFICES ASSUME NEW s \in Stmt, s[1] # job
             PROVE  /\ status'[s] = status[s] /\ resultStatus'[s] = resultStatus[s]
                    /\ results'[s] = results[s] /\ outcome'[s[1]] = outcome[s[1]]
                    /\ Unreported(s[1])' = Unreported(s[1])
  OBVIOUS
<1>1. \A n : s # <<job, n>>
  OBVIOUS
<1>2. s \notin Member
  BY DEF Member
<1>3. \A r : Done(r) => outcome'[s[1]] = outcome[s[1]]
  BY <1>0 DEF Done
<1>4. (UNCHANGED unreported \/ OneMore) => Unreported(s[1])' = Unreported(s[1])
  BY <1>0, UnreportedLemma DEF OneMore
<1>5. CASE UNCHANGED vars
  BY <1>4, <1>5 DEF vars, data
<1>6. CASE \E j \in Job : RunQuery(j)
  BY <1>4, <1>6 DEF RunQuery, data
<1>7. CASE Dropped
  BY <1>4, <1>7 DEF Dropped, data
<1>8. CASE Caught
  BY <1>3, <1>4, <1>8 DEF Caught, CaughtThen, data
<1>9. CASE ExecuteQuery
  <2>1. results'[s] = results[s]
    BY <1>0, <1>1, <1>9 DEF ExecuteQuery
  <2>2. job \in Plain /\ job \in Job
    BY <1>0, <1>9, StmtLemma DEF ExecuteQuery, JobInv
  <2>3. UNCHANGED unreported \/ OneMore
    BY <1>9, <2>2, UnreportedLemma DEF ExecuteQuery
  <2>4. outcome'[s[1]] = outcome[s[1]] /\ UNCHANGED <<status, resultStatus>>
    BY <1>3, <1>9 DEF ExecuteQuery
  <2> QED BY <1>4, <2>1, <2>3, <2>4
<1>10. CASE Begin
  BY <1>2, <1>4, <1>10 DEF Begin, BeginWith
<1>11. CASE ExecuteMember
  <2>1. /\ status'[s] = status[s] /\ resultStatus'[s] = resultStatus[s]
        /\ results'[s] = results[s]
    BY <1>0, <1>1, <1>11 DEF ExecuteMember, data
  <2> QED BY <1>3, <1>4, <1>11, <2>1 DEF ExecuteMember
<1>12. CASE Commit
  <2>1. job \in Job
    BY <1>0, <1>12, StmtLemma DEF Commit, JobInv
  <2>2. UNCHANGED unreported \/ OneMore
    BY <1>12, <2>1, UnreportedLemma DEF Commit
  <2> QED BY <1>4, <1>12, <2>2 DEF Commit, data
<1>13. CASE Committed
  BY <1>3, <1>4, <1>13 DEF Committed, data
<1>14. CASE Catch
  BY <1>2, <1>4, <1>14 DEF Catch, CatchWith
<1> QED
  BY <1>5, <1>6, <1>7, <1>8, <1>9, <1>10, <1>11, <1>12, <1>13, <1>14
  DEF Next, Step

(* Every step preserves MemberInv, unless an exception of another class    *)
(* leaves the queries of its transaction as they are.                      *)
LEMMA MemberStep ==
    ASSUME ~foreign', TypeInv, MemberInv, [Next]_vars
    PROVE  MemberInv'
<1>0. /\ TypeInvariant /\ JobInv /\ Length \in Nat
      /\ status \in [Stmt -> {"RUNNING", "COMPLETE", "ABORTED"}]
      /\ resultStatus \in [Stmt -> {"NONE", "ERROR", "SUCCESS"}]
      /\ results \in [Stmt -> Nat] /\ next \in 1..(Length + 1)
      /\ outcome \in [Job -> {"NONE", "ERROR", "SUCCESS"}]
      /\ pc = "idle" <=> job = None
      /\ pc # "idle" => job \in Job
      /\ None \notin Job /\ Tx \subseteq Job
  BY TransactionAssumption DEF TypeInv, TypeInvariant, JobInv, Job
<1>1. \A t \in Tx : t # job =>
        /\ outcome'[t] = outcome[t]
        /\ \A n \in 1..Length :
              /\ status'[<<t, n>>] = status[<<t, n>>]
              /\ resultStatus'[<<t, n>>] = resultStatus[<<t, n>>]
              /\ results'[<<t, n>>] = results[<<t, n>>]
  <2> SUFFICES ASSUME NEW t \in Tx, t # job
               PROVE  /\ outcome'[t] = outcome[t]
                      /\ \A n \in 1..Length :
                            /\ status'[<<t, n>>] = status[<<t, n>>]
                            /\ resultStatus'[<<t, n>>] = resultStatus[<<t, n>>]
                            /\ results'[<<t, n>>] = results[<<t, n>>]
    OBVIOUS
  <2>1. outcome'[t] = outcome[t]
    <3>1. CASE UNCHANGED outcome
      BY <3>1
    <3>2. CASE \E r : Done(r)
      BY <1>0, <3>2 DEF Done
    <3> QED BY <3>1, <3>2 DEF Next, vars, Step, RunQuery, Dropped, Caught, CaughtThen,
          ExecuteQuery, Begin, BeginWith, ExecuteMember, Commit, Committed,
          Catch, CatchWith
  <2>2. \A n \in 1..Length : <<t, n>> \in Stmt /\ <<t, n>>[1] = t
    BY StmtLemma
  <2> QED BY <2>1, <2>2, ReportFrame
\* The queries of the other transactions.
<1>2. \A t \in Tx : t # job /\ outcome'[t] # "NONE" =>
          \E k \in 1..(Length + 1) :
             (outcome'[t] = "SUCCESS" => k = Length + 1) /\ Ended(t, k)'
  BY <1>1 DEF MemberInv, Ended
<1>3. ASSUME UNCHANGED <<data, outcome, job, pc, next>> PROVE MemberInv'
  BY <1>3 DEF MemberInv, Ended, Going, data
\* executeStatement goes on, and what runs is not done.
<1>4. ASSUME pc # "idle", pc' # "idle", UNCHANGED <<job, outcome>>,
             pc' \in {"execute", "committed", "catch"} => Going',
             pc' = "committed" => next' = Length + 1,
             pc' = "caught" /\ job \in Tx => \E k \in 1..(Length + 1) : Ended(job, k)'
      PROVE  MemberInv'
  BY <1>2, <1>4 DEF MemberInv
\* runQuery returns.
<1>5. ASSUME NEW r \in {"ERROR", "SUCCESS"}, Done(r), pc # "idle",
             \A t \in Tx : t = job => \E k \in 1..(Length + 1) :
                (r = "SUCCESS" => k = Length + 1) /\ Ended(t, k)'
      PROVE  MemberInv'
  <2>1. outcome'[job] = r /\ job' = None /\ pc' = "idle"
    BY <1>0, <1>5 DEF Done
  <2>2. \A t \in Tx : outcome'[t] # "NONE" =>
          \E k \in 1..(Length + 1) :
             (outcome'[t] = "SUCCESS" => k = Length + 1) /\ Ended(t, k)'
    BY <1>2, <1>5, <2>1
  <2> QED BY <2>1, <2>2 DEF MemberInv
<1>6. CASE UNCHANGED vars
  BY <1>3, <1>6 DEF vars
<1>7. ASSUME NEW j \in Job, RunQuery(j) PROVE MemberInv'
  <2>1. /\ UNCHANGED <<status, resultStatus, results, outcome>> /\ pc = "idle"
        /\ outcome'[job'] = "NONE" /\ pc' \in {"begin", "query"}
    BY <1>7 DEF RunQuery, data
  <2>2. \A t \in Tx : t # job
    BY <1>0, <2>1
  <2> QED BY <1>2, <2>1, <2>2 DEF MemberInv
<1>8. CASE Dropped
  BY <1>3, <1>8 DEF Dropped
<1>9. CASE Caught
  <2>1. UNCHANGED <<status, resultStatus, results>> /\ pc = "caught"
    BY <1>9 DEF Caught, CaughtThen, data
  <2>4. \A t \in Tx : t = job => \E k \in 1..(Length + 1) : Ended(t, k)'
    BY <2>1 DEF MemberInv, Ended
  <2>2. CASE Done("ERROR")
    BY <1>5, <2>1, <2>2, <2>4
  <2>3. CASE UNCHANGED <<job, outcome>> /\ pc' = IF job \in Tx THEN "begin" ELSE "query"
    BY <1>4, <1>9, <2>3 DEF Caught, CaughtThen
  <2> QED BY <1>9, <2>2, <2>3 DEF Caught, CaughtThen
<1>10. CASE ExecuteQuery
  <2>1. job \notin Tx /\ pc = "query"
    BY <1>0, <1>10, StmtLemma DEF ExecuteQuery, JobInv
  <2> QED BY <1>4, <1>5, <1>10, <2>1 DEF ExecuteQuery
<1>11. CASE Begin
  <2>1. job \in Tx /\ \A n \in 1..Length : <<job, n>> \in Stmt /\ <<job, n>> \in Member
    BY <1>0, <1>11, StmtLemma DEF Begin, BeginWith, JobInv, Member
  <2>2. Going'
    BY <1>11, <2>1 DEF Begin, BeginWith, Going
  <2> QED BY <1>4, <1>11, <2>2 DEF Begin, BeginWith
<1>12. CASE ExecuteMember
  <2> DEFINE s == <<job, next>>
  <2>1. /\ job \in Tx /\ pc = "execute" /\ next \in 1..Length /\ s \in Stmt
        /\ Going /\ results[s] = 0
    BY <1>0, <1>12, StmtLemma DEF ExecuteMember, JobInv, MemberInv, Going
  <2>2. \A n \in 1..Length : <<job, n>> \in Stmt /\ (n # next => <<job, n>> # s)
    BY <2>1, StmtLemma
  <2>3. CASE /\ results' = [results EXCEPT ![s] = @ + 1]
             /\ status' = [status EXCEPT ![s] = "COMPLETE"]
             /\ resultStatus' = [resultStatus EXCEPT ![s] = "SUCCESS"]
             /\ next' = next + 1 /\ UNCHANGED <<job, pc, outcome>>
    <3>1. ASSUME NEW n \in 1..Length
          PROVE  IF n < next + 1
                 THEN /\ status'[<<job, n>>] = "COMPLETE"
                      /\ resultStatus'[<<job, n>>] = "SUCCESS"
                      /\ results'[<<job, n>>] = 1
                 ELSE status'[<<job, n>>] = "RUNNING" /\ results'[<<job, n>>] = 0
      <4>1. CASE n = next
        <5>1. results'[s] = 1
          BY <1>0, <2>1, <2>3
        <5>2. status'[s] = "COMPLETE" /\ resultStatus'[s] = "SUCCESS"
          BY <1>0, <2>1, <2>3
        <5> QED BY <1>0, <2>1, <4>1, <5>1, <5>2
      <4>2. CASE n # next
        <5>1. /\ status'[<<job, n>>] = status[<<job, n>>]
              /\ resultStatus'[<<job, n>>] = resultStatus[<<job, n>>]
              /\ results'[<<job, n>>] = results[<<job, n>>]
          BY <1>0, <2>2, <2>3, <4>2
        <5>2. n < next + 1 <=> n < next
          BY <1>0, <4>2
        <5> QED BY <2>1, <4>2, <5>1, <5>2 DEF Going
      <4> QED BY <4>1, <4>2
    <3>2. Going'
      BY <2>1, <2>3, <3>1 DEF Going
    <3> QED BY <1>4, <2>1, <2>3, <3>2
  <2>4. ASSUME NEW m \in 0..1, results' = [results EXCEPT ![s] = @ + m],
               UNCHANGED <<status, next, job, outcome>>,
               resultStatus' = [resultStatus EXCEPT ![s] = "ERROR"], pc' = "catch"
        PROVE  MemberInv'
    <3>1. \A n \in 1..Length : n # next =>
            /\ resultStatus'[<<job, n>>] = resultStatus[<<job, n>>]
            /\ results'[<<job, n>>] = results[<<job, n>>]
      BY <1>0, <2>2, <2>4
    <3>2. results'[s] = m
      BY <1>0, <2>1, <2>4
    <3>3. Going'
      BY <1>0, <2>1, <2>4, <3>1, <3>2 DEF Going
    <3> QED BY <1>4, <2>1, <2>4, <3>3
  <2>5. foreign' = TRUE \/ UNCHANGED foreign
    BY <1>12 DEF ExecuteMember
  <2> QED BY <1>12, <2>3, <2>4 DEF ExecuteMember
<1>13. CASE Commit
  <2>1. /\ pc = "execute" /\ next = Length + 1 /\ Going
        /\ UNCHANGED <<job, next, data, outcome>> /\ pc' \in {"committed", "catch"}
    BY <1>0, <1>13 DEF Commit, MemberInv
  <2>2. Going'
    BY <1>0, <2>1 DEF Going, data
  <2> QED BY <1>4, <2>1, <2>2
<1>14. CASE Committed
  <2>1. /\ UNCHANGED <<status, resultStatus, results>> /\ pc = "committed"
        /\ next = Length + 1 /\ Going
    BY <1>14 DEF Committed, MemberInv, data
  <2>2. \A t \in Tx : t = job => Ended(t, Length + 1)'
    BY <1>0, <2>1 DEF Going, Ended
  <2>3. Length + 1 \in 1..(Length + 1)
    BY <1>0
  <2> QED BY <1>5, <1>14, <2>1, <2>2, <2>3 DEF Committed
<1>15. CASE Catch
  <2>1. job \in Tx /\ Going /\ pc = "catch"
    BY <1>0, <1>15 DEF Catch, CatchWith, JobInv, MemberInv
  <2>2. \A n \in 1..Length : <<job, n>> \in Stmt /\ <<job, n>> \in Member
    BY <2>1, StmtLemma DEF Member
  <2>3. Ended(job, next)'
    BY <1>0, <1>15, <2>1, <2>2 DEF Catch, CatchWith, Going, Ended
  <2> QED BY <1>0, <1>4, <1>15, <2>3 DEF Catch, CatchWith
<1> QED
  BY <1>6, <1>7, <1>8, <1>9, <1>10, <1>11, <1>12, <1>13, <1>14, <1>15
  DEF Next, Step

(* When a transaction is done, its queries are complete up to some point   *)
(* and aborted with an error from there on; a first attempt leaves no      *)
(* result behind.                                                          *)
THEOREM MembersAlwaysReported == Spec => []MembersReported
<1>1. Init => MemberInv
  BY DEF Init, MemberInv, Job
<1>2. TypeInv /\ (~foreign => MemberInv) /\ [Next]_vars => (~foreign' => MemberInv')
  BY MemberStep, ForeignStep
<1>3. (~foreign => MemberInv) => MembersReported
  BY DEF MemberInv, MembersReported, Ended
<1> QED BY <1>1, <1>2, <1>3, TypeInit, TypeStep, PTL DEF Spec

\* A plain query has at most one result for each attempt that failed when it
\* had taken effect, and the result of the last attempt if that succeeded.
PlainInv ==
    /\ pc # "idle" => outcome[job] = "NONE"
    /\ \A p \in Plain :
         /\ outcome[p] = "SUCCESS" => results[<<p, 1>>] \in 1..(Unreported(p) + 1)
         /\ outcome[p] # "SUCCESS" => results[<<p, 1>>] <= Unreported(p)

(* Every step preserves PlainInv.                                          *)
LEMMA PlainStep ==
    ASSUME TypeInv, PlainInv, [Next]_vars
    PROVE  PlainInv'
<1>0. /\ TypeInvariant /\ JobInv
      /\ results \in [Stmt -> Nat]
      /\ outcome \in [Job -> {"NONE", "ERROR", "SUCCESS"}]
      /\ pc = "idle" <=> job = None
      /\ pc # "idle" => job \in Job
      /\ None \notin Job
  BY TransactionAssumption DEF TypeInv, TypeInvariant, JobInv, Job
<1>1. \A p \in Plain : /\ p \in Job /\ <<p, 1>> \in Stmt /\ <<p, 1>>[1] = p
                       /\ results[<<p, 1>>] \in Nat /\ Unreported(p) \in Nat
  BY <1>0, StmtLemma, UnreportedLemma
<1>2. \A p \in Plain : p # job =>
        /\ outcome'[p] = outcome[p] /\ Unreported(p)' = Unreported(p)
        /\ results'[<<p, 1>>] = results[<<p, 1>>]
  BY <1>1, ReportFrame
<1>25. \A p \in Plain : p = job =>
          /\ (UNCHANGED unreported => Unreported(p)' = Unreported(p))
          /\ (OneMore => Unreported(p)' = Unreported(p) + 1)
  BY <1>1, UnreportedLemma DEF OneMore
<1>3. ASSUME pc' # "idle" => outcome'[job'] = "NONE",
             \A p \in Plain : p = job =>
                /\ outcome'[p] = "SUCCESS" =>
                      results'[<<p, 1>>] \in 1..(Unreported(p)' + 1)
                /\ outcome'[p] # "SUCCESS" =>
                      results'[<<p, 1>>] <= Unreported(p)'
      PROVE  PlainInv'
  BY <1>2, <1>3 DEF PlainInv
\* A plain query that goes on, or a transaction.
<1>4. ASSUME job \in Plain => UNCHANGED <<results, unreported>>,
             \/ UNCHANGED outcome /\ (pc' # "idle" => outcome[job'] = "NONE")
             \/ pc # "idle" /\ \E r : Done(r) /\ (job \in Plain => r = "ERROR")
      PROVE  PlainInv'
  <2>1. CASE UNCHANGED outcome /\ (pc' # "idle" => outcome[job'] = "NONE")
    BY <1>2, <1>25, <1>4, <2>1 DEF PlainInv
  <2>2. CASE pc # "idle" /\ \E r : Done(r) /\ (job \in Plain => r = "ERROR")
    <3>1. pc' = "idle" /\ (job \in Plain => outcome'[job] = "ERROR")
      BY <1>0, <2>2 DEF Done
    <3>2. pc # "idle" => outcome[job] = "NONE"
      BY DEF PlainInv
    <3> QED BY <1>2, <1>25, <1>4, <2>2, <3>1, <3>2 DEF PlainInv
  <2> QED BY <1>4, <2>1, <2>2
<1>5. CASE UNCHANGED vars
  BY <1>4, <1>5 DEF vars, data, PlainInv
<1>6. ASSUME NEW j \in Job, RunQuery(j) PROVE PlainInv'
  BY <1>4, <1>6 DEF RunQuery, data
<1>7. CASE Dropped
  BY <1>4, <1>7 DEF Dropped, data, PlainInv
<1>8. CASE Caught
  BY <1>4, <1>8 DEF Caught, CaughtThen, data, PlainInv
<1>9. CASE ExecuteQuery
  <2> DEFINE s == <<job, 1>>
  <2>1. /\ job \in Plain /\ pc = "query" /\ s \in Stmt /\ outcome[job] = "NONE"
        /\ results[s] \in Nat /\ Unreported(job) \in Nat
        /\ results[s] <= Unreported(job) /\ job \in Job
    BY <1>0, <1>1, <1>9 DEF ExecuteQuery, JobInv, PlainInv
  <2>2. CASE /\ results' = [results EXCEPT ![s] = @ + 1] /\ Done("SUCCESS")
             /\ UNCHANGED unreported
    <3>1. /\ results'[s] = results[s] + 1 /\ pc' = "idle"
          /\ outcome'[job] = "SUCCESS"
      BY <1>0, <1>1, <2>1, <2>2 DEF Done
    <3> QED BY <1>3, <1>25, <2>1, <2>2, <3>1
  <2>3. ASSUME NEW n \in 0..1, results' = [results EXCEPT ![s] = @ + n], OneMore,
               UNCHANGED <<job, outcome>> \/ Done("ERROR")
        PROVE  PlainInv'
    <3>1. results'[s] = results[s] + n
      BY <1>0, <2>1, <2>3
    <3>2. \A p \in Plain : p = job => results'[<<p, 1>>] <= Unreported(p)'
      BY <1>25, <2>1, <2>3, <3>1
    <3>3. outcome'[job] # "SUCCESS" /\ (pc' # "idle" => outcome'[job'] = "NONE")
      BY <1>0, <2>1, <2>3 DEF Done
    <3> QED BY <1>3, <3>2, <3>3
  <2>4. CASE results' = [results EXCEPT ![s] = @ + 0] /\ UNCHANGED unreported
             /\ UNCHANGED <<job, outcome>>
    <3>1. results' = results
      <4>1. results[s] + 0 = results[s]
        BY <2>1
      <4> QED BY <1>0, <2>4, <4>1
    <3> QED BY <1>4, <2>1, <2>4, <3>1
  <2>5. /\ AnswerLost => OneMore
        /\ /\ UNCHANGED unanswered /\ partial' = [partial EXCEPT ![job] = @ + 1]
           => OneMore
    BY <2>1, UnreportedLemma
  <2> QED BY <1>9, <2>2, <2>3, <2>4, <2>5 DEF ExecuteQuery
<1>10. CASE Begin
  BY <1>0, <1>4, <1>10, StmtLemma DEF Begin, BeginWith, JobInv, PlainInv
<1>11. CASE ExecuteMember
  BY <1>0, <1>4, <1>11, StmtLemma DEF ExecuteMember, JobInv, PlainInv
<1>12. CASE Commit
  BY <1>0, <1>4, <1>12, StmtLemma DEF Commit, JobInv, PlainInv
<1>13. CASE Committed
  BY <1>0, <1>4, <1>13, StmtLemma DEF Committed, JobInv
<1>14. CASE Catch
  BY <1>0, <1>4, <1>14, StmtLemma DEF Catch, CatchWith, JobInv, PlainInv
<1> QED
  BY <1>5, <1>6, <1>7, <1>8, <1>9, <1>10, <1>11, <1>12, <1>13, <1>14
  DEF Next, Step

(* However a plain query ends, a success has the result of its last        *)
(* attempt, and any other result was stored by an attempt that failed when *)
(* the server had executed the query or its first statements.              *)
THEOREM PlainResultsAlways == Spec => []PlainResults
<1>1. Init => PlainInv
  <2> SUFFICES ASSUME Init PROVE PlainInv
    OBVIOUS
  <2>1. \A p \in Plain : outcome[p] = "NONE" /\ results[<<p, 1>>] = 0
    BY StmtLemma, NothingLemma DEF Init
  <2>2. \A p \in Plain : Unreported(p) = 0
    BY StmtLemma DEF Init, Unreported
  <2> QED BY <2>1, <2>2 DEF Init, PlainInv
<1>2. TypeInv /\ PlainInv => PlainResults
  BY DEF PlainInv, PlainResults
<1>3. TypeInv /\ PlainInv /\ [Next]_vars => PlainInv'
  BY PlainStep
<1> QED BY <1>1, <1>2, <1>3, TypeInit, TypeStep, PTL DEF Spec
=============================================================================
