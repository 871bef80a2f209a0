--------------------------- MODULE LuaResultsProofs ---------------------------
(***************************************************************************)
(* Proofs of the safety properties of LuaResults, for any number of        *)
(* queries, transactions, data and result sets.                            *)
(***************************************************************************)
EXTENDS LuaResults, BlockingQueueProofs

-----------------------------------------------------------------------------
(* What the operators of the model return *)

(* The elements of two sequences one after the other.                      *)
LEMMA ConcatLemma ==
    ASSUME NEW S, NEW a \in Seq(S), NEW b \in Seq(S)
    PROVE  /\ a \o b \in Seq(S)
           /\ Range(a \o b) = Range(a) \cup Range(b)
           /\ \A x : Precedes(a \o b, x, x) =>
                        \/ Precedes(a, x, x) \/ Precedes(b, x, x)
                        \/ (x \in Range(a) /\ x \in Range(b))
<1>1. /\ a \o b \in Seq(S) /\ Len(a) \in Nat /\ Len(b) \in Nat
      /\ DOMAIN a = 1..Len(a) /\ DOMAIN b = 1..Len(b)
      /\ DOMAIN (a \o b) = 1..(Len(a) + Len(b))
      /\ \A i \in 1..Len(a) : (a \o b)[i] = a[i]
      /\ \A i \in 1..Len(b) : (a \o b)[Len(a) + i] = b[i]
  OBVIOUS
<1>2. \A i \in DOMAIN (a \o b) :
          \/ i \in DOMAIN a /\ (a \o b)[i] = a[i]
          \/ i - Len(a) \in DOMAIN b /\ (a \o b)[i] = b[i - Len(a)] /\ i > Len(a)
  <2> TAKE i \in DOMAIN (a \o b)
  <2>1. CASE i <= Len(a)
    BY <1>1, <2>1
  <2>2. CASE i > Len(a)
    <3>1. i - Len(a) \in 1..Len(b) /\ Len(a) + (i - Len(a)) = i
      BY <1>1, <2>2
    <3> QED BY <1>1, <2>2, <3>1
  <2> QED BY <1>1, <2>1, <2>2
<1>3. ASSUME NEW x \in Range(a) \cup Range(b) PROVE x \in Range(a \o b)
  <2>1. CASE x \in Range(a)
    <3>1. PICK i \in DOMAIN a : a[i] = x
      BY <2>1 DEF Range
    <3>2. i \in DOMAIN (a \o b) /\ (a \o b)[i] = x
      BY <1>1, <3>1
    <3> QED BY <3>2 DEF Range
  <2>2. CASE x \in Range(b)
    <3>1. PICK i \in DOMAIN b : b[i] = x
      BY <2>2 DEF Range
    <3>2. Len(a) + i \in DOMAIN (a \o b) /\ (a \o b)[Len(a) + i] = x
      BY <1>1, <3>1
    <3> QED BY <3>2 DEF Range
  <2> QED BY <2>1, <2>2
<1>4. ASSUME NEW x \in Range(a \o b) PROVE x \in Range(a) \cup Range(b)
  BY <1>2 DEF Range
<1>5. ASSUME NEW x, Precedes(a \o b, x, x)
      PROVE  \/ Precedes(a, x, x) \/ Precedes(b, x, x)
             \/ (x \in Range(a) /\ x \in Range(b))
  <2>1. PICK i, j \in DOMAIN (a \o b) : i < j /\ (a \o b)[i] = x /\ (a \o b)[j] = x
    BY <1>5 DEF Precedes
  <2>2. CASE i \in DOMAIN a /\ j \in DOMAIN a
    BY <1>1, <2>1, <2>2 DEF Precedes
  <2>3. CASE i > Len(a) /\ j > Len(a)
    <3>1. /\ i - Len(a) \in DOMAIN b /\ j - Len(a) \in DOMAIN b
          /\ b[i - Len(a)] = x /\ b[j - Len(a)] = x /\ i - Len(a) < j - Len(a)
      BY <1>1, <1>2, <2>1, <2>3
    <3> QED BY <3>1 DEF Precedes
  <2>4. CASE i \in DOMAIN a /\ j > Len(a)
    <3>1. a[i] = x /\ j - Len(a) \in DOMAIN b /\ b[j - Len(a)] = x
      BY <1>1, <1>2, <2>1, <2>4
    <3> QED BY <2>4, <3>1 DEF Range
  <2> QED BY <1>1, <2>1, <2>2, <2>3, <2>4
<1> QED
  BY <1>1, <1>3, <1>4, <1>5

(* An element that is put behind others it is not one of is there once.    *)
LEMMA PutOnce ==
    ASSUME NEW S, NEW q \in Seq(S), NEW e \in S
    PROVE  /\ put(q, e) \in Seq(S) /\ Range(put(q, e)) = Range(q) \cup {e}
           /\ \A x : Precedes(put(q, e), x, x) =>
                        Precedes(q, x, x) \/ (x = e /\ e \in Range(q))
BY PutLemma

(* take() leaves the order, and what was once in the queue is gone.        *)
LEMMA TakeOnce ==
    ASSUME NEW S, NEW q \in Seq(S), NonEmpty(q)
    PROVE  /\ Tail(q) \in Seq(S) /\ Head(q) \in S
           /\ Range(q) = {Head(q)} \cup Range(Tail(q))
           /\ \A x : Precedes(Tail(q), x, x) => Precedes(q, x, x)
           /\ ~Precedes(q, Head(q), Head(q)) => Head(q) \notin Range(Tail(q))
BY TakeLemma

(* removeIf() takes out what it is given and repeats nothing.              *)
LEMMA RemoveOnce ==
    ASSUME NEW S, NEW q \in Seq(S), NEW E
    PROVE  /\ removeIf(q, E) \in Seq(S)
           /\ Range(removeIf(q, E)) = Range(q) \ E
           /\ \A x : Precedes(removeIf(q, E), x, x) => Precedes(q, x, x)
BY RemoveLemma

(* The running data of every query and transaction are a sequence.         *)
RunningType == [Query \cup Tx -> Seq(Data)]

(* finishQueryData takes nothing but its data from the running ones, and   *)
(* takes that if it is there once.                                         *)
LEMMA FinishQueryDataLemma ==
    ASSUME NEW r \in RunningType, NEW d \in Data, owner[d] \in Query \cup Tx
    PROVE  /\ FinishQueryData(r, d) \in RunningType
           /\ \A o \in Query \cup Tx :
                 /\ Range(FinishQueryData(r, d)[o]) \subseteq Range(r[o])
                 /\ Range(r[o]) \subseteq Range(FinishQueryData(r, d)[o]) \cup {d}
                 /\ \A x : Precedes(FinishQueryData(r, d)[o], x, x) => Precedes(r[o], x, x)
           /\ ~Precedes(r[owner[d]], d, d) => d \notin Range(FinishQueryData(r, d)[owner[d]])
<1> DEFINE s == r[owner[d]]
           u == IF NonEmpty(s) /\ Head(s) = d THEN Tail(s) ELSE removeIf(s, {d})
<1>1. s \in Seq(Data)
  BY DEF RunningType
<1>2. FinishQueryData(r, d) = [r EXCEPT ![owner[d]] = u]
  BY DEF FinishQueryData
<1>3. /\ u \in Seq(Data) /\ Range(u) \subseteq Range(s) /\ Range(s) \subseteq Range(u) \cup {d}
      /\ \A x : Precedes(u, x, x) => Precedes(s, x, x)
      /\ ~Precedes(s, d, d) => d \notin Range(u)
  <2>1. CASE NonEmpty(s) /\ Head(s) = d
    <3>1. u = Tail(s)
      BY <2>1
    <3> HIDE DEF s, u
    <3> QED BY <1>1, <2>1, <3>1, TakeOnce
  <2>2. CASE ~(NonEmpty(s) /\ Head(s) = d)
    <3>1. u = removeIf(s, {d})
      BY <2>2
    <3> HIDE DEF s, u
    <3> QED BY <1>1, <3>1, RemoveOnce
  <2> QED BY <2>1, <2>2
<1> HIDE DEF u
<1>4. /\ FinishQueryData(r, d) \in RunningType /\ FinishQueryData(r, d)[owner[d]] = u
      /\ \A o \in Query \cup Tx : o # owner[d] => FinishQueryData(r, d)[o] = r[o]
  BY <1>2, <1>3 DEF RunningType
<1>5. \A o \in Query \cup Tx :
         /\ Range(FinishQueryData(r, d)[o]) \subseteq Range(r[o])
         /\ Range(r[o]) \subseteq Range(FinishQueryData(r, d)[o]) \cup {d}
         /\ \A x : Precedes(FinishQueryData(r, d)[o], x, x) => Precedes(r[o], x, x)
  BY <1>3, <1>4
<1> QED
  BY <1>3, <1>4, <1>5

\* What is true of 0, and of every number up to n after the one before it, is
\* true up to n: the numbers it is not true of, a set, have no least one.
LEMMA UpTo ==
    ASSUME NEW n \in Nat, NEW T \in SUBSET (0..n), 0 \in T,
           \A i \in 1..n : i - 1 \in T => i \in T
    PROVE  \A i \in 0..n : i \in T
<1> SUFFICES ASSUME NEW k \in (0..n) \ T PROVE FALSE
  OBVIOUS
<1>1. PICK i \in (0..n) \ T : \A j \in (0..n) \ T : i <= j
  <2>1. (0..n) \ T \in SUBSET Nat
    OBVIOUS
  <2> QED BY <2>1, LeastNatLemma
<1>2. i \in 1..n /\ i - 1 \in 0..n
  BY <1>1
<1>3. i - 1 \in T
  BY <1>1, <1>2
<1> QED
  BY <1>1, <1>2, <1>3

\* The recursion of FinishAll: some function does what its definition says.
LEMMA FinishAllSteps ==
    ASSUME NEW n \in Nat, NEW list \in Seq(Data), Len(list) = n
    PROVE  \E f : /\ f = [i \in 0..n |-> IF i = 0 THEN runningQueryData
                                         ELSE FinishQueryData(f[i - 1], list[i])]
                  /\ FinishAll(list) = f[n]
<1> DEFINE Is(g, k) == g = [i \in 0..k |-> IF i = 0 THEN runningQueryData
                                           ELSE FinishQueryData(g[i - 1], list[i])]
           T == {k \in 0..n : \E g : Is(g, k)}
<1>1. 0 \in T
  <2>1. Is([i \in 0..0 |-> runningQueryData], 0)
    OBVIOUS
  <2>2. \E g : Is(g, 0)
    <3> HIDE DEF Is
    <3> QED BY <2>1
  <2> QED BY <2>2
<1>2. ASSUME NEW k \in 1..n, k - 1 \in T PROVE k \in T
  <2>1. PICK g : Is(g, k - 1)
    BY <1>2
  <2> DEFINE h == [i \in 0..k |-> IF i = k THEN FinishQueryData(g[k - 1], list[k]) ELSE g[i]]
  <2>2. \A i \in 0..k : h[i] = IF i = 0 THEN runningQueryData
                               ELSE FinishQueryData(h[i - 1], list[i])
    <3> TAKE i \in 0..k
    <3>1. CASE i = 0
      BY <2>1, <3>1
    <3>2. CASE i = k
      BY <3>2
    <3>3. CASE i # 0 /\ i # k
      <4>1. i \in 0..(k - 1) /\ i - 1 \in 0..k /\ i - 1 # k
        BY <3>3
      <4>2. h[i] = g[i] /\ h[i - 1] = g[i - 1]
        BY <4>1
      <4>3. g[i] = FinishQueryData(g[i - 1], list[i])
        BY <2>1, <3>3, <4>1
      <4> QED BY <3>3, <4>2, <4>3
    <3> QED BY <3>1, <3>2, <3>3
  <2>3. Is(h, k)
    BY <2>2
  <2>4. \E f : Is(f, k)
    <3> HIDE DEF Is, h
    <3> QED BY <2>3
  <2> QED BY <2>4
<1>3. \E f : Is(f, n)
  <2>1. \A i \in 0..n : i \in T
    <3> HIDE DEF T
    <3>1. T \in SUBSET (0..n)
      BY DEF T
    <3> QED BY <1>1, <1>2, <3>1, UpTo
  <2>2. n \in T
    BY <2>1
  <2> QED BY <2>2
<1> DEFINE run == CHOOSE f : Is(f, n)
<1>4. Is(run, n)
  BY <1>3
<1>5. FinishAll(list) = run[n]
  BY DEF FinishAll
<1> QED
  BY <1>4, <1>5

\* What is left of the running data when those of a list have been finished:
\* no others are taken away, and those that were there once are.
LEMMA FinishAllLemma ==
    ASSUME runningQueryData \in RunningType, NEW list \in Seq(Data),
           \A d \in Range(list) : owner[d] \in Query \cup Tx
    PROVE  /\ FinishAll(list) \in RunningType
           /\ \A o \in Query \cup Tx :
                 /\ Range(FinishAll(list)[o]) \subseteq Range(runningQueryData[o])
                 /\ Range(runningQueryData[o]) \subseteq Range(FinishAll(list)[o]) \cup Range(list)
                 /\ \A x : Precedes(FinishAll(list)[o], x, x) =>
                               Precedes(runningQueryData[o], x, x)
           /\ \A d \in Range(list) : ~Precedes(runningQueryData[owner[d]], d, d) =>
                                         d \notin Range(FinishAll(list)[owner[d]])
<1> DEFINE n == Len(list)
<1>1. n \in Nat /\ DOMAIN list = 1..n /\ \A i \in 1..n : list[i] \in Data /\ list[i] \in Range(list)
  BY DEF Range
<1>2. PICK f : /\ f = [i \in 0..n |-> IF i = 0 THEN runningQueryData
                                      ELSE FinishQueryData(f[i - 1], list[i])]
               /\ FinishAll(list) = f[n]
  BY <1>1, FinishAllSteps
<1>3. f[0] = runningQueryData /\ \A i \in 1..n : f[i] = FinishQueryData(f[i - 1], list[i])
  <2>1. 0 \in 0..n /\ \A i \in 1..n : i \in 0..n /\ i # 0
    BY <1>1
  <2> HIDE DEF n
  <2> QED BY <1>2, <2>1
<1> DEFINE Done(i) ==
             /\ f[i] \in RunningType
             /\ \A o \in Query \cup Tx :
                   /\ Range(f[i][o]) \subseteq Range(runningQueryData[o])
                   /\ Range(runningQueryData[o]) \subseteq Range(f[i][o]) \cup Range(list)
                   /\ \A x : Precedes(f[i][o], x, x) => Precedes(runningQueryData[o], x, x)
             /\ \A j \in 1..i : ~Precedes(runningQueryData[owner[list[j]]], list[j], list[j]) =>
                                    list[j] \notin Range(f[i][owner[list[j]]])
           T == {i \in 0..n : Done(i)}
<1>4. Done(0)
  BY <1>3
<1>5. ASSUME NEW i \in 1..n, Done(i - 1) PROVE Done(i)
  <2> DEFINE r == f[i - 1]
             d == list[i]
  <2>1. r \in RunningType /\ d \in Data /\ owner[d] \in Query \cup Tx /\ d \in Range(list)
        /\ f[i] = FinishQueryData(r, d)
    BY <1>1, <1>3, <1>5
  <2>2. /\ f[i] \in RunningType
        /\ \A o \in Query \cup Tx :
              /\ Range(f[i][o]) \subseteq Range(r[o])
              /\ Range(r[o]) \subseteq Range(f[i][o]) \cup {d}
              /\ \A x : Precedes(f[i][o], x, x) => Precedes(r[o], x, x)
        /\ ~Precedes(r[owner[d]], d, d) => d \notin Range(f[i][owner[d]])
    <3> HIDE DEF r, d
    <3> DEFINE t == FinishQueryData(r, d)
    <3>1. /\ t \in RunningType
          /\ \A o \in Query \cup Tx :
                /\ Range(t[o]) \subseteq Range(r[o])
                /\ Range(r[o]) \subseteq Range(t[o]) \cup {d}
                /\ \A x : Precedes(t[o], x, x) => Precedes(r[o], x, x)
          /\ ~Precedes(r[owner[d]], d, d) => d \notin Range(t[owner[d]])
      BY <2>1, FinishQueryDataLemma
    <3>2. f[i] = t
      BY <2>1
    <3> HIDE DEF t
    <3> QED BY <3>1, <3>2
  <2>3. \A o \in Query \cup Tx :
           /\ Range(f[i][o]) \subseteq Range(runningQueryData[o])
           /\ Range(runningQueryData[o]) \subseteq Range(f[i][o]) \cup Range(list)
           /\ \A x : Precedes(f[i][o], x, x) => Precedes(runningQueryData[o], x, x)
    BY <1>5, <2>1, <2>2
  <2>4. ASSUME NEW j \in 1..i, ~Precedes(runningQueryData[owner[list[j]]], list[j], list[j])
        PROVE  list[j] \notin Range(f[i][owner[list[j]]])
    <3>1. CASE j = i
      BY <1>5, <2>1, <2>2, <2>4, <3>1
    <3>2. CASE j # i
      <4>1. j \in 1..(i - 1) /\ j \in 1..n
        BY <3>2
      <4>2. list[j] \notin Range(f[i - 1][owner[list[j]]])
        BY <1>5, <2>4, <4>1
      <4>3. owner[list[j]] \in Query \cup Tx
        BY <1>1, <4>1
      <4> QED BY <2>2, <4>2, <4>3
    <3> QED BY <3>1, <3>2
  <2> QED BY <2>2, <2>3, <2>4
<1>6. Done(n)
  <2>1. \A i \in 0..n : i \in T
    <3>1. T \in SUBSET (0..n) /\ 0 \in T
      <4> HIDE DEF Done
      <4> QED BY <1>1, <1>4
    <3>2. ASSUME NEW i \in 1..n, i - 1 \in T PROVE i \in T
      <4>1. Done(i - 1)
        BY <3>2
      <4>2. Done(i)
        BY <1>5, <4>1
      <4> HIDE DEF Done
      <4> QED BY <1>1, <4>2
    <3> HIDE DEF T, n
    <3> QED BY <1>1, <3>1, <3>2, UpTo
  <2>2. n \in T
    <3> HIDE DEF T
    <3> QED BY <1>1, <2>1
  <2> HIDE DEF Done
  <2> QED BY <2>2
<1>7. ASSUME NEW d \in Range(list), ~Precedes(runningQueryData[owner[d]], d, d)
      PROVE  d \notin Range(f[n][owner[d]])
  <2>1. PICK j \in 1..n : list[j] = d
    BY <1>1 DEF Range
  <2> QED BY <1>6, <1>7, <2>1
<1> HIDE DEF n
<1> QED
  BY <1>2, <1>6, <1>7

(* A list of elements of a queue has a last one with a given owner.        *)
LEMMA LastOfLemma ==
    ASSUME NEW q, NEW d, m_queries[d] \in Seq(Data), \E m \in Members(d) : owner[m] = q
    PROVE  /\ m_queries[d][LastOf(q, d)] \in Members(d)
           /\ owner[m_queries[d][LastOf(q, d)]] = q
<1> DEFINE s == m_queries[d]
           Of == {i \in DOMAIN s : owner[s[i]] = q}
<1>1. Len(s) \in Nat /\ DOMAIN s = 1..Len(s)
  OBVIOUS
<1>2. PICK k \in Of : TRUE
  BY DEF Members, Range
<1>3. PICK i \in Of : \A j \in Of : i >= j
  <2>1. Of \in SUBSET (1..Len(s)) /\ Of # {}
    BY <1>1, <1>2
  <2> HIDE DEF Of, s
  <2> QED BY <1>1, <2>1, GreatestNatLemma
<1>4. i \in DOMAIN s /\ owner[s[i]] = q /\ \A j \in DOMAIN s : owner[s[j]] = q => j <= i
  <2>1. \A j \in Of : j <= i
    <3>1. \A j \in Of : j \in Nat
      BY <1>1
    <3> HIDE DEF Of
    <3> QED BY <1>3, <3>1
  <2> QED BY <2>1
<1>5. LastOf(q, d) \in DOMAIN s /\ owner[s[LastOf(q, d)]] = q
  BY <1>4 DEF LastOf
<1> QED
  BY <1>5 DEF Members, Range

\* The data the queries of a transaction show are of the transaction, if it
\* has one of theirs, and their own; the others keep what they showed.
LEMMA MembersShownLemma ==
    ASSUME NEW d, m_queries[d] \in Seq(Data)
    PROVE  \A q \in Query :
              \/ /\ MembersShown(d)[q] \in Members(d) /\ MembersShown(d)[q] \in Data
                 /\ owner[MembersShown(d)[q]] = q
              \/ /\ \A m \in Members(d) : owner[m] # q
                 /\ MembersShown(d)[q] = callbackQueryData[q]
<1>1. \A m \in Members(d) : m \in Data
  BY DEF Members, Range
<1> QED
  BY <1>1, LastOfLemma DEF MembersShown
-----------------------------------------------------------------------------
(* The inductive invariant *)

\* What has been built: nothing is there beyond it, only a transaction's data
\* has queries, and the data addQuery has built are of queries.
DataInv ==
    /\ \A d \in Data : d > built => results[d] = <<>> /\ m_queries[d] = <<>>
                                 /\ resultStatus[d] = "NONE" /\ failed[d] = None
    /\ \A d \in 1..built : owner[d] \in Query \cup Tx
    /\ \A d \in Data : m_queries[d] # <<>> => owner[d] \in Tx
    /\ \A d \in Data : /\ \A m \in Members(d) : m <= built /\ owner[m] \in Query
                       /\ Len(m_queries[d]) <= built
    /\ \A t \in Tx :
          /\ \A m \in Range(m_addedQueryData[t]) :
                /\ m <= built /\ owner[m] \in Query
                /\ ~Precedes(m_addedQueryData[t], m, m)
          /\ Len(m_addedQueryData[t]) <= built

\* A data that addQuery has built, for a transaction that shares it.
Added(d) ==
    \/ \E t \in Tx : d \in Range(m_addedQueryData[t])
    \/ \E e \in Data : d \in Members(e)

\* The data whose callback is running.
Called ==
    IF lua.at \in {"onData", "onSuccess", "onError", "onAborted"} THEN {lua.d} ELSE {}

\* The data that are queued, executed, and waiting for their callback.
Jobs ==
    Range(queryQueue) \cup ({cur} \ {Null}) \cup Range(finishedQueries)
        \cup Range(aborted) \cup Called

\* A started data is in one place, once, and was not built by addQuery; but
\* what wait() has failed is in finishedQueries wherever else it is.
JobInv ==
    /\ \A d \in Jobs : d \in 1..built /\ (Added(d) => failed[d] # None)
    /\ \A d \in Range(queryQueue) \cup ({cur} \ {Null}) \cup Range(aborted) \cup Called : ~Added(d)
    /\ \A d \in Data : /\ ~Precedes(queryQueue, d, d)
                       /\ ~Precedes(aborted, d, d)
                       /\ failed[d] = None => ~Precedes(finishedQueries, d, d)
    /\ \A d \in Range(queryQueue) : d # cur /\ d \notin Range(aborted)
    /\ cur \notin Range(aborted)
    /\ \A d \in Range(aborted) : d \notin Called
    /\ \A d \in Data : failed[d] = None =>
          \/ d \notin Called
          \/ d \notin Range(queryQueue) \cup {cur}
    /\ \A d \in Data : failed[d] = None =>
          \/ d \notin Range(finishedQueries)
          \/ d \notin Range(queryQueue) \cup {cur} \cup Range(aborted) \cup Called
    /\ lua.at = "script" => lua.d = Null

\* What wait() fails is finished, and is a started data or in one; the
\* database thread executes nothing when it does, and answers it if not.
FailInv ==
    /\ thread # "up" => cur = Null
    /\ \A d \in Data : failed[d] # None =>
          /\ d \in finished /\ failed[d] # "executing"
          /\ Added(d) => \E e \in Data : d \in Members(e)
    /\ Range(finishedQueries) \subseteq finished
    /\ WaitIsAnswered

\* The data that isRunning() has to tell of.
Ongoing == Jobs \cup UNION {Members(d) : d \in Jobs}

\* runningQueryData holds them, each once.
RunInv ==
    /\ \A o \in Query \cup Tx : \A d \in Range(runningQueryData[o]) :
          d <= built /\ owner[d] = o
    /\ \A d \in 1..built :
          \/ Shared(d)
          \/ /\ d \in Range(runningQueryData[owner[d]]) => d \in Ongoing
             /\ d \in Ongoing => d \in Range(runningQueryData[owner[d]]) \/ Disowned(d)
             /\ ~Precedes(runningQueryData[owner[d]], d, d)
    /\ lua.at = "waiting" =>
          /\ lua.d \in 1..built /\ aborted = <<>>
          /\ lua.d \in Range(runningQueryData[owner[lua.d]])

\* A data that the database thread is done with and think has reported, or
\* that was aborted.
Past(e) == e \in 1..built /\ e # cur /\ e \notin Range(queryQueue) \cup Range(finishedQueries)

\* A data whose callbacks have begun; what wait() has failed no longer runs
\* after the first of them.
Turned(e) ==
    /\ e \in 1..built
    /\ IF failed[e] = None THEN Past(e)
       ELSE e \in Called \/ e \notin Range(runningQueryData[owner[e]])

\* A query shows a data of its own: one whose callbacks have begun, itself or in
\* its transaction, or one of a transaction that wait() has failed.
ShownInv ==
    \A q \in Query :
        LET c == callbackQueryData[q] IN
        c # Null => /\ c <= built /\ owner[c] = q
                    /\ \/ failed[c] # None /\ \E e \in Data : c \in Members(e)
                       \/ \E e \in Data : Turned(e) /\ (c \in Members(e) \/ (c = e /\ ~Added(e)))

\* The first of the result sets is still there.
HasFirst(d) == results[d] # <<>> /\ Head(results[d]) = 1

\* A query of a transaction that has succeeded has it, unless it is shared or
\* wait() has failed it.
Intact(m) == Shared(m) \/ failed[m] # None \/ HasFirst(m)

\* A success nobody was told of, and what it says of the results.
Unseen(d) == resultStatus[d] = "SUCCESS" /\ ~Added(d) /\ ~Turned(d)
Whole(d) == (owner[d] \in Query => HasFirst(d)) /\ \A m \in Members(d) : Intact(m)

\* The results of what is to be executed, is executed, and was executed: they
\* are not touched until the callbacks begin.
ResultInv ==
    /\ \A d \in Range(queryQueue) \cup ({cur} \ {Null}) :
          /\ owner[d] \in Query => results[d] = <<>>
          /\ resultStatus[d] # "SUCCESS"
    /\ cur # Null =>
          /\ member <= Len(m_queries[cur]) + 2
          /\ member > 1 =>
                \A i \in DOMAIN m_queries[cur] :
                    \/ Turned(cur)
                    \/ Intact(m_queries[cur][i])
                    \/ i >= member - 1 /\ results[m_queries[cur][i]] = <<>>
    /\ \A d \in Range(finishedQueries) : Unseen(d) => Whole(d)

\* The callback and the table of the query it is for.
CallInv ==
    /\ lua.at \in {"onData", "onSuccess"} => lua.d \notin Range(queryQueue) \cup {cur}
    /\ lua.at = "onData" =>
          /\ owner[lua.d] \in Query
          /\ advanced \/ m_dataReference[owner[lua.d]] = [data |-> lua.d, result |-> 1]
    /\ OwnResults
    /\ NoStaleTable

Inv == TypeOK /\ DataInv /\ JobInv /\ FailInv /\ RunInv /\ ShownInv /\ ResultInv /\ CallInv

(* The inductive invariant holds before anything was built.                *)
LEMMA InitInv == Init => Inv
<1> SUFFICES ASSUME Init PROVE Inv
  OBVIOUS
<1> USE ResultsAssumption DEF Init, Data, Null
<1>1. TypeOK
  <2>1. <<>> \in Seq(Data) /\ <<>> \in Seq(0..MaxResults) /\ <<>> \in Seq(Table)
    OBVIOUS
  <2>2. lua \in [at : {"script", "waiting", "onData", "onSuccess", "onError", "onAborted"},
                 d : Data \cup {Null}, argument : Seq(Table)]
    BY <2>1
  <2>3. built \in 0..MaxData /\ member \in 1..(MaxData + 2)
    OBVIOUS
  <2> QED BY <2>1, <2>2, <2>3 DEF TypeOK
<1>2. DataInv
  BY DEF DataInv, Members, Range
<1>3. JobInv
  BY DEF JobInv, Jobs, Called, Range, Precedes
<1>8. FailInv
  BY DEF FailInv, WaitIsAnswered, Range
<1>4. RunInv
  BY DEF RunInv, Range
<1>5. ShownInv
  BY DEF ShownInv
<1>6. ResultInv
  BY DEF ResultInv, Range
<1>7. CallInv
  BY DEF CallInv, OwnResults, NoStaleTable
<1> QED
  BY <1>1, <1>2, <1>3, <1>4, <1>5, <1>6, <1>7, <1>8 DEF Inv

-----------------------------------------------------------------------------
(* Types are kept *)

(* The data a step builds.                                                 *)
LEMMA NewLemma ==
    ASSUME TypeOK, NEW o \in Query \cup Tx, New(o)
    PROVE  /\ built + 1 \in Data /\ built \in Nat /\ built' = built + 1 /\ built' \in 0..MaxData
           /\ owner' \in [Data -> Query \cup Tx \cup {None}]
           /\ owner'[built + 1] = o
           /\ \A d \in Data : d # built + 1 => owner'[d] = owner[d]
           /\ \A d \in 1..built : d \in Data /\ d # built + 1
           /\ \A d \in 1..built' : d \in 1..built \/ d = built + 1
<1>1. /\ built \in 0..MaxData /\ MaxData \in Nat /\ built < MaxData /\ built' = built + 1
      /\ owner \in [Data -> Query \cup Tx \cup {None}]
      /\ owner' = [owner EXCEPT ![built + 1] = o]
  BY ResultsAssumption DEF TypeOK, New
<1>2. /\ built + 1 \in Data /\ built \in Nat /\ built' = built + 1 /\ built' \in 0..MaxData
      /\ \A d \in 1..built : d \in Data /\ d # built + 1
      /\ \A d \in 1..built' : d \in 1..built \/ d = built + 1
  BY <1>1 DEF Data
<1>3. /\ owner' \in [Data -> Query \cup Tx \cup {None}] /\ owner'[built + 1] = o
      /\ \A d \in Data : d # built + 1 => owner'[d] = owner[d]
  BY <1>1, <1>2
<1> QED
  BY <1>2, <1>3

(* The table of a data's current result set.                               *)
LEMMA CreatedType == TypeOK => \A d \in Data : Created(d) \in Table
<1> SUFFICES ASSUME TypeOK, NEW d \in Data PROVE Created(d) \in Table
  OBVIOUS
<1>1. results[d] \in Seq(0..MaxResults)
  BY DEF TypeOK
<1>2. results[d] # <<>> => Head(results[d]) \in 0..MaxResults
  <2> DEFINE S == 0..MaxResults
  <2>1. results[d] \in Seq(S)
    BY <1>1
  <2> HIDE DEF S
  <2>2. results[d] # <<>> => Head(results[d]) \in S
    BY <2>1
  <2> QED BY <2>2 DEF S
<1> QED
  BY <1>2, ResultsAssumption DEF Created, Table

(* The data a callback runs for, at the end of which it is finished.       *)
LEMMA FinishType ==
    ASSUME TypeOK, DataInv, NEW d \in 1..built
    PROVE  FinishAll(<<d>> \o m_queries[d]) \in [Query \cup Tx -> Seq(Data)]
<1>1. d \in Data /\ m_queries[d] \in Seq(Data) /\ owner[d] \in Query \cup Tx
  BY ResultsAssumption DEF TypeOK, DataInv, Data
<1>2. <<d>> \in Seq(Data) /\ Range(<<d>>) = {d}
  BY <1>1 DEF Range
<1>3. <<d>> \o m_queries[d] \in Seq(Data) /\ Range(<<d>> \o m_queries[d]) = {d} \cup Members(d)
  BY <1>1, <1>2, ConcatLemma DEF Members
<1>4. \A x \in Range(<<d>> \o m_queries[d]) : owner[x] \in Query \cup Tx
  BY <1>1, <1>3 DEF DataInv
<1>5. runningQueryData \in RunningType
  BY DEF TypeOK, RunningType
<1> QED
  BY <1>3, <1>4, <1>5, FinishAllLemma DEF RunningType

(* Every step keeps the types.                                             *)
LEMMA TypeKept == Inv /\ [Next]_vars => TypeOK'
<1> SUFFICES ASSUME Inv, [Next]_vars PROVE TypeOK'
  OBVIOUS
<1>0. TypeOK /\ DataInv /\ JobInv /\ ResultInv /\ MaxData \in Nat /\ MaxResults \in Nat
  BY ResultsAssumption DEF Inv
<1> USE <1>0 DEF dataVars, resultVars, threadVars, cacheVars, connection
<1>1. ASSUME NEW t \in Tx, NEW q \in Query, AddQuery(t, q) PROVE TypeOK'
  <2>1. New(q)
    BY <1>1 DEF AddQuery
  <2>2. Append(m_addedQueryData[t], built + 1) \in Seq(Data)
    BY <2>1, NewLemma DEF TypeOK
  <2> QED BY <1>1, <2>1, <2>2, NewLemma DEF AddQuery, TypeOK
<1>2. ASSUME NEW t \in Tx, ClearQueries(t) PROVE TypeOK'
  <2>1. m_addedQueryData' \in [Tx -> Seq(Data)]
    <3>1. m_addedQueryData \in [Tx -> Seq(Data)] /\ <<>> \in Seq(Data)
      BY DEF TypeOK
    <3> QED BY <1>2, <3>1 DEF ClearQueries
  <2>2. UNCHANGED <<dataVars, resultVars, runningQueryData, queryQueue, threadVars,
                    finishedQueries, cacheVars, lua, aborted, advanced, thread, failed>>
    BY <1>2 DEF ClearQueries
  <2> QED BY <2>1, <2>2 DEF TypeOK
<1>3. ASSUME NEW q \in Query, StartQuery(q) PROVE TypeOK'
  <2>1. New(q) /\ Starting(q, callbackQueryData[q])
    BY <1>3 DEF StartQuery, Starting
  <2>2. put(queryQueue, built + 1) \in Seq(Data)
        /\ Append(runningQueryData[q], built + 1) \in Seq(Data)
    BY <2>1, NewLemma DEF TypeOK, put
  <2> QED BY <2>1, <2>2, NewLemma DEF Starting, Enqueue, TypeOK
<1>4. ASSUME NEW t \in Tx, StartTransaction(t) PROVE TypeOK'
  <2>1. New(t)
    BY <1>4 DEF StartTransaction
  <2>2. put(queryQueue, built + 1) \in Seq(Data)
        /\ Append(runningQueryData[t], built + 1) \in Seq(Data)
    BY <2>1, NewLemma DEF TypeOK, put
  <2> DEFINE added(o) == removeIf(m_addedQueryData[t], {d \in Data : owner[d] # o})
  <2>3. ASSUME NEW o \in Query \cup Tx PROVE runningQueryData[o] \o added(o) \in Seq(Data)
    <3>1. m_addedQueryData[t] \in Seq(Data) /\ runningQueryData[o] \in Seq(Data)
      BY DEF TypeOK
    <3>2. added(o) \in Seq(Data)
      BY <3>1, RemoveOnce
    <3> HIDE DEF added
    <3> QED BY <3>1, <3>2
  <2>4. runningQueryData' = [o \in Query \cup Tx |->
            IF o = t THEN Append(runningQueryData[t], built + 1)
                     ELSE runningQueryData[o] \o added(o)]
    BY <1>4 DEF StartTransaction, Enqueue
  <2> HIDE DEF added
  <2>5. runningQueryData' \in [Query \cup Tx -> Seq(Data)]
    BY <2>2, <2>3, <2>4
  <2>6. m_queries' \in [Data -> Seq(Data)]
    BY <1>4 DEF StartTransaction, TypeOK
  <2>7. /\ queryQueue' = put(queryQueue, built + 1)
        /\ UNCHANGED <<callbackQueryData, resultVars, m_addedQueryData, threadVars,
                       finishedQueries, m_dataReference, lua, aborted, advanced, thread, failed>>
    BY <1>4 DEF StartTransaction, Enqueue
  <2> QED BY <2>1, <2>2, <2>5, <2>6, <2>7, NewLemma DEF TypeOK
<1>27. ASSUME NEW d \in Data, FailWaitingQuery(d)
       PROVE  /\ finishedQueries' \in Seq(Data) /\ finished' \in SUBSET Data
              /\ resultStatus' \in [Data -> {"NONE", "ERROR", "SUCCESS"}] /\ results' = results
              /\ failed' \in [Data -> {None, "new", "queued", "executing", "aborted", "ERROR",
                                      "SUCCESS"}]
  <2>1. StageOf(d) \in {None, "new", "queued", "executing", "aborted", "ERROR", "SUCCESS"}
    BY DEF StageOf, TypeOK
  <2> QED BY <1>27, <2>1 DEF FailWaitingQuery, TypeOK, put
<1>5. ASSUME NEW o \in Query \cup Tx, Wait(o) PROVE TypeOK'
  <2> DEFINE d == Last(runningQueryData[o])
  <2>1. runningQueryData[o] \in Seq(Data) /\ runningQueryData[o] # <<>>
    BY <1>5 DEF Wait, TypeOK
  <2>2. d \in Data
    BY <2>1 DEF Last
  <2> HIDE DEF d
  <2>3. /\ UNCHANGED <<dataVars, m_addedQueryData, runningQueryData, queryQueue, threadVars,
                       cacheVars, aborted, advanced, thread>>
        /\ \/ FailWaitingQuery(d) /\ UNCHANGED lua
           \/ /\ lua' = [lua EXCEPT !.at = "waiting", !.d = d]
              /\ UNCHANGED <<resultVars, finishedQueries, failed>>
    BY <1>5 DEF Wait, d
  <2>4. CASE FailWaitingQuery(d) /\ UNCHANGED lua
    BY <1>27, <2>2, <2>3, <2>4 DEF TypeOK
  <2>5. CASE /\ lua' = [lua EXCEPT !.at = "waiting", !.d = d]
             /\ UNCHANGED <<resultVars, finishedQueries, failed>>
    BY <2>2, <2>3, <2>5 DEF TypeOK
  <2> QED BY <2>3, <2>4, <2>5
<1>28. CASE EndThread
  <2>1. /\ UNCHANGED <<dataVars, m_addedQueryData, runningQueryData, queryQueue, threadVars,
                       cacheVars, lua, aborted, advanced>>
        /\ thread' = "ended"
        /\ \/ FailWaitingQuery(lua.d) /\ lua.at = "waiting"
           \/ UNCHANGED <<resultVars, finishedQueries, failed>>
    BY <1>28 DEF EndThread
  <2>2. CASE FailWaitingQuery(lua.d) /\ lua.at = "waiting"
    <3>1. lua.d \in Data
      BY <2>2 DEF Inv, RunInv, Data, TypeOK
    <3> QED BY <1>27, <2>1, <2>2, <3>1 DEF TypeOK
  <2>3. CASE UNCHANGED <<resultVars, finishedQueries, failed>>
    BY <2>1, <2>3 DEF TypeOK
  <2> QED BY <2>1, <2>2, <2>3
<1>29. CASE Connect
  BY <1>29 DEF Connect, TypeOK
<1>6. ASSUME NEW o \in Query \cup Tx, Abort(o) PROVE TypeOK'
  <2> DEFINE removed == removeIf(runningQueryData[o], Data \ Range(queryQueue))
  <2>1. removed \in Seq(Data) /\ removeIf(queryQueue, Range(removed)) \in Seq(Data)
    BY RemoveOnce DEF TypeOK
  <2>2. Range(removed) \subseteq Data
    BY <2>1 DEF Range
  <2>3. /\ queryQueue' = removeIf(queryQueue, Range(removed))
        /\ finished' = finished \cup Range(removed) /\ aborted' = removed
        /\ UNCHANGED <<dataVars, resultStatus, results, m_addedQueryData, runningQueryData,
                       threadVars, finishedQueries, cacheVars, lua, advanced, thread, failed>>
    BY <1>6 DEF Abort, Aborting
  <2> HIDE DEF removed
  <2> QED BY <2>1, <2>2, <2>3 DEF TypeOK
<1>7. CASE Take
  <2>1. queryQueue \in Seq(Data) /\ NonEmpty(queryQueue)
    BY <1>7 DEF Take, TypeOK
  <2>2. Head(queryQueue) \in Data /\ Tail(queryQueue) \in Seq(Data) /\ 1 \in 1..(MaxData + 2)
    BY <2>1, TakeOnce
  <2>3. /\ cur' = Head(queryQueue) /\ queryQueue' = Tail(queryQueue) /\ member' = 1
        /\ UNCHANGED <<dataVars, resultVars, m_addedQueryData, runningQueryData,
                       finishedQueries, cacheVars, lua, aborted, advanced, thread, failed>>
    BY <1>7 DEF Take
  <2> QED BY <2>2, <2>3 DEF TypeOK
<1>8. ASSUME NEW n \in 0..MaxResults, NEW s \in Seq(0..MaxResults)
      PROVE  s \o [i \in 1..n |-> i] \in Seq(0..MaxResults)
  <2>1. [i \in 1..n |-> i] \in Seq(0..MaxResults)
    OBVIOUS
  <2> QED BY <2>1
<1>9. ASSUME NEW status \in [Data -> {"NONE", "ERROR", "SUCCESS"}], cur # Null, Report(status)
      PROVE  /\ finishedQueries' \in Seq(Data) /\ finished' \in SUBSET Data
             /\ cur' \in Data \cup {Null} /\ resultStatus' = status
  BY <1>9 DEF Report, TypeOK, put
<1>10. CASE Execute
  <2>1. PICK n \in 0..MaxResults, r \in {"SUCCESS", "ERROR"} :
            /\ results' = [results EXCEPT ![cur] = @ \o [i \in 1..n |-> i]]
            /\ Report([resultStatus EXCEPT ![cur] = r])
    BY <1>10 DEF Execute
  <2>2. cur # Null /\ cur \in Data /\ results[cur] \in Seq(0..MaxResults)
    BY <1>10 DEF Execute, TypeOK
  <2>3. [resultStatus EXCEPT ![cur] = r] \in [Data -> {"NONE", "ERROR", "SUCCESS"}]
    BY DEF TypeOK
  <2>4. results' \in [Data -> Seq(0..MaxResults)]
    <3>1. results[cur] \o [i \in 1..n |-> i] \in Seq(0..MaxResults)
      BY <1>8, <2>2
    <3> QED BY <2>1, <3>1 DEF TypeOK
  <2> QED BY <1>9, <1>10, <2>1, <2>2, <2>3, <2>4 DEF Execute, TypeOK
<1>11. CASE Begin
  <2>1. results' \in [Data -> Seq(0..MaxResults)]
    <3>1. <<>> \in Seq(0..MaxResults) /\ \A d \in Data : results[d] \in Seq(0..MaxResults)
      BY DEF TypeOK
    <3>2. results' = [d \in Data |-> IF d \in Members(cur) THEN <<>> ELSE results[d]]
      BY <1>11 DEF Begin
    <3> QED BY <3>1, <3>2
  <2>2. resultStatus' \in [Data -> {"NONE", "ERROR", "SUCCESS"}]
    <3>1. resultStatus \in [Data -> {"NONE", "ERROR", "SUCCESS"}]
      BY DEF TypeOK
    <3> QED BY <1>11, <3>1 DEF Begin
  <2>3. /\ member' = 2 /\ 2 \in 1..(MaxData + 2)
        /\ UNCHANGED <<dataVars, finished, cur, m_addedQueryData, runningQueryData,
                       queryQueue, finishedQueries, cacheVars, lua, aborted, advanced, thread, failed>>
    BY <1>11 DEF Begin
  <2> QED BY <2>1, <2>2, <2>3 DEF TypeOK
<1>12. CASE ExecuteMember
  <2> DEFINE d == m_queries[cur][member - 1]
  <2>1. cur \in Data /\ m_queries[cur] \in Seq(Data) /\ member - 1 \in DOMAIN m_queries[cur]
        /\ member + 1 \in 1..(MaxData + 2)
    <3>1. cur \in Data /\ member \in 2..(Len(m_queries[cur]) + 1)
      BY <1>12 DEF ExecuteMember, TypeOK
    <3>2. m_queries[cur] \in Seq(Data) /\ Len(m_queries[cur]) <= built /\ built \in 0..MaxData
      BY <3>1 DEF TypeOK, DataInv
    <3>3. Len(m_queries[cur]) \in Nat /\ DOMAIN m_queries[cur] = 1..Len(m_queries[cur])
      BY <3>2
    <3> QED BY <3>1, <3>2, <3>3
  <2>2. d \in Data
    BY <2>1
  <2>3. PICK n \in 1..MaxResults : results' = [results EXCEPT ![d] = @ \o [i \in 1..n |-> i]]
    BY <1>12 DEF ExecuteMember
  <2>4. results[d] \o [i \in 1..n |-> i] \in Seq(0..MaxResults)
    <3>1. results[d] \in Seq(0..MaxResults) /\ n \in 0..MaxResults
      BY <2>2 DEF TypeOK
    <3> HIDE DEF d
    <3> QED BY <1>8, <3>1
  <2>5. /\ resultStatus' = [resultStatus EXCEPT ![d] = "SUCCESS"] /\ member' = member + 1
        /\ UNCHANGED <<dataVars, finished, cur, m_addedQueryData, runningQueryData,
                   queryQueue, finishedQueries, cacheVars, lua, aborted, advanced, thread, failed>>
    BY <1>12 DEF ExecuteMember
  <2> HIDE DEF d
  <2> QED BY <2>1, <2>2, <2>3, <2>4, <2>5 DEF TypeOK
<1>13. CASE Commit
  <2>1. cur \in Data /\ cur # Null
        /\ [resultStatus EXCEPT ![cur] = "SUCCESS"] \in [Data -> {"NONE", "ERROR", "SUCCESS"}]
    BY <1>13 DEF Commit, TypeOK
  <2> QED BY <1>9, <1>13, <2>1 DEF Commit, TypeOK
<1>14. CASE Fail
  <2> DEFINE unexecuted == {m_queries[cur][i] : i \in (member - 1)..Len(m_queries[cur])}
             tail(n, d) == (IF d = m_queries[cur][member - 1]
                            THEN [i \in 1..n |-> i] ELSE <<>>) \o <<0>>
  <2>1. cur # Null /\ cur \in Data
    BY <1>14 DEF Fail, TypeOK
  <2> DEFINE status == [d \in Data |-> IF d \in unexecuted \cup {cur} THEN "ERROR"
                                       ELSE resultStatus[d]]
  <2>2. status \in [Data -> {"NONE", "ERROR", "SUCCESS"}]
    BY DEF TypeOK
  <2>3. PICK n \in 0..MaxResults-1 :
            results' = [d \in Data |->
                            IF d \notin unexecuted THEN results[d]
                            ELSE results[d] \o (IF d = m_queries[cur][member - 1]
                                               THEN [i \in 1..n |-> i] ELSE <<>>) \o <<0>>]
    BY <1>14 DEF Fail
  <2>4. ASSUME NEW d \in Data PROVE results'[d] \in Seq(0..MaxResults)
    <3>1. results[d] \in Seq(0..MaxResults) /\ n \in 0..MaxResults
      BY DEF TypeOK
    <3>2. results[d] \o [i \in 1..n |-> i] \in Seq(0..MaxResults)
          /\ results[d] \o <<>> \in Seq(0..MaxResults) /\ <<0>> \in Seq(0..MaxResults)
      BY <1>8, <3>1
    <3>3. (results[d] \o [i \in 1..n |-> i]) \o <<0>> \in Seq(0..MaxResults)
          /\ (results[d] \o <<>>) \o <<0>> \in Seq(0..MaxResults)
      BY <3>2
    <3> HIDE DEF unexecuted
    <3> QED BY <2>3, <3>1, <3>3
  <2>5. results' \in [Data -> Seq(0..MaxResults)]
    <3> HIDE DEF unexecuted
    <3> QED BY <2>3, <2>4
  <2>6. /\ Report(status)
        /\ UNCHANGED <<dataVars, member, m_addedQueryData, runningQueryData, queryQueue,
                       cacheVars, lua, aborted, advanced, thread, failed>>
    BY <1>14 DEF Fail
  <2> HIDE DEF status
  <2> QED BY <1>9, <2>1, <2>2, <2>5, <2>6 DEF TypeOK
<1>15. ASSUME NEW q \in Query, GetData(q) PROVE TypeOK'
  <2>1. Cached(q, callbackQueryData[q]) \in Table \cup {NoTable}
    BY <1>15, CreatedType DEF GetData, Cached, TypeOK
  <2> QED BY <1>15, <2>1 DEF GetData, TypeOK
<1>16. ASSUME NEW q \in Query, GetNextResults(q) PROVE TypeOK'
  <2> DEFINE d == callbackQueryData[q]
  <2>1. d \in Data /\ results[d] # <<>> => Tail(results[d]) \in Seq(0..MaxResults)
    BY DEF TypeOK
  <2>2. results' \in [Data -> Seq(0..MaxResults)]
    BY <1>16, <2>1 DEF GetNextResults, NextResults, TypeOK
  <2>3. /\ m_dataReference' = [m_dataReference EXCEPT ![q] = NoTable]
        /\ advanced' \in BOOLEAN
        /\ UNCHANGED <<dataVars, resultStatus, finished, m_addedQueryData, runningQueryData,
                   queryQueue, threadVars, finishedQueries, callbackQueryData, lua, aborted,
                   thread, failed>>
    BY <1>16 DEF GetNextResults, NextResults, TypeOK
  <2> QED BY <2>2, <2>3 DEF TypeOK
<1>17. CASE WaitReturns
  BY <1>17 DEF WaitReturns, TypeOK
<1>18. ASSUME NEW d \in Data, ThinkNext(d)
       PROVE  /\ finishedQueries' \in Seq(Data) /\ d \in 1..built
              /\ UNCHANGED <<dataVars, resultVars, m_addedQueryData, queryQueue, threadVars,
                             aborted, thread, failed>>
  <2>1. finishedQueries' \in Seq(Data) /\ d \in Range(finishedQueries)
    BY <1>18, TakeOnce DEF ThinkNext, TypeOK
  <2>2. d \in 1..built
    BY <2>1 DEF JobInv, Jobs
  <2>3. UNCHANGED <<dataVars, resultVars, m_addedQueryData, queryQueue, threadVars, aborted,
                    thread, failed>>
    BY <1>18 DEF ThinkNext
  <2> QED BY <2>1, <2>2, <2>3
<1>19. ASSUME NEW d \in Data, RunSuccess(d) PROVE TypeOK'
  <2>1. ThinkNext(d) /\ owner[d] \in Query /\ Created(d) \in Table
    BY <1>19, CreatedType DEF RunSuccess
  <2>2. <<Fresh(owner[d], d)>> \in Seq(Table)
    BY <2>1 DEF Fresh
  <2> QED BY <1>18, <1>19, <2>1, <2>2 DEF RunSuccess, Enter, Fresh, TypeOK
<1>20. ASSUME NEW d \in Data, RunTransactionSuccess(d) PROVE TypeOK'
  <2> DEFINE tables == [i \in DOMAIN m_queries[d] |-> Fresh(owner[m_queries[d][i]], m_queries[d][i])]
  <2>1. ThinkNext(d) /\ m_queries[d] \in Seq(Data)
    BY <1>20 DEF RunTransactionSuccess, TypeOK
  <2>2. tables \in Seq(Table)
    <3>1. \A i \in DOMAIN m_queries[d] : Created(m_queries[d][i]) \in Table
      BY <2>1, CreatedType
    <3> QED BY <2>1, <3>1 DEF Fresh
  <2>3. ASSUME NEW q \in Query
        PROVE  /\ MembersShown(d)[q] \in Data \cup {Null}
               /\ (\E m \in Members(d) : owner[m] = q) => Fresh(q, MembersShown(d)[q]) \in Table
    <3>1. callbackQueryData[q] \in Data \cup {Null}
      BY DEF TypeOK
    <3>2. (\E m \in Members(d) : owner[m] = q) => MembersShown(d)[q] \in Data
      BY <2>1, MembersShownLemma
    <3>3. MembersShown(d)[q] \in Data \cup {Null}
      BY <2>1, <3>1, MembersShownLemma
    <3> QED BY <3>2, <3>3, CreatedType DEF Fresh
  <2>4. callbackQueryData' \in [Query -> Data \cup {Null}]
    BY <1>20, <2>3 DEF RunTransactionSuccess, MembersShown
  <2>5. m_dataReference' \in [Query -> Table \cup {NoTable}]
    BY <1>20, <2>3 DEF RunTransactionSuccess, TypeOK
  <2>8. /\ finishedQueries' \in Seq(Data) /\ advanced' \in BOOLEAN
        /\ UNCHANGED <<dataVars, resultVars, m_addedQueryData, queryQueue, threadVars, aborted,
                       thread, failed>>
    <3>1. advanced' = FALSE
      BY <1>20 DEF RunTransactionSuccess
    <3> QED BY <1>18, <2>1, <3>1
  <2>6. CASE Enter("onSuccess", d, tables) /\ UNCHANGED runningQueryData
    <3>1. lua' \in [at : {"script", "waiting", "onData", "onSuccess", "onError", "onAborted"},
                    d : Data \cup {Null}, argument : Seq(Table)]
      <4> HIDE DEF tables
      <4> QED BY <2>2, <2>6 DEF Enter
    <3> QED BY <2>4, <2>5, <2>6, <2>8, <3>1 DEF TypeOK
  <2>7. CASE FinishLuaQueryData(d) /\ UNCHANGED lua
    <3>1. runningQueryData' \in [Query \cup Tx -> Seq(Data)]
      BY <1>18, <2>1, <2>7, FinishType DEF FinishLuaQueryData
    <3> QED BY <2>4, <2>5, <2>7, <2>8, <3>1 DEF TypeOK
  <2> QED BY <1>20, <2>6, <2>7 DEF RunTransactionSuccess
<1>21. ASSUME NEW d \in Data, RunError(d) PROVE TypeOK'
  <2>1. ThinkNext(d) /\ m_queries[d] \in Seq(Data) /\ <<>> \in Seq(Table)
    BY <1>21 DEF RunError, TypeOK
  <2>2. \A q \in Query : MembersShown(d)[q] \in Data \cup {Null}
    BY <2>1, MembersShownLemma DEF TypeOK
  <2>3. callbackQueryData' \in [Query -> Data \cup {Null}]
    BY <1>21, <2>2 DEF RunError, MembersShown, TypeOK
  <2> QED BY <1>18, <1>21, <2>1, <2>3 DEF RunError, Enter, TypeOK
<1>30. ASSUME NEW d \in Data, RunUnreferenced(d) PROVE TypeOK'
  <2>1. ThinkNext(d) /\ Created(d) \in Table /\ FinishLuaQueryData(d)
    BY <1>30, CreatedType DEF RunUnreferenced
  <2>2. callbackQueryData' \in [Query -> Data \cup {Null}]
    BY <1>30 DEF RunUnreferenced, TypeOK
  <2>3. m_dataReference' \in [Query -> Table \cup {NoTable}]
    BY <1>30, <2>1 DEF RunUnreferenced, Fresh, TypeOK
  <2>4. runningQueryData' \in [Query \cup Tx -> Seq(Data)]
    BY <1>18, <2>1, FinishType DEF FinishLuaQueryData
  <2>5. UNCHANGED <<lua, advanced>>
    BY <1>30 DEF RunUnreferenced
  <2> QED BY <1>18, <2>1, <2>2, <2>3, <2>4, <2>5 DEF TypeOK
<1>22. Called \subseteq 1..built
  BY DEF JobInv, Jobs
<1>23. CASE OnDataReturns
  <2>1. lua.d \in 1..built /\ lua.d \in Data
    BY <1>22, <1>23 DEF OnDataReturns, Called, Data, TypeOK
  <2>2. CASE FinishLuaQueryData(lua.d) /\ Leave
    <3>1. runningQueryData' \in [Query \cup Tx -> Seq(Data)]
      <4>1. FinishAll(<<lua.d>> \o m_queries[lua.d]) \in [Query \cup Tx -> Seq(Data)]
        BY <2>1, FinishType
      <4> QED BY <2>2, <4>1 DEF FinishLuaQueryData
    <3>2. <<>> \in Seq(Table)
      OBVIOUS
    <3> QED BY <1>23, <2>2, <3>1, <3>2 DEF OnDataReturns, Leave, TypeOK
  <2>3. ASSUME Enter("onSuccess", lua.d, IF m_dataReference[owner[lua.d]] = NoTable
                                         THEN <<>> ELSE <<m_dataReference[owner[lua.d]]>>),
               UNCHANGED runningQueryData
        PROVE  TypeOK'
    <3>1. owner[lua.d] \in Query
      BY <1>23 DEF OnDataReturns, Inv, CallInv
    <3> DEFINE table == m_dataReference[owner[lua.d]]
               argument == IF table = NoTable THEN <<>> ELSE <<table>>
    <3>2. argument \in Seq(Table)
      BY <3>1 DEF TypeOK
    <3>3. lua' = [at |-> "onSuccess", d |-> lua.d, argument |-> argument]
      BY <2>3 DEF Enter
    <3> HIDE DEF argument
    <3> QED BY <1>23, <2>1, <2>3, <3>2, <3>3 DEF OnDataReturns, TypeOK
  <2> QED BY <1>23, <2>2, <2>3 DEF OnDataReturns
<1>24. CASE RunAborted
  <2>1. /\ Head(aborted) \in Data /\ Tail(aborted) \in Seq(Data) /\ <<>> \in Seq(Table)
        /\ m_queries[Head(aborted)] \in Seq(Data)
    BY <1>24 DEF RunAborted, TypeOK
  <2>2. \A q \in Query : MembersShown(Head(aborted))[q] \in Data \cup {Null}
    BY <2>1, MembersShownLemma DEF TypeOK
  <2>3. callbackQueryData' \in [Query -> Data \cup {Null}]
    BY <1>24, <2>2 DEF RunAborted, MembersShown
  <2> QED BY <1>24, <2>1, <2>3 DEF RunAborted, Enter, TypeOK
<1>25. CASE CallbackReturns
  <2>1. lua.d \in 1..built
    BY <1>22, <1>25 DEF CallbackReturns, Called
  <2>2. runningQueryData' \in [Query \cup Tx -> Seq(Data)]
    <3>1. FinishAll(<<lua.d>> \o m_queries[lua.d]) \in [Query \cup Tx -> Seq(Data)]
      BY <2>1, FinishType
    <3> QED BY <1>25, <3>1 DEF CallbackReturns, FinishLuaQueryData
  <2>4. <<>> \in Seq(Table)
    OBVIOUS
  <2>3. m_dataReference' \in [Query -> Table \cup {NoTable}]
    BY <1>25 DEF CallbackReturns, TypeOK
  <2> QED BY <1>25, <2>2, <2>3, <2>4 DEF CallbackReturns, Leave, TypeOK
<1>26. CASE UNCHANGED vars
  BY <1>26 DEF vars, TypeOK
<1> QED
  BY <1>1, <1>2, <1>3, <1>4, <1>5, <1>6, <1>7, <1>10, <1>11, <1>12, <1>13, <1>14, <1>15,
     <1>16, <1>17, <1>19, <1>20, <1>21, <1>23, <1>24, <1>25, <1>26, <1>28, <1>29, <1>30
     DEF Next, Call, Callbacks, DatabaseThread
-----------------------------------------------------------------------------
(* What the steps change *)

\* The steps that may fail the data wait() is called for, ...
Failing == EndThread \/ \E o \in Query \cup Tx : Wait(o)

\* ... and what they do then.
Fails(d) ==
    /\ failed[d] = None /\ cur = Null /\ aborted = <<>> /\ Called = {}
    /\ d \in Range(runningQueryData[owner[d]])
    /\ FailWaitingQuery(d) /\ lua' = lua

\* The steps that neither build data nor forget any.
Handle ==
    \/ \E q \in Query : GetData(q) \/ GetNextResults(q)
    \/ \E o \in Query \cup Tx : Abort(o)
    \/ Connect \/ Failing \/ Callbacks \/ DatabaseThread

Build ==
    \/ \E t \in Tx : ClearQueries(t) \/ StartTransaction(t)
    \/ \E t \in Tx, q \in Query : AddQuery(t, q)
    \/ \E q \in Query : StartQuery(q)

(* Every step is of one of the two kinds.                                  *)
LEMMA NextSplit == Next => Build \/ Handle
BY DEF Next, Call, Build, Handle, Failing

(* Handling data leaves what was built as it is.                           *)
LEMMA HandleFrame == Handle => UNCHANGED <<dataVars, m_addedQueryData>>
<1> USE DEF dataVars
<1>1. Callbacks => UNCHANGED <<dataVars, m_addedQueryData>>
  BY DEF Callbacks, RunSuccess, RunTransactionSuccess, RunError, RunUnreferenced, ThinkNext,
     OnDataReturns, RunAborted, CallbackReturns, WaitReturns
<1>2. DatabaseThread => UNCHANGED <<dataVars, m_addedQueryData>>
  BY DEF DatabaseThread, Take, Execute, Begin, ExecuteMember, Commit, Fail
<1>3. Connect \/ Failing => UNCHANGED <<dataVars, m_addedQueryData>>
  BY DEF Connect, Failing, Wait, EndThread
<1> QED
  BY <1>1, <1>2, <1>3 DEF Handle, GetData, GetNextResults, NextResults, Abort, Aborting

(* wait() and the end of the thread leave everything but the data they     *)
(* fail, and that is a running one.                                        *)
LEMMA FailLemma ==
    ASSUME Inv, Failing
    PROVE  /\ UNCHANGED <<dataVars, results, m_addedQueryData, runningQueryData, queryQueue,
                          threadVars, cacheVars, aborted, advanced>>
           /\ Called' = Called /\ (lua.at = "script" => lua.d = Null)'
           /\ \/ UNCHANGED <<resultVars, finishedQueries, failed>>
              \/ \E d \in 1..built : Fails(d)
<1> USE DEF resultVars
<1>0. TypeOK /\ FailInv /\ RunInv /\ built \in Nat /\ (lua.at = "script" => lua.d = Null)
  BY DEF Inv, TypeOK, JobInv
<1>1. ASSUME NEW o \in Query \cup Tx, Wait(o)
      PROVE  /\ UNCHANGED <<dataVars, results, m_addedQueryData, runningQueryData, queryQueue,
                            threadVars, cacheVars, aborted, advanced>>
             /\ Called' = Called /\ (lua.at = "script" => lua.d = Null)'
             /\ \/ UNCHANGED <<resultVars, finishedQueries, failed>>
                \/ \E d \in 1..built : Fails(d)
  <2> DEFINE d == Last(runningQueryData[o])
  <2>1. runningQueryData[o] \in Seq(Data) /\ runningQueryData[o] # <<>>
    BY <1>0, <1>1 DEF Wait, TypeOK
  <2>2. d \in Range(runningQueryData[o]) /\ d \in Data
    <3>1. Len(runningQueryData[o]) \in DOMAIN runningQueryData[o]
      BY <2>1
    <3> QED BY <2>1, <3>1 DEF Last, Range
  <2>3. owner[d] = o /\ d \in 1..built
    BY <1>0, <2>2 DEF RunInv, Data
  <2> HIDE DEF d
  <2>4. /\ lua.at = "script" /\ aborted = <<>>
        /\ UNCHANGED <<dataVars, m_addedQueryData, runningQueryData, queryQueue, threadVars,
                       cacheVars, aborted, advanced>>
        /\ \/ /\ thread # "up" /\ failed[d] = None
              /\ FailWaitingQuery(d) /\ UNCHANGED lua
           \/ /\ lua' = [lua EXCEPT !.at = "waiting", !.d = d]
              /\ UNCHANGED <<resultVars, finishedQueries, failed>>
    BY <1>1 DEF Wait, LuaRuns, d
  <2>5. lua' = [lua EXCEPT !.at = "waiting", !.d = d] => lua'.at = "waiting"
    BY <1>0 DEF TypeOK
  <2>6. Called = {} /\ Called' = {} /\ (lua.at = "script" => lua.d = Null)'
    BY <1>0, <2>4, <2>5 DEF Called
  <2>7. CASE /\ thread # "up" /\ failed[d] = None
             /\ FailWaitingQuery(d) /\ UNCHANGED lua
    <3>1. Fails(d)
      BY <1>0, <2>2, <2>3, <2>4, <2>6, <2>7 DEF Fails, FailInv
    <3>2. results' = results
      BY <2>7 DEF FailWaitingQuery
    <3> QED BY <2>3, <2>4, <2>6, <3>1, <3>2
  <2> QED BY <2>4, <2>6, <2>7
<1>2. CASE EndThread
  <2>1. /\ cur = Null /\ lua' = lua
        /\ UNCHANGED <<dataVars, m_addedQueryData, runningQueryData, queryQueue, threadVars,
                       cacheVars, aborted, advanced>>
        /\ \/ lua.at = "waiting" /\ lua.d \notin finished /\ FailWaitingQuery(lua.d)
           \/ UNCHANGED <<resultVars, finishedQueries, failed>>
    BY <1>2 DEF EndThread
  <2>2. CASE lua.at = "waiting" /\ lua.d \notin finished /\ FailWaitingQuery(lua.d)
    <3>1. /\ lua.d \in 1..built /\ aborted = <<>> /\ lua.d \in Data
          /\ lua.d \in Range(runningQueryData[owner[lua.d]])
      BY <1>0, <2>2, ResultsAssumption DEF RunInv, TypeOK, Data
    <3>2. failed[lua.d] = None
      BY <1>0, <2>2, <3>1 DEF FailInv
    <3>3. Called = {} /\ Called' = Called
      BY <2>1, <2>2 DEF Called
    <3>4. Fails(lua.d)
      BY <2>1, <2>2, <3>1, <3>2, <3>3 DEF Fails
    <3>5. results' = results
      BY <2>2 DEF FailWaitingQuery
    <3> QED BY <1>0, <2>1, <3>1, <3>3, <3>4, <3>5
  <2>3. CASE UNCHANGED <<resultVars, finishedQueries, failed>>
    BY <1>0, <2>1, <2>3 DEF Called
  <2> QED BY <2>1, <2>2, <2>3
<1> QED
  BY <1>1, <1>2 DEF Failing

(* The data that fails has an error, is in finishedQueries, and remembers  *)
(* the stage it was at.                                                    *)
LEMMA FailsLemma ==
    ASSUME Inv, NEW d \in 1..built, Fails(d)
    PROVE  /\ d \in Data /\ failed[d] = None /\ failed'[d] = StageOf(d)
           /\ failed'[d] \notin {None, "executing"}
           /\ \A x \in Data \ {d} : failed'[x] = failed[x] /\ resultStatus'[x] = resultStatus[x]
           /\ resultStatus'[d] = "ERROR" /\ results' = results
           /\ finished' = finished \cup {d}
           /\ Range(finishedQueries') = Range(finishedQueries) \cup {d}
           /\ \A x : Precedes(finishedQueries', x, x) => Precedes(finishedQueries, x, x) \/ x = d
<1>1. TypeOK /\ d \in Data /\ Null \notin Data
  BY ResultsAssumption DEF Inv, TypeOK, Data, Null
<1>2. /\ failed[d] = None /\ failed' = [failed EXCEPT ![d] = StageOf(d)]
      /\ resultStatus' = [resultStatus EXCEPT ![d] = "ERROR"] /\ results' = results
      /\ finished' = finished \cup {d} /\ finishedQueries' = put(finishedQueries, d)
      /\ cur = Null
  BY DEF Fails, FailWaitingQuery
<1>3. StageOf(d) \notin {None, "executing"}
  BY <1>1, <1>2 DEF StageOf, TypeOK, None
<1>4. finishedQueries \in Seq(Data)
  BY <1>1 DEF TypeOK
<1>5. /\ failed'[d] = StageOf(d) /\ resultStatus'[d] = "ERROR"
      /\ \A x \in Data \ {d} : failed'[x] = failed[x] /\ resultStatus'[x] = resultStatus[x]
  BY <1>1, <1>2 DEF TypeOK
<1> QED
  BY <1>1, <1>2, <1>3, <1>4, <1>5, PutOnce

(* Only wait() and the end of the thread fail data.                        *)
LEMMA FailedFrame ==
    ASSUME [Next]_vars, ~Failing
    PROVE  failed' = failed
<1> USE DEF connection
<1>1. Callbacks => failed' = failed
  BY DEF Callbacks, RunSuccess, RunTransactionSuccess, RunError, RunUnreferenced, ThinkNext,
     OnDataReturns, RunAborted, CallbackReturns, WaitReturns
<1>2. DatabaseThread => failed' = failed
  BY DEF DatabaseThread, Take, Execute, Begin, ExecuteMember, Commit, Fail
<1>3. Build => failed' = failed
  BY DEF Build, ClearQueries, StartTransaction, AddQuery, StartQuery, Starting, Enqueue
<1>4. Connect => failed' = failed
  BY DEF Connect
<1>5. ASSUME Handle PROVE failed' = failed
  BY <1>1, <1>2, <1>4, <1>5 DEF Handle, GetData, GetNextResults, NextResults, Abort, Aborting
<1> QED
  BY <1>3, <1>5, NextSplit DEF vars

(* What has failed stays failed, at the same stage.                        *)
LEMMA FailedKept ==
    ASSUME Inv, [Next]_vars
    PROVE  \A d \in Data : failed[d] # None => failed'[d] = failed[d]
<1>1. CASE ~Failing
  BY <1>1, FailedFrame
<1>2. ASSUME NEW e \in 1..built, Fails(e)
      PROVE  \A d \in Data : failed[d] # None => failed'[d] = failed[d]
  BY <1>2, FailsLemma
<1>3. CASE Failing
  BY <1>2, <1>3, FailLemma
<1> QED
  BY <1>1, <1>3

(* Building data leaves the results, what is executed and what is shown.   *)
LEMMA BuildFrame ==
    TypeOK /\ Build =>
        UNCHANGED <<resultVars, threadVars, finishedQueries, m_dataReference, lua, aborted,
                    advanced, callbackQueryData, thread, failed>>
BY DEF TypeOK, Build, ClearQueries, StartTransaction, AddQuery, StartQuery, Starting, Enqueue,
       cacheVars, connection

(* The data that exist, and the only ones whose results anyone changes.    *)
LEMMA KnownData ==
    ASSUME TypeOK, DataInv
    PROVE  /\ \A d \in 1..built : d \in Data
           /\ \A d \in Data : Members(d) \subseteq 1..built
           /\ \A d \in Data : Members(d) # {} => d \in 1..built /\ owner[d] \in Tx
           /\ \A t \in Tx : Range(m_addedQueryData[t]) \subseteq 1..built
<1>1. built \in 0..MaxData /\ MaxData \in Nat
  BY ResultsAssumption DEF TypeOK
<1>2. \A d \in 1..built : d \in Data
  BY <1>1 DEF Data
<1>3. ASSUME NEW s \in Seq(Data), NEW d \in Range(s) PROVE d \in Data
  BY <1>3 DEF Range
<1>4. \A d \in Data : d <= built => d \in 1..built
  BY <1>1 DEF Data
<1>5. \A d \in Data : Members(d) \subseteq 1..built
  BY <1>3, <1>4 DEF TypeOK, DataInv, Members
<1>6. \A d \in Data : Members(d) # {} => m_queries[d] # <<>>
  BY DEF Members, Range
<1>7. \A d \in Data : Members(d) # {} => d \in 1..built /\ owner[d] \in Tx
  BY <1>1, <1>6 DEF DataInv, Data
<1>8. \A t \in Tx : Range(m_addedQueryData[t]) \subseteq 1..built
  BY <1>3, <1>4 DEF TypeOK, DataInv
<1> QED
  BY <1>2, <1>5, <1>7, <1>8

(* What the database thread writes to belongs to what it executes.         *)
LEMMA ThreadFrame ==
    ASSUME TypeOK, DatabaseThread
    PROVE  /\ UNCHANGED <<dataVars, m_addedQueryData, runningQueryData, cacheVars, lua,
                          aborted, advanced, thread, failed>>
           /\ \A d \in Data : d # cur /\ (cur \in Data => d \notin Members(cur)) =>
                  results'[d] = results[d] /\ resultStatus'[d] = resultStatus[d]
<1>1. UNCHANGED <<dataVars, m_addedQueryData, runningQueryData, cacheVars, lua, aborted,
                  advanced, thread, failed>>
  BY DEF DatabaseThread, Take, Execute, Begin, ExecuteMember, Commit, Fail, connection
<1> SUFFICES ASSUME NEW d \in Data, d # cur, cur \in Data => d \notin Members(cur)
             PROVE  results'[d] = results[d] /\ resultStatus'[d] = resultStatus[d]
  BY <1>1
<1>2. CASE Take
  BY <1>2 DEF Take, resultVars
<1>3. CASE Execute
  BY <1>3 DEF Execute, Report, TypeOK
<1>4. CASE Begin
  BY <1>4 DEF Begin, TypeOK
<1>5. CASE ExecuteMember
  <2>1. cur \in Data /\ member - 1 \in DOMAIN m_queries[cur]
    BY <1>5 DEF ExecuteMember, TypeOK
  <2>2. m_queries[cur][member - 1] # d
    BY <2>1 DEF Members, Range
  <2> QED BY <1>5, <2>2 DEF ExecuteMember, TypeOK
<1>6. CASE Commit
  BY <1>6 DEF Commit, Report, TypeOK
<1>7. CASE Fail
  <2> DEFINE unexecuted == {m_queries[cur][i] : i \in (member - 1)..Len(m_queries[cur])}
  <2>1. cur \in Data /\ \A i \in (member - 1)..Len(m_queries[cur]) : i \in DOMAIN m_queries[cur]
    BY <1>7 DEF Fail, TypeOK
  <2>2. d \notin unexecuted
    BY <2>1 DEF Members, Range
  <2>3. /\ results'[d] = results[d]
        /\ Report([x \in Data |-> IF x \in unexecuted \cup {cur} THEN "ERROR"
                                  ELSE resultStatus[x]])
    BY <1>7, <2>2 DEF Fail
  <2> HIDE DEF unexecuted
  <2> QED BY <2>2, <2>3 DEF Report
<1> QED
  BY <1>2, <1>3, <1>4, <1>5, <1>6, <1>7 DEF DatabaseThread

(* Only getNextResults changes results outside the database thread, and    *)
(* only wait() and the end of the thread change the status of one.         *)
LEMMA ResultsFrame ==
    ASSUME Inv, Handle, ~DatabaseThread
    PROVE  /\ \/ resultStatus' = resultStatus
              \/ \E d \in 1..built : Fails(d)
           /\ \/ results' = results
              \/ \E q \in Query : GetNextResults(q) /\ callbackQueryData[q] # Null
                     /\ results[callbackQueryData[q]] # <<>>
                     /\ results' = [results EXCEPT ![callbackQueryData[q]] = Tail(@)]
<1> USE DEF resultVars
<1>1. CASE Callbacks
  BY <1>1 DEF Callbacks, RunSuccess, RunTransactionSuccess, RunError, RunUnreferenced, ThinkNext,
     OnDataReturns, RunAborted, CallbackReturns, WaitReturns
<1>2. CASE \E o \in Query \cup Tx : Abort(o)
  BY <1>2 DEF Abort, Aborting
<1>3. CASE \/ \E q \in Query : GetData(q)
           \/ Connect
  BY <1>3 DEF GetData, Connect
<1>4. ASSUME NEW q \in Query, GetNextResults(q)
      PROVE  /\ resultStatus' = resultStatus
             /\ \/ results' = results
                \/ /\ callbackQueryData[q] # Null /\ results[callbackQueryData[q]] # <<>>
                   /\ results' = [results EXCEPT ![callbackQueryData[q]] = Tail(@)]
  BY <1>4 DEF GetNextResults, NextResults
<1>5. CASE Failing
  BY <1>5, FailLemma
<1> QED
  BY <1>1, <1>2, <1>3, <1>4, <1>5 DEF Handle

-----------------------------------------------------------------------------
(* What has been built *)

(* Every step keeps what is known of the data that were built.             *)
LEMMA DataInvKept == Inv /\ [Next]_vars => DataInv'
<1> SUFFICES ASSUME Inv, [Next]_vars PROVE DataInv'
  OBVIOUS
<1>0. TypeOK /\ DataInv /\ TypeOK' /\ MaxData \in Nat
  BY TypeKept, ResultsAssumption DEF Inv
<1>10. /\ \A d \in 1..built : d \in Data /\ d # built + 1
       /\ \A d \in Data : Members(d) \subseteq 1..built
       /\ \A t \in Tx : Range(m_addedQueryData[t]) \subseteq 1..built
       /\ built \in 0..MaxData
  <2>1. built \in 0..MaxData
    BY <1>0 DEF TypeOK
  <2>2. \A d \in 1..built : d # built + 1
    BY <1>0, <2>1
  <2> QED BY <1>0, <2>1, <2>2, KnownData
<1>1. ASSUME NEW t \in Tx, NEW q \in Query, AddQuery(t, q) PROVE DataInv'
  <2>1. New(q) /\ UNCHANGED <<m_queries, results, resultStatus, failed>>
        /\ m_addedQueryData' = [m_addedQueryData EXCEPT ![t] = Append(@, built + 1)]
    BY <1>1 DEF AddQuery, resultVars, connection
  <2>2. /\ built + 1 \in Data /\ built' = built + 1 /\ owner'[built + 1] = q
        /\ \A d \in 1..built : owner'[d] = owner[d]
        /\ \A d \in 1..built' : d \in 1..built \/ d = built + 1
    BY <1>0, <1>10, <2>1, NewLemma
  <2>3. ASSUME NEW u \in Tx
        PROVE  /\ \A m \in Range(m_addedQueryData'[u]) :
                     /\ m <= built' /\ owner'[m] \in Query
                     /\ ~Precedes(m_addedQueryData'[u], m, m)
               /\ Len(m_addedQueryData'[u]) <= built'
    <3>1. CASE u = t
      <4>1. m_addedQueryData[t] \in Seq(Data)
        BY <1>0 DEF TypeOK
      <4>2. m_addedQueryData'[t] = put(m_addedQueryData[t], built + 1)
        BY <1>0, <2>1 DEF TypeOK, put
      <4>3. /\ Range(m_addedQueryData'[t]) = Range(m_addedQueryData[t]) \cup {built + 1}
            /\ Len(m_addedQueryData'[t]) = Len(m_addedQueryData[t]) + 1
        <5>1. Len(put(m_addedQueryData[t], built + 1)) = Len(m_addedQueryData[t]) + 1
          BY <4>1 DEF put
        <5> QED BY <2>2, <4>1, <4>2, <5>1, PutOnce
      <4>4. built + 1 \notin Range(m_addedQueryData[t])
        BY <1>10
      <4>5. \A x : Precedes(m_addedQueryData'[t], x, x) => Precedes(m_addedQueryData[t], x, x)
        BY <2>2, <4>1, <4>2, <4>4, PutOnce
      <4>6. \A m \in Range(m_addedQueryData[t]) : m \in 1..built /\ owner[m] \in Query
                /\ ~Precedes(m_addedQueryData[t], m, m)
        BY <1>0, <1>10 DEF DataInv
      <4>7. ~Precedes(m_addedQueryData[t], built + 1, built + 1)
        BY <4>4 DEF Precedes, Range
      <4>8. Len(m_addedQueryData[t]) <= built /\ Len(m_addedQueryData[t]) \in Nat
        BY <1>0, <4>1 DEF DataInv
      <4> QED BY <1>10, <2>2, <3>1, <4>3, <4>5, <4>6, <4>7, <4>8
    <3>2. CASE u # t
      <4>1. m_addedQueryData'[u] = m_addedQueryData[u] /\ Len(m_addedQueryData[u]) \in Nat
        BY <1>0, <2>1, <3>2 DEF TypeOK
      <4> QED BY <1>0, <1>10, <2>2, <4>1 DEF DataInv
    <3> QED BY <3>1, <3>2
  <2>4. \A d \in Data : /\ \A m \in Members(d) : m <= built' /\ owner'[m] \in Query
                        /\ Len(m_queries[d]) <= built'
    <3>1. \A d \in Data : Len(m_queries[d]) \in Nat
      BY <1>0 DEF TypeOK
    <3> QED BY <1>0, <1>10, <2>2, <3>1 DEF DataInv
  <2>5. \A d \in Data : d > built' => d > built
    BY <1>10, <2>2 DEF Data
  <2>6. \A d \in 1..built' : owner'[d] \in Query \cup Tx
    BY <1>0, <2>2 DEF DataInv
  <2>7. \A d \in Data : m_queries[d] # <<>> => d \in 1..built
    BY <1>0, <1>10 DEF DataInv, Data
  <2>8. \A d \in Data : m_queries[d] # <<>> => owner'[d] \in Tx
    BY <1>0, <2>2, <2>7 DEF DataInv
  <2> QED BY <1>0, <2>1, <2>3, <2>4, <2>5, <2>6, <2>8 DEF DataInv, Members
<1>2. ASSUME NEW t \in Tx, ClearQueries(t) PROVE DataInv'
  <2>1. UNCHANGED <<dataVars, results, resultStatus, failed>>
        /\ m_addedQueryData' = [m_addedQueryData EXCEPT ![t] = <<>>]
    BY <1>2 DEF ClearQueries, resultVars, connection
  <2>2. \A u \in Tx : m_addedQueryData'[u] \in {m_addedQueryData[u], <<>>}
    BY <1>0, <2>1 DEF TypeOK
  <2>3. Range(<<>>) = {} /\ Len(<<>>) = 0 /\ built >= 0
    BY <1>10 DEF Range
  <2> QED BY <1>0, <2>1, <2>2, <2>3 DEF DataInv, Members, dataVars
<1>3. ASSUME \/ \E q \in Query : StartQuery(q)
             \/ \E t \in Tx : StartTransaction(t)
      PROVE  DataInv'
  <2>1. PICK o \in Query \cup Tx :
           /\ New(o) /\ UNCHANGED <<results, resultStatus, failed, m_addedQueryData>>
           /\ \/ m_queries' = m_queries
              \/ o \in Tx /\ m_queries' = [m_queries EXCEPT ![built + 1] = m_addedQueryData[o]]
    BY <1>3 DEF StartQuery, Starting, StartTransaction, Enqueue, resultVars, connection
  <2>2. /\ built + 1 \in Data /\ built' = built + 1 /\ owner'[built + 1] = o
        /\ \A d \in 1..built : owner'[d] = owner[d]
        /\ \A d \in 1..built' : d \in 1..built \/ d = built + 1
    BY <1>0, <1>10, <2>1, NewLemma
  <2>3. \A d \in Data : d > built' => d > built /\ d # built + 1
    BY <1>10, <2>2 DEF Data
  <2>4. ASSUME NEW d \in Data
        PROVE  \/ m_queries'[d] = m_queries[d]
               \/ o \in Tx /\ d = built + 1 /\ m_queries'[d] = m_addedQueryData[o]
    BY <1>0, <2>1 DEF TypeOK
  <2>5. \A d \in Data : /\ Len(m_queries[d]) \in Nat /\ Len(m_queries[d]) <= built'
                        /\ \A m \in Members(d) : m <= built' /\ owner'[m] \in Query
    <3>1. \A d \in Data : Len(m_queries[d]) \in Nat
      BY <1>0 DEF TypeOK
    <3> QED BY <1>0, <1>10, <2>2, <3>1 DEF DataInv
  <2>6. \A t \in Tx : /\ Len(m_addedQueryData[t]) \in Nat /\ Len(m_addedQueryData[t]) <= built'
                      /\ \A m \in Range(m_addedQueryData[t]) :
                            /\ m <= built' /\ owner'[m] \in Query
                            /\ ~Precedes(m_addedQueryData[t], m, m)
    <3>1. \A t \in Tx : Len(m_addedQueryData[t]) \in Nat
      BY <1>0 DEF TypeOK
    <3> QED BY <1>0, <1>10, <2>2, <3>1 DEF DataInv
  <2>7. ASSUME NEW d \in Data
        PROVE  /\ \A m \in Range(m_queries'[d]) : m <= built' /\ owner'[m] \in Query
               /\ Len(m_queries'[d]) <= built'
               /\ m_queries'[d] # <<>> => owner'[d] \in Tx
               /\ d > built' => results'[d] = <<>> /\ m_queries'[d] = <<>>
                                /\ resultStatus'[d] = "NONE" /\ failed'[d] = None
    <3>1. CASE m_queries'[d] = m_queries[d]
      <4>1. m_queries[d] # <<>> => d \in 1..built
        BY <1>0, <1>10 DEF DataInv, Data
      <4>2. m_queries[d] # <<>> => owner'[d] \in Tx
        BY <1>0, <2>2, <4>1 DEF DataInv
      <4>3. d > built' => results'[d] = <<>> /\ m_queries'[d] = <<>>
                          /\ resultStatus'[d] = "NONE" /\ failed'[d] = None
        BY <1>0, <2>1, <2>3, <3>1 DEF DataInv
      <4> QED BY <2>5, <3>1, <4>2, <4>3 DEF Members
    <3>2. CASE o \in Tx /\ d = built + 1 /\ m_queries'[d] = m_addedQueryData[o]
      BY <2>2, <2>3, <2>6, <3>2
    <3> QED BY <2>4, <3>1, <3>2
  <2>8. \A d \in 1..built' : owner'[d] \in Query \cup Tx
    BY <1>0, <2>2 DEF DataInv
  <2> QED BY <2>1, <2>6, <2>7, <2>8 DEF DataInv, Members
<1>4. ASSUME Handle PROVE DataInv'
  <2>1. UNCHANGED <<dataVars, m_addedQueryData>>
    BY <1>4, HandleFrame
  <2>4. ASSUME NEW d \in Data, d > built, ~Failing
        PROVE  /\ results'[d] = results[d] /\ resultStatus'[d] = resultStatus[d]
               /\ failed'[d] = failed[d]
    <3>3. failed' = failed
      BY <1>4, <2>4, FailedFrame
    <3>1. CASE DatabaseThread
      <4>1. d # cur /\ (cur \in Data => d \notin Members(cur))
        <5>1. cur # Null => cur \in 1..built
          BY DEF Inv, JobInv, Jobs
        <5> QED BY <1>10, <2>4, <5>1 DEF Null
      <4> QED BY <1>0, <3>1, <3>3, <4>1, ThreadFrame
    <3>2. CASE ~DatabaseThread
      <4>1. ASSUME NEW q \in Query, callbackQueryData[q] # Null
            PROVE  callbackQueryData[q] # d
        <5>1. callbackQueryData[q] <= built
          BY <4>1 DEF Inv, ShownInv
        <5> QED BY <1>10, <2>4, <5>1 DEF Data
      <4>2. resultStatus' = resultStatus
        <5>1. ASSUME NEW x \in 1..built, Fails(x) PROVE failed'[x] # failed[x]
          BY <5>1, FailsLemma
        <5> QED BY <1>4, <3>2, <3>3, <5>1, ResultsFrame
      <4> QED BY <1>0, <1>4, <3>2, <3>3, <4>1, <4>2, ResultsFrame DEF TypeOK
    <3> QED BY <3>1, <3>2
  <2>5. ASSUME NEW d \in Data, d > built, Failing
        PROVE  /\ results'[d] = results[d] /\ resultStatus'[d] = resultStatus[d]
               /\ failed'[d] = failed[d]
    <3>1. ASSUME NEW x \in 1..built, Fails(x)
          PROVE  /\ results'[d] = results[d] /\ resultStatus'[d] = resultStatus[d]
                 /\ failed'[d] = failed[d]
      BY <1>10, <2>5, <3>1, FailsLemma
    <3> QED BY <2>5, <3>1, FailLemma DEF resultVars
  <2> QED BY <1>0, <2>1, <2>4, <2>5 DEF DataInv, Members, dataVars
<1>5. CASE UNCHANGED vars
  BY <1>0, <1>5 DEF vars, DataInv, Members, dataVars, resultVars
<1> QED
  BY <1>1, <1>2, <1>3, <1>4, <1>5, NextSplit DEF Build
-----------------------------------------------------------------------------
(* Where the started data are *)

(* Data that addQuery did not build are never added to a transaction.      *)
LEMMA AddedKept ==
    ASSUME Inv, [Next]_vars
    PROVE  /\ built \in Nat /\ built' \in {built, built + 1}
           /\ \A d \in 1..built : d \in 1..built' /\ (Added(d)' => Added(d))
           /\ \A t \in Tx : StartTransaction(t) => (\A d : d = built + 1 => ~Added(d)')
           /\ \A q \in Query : StartQuery(q) => (\A d : d = built + 1 => ~Added(d)')
<1>0. TypeOK /\ DataInv /\ built \in Nat
  BY DEF Inv, TypeOK
<1>1. /\ \A d \in Data : Members(d) \subseteq 1..built
      /\ \A t \in Tx : Range(m_addedQueryData[t]) \subseteq 1..built
  BY <1>0, KnownData
<1>2. \A o, d : New(o) => built' = built + 1 /\ built + 1 \in Data
  BY <1>0, ResultsAssumption DEF New, Data, TypeOK
<1>3. ASSUME NEW t \in Tx, NEW q \in Query, AddQuery(t, q)
      PROVE  built' = built + 1 /\ \A d \in 1..built : Added(d)' => Added(d)
  <2>1. New(q) /\ m_queries' = m_queries
        /\ m_addedQueryData' = [m_addedQueryData EXCEPT ![t] = put(@, built + 1)]
    BY <1>3 DEF AddQuery, put
  <2>2. ASSUME NEW u \in Tx
        PROVE  Range(m_addedQueryData'[u]) \subseteq Range(m_addedQueryData[u]) \cup {built + 1}
    <3>1. m_addedQueryData[u] \in Seq(Data)
      BY <1>0 DEF TypeOK
    <3>2. Range(put(m_addedQueryData[u], built + 1)) = Range(m_addedQueryData[u]) \cup {built + 1}
      BY <1>2, <2>1, <3>1, PutOnce
    <3>3. m_addedQueryData'[u] \in {m_addedQueryData[u], put(m_addedQueryData[u], built + 1)}
      BY <1>0, <2>1 DEF TypeOK
    <3> QED BY <3>2, <3>3
  <2> QED BY <1>0, <1>2, <2>1, <2>2 DEF Added, Members
<1>4. ASSUME NEW t \in Tx, ClearQueries(t)
      PROVE  built' = built /\ \A d \in 1..built : Added(d)' => Added(d)
  <2>1. UNCHANGED <<m_queries, built>> /\ m_addedQueryData' = [m_addedQueryData EXCEPT ![t] = <<>>]
    BY <1>4 DEF ClearQueries, dataVars
  <2>2. \A u \in Tx : Range(m_addedQueryData'[u]) \subseteq Range(m_addedQueryData[u])
    BY <1>0, <2>1 DEF TypeOK, Range
  <2> QED BY <2>1, <2>2 DEF Added, Members
<1>5. ASSUME NEW q \in Query, StartQuery(q)
      PROVE  /\ built' = built + 1 /\ (\A d : d = built + 1 => ~Added(d)')
             /\ \A d \in 1..built : Added(d)' => Added(d)
  <2>1. New(q) /\ UNCHANGED <<m_queries, m_addedQueryData>>
    BY <1>5 DEF StartQuery, Starting, Enqueue
  <2> QED BY <1>0, <1>1, <1>2, <2>1 DEF Added, Members
<1>6. ASSUME NEW t \in Tx, StartTransaction(t)
      PROVE  /\ built' = built + 1 /\ (\A d : d = built + 1 => ~Added(d)')
             /\ \A d \in 1..built : Added(d)' => Added(d)
  <2>1. /\ New(t) /\ m_addedQueryData' = m_addedQueryData
        /\ m_queries' = [m_queries EXCEPT ![built + 1] = m_addedQueryData[t]]
    BY <1>6 DEF StartTransaction, Enqueue
  <2>2. \A e \in Data : Range(m_queries'[e]) \in {Members(e), Range(m_addedQueryData[t])}
    BY <1>0, <2>1 DEF TypeOK, Members
  <2> QED BY <1>0, <1>1, <1>2, <2>1, <2>2 DEF Added, Members
<1>7. ASSUME Handle \/ UNCHANGED vars
      PROVE  built' = built /\ \A d \in 1..built : Added(d)' => Added(d)
  <2>1. UNCHANGED <<dataVars, m_addedQueryData>>
    BY <1>7, HandleFrame DEF vars
  <2> QED BY <2>1 DEF Added, Members, dataVars
<1>8. /\ built' \in {built, built + 1}
      /\ \A d \in 1..built : Added(d)' => Added(d)
  BY <1>3, <1>4, <1>5, <1>6, <1>7, NextSplit DEF Build
<1>9. \A d \in 1..built : d \in 1..built'
  BY <1>0, <1>8
<1> QED
  BY <1>0, <1>5, <1>6, <1>8, <1>9

(* What was built by addQuery and when wait() has failed it stays known.   *)
LEMMA JobsBuilt ==
    ASSUME Inv, [Next]_vars
    PROVE  /\ \A d \in Jobs : d \in Data /\ d \in 1..built' /\ (Added(d)' => failed'[d] # None)
           /\ \A d \in Range(queryQueue) \cup ({cur} \ {Null}) \cup Range(aborted) \cup Called :
                 ~Added(d)'
           /\ \A d \in Data : failed'[d] = None => failed[d] = None
<1>1. \A d \in 1..built : d \in Data
  BY KnownData DEF Inv
<1>2. \A d \in Jobs : d \in 1..built /\ (Added(d) => failed[d] # None)
  BY DEF Inv, JobInv
<1>3. \A d \in Range(queryQueue) \cup ({cur} \ {Null}) \cup Range(aborted) \cup Called :
          d \in Jobs /\ ~Added(d)
  BY DEF Inv, JobInv, Jobs
<1> QED
  BY <1>1, <1>2, <1>3, AddedKept, FailedKept

\* A step that moves no data from one place to another.
LEMMA JobsFrame ==
    ASSUME Inv, [Next]_vars, Called' = Called, (lua.at = "script" => lua.d = Null)',
           UNCHANGED <<queryQueue, cur, finishedQueries, aborted>>
    PROVE  JobInv' /\ Jobs' = Jobs
<1>1. Jobs' = Jobs
  BY DEF Jobs
<1> QED
  BY <1>1, JobsBuilt DEF Inv, JobInv

\* What the places are in terms of each other.
LEMMA JobsTypes ==
    ASSUME Inv
    PROVE  /\ Null \notin Data /\ cur \in Data \cup {Null} /\ Null \notin Jobs
           /\ queryQueue \in Seq(Data) /\ finishedQueries \in Seq(Data) /\ aborted \in Seq(Data)
           /\ Range(queryQueue) \subseteq Data /\ Range(finishedQueries) \subseteq Data
           /\ Range(aborted) \subseteq Data
<1>1. /\ queryQueue \in Seq(Data) /\ finishedQueries \in Seq(Data) /\ aborted \in Seq(Data)
      /\ cur \in Data \cup {Null}
  BY DEF Inv, TypeOK
<1>2. \A s \in Seq(Data) : Range(s) \subseteq Data
  BY DEF Range
<1>3. Null \notin Data
  BY DEF Null, Data
<1>4. Null \notin Jobs
  <2>1. \A d \in Jobs : d \in 1..built
    BY DEF Inv, JobInv
  <2>2. Null \notin 1..built
    BY DEF Null, Inv, TypeOK
  <2> QED BY <2>1, <2>2
<1> QED
  BY <1>1, <1>2, <1>3, <1>4

(* The database thread reports what it has executed, and nothing twice.    *)
LEMMA JobsReport ==
    ASSUME Inv, [Next]_vars, NEW status, cur # Null, Report(status),
           UNCHANGED <<queryQueue, lua, aborted>>
    PROVE  JobInv' /\ Jobs' = Jobs
<1>1. /\ finishedQueries' = put(finishedQueries, cur) /\ cur' = Null
      /\ UNCHANGED <<queryQueue, aborted>> /\ Called' = Called
  BY DEF Report, Called
<1>2. cur \in Data /\ cur \in Jobs
  BY JobsTypes DEF Jobs
<1>3. /\ Range(finishedQueries') = Range(finishedQueries) \cup {cur}
      /\ \A x \in Data : failed'[x] = None => ~Precedes(finishedQueries', x, x)
  <2>1. /\ Range(finishedQueries') = Range(finishedQueries) \cup {cur}
        /\ \A x : Precedes(finishedQueries', x, x) =>
                      Precedes(finishedQueries, x, x) \/ (x = cur /\ cur \in Range(finishedQueries))
    BY <1>1, <1>2, JobsTypes, PutOnce
  <2> QED BY <1>2, <2>1, JobsBuilt DEF Inv, JobInv
<1>4. Jobs' = Jobs
  BY <1>1, <1>2, <1>3 DEF Jobs
<1>6. Null \notin Jobs /\ Null \notin Data
  BY JobsTypes
<1>7. \A d \in Data : failed'[d] = None =>
          \/ d \notin Range(finishedQueries')
          \/ d \notin Range(queryQueue) \cup {Null} \cup Range(aborted) \cup Called
  BY <1>2, <1>3, <1>6, JobsBuilt DEF Inv, JobInv
<1>8. Null \notin Range(aborted)
  BY JobsTypes
<1>9. \A d \in Range(queryQueue) : d # Null
  BY JobsTypes
<1>10. \A d \in Data : failed'[d] = None => d \notin Called \/ d \notin Range(queryQueue) \cup {Null}
  BY <1>6, JobsBuilt DEF Inv, JobInv
<1> QED
  BY <1>1, <1>3, <1>4, <1>7, <1>8, <1>9, <1>10, JobsBuilt DEF Inv, JobInv

(* Think takes a data out of the finished ones before its callback; one    *)
(* that wait() has failed may still be somewhere else.                     *)
LEMMA JobsThink ==
    ASSUME Inv, [Next]_vars, NEW d, ThinkNext(d),
           \/ /\ lua'.at \in {"onData", "onSuccess", "onError", "onAborted"} /\ lua'.d = d
              /\ ~Added(d)
           \/ lua' = lua
    PROVE  /\ JobInv' /\ d \in Jobs
           /\ Jobs' \subseteq Jobs /\ Jobs \ {d} \subseteq Jobs'
           /\ lua' # lua => d \in Jobs'
           /\ lua' = lua /\ d \in Jobs' => failed[d] # None
<1>1. /\ lua.at = "script" /\ d = Head(finishedQueries) /\ NonEmpty(finishedQueries)
      /\ finishedQueries' = Tail(finishedQueries) /\ UNCHANGED <<queryQueue, cur, aborted, failed>>
      /\ Called = {} /\ aborted = <<>>
  BY DEF ThinkNext, threadVars, Called, connection
<1>2. /\ Range(finishedQueries) = {d} \cup Range(finishedQueries') /\ d \in Data
      /\ \A x : Precedes(finishedQueries', x, x) => Precedes(finishedQueries, x, x)
      /\ failed[d] = None => d \notin Range(finishedQueries')
  <2>1. d \in Data
    BY <1>1, JobsTypes, TakeOnce
  <2>2. failed[d] = None => ~Precedes(finishedQueries, d, d)
    BY <2>1 DEF Inv, JobInv
  <2> QED BY <1>1, <2>1, <2>2, JobsTypes, TakeOnce
<1>3. Called' = IF lua' = lua THEN {} ELSE {d}
  BY <1>1 DEF Called
<1>4. /\ d \in Jobs /\ Jobs' \subseteq Jobs /\ Jobs \ {d} \subseteq Jobs'
      /\ lua' # lua => d \in Jobs'
      /\ lua' = lua /\ d \in Jobs' => failed[d] # None
  <2>1. failed[d] = None => d \notin Range(queryQueue) \cup {cur} \cup Range(aborted)
    BY <1>1, <1>2 DEF Inv, JobInv
  <2>2. /\ Jobs = Range(queryQueue) \cup ({cur} \ {Null}) \cup ({d} \cup Range(finishedQueries'))
                    \cup Range(aborted)
        /\ Jobs' = Range(queryQueue) \cup ({cur} \ {Null}) \cup Range(finishedQueries')
                     \cup Range(aborted) \cup Called'
    BY <1>1, <1>2 DEF Jobs
  <2> QED BY <1>2, <1>3, <2>1, <2>2
<1>5. /\ \A x \in Called' : x = d /\ ~Added(d)
      /\ d \in 1..built /\ Range(aborted) = {}
  BY <1>1, <1>3, <1>4 DEF Inv, JobInv, Range
<1>6. (lua.at = "script" => lua.d = Null)'
  BY DEF Inv, JobInv
<1>7. \A x \in Called' : ~Added(x)'
  BY <1>5, AddedKept
<1>8. failed[d] = None => d \notin Range(queryQueue) \cup {cur}
  BY <1>1, <1>2 DEF Inv, JobInv
<1>9. \A x \in Data : failed[x] = None =>
          \/ x \notin Range(finishedQueries')
          \/ x \notin Range(queryQueue) \cup {cur} \cup Range(aborted) \cup Called'
  <2>1. \A x \in Data : failed[x] = None /\ x \in Range(finishedQueries') =>
            x # d /\ x \notin Range(queryQueue) \cup {cur} \cup Range(aborted)
    BY <1>2 DEF Inv, JobInv
  <2> QED BY <1>5, <2>1
<1> QED
  BY <1>1, <1>2, <1>4, <1>5, <1>6, <1>7, <1>8, <1>9, JobsBuilt DEF Inv, JobInv

(* A started data goes to the end of the queue.                            *)
LEMMA JobsStart ==
    ASSUME Inv, [Next]_vars, (\A d : d = built + 1 => ~Added(d)'),
           built' = built + 1, built + 1 \in Data,
           queryQueue' = put(queryQueue, built + 1),
           UNCHANGED <<cur, finishedQueries, aborted, lua>>
    PROVE  JobInv' /\ Jobs' = Jobs \cup {built + 1}
<1>1. \A d \in Jobs : d \in 1..built
  BY DEF Inv, JobInv
<1>2. built + 1 \notin Jobs /\ built \in Nat
  BY <1>1, AddedKept
<1>3. /\ Range(queryQueue') = Range(queryQueue) \cup {built + 1}
      /\ \A x : Precedes(queryQueue', x, x) => Precedes(queryQueue, x, x)
  BY <1>2, JobsTypes, PutOnce DEF Jobs
<1>4. Called' = Called /\ Jobs' = Jobs \cup {built + 1}
  BY <1>3 DEF Called, Jobs
<1>5. /\ \A d \in Jobs' : d \in 1..built' /\ (Added(d)' => failed'[d] # None)
      /\ \A d \in (Range(queryQueue) \cup ({cur} \ {Null}) \cup Range(aborted) \cup Called)' :
            ~Added(d)'
  <2>1. built + 1 \in 1..built'
    BY <1>2
  <2> QED BY <1>3, <1>4, <2>1, JobsBuilt
<1>6. built + 1 # cur /\ built + 1 \notin Range(finishedQueries) \cup Range(aborted) \cup Called
  BY <1>2, JobsTypes DEF Jobs
<1> QED
  BY <1>3, <1>4, <1>5, <1>6, JobsBuilt DEF Inv, JobInv

(* A data of the queue is not shared, and its owner has it once.           *)
LEMMA QueuedOnce ==
    ASSUME Inv, NEW o \in Query \cup Tx, NEW d \in Range(queryQueue),
           d \in Range(runningQueryData[o])
    PROVE  ~Precedes(runningQueryData[o], d, d)
<1>1. d \in 1..built /\ ~Added(d)
  BY JobsTypes DEF Inv, JobInv, Jobs
<1>2. ~Shared(d)
  BY <1>1 DEF Shared, Started, Added
<1> QED
  BY <1>1, <1>2 DEF Inv, RunInv

(* abort() moves the data it finds in the queue.                           *)
LEMMA JobsAbort ==
    ASSUME Inv, [Next]_vars, NEW o \in Query \cup Tx, Abort(o)
    PROVE  JobInv' /\ Jobs' = Jobs
<1> DEFINE removed == removeIf(runningQueryData[o], Data \ Range(queryQueue))
<1>1. /\ lua.at = "script" /\ aborted = <<>> /\ aborted' = removed
      /\ queryQueue' = removeIf(queryQueue, Range(removed))
      /\ UNCHANGED <<cur, finishedQueries, lua>>
  BY DEF Abort, Aborting, LuaRuns, threadVars
<1>2. runningQueryData[o] \in Seq(Data) /\ Range(runningQueryData[o]) \subseteq Data
  BY DEF Inv, TypeOK, Range
<1>3. /\ Range(removed) = Range(runningQueryData[o]) \cap Range(queryQueue)
      /\ \A x : Precedes(removed, x, x) => Precedes(runningQueryData[o], x, x)
  BY <1>2, RemoveOnce
<1>4. \A x \in Range(removed) : ~Precedes(removed, x, x)
  BY <1>3, QueuedOnce
<1>5. \A x : Precedes(removed, x, x) => x \in Range(removed)
  BY DEF Precedes, Range
<1>6. /\ Range(queryQueue') = Range(queryQueue) \ Range(removed)
      /\ \A x : Precedes(queryQueue', x, x) => Precedes(queryQueue, x, x)
  BY <1>1, JobsTypes, RemoveOnce
<1>7. Range(aborted) = {} /\ Called' = Called /\ Called = {} /\ Range(aborted') = Range(removed)
  BY <1>1 DEF Range, Called
<1> HIDE DEF removed
<1>8. Jobs' = Jobs
  BY <1>1, <1>3, <1>6, <1>7 DEF Jobs
<1>9. \A d \in Data : failed'[d] = None /\ d \in Range(removed) => d \notin Range(finishedQueries)
  BY <1>3, JobsBuilt DEF Inv, JobInv
<1> QED
  BY <1>1, <1>3, <1>4, <1>5, <1>6, <1>7, <1>8, <1>9, JobsBuilt DEF Inv, JobInv

(* What is failed is in finishedQueries, and stays where it is.            *)
LEMMA JobsFail ==
    ASSUME Inv, [Next]_vars, Failing, NEW d \in 1..built, Fails(d)
    PROVE  JobInv' /\ Jobs' = Jobs \cup {d}
<1>1. /\ UNCHANGED <<queryQueue, cur, aborted>> /\ Called' = Called
      /\ (lua.at = "script" => lua.d = Null)'
  BY FailLemma DEF threadVars
<1>2. /\ d \in Data /\ failed'[d] # None
      /\ Range(finishedQueries') = Range(finishedQueries) \cup {d}
      /\ \A x : Precedes(finishedQueries', x, x) => Precedes(finishedQueries, x, x) \/ x = d
  BY FailsLemma
<1>3. Jobs' = Jobs \cup {d} /\ d \in 1..built'
  BY <1>1, <1>2, AddedKept DEF Jobs
<1> QED
  BY <1>1, <1>2, <1>3, JobsBuilt DEF Inv, JobInv

\* The steps that concern no started data.
Other ==
    \/ \E t \in Tx : ClearQueries(t)
    \/ \E t \in Tx, q \in Query : AddQuery(t, q)
    \/ \E q \in Query : GetData(q) \/ GetNextResults(q)
    \/ Connect \/ WaitReturns \/ Begin \/ ExecuteMember \/ UNCHANGED vars

(* They leave the started data where they are.                             *)
LEMMA JobsOther ==
    ASSUME Inv, [Next]_vars, Other
    PROVE  JobInv' /\ Jobs' = Jobs /\ runningQueryData' = runningQueryData
<1>0. lua \in [at : {"script", "waiting", "onData", "onSuccess", "onError", "onAborted"},
               d : Data \cup {Null}, argument : Seq(Table)]
      /\ (lua.at = "script" => lua.d = Null)
  BY DEF Inv, TypeOK, JobInv
<1>1. UNCHANGED <<queryQueue, cur, finishedQueries, aborted, runningQueryData>>
  BY DEF Other, ClearQueries, AddQuery, Connect, GetData, GetNextResults, NextResults,
     WaitReturns, Begin, ExecuteMember, vars, threadVars
<1>2. lua' = lua \/ (lua.at \in {"script", "waiting"} /\ lua'.at \in {"script", "waiting"})
  BY <1>0 DEF Other, ClearQueries, AddQuery, Connect, GetData, GetNextResults, NextResults,
     WaitReturns, Begin, ExecuteMember, vars
<1>3. (lua.at = "script" => lua.d = Null)'
  BY <1>0 DEF Other, ClearQueries, AddQuery, Connect, GetData, GetNextResults, NextResults,
     WaitReturns, Begin, ExecuteMember, vars
<1>4. Called' = Called
  BY <1>2 DEF Called
<1> QED
  BY <1>1, <1>3, <1>4, JobsFrame

(* The database thread takes the first data of the queue.                  *)
LEMMA JobsTake ==
    ASSUME Inv, [Next]_vars, Take
    PROVE  JobInv' /\ Jobs' = Jobs
<1>1. /\ cur = Null /\ NonEmpty(queryQueue) /\ cur' = Head(queryQueue)
      /\ queryQueue' = Tail(queryQueue)
      /\ UNCHANGED <<finishedQueries, aborted, lua>> /\ Called' = Called
  BY DEF Take, Called
<1>2. /\ Range(queryQueue) = {cur'} \cup Range(queryQueue') /\ cur' \in Data
      /\ \A x : Precedes(queryQueue', x, x) => Precedes(queryQueue, x, x)
      /\ cur' \notin Range(queryQueue')
  <2>1. cur' \in Data
    BY <1>1, JobsTypes, TakeOnce
  <2>2. ~Precedes(queryQueue, cur', cur')
    BY <2>1 DEF Inv, JobInv
  <2> QED BY <1>1, <2>1, <2>2, JobsTypes, TakeOnce
<1>3. Jobs' = Jobs
  BY <1>1, <1>2, JobsTypes DEF Jobs
<1> QED
  BY <1>1, <1>2, <1>3, JobsBuilt DEF Inv, JobInv

(* The callback of the first aborted data runs.                            *)
LEMMA JobsAborted ==
    ASSUME Inv, [Next]_vars, RunAborted
    PROVE  JobInv' /\ Jobs' = Jobs
<1> DEFINE e == Head(aborted)
<1>1. /\ lua.at = "script" /\ NonEmpty(aborted) /\ aborted' = Tail(aborted)
      /\ UNCHANGED <<queryQueue, cur, finishedQueries>> /\ Called = {} /\ Called' = {e}
      /\ lua'.at # "script"
  BY JobsTypes DEF RunAborted, Enter, Called, threadVars, NonEmpty
<1>2. e \in Data
  BY <1>1, JobsTypes, TakeOnce
<1>3. ~Precedes(aborted, e, e)
  BY <1>2 DEF Inv, JobInv
<1>4. /\ Range(aborted) = {e} \cup Range(aborted') /\ e \notin Range(aborted')
      /\ \A x : Precedes(aborted', x, x) => Precedes(aborted, x, x)
  BY <1>1, <1>2, <1>3, JobsTypes, TakeOnce
<1> HIDE DEF e
<1>5. Jobs' = Jobs
  BY <1>1, <1>4 DEF Jobs
<1> QED
  BY <1>1, <1>4, <1>5, JobsBuilt DEF Inv, JobInv

(* A callback returns: its data is no more to be reported, unless wait()   *)
(* has failed it.                                                          *)
LEMMA JobsReturn ==
    ASSUME Inv, [Next]_vars, OnDataReturns \/ CallbackReturns
    PROVE  /\ JobInv' /\ lua.d \in Jobs
           /\ Jobs' \subseteq Jobs /\ Jobs \ {lua.d} \subseteq Jobs'
           /\ lua'.at = "onSuccess" => lua.d \in Jobs'
           /\ lua'.at # "onSuccess" /\ lua.d \in Jobs' => failed[lua.d] # None
<1>1. UNCHANGED <<queryQueue, cur, finishedQueries, aborted>> /\ Called = {lua.d}
  BY DEF OnDataReturns, CallbackReturns, threadVars, Called
<1>2. /\ (lua.at = "script" => lua.d = Null)'
      /\ Called' = IF lua'.at = "onSuccess" THEN {lua.d} ELSE {}
  <2>1. \/ lua'.at = "onSuccess" /\ lua'.d = lua.d
        \/ lua'.at = "script" /\ lua'.d = Null
    BY DEF OnDataReturns, CallbackReturns, Enter, Leave
  <2> QED BY <2>1 DEF Called
<1>3. /\ lua.d \in Jobs /\ Jobs' \subseteq Jobs /\ Jobs \ {lua.d} \subseteq Jobs'
      /\ lua'.at = "onSuccess" => lua.d \in Jobs'
      /\ lua'.at # "onSuccess" /\ lua.d \in Jobs' => failed[lua.d] # None
  <2> DEFINE rest == Range(queryQueue) \cup ({cur} \ {Null}) \cup Range(finishedQueries)
                        \cup Range(aborted)
  <2>1. lua.d \in Jobs /\ lua.d \in Data
    BY <1>1, JobsBuilt DEF Jobs
  <2>2. failed[lua.d] = None => lua.d \notin rest
    BY <1>1, <2>1 DEF Inv, JobInv
  <2>3. Jobs = rest \cup {lua.d} /\ Jobs' = rest \cup Called'
    BY <1>1 DEF Jobs
  <2> HIDE DEF rest
  <2> QED BY <1>2, <2>1, <2>2, <2>3
<1>4. Called' \subseteq Called
  BY <1>1, <1>2
<1> QED
  BY <1>1, <1>2, <1>3, <1>4, JobsBuilt DEF Inv, JobInv

(* What has a reference was started.                                       *)
LEMMA ReferencedLemma ==
    ASSUME Inv, NEW d \in Jobs, Referenced(d)
    PROVE  ~Added(d)
<1>1. TypeOK /\ DataInv /\ FailInv
  BY DEF Inv
<1>2. d \in 1..built /\ d \in Data /\ (Added(d) => failed[d] # None)
  BY <1>1, KnownData DEF Inv, JobInv
<1>3. \A e \in Data : d \notin Members(e)
  BY <1>1, KnownData DEF Referenced
<1> QED
  BY <1>1, <1>2, <1>3 DEF FailInv

(* What becomes of the started data in every step.                         *)
LEMMA JobsKept ==
    ASSUME Inv, [Next]_vars
    PROVE  /\ JobInv'
           /\ \/ Jobs' = Jobs /\ runningQueryData' = runningQueryData
              \/ \E o \in Query \cup Tx :
                    /\ (o \in Query /\ StartQuery(o)) \/ (o \in Tx /\ StartTransaction(o))
                    /\ Jobs' = Jobs \cup {built + 1}
              \/ \E d \in Jobs :
                    /\ Jobs' \subseteq Jobs /\ Jobs \ {d} \subseteq Jobs'
                    /\ d \in Jobs' => failed[d] # None
                    /\ FinishLuaQueryData(d) /\ Handle /\ failed' = failed /\ lua'.at # "waiting"
              \/ \E d \in 1..built :
                    /\ Failing /\ Fails(d) /\ Jobs' = Jobs \cup {d}
                    /\ runningQueryData' = runningQueryData
<1> DEFINE Still == Jobs' = Jobs /\ runningQueryData' = runningQueryData
           Starts == \E o \in Query \cup Tx :
                    /\ (o \in Query /\ StartQuery(o)) \/ (o \in Tx /\ StartTransaction(o))
                    /\ Jobs' = Jobs \cup {built + 1}
           Finishes == \E d \in Jobs :
                    /\ Jobs' \subseteq Jobs /\ Jobs \ {d} \subseteq Jobs'
                    /\ d \in Jobs' => failed[d] # None
                    /\ FinishLuaQueryData(d) /\ Handle /\ failed' = failed /\ lua'.at # "waiting"
           FailsOne == \E d \in 1..built :
                    /\ Failing /\ Fails(d) /\ Jobs' = Jobs \cup {d}
                    /\ runningQueryData' = runningQueryData
<1>0. (lua.at = "script" => lua.d = Null) /\ TypeOK
  BY DEF Inv, TypeOK, JobInv
<1>1. CASE Other
  BY <1>1, JobsOther
<1>2. ASSUME NEW q \in Query, StartQuery(q) PROVE JobInv' /\ Starts
  <2>1. /\ New(q) /\ queryQueue' = put(queryQueue, built + 1)
        /\ UNCHANGED <<cur, finishedQueries, aborted, lua>>
    BY <1>2 DEF StartQuery, Starting, Enqueue, threadVars
  <2>2. JobInv' /\ Jobs' = Jobs \cup {built + 1}
    BY <1>0, <1>2, <2>1, AddedKept, NewLemma, JobsStart
  <2> QED BY <1>2, <2>2
<1>3. ASSUME NEW t \in Tx, StartTransaction(t) PROVE JobInv' /\ Starts
  <2>1. /\ New(t) /\ queryQueue' = put(queryQueue, built + 1)
        /\ UNCHANGED <<cur, finishedQueries, aborted, lua>>
    BY <1>3 DEF StartTransaction, Enqueue, threadVars
  <2>2. JobInv' /\ Jobs' = Jobs \cup {built + 1}
    BY <1>0, <1>3, <2>1, AddedKept, NewLemma, JobsStart
  <2> QED BY <1>3, <2>2
<1>4. ASSUME NEW o \in Query \cup Tx, Abort(o) PROVE JobInv' /\ Still
  BY <1>4, JobsAbort DEF Abort, Aborting
<1>5. CASE Take
  BY <1>5, JobsTake DEF Take
<1>6. CASE Execute \/ Commit \/ Fail
  <2>1. \E status : Report(status)
    BY <1>6 DEF Execute, Commit, Fail
  <2>2. cur # Null /\ UNCHANGED <<queryQueue, lua, aborted, runningQueryData>>
    BY <1>6 DEF Execute, Commit, Fail
  <2> QED BY <2>1, <2>2, JobsReport
<1>7. ASSUME NEW d \in Data, \/ RunSuccess(d) \/ RunTransactionSuccess(d) \/ RunError(d)
                             \/ RunUnreferenced(d)
      PROVE  JobInv' /\ (Still \/ Finishes)
  <2>1. ThinkNext(d) /\ lua.at = "script" /\ Handle /\ thread' = thread
    BY <1>7 DEF RunSuccess, RunTransactionSuccess, RunError, RunUnreferenced, ThinkNext, Handle,
       Callbacks, connection
  <2>2. \/ /\ lua'.at \in {"onData", "onSuccess", "onError", "onAborted"} /\ lua'.d = d
           /\ runningQueryData' = runningQueryData /\ Referenced(d)
        \/ lua' = lua /\ FinishLuaQueryData(d)
    BY <1>7 DEF RunSuccess, RunTransactionSuccess, RunError, RunUnreferenced, Enter
  <2>3. d \in Jobs
    BY <1>0, <2>1, TakeOnce DEF ThinkNext, TypeOK, Jobs
  <2>4. Referenced(d) => ~Added(d)
    BY <2>3, ReferencedLemma
  <2>5. /\ JobInv' /\ Jobs' \subseteq Jobs /\ Jobs \ {d} \subseteq Jobs'
        /\ lua' # lua => d \in Jobs'
        /\ lua' = lua /\ d \in Jobs' => failed[d] # None
    BY <2>1, <2>2, <2>4, JobsThink
  <2>6. failed' = failed
    BY <1>7 DEF RunSuccess, RunTransactionSuccess, RunError, RunUnreferenced, ThinkNext, connection
  <2> HIDE DEF Still, Finishes
  <2>7. CASE lua' = lua
    <3>1. lua'.at # "waiting" /\ FinishLuaQueryData(d)
      BY <2>1, <2>2, <2>7
    <3> QED BY <2>1, <2>3, <2>5, <2>6, <2>7, <3>1 DEF Finishes
  <2>8. CASE lua' # lua
    <3>1. runningQueryData' = runningQueryData /\ Jobs' = Jobs
      BY <2>2, <2>5, <2>8
    <3> QED BY <2>5, <3>1 DEF Still
  <2> QED BY <2>5, <2>7, <2>8
<1>8. CASE OnDataReturns \/ CallbackReturns
  <2>1. /\ JobInv' /\ lua.d \in Jobs
        /\ Jobs' \subseteq Jobs /\ Jobs \ {lua.d} \subseteq Jobs'
        /\ lua'.at = "onSuccess" => lua.d \in Jobs'
        /\ lua'.at # "onSuccess" /\ lua.d \in Jobs' => failed[lua.d] # None
    BY <1>8, JobsReturn
  <2>2. Handle
    BY <1>8 DEF Handle, Callbacks
  <2>3. \/ lua'.at = "onSuccess" /\ runningQueryData' = runningQueryData
        \/ lua'.at = "script" /\ FinishLuaQueryData(lua.d)
    BY <1>8 DEF OnDataReturns, CallbackReturns, Enter, Leave
  <2>6. failed' = failed
    BY <1>8 DEF OnDataReturns, CallbackReturns, connection
  <2> HIDE DEF Still, Finishes
  <2>4. CASE lua'.at = "onSuccess"
    <3>1. runningQueryData' = runningQueryData /\ Jobs' = Jobs
      BY <2>1, <2>3, <2>4
    <3> QED BY <2>1, <3>1 DEF Still
  <2>5. CASE lua'.at # "onSuccess"
    BY <2>1, <2>2, <2>3, <2>5, <2>6 DEF Finishes
  <2> QED BY <2>1, <2>4, <2>5
<1>10. CASE Failing
  <2>1. CASE UNCHANGED <<resultVars, finishedQueries, failed>>
    <3>1. /\ UNCHANGED <<queryQueue, cur, finishedQueries, aborted, runningQueryData>>
          /\ Called' = Called /\ (lua.at = "script" => lua.d = Null)'
      BY <1>10, <2>1, FailLemma DEF threadVars
    <3> QED BY <3>1, JobsFrame
  <2>2. ASSUME NEW d \in 1..built, Fails(d) PROVE JobInv' /\ FailsOne
    BY <1>10, <2>2, JobsFail, FailLemma
  <2> QED BY <1>10, <2>1, <2>2, FailLemma
<1>9. CASE RunAborted
  BY <1>9, JobsAborted DEF RunAborted
<1> QED
  BY <1>1, <1>2, <1>3, <1>4, <1>5, <1>6, <1>7, <1>8, <1>9, <1>10
     DEF Next, Call, Callbacks, DatabaseThread, Other, Failing

-----------------------------------------------------------------------------
(* The running data *)

(* What was built keeps its owner and its queries, and what is shared, or  *)
(* failed by wait(), stays so.                                             *)
LEMMA SharedKept ==
    ASSUME Inv, [Next]_vars
    PROVE  /\ \A d \in 1..built : owner'[d] = owner[d] /\ m_queries'[d] = m_queries[d]
           /\ \A m : Shared(m) => Shared(m)'
           /\ \A m \in Data : Disowned(m) => Disowned(m)'
           /\ \A t \in Tx : StartTransaction(t) =>
                 \A m \in Range(m_addedQueryData[t]), e \in Data :
                     m \in Members(e) => Shared(m)'
<1>0. TypeOK /\ DataInv
  BY DEF Inv
<1>1. /\ \A d \in Data : Members(d) # {} => d \in 1..built /\ owner[d] \in Tx
      /\ \A d \in 1..built : d \in Data /\ d # built + 1
  <2>1. \A d \in 1..built : d # built + 1
    BY <1>0 DEF TypeOK
  <2> QED BY <1>0, <2>1, KnownData
<1>2. \A d \in 1..built : owner'[d] = owner[d] /\ m_queries'[d] = m_queries[d]
  <2>1. ASSUME NEW o \in Query \cup Tx, New(o), NEW s,
               m_queries' = m_queries \/ m_queries' = [m_queries EXCEPT ![built + 1] = s]
        PROVE  \A d \in 1..built : owner'[d] = owner[d] /\ m_queries'[d] = m_queries[d]
    BY <1>0, <1>1, <2>1, NewLemma DEF TypeOK
  <2>2. CASE \E t \in Tx : ClearQueries(t)
    BY <2>2 DEF ClearQueries, dataVars
  <2>3. CASE (\E t \in Tx, q \in Query : AddQuery(t, q)) \/ (\E q \in Query : StartQuery(q))
    BY <2>1, <2>3 DEF AddQuery, StartQuery, Starting
  <2>4. CASE \E t \in Tx : StartTransaction(t)
    BY <2>1, <2>4 DEF StartTransaction
  <2>5. CASE Handle \/ UNCHANGED vars
    BY <2>5, HandleFrame DEF vars, dataVars
  <2> QED BY <2>2, <2>3, <2>4, <2>5, NextSplit DEF Build
<1>3. \A d \in Started : Members(d) # {} => d \in Started' /\ Members(d)' = Members(d)
  BY <1>1, <1>2 DEF Started, Members
<1>4. \A m : Shared(m) => Shared(m)'
  BY <1>3 DEF Shared
<1>5. ASSUME NEW t \in Tx, StartTransaction(t), NEW m \in Range(m_addedQueryData[t]),
             NEW e \in Data, m \in Members(e)
      PROVE  Shared(m)'
  <2>1. New(t) /\ m_queries' = [m_queries EXCEPT ![built + 1] = m_addedQueryData[t]]
    BY <1>5 DEF StartTransaction
  <2>2. /\ built + 1 \in Data /\ built + 1 # e /\ owner'[built + 1] = t
        /\ m_queries'[built + 1] = m_addedQueryData[t]
    BY <1>0, <1>1, <1>5, <2>1, NewLemma DEF TypeOK
  <2>3. e \in Started /\ m \in Range(m_queries'[e])
    BY <1>1, <1>2, <1>5 DEF Started, Members
  <2>4. e \in Started'
    BY <1>3, <1>5, <2>3
  <2>5. m \in Range(m_queries'[built + 1])
    BY <1>5, <2>2
  <2>6. \A d : d \in Data /\ owner'[d] = t => d \in Started'
    BY DEF Started
  <2> QED BY <2>2, <2>3, <2>4, <2>5, <2>6 DEF Shared, Members
<1>6. \A m \in Data : Disowned(m) => Disowned(m)'
  <2>1. \A d \in Data : failed[d] # None => failed'[d] # None
    BY FailedKept
  <2>2. Started \subseteq Data
    BY DEF Started
  <2> QED BY <1>3, <2>1, <2>2 DEF Disowned
<1> QED
  BY <1>2, <1>4, <1>5, <1>6

(* What is to be told of has been built, a query of one started            *)
(* transaction belongs to no other unless it is shared, and is reported by *)
(* itself only when wait() has failed it.                                  *)
LEMMA OngoingLemma ==
    ASSUME Inv
    PROVE  /\ Ongoing \subseteq 1..built /\ Jobs \subseteq 1..built /\ built \in Nat
           /\ \A d \in 1..built : d \in Data /\ owner[d] \in Query \cup Tx
           /\ \A d \in Jobs, e \in Data : d \in Members(e) => failed[d] # None
           /\ \A d, e \in Data : \A m \in Members(d) \cap Members(e) : d = e \/ Shared(m)
<1>1. TypeOK /\ DataInv /\ Jobs \subseteq 1..built /\ built \in Nat
  BY DEF Inv, JobInv, TypeOK
<1>2. \A d \in 1..built : d \in Data /\ owner[d] \in Query \cup Tx
  BY <1>1, KnownData DEF DataInv
<1>3. \A d \in Data : Members(d) \subseteq 1..built
  BY <1>1, KnownData
<1>4. Ongoing \subseteq 1..built
  BY <1>1, <1>2, <1>3 DEF Ongoing
<1>5. \A d \in Jobs, e \in Data : d \in Members(e) => failed[d] # None
  BY DEF Inv, JobInv, Added
<1>6. \A d \in Data : Members(d) # {} => d \in Started
  BY <1>1, KnownData DEF Started
<1>7. \A d, e \in Data : \A m \in Members(d) \cap Members(e) : d = e \/ Shared(m)
  BY <1>6 DEF Shared
<1> QED
  BY <1>1, <1>2, <1>4, <1>5, <1>7

\* Only wait() makes Lua wait.
LEMMA WaitEntered ==
    ASSUME Inv, [Next]_vars, lua'.at = "waiting"
    PROVE  /\ \/ lua.at = "script" /\ \E o \in Query \cup Tx : Wait(o)
              \/ lua.at = "waiting" /\ lua' = lua
           /\ (\A o \in Query \cup Tx : ~Wait(o)) =>
                  lua' = lua /\ runningQueryData' = runningQueryData /\ aborted' = aborted
<1>0. TypeOK
  BY DEF Inv
<1>2. ASSUME \A o \in Query \cup Tx : ~Wait(o)
      PROVE  lua' = lua /\ runningQueryData' = runningQueryData /\ aborted' = aborted
  <2>1. CASE Callbacks
    <3>1. WaitReturns => lua'.at = "script"
      BY <1>0 DEF WaitReturns, TypeOK
    <3>2. \A d \in Data : RunSuccess(d) \/ RunError(d) => lua'.at \in {"onData", "onError"}
      BY DEF RunSuccess, RunError, Enter
    <3>3. \A d \in Data : RunTransactionSuccess(d) => lua'.at \in {"onSuccess", "script"}
      BY DEF RunTransactionSuccess, ThinkNext, Enter
    <3>4. OnDataReturns \/ RunAborted \/ CallbackReturns =>
              lua'.at \in {"onSuccess", "onAborted", "script"}
      BY DEF OnDataReturns, RunAborted, CallbackReturns, Enter, Leave
    <3>5. \A d \in Data : RunUnreferenced(d) => lua'.at = "script"
      BY DEF RunUnreferenced, ThinkNext
    <3> QED BY <2>1, <3>1, <3>2, <3>3, <3>4, <3>5 DEF Callbacks
  <2>2. CASE DatabaseThread
    BY <2>2, <1>0, ThreadFrame
  <2>3. CASE Build \/ Connect
    <3>1. lua' = lua
      BY <1>0, <2>3, BuildFrame DEF Connect
    <3>2. LuaRuns
      BY <2>3 DEF Build, ClearQueries, AddQuery, StartQuery, Starting, StartTransaction, Connect
    <3> QED BY <3>1, <3>2 DEF LuaRuns
  <2>4. CASE \/ \E q \in Query : GetData(q) \/ GetNextResults(q)
             \/ UNCHANGED vars
    BY <2>4 DEF GetData, GetNextResults, NextResults, vars
  <2>5. CASE \E o \in Query \cup Tx : Abort(o)
    BY <2>5 DEF Abort, Aborting
  <2>6. CASE EndThread
    BY <2>6 DEF EndThread
  <2> QED BY <1>2, <2>1, <2>2, <2>3, <2>4, <2>5, <2>6, NextSplit DEF Handle, Failing
<1>3. \A o \in Query \cup Tx : Wait(o) => lua.at = "script"
  BY DEF Wait
<1> QED
  BY <1>2, <1>3

\* wait() waits for a data that is running, and for nothing else to happen to
\* the running ones.
LEMMA WaitingKept ==
    ASSUME Inv, [Next]_vars, lua'.at = "waiting"
    PROVE  /\ runningQueryData' = runningQueryData
           /\ lua'.d \in 1..built' /\ aborted' = <<>>
           /\ lua'.d \in Range(runningQueryData[owner'[lua'.d]])
<1>0. TypeOK /\ RunInv
  BY DEF Inv
<1>1. ASSUME NEW o \in Query \cup Tx, Wait(o)
      PROVE  /\ runningQueryData' = runningQueryData
             /\ lua'.d \in 1..built /\ aborted' = <<>>
             /\ lua'.d \in Range(runningQueryData[owner[lua'.d]])
  <2>1. /\ runningQueryData' = runningQueryData /\ lua.at = "script"
        /\ aborted = <<>> /\ aborted' = aborted
        /\ lua' = lua \/ lua' = [lua EXCEPT !.at = "waiting", !.d = Last(runningQueryData[o])]
        /\ runningQueryData[o] \in Seq(Data) /\ runningQueryData[o] # <<>>
    BY <1>0, <1>1 DEF Wait, LuaRuns, TypeOK
  <2>2. lua'.d = Last(runningQueryData[o])
    BY <1>0, <2>1 DEF TypeOK
  <2>3. lua'.d \in Range(runningQueryData[o]) /\ lua'.d \in Data
    BY <2>1, <2>2 DEF Last, Range
  <2>4. lua'.d <= built /\ owner[lua'.d] = o
    BY <1>0, <2>3 DEF RunInv
  <2> QED BY <1>0, <2>1, <2>3, <2>4 DEF Data, TypeOK
<1>2. ASSUME \A o \in Query \cup Tx : ~Wait(o)
      PROVE  lua' = lua /\ runningQueryData' = runningQueryData /\ aborted' = aborted
  BY <1>2, WaitEntered
<1>3. built' \in {built, built + 1} /\ \A d \in 1..built : d \in 1..built' /\ owner'[d] = owner[d]
  BY AddedKept, SharedKept
<1>4. CASE \E o \in Query \cup Tx : Wait(o)
  BY <1>1, <1>3, <1>4
<1>5. CASE \A o \in Query \cup Tx : ~Wait(o)
  <2>1. lua' = lua /\ runningQueryData' = runningQueryData /\ aborted' = aborted
    BY <1>2, <1>5
  <2> QED BY <1>0, <1>3, <2>1 DEF RunInv
<1> QED
  BY <1>4, <1>5
\* A step that starts and finishes nothing: a new data may have been built.
LEMMA RunStill ==
    ASSUME Inv, [Next]_vars, Jobs' = Jobs, runningQueryData' = runningQueryData
    PROVE  RunInv'
<1>0. RunInv /\ built \in Nat /\ Ongoing \subseteq 1..built /\ Jobs \subseteq 1..built
      /\ built' \in {built, built + 1}
      /\ \A d \in 1..built : d \in Data /\ owner[d] \in Query \cup Tx
  BY OngoingLemma, AddedKept DEF Inv
<1>1. /\ \A d \in 1..built : owner'[d] = owner[d] /\ m_queries'[d] = m_queries[d]
      /\ \A m : Shared(m) => Shared(m)'
      /\ \A m \in Data : Disowned(m) => Disowned(m)'
  BY SharedKept
<1>2. Ongoing' = Ongoing
  <2>1. \A d \in Jobs : Members(d)' = Members(d)
    BY <1>0, <1>1 DEF Members
  <2> QED BY <2>1 DEF Ongoing
<1>3. \A o \in Query \cup Tx : \A d \in Range(runningQueryData[o]) :
          d \in 1..built /\ owner[d] = o
  <2>1. \A o \in Query \cup Tx : \A d \in Range(runningQueryData[o]) : d \in Data
    BY DEF Inv, TypeOK, Range
  <2> QED BY <1>0, <2>1 DEF RunInv, Data
<1>4. ASSUME NEW o \in Query \cup Tx, NEW d \in Range(runningQueryData[o])
      PROVE  d <= built' /\ owner'[d] = o
  BY <1>0, <1>1, <1>3, <1>4
<1>5. ASSUME NEW d \in 1..built'
      PROVE  \/ Shared(d)'
             \/ /\ d \in Range(runningQueryData[owner'[d]]) => d \in Ongoing
                /\ d \in Ongoing => d \in Range(runningQueryData[owner'[d]]) \/ Disowned(d)'
                /\ ~Precedes(runningQueryData[owner'[d]], d, d)
  <2>1. CASE d \in 1..built
    BY <1>0, <1>1, <2>1 DEF RunInv
  <2>2. CASE d = built + 1
    <3>1. d \notin Ongoing /\ owner'[d] \in Query \cup Tx
      BY <1>0, <1>5, <2>2, DataInvKept DEF DataInv
    <3>2. d \notin Range(runningQueryData[owner'[d]])
      BY <1>0, <1>3, <2>2, <3>1
    <3> QED BY <3>1, <3>2 DEF Precedes, Range
  <2> QED BY <1>0, <1>5, <2>1, <2>2
<1>6. lua'.at = "waiting" =>
          /\ lua'.d \in 1..built' /\ aborted' = <<>>
          /\ lua'.d \in Range(runningQueryData'[owner'[lua'.d]])
  BY WaitingKept
<1> QED
  BY <1>2, <1>4, <1>5, <1>6 DEF RunInv

\* What wait() fails goes on running; its queries do, too, unless they were
\* failed before.
LEMMA RunFail ==
    ASSUME Inv, [Next]_vars, Failing, NEW e \in 1..built, Fails(e), Jobs' = Jobs \cup {e},
           runningQueryData' = runningQueryData
    PROVE  RunInv'
<1>0. RunInv /\ DataInv /\ TypeOK /\ \A d \in 1..built : d \in Data
  BY OngoingLemma DEF Inv
<1>1. /\ UNCHANGED dataVars
      /\ \A m : Shared(m) => Shared(m)'
      /\ \A m \in Data : Disowned(m) => Disowned(m)'
      /\ e \in Data /\ failed'[e] # None
  BY SharedKept, FailLemma, FailsLemma
<1>2. Ongoing' = Ongoing \cup {e} \cup Members(e)
  BY <1>1 DEF Ongoing, Members, dataVars
<1>3. \A d \in {e} \cup Members(e) : Disowned(d)'
  <2>1. Members(e) # {} => e \in Started'
    BY <1>0, <1>1, KnownData DEF Started, dataVars
  <2>2. Members(e)' = Members(e)
    BY <1>1 DEF Members, dataVars
  <2> QED BY <1>1, <2>1, <2>2 DEF Disowned
<1>4. ASSUME NEW d \in 1..built, ~Shared(d)'
      PROVE  /\ d \in Range(runningQueryData[owner[d]]) => d \in Ongoing'
             /\ d \in Ongoing' => d \in Range(runningQueryData[owner[d]]) \/ Disowned(d)'
             /\ ~Precedes(runningQueryData[owner[d]], d, d)
  BY <1>0, <1>1, <1>2, <1>3, <1>4 DEF RunInv
<1>5. lua'.at = "waiting" =>
          /\ lua'.d \in 1..built' /\ aborted' = <<>>
          /\ lua'.d \in Range(runningQueryData'[owner'[lua'.d]])
  BY WaitingKept
<1> QED
  BY <1>0, <1>1, <1>4, <1>5 DEF RunInv, dataVars

\* The end of a data takes it and its queries out of the running data, and
\* they are not outstanding any more, unless wait() has failed it or them.
LEMMA RunFinish ==
    ASSUME Inv, [Next]_vars, NEW e \in Jobs, Jobs' \subseteq Jobs, Jobs \ {e} \subseteq Jobs',
           e \in Jobs' => failed[e] # None, FinishLuaQueryData(e), Handle, lua'.at # "waiting"
    PROVE  RunInv'
<1>0. RunInv /\ DataInv /\ TypeOK /\ built \in Nat
      /\ Ongoing \subseteq 1..built /\ Jobs \subseteq 1..built
      /\ \A d \in 1..built : d \in Data /\ owner[d] \in Query \cup Tx
  BY OngoingLemma DEF Inv
<1>1. UNCHANGED dataVars
  BY HandleFrame
<1> DEFINE list == <<e>> \o m_queries[e]
           left == FinishAll(list)
<1>2. list \in Seq(Data) /\ Range(list) = {e} \cup Members(e)
  <2>1. <<e>> \in Seq(Data) /\ Range(<<e>>) = {e} /\ m_queries[e] \in Seq(Data)
    BY <1>0 DEF Range, TypeOK
  <2> QED BY <2>1, ConcatLemma DEF Members
<1>3. \A d \in Range(list) : d \in 1..built
  BY <1>0, <1>2, KnownData
<1>4. /\ \A o \in Query \cup Tx :
            /\ Range(left[o]) \subseteq Range(runningQueryData[o])
            /\ Range(runningQueryData[o]) \subseteq Range(left[o]) \cup Range(list)
            /\ \A x : Precedes(left[o], x, x) => Precedes(runningQueryData[o], x, x)
      /\ \A d \in Range(list) : ~Precedes(runningQueryData[owner[d]], d, d) =>
                                    d \notin Range(left[owner[d]])
  <2>1. runningQueryData \in RunningType /\ \A d \in Range(list) : owner[d] \in Query \cup Tx
    BY <1>0, <1>3 DEF TypeOK, RunningType
  <2> HIDE DEF list
  <2> QED BY <1>2, <2>1, FinishAllLemma
<1>5. runningQueryData' = left
  BY DEF FinishLuaQueryData
<1> HIDE DEF list, left
<1>6. Ongoing \subseteq Ongoing' \cup Range(list) /\ Ongoing' \subseteq Ongoing
  BY <1>1, <1>2 DEF Ongoing, Members, dataVars
<1>7. ASSUME NEW d \in Range(list), d \in Ongoing' PROVE Shared(d) \/ Disowned(d)
  <2>1. CASE d \in Jobs'
    <3>1. d = e => failed[d] # None
      BY <2>1
    <3>2. d # e => failed[d] # None
      BY <1>0, <1>2, <2>1, OngoingLemma
    <3> QED BY <3>1, <3>2 DEF Disowned
  <2>2. CASE \E j \in Jobs' : d \in Members(j)'
    <3>1. PICK j \in Jobs' : j \in Jobs /\ d \in Members(j)
      BY <1>1, <2>2 DEF Members, dataVars
    <3>2. CASE j = e
      <4>1. e \in Data /\ e \in Started
        BY <1>0, <3>1, <3>2, KnownData DEF Started
      <4> QED BY <3>1, <3>2, <4>1 DEF Disowned
    <3>3. CASE j # e /\ d = e
      BY <1>0, <3>1, <3>3, OngoingLemma DEF Disowned
    <3>4. CASE j # e /\ d # e
      BY <1>0, <1>2, <3>1, <3>4, OngoingLemma
    <3> QED BY <3>2, <3>3, <3>4
  <2> QED BY <1>7, <2>1, <2>2 DEF Ongoing
<1>8. ASSUME NEW d \in 1..built, ~Shared(d)
      PROVE  /\ d \in Range(left[owner[d]]) => d \in Ongoing'
             /\ d \in Ongoing' => d \in Range(left[owner[d]]) \/ Disowned(d)
             /\ ~Precedes(left[owner[d]], d, d)
  <2>1. /\ d \in Range(runningQueryData[owner[d]]) => d \in Ongoing
        /\ d \in Ongoing => d \in Range(runningQueryData[owner[d]]) \/ Disowned(d)
        /\ ~Precedes(runningQueryData[owner[d]], d, d)
        /\ owner[d] \in Query \cup Tx
    BY <1>0, <1>8 DEF RunInv
  <2>2. CASE d \in Range(list)
    BY <1>4, <1>7, <1>8, <2>1, <2>2
  <2>3. CASE d \notin Range(list)
    BY <1>4, <1>6, <2>1, <2>3
  <2> QED BY <2>2, <2>3
<1>9. /\ \A d : Shared(d) => Shared(d)'
      /\ \A d \in 1..built : Disowned(d) => Disowned(d)'
  BY <1>0, SharedKept
<1>10. \A o \in Query \cup Tx : \A d \in Range(left[o]) : d <= built /\ owner[d] = o
  BY <1>0, <1>4 DEF RunInv
<1> QED
  BY <1>1, <1>5, <1>8, <1>9, <1>10 DEF RunInv, dataVars
\* A start of o adds the new data to those of o, and the queries s of the new
\* data to those of their queries.
LEMMA RunStart ==
    ASSUME Inv, [Next]_vars, NEW o \in Query \cup Tx, NEW s,
           built' = built + 1, built + 1 \in Data, owner'[built + 1] = o,
           m_queries'[built + 1] = s, Jobs' = Jobs \cup {built + 1},
           \A m \in Range(s) : /\ m \in 1..built /\ owner[m] # o /\ ~Precedes(s, m, m)
                               /\ \A e \in Data : m \in Members(e) => Shared(m)',
           \A m \in Range(s) : Added(m),
           Range(runningQueryData'[o]) = Range(runningQueryData[o]) \cup {built + 1},
           \A x : Precedes(runningQueryData'[o], x, x) =>
                      \/ Precedes(runningQueryData[o], x, x)
                      \/ (x = built + 1 /\ x \in Range(runningQueryData[o])),
           \A u \in Query \cup Tx : u # o =>
              /\ Range(runningQueryData'[u]) =
                     Range(runningQueryData[u]) \cup {m \in Range(s) : owner[m] = u}
              /\ \A x : Precedes(runningQueryData'[u], x, x) =>
                            \/ Precedes(runningQueryData[u], x, x) \/ Precedes(s, x, x)
                            \/ (x \in Range(runningQueryData[u]) /\ x \in Range(s))
    PROVE  RunInv'
<1>0. /\ RunInv /\ built \in Nat /\ Ongoing \subseteq 1..built /\ Jobs \subseteq 1..built
      /\ \A d \in 1..built : d \in Data /\ owner[d] \in Query \cup Tx
      /\ \A d \in 1..built : d # built + 1 /\ d \in 1..built'
      /\ \A d \in 1..built' : d \in 1..built \/ d = built + 1
  <2>1. RunInv /\ built \in Nat /\ Ongoing \subseteq 1..built /\ Jobs \subseteq 1..built
        /\ \A d \in 1..built : d \in Data /\ owner[d] \in Query \cup Tx
    BY OngoingLemma DEF Inv
  <2> QED BY <2>1
<1>1. /\ \A d \in 1..built : owner'[d] = owner[d] /\ m_queries'[d] = m_queries[d]
      /\ \A m : Shared(m) => Shared(m)'
  BY SharedKept
<1>9. \A m \in 1..built : Disowned(m) => Disowned(m)'
  BY <1>0, SharedKept
<1>2. Ongoing' = Ongoing \cup {built + 1} \cup Range(s)
  <2>1. \A d \in Jobs : Range(m_queries'[d]) = Members(d)
    BY <1>0, <1>1 DEF Members
  <2> QED BY <2>1 DEF Ongoing, Members
<1>3. \A u \in Query \cup Tx : \A d \in Range(runningQueryData[u]) :
          d \in 1..built /\ owner[d] = u
  <2>1. \A u \in Query \cup Tx : \A d \in Range(runningQueryData[u]) : d \in Data
    BY DEF Inv, TypeOK, Range
  <2> QED BY <1>0, <2>1 DEF RunInv, Data
<1>4. ASSUME NEW u \in Query \cup Tx, NEW d \in Range(runningQueryData'[u])
      PROVE  d <= built' /\ owner'[d] = u
  <2>1. CASE u = o
    BY <1>0, <1>1, <1>3, <1>4, <2>1
  <2>2. CASE u # o
    <3>1. d \in 1..built /\ owner[d] = u
      BY <1>3, <1>4, <2>2
    <3> QED BY <1>0, <1>1, <3>1
  <2> QED BY <2>1, <2>2
<1>5. ASSUME NEW d \in 1..built, ~Shared(d)'
      PROVE  /\ d \in Range(runningQueryData'[owner[d]]) => d \in Ongoing'
             /\ d \in Ongoing' => d \in Range(runningQueryData'[owner[d]]) \/ Disowned(d)'
             /\ ~Precedes(runningQueryData'[owner[d]], d, d)
  <2>1. /\ d \in Range(runningQueryData[owner[d]]) => d \in Ongoing
        /\ d \in Ongoing => d \in Range(runningQueryData[owner[d]]) \/ Disowned(d)'
        /\ ~Precedes(runningQueryData[owner[d]], d, d)
        /\ owner[d] \in Query \cup Tx
    BY <1>0, <1>1, <1>5, <1>9 DEF RunInv
  <2>2. d \notin Range(s) \/ d \notin Ongoing
    <3>1. ASSUME d \in Range(s) PROVE d \notin Ongoing
      <4>1. \A e \in Data : d \notin Members(e)
        BY <1>5, <3>1
      <4>2. d \notin Jobs
        BY <1>0, <3>1, <4>1 DEF Inv, JobInv, FailInv
      <4>3. \A e \in Jobs : e \in Data
        BY <1>0
      <4> QED BY <4>1, <4>2, <4>3 DEF Ongoing
    <3> QED BY <3>1
  <2>3. CASE owner[d] = o
    <3>1. d \notin Range(s) /\ d # built + 1
      BY <1>0, <2>3
    <3> QED BY <1>2, <2>1, <2>3, <3>1
  <2>4. CASE owner[d] # o
    <3>1. /\ d \in Range(runningQueryData'[owner[d]]) => d \in Ongoing'
          /\ d \in Ongoing' => d \in Range(runningQueryData'[owner[d]]) \/ Disowned(d)'
      BY <1>0, <1>2, <2>1, <2>4
    <3>2. ~Precedes(s, d, d)
      BY DEF Precedes, Range
    <3> QED BY <2>1, <2>2, <2>4, <3>1, <3>2
  <2> QED BY <2>3, <2>4
<1>6. /\ built + 1 \in Range(runningQueryData'[o]) /\ built + 1 \in Ongoing'
      /\ ~Precedes(runningQueryData'[o], built + 1, built + 1)
  <2>1. built + 1 \notin Range(runningQueryData[o])
    BY <1>0, <1>3
  <2>2. ~Precedes(runningQueryData[o], built + 1, built + 1)
    BY <2>1 DEF Precedes, Range
  <2> QED BY <1>2, <2>1, <2>2
<1>7. ASSUME NEW d \in 1..built'
      PROVE  \/ Shared(d)'
             \/ /\ d \in Range(runningQueryData'[owner'[d]]) => d \in Ongoing'
                /\ d \in Ongoing' => d \in Range(runningQueryData'[owner'[d]]) \/ Disowned(d)'
                /\ ~Precedes(runningQueryData'[owner'[d]], d, d)
  <2>1. CASE d \in 1..built
    BY <1>1, <1>5, <2>1
  <2>2. CASE d = built + 1
    BY <1>6, <2>2
  <2> QED BY <1>0, <2>1, <2>2
<1>8. lua'.at = "waiting" =>
          /\ lua'.d \in 1..built' /\ aborted' = <<>>
          /\ lua'.d \in Range(runningQueryData'[owner'[lua'.d]])
  BY WaitingKept
<1> QED
  BY <1>4, <1>7, <1>8 DEF RunInv

(* Every step keeps isRunning() true to what is outstanding.               *)
LEMMA RunInvKept == Inv /\ [Next]_vars => RunInv'
<1> SUFFICES ASSUME Inv, [Next]_vars PROVE RunInv'
  OBVIOUS
<1>0. TypeOK /\ DataInv
  BY DEF Inv
<1>1. ASSUME NEW q \in Query, StartQuery(q), Jobs' = Jobs \cup {built + 1} PROVE RunInv'
  <2>1. /\ New(q) /\ m_queries' = m_queries
        /\ runningQueryData' = [runningQueryData EXCEPT ![q] = put(@, built + 1)]
    BY <1>1 DEF StartQuery, Starting, Enqueue, put
  <2>2. /\ built + 1 \in Data /\ built' = built + 1 /\ owner'[built + 1] = q /\ built \in Nat
    BY <1>0, <2>1, NewLemma
  <2>3. m_queries'[built + 1] = <<>> /\ Range(<<>>) = {}
    BY <1>0, <2>1, <2>2 DEF DataInv, Range
  <2>4. runningQueryData[q] \in Seq(Data) /\ runningQueryData'[q] = put(runningQueryData[q], built + 1)
        /\ \A u \in Query \cup Tx : u # q => runningQueryData'[u] = runningQueryData[u]
    BY <1>0, <2>1 DEF TypeOK
  <2>5. /\ Range(runningQueryData'[q]) = Range(runningQueryData[q]) \cup {built + 1}
        /\ \A x : Precedes(runningQueryData'[q], x, x) =>
                      \/ Precedes(runningQueryData[q], x, x)
                      \/ (x = built + 1 /\ x \in Range(runningQueryData[q]))
    BY <2>2, <2>4, PutOnce
  <2>6. ASSUME NEW u \in Query \cup Tx, u # q
        PROVE  /\ Range(runningQueryData'[u]) =
                      Range(runningQueryData[u]) \cup {m \in Range(<<>>) : owner[m] = u}
               /\ \A x : Precedes(runningQueryData'[u], x, x) =>
                            \/ Precedes(runningQueryData[u], x, x) \/ Precedes(<<>>, x, x)
                            \/ (x \in Range(runningQueryData[u]) /\ x \in Range(<<>>))
    BY <2>3, <2>4, <2>6
  <2>7. \A m \in Range(<<>>) : FALSE
    BY <2>3
  <2> QED BY <1>1, <2>2, <2>3, <2>5, <2>6, <2>7, RunStart
<1>2. ASSUME NEW t \in Tx, StartTransaction(t), Jobs' = Jobs \cup {built + 1} PROVE RunInv'
  <2> DEFINE s == m_addedQueryData[t]
             added(o) == removeIf(s, {d \in Data : owner[d] # o})
  <2>1. /\ New(t) /\ m_queries' = [m_queries EXCEPT ![built + 1] = s]
        /\ runningQueryData' = [o \in Query \cup Tx |->
                   IF o = t THEN put(runningQueryData[t], built + 1)
                            ELSE runningQueryData[o] \o added(o)]
    BY <1>2 DEF StartTransaction, Enqueue, put
  <2>2. /\ built + 1 \in Data /\ built' = built + 1 /\ owner'[built + 1] = t /\ built \in Nat
    BY <1>0, <2>1, NewLemma
  <2>3. m_queries'[built + 1] = s /\ s \in Seq(Data)
    BY <1>0, <2>1, <2>2 DEF TypeOK
  <2>4. ASSUME NEW m \in Range(s)
        PROVE  /\ m \in 1..built /\ owner[m] # t /\ ~Precedes(s, m, m) /\ Added(m)
               /\ \A e \in Data : m \in Members(e) => Shared(m)'
    <3>1. m \in 1..built /\ owner[m] # t /\ ~Precedes(s, m, m)
      BY <1>0, <2>4, KnownData, ResultsAssumption DEF DataInv
    <3>2. Added(m)
      BY <2>4 DEF Added
    <3> QED BY <1>2, <2>4, <3>1, <3>2, SharedKept
  <2>5. /\ Range(runningQueryData'[t]) = Range(runningQueryData[t]) \cup {built + 1}
        /\ \A x : Precedes(runningQueryData'[t], x, x) =>
                      \/ Precedes(runningQueryData[t], x, x)
                      \/ (x = built + 1 /\ x \in Range(runningQueryData[t]))
    <3>1. runningQueryData[t] \in Seq(Data)
          /\ runningQueryData'[t] = put(runningQueryData[t], built + 1)
      BY <1>0, <2>1 DEF TypeOK
    <3> QED BY <2>2, <3>1, PutOnce
  <2>6. ASSUME NEW u \in Query \cup Tx, u # t
        PROVE  /\ Range(runningQueryData'[u]) =
                      Range(runningQueryData[u]) \cup {m \in Range(s) : owner[m] = u}
               /\ \A x : Precedes(runningQueryData'[u], x, x) =>
                            \/ Precedes(runningQueryData[u], x, x) \/ Precedes(s, x, x)
                            \/ (x \in Range(runningQueryData[u]) /\ x \in Range(s))
    <3>1. /\ runningQueryData[u] \in Seq(Data)
          /\ runningQueryData'[u] = runningQueryData[u] \o added(u)
      BY <1>0, <2>1, <2>6 DEF TypeOK
    <3>2. /\ added(u) \in Seq(Data) /\ Range(added(u)) = Range(s) \ {d \in Data : owner[d] # u}
          /\ \A x : Precedes(added(u), x, x) => Precedes(s, x, x)
      BY <2>3, RemoveOnce
    <3>3. Range(added(u)) = {m \in Range(s) : owner[m] = u}
      <4>1. Range(s) \subseteq Data
        BY <2>3 DEF Range
      <4> HIDE DEF s, added
      <4> QED BY <3>2, <4>1
    <3> HIDE DEF s, added
    <3>4. /\ Range(runningQueryData'[u]) = Range(runningQueryData[u]) \cup Range(added(u))
          /\ \A x : Precedes(runningQueryData'[u], x, x) =>
                            \/ Precedes(runningQueryData[u], x, x) \/ Precedes(added(u), x, x)
                            \/ (x \in Range(runningQueryData[u]) /\ x \in Range(added(u)))
      BY <3>1, <3>2, ConcatLemma
    <3> QED BY <3>2, <3>3, <3>4
  <2> HIDE DEF s, added
  <2> QED BY <1>2, <2>2, <2>3, <2>4, <2>5, <2>6, RunStart
<1> QED
  BY <1>1, <1>2, JobsKept, RunStill, RunFinish, RunFail

-----------------------------------------------------------------------------
(* What is shown to Lua *)

\* How data move: into the queue when they are started, from its front to the
\* database thread, and from there, or where wait() fails them, to the finished
\* ones.
LEMMA PlacesKept ==
    ASSUME Inv, [Next]_vars
    PROVE  /\ cur' \in {cur, Null} \cup Range(queryQueue)
           /\ Range(queryQueue') \subseteq Range(queryQueue) \cup {built + 1}
           /\ \A d \in Range(finishedQueries') :
                 \/ d \in Range(finishedQueries)
                 \/ DatabaseThread /\ d = cur /\ d # Null
                 \/ d \in 1..built /\ Fails(d)
           /\ Handle \/ UNCHANGED vars => Range(queryQueue') \subseteq Range(queryQueue)
           /\ ~DatabaseThread => cur' = cur /\ member' = member
<1> DEFINE NoneQueued == Range(queryQueue') \subseteq Range(queryQueue)
           Finished == \A d \in Range(finishedQueries') :
                 \/ d \in Range(finishedQueries)
                 \/ DatabaseThread /\ d = cur /\ d # Null
                 \/ d \in 1..built /\ Fails(d)
<1>0. TypeOK
  BY DEF Inv
<1>1. ASSUME NEW o \in Query \cup Tx, New(o), queryQueue' = put(queryQueue, built + 1)
      PROVE  Range(queryQueue') = Range(queryQueue) \cup {built + 1}
  BY <1>0, <1>1, NewLemma, JobsTypes, PutOnce
<1>2. CASE Build
  <2>1. UNCHANGED <<cur, member, finishedQueries>>
    BY <1>0, <1>2, BuildFrame DEF threadVars
  <2>2. \/ queryQueue' = queryQueue
        \/ Range(queryQueue') = Range(queryQueue) \cup {built + 1}
    BY <1>1, <1>2 DEF Build, ClearQueries, AddQuery, StartQuery, Starting, StartTransaction,
       Enqueue
  <2>3. ~Handle \/ UNCHANGED vars \/ queryQueue' = queryQueue
    <3>1. Handle => built' = built
      BY HandleFrame DEF dataVars
    <3>2. (\E o \in Query \cup Tx : New(o)) => built' # built
      BY <1>0 DEF New, TypeOK
    <3>3. queryQueue' = queryQueue \/ \E o \in Query \cup Tx : New(o)
      BY <1>2 DEF Build, ClearQueries, AddQuery, StartQuery, Starting, StartTransaction
    <3> QED BY <3>1, <3>2, <3>3
  <2>4. UNCHANGED vars => queryQueue' = queryQueue
    BY DEF vars
  <2> QED BY <2>1, <2>2, <2>3, <2>4
<1>3. CASE UNCHANGED vars
  BY <1>3 DEF vars, threadVars
<1>4. CASE \/ \E q \in Query : GetData(q) \/ GetNextResults(q)
           \/ OnDataReturns \/ RunAborted \/ CallbackReturns \/ WaitReturns \/ Connect
  BY <1>4 DEF GetData, GetNextResults, NextResults, OnDataReturns, RunAborted,
     CallbackReturns, WaitReturns, Connect, threadVars
<1>5. ASSUME NEW o \in Query \cup Tx, Abort(o)
      PROVE  UNCHANGED <<cur, member, finishedQueries>> /\ NoneQueued
  <2>1. PICK E : queryQueue' = removeIf(queryQueue, E)
    BY <1>5 DEF Abort, Aborting
  <2>2. UNCHANGED <<cur, member, finishedQueries>>
    BY <1>5 DEF Abort, Aborting, threadVars
  <2> QED BY <2>1, <2>2, JobsTypes, RemoveOnce
<1>6. ASSUME NEW d \in Data,
             RunSuccess(d) \/ RunTransactionSuccess(d) \/ RunError(d) \/ RunUnreferenced(d)
      PROVE  UNCHANGED <<cur, member, queryQueue>> /\ Finished
  <2>1. ThinkNext(d)
    BY <1>6 DEF RunSuccess, RunTransactionSuccess, RunError, RunUnreferenced
  <2>2. /\ NonEmpty(finishedQueries) /\ finishedQueries' = Tail(finishedQueries)
        /\ UNCHANGED <<cur, member, queryQueue>>
    BY <2>1 DEF ThinkNext, threadVars
  <2> QED BY <2>2, JobsTypes, TakeOnce
<1>7. CASE Take
  <2>1. /\ NonEmpty(queryQueue) /\ cur' = Head(queryQueue) /\ queryQueue' = Tail(queryQueue)
        /\ finishedQueries' = finishedQueries
    BY <1>7 DEF Take
  <2> QED BY <1>7, <2>1, JobsTypes, TakeOnce DEF DatabaseThread
<1>8. CASE Begin \/ ExecuteMember
  BY <1>8 DEF Begin, ExecuteMember, DatabaseThread
<1>9. CASE Execute \/ Commit \/ Fail
  <2>1. /\ cur # Null /\ cur' = Null /\ queryQueue' = queryQueue
        /\ finishedQueries' = put(finishedQueries, cur)
    BY <1>9 DEF Execute, Commit, Fail, Report
  <2>2. Range(finishedQueries') = Range(finishedQueries) \cup {cur}
    BY <2>1, JobsTypes, PutOnce
  <2> QED BY <1>9, <2>1, <2>2 DEF DatabaseThread
<1>11. CASE Failing
  <2>1. UNCHANGED <<cur, member, queryQueue>>
    BY <1>11, FailLemma DEF threadVars
  <2>2. ASSUME NEW e \in 1..built, Fails(e) PROVE Finished
    BY <2>2, FailsLemma
  <2> QED BY <1>11, <2>1, <2>2, FailLemma
<1> HIDE DEF NoneQueued, Finished
<1>10. CASE Handle
  BY <1>4, <1>5, <1>6, <1>7, <1>8, <1>9, <1>10, <1>11
     DEF Handle, Callbacks, DatabaseThread, NoneQueued, Finished
<1> QED
  BY <1>2, <1>3, <1>10, NextSplit DEF Finished, NoneQueued

(* Only its start makes a data run that addQuery did not build, and the    *)
(* end of its callback takes it out of the running ones.                   *)
LEMMA RunningKept ==
    ASSUME Inv, [Next]_vars, NEW e \in 1..built, ~Added(e),
           e \in Range(runningQueryData'[owner[e]])
    PROVE  e \in Range(runningQueryData[owner[e]]) /\ ~FinishLuaQueryData(e)
<1>0. /\ TypeOK /\ DataInv /\ e \in Data /\ owner[e] \in Query \cup Tx /\ e # built + 1
      /\ runningQueryData \in RunningType
  <2>1. e \in Data /\ owner[e] \in Query \cup Tx /\ built \in Nat
    BY OngoingLemma
  <2> QED BY <2>1 DEF Inv, TypeOK, RunningType
<1>1. ASSUME NEW d \in 1..built, FinishLuaQueryData(d)
      PROVE  /\ e \in Range(runningQueryData[owner[e]])
             /\ d = e => Precedes(runningQueryData[owner[e]], e, e)
  <2> DEFINE list == <<d>> \o m_queries[d]
  <2>1. d \in Data /\ \A m \in {d} \cup Members(d) : m \in 1..built /\ owner[m] \in Query \cup Tx
    BY <1>0, KnownData, OngoingLemma
  <2>2. list \in Seq(Data) /\ Range(list) = {d} \cup Members(d)
    <3>1. <<d>> \in Seq(Data) /\ Range(<<d>>) = {d} /\ m_queries[d] \in Seq(Data)
      BY <1>0, <2>1 DEF Range, TypeOK
    <3> QED BY <3>1, ConcatLemma DEF Members
  <2>3. runningQueryData' = FinishAll(list)
    BY <1>1 DEF FinishLuaQueryData
  <2> HIDE DEF list
  <2> QED BY <1>0, <2>1, <2>2, <2>3, FinishAllLemma
<1>2. ~Precedes(runningQueryData[owner[e]], e, e)
  <2>1. ~Shared(e)
    BY DEF Shared, Started, Added
  <2> QED BY <2>1 DEF Inv, RunInv
<1>3. ~FinishLuaQueryData(e)
  BY <1>1, <1>2
<1>4. ASSUME NEW q \in Query, StartQuery(q) PROVE e \in Range(runningQueryData[owner[e]])
  <2>1. /\ New(q) /\ runningQueryData' = [runningQueryData EXCEPT ![q] = put(@, built + 1)]
    BY <1>4 DEF StartQuery, Starting, Enqueue, put
  <2>2. built + 1 \in Data
    BY <1>0, <2>1, NewLemma
  <2>3. Range(put(runningQueryData[q], built + 1)) = Range(runningQueryData[q]) \cup {built + 1}
    BY <1>0, <2>2, PutOnce DEF RunningType
  <2> QED BY <1>0, <2>1, <2>3 DEF RunningType
<1>5. ASSUME NEW t \in Tx, StartTransaction(t) PROVE e \in Range(runningQueryData[owner[e]])
  <2> DEFINE s == m_addedQueryData[t]
             added == removeIf(s, {d \in Data : owner[d] # owner[e]})
  <2>1. /\ New(t) /\ s \in Seq(Data)
        /\ runningQueryData'[owner[e]] =
                   IF owner[e] = t THEN put(runningQueryData[t], built + 1)
                                   ELSE runningQueryData[owner[e]] \o added
    BY <1>0, <1>5 DEF StartTransaction, Enqueue, put, TypeOK
  <2>2. built + 1 \in Data
    BY <1>0, <2>1, NewLemma
  <2>3. Range(put(runningQueryData[t], built + 1)) = Range(runningQueryData[t]) \cup {built + 1}
    BY <1>0, <2>2, PutOnce DEF RunningType
  <2>4. added \in Seq(Data) /\ Range(added) \subseteq Range(s)
    BY <2>1, RemoveOnce
  <2>5. e \notin Range(s)
    BY DEF Added
  <2> HIDE DEF added, s
  <2>6. runningQueryData[owner[e]] \in Seq(Data)
    BY <1>0 DEF RunningType
  <2>7. Range(runningQueryData[owner[e]] \o added) = Range(runningQueryData[owner[e]]) \cup Range(added)
    BY <2>4, <2>6, ConcatLemma
  <2> QED BY <1>0, <2>1, <2>3, <2>4, <2>5, <2>7
<1>6. Jobs \subseteq 1..built
  BY OngoingLemma
<1> QED
  BY <1>1, <1>3, <1>4, <1>5, <1>6, JobsKept

(* A callback ends with its data no longer running.                        *)
LEMMA CalledKept ==
    ASSUME Inv, [Next]_vars, NEW e \in Called
    PROVE  e \in Called' \/ FinishLuaQueryData(e)
<1>1. lua.at \in {"onData", "onSuccess", "onError", "onAborted"} /\ e = lua.d
  BY DEF Called
<1>2. lua' = lua => e \in Called'
  BY DEF Called
<1>3. CASE OnDataReturns \/ CallbackReturns
  BY <1>1, <1>3 DEF OnDataReturns, CallbackReturns, Enter, Called
<1>4. CASE \/ Build \/ DatabaseThread \/ Connect \/ UNCHANGED vars
           \/ \E q \in Query : GetData(q) \/ GetNextResults(q)
           \/ \E o \in Query \cup Tx : Abort(o)
  <2>1. Build \/ DatabaseThread => lua' = lua
    BY BuildFrame, ThreadFrame DEF Inv
  <2> QED BY <1>2, <1>4, <2>1 DEF Connect, vars, GetData, GetNextResults, NextResults, Abort, Aborting
<1>5. CASE Failing
  BY <1>5, FailLemma
<1>6. ~WaitReturns /\ ~RunAborted /\ \A d \in Data : ~ThinkNext(d)
  BY <1>1 DEF WaitReturns, RunAborted, ThinkNext
<1>7. Callbacks => OnDataReturns \/ CallbackReturns
  BY <1>6 DEF Callbacks, RunSuccess, RunTransactionSuccess, RunError, RunUnreferenced
<1> QED
  BY <1>3, <1>4, <1>5, <1>7, NextSplit DEF Handle

(* What wait() fails is in the queue, with the database thread, or waits   *)
(* for its callback, as what it waits for is running.                      *)
LEMMA FailsRunning ==
    ASSUME Inv, NEW e \in 1..built, Fails(e)
    PROVE  \/ e \in Range(queryQueue) \cup Range(finishedQueries)
           \/ \E d \in Data : e \in Members(d)
<1>1. cur = Null /\ aborted = <<>> /\ Called = {} /\ e \in Range(runningQueryData[owner[e]])
  BY DEF Fails
<1>2. Range(aborted) = {}
  BY <1>1 DEF Range
<1>3. Shared(e) => \E d \in Data : e \in Members(d)
  BY DEF Shared, Started
<1>4. e \in Jobs => e \in Range(queryQueue) \cup Range(finishedQueries)
  BY <1>1, <1>2 DEF Jobs
<1>5. e \in Ongoing => e \in Jobs \/ \E d \in Data : e \in Members(d)
  <2>1. Jobs \subseteq Data
    BY OngoingLemma
  <2> QED BY <2>1 DEF Ongoing
<1> QED
  BY <1>1, <1>3, <1>4, <1>5 DEF Inv, RunInv

(* A data whose callbacks have begun stays one.                            *)
LEMMA TurnedKept ==
    ASSUME Inv, [Next]_vars, NEW e \in 1..built, ~Added(e), Turned(e)
    PROVE  Turned(e)'
<1>1. built \in Nat /\ e \in 1..built' /\ e # built + 1 /\ e # Null
  <2>1. built \in Nat /\ e # Null
    BY OngoingLemma DEF Null
  <2> QED BY <2>1, AddedKept
<1>2. owner'[e] = owner[e] /\ e \in Data
  BY SharedKept, OngoingLemma
<1>3. CASE failed[e] = None
  <2>1. e # cur /\ e \notin Range(queryQueue) \cup Range(finishedQueries)
    BY <1>3 DEF Turned, Past
  <2>2. ~Fails(e)
    BY <2>1, FailsRunning DEF Added
  <2>3. Past(e)'
    BY <1>1, <2>1, <2>2, PlacesKept DEF Past
  <2>4. failed'[e] = None
    <3>1. CASE ~Failing
      BY <1>3, <3>1, FailedFrame
    <3>2. CASE Failing
      <4>1. ASSUME NEW d \in 1..built, Fails(d) PROVE failed'[e] = None
        BY <1>2, <1>3, <2>2, <4>1, FailsLemma
      <4> QED BY <1>3, <3>2, <4>1, FailLemma
    <3> QED BY <3>1, <3>2
  <2> QED BY <1>1, <2>3, <2>4 DEF Turned
<1>4. CASE failed[e] # None
  <2>1. failed'[e] # None
    BY <1>2, <1>4, FailedKept
  <2>2. e \in Called \/ e \notin Range(runningQueryData[owner[e]])
    BY <1>4 DEF Turned
  <2>3. e \in Called' \/ e \notin Range(runningQueryData'[owner'[e]])
    BY <1>2, <2>2, CalledKept, RunningKept
  <2> QED BY <1>1, <2>1, <2>3 DEF Turned
<1> QED
  BY <1>3, <1>4

\* A data that think takes has its turn: its callback begins, or it is
\* finished at once.
LEMMA ThinkTurned ==
    ASSUME Inv, [Next]_vars, NEW d \in Data, ThinkNext(d), ~Added(d),
           d \in Called' \/ d \notin Range(runningQueryData'[owner[d]])
    PROVE  Turned(d)'
<1>1. /\ NonEmpty(finishedQueries) /\ d = Head(finishedQueries)
      /\ finishedQueries' = Tail(finishedQueries)
      /\ UNCHANGED <<cur, queryQueue, failed, built, owner>>
  BY DEF ThinkNext, threadVars, connection, dataVars
<1>2. d \in Range(finishedQueries) /\ (~Precedes(finishedQueries, d, d) => d \notin Range(finishedQueries'))
  BY <1>1, JobsTypes, TakeOnce
<1>3. d \in 1..built
  BY <1>2, OngoingLemma DEF Jobs
<1>4. failed[d] = None => /\ d # cur /\ d \notin Range(queryQueue)
                          /\ ~Precedes(finishedQueries, d, d)
  BY <1>2 DEF Inv, JobInv
<1> QED
  BY <1>1, <1>2, <1>3, <1>4 DEF Turned, Past

\* Callback data change when a callback begins: to its data, or to those of
\* its queries, which have their turn then; or to a query of a transaction
\* that wait() has failed.
LEMMA ShownChange ==
    ASSUME Inv, [Next]_vars
    PROVE  \/ callbackQueryData' = callbackQueryData
           \/ \E d \in Jobs :
                 /\ UNCHANGED <<dataVars, m_addedQueryData, failed>>
                 /\ \/ Turned(d)' /\ ~Added(d)
                    \/ failed[d] # None /\ \E e \in Data : d \in Members(e)
                 /\ \A q \in Query :
                       \/ callbackQueryData'[q] = callbackQueryData[q]
                       \/ callbackQueryData'[q] = d /\ owner[d] = q
                       \/ callbackQueryData'[q] \in Members(d)
                          /\ owner[callbackQueryData'[q]] = q
<1>0. TypeOK /\ JobInv /\ JobInv'
  BY JobsKept DEF Inv
<1>1. ASSUME NEW d \in Data,
             RunSuccess(d) \/ RunTransactionSuccess(d) \/ RunError(d) \/ RunUnreferenced(d)
      PROVE  /\ d \in Jobs /\ UNCHANGED <<dataVars, m_addedQueryData, failed>>
             /\ \/ Turned(d)' /\ ~Added(d)
                \/ failed[d] # None /\ \E e \in Data : d \in Members(e)
  <2>1. ThinkNext(d)
    BY <1>1 DEF RunSuccess, RunTransactionSuccess, RunError, RunUnreferenced
  <2>2. /\ d \in Range(finishedQueries) /\ UNCHANGED <<dataVars, m_addedQueryData, failed>>
    BY <2>1, JobsTypes, TakeOnce, HandleFrame DEF ThinkNext, connection
  <2>3. d \in Jobs /\ d \in 1..built /\ (Added(d) => failed[d] # None)
    BY <2>2 DEF Jobs, Inv, JobInv
  <2>4. CASE Added(d)
    BY <2>2, <2>3, <2>4 DEF Inv, FailInv
  <2>5. CASE ~Added(d)
    <3>1. d \in Called' \/ FinishLuaQueryData(d)
      BY <1>1 DEF RunSuccess, RunTransactionSuccess, RunError, RunUnreferenced, Enter, Called
    <3>2. Turned(d)'
      BY <2>1, <2>3, <2>5, <3>1, RunningKept, ThinkTurned
    <3> QED BY <2>2, <2>3, <2>5, <3>2
  <2> QED BY <2>4, <2>5
<1>2. ASSUME NEW d \in Data
      PROVE  \A q \in Query :
                \/ MembersShown(d)[q] = callbackQueryData[q]
                \/ MembersShown(d)[q] \in Members(d) /\ owner[MembersShown(d)[q]] = q
  BY <1>0, MembersShownLemma DEF TypeOK
<1>3. ASSUME NEW d \in Data,
             RunSuccess(d) \/ RunTransactionSuccess(d) \/ RunError(d) \/ RunUnreferenced(d),
             NEW q \in Query
      PROVE  \/ callbackQueryData'[q] = callbackQueryData[q]
             \/ callbackQueryData'[q] = d /\ owner[d] = q
             \/ callbackQueryData'[q] \in Members(d) /\ owner[callbackQueryData'[q]] = q
  BY <1>0, <1>2, <1>3 DEF RunSuccess, RunTransactionSuccess, RunError, RunUnreferenced, TypeOK
<1>4. ASSUME RunAborted
      PROVE  \E d \in Jobs :
                 /\ UNCHANGED <<dataVars, m_addedQueryData, failed>>
                 /\ Turned(d)' /\ ~Added(d)
                 /\ \A q \in Query :
                       \/ callbackQueryData'[q] = callbackQueryData[q]
                       \/ callbackQueryData'[q] \in Members(d)
                          /\ owner[callbackQueryData'[q]] = q
  <2>1. /\ NonEmpty(aborted) /\ callbackQueryData' = MembersShown(Head(aborted))
        /\ Called' = {Head(aborted)}
        /\ UNCHANGED <<dataVars, m_addedQueryData, cur, queryQueue, finishedQueries, failed>>
    BY <1>4, JobsTypes DEF RunAborted, threadVars, NonEmpty, connection, Enter, Called
  <2>2. PICK d \in Data : d = Head(aborted) /\ d \in Range(aborted)
    BY <2>1, JobsTypes, TakeOnce
  <2>3. /\ d \in Jobs /\ d \in 1..built /\ ~Added(d) /\ d # cur /\ d \notin Range(queryQueue)
        /\ failed[d] = None => d \notin Range(finishedQueries)
    BY <1>0, <2>2 DEF JobInv, Jobs
  <2>4. Turned(d)'
    BY <2>1, <2>2, <2>3 DEF Turned, Past, dataVars
  <2> QED BY <1>2, <2>1, <2>2, <2>3, <2>4
<1>5. ASSUME \A d \in Data : /\ ~RunSuccess(d) /\ ~RunTransactionSuccess(d) /\ ~RunError(d)
                             /\ ~RunUnreferenced(d),
             ~RunAborted
      PROVE  callbackQueryData' = callbackQueryData
  <2>1. CASE Build
    BY <1>0, <2>1, BuildFrame
  <2>2. CASE DatabaseThread
    BY <1>0, <2>2, ThreadFrame DEF cacheVars
  <2>3. CASE \/ \E q \in Query : GetData(q) \/ GetNextResults(q)
             \/ \E o \in Query \cup Tx : Abort(o)
             \/ OnDataReturns \/ CallbackReturns \/ WaitReturns \/ Connect \/ UNCHANGED vars
    BY <2>3 DEF GetData, GetNextResults, NextResults, Abort, Aborting, OnDataReturns,
       CallbackReturns, WaitReturns, Connect, cacheVars, vars
  <2>4. CASE Failing
    BY <2>4, FailLemma DEF cacheVars
  <2> QED BY <1>5, <2>1, <2>2, <2>3, <2>4, NextSplit DEF Handle, Callbacks
<1> QED
  BY <1>1, <1>3, <1>4, <1>5

(* Every step shows what has had its turn.                                 *)
LEMMA ShownInvKept == Inv /\ [Next]_vars => ShownInv'
<1> SUFFICES ASSUME Inv, [Next]_vars, NEW q \in Query, callbackQueryData'[q] # Null
             PROVE  LET c == callbackQueryData'[q] IN
                    /\ c <= built' /\ owner'[c] = q
                    /\ \/ failed'[c] # None /\ \E e \in Data : c \in Range(m_queries'[e])
                       \/ \E e \in Data : /\ Turned(e)'
                                          /\ \/ c \in Range(m_queries'[e])
                                             \/ (c = e /\ ~Added(e)')
  BY DEF ShownInv, Members
<1> DEFINE c == callbackQueryData'[q]
<1>0. /\ ShownInv /\ built \in Nat /\ built' \in {built, built + 1} /\ TypeOK /\ TypeOK'
      /\ \A d \in 1..built : d \in Data /\ d \in 1..built' /\ (Added(d)' => Added(d))
      /\ \A d \in 1..built : owner'[d] = owner[d] /\ m_queries'[d] = m_queries[d]
  BY AddedKept, SharedKept, OngoingLemma, TypeKept DEF Inv
<1>6. \A e \in Data : Members(e) # {} => e \in 1..built /\ ~Added(e) /\ m_queries'[e] = m_queries[e]
  <2>1. \A d \in Data : Added(d) => owner[d] \in Query
    BY <1>0 DEF Added, Inv, DataInv
  <2>2. \A e \in Data : Members(e) # {} => e \in 1..built /\ owner[e] \in Tx
    BY KnownData DEF Inv
  <2> QED BY <1>0, <2>1, <2>2, ResultsAssumption
<1>1. CASE c = callbackQueryData[q]
  <2>1. c <= built /\ owner[c] = q /\ c \in Data /\ c \in 1..built
    BY <1>0, <1>1 DEF ShownInv, TypeOK, Data
  <2>2. CASE failed[c] # None /\ \E e \in Data : c \in Members(e)
    <3>1. failed'[c] # None
      BY <2>1, <2>2, FailedKept
    <3>2. PICK e \in Data : c \in Members(e)
      BY <2>2
    <3>3. c \in Range(m_queries'[e])
      BY <1>6, <3>2 DEF Members
    <3> QED BY <1>0, <2>1, <3>1, <3>3
  <2>3. ASSUME NEW e \in Data, Turned(e), c \in Members(e) \/ (c = e /\ ~Added(e))
        PROVE  Turned(e)' /\ (c \in Range(m_queries'[e]) \/ (c = e /\ ~Added(e)'))
    <3>1. e \in 1..built
      BY <2>3 DEF Turned
    <3>2. ~Added(e)
      BY <1>6, <2>3
    <3>3. Turned(e)' /\ ~Added(e)'
      BY <1>0, <2>3, <3>1, <3>2, TurnedKept
    <3> QED BY <1>0, <2>3, <3>1, <3>3 DEF Members
  <2>4. \/ failed[c] # None /\ \E e \in Data : c \in Members(e)
        \/ \E e \in Data : Turned(e) /\ (c \in Members(e) \/ (c = e /\ ~Added(e)))
    BY <1>0, <1>1 DEF ShownInv
  <2> QED BY <1>0, <2>1, <2>2, <2>3, <2>4
<1>2. ASSUME NEW d \in Jobs, UNCHANGED <<dataVars, m_addedQueryData, failed>>,
             \/ Turned(d)' /\ ~Added(d)
             \/ failed[d] # None /\ \E e \in Data : d \in Members(e),
             \/ c = d /\ owner[d] = q
             \/ c \in Members(d) /\ owner[c] = q
      PROVE  /\ c <= built' /\ owner'[c] = q
             /\ \/ failed'[c] # None /\ \E e \in Data : c \in Range(m_queries'[e])
                \/ \E e \in Data : /\ Turned(e)'
                                   /\ \/ c \in Range(m_queries'[e])
                                      \/ (c = e /\ ~Added(e)')
  <2>1. d \in 1..built /\ d \in Data
    BY <1>0, OngoingLemma
  <2>2. \A m \in Members(d) : m \in 1..built
    BY <1>0, <2>1, KnownData DEF Inv
  <2>3. c <= built' /\ owner'[c] = q
    BY <1>0, <1>2, <2>1, <2>2 DEF dataVars
  <2>4. CASE Turned(d)' /\ ~Added(d)
    BY <1>0, <1>2, <2>1, <2>3, <2>4 DEF Members, dataVars
  <2>5. CASE failed[d] # None /\ \E e \in Data : d \in Members(e)
    <3>1. Added(d)
      BY <2>5 DEF Added
    <3>2. Members(d) = {}
      BY <1>6, <2>1, <3>1
    <3>3. c = d
      BY <1>2, <3>2
    <3> QED BY <1>2, <2>3, <2>5, <3>3 DEF Members, dataVars
  <2> QED BY <1>2, <2>4, <2>5
<1>3. \/ c = callbackQueryData[q]
      \/ \E d \in Jobs :
            /\ UNCHANGED <<dataVars, m_addedQueryData, failed>>
            /\ \/ Turned(d)' /\ ~Added(d)
               \/ failed[d] # None /\ \E e \in Data : d \in Members(e)
            /\ \/ c = d /\ owner[d] = q
               \/ c \in Members(d) /\ owner[c] = q
  BY ShownChange
<1> QED
  BY <1>1, <1>2, <1>3

\* What is shown is not in the hands of the database thread, nor waiting for
\* it or its callback, unless it is shared or wait() has failed it.
LEMMA ShownLemma ==
    ASSUME Inv, NEW q \in Query, callbackQueryData[q] # Null
    PROVE  LET c == callbackQueryData[q]
               busy == Range(queryQueue) \cup ({cur} \ {Null}) \cup Range(finishedQueries)
           IN  /\ c \in 1..built /\ owner[c] = q
               /\ c \in busy => failed[c] # None /\ (Added(c) \/ Turned(c))
               /\ \A e \in busy : c \in Members(e) =>
                     Shared(c) \/ failed[c] # None \/ (Turned(e) /\ failed[e] # None)
<1> DEFINE c == callbackQueryData[q]
           busy == Range(queryQueue) \cup ({cur} \ {Null}) \cup Range(finishedQueries)
<1>1. c <= built /\ owner[c] = q /\ c \in Data
  BY DEF Inv, ShownInv, TypeOK
<1>2. \A d \in busy : /\ d \in Data /\ d \in Jobs /\ (Added(d) => failed[d] # None)
                      /\ Turned(d) => failed[d] # None
  <2>1. busy \subseteq Jobs
    BY DEF Jobs
  <2>2. \A d \in busy : Turned(d) => failed[d] # None
    BY DEF Turned, Past
  <2> QED BY <2>1, <2>2, OngoingLemma DEF Inv, JobInv
<1>3. CASE failed[c] # None /\ \E e \in Data : c \in Members(e)
  BY <1>1, <1>3 DEF Data, Added
<1>4. ASSUME NEW e \in Data, Turned(e), c \in Members(e) \/ (c = e /\ ~Added(e))
      PROVE  /\ c \in busy => failed[c] # None /\ (Added(c) \/ Turned(c))
             /\ \A d \in busy : c \in Members(d) =>
                   Shared(c) \/ failed[c] # None \/ (Turned(d) /\ failed[d] # None)
  <2>1. c \in busy => failed[c] # None /\ (Added(c) \/ Turned(c))
    BY <1>2, <1>4 DEF Added
  <2>2. ASSUME NEW d \in busy, c \in Members(d)
        PROVE  Shared(c) \/ failed[c] # None \/ (Turned(d) /\ failed[d] # None)
    <3>1. c \in Members(e) /\ d \in Data
      BY <1>2, <1>4, <2>2 DEF Added
    <3>2. d = e \/ Shared(c)
      BY <2>2, <3>1, OngoingLemma
    <3> QED BY <1>2, <1>4, <3>2
  <2> QED BY <2>1, <2>2
<1>5. \/ failed[c] # None /\ \E e \in Data : c \in Members(e)
      \/ \E e \in Data : Turned(e) /\ (c \in Members(e) \/ (c = e /\ ~Added(e)))
  BY DEF Inv, ShownInv
<1> QED
  BY <1>1, <1>3, <1>4, <1>5 DEF Data

-----------------------------------------------------------------------------
(* Results *)

(* Whose results a step may change: those of a data that is shown, of one  *)
(* that wait() fails, or of what the database thread executes.             *)
LEMMA ResultChange ==
    ASSUME Inv, [Next]_vars, NEW d \in 1..built
    PROVE  \/ results'[d] = results[d] /\ resultStatus'[d] = resultStatus[d]
           \/ ~DatabaseThread /\ results'[d] = results[d] /\ resultStatus'[d] = "ERROR"
           \/ /\ ~DatabaseThread /\ resultStatus'[d] = resultStatus[d] /\ results[d] # <<>>
              /\ \E q \in Query : callbackQueryData[q] = d /\ callbackQueryData[q] # Null
           \/ DatabaseThread /\ cur # Null /\ (d = cur \/ d \in Members(cur))
<1>0. TypeOK /\ d \in Data /\ cur \in Data \cup {Null} /\ Null \notin Data
  BY OngoingLemma, JobsTypes DEF Inv
<1>1. CASE DatabaseThread
  BY <1>0, <1>1, ThreadFrame
<1>2. CASE Build \/ UNCHANGED vars
  BY <1>0, <1>2, BuildFrame DEF resultVars, vars
<1>3. CASE Handle /\ ~DatabaseThread
  <2>1. ASSUME NEW e \in 1..built, Fails(e)
        PROVE  /\ results'[d] = results[d]
               /\ resultStatus'[d] \in {resultStatus[d], "ERROR"}
    BY <1>0, <2>1, FailsLemma
  <2>2. CASE results' = results
    BY <1>3, <2>1, <2>2, ResultsFrame
  <2>3. ASSUME NEW q \in Query, callbackQueryData[q] # Null,
               results[callbackQueryData[q]] # <<>>,
               results' = [results EXCEPT ![callbackQueryData[q]] = Tail(@)]
        PROVE  results'[d] = results[d] \/ (callbackQueryData[q] = d /\ results[d] # <<>>)
    BY <1>0, <2>3 DEF TypeOK
  <2>4. CASE resultStatus' = resultStatus
    BY <1>0, <1>3, <2>2, <2>3, <2>4, ResultsFrame
  <2>5. CASE \E e \in 1..built : Fails(e)
    BY <1>3, <2>1, <2>5
  <2> QED BY <1>3, <2>4, <2>5, ResultsFrame
<1> QED
  BY <1>1, <1>2, <1>3, NextSplit

\* What is known of the data that are started and not yet reported to Lua.
LEMMA BusyLemma ==
    ASSUME Inv, [Next]_vars,
           NEW d \in Range(queryQueue) \cup ({cur} \ {Null}) \cup Range(finishedQueries)
    PROVE  /\ d \in 1..built /\ d \in Data /\ d \in Jobs /\ d # Null
           /\ owner'[d] = owner[d] /\ m_queries'[d] = m_queries[d]
           /\ \A m \in Members(d) : m \in 1..built /\ m # cur /\ m # Null
           /\ Added(d) => Added(d)' /\ Members(d) = {}
           /\ Turned(d) /\ ~Added(d) => Turned(d)'
           /\ Turned(d) => failed[d] # None
<1>1. d \in 1..built /\ d \in Data /\ d \in Jobs /\ d # Null /\ (Added(d) => failed[d] # None)
  <2>1. d \in Jobs
    BY DEF Jobs
  <2> QED BY <2>1, OngoingLemma, JobsTypes DEF Inv, JobInv
<1>2. owner'[d] = owner[d] /\ m_queries'[d] = m_queries[d]
  BY <1>1, SharedKept
<1>3. ASSUME NEW m \in Members(d) PROVE m \in 1..built /\ m # cur /\ m # Null
  <2>1. m \in 1..built /\ m \in Data /\ m # Null
    BY <1>1, KnownData, JobsTypes DEF Inv
  <2>2. cur # Null => ~Added(cur)
    BY DEF Inv, JobInv
  <2> QED BY <1>1, <2>1, <2>2 DEF Added
<1>4. ASSUME Added(d) PROVE Added(d)' /\ Members(d) = {}
  <2>1. PICK e \in Data : d \in Members(e)
    BY <1>1, <1>4 DEF Inv, FailInv
  <2>2. e \in 1..built
    BY <2>1, KnownData DEF Inv
  <2>3. d \in Range(m_queries'[e])
    BY <2>1, <2>2, SharedKept DEF Members
  <2>4. owner[d] \in Query
    BY <2>1 DEF Inv, DataInv
  <2>5. Members(d) = {}
    BY <1>1, <2>4, KnownData, ResultsAssumption DEF Inv
  <2> QED BY <2>3, <2>5 DEF Added, Members
<1>5. Turned(d) => failed[d] # None
  BY DEF Turned, Past
<1> QED
  BY <1>1, <1>2, <1>3, <1>4, <1>5, TurnedKept

\* What is queued or, unless the database thread acts, executed has no success
\* yet, and a query no results.
LEMMA QueueStays ==
    ASSUME Inv, [Next]_vars, NEW d \in Range(queryQueue) \cup ({cur} \ {Null}),
           DatabaseThread => d # cur
    PROVE  /\ owner'[d] \in Query => results'[d] = <<>>
           /\ resultStatus'[d] # "SUCCESS"
<1>0. d \in 1..built /\ owner'[d] = owner[d] /\ ~Added(d) /\ cur \in Data \cup {Null}
  BY BusyLemma, JobsTypes DEF Inv, JobInv
<1>1. (owner[d] \in Query => results[d] = <<>>) /\ resultStatus[d] # "SUCCESS"
  BY DEF Inv, ResultInv
<1>2. cur # Null => d \notin Members(cur)
  BY <1>0 DEF Added
<1>3. \A q \in Query : callbackQueryData[q] = d /\ callbackQueryData[q] # Null => owner[d] = q
  BY ShownLemma
<1> QED
  BY <1>0, <1>1, <1>2, <1>3, ResultChange

\* The results of the queries of what is busy stay, unless they are shared,
\* or wait() has failed them or their transaction.
LEMMA MembersStay ==
    ASSUME Inv, [Next]_vars,
           NEW d \in Range(queryQueue) \cup ({cur} \ {Null}) \cup Range(finishedQueries),
           DatabaseThread => d # cur, NEW m \in Members(d)
    PROVE  Shared(m) \/ failed[m] # None \/ Turned(d) \/ results'[m] = results[m]
<1>0. m \in 1..built /\ m # cur /\ d \in Data /\ cur \in Data \cup {Null}
  BY BusyLemma, JobsTypes
<1>1. \A q \in Query : callbackQueryData[q] = m /\ callbackQueryData[q] # Null =>
          Shared(m) \/ failed[m] # None \/ Turned(d)
  BY ShownLemma
<1>2. DatabaseThread /\ cur # Null /\ m \in Members(cur) => Shared(m)
  BY <1>0, OngoingLemma
<1> QED
  BY <1>0, <1>1, <1>2, ResultChange

\* What waits for its callback keeps its results, if nobody has seen it yet.
LEMMA FinishedStays ==
    ASSUME Inv, [Next]_vars, NEW d \in Range(finishedQueries), d # cur,
           resultStatus'[d] = "SUCCESS", ~Added(d), ~Turned(d)
    PROVE  results'[d] = results[d] /\ resultStatus[d] = "SUCCESS"
<1>0. d \in 1..built /\ cur \in Data \cup {Null}
  BY BusyLemma, JobsTypes
<1>1. cur # Null => d \notin Members(cur)
  BY <1>0 DEF Added
<1>2. \A q \in Query : callbackQueryData[q] = d => callbackQueryData[q] = Null
  BY ShownLemma
<1> QED
  BY <1>0, <1>1, <1>2, ResultChange

(* The result sets of an execution are in their order.                     *)
LEMMA FirstLemma ==
    ASSUME NEW s \in Seq(0..MaxResults), NEW n \in 1..MaxResults
    PROVE  LET all == s \o [i \in 1..n |-> i] IN
           /\ s = <<>> => all # <<>> /\ Head(all) = 1
           /\ s # <<>> => all # <<>> /\ Head(all) = Head(s)
<1> DEFINE S == 0..MaxResults
           r == [i \in 1..n |-> i]
<1>1. r \in Seq(S) /\ Len(r) = n /\ r[1] = 1 /\ n >= 1
  <2>1. MaxResults \in Nat
    BY ResultsAssumption
  <2> QED BY <2>1
<1>2. s \in Seq(S) /\ Len(s) \in Nat
  OBVIOUS
<1> HIDE DEF S, r
<1>3. /\ s \o r \in Seq(S) /\ Len(s \o r) = Len(s) + n
      /\ s = <<>> => (s \o r)[1] = r[1]
      /\ s # <<>> => (s \o r)[1] = s[1] /\ Len(s) >= 1
  BY <1>1, <1>2
<1>4. s \o r # <<>> /\ Head(s \o r) = (s \o r)[1]
  BY <1>1, <1>2, <1>3
<1>5. s # <<>> => Head(s) = s[1]
  BY <1>2
<1> QED
  BY <1>1, <1>3, <1>4, <1>5 DEF r

\* What stays true of a query once its transaction was executed.
LEMMA IntactKept ==
    ASSUME Inv, [Next]_vars, NEW m \in 1..built
    PROVE  /\ Shared(m) \/ failed[m] # None => Intact(m)'
           /\ Intact(m) /\ results'[m] = results[m] => Intact(m)'
<1>1. m \in Data
  BY OngoingLemma
<1> QED
  BY <1>1, SharedKept, FailedKept DEF Intact, HasFirst

\* What is said of the results of what is queued and of what waits for its
\* callback stays true; the database thread may write to what it executes.
LEMMA ResultOthers ==
    ASSUME Inv, [Next]_vars
    PROVE  /\ \A d \in Range(queryQueue') : /\ owner'[d] \in Query => results'[d] = <<>>
                                            /\ resultStatus'[d] # "SUCCESS"
           /\ \A d \in Range(finishedQueries') :
                 \/ DatabaseThread /\ d = cur /\ d # Null
                 \/ Unseen(d)' => Whole(d)'
<1>0. ResultInv /\ TypeOK /\ DataInv
  BY DEF Inv
<1>1. ASSUME NEW d \in Range(queryQueue')
      PROVE  /\ owner'[d] \in Query => results'[d] = <<>>
             /\ resultStatus'[d] # "SUCCESS"
  <2>1. CASE d \in Range(queryQueue)
    <3>1. d # cur
      BY <2>1 DEF Inv, JobInv
    <3> QED BY <2>1, <3>1, QueueStays
  <2>2. CASE d \notin Range(queryQueue)
    <3>1. d = built + 1 /\ Build
      BY <1>1, <2>2, PlacesKept, NextSplit
    <3>2. results' = results /\ resultStatus' = resultStatus
      BY <1>0, <3>1, BuildFrame DEF resultVars
    <3>3. d \in Data /\ d > built
      <4>1. queryQueue' \in Seq(Data)
        BY TypeKept DEF TypeOK
      <4>2. d \in Data
        BY <1>1, <4>1 DEF Range
      <4> QED BY <1>0, <3>1, <4>2 DEF TypeOK
    <3> QED BY <1>0, <3>2, <3>3 DEF DataInv
  <2> QED BY <2>1, <2>2
<1>2. ASSUME NEW d \in Range(finishedQueries), d # cur, Unseen(d)'
      PROVE  Whole(d)'
  <2>1. /\ d \in 1..built /\ owner'[d] = owner[d] /\ m_queries'[d] = m_queries[d]
        /\ ~Added(d) /\ ~Turned(d) /\ resultStatus'[d] = "SUCCESS"
        /\ \A m \in Members(d) : m \in 1..built
    BY <1>2, BusyLemma DEF Unseen
  <2>2. results'[d] = results[d] /\ resultStatus[d] = "SUCCESS"
    BY <1>2, <2>1, FinishedStays
  <2>3. Whole(d)
    BY <1>0, <1>2, <2>1, <2>2 DEF ResultInv, Unseen
  <2>4. ASSUME NEW m \in Members(d) PROVE Intact(m)'
    <3>1. Shared(m) \/ failed[m] # None \/ results'[m] = results[m]
      BY <1>2, <2>1, <2>4, MembersStay
    <3> QED BY <2>1, <2>3, <2>4, <3>1, IntactKept DEF Whole
  <2>5. Members(d)' = Members(d)
    BY <2>1 DEF Members
  <2>6. owner'[d] \in Query => HasFirst(d)'
    BY <2>1, <2>2, <2>3 DEF Whole, HasFirst
  <2> QED BY <2>4, <2>5, <2>6 DEF Whole
<1>3. ASSUME cur \in Range(finishedQueries), ~DatabaseThread, cur # Null
      PROVE  ~Unseen(cur)'
  <2>1. cur' = cur /\ resultStatus'[cur] # "SUCCESS"
    BY <1>3, QueueStays, PlacesKept
  <2> QED BY <2>1 DEF Unseen
<1>4. ASSUME NEW d \in 1..built, Fails(d) PROVE ~Unseen(d)'
  BY <1>4, FailsLemma DEF Unseen
<1>5. Range(finishedQueries) \subseteq Data /\ Null \notin Data
  BY JobsTypes
<1>6. ASSUME NEW d \in Range(finishedQueries')
      PROVE  \/ DatabaseThread /\ d = cur /\ d # Null
             \/ Unseen(d)' => Whole(d)'
  <2>1. CASE d \in Range(finishedQueries) /\ d # cur
    BY <1>2, <2>1
  <2>2. CASE d \in Range(finishedQueries) /\ d = cur
    <3>1. cur # Null
      BY <1>5, <2>2
    <3>2. ASSUME ~DatabaseThread PROVE ~Unseen(d)'
      <4>1. ~Unseen(cur)' /\ cur' = cur
        BY <1>3, <2>2, <3>1, <3>2, PlacesKept
      <4> QED BY <2>2, <4>1 DEF Unseen, Added, Members, Turned, Past, Called
    <3> QED BY <2>2, <3>1, <3>2
  <2>3. CASE d \in 1..built /\ Fails(d)
    BY <1>4, <2>3
  <2> QED BY <1>6, <2>1, <2>2, <2>3, PlacesKept
<1> QED
  BY <1>1, <1>6

\* Reporting what is executed: it is finished, and nothing is executed then.
LEMMA ResultReport ==
    ASSUME Inv, [Next]_vars, NEW status, cur # Null, Report(status), queryQueue' = queryQueue,
           \A d : d = cur /\ status[d] = "SUCCESS" /\ ~Turned(d) => Whole(d)'
    PROVE  ResultInv'
<1>1. cur' = Null /\ resultStatus' = status
  BY DEF Report
<1>2. ASSUME NEW d \in Range(finishedQueries'), Unseen(d)' PROVE Whole(d)'
  <2>1. CASE d = cur
    <3>1. ~Turned(d)
      <4>1. d \in 1..built /\ ~Added(d)
        BY <2>1 DEF Inv, JobInv, Jobs
      <4> QED BY <1>2, <4>1, TurnedKept DEF Unseen
    <3> QED BY <1>1, <1>2, <2>1, <3>1 DEF Unseen
  <2>2. CASE d # cur
    BY <1>2, <2>2, ResultOthers
  <2> QED BY <2>1, <2>2
<1>3. \A d \in Range(queryQueue') \cup ({cur'} \ {Null}) :
          (owner'[d] \in Query => results'[d] = <<>>) /\ resultStatus'[d] # "SUCCESS"
  BY <1>1, ResultOthers
<1> QED
  BY <1>1, <1>2, <1>3 DEF ResultInv

\* The queries of the executed transaction after a step of it that does not
\* end it.
LEMMA ResultMember ==
    ASSUME Inv, [Next]_vars, cur # Null, member' > 1, owner[cur] \in Tx,
           member' <= Len(m_queries[cur]) + 2, resultStatus'[cur] = resultStatus[cur],
           UNCHANGED <<dataVars, cur, queryQueue, finishedQueries>>,
           \A i \in DOMAIN m_queries[cur] : \A m : m = m_queries[cur][i] =>
               Turned(cur)' \/ Intact(m)' \/ (i >= member' - 1 /\ results'[m] = <<>>)
    PROVE  ResultInv'
<1>1. m_queries' = m_queries /\ owner' = owner /\ owner[cur] \notin Query
  BY ResultsAssumption DEF dataVars
<1>2. resultStatus'[cur] # "SUCCESS"
  BY DEF Inv, ResultInv
<1>3. ASSUME NEW i \in DOMAIN m_queries[cur]
      PROVE  Turned(cur)' \/ Intact(m_queries[cur][i])'
             \/ (i >= member' - 1 /\ results'[m_queries'[cur'][i]] = <<>>)
  <2>1. PICK m : m = m_queries[cur][i] /\ m = m_queries'[cur'][i]
    BY <1>1
  <2>2. Intact(m)' => Intact(m_queries[cur][i])'
    BY <2>1 DEF Intact, Shared, HasFirst
  <2> QED BY <2>1, <2>2
<1>4. ASSUME NEW d \in Range(finishedQueries'), Unseen(d)' PROVE Whole(d)'
  <2>1. d # cur
    BY <1>2, <1>4 DEF Unseen
  <2> QED BY <1>4, <2>1, ResultOthers
<1>5. \A d \in Range(queryQueue') \cup ({cur'} \ {Null}) :
          (owner'[d] \in Query => results'[d] = <<>>) /\ resultStatus'[d] # "SUCCESS"
  BY <1>1, <1>2, ResultOthers
<1> QED
  BY <1>1, <1>3, <1>4, <1>5 DEF ResultInv

(* Every step keeps what is known of the results.                          *)
LEMMA ResultInvKept == Inv /\ [Next]_vars => ResultInv'
<1> SUFFICES ASSUME Inv, [Next]_vars PROVE ResultInv'
  OBVIOUS
<1>0. /\ TypeOK /\ DataInv /\ ResultInv /\ Null \notin Data /\ cur \in Data \cup {Null}
      /\ Query \cap Tx = {} /\ MaxResults \in Nat \ {0}
      /\ cur # Null => cur \in Jobs /\ cur \in 1..built /\ owner[cur] \in Query \cup Tx
  <2>1. cur # Null => cur \in Jobs
    BY DEF Jobs
  <2> QED BY <2>1, JobsTypes, OngoingLemma, ResultsAssumption DEF Inv
<1>1. cur # Null => /\ owner'[cur] = owner[cur] /\ m_queries'[cur] = m_queries[cur]
                    /\ ~Added(cur) /\ \A m \in Members(cur) : m \in 1..built
                    /\ Turned(cur) => Turned(cur)' \/ cur' # cur
  <2>1. cur # Null => ~Added(cur)
    BY DEF Inv, JobInv
  <2>2. ASSUME Turned(cur), cur # Null, cur' = cur PROVE Turned(cur)'
    <3>1. PICK d \in 1..built : d = cur
      BY <1>0, <2>2
    <3>2. Turned(d)'
      BY <2>1, <2>2, <3>1, TurnedKept
    <3> QED BY <2>2, <3>1, <3>2 DEF Turned, Past, Called
  <2> QED BY <2>1, <2>2, BusyLemma
<1>2. CASE ~DatabaseThread
  <2>1. cur' = cur /\ member' = member
    BY <1>2, PlacesKept
  <2>2. cur # Null =>
            /\ owner'[cur] \in Query => results'[cur] = <<>>
            /\ resultStatus'[cur] # "SUCCESS"
            /\ \A m \in Members(cur) :
                  Shared(m) \/ failed[m] # None \/ Turned(cur) \/ results'[m] = results[m]
    BY <1>2, QueueStays, MembersStay
  <2>3. \A d \in Range(queryQueue') \cup ({cur'} \ {Null}) :
            (owner'[d] \in Query => results'[d] = <<>>) /\ resultStatus'[d] # "SUCCESS"
    BY <2>1, <2>2, ResultOthers
  <2>4. ASSUME cur # Null, member > 1, NEW i \in DOMAIN m_queries[cur]
        PROVE  \/ Turned(cur)'
               \/ Intact(m_queries[cur][i])'
               \/ i >= member - 1 /\ results'[m_queries'[cur'][i]] = <<>>
    <3>1. PICK m \in Members(cur) : m = m_queries[cur][i] /\ m = m_queries'[cur'][i]
      BY <1>1, <2>1, <2>4 DEF Members, Range
    <3>2. Turned(cur) \/ Intact(m) \/ (i >= member - 1 /\ results[m] = <<>>)
      BY <1>0, <2>4, <3>1 DEF ResultInv
    <3>3. Turned(cur)' \/ Intact(m)' \/ (i >= member - 1 /\ results'[m] = <<>>)
      BY <1>1, <2>1, <2>2, <2>4, <3>2, IntactKept
    <3>4. Intact(m)' => Intact(m_queries[cur][i])'
      BY <3>1 DEF Intact, Shared, HasFirst
    <3> QED BY <3>1, <3>3, <3>4
  <2>5. (cur # Null =>
            /\ member <= Len(m_queries[cur]) + 2
            /\ member > 1 =>
                  \A i \in DOMAIN m_queries[cur] :
                      \/ Turned(cur)
                      \/ Intact(m_queries[cur][i])
                      \/ i >= member - 1 /\ results[m_queries[cur][i]] = <<>>)'
    BY <1>0, <1>1, <2>1, <2>4 DEF ResultInv
  <2>6. \A d \in Range(finishedQueries)' : Unseen(d)' => Whole(d)'
    BY <1>2, ResultOthers
  <2> QED BY <2>3, <2>5, <2>6 DEF ResultInv
<1>3. CASE Take
  <2>1. /\ NonEmpty(queryQueue) /\ cur' = Head(queryQueue) /\ queryQueue' = Tail(queryQueue)
        /\ member' = 1 /\ UNCHANGED <<resultVars, finishedQueries, owner, m_queries>> /\ cur = Null
    BY <1>3 DEF Take, resultVars, dataVars
  <2>2. cur' \in Range(queryQueue) /\ cur' \in Data
    BY <2>1, JobsTypes, TakeOnce
  <2>3. (owner'[cur'] \in Query => results'[cur'] = <<>>) /\ resultStatus'[cur'] # "SUCCESS"
    BY <1>0, <2>1, <2>2 DEF ResultInv, resultVars
  <2>4. member' <= Len(m_queries'[cur']) + 2
    <3>1. m_queries'[cur'] \in Seq(Data)
      BY <1>0, <2>1, <2>2 DEF TypeOK
    <3>2. Len(m_queries'[cur']) \in Nat
      BY <3>1
    <3> QED BY <2>1, <3>2
  <2> QED BY <2>1, <2>3, <2>4, ResultOthers DEF ResultInv
<1>4. CASE Execute
  <2>1. PICK n \in 0..MaxResults, r \in {"SUCCESS", "ERROR"} :
            /\ r = "SUCCESS" => n > 0
            /\ results' = [results EXCEPT ![cur] = @ \o [i \in 1..n |-> i]]
            /\ Report([resultStatus EXCEPT ![cur] = r])
    BY <1>4 DEF Execute
  <2>2. /\ cur # Null /\ cur \in Data /\ owner[cur] \in Query /\ results[cur] = <<>>
        /\ queryQueue' = queryQueue /\ m_queries' = m_queries
    BY <1>0, <1>4 DEF Execute, ResultInv, dataVars
  <2>3. r = "SUCCESS" => results'[cur] # <<>> /\ Head(results'[cur]) = 1
    <3>1. results[cur] \in Seq(0..MaxResults)
          /\ results'[cur] = results[cur] \o [i \in 1..n |-> i]
      BY <1>0, <2>1, <2>2 DEF TypeOK
    <3>2. r = "SUCCESS" => n \in 1..MaxResults
      BY <1>0, <2>1
    <3> QED BY <2>2, <3>1, <3>2, FirstLemma
  <2>4. Range(m_queries'[cur]) = {} /\ owner'[cur] = owner[cur]
    BY <1>0, <1>1, <2>2, KnownData DEF Members
  <2> DEFINE status == [resultStatus EXCEPT ![cur] = r]
  <2>5. status[cur] = r
    BY <1>0, <2>2 DEF TypeOK
  <2> HIDE DEF status
  <2>6. Report(status)
    BY <2>1 DEF status
  <2>7. \A d : d = cur /\ status[d] = "SUCCESS" => Whole(d)'
    BY <2>3, <2>4, <2>5 DEF Whole, HasFirst, Members
  <2> QED BY <2>2, <2>6, <2>7, ResultReport
<1>5. CASE Begin
  <2>1. /\ cur # Null /\ owner[cur] \in Tx /\ member' = 2
        /\ results' = [d \in Data |-> IF d \in Members(cur) THEN <<>> ELSE results[d]]
        /\ UNCHANGED <<dataVars, cur, queryQueue, finishedQueries>>
    BY <1>5 DEF Begin
  <2>2. m_queries[cur] \in Seq(Data)
    BY <1>0, <2>1 DEF TypeOK
  <2>3. 2 <= Len(m_queries[cur]) + 2
    <3>1. Len(m_queries[cur]) \in Nat
      BY <2>2
    <3> QED BY <3>1
  <2>4. \A i \in DOMAIN m_queries[cur] : i >= 1 /\ results'[m_queries[cur][i]] = <<>>
    BY <2>1, <2>2 DEF Members, Range
  <2>5. member' > 1 /\ member' <= Len(m_queries[cur]) + 2
    BY <2>1, <2>3
  <2>6. \A i \in DOMAIN m_queries[cur] :
            i >= member' - 1 /\ results'[m_queries[cur][i]] = <<>>
    BY <2>1, <2>2, <2>4
  <2>7. resultStatus'[cur] = resultStatus[cur]
    BY <1>0, <1>1, <1>5, <2>1 DEF Begin, Added
  <2> QED BY <2>1, <2>5, <2>6, <2>7, ResultMember
<1>6. CASE ExecuteMember
  <2> DEFINE x == m_queries[cur][member - 1]
  <2>1. /\ cur # Null /\ member' = member + 1
        /\ member \in 2..(Len(m_queries[cur]) + 1)
        /\ UNCHANGED <<dataVars, cur, queryQueue, finishedQueries>>
    BY <1>6 DEF ExecuteMember
  <2>2. PICK n \in 1..MaxResults : results' = [results EXCEPT ![x] = @ \o [i \in 1..n |-> i]]
    BY <1>6 DEF ExecuteMember
  <2>3. m_queries[cur] \in Seq(Data) /\ Len(m_queries[cur]) \in Nat
    BY <1>0, <2>1 DEF TypeOK
  <2>4. member - 1 \in DOMAIN m_queries[cur] /\ x \in Data /\ m_queries[cur] # <<>>
    BY <2>1, <2>3
  <2>5. owner[cur] \in Tx
    BY <1>0, <2>1, <2>4 DEF DataInv
  <2>6. /\ results[x] = <<>> => results'[x] # <<>> /\ Head(results'[x]) = 1
        /\ results[x] # <<>> => results'[x] # <<>> /\ Head(results'[x]) = Head(results[x])
        /\ \A d \in Data : d # x => results'[d] = results[d]
    <3>1. results[x] \in Seq(0..MaxResults)
          /\ results'[x] = results[x] \o [i \in 1..n |-> i]
      BY <1>0, <2>2, <2>4 DEF TypeOK
    <3>2. \A d \in Data : d # x => results'[d] = results[d]
      BY <1>0, <2>2, <2>4 DEF TypeOK
    <3> HIDE DEF x
    <3> QED BY <3>1, <3>2, FirstLemma
  <2>7. ASSUME NEW i \in DOMAIN m_queries[cur], NEW y, y = m_queries[cur][i]
        PROVE  Turned(cur)' \/ Intact(y)' \/ (i >= member' - 1 /\ results'[y] = <<>>)
    <3>1. Turned(cur) \/ Intact(y) \/ (i >= member - 1 /\ results[y] = <<>>)
      BY <1>0, <2>1, <2>7 DEF ResultInv
    <3>2. y \in Data /\ i \in Nat /\ y \in 1..built
      BY <1>1, <2>1, <2>3, <2>7 DEF Members, Range
    <3>3. CASE y = x
      <4>1. HasFirst(y) \/ results[y] = <<>> => HasFirst(y)'
        BY <2>6, <3>3 DEF HasFirst
      <4>2. HasFirst(y)' => Intact(y)'
        BY DEF Intact
      <4> QED BY <1>1, <2>1, <3>1, <3>2, <4>1, <4>2, IntactKept DEF Intact
    <3>4. CASE y # x
      <4>1. i # member - 1 /\ results'[y] = results[y]
        BY <2>6, <2>7, <3>2, <3>4
      <4>2. i >= member - 1 => i >= member' - 1
        BY <2>1, <3>2, <4>1
      <4> QED BY <1>1, <2>1, <3>1, <3>2, <4>1, <4>2, IntactKept
    <3> QED BY <3>3, <3>4
  <2>8. member' > 1 /\ member' <= Len(m_queries[cur]) + 2
    BY <2>1, <2>3
  <2>9. resultStatus'[cur] = resultStatus[cur]
    <3>1. x # cur
      BY <1>1, <2>1, <2>4 DEF Added, Members, Range
    <3> QED BY <1>0, <1>6, <2>1, <3>1 DEF ExecuteMember, TypeOK
  <2> QED BY <2>1, <2>5, <2>7, <2>8, <2>9, ResultMember
<1>7. CASE Commit
  <2>1. /\ cur # Null /\ owner[cur] \in Tx /\ member = Len(m_queries[cur]) + 2
        /\ Report([resultStatus EXCEPT ![cur] = "SUCCESS"])
        /\ UNCHANGED <<dataVars, results, queryQueue>>
    BY <1>7 DEF Commit
  <2>2. m_queries[cur] \in Seq(Data) /\ Len(m_queries[cur]) \in Nat
    BY <1>0, <2>1 DEF TypeOK
  <2>3. ASSUME NEW m \in Range(m_queries'[cur]), ~Turned(cur) PROVE Intact(m)'
    <3>1. PICK i \in DOMAIN m_queries[cur] : m_queries[cur][i] = m
      BY <2>1, <2>3 DEF Range, dataVars
    <3>2. member > 1 /\ ~(i >= member - 1)
      BY <2>1, <2>2
    <3>3. Intact(m)
      BY <1>0, <2>1, <2>3, <3>1, <3>2 DEF ResultInv
    <3>4. m \in 1..built
      BY <1>1, <2>1, <3>1 DEF Members, Range
    <3> QED BY <2>1, <3>3, <3>4, IntactKept
  <2>4. owner'[cur] \notin Query
    BY <1>0, <2>1 DEF dataVars
  <2>5. \A d : d = cur /\ ~Turned(d) => Whole(d)'
    BY <2>3, <2>4 DEF Whole, Members
  <2> QED BY <2>1, <2>5, ResultReport
<1>8. CASE Fail
  <2> DEFINE unexecuted == {m_queries[cur][i] : i \in (member - 1)..Len(m_queries[cur])}
             status == [d \in Data |-> IF d \in unexecuted \cup {cur} THEN "ERROR"
                                       ELSE resultStatus[d]]
  <2>1. cur # Null /\ queryQueue' = queryQueue /\ Report(status)
    BY <1>8 DEF Fail
  <2>2. status[cur] = "ERROR"
    BY <1>0, <2>1
  <2> HIDE DEF status
  <2> QED BY <2>1, <2>2, ResultReport
<1> QED
  BY <1>2, <1>3, <1>4, <1>5, <1>6, <1>7, <1>8 DEF DatabaseThread

-----------------------------------------------------------------------------
(* Callbacks *)

\* Where no success callback runs nothing is said.
LEMMA CallNone ==
    lua'.at \notin {"onData", "onSuccess"} => CallInv'
BY DEF CallInv, OwnResults, NoStaleTable

\* While a success callback runs, its data, that data's queries and their
\* owners are those it was called for.
LEMMA CalledLemma ==
    ASSUME Inv, [Next]_vars, lua.at \in {"onData", "onSuccess"}
    PROVE  /\ lua.d \in 1..built /\ lua.d \in Data /\ lua.d # Null /\ owner[lua.d] \in Query \cup Tx
           /\ owner'[lua.d] = owner[lua.d] /\ m_queries'[lua.d] = m_queries[lua.d]
           /\ \A m \in Members(lua.d) : m \in Data /\ owner'[m] = owner[m]
           /\ lua.at = "onData" => lua.d \in ShownIn(owner[lua.d])
           /\ lua.d \notin Range(queryQueue') \cup {cur'}
<1>1. lua.d \in Jobs
  BY DEF Jobs, Called
<1>2. lua.d \in 1..built /\ lua.d \in Data /\ lua.d # Null /\ owner[lua.d] \in Query \cup Tx
  BY <1>1, OngoingLemma, JobsTypes
<1>3. \A m \in Members(lua.d) : m \in 1..built
  BY <1>2, KnownData DEF Inv
<1>4. \A m \in 1..built : m \in Data
  BY OngoingLemma
<1>5. lua.d \notin Range(queryQueue') \cup {cur'}
  <2>1. lua.d \notin Range(queryQueue) \cup {cur} /\ lua.d # built + 1
    BY <1>2 DEF Inv, CallInv, TypeOK
  <2> QED BY <1>2, <2>1, PlacesKept
<1> QED
  BY <1>2, <1>3, <1>4, <1>5, SharedKept DEF ShownIn

\* A step that leaves the callback alone: the tables it may free, fetch, or
\* keep with the results they are of.
LEMMA CallSame ==
    ASSUME Inv, [Next]_vars, lua' = lua, callbackQueryData' = callbackQueryData,
           advanced => advanced',
           \A q \in Query :
              lua.at \in {"onData", "onSuccess"} /\ callbackQueryData[q] \in ShownIn(q) =>
              LET c == callbackQueryData[q] IN
              \/ m_dataReference'[q] = NoTable
                 /\ (lua.at = "onData" /\ owner[lua.d] = q => advanced')
              \/ m_dataReference'[q] = m_dataReference[q]
                 /\ (Shared(c) \/ results'[c] = results[c])
              \/ m_dataReference[q] = NoTable
                 /\ m_dataReference'[q] = [data |-> c, result |-> IF results'[c] = <<>> THEN 0
                                                                  ELSE Head(results'[c])]
    PROVE  CallInv'
<1> SUFFICES ASSUME lua.at \in {"onData", "onSuccess"} PROVE CallInv'
  BY CallNone
<1>1. CallInv
  BY DEF Inv
<1>2. /\ lua.d \in 1..built /\ lua.d \in Data /\ lua.d # Null /\ owner[lua.d] \in Query \cup Tx
      /\ owner'[lua.d] = owner[lua.d] /\ m_queries'[lua.d] = m_queries[lua.d]
      /\ \A m \in Members(lua.d) : m \in Data /\ owner'[m] = owner[m]
      /\ lua.at = "onData" => lua.d \in ShownIn(owner[lua.d])
      /\ lua.d \notin Range(queryQueue') \cup {cur'}
  BY CalledLemma
<1>3. /\ \A m : Shared(m) => Shared(m)'
      /\ \A m \in Data : failed[m] # None => failed'[m] # None
  BY SharedKept, FailedKept
<1>4. \A q : ShownIn(q)' = ShownIn(q)
  BY <1>2 DEF ShownIn, Members
<1>5. ASSUME lua.at = "onData"
      PROVE  /\ owner[lua.d] \in Query
             /\ advanced' \/ m_dataReference'[owner[lua.d]] = [data |-> lua.d, result |-> 1]
  <2>1. owner[lua.d] \in Query
        /\ (advanced \/ m_dataReference[owner[lua.d]] = [data |-> lua.d, result |-> 1])
    BY <1>1, <1>5 DEF CallInv
  <2>2. callbackQueryData[owner[lua.d]] \in ShownIn(owner[lua.d])
    BY <1>1, <1>2, <1>5, <2>1 DEF CallInv, NoStaleTable
  <2>3. m_dataReference[owner[lua.d]] = NoTable => advanced
    BY <1>2, <2>1 DEF NoTable
  <2> QED BY <1>5, <2>1, <2>2, <2>3
<1>6. OwnResults'
  <2> SUFFICES ASSUME lua.at = "onSuccess" PROVE OwnResults'
    BY DEF OwnResults
  <2>1. CASE owner[lua.d] \in Tx
    <3> SUFFICES ASSUME NEW i \in DOMAIN m_queries[lua.d]
                 PROVE  \/ Shared(m_queries[lua.d][i])' \/ failed'[m_queries'[lua'.d][i]] # None
                        \/ lua.argument[i] = [data |-> m_queries[lua.d][i], result |-> 1]
      BY <1>2, <2>1 DEF OwnResults
    <3>1. PICK m \in Members(lua.d) : m = m_queries[lua.d][i] /\ m = m_queries'[lua'.d][i]
      BY <1>2 DEF Members, Range
    <3>2. Shared(m) \/ failed[m] # None \/ lua.argument[i] = [data |-> m, result |-> 1]
      BY <1>1, <2>1, <3>1 DEF CallInv, OwnResults
    <3>3. Shared(m)' \/ failed'[m] # None \/ lua.argument[i] = [data |-> m, result |-> 1]
      BY <1>2, <1>3, <3>2
    <3> QED BY <3>1, <3>3 DEF Shared
  <2>2. CASE owner[lua.d] \notin Tx
    BY <1>1, <1>2, <2>2 DEF CallInv, OwnResults
  <2> QED BY <2>1, <2>2
<1>7. ASSUME NEW q \in Query, ShownIn(q) # {}
      PROVE  /\ callbackQueryData[q] \in ShownIn(q)
             /\ \A c : c = callbackQueryData[q] =>
                  \/ Shared(c)'
                  \/ m_dataReference'[q] \in
                        {NoTable, [data |-> c, result |-> IF results'[c] = <<>> THEN 0
                                                          ELSE Head(results'[c])]}
  <2>1. callbackQueryData[q] \in ShownIn(q)
    BY <1>1, <1>7 DEF CallInv, NoStaleTable
  <2>2. ASSUME NEW c, c = callbackQueryData[q]
        PROVE  Shared(c) \/ m_dataReference[q] \in
                        {NoTable, [data |-> c, result |-> IF results[c] = <<>> THEN 0
                                                          ELSE Head(results[c])]}
    BY <1>1, <1>7, <2>2 DEF CallInv, NoStaleTable, Fresh, Created
  <2>3. ASSUME NEW c, c = callbackQueryData[q]
        PROVE  \/ Shared(c)'
               \/ m_dataReference'[q] \in
                        {NoTable, [data |-> c, result |-> IF results'[c] = <<>> THEN 0
                                                          ELSE Head(results'[c])]}
    BY <1>3, <2>1, <2>2, <2>3
  <2> QED BY <2>1, <2>3
<1>8. NoStaleTable'
  <2> SUFFICES ASSUME NEW q \in Query, ShownIn(q)' # {}
               PROVE  /\ callbackQueryData'[q] \in ShownIn(q)'
                      /\ \/ Shared(callbackQueryData[q])'
                         \/ m_dataReference'[q] \in {NoTable, Fresh(q, callbackQueryData[q])'}
    BY DEF NoStaleTable, Fresh
  <2>1. PICK c : c = callbackQueryData[q] /\ c = callbackQueryData'[q]
    OBVIOUS
  <2>2. \/ Shared(c)'
        \/ m_dataReference'[q] \in {NoTable, Fresh(q, c)'}
    BY <1>4, <1>7, <2>1 DEF Fresh, Created
  <2>3. callbackQueryData'[q] \in ShownIn(q)'
    BY <1>4, <1>7, <2>1
  <2> QED BY <2>1, <2>2, <2>3 DEF Shared, Fresh, Created
<1> QED
  BY <1>2, <1>5, <1>6, <1>8 DEF CallInv
\* The steps of Lua that look at results in a callback.
LEMMA CallLooks ==
    ASSUME Inv, [Next]_vars, NEW q \in Query, GetData(q) \/ GetNextResults(q)
    PROVE  CallInv'
<1>0. TypeOK
  BY DEF Inv
<1>1. lua' = lua /\ callbackQueryData' = callbackQueryData /\ (advanced => advanced')
  <2>1. CASE GetData(q)
    BY <2>1 DEF GetData
  <2>2. CASE GetNextResults(q)
    <3>1. /\ lua' = lua /\ callbackQueryData' = callbackQueryData
          /\ advanced' = (advanced \/ (lua.at = "onData" /\ owner[lua.d] = q))
      BY <2>2 DEF GetNextResults, NextResults
    <3>2. advanced => advanced'
      BY <3>1, Zenon
    <3> QED BY <3>1, <3>2
  <2> QED BY <2>1, <2>2
<1>2. ASSUME NEW r \in Query, lua.at \in {"onData", "onSuccess"},
             callbackQueryData[r] \in ShownIn(r)
      PROVE  LET c == callbackQueryData[r] IN
             \/ m_dataReference'[r] = NoTable
                /\ (lua.at = "onData" /\ owner[lua.d] = r => advanced')
             \/ m_dataReference'[r] = m_dataReference[r]
                /\ (Shared(c) \/ results'[c] = results[c])
             \/ m_dataReference[r] = NoTable
                /\ m_dataReference'[r] = [data |-> c, result |-> IF results'[c] = <<>> THEN 0
                                                                 ELSE Head(results'[c])]
  <2> DEFINE c == callbackQueryData[r]
  <2>1. CASE GetData(q)
    <3>1. results' = results /\ m_dataReference[q] = NoTable
          /\ m_dataReference' = [m_dataReference EXCEPT ![q] = Created(callbackQueryData[q])]
      BY <2>1 DEF GetData, Cached, resultVars
    <3>2. CASE r = q
      BY <1>0, <3>1, <3>2 DEF TypeOK, Created
    <3>3. CASE r # q
      BY <1>0, <3>1, <3>3 DEF TypeOK
    <3> QED BY <3>2, <3>3
  <2>2. CASE GetNextResults(q)
    <3> DEFINE e == callbackQueryData[q]
    <3>1. /\ m_dataReference' = [m_dataReference EXCEPT ![q] = NoTable]
          /\ lua.at = "onData" /\ owner[lua.d] = q => advanced'
          /\ \/ results' = results
             \/ e # Null /\ results' = [results EXCEPT ![e] = Tail(@)]
      BY <2>2 DEF GetNextResults, NextResults
    <3>2. CASE r = q
      BY <1>0, <3>1, <3>2 DEF TypeOK
    <3>3. CASE r # q
      <4>1. m_dataReference'[r] = m_dataReference[r]
        BY <1>0, <3>1, <3>3 DEF TypeOK
      <4>2. e # Null => e # c
        <5>1. owner[c] = r
          BY <1>2 DEF ShownIn
        <5>2. e # Null => owner[e] = q
          BY ShownLemma
        <5> QED BY <3>3, <5>1, <5>2
      <4>3. results'[c] = results[c]
        <5>1. c \in Data
          BY <1>2, CalledLemma DEF ShownIn
        <5> HIDE DEF c, e
        <5> QED BY <1>0, <3>1, <4>2, <5>1 DEF TypeOK
      <4> QED BY <4>1, <4>3
    <3> QED BY <3>2, <3>3
  <2> QED BY <2>1, <2>2
<1> QED
  BY <1>1, <1>2, CallSame

\* A success that think tells of has its results, and is nowhere else.
LEMMA CallBegins ==
    ASSUME Inv, NEW d \in Data, ThinkNext(d), Referenced(d), resultStatus[d] = "SUCCESS"
    PROVE  Whole(d) /\ d \notin Range(queryQueue') \cup {cur'}
<1>1. d \in Range(finishedQueries) /\ Called = {} /\ UNCHANGED <<queryQueue, cur>>
  BY JobsTypes, TakeOnce DEF ThinkNext, threadVars, Called
<1>2. ~Added(d)
  BY <1>1, ReferencedLemma DEF Jobs
<1>3. ~Turned(d)
  BY <1>1 DEF Turned, Past, Referenced
<1>4. Whole(d) /\ d \notin Range(queryQueue) \cup ({cur} \ {Null})
  BY <1>1, <1>2, <1>3 DEF Inv, ResultInv, Unseen
<1>5. d # Null
  BY JobsTypes
<1> QED
  BY <1>1, <1>4, <1>5

\* A query's success callback begins with its first result set.
LEMMA CallQuery ==
    ASSUME Inv, [Next]_vars, NEW d \in Data, RunSuccess(d)
    PROVE  CallInv'
<1> DEFINE q == owner[d]
<1>0. TypeOK /\ DataInv /\ ResultInv
  BY DEF Inv
<1>1. /\ ThinkNext(d) /\ q \in Query /\ resultStatus[d] = "SUCCESS" /\ Referenced(d)
      /\ callbackQueryData' = [callbackQueryData EXCEPT ![q] = d]
      /\ m_dataReference' = [m_dataReference EXCEPT ![q] = Created(d)]
      /\ lua' = [at |-> "onData", d |-> d, argument |-> <<Fresh(q, d)>>]
  BY DEF RunSuccess, Fresh, Enter
<1>2. UNCHANGED <<dataVars, results>>
  BY <1>1 DEF ThinkNext, resultVars
<1>3. d \in Range(finishedQueries)
  BY <1>1, JobsTypes, TakeOnce DEF ThinkNext
<1>4. HasFirst(d) /\ d \notin Range(queryQueue') \cup {cur'}
  BY <1>1, CallBegins DEF Whole
<1>5. Members(d) = {}
  BY <1>0, <1>1, KnownData, ResultsAssumption
<1>6. Created(d) = [data |-> d, result |-> 1] /\ Created(d)' = Created(d)
  BY <1>2, <1>4 DEF Created, HasFirst
<1>7. m_dataReference'[q] = [data |-> d, result |-> 1] /\ callbackQueryData'[q] = d
  BY <1>0, <1>1, <1>6 DEF TypeOK
<1>8. ASSUME NEW r \in Query, ShownIn(r)' # {}
      PROVE  r = q /\ d \in ShownIn(r)'
  BY <1>1, <1>2, <1>5, <1>8 DEF ShownIn, Members, dataVars
<1>9. NoStaleTable'
  <2> SUFFICES ASSUME NEW r \in Query, ShownIn(r)' # {}
               PROVE  /\ callbackQueryData'[r] \in ShownIn(r)'
                      /\ m_dataReference'[r] \in {NoTable, Fresh(r, callbackQueryData[r])'}
    BY DEF NoStaleTable
  <2>1. r = q /\ d \in ShownIn(r)'
    BY <1>8
  <2>2. Fresh(r, callbackQueryData[r])' = [data |-> d, result |-> 1]
    BY <1>2, <1>4, <1>7, <2>1 DEF Fresh, Created, HasFirst
  <2> QED BY <1>7, <2>1, <2>2
<1>10. owner'[lua'.d] = q /\ lua'.d = d /\ lua'.at = "onData"
  BY <1>1, <1>2 DEF dataVars
<1>11. OwnResults'
  BY <1>10 DEF OwnResults
<1> HIDE DEF q
<1> QED
  BY <1>1, <1>4, <1>7, <1>9, <1>10, <1>11 DEF CallInv

\* onData is followed by onSuccess for the same data.
LEMMA CallAfterData ==
    ASSUME Inv, [Next]_vars, OnDataReturns
    PROVE  CallInv'
<1> SUFFICES ASSUME lua'.at = "onSuccess" PROVE CallInv'
  <2>1. lua'.at \in {"onSuccess", "script"}
    BY DEF OnDataReturns, Enter, Leave
  <2> QED BY <2>1, CallNone
<1> DEFINE q == owner[lua.d]
<1>1. /\ lua.at = "onData" /\ UNCHANGED <<dataVars, results, callbackQueryData, m_dataReference,
                                          advanced>>
      /\ lua'.d = lua.d
      /\ lua'.argument = IF m_dataReference[q] = NoTable THEN <<>> ELSE <<m_dataReference[q]>>
  BY DEF OnDataReturns, Enter, Leave, resultVars, cacheVars
<1>2. CallInv /\ lua.d # Null /\ lua.d \notin Range(queryQueue') \cup {cur'}
  BY <1>1, CalledLemma DEF Inv
<1>3. q \in Query /\ (advanced \/ m_dataReference[q] = [data |-> lua.d, result |-> 1])
  BY <1>1, <1>2 DEF CallInv
<1>4. advanced \/ lua'.argument = <<[data |-> lua.d, result |-> 1]>>
  BY <1>1, <1>2, <1>3 DEF NoTable
<1>5. OwnResults'
  BY <1>1, <1>3, <1>4, ResultsAssumption DEF OwnResults, dataVars
<1>6. NoStaleTable'
  <2>1. NoStaleTable
    BY <1>2 DEF CallInv
  <2>2. \A r : ShownIn(r)' = ShownIn(r)
    BY <1>1 DEF ShownIn, Members, dataVars
  <2> QED BY <1>1, <2>1, <2>2 DEF NoStaleTable, Fresh, Created, Shared, Started, Members, dataVars
<1> QED
  BY <1>1, <1>2, <1>5, <1>6 DEF CallInv

\* A transaction's success callback gets the first result sets of its queries.
LEMMA CallTransaction ==
    ASSUME Inv, [Next]_vars, NEW d \in Data, RunTransactionSuccess(d)
    PROVE  CallInv'
<1> SUFFICES ASSUME lua'.at = "onSuccess" PROVE CallInv'
  <2>1. lua'.at \in {"onSuccess", "script"}
    BY DEF RunTransactionSuccess, ThinkNext, Enter
  <2> QED BY <2>1, CallNone
<1>0. TypeOK /\ DataInv /\ ResultInv /\ m_queries[d] \in Seq(Data)
  BY DEF Inv, TypeOK
<1>1. /\ ThinkNext(d) /\ owner[d] \in Tx /\ resultStatus[d] = "SUCCESS" /\ lua.at = "script"
      /\ Referenced(d)
      /\ callbackQueryData' = MembersShown(d)
      /\ m_dataReference' = [q \in Query |-> IF \E m \in Members(d) : owner[m] = q
                                             THEN Created(MembersShown(d)[q])
                                             ELSE m_dataReference[q]]
      /\ lua' = [at |-> "onSuccess", d |-> d,
                 argument |-> [i \in DOMAIN m_queries[d] |-> Created(m_queries[d][i])]]
  BY DEF RunTransactionSuccess, Fresh, Enter, ThinkNext
<1>2. UNCHANGED <<dataVars, results>>
  BY <1>1 DEF ThinkNext, resultVars
<1>3. d \in Range(finishedQueries)
  BY <1>1, JobsTypes, TakeOnce DEF ThinkNext
<1>4. /\ \A m \in Members(d) : Intact(m)
      /\ d \notin Range(queryQueue') \cup {cur'}
  BY <1>1, CallBegins DEF Whole
<1>5. lua'.d = d /\ owner'[lua'.d] \in Tx /\ m_queries'[lua'.d] = m_queries[d]
  BY <1>1, <1>2 DEF dataVars
<1>6. OwnResults'
  <2> SUFFICES ASSUME NEW i \in DOMAIN m_queries[d]
               PROVE  \/ Shared(m_queries[lua.d][i])' \/ failed'[m_queries'[lua'.d][i]] # None
                      \/ lua'.argument[i] = [data |-> m_queries[d][i], result |-> 1]
    BY <1>5 DEF OwnResults
  <2>1. PICK m \in Members(d) : m = m_queries[d][i] /\ m = m_queries'[lua'.d][i]
    BY <1>5 DEF Members, Range
  <2>2. lua'.argument[i] = Created(m)
    BY <1>1, <2>1
  <2>3. Shared(m) \/ failed[m] # None \/ Created(m) = [data |-> m, result |-> 1]
    BY <1>4 DEF Intact, HasFirst, Created
  <2>4. (Shared(m) => Shared(m)') /\ failed' = failed
    BY <1>1, SharedKept DEF ThinkNext, connection
  <2> QED BY <2>1, <2>2, <2>3, <2>4 DEF Shared
<1>7. ASSUME NEW q \in Query, ShownIn(q)' # {}
      PROVE  /\ callbackQueryData'[q] \in ShownIn(q)'
             /\ m_dataReference'[q] = Created(MembersShown(d)[q])
  <2>1. ShownIn(q)' = {m \in Members(d) \cup {d} : owner[m] = q}
    BY <1>2, <1>5 DEF ShownIn, Members, dataVars
  <2>2. q \notin Tx
    BY ResultsAssumption
  <2>3. \E m \in Members(d) : owner[m] = q
    BY <1>1, <1>7, <2>1, <2>2
  <2>4. callbackQueryData'[q] = m_queries[d][LastOf(q, d)]
    BY <1>1, <2>3 DEF MembersShown
  <2>5. callbackQueryData'[q] \in Members(d) /\ owner[callbackQueryData'[q]] = q
    BY <1>0, <2>3, <2>4, LastOfLemma
  <2> QED BY <1>1, <2>1, <2>3, <2>5
<1>8. NoStaleTable'
  <2> SUFFICES ASSUME NEW q \in Query, ShownIn(q)' # {}
               PROVE  /\ callbackQueryData'[q] \in ShownIn(q)'
                      /\ m_dataReference'[q] = Fresh(q, callbackQueryData[q])'
    BY DEF NoStaleTable
  <2>1. PICK c : c = callbackQueryData'[q] /\ c = MembersShown(d)[q]
    BY <1>1
  <2>2. m_dataReference'[q] = Created(c)
    BY <1>7, <2>1
  <2>3. Created(c) = Fresh(q, callbackQueryData[q])'
    BY <1>2, <2>1 DEF Created, Fresh
  <2> QED BY <1>7, <2>2, <2>3
<1> QED
  BY <1>1, <1>4, <1>6, <1>8 DEF CallInv

(* Every step keeps what a callback sees.                                  *)
LEMMA CallInvKept == Inv /\ [Next]_vars => CallInv'
<1> SUFFICES ASSUME Inv, [Next]_vars PROVE CallInv'
  OBVIOUS
<1>0. TypeOK
  BY DEF Inv
<1>1. ASSUME lua' = lua, callbackQueryData' = callbackQueryData, advanced' = advanced,
             m_dataReference' = m_dataReference,
             \A q \in Query :
                 lua.at \in {"onData", "onSuccess"} /\ callbackQueryData[q] \in ShownIn(q) =>
                 \/ Shared(callbackQueryData[q])
                 \/ results'[callbackQueryData[q]] = results[callbackQueryData[q]]
      PROVE  CallInv'
  BY <1>1, CallSame
<1>2. CASE Build
  BY <1>0, <1>1, <1>2, BuildFrame DEF resultVars
<1>3. CASE DatabaseThread
  <2>1. UNCHANGED <<lua, callbackQueryData, advanced, m_dataReference>>
    BY <1>0, <1>3, ThreadFrame DEF cacheVars
  <2>2. ASSUME NEW q \in Query, lua.at \in {"onData", "onSuccess"},
               callbackQueryData[q] \in ShownIn(q)
        PROVE  \/ Shared(callbackQueryData[q])
               \/ results'[callbackQueryData[q]] = results[callbackQueryData[q]]
    <3> DEFINE c == callbackQueryData[q]
    <3>1. c \in Data
      BY <2>2, CalledLemma DEF ShownIn
    <3>2. c # Null /\ (cur \in Data => cur # Null)
      BY <3>1, JobsTypes
    <3>3. c # cur /\ (cur # Null /\ c \in Members(cur) => Shared(c))
      <4>1. lua.d \in Data /\ lua.d # cur /\ c \in Members(lua.d) \cup {lua.d} /\ lua.d \in Called
        BY <2>2, CalledLemma DEF Inv, CallInv, ShownIn, Called
      <4>2. ~Added(lua.d) /\ (cur # Null => ~Added(cur) /\ cur \in Data)
        BY <4>1, JobsTypes DEF Inv, JobInv
      <4>3. c = lua.d => \A e \in Data : c \notin Members(e)
        BY <4>2 DEF Added
      <4>4. cur # Null => c # cur
        BY <4>1, <4>2 DEF Added
      <4> HIDE DEF c
      <4> QED BY <3>2, <4>1, <4>2, <4>3, <4>4, OngoingLemma
    <3> HIDE DEF c
    <3>4. Shared(c) \/ results'[c] = results[c]
      BY <1>0, <1>3, <3>1, <3>2, <3>3, ThreadFrame
    <3> QED BY <3>4 DEF c
  <2> QED BY <1>1, <2>1, <2>2
<1>4. ASSUME NEW q \in Query, GetData(q) \/ GetNextResults(q) PROVE CallInv'
  BY <1>4, CallLooks
<1>5. CASE UNCHANGED vars \/ Connect \/ EndThread \/ \E o \in Query \cup Tx : Abort(o)
  <2>1. UNCHANGED <<lua, callbackQueryData, advanced, m_dataReference, results>>
    BY <1>5 DEF vars, Abort, Aborting, Connect, EndThread, FailWaitingQuery, cacheVars, resultVars
  <2> QED BY <1>1, <2>1
<1>6. CASE \/ \E o \in Query \cup Tx : Wait(o)
           \/ \E d \in Data : RunError(d) \/ RunUnreferenced(d)
           \/ WaitReturns \/ RunAborted \/ CallbackReturns
  <2>1. lua'.at \in {"waiting", "onError", "script", "onAborted"}
    <3>1. \A o \in Query \cup Tx : Wait(o) => lua'.at \in {"waiting", "script"}
      BY <1>0 DEF Wait, TypeOK
    <3>2. WaitReturns => lua'.at = "script"
      BY <1>0 DEF WaitReturns, TypeOK
    <3>3. (\E d \in Data : RunError(d) \/ RunUnreferenced(d)) \/ RunAborted \/ CallbackReturns =>
              lua'.at \in {"onError", "script", "onAborted"}
      BY DEF RunError, RunUnreferenced, ThinkNext, RunAborted, CallbackReturns, Enter, Leave
    <3> QED BY <1>6, <3>1, <3>2, <3>3
  <2> QED BY <2>1, CallNone
<1>7. ASSUME NEW d \in Data, RunSuccess(d) \/ RunTransactionSuccess(d) PROVE CallInv'
  BY <1>7, CallQuery, CallTransaction
<1>8. CASE OnDataReturns
  BY <1>8, CallAfterData
<1> QED
  BY <1>2, <1>3, <1>4, <1>5, <1>6, <1>7, <1>8, NextSplit DEF Handle, Callbacks, Failing

-----------------------------------------------------------------------------
(* What wait() fails *)

(* What is finished stays finished.                                        *)
LEMMA FinishedKept ==
    ASSUME Inv, [Next]_vars
    PROVE  /\ finished \subseteq finished'
           /\ thread' = thread \/ (Connect /\ cur' = cur) \/ EndThread
<1>1. CASE Build \/ UNCHANGED vars
  BY <1>1, BuildFrame DEF Inv, vars, resultVars, connection
<1>2. CASE DatabaseThread
  <2>1. thread' = thread
    BY <1>2, ThreadFrame DEF Inv
  <2> QED BY <1>2, <2>1 DEF DatabaseThread, Take, Execute, Begin, ExecuteMember, Commit, Fail, Report,
       resultVars
<1>3. CASE Failing
  <2>1. finished \subseteq finished'
    BY <1>3, FailLemma, FailsLemma DEF resultVars
  <2>2. (\E o \in Query \cup Tx : Wait(o)) => thread' = thread
    BY DEF Wait
  <2> QED BY <1>3, <2>1, <2>2 DEF Failing
<1>4. CASE \/ Callbacks \/ Connect
           \/ \E q \in Query : GetData(q) \/ GetNextResults(q)
           \/ \E o \in Query \cup Tx : Abort(o)
  BY <1>4 DEF Callbacks, RunSuccess, RunTransactionSuccess, RunError, RunUnreferenced, ThinkNext,
     OnDataReturns, RunAborted, CallbackReturns, WaitReturns, Connect, GetData, GetNextResults,
     NextResults, Abort, Aborting, resultVars, connection, threadVars
<1> QED
  BY <1>1, <1>2, <1>3, <1>4, NextSplit DEF Handle

\* What is executed or queued is still with the thread after a step, or is
\* finished, if it may not be aborted.
LEMMA WaitedKept ==
    ASSUME Inv, [Next]_vars, lua.at = "waiting", thread = "up",
           NEW d \in Range(queryQueue) \cup {cur}, d # Null, d = lua.d
    PROVE  d \in finished' \/ (thread' = "up" /\ d \in Range(queryQueue') \cup {cur'})
<1>0. TypeOK /\ queryQueue \in Seq(Data)
  BY DEF Inv, TypeOK
<1>1. CASE Build \/ UNCHANGED vars
  <2>1. UNCHANGED <<cur, thread>>
    BY <1>0, <1>1, BuildFrame DEF vars, threadVars, connection
  <2>2. \/ queryQueue' = queryQueue
        \/ \E o \in Query \cup Tx : New(o) /\ queryQueue' = put(queryQueue, built + 1)
    BY <1>1 DEF Build, ClearQueries, AddQuery, StartQuery, Starting, StartTransaction, Enqueue, vars
  <2>3. Range(queryQueue) \subseteq Range(queryQueue')
    BY <1>0, <2>2, NewLemma, PutOnce
  <2> QED BY <2>1, <2>3
<1>2. CASE Take
  <2>1. /\ cur = Null /\ NonEmpty(queryQueue) /\ cur' = Head(queryQueue)
        /\ queryQueue' = Tail(queryQueue) /\ thread' = thread
    BY <1>2 DEF Take, connection
  <2> QED BY <1>0, <2>1, TakeOnce
<1>3. CASE Execute \/ Begin \/ ExecuteMember \/ Commit \/ Fail
  <2>1. thread' = thread /\ queryQueue' = queryQueue
    BY <1>3 DEF Execute, Begin, ExecuteMember, Commit, Fail, connection
  <2>2. cur' = cur \/ cur \in finished'
    BY <1>3 DEF Execute, Begin, ExecuteMember, Commit, Fail, Report
  <2> QED BY <2>1, <2>2
<1>4. CASE EndThread
  BY <1>4 DEF EndThread, FailWaitingQuery, resultVars
<1>5. ~Callbacks \/ WaitReturns
  BY DEF Callbacks, RunSuccess, RunTransactionSuccess, RunError, RunUnreferenced, ThinkNext,
     OnDataReturns, RunAborted, CallbackReturns
<1>6. \A o \in Query \cup Tx : ~Wait(o) /\ ~Abort(o)
  BY DEF Wait, Abort, Aborting
<1>7. ~Connect /\ \A q \in Query : ~GetData(q) /\ ~GetNextResults(q)
  BY DEF Connect, GetData, GetNextResults, NextResults, LuaRuns
<1>8. CASE WaitReturns
  BY <1>8 DEF WaitReturns, threadVars, connection
<1> QED
  BY <1>1, <1>2, <1>3, <1>4, <1>5, <1>6, <1>7, <1>8, NextSplit DEF Handle, Failing, DatabaseThread

(* Every step keeps what is known of what wait() fails and waits for.      *)
LEMMA FailInvKept == Inv /\ [Next]_vars => FailInv'
<1> SUFFICES ASSUME Inv, [Next]_vars PROVE FailInv'
  OBVIOUS
<1>0. TypeOK /\ DataInv /\ FailInv /\ RunInv /\ finished \subseteq finished'
  BY FinishedKept DEF Inv
<1>1. thread' # "up" => cur' = Null
  <2>1. CASE thread' = thread
    <3>1. CASE DatabaseThread
      BY <1>0, <2>1, <3>1 DEF DatabaseThread, Take, Execute, Begin, ExecuteMember, Commit, Fail,
         Report, FailInv
    <3>2. CASE ~DatabaseThread
      BY <1>0, <2>1, <3>2, PlacesKept DEF FailInv
    <3> QED BY <3>1, <3>2
  <2> QED BY <2>1, FinishedKept DEF Connect, EndThread, threadVars
<1>2. \A e \in Data : Members(e) # {} => /\ e \in Started /\ e \in Started'
                                         /\ Members(e)' = Members(e)
  <2>1. \A e \in Data : Members(e) # {} => e \in 1..built /\ owner[e] \in Tx
    BY <1>0, KnownData
  <2> QED BY <2>1, SharedKept DEF Started, Members
<1>3. ASSUME NEW d \in Data, failed'[d] # None
      PROVE  /\ d \in finished' /\ failed'[d] # "executing"
             /\ Added(d)' => \E e \in Data : d \in Members(e)'
  <2>1. CASE failed[d] # None
    <3>1. failed'[d] = failed[d] /\ d \in finished /\ failed[d] # "executing"
          /\ (Added(d) => \E e \in Data : d \in Members(e))
      BY <1>0, <2>1, FailedKept DEF FailInv
    <3>2. d \in 1..built
      BY <1>0, <2>1 DEF DataInv, TypeOK, Data
    <3>3. Added(d)' => Added(d)
      BY <3>2, AddedKept
    <3> QED BY <1>0, <1>2, <3>1, <3>3
  <2>2. CASE failed[d] = None
    <3>1. PICK e \in 1..built : Fails(e)
      BY <1>3, <2>2, FailedFrame, FailLemma
    <3>2. d = e /\ d \in finished' /\ failed'[d] # "executing" /\ d \in 1..built
      BY <1>3, <2>2, <3>1, FailsLemma
    <3>3. Added(d)' => Added(d)
      BY <3>2, AddedKept
    <3>4. ASSUME Added(d) PROVE \E x \in Data : d \in Members(x)
      <4>1. d \notin Range(queryQueue) \cup Range(finishedQueries)
        BY <2>2, <3>4 DEF Inv, JobInv, Jobs
      <4> QED BY <3>1, <3>2, <4>1, FailsRunning
    <3> QED BY <1>2, <3>2, <3>3, <3>4
  <2> QED BY <2>1, <2>2
<1>4. Range(finishedQueries') \subseteq finished'
  <2>1. ASSUME DatabaseThread, cur \notin Range(finishedQueries), cur \in Range(finishedQueries')
        PROVE  cur \in finished'
    <3>1. CASE Execute \/ Commit \/ Fail
      BY <3>1 DEF Execute, Commit, Fail, Report
    <3>2. CASE Take \/ Begin \/ ExecuteMember
      BY <2>1, <3>2 DEF Take, Begin, ExecuteMember
    <3> QED BY <2>1, <3>1, <3>2 DEF DatabaseThread
  <2>2. \A e \in 1..built : Fails(e) => e \in finished'
    BY FailsLemma
  <2> QED BY <1>0, <2>1, <2>2, PlacesKept DEF FailInv
<1>5. ASSUME lua'.at = "waiting"
      PROVE  \/ lua'.d \in finished'
             \/ thread' = "up" /\ lua'.d \in Range(queryQueue') \cup {cur'}
             \/ \E e \in Data : lua'.d \in Members(e)
  <2>1. ASSUME NEW o \in Query \cup Tx, Wait(o), lua.at = "script"
        PROVE  \/ lua'.d \in finished'
               \/ thread' = "up" /\ lua'.d \in Range(queryQueue') \cup {cur'}
               \/ \E e \in Data : lua'.d \in Members(e)
    <3>1. /\ thread = "up" /\ aborted = <<>> /\ lua' # lua
          /\ UNCHANGED <<thread, queryQueue, cur, owner, built>>
      BY <1>5, <2>1 DEF Wait, LuaRuns, dataVars, threadVars
    <3>2. PICK d \in 1..built : d = lua'.d /\ d \in Range(runningQueryData[owner[d]])
      BY <1>5, <3>1, WaitingKept
    <3>3. Range(aborted) = {} /\ Called = {}
      BY <2>1, <3>1 DEF Range, Called
    <3>4. Shared(d) => \E e \in Data : d \in Members(e)
      BY DEF Shared, Started
    <3>5. d \in Ongoing => d \in Jobs \/ \E e \in Data : d \in Members(e)
      <4>1. Jobs \subseteq Data
        BY OngoingLemma
      <4> QED BY <4>1 DEF Ongoing
    <3>6. d \in Jobs => d \in Range(queryQueue) \cup {cur} \cup finished
      BY <1>0, <3>3 DEF Jobs, FailInv
    <3>7. Shared(d) \/ d \in Ongoing
      BY <1>0, <3>2 DEF RunInv
    <3> QED BY <1>0, <3>1, <3>2, <3>4, <3>5, <3>6, <3>7
  <2>2. CASE lua.at = "script"
    <3>1. PICK o \in Query \cup Tx : Wait(o)
      BY <1>5, <2>2, WaitEntered
    <3> QED BY <2>1, <2>2, <3>1
  <2>3. CASE lua.at # "script"
    <3>1. lua' = lua /\ lua.at = "waiting"
      BY <1>5, <2>3, WaitEntered
    <3>2. lua.d # Null /\ lua.d \in 1..built
      BY <1>0, <3>1, OngoingLemma, JobsTypes DEF RunInv
    <3>3. WaitIsAnswered
      BY <1>0 DEF FailInv
    <3>4. CASE lua.d \in finished
      BY <1>0, <3>1, <3>4
    <3>5. CASE thread = "up" /\ lua.d \in Range(queryQueue) \cup {cur}
      BY <3>1, <3>2, <3>5, WaitedKept
    <3>6. CASE \E e \in Started : lua.d \in Members(e)
      BY <3>1, <3>6 DEF Started
    <3> QED BY <3>1, <3>3, <3>4, <3>5, <3>6 DEF WaitIsAnswered
  <2> QED BY <2>2, <2>3
<1>6. WaitIsAnswered'
  BY <1>2, <1>5 DEF WaitIsAnswered
<1> QED
  BY <1>1, <1>3, <1>4, <1>6 DEF FailInv

-----------------------------------------------------------------------------
(* What follows *)

(* The inductive invariant holds in every state of every behaviour.        *)
THEOREM InvHolds == Spec => []Inv
<1>1. Inv /\ [Next]_vars => Inv'
  BY TypeKept, DataInvKept, JobsKept, FailInvKept, RunInvKept, ShownInvKept, ResultInvKept,
     CallInvKept
     DEF Inv
<1> QED
  BY InitInv, <1>1, PTL DEF Spec

(* Every variable keeps its type.                                          *)
THEOREM TypesHold == Spec => []TypeOK
<1>1. Inv => TypeOK
  BY DEF Inv
<1> QED
  BY InvHolds, <1>1, PTL

(* The database thread never writes to a data that getData,                *)
(* getNextResults and the callbacks can look at, unless the same queries   *)
(* were started with their transaction twice, or wait() has failed them.   *)
THEOREM NeverWrittenWhileShown == Spec => []NotWrittenWhileShown
<1>1. Inv => NotWrittenWhileShown
  <2> SUFFICES ASSUME Inv, cur # Null, NEW q \in Query,
                      callbackQueryData[q] \in Members(cur) \cup {cur}
               PROVE  Shared(callbackQueryData[q]) \/ Disowned(callbackQueryData[q])
    BY DEF NotWrittenWhileShown
  <2>1. cur \in Data /\ \A m \in Members(cur) : m # Null /\ cur \in Started
    <3>1. cur \in Data /\ Null \notin Data
      BY JobsTypes
    <3>2. \A m \in Members(cur) : m \in 1..built
      BY <3>1, KnownData DEF Inv
    <3> QED BY <3>1, <3>2, KnownData DEF Null, Started, Inv
  <2>2. callbackQueryData[q] # Null
    BY <2>1
  <2> QED BY <2>1, <2>2, ShownLemma DEF Disowned
<1> QED
  BY InvHolds, <1>1, PTL

(* onSuccess always gets the first result sets of its own execution, a     *)
(* transaction's in the order of addQuery.                                 *)
THEOREM AlwaysOwnResults == Spec => []OwnResults
<1>1. Inv => OwnResults
  BY DEF Inv, CallInv
<1> QED
  BY InvHolds, <1>1, PTL

(* A success callback never shows the table of an earlier one.             *)
THEOREM NeverAStaleTable == Spec => []NoStaleTable
<1>1. Inv => NoStaleTable
  BY DEF Inv, CallInv
<1> QED
  BY InvHolds, <1>1, PTL

(* isRunning() is always true exactly from the start of a query or         *)
(* transaction to the end of its callback, except that what wait() has     *)
(* failed may be outstanding without it.                                   *)
THEOREM RunningAlwaysOutstanding == Spec => []RunningIsOutstanding
<1>1. Inv => RunningIsOutstanding
  <2> SUFFICES ASSUME Inv, NEW d \in 1..built, ~Shared(d)
               PROVE  /\ d \in Range(runningQueryData[owner[d]]) => d \in Outstanding
                      /\ d \in Outstanding => d \in Range(runningQueryData[owner[d]]) \/ Disowned(d)
    BY DEF RunningIsOutstanding
  <2>1. /\ d \in Range(runningQueryData[owner[d]]) => d \in Ongoing
        /\ d \in Ongoing => d \in Range(runningQueryData[owner[d]]) \/ Disowned(d)
    BY DEF Inv, RunInv
  <2> DEFINE jobs == Range(queryQueue) \cup Range(finishedQueries) \cup Range(aborted)
                         \cup ({cur, lua.d} \ {Null})
  <2>2. Outstanding = jobs \cup UNION {Members(x) : x \in jobs}
    BY DEF Outstanding
  <2>3. lua.at \in {"script", "waiting", "onData", "onSuccess", "onError", "onAborted"}
        /\ Null \notin Jobs
    BY JobsTypes DEF Inv, TypeOK
  <2>4. CASE lua.at = "waiting"
    <3>1. /\ lua.d \in 1..built /\ lua.d \in Data /\ lua.d # Null
          /\ lua.d \in Range(runningQueryData[owner[lua.d]])
      BY <2>4, OngoingLemma, JobsTypes DEF Inv, RunInv
    <3>2. jobs = Jobs \cup {lua.d}
      BY <2>4, <3>1 DEF Jobs, Called
    <3>3. Outstanding = Ongoing \cup {lua.d} \cup Members(lua.d)
      <4> HIDE DEF jobs
      <4> QED BY <2>2, <3>2 DEF Ongoing
    <3>4. Members(lua.d) \subseteq Ongoing
      <4>1. Shared(lua.d) => Members(lua.d) = {}
        <5>1. Shared(lua.d) => owner[lua.d] \in Query
          BY DEF Shared, Started, Inv, DataInv
        <5> QED BY <3>1, <5>1, KnownData, ResultsAssumption DEF Inv
      <4>2. lua.d \in Ongoing \/ Shared(lua.d)
        BY <3>1 DEF Inv, RunInv
      <4>3. ASSUME NEW e \in Data, lua.d \in Members(e) PROVE Members(lua.d) = {}
        <5>1. owner[lua.d] \in Query
          BY <4>3 DEF Inv, DataInv
        <5> QED BY <3>1, <5>1, KnownData, ResultsAssumption DEF Inv
      <4>4. Jobs \subseteq Data
        BY OngoingLemma
      <4>5. lua.d \in Jobs => Members(lua.d) \subseteq Ongoing
        BY DEF Ongoing
      <4>6. lua.d \in Ongoing /\ lua.d \notin Jobs => Members(lua.d) = {}
        BY <4>3, <4>4 DEF Ongoing
      <4> QED BY <4>1, <4>2, <4>5, <4>6
    <3> QED BY <2>1, <3>1, <3>3, <3>4
  <2>5. CASE lua.at # "waiting"
    <3>1. jobs = Jobs
      <4>1. CASE lua.at = "script"
        BY <4>1 DEF Jobs, Called, Inv, JobInv
      <4>2. CASE lua.at # "script"
        <5>1. Called = {lua.d} /\ lua.d # Null
          BY <2>3, <2>5, <4>2 DEF Called, Jobs
        <5> QED BY <5>1 DEF Jobs
      <4> QED BY <4>1, <4>2
    <3>2. Outstanding = Ongoing
      <4> HIDE DEF jobs
      <4> QED BY <2>2, <3>1 DEF Ongoing
    <3> QED BY <2>1, <3>2
  <2> QED BY <2>4, <2>5
<1> QED
  BY InvHolds, <1>1, PTL

(* wait() never sleeps for a data that is neither finished nor with the    *)
(* database thread while that runs, for any number of queries and data.    *)
THEOREM WaitAlwaysAnswered == Spec => []WaitIsAnswered
<1>1. Inv => WaitIsAnswered
  BY DEF Inv, FailInv
<1> QED
  BY InvHolds, <1>1, PTL

-----------------------------------------------------------------------------
(* The life of a started data *)

\* What a step does to the data that were started: nothing, ...
Stays ==
    /\ Range(queryQueue') = Range(queryQueue) /\ UNCHANGED <<cur, finished, failed>>
    /\ \A d \in Data : ~Added(d) => resultStatus'[d] = resultStatus[d]

\* ... one more is queued, ...
Starts ==
    /\ built' = built + 1 /\ built' \in Data
    /\ Range(queryQueue') = Range(queryQueue) \cup {built'}
    /\ UNCHANGED <<cur, finished, resultStatus, failed>>

\* ... some of the queue are aborted, ...
Aborts(D) ==
    /\ Range(queryQueue') = Range(queryQueue) \ D /\ finished' = finished \cup D
    /\ UNCHANGED <<cur, resultStatus, failed>>

\* ... one is taken, ...
Takes ==
    /\ cur = Null /\ cur' \in Data
    /\ Range(queryQueue) = {cur'} \cup Range(queryQueue') /\ cur' \notin Range(queryQueue')
    /\ UNCHANGED <<finished, resultStatus, failed>>

\* ... the one that is executed gets its result, ...
Reports ==
    /\ failed' = failed
    /\ cur \in Data /\ cur' = Null
    /\ Range(queryQueue') = Range(queryQueue) /\ finished' = finished \cup {cur}
    /\ resultStatus'[cur] \in {"SUCCESS", "ERROR"}
    /\ \A d \in Data : d # cur /\ ~Added(d) => resultStatus'[d] = resultStatus[d]

\* ... or wait() fails one.
FailsOne(d) == Fails(d) /\ UNCHANGED <<queryQueue, cur>>

(* The data thread's own data is not one of its members.                   *)
LEMMA WritesAdded ==
    ASSUME Inv, DatabaseThread, NEW d \in Data, d # cur, ~Added(d)
    PROVE  resultStatus'[d] = resultStatus[d]
<1>1. cur \in Data => d \notin Members(cur)
  BY DEF Added
<1> QED
  BY <1>1, ThreadFrame DEF Inv

(* Steps that are not the database thread's.                               *)
LEMMA LuaMoves ==
    ASSUME Inv, [Next]_vars, ~DatabaseThread
    PROVE  \/ Stays \/ Starts \/ \E D \in SUBSET Range(queryQueue) : Aborts(D)
           \/ \E d \in 1..built : FailsOne(d)
<1>0. TypeOK /\ \A o \in Query \cup Tx : runningQueryData[o] \in Seq(Data)
  BY DEF Inv, TypeOK
<1>1. ASSUME NEW o \in Query \cup Tx, Abort(o)
      PROVE  \E D \in SUBSET Range(queryQueue) : Aborts(D)
  <2> DEFINE removed == removeIf(runningQueryData[o], Data \ Range(queryQueue))
  <2>1. /\ queryQueue' = removeIf(queryQueue, Range(removed))
        /\ finished' = finished \cup Range(removed) /\ UNCHANGED <<cur, resultStatus, failed>>
    BY <1>1 DEF Abort, Aborting, threadVars, connection
  <2>2. Range(removed) = Range(runningQueryData[o]) \cap Range(queryQueue)
    <3>1. Range(runningQueryData[o]) \subseteq Data
      BY <1>0 DEF Range
    <3> QED BY <1>0, <3>1, RemoveOnce
  <2> HIDE DEF removed
  <2>3. Range(queryQueue') = Range(queryQueue) \ Range(removed)
    BY <2>1, JobsTypes, RemoveOnce
  <2> QED BY <2>1, <2>2, <2>3 DEF Aborts
<1>2. ASSUME NEW o \in Query \cup Tx, (o \in Query /\ StartQuery(o)) \/ (o \in Tx /\ StartTransaction(o))
      PROVE  Starts
  <2>1. /\ New(o) /\ queryQueue' = put(queryQueue, built + 1)
        /\ UNCHANGED <<cur, finished, resultStatus, failed>>
    BY <1>2 DEF StartQuery, Starting, StartTransaction, Enqueue, threadVars, resultVars, connection
  <2>2. built + 1 \in Data /\ built' = built + 1
    BY <1>0, <2>1, NewLemma
  <2>3. Range(put(queryQueue, built + 1)) = Range(queryQueue) \cup {built + 1}
    BY <2>2, JobsTypes, PutOnce
  <2> QED BY <2>1, <2>2, <2>3 DEF Starts
<1>3. CASE \/ \E t \in Tx : ClearQueries(t)
           \/ \E t \in Tx, q \in Query : AddQuery(t, q)
           \/ \E q \in Query : GetData(q) \/ GetNextResults(q)
           \/ Callbacks \/ Connect \/ UNCHANGED vars
  <2>1. UNCHANGED <<queryQueue, cur, finished, resultStatus, failed>>
    BY <1>3 DEF ClearQueries, AddQuery, GetData, GetNextResults, NextResults, Callbacks,
       RunSuccess, RunTransactionSuccess, RunError, RunUnreferenced, ThinkNext, OnDataReturns,
       RunAborted, CallbackReturns, WaitReturns, Connect, vars, threadVars, resultVars, connection
  <2> QED BY <2>1 DEF Stays
<1>4. CASE Failing
  <2>1. UNCHANGED <<queryQueue, cur>>
    BY <1>4, FailLemma DEF threadVars
  <2>2. CASE UNCHANGED <<resultVars, finishedQueries, failed>>
    BY <2>1, <2>2 DEF Stays, resultVars
  <2>3. CASE \E d \in 1..built : Fails(d)
    BY <2>1, <2>3 DEF FailsOne
  <2> QED BY <1>4, <2>2, <2>3, FailLemma
<1> QED
  BY <1>1, <1>2, <1>3, <1>4 DEF Next, Call, Failing

(* Steps of the database thread.                                           *)
LEMMA ThreadMoves ==
    ASSUME Inv, DatabaseThread
    PROVE  Stays \/ Takes \/ Reports
<1>0. /\ TypeOK /\ failed' = failed /\ cur \in Data \cup {Null} /\ \A d \in Range(queryQueue) : ~Precedes(queryQueue, d, d)
      /\ cur # Null => cur \in Data /\ ~Added(cur)
  BY JobsTypes, ThreadFrame DEF Inv, JobInv, Jobs
<1>1. CASE Take
  <2>1. /\ cur = Null /\ NonEmpty(queryQueue) /\ cur' = Head(queryQueue)
        /\ queryQueue' = Tail(queryQueue) /\ UNCHANGED <<finished, resultStatus>>
    BY <1>1 DEF Take, resultVars
  <2>2. /\ cur' \in Data /\ Range(queryQueue) = {cur'} \cup Range(queryQueue')
        /\ cur' \notin Range(queryQueue')
    BY <1>0, <2>1, JobsTypes, TakeOnce
  <2> QED BY <1>0, <2>1, <2>2 DEF Takes
<1>2. CASE Execute \/ Commit \/ Fail
  <2>1. cur \in Data /\ UNCHANGED queryQueue
    BY <1>0, <1>2 DEF Execute, Commit, Fail
  <2>2. \E r : Report(r) /\ r[cur] \in {"SUCCESS", "ERROR"}
    <3>1. resultStatus \in [Data -> {"NONE", "ERROR", "SUCCESS"}]
      BY <1>0 DEF TypeOK
    <3>2. CASE Execute
      <4>1. PICK r \in {"SUCCESS", "ERROR"} : Report([resultStatus EXCEPT ![cur] = r])
        BY <3>2 DEF Execute
      <4> DEFINE status == [resultStatus EXCEPT ![cur] = r]
      <4>2. status[cur] = r
        BY <2>1, <3>1
      <4>3. Report(status)
        BY <4>1
      <4> HIDE DEF status
      <4> QED BY <4>2, <4>3
    <3>3. CASE Commit
      BY <2>1, <3>1, <3>3 DEF Commit
    <3>4. CASE Fail
      <4> DEFINE unexecuted == {m_queries[cur][i] : i \in (member - 1)..Len(m_queries[cur])}
                 status == [d \in Data |-> IF d \in unexecuted \cup {cur} THEN "ERROR"
                                                                       ELSE resultStatus[d]]
      <4>1. Report(status)
        BY <3>4 DEF Fail
      <4>2. status[cur] = "ERROR"
        BY <2>1
      <4> QED BY <4>1, <4>2
    <3> QED BY <1>2, <3>2, <3>3, <3>4
  <2>3. /\ cur' = Null /\ finished' = finished \cup {cur}
        /\ resultStatus'[cur] \in {"SUCCESS", "ERROR"}
    BY <2>2 DEF Report
  <2> QED BY <1>0, <2>1, <2>3, WritesAdded DEF Reports
<1>3. CASE Begin \/ ExecuteMember
  <2>1. cur \in Data /\ ~Added(cur) /\ UNCHANGED <<queryQueue, cur, finished>>
    BY <1>0, <1>3 DEF Begin, ExecuteMember
  <2>2. cur \notin Members(cur)
    BY <2>1 DEF Added
  <2>3. resultStatus'[cur] = resultStatus[cur]
    <3>1. CASE Begin
      BY <2>1, <2>2, <3>1 DEF Begin
    <3>2. CASE ExecuteMember
      <4>1. member - 1 \in DOMAIN m_queries[cur]
        BY <1>0, <2>1, <3>2 DEF ExecuteMember, TypeOK
      <4>2. m_queries[cur][member - 1] # cur
        BY <2>2, <4>1 DEF Members, Range
      <4> QED BY <1>0, <2>1, <3>2, <4>2 DEF ExecuteMember, TypeOK
    <3> QED BY <1>3, <3>1, <3>2
  <2> QED BY <1>0, <2>1, <2>3, WritesAdded DEF Stays
<1> QED
  BY <1>1, <1>2, <1>3 DEF DatabaseThread

\* A data is not queued or executed again when it is finished, has its result
\* from then on, and was not built by addQuery; until wait() fails it.
LifeInv ==
    /\ \A d \in finished :
          /\ d \in 1..built
          /\ failed[d] = None => ~Added(d) /\ d # cur /\ d \notin Range(queryQueue)
    /\ \A d \in Range(queryQueue) \cup ({cur} \ {Null}) : failed[d] = None => resultStatus[d] = "NONE"

(* What is known of the started data, and of those that are to be built.   *)
LEMMA JobsKnown ==
    ASSUME Inv
    PROVE  /\ \A d \in Range(queryQueue) \cup ({cur} \ {Null}) :
                 d \in Data /\ d \in 1..built /\ ~Added(d)
           /\ cur \notin Range(queryQueue)
           /\ \A d \in Data : d > built => /\ ~Added(d) /\ d # cur /\ d \notin Range(queryQueue)
                                           /\ resultStatus[d] = "NONE" /\ failed[d] = None
           /\ \A d \in 1..built : d \in Data
           /\ \A d \in Data : failed[d] # "executing"
           /\ Null \notin Data /\ built \in Nat
<1>1. /\ \A d \in Range(queryQueue) \cup ({cur} \ {Null}) : d \in 1..built /\ ~Added(d)
      /\ cur \notin Range(queryQueue) /\ TypeOK /\ DataInv /\ built \in Nat
  BY DEF Inv, JobInv, Jobs, TypeOK
<1>2. /\ \A d \in 1..built : d \in Data
      /\ \A d \in Data : Members(d) \subseteq 1..built
      /\ \A t \in Tx : Range(m_addedQueryData[t]) \subseteq 1..built
  BY <1>1, KnownData
<1>3. Null \notin Data /\ \A d \in Data : d \in Nat
  BY DEF Null, Data
<1>4. \A d \in Data : d > built => d \notin 1..built /\ d # Null
  BY <1>1, <1>3
<1>5. \A d \in Data : d > built => ~Added(d)
  BY <1>2, <1>4 DEF Added
<1>6. \A d \in Data : d > built => d # cur /\ d \notin Range(queryQueue)
  BY <1>1, <1>4
<1>7. \A d \in Data : failed[d] # "executing"
  BY DEF Inv, FailInv, None
<1> QED
  BY <1>1, <1>2, <1>3, <1>5, <1>6, <1>7 DEF DataInv

(* Every step preserves LifeInv.                                           *)
LEMMA LifeInvKept == Inv /\ LifeInv /\ [Next]_vars => LifeInv'
<1> SUFFICES ASSUME Inv, LifeInv, [Next]_vars PROVE LifeInv'
  OBVIOUS
<1>0. /\ \A d \in Range(queryQueue) \cup ({cur} \ {Null}) :
            d \in Data /\ d \in 1..built /\ ~Added(d)
      /\ cur \notin Range(queryQueue)
      /\ \A d \in Data : d > built => /\ ~Added(d) /\ d # cur /\ d \notin Range(queryQueue)
                                      /\ resultStatus[d] = "NONE" /\ failed[d] = None
      /\ \A d \in 1..built : d \in Data
      /\ Null \notin Data /\ built \in Nat
  BY JobsKnown
<1>1. /\ built' \in {built, built + 1}
      /\ \A d \in 1..built : d \in 1..built' /\ (Added(d)' => Added(d))
  BY AddedKept
<1>2. \A d \in Data : d > built' => d > built /\ d # built'
  BY <1>0, <1>1 DEF Data
<1>3. /\ \A d \in finished : d \in 1..built' /\ (failed[d] = None => ~Added(d)')
      /\ \A d \in Range(queryQueue) \cup ({cur} \ {Null}) : d \in 1..built' /\ ~Added(d)'
  BY <1>0, <1>1 DEF LifeInv
<1>4. CASE Stays
  BY <1>0, <1>2, <1>3, <1>4 DEF LifeInv, Stays
<1>5. CASE Starts
  <2>1. built' \notin finished /\ resultStatus[built'] = "NONE"
    BY <1>0, <1>5 DEF LifeInv, Starts
  <2> QED BY <1>0, <1>2, <1>3, <1>5, <2>1 DEF LifeInv, Starts
<1>6. ASSUME NEW D \in SUBSET Range(queryQueue), Aborts(D) PROVE LifeInv'
  BY <1>0, <1>2, <1>3, <1>6 DEF LifeInv, Aborts
<1>7. CASE Takes
  BY <1>0, <1>2, <1>3, <1>7 DEF LifeInv, Takes
<1>8. CASE Reports
  <2>1. cur # Null
    BY <1>0, <1>8 DEF Reports
  <2> QED BY <1>0, <1>2, <1>3, <1>8, <2>1 DEF LifeInv, Reports
<1>9. ASSUME NEW e \in 1..built, FailsOne(e) PROVE LifeInv'
  <2>1. /\ e \in 1..built' /\ failed'[e] # None /\ finished' = finished \cup {e}
        /\ \A x \in Data \ {e} : failed'[x] = failed[x] /\ resultStatus'[x] = resultStatus[x]
    BY <1>1, <1>9, FailsLemma DEF FailsOne
  <2> QED BY <1>0, <1>3, <1>9, <2>1 DEF LifeInv, FailsOne
<1> QED
  BY <1>4, <1>5, <1>6, <1>7, <1>8, <1>9, LuaMoves, ThreadMoves

(* Every step of queries and transactions is a step of QueryLifecycle or   *)
(* leaves the stages alone.                                                *)
LEMMA LifecycleStep == Inv /\ LifeInv /\ [Next]_vars => [Lifecycle!Next]_Stages
<1> SUFFICES ASSUME Inv, LifeInv, [Next]_vars PROVE [Lifecycle!Next]_Stages
  OBVIOUS
<1> DEFINE Moved(D, s) == Stages' = [d \in Data |-> IF d \in D THEN s ELSE Stages[d]]
<1> USE DEF Lifecycle!In, Lifecycle!Move
<1>0. /\ Stages = [d \in Data |-> StageOf(d)] /\ Stages' = [d \in Data |-> StageOf(d)']
      /\ \A d \in Data : resultStatus[d] \in {"NONE", "ERROR", "SUCCESS"}
  BY DEF Stages, Inv, TypeOK
<1>1. /\ \A d \in Range(queryQueue) \cup ({cur} \ {Null}) :
            d \in Data /\ ~Added(d) /\ (failed[d] = None => resultStatus[d] = "NONE")
      /\ cur \notin Range(queryQueue) /\ Null \notin Data /\ built \in Nat
      /\ \A d \in Data : d > built => /\ d # cur /\ d \notin Range(queryQueue)
                                      /\ resultStatus[d] = "NONE" /\ failed[d] = None
      /\ \A d \in finished :
            /\ d \in 1..built
            /\ failed[d] = None => ~Added(d) /\ d # cur /\ d \notin Range(queryQueue)
      /\ \A d \in Data : failed[d] # "executing"
  BY JobsKnown DEF LifeInv
<1>2. CASE Stays
  <2>1. \A d \in Data : StageOf(d)' = StageOf(d)
    BY <1>1, <1>2 DEF Stays, StageOf
  <2> QED BY <1>0, <2>1
<1>3. CASE Starts
  <2>1. built' \in Data /\ StageOf(built') = "new"
    BY <1>1, <1>3 DEF Starts, StageOf
  <2>2. Moved({built'}, "queued")
    BY <1>0, <1>1, <1>3, <2>1 DEF Starts, StageOf
  <2> QED BY <1>0, <2>1, <2>2 DEF Lifecycle!Next, Lifecycle!Accept
<1>4. ASSUME NEW D \in SUBSET Range(queryQueue), Aborts(D) PROVE Lifecycle!Next
  <2> DEFINE E == {d \in D : failed[d] = None}
  <2>1. \A d \in E : d \in Data /\ Stages[d] = "queued"
    BY <1>0, <1>1 DEF StageOf
  <2>2. Moved(E, "aborted")
    BY <1>0, <1>1, <1>4 DEF Aborts, StageOf
  <2>3. E \in SUBSET {d \in Data : Stages[d] = "queued"}
    BY <2>1
  <2> QED BY <2>2, <2>3 DEF Lifecycle!Next, Lifecycle!Abort
<1>5. CASE Takes
  <2>1. \A d \in Data : Stages[d] # "executing"
    BY <1>0, <1>1, <1>5 DEF Takes, StageOf
  <2>2. CASE failed[cur'] = None
    <3>1. cur' \in Data /\ Stages[cur'] = "queued"
      BY <1>0, <1>1, <1>5, <2>2 DEF Takes, StageOf
    <3>2. Moved({cur'}, "executing")
      BY <1>0, <1>1, <1>5, <2>2 DEF Takes, StageOf
    <3> QED BY <2>1, <3>1, <3>2 DEF Lifecycle!Next, Lifecycle!Execute
  <2>3. CASE failed[cur'] # None
    <3>1. \A d \in Data : StageOf(d)' = StageOf(d)
      BY <1>1, <1>5, <2>3 DEF Takes, StageOf
    <3> QED BY <1>0, <3>1
  <2> QED BY <2>2, <2>3
<1>6. CASE Reports
  <2>1. CASE failed[cur] = None
    <3>1. cur \in Data /\ Stages[cur] = "executing"
      BY <1>0, <1>6, <2>1 DEF Reports, StageOf
    <3>2. Moved({cur}, resultStatus'[cur]) /\ resultStatus'[cur] \in {"SUCCESS", "ERROR"}
      BY <1>0, <1>1, <1>6, <2>1 DEF Reports, StageOf
    <3> QED BY <3>1, <3>2 DEF Lifecycle!Next, Lifecycle!Result
  <2>2. CASE failed[cur] # None
    <3>1. \A d \in Data : StageOf(d)' = StageOf(d)
      BY <1>1, <1>6, <2>2 DEF Reports, StageOf
    <3> QED BY <1>0, <3>1
  <2> QED BY <2>1, <2>2
<1>7. ASSUME NEW e \in 1..built, FailsOne(e) PROVE Stages' = Stages
  <2>1. /\ e \in Data /\ failed'[e] = StageOf(e) /\ failed'[e] # None
        /\ \A x \in Data \ {e} : failed'[x] = failed[x] /\ resultStatus'[x] = resultStatus[x]
        /\ finished' = finished \cup {e} /\ UNCHANGED <<queryQueue, cur>>
    BY <1>7, FailsLemma DEF FailsOne
  <2>2. StageOf(e)' = StageOf(e)
    BY <2>1 DEF StageOf
  <2>3. \A d \in Data \ {e} : StageOf(d)' = StageOf(d)
    BY <2>1 DEF StageOf
  <2> QED BY <1>0, <2>2, <2>3
<1> QED
  BY <1>2, <1>3, <1>4, <1>5, <1>6, <1>7, LuaMoves, ThreadMoves

(* Queries and transactions implement QueryLifecycle: what their data say  *)
(* of themselves tells how often each was executed and how it ended, for   *)
(* any number of starts, transactions and shared queries, until wait()     *)
(* fails them.                                                             *)
THEOREM ResultsImplementLifecycle == Spec => ImplementsLifecycle
<1>1. Init => LifeInv /\ Lifecycle!Init
  <2> SUFFICES ASSUME Init PROVE LifeInv /\ Stages = [d \in Data |-> "new"]
    BY DEF Lifecycle!Init
  <2>1. Range(queryQueue) = {} /\ cur = Null /\ finished = {} /\ Null \notin Data
        /\ \A d \in Data : resultStatus[d] = "NONE" /\ failed[d] = None
    BY DEF Init, Range, Null, Data
  <2> QED BY <2>1 DEF LifeInv, Stages, StageOf
<1>2. Inv /\ LifeInv /\ [Next]_vars => LifeInv' /\ [Lifecycle!Next]_Stages
  BY LifeInvKept, LifecycleStep
<1> QED
  BY <1>1, <1>2, InvHolds, PTL DEF Spec, ImplementsLifecycle, Lifecycle!Spec
=============================================================================
