------------------------- MODULE BlockingQueueProofs -------------------------
(***************************************************************************)
(* What the operations of BlockingQueue keep and change, for queues of any *)
(* length and elements of any kind.                                        *)
(***************************************************************************)
EXTENDS BlockingQueue, FiniteSetTheorems, WellFoundedInduction, TLAPS

\* No element but a poison pill (n) is in the queue twice.
NoneTwice(q, n) == \A i, j \in DOMAIN q : q[i] = q[j] /\ q[i] # n => i = j

\* Some x is in the queue before some y.
Precedes(q, x, y) == \E i, j \in DOMAIN q : i < j /\ q[i] = x /\ q[j] = y

\* The order of the naturals as a set of pairs.
LessThan == {ss \in Nat \X Nat : ss[1] < ss[2]}

(* A set of naturals that is not empty has a least element.                *)
LEMMA LeastNatLemma ==
    ASSUME NEW T \in SUBSET Nat, NEW k \in T
    PROVE  \E i \in T : \A j \in T : i <= j
<1>1. IsWellFoundedOn(LessThan, Nat)
  BY NatLessThanWellFounded, Zenon DEF OpToRel, LessThan
<1>2. PICK i \in T : \A j \in T : ~ (<<j, i>> \in LessThan)
  BY <1>1, WFMin
<1>3. ASSUME NEW j \in T PROVE i <= j
  <2>1. <<j, i>> \in LessThan <=> j < i
    BY DEF LessThan
  <2> QED BY <2>1, <1>2
<1> QED BY <1>3

(* ... and a bounded one has a greatest.                                   *)
LEMMA GreatestNatLemma ==
    ASSUME NEW n \in Nat, NEW D \in SUBSET (1..n), D # {}
    PROVE  \E d \in D : \A e \in D : d >= e
<1> DEFINE T == {n - d : d \in D}
<1>1. T \in SUBSET Nat /\ \E k : k \in T
  <2>1. PICK d : d \in D
    OBVIOUS
  <2>2. n - d \in T
    BY <2>1
  <2>3. \A t \in T : t \in Nat
    OBVIOUS
  <2> QED BY <2>2, <2>3
<1>2. PICK i \in T : \A j \in T : i <= j
  <2> HIDE DEF T
  <2> QED BY <1>1, LeastNatLemma
<1>3. PICK d \in D : i = n - d
  OBVIOUS
<1>4. \A e \in D : d >= e
  <2> TAKE e \in D
  <2>1. n - e \in T
    OBVIOUS
  <2> QED BY <1>2, <1>3, <2>1
<1> QED BY <1>4

(* put() adds its element and nothing else.                                *)
LEMMA PutLemma ==
    ASSUME NEW S, NEW q \in Seq(S), NEW e \in S, NEW n
    PROVE  /\ put(q, e) \in Seq(S)
           /\ Range(put(q, e)) = Range(q) \cup {e}
           /\ NoneTwice(q, n) /\ (e = n \/ e \notin Range(q))
                => NoneTwice(put(q, e), n)
           /\ \A x, y : Precedes(put(q, e), x, y)
                => Precedes(q, x, y) \/ (x \in Range(q) /\ y = e)
<1>1. /\ put(q, e) \in Seq(S)
      /\ DOMAIN put(q, e) = 1..(Len(q) + 1) /\ DOMAIN q = 1..Len(q)
      /\ Len(q) \in Nat
      /\ \A i \in 1..Len(q) : put(q, e)[i] = q[i]
      /\ put(q, e)[Len(q) + 1] = e
  BY DEF put
<1>2. Range(put(q, e)) = Range(q) \cup {e}
  BY <1>1 DEF Range
<1>3. ASSUME NoneTwice(q, n), e = n \/ e \notin Range(q)
      PROVE  NoneTwice(put(q, e), n)
  <2> SUFFICES ASSUME NEW i \in DOMAIN put(q, e), NEW j \in DOMAIN put(q, e),
                      put(q, e)[i] = put(q, e)[j], put(q, e)[i] # n
               PROVE  i = j
    BY DEF NoneTwice
  <2>1. CASE i \in 1..Len(q) /\ j \in 1..Len(q)
    BY <2>1, <1>1, <1>3 DEF NoneTwice
  <2>2. CASE i = Len(q) + 1 \/ j = Len(q) + 1
    BY <2>2, <1>1, <1>3 DEF Range
  <2> QED BY <2>1, <2>2, <1>1
<1>4. ASSUME NEW x, NEW y, Precedes(put(q, e), x, y)
      PROVE  Precedes(q, x, y) \/ (x \in Range(q) /\ y = e)
  <2>1. PICK i \in 1..(Len(q) + 1), j \in 1..(Len(q) + 1) :
          i < j /\ put(q, e)[i] = x /\ put(q, e)[j] = y
    BY <1>1, <1>4 DEF Precedes
  <2>2. i \in 1..Len(q) /\ q[i] = x
    BY <1>1, <2>1
  <2>3. CASE j \in 1..Len(q)
    BY <1>1, <2>1, <2>2, <2>3 DEF Precedes
  <2>4. CASE j = Len(q) + 1
    BY <1>1, <2>1, <2>2, <2>4 DEF Range
  <2> QED BY <2>1, <2>3, <2>4, <1>1
<1> QED BY <1>1, <1>2, <1>3, <1>4

(* take() moves the first element out of the queue; a queue without        *)
(* doubles does not hold it any more.                                      *)
LEMMA TakeLemma ==
    ASSUME NEW S, NEW q \in Seq(S), NonEmpty(q), NEW n
    PROVE  /\ Tail(q) \in Seq(S) /\ Head(q) \in S
           /\ Range(q) = {Head(q)} \cup Range(Tail(q))
           /\ NoneTwice(q, n) => NoneTwice(Tail(q), n)
           /\ NoneTwice(q, n) /\ Head(q) # n => Head(q) \notin Range(Tail(q))
           /\ \A x, y : Precedes(Tail(q), x, y) => Precedes(q, x, y)
           /\ \A y \in Range(Tail(q)) : Precedes(q, Head(q), y)
<1>1. /\ Tail(q) \in Seq(S) /\ Head(q) \in S /\ Head(q) = q[1]
      /\ Len(q) \in Nat \ {0} /\ DOMAIN q = 1..Len(q)
      /\ DOMAIN Tail(q) = 1..(Len(q) - 1)
      /\ \A i \in 1..(Len(q) - 1) : Tail(q)[i] = q[i + 1]
  BY DEF NonEmpty
<1>2. ASSUME NEW e \in Range(q) PROVE e \in {Head(q)} \cup Range(Tail(q))
  <2>1. PICK i \in 1..Len(q) : q[i] = e
    BY <1>1 DEF Range
  <2>2. CASE i = 1
    BY <2>1, <2>2, <1>1
  <2>3. CASE i # 1
    <3>1. i - 1 \in DOMAIN Tail(q) /\ Tail(q)[i - 1] = e
      BY <2>1, <2>3, <1>1
    <3> QED BY <3>1 DEF Range
  <2> QED BY <2>2, <2>3
<1>3. ASSUME NEW e \in Range(Tail(q)) PROVE \E i \in 2..Len(q) : q[i] = e
  <2>1. PICK i \in 1..(Len(q) - 1) : Tail(q)[i] = e
    BY <1>1 DEF Range
  <2>2. i + 1 \in 2..Len(q) /\ q[i + 1] = e
    BY <2>1, <1>1
  <2> QED BY <2>2
<1>4. Range(q) = {Head(q)} \cup Range(Tail(q))
  <2>1. Head(q) \in Range(q)
    BY <1>1 DEF Range
  <2>2. ASSUME NEW e \in Range(Tail(q)) PROVE e \in Range(q)
    <3>1. PICK i \in 2..Len(q) : q[i] = e
      BY <1>3, <2>2
    <3>2. i \in DOMAIN q
      BY <3>1, <1>1
    <3> QED BY <3>1, <3>2 DEF Range
  <2> QED BY <1>2, <2>1, <2>2
<1>5. NoneTwice(q, n) => NoneTwice(Tail(q), n)
  <2> SUFFICES ASSUME NoneTwice(q, n),
                      NEW i \in 1..(Len(q) - 1), NEW j \in 1..(Len(q) - 1),
                      Tail(q)[i] = Tail(q)[j], Tail(q)[i] # n
               PROVE  i = j
    BY <1>1 DEF NoneTwice
  <2>1. i + 1 \in DOMAIN q /\ j + 1 \in DOMAIN q /\ q[i + 1] = q[j + 1]
        /\ q[i + 1] # n
    BY <1>1
  <2> QED BY <2>1 DEF NoneTwice
<1>6. NoneTwice(q, n) /\ Head(q) # n => Head(q) \notin Range(Tail(q))
  BY <1>1, <1>3 DEF NoneTwice
<1>7. ASSUME NEW x, NEW y, Precedes(Tail(q), x, y) PROVE Precedes(q, x, y)
  <2>1. PICK i \in 1..(Len(q) - 1), j \in 1..(Len(q) - 1) :
          i < j /\ Tail(q)[i] = x /\ Tail(q)[j] = y
    BY <1>1, <1>7 DEF Precedes
  <2>2. /\ i + 1 \in DOMAIN q /\ j + 1 \in DOMAIN q /\ i + 1 < j + 1
        /\ q[i + 1] = x /\ q[j + 1] = y
    BY <1>1, <2>1
  <2> QED BY <2>2 DEF Precedes
<1>8. ASSUME NEW y \in Range(Tail(q)) PROVE Precedes(q, Head(q), y)
  <2>1. PICK i \in 2..Len(q) : q[i] = y
    BY <1>3, <1>8
  <2>2. 1 \in DOMAIN q /\ i \in DOMAIN q /\ 1 < i /\ q[1] = Head(q)
    BY <1>1, <2>1
  <2> QED BY <2>1, <2>2 DEF Precedes
<1> QED BY <1>1, <1>4, <1>5, <1>6, <1>7, <1>8

(* swapToFrontIf() only reorders: the same elements stay in the queue.     *)
LEMMA SwapLemma ==
    ASSUME NEW S, NEW q \in Seq(S), NEW e, NEW n
    PROVE  /\ swapToFrontIf(q, e) \in Seq(S)
           /\ Range(swapToFrontIf(q, e)) = Range(q)
           /\ NoneTwice(q, n) => NoneTwice(swapToFrontIf(q, e), n)
           /\ e \in Range(q) => Head(swapToFrontIf(q, e)) = e
<1> DEFINE r == swapToFrontIf(q, e)
           p == FirstPos(q, e)
<1>1. CASE e \notin Range(q)
  BY <1>1 DEF swapToFrontIf
<1>2. CASE e \in Range(q)
  <2>1. Len(q) \in Nat /\ DOMAIN q = 1..Len(q)
    OBVIOUS
  <2>2. PICK k \in DOMAIN q : q[k] = e
    BY <1>2 DEF Range
  <2> DEFINE Hits == {i \in DOMAIN q : q[i] = e}
  <2>3. \E i \in Hits : \A j \in Hits : i <= j
    <3>1. Hits \in SUBSET Nat /\ k \in Hits
      BY <2>1, <2>2
    <3> HIDE DEF Hits
    <3> QED BY <3>1, LeastNatLemma
  <2>4. p \in DOMAIN q /\ q[p] = e
    BY <2>3 DEF FirstPos
  <2>5. r = [q EXCEPT ![1] = e, ![p] = q[1]] /\ 1 \in DOMAIN q
    BY <1>2, <2>1, <2>4 DEF swapToFrontIf
  <2> HIDE DEF r, p
  <2>6. /\ r \in Seq(S) /\ DOMAIN r = DOMAIN q
        /\ r[1] = q[p] /\ r[p] = q[1]
        /\ \A i \in DOMAIN q : i # 1 /\ i # p => r[i] = q[i]
    BY <2>1, <2>4, <2>5
  <2>7. Range(r) = Range(q)
    BY <2>4, <2>5, <2>6 DEF Range
  <2>8. NoneTwice(q, n) => NoneTwice(r, n)
    BY <2>4, <2>5, <2>6 DEF NoneTwice
  <2>9. Head(r) = e
    BY <2>4, <2>5, <2>6
  <2> QED BY <2>6, <2>7, <2>8, <2>9 DEF r
<1> QED BY <1>1, <1>2

(* removeIf() removes the given elements wherever they are, and no others. *)
LEMMA RemoveLemma ==
    ASSUME NEW S, NEW q \in Seq(S), NEW E, NEW n
    PROVE  /\ removeIf(q, E) \in Seq(S)
           /\ Range(removeIf(q, E)) = Range(q) \ E
           /\ NoneTwice(q, n) => NoneTwice(removeIf(q, E), n)
           /\ \A x, y : Precedes(removeIf(q, E), x, y) => Precedes(q, x, y)
<1> DEFINE K == Kept(q, E)
           m == Cardinality(K)
           r == removeIf(q, E)
           rank == [i \in K |-> Rank(q, E, i)]
           Pos(k) == CHOOSE i \in K : Rank(q, E, i) = k
<1>1. /\ Len(q) \in Nat /\ DOMAIN q = 1..Len(q)
      /\ K \in SUBSET (1..Len(q)) /\ IsFiniteSet(K) /\ m \in Nat
  <2>1. Len(q) \in Nat /\ DOMAIN q = 1..Len(q) /\ K \in SUBSET (1..Len(q))
    BY DEF Kept
  <2>2. IsFiniteSet(1..Len(q))
    BY <2>1, FS_Interval
  <2>3. IsFiniteSet(K)
    BY <2>1, <2>2, FS_Subset
  <2> QED BY <2>1, <2>3, FS_CardinalityType
<1>13. (\A i \in K : i \in Nat) /\ (\A k \in 1..m : k \in Nat)
  <2> HIDE DEF K, m
  <2> QED BY <1>1
<1>2. ASSUME NEW i \in K
      PROVE  /\ IsFiniteSet({k \in K : k <= i})
             /\ Rank(q, E, i) = Cardinality({k \in K : k <= i})
             /\ Rank(q, E, i) \in 1..m
  <2>1. {k \in K : k <= i} \in SUBSET K /\ i \in {k \in K : k <= i}
    BY <1>1
  <2>2. /\ IsFiniteSet({k \in K : k <= i})
        /\ Cardinality({k \in K : k <= i}) \in Nat
        /\ Cardinality({k \in K : k <= i}) <= m
        /\ Cardinality({k \in K : k <= i}) # 0
    BY <1>1, <2>1, FS_Subset, FS_CardinalityType, FS_EmptySet
  <2> QED BY <1>1, <2>2 DEF Rank
<1>3. ASSUME NEW i \in K, NEW j \in K, i < j
      PROVE  Rank(q, E, i) < Rank(q, E, j)
  <2> DEFINE A == {k \in K : k <= i}
             B == {k \in K : k <= j}
  <2>1. A \in SUBSET B /\ j \in B /\ j \notin A
    BY <1>1, <1>3
  <2>2. IsFiniteSet(B)
    BY <1>2
  <2>3. /\ Cardinality(A) <= Cardinality(B) /\ Cardinality(A) # Cardinality(B)
        /\ Cardinality(A) \in Nat /\ Cardinality(B) \in Nat
    <3> HIDE DEF A, B
    <3> QED BY <2>1, <2>2, FS_Subset, FS_CardinalityType
  <2>4. Rank(q, E, i) = Cardinality(A) /\ Rank(q, E, j) = Cardinality(B)
    BY <1>2
  <2> HIDE DEF A, B
  <2> QED BY <2>3, <2>4
<1>4. ASSUME NEW i \in K, NEW j \in K, Rank(q, E, i) = Rank(q, E, j)
      PROVE  i = j
  <2>1. i \in Nat /\ j \in Nat /\ Rank(q, E, i) \in Nat /\ Rank(q, E, j) \in Nat
    <3>1. Rank(q, E, i) \in 1..m /\ Rank(q, E, j) \in 1..m
      BY <1>2
    <3> HIDE DEF K, m
    <3> QED BY <1>13, <3>1
  <2>2. ~ (i < j) /\ ~ (j < i)
    BY <1>3, <1>4, <2>1
  <2> QED BY <2>1, <2>2
<1>5. ASSUME NEW k \in 1..m PROVE \E i \in K : Rank(q, E, i) = k
  <2> SUFFICES ASSUME \A i \in K : Rank(q, E, i) # k PROVE FALSE
    OBVIOUS
  <2> DEFINE T == (1..m) \ {k}
  <2>1. IsFiniteSet(T) /\ Cardinality(T) < m
    <3>1. IsFiniteSet(1..m) /\ Cardinality(1..m) = m
      BY <1>1, FS_Interval
    <3>2. IsFiniteSet(T) /\ Cardinality(T) = Cardinality(1..m) - 1
      BY <3>1, FS_RemoveElement
    <3> QED BY <1>1, <3>1, <3>2
  <2>2. rank \in [K -> T]
    BY <1>2
  <2>3. \E x, y \in K : x # y /\ rank[x] = rank[y]
    <3> HIDE DEF T, rank, K
    <3> QED BY <1>1, <2>1, <2>2, FS_PigeonHole
  <2> QED BY <2>3, <1>4
<1>6. ASSUME NEW k \in 1..m
      PROVE  Pos(k) \in K /\ Rank(q, E, Pos(k)) = k
  BY <1>5
<1>7. r = [k \in 1..m |-> q[Pos(k)]]
  BY DEF removeIf
<1>8. K = {i \in DOMAIN q : q[i] \notin E}
  BY DEF Kept
<1> HIDE DEF K, m, r, Pos, rank
<1>9. r \in Seq(S) /\ DOMAIN r = 1..m
  <2>1. \A k \in 1..m : q[Pos(k)] \in S
    BY <1>6, <1>8
  <2>2. DOMAIN r = 1..m /\ \A k \in 1..m : r[k] = q[Pos(k)]
    BY <1>7
  <2>3. r = [k \in 1..m |-> r[k]]
    BY <1>7
  <2>4. r \in [1..m -> S]
    BY <2>1, <2>2, <2>3
  <2> QED BY <2>2, <2>4, <1>1
<1>10. Range(r) = Range(q) \ E
  <2>1. ASSUME NEW x \in Range(r) PROVE x \in Range(q) \ E
    BY <1>6, <1>7, <1>8, <1>9 DEF Range
  <2>2. ASSUME NEW x \in Range(q) \ E PROVE x \in Range(r)
    <3>1. PICK i \in K : q[i] = x
      BY <1>8 DEF Range
    <3>2. Rank(q, E, i) \in 1..m /\ Pos(Rank(q, E, i)) = i
      BY <1>2, <1>4, <1>6
    <3>3. r[Rank(q, E, i)] = x
      BY <3>1, <3>2, <1>7
    <3> QED BY <3>2, <3>3, <1>9 DEF Range
  <2> QED BY <2>1, <2>2
<1>11. NoneTwice(q, n) => NoneTwice(r, n)
  <2> SUFFICES ASSUME NoneTwice(q, n), NEW i \in 1..m, NEW j \in 1..m,
                      r[i] = r[j], r[i] # n
               PROVE  i = j
    BY <1>9 DEF NoneTwice
  <2>1. Pos(i) \in DOMAIN q /\ Pos(j) \in DOMAIN q /\ q[Pos(i)] = q[Pos(j)]
        /\ q[Pos(i)] # n
    BY <1>6, <1>7, <1>8
  <2>2. Pos(i) = Pos(j)
    BY <2>1 DEF NoneTwice
  <2> QED BY <2>2, <1>6
<1>12. ASSUME NEW x, NEW y, Precedes(r, x, y) PROVE Precedes(q, x, y)
  <2>1. PICK i \in 1..m, j \in 1..m : i < j /\ r[i] = x /\ r[j] = y
    BY <1>9, <1>12 DEF Precedes
  <2>2. /\ Pos(i) \in K /\ Pos(j) \in K
        /\ Rank(q, E, Pos(i)) = i /\ Rank(q, E, Pos(j)) = j
    BY <1>6
  <2>3. Pos(i) < Pos(j)
    <3>1. i # j /\ i \in Nat /\ j \in Nat
      BY <1>13, <2>1
    <3>2. Pos(i) \in Nat /\ Pos(j) \in Nat /\ Pos(i) # Pos(j)
      BY <1>13, <2>2, <3>1
    <3>3. ~ (Pos(j) < Pos(i))
      BY <1>3, <2>1, <2>2, <3>1
    <3> QED BY <3>2, <3>3
  <2>4. q[Pos(i)] = x /\ q[Pos(j)] = y
    BY <1>7, <2>1
  <2> QED BY <1>8, <2>2, <2>3, <2>4 DEF Precedes
<1> QED BY <1>9, <1>10, <1>11, <1>12 DEF r

(* ... and so for one element.                                             *)
LEMMA RemoveOneLemma ==
    ASSUME NEW S, NEW q \in Seq(S), NEW e, NEW n
    PROVE  /\ removeIf(q, {e}) \in Seq(S)
           /\ Range(removeIf(q, {e})) = Range(q) \ {e}
           /\ NoneTwice(q, n) => NoneTwice(removeIf(q, {e}), n)
           /\ \A x, y : Precedes(removeIf(q, {e}), x, y) => Precedes(q, x, y)
BY RemoveLemma
=============================================================================
