---------------------------- MODULE BlockingQueue ----------------------------
(***************************************************************************)
(* The operations of BlockingQueue<T> (src/BlockingQueue.h) on the value   *)
(* of backingQueue.  Every method holds the queue's mutex from its first   *)
(* to its last access, so each is one atomic function of that value.       *)
(* take() is split into its guard (NonEmpty, the predicate its condition   *)
(* variable waits for) and its two results, Head(q) and Tail(q).           *)
(*                                                                         *)
(* The predicates the callers pass to swapToFrontIf and removeIf compare   *)
(* an element with given values, so the value e, or the set E of values    *)
(* that are removed one after the other, stands for the predicate here.    *)
(***************************************************************************)
EXTENDS Naturals, Sequences, FiniteSets, Functions

put(q, e) == Append(q, e)

NonEmpty(q) == Len(q) > 0

\* std::find_if: the first position that holds e.
FirstPos(q, e) ==
    CHOOSE i \in DOMAIN q : q[i] = e /\ \A j \in DOMAIN q : q[j] = e => i <= j

\* Mutant: the back instead of the front.
swapToFrontIfBack(q, e) ==
    IF e \in Range(q)
    THEN [q EXCEPT ![Len(q)] = e, ![FirstPos(q, e)] = q[Len(q)]]
    ELSE q

\* The first e changes places with the front; nothing happens if it is the
\* front or if there is none.
swapToFrontIf(q, e) ==
    IF e \in Range(q)
    THEN [q EXCEPT ![1] = e, ![FirstPos(q, e)] = q[1]]
    ELSE q

\* std::remove_if and erase: every element of E goes, what stays keeps its
\* order, i.e. the n-th element of the result is the n-th one that is kept.
Kept(q, E) == {i \in DOMAIN q : q[i] \notin E}

Rank(q, E, i) == Cardinality({k \in Kept(q, E) : k <= i})

removeIf(q, E) ==
    [n \in 1..Cardinality(Kept(q, E)) |->
        q[CHOOSE i \in Kept(q, E) : Rank(q, E, i) = n]]
=============================================================================
