--------------------------- MODULE MCPreparedQuery ---------------------------
(* Small instances of PreparedQuery for TLC.                               *)
EXTENDS PreparedQuery, TLC

\* Queries, values and addresses are interchangeable.
Symmetry == Permutations(Query) \cup Permutations(Value) \cup Permutations(Stmt)
=============================================================================
