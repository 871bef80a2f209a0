----------------------------- MODULE MCDatabase -----------------------------
(* Small instances of Database for TLC; the .cfg files choose the bounds,  *)
(* the calls the client makes and the faults.                              *)
EXTENDS DatabaseProperties, TLC

\* Query objects are interchangeable.
QuerySymmetry == Permutations(Query)
=============================================================================
