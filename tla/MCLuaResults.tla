----------------------------- MODULE MCLuaResults -----------------------------
(* Small instances of LuaResults for TLC.                                  *)
EXTENDS LuaResults, TLC

\* The queries are interchangeable, and nothing here is a liveness property.
QuerySymmetry == Permutations(Query)
===============================================================================
