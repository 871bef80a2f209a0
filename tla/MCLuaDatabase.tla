---------------------------- MODULE MCLuaDatabase ----------------------------
(* Small instances of LuaDatabase for TLC.                                 *)
EXTENDS LuaDatabase
=============================================================================
