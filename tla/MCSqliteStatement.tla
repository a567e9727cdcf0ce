-------------------------- MODULE MCSqliteStatement --------------------------
(* Instances of SqliteStatement for TLC; the .cfg files give MaxRows. *)
EXTENDS SqliteStatement
==============================================================================
