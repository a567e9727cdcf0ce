---------------------------- MODULE MCEmptyDriver ----------------------------
(* An instance of EmptyDriver for TLC; empty_contract.cfg gives the constants. *)
EXTENDS EmptyDriver
==============================================================================
