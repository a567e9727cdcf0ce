---------------------------- MODULE MCMultiPrepare ----------------------------
(* Instances of MultiPrepare for TLC; the .cfg files give the bounds. *)
EXTENDS MultiPrepare
==============================================================================
