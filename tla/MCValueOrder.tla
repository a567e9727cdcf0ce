----------------------------- MODULE MCValueOrder -----------------------------
(* An instance of ValueOrder for TLC.  The chars are 0..3, and 2 and 3 are
   negative as signed ones. *)
EXTENDS ValueOrder

MCReals == {-1, 0, 1}
MCStrings == {<<>>, <<1>>, <<1, 1>>, <<1, 2>>, <<2>>, <<3>>}
MCWideStrings == {}
===============================================================================
