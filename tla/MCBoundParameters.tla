-------------------------- MODULE MCBoundParameters --------------------------
(* Instances of BoundParameters for TLC.  The chars are 0..3, 2 and 3 are negative
   as signed ones, and the wide characters are 0..7: 1 and 6 fit a char. *)
EXTENDS BoundParameters

MCReals == {1}
MCStrings == {<<>>, <<1>>, <<2>>}
MCWideStrings == {<<1>>, <<2>>, <<5>>, <<6>>}

\* All types but the boost::optional of docs.hpp.
MCTypes == ClientTypes \ {"optional"}
MCOptional == {"optional", "text"}
==============================================================================
