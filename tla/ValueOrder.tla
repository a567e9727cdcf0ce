------------------------------ MODULE ValueOrder ------------------------------
(***************************************************************************)
(* Three variables of type adio::value that a client assigns and compares: *)
(* what its containers and algorithms may assume of operator<, operator==  *)
(* and of the operators boost derives from them.                           *)
(***************************************************************************)
EXTENDS AdioValue

VARIABLES x, y, z

vars == <<x, y, z>>

Init ==
    /\ x = Null
    /\ y = Null
    /\ z = Null

\* The client assigns one of them.
Assign ==
    \E v \in Values :
        \/ x' = v /\ UNCHANGED <<y, z>>
        \/ y' = v /\ UNCHANGED <<x, z>>
        \/ z' = v /\ UNCHANGED <<x, y>>

Next == Assign

Spec == Init /\ [][Next]_vars
-----------------------------------------------------------------------------
(* Properties.                                                             *)

\* Without NaN, operator< is a strict total order whose equivalence is
\* operator==, as std::map<value, T> and std::sort require.
StrictTotalOrder ==
    \A v, w \in {x, y, z} : ~IsNaN(v) /\ ~IsNaN(w) =>
        /\ ~(Less(v, w) /\ Less(w, v))
        /\ Equal(v, w) <=> ~Less(v, w) /\ ~Less(w, v)
        /\ \A u \in {x, y, z} : Less(v, w) /\ Less(w, u) => Less(v, u)

\* Sorting puts the values of a type together, with NaN among the reals too:
\* nothing of another type is between two values of one type.
TypesStayTogether ==
    x.type = z.type /\ LessOrEqual(x, y) /\ LessOrEqual(y, z) => y.type = x.type
================================================================================
