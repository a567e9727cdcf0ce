------------------------- MODULE MCSqliteConnection -------------------------
(* Instances of SqliteConnection for TLC; the .cfg files give the constants. *)
EXTENDS SqliteConnection, TLC

MCOn == [op \in Ops |-> Con]

\* Operations, threads, handles and statements are interchangeable.
Symmetry ==
    Permutations(Ops) \cup Permutations(Threads)
        \cup Permutations(Handles) \cup Permutations(Stmts)
==============================================================================
