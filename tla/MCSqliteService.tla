--------------------------- MODULE MCSqliteService ---------------------------
(* Instances of SqliteService for TLC; the .cfg files give the constants.  *)
EXTENDS SqliteService, TLC

CONSTANTS o1, o2, o3, c1, c2

\* Two calls on the first connection, the third on the other.
MCOn == [op \in Ops |-> IF op = o3 THEN c2 ELSE c1]

\* The calls on one connection differ by nothing but the order they are
\* started in, threads by nothing at all: both may be permuted where no
\* liveness is checked.
Symmetry == Permutations({o1, o2}) \cup Permutations(Threads)
==============================================================================
