------------------------- MODULE SqliteStatementProofs -------------------------
(***************************************************************************)
(* Proofs about SqliteStatement for results of any length.                 *)
(*                                                                         *)
(* The loops are correct because what a loop has been given is, at every   *)
(* moment, the run of rows between the one SQLite was on when it began and *)
(* the one SQLite is on now (LoopInv).  What all calls together have been  *)
(* given of a pass of SQLite is followed on its own, step of SQLite by     *)
(* step of SQLite (PassInv).                                               *)
(***************************************************************************)
EXTENDS SqliteStatement, SequenceTheorems, TLAPS

\* The k rows after row f.
Run(f, k) == [i \in 1..k |-> f + i]

\* Between the rows of SQLite and those of the loop: a range-for that has moved
\* but not read is one row behind, and a step loop stops at the first _done.
LoopInv ==
    /\ IF vm = "row" THEN pos \in 1..Len(cells) ELSE pos = 0
    /\ from \in 0..Len(cells)
    /\ loop = "test" =>
        vm = "row" /\ pos > from /\ read = Run(from, pos - 1 - from)
    /\ loop \in {"at_row", "stepping"} =>
        vm = "row" /\ pos > from /\ read = Run(from, pos - from)
    /\ loop = "stepping" => ~done
    /\ loop = "range_done" => read = RowsLeft
    /\ loop = "step_done" /\ ~again => read = RowsLeft

\* Of a pass nobody is given more rows than SQLite has yielded, excused or not.
PassInv ==
    /\ NoRowLost
    /\ vm = "row" => rc # "DONE"
    /\ vm = "row" => Len(given) <= (IF loop = "test" THEN pos - 1 ELSE pos)

StmtIInv == StmtTypeOK /\ LoopInv /\ PassInv

-----------------------------------------------------------------------------
(* Rows.                                                                   *)

\* A result is a sequence of at most MaxRows rows.
LEMMA ResultIsSequence ==
    ASSUME NEW S, NEW f \in UNION {[1..n -> S] : n \in 0..MaxRows}
    PROVE  /\ f \in Seq(S) /\ Len(f) \in 0..MaxRows
           /\ f \in [1..Len(f) -> S]
<1> USE MaxRowsAssumption
<1>1. PICK n \in 0..MaxRows : f \in [1..n -> S]
  OBVIOUS
<1>2. n \in Nat
  OBVIOUS
<1>3. f \in Seq(S) /\ Len(f) = n
  BY <1>1, <1>2
<1> QED BY <1>1, <1>3

\* One more row makes a longer run of rows.
LEMMA RunOneMore ==
    ASSUME NEW f \in Nat, NEW k \in Nat
    PROVE  /\ Len(Run(f, k)) = k
           /\ Append(Run(f, k), f + k + 1) = Run(f, k + 1)
<1> DEFINE r == Run(f, k)
           a == Append(r, f + k + 1)
           b == Run(f, k + 1)
<1>1. r \in Seq(Nat) /\ Len(r) = k /\ \A i \in 1..k : r[i] = f + i
  BY DEF Run
<1>2. b \in Seq(Nat) /\ Len(b) = k + 1 /\ \A i \in 1..(k + 1) : b[i] = f + i
  BY DEF Run
<1>4. /\ a \in Seq(Nat) /\ Len(a) = k + 1
      /\ \A i \in 1..k : a[i] = r[i]
      /\ a[k + 1] = f + k + 1
  <2> HIDE DEF r
  <2> QED BY <1>1, AppendProperties
<1> HIDE DEF r, a, b
<1>5. ASSUME NEW i \in 1..Len(a) PROVE a[i] = b[i]
  <2>1. CASE i \in 1..k
    <3>1. a[i] = r[i] /\ r[i] = f + i
      BY <1>1, <1>4, <2>1
    <3>2. b[i] = f + i
      BY <1>2, <1>4
    <3> QED BY <3>1, <3>2
  <2>2. CASE i = k + 1
    <3>1. b[i] = f + (k + 1)
      BY <1>2, <2>2
    <3> QED BY <1>4, <2>2, <3>1
  <2> QED BY <1>4, <2>1, <2>2
<1>6. Len(a) = Len(b)
  BY <1>2, <1>4
<1>7. a = b
  BY <1>2, <1>4, <1>5, <1>6, SeqEqual
<1> QED BY <1>1, <1>7 DEF r, a, b

\* A run of no rows is the empty sequence.
LEMMA NoRun == \A f \in Nat : Run(f, 0) = <<>>
<1> SUFFICES ASSUME NEW f \in Nat PROVE Run(f, 0) = <<>>
  OBVIOUS
<1>1. Run(f, 0) \in Seq(Nat) /\ Len(Run(f, 0)) = 0
  BY DEF Run
<1> QED BY <1>1, EmptySeq

\* A run of rows that ends at a row fits into the history of a loop.
LEMMA RunFits ==
    ASSUME NEW f \in Nat, NEW k \in Nat, f + k <= MaxRows
    PROVE  Run(f, k) \in UNION {[1..n -> Rows] : n \in 0..MaxRows}
<1>1. k \in 0..MaxRows /\ \A i \in 1..k : f + i \in Rows
  BY MaxRowsAssumption DEF Rows
<1> QED BY <1>1 DEF Run

\* So does the empty history of a loop that begins.
LEMMA EmptyFits == <<>> \in UNION {[1..n -> Rows] : n \in 0..MaxRows}
<1>1. 0 \in Nat /\ 0 + 0 <= MaxRows
  BY MaxRowsAssumption
<1>2. Run(0, 0) \in UNION {[1..n -> Rows] : n \in 0..MaxRows}
  BY <1>1, RunFits
<1> QED BY <1>1, <1>2, NoRun

-----------------------------------------------------------------------------
(* The calls.                                                              *)

\* What SQLite answers, and where that leaves it.
LEMMA StepAnswers ==
    ASSUME StmtIInv, Sqlite3Step
    PROVE  /\ rc' \in {"ROW", "DONE", "ERROR", "MISUSE"}
           /\ rc' = "ROW" => vm' = "row" /\ pos' = pos + 1 /\ pos' \in 1..Len(cells)
           /\ rc' = "DONE" => vm' = "halted" /\ pos' = 0 /\ pos = Len(cells)
           /\ rc' = "ERROR" => vm' = "halted" /\ pos' = 0
           /\ rc' = "MISUSE" => vm' = vm /\ pos' = pos
           /\ Len(cells) \in 0..MaxRows /\ pos \in 0..Len(cells)
           /\ vm' \in {"ready", "row", "halted"} /\ pos' \in 0..Len(cells)
           /\ (IF vm' = "row" THEN pos' \in 1..Len(cells) ELSE pos' = 0)
<1>1. Len(cells) \in 0..MaxRows
  BY ResultIsSequence DEF StmtIInv, StmtTypeOK
<1>2. Len(cells) \in Nat /\ pos \in 0..Len(cells) /\ (vm # "row" => pos = 0)
      /\ (vm = "row" => pos \in 1..Len(cells))
  BY <1>1, MaxRowsAssumption DEF StmtIInv, StmtTypeOK, LoopInv
<1>3. vm \in {"ready", "row", "halted"}
  BY DEF StmtIInv, StmtTypeOK
<1> QED BY <1>1, <1>2, <1>3 DEF Sqlite3Step

\* What step answers: an error of SQLite, the end as _done has it, or the row
\* SQLite is on.
LEMMA StepReplies ==
    ASSUME StmtIInv, Sqlite3Step, MarkDone
    PROVE  /\ StepReply \in {"error", "no_row", "row", "logic_error"}
           /\ StepReply = "error" => rc' \in {"ERROR", "MISUSE"}
           /\ StepReply = "no_row" => done' /\ rc' \in {"ROW", "DONE"}
           /\ StepReply = "row" => rc' = "ROW" /\ ~done'
           /\ ExecuteEc("ok") \in {"ok", "error"} /\ ExecuteEc(ec) \in {"ok", "error"}
           /\ done' \in BOOLEAN
           /\ done' => done \/ rc' = "DONE"
<1>1. done \in BOOLEAN /\ ec \in {"ok", "error"}
  BY DEF StmtIInv, StmtTypeOK
<1>2. rc' \in {"ROW", "DONE", "ERROR", "MISUSE"}
  BY StepAnswers
<1>3. done' = (done \/ rc' = "DONE")
  BY DEF MarkDone
<1>4. /\ rc' = "DONE" => ExecuteEc("ok") = "ok" /\ ExecuteEc(ec) = ec
      /\ rc' = "ROW" => ExecuteEc("ok") = "ok" /\ ExecuteEc(ec) = "ok"
      /\ rc' \in {"ERROR", "MISUSE"} => ExecuteEc("ok") = "error" /\ ExecuteEc(ec) = "error"
  BY DEF ExecuteEc
<1>5. CurrentRow(vm', pos') \in {"row", "logic_error"}
  BY DEF CurrentRow
<1> HIDE DEF ExecuteEc, CurrentRow
<1> QED BY <1>1, <1>2, <1>3, <1>4, <1>5 DEF StepReply

\* A step gives the row it takes, unless it meets a NULL or finds _done set.
LEMMA StepGives ==
    ASSUME StmtIInv, Sqlite3Step, MarkDone, UNCHANGED cells,
           rc' = "ROW", ~StepLoses
    PROVE  StepReply = "row"
<1>1. ~done /\ done' = FALSE
  BY DEF StepLoses, MarkDone, StmtIInv, StmtTypeOK
<1>2. ExecuteEc("ok") = "ok"
  BY DEF ExecuteEc
<1>3. vm' = "row" /\ pos' \in 1..Len(cells)
  BY StepAnswers
<1>4. cells'[pos'] = "value"
  BY <1>3, ResultIsSequence DEF StepLoses, StmtIInv, StmtTypeOK
<1> QED BY <1>1, <1>2, <1>3, <1>4 DEF StepReply, CurrentRow

\* Rows given so far, and one more, fit into the history of a pass.
LEMMA GivenFits ==
    ASSUME NEW g \in UNION {[1..n -> Rows] : n \in 0..MaxRows}, NEW r \in Rows,
           Len(g) < MaxRows
    PROVE  /\ Append(g, r) \in UNION {[1..n -> Rows] : n \in 0..MaxRows}
           /\ Len(Append(g, r)) = Len(g) + 1
<1>1. g \in Seq(Rows) /\ Len(g) \in 0..MaxRows
  BY ResultIsSequence
<1>2. Append(g, r) \in Seq(Rows) /\ Len(Append(g, r)) = Len(g) + 1
  BY <1>1, AppendProperties
<1>3. Len(g) + 1 \in 0..MaxRows
  BY <1>1, MaxRowsAssumption
<1>4. Append(g, r) \in [1..(Len(g) + 1) -> Rows]
  <2> DEFINE a == Append(g, r)
  <2>1. a \in Seq(Rows) /\ Len(a) = Len(g) + 1
    BY <1>2
  <2> HIDE DEF a
  <2>2. a \in [1..Len(a) -> Rows]
    BY <2>1
  <2> QED BY <2>1, <2>2 DEF a
<1> QED BY <1>2, <1>3, <1>4

\* The rows of a pass are a run from the first on.
LEMMA FirstRowsRun == \A n \in Nat : FirstRows(n) = Run(0, n)
  BY DEF FirstRows, Run

\* A step of SQLite, made by a call that gives its row, is excused for it, or
\* leaves an iterator on it, accounts for the row.
LEMMA PassStep ==
    ASSUME StmtIInv, Sqlite3Step, UNCHANGED cells, loop # "test",
           NEW gives \in BOOLEAN, NEW loses \in BOOLEAN, NotePass(gives, loses),
           gives => rc' = "ROW" /\ loop' # "test",
           rc' = "ROW" /\ ~gives /\ ~loses => loop' = "test",
           loop' = "test" => rc' = "ROW"
    PROVE  /\ PassInv'
           /\ given' \in UNION {[1..n -> Rows] : n \in 0..MaxRows}
           /\ excused' \in BOOLEAN
<1> USE MaxRowsAssumption
<1> DEFINE before == IF vm = "row" THEN given ELSE <<>>
<1>1. /\ given' = IF gives THEN Append(before, pos') ELSE before
      /\ excused' = ((vm = "row" /\ excused) \/ loses)
  BY DEF NotePass
<1>2. /\ Len(cells) \in Nat /\ Len(cells) <= MaxRows
      /\ pos \in Nat /\ pos <= Len(cells)
      /\ vm # "row" => pos = 0
  BY StepAnswers DEF StmtIInv, LoopInv
<1>3. before \in UNION {[1..n -> Rows] : n \in 0..MaxRows}
  BY EmptyFits DEF StmtIInv, StmtTypeOK
<1>4. Len(before) \in Nat /\ Len(before) <= pos
  <2>1. Len(before) \in Nat
    BY <1>3, ResultIsSequence
  <2>2. CASE vm = "row"
    BY <2>1, <2>2 DEF StmtIInv, PassInv
  <2>3. CASE vm # "row"
    BY <1>2, <2>3
  <2> QED BY <2>1, <2>2, <2>3
<1>5. ~excused' => before = FirstRows(pos)
  <2>1. CASE vm = "row"
    BY <1>1, <2>1 DEF StmtIInv, PassInv, NoRowLost
  <2>2. CASE vm # "row"
    BY <1>2, <2>2, FirstRowsRun, NoRun
  <2> QED BY <2>1, <2>2
<1>6. excused' \in BOOLEAN
  BY <1>1 DEF StmtIInv, StmtTypeOK
<1> HIDE DEF before
<1>7. CASE rc' = "ROW"
  <2>1. vm' = "row" /\ pos' = pos + 1 /\ pos' \in Rows /\ pos < MaxRows
    BY <1>2, <1>7, StepAnswers DEF Rows
  <2>2. CASE gives
    <3>1. given' = Append(before, pos') /\ loop' # "test"
      BY <1>1, <2>2
    <3>2. /\ given' \in UNION {[1..n -> Rows] : n \in 0..MaxRows}
          /\ Len(given') = Len(before) + 1
      BY <1>2, <1>3, <1>4, <2>1, <3>1, GivenFits
    <3>3. ~excused' => given' = FirstRows(pos')
      <4>1. Append(Run(0, pos), 0 + pos + 1) = Run(0, pos + 1)
        BY <1>2, RunOneMore
      <4>2. 0 + pos + 1 = pos' /\ pos + 1 \in Nat
        BY <1>2, <2>1
      <4> QED BY <1>2, <1>5, <2>1, <3>1, <4>1, <4>2, FirstRowsRun
    <3>4. Len(given') <= pos'
      BY <1>2, <1>4, <2>1, <3>2
    <3> QED BY <1>6, <1>7, <2>1, <3>1, <3>2, <3>3, <3>4 DEF PassInv, NoRowLost
  <2>3. CASE ~gives
    <3>1. given' = before /\ (loses \/ loop' = "test")
      BY <1>1, <1>7, <2>3
    <3>2. pos' - 1 = pos
      BY <1>2, <2>1
    <3>3. loses => excused'
      BY <1>1
    <3>4. Len(given') <= pos' - 1 /\ Len(given') <= pos'
      BY <1>2, <1>4, <2>1, <3>1
    <3> QED BY <1>3, <1>5, <1>6, <1>7, <2>1, <3>1, <3>2, <3>3, <3>4 DEF PassInv, NoRowLost
  <2> QED BY <2>2, <2>3
<1>8. CASE rc' # "ROW"
  <2>1. given' = before /\ loop' # "test"
    BY <1>1, <1>8
  <2>2. /\ rc' = "DONE" => vm' = "halted" /\ pos = Len(cells)
        /\ vm' = "row" => rc' = "MISUSE" /\ pos' = pos
    BY <1>8, StepAnswers
  <2>3. NoRowLost'
    BY <1>5, <2>1, <2>2 DEF NoRowLost
  <2> QED BY <1>3, <1>4, <1>6, <2>1, <2>2, <2>3 DEF PassInv
<1> QED BY <1>7, <1>8

\* Counting the rows from f to n, and to the next one.
LEMMA RowCount ==
    \A f, n \in Nat : f <= n =>
        /\ n - f \in Nat /\ f + (n - f) = n
        /\ f + (n - f) + 1 = n + 1 /\ (n - f) + 1 = (n + 1) - f
  OBVIOUS

\* Every call, and the loops that make them, preserve StmtIInv.
LEMMA StmtIInvStep == StmtIInv /\ [Next]_vars => StmtIInv'
<1> SUFFICES ASSUME StmtIInv, [Next]_vars PROVE StmtIInv'
  OBVIOUS
<1> USE MaxRowsAssumption
<1> USE DEF StmtIInv, stmtVars, loopVars, passVars
<1>0. /\ Len(cells) \in 0..MaxRows /\ Len(cells) \in Nat /\ Len(cells) <= MaxRows
      /\ pos \in Nat /\ pos <= Len(cells)
      /\ from \in Nat /\ from <= Len(cells)
  <2>1. Len(cells) \in 0..MaxRows
    BY ResultIsSequence DEF StmtTypeOK
  <2>2. Len(cells) \in Nat /\ Len(cells) <= MaxRows
    BY <2>1
  <2>3. pos \in 0..Len(cells) /\ from \in 0..Len(cells)
    BY DEF StmtTypeOK, LoopInv
  <2> QED BY <2>1, <2>2, <2>3
<1>1. CASE Begin
  <2>1. /\ Sqlite3Step /\ MarkDone /\ reply' = AdvanceReply
        /\ read' = <<>> /\ from' = pos /\ loop # "test"
        /\ UNCHANGED <<st, cells, ec>> /\ again' = done
        /\ NotePass(FALSE, FALSE)
    BY <1>1 DEF Begin, Advance, NoteStart, NotLooping
  <2>2. /\ reply' \in {"void", "terminated", "system_error"}
        /\ loop' = IF reply' # "void" THEN "none"
                   ELSE IF rc' = "DONE" THEN "range_done" ELSE "test"
        /\ reply' = "void" => rc' \in {"ROW", "DONE"}
        /\ rc' = "ROW" => reply' = "void"
    BY <1>1, <2>1, StepAnswers DEF Begin, Advance, AdvanceReply, AfterThrow, IsEnd
  <2>3. pos \in Nat /\ from' \in 0..Len(cells) /\ read' = Run(from', 0)
    BY <1>0, <2>1, StepAnswers, NoRun
  <2>a. /\ PassInv' /\ excused' \in BOOLEAN
        /\ given' \in UNION {[1..n -> Rows] : n \in 0..MaxRows}
    BY <2>1, <2>2, PassStep
  <2>4. StmtTypeOK'
    <3>1. read' \in UNION {[1..n -> Rows] : n \in 0..MaxRows}
      BY <2>1, EmptyFits
    <3>2. from' \in 0..MaxRows
      BY <1>0, <2>3
    <3> QED BY <1>0, <2>1, <2>2, <2>a, <3>1, <3>2, StepAnswers DEF MarkDone, StmtTypeOK
  <2>5. LoopInv'
    BY <1>0, <2>1, <2>2, <2>3, StepAnswers
       DEF StmtTypeOK, LoopInv, RowsLeft, Run
  <2> QED BY <2>a, <2>4, <2>5
<1>2. CASE Dereference
  <2>1. /\ loop = "test"
        /\ reply' \in {"row", "logic_error"}
        /\ IF reply' = "row"
           THEN /\ loop' = "at_row" /\ read' = Append(read, pos)
                /\ given' = Append(given, pos) /\ UNCHANGED excused
           ELSE /\ loop' = "none" /\ UNCHANGED <<read, given>>
                /\ excused' = (excused \/ cells[pos] = "NULL")
        /\ UNCHANGED <<st, cells, vm, pos, rc, done, ec, from, again>>
        /\ vm = "row" /\ cells[pos] = "value" => reply' = "row"
    BY <1>2 DEF Dereference, CurrentRow
  <2>2. CASE reply' = "row"
    <3>1. /\ vm = "row" /\ pos \in 1..Len(cells) /\ from \in Nat /\ pos > from
          /\ read = Run(from, pos - 1 - from)
      BY <1>0, <2>1 DEF LoopInv
    <3>2. /\ pos - 1 - from \in Nat
          /\ from + (pos - 1 - from) + 1 = pos /\ (pos - 1 - from) + 1 = pos - from
      BY <1>0, <3>1
    <3>3. read' = Run(from, pos - from)
      BY <2>1, <2>2, <3>1, <3>2, RunOneMore
    <3>4. read' \in UNION {[1..n -> Rows] : n \in 0..MaxRows}
      <4>1. pos - from \in Nat /\ from + (pos - from) <= MaxRows
        BY <1>0, <3>1
      <4> QED BY <3>1, <3>3, <4>1, RunFits
    <3>a. /\ pos \in Rows /\ given' = Append(given, pos) /\ UNCHANGED excused
          /\ Len(given) \in Nat /\ Len(given) <= pos - 1 /\ Len(given) < MaxRows
      <4>1. Len(given) \in Nat
        BY ResultIsSequence DEF StmtTypeOK
      <4>2. Len(given) <= pos - 1
        BY <2>1, <3>1 DEF PassInv
      <4> QED BY <1>0, <2>1, <2>2, <3>1, <4>1, <4>2 DEF Rows
    <3>b. /\ given' \in UNION {[1..n -> Rows] : n \in 0..MaxRows}
          /\ Len(given') = Len(given) + 1
      BY <3>a, GivenFits DEF StmtTypeOK
    <3>c. ~excused => given' = FirstRows(pos)
      <4>1. pos - 1 \in Nat /\ 0 + (pos - 1) + 1 = pos /\ (pos - 1) + 1 = pos
        BY <1>0, <3>1
      <4>2. ~excused => given = Run(0, pos - 1)
        BY <2>1, <3>1, <4>1, FirstRowsRun DEF PassInv, NoRowLost
      <4> QED BY <1>0, <3>a, <4>1, <4>2, RunOneMore, FirstRowsRun
    <3>5. StmtTypeOK'
      BY <2>1, <2>2, <3>4, <3>b DEF StmtTypeOK
    <3>6. LoopInv'
      BY <2>1, <2>2, <3>1, <3>3 DEF LoopInv
    <3>7. PassInv'
      BY <1>0, <2>1, <2>2, <3>1, <3>a, <3>b, <3>c DEF PassInv, NoRowLost
    <3> QED BY <3>5, <3>6, <3>7
  <2>3. CASE reply' = "logic_error"
    <3>1. vm = "row" /\ pos \in 1..Len(cells)
      BY <2>1 DEF LoopInv
    <3>2. cells[pos] \in {"value", "NULL"}
      BY <3>1, ResultIsSequence DEF StmtTypeOK
    <3>3. excused' = TRUE
      BY <2>1, <2>3, <3>1, <3>2
    <3>4. Len(given) \in Nat
      BY ResultIsSequence DEF StmtTypeOK
    <3>5. PassInv'
      BY <1>0, <2>1, <2>3, <3>1, <3>3, <3>4 DEF PassInv, NoRowLost
    <3> QED BY <2>1, <2>3, <3>3, <3>5 DEF StmtTypeOK, LoopInv, RowsLeft
  <2> QED BY <2>1, <2>2, <2>3
<1>3. CASE Increment
  <2>1. /\ Sqlite3Step /\ MarkDone /\ reply' = AdvanceReply
        /\ loop = "at_row" /\ NotePass(FALSE, FALSE)
        /\ UNCHANGED <<st, cells, ec, read, from, again>>
    BY <1>3 DEF Increment, Advance
  <2>2. /\ reply' \in {"void", "terminated", "system_error"}
        /\ loop' = IF reply' # "void" THEN "none"
                   ELSE IF rc' = "DONE" THEN "range_done" ELSE "test"
        /\ reply' = "void" => rc' \in {"ROW", "DONE"}
        /\ rc' = "ROW" => reply' = "void"
    BY <1>3, <2>1, StepAnswers DEF Increment, Advance, AdvanceReply, AfterThrow, IsEnd
  <2>a. /\ PassInv' /\ excused' \in BOOLEAN
        /\ given' \in UNION {[1..n -> Rows] : n \in 0..MaxRows}
    BY <2>1, <2>2, PassStep
  <2>3. StmtTypeOK'
    BY <1>0, <2>1, <2>2, <2>a, StepAnswers DEF MarkDone, StmtTypeOK
  <2>4. pos \in Nat /\ pos + 1 - 1 - from = pos - from
    BY <1>0, <2>1, StepAnswers DEF LoopInv
  <2>5. LoopInv'
    BY <1>0, <2>1, <2>2, <2>4, StepAnswers DEF LoopInv, RowsLeft, Run
  <2> QED BY <2>a, <2>3, <2>5
<1>4. CASE StepLoop
  <2> DEFINE before == IF loop = "stepping" THEN read ELSE <<>>
  <2>1. /\ NotLooping \/ loop = "stepping"
        /\ loop # "test" /\ NotePass(reply' = "row", StepLoses)
        /\ Sqlite3Step /\ MarkDone
        /\ reply' = IF StepReply = "error" THEN "system_error" ELSE StepReply
        /\ read' = IF reply' = "row" THEN Append(before, pos') ELSE before
        /\ from' = IF loop = "stepping" THEN from ELSE pos
        /\ again' = IF loop = "stepping" THEN again ELSE done
        /\ UNCHANGED <<st, cells, ec>>
    BY <1>4 DEF StepLoop, NoteStart, NotLooping
  <2>2. /\ reply' \in {"system_error", "no_row", "row", "logic_error"}
        /\ reply' = "system_error" => rc' \in {"ERROR", "MISUSE"}
        /\ reply' = "no_row" => done'
        /\ reply' = "row" => rc' = "ROW" /\ ~done'
        /\ done' \in BOOLEAN /\ (done' => done \/ rc' = "DONE")
    BY <2>1, StepReplies
  <2>3. loop' = CASE reply' \in {"system_error", "logic_error"} -> "none"
                  [] reply' = "no_row" -> "step_done"
                  [] reply' = "row"    -> "stepping"
    BY <1>4 DEF StepLoop
  <2>4. /\ reply' \in {"system_error", "logic_error"} => loop' = "none"
        /\ reply' = "no_row" => loop' = "step_done"
        /\ reply' = "row" => loop' = "stepping"
    BY <2>3
  <2>5. from' \in Nat /\ from' <= pos
    BY <1>0, <2>1 DEF LoopInv
  <2>6. pos - from' \in Nat /\ from' + (pos - from') = pos
    BY <1>0, <2>5, RowCount
  <2>7. before = Run(from', pos - from')
    <3>1. CASE loop = "stepping"
      BY <2>1, <3>1 DEF LoopInv
    <3>2. CASE loop # "stepping"
      <4>1. from' = pos /\ pos - from' = 0
        BY <2>1, <2>5, <3>2
      <4> QED BY <2>5, <3>2, <4>1, NoRun
    <3> QED BY <3>1, <3>2
  <2>a. /\ PassInv' /\ excused' \in BOOLEAN
        /\ given' \in UNION {[1..n -> Rows] : n \in 0..MaxRows}
    <3>1. rc' = "ROW" /\ ~StepLoses => reply' = "row"
      BY <2>1, StepGives
    <3> HIDE DEF before
    <3> QED BY <2>1, <2>2, <2>4, <3>1, PassStep DEF StepLoses
  <2>8. CASE reply' = "row"
    <3>1. /\ pos' = pos + 1 /\ pos' \in 1..Len(cells) /\ vm' = "row"
      BY <2>1, <2>2, <2>8, StepAnswers
    <3>2. from' + (pos - from') + 1 = pos' /\ (pos - from') + 1 = pos' - from'
      BY <1>0, <2>5, <3>1, RowCount
    <3>3. read' = Run(from', pos' - from')
      <4>1. read' = Append(Run(from', pos - from'), pos')
        BY <2>1, <2>7, <2>8
      <4> HIDE DEF before
      <4> QED BY <2>5, <2>6, <3>2, <4>1, RunOneMore
    <3>4. read' \in UNION {[1..n -> Rows] : n \in 0..MaxRows}
      <4>1. pos' - from' \in Nat /\ from' + (pos' - from') <= MaxRows
        <5>1. pos' \in Nat /\ pos' <= MaxRows
          BY <1>0, <3>1
        <5>2. from' <= pos'
          BY <1>0, <2>5, <3>1
        <5> QED BY <2>5, <5>1, <5>2, RowCount
      <4> QED BY <2>5, <3>3, <4>1, RunFits
    <3> HIDE DEF before
    <3>5. from' \in 0..MaxRows /\ again' \in BOOLEAN
      BY <1>0, <2>1 DEF StmtTypeOK
    <3>6. StmtTypeOK'
      BY <2>1, <2>2, <2>4, <2>8, <2>a, <3>1, <3>4, <3>5, StepAnswers DEF StmtTypeOK
    <3>7. LoopInv'
      <4>1. loop' = "stepping" /\ ~done' /\ rc' = "ROW"
        BY <2>2, <2>4, <2>8
      <4>2. from' < pos'
        BY <1>0, <2>5, <3>1
      <4>3. from' \in 0..Len(cells)
        BY <1>0, <2>5
      <4> QED BY <2>1, <2>8, <3>1, <3>3, <4>1, <4>2, <4>3 DEF LoopInv
    <3> QED BY <2>a, <3>6, <3>7
  <2>9. CASE reply' # "row"
    <3>1. read' = Run(from', pos - from')
      BY <2>1, <2>7, <2>9
    <3>2. read' \in UNION {[1..n -> Rows] : n \in 0..MaxRows}
      <4>1. from' + (pos - from') <= MaxRows
        BY <1>0, <2>6
      <4> QED BY <2>5, <2>6, <3>1, <4>1, RunFits
    <3>3. loop' = "step_done" /\ ~again' => read' = RowsLeft'
      <4>0. SUFFICES ASSUME loop' = "step_done", ~again' PROVE read' = RowsLeft'
        OBVIOUS
      <4>1. ~done
        BY <2>1, <4>0 DEF LoopInv
      <4>2. reply' = "no_row"
        BY <2>2, <2>4, <4>0
      <4>3. pos = Len(cells)
        BY <2>1, <2>2, <4>1, <4>2, StepAnswers
      <4> QED BY <2>1, <3>1, <4>3 DEF RowsLeft, Run
    <3> HIDE DEF before
    <3>4. from' \in 0..MaxRows /\ again' \in BOOLEAN
      BY <1>0, <2>1 DEF StmtTypeOK
    <3>5. StmtTypeOK'
      BY <2>1, <2>2, <2>4, <2>9, <2>a, <3>2, <3>4, StepAnswers DEF StmtTypeOK
    <3>6. LoopInv'
      BY <2>1, <2>2, <2>4, <2>5, <2>9, <3>3, StepAnswers DEF LoopInv
    <3> QED BY <2>a, <3>5, <3>6
  <2> QED BY <2>8, <2>9
<1>5. ASSUME Running, NotLooping, Sqlite3Step, MarkDone,
             UNCHANGED <<st, cells, loop, read, from, again>>,
             ec' \in {"ok", "error"},
             reply' \in {"void", "row", "no_row", "error", "logic_error", "terminated"},
             NEW gives \in BOOLEAN, NEW loses \in BOOLEAN, NotePass(gives, loses),
             gives => rc' = "ROW", rc' = "ROW" => gives \/ loses
      PROVE  StmtIInv'
  <2>1. loop \notin {"test", "at_row", "stepping"}
    BY <1>5 DEF NotLooping
  <2>a. /\ PassInv' /\ excused' \in BOOLEAN
        /\ given' \in UNION {[1..n -> Rows] : n \in 0..MaxRows}
    BY <1>5, <2>1, PassStep
  <2>2. StmtTypeOK'
    BY <1>5, <2>a, StepAnswers, StepReplies DEF StmtTypeOK
  <2>3. LoopInv'
    BY <1>5, <2>1, StepAnswers DEF LoopInv, RowsLeft
  <2> QED BY <2>a, <2>2, <2>3
<1>6. CASE StepOnce
  <2>1. StepLoses \in BOOLEAN /\ (rc' = "ROW" => reply' = "row" \/ StepLoses)
    BY <1>6, StepGives DEF StepOnce, StepLoses
  <2> QED BY <1>5, <1>6, <2>1, StepReplies DEF StepOnce
<1>7. CASE AsyncStep
  <2>1. ec \in {"ok", "error"}
    BY DEF StmtTypeOK
  <2>2. reply' \in {"terminated", "error", "void"}
    BY <1>7 DEF AsyncStep
  <2> QED BY <1>5, <1>7, <2>1, <2>2 DEF AsyncStep
<1>8. CASE Execute
  BY <1>5, <1>8, StepReplies DEF Execute
<1>9. CASE Break
  <2>1. Len(given) \in Nat
    BY ResultIsSequence DEF StmtTypeOK
  <2>a. /\ loop' = "none" /\ excused' = (excused \/ loop = "test")
        /\ UNCHANGED <<vm, pos, rc, given, cells>>
    BY <1>9 DEF Break
  <2>b. NoRowLost'
    BY <2>a DEF PassInv, NoRowLost, FirstRows
  <2>c. pos - 1 <= pos
    BY <1>0
  <2>2. PassInv'
    BY <1>0, <2>1, <2>a, <2>b, <2>c DEF PassInv
  <2> QED BY <1>9, <2>2 DEF Break, StmtTypeOK, LoopInv, RowsLeft
<1>10. CASE Bind
  BY <1>10 DEF Bind, NotLooping, StmtTypeOK, LoopInv, RowsLeft, PassInv, NoRowLost
<1>11. CASE UNCHANGED vars
  BY <1>11 DEF vars, StmtTypeOK, LoopInv, RowsLeft, PassInv, NoRowLost
<1> QED BY <1>1, <1>2, <1>3, <1>4, <1>6, <1>7, <1>8, <1>9, <1>10, <1>11
        DEF Next, Terminated

-----------------------------------------------------------------------------
(* The theorems.                                                           *)

\* A new statement has been given to no loop.
LEMMA StmtInitially == Init => StmtIInv
<1> SUFFICES ASSUME Init PROVE StmtIInv
  OBVIOUS
<1> USE DEF Init
<1>1. cells \in UNION {[1..n -> {"value", "NULL"}] : n \in 0..MaxRows}
  OBVIOUS
<1>2. Len(cells) \in 0..MaxRows
  BY <1>1, ResultIsSequence
<1>3. Len(cells) \in Nat
  BY <1>2, MaxRowsAssumption
<1>4. read \in UNION {[1..n -> Rows] : n \in 0..MaxRows}
  BY EmptyFits
<1>5. 0 \in 0..Len(cells) /\ 0 \in 0..MaxRows
  BY <1>3, MaxRowsAssumption
<1>6. StmtTypeOK
  BY <1>1, <1>4, <1>5 DEF StmtTypeOK
<1>7. LoopInv
  BY <1>5 DEF LoopInv
<1>8. PassInv
  BY DEF PassInv, NoRowLost
<1> QED BY <1>6, <1>7, <1>8 DEF StmtIInv

\* What the loops have been given agrees with SQLite in every reachable state,
\* however the calls are mixed.
THEOREM StmtIInvHolds == Spec => []StmtIInv
  BY StmtInitially, StmtIInvStep, PTL DEF Spec

\* Every variable of the statement has its type in every reachable state.
THEOREM StmtTypeCorrect == Spec => []StmtTypeOK
<1>1. StmtIInv => StmtTypeOK
  BY DEF StmtIInv
<1> QED BY <1>1, StmtIInvHolds, PTL

\* A range-for that ends has been given every row that was left, in order and
\* once, for results of any length and after any mix of other calls.
THEOREM RangeForComplete == Spec => []RangeForSeesAll
<1>1. StmtIInv => RangeForSeesAll
  BY DEF StmtIInv, LoopInv, RangeForSeesAll
<1> QED BY <1>1, StmtIInvHolds, PTL

\* So has a step loop that began before _done was set.
THEOREM StepLoopComplete == Spec => []StepLoopSeesAll
<1>1. StmtIInv => StepLoopSeesAll
  BY DEF StmtIInv, LoopInv, StepLoopSeesAll
<1> QED BY <1>1, StmtIInvHolds, PTL

\* However loops and calls share a pass over the result, its rows have been given
\* once and in order, up to the one SQLite is on or to the end.
THEOREM RowsAccounted == Spec => []NoRowLost
<1>1. StmtIInv => NoRowLost
  BY DEF StmtIInv, PassInv
<1> QED BY <1>1, StmtIInvHolds, PTL
==============================================================================
