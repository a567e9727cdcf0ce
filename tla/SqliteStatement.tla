--------------------------- MODULE SqliteStatement ---------------------------
(***************************************************************************)
(* detail::sqlite_statement: one prepared statement, and the four ways its *)
(* owner can read it: the range-for of tests/sqlite.cpp over begin() and   *)
(* end(), the loop of the same file over connection::step and done(),      *)
(* execute, and async_step.  The calls may be mixed and repeated, and a    *)
(* loop left by a break or an exception, so each finds _done, the          *)
(* error_code and SQLite's virtual machine as the last one left them: the  *)
(* driver never calls sqlite3_reset.                                       *)
(*                                                                         *)
(* A row has one column here, which holds a value or NULL: current_row     *)
(* treats its columns one by one and fails if one fails.                   *)
(*                                                                         *)
(* SQLite is external.  sqlite3_step of a statement that has halted starts *)
(* it over; a statement compiled from blank text is a null sqlite3_stmt,   *)
(* which sqlite3_step and sqlite3_bind refuse as SQLITE_MISUSE; a          *)
(* statement can only be bound before its first step.                      *)
(***************************************************************************)
EXTENDS Naturals, Sequences

CONSTANT MaxRows    \* bounds the result of the statement

ASSUME MaxRowsAssumption == MaxRows \in Nat

VARIABLES
    st,         \* what _private->st is: a compiled statement or null
    cells,      \* the rows the statement yields each time it is run
    vm,         \* the virtual machine: "ready", on a "row", or "halted"
    pos,        \* rows it has yielded since it was started
    rc,         \* what sqlite3_step last returned
    done,       \* _done
    ec,         \* the error_code the client passes to the calls that take one
    reply,      \* how the last call ended
    loop,       \* the client's loop over the rows
    read,       \* history: the rows that loop has been given
    from,       \* history: the row SQLite was on when that loop began, or 0
    again,      \* history: _done was set when that loop began
    given,      \* history: the rows of SQLite's current pass over the result
                \*   that the client has been given, by whatever call
    excused     \* history: a row of this pass was taken and not given

stmtVars == <<st, cells>>
loopVars == <<loop, read, from, again>>
passVars == <<given, excused>>
vars     == <<stmtVars, vm, pos, rc, done, ec, reply, loopVars, passVars>>

Rows == 1..MaxRows

StmtTypeOK ==
    /\ st \in {"compiled", "null"}
    /\ cells \in UNION {[1..n -> {"value", "NULL"}] : n \in 0..MaxRows}
    /\ vm \in {"ready", "row", "halted"}
    /\ pos \in 0..Len(cells)
    /\ rc \in {"OK", "ROW", "DONE", "ERROR", "MISUSE"}
    /\ done \in BOOLEAN
    /\ ec \in {"ok", "error"}
    /\ reply \in {"void", "row", "no_row", "error", "system_error",
                  "logic_error", "terminated"}
    /\ loop \in {"none", "test", "at_row", "range_done", "stepping", "step_done"}
    /\ read \in UNION {[1..n -> Rows] : n \in 0..MaxRows}
    /\ from \in 0..MaxRows
    /\ again \in BOOLEAN
    /\ given \in UNION {[1..n -> Rows] : n \in 0..MaxRows}
    /\ excused \in BOOLEAN

Init ==
    /\ st \in {"compiled", "null"}
    /\ cells \in UNION {[1..n -> {"value", "NULL"}] : n \in 0..MaxRows}
    /\ st = "null" => cells = <<>>
    /\ vm = "ready"
    /\ pos = 0
    /\ rc = "OK"
    /\ done = FALSE
    /\ ec = "ok"
    /\ reply = "void"
    /\ loop = "none"
    /\ read = <<>>
    /\ from = 0
    /\ again = FALSE
    /\ given = <<>>
    /\ excused = FALSE

Running == reply # "terminated"

NotLooping == loop \in {"none", "range_done", "step_done"}

\* What the histories keep of the state in which a loop begins.
NoteStart ==
    /\ from' = pos
    /\ again' = done

\* What they keep of a step of SQLite that gives the client a row, or takes one
\* it does not give: they start over when the virtual machine does.
NotePass(gives, loses) ==
    /\ LET before == IF vm = "row" THEN given ELSE <<>>
       IN  given' = IF gives THEN Append(before, pos') ELSE before
    /\ excused' = ((vm = "row" /\ excused) \/ loses)

-----------------------------------------------------------------------------
(* SQLite.                                                                 *)

\* sqlite3_step
Sqlite3Step ==
    LET yielded == IF vm = "halted" THEN 0 ELSE pos
    IN  \/ /\ st = "null"
           /\ rc' = "MISUSE"
           /\ UNCHANGED <<vm, pos>>
        \/ /\ st = "compiled" /\ yielded < Len(cells)
           /\ rc' = "ROW" /\ vm' = "row" /\ pos' = yielded + 1
        \/ /\ st = "compiled" /\ yielded = Len(cells)
           /\ rc' = "DONE" /\ vm' = "halted" /\ pos' = 0
        \/ /\ st = "compiled"
           /\ rc' = "ERROR" /\ vm' = "halted" /\ pos' = 0

-----------------------------------------------------------------------------
(* What the calls share.                                                   *)

\* case SQLITE_DONE: _done = true
MarkDone == done' = (done \/ rc' = "DONE")

\* Every code of SQLite goes into ec.
ExecuteEc_Raw(e) == rc'

\* execute(ec), the rest of its switch: ROW clears ec, DONE leaves it alone.
ExecuteEc(e) ==
    CASE rc' = "DONE" -> e
      [] rc' = "ROW"  -> "ok"
      [] OTHER        -> "error"

\* current_row on row p, or off any row, where SQLite's columns are all NULL:
\* value(nullptr), meant as NULL, picks the constructor that takes a
\* std::string, which refuses a null pointer.
CurrentRow(v, p) ==
    IF v = "row" /\ cells[p] = "value" THEN "row" ELSE "logic_error"

\* An error ends the rows instead of being reported.
StepReply_ErrorIsEnd ==
    IF rc' \in {"ERROR", "MISUSE"} \/ done' THEN "no_row" ELSE CurrentRow(vm', pos')

\* step(st, ec): ec = {}; execute(ec); if (ec || st.done()) return row({});
\* return current_row();
StepReply ==
    IF ExecuteEc("ok") = "error" THEN "error"
    ELSE IF done' THEN "no_row"
    ELSE CurrentRow(vm', pos')

\* The switch of _advance: MISUSE terminates, an error throws.
AdvanceReply ==
    CASE rc' \in {"ROW", "DONE"} -> "void"
      [] rc' = "MISUSE"          -> "terminated"
      [] rc' = "ERROR"           -> "system_error"

-----------------------------------------------------------------------------
(* The range-for loop: auto it = begin(); it != end(); ++it.               *)

\* _is_end = _st._done
IsEnd_ByDoneFlag == done'

\* What _advance returns: this step, not an earlier one, met the end.
IsEnd == rc' = "DONE"

\* An iterator that catches the exception and stays where it was.
AfterThrow_Stays == loop

\* The exception of _advance leaves the client's loop.
AfterThrow == "none"

\* The iterator moves: _is_end = _st._advance().
Advance ==
    /\ Sqlite3Step
    /\ MarkDone
    /\ reply' = AdvanceReply
    /\ loop' = CASE reply' # "void"            -> AfterThrow
                 [] reply' = "void" /\ IsEnd  -> "range_done"
                 [] reply' = "void" /\ ~IsEnd -> "test"
    /\ NotePass(FALSE, FALSE)
    /\ UNCHANGED <<stmtVars, ec>>

\* begin(): the constructor of an iterator that is not the end does ++*this.
Begin ==
    /\ Running /\ NotLooping
    /\ read' = <<>>
    /\ NoteStart
    /\ Advance

\* operator*: the loop's body reads the row.
Dereference ==
    /\ Running /\ loop = "test"
    /\ reply' = CurrentRow(vm, pos)
    /\ IF reply' = "row"
       THEN /\ loop' = "at_row"
            /\ read' = Append(read, pos)
            /\ given' = Append(given, pos)
            /\ UNCHANGED excused
       ELSE /\ loop' = "none"
            /\ excused' = (excused \/ cells[pos] = "NULL")
            /\ UNCHANGED <<read, given>>
    /\ UNCHANGED <<stmtVars, vm, pos, rc, done, ec, from, again>>

\* operator++
Increment ==
    /\ Running /\ loop = "at_row"
    /\ Advance
    /\ UNCHANGED <<read, from, again>>

-----------------------------------------------------------------------------
(* connection::step.                                                       *)

\* The rows a step takes and is excused for not giving.
StepLoses == rc' = "ROW" /\ (done \/ cells[pos'] = "NULL")

\* for (row = con.step(st); !st.done(); row = con.step(st)): the step that
\* throws on errors.
StepLoop ==
    /\ Running
    /\ NotLooping \/ loop = "stepping"
    /\ Sqlite3Step
    /\ MarkDone
    /\ reply' = IF StepReply = "error" THEN "system_error" ELSE StepReply
    /\ IF loop = "stepping" THEN UNCHANGED <<from, again>> ELSE NoteStart
    /\ LET before == IF loop = "stepping" THEN read ELSE <<>>
       IN  read' = IF reply' = "row" THEN Append(before, pos') ELSE before
    /\ loop' = CASE reply' \in {"system_error", "logic_error"} -> "none"
                 [] reply' = "no_row" -> "step_done"
                 [] reply' = "row"    -> "stepping"
    /\ NotePass(reply' = "row", StepLoses)
    /\ UNCHANGED <<stmtVars, ec>>

\* step(st, ec), outside a loop.
StepOnce ==
    /\ Running /\ NotLooping
    /\ Sqlite3Step
    /\ MarkDone
    /\ reply' = StepReply
    /\ ec' = ExecuteEc("ok")
    /\ NotePass(reply' = "row", StepLoses)
    /\ UNCHANGED <<stmtVars, loopVars>>

\* async_step: the same on a pool thread.  The row is dropped; nothing catches
\* what current_row throws.
AsyncStep ==
    /\ Running /\ NotLooping
    /\ Sqlite3Step
    /\ MarkDone
    /\ reply' = CASE StepReply = "logic_error" -> "terminated"
                  [] StepReply = "error"       -> "error"
                  [] OTHER                     -> "void"
    /\ NotePass(FALSE, rc' = "ROW")
    /\ UNCHANGED <<stmtVars, ec, loopVars>>

\* The client leaves either loop at a row, or drops an iterator at a row it has
\* not read.
Break ==
    /\ Running /\ loop \in {"test", "at_row", "stepping"}
    /\ loop' = "none"
    /\ excused' = (excused \/ loop = "test")
    /\ UNCHANGED <<stmtVars, vm, pos, rc, done, ec, reply, read, from, again, given>>

-----------------------------------------------------------------------------
(* execute and bind.                                                       *)

\* execute(st, ec), with the ec of earlier calls.
Execute ==
    /\ Running /\ NotLooping
    /\ Sqlite3Step
    /\ MarkDone
    /\ ec' = ExecuteEc(ec)
    /\ reply' = IF ec' = "error" THEN "error" ELSE "void"
    /\ NotePass(FALSE, rc' = "ROW")
    /\ UNCHANGED <<stmtVars, loopVars>>

\* bind: SQLITE_MISUSE terminates.  The value and the index are left out.
Bind ==
    /\ Running /\ NotLooping
    /\ reply' = IF st = "null" \/ vm # "ready" THEN "terminated" ELSE "void"
    /\ UNCHANGED <<stmtVars, vm, pos, rc, done, ec, loopVars, passVars>>

\* The process is gone; nothing else ends the client's use of the statement.
Terminated == ~Running /\ UNCHANGED vars

Next ==
    \/ Begin \/ Dereference \/ Increment
    \/ StepLoop \/ StepOnce \/ AsyncStep \/ Break
    \/ Execute \/ Bind
    \/ Terminated

Spec == Init /\ [][Next]_vars
-----------------------------------------------------------------------------
(* Properties.                                                             *)

FirstRows(n) == [i \in 1..n |-> i]

\* The rows after the one SQLite was on when the loop began.
RowsLeft == [i \in 1..(Len(cells) - from) |-> from + i]

\* A range-for that runs to its end has been given, in order and once, every
\* row nobody had taken when it began: all of them the second time over too,
\* although nothing resets the statement; the rest of them when it resumes
\* what a broken loop or a step left; and whatever _done says by then.
RangeForSeesAll == loop = "range_done" => read = RowsLeft

\* So has the step loop, as long as _done was not set when it began.
StepLoopSeesAll == loop = "step_done" /\ ~again => read = RowsLeft

\* The driver loses no row of a pass, whatever mix of loops and calls made the
\* pass: at a row the client has been given every row up to it (a range-for
\* that has just moved gives it next), and once SQLite is at the end it has
\* been given all of them, in order and once.  The exceptions take something
\* the client does or is told: execute and async_step give no rows; an iterator
\* it drops unread takes its row along; a step throws at a NULL, and gives no
\* row once done() is set.
NoRowLost ==
    ~excused =>
        /\ vm = "row" => given = FirstRows(IF loop = "test" THEN pos - 1 ELSE pos)
        /\ rc = "DONE" => given = FirstRows(Len(cells))

\* A NULL column can be read: adio::null_t stands for it.
NullIsReadable == reply # "logic_error"
==============================================================================
