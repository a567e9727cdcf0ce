----------------------------- MODULE MultiPrepare -----------------------------
(***************************************************************************)
(* sqlite::_multi_prepare: the loop behind prepare_multiple, which         *)
(* compiles the statements of a SQL source one after the other.            *)
(*                                                                         *)
(* The source is a sequence of pieces: a statement, a piece SQLite         *)
(* refuses, or blank text (spaces, comments, lone semicolons).  Pointers   *)
(* into it are counts of pieces; remaining is a size_t of SizeBits bits.   *)
(*                                                                         *)
(* SQLite is external.  sqlite3_prepare_v2 compiles the first statement it *)
(* finds and points its tail past it; if there is only blank text left, or *)
(* nothing, the statement is null, the result is SQLITE_OK and the tail    *)
(* points to the end of the source.  It never makes the tail null.         *)
(***************************************************************************)
EXTENDS Integers, Sequences

CONSTANTS
    MaxPieces,  \* bounds the length of the source
    MaxCalls,   \* bounds the loop, which has no end of its own
    SizeBits    \* the width of size_t

\* A string's size is a size_t.
ASSUME MultiPrepareAssumption ==
    /\ MaxPieces \in Nat /\ MaxCalls \in Nat /\ SizeBits \in Nat
    /\ MaxPieces < 2^SizeBits

VARIABLES
    source,     \* the argument
    connected,  \* _private->db is not null
    pc,         \* where the function is
    cur_ptr,    \* pieces before cur_ptr
    remaining,  \* size_t
    ret,        \* the vector of statements: indices of pieces, 0 for a null one
    e           \* the error_code& argument

vars == <<source, connected, pc, cur_ptr, remaining, ret, e>>

Sources == UNION {[1..n -> {"statement", "bad", "blank"}] : n \in 0..MaxPieces}

MultiTypeOK ==
    /\ source \in Sources
    /\ connected \in BOOLEAN
    /\ pc \in {"entry", "loop", "returned"}
    /\ cur_ptr \in 0..Len(source)
    /\ remaining \in 0..(2^SizeBits - 1)
    /\ ret \in Seq(0..Len(source))
    /\ e \in {"ok", "not_connected", "error"}

Init ==
    /\ source \in Sources
    /\ connected \in BOOLEAN
    /\ pc = "entry"
    /\ cur_ptr = 0
    /\ remaining = 0
    /\ ret = <<>>
    /\ e = "ok"

\* The pieces from cur_ptr, remaining many of them, that are not blank.
Ahead == {i \in (cur_ptr + 1)..Len(source) :
            i <= cur_ptr + remaining /\ source[i] # "blank"}

Return(statements, error) ==
    /\ pc' = "returned"
    /\ ret' = statements
    /\ e' = error

Enter ==
    /\ pc = "entry"
    /\ IF connected
       THEN /\ pc' = "loop"
            /\ remaining' = Len(source)
            /\ UNCHANGED <<ret, e>>
       ELSE /\ Return(<<>>, "not_connected")
            /\ UNCHANGED remaining
    /\ UNCHANGED <<source, connected, cur_ptr>>

GoAround_KeepsRemaining(s, next_ptr) ==
    /\ ret' = Append(ret, s)
    /\ cur_ptr' = next_ptr
    /\ UNCHANGED <<pc, e, remaining>>

\* The distance is taken from the start of the source, in a signed integer.
GoAround_FromStart(s, next_ptr) ==
    /\ ret' = Append(ret, s)
    /\ remaining' = remaining - next_ptr
    /\ cur_ptr' = next_ptr
    /\ UNCHANGED <<pc, e>>

GoAround_PushFront(s, next_ptr) ==
    /\ ret' = <<s>> \o ret
    /\ remaining' = (remaining + 2^SizeBits - (next_ptr - cur_ptr)) % 2^SizeBits
    /\ cur_ptr' = next_ptr
    /\ UNCHANGED <<pc, e>>

\* The rest of an iteration: keep the statement; next_ptr is not null, so
\* remaining -= std::distance(cur_ptr, next_ptr); cur_ptr = next_ptr.
GoAround(s, next_ptr) ==
    /\ ret' = Append(ret, s)
    /\ remaining' = (remaining + 2^SizeBits - (next_ptr - cur_ptr)) % 2^SizeBits
    /\ cur_ptr' = next_ptr
    /\ UNCHANGED <<pc, e>>

\* The statements before the refused one are returned with the error.
GivenBack_WhatItHas == ret

\* return {}: what was compiled so far is finalized with the vector.
GivenBack == <<>>

\* sqlite3_prepare_v2(_private->db, cur_ptr, remaining, &p->st, &next_ptr)
\* and what the loop does with its result.
CompileNothing ==
    /\ Ahead = {}
    /\ GoAround(0, Len(source))

CompileFirst(i) ==
    /\ \A j \in Ahead : i <= j
    /\ \/ /\ source[i] = "statement"
          /\ GoAround(i, i)
       \/ /\ source[i] = "bad"
          /\ Return(GivenBack, "error")
          /\ UNCHANGED <<cur_ptr, remaining>>

Compile ==
    /\ pc = "loop"
    /\ Len(ret) < MaxCalls
    /\ CompileNothing \/ \E i \in Ahead : CompileFirst(i)
    /\ UNCHANGED <<source, connected>>

\* The function has returned, or goes on beyond the bound.
Done ==
    /\ pc = "returned" \/ Len(ret) = MaxCalls
    /\ UNCHANGED vars

Next == Enter \/ Compile \/ Done

Spec == Init /\ [][Next]_vars
-----------------------------------------------------------------------------
(* Properties.                                                             *)

\* cur_ptr and remaining always delimit the rest of the source: the size_t
\* never wraps, however statements and blank text follow each other.
WindowIsRest == pc = "loop" => cur_ptr + remaining = Len(source)

\* A statement comes right after the one before it, with only blank text between
\* them, and a null one only when there is only blank text left.
InOrderAt(k) ==
    LET last == IF k = 1 THEN 0 ELSE ret[k - 1]
    IN  IF ret[k] = 0
        THEN k = 1 \/ last # 0 =>
                 \A i \in (last + 1)..Len(source) : source[i] = "blank"
        ELSE /\ k = 1 \/ last # 0
             /\ last < ret[k] /\ source[ret[k]] = "statement"
             /\ \A i \in (last + 1)..(ret[k] - 1) : source[i] = "blank"

\* The statements compiled so far are the first ones of the source, in order
\* and each once; null ones only come after the last.
StatementsInOrder == \A k \in 1..Len(ret) : InOrderAt(k)

\* An error is reported exactly when the source has a piece SQLite refuses, or
\* there is no database; then no statement is handed out.
AllOrNothing ==
    pc = "returned" =>
        /\ ret = <<>>
        /\ e = IF connected THEN "error" ELSE "not_connected"
        /\ connected => \E i \in 1..Len(source) : source[i] = "bad"

\* "There's another statement to compile. Go around again": the loop goes
\* around when there is something left.
GoesAroundForAStatement ==
    [][pc = "loop" /\ pc' = "loop" => remaining' # 0]_vars
==============================================================================
