---------------------------- MODULE BoundParameters ----------------------------
(***************************************************************************)
(* The way of the client's objects through a statement that selects its    *)
(* own parameters: each object becomes an adio::value, is bound, comes     *)
(* back as a column of the row, and is read as some type of the client.    *)
(*                                                                         *)
(* SQLite is external.  It refuses to bind a statement that has been       *)
(* stepped (MISUSE) and an index out of range (RANGE); otherwise it clears *)
(* the parameter first, so that a text or blob it then refuses (NOMEM,     *)
(* TOOBIG) leaves NULL behind.  It stores NaN and a null pointer as NULL.  *)
(***************************************************************************)
EXTENDS AdioValue

CONSTANTS
    MaxParams,  \* bounds the number of parameters
    BoundTypes  \* the client's types in use

ASSUME BoundParametersAssumption ==
    /\ MaxParams \in Nat
    /\ BoundTypes \subseteq ClientTypes

VARIABLES
    params,     \* SQLite's parameters, values of the types it has
    row,        \* the adio::row read, once the statement is stepped
    stepped,    \* it has been stepped
    outcome,    \* how the last call ended
    nulled,     \* history: convert(T) -> base_type was called with a null T
    last,       \* history: the object each parameter was bound to
    got         \* history: what the last get asked for and gave

vars == <<params, row, stepped, outcome, nulled, last, got>>

Objects == UNION {ObjectsOf(t) : t \in BoundTypes}

None == Object("none", <<>>, FALSE)

NoGet == [column |-> 0, object |-> None]

Columns == {v \in Values : v.type # "datetime"}

BoundTypeOK ==
    /\ DOMAIN params \in {1..n : n \in 0..MaxParams}
    /\ \A i \in DOMAIN params : params[i] \in Columns
    /\ row = <<>> \/ DOMAIN row = DOMAIN params
    /\ \A i \in DOMAIN row : row[i] \in Columns \ {Null}
    /\ stepped \in BOOLEAN
    /\ outcome \in {"ok", "terminated", "aborted", "bad_alloc", "out_of_range",
                    "domain_error", "logic_error", "invalid_argument", "invalid_access"}
    /\ nulled \in BOOLEAN
    /\ DOMAIN last = DOMAIN params
    /\ \A i \in DOMAIN last : last[i] \in Objects \cup {None}
    /\ got.column \in 0..MaxParams

\* A statement with its parameters still unbound.
Init ==
    /\ \E n \in 0..MaxParams :
        /\ params = [i \in 1..n |-> Null]
        /\ last = [i \in 1..n |-> None]
    /\ row = <<>>
    /\ stepped = FALSE
    /\ outcome = "ok"
    /\ nulled = FALSE
    /\ got = NoGet

Running == outcome \notin {"terminated", "aborted"}

-----------------------------------------------------------------------------
(* bind.                                                                   *)

\* A datetime is passed as it is.
Passed_DatetimeKept(v) ==
    IF v.type = "blob" /\ v.data = <<>> THEN {Null, v} ELSE {v}

\* A text is passed like a blob: the pointer of an empty one may be null.
Passed_TextAsBlob(v) ==
    CASE v.type = "datetime" -> {Value("integer", v.data)}
      [] v.type \in {"blob", "text"} /\ v.data = <<>> -> {Null, v}
      [] OTHER -> {v}

\* The switch of bind over the type: what it may pass to SQLite.  A datetime
\* goes as the integer of its count; data() of an empty vector may be a null
\* pointer, which SQLite takes for NULL.
Passed(v) ==
    CASE v.type = "datetime" -> {Value("integer", v.data)}
      [] v.type = "blob" /\ v.data = <<>> -> {Null, v}
      [] OTHER -> {v}

\* sqlite3_bind_double stores NaN as NULL.
Stored(v) == IF IsNaN(v) THEN Null ELSE v

Bound(i, cell, kept) ==
    /\ params' = [params EXCEPT ![i] = cell]
    /\ last' = [last EXCEPT ![i] = kept]

\* bind(index, value), with the outcome of its last switch.
Bind(i, o) ==
    /\ nulled' = (nulled \/ ConvertsNull(o))
    /\ got' = NoGet
    /\ \/ /\ stepped
          /\ outcome' = "terminated"
          /\ UNCHANGED <<params, last>>
       \/ /\ ~stepped /\ i \notin DOMAIN params
          /\ outcome' = "out_of_range"
          /\ UNCHANGED <<params, last>>
       \/ /\ ~stepped /\ i \in DOMAIN params
          /\ outcome' = "ok"
          /\ \E v \in Passed(ToValue(o)) : Bound(i, Stored(v), o)
       \/ /\ ~stepped /\ i \in DOMAIN params
          /\ ToValue(o).type \in {"text", "blob"}
          /\ outcome' \in {"bad_alloc", "domain_error"}
          /\ Bound(i, Null, None)
    /\ UNCHANGED <<row, stepped>>

BindIndex ==
    /\ Running
    /\ \E i \in 0..(MaxParams + 1), o \in Objects : Bind(i, o)

\* bind(name, value): parameter i is named i, and name 0 is the name of none.
\* The assertion that there are parameters is there in debug builds.
BindNamed(i, o) ==
    \/ /\ i = 0
       /\ outcome' \in IF params = <<>> THEN {"aborted", "domain_error"}
                                        ELSE {"domain_error"}
       /\ nulled' = (nulled \/ ConvertsNull(o))
       /\ got' = NoGet
       /\ UNCHANGED <<params, last, row, stepped>>
    \/ /\ i \in DOMAIN params
       /\ Bind(i, o)

BindName ==
    /\ Running
    /\ \E i \in 0..MaxParams, o \in Objects : BindNamed(i, o)

-----------------------------------------------------------------------------
(* Reading the row.                                                        *)

\* current_row: see SqliteStatement for the columns that are NULL.  A statement
\* without parameters has no row: step gives row({}).
CurrentRow ==
    IF \E i \in DOMAIN params : params[i] = Null
    THEN outcome' = "logic_error" /\ row' = <<>>
    ELSE outcome' = "ok" /\ row' = params

ReadRow ==
    /\ Running /\ ~stepped
    /\ stepped' = TRUE
    /\ CurrentRow
    /\ got' = NoGet
    /\ UNCHANGED <<params, nulled, last>>

\* get<T>(row[i - 1])
Get ==
    /\ Running
    /\ \E i \in DOMAIN row, t \in BoundTypes :
        IF CanGet(row[i], t)
        THEN outcome' = "ok" /\ got' = [column |-> i, object |-> FromValue(row[i], t)]
        ELSE outcome' = "invalid_access" /\ got' = [column |-> i, object |-> Object(t, <<>>, FALSE)]
    /\ UNCHANGED <<params, row, stepped, nulled, last>>

\* The types that have a row_adaptor.
RowTypes == {"integer", "narrow_int", "narrow_uint", "uint64_t", "text"} \cup StringTypes

\* row.as<T>(): check_singular, then get of the only column.
As ==
    /\ Running /\ stepped
    /\ \E t \in RowTypes \cap BoundTypes :
        IF Len(row) # 1
        THEN outcome' = "invalid_argument" /\ got' = NoGet
        ELSE IF CanGet(row[1], t)
        THEN outcome' = "ok" /\ got' = [column |-> 1, object |-> FromValue(row[1], t)]
        ELSE outcome' = "invalid_access" /\ got' = [column |-> 1, object |-> Object(t, <<>>, FALSE)]
    /\ UNCHANGED <<params, row, stepped, nulled, last>>

\* std::terminate or a failed assertion has ended the process.
Ended == ~Running /\ UNCHANGED vars

Next == BindIndex \/ BindName \/ ReadRow \/ Get \/ As \/ Ended

Spec == Init /\ [][Next]_vars
-----------------------------------------------------------------------------
(* Properties.                                                             *)

\* The column just read was bound to an object of the type it was read as.
ReadAsBound ==
    /\ got # NoGet
    /\ last[got.column] # None
    /\ last[got.column].type = got.object.type

\* Does a char hold each character of the string, as what its sign extends to?
FitsChars(s) ==
    \A i \in DOMAIN s : s[i] < CharHalf \/ s[i] >= 2 * WideHalf - CharHalf

\* A column that can be read was bound, by a bind that did not fail after it had
\* cleared the parameter.  Read as the type it was bound as it is the object that
\* was bound, on the way through the adaptors, SQLite and the row, but for a
\* string of wide characters: that is as it was exactly if they fit a char.
ComesBackIfItFits ==
    got # NoGet /\ outcome = "ok" =>
        LET o == last[got.column]
        IN  /\ o # None
            /\ o.type = got.object.type =>
                    (got.object = o <=> (o.type = "wide_string" => FitsChars(o.data)))

\* Of what was bound only a datetime cannot be read as what it is: SQLite gives
\* the integer back.
OnlyDatetimeIsLost ==
    ReadAsBound /\ outcome = "invalid_access" => got.object.type = "datetime"

\* What current_row cannot read is NULL, NaN, an empty blob, or a parameter that
\* is unbound or whose last bind failed.
UnreadableForAReason ==
    outcome = "logic_error" =>
        \E i \in DOMAIN last :
            \/ last[i] = None
            \/ last[i].null
            \/ last[i].type = "null_t"
            \/ last[i].type = "real" /\ last[i].data = <<NaN>>
            \/ last[i].type = "blob" /\ last[i].data = <<>>

\* An integer read as a type of another width or sign is exact if it fits.
ExactIfItFits ==
    got # NoGet /\ outcome = "ok" /\ got.object.type \in IntTypes =>
        LET column == row[got.column].data
        IN  Object(got.object.type, column, FALSE) \in ObjectsOf(got.object.type)
                => got.object.data = column

\* "Adio will never invoke convert(T) -> base_type with a null instance of T".
NullNeverConverted == ~nulled
================================================================================
