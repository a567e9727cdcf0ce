------------------------------- MODULE AdioValue -------------------------------
(***************************************************************************)
(* adio::value: the types a value can have, the order of values, and the   *)
(* value_adaptors that convert the client's types to and from it.          *)
(*                                                                         *)
(* The data of a value is a tuple: a single number, the characters of a    *)
(* text, the bytes of a blob, or nothing for NULL.  Of an integer type all *)
(* that counts is where its range ends, so half its size is a constant.  A *)
(* char is signed; the characters of a string are its bit patterns, read   *)
(* as unsigned numbers.                                                    *)
(***************************************************************************)
EXTENDS Integers, Sequences

CONSTANTS
    IntHalf,    \* 2^63: value::integer is -IntHalf..IntHalf - 1
    NarrowHalf, \* 2^7 .. 2^31, for the int8_t .. uint32_t a client may use instead
    CharHalf,   \* 2^7, for a char
    WideHalf,   \* 2^15 or 2^31, for a char16_t, char32_t or wchar_t
    Reals,      \* the numbers a value::real may be, besides
    NaN,        \* the one that is not a number
    Strings,    \* the strings of chars that occur
    WideStrings \* the strings of wider characters that occur

ASSUME AdioValueAssumption ==
    /\ {IntHalf, NarrowHalf, CharHalf, WideHalf} \subseteq Nat \ {0}
    /\ 2 * NarrowHalf <= IntHalf
    /\ \E k \in 1..WideHalf : WideHalf = k * CharHalf
    /\ Reals \subseteq Int
    /\ NaN \notin Int
    /\ <<>> \in Strings /\ Strings \subseteq Seq(0..(2 * CharHalf - 1))
    /\ WideStrings \subseteq Seq(0..(2 * WideHalf - 1))

\* static_cast to an integer type with half a range of so many numbers
Unsigned(n, half) == n % (2 * half)

Signed(n, half) == ((n + half) % (2 * half)) - half

Integers == (-IntHalf)..(IntHalf - 1)

\* enum class type, in its order
Position == [null_t |-> 0, integer |-> 1, real |-> 2, text |-> 3, blob |-> 4,
             datetime |-> 5]

BasicTypes == DOMAIN Position

Value(t, d) == [type |-> t, data |-> d]

Null == Value("null_t", <<>>)

Values ==
    {Null}
    \cup {Value(t, <<n>>) : t \in {"integer", "datetime"}, n \in Integers}
    \cup {Value("real", <<r>>) : r \in Reals \cup {NaN}}
    \cup {Value(t, s) : t \in {"text", "blob"}, s \in Strings}

IsNaN(v) == v.type = "real" /\ v.data[1] = NaN

-----------------------------------------------------------------------------
(* operator< and operator==.                                               *)

\* std::lexicographical_compare
Lexicographic(s, t) ==
    \E k \in 0..Len(s) :
        /\ k < Len(t)
        /\ \A i \in 1..k : s[i] = t[i]
        /\ k < Len(s) => s[k + 1] < t[k + 1]

\* std::vector<char> compares chars, which are signed; std::string compares
\* them as unsigned ones.
AsChars(s) == [i \in DOMAIN s |-> Signed(s[i], CharHalf)]

\* Numbers are compared as numbers, whatever their types, as SQLite does.
Less_NumericAcrossTypes(v, w) ==
    LET numeric == {"integer", "real", "datetime"}
    IN  IF v.type \in numeric /\ w.type \in numeric
        THEN ~IsNaN(v) /\ ~IsNaN(w) /\ v.data[1] < w.data[1]
        ELSE IF v.type # w.type THEN Position[v.type] < Position[w.type]
        ELSE Lexicographic(v.data, w.data)

\* Blobs are compared by their size.
Less_BlobsByLength(v, w) ==
    CASE v.type # w.type -> Position[v.type] < Position[w.type]
      [] v.type = w.type /\ v.type = "blob" -> Len(v.data) < Len(w.data)
      [] OTHER -> ~IsNaN(v) /\ ~IsNaN(w) /\ Lexicographic(v.data, w.data)

Less(v, w) ==
    IF v.type # w.type THEN Position[v.type] < Position[w.type]
    ELSE CASE v.type = "null_t" -> FALSE
           [] v.type \in {"integer", "datetime"} -> v.data[1] < w.data[1]
           [] v.type = "real" -> ~IsNaN(v) /\ ~IsNaN(w) /\ v.data[1] < w.data[1]
           [] v.type = "text" -> Lexicographic(v.data, w.data)
           [] v.type = "blob" -> Lexicographic(AsChars(v.data), AsChars(w.data))

Equal(v, w) == v.type = w.type /\ v.data = w.data /\ ~IsNaN(v)

\* boost::operators: what it derives from the two.
LessOrEqual(v, w) == ~Less(w, v)

-----------------------------------------------------------------------------
(* The client's types.  An object is null only if its type can be.         *)

Object(t, d, null) == [type |-> t, data |-> d, null |-> null]

\* int8_t, uint8_t and so on are like these two.
IntTypes == {"narrow_int", "narrow_uint", "uint64_t", "bool"}

\* A nullable type over text: NullableString of tests/value.cpp, and the
\* boost::optional of docs.hpp.
NullableTypes == {"NullableString", "optional"}

\* basic_string of chars, with other traits or another allocator than
\* std::string has, and of wider characters.
StringTypes == {"basic_string", "wide_string"}

ClientTypes == BasicTypes \cup IntTypes \cup StringTypes \cup NullableTypes

NumbersOf(t) ==
    CASE t = "narrow_int" -> (-NarrowHalf)..(NarrowHalf - 1)
      [] t = "narrow_uint" -> 0..(2 * NarrowHalf - 1)
      [] t = "uint64_t" -> 0..(2 * IntHalf - 1)
      [] t = "bool" -> {0, 1}

ObjectsOf(t) ==
    CASE t \in BasicTypes ->
            {Object(t, v.data, FALSE) : v \in {v \in Values : v.type = t}}
      [] t \in IntTypes -> {Object(t, <<n>>, FALSE) : n \in NumbersOf(t)}
      [] t = "basic_string" -> {Object(t, s, FALSE) : s \in Strings}
      [] t = "wide_string" -> {Object(t, s, FALSE) : s \in WideStrings}
      [] t \in NullableTypes ->
            {Object(t, s, FALSE) : s \in Strings} \cup {Object(t, <<>>, TRUE)}

\* integer_adaptor<Int>::convert(base_type)
FromInteger_Unsigned(t, n) ==
    CASE t \in {"narrow_int", "narrow_uint"} -> Unsigned(n, NarrowHalf)
      [] t = "uint64_t" -> Unsigned(n, IntHalf)
      [] t = "bool" -> IF n = 0 THEN 0 ELSE 1

FromInteger(t, n) ==
    CASE t = "narrow_int" -> Signed(n, NarrowHalf)
      [] t = "narrow_uint" -> Unsigned(n, NarrowHalf)
      [] t = "uint64_t" -> Unsigned(n, IntHalf)
      [] t = "bool" -> IF n = 0 THEN 0 ELSE 1

\* integer_adaptor<Int>::convert(Int)
ToInteger(n) == Signed(n, IntHalf)

\* The adaptor of basic_string<CharT> copies a string character by character:
\* a wider one loses its upper bits on the way to a char, and a char, which is
\* signed, is extended by its sign.
Narrowed(s) == [i \in DOMAIN s |-> Unsigned(s[i], CharHalf)]

Widened_ZeroExtended(s) == s

Widened(s) == [i \in DOMAIN s |-> Unsigned(Signed(s[i], CharHalf), WideHalf)]

ASSUME StringsAssumption == \A s \in WideStrings : Narrowed(s) \in Strings

\* is_null of the adaptor for NullableString.
NullableStringIsNull(o) == o.null

\* is_null of the adaptor for boost::optional: return bool{ opt };
OptionalIsNull(o) == ~o.null

IsNull(o) ==
    IF o.type = "optional" THEN OptionalIsNull(o) ELSE NullableStringIsNull(o)

\* value(Other&&)
ToValue(o) ==
    CASE o.type \in BasicTypes -> Value(o.type, o.data)
      [] o.type \in IntTypes -> Value("integer", <<ToInteger(o.data[1])>>)
      [] o.type = "basic_string" -> Value("text", o.data)
      [] o.type = "wide_string" -> Value("text", Narrowed(o.data))
      [] o.type \in NullableTypes ->
            IF IsNull(o) THEN Null ELSE Value("text", o.data)

\* Does value(Other&&) call convert(T) -> base_type with a null T?
ConvertsNull(o) == o.type \in NullableTypes /\ o.null /\ ~IsNull(o)

\* The types get<T> accepts.
BaseType(t) ==
    CASE t \in BasicTypes -> t
      [] t \in IntTypes -> "integer"
      [] t \in NullableTypes \cup StringTypes -> "text"

\* A value can only be read as the very type it has.
CanGet_NoAdaptor(v, t) ==
    \/ v.type = t
    \/ v.type = "null_t" /\ t \in NullableTypes

\* get<T>() gives an object, or throws invalid_access.
CanGet(v, t) ==
    \/ v.type = BaseType(t)
    \/ v.type = "null_t" /\ t \in NullableTypes

FromValue(v, t) ==
    CASE t \in IntTypes -> Object(t, <<FromInteger(t, v.data[1])>>, FALSE)
      [] t = "wide_string" -> Object(t, Widened(v.data), FALSE)
      [] t \in NullableTypes /\ v.type = "null_t" -> Object(t, <<>>, TRUE)
      [] OTHER -> Object(t, v.data, FALSE)
================================================================================
