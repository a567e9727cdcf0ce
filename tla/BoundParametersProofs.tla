------------------------ MODULE BoundParametersProofs ------------------------
(***************************************************************************)
(* Proofs about BoundParameters, for integers of any widths, any strings   *)
(* and numbers, and any number of parameters.                              *)
(*                                                                         *)
(* What a client reads was bound: a parameter holds what SQLite stores of  *)
(* the object it was last bound to, the row is the parameters, and reading *)
(* undoes what binding did (RoundTrip), but for wide characters that do    *)
(* not fit a char (WideStringReturns).                                     *)
(***************************************************************************)
EXTENDS BoundParameters, SequenceTheorems, TLAPS

\* Every adaptor in use gets is_null right.
RightAdaptors == "optional" \notin BoundTypes

-----------------------------------------------------------------------------
(* Casts of integers.                                                      *)

\* The remainder of a number that is less than a divisor, or than twice that,
\* above or below zero.
LEMMA Remainders ==
    ASSUME NEW m \in Nat \ {0}, NEW n \in Int
    PROVE  /\ n % m \in 0..(m - 1)
           /\ 0 <= n /\ n < m => n % m = n
           /\ m <= n /\ n < m + m => n % m = n - m
           /\ -m <= n /\ n < 0 => n % m = n + m
<1>1. n % m \in 0..(m - 1)
  OBVIOUS
<1>2. ASSUME NEW k \in 0..(m - 1) PROVE k % m = k
  BY <1>2
<1>3. ASSUME m <= n, n < m + m PROVE n % m = n - m
  <2> DEFINE x == n - m
  <2>1. x \in 0..(m - 1) /\ n = x + m
    BY <1>3
  <2> HIDE DEF x
  <2>2. x % m = x
    BY <1>2, <2>1
  <2>3. (x + m) % m = x
    BY <2>1, <2>2
  <2> QED BY <2>1, <2>3
<1>4. ASSUME -m <= n, n < 0 PROVE n % m = n + m
  <2> DEFINE x == n + m
  <2>1. x \in 0..(m - 1) /\ n = x - m
    BY <1>4
  <2> HIDE DEF x
  <2>2. x % m = x
    BY <1>2, <2>1
  <2>3. (x - m) % m = x
    BY <2>1, <2>2
  <2> QED BY <2>1, <2>3
<1> QED BY <1>1, <1>2, <1>3, <1>4

\* A cast to int64_t gives an int64_t, and changes none.
LEMMA SignedIsInteger ==
    ASSUME NEW n \in Int
    PROVE  /\ Signed(n, IntHalf) \in Integers
           /\ n \in Integers => Signed(n, IntHalf) = n
<1>1. IntHalf \in Nat \ {0} /\ 2 * IntHalf \in Nat \ {0} /\ n + IntHalf \in Int
  BY AdioValueAssumption
<1>2. /\ (n + IntHalf) % (2 * IntHalf) \in 0..(2 * IntHalf - 1)
      /\ 0 <= n + IntHalf /\ n + IntHalf < 2 * IntHalf =>
            (n + IntHalf) % (2 * IntHalf) = n + IntHalf
  BY <1>1, Remainders
<1> QED BY <1>1, <1>2 DEF Signed, Integers

\* Each of the client's integer types fits into int64_t, or wraps around in it,
\* and is what reading the int64_t as that type gives.
LEMMA CastsReturn ==
    /\ \A n \in (-NarrowHalf)..(NarrowHalf - 1) :
            n \in Integers /\ Signed(n, NarrowHalf) = n
    /\ \A n \in 0..(2 * NarrowHalf - 1) : n \in Integers /\ Unsigned(n, NarrowHalf) = n
    /\ \A n \in 0..(2 * IntHalf - 1) :
            /\ Unsigned(n, IntHalf) = n
            /\ Unsigned(Signed(n, IntHalf), IntHalf) = n
<1> DEFINE m == 2 * IntHalf
           l == 2 * NarrowHalf
<1>1. /\ IntHalf \in Nat \ {0} /\ m \in Nat \ {0} /\ m = IntHalf + IntHalf
      /\ NarrowHalf \in Nat \ {0} /\ l \in Nat \ {0} /\ l = NarrowHalf + NarrowHalf /\ l <= IntHalf
      /\ Integers = (-IntHalf)..(IntHalf - 1)
  BY AdioValueAssumption DEF Integers
<1>2. /\ \A n \in Int : Signed(n, NarrowHalf) = ((n + NarrowHalf) % l) - NarrowHalf
      /\ \A n \in Int : Signed(n, IntHalf) = ((n + IntHalf) % m) - IntHalf
      /\ \A n \in Int : Unsigned(n, NarrowHalf) = n % l
      /\ \A n \in Int : Unsigned(n, IntHalf) = n % m
  BY DEF Signed, Unsigned
<1> SUFFICES /\ \A n \in (-NarrowHalf)..(NarrowHalf - 1) : n \in Integers /\ Signed(n, NarrowHalf) = n
             /\ \A n \in 0..(l - 1) : n \in Integers /\ Unsigned(n, NarrowHalf) = n
             /\ \A n \in 0..(m - 1) :
                    /\ Unsigned(n, IntHalf) = n
                    /\ Unsigned(Signed(n, IntHalf), IntHalf) = n
  OBVIOUS
<1> HIDE DEF l, m
<1>3. ASSUME NEW n \in (-NarrowHalf)..(NarrowHalf - 1) PROVE n \in Integers /\ Signed(n, NarrowHalf) = n
  <2>1. n + NarrowHalf \in Int /\ 0 <= n + NarrowHalf /\ n + NarrowHalf < l
    BY <1>1
  <2>2. (n + NarrowHalf) % l = n + NarrowHalf
    BY <1>1, <2>1, Remainders
  <2>3. Signed(n, NarrowHalf) = ((n + NarrowHalf) % l) - NarrowHalf
    BY <1>1, <1>2
  <2>4. (n + NarrowHalf) - NarrowHalf = n /\ n \in Integers
    BY <1>1
  <2> QED BY <2>2, <2>3, <2>4
<1>4. ASSUME NEW n \in 0..(l - 1) PROVE n \in Integers /\ Unsigned(n, NarrowHalf) = n
  <2>1. n \in Int /\ 0 <= n /\ n < l
    BY <1>1
  <2>2. n % l = n
    BY <1>1, <2>1, Remainders
  <2>3. n \in Integers
    BY <1>1, <2>1
  <2> QED BY <1>2, <2>1, <2>2, <2>3
<1>5. ASSUME NEW n \in 0..(m - 1)
      PROVE  Unsigned(n, IntHalf) = n /\ Unsigned(Signed(n, IntHalf), IntHalf) = n
  <2>1. n \in Int /\ 0 <= n /\ n < m
    BY <1>1
  <2>2. n % m = n
    BY <1>1, <2>1, Remainders
  <2>3. CASE n < IntHalf
    <3>1. Signed(n, IntHalf) = n
      BY <1>1, <2>1, <2>3, SignedIsInteger
    <3> QED BY <1>2, <2>1, <2>2, <3>1
  <2>4. CASE IntHalf <= n
    <3> DEFINE d == n - m
    <3>1. n + IntHalf \in Int /\ m <= n + IntHalf /\ n + IntHalf < m + m
      BY <1>1, <2>1, <2>4
    <3>2. (n + IntHalf) % m = (n + IntHalf) - m
      BY <1>1, <3>1, Remainders
    <3>3. Signed(n, IntHalf) = d
      <4>1. Signed(n, IntHalf) = ((n + IntHalf) % m) - IntHalf
        BY <1>2, <2>1
      <4>2. (n + IntHalf) - m - IntHalf = d
        BY <1>1, <2>1
      <4> QED BY <3>2, <4>1, <4>2
    <3>4. d \in Int /\ -m <= d /\ d < 0 /\ d + m = n
      BY <1>1, <2>1
    <3> HIDE DEF d
    <3>5. d % m = d + m
      BY <1>1, <3>4, Remainders
    <3> QED BY <1>2, <2>1, <2>2, <3>3, <3>4, <3>5
  <2> QED BY <1>1, <2>1, <2>3, <2>4
<1> QED BY <1>3, <1>4, <1>5

\* Two numbers less than a divisor apart that differ by a multiple of it are
\* one, so that a number has the remainder it shows.
LEMMA RemainderOfSum ==
    ASSUME NEW m \in Nat \ {0}, NEW x \in 0..(m - 1), NEW j \in Int
    PROVE  (x + j * m) % m = x
<1> DEFINE n == x + j * m
           y == n % m
           q == n \div m
<1>1. j * m \in Int /\ n \in Int /\ y \in 0..(m - 1) /\ q \in Int /\ n = m * q + y
  OBVIOUS
<1>2. n = m * j + x
  OBVIOUS
<1> HIDE DEF n, y, q
<1>3. m * (j - q) = y - x
  BY <1>1, <1>2
<1>4. CASE j - q >= 1
  <2>1. m * (j - q) >= m
    BY <1>1, <1>4
  <2> QED BY <1>1, <1>3, <2>1
<1>5. CASE j - q <= -1
  <2>1. m * (j - q) <= -m
    BY <1>1, <1>5
  <2> QED BY <1>1, <1>3, <2>1
<1>6. CASE j - q = 0
  <2>1. m * (j - q) = 0
    BY <1>6
  <2> QED BY <1>1, <1>3, <2>1 DEF n, y
<1> QED BY <1>1, <1>4, <1>5, <1>6

\* A wide character comes back from a char as it was if its upper bits repeat
\* the sign of the char, and only then.
LEMMA WideCharReturns ==
    ASSUME NEW c \in 0..(2 * WideHalf - 1)
    PROVE  Unsigned(Signed(Unsigned(c, CharHalf), CharHalf), WideHalf) = c
                <=> c < CharHalf \/ c >= 2 * WideHalf - CharHalf
<1> DEFINE m == 2 * CharHalf
           w == 2 * WideHalf
           y == c % m
           d == ((y + CharHalf) % m) - CharHalf
<1>1. PICK k \in Nat \ {0} : WideHalf = k * CharHalf
  BY AdioValueAssumption
<1>2. /\ CharHalf \in Nat \ {0} /\ m \in Nat \ {0} /\ m = CharHalf + CharHalf
      /\ w \in Nat \ {0} /\ w = k * m /\ c \in 0..(w - 1)
  <2>1. /\ CharHalf \in Nat \ {0} /\ m \in Nat \ {0} /\ m = CharHalf + CharHalf
        /\ w \in Nat \ {0} /\ c \in 0..(w - 1)
    BY AdioValueAssumption
  <2>2. 2 * (k * CharHalf) = k * (2 * CharHalf)
    BY <2>1
  <2> QED BY <1>1, <2>1, <2>2
<1>3. m <= w
  <2>1. k >= 1
    OBVIOUS
  <2> QED BY <1>2, <2>1
<1> SUFFICES d % w = c <=> c < CharHalf \/ c >= w - CharHalf
  BY DEF Unsigned, Signed
<1> HIDE DEF m, w
<1>4. y \in 0..(m - 1)
  BY <1>2, Remainders
<1> HIDE DEF y
<1>5. d = IF y < CharHalf THEN y ELSE y - m
  <2>1. CASE y < CharHalf
    <3>1. y + CharHalf \in Int /\ 0 <= y + CharHalf /\ y + CharHalf < m
      BY <1>2, <1>4, <2>1
    <3>2. (y + CharHalf) % m = y + CharHalf
      BY <1>2, <3>1, Remainders
    <3> QED BY <1>2, <1>4, <2>1, <3>2
  <2>2. CASE y >= CharHalf
    <3>1. y + CharHalf \in Int /\ m <= y + CharHalf /\ y + CharHalf < m + m
      BY <1>2, <1>4, <2>2
    <3>2. (y + CharHalf) % m = (y + CharHalf) - m
      BY <1>2, <3>1, Remainders
    <3> QED BY <1>2, <1>4, <2>2, <3>2
  <2> QED BY <1>2, <1>4, <2>1, <2>2
<1> HIDE DEF d
<1>6. d % w = IF y < CharHalf THEN y ELSE y - m + w
  <2>1. CASE y < CharHalf
    <3>1. d \in Int /\ 0 <= d /\ d < w
      BY <1>2, <1>3, <1>4, <1>5, <2>1
    <3>2. d % w = d
      BY <1>2, <3>1, Remainders
    <3> QED BY <1>5, <2>1, <3>2
  <2>2. CASE y >= CharHalf
    <3>1. d \in Int /\ -w <= d /\ d < 0
      BY <1>2, <1>3, <1>4, <1>5, <2>2
    <3>2. d % w = d + w
      BY <1>2, <3>1, Remainders
    <3>3. ~(y < CharHalf)
      BY <1>2, <1>4, <2>2
    <3> QED BY <1>5, <3>2, <3>3
  <2> QED BY <1>2, <1>4, <2>1, <2>2
<1>7. ASSUME c < CharHalf PROVE y = c
  <2>1. 0 <= c /\ c < m /\ c \in Int
    BY <1>2, <1>7
  <2> QED BY <1>2, <2>1, Remainders DEF y
<1>8. ASSUME c >= w - CharHalf PROVE y = c - w + m
  <2> DEFINE x == c - w + m
  <2>1. x \in 0..(m - 1)
    BY <1>2, <1>8
  <2>2. c = x + (k - 1) * m
    BY <1>2
  <2>3. k - 1 \in Int
    OBVIOUS
  <2> HIDE DEF x
  <2>4. (x + (k - 1) * m) % m = x
    BY <1>2, <2>1, <2>3, RemainderOfSum
  <2> QED BY <2>2, <2>4 DEF x, y
<1>9. CASE c < CharHalf
  BY <1>2, <1>6, <1>7, <1>9
<1>10. CASE c >= w - CharHalf
  <2>1. y = c - w + m /\ y >= CharHalf
    BY <1>2, <1>8, <1>10
  <2> QED BY <1>2, <1>6, <1>10, <2>1
<1>11. CASE ~(c < CharHalf) /\ ~(c >= w - CharHalf)
  BY <1>2, <1>4, <1>6, <1>11
<1> QED BY <1>9, <1>10, <1>11

\* A string comes back from text if each of its characters does.
LEMMA WideStringReturns ==
    ASSUME NEW s \in WideStrings
    PROVE  /\ Narrowed(s) \in Strings
           /\ Widened(Narrowed(s)) = s <=> FitsChars(s)
<1> DEFINE Wide == 0..(2 * WideHalf - 1)
<1>1. s \in Seq(Wide)
  BY AdioValueAssumption
<1> HIDE DEF Wide
<1>a. DOMAIN s = 1..Len(s) /\ s \in [1..Len(s) -> Wide]
  BY <1>1
<1>2. /\ \A i \in DOMAIN s : s[i] \in 0..(2 * WideHalf - 1)
      /\ s = [i \in DOMAIN s |-> s[i]]
  BY <1>a DEF Wide
<1> DEFINE b == Narrowed(s)
           r == Widened(b)
<1>3. /\ r = [i \in DOMAIN s |-> r[i]]
      /\ \A i \in DOMAIN s :
            r[i] = Unsigned(Signed(Unsigned(s[i], CharHalf), CharHalf), WideHalf)
  BY DEF Narrowed, Widened
<1> HIDE DEF r
<1>4. \A i \in DOMAIN s :
        r[i] = s[i] <=> s[i] < CharHalf \/ s[i] >= 2 * WideHalf - CharHalf
  BY <1>2, <1>3, WideCharReturns
<1>5. r = s <=> \A i \in DOMAIN s : r[i] = s[i]
  BY <1>2, <1>3
<1> QED BY <1>4, <1>5, StringsAssumption DEF FitsChars, r

-----------------------------------------------------------------------------
(* Objects and values.                                                     *)

\* The six types of values.
LEMMA SixTypes ==
    /\ BasicTypes = {"null_t", "integer", "real", "text", "blob", "datetime"}
    /\ BasicTypes \cap IntTypes = {} /\ BasicTypes \cap NullableTypes = {}
    /\ IntTypes \cap NullableTypes = {}
    /\ StringTypes \cap (BasicTypes \cup IntTypes \cup NullableTypes) = {}
    /\ StringTypes = {"basic_string", "wide_string"}
  BY DEF BasicTypes, Position, IntTypes, NullableTypes, StringTypes

\* A value is its type and its data.
LEMMA ValueShape ==
    ASSUME NEW v \in Values
    PROVE  /\ v = Value(v.type, v.data) /\ v.type \in BasicTypes
           /\ v.type = "null_t" <=> v = Null
           /\ v.type \in {"integer", "datetime"} => \E n \in Integers : v.data = <<n>>
           /\ v.type = "real" => \E r \in Reals \cup {NaN} : v.data = <<r>>
           /\ v.type \in {"text", "blob"} => v.data \in Strings
  BY SixTypes DEF Values, Value, Null

\* An object of the client has one of three forms.
LEMMA ObjectShape ==
    ASSUME NEW t \in ClientTypes, NEW o \in ObjectsOf(t)
    PROVE  /\ o.type = t /\ o = Object(t, o.data, o.null) /\ o.null \in BOOLEAN
           /\ t \in BasicTypes => Value(t, o.data) \in Values /\ ~o.null
           /\ t \in IntTypes =>
                ~o.null /\ \E n \in NumbersOf(t) : o.data = <<n>>
           /\ t = "wide_string" => o.data \in WideStrings /\ ~o.null
           /\ t \in {"basic_string"} \cup NullableTypes =>
                IF o.null THEN t \in NullableTypes /\ o.data = <<>> ELSE o.data \in Strings
<1>1. CASE t \in BasicTypes
  <2>1. PICK v \in Values : v.type = t /\ o = Object(t, v.data, FALSE)
    <3>1. ObjectsOf(t) = {Object(t, v.data, FALSE) : v \in {v \in Values : v.type = t}}
      BY <1>1, SixTypes DEF ObjectsOf, IntTypes, NullableTypes
    <3> QED BY <3>1
  <2>2. v = Value(t, v.data) /\ o.data = v.data /\ ~o.null /\ o.type = t
    BY <2>1, ValueShape DEF Object
  <2> QED BY <1>1, <2>1, <2>2, SixTypes DEF Object, NullableTypes
<1>2. CASE t \in IntTypes
  <2>1. PICK n \in NumbersOf(t) : o = Object(t, <<n>>, FALSE)
    <3>1. ObjectsOf(t) = {Object(t, <<n>>, FALSE) : n \in NumbersOf(t)}
      BY <1>2, SixTypes DEF ObjectsOf, IntTypes, NullableTypes
    <3> QED BY <3>1
  <2> QED BY <1>2, <2>1, SixTypes DEF Object, NullableTypes
<1>3. CASE t = "basic_string"
  <2>1. PICK s \in Strings : o = Object(t, s, FALSE)
    <3>1. ObjectsOf(t) = {Object(t, s, FALSE) : s \in Strings}
      BY <1>3, SixTypes DEF ObjectsOf, IntTypes, NullableTypes
    <3> QED BY <3>1
  <2> QED BY <1>3, <2>1, SixTypes DEF Object
<1>4. CASE t = "wide_string"
  <2>1. PICK s \in WideStrings : o = Object(t, s, FALSE)
    <3>1. ObjectsOf(t) = {Object(t, s, FALSE) : s \in WideStrings}
      BY <1>4, SixTypes DEF ObjectsOf, IntTypes, NullableTypes
    <3> QED BY <3>1
  <2> QED BY <1>4, <2>1, SixTypes DEF Object
<1>5. CASE t \in NullableTypes
  <2>1. o = Object(t, <<>>, TRUE) \/ \E s \in Strings : o = Object(t, s, FALSE)
    BY <1>5, SixTypes DEF ObjectsOf, IntTypes, NullableTypes
  <2>2. CASE o = Object(t, <<>>, TRUE)
    BY <1>5, <2>2, SixTypes DEF Object
  <2>3. CASE \E s \in Strings : o = Object(t, s, FALSE)
    BY <1>5, <2>3, SixTypes DEF Object
  <2> QED BY <2>1, <2>2, <2>3
<1> QED BY <1>1, <1>2, <1>3, <1>4, <1>5, SixTypes DEF ClientTypes

\* An integer object is a number its type can hold, and comes back through
\* int64_t as that number.
LEMMA IntegerReturns ==
    ASSUME NEW t \in IntTypes, NEW n \in NumbersOf(t)
    PROVE  /\ n \in Int /\ ToInteger(n) \in Integers
           /\ FromInteger(t, ToInteger(n)) = n
           /\ n \in Integers => FromInteger(t, n) = n
<1>1. n \in Int
  BY AdioValueAssumption DEF NumbersOf, IntTypes
<1>2. ToInteger(n) \in Integers /\ (n \in Integers => ToInteger(n) = n)
  BY <1>1, SignedIsInteger DEF ToInteger
<1>3. CASE t = "narrow_int"
  <2>1. n \in (-NarrowHalf)..(NarrowHalf - 1)
    BY <1>3 DEF NumbersOf
  <2>2. n \in Integers /\ Signed(n, NarrowHalf) = n
    BY <2>1, CastsReturn
  <2>3. FromInteger(t, n) = Signed(n, NarrowHalf)
    BY <1>3 DEF FromInteger
  <2> QED BY <1>1, <1>2, <2>2, <2>3
<1>4. CASE t = "narrow_uint"
  <2>1. n \in 0..(2 * NarrowHalf - 1)
    BY <1>4 DEF NumbersOf
  <2>2. n \in Integers /\ Unsigned(n, NarrowHalf) = n
    BY <2>1, CastsReturn
  <2>3. FromInteger(t, n) = Unsigned(n, NarrowHalf)
    BY <1>4 DEF FromInteger
  <2> QED BY <1>1, <1>2, <2>2, <2>3
<1>5. CASE t = "uint64_t"
  <2>1. n \in 0..(2 * IntHalf - 1)
    BY <1>5 DEF NumbersOf
  <2>2. Unsigned(n, IntHalf) = n /\ Unsigned(ToInteger(n), IntHalf) = n
    BY <2>1, CastsReturn DEF ToInteger
  <2>3. \A k : FromInteger(t, k) = Unsigned(k, IntHalf)
    BY <1>5 DEF FromInteger
  <2> QED BY <1>1, <1>2, <2>2, <2>3
<1>6. CASE t = "bool"
  <2>1. n \in {0, 1}
    BY <1>6 DEF NumbersOf
  <2>2. 0 \in Integers /\ 1 \in Integers
    BY AdioValueAssumption DEF Integers
  <2>3. \A k : FromInteger(t, k) = IF k = 0 THEN 0 ELSE 1
    BY <1>6 DEF FromInteger
  <2> QED BY <1>1, <1>2, <2>1, <2>2, <2>3
<1> QED BY <1>3, <1>4, <1>5, <1>6 DEF IntTypes

\* What an object becomes.
LEMMA ObjectBecomes ==
    ASSUME NEW t \in ClientTypes, NEW o \in ObjectsOf(t)
    PROVE  /\ ToValue(o) \in Values
           /\ t \in BasicTypes => ToValue(o) = Value(t, o.data)
           /\ t \in IntTypes => \E n \in NumbersOf(t) :
                    o.data = <<n>> /\ ToValue(o) = Value("integer", <<ToInteger(n)>>)
           /\ t = "basic_string" => ToValue(o) = Value("text", o.data)
           /\ t = "wide_string" => ToValue(o) = Value("text", Narrowed(o.data))
           /\ t = "NullableString" =>
                    ToValue(o) = IF o.null THEN Null ELSE Value("text", o.data)
<1>1. CASE t \in BasicTypes
  <2>1. ToValue(o) = Value(t, o.data)
    BY <1>1, SixTypes, ObjectShape DEF ToValue, IntTypes, NullableTypes
  <2> QED BY <1>1, <2>1, SixTypes, ObjectShape DEF NullableTypes, IntTypes
<1>2. CASE t \in IntTypes
  <2>1. PICK n \in NumbersOf(t) : o.data = <<n>>
    BY <1>2, ObjectShape
  <2>2. ToValue(o) = Value("integer", <<ToInteger(o.data[1])>>)
    BY <1>2, SixTypes, ObjectShape DEF ToValue, IntTypes, NullableTypes
  <2>3. ToInteger(n) \in Integers
    BY <1>2, IntegerReturns
  <2>4. Value("integer", <<ToInteger(n)>>) \in Values
    BY <2>3 DEF Values
  <2>5. ToValue(o) = Value("integer", <<ToInteger(n)>>)
    BY <2>1, <2>2
  <2> QED BY <1>2, <2>1, <2>4, <2>5, SixTypes DEF IntTypes, NullableTypes
<1>3. CASE t = "basic_string"
  <2>1. ToValue(o) = Value("text", o.data)
    BY <1>3, SixTypes, ObjectShape DEF ToValue, IntTypes, NullableTypes
  <2>2. o.data \in Strings
    BY <1>3, SixTypes, ObjectShape DEF NullableTypes
  <2> QED BY <1>3, <2>1, <2>2, SixTypes DEF IntTypes, NullableTypes, Values
<1>4. CASE t \in NullableTypes
  <2>1. ToValue(o) = IF IsNull(o) THEN Null ELSE Value("text", o.data)
    BY <1>4, SixTypes, ObjectShape DEF ToValue, IntTypes, NullableTypes
  <2>2. o.data \in Strings
    BY <1>4, ObjectShape, AdioValueAssumption
  <2>3. t = "NullableString" => IsNull(o) = o.null
    BY ObjectShape DEF IsNull, NullableStringIsNull
  <2> QED BY <1>4, <2>1, <2>2, <2>3, SixTypes DEF IntTypes, NullableTypes, Values
<1>5. CASE t = "wide_string"
  <2>1. ToValue(o) = Value("text", Narrowed(o.data))
    BY <1>5, SixTypes, ObjectShape DEF ToValue, IntTypes, NullableTypes
  <2>2. Narrowed(o.data) \in Strings
    BY <1>5, ObjectShape, WideStringReturns
  <2> QED BY <1>5, <2>1, <2>2, SixTypes DEF Values, IntTypes, NullableTypes
<1> QED BY <1>1, <1>2, <1>3, <1>4, <1>5, SixTypes DEF ClientTypes

-----------------------------------------------------------------------------
(* There and back.                                                         *)

\* What SQLite holds of a value is a value of a type it has: the value, but a
\* count for a datetime, and NULL for NaN and maybe for an empty blob.
LEMMA WhatIsStored ==
    ASSUME NEW v \in Values, NEW p \in Passed(v)
    PROVE  /\ Stored(p) \in Columns
           /\ \/ Stored(p) = v /\ v.type # "datetime"
              \/ v.type = "datetime" /\ Stored(p) = Value("integer", v.data)
              \/ Stored(p) = Null /\ v.type = "real" /\ v.data = <<NaN>>
              \/ Stored(p) = Null /\ v.type = "blob" /\ v.data = <<>>
<1>1. Null \in Columns
  BY DEF Columns, Values, Null, Value
<1>2. CASE v.type = "datetime"
  <2>1. p = Value("integer", v.data)
    BY <1>2 DEF Passed
  <2>2. PICK n \in Integers : v.data = <<n>>
    BY <1>2, ValueShape
  <2>3. p \in Columns /\ p.type = "integer"
    BY <2>1, <2>2 DEF Columns, Values, Value
  <2>4. Stored(p) = p
    BY <2>3 DEF Stored, IsNaN
  <2> QED BY <1>2, <2>1, <2>3, <2>4
<1>3. CASE v.type = "blob" /\ v.data = <<>>
  <2>1. p = Null \/ p = v
    BY <1>3 DEF Passed
  <2>2. Stored(p) = p
    BY <1>3, <2>1 DEF Stored, IsNaN, Null, Value
  <2> QED BY <1>1, <1>3, <2>1, <2>2 DEF Columns
<1>4. CASE v.type # "datetime" /\ ~(v.type = "blob" /\ v.data = <<>>)
  <2>1. p = v
    BY <1>4 DEF Passed
  <2>2. CASE IsNaN(v)
    <3>1. v.type = "real" /\ Stored(p) = Null /\ v.data[1] = NaN
      BY <2>1, <2>2 DEF Stored, IsNaN
    <3>2. v.data = <<NaN>>
      BY <3>1, ValueShape
    <3> QED BY <1>1, <3>1, <3>2
  <2>3. CASE ~IsNaN(v)
    BY <1>4, <2>1, <2>3 DEF Stored, Columns
  <2> QED BY <2>2, <2>3
<1> QED BY <1>2, <1>3, <1>4

\* Reading undoes binding: what SQLite holds of an object, if not NULL, reads
\* as that object, or as another if that is a string of wide characters that do
\* not fit; only a datetime cannot be read as what it is.
LEMMA RoundTrip ==
    ASSUME NEW t \in ClientTypes \ {"optional"}, NEW o \in ObjectsOf(t),
           NEW p \in Passed(ToValue(o)), Stored(p) # Null
    PROVE  IF t = "datetime" THEN ~CanGet(Stored(p), t)
           ELSE /\ CanGet(Stored(p), t)
                /\ FromValue(Stored(p), t) = o <=> (t = "wide_string" => FitsChars(o.data))
<1> DEFINE v == ToValue(o)
           c == Stored(p)
<1>1. /\ v \in Values /\ c # Null /\ c \in Values
      /\ o.type = t /\ o = Object(t, o.data, o.null)
      /\ \/ c = v /\ v.type # "datetime"
         \/ v.type = "datetime" /\ c = Value("integer", v.data)
  BY ObjectBecomes, ObjectShape, WhatIsStored DEF Columns
<1>a. ~o.null => o = Object(t, o.data, FALSE)
  <2>1. o.null \in BOOLEAN
    BY ObjectShape
  <2>2. ~o.null => o.null = FALSE
    BY <2>1
  <2> QED BY <1>1, <2>2
<1> SUFFICES IF t = "datetime" THEN ~CanGet(c, t)
             ELSE /\ CanGet(c, t)
                  /\ FromValue(c, t) = o <=> (t = "wide_string" => FitsChars(o.data))
  OBVIOUS
<1> HIDE DEF v, c
<1>2. c.type # "null_t"
  BY <1>1, ValueShape
<1>3. CASE t = "datetime"
  <2>1. v.type = "datetime"
    BY <1>3, ObjectBecomes, SixTypes DEF Value, v
  <2>2. c.type = "integer"
    BY <1>1, <2>1 DEF Value
  <2>3. BaseType(t) = "datetime"
    BY <1>3, SixTypes DEF BaseType
  <2> QED BY <1>3, <2>2, <2>3 DEF CanGet
<1>4. CASE t \in BasicTypes \ {"datetime"}
  <2>1. v = Value(t, o.data) /\ v.type = t /\ v.data = o.data
    BY <1>4, ObjectBecomes DEF Value, v
  <2>2. c = v /\ BaseType(t) = t /\ ~o.null
    BY <1>1, <1>4, <2>1, SixTypes, ObjectShape DEF BaseType, IntTypes, NullableTypes
  <2>3. FromValue(c, t) = Object(t, c.data, FALSE)
    BY <1>2, <1>4, SixTypes DEF FromValue, IntTypes, NullableTypes
  <2> QED BY <1>a, <1>4, <2>1, <2>2, <2>3, SixTypes DEF CanGet
<1>5. CASE t \in IntTypes
  <2>1. PICK n \in NumbersOf(t) :
            o.data = <<n>> /\ v = Value("integer", <<ToInteger(n)>>)
    BY <1>5, ObjectBecomes DEF v
  <2>2. c = v /\ c.type = "integer" /\ c.data[1] = ToInteger(n)
    BY <1>1, <2>1 DEF Value
  <2>3. BaseType(t) = "integer" /\ ~o.null
    BY <1>5, SixTypes, ObjectShape DEF BaseType
  <2>4. FromValue(c, t) = Object(t, <<FromInteger(t, c.data[1])>>, FALSE)
    BY <1>5 DEF FromValue, IntTypes, NullableTypes
  <2>5. FromInteger(t, c.data[1]) = n
    BY <1>5, <2>2, IntegerReturns
  <2>6. t # "datetime" /\ t # "wide_string"
    BY <1>5 DEF IntTypes
  <2> QED BY <1>a, <2>1, <2>2, <2>3, <2>4, <2>5, <2>6 DEF CanGet
<1>6. CASE t \in {"basic_string", "NullableString"}
  <2>1. v = Value("text", o.data) /\ ~o.null
    <3>1. CASE t = "basic_string"
      BY <3>1, ObjectBecomes, ObjectShape DEF NullableTypes, v
    <3>2. CASE t = "NullableString" /\ ~o.null
      BY <3>2, ObjectBecomes DEF v
    <3>3. CASE t = "NullableString" /\ o.null
      <4>1. v = Null
        BY <3>3, ObjectBecomes DEF v
      <4> QED BY <1>1, <4>1 DEF Null, Value
    <3> QED BY <1>6, <3>1, <3>2, <3>3
  <2>2. c = v /\ c.type = "text" /\ c.data = o.data
    BY <1>1, <2>1 DEF Value
  <2>3. /\ BaseType(t) = "text" /\ t \notin IntTypes
        /\ t # "datetime" /\ t # "wide_string"
    BY <1>6, SixTypes DEF BaseType, IntTypes, NullableTypes
  <2>4. FromValue(c, t) = Object(t, c.data, FALSE)
    BY <1>2, <2>3 DEF FromValue
  <2> QED BY <1>a, <2>1, <2>2, <2>3, <2>4 DEF CanGet
<1>7. CASE t = "wide_string"
  <2>1. /\ v = Value("text", Narrowed(o.data)) /\ ~o.null /\ o.data \in WideStrings
    BY <1>7, ObjectBecomes, ObjectShape DEF v
  <2>2. c = v /\ c.type = "text" /\ c.data = Narrowed(o.data)
    BY <1>1, <2>1 DEF Value
  <2>3. BaseType(t) = "text" /\ t \notin IntTypes /\ t # "datetime"
    BY <1>7, SixTypes DEF BaseType, IntTypes, NullableTypes
  <2>4. FromValue(c, t) = Object(t, Widened(Narrowed(o.data)), FALSE)
    BY <1>7, <2>2, <2>3 DEF FromValue
  <2>5. FromValue(c, t) = o <=> Widened(Narrowed(o.data)) = o.data
    BY <1>a, <2>1, <2>4 DEF Object
  <2> QED BY <1>7, <2>1, <2>2, <2>3, <2>5, WideStringReturns DEF CanGet
<1> QED BY <1>3, <1>4, <1>5, <1>6, <1>7, SixTypes DEF ClientTypes, NullableTypes

-----------------------------------------------------------------------------
(* The inductive invariant.                                                *)

\* A parameter holds what SQLite stores of the object it was last bound to.
ParamsHold ==
    /\ \E n \in 0..MaxParams : params \in [1..n -> Columns]
    /\ DOMAIN last = DOMAIN params
    /\ \A i \in DOMAIN params :
            IF last[i] = None THEN params[i] = Null
            ELSE /\ last[i] \in Objects
                 /\ \E p \in Passed(ToValue(last[i])) : params[i] = Stored(p)

\* The row is the parameters, none of which is NULL or will change any more.
RowIsParams ==
    row # <<>> => stepped /\ row = params /\ \A i \in DOMAIN params : params[i] # Null

\* What the client got is its column read as a type of its, if that can be.
GotFromRow ==
    got # NoGet =>
        /\ got.column \in DOMAIN row /\ got.object.type \in BoundTypes
        /\ outcome \in {"ok", "invalid_access"}
        /\ IF outcome = "ok"
           THEN /\ CanGet(row[got.column], got.object.type)
                /\ got.object = FromValue(row[got.column], got.object.type)
           ELSE ~CanGet(row[got.column], got.object.type)

\* current_row fails for a column that is NULL.
ErrorHasNull == outcome = "logic_error" => \E i \in DOMAIN params : params[i] = Null

\* A call ends in one of the ways BoundTypeOK lists.
CallsEnd ==
    /\ stepped \in BOOLEAN /\ nulled \in BOOLEAN
    /\ outcome \in {"ok", "terminated", "aborted", "bad_alloc", "out_of_range",
                    "domain_error", "logic_error", "invalid_argument", "invalid_access"}

BoundIInv ==
    /\ CallsEnd
    /\ ParamsHold
    /\ RowIsParams
    /\ GotFromRow
    /\ ErrorHasNull

\* An object in use is of a type in use, and is not the absence of one.
LEMMA ObjectInUse ==
    ASSUME NEW o \in Objects
    PROVE  /\ o.type \in BoundTypes /\ o.type \in ClientTypes
           /\ o \in ObjectsOf(o.type) /\ o # None
           /\ RightAdaptors => o.type # "optional"
<1>1. PICK t \in BoundTypes : o \in ObjectsOf(t)
  BY DEF Objects
<1>2. t \in ClientTypes /\ o.type = t
  BY <1>1, BoundParametersAssumption, ObjectShape
<1>3. o # None
  BY <1>2, SixTypes DEF None, Object, ClientTypes, IntTypes, NullableTypes
<1>4. RightAdaptors => o.type # "optional"
  BY <1>1, <1>2 DEF RightAdaptors
<1> QED BY <1>1, <1>2, <1>3, <1>4

\* The types follow: the columns of a row are values, one for each parameter.
LEMMA TypesFollow == BoundIInv => BoundTypeOK
<1> SUFFICES ASSUME BoundIInv PROVE BoundTypeOK
  OBVIOUS
<1> USE DEF BoundIInv
<1>1. \A i \in DOMAIN row : row = params
  BY DEF RowIsParams
<1>2. /\ DOMAIN params \in {1..n : n \in 0..MaxParams}
      /\ \A i \in DOMAIN params : params[i] \in Columns
      /\ DOMAIN last = DOMAIN params
      /\ \A i \in DOMAIN last : last[i] \in Objects \cup {None}
  BY DEF ParamsHold
<1>3. /\ row = <<>> \/ DOMAIN row = DOMAIN params
      /\ \A i \in DOMAIN row : row[i] \in Columns \ {Null}
  BY <1>1, <1>2 DEF RowIsParams
<1>4. got.column \in 0..MaxParams
  <2>1. DOMAIN row \subseteq 0..MaxParams
    BY <1>1, <1>2, BoundParametersAssumption
  <2> QED BY <2>1, BoundParametersAssumption DEF GotFromRow, NoGet
<1> QED BY <1>2, <1>3, <1>4 DEF BoundTypeOK, CallsEnd

\* Binding changes a parameter that is not read yet, or nothing.
LEMMA BindKeeps ==
    ASSUME BoundIInv, NEW o \in Objects, NEW i \in 0..(MaxParams + 1), Bind(i, o)
    PROVE  BoundIInv'
<1> USE DEF BoundIInv
<1>1. /\ got' = NoGet /\ UNCHANGED <<row, stepped>>
      /\ nulled' = (nulled \/ ConvertsNull(o))
      /\ outcome' \in {"terminated", "out_of_range", "ok", "bad_alloc", "domain_error"}
  BY DEF Bind
<1>2. GotFromRow' /\ ErrorHasNull'
  BY <1>1 DEF GotFromRow, ErrorHasNull
<1>3. ParamsHold' /\ RowIsParams'
  <2>1. CASE UNCHANGED <<params, last>>
    BY <1>1, <2>1 DEF ParamsHold, RowIsParams
  <2>2. ASSUME NEW cell \in Columns, NEW kept, Bound(i, cell, kept),
               ~stepped, i \in DOMAIN params,
               IF kept = None THEN cell = Null
               ELSE kept \in Objects /\ \E p \in Passed(ToValue(kept)) : cell = Stored(p)
        PROVE  ParamsHold' /\ RowIsParams'
    <3>1. /\ DOMAIN params' = DOMAIN params /\ DOMAIN last' = DOMAIN last
          /\ \A j \in DOMAIN params :
                /\ params'[j] = IF j = i THEN cell ELSE params[j]
                /\ last'[j] = IF j = i THEN kept ELSE last[j]
      BY <2>2 DEF Bound, ParamsHold
    <3>2. \E n \in 0..MaxParams : params' \in [1..n -> Columns]
      BY <2>2 DEF Bound, ParamsHold
    <3>3. ASSUME NEW j \in DOMAIN params
          PROVE  IF last'[j] = None THEN params'[j] = Null
                 ELSE /\ last'[j] \in Objects
                      /\ \E p \in Passed(ToValue(last'[j])) : params'[j] = Stored(p)
      <4>1. CASE j = i
        BY <2>2, <3>1, <4>1
      <4>2. CASE j # i
        BY <3>1, <4>2 DEF ParamsHold
      <4> QED BY <4>1, <4>2
    <3>4. row = <<>>
      BY <2>2 DEF RowIsParams
    <3> QED BY <1>1, <3>1, <3>2, <3>3, <3>4 DEF ParamsHold, RowIsParams
  <2>3. \A p \in Passed(ToValue(o)) : Stored(p) \in Columns
    BY ObjectInUse, ObjectBecomes, WhatIsStored
  <2>4. o # None /\ Null \in Columns
    BY ObjectInUse DEF Columns, Values, Null, Value
  <2> QED BY <2>1, <2>2, <2>3, <2>4 DEF Bind
<1>4. CallsEnd'
  BY <1>1 DEF CallsEnd
<1> QED BY <1>2, <1>3, <1>4

\* A read gives what the column reads as, or says that it cannot be read.
LEMMA ReadKeeps ==
    ASSUME BoundIInv, NEW i \in DOMAIN row, NEW t \in BoundTypes,
           UNCHANGED <<params, row, stepped, nulled, last>>,
           IF CanGet(row[i], t)
           THEN outcome' = "ok" /\ got' = [column |-> i, object |-> FromValue(row[i], t)]
           ELSE /\ outcome' = "invalid_access"
                /\ got' = [column |-> i, object |-> Object(t, <<>>, FALSE)]
    PROVE  BoundIInv'
<1> USE DEF BoundIInv
<1>1. /\ got'.column = i /\ got'.object.type = t
      /\ outcome' = IF CanGet(row[i], t) THEN "ok" ELSE "invalid_access"
      /\ CanGet(row[i], t) => got'.object = FromValue(row[i], t)
  <2>1. FromValue(row[i], t).type = t /\ Object(t, <<>>, FALSE).type = t
    BY DEF FromValue, Object
  <2>2. CASE CanGet(row[i], t)
    BY <2>1, <2>2
  <2>3. CASE ~CanGet(row[i], t)
    <3>1. outcome' = "invalid_access"
      BY <2>3
    <3>2. got' = [column |-> i, object |-> Object(t, <<>>, FALSE)]
      BY <2>3, Zenon
    <3>3. got'.column = i /\ got'.object.type = t
      BY <3>2 DEF Object
    <3> QED BY <2>3, <3>1, <3>3
  <2> QED BY <2>2, <2>3
<1>2. GotFromRow'
  <2>1. CASE CanGet(row[i], t)
    BY <1>1, <2>1 DEF GotFromRow
  <2>2. CASE ~CanGet(row[i], t)
    BY <1>1, <2>2 DEF GotFromRow
  <2> QED BY <2>1, <2>2
<1>3. ErrorHasNull' /\ CallsEnd'
  BY <1>1 DEF ErrorHasNull, CallsEnd
<1>4. ParamsHold' /\ RowIsParams'
  BY DEF ParamsHold, RowIsParams
<1> QED BY <1>2, <1>3, <1>4

\* Every call keeps the invariant.
LEMMA BoundIInvStep == BoundIInv /\ [Next]_vars => BoundIInv'
<1> SUFFICES ASSUME BoundIInv, [Next]_vars PROVE BoundIInv'
  OBVIOUS
<1>1. ASSUME NEW o \in Objects, NEW i \in 0..(MaxParams + 1), Bind(i, o) PROVE BoundIInv'
  BY <1>1, BindKeeps
<1> USE DEF BoundIInv
<1>2. ASSUME NEW o \in Objects, NEW i \in 0..MaxParams, BindNamed(i, o) PROVE BoundIInv'
  <2>1. CASE Bind(i, o)
    <3>1. i \in 0..(MaxParams + 1)
      BY BoundParametersAssumption
    <3> QED BY <1>1, <2>1, <3>1
  <2>2. CASE ~Bind(i, o)
    <3>1. /\ outcome' \in {"aborted", "domain_error"} /\ got' = NoGet
          /\ nulled' = (nulled \/ ConvertsNull(o))
          /\ UNCHANGED <<params, last, row, stepped>>
      BY <1>2, <2>2 DEF BindNamed
    <3>2. ParamsHold' /\ RowIsParams' /\ GotFromRow' /\ ErrorHasNull' /\ CallsEnd'
      BY <3>1 DEF ParamsHold, RowIsParams, GotFromRow, ErrorHasNull, CallsEnd
    <3> QED BY <3>2
  <2> QED BY <2>1, <2>2
<1>3. CASE ReadRow
  <2>1. /\ stepped' = TRUE /\ got' = NoGet /\ UNCHANGED <<params, nulled, last>>
        /\ \/ /\ \E i \in DOMAIN params : params[i] = Null
              /\ outcome' = "logic_error" /\ row' = <<>>
           \/ /\ \A i \in DOMAIN params : params[i] # Null
              /\ outcome' = "ok" /\ row' = params
    BY <1>3 DEF ReadRow, CurrentRow
  <2>2. RowIsParams' /\ GotFromRow' /\ ErrorHasNull' /\ CallsEnd'
    BY <2>1 DEF RowIsParams, GotFromRow, ErrorHasNull, CallsEnd
  <2>3. ParamsHold'
    BY <2>1 DEF ParamsHold
  <2> QED BY <2>2, <2>3
<1>4. CASE Get
  <2>1. PICK i \in DOMAIN row, t \in BoundTypes :
            IF CanGet(row[i], t)
            THEN outcome' = "ok" /\ got' = [column |-> i, object |-> FromValue(row[i], t)]
            ELSE /\ outcome' = "invalid_access"
                 /\ got' = [column |-> i, object |-> Object(t, <<>>, FALSE)]
    BY <1>4 DEF Get
  <2> QED BY <1>4, <2>1, ReadKeeps DEF Get
<1>5. CASE As
  <2>1. PICK t \in RowTypes \cap BoundTypes :
            IF Len(row) # 1
            THEN outcome' = "invalid_argument" /\ got' = NoGet
            ELSE IF CanGet(row[1], t)
            THEN outcome' = "ok" /\ got' = [column |-> 1, object |-> FromValue(row[1], t)]
            ELSE /\ outcome' = "invalid_access"
                 /\ got' = [column |-> 1, object |-> Object(t, <<>>, FALSE)]
    BY <1>5 DEF As
  <2>2. UNCHANGED <<params, row, stepped, nulled, last>>
    BY <1>5 DEF As
  <2>3. CASE Len(row) # 1
    <3>0. outcome' = "invalid_argument" /\ got' = NoGet
      BY <2>1, <2>3
    <3>1. GotFromRow' /\ ErrorHasNull' /\ CallsEnd'
      BY <2>2, <3>0 DEF GotFromRow, ErrorHasNull, CallsEnd
    <3>2. ParamsHold' /\ RowIsParams'
      BY <2>2 DEF ParamsHold, RowIsParams
    <3> QED BY <3>1, <3>2
  <2>4. CASE Len(row) = 1
    <3>1. row = <<>> => Len(row) = 0
      OBVIOUS
    <3>2. row = params
      BY <2>4, <3>1 DEF RowIsParams
    <3>3. PICK n \in 0..MaxParams : params \in [1..n -> Columns]
      BY DEF ParamsHold
    <3>4. params \in Seq(Columns) /\ n \in Nat /\ Len(params) = n
      BY <3>3, BoundParametersAssumption
    <3>5. 1 \in DOMAIN row
      BY <2>4, <3>2, <3>3, <3>4
    <3> QED BY <2>1, <2>2, <2>4, <3>5, ReadKeeps
  <2> QED BY <2>3, <2>4
<1>6. CASE UNCHANGED vars
  <2>1. ParamsHold' /\ RowIsParams' /\ GotFromRow' /\ ErrorHasNull' /\ CallsEnd'
    BY <1>6 DEF vars, ParamsHold, RowIsParams, GotFromRow, ErrorHasNull, CallsEnd
  <2> QED BY <2>1
<1> QED BY <1>1, <1>2, <1>3, <1>4, <1>5, <1>6
        DEF Next, BindIndex, BindName, Ended

\* A statement begins with its parameters unbound.
LEMMA BoundInitially == Init => BoundIInv
<1> SUFFICES ASSUME Init PROVE BoundIInv
  OBVIOUS
<1>1. Null \in Columns
  BY DEF Columns, Values, Null, Value
<1>2. ParamsHold
  BY <1>1 DEF Init, ParamsHold
<1>3. RowIsParams /\ GotFromRow /\ ErrorHasNull /\ CallsEnd
  BY DEF Init, RowIsParams, GotFromRow, ErrorHasNull, CallsEnd
<1> QED BY <1>2, <1>3 DEF Init, BoundIInv

\* In every reachable state parameters, row and what was read agree with what
\* was bound.
THEOREM BoundIInvHolds == Spec => []BoundIInv
  BY BoundInitially, BoundIInvStep, PTL DEF Spec

-----------------------------------------------------------------------------
(* The theorems.                                                           *)

\* Every variable has its type in every reachable state.
THEOREM BoundTypeCorrect == Spec => []BoundTypeOK
  BY BoundIInvHolds, TypesFollow, PTL

\* What a column reads as, and what was bound there, if both are of one type.
LEMMA ReadsBack ==
    ASSUME BoundIInv, RightAdaptors, ReadAsBound
    PROVE  LET o == last[got.column]
           IN  /\ outcome \in {"ok", "invalid_access"}
               /\ outcome = "ok" =>
                    (got.object = o <=> (o.type = "wide_string" => FitsChars(o.data)))
               /\ outcome = "invalid_access" => o.type = "datetime"
<1> DEFINE i == got.column
           o == last[i]
<1> USE DEF BoundIInv
<1>1. /\ got # NoGet /\ o # None /\ o.type = got.object.type
      /\ i \in DOMAIN row /\ outcome \in {"ok", "invalid_access"}
  BY DEF ReadAsBound, GotFromRow
<1>2. row = params /\ params[i] # Null
  BY <1>1 DEF RowIsParams
<1>3. o \in Objects /\ \E p \in Passed(ToValue(o)) : params[i] = Stored(p)
  BY <1>1, <1>2 DEF ParamsHold
<1>4. /\ o.type \in ClientTypes \ {"optional"} /\ o \in ObjectsOf(o.type)
  BY <1>3, ObjectInUse
<1>5. IF o.type = "datetime" THEN ~CanGet(row[i], o.type)
      ELSE /\ CanGet(row[i], o.type)
           /\ FromValue(row[i], o.type) = o <=> (o.type = "wide_string" => FitsChars(o.data))
  BY <1>2, <1>3, <1>4, RoundTrip
<1>6. IF outcome = "ok"
      THEN CanGet(row[i], o.type) /\ got.object = FromValue(row[i], o.type)
      ELSE ~CanGet(row[i], o.type)
  BY <1>1 DEF GotFromRow
<1> HIDE DEF o
<1> QED BY <1>1, <1>5, <1>6 DEF o

\* On the way through adaptors, SQLite and row no object becomes another but a
\* string of wide characters, and that just if one does not fit a char: for any
\* widths of integers and characters, any strings and any number of parameters.
THEOREM NothingElseChanges == RightAdaptors => (Spec => []ComesBackIfItFits)
<1> SUFFICES ASSUME RightAdaptors PROVE Spec => []ComesBackIfItFits
  OBVIOUS
<1>1. BoundIInv => ComesBackIfItFits
  <2> SUFFICES ASSUME BoundIInv, got # NoGet, outcome = "ok"
               PROVE  LET o == last[got.column]
                      IN  /\ o # None
                          /\ o.type = got.object.type =>
                                (got.object = o <=> (o.type = "wide_string" => FitsChars(o.data)))
    BY DEF ComesBackIfItFits
  <2>1. got.column \in DOMAIN row /\ row = params /\ params[got.column] # Null
    BY DEF BoundIInv, GotFromRow, RowIsParams
  <2>2. last[got.column] # None
    BY <2>1 DEF BoundIInv, ParamsHold
  <2> QED BY <2>2, ReadsBack DEF ReadAsBound
<1> QED BY <1>1, BoundIInvHolds, PTL

\* Only a datetime cannot be read as what it was bound as.
THEOREM DatetimesAreLost == RightAdaptors => (Spec => []OnlyDatetimeIsLost)
<1> SUFFICES ASSUME RightAdaptors PROVE Spec => []OnlyDatetimeIsLost
  OBVIOUS
<1>1. BoundIInv => OnlyDatetimeIsLost
  <2> SUFFICES ASSUME BoundIInv, ReadAsBound, outcome = "invalid_access"
               PROVE  got.object.type = "datetime"
    BY DEF OnlyDatetimeIsLost
  <2> QED BY ReadsBack DEF ReadAsBound
<1> QED BY <1>1, BoundIInvHolds, PTL

\* A row that cannot be read has a parameter that is NULL for one of the
\* reasons the client can know of.
THEOREM ReasonKnown == RightAdaptors => (Spec => []UnreadableForAReason)
<1> SUFFICES ASSUME RightAdaptors PROVE Spec => []UnreadableForAReason
  OBVIOUS
<1>1. BoundIInv => UnreadableForAReason
  <2> SUFFICES ASSUME BoundIInv, NEW i \in DOMAIN params, params[i] = Null, last[i] # None
               PROVE  \/ last[i].null
                      \/ last[i].type = "null_t"
                      \/ last[i].type = "real" /\ last[i].data = <<NaN>>
                      \/ last[i].type = "blob" /\ last[i].data = <<>>
    BY DEF BoundIInv, ErrorHasNull, ParamsHold, UnreadableForAReason
  <2> DEFINE o == last[i]
             v == ToValue(o)
  <2>1. o \in Objects /\ \E p \in Passed(v) : Stored(p) = Null
    BY DEF BoundIInv, ParamsHold
  <2> HIDE DEF o
  <2>2. o.type \in ClientTypes \ {"optional"} /\ o \in ObjectsOf(o.type)
    BY <2>1, ObjectInUse
  <2>3. v \in Values
    BY <2>2, ObjectBecomes
  <2>4. \/ v = Null
        \/ v.type = "real" /\ v.data = <<NaN>>
        \/ v.type = "blob" /\ v.data = <<>>
    <3>1. ASSUME v.type = "datetime" PROVE Value("integer", v.data) # Null
      BY DEF Value, Null
    <3> QED BY <2>1, <2>3, <3>1, WhatIsStored
  <2>5. CASE o.type \in BasicTypes
    <3>1. v.type = o.type /\ v.data = o.data
      BY <2>2, <2>5, ObjectBecomes DEF Value
    <3> QED BY <2>4, <3>1 DEF Null, Value, o
  <2>6. CASE o.type \in IntTypes
    <3>1. v.type = "integer"
      BY <2>2, <2>6, ObjectBecomes DEF Value
    <3> QED BY <2>4, <3>1 DEF Null, Value
  <2>7. CASE o.type \in {"basic_string", "wide_string", "NullableString"}
    <3>1. o.null \/ v.type = "text"
      BY <2>2, <2>7, ObjectBecomes DEF Value
    <3> QED BY <2>4, <3>1 DEF Null, Value, o
  <2> QED BY <2>2, <2>5, <2>6, <2>7, SixTypes DEF ClientTypes, NullableTypes
<1> QED BY <1>1, BoundIInvHolds, PTL

\* An integer read as a type of another width or sign is exact if it fits.
THEOREM FittingIsExact == Spec => []ExactIfItFits
<1>1. BoundIInv => ExactIfItFits
  <2> DEFINE i == got.column
             t == got.object.type
  <2> SUFFICES ASSUME BoundIInv, got # NoGet, outcome = "ok", t \in IntTypes,
                      Object(t, row[i].data, FALSE) \in ObjectsOf(t)
               PROVE  got.object.data = row[i].data
    BY DEF ExactIfItFits
  <2>1. /\ i \in DOMAIN row /\ CanGet(row[i], t) /\ got.object = FromValue(row[i], t)
    BY DEF BoundIInv, GotFromRow
  <2>2. row[i] \in Columns
    BY <2>1 DEF BoundIInv, RowIsParams, ParamsHold
  <2> HIDE DEF t, i
  <2>3. row[i].type = "integer"
    BY <2>1, SixTypes DEF CanGet, BaseType, IntTypes, NullableTypes
  <2>4. PICK n \in Integers : row[i].data = <<n>>
    BY <2>2, <2>3, ValueShape DEF Columns
  <2>5. n \in NumbersOf(t)
    <3>1. t \in ClientTypes
      BY DEF ClientTypes
    <3>2. PICK k \in NumbersOf(t) : Object(t, row[i].data, FALSE).data = <<k>>
      BY <3>1, ObjectShape
    <3>3. <<n>>[1] = <<k>>[1]
      BY <2>4, <3>2 DEF Object
    <3> QED BY <3>2, <3>3
  <2>6. FromInteger(t, n) = n
    BY <2>5, IntegerReturns
  <2>7. FromValue(row[i], t) = Object(t, <<FromInteger(t, row[i].data[1])>>, FALSE)
    BY DEF FromValue, IntTypes, NullableTypes
  <2> QED BY <2>1, <2>4, <2>6, <2>7 DEF Object
<1> QED BY <1>1, BoundIInvHolds, PTL
==============================================================================
