--------------------------- MODULE ValueOrderProofs ---------------------------
(***************************************************************************)
(* Proofs about ValueOrder, for numbers and strings of any length and for  *)
(* any widths of integers and chars.                                       *)
(*                                                                         *)
(* Values are ordered by their type and, within a type, as numbers or      *)
(* lexicographically.  That two different strings are ordered one way or   *)
(* the other rests on the first place in which they differ.                *)
(***************************************************************************)
EXTENDS ValueOrder, SequenceTheorems, WellFoundedInduction, TLAPS

-----------------------------------------------------------------------------
(* The lexicographic order.                                                *)

\* A set of natural numbers that is not empty has a least one.
LEMMA LeastNatural ==
    ASSUME NEW S \in SUBSET Nat, S # {}
    PROVE  \E m \in S : \A k \in S : m <= k
<1>1. IsWellFoundedOn(OpToRel(<, Nat), Nat)
  BY NatLessThanWellFounded
<1>2. PICK m \in S : \A k \in S : <<k, m>> \notin OpToRel(<, Nat)
  BY <1>1, WFMin
<1>3. \A k \in S : ~(k < m)
  BY <1>2 DEF OpToRel
<1> QED BY <1>3

\* Two sequences do not both come first.
LEMMA LexAsymmetric ==
    ASSUME NEW s \in Seq(Int), NEW t \in Seq(Int)
    PROVE  ~(Lexicographic(s, t) /\ Lexicographic(t, s))
<1> SUFFICES ASSUME Lexicographic(s, t), Lexicographic(t, s) PROVE FALSE
  OBVIOUS
<1>1. PICK k \in 0..Len(s) :
        /\ k < Len(t) /\ \A i \in 1..k : s[i] = t[i]
        /\ k < Len(s) => s[k + 1] < t[k + 1]
  BY DEF Lexicographic
<1>2. PICK l \in 0..Len(t) :
        /\ l < Len(s) /\ \A i \in 1..l : t[i] = s[i]
        /\ l < Len(t) => t[l + 1] < s[l + 1]
  BY DEF Lexicographic
<1>3. \A i \in 1..Len(s) : s[i] \in Int
  OBVIOUS
<1>4. \A i \in 1..Len(t) : t[i] \in Int
  OBVIOUS
<1>5. CASE k < l
  <2>1. k + 1 \in 1..l /\ k + 1 \in 1..Len(s) /\ k < Len(s)
    BY <1>1, <1>2, <1>5
  <2> QED BY <1>1, <1>2, <1>3, <2>1
<1>6. CASE l < k
  <2>1. l + 1 \in 1..k /\ l + 1 \in 1..Len(t) /\ l < Len(t)
    BY <1>1, <1>2, <1>6
  <2> QED BY <1>1, <1>2, <1>4, <2>1
<1>7. CASE k = l
  <2>1. k + 1 \in 1..Len(s) /\ k + 1 \in 1..Len(t)
    BY <1>1, <1>2, <1>7
  <2> QED BY <1>1, <1>2, <1>3, <1>4, <1>7, <2>1
<1> QED BY <1>5, <1>6, <1>7

\* The first difference of s and u is the first that s has with t or t with u.
LEMMA LexTransitive ==
    ASSUME NEW s \in Seq(Int), NEW t \in Seq(Int), NEW u \in Seq(Int),
           Lexicographic(s, t), Lexicographic(t, u)
    PROVE  Lexicographic(s, u)
<1>1. PICK k \in 0..Len(s) :
        /\ k < Len(t) /\ \A i \in 1..k : s[i] = t[i]
        /\ k < Len(s) => s[k + 1] < t[k + 1]
  BY DEF Lexicographic
<1>2. PICK l \in 0..Len(t) :
        /\ l < Len(u) /\ \A i \in 1..l : t[i] = u[i]
        /\ l < Len(t) => t[l + 1] < u[l + 1]
  BY DEF Lexicographic
<1>3. \A i \in Nat \ {0} :
        /\ i <= Len(s) => s[i] \in Int
        /\ i <= Len(t) => t[i] \in Int
        /\ i <= Len(u) => u[i] \in Int
  OBVIOUS
<1>4. CASE k <= l
  <2>1. k \in 0..Len(s) /\ k < Len(u)
    BY <1>1, <1>2, <1>4
  <2>2. ASSUME NEW i \in 1..k PROVE s[i] = u[i]
    <3>1. i \in 1..l
      BY <1>2, <1>4
    <3> QED BY <1>1, <1>2, <3>1
  <2>3. ASSUME k < Len(s) PROVE s[k + 1] < u[k + 1]
    <3>1. s[k + 1] < t[k + 1] /\ k + 1 \in Nat \ {0}
      BY <1>1, <2>3
    <3>2. t[k + 1] <= u[k + 1]
      <4>1. CASE k < l
        <5>1. k + 1 \in 1..l /\ k + 1 <= Len(t)
          BY <1>1, <1>2, <4>1
        <5> QED BY <1>2, <1>3, <3>1, <5>1
      <4>2. CASE k = l
        <5>1. t[k + 1] < u[k + 1] /\ k + 1 <= Len(t) /\ k + 1 <= Len(u)
          BY <1>1, <1>2, <4>2
        <5> QED BY <1>3, <3>1, <5>1
      <4> QED BY <1>4, <4>1, <4>2
    <3>3. k + 1 <= Len(s) /\ k + 1 <= Len(t) /\ k + 1 <= Len(u)
      BY <1>1, <2>1, <2>3
    <3> QED BY <1>3, <3>1, <3>2, <3>3
  <2> QED BY <2>1, <2>2, <2>3 DEF Lexicographic
<1>5. CASE l < k
  <2>1. l \in 0..Len(s) /\ l < Len(u) /\ l < Len(s) /\ l < Len(t)
    BY <1>1, <1>2, <1>5
  <2>2. ASSUME NEW i \in 1..l PROVE s[i] = u[i]
    <3>1. i \in 1..k
      BY <1>1, <1>5
    <3> QED BY <1>1, <1>2, <3>1
  <2>3. s[l + 1] < u[l + 1]
    <3>1. l + 1 \in 1..k
      BY <1>1, <1>2, <1>5
    <3>2. s[l + 1] = t[l + 1] /\ t[l + 1] < u[l + 1]
      BY <1>1, <1>2, <2>1, <3>1
    <3> QED BY <3>2
  <2> QED BY <2>1, <2>2, <2>3 DEF Lexicographic
<1> QED BY <1>1, <1>2, <1>4, <1>5

\* Sequences of the same length with the same members are the same.
LEMMA SameSequence ==
    \A s, t \in Seq(Int) :
        Len(s) = Len(t) /\ (\A i \in 1..Len(s) : s[i] = t[i]) => s = t
  BY SeqEqual

\* Two sequences agree up to a place at which they differ or one of them ends.
LEMMA FirstDifference ==
    ASSUME NEW s \in Seq(Int), NEW t \in Seq(Int)
    PROVE  \E m \in 0..Len(s) :
              /\ m <= Len(t)
              /\ \A i \in 1..m : s[i] = t[i]
              /\ m < Len(s) /\ m < Len(t) => s[m + 1] # t[m + 1]
<1> DEFINE Apart(n) == n >= Len(s) \/ n >= Len(t) \/ s[n + 1] # t[n + 1]
           D == {n \in Nat : Apart(n)}
<1>1. Len(s) \in D /\ Len(t) \in D
  OBVIOUS
<1>2. PICK m \in D : \A k \in D : m <= k
  <2>1. D \in SUBSET Nat /\ D # {}
    BY <1>1
  <2> QED BY <2>1, LeastNatural
<1>3. m \in Nat /\ m <= Len(s) /\ m <= Len(t)
  BY <1>1, <1>2
<1>4. ASSUME NEW i \in 1..m PROVE s[i] = t[i]
  <2>1. PICK n \in Nat : n + 1 = i /\ n < m
    <3>1. i - 1 \in Nat /\ (i - 1) + 1 = i /\ i - 1 < m
      BY <1>3
    <3> QED BY <3>1
  <2>2. ~(m <= n)
    BY <1>3, <2>1
  <2>3. ~Apart(n)
    BY <1>2, <2>1, <2>2
  <2> QED BY <2>1, <2>3
<1>5. Apart(m)
  BY <1>2
<1> QED BY <1>3, <1>4, <1>5

\* Of two different sequences one comes first.
LEMMA LexTotal ==
    ASSUME NEW s \in Seq(Int), NEW t \in Seq(Int), s # t
    PROVE  Lexicographic(s, t) \/ Lexicographic(t, s)
<1>1. PICK m \in 0..Len(s) :
        /\ m <= Len(t)
        /\ \A i \in 1..m : s[i] = t[i]
        /\ m < Len(s) /\ m < Len(t) => s[m + 1] # t[m + 1]
  BY FirstDifference
<1>2. CASE m < Len(s) /\ m < Len(t)
  <2>1. s[m + 1] \in Int /\ t[m + 1] \in Int /\ s[m + 1] # t[m + 1]
    BY <1>1, <1>2
  <2>2. s[m + 1] < t[m + 1] \/ t[m + 1] < s[m + 1]
    BY <2>1
  <2>3. m \in 0..Len(t)
    BY <1>1
  <2> QED BY <1>1, <1>2, <2>2, <2>3 DEF Lexicographic
<1>3. CASE m = Len(s) /\ m < Len(t)
  BY <1>1, <1>3 DEF Lexicographic
<1>4. CASE m < Len(s) /\ m = Len(t)
  <2>1. m \in 0..Len(t) /\ m < Len(s) /\ ~(m < Len(t))
    BY <1>1, <1>4
  <2>2. \A i \in 1..m : t[i] = s[i]
    BY <1>1
  <2>3. Lexicographic(t, s)
    BY <2>1, <2>2 DEF Lexicographic
  <2> QED BY <2>3
<1>5. CASE m = Len(s) /\ m = Len(t)
  <2>1. Len(s) = Len(t) /\ \A i \in 1..Len(s) : s[i] = t[i]
    BY <1>1, <1>5
  <2>2. s = t
    BY <2>1, SameSequence
  <2> QED BY <2>2
<1>6. Len(s) \in Nat /\ Len(t) \in Nat
  OBVIOUS
<1> QED BY <1>1, <1>2, <1>3, <1>4, <1>5, <1>6

-----------------------------------------------------------------------------
(* Chars.                                                                  *)

Bytes == 0..(2 * CharHalf - 1)

\* A byte is one of the signed chars, and different bytes are different ones.
LEMMA CharsDiffer ==
    /\ \A n \in Bytes : Signed(n, CharHalf) \in Int
    /\ \A n, k \in Bytes : Signed(n, CharHalf) = Signed(k, CharHalf) => n = k
<1> DEFINE h == CharHalf
           p == 2 * h
<1>1. h \in Nat \ {0}
  BY AdioValueAssumption
<1>2. /\ \A n : Signed(n, CharHalf) = ((n + h) % p) - h
      /\ Bytes = 0..(p - 1)
  BY DEF Signed, Bytes
<1> HIDE DEF h
<1>3. p \in Nat \ {0} /\ p = h + h
  BY <1>1
<1> HIDE DEF p
<1>4. \A k \in 0..(p - 1) : k % p = k
  BY <1>3
<1>5. ASSUME NEW n \in 0..(p - 1)
      PROVE  (n + h) % p = IF n < h THEN n + h ELSE n - h
  <2>1. CASE n < h
    <3>1. n + h \in 0..(p - 1)
      BY <1>1, <1>3, <2>1
    <3> QED BY <1>4, <2>1, <3>1
  <2>2. CASE ~(n < h)
    <3>1. PICK r \in 0..(p - 1) : r = n - h /\ n + h = r + p
      <4>1. n - h \in 0..(p - 1) /\ n + h = (n - h) + p
        BY <1>1, <1>3, <2>2
      <4> QED BY <4>1
    <3>2. (r + p) % p = r
      BY <1>3, <1>4
    <3> QED BY <2>2, <3>1, <3>2
  <2> QED BY <2>1, <2>2
<1>6. \A n \in Bytes : n \in 0..(p - 1) /\ n \in Int
  BY <1>2, <1>3
<1>7. \A n \in Bytes : Signed(n, CharHalf) = (IF n < h THEN n + h ELSE n - h) - h
  BY <1>2, <1>3, <1>5, <1>6
<1>8. \A n \in Bytes : Signed(n, CharHalf) = IF n < h THEN n ELSE n - p
  BY <1>1, <1>3, <1>6, <1>7
<1> QED BY <1>1, <1>3, <1>6, <1>8

\* So signed chars tell strings apart as bytes do.
LEMMA CharsOfStrings ==
    ASSUME NEW s \in Strings, NEW t \in Strings
    PROVE  /\ s \in Seq(Int) /\ t \in Seq(Int)
           /\ AsChars(s) \in Seq(Int) /\ AsChars(t) \in Seq(Int)
           /\ AsChars(s) = AsChars(t) => s = t
<1>1. s \in Seq(Bytes) /\ t \in Seq(Bytes)
  BY AdioValueAssumption DEF Bytes
<1>2. Bytes \subseteq Int
  BY AdioValueAssumption DEF Bytes
<1>3. s \in Seq(Int) /\ t \in Seq(Int)
  BY <1>1, <1>2, SeqMonotonic
<1>4. ASSUME NEW u \in Seq(Bytes)
      PROVE  /\ AsChars(u) \in Seq(Int) /\ Len(AsChars(u)) = Len(u)
             /\ \A i \in 1..Len(u) : AsChars(u)[i] = Signed(u[i], CharHalf)
  <2>1. AsChars(u) = [i \in 1..Len(u) |-> Signed(u[i], CharHalf)]
    BY DEF AsChars
  <2>2. \A i \in 1..Len(u) : Signed(u[i], CharHalf) \in Int
    BY CharsDiffer
  <2> QED BY <2>1, <2>2
<1>5. ASSUME AsChars(s) = AsChars(t) PROVE s = t
  <2>1. Len(s) = Len(t)
    BY <1>1, <1>4, <1>5
  <2>2. ASSUME NEW i \in 1..Len(s) PROVE s[i] = t[i]
    <3>1. s[i] \in Bytes /\ t[i] \in Bytes
      BY <1>1, <2>1
    <3>2. Signed(s[i], CharHalf) = Signed(t[i], CharHalf)
      BY <1>1, <1>4, <1>5, <2>1
    <3> QED BY <3>1, <3>2, CharsDiffer
  <2> QED BY <1>3, <2>1, <2>2, SameSequence
<1> QED BY <1>1, <1>3, <1>4, <1>5

-----------------------------------------------------------------------------
(* Values.                                                                 *)

\* A value is its type and its data.
LEMMA ShapeOfValue ==
    ASSUME NEW v \in Values
    PROVE  /\ v.type \in BasicTypes
           /\ v.type = "null_t" => v.data = <<>>
           /\ v.type \in {"integer", "datetime"} => \E n \in Int : v.data = <<n>>
           /\ v.type = "real" => \E r \in Int \cup {NaN} : v.data = <<r>>
           /\ v.type \in {"text", "blob"} => v.data \in Strings
<1>1. BasicTypes = {"null_t", "integer", "real", "text", "blob", "datetime"}
  BY DEF BasicTypes, Position
<1>2. Reals \subseteq Int
  BY AdioValueAssumption
<1>3. Integers \subseteq Int
  BY AdioValueAssumption DEF Integers
<1> QED BY <1>1, <1>2, <1>3 DEF Values, Value, Null

\* Types are ordered as the enumeration is.
LEMMA TypesOrdered ==
    \A t, u \in BasicTypes :
        Position[t] \in Nat /\ Position[u] \in Nat /\ (Position[t] = Position[u] => t = u)
  BY DEF BasicTypes, Position

\* Values of a type are ordered as numbers or as sequences of numbers.
LEMMA OrderOfType ==
    ASSUME NEW v \in Values, NEW w \in Values, v.type = w.type
    PROVE  /\ v.type = "null_t" => ~Less(v, w) /\ Equal(v, w)
           /\ v.type \in {"integer", "real", "datetime"} /\ ~IsNaN(v) /\ ~IsNaN(w) =>
                \E n, k \in Int : /\ v.data = <<n>> /\ w.data = <<k>>
                                  /\ Less(v, w) <=> n < k
                                  /\ Equal(v, w) <=> n = k
           /\ v.type = "text" => /\ Less(v, w) <=> Lexicographic(v.data, w.data)
                                 /\ Equal(v, w) <=> v.data = w.data
           /\ v.type = "blob" => /\ Less(v, w) <=> Lexicographic(AsChars(v.data), AsChars(w.data))
                                 /\ Equal(v, w) <=> v.data = w.data
           /\ IsNaN(v) \/ IsNaN(w) => ~Less(v, w)
<1>1. ASSUME v.type \in {"integer", "real", "datetime"}, ~IsNaN(v), ~IsNaN(w)
      PROVE  \E n, k \in Int : /\ v.data = <<n>> /\ w.data = <<k>>
                               /\ Less(v, w) <=> n < k
                               /\ Equal(v, w) <=> n = k
  <2>1. PICK n \in Int : v.data = <<n>>
    BY <1>1, ShapeOfValue DEF IsNaN
  <2>2. PICK k \in Int : w.data = <<k>>
    BY <1>1, ShapeOfValue DEF IsNaN
  <2>3. v.data[1] = n /\ w.data[1] = k /\ (v.data = w.data <=> n = k)
    BY <2>1, <2>2
  <2>4. Less(v, w) <=> v.data[1] < w.data[1]
    BY <1>1 DEF Less
  <2>5. Equal(v, w) <=> v.data = w.data
    BY <1>1 DEF Equal
  <2> QED BY <2>1, <2>2, <2>3, <2>4, <2>5
<1>2. ASSUME v.type = "null_t" PROVE ~Less(v, w) /\ Equal(v, w)
  BY <1>2, ShapeOfValue DEF Less, Equal, IsNaN
<1>3. ASSUME v.type = "text" PROVE /\ Less(v, w) <=> Lexicographic(v.data, w.data)
                                   /\ Equal(v, w) <=> v.data = w.data
  BY <1>3 DEF Less, Equal, IsNaN
<1>4. ASSUME v.type = "blob"
      PROVE  /\ Less(v, w) <=> Lexicographic(AsChars(v.data), AsChars(w.data))
             /\ Equal(v, w) <=> v.data = w.data
  BY <1>4 DEF Less, Equal, IsNaN
<1>5. ASSUME IsNaN(v) \/ IsNaN(w) PROVE ~Less(v, w)
  BY <1>5 DEF Less, IsNaN
<1> QED BY <1>1, <1>2, <1>3, <1>4, <1>5

\* Of two values, neither of them NaN, one is less or they are equal.
LEMMA OneOfThree ==
    ASSUME NEW v \in Values, NEW w \in Values, ~IsNaN(v), ~IsNaN(w)
    PROVE  /\ ~(Less(v, w) /\ Less(w, v))
           /\ Equal(v, w) <=> ~Less(v, w) /\ ~Less(w, v)
<1>1. CASE v.type # w.type
  <2>1. /\ Less(v, w) <=> Position[v.type] < Position[w.type]
        /\ Less(w, v) <=> Position[w.type] < Position[v.type]
        /\ ~Equal(v, w)
    BY <1>1 DEF Less, Equal
  <2>2. /\ Position[v.type] \in Nat /\ Position[w.type] \in Nat
        /\ Position[v.type] # Position[w.type]
    BY <1>1, ShapeOfValue, TypesOrdered
  <2> QED BY <2>1, <2>2
<1>2. CASE v.type = w.type /\ v.type = "null_t"
  BY <1>2, OrderOfType
<1>3. CASE v.type = w.type /\ v.type \in {"integer", "real", "datetime"}
  <2>1. PICK n, k \in Int : /\ v.data = <<n>> /\ w.data = <<k>>
                            /\ Less(v, w) <=> n < k
                            /\ Equal(v, w) <=> n = k
    BY <1>3, OrderOfType
  <2>2. PICK i, j \in Int : /\ w.data = <<i>> /\ v.data = <<j>>
                            /\ Less(w, v) <=> i < j
    BY <1>3, OrderOfType
  <2>3. i = k /\ j = n
    BY <2>1, <2>2
  <2> QED BY <2>1, <2>2, <2>3
<1>4. CASE v.type = w.type /\ v.type = "text"
  <2>1. v.data \in Strings /\ w.data \in Strings
    BY <1>4, ShapeOfValue
  <2>2. v.data \in Seq(Int) /\ w.data \in Seq(Int)
    BY <2>1, CharsOfStrings
  <2>3. /\ Less(v, w) <=> Lexicographic(v.data, w.data)
        /\ Less(w, v) <=> Lexicographic(w.data, v.data)
        /\ Equal(v, w) <=> v.data = w.data
    BY <1>4, OrderOfType
  <2> QED BY <2>2, <2>3, LexAsymmetric, LexTotal
<1>5. CASE v.type = w.type /\ v.type = "blob"
  <2> DEFINE s == AsChars(v.data)
             t == AsChars(w.data)
  <2>1. v.data \in Strings /\ w.data \in Strings
    BY <1>5, ShapeOfValue
  <2>2. s \in Seq(Int) /\ t \in Seq(Int) /\ (s = t <=> v.data = w.data)
    BY <2>1, CharsOfStrings
  <2>3. /\ Less(v, w) <=> Lexicographic(s, t)
        /\ Less(w, v) <=> Lexicographic(t, s)
        /\ Equal(v, w) <=> v.data = w.data
    BY <1>5, OrderOfType
  <2> HIDE DEF s, t
  <2> QED BY <2>2, <2>3, LexAsymmetric, LexTotal
<1>6. v.type \in {"null_t", "integer", "real", "text", "blob", "datetime"}
  BY ShapeOfValue DEF BasicTypes, Position
<1> QED BY <1>1, <1>2, <1>3, <1>4, <1>5, <1>6

\* Less is transitive, NaN or not.
LEMMA LessTransitive ==
    ASSUME NEW v \in Values, NEW w \in Values, NEW u \in Values,
           Less(v, w), Less(w, u)
    PROVE  Less(v, u)
<1>1. CASE v.type # w.type \/ w.type # u.type
  <2>1. /\ v.type # w.type => Position[v.type] < Position[w.type]
        /\ w.type # u.type => Position[w.type] < Position[u.type]
    BY DEF Less
  <2>2. /\ Position[v.type] \in Nat /\ Position[w.type] \in Nat
        /\ Position[u.type] \in Nat
    BY ShapeOfValue, TypesOrdered
  <2>3. Position[v.type] < Position[u.type]
    BY <1>1, <2>1, <2>2
  <2>4. v.type # u.type
    BY <2>2, <2>3
  <2> QED BY <2>3, <2>4 DEF Less
<1>2. CASE v.type = w.type /\ w.type = u.type
  <2>1. v.type # "null_t" /\ ~IsNaN(v) /\ ~IsNaN(w) /\ ~IsNaN(u)
    BY <1>2, OrderOfType
  <2>2. CASE v.type \in {"integer", "real", "datetime"}
    <3>1. PICK n, k \in Int : v.data = <<n>> /\ w.data = <<k>> /\ n < k
      BY <1>2, <2>1, <2>2, OrderOfType
    <3>2. PICK i, j \in Int : w.data = <<i>> /\ u.data = <<j>> /\ i < j
      BY <1>2, <2>1, <2>2, OrderOfType
    <3>3. PICK a, b \in Int : v.data = <<a>> /\ u.data = <<b>> /\ (Less(v, u) <=> a < b)
      BY <1>2, <2>1, <2>2, OrderOfType
    <3>4. a = n /\ b = j /\ i = k
      BY <3>1, <3>2, <3>3
    <3> QED BY <3>1, <3>2, <3>3, <3>4
  <2>3. CASE v.type = "text"
    <3>1. v.data \in Strings /\ w.data \in Strings /\ u.data \in Strings
      BY <1>2, <2>3, ShapeOfValue
    <3>2. v.data \in Seq(Int) /\ w.data \in Seq(Int) /\ u.data \in Seq(Int)
      BY <3>1, CharsOfStrings
    <3>3. /\ Lexicographic(v.data, w.data) /\ Lexicographic(w.data, u.data)
          /\ Less(v, u) <=> Lexicographic(v.data, u.data)
      BY <1>2, <2>3, OrderOfType
    <3> QED BY <3>2, <3>3, LexTransitive
  <2>4. CASE v.type = "blob"
    <3> DEFINE r == AsChars(v.data)
               s == AsChars(w.data)
               t == AsChars(u.data)
    <3>1. v.data \in Strings /\ w.data \in Strings /\ u.data \in Strings
      BY <1>2, <2>4, ShapeOfValue
    <3>2. r \in Seq(Int) /\ s \in Seq(Int) /\ t \in Seq(Int)
      BY <3>1, CharsOfStrings
    <3>3. /\ Lexicographic(r, s) /\ Lexicographic(s, t)
          /\ Less(v, u) <=> Lexicographic(r, t)
      BY <1>2, <2>4, OrderOfType
    <3> HIDE DEF r, s, t
    <3> QED BY <3>2, <3>3, LexTransitive
  <2>5. v.type \in {"null_t", "integer", "real", "text", "blob", "datetime"}
    BY ShapeOfValue DEF BasicTypes, Position
  <2> QED BY <2>1, <2>2, <2>3, <2>4, <2>5
<1> QED BY <1>1, <1>2

-----------------------------------------------------------------------------
(* The theorems.                                                           *)

AllValues == x \in Values /\ y \in Values /\ z \in Values

\* The variables always hold values.
LEMMA ValuesAssigned == Spec => []AllValues
<1>1. Init => AllValues
  BY DEF Init, AllValues, Values
<1>2. AllValues /\ [Next]_vars => AllValues'
  BY DEF AllValues, Next, Assign, vars
<1> QED BY <1>1, <1>2, PTL DEF Spec

\* Without NaN, operator< is a strict total order whose equivalence is
\* operator==: for integers of any width, any numbers and any strings.
THEOREM OrderIsTotal == Spec => []StrictTotalOrder
<1>1. ASSUME AllValues PROVE StrictTotalOrder
  <2> SUFFICES ASSUME NEW v \in {x, y, z}, NEW w \in {x, y, z}, ~IsNaN(v), ~IsNaN(w)
               PROVE  /\ ~(Less(v, w) /\ Less(w, v))
                      /\ Equal(v, w) <=> ~Less(v, w) /\ ~Less(w, v)
                      /\ \A u \in {x, y, z} : Less(v, w) /\ Less(w, u) => Less(v, u)
    BY DEF StrictTotalOrder
  <2>1. {x, y, z} \subseteq Values
    BY <1>1 DEF AllValues
  <2> QED BY <2>1, OneOfThree, LessTransitive
<1> QED BY <1>1, ValuesAssigned, PTL

\* Nothing of another type is between two values of one type, NaN among them.
THEOREM TypesApart == Spec => []TypesStayTogether
<1>1. ASSUME AllValues, x.type = z.type, LessOrEqual(x, y), LessOrEqual(y, z)
      PROVE  y.type = x.type
  <2> SUFFICES ASSUME y.type # x.type PROVE FALSE
    OBVIOUS
  <2>1. ~(Position[y.type] < Position[x.type]) /\ ~(Position[z.type] < Position[y.type])
    BY <1>1 DEF LessOrEqual, Less
  <2>2. /\ Position[x.type] \in Nat /\ Position[y.type] \in Nat
        /\ Position[x.type] # Position[y.type]
    BY <1>1, ShapeOfValue, TypesOrdered DEF AllValues
  <2> QED BY <1>1, <2>1, <2>2
<1>2. AllValues => TypesStayTogether
  BY <1>1 DEF TypesStayTogether
<1> QED BY <1>2, ValuesAssigned, PTL
===============================================================================
