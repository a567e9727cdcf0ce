-------------------------- MODULE MultiPrepareProofs --------------------------
(***************************************************************************)
(* Proofs about MultiPrepare, for sources of any length, any width of      *)
(* size_t that holds their length, and any number of times around the loop.*)
(*                                                                         *)
(* The unsigned arithmetic never wraps because cur_ptr and remaining       *)
(* delimit the rest of the source; the statements come in order because    *)
(* cur_ptr is where the last one ended.                                    *)
(***************************************************************************)
EXTENDS MultiPrepare, SequenceTheorems, TLAPS

W == 2^SizeBits

\* Before the loop nothing has been done, and inside it nothing has failed.
NothingFailed ==
    /\ pc = "entry" => ret = <<>> /\ cur_ptr = 0 /\ e = "ok"
    /\ pc = "loop" => connected /\ e = "ok"

\* cur_ptr is behind the last statement, or at the end if that is a null one.
CursorBehindLast ==
    pc = "loop" =>
        IF ret = <<>> THEN cur_ptr = 0
        ELSE cur_ptr = IF ret[Len(ret)] = 0 THEN Len(source) ELSE ret[Len(ret)]

MultiIInv ==
    /\ MultiTypeOK
    /\ NothingFailed
    /\ WindowIsRest
    /\ CursorBehindLast
    /\ StatementsInOrder
    /\ AllOrNothing
-----------------------------------------------------------------------------
(* One time around the loop.                                               *)

\* Subtracting what fits from a size_t does not wrap.
LEMMA NoWrap ==
    ASSUME NEW w \in Nat, NEW r \in 0..(w - 1), NEW d \in 0..r
    PROVE  (r + w - d) % w = r - d
<1> DEFINE x == r - d
<1>1. x \in Nat /\ x < w /\ r + w - d = x + w
  OBVIOUS
<1> HIDE DEF x
<1>2. x % w = x
  BY <1>1
<1>3. (x + w) % w = x
  BY <1>1, <1>2
<1> QED BY <1>1, <1>3 DEF x

\* Lengths fit into a size_t.
LEMMA Sizes ==
    MultiTypeOK => /\ W \in Nat
                   /\ Len(source) \in 0..MaxPieces
                   /\ Len(source) < W
                   /\ DOMAIN source = 1..Len(source)
                   /\ \A i \in DOMAIN source : source[i] \in {"statement", "bad", "blank"}
<1> SUFFICES ASSUME MultiTypeOK PROVE
        /\ W \in Nat
        /\ Len(source) \in 0..MaxPieces
        /\ Len(source) < W
        /\ DOMAIN source = 1..Len(source)
        /\ \A i \in DOMAIN source : source[i] \in {"statement", "bad", "blank"}
  OBVIOUS
<1>1. PICK n \in 0..MaxPieces : source \in [1..n -> {"statement", "bad", "blank"}]
  BY DEF MultiTypeOK, Sources
<1>2. Len(source) = n /\ n \in Nat
  BY <1>1, MultiPrepareAssumption
<1>3. W \in Int /\ MaxPieces < W
  BY MultiPrepareAssumption DEF W
<1> QED BY <1>1, <1>2, <1>3, MultiPrepareAssumption

\* What the loop may keep: the next statement with only blank text before it,
\* or a null one when there is only blank text left.
Found(s) ==
    /\ s \in 0..Len(source)
    /\ IF s = 0
       THEN \A i \in (cur_ptr + 1)..Len(source) : source[i] = "blank"
       ELSE /\ cur_ptr < s /\ source[s] = "statement"
            /\ \A i \in (cur_ptr + 1)..(s - 1) : source[i] = "blank"

\* Keeping it preserves the invariant.
LEMMA GoAroundKeeps ==
    ASSUME MultiIInv, pc = "loop", UNCHANGED <<source, connected>>,
           NEW s, NEW next, Found(s), next = IF s = 0 THEN Len(source) ELSE s,
           GoAround(s, next)
    PROVE  MultiIInv'
<1> DEFINE n == Len(source)
<1>1. /\ n \in Nat /\ W \in Nat /\ n < W
      /\ cur_ptr \in 0..n /\ remaining \in 0..(W - 1) /\ cur_ptr + remaining = n
      /\ ret \in Seq(0..n)
  BY Sizes DEF MultiIInv, MultiTypeOK, WindowIsRest, W
<1>2. next \in cur_ptr..n /\ s \in 0..n
  BY <1>1 DEF Found
<1>3. /\ ret' = Append(ret, s) /\ cur_ptr' = next
      /\ remaining' = (remaining + W - (next - cur_ptr)) % W
      /\ UNCHANGED <<pc, e, source, connected>>
  BY DEF GoAround, W
<1>4. remaining' = remaining - (next - cur_ptr)
  <2>1. next - cur_ptr \in 0..remaining
    BY <1>1, <1>2
  <2> HIDE DEF n
  <2> QED BY <1>1, <1>3, <2>1, NoWrap
<1>5. remaining' \in 0..(W - 1) /\ cur_ptr' + remaining' = n
  <2> DEFINE d == next - cur_ptr
  <2> HIDE DEF n
  <2>1. d \in Int /\ 0 <= d /\ d <= remaining
    BY <1>1, <1>2
  <2>2. next = cur_ptr + d
    BY <1>1, <1>2
  <2>3. remaining' = remaining - d
    BY <1>4
  <2>4. cur_ptr' = next
    BY <1>3
  <2> HIDE DEF d
  <2> QED BY <1>1, <2>1, <2>2, <2>3, <2>4
<1>6. /\ ret' \in Seq(0..n) /\ Len(ret') = Len(ret) + 1 /\ Len(ret) \in Nat
      /\ \A k \in 1..Len(ret) : ret'[k] = ret[k]
      /\ ret'[Len(ret) + 1] = s
      /\ ret' # <<>>
  BY <1>1, <1>2, <1>3, AppendProperties
<1>7. MultiTypeOK'
  BY <1>2, <1>3, <1>5, <1>6 DEF MultiTypeOK, MultiIInv, W, Sources
<1>8. NothingFailed' /\ WindowIsRest' /\ AllOrNothing'
  BY <1>3, <1>5 DEF NothingFailed, WindowIsRest, AllOrNothing, MultiIInv
<1>9. CursorBehindLast'
  BY <1>3, <1>6 DEF CursorBehindLast
<1>10. StatementsInOrder'
  <2> SUFFICES ASSUME NEW k \in 1..(Len(ret) + 1)
               PROVE  InOrderAt(k)'
    BY <1>6 DEF StatementsInOrder
  <2>1. CASE k \in 1..Len(ret)
    <3>1. InOrderAt(k)
      BY <2>1 DEF MultiIInv, StatementsInOrder
    <3>2. k # 1 => k - 1 \in 1..Len(ret)
      BY <1>6, <2>1
    <3>3. ret'[k] = ret[k] /\ (k # 1 => ret'[k - 1] = ret[k - 1])
      BY <1>6, <2>1, <3>2
    <3> QED BY <1>3, <2>1, <3>1, <3>3 DEF InOrderAt
  <2>2. CASE k = Len(ret) + 1
    <3> DEFINE last == IF k = 1 THEN 0 ELSE ret'[k - 1]
    <3>1. ret'[k] = s
      BY <1>6, <2>2
    <3>2. CASE ret = <<>>
      <4>1. k = 1 /\ cur_ptr = 0
        BY <2>2, <3>2 DEF MultiIInv, CursorBehindLast
      <4> QED BY <1>1, <1>3, <3>1, <4>1 DEF Found, InOrderAt
    <3>3. CASE ret # <<>>
      <4>1. Len(ret) > 0 /\ k # 1 /\ last = ret[Len(ret)]
        BY <1>1, <1>6, <2>2, <3>3, EmptySeq
      <4>2. cur_ptr = IF last = 0 THEN n ELSE last
        BY <3>3, <4>1 DEF MultiIInv, CursorBehindLast
      <4>3. s # 0 => last # 0
        BY <1>1, <4>2 DEF Found
      <4> QED BY <1>1, <1>3, <3>1, <4>1, <4>2, <4>3 DEF Found, InOrderAt
    <3> QED BY <3>2, <3>3
  <2> QED BY <1>6, <2>1, <2>2
<1> QED BY <1>7, <1>8, <1>9, <1>10 DEF MultiIInv
-----------------------------------------------------------------------------
(* The invariant.                                                          *)

\* Entering the function, and every time around its loop, preserve MultiIInv.
LEMMA MultiIInvStep == MultiIInv /\ [Next]_vars => MultiIInv'
<1> SUFFICES ASSUME MultiIInv, [Next]_vars PROVE MultiIInv'
  OBVIOUS
<1>1. CASE Enter
  <2>1. /\ ret = <<>> /\ cur_ptr = 0 /\ e = "ok" /\ pc = "entry"
        /\ UNCHANGED <<source, connected, cur_ptr>>
    BY <1>1 DEF Enter, MultiIInv, NothingFailed
  <2>2. Len(source) \in Nat /\ Len(source) < W /\ W \in Nat
    BY Sizes, MultiPrepareAssumption DEF MultiIInv
  <2>3. ret' = <<>>
    BY <1>1, <2>1 DEF Enter, Return
  <2>4. StatementsInOrder'
    BY <2>3 DEF StatementsInOrder
  <2>5. CASE connected
    <3>1. pc' = "loop" /\ remaining' = Len(source) /\ e' = "ok"
      BY <1>1, <2>1, <2>5 DEF Enter
    <3>2. MultiTypeOK'
      BY <2>1, <2>2, <2>3, <3>1 DEF MultiIInv, MultiTypeOK, W, Sources
    <3> QED BY <2>1, <2>2, <2>3, <2>4, <2>5, <3>1, <3>2
            DEF MultiIInv, NothingFailed, WindowIsRest, CursorBehindLast, AllOrNothing
  <2>6. CASE ~connected
    <3>1. pc' = "returned" /\ remaining' = remaining /\ e' = "not_connected"
      BY <1>1, <2>1, <2>6 DEF Enter, Return
    <3>2. MultiTypeOK'
      BY <2>1, <2>2, <2>3, <3>1 DEF MultiIInv, MultiTypeOK, Sources
    <3> QED BY <2>1, <2>3, <2>4, <2>6, <3>1, <3>2
            DEF MultiIInv, NothingFailed, WindowIsRest, CursorBehindLast, AllOrNothing
  <2> QED BY <2>5, <2>6
<1>2. CASE Compile
  <2>1. pc = "loop" /\ UNCHANGED <<source, connected>>
    BY <1>2 DEF Compile
  <2>2. /\ Len(source) \in Nat /\ DOMAIN source = 1..Len(source)
        /\ \A i \in DOMAIN source : source[i] \in {"statement", "bad", "blank"}
        /\ cur_ptr \in 0..Len(source) /\ remaining \in Int
        /\ cur_ptr + remaining = Len(source)
    <3>1. W \in Nat /\ remaining \in 0..(W - 1) /\ cur_ptr \in 0..Len(source)
      BY Sizes DEF MultiIInv, MultiTypeOK, W
    <3> QED BY <2>1, <3>1, Sizes, MultiPrepareAssumption DEF MultiIInv, WindowIsRest
  <2>3. Ahead = {i \in (cur_ptr + 1)..Len(source) : source[i] # "blank"}
    BY <2>2 DEF Ahead
  <2>4. CASE CompileNothing
    <3>1. Found(0)
      BY <2>2, <2>3, <2>4 DEF CompileNothing, Found
    <3> QED BY <2>1, <2>4, <3>1, GoAroundKeeps DEF CompileNothing
  <2>5. ASSUME NEW i \in Ahead, CompileFirst(i) PROVE MultiIInv'
    <3>1. /\ i \in (cur_ptr + 1)..Len(source)
          /\ \A j \in (cur_ptr + 1)..(i - 1) : source[j] = "blank"
      BY <2>2, <2>3, <2>5 DEF CompileFirst
    <3>2. CASE source[i] = "statement"
      <4>1. Found(i) /\ i # 0
        BY <2>2, <3>1, <3>2 DEF Found
      <4> QED BY <2>1, <2>5, <3>2, <4>1, GoAroundKeeps DEF CompileFirst
    <3>3. CASE source[i] # "statement"
      <4>1. /\ source[i] = "bad" /\ ret' = <<>> /\ e' = "error" /\ pc' = "returned"
            /\ UNCHANGED <<cur_ptr, remaining>>
        BY <2>5, <3>3 DEF CompileFirst, Return, GivenBack
      <4>2. MultiTypeOK'
        BY <2>1, <4>1 DEF MultiIInv, MultiTypeOK, Sources
      <4>3. i \in 1..Len(source)
        BY <2>2, <3>1
      <4>4. StatementsInOrder' /\ AllOrNothing'
        BY <2>1, <4>1, <4>3
           DEF StatementsInOrder, AllOrNothing, MultiIInv, NothingFailed
      <4> QED BY <4>1, <4>2, <4>4
              DEF MultiIInv, NothingFailed, WindowIsRest, CursorBehindLast
    <3> QED BY <3>2, <3>3
  <2> QED BY <1>2, <2>4, <2>5 DEF Compile
<1>3. CASE UNCHANGED vars
  BY <1>3 DEF vars, MultiIInv, MultiTypeOK, NothingFailed, WindowIsRest,
              CursorBehindLast, StatementsInOrder, InOrderAt, AllOrNothing, Sources
<1> QED BY <1>1, <1>2, <1>3 DEF Next, Done

\* MultiIInv holds in every reachable state.
THEOREM MultiIInvHolds == Spec => []MultiIInv
<1>1. Init => MultiIInv
  <2> SUFFICES ASSUME Init PROVE MultiIInv
    OBVIOUS
  <2>1. ret = <<>> /\ cur_ptr = 0 /\ pc = "entry" /\ e = "ok" /\ remaining = 0
    BY DEF Init
  <2>2. W \in Nat /\ 0 < W
    BY MultiPrepareAssumption DEF W
  <2>3. Len(source) \in Nat
    <3>1. PICK n \in 0..MaxPieces : source \in [1..n -> {"statement", "bad", "blank"}]
      BY DEF Init, Sources
    <3> QED BY <3>1, MultiPrepareAssumption
  <2>4. MultiTypeOK
    BY <2>1, <2>2, <2>3 DEF Init, MultiTypeOK, W
  <2> QED BY <2>1, <2>4 DEF MultiIInv, NothingFailed, WindowIsRest, CursorBehindLast,
                            StatementsInOrder, AllOrNothing
<1> QED BY <1>1, MultiIInvStep, PTL DEF Spec

\* Every variable of the loop has its type; above all remaining is a size_t.
THEOREM MultiTypeCorrect == Spec => []MultiTypeOK
<1>1. MultiIInv => MultiTypeOK
  BY DEF MultiIInv
<1> QED BY <1>1, MultiIInvHolds, PTL

\* remaining never wraps, and SQLite is never given text beyond the source.
THEOREM WindowInsideSource == Spec => []WindowIsRest
<1>1. MultiIInv => WindowIsRest
  BY DEF MultiIInv
<1> QED BY <1>1, MultiIInvHolds, PTL

\* No statement is skipped, compiled twice or out of order.
THEOREM EveryStatementOnce == Spec => []StatementsInOrder
<1>1. MultiIInv => StatementsInOrder
  BY DEF MultiIInv
<1> QED BY <1>1, MultiIInvHolds, PTL

\* The function returns only with an error, and then with no statement.
THEOREM ErrorLeavesNothing == Spec => []AllOrNothing
<1>1. MultiIInv => AllOrNothing
  BY DEF MultiIInv
<1> QED BY <1>1, MultiIInvHolds, PTL
==============================================================================
