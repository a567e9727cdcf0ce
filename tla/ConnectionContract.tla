-------------------------- MODULE ConnectionContract --------------------------
(***************************************************************************)
(* What adio::sqlite promises its client of open, close, prepare and       *)
(* execute, synchronous or not: each call takes effect at one instant      *)
(* between being made and being answered, with no threads, no sqlite3      *)
(* object and no accesses to interleave.  The connection is then one word. *)
(*                                                                         *)
(* Its client follows the discipline of the class comment, "similar to     *)
(* using an Asio socket object": an open or a close overlaps only execute, *)
(* a prepare overlaps no open and no close.  A call whose handler is       *)
(* destroyed with the io_service is never answered.                        *)
(***************************************************************************)
CONSTANT Callers    \* whoever may have one call in flight

VARIABLES
    state,      \* the connection: closed, open, or left by a failed open
    asked,      \* Callers -> the call in flight, or none
    answer      \* Callers -> its result, none before it has taken effect

vars == <<state, asked, answer>>

Init ==
    /\ state = "closed"
    /\ asked = [c \in Callers |-> "none"]
    /\ answer = [c \in Callers |-> "none"]

\* The calls in flight beside c's.
Others(c) == {asked[d] : d \in Callers \ {c}} \ {"none"}

Compatible(k, others) ==
    \/ k = "execute"
    \/ k \in {"prepare", "query"} /\ others \cap {"open", "close"} = {}
    \/ k \in {"open", "close"} /\ others \subseteq {"execute"}

Ask(c) ==
    /\ asked[c] = "none"
    /\ \E k \in {"open", "close", "prepare", "query", "execute"} :
            /\ asked' = [asked EXCEPT ![c] = k]
            /\ Compatible(k, Others(c))
    /\ UNCHANGED <<state, answer>>

\* What SQL that is to be prepared may be answered.
Results ==
    CASE state = "closed" -> {"not_connected"}
      [] state = "open"   -> {"ok", "error"}
      [] state = "failed" -> {"not_connected", "error"}

\* The results a call may have, each with what it makes of the connection.
\* "query" is the execute that prepares its query; "execute" is that of a
\* statement, which keeps its database whatever the connection does.
Effects(k) ==
    CASE k = "open"    -> {<<"ok", "open">>, <<"error", "failed">>}
      [] k = "close"   -> {<<"ok", "closed">>}
      [] k = "execute" -> {"ok", "error"} \X {state}
      [] k \in {"prepare", "query"} -> Results \X {state}

\* The instant of the call.
TakeEffect(c) ==
    /\ asked[c] # "none"
    /\ answer[c] = "none"
    /\ \E effect \in Effects(asked[c]) :
            /\ state' = effect[2]
            /\ answer' = [answer EXCEPT ![c] = effect[1]]
    /\ UNCHANGED asked

Tell(c) ==
    /\ answer[c] # "none"
    /\ asked' = [asked EXCEPT ![c] = "none"]
    /\ answer' = [answer EXCEPT ![c] = "none"]
    /\ UNCHANGED state

\* Calls take their time.
Wait == UNCHANGED vars

Next ==
    \/ Wait
    \/ \E c \in Callers : Ask(c) \/ TakeEffect(c) \/ Tell(c)

Spec == Init /\ [][Next]_vars
==============================================================================
