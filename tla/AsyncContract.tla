---------------------------- MODULE AsyncContract ----------------------------
(***************************************************************************)
(* What an adio database service promises a client of its async_* calls,   *)
(* with no threads, queues or reference counts.                            *)
(*                                                                         *)
(* An operation is started once and then is pending until either its       *)
(* handler is called, which only happens while the client is inside        *)
(* io_service::run, or the io_service is torn down and the handler is      *)
(* dropped.  run returns only when nothing is pending, which is what lets  *)
(* the examples of the README and the tests read a result right after      *)
(* ios.run(); the only other way out of run is an exception of a handler.  *)
(* A service whose driver needs threads may end the process instead.       *)
(***************************************************************************)
CONSTANTS
    Ops,            \* the asynchronous calls a client may make
    MayTerminate    \* TRUE or FALSE: the service may call std::terminate

VARIABLES status,   \* Ops -> what became of the call
          phase     \* where the thread that owns the io_service is

vars == <<status, phase>>

Pending == {op \in Ops : status[op] = "pending"}

TypeOK ==
    /\ status \in [Ops -> {"idle", "pending", "called", "dropped"}]
    /\ phase \in {"user", "polling", "handler", "closing", "gone", "terminated"}

Init ==
    /\ status = [op \in Ops |-> "idle"]
    /\ phase = "user"

SetStatus(S, s) == status' = [op \in Ops |-> IF op \in S THEN s ELSE status[op]]

\* A step of the client's thread that is about no operation.
Move(from, to) == phase = from /\ phase' = to /\ UNCHANGED status

\* async_open, async_prepare, ... : outside run, or from inside a handler.
Start(op) ==
    /\ phase \in {"user", "handler"}
    /\ status[op] = "idle"
    /\ SetStatus({op}, "pending")
    /\ UNCHANGED phase

EnterRun == Move("user", "polling")

Call(op) ==
    /\ phase = "polling"
    /\ op \in Pending
    /\ SetStatus({op}, "called")
    /\ phase' = "handler"

HandlerReturns == Move("handler", "polling")

\* run() lets the exception of a handler through to its caller.
HandlerThrows == Move("handler", "user")

ReturnFromRun == Pending = {} /\ Move("polling", "user")

\* The io_service is being destroyed: handlers are destroyed without being called.
BeginTeardown ==
    /\ phase = "user"
    /\ phase' = "closing"
    /\ \E S \in SUBSET Pending : SetStatus(S, "dropped")

Drop ==
    /\ phase = "closing"
    /\ \E S \in SUBSET Pending : SetStatus(S, "dropped")
    /\ UNCHANGED phase

EndTeardown ==
    /\ phase = "closing"
    /\ phase' = "gone"
    /\ SetStatus(Pending, "dropped")

\* std::terminate, for want of threads: only while nothing is pending.
Terminate ==
    /\ MayTerminate
    /\ phase \in {"user", "handler", "closing"}
    /\ Pending = {}
    /\ phase' = "terminated"
    /\ UNCHANGED status

Next ==
    \/ \E op \in Ops : Start(op) \/ Call(op)
    \/ EnterRun \/ HandlerReturns \/ HandlerThrows \/ ReturnFromRun
    \/ BeginTeardown \/ Drop \/ EndTeardown
    \/ Terminate

Spec == Init /\ [][Next]_vars

\* However often the client enters run, handlers come in time: none is passed
\* over for ever.  run returns when nothing is pending; a handler that is
\* called, and a teardown that was begun, end.
Fairness ==
    /\ \A op \in Ops : SF_vars(Call(op))
    /\ WF_vars(HandlerReturns)
    /\ WF_vars(ReturnFromRun)
    /\ WF_vars(EndTeardown)

FairSpec == Spec /\ Fairness
==============================================================================
