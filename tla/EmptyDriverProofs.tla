-------------------------- MODULE EmptyDriverProofs --------------------------
(***************************************************************************)
(* Proofs about EmptyDriver, for any set of operations.                    *)
(*                                                                         *)
(* Until the io_service shuts down, what was started is what was called    *)
(* followed by what is queued, in this order and each operation once.      *)
(* From this follow the order of the handlers and that each step is one    *)
(* of AsyncContract.                                                       *)
(***************************************************************************)
EXTENDS EmptyDriver, QueueTheorems

Types ==
    /\ client \in {"user", "polling", "handler", "shutdown", "gone"}
    /\ stopped \in BOOLEAN
    /\ ios \in Seq(Ops)
    /\ started \in Seq(Ops)
    /\ called \in Seq(Ops)

TornDown == client \in {"shutdown", "gone"}

\* No handler overtakes another, and after the shutdown none is left.
Order == IF TornDown
         THEN ios = <<>> /\ HandlersInOrder
         ELSE started = called \o ios

\* A handler is queued, or called, once, for an operation that was started.
Places ==
    /\ IsInjective(ios)
    /\ Range(ios) \cap Range(called) = {}
    /\ Range(ios) \cup Range(called) \subseteq Range(started)
    /\ ~TornDown => Range(started) = Range(ios) \cup Range(called)

\* The io_service is not out of work while it has handlers.
RunWaits == client = "polling" /\ stopped => ios = <<>>

EmptyIInv == Types /\ Order /\ Places /\ RunWaits
-----------------------------------------------------------------------------
(* The inductive invariant.                                                *)

\* What is posted last stays behind everything that was posted before it.
LEMMA PostedLast ==
    \A op \in Ops :
        /\ called \in Seq(Ops) /\ ios \in Seq(Ops) /\ started = called \o ios
        /\ called' = called /\ ios' = Append(ios, op) /\ started' = Append(started, op)
        => started' = called' \o ios'
<1>1. ASSUME NEW op \in Ops, called \in Seq(Ops), ios \in Seq(Ops)
      PROVE  Append(called \o ios, op) = called \o Append(ios, op)
  BY <1>1
<1> QED BY <1>1

\* Every step of the client or of run() preserves EmptyIInv.
LEMMA EmptyIInvStep == EmptyIInv /\ [Next]_vars => EmptyIInv'
<1> SUFFICES ASSUME EmptyIInv, [Next]_vars PROVE EmptyIInv'
  OBVIOUS
<1> USE DEF EmptyIInv, Types, TornDown
<1>1. ASSUME NEW op \in Ops, Start(op) PROVE EmptyIInv'
  <2>1. /\ started' = Append(started, op) /\ ios' = Append(ios, op)
        /\ UNCHANGED <<client, stopped, called>>
        /\ client \in {"user", "handler"} /\ op \notin Range(started)
    BY <1>1 DEF Start, Post
  <2>2. /\ started' \in Seq(Ops) /\ Range(started') = Range(started) \cup {op}
        /\ ios' \in Seq(Ops) /\ Range(ios') = Range(ios) \cup {op}
    BY <2>1, PostToQueue
  <2>3. IsInjective(ios')
    BY <2>1, PostToQueue DEF Places
  <2>4. Places'
    BY <2>1, <2>2, <2>3 DEF Places
  <2>5. started' = called' \o ios'
    <3>1. started = called \o ios
      BY <2>1 DEF Order
    <3> QED BY <2>1, <3>1, PostedLast
  <2>6. Order' /\ RunWaits'
    BY <2>1, <2>5 DEF Order, RunWaits
  <2> QED BY <2>1, <2>2, <2>4, <2>6
<1>2. CASE CallHandler
  <2>1. /\ client = "polling" /\ client' = "handler" /\ ios # <<>>
        /\ ios' = Tail(ios) /\ called' = Append(called, Head(ios))
        /\ UNCHANGED <<started, stopped>>
    BY <1>2 DEF CallHandler
  <2>2. /\ Head(ios) \in Ops /\ ios' \in Seq(Ops)
        /\ Range(ios) = {Head(ios)} \cup Range(ios')
        /\ IsInjective(ios') /\ Head(ios) \notin Range(ios')
    BY <2>1, TakeFromQueue DEF Places
  <2>3. called' \in Seq(Ops) /\ Range(called') = Range(called) \cup {Head(ios)}
    BY <2>1, <2>2, PostToQueue
  <2>4. Places'
    BY <2>1, <2>2, <2>3 DEF Places
  <2>5. started' = called' \o ios'
    BY <2>1, TakeKeepsOrder DEF Order
  <2> QED BY <2>1, <2>2, <2>3, <2>4, <2>5 DEF Order, RunWaits
<1>3. CASE ShutdownServices
  <2>1. /\ client = "user" /\ client' = "shutdown" /\ ios' = <<>>
        /\ UNCHANGED <<started, stopped, called>>
    BY <1>3 DEF ShutdownServices
  <2>2. HandlersInOrder'
    BY <2>1, FirstIsPrefix DEF Order, HandlersInOrder
  <2>3. Places'
    BY <2>1, EmptyQueue DEF Places
  <2> QED BY <2>1, <2>2, <2>3, EmptyQueue DEF Order, RunWaits
<1>4. CASE \/ DestroyConnection \/ EnterRun \/ HandlerReturns \/ HandlerThrows
           \/ ReturnFromRun \/ FreeParent \/ UNCHANGED vars
  <2>1. UNCHANGED <<ios, started, called>> /\ TornDown' = TornDown
    BY <1>4 DEF DestroyConnection, EnterRun, HandlerReturns, HandlerThrows,
                LeaveHandler, ReturnFromRun, FreeParent, vars
  <2>2. Types' /\ RunWaits'
    <3>1. (ios = <<>>) \in BOOLEAN
      OBVIOUS
    <3> QED BY <1>4, <3>1
            DEF DestroyConnection, EnterRun, HandlerReturns, HandlerThrows,
                LeaveHandler, ReturnFromRun, FreeParent, vars, RunWaits
  <2>3. Order' /\ Places'
    BY <2>1 DEF Order, Places, HandlersInOrder
  <2> QED BY <2>2, <2>3
<1> QED BY <1>1, <1>2, <1>3, <1>4 DEF Next, Terminated

\* In every reachable state handlers wait, and were called, in the order of
\* the calls.
THEOREM EmptyIInvHolds == Spec => []EmptyIInv
<1>1. Init => EmptyIInv
  <2> SUFFICES ASSUME Init PROVE EmptyIInv
    OBVIOUS
  <2>1. Types /\ Places /\ RunWaits
    BY EmptyQueue DEF Init, Types, Places, RunWaits, TornDown
  <2>2. <<>> = <<>> \o <<>>
    OBVIOUS
  <2>3. Order
    BY <2>2 DEF Init, Order, TornDown
  <2> QED BY <2>1, <2>3 DEF EmptyIInv
<1> QED BY <1>1, EmptyIInvStep, PTL DEF Spec

\* Handlers are called in the order of the calls, for any number of calls.
THEOREM EmptyAnswersInOrder == Spec => []HandlersInOrder
<1>1. EmptyIInv => HandlersInOrder
  BY FirstIsPrefix DEF EmptyIInv, Types, Order, HandlersInOrder
<1> QED BY <1>1, EmptyIInvHolds, PTL
-----------------------------------------------------------------------------
(* Refinement of AsyncContract.                                            *)

StatusMap == [op \in Ops |-> Status(op)]

\* Each step of the driver is a step of the contract or changes neither the
\* status of an operation nor the phase of the client.
LEMMA EmptyStepRefines ==
    EmptyIInv /\ EmptyIInv' /\ [Next]_vars => [Contract!Next]_(Contract!vars)
<1> SUFFICES ASSUME EmptyIInv, EmptyIInv', [Next]_vars
             PROVE  Contract!Next \/ UNCHANGED <<StatusMap, Phase>>
  BY DEF Contract!vars, StatusMap
<1> USE DEF EmptyIInv, Types, Places, TornDown
<1>1. ASSUME NEW op \in Ops, Start(op) PROVE Contract!Start(op)
  <2>1. /\ Range(started') = Range(started) \cup {op}
        /\ Range(ios') = Range(ios) \cup {op}
        /\ UNCHANGED <<client, called>>
        /\ client \in {"user", "handler"} /\ op \notin Range(started)
    BY <1>1, PostToQueue DEF Start, Post
  <2>2. \A o \in Ops : Status(o)' = IF o = op THEN "pending" ELSE Status(o)
    BY <2>1 DEF Status
  <2> QED BY <2>1, <2>2 DEF Contract!Start, Contract!SetStatus, Status, Phase
<1>2. ASSUME CallHandler PROVE \E op \in Ops : Contract!Call(op)
  <2> DEFINE op == Head(ios)
  <2>1. /\ op \in Ops
        /\ Range(ios) = Range(ios') \cup {op}
        /\ Range(called') = Range(called) \cup {op}
        /\ UNCHANGED started
        /\ client = "polling" /\ client' = "handler"
    BY <1>2, PostToQueue, TakeFromQueue DEF CallHandler
  <2> HIDE DEF op
  <2>2. op \in Range(started) /\ op \notin Range(called)
    BY <2>1
  <2>3. \A o \in Ops : Status(o)' = IF o = op THEN "called" ELSE Status(o)
    BY <2>1, <2>2 DEF Status
  <2>4. Status(op) = "pending"
    BY <2>1, <2>2 DEF Status
  <2>5. Contract!Call(op)
    BY <2>1, <2>3, <2>4
       DEF Contract!Call, Contract!SetStatus, Contract!Pending, Phase
  <2> QED BY <2>1, <2>5
<1>3. ASSUME \/ DestroyConnection \/ EnterRun \/ HandlerReturns \/ HandlerThrows
             \/ ReturnFromRun \/ UNCHANGED vars
      PROVE  UNCHANGED StatusMap
  <2>1. UNCHANGED <<started, ios, called>>
    BY <1>3 DEF DestroyConnection, EnterRun, HandlerReturns, HandlerThrows,
                LeaveHandler, ReturnFromRun, vars
  <2> QED BY <2>1 DEF StatusMap, Status
<1>4. CASE DestroyConnection \/ UNCHANGED vars
  BY <1>3, <1>4 DEF DestroyConnection, vars, Phase
<1>5. ASSUME EnterRun \/ HandlerReturns \/ HandlerThrows
      PROVE  Contract!EnterRun \/ Contract!HandlerReturns \/ Contract!HandlerThrows
  BY <1>3, <1>5
     DEF EnterRun, HandlerReturns, HandlerThrows, LeaveHandler, Phase, StatusMap,
         Contract!EnterRun, Contract!HandlerReturns, Contract!HandlerThrows,
         Contract!Move
<1>6. ASSUME ReturnFromRun PROVE Contract!ReturnFromRun
  <2>1. Range(ios) = {}
    BY <1>6, EmptyQueue DEF ReturnFromRun, RunWaits
  <2>2. Contract!Pending = {}
    BY <2>1 DEF Contract!Pending, Status
  <2> QED BY <1>3, <1>6, <2>2
          DEF ReturnFromRun, Contract!ReturnFromRun, Contract!Move, Phase, StatusMap
<1>7. ASSUME ShutdownServices PROVE Contract!BeginTeardown
  <2> DEFINE S == Range(ios)
  <2>1. UNCHANGED <<started, called>> /\ Range(ios') = {} /\ S \subseteq Ops
    BY <1>7, EmptyQueue, RangeOfSeq DEF ShutdownServices
  <2>2. S \subseteq Contract!Pending
    BY <2>1 DEF Contract!Pending, Status
  <2>3. \A o \in Ops : Status(o)' = IF o \in S THEN "dropped" ELSE Status(o)
    BY <2>1 DEF Status
  <2>4. Contract!SetStatus(S, "dropped")
    BY <2>3 DEF Contract!SetStatus
  <2> QED BY <1>7, <2>2, <2>4 DEF ShutdownServices, Phase, Contract!BeginTeardown
<1>8. ASSUME FreeParent PROVE Contract!EndTeardown
  <2>1. UNCHANGED <<started, called, ios>> /\ Range(ios) = {}
    BY <1>8, EmptyQueue DEF FreeParent, Order
  <2>2. Contract!Pending = {}
    BY <2>1 DEF Contract!Pending, Status
  <2>3. Contract!SetStatus(Contract!Pending, "dropped")
    BY <2>1, <2>2 DEF Contract!SetStatus, Status
  <2> QED BY <1>8, <2>3 DEF FreeParent, Phase, Contract!EndTeardown
<1> QED BY <1>1, <1>2, <1>4, <1>5, <1>6, <1>7, <1>8
        DEF Next, Terminated, Contract!Next

\* The driver without threads implements the same contract as the pool.
THEOREM EmptyRefinesContract == Spec => Contract!Spec
<1>1. Init => Contract!Init
  BY EmptyQueue DEF Init, Contract!Init, Status, Phase
<1> QED BY <1>1, EmptyIInvHolds, EmptyStepRefines, PTL DEF Spec, Contract!Spec
==============================================================================
