------------------------ MODULE SqliteConnectionProofs ------------------------
(***************************************************************************)
(* Proofs about SqliteConnection, for any numbers of operations, threads,  *)
(* sqlite3 objects and statements.                                         *)
(*                                                                         *)
(* The driver with its task bodies opened up still is the SqliteService,   *)
(* so the invariants of SqliteServiceProofs hold of it.  On top of them    *)
(* comes ConnIInv: what each thread is doing follows from the operation it *)
(* carries, the client's discipline carries over from the calls in flight  *)
(* to the threads, and so whoever is inside open or close is alone with    *)
(* _private->db.                                                           *)
(*                                                                         *)
(* The next part is about the client (ClientIInv).  Because whoever opens  *)
(* is alone, the result of an open stays true while it travels from the    *)
(* thread through the queue of handlers to the client (Reports).  A        *)
(* statement has an owner, and an owner other than the client keeps run()  *)
(* waiting and the driver alive (ThreadOwners, StatementOwners,            *)
(* StoppedIdle).                                                           *)
(*                                                                         *)
(* From all of it follows that the driver refines ConnectionContract: a    *)
(* call takes effect with the last access of its body, when nobody else    *)
(* can change what it has read (StaysOpen), and its result is then carried *)
(* to the client unchanged (ResultSlots).                                  *)
(***************************************************************************)
EXTENDS SqliteConnection, SqliteServiceProofs

-----------------------------------------------------------------------------
(* The driver is the service.                                              *)

\* A step of the opened-up driver is a step of the service or invisible to it:
\* the accesses to _private->db are all inside RunBody.
LEMMA ConnStepIsServiceStep == [ConnNext]_allVars => [Next]_vars
<1> SUFFICES ASSUME [ConnNext]_allVars PROVE [Next]_vars
  OBVIOUS
<1>1. CASE UNCHANGED allVars
  BY <1>1 DEF allVars
<1>2. ASSUME NEW a \in Actors, DriverStep(a) PROVE UNCHANGED vars
  BY <1>2 DEF DriverStep, CloseStep, ClearStep, OpenStep, CheckStep,
              CompileStep, StepStep
<1>3. ASSUME NEW t \in Threads, ConnThreadStep(t) PROVE [Next]_vars
  <2>1. CASE DriverStep(t)
    BY <1>2, <2>1 DEF Actors
  <2>2. CASE DropLocal(t)
    BY <2>2 DEF DropLocal
  <2>3. CASE ThreadStep(t)
    BY <2>3 DEF Next
  <2>4. CASE \/ ConnTakeTask(t) \/ ConnRunBody(t) \/ ConnPostHandler(t)
             \/ ConnReleaseWork(t) \/ ConnReleaseThis(t)
             \/ ConnFinishTask(t) \/ ConnExitThread(t)
    <3>1. ThreadStep(t)
      BY <1>3, <2>4
         DEF ConnThreadStep, ThreadStep, ConnTakeTask, ConnRunBody,
             ConnPostHandler, ConnReleaseWork, ConnReleaseThis,
             ConnFinishTask, ConnExitThread
    <3> QED BY <2>3, <3>1
  <2> QED BY <1>3, <2>1, <2>2, <2>4 DEF ConnThreadStep
<1>4. CASE ConnClientStep
  <2>1. CASE DriverStep(Client)
    BY <1>2, <2>1 DEF Actors
  <2>2. CASE \/ \E k \in SyncKinds : SyncCall(k)
             \/ SyncReturn
             \/ \E s \in Stmts : DropStatement(s)
    BY <2>2 DEF SyncCall, SyncReturn, DropStatement
  <2>3. CASE ConnCreateConnection \/ ConnDestroyConnection
    BY <2>3, ConnAssumption
       DEF ConnCreateConnection, ConnDestroyConnection, Next
  <2>4. CASE \E op \in Ops, k \in AsyncKinds, s \in Stmts \cup {Null} :
                ConnStart(op, k, s)
    BY <2>4 DEF ConnStart, Next
  <2>5. CASE ConnStartFails
    BY <2>5 DEF ConnStartFails, Next
  <2>6. CASE ConnEnterRun \/ ConnLeaveHandler \/ ConnShutdownServices
    BY <2>6 DEF ConnEnterRun, ConnLeaveHandler, ConnShutdownServices, Next
  <2>7. CASE \/ ConnCallHandler \/ ConnReturnFromRun \/ ConnStopPool
             \/ ConnJoinThreads \/ ConnFreeParent
    BY <2>7 DEF ConnCallHandler, ConnReturnFromRun, ConnStopPool,
                ConnJoinThreads, ConnFreeParent, ClientLibraryStep, Next
  <2> QED BY <1>4, <2>1, <2>2, <2>3, <2>4, <2>5, <2>6, <2>7 DEF ConnClientStep
<1>5. CASE ConnTerminated
  BY <1>5 DEF ConnTerminated, allVars
<1> QED BY <1>1, <1>3, <1>4, <1>5 DEF ConnNext

\* Whatever is proved of SqliteService holds of the driver whose bodies touch
\* the database.
THEOREM ConnImplementsService == ConnSpec => Spec
<1>1. ConnInit => Init
  BY DEF ConnInit
<1> QED BY <1>1, ConnStepIsServiceStep, PTL DEF ConnSpec, Spec
-----------------------------------------------------------------------------
(* What is in flight.                                                      *)

\* An operation is in flight from Start until its handler is called, so the
\* one a thread carries, and every queued one, is.
LEMMA InFlightFacts ==
    ASSUME IInv
    PROVE  /\ InFlight \subseteq Ops
           /\ \A t \in Carrying : job[t] \in InFlight
           /\ my_ios # <<>> => Head(my_ios) \in InFlight
           /\ \A t, u \in Carrying : job[t] = job[u] => t = u
<1> USE DEF IInv
<1>1. Range(started) \subseteq Ops
  BY DEF TypeOK, Range
<1>2. \A t \in Carrying : t \in Busy /\ job[t] \in InFlight
  BY DEF PlacesApart, Busy, Carrying, Answered, InFlight
<1>3. my_ios # <<>> => Head(my_ios) \in InFlight
  BY TakeFromQueue DEF TypeOK, QueuesDistinct, PlacesApart, Answered, InFlight
<1>4. \A t, u \in Carrying : job[t] = job[u] => t = u
  BY <1>2 DEF PlacesApart
<1> QED BY <1>1, <1>2, <1>3, <1>4 DEF InFlight

\* Start adds an operation that was not in flight.
LEMMA StartInFlight ==
    ASSUME IInv, NEW op \in Ops, Start(op)
    PROVE  op \notin InFlight /\ InFlight' = InFlight \cup {op}
<1>1. Range(started') = Range(started) \cup {op}
  BY PostToQueue DEF Start, IInv, TypeOK
<1>2. op \notin Range(called)
  BY DEF Start, IInv, QueuesDistinct, Answered
<1> QED BY <1>1, <1>2 DEF Start, InFlight

\* Calling a handler removes its operation, which no thread carries.
LEMMA CallInFlight ==
    ASSUME IInv, CallHandler
    PROVE  /\ Head(parent_ios) \in Ops
           /\ InFlight' = InFlight \ {Head(parent_ios)}
           /\ \A t \in Carrying : job[t] # Head(parent_ios)
<1> DEFINE op == Head(parent_ios)
<1>1. op \in Ops /\ op \in Range(parent_ios)
  BY TakeFromQueue DEF CallHandler, IInv, TypeOK
<1>2. Range(called') = Range(called) \cup {op}
  BY <1>1, PostToQueue DEF CallHandler, IInv, TypeOK
<1>3. \A t \in Carrying : job[t] # op
  BY <1>1 DEF IInv, PlacesApart, Answered
<1> QED BY <1>1, <1>2, <1>3 DEF CallHandler, InFlight

-----------------------------------------------------------------------------
(* Types.                                                                  *)

\* Dropping statements keeps the types of their owners and databases.
LEMMA DropTypes ==
    ASSUME NEW S \in SUBSET Stmts, NEW X, DropStatements(S, X), ConnTypeOK
    PROVE  /\ stmtOf' \in [Stmts -> Handles \cup {Null}]
           /\ holders' \in [Stmts -> SUBSET (Actors \cup Ops)]
  BY DEF DropStatements, ConnTypeOK

\* So does the driver's last close those of the handle.
LEMMA DriverDiesTypes ==
    ASSUME IfDriverDies, ConnTypeOK
    PROVE  /\ db' \in Handles \cup {Null}
           /\ handle' \in [Handles -> {"free", "open", "sick", "closed"}]
           /\ leaked' \in SUBSET Handles
  BY DEF IfDriverDies, DestroyDriver, CloseHandle, SqliteClose, dbVars, ConnTypeOK

\* Every variable of the connection keeps its type; that a task's call is one
\* of the asynchronous ones is needed where a thread takes the task.
LEMMA ConnTypeStep ==
    ASSUME ConnTypeOK, Working, IInv, TypeOK', [ConnNext]_allVars
    PROVE  ConnTypeOK'
<1> USE DEF Actors, dbVars, stmtVars, opVars, callVars
<1>1. CASE UNCHANGED connVars
  BY <1>1 DEF ConnTypeOK, connVars
<1>2. ASSUME NEW a \in Actors, DriverStep(a) PROVE ConnTypeOK'
  <2> USE DEF Goto, Finish, AfterClose, Errors
  <2>1. CASE CloseStep(a)
    BY <2>1 DEF CloseStep, NothingToClose, CloseHandle, SqliteClose, ConnTypeOK
  <2>2. CASE ClearStep(a)
    BY <2>2 DEF ClearStep, ResetHandle, ConnTypeOK
  <2>3. CASE OpenStep(a)
    BY <2>3 DEF OpenStep, OpenError, ConnTypeOK
  <2>4. CASE CheckStep(a)
    BY <2>4 DEF CheckStep, ConnTypeOK
  <2>5. CASE CompileStep(a)
    BY <2>5 DEF CompileStep, AfterCompile, ShareStatement, ConnTypeOK
  <2>6. CASE StepStep(a)
    BY <2>6 DEF StepStep, ConnTypeOK
  <2> QED BY <1>2, <2>1, <2>2, <2>3, <2>4, <2>5, <2>6 DEF DriverStep
<1>3. ASSUME NEW t \in Threads, ConnTakeTask(t) PROVE ConnTypeOK'
  <2>1. kind[Head(my_ios)] \in AsyncKinds
    BY <1>3, InFlightFacts DEF ConnTakeTask, TakeTask, Working
  <2> QED BY <1>3, <2>1
          DEF ConnTakeTask, Begin, Goto, FirstStep, AsyncKinds, SyncKinds, ConnTypeOK
<1>4. ASSUME NEW t \in Threads, ConnRunBody(t) PROVE ConnTypeOK'
  BY <1>4 DEF ConnRunBody, BodyOver, End, Goto, ConnTypeOK
<1>5. ASSUME NEW t \in Threads, ConnPostHandler(t) PROVE ConnTypeOK'
  <2>1. job[t] \in Ops
    BY <1>5, InFlightFacts DEF ConnPostHandler, PostHandler, Carrying
  <2> QED BY <1>5, <2>1 DEF ConnPostHandler, ShareStatement, Errors, ConnTypeOK
<1>6. ASSUME NEW t \in Threads, DropLocal(t) PROVE ConnTypeOK'
  BY <1>6, DropTypes DEF DropLocal, ConnTypeOK
<1>7. ASSUME NEW t \in Threads, ConnReleaseThis(t) PROVE ConnTypeOK'
  BY <1>7, DriverDiesTypes DEF ConnReleaseThis, ConnTypeOK
<1>8. ASSUME NEW op \in Ops, NEW k \in AsyncKinds, NEW s \in Stmts \cup {Null},
             ConnStart(op, k, s)
      PROVE  ConnTypeOK'
  BY <1>8 DEF ConnStart, ConnTypeOK
<1>9. ASSUME NEW k \in SyncKinds, SyncCall(k) PROVE ConnTypeOK'
  BY <1>9 DEF SyncCall, Begin, Goto, FirstStep, SyncKinds, ConnTypeOK
<1>10. CASE SyncReturn
  <2>1. seen' \in {"closed", "open", "failed"}
    BY <1>10 DEF SyncReturn, Told, ConnTypeOK
  <2>2. CASE prog[Client] = "query" /\ got[Client] \in Stmts
    BY <1>10, <2>1, <2>2, DropTypes DEF SyncReturn, End, Goto, Errors, ConnTypeOK
  <2>3. CASE prog[Client] = "query" /\ got[Client] = Null
    BY <1>10, <2>1, <2>3 DEF SyncReturn, End, Goto, Errors, DropStatements, ConnTypeOK
  <2>4. CASE prog[Client] # "query"
    BY <1>10, <2>1, <2>4 DEF SyncReturn, End, Goto, Errors, ConnTypeOK
  <2> QED BY <2>2, <2>3, <2>4 DEF ConnTypeOK
<1>11. ASSUME NEW s \in Stmts, DropStatement(s) PROVE ConnTypeOK'
  BY <1>11, DropTypes DEF DropStatement, ConnTypeOK
<1>12. CASE ConnCallHandler
  <2>1. seen' \in {"closed", "open", "failed"}
    BY <1>12 DEF ConnCallHandler, Told, ConnTypeOK
  <2> QED BY <1>12, <2>1 DEF ConnCallHandler, ConnTypeOK
<1>13. CASE ConnDestroyConnection \/ ConnJoinThreads
  BY <1>13, DriverDiesTypes DEF ConnDestroyConnection, ConnJoinThreads, ConnTypeOK
<1>14. CASE ConnShutdownServices \/ ConnFreeParent
  BY <1>14, DropTypes DEF ConnShutdownServices, ConnFreeParent, ConnTypeOK
<1> QED
  <2>1. CASE UNCHANGED allVars \/ ConnTerminated
    BY <1>1, <2>1 DEF allVars, ConnTerminated
  <2>2. ASSUME NEW t \in Threads, ConnThreadStep(t) PROVE ConnTypeOK'
    BY <1>1, <1>2, <1>3, <1>4, <1>5, <1>6, <1>7, <2>2
       DEF ConnThreadStep, ConnReleaseWork, ConnFinishTask, ConnExitThread
  <2>3. CASE ConnClientStep
    BY <1>1, <1>2, <1>8, <1>9, <1>10, <1>11, <1>12, <1>13, <1>14, <2>3
       DEF ConnClientStep, ConnCreateConnection, ConnStartFails, ConnEnterRun,
           ConnLeaveHandler, ConnReturnFromRun, ConnStopPool
  <2> QED BY <2>1, <2>2, <2>3 DEF ConnNext

-----------------------------------------------------------------------------
(* Who is doing what.                                                      *)

\* An access moves the actor that makes it, and nobody else, within its call.
LEMMA AccessMoves ==
    ASSUME ConnTypeOK, NEW a \in Actors, DriverStep(a)
    PROVE  /\ UNCHANGED <<vars, kind, prog>>
           /\ at[a] # "none" /\ at'[a] # "none"
           /\ \A b \in Actors : b # a => at'[b] = at[b]
<1> USE DEF ConnTypeOK, Goto, Finish, opVars
<1>1. CASE CloseStep(a)
  BY <1>1 DEF CloseStep, AfterClose
<1>2. CASE ClearStep(a)
  BY <1>2 DEF ClearStep, AfterClose
<1>3. CASE OpenStep(a)
  BY <1>3 DEF OpenStep
<1>4. CASE CheckStep(a)
  BY <1>4 DEF CheckStep
<1>5. CASE CompileStep(a)
  BY <1>5 DEF CompileStep, AfterCompile
<1>6. CASE StepStep(a)
  BY <1>6 DEF StepStep
<1> QED BY <1>1, <1>2, <1>3, <1>4, <1>5, <1>6 DEF DriverStep

\* Pool threads are in a driver call exactly while in the body of its task.
LEMMA ThreadsWork ==
    ASSUME ConnTypeOK, Working, IInv, [ConnNext]_allVars, NEW t \in Threads
    PROVE  (IF pc[t] = "body"
            THEN at[t] # "none" /\ prog[t] = kind[job[t]]
            ELSE at[t] = "none" /\ prog[t] = "none")'
<1> DEFINE Goal == (IF pc[t] = "body"
                    THEN at[t] # "none" /\ prog[t] = kind[job[t]]
                    ELSE at[t] = "none" /\ prog[t] = "none")'
<1> USE DEF Working, connVars, callVars, opVars, threadVars, Actors
<1>0. TypeOK /\ t \in Actors /\ t # Client
  BY ConnAssumption DEF IInv
<1>1. CASE UNCHANGED <<pc, job, kind, prog, at>>
  BY <1>1
<1>2. ASSUME NEW a \in Actors, DriverStep(a) PROVE Goal
  BY <1>0, <1>2, AccessMoves DEF vars
<1>3. ASSUME NEW u \in Threads, ConnTakeTask(u) PROVE Goal
  <2>1. kind[Head(my_ios)] \in AsyncKinds
    BY <1>3, InFlightFacts DEF ConnTakeTask, TakeTask
  <2>2. at' = [at EXCEPT ![u] = FirstStep(kind[Head(my_ios)])]
    BY <1>3 DEF ConnTakeTask, Begin, Goto
  <2>3. FirstStep(kind[Head(my_ios)]) # "none"
    BY <2>1 DEF FirstStep, AsyncKinds
  <2> HIDE DEF FirstStep
  <2>4. CASE t = u
    BY <1>0, <1>3, <2>2, <2>3, <2>4
       DEF ConnTakeTask, TakeTask, Pop, Begin, ConnTypeOK, TypeOK
  <2>5. CASE t # u
    BY <1>0, <1>3, <2>2, <2>5
       DEF ConnTakeTask, TakeTask, Pop, Begin, ConnTypeOK, TypeOK
  <2> QED BY <2>4, <2>5
<1>4. ASSUME NEW u \in Threads, ConnRunBody(u) PROVE Goal
  BY <1>0, <1>4
     DEF ConnRunBody, RunBody, BodyOver, End, Goto, ConnTypeOK, TypeOK
<1>5. ASSUME NEW u \in Threads, ConnPostHandler(u) PROVE Goal
  BY <1>0, <1>5 DEF ConnPostHandler, PostHandler, TypeOK
<1>6. ASSUME NEW u \in Threads, ConnFinishTask(u) \/ ConnExitThread(u) PROVE Goal
  BY <1>0, <1>6
     DEF ConnFinishTask, FinishTask, ConnExitThread, ExitThread, Leave, TypeOK
<1>7. ASSUME NEW op \in Ops, NEW k \in AsyncKinds, NEW s \in Stmts \cup {Null},
             ConnStart(op, k, s)
      PROVE  Goal
  <2>1. Start(op) /\ kind' = [kind EXCEPT ![op] = k] /\ UNCHANGED <<prog, at>>
    BY <1>7 DEF ConnStart
  <2>2. op \notin InFlight /\ (pc[t] = "body" => job[t] \in InFlight)
    BY <2>1, StartInFlight, InFlightFacts DEF Carrying
  <2> QED BY <1>0, <2>1, <2>2
          DEF Start, EnsureThreadsStarted, NoThreadBorn, ConnTypeOK
<1>8. CASE ConnStartFails
  <2>1. CASE StartTerminates
    BY <1>1, <1>8, <2>1 DEF ConnStartFails, StartTerminates
  <2>2. ASSUME NEW born \in SUBSET Threads, StartFails(born) PROVE Goal
    BY <1>0, <1>8, <2>2 DEF ConnStartFails, StartFails, NoThreadBorn
  <2> QED BY <1>8, <2>1, <2>2 DEF ConnStartFails
<1>9. ASSUME NEW k \in SyncKinds, SyncCall(k) PROVE Goal
  BY <1>0, <1>9 DEF SyncCall, Begin, Goto, ConnTypeOK, vars
<1>10. CASE SyncReturn
  BY <1>0, <1>10 DEF SyncReturn, End, Goto, ConnTypeOK, vars
<1>11. CASE ConnCallHandler
  <2>1. CallHandler /\ kind' = [kind EXCEPT ![Head(parent_ios)] = "none"]
    BY <1>11 DEF ConnCallHandler
  <2>2. pc[t] = "body" => job[t] # Head(parent_ios)
    BY <2>1, CallInFlight DEF Carrying
  <2> QED BY <1>0, <1>11, <2>1, <2>2
          DEF ConnCallHandler, CallHandler, Carrying, ConnTypeOK, TypeOK
<1>12. ASSUME NEW u \in Threads,
              DropLocal(u) \/ ConnReleaseWork(u) \/ ConnReleaseThis(u)
       PROVE  Goal
  BY <1>1, <1>12
     DEF DropLocal, ConnReleaseWork, ReleaseWork, ConnReleaseThis, ReleaseThis, vars
<1>13. CASE \/ ConnCreateConnection \/ ConnDestroyConnection
            \/ (\E s \in Stmts : DropStatement(s))
            \/ ConnEnterRun \/ ConnLeaveHandler \/ ConnReturnFromRun
            \/ ConnShutdownServices \/ ConnStopPool \/ ConnJoinThreads
            \/ ConnFreeParent \/ ConnTerminated \/ UNCHANGED allVars
  <2>1. UNCHANGED <<pc, job>>
    BY <1>13
       DEF ConnCreateConnection, CreateConnection, ConnDestroyConnection,
           DestroyConnection, DropStatement, ConnEnterRun, EnterRun,
           ConnLeaveHandler, HandlerReturns, HandlerThrows, LeaveHandler,
           ConnReturnFromRun, ReturnFromRun, ConnShutdownServices,
           ShutdownServices, ConnStopPool, StopPool, ConnJoinThreads,
           JoinThreads, JoinTerminates, ConnFreeParent, FreeParent,
           ConnTerminated, allVars, vars
  <2>2. UNCHANGED <<kind, prog, at>>
    BY <1>13
       DEF ConnCreateConnection, ConnDestroyConnection, DropStatement,
           ConnEnterRun, ConnLeaveHandler, ConnReturnFromRun,
           ConnShutdownServices, ConnStopPool, ConnJoinThreads,
           ConnFreeParent, ConnTerminated, allVars
  <2> QED BY <1>1, <2>1, <2>2
<1> QED
  <2>1. ASSUME NEW u \in Threads, ConnThreadStep(u) PROVE Goal
    BY <1>2, <1>3, <1>4, <1>5, <1>6, <1>12, <2>1 DEF ConnThreadStep
  <2>2. CASE ConnClientStep
    BY <1>2, <1>7, <1>8, <1>9, <1>10, <1>11, <1>13, <2>2 DEF ConnClientStep
  <2> QED BY <1>13, <2>1, <2>2 DEF ConnNext

\* A pool thread's step is not the client's.
LEMMA ThreadLeavesClient ==
    ASSUME ConnTypeOK, NEW t \in Threads, ConnThreadStep(t)
    PROVE  UNCHANGED <<client, conn, at[Client], prog[Client]>>
<1>0. t \in Actors /\ Client \in Actors /\ t # Client
  BY ConnAssumption DEF Actors
<1> USE DEF connVars, callVars, vars, ownerVars
<1>1. CASE DriverStep(t)
  BY <1>0, <1>1, AccessMoves
<1>2. CASE ConnTakeTask(t)
  BY <1>0, <1>2 DEF ConnTakeTask, TakeTask, Begin, Goto, ConnTypeOK
<1>3. CASE ConnRunBody(t)
  BY <1>0, <1>3 DEF ConnRunBody, RunBody, BodyOver, End, Goto, ConnTypeOK
<1>4. CASE ConnPostHandler(t) \/ DropLocal(t) \/ ConnReleaseWork(t) \/ ConnReleaseThis(t)
  BY <1>4 DEF ConnPostHandler, PostHandler, DropLocal, ConnReleaseWork,
              ReleaseWork, ConnReleaseThis, ReleaseThis
<1>5. CASE ConnFinishTask(t) \/ ConnExitThread(t)
  BY <1>5 DEF ConnFinishTask, FinishTask, ConnExitThread, ExitThread
<1> QED BY <1>1, <1>2, <1>3, <1>4, <1>5 DEF ConnThreadStep

\* The client is in a driver call only while its own code runs and its
\* connection exists: no other step of it is possible meanwhile.
LEMMA ClientWorks ==
    ASSUME ConnTypeOK, Working, TypeOK, [ConnNext]_allVars
    PROVE  /\ (at[Client] = "none" => prog[Client] = "none")'
           /\ (at[Client] # "none" => ClientCode /\ Con \in Alive)'
<1> DEFINE Goal == /\ (at[Client] = "none" => prog[Client] = "none")'
                   /\ (at[Client] # "none" => ClientCode /\ Con \in Alive)'
<1> USE DEF Working, connVars, callVars
<1>0. Client \in Actors /\ Con \in Conns
  BY ConnAssumption DEF Actors
<1>1. CASE UNCHANGED <<client, conn, at[Client], prog[Client]>>
  BY <1>1 DEF ClientCode, Alive
<1>2. CASE DriverStep(Client)
  BY <1>0, <1>2, AccessMoves DEF vars, ownerVars, ClientCode, Alive
<1>3. ASSUME NEW k \in SyncKinds, SyncCall(k) PROVE Goal
  <2>1. FirstStep(k) # "none"
    BY DEF FirstStep, SyncKinds
  <2> HIDE DEF FirstStep
  <2> QED BY <1>0, <1>3, <2>1
          DEF SyncCall, Begin, Goto, ConnTypeOK, vars, ownerVars, ClientCode, Alive
<1>4. CASE SyncReturn
  BY <1>0, <1>4 DEF SyncReturn, End, Goto, ConnTypeOK
<1>5. CASE at[Client] = "none" /\ UNCHANGED <<at, prog>>
  BY <1>5
<1>6. CASE ConnClientStep
  <2>1. CASE \/ ConnCreateConnection \/ ConnDestroyConnection \/ ConnStartFails
             \/ (\E s \in Stmts : DropStatement(s))
             \/ (\E op \in Ops, k \in AsyncKinds, s \in Stmts \cup {Null} :
                    ConnStart(op, k, s))
             \/ ConnEnterRun \/ ConnLeaveHandler \/ ConnShutdownServices
    BY <1>5, <2>1
       DEF ConnCreateConnection, ConnDestroyConnection, ConnStartFails,
           DropStatement, ConnStart, ConnEnterRun, ConnLeaveHandler,
           ConnShutdownServices, Free
  <2>2. CASE \/ ConnCallHandler \/ ConnReturnFromRun \/ ConnStopPool
             \/ ConnJoinThreads \/ ConnFreeParent
    <3>1. ~ClientCode
      BY <2>2
         DEF ConnCallHandler, CallHandler, ConnReturnFromRun, ReturnFromRun,
             ConnStopPool, StopPool, ConnJoinThreads, JoinThreads,
             JoinTerminates, ConnFreeParent, FreeParent, ClientCode
    <3> QED BY <1>5, <2>2, <3>1
            DEF ConnCallHandler, ConnReturnFromRun, ConnStopPool,
                ConnJoinThreads, ConnFreeParent
  <2> QED BY <1>2, <1>3, <1>4, <1>6, <2>1, <2>2 DEF ConnClientStep
<1> QED BY <1>1, <1>6, ThreadLeavesClient
        DEF ConnNext, ConnTerminated, allVars, vars, ownerVars

\* The operations in flight and their kinds change in Start and in run() only.
LEMMA FlightFrame ==
    ASSUME [ConnNext]_allVars
    PROVE  \/ \E op \in Ops, k \in AsyncKinds, s \in Stmts \cup {Null} :
                    ConnStart(op, k, s)
           \/ ConnCallHandler
           \/ UNCHANGED <<kind, InFlight>>
<1> USE DEF connVars, opVars, vars, history, InFlight
<1>1. ASSUME NEW a \in Actors, DriverStep(a) PROVE UNCHANGED <<kind, InFlight>>
  BY <1>1 DEF DriverStep, CloseStep, ClearStep, OpenStep, CheckStep,
              CompileStep, StepStep
<1>2. ASSUME NEW t \in Threads, ConnThreadStep(t) PROVE UNCHANGED <<kind, InFlight>>
  <2>1. CASE ConnTakeTask(t) \/ ConnRunBody(t) \/ ConnPostHandler(t) \/ DropLocal(t)
    BY <2>1 DEF ConnTakeTask, TakeTask, ConnRunBody, RunBody, ConnPostHandler,
                PostHandler, DropLocal
  <2>2. CASE \/ ConnReleaseWork(t) \/ ConnReleaseThis(t)
             \/ ConnFinishTask(t) \/ ConnExitThread(t)
    BY <2>2 DEF ConnReleaseWork, ReleaseWork, ConnReleaseThis, ReleaseThis,
                ConnFinishTask, FinishTask, ConnExitThread, ExitThread
  <2> QED BY <1>1, <1>2, <2>1, <2>2 DEF ConnThreadStep, Actors
<1>3. CASE \/ ConnCreateConnection \/ ConnDestroyConnection \/ ConnStartFails
           \/ (\E s \in Stmts : DropStatement(s))
           \/ (\E k \in SyncKinds : SyncCall(k)) \/ SyncReturn
  BY <1>3
     DEF ConnCreateConnection, CreateConnection, ConnDestroyConnection,
         DestroyConnection, ConnStartFails, StartFails, StartTerminates,
         DropStatement, SyncCall, SyncReturn
<1>4. CASE \/ ConnEnterRun \/ ConnLeaveHandler \/ ConnShutdownServices
           \/ ConnReturnFromRun \/ ConnStopPool \/ ConnJoinThreads
           \/ ConnFreeParent \/ ConnTerminated \/ UNCHANGED allVars
  BY <1>4
     DEF ConnEnterRun, EnterRun, ConnLeaveHandler, HandlerReturns,
         HandlerThrows, LeaveHandler, ConnShutdownServices, ShutdownServices,
         ConnReturnFromRun, ReturnFromRun, ConnStopPool, StopPool,
         ConnJoinThreads, JoinThreads, JoinTerminates, ConnFreeParent,
         FreeParent, ConnTerminated, allVars
<1>5. CASE ConnClientStep
  BY <1>1, <1>3, <1>4, <1>5 DEF ConnClientStep, Actors
<1> QED BY <1>2, <1>4, <1>5 DEF ConnNext

\* The client enters and leaves its calls in SyncCall and SyncReturn only.
LEMMA ClientFrame ==
    ASSUME ConnTypeOK, [ConnNext]_allVars
    PROVE  \/ \E k \in SyncKinds : SyncCall(k)
           \/ SyncReturn
           \/ UNCHANGED prog[Client]
<1> USE DEF connVars, callVars
<1>1. CASE DriverStep(Client)
  BY <1>1, AccessMoves DEF Actors
<1>2. CASE \/ ConnCreateConnection \/ ConnDestroyConnection \/ ConnStartFails
           \/ (\E s \in Stmts : DropStatement(s))
           \/ (\E op \in Ops, k \in AsyncKinds, s \in Stmts \cup {Null} :
                  ConnStart(op, k, s))
  BY <1>2 DEF ConnCreateConnection, ConnDestroyConnection, ConnStartFails,
              DropStatement, ConnStart
<1>3. CASE \/ ConnEnterRun \/ ConnLeaveHandler \/ ConnShutdownServices
           \/ ConnCallHandler \/ ConnReturnFromRun \/ ConnStopPool
           \/ ConnJoinThreads \/ ConnFreeParent
  BY <1>3 DEF ConnEnterRun, ConnLeaveHandler, ConnShutdownServices,
              ConnCallHandler, ConnReturnFromRun, ConnStopPool,
              ConnJoinThreads, ConnFreeParent
<1>4. CASE ConnClientStep
  BY <1>1, <1>2, <1>3, <1>4 DEF ConnClientStep
<1> QED BY <1>4, ThreadLeavesClient DEF ConnNext, ConnTerminated, allVars

\* The discipline of the client outlives the moment of the call: what is in
\* flight was allowed to be, next to each other and to the client's own call.
LEMMA NoOverlapStep ==
    ASSUME ConnTypeOK, Working, NoOverlap, IInv, [ConnNext]_allVars
    PROVE  (\A op \in InFlight : kind[op] \in AsyncKinds)' /\ NoOverlap'
<1> USE DEF Working, NoOverlap
<1>0. InFlight \subseteq Ops
  BY InFlightFacts
<1>1. ASSUME NEW op \in Ops, NEW k \in AsyncKinds, NEW s \in Stmts \cup {Null},
             ConnStart(op, k, s)
      PROVE  (\A o \in InFlight : kind[o] \in AsyncKinds)' /\ NoOverlap'
  <2>1. op \notin InFlight /\ InFlight' = InFlight \cup {op}
    BY <1>1, StartInFlight DEF ConnStart
  <2>2. kind'[op] = k /\ \A o \in InFlight : kind'[o] = kind[o]
    BY <1>0, <1>1, <2>1 DEF ConnStart, ConnTypeOK
  <2>3. prog'[Client] = "none"
    BY <1>1 DEF ConnStart, Free, callVars
  <2>4. k \in {"open", "prepare", "execute"}
    BY DEF AsyncKinds
  <2>5. /\ k = "open" => \A o \in InFlight : kind[o] = "execute"
        /\ k = "prepare" => \A o \in InFlight : kind[o] # "open"
    BY <1>1 DEF ConnStart, MayCall
  <2>6. (\A o \in InFlight : kind[o] \in AsyncKinds)'
    BY <2>1, <2>2
  <2>7. \A o, p \in InFlight' : o # p /\ kind'[o] = "open" => kind'[p] = "execute"
    BY <2>1, <2>2, <2>4, <2>5
  <2> QED BY <2>3, <2>6, <2>7
<1>2. CASE ConnCallHandler
  <2>1. InFlight' \subseteq InFlight /\ Head(parent_ios) \notin InFlight'
    BY <1>2, CallInFlight DEF ConnCallHandler
  <2>2. \A o \in InFlight' : kind'[o] = kind[o]
    BY <1>0, <1>2, <2>1 DEF ConnCallHandler, ConnTypeOK
  <2>3. prog' = prog
    BY <1>2 DEF ConnCallHandler, callVars
  <2> QED BY <2>1, <2>2, <2>3
<1>3. CASE UNCHANGED <<kind, InFlight>>
  <2>1. ASSUME NEW k \in SyncKinds, SyncCall(k) PROVE NoOverlap'
    <3>1. prog'[Client] = k /\ MayCall(k)
      BY <2>1 DEF SyncCall, Begin, ConnTypeOK, Actors
    <3> QED BY <1>3, <3>1 DEF MayCall
  <2>2. CASE SyncReturn
    <3>1. prog'[Client] = "none"
      BY <2>2 DEF SyncReturn, End, ConnTypeOK, Actors
    <3> QED BY <1>3, <3>1
  <2>3. CASE UNCHANGED prog[Client]
    BY <1>3, <2>3
  <2> QED BY <1>3, <2>1, <2>2, <2>3, ClientFrame
<1> QED BY <1>1, <1>2, <1>3, FlightFrame

\* So threads and client keep to the calls they are in.
LEMMA WorkingStep ==
    ASSUME ConnTypeOK, Working, NoOverlap, IInv, [ConnNext]_allVars
    PROVE  Working'
<1>1. TypeOK
  BY DEF IInv
<1> QED BY <1>1, NoOverlapStep, ThreadsWork, ClientWorks DEF Working

\* Whoever is inside an open or a close is alone with _private->db: nobody else
\* is inside an open, a close or a prepare.
LEMMA AloneWithHandle ==
    ASSUME Working, NoOverlap, IInv,
           NEW a \in Actors, NEW b \in Actors, a # b,
           prog[a] \in {"open", "close"}
    PROVE  prog[b] \notin {"open", "close", "prepare", "query"}
<1>1. ASSUME NEW t \in Threads, prog[t] # "none"
      PROVE  t \in Carrying /\ job[t] \in InFlight /\ prog[t] = kind[job[t]]
    BY <1>1, InFlightFacts DEF Working, Carrying
<1>2. CASE a \in Threads /\ b \in Threads
  <2>1. CASE prog[b] = "none"
    BY <2>1
  <2>2. CASE prog[b] # "none"
    <3>1. job[a] # job[b]
      BY <1>1, <1>2, <2>2, InFlightFacts
    <3>2. kind[job[a]] = "open"
      BY <1>1, <1>2 DEF Working, AsyncKinds
    <3> QED BY <1>1, <1>2, <2>2, <3>1, <3>2 DEF NoOverlap
  <2> QED BY <2>1, <2>2
<1>3. CASE a \in Threads /\ b = Client
  <2>1. kind[job[a]] = "open" /\ job[a] \in InFlight
    BY <1>1, <1>3 DEF Working, AsyncKinds
  <2> QED BY <1>3, <2>1 DEF NoOverlap
<1>4. CASE a = Client /\ b \in Threads
  BY <1>1, <1>4 DEF NoOverlap
<1> QED BY <1>2, <1>3, <1>4 DEF Actors

-----------------------------------------------------------------------------
(* The handle.                                                             *)

\* The step finalizes statements at most: it prepares none.
NonePrepared == \A s \in Stmts : stmtOf'[s] \in {stmtOf[s], Null}

\* Dropping owners of statements prepares none.
LEMMA DropPreparesNone ==
    ASSUME NEW S, NEW X, DropStatements(S, X)
    PROVE  NonePrepared
  BY DEF DropStatements, NonePrepared

\* A step is an access, or begins a call, or ends one, or is about no call;
\* only the last kind may be the end of the driver.
LEMMA StepCases ==
    ASSUME ConnTypeOK, Working, IInv, [ConnNext]_allVars
    PROVE  \/ \E a \in Actors : DriverStep(a)
           \/ /\ \E a \in Actors, k \in SyncKinds : at[a] = "none" /\ Begin(a, k)
              /\ UNCHANGED <<dbVars, stmtOf>>
           \/ /\ \E a \in Actors : at[a] = "done" /\ End(a)
              /\ UNCHANGED dbVars /\ NonePrepared
           \/ /\ UNCHANGED <<at, prog>>
              /\ IfDriverDies \/ UNCHANGED dbVars
              /\ NonePrepared
<1> DEFINE Starts == /\ \E a \in Actors, k \in SyncKinds : at[a] = "none" /\ Begin(a, k)
                     /\ UNCHANGED <<dbVars, stmtOf>>
           Ends   == /\ \E a \in Actors : at[a] = "done" /\ End(a)
                     /\ UNCHANGED dbVars /\ NonePrepared
           Other  == /\ UNCHANGED <<at, prog>>
                     /\ IfDriverDies \/ UNCHANGED dbVars
                     /\ NonePrepared
<1> USE DEF Actors, connVars, callVars, stmtVars
<1>1. CASE UNCHANGED connVars
  BY <1>1 DEF NonePrepared
<1>2. ASSUME NEW t \in Threads, ConnTakeTask(t) PROVE Starts
  <2>1. kind[Head(my_ios)] \in SyncKinds
    BY <1>2, InFlightFacts DEF ConnTakeTask, TakeTask, Working, AsyncKinds, SyncKinds
  <2>2. at[t] = "none"
    BY <1>2 DEF ConnTakeTask, TakeTask, Working
  <2> QED BY <1>2, <2>1, <2>2 DEF ConnTakeTask
<1>3. ASSUME NEW t \in Threads, ConnRunBody(t) PROVE Ends
  BY <1>3 DEF ConnRunBody, BodyOver, NonePrepared
<1>4. ASSUME NEW t \in Threads, ConnPostHandler(t) PROVE Other
  BY <1>4 DEF ConnPostHandler, NonePrepared
<1>5. ASSUME NEW t \in Threads, DropLocal(t) PROVE Other
  BY <1>5, DropPreparesNone DEF DropLocal
<1>6. ASSUME NEW t \in Threads, ConnReleaseThis(t) PROVE Other
  BY <1>6 DEF ConnReleaseThis, NonePrepared
<1>7. ASSUME NEW op \in Ops, NEW k \in AsyncKinds, NEW s \in Stmts \cup {Null},
             ConnStart(op, k, s)
      PROVE  Other
  BY <1>7 DEF ConnStart, NonePrepared
<1>8. ASSUME NEW k \in SyncKinds, SyncCall(k) PROVE Starts
  BY <1>8 DEF SyncCall, Free
<1>9. ASSUME SyncReturn PROVE Ends
  <2>1. NonePrepared
    BY <1>9, DropPreparesNone DEF SyncReturn, NonePrepared
  <2> QED BY <1>9, <2>1 DEF SyncReturn
<1>10. ASSUME NEW s \in Stmts, DropStatement(s) PROVE Other
  BY <1>10, DropPreparesNone DEF DropStatement
<1>11. ASSUME ConnCallHandler PROVE Other
  BY <1>11 DEF ConnCallHandler, NonePrepared
<1>12. ASSUME ConnDestroyConnection \/ ConnJoinThreads PROVE Other
  BY <1>12 DEF ConnDestroyConnection, ConnJoinThreads, NonePrepared
<1>13. ASSUME ConnShutdownServices \/ ConnFreeParent PROVE Other
  BY <1>13, DropPreparesNone DEF ConnShutdownServices, ConnFreeParent
<1> HIDE DEF Starts, Ends, Other
<1>14. ASSUME NEW t \in Threads, ConnThreadStep(t), ~DriverStep(t)
       PROVE  UNCHANGED connVars \/ Starts \/ Ends \/ Other
  BY <1>2, <1>3, <1>4, <1>5, <1>6, <1>14
     DEF ConnThreadStep, ConnReleaseWork, ConnFinishTask, ConnExitThread
<1>15. ASSUME ConnClientStep, ~DriverStep(Client)
       PROVE  UNCHANGED connVars \/ Starts \/ Ends \/ Other
  BY <1>7, <1>8, <1>9, <1>10, <1>11, <1>12, <1>13, <1>15
     DEF ConnClientStep, ConnCreateConnection, ConnStartFails, ConnEnterRun,
         ConnLeaveHandler, ConnReturnFromRun, ConnStopPool
<1>16. CASE UNCHANGED allVars \/ ConnTerminated
  BY <1>1, <1>16 DEF allVars, ConnTerminated
<1> QED BY <1>1, <1>14, <1>15, <1>16 DEF ConnNext, Starts, Ends, Other

\* Accesses stay within the call they belong to.
LEMMA AtOfProgStep ==
    ASSUME ConnTypeOK, Working, AtOfProg, IInv, [ConnNext]_allVars
    PROVE  AtOfProg'
<1> USE DEF AtOfProg, ConnTypeOK, Goto
<1>1. ASSUME NEW a \in Actors, DriverStep(a) PROVE AtOfProg'
  <2> USE DEF Finish
  <2>1. CASE CloseStep(a)
    BY <2>1 DEF CloseStep, AfterClose
  <2>2. CASE ClearStep(a)
    BY <2>2 DEF ClearStep, AfterClose
  <2>3. CASE OpenStep(a)
    BY <2>3 DEF OpenStep
  <2>4. CASE CheckStep(a)
    BY <2>4 DEF CheckStep
  <2>5. CASE CompileStep(a)
    BY <2>5 DEF CompileStep, AfterCompile
  <2>6. CASE StepStep(a)
    BY <2>6 DEF StepStep
  <2> QED BY <1>1, <2>1, <2>2, <2>3, <2>4, <2>5, <2>6 DEF DriverStep
<1>2. ASSUME NEW a \in Actors, NEW k \in SyncKinds, Begin(a, k) PROVE AtOfProg'
  <2>1. /\ FirstStep(k) = "close" => k \in {"open", "close"}
        /\ FirstStep(k) = "check" => k \in {"prepare", "query"}
        /\ FirstStep(k) = "step" => k = "execute"
        /\ FirstStep(k) \in {"close", "check", "step"}
    BY DEF FirstStep, SyncKinds
  <2> HIDE DEF FirstStep
  <2> QED BY <1>2, <2>1 DEF Begin
<1>3. ASSUME NEW a \in Actors, End(a) PROVE AtOfProg'
  BY <1>3 DEF End
<1>4. CASE UNCHANGED <<at, prog>>
  BY <1>4
<1> QED BY <1>1, <1>2, <1>3, <1>4, StepCases

\* What is proved of the handle: its states, and who accounts for it.
HandleInv ==
    /\ HandleState
    /\ StatementHasDatabase
    /\ HandlesAccounted

\* The other actors stay out of an open or a close.
LEMMA OthersAway ==
    ASSUME Working, AtOfProg, NoOverlap, IInv,
           NEW a \in Actors, at[a] \in {"close", "clear", "open"}
    PROVE  \A b \in Actors \ {a} : at[b] \notin Reading
<1>1. prog[a] \in {"open", "close"}
  BY DEF AtOfProg
<1>2. \A b \in Actors \ {a} : prog[b] \notin {"open", "close", "prepare", "query"}
  BY <1>1, AloneWithHandle
<1> QED BY <1>2 DEF AtOfProg, Reading

\* sqlite3_close closes a handle that no statement is on, or leaks it, which
\* in both cases is the end of it for the connection.
LEMMA CloseKeeps ==
    ASSUME ConnTypeOK, StatementHasDatabase, HandlesAccounted,
           db # Null, CloseHandle(db)
    PROVE  /\ handle'[db] = "closed" \/ db \in leaked'
           /\ \A h \in Handles : h # db => handle'[h] = handle[h]
           /\ leaked \subseteq leaked'
           /\ \A s \in Stmts : stmtOf[s] # Null => handle'[stmtOf[s]] = "open"
  BY DEF CloseHandle, SqliteClose, ConnTypeOK, StatementHasDatabase

\* An access of anybody leaves handles and statements accounted for: those of
\* open and close because their actor is alone, those of prepare because they
\* change no handle.
LEMMA AccessKeepsHandle ==
    ASSUME ConnTypeOK, Working, AtOfProg, NoOverlap, IInv, HandleInv,
           NEW a \in Actors, DriverStep(a)
    PROVE  HandleInv'
<1> USE DEF HandleInv
<1>0. Null \notin Handles /\ Null \notin Stmts
  BY ConnAssumption
<1>1. \A b \in Actors \ {a} : at'[b] = at[b]
  BY AccessMoves
<1>2. CASE at[a] \in {"close", "clear", "open"}
  <2>1. \A b \in Actors \ {a} : at[b] \notin {"clear", "open"}
    BY <1>2, OthersAway DEF Reading
  <2>2. \A b \in Actors \ {a} : at'[b] \notin {"clear", "open"}
    BY <1>1, <2>1
  <2>3. CASE CloseStep(a) /\ db = Null
    <3>1. at'[a] # "clear" /\ UNCHANGED <<dbVars, stmtOf>>
      BY <2>3 DEF CloseStep, NothingToClose, AfterClose, Goto, dbVars, stmtVars, ConnTypeOK
    <3> QED BY <2>2, <2>3, <3>1
            DEF HandleState, StatementHasDatabase, HandlesAccounted, dbVars
  <2>4. CASE CloseStep(a) /\ db # Null
    <3>1. CloseHandle(db) /\ at'[a] = "clear" /\ UNCHANGED <<db, stmtOf>>
      BY <2>4 DEF CloseStep, NothingToClose, Goto, stmtVars, ConnTypeOK
    <3>2. HandleState'
      BY <2>2, <2>4, <3>1, CloseKeeps DEF HandleState
    <3>3. StatementHasDatabase'
      BY <2>4, <3>1, CloseKeeps DEF StatementHasDatabase
    <3>4. HandlesAccounted'
      BY <2>4, <3>1, CloseKeeps DEF HandlesAccounted
    <3> QED BY <3>2, <3>3, <3>4
  <2>5. CASE ClearStep(a)
    <3>1. /\ db' = Null /\ at'[a] # "clear" /\ UNCHANGED <<handle, leaked, stmtOf>>
          /\ at[a] = "clear"
      BY <2>5 DEF ClearStep, ResetHandle, AfterClose, Goto, stmtVars, ConnTypeOK
    <3>2. handle[db] = "closed" \/ db \in leaked
      BY <3>1 DEF HandleState
    <3>3. HandleState'
      BY <2>2, <3>1 DEF HandleState
    <3>4. StatementHasDatabase' /\ HandlesAccounted'
      BY <3>1, <3>2 DEF StatementHasDatabase, HandlesAccounted
    <3> QED BY <3>3, <3>4
  <2>6. CASE OpenStep(a)
    <3>1. at'[a] = "done" /\ db = Null /\ UNCHANGED <<leaked, stmtOf>>
      BY <2>6 DEF OpenStep, Finish, Goto, stmtVars, HandleState, ConnTypeOK
    <3>2. \A b \in Actors : at'[b] \notin {"clear", "open"}
      BY <2>2, <3>1
    <3>3. CASE db' = Null /\ UNCHANGED handle
      BY <3>1, <3>2, <3>3 DEF HandleState, StatementHasDatabase, HandlesAccounted
    <3>4. ASSUME NEW h \in Handles, handle[h] = "free", db' = h,
                 NEW state \in {"open", "sick"}, handle' = [handle EXCEPT ![h] = state]
          PROVE  HandleInv'
      <4>1. /\ handle'[h] = state
            /\ \A g \in Handles : g # h => handle'[g] = handle[g]
        BY <3>4 DEF ConnTypeOK
      <4>2. HandleState'
        BY <3>2, <3>4, <4>1 DEF HandleState
      <4>3. StatementHasDatabase'
        BY <3>1, <3>4, <4>1 DEF StatementHasDatabase, ConnTypeOK
      <4>4. HandlesAccounted'
        BY <1>0, <3>1, <3>4, <4>1 DEF HandlesAccounted
      <4> QED BY <4>2, <4>3, <4>4
    <3> QED BY <2>6, <3>3, <3>4 DEF OpenStep
  <2> QED BY <1>2, <2>3, <2>4, <2>5, <2>6
          DEF DriverStep, CheckStep, CompileStep, StepStep
<1>3. CASE CheckStep(a) \/ StepStep(a)
  <2>1. /\ at'[a] \notin {"clear", "open"} /\ at[a] # "clear"
        /\ UNCHANGED <<dbVars, stmtOf>>
    BY <1>3 DEF CheckStep, StepStep, Finish, Goto, stmtVars, ConnTypeOK
  <2> QED BY <1>1, <2>1
          DEF HandleState, StatementHasDatabase, HandlesAccounted, dbVars
<1>4. CASE CompileStep(a)
  <2>1. /\ at'[a] \notin {"clear", "open"} /\ at[a] # "clear" /\ UNCHANGED dbVars
    BY <1>4 DEF CompileStep, AfterCompile, Finish, Goto, ConnTypeOK
  <2>2. HandleState' /\ HandlesAccounted'
    BY <1>1, <2>1 DEF HandleState, HandlesAccounted, dbVars
  <2>3. StatementHasDatabase'
    BY <1>4, <2>1 DEF CompileStep, StatementHasDatabase, stmtVars, dbVars, ConnTypeOK
  <2> QED BY <2>2, <2>3
<1> QED BY <1>2, <1>3, <1>4 DEF DriverStep, CloseStep, ClearStep, OpenStep

\* When the driver dies nobody is inside a call of it.
LEMMA NobodyInDeadDriver ==
    Working /\ IInv /\ driver = {} => \A a \in Actors : at[a] = "none"
<1> SUFFICES ASSUME Working, IInv, driver = {}
             PROVE  \A a \in Actors : at[a] = "none"
  OBVIOUS
<1>1. ASSUME NEW t \in Threads PROVE at[t] = "none"
  <2>1. t \notin Carrying
    BY DEF IInv, PinsHeld, Carried
  <2> QED BY <2>1 DEF Working, Carrying
<1>2. at[Client] = "none"
  BY DEF Working, IInv, PinsHeld
<1> QED BY <1>1, <1>2 DEF Actors

\* Every step leaves handles and statements accounted for.
LEMMA HandleInvStep ==
    ASSUME ConnTypeOK, Working, AtOfProg, NoOverlap, IInv, HandleInv,
           Working', IInv', [ConnNext]_allVars
    PROVE  HandleInv'
<1> USE DEF HandleInv, HandleState, HandlesAccounted, StatementHasDatabase
<1>1. ASSUME NEW a \in Actors, NEW k \in SyncKinds, at[a] = "none", Begin(a, k),
             UNCHANGED <<dbVars, stmtOf>>
      PROVE  HandleInv'
  <2>1. FirstStep(k) \notin {"clear", "open"}
    BY DEF FirstStep, SyncKinds
  <2> HIDE DEF FirstStep
  <2>2. \A b \in Actors : /\ at'[b] \in {"clear", "open"} => at'[b] = at[b]
                          /\ at[b] = "clear" => at'[b] = "clear"
    BY <1>1, <2>1 DEF Begin, Goto, ConnTypeOK
  <2> QED BY <1>1, <2>2 DEF dbVars
<1>2. ASSUME NEW a \in Actors, at[a] = "done", End(a), UNCHANGED dbVars, NonePrepared
      PROVE  HandleInv'
  <2>1. \A b \in Actors : /\ at'[b] \in {"clear", "open"} => at'[b] = at[b]
                          /\ at[b] = "clear" => at'[b] = "clear"
    BY <1>2 DEF End, Goto, ConnTypeOK
  <2> QED BY <1>2, <2>1 DEF dbVars, NonePrepared
<1>3. CASE UNCHANGED at /\ UNCHANGED dbVars /\ NonePrepared
  BY <1>3 DEF dbVars, NonePrepared
<1>4. CASE UNCHANGED at /\ IfDriverDies /\ ~UNCHANGED dbVars /\ NonePrepared
  <2>1. driver' = {} /\ db # Null /\ CloseHandle(db) /\ db' = Null
    BY <1>4 DEF IfDriverDies, DestroyDriver
  <2>2. \A a \in Actors : at'[a] = "none"
    <3>1. (Working /\ IInv /\ driver = {} => \A a \in Actors : at[a] = "none")'
      BY NobodyInDeadDriver, PTL
    <3> QED BY <2>1, <3>1 DEF Actors
  <2>3. HandleState'
    BY <2>1, <2>2
  <2>4. StatementHasDatabase' /\ HandlesAccounted'
    BY <1>4, <2>1, CloseKeeps DEF NonePrepared
  <2> QED BY <2>3, <2>4
<1> QED BY <1>1, <1>2, <1>3, <1>4, AccessKeepsHandle, StepCases

-----------------------------------------------------------------------------
(* The theorems.                                                           *)

\* A connection begins with no call, no operation and no handle.
LEMMA ConnInitially == ConnInit => ConnIInv
<1> SUFFICES ASSUME ConnInit PROVE ConnIInv
  OBVIOUS
<1> USE DEF ConnInit
<1>1. TypeOK
  BY EmptyQueue DEF Init, TypeOK
<1>2. ConnTypeOK
  BY <1>1 DEF ConnTypeOK, Errors
<1>3. InFlight = {}
  BY EmptyQueue DEF Init, InFlight
<1>4. \A a \in Actors : at[a] = "none" /\ prog[a] = "none"
  OBVIOUS
<1>5. Working /\ AtOfProg /\ NoOverlap
  BY <1>3, <1>4 DEF Working, AtOfProg, NoOverlap, Init, Actors
<1>6. HandleState /\ StatementHasDatabase /\ HandlesAccounted
  BY <1>4 DEF HandleState, StatementHasDatabase, HandlesAccounted
<1> QED BY <1>2, <1>5, <1>6 DEF ConnIInv

\* Every step of the client, of run() and of the threads preserves ConnIInv.
LEMMA ConnIInvStep == ConnIInv /\ IInv /\ IInv' /\ [ConnNext]_allVars => ConnIInv'
<1> SUFFICES ASSUME ConnIInv, IInv, IInv', [ConnNext]_allVars PROVE ConnIInv'
  OBVIOUS
<1> USE DEF ConnIInv
<1>1. TypeOK'
  BY DEF IInv
<1>2. ConnTypeOK'
  BY <1>1, ConnTypeStep
<1>3. Working'
  BY WorkingStep
<1>4. AtOfProg' /\ NoOverlap'
  BY AtOfProgStep, NoOverlapStep
<1>5. HandleInv'
  BY <1>3, HandleInvStep DEF HandleInv
<1> QED BY <1>2, <1>3, <1>4, <1>5 DEF HandleInv

\* In every reachable state threads, calls, the client's discipline and the
\* state of the handle agree.
THEOREM ConnIInvHolds == ConnSpec => [](ConnIInv /\ IInv)
<1>1. ConnSpec => []IInv
  BY ConnImplementsService, IInvHolds, PTL
<1> QED BY <1>1, ConnInitially, ConnIInvStep, PTL DEF ConnSpec

\* Every variable of the connection has its type in every reachable state.
THEOREM ConnTypeCorrect == ConnSpec => []ConnTypeOK
<1>1. ConnIInv => ConnTypeOK
  BY DEF ConnIInv
<1> QED BY <1>1, ConnIInvHolds, PTL

\* Under the discipline of MayCall, and without a lock, no thread stores to
\* _private->db while another is between two accesses of it.
THEOREM HandleNotRaced == ConnSpec => []NoDataRace
<1>1. ASSUME ConnIInv, IInv PROVE NoDataRace
  <2> SUFFICES ASSUME NEW a \in Actors, NEW b \in Actors, a # b, at[a] \in Writing
               PROVE  at[b] \notin Reading
    BY DEF NoDataRace
  <2> QED BY <1>1, OthersAway DEF ConnIInv, Writing
<1> QED BY <1>1, ConnIInvHolds, PTL

\* The handle a thread is about to pass to SQLite has not been closed.
THEOREM HandleNotUsedAfterClose == ConnSpec => []NoUseAfterClose
<1>1. ASSUME ConnIInv, IInv PROVE NoUseAfterClose
  <2> SUFFICES ASSUME NEW a \in Actors, at[a] \in {"close", "compile"}, db # Null
               PROVE  handle[db] \in {"open", "sick"}
    BY DEF NoUseAfterClose
  <2>1. \A b \in Actors : at[b] # "clear"
    BY <1>1, OthersAway DEF ConnIInv, Reading
  <2> QED BY <1>1, <2>1 DEF ConnIInv, HandleState
<1> QED BY <1>1, ConnIInvHolds, PTL

\* Every sqlite3 object that is not closed is the connection's, or was dropped
\* by a close that SQLite refused.
THEOREM NoHandleForgotten == ConnSpec => []HandlesAccounted
<1>1. ConnIInv => HandlesAccounted
  BY DEF ConnIInv
<1> QED BY <1>1, ConnIInvHolds, PTL

-----------------------------------------------------------------------------
(* What the client knows and owns.  First: which actions change what.      *)

\* The connection is made and destroyed, the client learns, and operations are
\* started, each in a step of its own.
LEMMA ConnFrame ==
    ASSUME [ConnNext]_allVars
    PROVE  /\ ConnCreateConnection \/ ConnDestroyConnection \/ UNCHANGED conn
           /\ SyncReturn \/ ConnCallHandler \/ UNCHANGED seen
           /\ \/ \E op \in Ops, k \in AsyncKinds, s \in Stmts \cup {Null} :
                    ConnStart(op, k, s)
              \/ UNCHANGED started
<1> USE DEF connVars, vars, ownerVars, history
<1>1. ASSUME NEW a \in Actors, DriverStep(a) PROVE UNCHANGED <<conn, seen, started>>
  BY <1>1 DEF DriverStep, CloseStep, ClearStep, OpenStep, CheckStep,
              CompileStep, StepStep
<1>2. ASSUME NEW t \in Threads, ConnThreadStep(t)
      PROVE  UNCHANGED <<conn, seen, started>>
  <2>1. CASE ConnTakeTask(t) \/ ConnRunBody(t) \/ ConnPostHandler(t) \/ DropLocal(t)
    BY <2>1 DEF ConnTakeTask, TakeTask, ConnRunBody, RunBody, ConnPostHandler,
                PostHandler, DropLocal
  <2>2. CASE \/ ConnReleaseWork(t) \/ ConnReleaseThis(t)
             \/ ConnFinishTask(t) \/ ConnExitThread(t)
    BY <2>2 DEF ConnReleaseWork, ReleaseWork, ConnReleaseThis, ReleaseThis,
                ConnFinishTask, FinishTask, ConnExitThread, ExitThread
  <2> QED BY <1>1, <1>2, <2>1, <2>2 DEF ConnThreadStep, Actors
<1>3. CASE \/ ConnStartFails \/ (\E s \in Stmts : DropStatement(s))
           \/ \E k \in SyncKinds : SyncCall(k)
  BY <1>3 DEF ConnStartFails, StartFails, StartTerminates, DropStatement, SyncCall
<1>4. CASE \/ ConnEnterRun \/ ConnLeaveHandler \/ ConnShutdownServices
           \/ ConnReturnFromRun \/ ConnStopPool \/ ConnJoinThreads
           \/ ConnFreeParent \/ ConnTerminated \/ UNCHANGED allVars
  BY <1>4
     DEF ConnEnterRun, EnterRun, ConnLeaveHandler, HandlerReturns,
         HandlerThrows, LeaveHandler, ConnShutdownServices, ShutdownServices,
         ConnReturnFromRun, ReturnFromRun, ConnStopPool, StopPool,
         ConnJoinThreads, JoinThreads, JoinTerminates, ConnFreeParent,
         FreeParent, ConnTerminated, allVars
<1>5. CASE ConnCreateConnection \/ ConnDestroyConnection
  BY <1>5 DEF ConnCreateConnection, CreateConnection, ConnDestroyConnection,
              DestroyConnection
<1>6. CASE SyncReturn
  BY <1>6 DEF SyncReturn
<1>7. CASE ConnCallHandler
  BY <1>7 DEF ConnCallHandler, CallHandler
<1>8. ASSUME NEW op \in Ops, NEW k \in AsyncKinds, NEW s \in Stmts \cup {Null},
             ConnStart(op, k, s)
      PROVE  UNCHANGED <<conn, seen>>
  BY <1>8 DEF ConnStart, Start
<1>9. CASE ConnClientStep
  BY <1>1, <1>3, <1>4, <1>5, <1>6, <1>7, <1>8, <1>9 DEF ConnClientStep, Actors
<1> QED BY <1>2, <1>4, <1>9 DEF ConnNext

-----------------------------------------------------------------------------
(* Before the connection.                                                  *)

\* While the connection is not made, nobody is in a call and nothing waits.
LEMMA UnbornIsIdle ==
    ASSUME ConnIInv, IInv, Untouched, conn[Con] = "unborn"
    PROVE  /\ \A a \in Actors : at[a] = "none"
           /\ InFlight = {} /\ Range(parent_ios) = {} /\ Carrying = {}
           /\ driver = {}
<1>1. started = <<>> /\ Range(started) = {}
  BY EmptyQueue DEF Untouched
<1>2. InFlight = {} /\ Range(parent_ios) = {}
  BY <1>1 DEF InFlight, IInv, QueuesDistinct, Answered
<1>3. Carrying = {}
  BY <1>2, InFlightFacts
<1>4. Con \notin Alive
  BY DEF Alive
<1>5. \A a \in Actors : at[a] = "none"
  BY <1>3, <1>4 DEF ConnIInv, Working, Carrying, Actors
<1>6. this_pin = {}
  <2>1. Range(my_ios) = {}
    BY <1>1 DEF IInv, QueuesDistinct
  <2>2. Busy = {}
    BY <1>1 DEF IInv, PlacesApart
  <2> QED BY <2>1, <2>2 DEF IInv, PinsHeld
<1>7. driver = {}
  BY <1>4, <1>6, ConnAssumption DEF IInv, PinsHeld, Alive
<1> QED BY <1>2, <1>3, <1>5, <1>7

\* Nothing happens to a connection before it is made.
LEMMA UntouchedStep ==
    ASSUME ConnIInv, IInv, Untouched, [ConnNext]_allVars
    PROVE  Untouched'
<1> SUFFICES ASSUME conn'[Con] = "unborn"
             PROVE  UNCHANGED <<db, seen, started>> /\ conn[Con] = "unborn"
  BY DEF Untouched
<1> USE DEF connVars, dbVars, vars, ownerVars, history
<1>1. conn[Con] = "unborn"
  <2>1. CASE ConnDestroyConnection
    BY <2>1, ConnAssumption
       DEF ConnDestroyConnection, DestroyConnection, IInv, TypeOK
  <2>2. CASE ConnCreateConnection
    BY <2>2, ConnAssumption
       DEF ConnCreateConnection, CreateConnection, IInv, TypeOK
  <2>3. CASE ConnNext /\ ~ConnDestroyConnection /\ ~ConnCreateConnection
    <3>1. UNCHANGED conn
      BY <2>3, ConnFrame
    <3> QED BY <3>1
  <2> QED BY <2>1, <2>2, <2>3 DEF allVars
<1>2. /\ \A a \in Actors : at[a] = "none"
      /\ driver = {} /\ Range(parent_ios) = {} /\ db = Null /\ Con \notin Alive
  BY <1>1, UnbornIsIdle DEF Untouched, Alive
<1>3. UNCHANGED db
  <2>1. ASSUME NEW a \in Actors PROVE ~DriverStep(a)
    BY <1>2, AccessMoves DEF ConnIInv
  <2>2. IfDriverDies => UNCHANGED db
    BY <1>2 DEF IfDriverDies, DestroyDriver
  <2> QED BY <2>1, <2>2, StepCases DEF ConnIInv
<1>4. UNCHANGED seen
  <2>1. ~SyncReturn
    BY <1>2 DEF SyncReturn, Actors
  <2>2. ~ConnCallHandler
    BY <1>2, EmptyQueue DEF ConnCallHandler, CallHandler, IInv, TypeOK
  <2> QED BY <2>1, <2>2, ConnFrame
<1>5. UNCHANGED started
  <2>1. \A op \in Ops : ~Start(op)
    BY <1>2, ConnAssumption, OnAssumption DEF Start
  <2> QED BY <2>1, ConnFrame DEF ConnStart
<1> QED BY <1>1, <1>3, <1>4, <1>5
-----------------------------------------------------------------------------
(* What the client knows.                                                  *)

\* While somebody opens or closes, no other result of an open is on its way.
LEMMA OpenIsAlone ==
    ASSUME ConnIInv, IInv, NEW a \in Actors, prog[a] \in {"open", "close"}
    PROVE  /\ \A t \in Threads : pc[t] = "post" => kind[job[t]] # "open"
           /\ \A op \in Range(parent_ios) : kind[op] # "open"
           /\ \A b \in Actors \ {a} : prog[b] \notin {"open", "close"}
<1> USE DEF ConnIInv
<1>1. \A t \in Threads : pc[t] \in {"body", "post"} =>
        job[t] \in InFlight /\ job[t] \notin Range(parent_ios)
  BY InFlightFacts DEF Carrying, IInv, PlacesApart, Answered
<1>2. Range(parent_ios) \subseteq InFlight
  BY DEF IInv, QueuesDistinct, PlacesApart, Answered, InFlight
<1>3. \A b \in Actors \ {a} : prog[b] \notin {"open", "close"}
  BY AloneWithHandle
<1>4. CASE a = Client
  <2>1. \A op \in InFlight : kind[op] = "execute"
    BY <1>4 DEF NoOverlap
  <2> QED BY <1>1, <1>2, <1>3, <2>1
<1>5. CASE a \in Threads
  <2>1. pc[a] = "body" /\ job[a] \in InFlight /\ kind[job[a]] = "open"
    BY <1>1, <1>5 DEF Working, AsyncKinds
  <2>2. \A op \in InFlight : op # job[a] => kind[op] = "execute"
    BY <2>1 DEF NoOverlap
  <2>3. \A t \in Threads : pc[t] = "post" => job[t] # job[a]
    BY <1>5, <2>1, InFlightFacts DEF Carrying
  <2> QED BY <1>1, <1>2, <1>3, <1>5, <2>1, <2>2, <2>3
<1> QED BY <1>4, <1>5 DEF Actors

\* What a step has to leave true when it does not touch the handle.
LEMMA ReportsFrame ==
    ASSUME UNCHANGED <<db, handle>>,
           \A a \in Actors : prog'[a] \in {"open", "close"} /\ at'[a] = "done" =>
                StateIs(Told(prog'[a], err'[a])),
           \A t \in Threads : pc'[t] = "post" /\ kind'[job'[t]] = "open" =>
                StateIs(Told("open", err'[t])),
           \A op \in Range(parent_ios') : kind'[op] = "open" =>
                StateIs(Told("open", outcome'[op])),
           Quiet' => StateIs(seen')
    PROVE  Reports'
<1>1. ASSUME NEW a \in Actors, prog'[a] \in {"open", "close"}, at'[a] = "done"
      PROVE  StateIs(Told(prog[a], err[a]))'
  BY <1>1 DEF StateIs, Told
<1>2. ASSUME NEW t \in Threads, pc'[t] = "post", kind'[job'[t]] = "open"
      PROVE  StateIs(Told("open", err[t]))'
  BY <1>2 DEF StateIs, Told
<1>3. ASSUME NEW op \in Range(parent_ios'), kind'[op] = "open"
      PROVE  StateIs(Told("open", outcome[op]))'
  BY <1>3 DEF StateIs, Told
<1>4. Quiet' => StateIs(seen)'
  BY DEF StateIs
<1> QED BY <1>1, <1>2, <1>3, <1>4 DEF Reports

\* The last access of an open or a close finds its result true; the accesses
\* of the other calls change nothing a result is about.
LEMMA AccessReports ==
    ASSUME ConnIInv, IInv, Reports, NEW a \in Actors, DriverStep(a)
    PROVE  Reports'
<1> USE DEF ConnIInv
<1>1. /\ UNCHANGED <<vars, kind, prog>>
      /\ at[a] # "none"
      /\ \A b \in Actors : b # a => at'[b] = at[b]
  BY AccessMoves
<1>2. UNCHANGED <<driver, pc, job, parent_ios, InFlight, seen, outcome>>
  BY <1>1
     DEF vars, ownerVars, threadVars, parentVars, history, InFlight, DriverStep,
         CloseStep, ClearStep, OpenStep, CheckStep, CompileStep, StepStep, opVars
<1>3. \A b \in Actors : b # a => err'[b] = err[b]
  BY DEF DriverStep, CloseStep, ClearStep, OpenStep, CheckStep, CompileStep,
         StepStep, Finish, AfterCompile, ConnTypeOK
<1>4. \A t \in Threads : pc[t] = "post" => t # a
  BY <1>1 DEF Working
<1>5. CASE prog[a] \in {"open", "close"}
  <2>1. /\ \A t \in Threads : pc[t] = "post" => kind[job[t]] # "open"
        /\ \A op \in Range(parent_ios) : kind[op] # "open"
        /\ \A b \in Actors \ {a} : prog[b] \notin {"open", "close"}
    BY <1>5, OpenIsAlone
  <2>2. at'[a] = "done" => StateIs(Told(prog[a], err[a]))'
    <3>1. CASE CloseStep(a)
      BY <1>1, <1>5, <3>1
         DEF CloseStep, NothingToClose, AfterClose, Goto, ConnTypeOK, StateIs, Told
    <3>2. CASE ClearStep(a)
      BY <1>1, <1>5, <3>2
         DEF ClearStep, ResetHandle, AfterClose, Goto, ConnTypeOK, StateIs, Told
    <3>3. CASE OpenStep(a)
      <4>1. prog[a] = "open"
        BY <3>3 DEF OpenStep, AtOfProg
      <4>2. \/ err'[a] = "ok" /\ db' # Null /\ handle'[db'] = "open"
            \/ err'[a] = "error" /\ (db' = Null \/ handle'[db'] = "sick")
        BY <3>3, ConnAssumption DEF OpenStep, Finish, OpenError, ConnTypeOK
      <4> QED BY <1>1, <4>1, <4>2 DEF StateIs, Told
    <3>4. ~(CheckStep(a) \/ CompileStep(a) \/ StepStep(a))
      BY <1>5 DEF CheckStep, CompileStep, StepStep, AtOfProg
    <3> QED BY <3>1, <3>2, <3>3, <3>4 DEF DriverStep
  <2>3. ~Quiet'
    BY <1>1, <1>5 DEF Quiet
  <2> QED BY <1>1, <1>2, <2>1, <2>2, <2>3 DEF Reports
<1>6. CASE prog[a] \notin {"open", "close"}
  <2>1. at[a] \notin {"close", "clear", "open"}
    BY <1>6 DEF AtOfProg
  <2>2. UNCHANGED <<db, handle>>
    BY <2>1 DEF DriverStep, CloseStep, ClearStep, OpenStep, CheckStep,
                CompileStep, StepStep, dbVars
  <2>3. Quiet' = Quiet
    BY <1>1, <1>2 DEF Quiet
  <2> SUFFICES ASSUME driver # {} PROVE Reports'
    BY <1>2 DEF Reports
  <2>5. ASSUME NEW b \in Actors, prog[b] \in {"open", "close"}, at'[b] = "done"
        PROVE  StateIs(Told(prog[b], err[b]))'
    <3>1. b # a /\ StateIs(Told(prog[b], err[b]))
      BY <1>1, <1>6, <2>5 DEF Reports
    <3> QED BY <1>1, <1>3, <2>2, <2>5, <3>1 DEF StateIs, Told
  <2>6. ASSUME NEW t \in Threads, pc[t] = "post", kind[job[t]] = "open"
        PROVE  StateIs(Told("open", err[t]))'
    <3>1. t # a /\ t \in Actors /\ StateIs(Told("open", err[t]))
      BY <1>4, <2>6 DEF Reports, Actors
    <3> QED BY <1>3, <2>2, <3>1 DEF StateIs, Told
  <2>7. ASSUME NEW op \in Range(parent_ios), kind[op] = "open"
        PROVE  StateIs(Told("open", outcome[op]))'
    BY <1>2, <2>2, <2>7 DEF Reports, StateIs, Told
  <2>8. Quiet => StateIs(seen)'
    BY <1>2, <2>2 DEF Reports, StateIs
  <2> QED BY <1>1, <1>2, <2>3, <2>5, <2>6, <2>7, <2>8 DEF Reports
<1> QED BY <1>5, <1>6

\* A thread takes the result of its call along from the body of the task to
\* the handler it posts.
LEMMA ThreadReports ==
    ASSUME ConnIInv, IInv, Reports, driver # {}, driver' # {},
           NEW t \in Threads, ConnThreadStep(t)
    PROVE  Reports'
<1> USE DEF ConnIInv, connVars, opVars, callVars, dbVars
<1>a. TypeOK /\ t \in Actors
  BY DEF IInv, Actors
<1>1. CASE DriverStep(t)
  BY <1>1, <1>a, AccessReports
<1>2. CASE ConnTakeTask(t)
  <2>1. /\ pc[t] = "idle" /\ pc' = [pc EXCEPT ![t] = "body"]
        /\ job' = [job EXCEPT ![t] = Head(my_ios)]
        /\ UNCHANGED <<parent_ios, db, handle, kind, outcome, err, seen, InFlight>>
    BY <1>2 DEF ConnTakeTask, TakeTask, Pop, parentVars, history, InFlight
  <2>2. /\ \A b \in Actors : b # t => at'[b] = at[b] /\ prog'[b] = prog[b]
        /\ at'[t] # "done" /\ prog[t] = "none"
    <3>1. kind[Head(my_ios)] \in AsyncKinds
      BY <1>2, InFlightFacts DEF ConnTakeTask, TakeTask, Working
    <3>2. FirstStep(kind[Head(my_ios)]) # "done"
      BY <3>1 DEF FirstStep, AsyncKinds
    <3> HIDE DEF FirstStep
    <3> QED BY <1>2, <1>a, <2>1, <3>2 DEF ConnTakeTask, Begin, Goto, ConnTypeOK, Working
  <2>3. \A u \in Threads : pc'[u] = "post" => pc[u] = "post" /\ job'[u] = job[u]
    BY <1>a, <2>1 DEF TypeOK
  <2>4. Quiet' => Quiet
    BY <2>1, <2>2 DEF Quiet
  <2>5. \A a \in Actors : prog'[a] \in {"open", "close"} /\ at'[a] = "done" =>
            StateIs(Told(prog'[a], err'[a]))
    BY <2>1, <2>2 DEF Reports, Told
  <2> QED BY <2>1, <2>3, <2>4, <2>5, ReportsFrame DEF Reports
<1>3. CASE ConnRunBody(t)
  <2>1. /\ pc[t] = "body" /\ pc' = [pc EXCEPT ![t] = "post"]
        /\ UNCHANGED <<parent_ios, db, handle, kind, outcome, err, seen, InFlight, job>>
    BY <1>3 DEF ConnRunBody, RunBody, parentVars, history, InFlight
  <2>2. /\ \A b \in Actors : b # t => at'[b] = at[b] /\ prog'[b] = prog[b]
        /\ at[t] = "done" /\ at'[t] = "none" /\ prog'[t] = "none"
        /\ prog[t] = kind[job[t]] /\ kind[job[t]] \in AsyncKinds
        /\ job[t] \in InFlight
    BY <1>3, <1>a, <2>1, InFlightFacts
       DEF ConnRunBody, BodyOver, End, Goto, ConnTypeOK, Working, Carrying
  <2>3. \A u \in Threads : pc'[u] = "post" => pc[u] = "post" \/ u = t
    BY <1>a, <2>1 DEF TypeOK
  <2>4. Quiet' => Quiet
    BY <2>1, <2>2 DEF Quiet, AsyncKinds
  <2>5. kind[job[t]] = "open" => StateIs(Told("open", err[t]))
    BY <1>a, <2>2 DEF Reports
  <2>6. \A a \in Actors : prog'[a] \in {"open", "close"} /\ at'[a] = "done" =>
            StateIs(Told(prog'[a], err'[a]))
    BY <2>1, <2>2 DEF Reports, Told
  <2> QED BY <2>1, <2>3, <2>4, <2>5, <2>6, ReportsFrame DEF Reports
<1>4. CASE ConnPostHandler(t)
  <2>1. /\ pc[t] = "post" /\ pc' = [pc EXCEPT ![t] = "release"]
        /\ outcome' = [outcome EXCEPT ![job[t]] = err[t]]
        /\ err' = [err EXCEPT ![t] = "ok"]
        /\ UNCHANGED <<db, handle, kind, prog, at, seen, InFlight, job>>
    BY <1>4 DEF ConnPostHandler, PostHandler, history, InFlight
  <2>2. /\ job[t] \in Ops /\ job[t] \notin Range(parent_ios)
        /\ Range(parent_ios') = Range(parent_ios) \cup {job[t]}
    <3>1. job[t] \in Ops /\ job[t] \notin Range(parent_ios)
      BY <2>1, InFlightFacts DEF Carrying, IInv, PlacesApart, Answered
    <3> QED BY <1>4, <1>a, <3>1, PostToQueue
            DEF ConnPostHandler, PostHandler, Post, TypeOK
  <2>3. \A u \in Threads : pc'[u] = "post" => pc[u] = "post" /\ u # t
    BY <1>a, <2>1 DEF TypeOK
  <2>4. Quiet' = Quiet
    BY <2>1 DEF Quiet
  <2>5. prog[t] = "none"
    BY <2>1 DEF Working
  <2>6. Range(parent_ios) \subseteq Ops
    BY <1>a, RangeOfSeq DEF TypeOK
  <2>7. /\ outcome'[job[t]] = err[t]
        /\ \A op \in Range(parent_ios) : outcome'[op] = outcome[op]
        /\ \A b \in Actors : b # t => err'[b] = err[b]
    BY <2>1, <2>2, <2>6 DEF ConnTypeOK
  <2>8. kind[job[t]] = "open" => StateIs(Told("open", err[t]))
    BY <2>1 DEF Reports
  <2>9. \A a \in Actors : prog'[a] \in {"open", "close"} /\ at'[a] = "done" =>
            StateIs(Told(prog'[a], err'[a]))
    BY <2>1, <2>5, <2>7 DEF Reports, Told
  <2>10. \A u \in Threads : pc'[u] = "post" /\ kind'[job'[u]] = "open" =>
            StateIs(Told("open", err'[u]))
    BY <2>1, <2>3, <2>7 DEF Reports, Actors
  <2>11. \A op \in Range(parent_ios') : kind'[op] = "open" =>
            StateIs(Told("open", outcome'[op]))
    BY <2>1, <2>2, <2>7, <2>8 DEF Reports
  <2>12. Quiet' => StateIs(seen')
    BY <2>1, <2>4 DEF Reports
  <2> QED BY <2>1, <2>9, <2>10, <2>11, <2>12, ReportsFrame
<1>5. CASE \/ DropLocal(t) \/ ConnReleaseWork(t) \/ ConnReleaseThis(t)
           \/ ConnFinishTask(t) \/ ConnExitThread(t)
  <2>1. UNCHANGED <<db, handle, kind, prog, at, err, outcome, seen, InFlight, parent_ios>>
    BY <1>5
       DEF DropLocal, ConnReleaseWork, ReleaseWork, ConnReleaseThis, ReleaseThis,
           IfDriverDies, ConnFinishTask, FinishTask, ConnExitThread, ExitThread,
           vars, parentVars, history, InFlight
  <2>2. \A u \in Threads : pc'[u] = "post" => pc[u] = "post" /\ job'[u] = job[u]
    BY <1>5, <1>a
       DEF DropLocal, ConnReleaseWork, ReleaseWork, ConnReleaseThis, ReleaseThis,
           ConnFinishTask, FinishTask, ConnExitThread, ExitThread, Leave, vars,
           threadVars, TypeOK
  <2>3. Quiet' = Quiet
    BY <2>1 DEF Quiet
  <2>4. \A a \in Actors : prog'[a] \in {"open", "close"} /\ at'[a] = "done" =>
            StateIs(Told(prog'[a], err'[a]))
    BY <2>1 DEF Reports, Told
  <2> QED BY <2>1, <2>2, <2>3, <2>4, ReportsFrame DEF Reports
<1> QED BY <1>1, <1>2, <1>3, <1>4, <1>5 DEF ConnThreadStep

\* The client learns the result of its own call when that returns, and of an
\* operation when its handler is called; its other steps leave results alone.
LEMMA ClientReports ==
    ASSUME ConnIInv, IInv, Reports, driver # {}, driver' # {}, ConnClientStep
    PROVE  Reports'
<1> USE DEF ConnIInv, connVars, opVars, callVars, dbVars
<1>a. TypeOK /\ Client \in Actors
  BY DEF IInv, Actors
<1>b. Range(parent_ios) \subseteq InFlight /\ InFlight \subseteq Ops
  BY InFlightFacts DEF IInv, QueuesDistinct, PlacesApart, Answered, InFlight
<1>c. \A t \in Threads : pc[t] = "post" => job[t] \in InFlight
  BY InFlightFacts DEF Carrying
<1>d. \A t \in Threads : t # Client /\ t \in Actors
  BY ConnAssumption DEF Actors
<1>1. CASE DriverStep(Client)
  BY <1>1, <1>a, AccessReports
<1>2. ASSUME NEW op \in Ops, NEW k \in AsyncKinds, NEW s \in Stmts \cup {Null},
             ConnStart(op, k, s)
      PROVE  Reports'
  <2>1. /\ Start(op) /\ kind' = [kind EXCEPT ![op] = k]
        /\ UNCHANGED <<db, handle, prog, at, err, outcome, seen, parent_ios, job>>
    BY <1>2 DEF ConnStart, Start
  <2>2. op \notin InFlight /\ InFlight' = InFlight \cup {op}
    BY <2>1, StartInFlight
  <2>3. \A o \in InFlight : kind'[o] = kind[o]
    BY <1>b, <2>1, <2>2 DEF ConnTypeOK
  <2>4. \A t \in Threads : pc'[t] = "post" => pc[t] = "post"
    BY <2>1 DEF Start, EnsureThreadsStarted
  <2>5. Quiet' => Quiet
    BY <2>1, <2>2, <2>3 DEF Quiet
  <2>6. \A a \in Actors : prog'[a] \in {"open", "close"} /\ at'[a] = "done" =>
            StateIs(Told(prog'[a], err'[a]))
    BY <2>1 DEF Reports, Told
  <2> QED BY <1>b, <1>c, <2>1, <2>3, <2>4, <2>5, <2>6, ReportsFrame DEF Reports
<1>3. ASSUME NEW k \in SyncKinds, SyncCall(k) PROVE Reports'
  <2>1. /\ prog' = [prog EXCEPT ![Client] = k]
        /\ at' = [at EXCEPT ![Client] = FirstStep(k)] /\ at[Client] = "none"
        /\ UNCHANGED <<db, handle, err, outcome, kind, seen, parent_ios, job, pc, InFlight>>
    BY <1>3 DEF SyncCall, Begin, Goto, Free, vars, threadVars, parentVars, history, InFlight
  <2>2. FirstStep(k) # "done"
    BY DEF FirstStep, SyncKinds
  <2> HIDE DEF FirstStep
  <2>3. \A a \in Actors : prog'[a] \in {"open", "close"} /\ at'[a] = "done" =>
            StateIs(Told(prog'[a], err'[a]))
    BY <2>1, <2>2 DEF Reports, Told, ConnTypeOK
  <2>4. Quiet' => Quiet
    <3>1. prog[Client] = "none"
      BY <2>1 DEF Working
    <3> QED BY <2>1, <3>1 DEF Quiet, ConnTypeOK
  <2> QED BY <2>1, <2>3, <2>4, ReportsFrame DEF Reports
<1>4. CASE SyncReturn
  <2>1. /\ at[Client] = "done"
        /\ prog' = [prog EXCEPT ![Client] = "none"]
        /\ at' = [at EXCEPT ![Client] = "none"]
        /\ err' = [err EXCEPT ![Client] = "ok"]
        /\ seen' = Told(prog[Client], err[Client])
        /\ UNCHANGED <<db, handle, outcome, kind, parent_ios, job, pc, InFlight>>
    BY <1>4 DEF SyncReturn, End, Goto, vars, threadVars, parentVars, history, InFlight
  <2>2. \A a \in Actors : prog'[a] \in {"open", "close"} /\ at'[a] = "done" =>
            StateIs(Told(prog'[a], err'[a]))
    BY <2>1 DEF Reports, Told, ConnTypeOK
  <2>3. \A t \in Threads : pc'[t] = "post" /\ kind'[job'[t]] = "open" =>
            StateIs(Told("open", err'[t]))
    BY <1>d, <2>1 DEF Reports, ConnTypeOK
  <2>4. Quiet' => StateIs(seen')
    <3>1. CASE prog[Client] \in {"open", "close"}
      BY <1>a, <2>1, <3>1 DEF Reports
    <3>2. CASE prog[Client] \notin {"open", "close"}
      <4>1. seen' = seen
        BY <2>1, <3>2 DEF Told
      <4>2. Quiet' => Quiet
        BY <2>1, <3>2 DEF Quiet, ConnTypeOK
      <4> QED BY <4>1, <4>2 DEF Reports
    <3> QED BY <3>1, <3>2
  <2> QED BY <2>1, <2>2, <2>3, <2>4, ReportsFrame DEF Reports
<1>5. CASE ConnCallHandler
  <2> DEFINE op == Head(parent_ios)
  <2>1. /\ CallHandler
        /\ seen' = Told(kind[op], outcome[op])
        /\ kind' = [kind EXCEPT ![op] = "none"]
        /\ outcome' = [outcome EXCEPT ![op] = "none"]
        /\ UNCHANGED <<db, handle, prog, at, err, job, pc>>
    BY <1>5 DEF ConnCallHandler, CallHandler, threadVars
  <2>2. /\ op \in Ops /\ op \in Range(parent_ios)
        /\ InFlight' = InFlight \ {op}
        /\ Range(parent_ios') = Range(parent_ios) \ {op}
    <3>1. parent_ios # <<>> /\ parent_ios' = Tail(parent_ios)
      BY <2>1 DEF CallHandler
    <3>2. /\ Range(parent_ios) = {op} \cup Range(Tail(parent_ios))
          /\ op \notin Range(Tail(parent_ios)) /\ op \in Ops
      BY <1>a, <3>1, TakeFromQueue DEF TypeOK, IInv, QueuesDistinct
    <3> QED BY <2>1, <3>1, <3>2, CallInFlight
  <2> HIDE DEF op
  <2>3. \A o \in InFlight \ {op} : kind'[o] = kind[o] /\ outcome'[o] = outcome[o]
    BY <1>b, <2>1, <2>2 DEF ConnTypeOK
  <2>4. \A t \in Threads : pc[t] = "post" => job[t] \in InFlight \ {op}
    BY <1>c, <2>2 DEF IInv, PlacesApart, Carrying, Answered
  <2>5. \A a \in Actors : prog'[a] \in {"open", "close"} /\ at'[a] = "done" =>
            StateIs(Told(prog'[a], err'[a]))
    BY <2>1 DEF Reports, Told
  <2>6. \A o \in Range(parent_ios') : kind'[o] = "open" =>
            StateIs(Told("open", outcome'[o]))
    BY <1>b, <2>2, <2>3 DEF Reports
  <2>7. Quiet' => StateIs(seen')
    <3>1. CASE kind[op] = "open"
      BY <2>1, <2>2, <3>1 DEF Reports
    <3>2. CASE kind[op] # "open"
      <4>1. kind[op] \in {"prepare", "execute"}
        BY <1>b, <2>2, <3>2 DEF Working, AsyncKinds
      <4>2. seen' = seen
        BY <2>1, <4>1 DEF Told
      <4>3. Quiet' => Quiet
        BY <2>1, <2>2, <2>3, <3>2 DEF Quiet
      <4> QED BY <4>2, <4>3 DEF Reports
    <3> QED BY <3>1, <3>2
  <2> QED BY <2>1, <2>3, <2>4, <2>5, <2>6, <2>7, ReportsFrame DEF Reports
<1>6. ASSUME \/ ConnCreateConnection \/ ConnStartFails \/ ConnEnterRun
             \/ (\E s \in Stmts : DropStatement(s))
             \/ ConnLeaveHandler \/ ConnReturnFromRun \/ ConnDestroyConnection
             \/ ConnShutdownServices \/ ConnStopPool \/ ConnJoinThreads \/ ConnFreeParent
      PROVE  Reports'
  <2>1. UNCHANGED <<db, handle, kind, prog, at, err, outcome, seen, InFlight>>
    <3>1. CASE \/ ConnCreateConnection \/ ConnStartFails \/ ConnEnterRun
               \/ (\E s \in Stmts : DropStatement(s))
      BY <3>1
         DEF ConnCreateConnection, CreateConnection, ConnStartFails, StartFails,
             StartTerminates, ConnEnterRun, EnterRun, DropStatement, vars, history,
             InFlight
    <3>2. CASE ConnLeaveHandler \/ ConnReturnFromRun \/ ConnShutdownServices
               \/ ConnStopPool \/ ConnFreeParent
      BY <3>2
         DEF ConnLeaveHandler, HandlerReturns, HandlerThrows, LeaveHandler,
             ConnReturnFromRun, ReturnFromRun, ConnShutdownServices,
             ShutdownServices, ConnStopPool, StopPool, ConnFreeParent, FreeParent,
             history, InFlight
    <3>3. CASE ConnDestroyConnection \/ ConnJoinThreads
      BY <3>3
         DEF ConnDestroyConnection, DestroyConnection, ConnJoinThreads, JoinThreads,
             JoinTerminates, IfDriverDies, history, InFlight
    <3> QED BY <1>6, <3>1, <3>2, <3>3
  <2>2. Range(parent_ios') \subseteq Range(parent_ios)
    BY <1>6, EmptyQueue
       DEF ConnCreateConnection, CreateConnection, ConnStartFails, StartFails,
           StartTerminates, ConnEnterRun, EnterRun, DropStatement, vars,
           ConnLeaveHandler, HandlerReturns, HandlerThrows, LeaveHandler,
           ConnReturnFromRun, ReturnFromRun, ConnShutdownServices,
           ShutdownServices, ConnStopPool, StopPool, ConnFreeParent, FreeParent,
           ConnDestroyConnection, DestroyConnection, ConnJoinThreads, JoinThreads,
           JoinTerminates, parentVars
  <2>3. \A t \in Threads : pc'[t] = "post" => pc[t] = "post" /\ job'[t] = job[t]
    BY <1>6
       DEF ConnCreateConnection, CreateConnection, ConnStartFails, StartFails,
           StartTerminates, ConnEnterRun, EnterRun, DropStatement, vars,
           ConnLeaveHandler, HandlerReturns, HandlerThrows, LeaveHandler,
           ConnReturnFromRun, ReturnFromRun, ConnShutdownServices,
           ShutdownServices, ConnStopPool, StopPool, ConnFreeParent, FreeParent,
           ConnDestroyConnection, DestroyConnection, ConnJoinThreads, JoinThreads,
           JoinTerminates, threadVars
  <2>4. Quiet' = Quiet
    BY <2>1 DEF Quiet
  <2>5. \A a \in Actors : prog'[a] \in {"open", "close"} /\ at'[a] = "done" =>
            StateIs(Told(prog'[a], err'[a]))
    BY <2>1 DEF Reports, Told
  <2> QED BY <2>1, <2>2, <2>3, <2>4, <2>5, ReportsFrame DEF Reports
<1> QED BY <1>1, <1>2, <1>3, <1>4, <1>5, <1>6 DEF ConnClientStep

\* Results and what the client was told stay true of the connection, from its
\* creation on.
LEMMA ReportsStep ==
    ASSUME ConnIInv, IInv, Reports, Untouched, [ConnNext]_allVars
    PROVE  Reports'
<1> SUFFICES ASSUME driver' # {} PROVE Reports'
  BY DEF Reports
<1>1. CASE UNCHANGED allVars
  <2>1. UNCHANGED <<driver, prog, at, err, db, handle, pc, job, kind, outcome,
                    parent_ios, seen, started, called>>
    BY <1>1 DEF allVars, vars, ownerVars, threadVars, parentVars, history,
                connVars, dbVars, opVars, callVars
  <2>2. Quiet' = Quiet
    BY <2>1 DEF Quiet, InFlight
  <2> QED BY <2>1, <2>2, ReportsFrame DEF Reports
<1>2. CASE driver # {} /\ ~UNCHANGED allVars
  BY <1>2, ThreadReports, ClientReports DEF ConnNext, ConnTerminated
<1>3. CASE driver = {} /\ ~UNCHANGED allVars
  <2>1. this_pin = {} /\ Alive = {}
    <3>1. Alive = {}
      BY <1>3 DEF IInv, PinsHeld
    <3>2. this_pin = {}
      BY <1>3 DEF IInv, PinsHeld
    <3> QED BY <3>1, <3>2
  <2>2. ConnCreateConnection
    <3>1. ASSUME NEW a \in Actors, DriverStep(a) PROVE FALSE
      BY <1>3, <3>1, NobodyInDeadDriver, AccessMoves DEF ConnIInv
    <3>2. ASSUME NEW t \in Threads, ConnThreadStep(t) PROVE FALSE
      <4>1. CASE ConnTakeTask(t) \/ ConnRunBody(t) \/ ConnPostHandler(t) \/ DropLocal(t)
        BY <1>3, <4>1
           DEF ConnTakeTask, TakeTask, ConnRunBody, RunBody, ConnPostHandler,
               PostHandler, DropLocal, ownerVars, vars
      <4>2. CASE \/ ConnReleaseWork(t) \/ ConnReleaseThis(t)
                 \/ ConnFinishTask(t) \/ ConnExitThread(t)
        BY <1>3, <2>1, <4>2
           DEF ConnReleaseWork, ReleaseWork, ConnReleaseThis, ReleaseThis,
               ConnFinishTask, FinishTask, ConnExitThread, ExitThread, ownerVars
      <4>3. ~DriverStep(t)
        BY <3>1 DEF Actors
      <4> QED BY <3>2, <4>1, <4>2, <4>3 DEF ConnThreadStep
    <3>3. CASE \/ \E op \in Ops, k \in AsyncKinds, s \in Stmts \cup {Null} :
                        ConnStart(op, k, s)
               \/ ConnStartFails \/ (\E k \in SyncKinds : SyncCall(k)) \/ SyncReturn
               \/ \E s \in Stmts : DropStatement(s)
      BY <1>3, <3>3
         DEF ConnStart, Start, ConnStartFails, StartFails, StartTerminates,
             SyncCall, SyncReturn, DropStatement, vars, ownerVars
    <3>4. CASE \/ ConnEnterRun \/ ConnCallHandler \/ ConnLeaveHandler
               \/ ConnReturnFromRun \/ ConnShutdownServices
               \/ ConnStopPool \/ ConnFreeParent
      BY <1>3, <3>4
         DEF ConnEnterRun, EnterRun, ConnCallHandler, CallHandler,
             ConnLeaveHandler, HandlerReturns, HandlerThrows, LeaveHandler,
             ConnReturnFromRun, ReturnFromRun, ConnShutdownServices,
             ShutdownServices, ConnStopPool, StopPool, ConnFreeParent, FreeParent,
             ownerVars
    <3>5. CASE ConnDestroyConnection
      BY <2>1, <3>5, ConnAssumption
         DEF ConnDestroyConnection, DestroyConnection, Alive
    <3>6. CASE ConnJoinThreads
      BY <1>3, <2>1, <3>6
         DEF ConnJoinThreads, JoinThreads, JoinTerminates, DropOwner, ownerVars
    <3>7. ~DriverStep(Client)
      BY <3>1 DEF Actors
    <3> QED BY <1>3, <3>2, <3>3, <3>4, <3>5, <3>6, <3>7
            DEF ConnNext, ConnClientStep, ConnTerminated
  <2>3. conn[Con] = "unborn" /\ UNCHANGED connVars /\ UNCHANGED <<parent_ios, pc>>
    BY <2>2 DEF ConnCreateConnection, CreateConnection, parentVars, threadVars
  <2>4. /\ \A a \in Actors : at[a] = "none"
        /\ Range(parent_ios) = {} /\ Carrying = {}
    BY <2>3, UnbornIsIdle
  <2>5. UNCHANGED <<db, handle, prog, at, err, kind, outcome, seen>>
    BY <2>3 DEF connVars, dbVars, opVars, callVars
  <2>6. db = Null /\ seen = "closed"
    BY <2>3 DEF Untouched
  <2>7. \A t \in Threads : pc'[t] # "post"
    BY <2>3, <2>4 DEF Carrying
  <2> QED BY <2>3, <2>4, <2>5, <2>6, <2>7, ReportsFrame DEF StateIs
<1> QED BY <1>1, <1>2, <1>3

\* Between opens and closes, and whatever order their handlers were posted in,
\* the connection is in the state the client was last told of.
THEOREM ClientKnows == ConnSpec => []ClientKnowsState
<1>1. ConnInit => Reports /\ Untouched
  BY DEF ConnInit, Init, Reports, Untouched
<1>2. /\ (Reports /\ Untouched) /\ (ConnIInv /\ IInv) /\ [ConnNext]_allVars
      => (Reports /\ Untouched)'
  BY ReportsStep, UntouchedStep
<1>3. ConnSpec => [](Reports /\ Untouched)
  BY <1>1, <1>2, ConnIInvHolds, PTL DEF ConnSpec
<1>4. Reports => ClientKnowsState
  BY DEF Reports, ClientKnowsState
<1> QED BY <1>3, <1>4, PTL

-----------------------------------------------------------------------------
(* What the client owns.                                                   *)

\* A stopped parent has nothing of earlier runs left to wait for.
LEMMA StoppedIdleStep ==
    ASSUME ConnIInv, IInv, StoppedIdle, [ConnNext]_allVars
    PROVE  StoppedIdle'
<1> SUFFICES ASSUME client' = "user", parent_stopped' PROVE work_pin' \subseteq InFlight'
  BY DEF StoppedIdle
<1> USE DEF StoppedIdle, Outstanding, StopIfOutOfWork
<1>1. [Next]_vars
  BY ConnStepIsServiceStep
<1>2. CASE UNCHANGED vars
  BY <1>2 DEF vars, parentVars, history, InFlight
<1>3. ASSUME NEW op \in Ops, Start(op) PROVE work_pin' \subseteq InFlight'
  BY <1>3, StartInFlight DEF Start, MakeWork
<1>4. CASE ReturnFromRun
  BY <1>4 DEF ReturnFromRun, parentVars, IInv, ParentKeptRunning
<1>5. CASE HandlerThrows
  BY <1>5 DEF HandlerThrows, LeaveHandler, IInv, ParentKeptRunning
<1>6. ASSUME NEW born \in SUBSET Threads, StartFails(born)
      PROVE  work_pin' \subseteq InFlight'
  BY <1>6 DEF StartFails, history, InFlight
<1>7. ASSUME NEW t \in Threads, ThreadStep(t) PROVE work_pin' \subseteq InFlight'
  <2>1. CASE ReleaseWork(t)
    BY <1>7, <2>1 DEF ReleaseWork, history, InFlight
  <2>2. CASE ~ReleaseWork(t)
    BY <1>7, <2>2
       DEF ThreadStep, TakeTask, RunBody, PostHandler, ReleaseThis, FinishTask,
           ExitThread, parentVars, history, InFlight
  <2> QED BY <2>1, <2>2
<1>8. ASSUME NEW c \in Conns, CreateConnection(c) \/ DestroyConnection(c)
      PROVE  work_pin' \subseteq InFlight'
  BY <1>8 DEF CreateConnection, DestroyConnection, parentVars, history, InFlight
<1>9. CASE \/ EnterRun \/ HandlerReturns \/ ShutdownServices \/ CallHandler \/ StopPool
           \/ JoinThreads \/ JoinTerminates \/ FreeParent \/ StartTerminates \/ Terminated
  BY <1>9
     DEF EnterRun, HandlerReturns, LeaveHandler, ShutdownServices, CallHandler,
         StopPool, JoinThreads, JoinTerminates, FreeParent, StartTerminates,
         Terminated, vars
<1> QED BY <1>1, <1>2, <1>3, <1>4, <1>5, <1>6, <1>7, <1>8, <1>9
        DEF Next, ClientLibraryStep

\* While a statement is in a thread's frame its task keeps its pin.
LEMMA ThreadOwnersStep ==
    ASSUME ConnIInv, IInv, ThreadOwners, [ConnNext]_allVars
    PROVE  ThreadOwners'
<1> USE DEF ThreadOwners, ConnIInv, connVars, dbVars, opVars, callVars
<1>a. /\ TypeOK /\ Threads \subseteq Actors
      /\ \A t \in Threads : t # Client
      /\ \A t \in Busy : job[t] \in Range(started)
      /\ \A t, u \in Busy : job[t] = job[u] => t = u
  BY ConnAssumption DEF IInv, PlacesApart, Actors
<1>1. ASSUME NEW a \in Actors, DriverStep(a) PROVE ThreadOwners'
  <2>1. /\ UNCHANGED <<vars, kind, prog>> /\ at[a] # "none"
        /\ \A b \in Actors : b # a => at'[b] = at[b]
    BY <1>1, AccessMoves
  <2>2. UNCHANGED <<pc, job, work_pin, this_pin, InFlight, Busy>>
    BY <2>1 DEF vars, ownerVars, threadVars, parentVars, history, InFlight, Busy
  <2>3. CASE CompileStep(a)
    <3>1. /\ at[a] = "compile" /\ at'[a] \in {"step", "done"}
          /\ \A b \in Actors : b # a => got'[b] = got[b]
      BY <2>3 DEF CompileStep, AfterCompile, Finish, Goto, ConnTypeOK
    <3>2. a \in Threads => /\ a \in Busy /\ job[a] \in work_pin \cap this_pin
                           /\ kind[job[a]] = "prepare"
      <4> SUFFICES ASSUME a \in Threads
                   PROVE  /\ a \in Busy /\ job[a] \in work_pin \cap this_pin
                          /\ kind[job[a]] = "prepare"
        OBVIOUS
      <4>1. a \in Carrying /\ prog[a] = kind[job[a]]
        BY <3>1 DEF Working, Carrying
      <4>2. job[a] \in InFlight /\ job[a] \in work_pin \cap this_pin
        BY <4>1, InFlightFacts DEF IInv, PinsHeld, Carried
      <4>3. kind[job[a]] = "prepare"
        BY <3>1, <4>1, <4>2 DEF Working, AtOfProg, AsyncKinds
      <4> QED BY <4>1, <4>2, <4>3 DEF Carrying, Busy
    <3> QED BY <1>a, <2>1, <2>2, <3>1, <3>2
  <2>4. CASE ~CompileStep(a)
    <3>1. UNCHANGED got /\ (at'[a] \in {"check", "compile"} => at[a] = "check")
      BY <1>1, <2>4
         DEF DriverStep, CloseStep, ClearStep, OpenStep, CheckStep, StepStep,
             AfterClose, Finish, Goto, ConnTypeOK
    <3> QED BY <1>a, <2>1, <2>2, <3>1
  <2> QED BY <2>3, <2>4
<1>2. ASSUME NEW t \in Threads, ConnTakeTask(t) PROVE ThreadOwners'
  <2>1. /\ pc[t] = "idle" /\ pc' = [pc EXCEPT ![t] = "body"]
        /\ job' = [job EXCEPT ![t] = Head(my_ios)]
        /\ UNCHANGED <<work_pin, this_pin, kind, got, InFlight>>
        /\ \A b \in Actors : b # t => at'[b] = at[b]
    BY <1>2 DEF ConnTakeTask, TakeTask, Pop, ownerVars, parentVars, history, InFlight, Begin,
                Goto, ConnTypeOK
  <2>2. got[t] = Null
    BY <2>1 DEF Busy
  <2>3. \A u \in Threads : u # t => (u \in Busy => u \in Busy') /\ job'[u] = job[u]
    BY <1>a, <2>1 DEF Busy, TypeOK
  <2> QED BY <1>a, <2>1, <2>2, <2>3
<1>3. ASSUME NEW t \in Threads, ConnRunBody(t) \/ ConnPostHandler(t) PROVE ThreadOwners'
  <2>1. /\ UNCHANGED <<job, work_pin, this_pin, kind, got, InFlight>>
        /\ \A b \in Actors : at'[b] \in {at[b], "none"}
    BY <1>3 DEF ConnRunBody, RunBody, BodyOver, End, Goto, ConnPostHandler,
                PostHandler, ownerVars, parentVars, history, InFlight, ConnTypeOK
  <2>2. Busy' = Busy
    BY <1>a, <1>3 DEF ConnRunBody, RunBody, ConnPostHandler, PostHandler, Busy, TypeOK
  <2> QED BY <1>a, <2>1, <2>2
<1>4. ASSUME NEW t \in Threads, DropLocal(t) PROVE ThreadOwners'
  <2>1. /\ UNCHANGED <<job, work_pin, this_pin, kind, at, InFlight, Busy>>
        /\ \A u \in Threads : got'[u] \in {got[u], Null}
    BY <1>a, <1>4 DEF DropLocal, vars, ownerVars, threadVars, parentVars, history, InFlight,
                Busy, ConnTypeOK
  <2> QED BY <2>1
<1>5. ASSUME NEW t \in Threads, ConnReleaseWork(t) PROVE ThreadOwners'
  <2>1. /\ UNCHANGED <<job, this_pin, kind, at, got, InFlight, Busy>>
        /\ work_pin' = work_pin \ {job[t]} /\ got[t] = Null /\ t \in Busy
    BY <1>5 DEF ConnReleaseWork, BlockLeft, ReleaseWork, Dying, ownerVars, threadVars, history,
                InFlight, Busy
  <2> QED BY <1>a, <2>1
<1>6. ASSUME NEW t \in Threads,
             ConnReleaseThis(t) \/ ConnFinishTask(t) \/ ConnExitThread(t)
      PROVE  ThreadOwners'
  <2>1. /\ UNCHANGED <<kind, at, got, InFlight, work_pin>> /\ got[t] = Null
        /\ this_pin' = this_pin \/ (t \in Busy /\ this_pin' = this_pin \ {job[t]})
    BY <1>6
       DEF ConnReleaseThis, BlockLeft, ReleaseThis, Dying, DropOwner, ownerVars,
           ConnFinishTask, FinishTask,
           ConnExitThread, ExitThread, parentVars, history, InFlight, Busy
  <2>2. \A u \in Threads : u # t => (u \in Busy => u \in Busy') /\ job'[u] = job[u]
    BY <1>a, <1>6
       DEF ConnReleaseThis, ReleaseThis, ConnFinishTask, FinishTask, Leave,
           ConnExitThread, ExitThread, threadVars, Busy, TypeOK
  <2> QED BY <1>a, <2>1, <2>2
<1>7. ASSUME NEW op \in Ops, NEW k \in AsyncKinds, NEW s \in Stmts \cup {Null},
             ConnStart(op, k, s)
      PROVE  ThreadOwners'
  <2>1. /\ op \notin Range(started) /\ kind' = [kind EXCEPT ![op] = k]
        /\ work_pin' = work_pin \cup {op} /\ this_pin' = this_pin \cup {op}
        /\ UNCHANGED <<job, at, got>>
    BY <1>7 DEF ConnStart, Start, MakeWork, SharedFromThis
  <2>2. InFlight' = InFlight \cup {op}
    BY <1>7, StartInFlight DEF ConnStart
  <2>3. Busy \subseteq Busy'
    BY <1>7 DEF ConnStart, Start, EnsureThreadsStarted, NoThreadBorn, Busy
  <2> QED BY <1>a, <2>1, <2>2, <2>3 DEF ConnTypeOK
<1>8. CASE ConnStartFails
  <2>1. UNCHANGED <<job, kind, at, got, InFlight, work_pin, this_pin>>
    BY <1>8 DEF ConnStartFails, StartFails, StartTerminates, ownerVars, threadVars, parentVars,
                history, InFlight
  <2>2. Busy = {}
    <3>1. started = <<>>
      BY <1>8 DEF ConnStartFails, StartFails, StartTerminates, IInv, PoolStartedOnce
    <3> QED BY <1>a, <3>1, EmptyQueue
  <2> QED BY <2>1, <2>2
<1>9. CASE \/ (\E k \in SyncKinds : SyncCall(k)) \/ SyncReturn
           \/ \E s \in Stmts : DropStatement(s)
  <2>1. UNCHANGED <<job, kind, InFlight, work_pin, this_pin, Busy>>
    BY <1>9 DEF SyncCall, SyncReturn, DropStatement, vars, ownerVars, threadVars, parentVars,
                history, InFlight, Busy
  <2>2. \A t \in Threads : at'[t] = at[t]
    BY <1>a, <1>9 DEF SyncCall, SyncReturn, DropStatement, Begin, End, Goto,
                      ConnTypeOK
  <2>3. \A t \in Threads : got'[t] = got[t]
    BY <1>a, <1>9 DEF SyncCall, SyncReturn, DropStatement, ConnTypeOK
  <2> QED BY <2>1, <2>2, <2>3
<1>10. CASE ConnCallHandler
  <2>1. InFlight' = InFlight \ {Head(parent_ios)}
    BY <1>10, CallInFlight DEF ConnCallHandler
  <2>2. /\ UNCHANGED <<job, at, got, work_pin, this_pin, Busy>>
        /\ kind' = [kind EXCEPT ![Head(parent_ios)] = "none"]
    BY <1>10 DEF ConnCallHandler, CallHandler, ownerVars, threadVars, Busy
  <2>3. \A op \in InFlight' : kind'[op] = kind[op]
    BY <2>1, <2>2, InFlightFacts DEF ConnTypeOK
  <2> QED BY <2>1, <2>2, <2>3
<1>11. CASE ConnJoinThreads
  <2>1. /\ UNCHANGED <<job, kind, at, got, InFlight, Busy>>
        /\ work_pin' = work_pin \/ work_pin' = work_pin \ Range(my_ios)
        /\ this_pin' = this_pin \/ this_pin' = this_pin \ Range(my_ios)
    BY <1>11 DEF ConnJoinThreads, JoinThreads, DropOwner, JoinTerminates, ownerVars, threadVars,
                 parentVars, history, InFlight, Busy
  <2>2. \A t \in Busy : job[t] \notin Range(my_ios)
    BY DEF IInv, PlacesApart
  <2> QED BY <2>1, <2>2
<1>12. CASE \/ ConnCreateConnection \/ ConnEnterRun \/ ConnLeaveHandler
            \/ ConnReturnFromRun \/ ConnDestroyConnection \/ ConnShutdownServices
            \/ ConnStopPool \/ ConnFreeParent \/ ConnTerminated \/ UNCHANGED allVars
  <2>1. UNCHANGED <<job, kind, at, got, InFlight, work_pin, this_pin, Busy>>
    BY <1>12
       DEF ConnCreateConnection, CreateConnection, ConnEnterRun, EnterRun,
           ConnLeaveHandler, HandlerReturns, HandlerThrows, LeaveHandler,
           ConnReturnFromRun, ReturnFromRun, ConnDestroyConnection,
           DestroyConnection, DropOwner, ConnShutdownServices, ShutdownServices,
           ConnStopPool, StopPool, ConnFreeParent, FreeParent, ConnTerminated,
           allVars, vars, ownerVars, threadVars, parentVars, history, InFlight, Busy
  <2> QED BY <2>1
<1>13. ASSUME NEW t \in Threads, ConnThreadStep(t) PROVE ThreadOwners'
  BY <1>a, <1>1, <1>2, <1>3, <1>4, <1>5, <1>6, <1>13 DEF ConnThreadStep
<1>14. CASE ConnClientStep
  <2>1. Client \in Actors
    BY DEF Actors
  <2> QED BY <1>1, <1>7, <1>8, <1>9, <1>10, <1>11, <1>12, <1>14, <2>1 DEF ConnClientStep
<1> HIDE DEF ThreadOwners
<1> QED BY <1>12, <1>13, <1>14 DEF ConnNext

\* Giving up statements leaves no owner of X behind, and finalizes a statement
\* with its last owner.
LEMMA DropKeepsOwners ==
    ASSUME NEW S, NEW X, DropStatements(S, X), StatementOwners
    PROVE  \A s \in Stmts :
            /\ holders'[s] \subseteq holders[s]
            /\ s \in S => holders'[s] \cap X = {}
            /\ stmtOf'[s] # Null => holders'[s] # {}
  BY DEF DropStatements, StatementOwners

\* A statement passes from the thread that prepared it to the handler and on to
\* the client, and is finalized when the last of them drops it.
LEMMA StatementOwnersStep ==
    ASSUME ConnIInv, IInv, ThreadOwners, StatementOwners, [ConnNext]_allVars
    PROVE  StatementOwners'
<1> USE DEF ConnIInv, StatementOwners, connVars, dbVars, opVars, callVars, stmtVars
<1>a. /\ TypeOK /\ ConnTypeOK /\ Null \notin Stmts
      /\ Client \notin Threads /\ Client \notin Ops /\ Threads \cap Ops = {}
      /\ Range(parent_ios) \subseteq Range(started)
  BY ConnAssumption DEF IInv, QueuesDistinct, Answered
<1>1. ASSUME NEW a \in Actors, DriverStep(a) PROVE StatementOwners'
  <2>1. UNCHANGED <<kind, parent_ios>>
    BY <1>1, AccessMoves DEF vars, parentVars
  <2>2. CASE UNCHANGED <<stmtVars, got>>
    BY <2>1, <2>2
  <2>3. ASSUME NEW s \in Stmts, at[a] = "compile", db # Null,
               stmtOf' = [stmtOf EXCEPT ![s] = db],
               ShareStatement(s, {a}), got' = [got EXCEPT ![a] = s]
        PROVE  StatementOwners'
    <3>1. a \in Threads => \A r \in Stmts : a \notin holders[r]
      BY <1>a, <2>3 DEF ThreadOwners
    <3>2. \A r \in Stmts : /\ holders'[r] = IF r = s THEN holders[r] \cup {a} ELSE holders[r]
                           /\ r # s => stmtOf'[r] = stmtOf[r]
      BY <2>3 DEF ShareStatement, ConnTypeOK
    <3>3. a \notin Ops
      BY <1>a DEF Actors
    <3>4. \A t \in Threads : t # a => got'[t] = got[t]
      BY <2>3 DEF ConnTypeOK, Actors
    <3>5. got'[a] = s
      BY <2>3 DEF ConnTypeOK
    <3>6. ASSUME NEW r \in Stmts
          PROVE  /\ \A t \in Threads : t \in holders'[r] => got'[t] = r
                 /\ \A op \in Ops : op \in holders'[r] => op \in holders[r]
                 /\ stmtOf'[r] # Null => holders'[r] # {}
      <4>1. CASE r = s
        <5>1. holders'[r] = holders[r] \cup {a}
          BY <3>2, <4>1
        <5>2. \A t \in Threads : t \in holders[r] => got'[t] = r
          BY <3>1, <3>4
        <5> QED BY <3>3, <3>5, <4>1, <5>1, <5>2
      <4>2. CASE r # s
        BY <3>1, <3>2, <3>4, <4>2
      <4> QED BY <4>1, <4>2
    <3> QED BY <2>1, <3>6
  <2> QED BY <1>1, <2>2, <2>3
          DEF DriverStep, CloseStep, ClearStep, OpenStep, CheckStep, CompileStep, StepStep
<1>2. ASSUME NEW t \in Threads, ConnPostHandler(t) PROVE StatementOwners'
  <2>1. /\ pc[t] = "post" /\ Post(job[t])
        /\ UNCHANGED <<stmtOf, got, kind>>
    BY <1>2 DEF ConnPostHandler, PostHandler
  <2>2. t \in Carrying /\ job[t] \in Ops /\ job[t] \in InFlight
    BY <2>1, InFlightFacts DEF Carrying
  <2>3. Range(parent_ios') = Range(parent_ios) \cup {job[t]}
    BY <1>a, <2>1, <2>2, PostToQueue DEF Post, TypeOK
  <2>4. CASE got[t] = Null
    BY <1>2, <2>1, <2>3, <2>4 DEF ConnPostHandler
  <2>5. CASE got[t] # Null
    <3>1. kind[job[t]] = "prepare"
      BY <2>2, <2>5 DEF ThreadOwners
    <3>2. \A r \in Stmts : holders'[r] = IF r = got[t] THEN holders[r] \cup {job[t]}
                                                      ELSE holders[r]
      BY <1>2, <2>5 DEF ConnPostHandler, ShareStatement, ConnTypeOK
    <3>3. job[t] \notin Threads
      BY <1>a, <2>2
    <3>4. ASSUME NEW r \in Stmts
          PROVE  /\ \A u \in Threads : u \in holders'[r] => u \in holders[r]
                 /\ \A op \in Ops : op \in holders'[r] => op \in holders[r] \/ op = job[t]
                 /\ stmtOf'[r] # Null => holders'[r] # {}
      <4>1. holders[r] \subseteq holders'[r] /\ holders'[r] \subseteq holders[r] \cup {job[t]}
        BY <3>2
      <4>2. stmtOf[r] # Null => holders[r] # {}
        OBVIOUS
      <4> QED BY <2>1, <3>3, <4>1, <4>2
    <3> QED BY <2>1, <2>3, <3>1, <3>4
  <2> QED BY <2>4, <2>5
<1>3. ASSUME NEW t \in Threads, DropLocal(t) PROVE StatementOwners'
  <2>1. /\ DropStatements({got[t]}, {t}) /\ got' = [got EXCEPT ![t] = Null]
        /\ UNCHANGED <<kind, parent_ios>>
    BY <1>3 DEF DropLocal, vars, parentVars
  <2>2. \A u \in Threads : u # t => got'[u] = got[u]
    BY <2>1 DEF ConnTypeOK, Actors
  <2>3. \A s \in Stmts : t \notin holders'[s]
    BY <2>1, DropKeepsOwners
  <2> QED BY <2>1, <2>2, <2>3, DropKeepsOwners
<1>4. ASSUME NEW op \in Ops, NEW k \in AsyncKinds, NEW s \in Stmts \cup {Null},
             ConnStart(op, k, s)
      PROVE  StatementOwners'
  <2>1. /\ op \notin Range(parent_ios) /\ kind' = [kind EXCEPT ![op] = k]
        /\ UNCHANGED <<stmtOf, holders, got, parent_ios>>
    BY <1>a, <1>4 DEF ConnStart, Start
  <2> QED BY <2>1 DEF ConnTypeOK
<1>5. CASE SyncReturn
  <2>1. /\ UNCHANGED <<kind, parent_ios>> /\ \A t \in Threads : got'[t] = got[t]
    BY <1>a, <1>5 DEF SyncReturn, vars, parentVars, ConnTypeOK, Actors
  <2>2. UNCHANGED stmtVars \/ DropStatements({got[Client]}, {Client})
    BY <1>5 DEF SyncReturn
  <2>3. CASE UNCHANGED stmtVars
    BY <2>1, <2>3
  <2>4. CASE DropStatements({got[Client]}, {Client})
    BY <2>1, <2>4, DropKeepsOwners
  <2> QED BY <2>2, <2>3, <2>4
<1>6. ASSUME NEW s \in Stmts, DropStatement(s) PROVE StatementOwners'
  <2>1. /\ DropStatements({s}, {Client}) /\ UNCHANGED <<kind, parent_ios, got>>
    BY <1>6 DEF DropStatement, vars, parentVars
  <2> QED BY <2>1, DropKeepsOwners
<1>7. CASE ConnCallHandler
  <2> DEFINE op == Head(parent_ios)
  <2>1. /\ kind' = [kind EXCEPT ![op] = "none"] /\ UNCHANGED <<stmtOf, got>>
        /\ \A s \in Stmts : holders'[s] = IF op \in holders[s]
                                          THEN (holders[s] \ {op}) \cup {Client}
                                          ELSE holders[s]
    BY <1>7 DEF ConnCallHandler
  <2>2. /\ op \in Ops /\ \A o \in Range(parent_ios) \ {op} : o \in Range(parent_ios')
    <3>1. parent_ios # <<>> /\ parent_ios' = Tail(parent_ios)
      BY <1>7 DEF ConnCallHandler, CallHandler
    <3> QED BY <1>a, <3>1, TakeFromQueue DEF TypeOK, IInv, QueuesDistinct
  <2> HIDE DEF op
  <2>3. \A o \in Ops \ {op} : kind'[o] = kind[o]
    BY <2>1 DEF ConnTypeOK
  <2>4. ASSUME NEW s \in Stmts
        PROVE  /\ \A t \in Threads : t \in holders'[s] => t \in holders[s]
               /\ \A o \in Ops : o \in holders'[s] => o # op /\ o \in holders[s]
               /\ stmtOf'[s] # Null => holders'[s] # {}
    <3>1. CASE op \in holders[s]
      <4>1. holders'[s] = (holders[s] \ {op}) \cup {Client}
        BY <2>1, <3>1
      <4> QED BY <1>a, <4>1
    <3>2. CASE op \notin holders[s]
      <4>1. holders'[s] = holders[s]
        BY <2>1, <3>2
      <4>2. stmtOf[s] # Null => holders[s] # {}
        OBVIOUS
      <4> QED BY <2>1, <3>2, <4>1, <4>2
    <3> QED BY <3>1, <3>2
  <2> QED BY <2>1, <2>2, <2>3, <2>4
<1>8. CASE ConnShutdownServices \/ ConnFreeParent
  <2>1. /\ DropStatements(Stmts, Range(parent_ios)) /\ UNCHANGED <<kind, got>>
    BY <1>8 DEF ConnShutdownServices, ConnFreeParent
  <2>2. \A s \in Stmts, op \in Ops : op \notin holders'[s]
    BY <2>1, DropKeepsOwners
  <2> QED BY <2>1, <2>2, DropKeepsOwners
<1>9. ASSUME UNCHANGED <<stmtVars, got, kind, parent_ios>> PROVE StatementOwners'
  BY <1>9
<1>10. ASSUME NEW t \in Threads, ConnThreadStep(t) PROVE StatementOwners'
  <2>1. CASE \/ ConnTakeTask(t) \/ ConnRunBody(t) \/ ConnReleaseWork(t)
             \/ ConnReleaseThis(t) \/ ConnFinishTask(t) \/ ConnExitThread(t)
    <3>1. UNCHANGED <<stmtVars, got, kind, parent_ios>>
      BY <2>1
         DEF ConnTakeTask, TakeTask, ConnRunBody, RunBody, ConnReleaseWork,
             ReleaseWork, ConnReleaseThis, ReleaseThis, ConnFinishTask,
             FinishTask, ConnExitThread, ExitThread, parentVars
    <3> QED BY <1>9, <3>1
  <2> QED BY <1>1, <1>2, <1>3, <1>10, <2>1 DEF ConnThreadStep, Actors
<1>11. CASE \/ ConnCreateConnection \/ ConnStartFails \/ (\E k \in SyncKinds : SyncCall(k))
            \/ ConnEnterRun \/ ConnLeaveHandler \/ ConnReturnFromRun
            \/ ConnDestroyConnection \/ ConnStopPool \/ ConnJoinThreads
            \/ ConnTerminated \/ UNCHANGED allVars
  <2>1. UNCHANGED <<stmtVars, got, kind, parent_ios>>
    BY <1>11
       DEF ConnCreateConnection, CreateConnection, ConnStartFails, StartFails,
           StartTerminates, SyncCall, ConnEnterRun, EnterRun, ConnLeaveHandler,
           HandlerReturns, HandlerThrows, LeaveHandler, ConnReturnFromRun,
           ReturnFromRun, ConnDestroyConnection, DestroyConnection, ConnStopPool,
           StopPool, ConnJoinThreads, JoinThreads, JoinTerminates,
           ConnTerminated, allVars, vars, parentVars
  <2> QED BY <1>9, <2>1
<1>12. CASE ConnClientStep
  <2>1. Client \in Actors
    BY DEF Actors
  <2> QED BY <1>1, <1>4, <1>5, <1>6, <1>7, <1>8, <1>11, <1>12, <2>1 DEF ConnClientStep
<1> HIDE DEF StatementOwners
<1> QED BY <1>10, <1>11, <1>12 DEF ConnNext

\* In every reachable state what the client knows and owns, and what it is
\* about to know and to own, agree with the connection.
THEOREM ClientIInvHolds == ConnSpec => [](ClientIInv /\ ConnIInv /\ IInv)
<1>1. ConnInit => ClientIInv
  BY DEF ConnInit, Init, ClientIInv, Reports, Untouched, ThreadOwners,
         StatementOwners, StoppedIdle, Actors
<1>2. ClientIInv /\ (ConnIInv /\ IInv) /\ [ConnNext]_allVars => ClientIInv'
  BY ReportsStep, UntouchedStep, ThreadOwnersStep, StatementOwnersStep,
     StoppedIdleStep DEF ClientIInv
<1> QED BY <1>1, <1>2, ConnIInvHolds, PTL DEF ConnSpec

\* No statement of the client is lost to the pool: when run() has ended by
\* itself with nothing in flight, no thread and no handler has a share of one.
LEMMA NobodyElseOwns ==
    ASSUME ClientIInv, ConnIInv, IInv, client = "user", parent_stopped,
           \A op \in InFlight : kind[op] # "prepare"
    PROVE  \A s \in Stmts : holders[s] \subseteq {Client}
<1> SUFFICES ASSUME NEW s \in Stmts, NEW x \in holders[s] PROVE x = Client
  OBVIOUS
<1> USE DEF ClientIInv, ConnIInv
<1>1. x \in Threads \cup {Client} \cup Ops
  BY DEF ConnTypeOK, Actors
<1>2. x \notin Threads
  <2> SUFFICES ASSUME x \in Threads PROVE FALSE
    OBVIOUS
  <2>1. got[x] = s /\ s # Null
    BY ConnAssumption DEF StatementOwners
  <2>2. job[x] \in work_pin /\ work_pin \subseteq InFlight
    BY <2>1 DEF ThreadOwners, StoppedIdle
  <2> QED BY <2>1, <2>2 DEF ThreadOwners
<1>3. x \notin Ops
  <2> SUFFICES ASSUME x \in Ops PROVE FALSE
    OBVIOUS
  <2>1. x \in Range(parent_ios) /\ kind[x] = "prepare"
    BY DEF StatementOwners
  <2>2. x \in InFlight
    BY <2>1 DEF IInv, QueuesDistinct, PlacesApart, Answered, InFlight
  <2> QED BY <2>1, <2>2
<1> QED BY <1>1, <1>2, <1>3

\* Between runs that ended by themselves the client is the only owner of its
\* statements, so it decides when they are finalized.
THEOREM ClientOwns == ConnSpec => []ClientOwnsAll
<1>1. ClientIInv /\ ConnIInv /\ IInv => ClientOwnsAll
  BY NobodyElseOwns DEF ClientOwnsAll
<1> QED BY <1>1, ClientIInvHolds, PTL

\* A close made between such runs by a client without statements closes the
\* database: no step leaks a handle meanwhile.
THEOREM CloseReleases == ConnSpec => CloseOutsideRunReleases
<1> DEFINE AboutToClose == /\ client = "user" /\ parent_stopped
                           /\ \A s \in Stmts : Client \notin holders[s]
                           /\ at[Client] = "close"
<1>1. ASSUME ClientIInv, ConnIInv, IInv, [ConnNext]_allVars, AboutToClose
      PROVE  leaked' = leaked
  <2> USE DEF ConnIInv
  <2>1. \A op \in InFlight : kind[op] = "execute"
    BY <1>1 DEF AtOfProg, NoOverlap, Actors
  <2>2. \A s \in Stmts : stmtOf[s] = Null
    <3>1. \A s \in Stmts : holders[s] = {}
      BY <1>1, <2>1, NobodyElseOwns
    <3> QED BY <1>1, <3>1 DEF ClientIInv, StatementOwners
  <2>3. db # Null /\ CloseHandle(db) => leaked' = leaked
    BY <2>2 DEF CloseHandle, SqliteClose
  <2>4. ASSUME NEW a \in Actors, DriverStep(a) PROVE leaked' = leaked
    BY <2>3, <2>4
       DEF DriverStep, CloseStep, NothingToClose, ClearStep, OpenStep, CheckStep,
           CompileStep, StepStep, dbVars
  <2>5. IfDriverDies => leaked' = leaked
    BY <2>3 DEF IfDriverDies, DestroyDriver, dbVars
  <2> QED BY <1>1, <2>4, <2>5, StepCases DEF dbVars
<1>2. (ClientIInv /\ ConnIInv /\ IInv) /\ [ConnNext]_allVars
      => [AboutToClose => leaked' = leaked]_allVars
  BY <1>1
<1> QED BY <1>2, ClientIInvHolds, PTL DEF ConnSpec, CloseOutsideRunReleases

\* The driver dies with the last share of it, so no thread is in a task of it
\* then, nor has it a statement in its frame.
LEMMA LastOwnerAlone ==
    ASSUME ClientIInv, ConnIInv, IInv, [ConnNext]_allVars, driver # {}, driver' = {}
    PROVE  /\ IfDriverDies \/ UNCHANGED dbVars
           /\ \A t \in Threads : got[t] = Null
<1>1. IInv'
  BY ConnStepIsServiceStep, IInvStep
<1>2. ThreadOwners'
  BY ThreadOwnersStep DEF ClientIInv
<1>3. \A t \in Threads : got'[t] = Null
  BY <1>1, <1>2 DEF IInv, PinsHeld, ThreadOwners
<1>4. vars' # vars
  BY DEF vars, ownerVars
<1>5. UNCHANGED got
  <2> USE DEF connVars, callVars
  <2>1. ASSUME NEW t \in Threads, ConnThreadStep(t) PROVE UNCHANGED got
    BY <1>4, <2>1
       DEF ConnThreadStep, ConnTakeTask, DriverStep, CloseStep, ClearStep, OpenStep,
           CheckStep, CompileStep, StepStep, ConnRunBody, ConnPostHandler, DropLocal,
           ConnReleaseWork, ConnReleaseThis, ConnFinishTask, ConnExitThread
  <2>2. ASSUME ConnClientStep PROVE UNCHANGED got
    BY <1>4, <2>2
       DEF ConnClientStep, ConnCreateConnection, ConnStart, ConnStartFails, SyncCall,
           DriverStep, CloseStep, ClearStep, OpenStep, CheckStep, CompileStep, StepStep,
           SyncReturn, DropStatement, ConnEnterRun, ConnCallHandler, ConnLeaveHandler,
           ConnReturnFromRun, ConnDestroyConnection, ConnShutdownServices,
           ConnStopPool, ConnJoinThreads, ConnFreeParent
  <2> QED BY <1>4, <2>1, <2>2 DEF ConnNext, ConnTerminated, allVars
<1>6. ASSUME NEW a \in Actors PROVE ~DriverStep(a)
  BY <1>4 DEF DriverStep, CloseStep, ClearStep, OpenStep, CheckStep, CompileStep, StepStep
<1>7. IfDriverDies \/ UNCHANGED dbVars
  BY <1>6, StepCases DEF ConnIInv, dbVars
<1> QED BY <1>3, <1>5, <1>7

\* ~sqlite loses no handle, whichever owner was the driver's last, while
\* statements are owned by nobody but threads: by then these own none.
THEOREM DestructionCloses == ConnSpec => DestructionReleases
<1> DEFINE Dies == /\ driver # {} /\ driver' = {}
                   /\ \A s \in Stmts : holders[s] \cap ({Client} \cup Ops) = {}
<1>1. ASSUME ClientIInv, ConnIInv, IInv, [ConnNext]_allVars, Dies
      PROVE  leaked' = leaked
  <2> USE DEF ConnIInv
  <2>1. /\ IfDriverDies \/ UNCHANGED dbVars
        /\ \A t \in Threads : got[t] = Null
    BY <1>1, LastOwnerAlone
  <2>2. \A s \in Stmts : holders[s] = {}
    BY <1>1, <2>1, ConnAssumption DEF ClientIInv, StatementOwners, ConnTypeOK, Actors
  <2>3. \A s \in Stmts : stmtOf[s] = Null
    BY <1>1, <2>2 DEF ClientIInv, StatementOwners
  <2>4. db # Null /\ CloseHandle(db) => leaked' = leaked
    BY <2>3 DEF CloseHandle, SqliteClose
  <2> QED BY <2>1, <2>4 DEF IfDriverDies, DestroyDriver, dbVars
<1>2. (ClientIInv /\ ConnIInv /\ IInv) /\ [ConnNext]_allVars
      => [Dies => leaked' = leaked]_allVars
  BY <1>1
<1> QED BY <1>2, ClientIInvHolds, PTL DEF ConnSpec, DestructionReleases

-----------------------------------------------------------------------------
(* The calls are atomic.  First: which steps the client could notice.      *)

\* A step that makes no call, moves nobody within one and carries no result.
Invisible ==
    /\ UNCHANGED <<kind, outcome, prog, at, err, seen, InFlight>>
    /\ Carrying' = Carrying
    /\ \A t \in Carrying : pc'[t] = pc[t] /\ job'[t] = job[t]
    /\ Range(my_ios') \subseteq Range(my_ios)
    /\ Range(parent_ios') \subseteq Range(parent_ios)

\* Outside the calls, their tasks and their handlers, every step is invisible.
LEMMA VisibleSteps ==
    ASSUME IInv, [ConnNext]_allVars
    PROVE  \/ \E a \in Actors : DriverStep(a)
           \/ \E t \in Threads : ConnTakeTask(t) \/ ConnRunBody(t) \/ ConnPostHandler(t)
           \/ \E op \in Ops, k \in AsyncKinds, s \in Stmts \cup {Null} :
                    ConnStart(op, k, s)
           \/ \E k \in SyncKinds : SyncCall(k)
           \/ SyncReturn
           \/ ConnCallHandler
           \/ Invisible
<1> USE DEF Invisible, InFlight, Carrying, connVars, opVars, callVars, ownerVars,
            threadVars, queueVars, parentVars, history
<1>0. TypeOK /\ Range(<<>>) = {}
  BY EmptyQueue DEF IInv
<1>1. ASSUME NEW t \in Threads,
             \/ DropLocal(t) \/ ConnReleaseWork(t) \/ ConnReleaseThis(t)
             \/ ConnFinishTask(t) \/ ConnExitThread(t)
      PROVE  Invisible
  <2>1. UNCHANGED <<kind, outcome, prog, at, err, seen, started, called, my_ios, parent_ios>>
    BY <1>1
       DEF DropLocal, ConnReleaseWork, ReleaseWork, ConnReleaseThis, ReleaseThis,
           ConnFinishTask, FinishTask, ConnExitThread, ExitThread, vars
  <2>2. \A u \in Threads : pc[u] \in {"body", "post"} \/ pc'[u] \in {"body", "post"} =>
            pc'[u] = pc[u] /\ job'[u] = job[u]
    BY <1>0, <1>1
       DEF DropLocal, ConnReleaseWork, ReleaseWork, ConnReleaseThis, ReleaseThis,
           ConnFinishTask, FinishTask, ConnExitThread, ExitThread, Leave, vars, TypeOK
  <2> QED BY <2>1, <2>2
<1>2. CASE ConnCreateConnection \/ ConnDestroyConnection \/ \E s \in Stmts : DropStatement(s)
  BY <1>2 DEF ConnCreateConnection, CreateConnection, ConnDestroyConnection,
              DestroyConnection, DropStatement, vars
<1>3. CASE ConnStartFails
  <2>1. UNCHANGED <<kind, outcome, prog, at, err, seen, started, called, my_ios, parent_ios, job>>
    BY <1>3 DEF ConnStartFails, StartFails, StartTerminates
  <2>2. \A u \in Threads : pc[u] \in {"body", "post"} \/ pc'[u] \in {"body", "post"} =>
            pc'[u] = pc[u]
    BY <1>3, <1>0 DEF ConnStartFails, StartFails, StartTerminates, NoThreadBorn
  <2> QED BY <2>1, <2>2
<1>4. CASE ConnEnterRun \/ ConnLeaveHandler \/ ConnReturnFromRun \/ ConnStopPool
  BY <1>4 DEF ConnEnterRun, EnterRun, ConnLeaveHandler, HandlerReturns, HandlerThrows,
              LeaveHandler, ConnReturnFromRun, ReturnFromRun, ConnStopPool, StopPool
<1>5. CASE ConnShutdownServices \/ ConnJoinThreads \/ ConnFreeParent
  BY <1>0, <1>5 DEF ConnShutdownServices, ShutdownServices, ConnJoinThreads,
              JoinThreads, JoinTerminates, ConnFreeParent, FreeParent
<1>6. CASE ConnTerminated \/ UNCHANGED allVars
  BY <1>6 DEF ConnTerminated, allVars, vars
<1> HIDE DEF Invisible
<1> QED BY <1>1, <1>2, <1>3, <1>4, <1>5, <1>6
        DEF ConnNext, ConnThreadStep, ConnClientStep, Actors

\* An access changes the error_code of its actor only, and only when it is the
\* last of the call; results on their way stay where they are.
LEMMA AccessFrame ==
    ASSUME ConnTypeOK, NEW a \in Actors, DriverStep(a)
    PROVE  /\ UNCHANGED <<vars, kind, prog, outcome, seen, InFlight>>
           /\ \A b \in Actors : b # a => at'[b] = at[b] /\ err'[b] = err[b]
           /\ at'[a] # "done" => err'[a] = err[a]
           /\ at[a] \notin {"none", "done"}
<1> USE DEF ConnTypeOK, Finish, Goto, opVars
<1>1. UNCHANGED <<vars, kind, prog, outcome, seen>>
  BY DEF DriverStep, CloseStep, ClearStep, OpenStep, CheckStep, CompileStep, StepStep
<1>2. UNCHANGED InFlight
  BY <1>1 DEF InFlight, vars, history
<1>3. /\ \A b \in Actors : b # a => at'[b] = at[b] /\ err'[b] = err[b]
      /\ at'[a] # "done" => err'[a] = err[a]
      /\ at[a] \notin {"none", "done"}
  <2>1. CASE CloseStep(a)
    BY <2>1 DEF CloseStep, AfterClose
  <2>2. CASE ClearStep(a)
    BY <2>2 DEF ClearStep, AfterClose
  <2>3. CASE OpenStep(a)
    BY <2>3 DEF OpenStep
  <2>4. CASE CheckStep(a)
    BY <2>4 DEF CheckStep
  <2>5. CASE CompileStep(a)
    BY <2>5 DEF CompileStep, AfterCompile
  <2>6. CASE StepStep(a)
    BY <2>6 DEF StepStep
  <2> QED BY <2>1, <2>2, <2>3, <2>4, <2>5, <2>6 DEF DriverStep
<1> QED BY <1>1, <1>2, <1>3

\* Where operations and their handlers are.
LEMMA PlacesInFlight ==
    ASSUME IInv
    PROVE  /\ Range(my_ios) \cup Carried \cup Range(parent_ios) \cup InFlight \subseteq Ops
           /\ Range(parent_ios) \cup Carried \subseteq InFlight
           /\ (Range(my_ios) \cup Carried) \cap Range(parent_ios) = {}
           /\ Range(my_ios) \subseteq InFlight
           /\ Range(my_ios) \cap Carried = {}
<1> USE DEF IInv
<1>1. Range(my_ios) \subseteq Ops /\ Range(parent_ios) \subseteq Ops
  BY RangeOfSeq DEF TypeOK
<1>2. InFlight \subseteq Ops /\ Carried \subseteq InFlight
  BY InFlightFacts DEF Carried
<1>3. Range(parent_ios) \subseteq InFlight /\ Range(my_ios) \subseteq InFlight
  BY DEF QueuesDistinct, PlacesApart, Answered, InFlight
<1>4. /\ Range(my_ios) \cap Range(parent_ios) = {}
      /\ Carried \cap Range(parent_ios) = {}
      /\ Range(my_ios) \cap Carried = {}
  BY DEF PlacesApart, Answered, Carried, Carrying, Busy
<1> QED BY <1>1, <1>2, <1>3, <1>4

\* A result is posted once and taken with its handler.
LEMMA ResultSlotsStep ==
    ASSUME ConnIInv, IInv, ResultSlots, [ConnNext]_allVars
    PROVE  ResultSlots'
<1> USE DEF ResultSlots, opVars, callVars, connVars
<1>0. /\ ConnTypeOK /\ Working /\ TypeOK
      /\ Client \in Actors /\ \A t \in Threads : t \in Actors /\ t # Client
  BY ConnAssumption DEF ConnIInv, IInv, Actors
<1>p. /\ Range(my_ios) \cup Carried \cup Range(parent_ios) \cup InFlight \subseteq Ops
      /\ Range(parent_ios) \cup Carried \subseteq InFlight
      /\ (Range(my_ios) \cup Carried) \cap Range(parent_ios) = {}
      /\ Range(my_ios) \subseteq InFlight
      /\ Range(my_ios) \cap Carried = {}
  BY PlacesInFlight
<1>f. ASSUME UNCHANGED <<kind, outcome, InFlight>>,
             Range(my_ios') \cup Carried' \subseteq Range(my_ios) \cup Carried,
             Range(parent_ios') \subseteq Range(parent_ios),
             at'[Client] # "done" => err'[Client] = "ok"
      PROVE  ResultSlots'
  BY <1>f
<1>1. ASSUME NEW a \in Actors, DriverStep(a) PROVE ResultSlots'
  <2>1. /\ UNCHANGED <<kind, outcome, InFlight, my_ios, pc, job, parent_ios>>
        /\ at'[Client] # "done" => err'[Client] = "ok"
    BY <1>0, <1>1, AccessFrame DEF vars, threadVars, queueVars, parentVars
  <2>2. Carried' = Carried
    BY <2>1 DEF Carried, Carrying
  <2> QED BY <1>f, <2>1, <2>2
<1>2. ASSUME NEW t \in Threads, ConnTakeTask(t) PROVE ResultSlots'
  <2>1. /\ UNCHANGED <<kind, outcome, InFlight, parent_ios, err>>
        /\ my_ios # <<>> /\ my_ios' = Tail(my_ios)
        /\ pc[t] = "idle" /\ pc' = [pc EXCEPT ![t] = "body"]
        /\ job' = [job EXCEPT ![t] = Head(my_ios)]
    BY <1>2 DEF ConnTakeTask, TakeTask, Pop, parentVars, history, InFlight
  <2>2. at'[Client] = at[Client]
    BY <1>0, <1>2 DEF ConnTakeTask, Begin, Goto, ConnTypeOK
  <2>3. Range(my_ios) = Range(my_ios') \cup {Head(my_ios)}
    BY <1>0, <2>1, TakeFromQueue DEF TypeOK
  <2>4. Carried' \subseteq Carried \cup {Head(my_ios)}
    BY <1>0, <2>1 DEF Carried, Carrying, TypeOK
  <2> QED BY <1>f, <2>1, <2>2, <2>3, <2>4
<1>3. ASSUME NEW t \in Threads, ConnRunBody(t) PROVE ResultSlots'
  <2>1. /\ UNCHANGED <<kind, outcome, InFlight, my_ios, parent_ios, err, job>>
        /\ pc[t] = "body" /\ pc' = [pc EXCEPT ![t] = "post"]
    BY <1>3 DEF ConnRunBody, RunBody, parentVars, queueVars, history, InFlight
  <2>2. at'[Client] = at[Client]
    BY <1>0, <1>3 DEF ConnRunBody, BodyOver, End, Goto, ConnTypeOK
  <2>3. Carried' \subseteq Carried
    BY <1>0, <2>1 DEF Carried, Carrying, TypeOK
  <2> QED BY <1>f, <2>1, <2>2, <2>3
<1>4. ASSUME NEW t \in Threads, ConnPostHandler(t) PROVE ResultSlots'
  <2>1. /\ pc[t] = "post" /\ pc' = [pc EXCEPT ![t] = "release"]
        /\ outcome' = [outcome EXCEPT ![job[t]] = err[t]]
        /\ err' = [err EXCEPT ![t] = "ok"]
        /\ UNCHANGED <<kind, at, InFlight, job, my_ios>>
    BY <1>4 DEF ConnPostHandler, PostHandler, queueVars, history, InFlight
  <2>2. t \in Carrying /\ job[t] \in Carried /\ job[t] \in InFlight /\ job[t] \in Ops
    BY <1>p, <2>1 DEF Carrying, Carried
  <2>3. Range(parent_ios') = Range(parent_ios) \cup {job[t]}
    BY <1>0, <1>4, <2>2, PostToQueue DEF ConnPostHandler, PostHandler, Post, TypeOK
  <2>4. Carried' \subseteq Carried \ {job[t]}
    BY <1>0, <2>1, <2>2, InFlightFacts DEF Carried, Carrying, TypeOK
  <2>5. /\ outcome'[job[t]] # "none"
        /\ \A op \in Ops \ {job[t]} : outcome'[op] = outcome[op]
        /\ err'[Client] = err[Client]
    BY <1>0, <2>1, <2>2 DEF ConnTypeOK, Errors
  <2> QED BY <1>p, <2>1, <2>2, <2>3, <2>4, <2>5
<1>5. ASSUME NEW op \in Ops, NEW k \in AsyncKinds, NEW s \in Stmts \cup {Null},
             ConnStart(op, k, s)
      PROVE  ResultSlots'
  <2>1. op \notin InFlight /\ InFlight' = InFlight \cup {op}
    BY <1>5, StartInFlight DEF ConnStart
  <2>2. /\ kind' = [kind EXCEPT ![op] = k]
        /\ UNCHANGED <<outcome, at, err, parent_ios, job>>
    BY <1>5 DEF ConnStart, Start
  <2>3. Range(my_ios') = Range(my_ios) \cup {op}
    BY <1>0, <1>5, PostToQueue DEF ConnStart, Start, PushTask, TypeOK
  <2>4. Carried' = Carried
    BY <1>0, <1>5, <2>2
       DEF ConnStart, Start, Carried, Carrying, EnsureThreadsStarted, NoThreadBorn, TypeOK
  <2>5. \A o \in Ops \ {op} : kind'[o] = kind[o]
    BY <1>0, <2>2 DEF ConnTypeOK
  <2> QED BY <2>1, <2>2, <2>3, <2>4, <2>5
<1>6. ASSUME NEW k \in SyncKinds, SyncCall(k) PROVE ResultSlots'
  <2>1. /\ UNCHANGED <<kind, outcome, InFlight, my_ios, pc, job, parent_ios, err>>
        /\ at[Client] = "none"
    BY <1>6 DEF SyncCall, Free, InFlight, vars, history, threadVars, queueVars, parentVars
  <2>2. Carried' = Carried
    BY <2>1 DEF Carried, Carrying
  <2> QED BY <1>f, <2>1, <2>2
<1>7. CASE SyncReturn
  <2>1. /\ UNCHANGED <<kind, outcome, InFlight, my_ios, pc, job, parent_ios>>
        /\ err'[Client] = "ok"
    BY <1>0, <1>7
       DEF SyncReturn, InFlight, vars, history, threadVars, queueVars, parentVars, ConnTypeOK
  <2>2. Carried' = Carried
    BY <2>1 DEF Carried, Carrying
  <2> QED BY <1>f, <2>1, <2>2
<1>8. CASE ConnCallHandler
  <2> DEFINE op == Head(parent_ios)
  <2>1. /\ op \in Ops /\ InFlight' = InFlight \ {op}
        /\ kind' = [kind EXCEPT ![op] = "none"]
        /\ outcome' = [outcome EXCEPT ![op] = "none"]
        /\ UNCHANGED <<at, err, my_ios, pc, job>>
    BY <1>8, CallInFlight
       DEF ConnCallHandler, CallHandler, threadVars, queueVars
  <2>2. /\ Range(parent_ios') \subseteq Range(parent_ios) \ {op}
        /\ op \in Range(parent_ios)
    BY <1>0, <1>8, TakeFromQueue DEF ConnCallHandler, CallHandler, IInv, QueuesDistinct, TypeOK
  <2>3. Carried' = Carried
    BY <2>1 DEF Carried, Carrying
  <2>4. /\ kind'[op] = "none" /\ outcome'[op] = "none"
        /\ \A o \in Ops \ {op} : kind'[o] = kind[o] /\ outcome'[o] = outcome[o]
    BY <1>0, <2>1 DEF ConnTypeOK
  <2> HIDE DEF op
  <2> QED BY <1>p, <2>1, <2>2, <2>3, <2>4
<1>9. CASE Invisible
  <2>1. Carried' \subseteq Carried
    BY <1>9 DEF Invisible, Carried
  <2> QED BY <1>f, <1>9, <2>1 DEF Invisible
<1> QED BY <1>1, <1>2, <1>3, <1>4, <1>5, <1>6, <1>7, <1>8, <1>9, VisibleSteps

\* The handle that a prepare found is there until its last access.
LEMMA StaysOpenStep ==
    ASSUME ConnIInv, IInv, Working', IInv', StaysOpen, [ConnNext]_allVars
    PROVE  StaysOpen'
<1> USE DEF StaysOpen
<1>0. /\ ConnTypeOK /\ Working /\ AtOfProg /\ NoOverlap /\ Client \in Actors
  BY DEF ConnIInv, Actors
<1>1. ASSUME NEW a \in Actors, DriverStep(a) PROVE StaysOpen'
  <2>1. /\ UNCHANGED prog
        /\ \A b \in Actors : b # a => at'[b] = at[b]
    BY <1>0, <1>1, AccessFrame
  <2>2. CASE at[a] \in {"close", "clear", "open"}
    <3>1. \A b \in Actors \ {a} : at[b] # "compile"
      BY <1>0, <2>2, OthersAway DEF Reading
    <3>2. prog[a] \in {"open", "close"}
      BY <1>0, <2>2 DEF AtOfProg
    <3>3. a # Client => prog[Client] # "query"
      BY <1>0, <3>2, AloneWithHandle
    <3>4. at'[a] # "compile"
      BY <1>0, <1>1, <2>2
         DEF DriverStep, CloseStep, ClearStep, OpenStep, CheckStep, CompileStep,
             StepStep, Finish, Goto, AfterClose, ConnTypeOK
    <3> QED BY <2>1, <3>1, <3>2, <3>3, <3>4
  <2>3. CASE CheckStep(a)
    <3>1. /\ UNCHANGED <<db, handle>>
          /\ at'[a] = "compile" => db # Null
          /\ at'[a] # "step"
      BY <1>0, <2>3 DEF CheckStep, Finish, Goto, dbVars, ConnTypeOK
    <3> QED BY <1>0, <2>1, <3>1
  <2>4. CASE CompileStep(a)
    <3>1. /\ UNCHANGED <<db, handle>>
          /\ at'[a] # "compile"
          /\ at'[a] = "step" => db # Null /\ handle[db] = "open"
      BY <1>0, <2>4 DEF CompileStep, AfterCompile, Finish, Goto, dbVars, ConnTypeOK
    <3> QED BY <1>0, <2>1, <3>1
  <2>5. CASE StepStep(a)
    <3>1. /\ UNCHANGED <<db, handle>>
          /\ at'[a] \notin {"compile", "step"}
      BY <1>0, <2>5 DEF StepStep, Finish, Goto, dbVars, ConnTypeOK
    <3> QED BY <1>0, <2>1, <3>1
  <2> QED BY <1>1, <2>2, <2>3, <2>4, <2>5 DEF DriverStep, CloseStep, ClearStep, OpenStep
<1>2. ASSUME NEW a \in Actors, NEW k \in SyncKinds, at[a] = "none", Begin(a, k),
             UNCHANGED <<dbVars, stmtOf>>
      PROVE  StaysOpen'
  <2>1. /\ FirstStep(k) # "compile"
        /\ FirstStep(k) = "step" => k # "query"
    BY DEF FirstStep, SyncKinds
  <2> HIDE DEF FirstStep
  <2>2. /\ \A b \in Actors \ {a} : at'[b] = at[b] /\ prog'[b] = prog[b]
        /\ at'[a] = FirstStep(k) /\ prog'[a] = k
    BY <1>0, <1>2 DEF Begin, Goto, ConnTypeOK
  <2> QED BY <1>0, <1>2, <2>1, <2>2 DEF dbVars
<1>3. ASSUME NEW a \in Actors, at[a] = "done", End(a), UNCHANGED dbVars, NonePrepared
      PROVE  StaysOpen'
  <2>1. /\ \A b \in Actors \ {a} : at'[b] = at[b] /\ prog'[b] = prog[b]
        /\ at'[a] = "none"
    BY <1>0, <1>3 DEF End, Goto, ConnTypeOK
  <2> QED BY <1>0, <1>3, <2>1 DEF dbVars
<1>4. CASE UNCHANGED <<at, prog>> /\ UNCHANGED dbVars
  BY <1>4 DEF dbVars
<1>5. CASE UNCHANGED <<at, prog>> /\ IfDriverDies /\ ~UNCHANGED dbVars
  <2>1. driver' = {}
    BY <1>5 DEF IfDriverDies
  <2>2. (Working /\ IInv /\ driver = {} => \A a \in Actors : at[a] = "none")'
    BY NobodyInDeadDriver, PTL
  <2> QED BY <1>0, <2>1, <2>2 DEF Actors
<1> QED BY <1>0, <1>1, <1>2, <1>3, <1>4, <1>5, StepCases

\* The invariant behind the atomicity of calls: a result is in one place on its
\* way to the client, and a handle once found stays.
THEOREM AtomicIInvHolds == ConnSpec => [](AtomicIInv /\ IInv)
<1>1. ConnInit => ResultSlots /\ StaysOpen
  <2> SUFFICES ASSUME ConnInit PROVE ResultSlots /\ StaysOpen
    OBVIOUS
  <2>1. Carried = {} /\ Range(my_ios) = {} /\ Range(parent_ios) = {}
    BY EmptyQueue DEF ConnInit, Init, Carried, Carrying
  <2> QED BY <2>1 DEF ConnInit, ResultSlots, StaysOpen, Actors
<1>2. (ConnIInv /\ IInv) => Working
  BY DEF ConnIInv
<1>3. /\ ResultSlots /\ StaysOpen /\ (ConnIInv /\ IInv) /\ (Working /\ IInv)'
      /\ [ConnNext]_allVars
      => (ResultSlots /\ StaysOpen)'
  BY ResultSlotsStep, StaysOpenStep
<1>4. ClientIInv /\ (ConnIInv /\ IInv) /\ ResultSlots /\ StaysOpen => AtomicIInv /\ IInv
  BY DEF AtomicIInv
<1> QED BY <1>1, <1>2, <1>3, <1>4, ClientIInvHolds, PTL DEF ConnSpec

-----------------------------------------------------------------------------
(* Then: where a result is, and what it says.                              *)

\* The thread has the result of op in its frame.
Holds(t, op) == Decided(t) /\ job[t] = op

\* A result that is not posted is the error_code of the thread that has it.
FramesTell ==
    \A op \in Ops : outcome[op] = "none" =>
        /\ \A t \in Threads : Holds(t, op) => OpAnswer(op) = err[t]
        /\ (\A t \in Threads : ~Holds(t, op)) => OpAnswer(op) = "none"

\* Only one thread can have it.
LEMMA AnswerInFrame == IInv => FramesTell
<1> SUFFICES ASSUME IInv, NEW op \in Ops, outcome[op] = "none"
             PROVE  /\ \A t \in Threads : Holds(t, op) => OpAnswer(op) = err[t]
                    /\ (\A t \in Threads : ~Holds(t, op)) => OpAnswer(op) = "none"
  BY DEF FramesTell
<1> DEFINE holding == {t \in Threads : Decided(t) /\ job[t] = op}
<1>1. OpAnswer(op) = IF holding = {} THEN "none" ELSE err[CHOOSE t \in holding : TRUE]
  BY DEF OpAnswer
<1>2. ASSUME NEW t \in Threads, Holds(t, op) PROVE holding = {t}
  <2>1. \A u \in holding : u \in Carrying /\ job[u] = op
    BY DEF Decided, Carrying
  <2>2. t \in holding
    BY <1>2 DEF Holds
  <2> QED BY <2>1, <2>2, InFlightFacts
<1>3. (\A t \in Threads : ~Holds(t, op)) => holding = {}
  BY DEF Holds
<1> HIDE DEF holding
<1> QED BY <1>1, <1>2, <1>3

\* A result stays what it is while it stays where it is.
LEMMA AnswerKept ==
    ASSUME IInv, IInv', NEW op \in Ops, outcome'[op] = outcome[op],
           \A t \in Threads : /\ Holds(t, op)' <=> Holds(t, op)
                              /\ Holds(t, op) => err'[t] = err[t]
    PROVE  OpAnswer(op)' = OpAnswer(op)
<1>1. CASE outcome[op] # "none"
  BY <1>1 DEF OpAnswer
<1>2. CASE outcome[op] = "none"
  <2>1. FramesTell
    BY AnswerInFrame
  <2>2. FramesTell'
    BY AnswerInFrame, PTL
  <2>3. /\ \A t \in Threads : Holds(t, op)' => OpAnswer(op)' = err'[t]
        /\ (\A t \in Threads : ~Holds(t, op)') => OpAnswer(op)' = "none"
    BY <1>2, <2>2 DEF FramesTell
  <2> QED BY <1>2, <2>1, <2>3 DEF FramesTell
<1> QED BY <1>1, <1>2

\* The connection is where the last open left it, if that is answered and not
\* yet told; without one it is what the client's own call is about to tell, or
\* has told.
WordTells ==
    /\ \A op \in Ops : kind[op] = "open" /\ OpAnswer(op) # "none" =>
            Word = Told("open", OpAnswer(op))
    /\ (\A op \in InFlight : kind[op] # "open") =>
            Word = IF at[Client] = "done" THEN Told(prog[Client], err[Client]) ELSE seen

\* There is one such open at most.
LEMMA WordOfOpen == IInv /\ ConnIInv /\ ResultSlots => WordTells
<1> SUFFICES ASSUME IInv, ConnIInv, ResultSlots PROVE WordTells
  OBVIOUS
<1>1. \A o \in Opened : o \in InFlight /\ kind[o] = "open"
  BY DEF Opened, ResultSlots
<1>2. ASSUME NEW op \in Ops, kind[op] = "open", OpAnswer(op) # "none"
      PROVE  Word = Told("open", OpAnswer(op))
  <2>1. op \in Opened
    BY <1>2 DEF Opened
  <2>2. Opened = {op}
    BY <1>1, <2>1 DEF ConnIInv, NoOverlap
  <2>3. Word = Told("open", OpAnswer(CHOOSE o \in Opened : TRUE))
    BY <2>1 DEF Word
  <2>4. (CHOOSE o \in Opened : TRUE) = op
    BY <2>2
  <2> QED BY <2>3, <2>4
<1>3. (\A op \in InFlight : kind[op] # "open") => Opened = {}
  BY <1>1
<1>4. Opened = {} =>
        Word = IF at[Client] = "done" THEN Told(prog[Client], err[Client]) ELSE seen
  BY DEF Word
<1> QED BY <1>2, <1>3, <1>4 DEF WordTells

\* Whoever prepares does so on the connection as its client knows it.
LEMMA PrepareIsQuiet ==
    ASSUME IInv, ConnIInv, ClientIInv, ResultSlots,
           NEW a \in Actors, prog[a] \in {"prepare", "query"}
    PROVE  /\ \A op \in InFlight : kind[op] # "open"
           /\ Word = seen
           /\ StateIs(seen)
<1> USE DEF ConnIInv
<1>1. ASSUME NEW t \in Threads, prog[t] # "none"
      PROVE  pc[t] = "body" /\ job[t] \in InFlight /\ prog[t] = kind[job[t]]
  BY <1>1, InFlightFacts DEF Working, Carrying
<1>2. /\ \A op \in InFlight : kind[op] # "open"
      /\ prog[Client] \notin {"open", "close"}
  <2>1. CASE a = Client
    BY <2>1 DEF NoOverlap
  <2>2. CASE a \in Threads
    BY <1>1, <2>2 DEF NoOverlap
  <2> QED BY <2>1, <2>2 DEF Actors
<1>3. \A b \in Actors : prog[b] \notin {"open", "close"}
  BY <1>1, <1>2, AloneWithHandle
<1>4. Quiet
  BY <1>2, <1>3 DEF Quiet
<1>5. driver # {}
  <2>1. at[a] # "none"
    BY DEF Working, Actors
  <2> QED BY <2>1, NobodyInDeadDriver
<1>6. StateIs(seen)
  BY <1>4, <1>5 DEF ClientIInv, Reports
<1>7. Word = seen
  BY <1>2, WordOfOpen DEF WordTells, Told
<1> QED BY <1>2, <1>6, <1>7

-----------------------------------------------------------------------------
(* Steps the contract does not see.                                        *)

\* A step that neither adds nor takes away the answer of an open leaves the
\* connection's word to what the client knows without one.
LEMMA WordKept ==
    ASSUME Opened' = Opened,
           \A op \in Opened : OpAnswer(op)' = OpAnswer(op),
           Opened = {} => Word' = Word
    PROVE  Word' = Word
<1> SUFFICES ASSUME Opened # {} PROVE Word' = Word
  OBVIOUS
<1> DEFINE op == CHOOSE o \in Opened : TRUE
<1>1. op \in Opened
  OBVIOUS
<1>2. OpAnswer(op)' = OpAnswer(op)
  BY <1>1
<1>3. Word = Told("open", OpAnswer(op)) /\ Word' = Told("open", OpAnswer(op))'
  BY DEF Word
<1> QED BY <1>2, <1>3 DEF Told

\* The contract sees the calls in flight, their results and what was told.
LEMMA Unseen ==
    ASSUME UNCHANGED <<kind, seen>>, prog'[Client] = prog[Client],
           \A op \in Ops : OpAnswer(op)' = OpAnswer(op),
           at'[Client] = "done" <=> at[Client] = "done",
           at[Client] = "done" => err'[Client] = err[Client]
    PROVE  UNCHANGED <<Word, Asked, Answers>>
<1>1. Opened' = Opened
  BY DEF Opened
<1>2. \A op \in Opened : OpAnswer(op)' = OpAnswer(op)
  BY DEF Opened
<1>3. Word' = Word
  <2>1. Opened = {} => Word' = Word
    BY <1>1 DEF Word, Told
  <2> QED BY <1>1, <1>2, <2>1, WordKept
<1>4. Asked' = Asked
  BY DEF Asked
<1>5. Answers' = Answers
  BY DEF Answers, ClientAnswer
<1> QED BY <1>3, <1>4, <1>5

\* An access that is not the last of its call.
LEMMA AccessUnseen ==
    ASSUME AtomicIInv, IInv, IInv', NEW a \in Actors, DriverStep(a), at'[a] # "done"
    PROVE  UNCHANGED <<Word, Asked, Answers>>
<1>0. ConnTypeOK /\ Working /\ Client \in Actors /\ \A t \in Threads : t \in Actors
  BY DEF AtomicIInv, ConnIInv, Actors
<1>1. /\ UNCHANGED <<kind, prog, outcome, seen, pc, job>>
      /\ \A b \in Actors : err'[b] = err[b] /\ (b # a => at'[b] = at[b])
      /\ at[a] \notin {"none", "done"}
  BY <1>0, AccessFrame DEF vars, threadVars
<1>2. \A t \in Threads, op \in Ops : Holds(t, op)' <=> Holds(t, op)
  BY <1>0, <1>1 DEF Holds, Decided
<1>3. \A op \in Ops : OpAnswer(op)' = OpAnswer(op)
  BY <1>0, <1>1, <1>2, AnswerKept
<1>4. at'[Client] = "done" <=> at[Client] = "done"
  BY <1>0, <1>1
<1> QED BY <1>0, <1>1, <1>3, <1>4, Unseen

\* A result goes from the thread's call to its frame and from there to its
\* handler without changing.
LEMMA ThreadUnseen ==
    ASSUME AtomicIInv, IInv, IInv', NEW t \in Threads,
           ConnTakeTask(t) \/ ConnRunBody(t) \/ ConnPostHandler(t)
    PROVE  UNCHANGED <<Word, Asked, Answers>>
<1> USE DEF connVars, opVars, callVars
<1>0. /\ ConnTypeOK /\ Working /\ TypeOK /\ ResultSlots
      /\ Client \in Actors /\ Client # t /\ t \in Actors
  BY ConnAssumption DEF AtomicIInv, ConnIInv, IInv, Actors
<1>1. CASE ConnTakeTask(t)
  <2>1. /\ UNCHANGED <<kind, outcome, seen, err>>
        /\ pc[t] = "idle" /\ pc' = [pc EXCEPT ![t] = "body"]
        /\ job' = [job EXCEPT ![t] = Head(my_ios)]
        /\ kind[Head(my_ios)] \in AsyncKinds
        /\ Begin(t, kind[Head(my_ios)])
    BY <1>0, <1>1, InFlightFacts DEF ConnTakeTask, TakeTask, Pop, Working
  <2>2. FirstStep(kind[Head(my_ios)]) # "done"
    BY <2>1 DEF FirstStep, AsyncKinds
  <2> HIDE DEF FirstStep
  <2>3. /\ at' = [at EXCEPT ![t] = FirstStep(kind[Head(my_ios)])]
        /\ at'[Client] = at[Client] /\ prog' = [prog EXCEPT ![t] = kind[Head(my_ios)]]
    BY <1>0, <2>1 DEF Begin, Goto, ConnTypeOK
  <2>4. \A u \in Threads, op \in Ops : Holds(u, op)' <=> Holds(u, op)
    BY <1>0, <2>1, <2>2, <2>3 DEF Holds, Decided, TypeOK, ConnTypeOK, Actors
  <2>5. \A op \in Ops : OpAnswer(op)' = OpAnswer(op)
    BY <2>1, <2>4, AnswerKept
  <2>6. prog'[Client] = prog[Client]
    BY <1>0, <2>3 DEF ConnTypeOK
  <2> QED BY <2>1, <2>3, <2>5, <2>6, Unseen
<1>2. CASE ConnRunBody(t)
  <2>1. /\ UNCHANGED <<kind, outcome, seen, err, job>>
        /\ pc[t] = "body" /\ pc' = [pc EXCEPT ![t] = "post"]
        /\ at[t] = "done" /\ at' = [at EXCEPT ![t] = "none"]
        /\ prog' = [prog EXCEPT ![t] = "none"]
    BY <1>2 DEF ConnRunBody, RunBody, BodyOver, End, Goto
  <2>2. \A u \in Threads, op \in Ops : Holds(u, op)' <=> Holds(u, op)
    BY <1>0, <2>1 DEF Holds, Decided, TypeOK, ConnTypeOK, Actors
  <2>3. \A op \in Ops : OpAnswer(op)' = OpAnswer(op)
    BY <2>1, <2>2, AnswerKept
  <2>4. at'[Client] = at[Client] /\ prog'[Client] = prog[Client]
    BY <1>0, <2>1 DEF ConnTypeOK
  <2> QED BY <2>1, <2>3, <2>4, Unseen
<1>3. CASE ConnPostHandler(t)
  <2>1. /\ pc[t] = "post" /\ pc' = [pc EXCEPT ![t] = "release"]
        /\ outcome' = [outcome EXCEPT ![job[t]] = err[t]]
        /\ err' = [err EXCEPT ![t] = "ok"]
        /\ UNCHANGED <<kind, prog, at, seen, job>>
    BY <1>3 DEF ConnPostHandler, PostHandler
  <2>2. t \in Carrying /\ job[t] \in Ops /\ outcome[job[t]] = "none"
    BY <1>0, <2>1, PlacesInFlight DEF Carrying, Carried, ResultSlots
  <2>3. outcome'[job[t]] = err[t] /\ err[t] # "none"
    BY <1>0, <2>1, <2>2 DEF ConnTypeOK, Errors
  <2>4. OpAnswer(job[t])' = OpAnswer(job[t])
    <3>1. OpAnswer(job[t]) = err[t]
      BY <2>1, <2>2, AnswerInFrame DEF FramesTell, Holds, Decided
    <3>2. OpAnswer(job[t])' = outcome'[job'[t]]
      BY <2>1, <2>3 DEF OpAnswer
    <3> QED BY <2>1, <2>3, <3>1, <3>2
  <2>5. ASSUME NEW op \in Ops, op # job[t] PROVE OpAnswer(op)' = OpAnswer(op)
    <3>1. outcome'[op] = outcome[op]
      BY <1>0, <2>1, <2>5 DEF ConnTypeOK
    <3>2. \A u \in Threads : /\ Holds(u, op)' <=> Holds(u, op)
                             /\ Holds(u, op) => err'[u] = err[u]
      BY <1>0, <2>1, <2>5 DEF Holds, Decided, TypeOK, ConnTypeOK, Actors
    <3> QED BY <3>1, <3>2, AnswerKept
  <2>6. err'[Client] = err[Client]
    BY <1>0, <2>1 DEF ConnTypeOK
  <2> QED BY <2>1, <2>4, <2>5, <2>6, Unseen
<1> QED BY <1>1, <1>2, <1>3

\* The steps that are about no call.
LEMMA InvisibleUnseen ==
    ASSUME IInv, IInv', Invisible
    PROVE  UNCHANGED <<Word, Asked, Answers>>
<1>1. ASSUME NEW t \in Threads, NEW op \in Ops PROVE Holds(t, op)' <=> Holds(t, op)
  <2>1. \/ t \in Carrying /\ pc'[t] = pc[t] /\ job'[t] = job[t]
        \/ t \notin Carrying /\ t \notin Carrying'
    BY DEF Invisible
  <2> QED BY <2>1 DEF Invisible, Holds, Decided, Carrying
<1>2. \A op \in Ops : OpAnswer(op)' = OpAnswer(op)
  BY <1>1, AnswerKept DEF Invisible
<1> QED BY <1>2, Unseen DEF Invisible

-----------------------------------------------------------------------------
(* Making a call and being told of its result.                             *)

\* An async_* call is made by its operation, which had no call before.
LEMMA StartAsks ==
    ASSUME AtomicIInv, IInv, IInv', NEW op \in Ops, NEW k \in AsyncKinds,
           NEW s \in Stmts \cup {Null}, ConnStart(op, k, s)
    PROVE  Atomic!Ask(op)
<1> USE DEF callVars
<1>0. /\ ConnTypeOK /\ Working /\ TypeOK /\ ResultSlots /\ Client \in Actors /\ Client \notin Ops
  BY ConnAssumption DEF AtomicIInv, ConnIInv, IInv, Actors
<1>1. op \notin InFlight /\ InFlight' = InFlight \cup {op} /\ InFlight \subseteq Ops
  BY <1>0, StartInFlight, InFlightFacts DEF ConnStart
<1>2. /\ kind' = [kind EXCEPT ![op] = k] /\ MayCall(k)
      /\ UNCHANGED <<outcome, prog, at, err, seen, job>>
      /\ at[Client] = "none"
  BY DEF ConnStart, Start, Free
<1>3. kind[op] = "none" /\ outcome[op] = "none" /\ prog[Client] = "none"
  BY <1>0, <1>1, <1>2 DEF ResultSlots, Working
<1>4. /\ \A t \in Threads, o \in Ops : Holds(t, o)' <=> Holds(t, o)
      /\ \A t \in Threads : ~Holds(t, op)
  <2>1. \A t \in Threads : pc[t] \in {"body", "post"} \/ pc'[t] \in {"body", "post"} =>
            pc'[t] = pc[t]
    BY <1>0 DEF ConnStart, Start, EnsureThreadsStarted, NoThreadBorn, TypeOK
  <2> QED BY <1>1, <1>2, <2>1, InFlightFacts DEF Holds, Decided, Carrying
<1>5. OpAnswer(op) = "none"
  BY <1>3, <1>4, AnswerInFrame DEF FramesTell
<1>6. \A o \in Ops : OpAnswer(o)' = OpAnswer(o)
  BY <1>2, <1>4, AnswerKept
<1>7. \A o \in Ops \ {op} : kind'[o] = kind[o]
  BY <1>0, <1>2 DEF ConnTypeOK
<1>8. UNCHANGED <<Word, Answers>>
  <2>1. Opened' = Opened
    BY <1>5, <1>6, <1>7 DEF Opened
  <2>2. Word' = Word
    <3>1. Opened = {} => Word' = Word
      BY <1>2, <2>1 DEF Word
    <3>2. \A o \in Opened : OpAnswer(o)' = OpAnswer(o)
      BY <1>6 DEF Opened
    <3> QED BY <2>1, <3>1, <3>2, WordKept
  <2> QED BY <1>2, <1>6, <2>2 DEF Answers, ClientAnswer
<1>9. Asked' = [Asked EXCEPT ![op] = k]
  <2>1. kind'[op] = k
    BY <1>0, <1>2 DEF ConnTypeOK
  <2> QED BY <1>0, <1>2, <1>7, <2>1 DEF Asked
<1>10. Asked[op] = "none"
  BY <1>0, <1>3 DEF Asked
<1>11. Atomic!Compatible(k, Atomic!Others(op))
  <2>1. \A c \in Ops \cup {Client} : Asked[c] # "none" => c \in InFlight /\ Asked[c] = kind[c]
    BY <1>0, <1>3 DEF Asked, ResultSlots
  <2>2. \A x \in Atomic!Others(op) : \E o \in InFlight : x = kind[o]
    BY <2>1 DEF Atomic!Others
  <2>3. k \in {"open", "prepare", "execute"}
    BY DEF AsyncKinds
  <2> QED BY <1>0, <1>2, <2>2, <2>3 DEF MayCall, Working, AsyncKinds, Atomic!Compatible
<1> QED BY <1>8, <1>9, <1>10, <1>11 DEF Atomic!Ask, AsyncKinds

\* A synchronous call is made by the client.
LEMMA SyncAsks ==
    ASSUME AtomicIInv, IInv, IInv', NEW k \in SyncKinds, SyncCall(k)
    PROVE  Atomic!Ask(Client)
<1> USE DEF opVars
<1>0. /\ ConnTypeOK /\ Working /\ ResultSlots /\ Client \in Actors /\ Client \notin Ops
      /\ \A t \in Threads : t \in Actors /\ t # Client
  BY ConnAssumption DEF AtomicIInv, ConnIInv, Actors
<1>1. /\ UNCHANGED <<kind, outcome, err, seen, pc, job>>
      /\ at[Client] = "none" /\ MayCall(k) /\ Begin(Client, k)
  BY DEF SyncCall, Free, vars, threadVars
<1>2. prog[Client] = "none"
  BY <1>0, <1>1 DEF Working
<1>3. /\ prog'[Client] = k /\ at'[Client] # "done"
      /\ \A t \in Threads : at'[t] = at[t]
  <2>1. FirstStep(k) # "done"
    BY DEF FirstStep, SyncKinds
  <2> HIDE DEF FirstStep
  <2> QED BY <1>0, <1>1, <2>1 DEF Begin, Goto, ConnTypeOK
<1>4. \A t \in Threads, o \in Ops : Holds(t, o)' <=> Holds(t, o)
  BY <1>1, <1>3 DEF Holds, Decided
<1>5. \A o \in Ops : OpAnswer(o)' = OpAnswer(o)
  BY <1>1, <1>4, AnswerKept
<1>6. UNCHANGED <<Word, Answers>>
  <2>1. Opened' = Opened
    BY <1>1, <1>5 DEF Opened
  <2>2. Word' = Word
    <3>1. Opened = {} => Word' = Word
      BY <1>1, <1>3, <2>1 DEF Word
    <3>2. \A o \in Opened : OpAnswer(o)' = OpAnswer(o)
      BY <1>5 DEF Opened
    <3> QED BY <2>1, <3>1, <3>2, WordKept
  <2> QED BY <1>1, <1>3, <1>5, <2>2 DEF Answers, ClientAnswer
<1>7. Asked' = [Asked EXCEPT ![Client] = k] /\ Asked[Client] = "none"
  BY <1>0, <1>1, <1>2, <1>3 DEF Asked
<1>8. Atomic!Compatible(k, Atomic!Others(Client))
  <2>1. \A c \in (Ops \cup {Client}) \ {Client} :
            Asked[c] # "none" => c \in InFlight /\ Asked[c] = kind[c]
    BY <1>0 DEF Asked, ResultSlots
  <2>2. \A x \in Atomic!Others(Client) : \E o \in InFlight : x = kind[o]
    BY <2>1 DEF Atomic!Others
  <2> QED BY <1>0, <1>1, <2>2
          DEF MayCall, Working, AsyncKinds, SyncKinds, Atomic!Compatible
<1> QED BY <1>6, <1>7, <1>8 DEF Atomic!Ask, SyncKinds

\* A synchronous call returns the result it had.
LEMMA ReturnTells ==
    ASSUME AtomicIInv, IInv, IInv', SyncReturn
    PROVE  Atomic!Tell(Client)
<1> USE DEF opVars
<1>0. /\ ConnTypeOK /\ ResultSlots /\ NoOverlap /\ Client \in Actors /\ Client \notin Ops
      /\ \A t \in Threads : t \in Actors /\ t # Client
  BY ConnAssumption DEF AtomicIInv, ConnIInv, Actors
<1>1. /\ UNCHANGED <<kind, outcome, pc, job>>
      /\ at[Client] = "done" /\ End(Client)
      /\ err' = [err EXCEPT ![Client] = "ok"]
      /\ seen' = Told(prog[Client], err[Client])
  BY DEF SyncReturn, vars, threadVars
<1>2. /\ prog'[Client] = "none" /\ at'[Client] = "none"
      /\ \A t \in Threads : at'[t] = at[t] /\ err'[t] = err[t]
  BY <1>0, <1>1 DEF End, Goto, ConnTypeOK
<1>3. \A t \in Threads, o \in Ops : Holds(t, o)' <=> Holds(t, o)
  BY <1>1, <1>2 DEF Holds, Decided
<1>4. \A o \in Ops : OpAnswer(o)' = OpAnswer(o)
  BY <1>1, <1>2, <1>3, AnswerKept
<1>5. Opened' = Opened
  BY <1>1, <1>4 DEF Opened
<1>6. Word' = Word
  <2>1. Opened = {} => Word' = Word
    BY <1>1, <1>2, <1>5 DEF Word
  <2>2. \A o \in Opened : OpAnswer(o)' = OpAnswer(o)
    BY <1>4 DEF Opened
  <2> QED BY <1>5, <2>1, <2>2, WordKept
<1>7. Asked' = [Asked EXCEPT ![Client] = "none"]
  BY <1>0, <1>1, <1>2 DEF Asked
<1>8. Answers' = [Answers EXCEPT ![Client] = "none"] /\ Answers[Client] # "none"
  <2>1. err[Client] # "none"
    BY <1>0 DEF ConnTypeOK, Errors
  <2> QED BY <1>0, <1>1, <1>2, <1>4, <2>1 DEF Answers, ClientAnswer
<1> QED BY <1>6, <1>7, <1>8 DEF Atomic!Tell

\* A handler tells the result it was posted with; the result of an open is the
\* word the connection had from then on.
LEMMA HandlerTells ==
    ASSUME AtomicIInv, IInv, AtomicIInv', IInv', ConnCallHandler,
           NEW op \in Ops, op = Head(parent_ios)
    PROVE  Atomic!Tell(op)
<1> USE DEF callVars
<1>0. /\ ConnTypeOK /\ Working /\ TypeOK /\ ResultSlots /\ ConnIInv /\ Client \notin Ops
      /\ ConnIInv' /\ ResultSlots'
  BY ConnAssumption DEF AtomicIInv, ConnIInv, IInv
<1>1. /\ op \in InFlight /\ InFlight' = InFlight \ {op}
      /\ \A t \in Carrying : job[t] # op
      /\ outcome[op] # "none"
  <2>1. op \in Range(parent_ios)
    BY <1>0, TakeFromQueue DEF ConnCallHandler, CallHandler, TypeOK
  <2> QED BY <1>0, <2>1, CallInFlight, PlacesInFlight DEF ConnCallHandler, ResultSlots
<1>2. /\ kind' = [kind EXCEPT ![op] = "none"]
      /\ outcome' = [outcome EXCEPT ![op] = "none"]
      /\ seen' = Told(kind[op], outcome[op])
      /\ UNCHANGED <<prog, at, err, pc, job>>
      /\ client = "polling"
  BY DEF ConnCallHandler, CallHandler, threadVars
<1>3. /\ kind'[op] = "none" /\ outcome'[op] = "none"
      /\ \A o \in Ops \ {op} : kind'[o] = kind[o] /\ outcome'[o] = outcome[o]
  BY <1>0, <1>1, <1>2 DEF ConnTypeOK
<1>4. \A t \in Threads, o \in Ops : /\ Holds(t, o)' <=> Holds(t, o)
                                    /\ ~Holds(t, op)
  BY <1>1, <1>2 DEF Holds, Decided, Carrying
<1>5. OpAnswer(op) = outcome[op] /\ OpAnswer(op)' = "none"
  <2>1. FramesTell'
    BY AnswerInFrame, PTL
  <2>2. \A t \in Threads : ~Holds(t, op)'
    BY <1>1, <1>4
  <2> QED BY <1>1, <1>3, <2>1, <2>2 DEF OpAnswer, FramesTell
<1>6. \A o \in Ops \ {op} : OpAnswer(o)' = OpAnswer(o)
  BY <1>2, <1>3, <1>4, AnswerKept
<1>7. at[Client] = "none"
  BY <1>0, <1>2 DEF Working, ClientCode
<1>8. Word' = Word
  <2>1. CASE kind[op] = "open"
    <3>1. Word = Told("open", outcome[op])
      BY <1>0, <1>1, <1>5, <2>1, WordOfOpen DEF WordTells
    <3>2. \A o \in InFlight' : kind'[o] # "open"
      BY <1>0, <1>1, <1>3, <2>1, InFlightFacts DEF ConnIInv, NoOverlap
    <3>3. WordTells'
      <4>1. (IInv /\ ConnIInv /\ ResultSlots => WordTells)'
        BY WordOfOpen, PTL
      <4> QED BY <1>0, <4>1
    <3>4. Word' = seen'
      BY <1>2, <1>7, <3>2, <3>3 DEF WordTells
    <3> QED BY <1>2, <2>1, <3>1, <3>4
  <2>2. CASE kind[op] # "open"
    <3>1. seen' = seen
      BY <1>0, <1>1, <1>2, <2>2 DEF Told, Working, AsyncKinds
    <3>2. Opened' = Opened
      BY <1>1, <1>3, <1>6, <2>2 DEF Opened
    <3>3. Opened = {} => Word' = Word
      BY <1>2, <1>7, <3>1, <3>2 DEF Word
    <3>4. \A o \in Opened : OpAnswer(o)' = OpAnswer(o)
      BY <1>6, <2>2 DEF Opened
    <3> QED BY <3>2, <3>3, <3>4, WordKept
  <2> QED BY <2>1, <2>2
<1>9. Asked' = [Asked EXCEPT ![op] = "none"]
  BY <1>0, <1>1, <1>2, <1>3 DEF Asked
<1>10. Answers' = [Answers EXCEPT ![op] = "none"] /\ Answers[op] # "none"
  <2>1. ClientAnswer' = ClientAnswer
    BY <1>2 DEF ClientAnswer
  <2> QED BY <1>0, <1>1, <1>5, <1>6, <2>1 DEF Answers
<1> QED BY <1>8, <1>9, <1>10 DEF Atomic!Tell

-----------------------------------------------------------------------------
(* The instant of a call is the last access of its body.                   *)

\* What the last access answers is what the contract would, of a connection
\* that is as its client knows it.
LEMMA LastAccessAnswers ==
    ASSUME AtomicIInv, IInv, NEW a \in Actors, DriverStep(a), at'[a] = "done"
    PROVE  /\ prog[a] \in SyncKinds /\ err'[a] \in Errors
           /\ prog[a] \in {"open", "execute"} => err'[a] \in {"ok", "error"}
           /\ prog[a] = "close" => err'[a] = err[a]
           /\ prog[a] \in {"prepare", "query"} => err'[a] \in
                CASE seen = "closed" -> {"not_connected"}
                  [] seen = "open"   -> {"ok", "error"}
                  [] seen = "failed" -> {"not_connected", "error"}
<1> USE DEF Finish, Goto
<1>0. ConnIInv /\ ClientIInv /\ ResultSlots /\ StaysOpen
  BY DEF AtomicIInv
<1>t. ConnTypeOK /\ AtOfProg /\ Working
  BY <1>0 DEF ConnIInv
<1>q. /\ prog[a] \in {"prepare", "query"} => StateIs(seen)
      /\ seen \in {"closed", "open", "failed"}
  BY <1>0, <1>t, PrepareIsQuiet DEF ConnTypeOK
<1>1. CASE CloseStep(a) \/ ClearStep(a)
  <2>1. prog[a] \in {"open", "close"} /\ err' = err
    BY <1>1, <1>t DEF CloseStep, ClearStep, AtOfProg
  <2>2. at'[a] = "done" => prog[a] # "open"
    BY <1>1, <1>t DEF CloseStep, ClearStep, AfterClose, ConnTypeOK
  <2> QED BY <1>t, <2>1, <2>2 DEF SyncKinds, ConnTypeOK
<1>2. CASE OpenStep(a)
  <2>1. prog[a] = "open"
    BY <1>2, <1>t DEF OpenStep, AtOfProg
  <2>2. err'[a] \in {"ok", "error"}
    BY <1>2, <1>t DEF OpenStep, OpenError, ConnTypeOK
  <2> QED BY <2>1, <2>2 DEF SyncKinds, Errors
<1>3. CASE CheckStep(a)
  <2>1. prog[a] \in {"prepare", "query"}
    BY <1>3, <1>t DEF CheckStep, AtOfProg
  <2>2. db = Null /\ err'[a] = "not_connected"
    BY <1>3, <1>t DEF CheckStep, ConnTypeOK
  <2>3. seen # "open"
    BY <1>q, <2>1, <2>2 DEF StateIs
  <2> QED BY <1>q, <2>1, <2>2, <2>3 DEF SyncKinds, Errors
<1>4. CASE CompileStep(a)
  <2>1. prog[a] \in {"prepare", "query"} /\ db # Null
    BY <1>0, <1>4, <1>t DEF CompileStep, AtOfProg, StaysOpen
  <2>2. (err'[a] = "ok" /\ handle[db] = "open") \/ err'[a] = "error"
    BY <1>4, <1>t DEF CompileStep, AfterCompile, ConnTypeOK
  <2>3. seen # "closed" /\ (handle[db] = "open" => seen = "open")
    BY <1>q, <2>1 DEF StateIs
  <2> QED BY <1>q, <2>1, <2>2, <2>3 DEF SyncKinds, Errors
<1>5. CASE StepStep(a)
  <2>1. prog[a] \in {"execute", "query"} /\ at[a] = "step"
    BY <1>5, <1>t DEF StepStep, AtOfProg
  <2>2. err'[a] \in {"ok", "error"}
    BY <1>5, <1>t DEF StepStep, ConnTypeOK
  <2>3. prog[a] = "query" => seen = "open"
    <3>1. ASSUME prog[a] = "query" PROVE a = Client
      BY <1>t, <3>1, InFlightFacts DEF Working, AsyncKinds, Actors, Carrying
    <3>2. ASSUME prog[a] = "query" PROVE db # Null /\ handle[db] = "open"
      BY <1>0, <2>1, <3>1, <3>2 DEF StaysOpen
    <3> QED BY <1>q, <3>2 DEF StateIs
  <2> QED BY <2>1, <2>2, <2>3 DEF SyncKinds, Errors
<1> QED BY <1>1, <1>2, <1>3, <1>4, <1>5 DEF DriverStep

\* A synchronous call takes effect.
LEMMA ClientTakesEffect ==
    ASSUME AtomicIInv, IInv, AtomicIInv', IInv', DriverStep(Client), at'[Client] = "done"
    PROVE  Atomic!TakeEffect(Client)
<1>0. /\ ConnTypeOK /\ Working /\ NoOverlap /\ ResultSlots /\ Client \in Actors
      /\ Client \notin Ops /\ \A t \in Threads : t \in Actors /\ t # Client
      /\ ConnIInv /\ ClientIInv
  BY ConnAssumption DEF AtomicIInv, ConnIInv, Actors
<1>1. /\ UNCHANGED <<kind, prog, outcome, seen, pc, job, InFlight>>
      /\ \A b \in Actors : b # Client => at'[b] = at[b] /\ err'[b] = err[b]
      /\ at[Client] \notin {"none", "done"}
  BY <1>0, AccessFrame DEF vars, threadVars
<1>2. \A t \in Threads, o \in Ops : Holds(t, o)' <=> Holds(t, o)
  BY <1>0, <1>1 DEF Holds, Decided
<1>3. \A o \in Ops : OpAnswer(o)' = OpAnswer(o)
  BY <1>0, <1>1, <1>2, AnswerKept
<1>4. /\ prog[Client] \in SyncKinds /\ err'[Client] \in Errors
      /\ prog[Client] \in {"open", "execute"} => err'[Client] \in {"ok", "error"}
      /\ prog[Client] = "close" => err'[Client] = "ok"
      /\ prog[Client] \in {"prepare", "query"} => err'[Client] \in
            CASE seen = "closed" -> {"not_connected"}
              [] seen = "open"   -> {"ok", "error"}
              [] seen = "failed" -> {"not_connected", "error"}
  BY <1>0, <1>1, LastAccessAnswers DEF ResultSlots
<1>5. Answers[Client] = "none" /\ Answers' = [Answers EXCEPT ![Client] = err'[Client]]
  BY <1>0, <1>1, <1>3 DEF Answers, ClientAnswer
<1>6. Asked' = Asked /\ Asked[Client] = prog[Client] /\ prog[Client] # "none"
  BY <1>1, <1>4 DEF Asked, SyncKinds
<1>7. Opened' = Opened
  BY <1>1, <1>3 DEF Opened
<1>8. <<err'[Client], Word'>> \in Atomic!Effects(prog[Client])
  <2>1. CASE prog[Client] \in {"open", "close"}
    <3>1. Opened = {}
      BY <1>0, <2>1 DEF Opened, NoOverlap, ResultSlots
    <3>2. Word' = Told(prog[Client], err'[Client])
      BY <1>1, <1>7, <3>1 DEF Word, Told
    <3> QED BY <1>4, <2>1, <3>2 DEF Told, Atomic!Effects
  <2>2. CASE prog[Client] \in {"prepare", "query", "execute"}
    <3>1. Opened = {} => Word' = Word
      BY <1>1, <1>7, <2>2 DEF Word, Told
    <3>2. \A o \in Opened : OpAnswer(o)' = OpAnswer(o)
      BY <1>3 DEF Opened
    <3>3. Word' = Word
      BY <1>7, <3>1, <3>2, WordKept
    <3>4. prog[Client] \in {"prepare", "query"} => Word = seen
      BY <1>0, PrepareIsQuiet
    <3> QED BY <1>4, <2>2, <3>3, <3>4 DEF Atomic!Effects, Atomic!Results
  <2> QED BY <1>4, <2>1, <2>2 DEF SyncKinds
<1>9. \E effect \in Atomic!Effects(Asked[Client]) :
            Word' = effect[2] /\ Answers' = [Answers EXCEPT ![Client] = effect[1]]
  <2> DEFINE effect == <<err'[Client], Word'>>
  <2>1. effect[1] = err'[Client] /\ effect[2] = Word'
    OBVIOUS
  <2>2. effect \in Atomic!Effects(Asked[Client])
    BY <1>6, <1>8
  <2> HIDE DEF effect
  <2> QED BY <1>5, <2>1, <2>2
<1> QED BY <1>5, <1>6, <1>9 DEF Atomic!TakeEffect

\* An operation takes effect in the body of its task.
LEMMA TaskTakesEffect ==
    ASSUME AtomicIInv, IInv, AtomicIInv', IInv',
           NEW t \in Threads, DriverStep(t), at'[t] = "done",
           NEW op \in Ops, op = job[t]
    PROVE  Atomic!TakeEffect(op)
<1>0. /\ ConnTypeOK /\ Working /\ NoOverlap /\ ResultSlots /\ ConnIInv /\ ClientIInv
      /\ ConnIInv' /\ ResultSlots'
      /\ Client \in Actors /\ Client \notin Ops
      /\ \A u \in Threads : u \in Actors /\ u # Client
  BY ConnAssumption DEF AtomicIInv, ConnIInv, Actors
<1>1. /\ UNCHANGED <<kind, prog, outcome, seen, pc, job, InFlight>>
      /\ \A b \in Actors : b # t => at'[b] = at[b] /\ err'[b] = err[b]
      /\ at[t] \notin {"none", "done"}
  BY <1>0, AccessFrame DEF vars, threadVars
<1>2. /\ pc[t] = "body" /\ t \in Carrying /\ op \in InFlight /\ op \in Carried
      /\ prog[t] = kind[op] /\ kind[op] \in AsyncKinds
      /\ outcome[op] = "none"
  <2>1. pc[t] = "body" /\ prog[t] = kind[op]
    BY <1>0, <1>1 DEF Working
  <2>2. t \in Carrying /\ op \in Carried
    BY <2>1 DEF Carrying, Carried
  <2> QED BY <1>0, <2>1, <2>2, InFlightFacts DEF Working, ResultSlots
<1>3. /\ \A u \in Threads : u # t => ~Holds(u, op)
      /\ ~Holds(t, op) /\ Holds(t, op)'
      /\ \A u \in Threads, o \in Ops \ {op} : /\ Holds(u, o)' <=> Holds(u, o)
                                              /\ Holds(u, o) => u # t
  <2>1. \A u \in Threads : u # t => ~Holds(u, op)
    BY <1>2, InFlightFacts DEF Holds, Decided, Carrying
  <2> QED BY <1>0, <1>1, <1>2, <2>1 DEF Holds, Decided
<1>4. OpAnswer(op) = "none" /\ OpAnswer(op)' = err'[t]
  <2>1. OpAnswer(op) = "none"
    BY <1>2, <1>3, AnswerInFrame DEF FramesTell
  <2>2. FramesTell'
    BY AnswerInFrame, PTL
  <2> QED BY <1>1, <1>2, <1>3, <2>1, <2>2 DEF FramesTell
<1>5. \A o \in Ops \ {op} : OpAnswer(o)' = OpAnswer(o)
  BY <1>0, <1>1, <1>3, AnswerKept
<1>6. /\ err'[t] \in Errors
      /\ kind[op] \in {"open", "execute"} => err'[t] \in {"ok", "error"}
      /\ kind[op] = "prepare" => err'[t] \in
            CASE seen = "closed" -> {"not_connected"}
              [] seen = "open"   -> {"ok", "error"}
              [] seen = "failed" -> {"not_connected", "error"}
  BY <1>0, <1>2, LastAccessAnswers
<1>7. Answers[op] = "none" /\ Answers' = [Answers EXCEPT ![op] = err'[t]]
  <2>1. ClientAnswer' = ClientAnswer
    BY <1>0, <1>1 DEF ClientAnswer
  <2> QED BY <1>0, <1>4, <1>5, <2>1 DEF Answers
<1>8. Asked' = Asked /\ Asked[op] = kind[op] /\ kind[op] # "none"
  BY <1>0, <1>1, <1>2 DEF Asked, AsyncKinds
<1>9. <<err'[t], Word'>> \in Atomic!Effects(kind[op])
  <2>1. CASE kind[op] = "open"
    <3>1. (IInv /\ ConnIInv /\ ResultSlots => WordTells)'
      BY WordOfOpen, PTL
    <3>2. Word' = Told("open", OpAnswer(op))'
      BY <1>0, <1>1, <1>4, <1>6, <2>1, <3>1 DEF WordTells, Errors
    <3>3. Word' = IF err'[t] = "ok" THEN "open" ELSE "failed"
      BY <1>4, <3>2 DEF Told
    <3> QED BY <1>6, <2>1, <3>3 DEF Atomic!Effects
  <2>2. CASE kind[op] \in {"prepare", "execute"}
    <3>1. Opened' = Opened
      BY <1>1, <1>5, <2>2 DEF Opened
    <3>2. \A o \in Opened : OpAnswer(o)' = OpAnswer(o)
      BY <1>5, <2>2 DEF Opened
    <3>3. Opened = {} => Word' = Word
      BY <1>0, <1>1, <3>1 DEF Word, Told
    <3>4. Word' = Word
      BY <3>1, <3>2, <3>3, WordKept
    <3>5. kind[op] = "prepare" => Word = seen
      BY <1>0, <1>2, PrepareIsQuiet
    <3> QED BY <1>6, <2>2, <3>4, <3>5 DEF Atomic!Effects, Atomic!Results
  <2> QED BY <1>2, <2>1, <2>2 DEF AsyncKinds
<1>10. \E effect \in Atomic!Effects(Asked[op]) :
            Word' = effect[2] /\ Answers' = [Answers EXCEPT ![op] = effect[1]]
  <2> DEFINE effect == <<err'[t], Word'>>
  <2>1. effect[1] = err'[t] /\ effect[2] = Word'
    OBVIOUS
  <2>2. effect \in Atomic!Effects(Asked[op])
    BY <1>8, <1>9
  <2> HIDE DEF effect
  <2> QED BY <1>7, <2>1, <2>2
<1> QED BY <1>7, <1>8, <1>10 DEF Atomic!TakeEffect

\* Each step is a step of the contract, or one it does not see.
LEMMA CallsStep ==
    (AtomicIInv /\ IInv) /\ (AtomicIInv /\ IInv)' /\ [ConnNext]_allVars
        => [Atomic!Next]_(Atomic!vars)
<1> SUFFICES ASSUME AtomicIInv, IInv, AtomicIInv', IInv', [ConnNext]_allVars
             PROVE  Atomic!Next \/ UNCHANGED <<Word, Asked, Answers>>
  BY DEF Atomic!vars
<1>0. ConnIInv /\ ConnTypeOK /\ Working /\ TypeOK
  BY DEF AtomicIInv, ConnIInv, IInv
<1>1. ASSUME NEW a \in Actors, DriverStep(a), at'[a] = "done" PROVE Atomic!Next
  <2>1. CASE a = Client
    BY <1>1, <2>1, ClientTakesEffect DEF Atomic!Next
  <2>2. CASE a \in Threads
    <3>1. at[a] # "none"
      BY <1>0, <1>1, AccessFrame
    <3>2. job[a] \in Ops
      BY <1>0, <2>2, <3>1, InFlightFacts DEF Working, Carrying
    <3> QED BY <1>1, <2>2, <3>2, TaskTakesEffect DEF Atomic!Next
  <2> QED BY <2>1, <2>2 DEF Actors
<1>2. CASE ConnCallHandler
  <2>1. Head(parent_ios) \in Ops
    BY <1>2, CallInFlight DEF ConnCallHandler
  <2>2. \A op \in Ops : op = Head(parent_ios) => Atomic!Tell(op)
    BY <1>2, HandlerTells
  <2> QED BY <2>1, <2>2 DEF Atomic!Next
<1>3. ASSUME NEW op \in Ops, NEW k \in AsyncKinds, NEW s \in Stmts \cup {Null},
             ConnStart(op, k, s)
      PROVE  Atomic!Next
  BY <1>3, StartAsks DEF Atomic!Next
<1>4. ASSUME NEW k \in SyncKinds, SyncCall(k) PROVE Atomic!Next
  BY <1>4, SyncAsks DEF Atomic!Next
<1>5. CASE SyncReturn
  BY <1>5, ReturnTells DEF Atomic!Next
<1> QED BY <1>1, <1>2, <1>3, <1>4, <1>5, VisibleSteps, AccessUnseen, ThreadUnseen,
           InvisibleUnseen

\* Every call on the connection answers as if it had been made at one instant
\* between being asked for and being answered, however its accesses to the
\* unlocked handle interleave with those of other threads.
THEOREM CallsLookAtomic == ConnSpec => CallsAreAtomic
<1>1. ConnInit => Atomic!Init
  <2> SUFFICES ASSUME ConnInit PROVE Atomic!Init
    OBVIOUS
  <2>1. \A op \in Ops : OpAnswer(op) = "none"
    BY DEF ConnInit, Init, OpAnswer, Decided
  <2>2. Word = "closed"
    BY <2>1 DEF ConnInit, Word, Opened, Actors
  <2>3. /\ Asked = [c \in Ops \cup {Client} |-> "none"]
        /\ Answers = [c \in Ops \cup {Client} |-> "none"]
    BY <2>1 DEF ConnInit, Asked, Answers, ClientAnswer, Actors
  <2> QED BY <2>2, <2>3 DEF Atomic!Init
<1> QED BY <1>1, CallsStep, AtomicIInvHolds, PTL DEF ConnSpec, CallsAreAtomic, Atomic!Spec

\* The connection keeps the contract of every asynchronous service as well: its
\* driver is the service with the task bodies opened up.
THEOREM ConnImplementsContract == ConnSpec => ImplementsContract
  BY ConnImplementsService, RefinesContract
==============================================================================
