------------------------- MODULE SqliteServiceProofs -------------------------
(***************************************************************************)
(* Proofs about SqliteService for any sets of connections, operations and  *)
(* threads.                                                                *)
(*                                                                         *)
(* Type correctness is inductive by itself.  The safety properties follow  *)
(* from IInv, whose conjuncts are proved step by step from the facts about *)
(* Range and IsInjective of queues in QueueTheorems.  The last part shows  *)
(* that every step of the service is a step of AsyncContract or stutters.  *)
(***************************************************************************)
EXTENDS SqliteService, QueueTheorems

-----------------------------------------------------------------------------
(* Type correctness.                                                       *)

\* Every variable keeps its type, whatever the threads and the client do; in
\* particular only operations, never None, are queued for run().  The latter
\* is why the type of job is strengthened to say who is working on what.
TypeInv ==
    /\ TypeOK
    /\ \A t \in Busy : job[t] \in Ops

\* Every step of a thread, of run() or of the client preserves it.
LEMMA TypeInvStep == TypeInv /\ [Next]_vars => TypeInv'
<1> SUFFICES ASSUME TypeInv, [Next]_vars PROVE TypeInv'
  OBVIOUS
<1> USE DEF TypeInv, TypeOK, Busy, Closing,
            ownerVars, threadVars, queueVars, parentVars, history
<1>1. ASSUME NEW c \in Conns, CreateConnection(c) PROVE TypeInv'
  BY <1>1 DEF CreateConnection
<1>2. ASSUME NEW c \in Conns, DestroyConnection(c) PROVE TypeInv'
  BY <1>2, OnAssumption DEF DestroyConnection, DropOwner, Alive
<1>3. ASSUME NEW op \in Ops, Start(op) PROVE TypeInv'
  BY <1>3, PostToQueue
     DEF Start, SharedFromThis, MakeWork, PushTask, EnsureThreadsStarted
<1>4. ASSUME NEW born \in SUBSET Threads, StartFails(born) PROVE TypeInv'
  <2>1. parent_stopped' \in BOOLEAN
    BY <1>4 DEF StartFails, StopIfOutOfWork
  <2> QED BY <1>4, <2>1 DEF StartFails
<1>5. CASE StartTerminates
  BY <1>5 DEF StartTerminates
<1>6. ASSUME NEW t \in Threads, TakeTask(t) PROVE TypeInv'
  BY <1>6, TakeFromQueue DEF TakeTask, Pop
<1>7. ASSUME NEW t \in Threads, RunBody(t) PROVE TypeInv'
  BY <1>7 DEF RunBody
<1>8. ASSUME NEW t \in Threads, PostHandler(t) PROVE TypeInv'
  BY <1>8, PostToQueue DEF PostHandler, Post
<1>9. ASSUME NEW t \in Threads, ReleaseWork(t) PROVE TypeInv'
  <2>1. parent_stopped' \in BOOLEAN
    BY <1>9 DEF ReleaseWork, Dying, StopIfOutOfWork
  <2> QED BY <1>9, <2>1 DEF ReleaseWork, Dying
<1>10. ASSUME NEW t \in Threads, ReleaseThis(t) PROVE TypeInv'
  BY <1>10, OnAssumption DEF ReleaseThis, Dying, DropOwner, Alive
<1>11. ASSUME NEW t \in Threads, FinishTask(t) PROVE TypeInv'
  BY <1>11 DEF FinishTask, Dead
<1>12. ASSUME NEW t \in Threads, ExitThread(t) PROVE TypeInv'
  BY <1>12 DEF ExitThread, Leave
<1>13. CASE EnterRun
  BY <1>13 DEF EnterRun
<1>14. CASE CallHandler
  BY <1>14, PostToQueue, TakeFromQueue DEF CallHandler
<1>15. CASE HandlerReturns \/ HandlerThrows
  <2>1. parent_stopped' \in BOOLEAN
    BY <1>15 DEF HandlerReturns, HandlerThrows, LeaveHandler, StopIfOutOfWork
  <2> QED BY <1>15, <2>1 DEF HandlerReturns, HandlerThrows, LeaveHandler
<1>16. CASE ReturnFromRun
  BY <1>16 DEF ReturnFromRun
<1>17. CASE ShutdownServices
  BY <1>17, EmptyQueue DEF ShutdownServices
<1>18. CASE StopPool
  BY <1>18 DEF StopPool
<1>19. CASE JoinThreads
  BY <1>19, EmptyQueue, OnAssumption DEF JoinThreads, DropOwner, Alive
<1>20. CASE JoinTerminates
  BY <1>20 DEF JoinTerminates
<1>21. CASE FreeParent
  BY <1>21, EmptyQueue DEF FreeParent
<1>22. CASE UNCHANGED vars
  BY <1>22 DEF vars
<1> QED
  BY <1>1, <1>2, <1>3, <1>4, <1>5, <1>6, <1>7, <1>8, <1>9, <1>10, <1>11,
     <1>12, <1>13, <1>14, <1>15, <1>16, <1>17, <1>18, <1>19, <1>20, <1>21,
     <1>22
     DEF Next, ThreadStep, ClientLibraryStep, Terminated

\* In every reachable state each variable of the service has its type.
THEOREM TypeCorrect == Spec => []TypeOK
<1>1. Init => TypeInv
  BY EmptyQueue DEF Init, TypeInv, TypeOK, Busy
<1>2. TypeInv => TypeOK
  BY DEF TypeInv
<1> QED BY <1>1, <1>2, TypeInvStep, PTL DEF Spec
-----------------------------------------------------------------------------
(* The inductive invariant.                                                *)

\* Every step of a thread, of run() or of the client preserves IInv.
LEMMA IInvStep == IInv /\ [Next]_vars => IInv'
<1> SUFFICES ASSUME IInv, [Next]_vars PROVE IInv'
  OBVIOUS
<1>a. /\ Range(my_ios) \cup Range(parent_ios) \cup Range(called) \cup Range(started)
          \subseteq Ops
      /\ Answered \subseteq Ops
  BY RangeOfSeq DEF IInv, TypeOK, Answered
<1>b. TypeOK'
  <2>1. TypeInv
    BY <1>a DEF IInv, TypeInv, PlacesApart
  <2> QED BY <2>1, TypeInvStep DEF TypeInv
<1>c. ~Started => client # "handler"
  <2> SUFFICES ASSUME ~Started, client = "handler" PROVE FALSE
    OBVIOUS
  <2>1. Range(called) = {}
    BY EmptyQueue DEF IInv, PoolStartedOnce, QueuesDistinct, Answered
  <2> QED BY <2>1 DEF IInv, ParentKeptRunning
<1> USE DEF IInv, TypeOK, Closing,
            ownerVars, threadVars, queueVars, parentVars, history
<1>1. ASSUME NEW c \in Conns, CreateConnection(c) PROVE IInv'
  <2>1. PinsHeld'
    BY <1>1
       DEF PinsHeld, Carried, Carrying, Busy, Alive, CreateConnection, ClientCode
  <2>2. TeardownOrder'
    BY <1>1 DEF TeardownOrder, AllJoined, Alive, CreateConnection, ClientCode
  <2>3. QueuesDistinct' /\ PlacesApart' /\ NothingLost'
    BY <1>1
       DEF QueuesDistinct, Answered, PlacesApart, Busy, Carrying, NothingLost,
           Carried, CreateConnection, ClientCode
  <2>4. ParentKeptRunning' /\ PoolStartedOnce' /\ QueueInOrder'
    BY <1>1
       DEF ParentKeptRunning, PoolStartedOnce, Started, NoThreadBorn, QueueInOrder,
           CreateConnection, ClientCode
  <2> QED BY <1>b, <2>1, <2>2, <2>3, <2>4
<1>2. ASSUME NEW c \in Conns, DestroyConnection(c) PROVE IInv'
  <2>1. PinsHeld'
    BY <1>2
       DEF PinsHeld, Carried, Carrying, Busy, Alive, DestroyConnection, DropOwner,
           ClientCode
  <2>2. TeardownOrder'
    BY <1>2
       DEF TeardownOrder, AllJoined, Alive, DestroyConnection, DropOwner, ClientCode
  <2>3. QueuesDistinct' /\ PlacesApart' /\ NothingLost'
    BY <1>2
       DEF QueuesDistinct, Answered, PlacesApart, Busy, Carrying, NothingLost,
           Carried, DestroyConnection, DropOwner, ClientCode
  <2>4. ParentKeptRunning' /\ PoolStartedOnce' /\ QueueInOrder'
    BY <1>2
       DEF ParentKeptRunning, PoolStartedOnce, Started, NoThreadBorn, QueueInOrder,
           DestroyConnection, DropOwner, ClientCode
  <2> QED BY <1>b, <2>1, <2>2, <2>3, <2>4
<1>3. ASSUME NEW op \in Ops, Start(op) PROVE IInv'
  \* A new operation: it enters one queue, with both pins.
  <2>0. Carrying' = Carrying /\ Busy' = Busy /\ job' = job
    BY <1>3 DEF Start, EnsureThreadsStarted, NoThreadBorn, Carrying, Busy
  <2>1. QueuesDistinct'
    BY <1>3, PostToQueue
       DEF QueuesDistinct, Answered, Start, SharedFromThis, MakeWork, PushTask,
           ClientCode
  <2>2. PlacesApart'
    BY <1>3, PostToQueue, <2>0
       DEF PlacesApart, Answered, QueuesDistinct, Start, SharedFromThis, MakeWork,
           PushTask, ClientCode
  <2>3. NothingLost'
    BY <1>3, PostToQueue, <2>0
       DEF NothingLost, Answered, Carried, Start, SharedFromThis, MakeWork,
           PushTask, ClientCode
  <2>4. PinsHeld'
    BY <1>3, PostToQueue, <2>0
       DEF PinsHeld, Carried, Alive, Start, SharedFromThis, MakeWork, PushTask,
           ClientCode
  <2>5. ParentKeptRunning'
    BY <1>3, PostToQueue
       DEF ParentKeptRunning, Start, SharedFromThis, MakeWork, PushTask, ClientCode
  <2>6. TeardownOrder'
    BY <1>3, PostToQueue
       DEF TeardownOrder, AllJoined, Alive, Start, SharedFromThis, MakeWork,
           PushTask, EnsureThreadsStarted, ClientCode
  <2>7. PoolStartedOnce'
    BY <1>3, PostToQueue
       DEF PoolStartedOnce, Started, NoThreadBorn, Start, SharedFromThis, MakeWork,
           PushTask, EnsureThreadsStarted, ClientCode
  <2>8. QueueInOrder'
    <3>1. /\ Len(my_ios') = Len(my_ios) + 1 /\ Len(started') = Len(started) + 1
          /\ \A i \in 1..Len(my_ios) : my_ios'[i] = my_ios[i]
          /\ \A i \in 1..Len(started) : started'[i] = started[i]
          /\ my_ios'[Len(my_ios) + 1] = op /\ started'[Len(started) + 1] = op
      BY <1>3, AppendProperties DEF Start, PushTask
    <3>2. Len(my_ios) \in Nat /\ Len(started) \in Nat
      BY LenProperties
    <3>3. IsInjective(started')
      BY <1>3, PostToQueue DEF Start, QueueInOrder
    <3>4. client' = client
      BY <1>3 DEF Start
    <3> HIDE DEF TypeOK
    <3> QED BY <3>1, <3>2, <3>3, <3>4 DEF QueueInOrder
  <2> QED BY <1>b, <2>1, <2>2, <2>3, <2>4, <2>5, <2>6, <2>7, <2>8
<1>4. ASSUME NEW born \in SUBSET Threads, StartFails(born) PROVE IInv'
  <2>0. Carrying' = Carrying /\ Busy' = Busy /\ job' = job
    BY <1>4 DEF StartFails, NoThreadBorn, Carrying, Busy
  <2>1. PlacesApart'
    BY <1>4, <2>0 DEF PlacesApart, Answered, StartFails, ClientCode
  <2>2. NothingLost'
    BY <1>4, <2>0 DEF NothingLost, Answered, Carried, StartFails, ClientCode
  <2>3. PinsHeld'
    BY <1>4, <2>0 DEF PinsHeld, Carried, Alive, StartFails, ClientCode
  <2>4. ParentKeptRunning'
    BY <1>4, EmptyQueue, NoneAssumption, <1>a
       DEF ParentKeptRunning, Outstanding, StopIfOutOfWork, StartFails, ClientCode
  <2>5. TeardownOrder'
    BY <1>4 DEF TeardownOrder, AllJoined, Alive, StartFails, ClientCode
  <2>6. PoolStartedOnce'
    BY <1>4 DEF PoolStartedOnce, Started, NoThreadBorn, StartFails, ClientCode
  <2>7. QueuesDistinct'
    BY <1>4, <2>0 DEF QueuesDistinct, Answered, StartFails, ClientCode
  <2>8. QueueInOrder'
    BY <1>4, <2>0 DEF QueueInOrder, StartFails, ClientCode
  <2> QED BY <1>b, <2>1, <2>2, <2>3, <2>4, <2>5, <2>6, <2>7, <2>8
<1>5. CASE StartTerminates
  <2>1. NothingLost'
    BY <1>5
       DEF NothingLost, Answered, Carried, Carrying, StartTerminates, ClientCode
  <2>2. ParentKeptRunning'
    <3>1. client # "handler"
      BY <1>5, <1>c DEF StartTerminates
    <3> QED BY <1>5, <3>1 DEF ParentKeptRunning, StartTerminates, ClientCode
  <2>3. TeardownOrder'
    BY <1>5 DEF TeardownOrder, AllJoined, Alive, StartTerminates, ClientCode
  <2>4. QueuesDistinct' /\ PlacesApart' /\ PinsHeld'
    BY <1>5
       DEF QueuesDistinct, Answered, PlacesApart, Busy, Carrying, PinsHeld, Carried,
           Alive, StartTerminates, ClientCode
  <2>5. PoolStartedOnce' /\ QueueInOrder'
    BY <1>5
       DEF PoolStartedOnce, Started, NoThreadBorn, QueueInOrder, StartTerminates,
           ClientCode
  <2> QED BY <1>b, <2>1, <2>2, <2>3, <2>4, <2>5
<1>6. ASSUME NEW t \in Threads, TakeTask(t) PROVE IInv'
  \* The task moves from the queue to a thread, with its pins.
  <2>1. QueuesDistinct'
    BY <1>6, TakeFromQueue DEF QueuesDistinct, Answered, TakeTask, Pop
  <2>2. PlacesApart'
    BY <1>6, TakeFromQueue
       DEF PlacesApart, Answered, Busy, Carrying, QueuesDistinct, TakeTask, Pop
  <2>3. NothingLost'
    BY <1>6, TakeFromQueue
       DEF NothingLost, Answered, Carried, Carrying, TakeTask, Pop
  <2>4. PinsHeld'
    BY <1>6, TakeFromQueue
       DEF PinsHeld, Carried, Carrying, Busy, Alive, TakeTask, Pop
  <2>5. TeardownOrder'
    BY <1>6 DEF TeardownOrder, AllJoined, Alive, TakeTask, Pop
  <2>6. QueueInOrder'
    BY <1>6, HeadTailProperties DEF QueueInOrder, TakeTask, Pop
  <2>7. ParentKeptRunning' /\ PoolStartedOnce'
    BY <1>6
       DEF ParentKeptRunning, PoolStartedOnce, Started, NoThreadBorn, TakeTask, Pop
  <2> QED BY <1>b, <2>1, <2>2, <2>3, <2>4, <2>5, <2>6, <2>7
<1>7. ASSUME NEW t \in Threads, RunBody(t) PROVE IInv'
  <2>1. PlacesApart'
    BY <1>7 DEF PlacesApart, Answered, Busy, Carrying, RunBody
  <2>2. NothingLost'
    BY <1>7 DEF NothingLost, Answered, Carried, Carrying, RunBody
  <2>3. PinsHeld'
    BY <1>7 DEF PinsHeld, Carried, Carrying, Busy, Alive, RunBody
  <2>4. TeardownOrder'
    BY <1>7 DEF TeardownOrder, AllJoined, Alive, RunBody
  <2>5. QueuesDistinct'
    BY <1>7 DEF QueuesDistinct, Answered, RunBody
  <2>6. ParentKeptRunning' /\ PoolStartedOnce' /\ QueueInOrder'
    BY <1>7
       DEF ParentKeptRunning, PoolStartedOnce, Started, NoThreadBorn, QueueInOrder,
           RunBody
  <2> QED BY <1>b, <2>1, <2>2, <2>3, <2>4, <2>5, <2>6
<1>8. ASSUME NEW t \in Threads, PostHandler(t) PROVE IInv'
  \* The handler is posted while work_pin keeps the parent running.
  <2>1. QueuesDistinct'
    BY <1>8, PostToQueue, <1>a
       DEF QueuesDistinct, Answered, PlacesApart, Busy, Carrying, PostHandler, Post
  <2>2. PlacesApart'
    BY <1>8, PostToQueue, <1>a
       DEF PlacesApart, Answered, Busy, Carrying, PostHandler, Post
  <2>3. NothingLost'
    BY <1>8, PostToQueue, <1>a, NoneAssumption
       DEF NothingLost, Answered, Carried, Carrying, PostHandler, Post
  <2>4. PinsHeld'
    BY <1>8 DEF PinsHeld, Carried, Carrying, Busy, Alive, PostHandler, Post
  <2>5. ParentKeptRunning'
    <3>1. job[t] \in Carried
      BY <1>8 DEF PostHandler, Carried, Carrying
    <3>2. work_pin # {}
      BY <3>1 DEF PinsHeld
    <3> QED BY <1>8, <3>2 DEF ParentKeptRunning, PostHandler
  <2>6. TeardownOrder'
    <3>1. ~AllJoined
      BY <1>8 DEF PostHandler, AllJoined
    <3> QED BY <1>8, <3>1 DEF TeardownOrder, Alive, PostHandler
  <2>7. PoolStartedOnce' /\ QueueInOrder'
    BY <1>8
       DEF PoolStartedOnce, Started, NoThreadBorn, QueueInOrder, PostHandler, Post
  <2> QED BY <1>b, <2>1, <2>2, <2>3, <2>4, <2>5, <2>6, <2>7
<1>9. ASSUME NEW t \in Threads, ReleaseWork(t) PROVE IInv'
  \* The parent may stop, but then no pin and no handler is left.
  <2>1. PinsHeld'
    BY <1>9
       DEF PinsHeld, Carried, Carrying, Busy, Alive, PlacesApart, ReleaseWork, Dying
  <2>2. ParentKeptRunning'
    BY <1>9, EmptyQueue, NoneAssumption, <1>a
       DEF ParentKeptRunning, Outstanding, StopIfOutOfWork, ReleaseWork, Dying
  <2>3. QueuesDistinct' /\ PlacesApart' /\ NothingLost'
    BY <1>9
       DEF QueuesDistinct, Answered, PlacesApart, Busy, Carrying, NothingLost,
           Carried, ReleaseWork, Dying
  <2>4. TeardownOrder' /\ PoolStartedOnce' /\ QueueInOrder'
    BY <1>9
       DEF TeardownOrder, AllJoined, Alive, PoolStartedOnce, Started, NoThreadBorn,
           QueueInOrder, ReleaseWork, Dying
  <2> QED BY <1>b, <2>1, <2>2, <2>3, <2>4
<1>10. ASSUME NEW t \in Threads, ReleaseThis(t) PROVE IInv'
  \* A driver may die, but then no pin of it is left.
  <2>1. PinsHeld'
    BY <1>10
       DEF PinsHeld, Carried, Carrying, Busy, Alive, PlacesApart, ReleaseThis,
           Dying, DropOwner
  <2>2. QueuesDistinct' /\ PlacesApart' /\ NothingLost'
    BY <1>10
       DEF QueuesDistinct, Answered, PlacesApart, Busy, Carrying, NothingLost,
           Carried, ReleaseThis, Dying, DropOwner
  <2>3. ParentKeptRunning' /\ TeardownOrder' /\ PoolStartedOnce' /\ QueueInOrder'
    BY <1>10
       DEF ParentKeptRunning, TeardownOrder, AllJoined, Alive, PoolStartedOnce,
           Started, NoThreadBorn, QueueInOrder, ReleaseThis, Dying, DropOwner
  <2> QED BY <1>b, <2>1, <2>2, <2>3
<1>11. ASSUME NEW t \in Threads, FinishTask(t) PROVE IInv'
  <2>1. PlacesApart'
    BY <1>11 DEF PlacesApart, Answered, Busy, Carrying, FinishTask, Dead
  <2>2. NothingLost'
    BY <1>11 DEF NothingLost, Answered, Carried, Carrying, FinishTask, Dead
  <2>3. PinsHeld'
    BY <1>11 DEF PinsHeld, Carried, Carrying, Busy, Alive, FinishTask, Dead
  <2>4. TeardownOrder'
    BY <1>11 DEF TeardownOrder, AllJoined, Alive, FinishTask, Dead
  <2>5. QueuesDistinct'
    BY <1>11 DEF QueuesDistinct, Answered, FinishTask, Dead
  <2>6. ParentKeptRunning' /\ PoolStartedOnce' /\ QueueInOrder'
    BY <1>11
       DEF ParentKeptRunning, PoolStartedOnce, Started, NoThreadBorn, QueueInOrder,
           FinishTask, Dead
  <2> QED BY <1>b, <2>1, <2>2, <2>3, <2>4, <2>5, <2>6
<1>12. ASSUME NEW t \in Threads, ExitThread(t) PROVE IInv'
  <2>1. PlacesApart'
    BY <1>12 DEF PlacesApart, Answered, Busy, Carrying, ExitThread, Leave
  <2>2. NothingLost'
    BY <1>12 DEF NothingLost, Answered, Carried, Carrying, ExitThread, Leave
  <2>3. PinsHeld'
    BY <1>12 DEF PinsHeld, Carried, Carrying, Busy, Alive, ExitThread, Leave
  <2>4. TeardownOrder'
    BY <1>12 DEF TeardownOrder, AllJoined, Alive, ExitThread, Leave
  <2>5. QueuesDistinct'
    BY <1>12 DEF QueuesDistinct, Answered, ExitThread, Leave
  <2>6. ParentKeptRunning' /\ PoolStartedOnce' /\ QueueInOrder'
    BY <1>12
       DEF ParentKeptRunning, PoolStartedOnce, Started, NoThreadBorn, QueueInOrder,
           ExitThread, Leave
  <2> QED BY <1>b, <2>1, <2>2, <2>3, <2>4, <2>5, <2>6
<1>13. CASE EnterRun
  <2>1. NothingLost'
    BY <1>13 DEF NothingLost, Answered, Carried, Carrying, EnterRun
  <2>2. ParentKeptRunning'
    <3>1. parent_stopped' => work_pin = {} /\ Range(parent_ios) = {}
      BY <1>13 DEF EnterRun, Outstanding
    <3>2. parent_stopped' => work_pin = {} /\ parent_ios = <<>>
      BY <3>1, EmptyQueue
    <3> QED BY <1>13, <3>2 DEF ParentKeptRunning, EnterRun
  <2>3. TeardownOrder'
    BY <1>13 DEF TeardownOrder, AllJoined, Alive, EnterRun
  <2>4. QueuesDistinct' /\ PlacesApart' /\ PinsHeld'
    BY <1>13
       DEF QueuesDistinct, Answered, PlacesApart, Busy, Carrying, PinsHeld, Carried,
           Alive, EnterRun
  <2>5. PoolStartedOnce' /\ QueueInOrder'
    BY <1>13 DEF PoolStartedOnce, Started, NoThreadBorn, QueueInOrder, EnterRun
  <2> QED BY <1>b, <2>1, <2>2, <2>3, <2>4, <2>5
<1>14. CASE CallHandler
  \* The handler moves from the queue to the history.
  <2>1. QueuesDistinct'
    BY <1>14, PostToQueue, TakeFromQueue
       DEF QueuesDistinct, Answered, PlacesApart, CallHandler
  <2>2. PlacesApart'
    BY <1>14, PostToQueue, TakeFromQueue
       DEF PlacesApart, Answered, Busy, Carrying, QueuesDistinct, CallHandler
  <2>3. NothingLost'
    BY <1>14, PostToQueue, TakeFromQueue
       DEF NothingLost, Answered, Carried, Carrying, CallHandler
  <2>4. ParentKeptRunning'
    BY <1>14, PostToQueue, TakeFromQueue DEF ParentKeptRunning, CallHandler
  <2>5. TeardownOrder'
    BY <1>14 DEF TeardownOrder, AllJoined, Alive, CallHandler
  <2>6. PinsHeld'
    BY <1>14 DEF PinsHeld, Carried, Carrying, Busy, Alive, CallHandler
  <2>7. PoolStartedOnce' /\ QueueInOrder'
    BY <1>14 DEF PoolStartedOnce, Started, NoThreadBorn, QueueInOrder, CallHandler
  <2> QED BY <1>b, <2>1, <2>2, <2>3, <2>4, <2>5, <2>6, <2>7
<1>15. CASE HandlerReturns \/ HandlerThrows
  <2>1. NothingLost'
    BY <1>15
       DEF NothingLost, Answered, Carried, Carrying, HandlerReturns, HandlerThrows,
           LeaveHandler
  <2>2. ParentKeptRunning'
    BY <1>15, EmptyQueue
       DEF ParentKeptRunning, Outstanding, StopIfOutOfWork, HandlerReturns,
           HandlerThrows, LeaveHandler
  <2>3. TeardownOrder'
    BY <1>15
       DEF TeardownOrder, AllJoined, Alive, HandlerReturns, HandlerThrows,
           LeaveHandler
  <2>4. QueuesDistinct' /\ PlacesApart' /\ PinsHeld'
    BY <1>15
       DEF QueuesDistinct, Answered, PlacesApart, Busy, Carrying, PinsHeld, Carried,
           Alive, HandlerReturns, HandlerThrows, LeaveHandler
  <2>5. PoolStartedOnce' /\ QueueInOrder'
    BY <1>15
       DEF PoolStartedOnce, Started, NoThreadBorn, QueueInOrder, HandlerReturns,
           HandlerThrows, LeaveHandler
  <2> QED BY <1>b, <2>1, <2>2, <2>3, <2>4, <2>5
<1>16. CASE ReturnFromRun
  <2>1. NothingLost'
    BY <1>16 DEF NothingLost, Answered, Carried, Carrying, ReturnFromRun
  <2>2. ParentKeptRunning'
    BY <1>16 DEF ParentKeptRunning, ReturnFromRun
  <2>3. TeardownOrder'
    BY <1>16 DEF TeardownOrder, AllJoined, Alive, ReturnFromRun
  <2>4. QueuesDistinct' /\ PlacesApart' /\ PinsHeld'
    BY <1>16
       DEF QueuesDistinct, Answered, PlacesApart, Busy, Carrying, PinsHeld, Carried,
           Alive, ReturnFromRun
  <2>5. PoolStartedOnce' /\ QueueInOrder'
    BY <1>16 DEF PoolStartedOnce, Started, NoThreadBorn, QueueInOrder, ReturnFromRun
  <2> QED BY <1>b, <2>1, <2>2, <2>3, <2>4, <2>5
<1>17. CASE ShutdownServices
  <2>1. QueuesDistinct'
    BY <1>17, EmptyQueue DEF QueuesDistinct, Answered, ShutdownServices
  <2>2. PlacesApart'
    BY <1>17, EmptyQueue DEF PlacesApart, Answered, Busy, Carrying, ShutdownServices
  <2>3. NothingLost'
    BY <1>17 DEF NothingLost, Answered, Carried, Carrying, ShutdownServices
  <2>4. ParentKeptRunning'
    BY <1>17 DEF ParentKeptRunning, ShutdownServices
  <2>5. TeardownOrder'
    BY <1>17 DEF TeardownOrder, AllJoined, Alive, ShutdownServices
  <2>6. PinsHeld'
    BY <1>17 DEF PinsHeld, Carried, Carrying, Busy, Alive, ShutdownServices
  <2>7. PoolStartedOnce' /\ QueueInOrder'
    BY <1>17
       DEF PoolStartedOnce, Started, NoThreadBorn, QueueInOrder, ShutdownServices
  <2> QED BY <1>b, <2>1, <2>2, <2>3, <2>4, <2>5, <2>6, <2>7
<1>18. CASE StopPool
  <2>1. NothingLost'
    BY <1>18 DEF NothingLost, Answered, Carried, Carrying, StopPool
  <2>2. ParentKeptRunning'
    BY <1>18 DEF ParentKeptRunning, StopPool
  <2>3. TeardownOrder'
    BY <1>18 DEF TeardownOrder, AllJoined, Alive, StopPool
  <2>4. QueuesDistinct' /\ PlacesApart' /\ PinsHeld'
    BY <1>18
       DEF QueuesDistinct, Answered, PlacesApart, Busy, Carrying, PinsHeld, Carried,
           Alive, StopPool
  <2>5. PoolStartedOnce' /\ QueueInOrder'
    BY <1>18 DEF PoolStartedOnce, Started, NoThreadBorn, QueueInOrder, StopPool
  <2> QED BY <1>b, <2>1, <2>2, <2>3, <2>4, <2>5
<1>19. CASE JoinThreads
  \* No thread is left; the tasks nobody ran die with their pins.
  <2>1. QueuesDistinct'
    BY <1>19, EmptyQueue DEF QueuesDistinct, Answered, JoinThreads, DropOwner
  <2>2. PlacesApart'
    BY <1>19, EmptyQueue
       DEF PlacesApart, Answered, Busy, Carrying, AllJoined, JoinThreads, DropOwner
  <2>3. NothingLost'
    BY <1>19 DEF NothingLost, Answered, Carried, Carrying, JoinThreads, DropOwner
  <2>4. PinsHeld'
    BY <1>19, EmptyQueue
       DEF PinsHeld, Carried, Carrying, Busy, Alive, AllJoined, JoinThreads,
           DropOwner
  <2>5. ParentKeptRunning'
    BY <1>19 DEF ParentKeptRunning, JoinThreads, DropOwner
  <2>6. TeardownOrder'
    BY <1>19 DEF TeardownOrder, AllJoined, Alive, JoinThreads, DropOwner
  <2>7. PoolStartedOnce' /\ QueueInOrder'
    BY <1>19
       DEF PoolStartedOnce, Started, NoThreadBorn, QueueInOrder, JoinThreads,
           DropOwner
  <2> QED BY <1>b, <2>1, <2>2, <2>3, <2>4, <2>5, <2>6, <2>7
<1>20. CASE JoinTerminates
  <2>1. NothingLost'
    <3>1. started = <<>>
      BY <1>20 DEF JoinTerminates, PoolStartedOnce, Started
    <3>2. Range(started) = {}
      BY <3>1, EmptyQueue
    <3>3. Range(my_ios) = {} /\ Answered = {} /\ Carrying = {}
      BY <3>2 DEF QueuesDistinct, PlacesApart, Carrying, Busy
    <3>4. Answered' = Answered /\ Carrying' = Carrying
      BY <1>20 DEF JoinTerminates, Answered, Carrying
    <3> QED BY <1>20, <3>2, <3>3, <3>4 DEF NothingLost, Carried, JoinTerminates
  <2>2. ParentKeptRunning'
    BY <1>20 DEF ParentKeptRunning, JoinTerminates
  <2>3. TeardownOrder'
    BY <1>20 DEF TeardownOrder, AllJoined, Alive, JoinTerminates
  <2>4. QueueInOrder'
    <3>1. started = <<>>
      BY <1>20 DEF JoinTerminates, PoolStartedOnce, Started
    <3>2. my_ios = <<>>
      BY <3>1, EmptyQueue DEF QueuesDistinct
    <3> QED BY <1>20, <3>1, <3>2 DEF QueueInOrder, JoinTerminates
  <2>5. QueuesDistinct' /\ PlacesApart' /\ PinsHeld'
    BY <1>20
       DEF QueuesDistinct, Answered, PlacesApart, Busy, Carrying, PinsHeld, Carried,
           Alive, JoinTerminates
  <2>6. PoolStartedOnce'
    BY <1>20 DEF PoolStartedOnce, Started, NoThreadBorn, JoinTerminates
  <2> QED BY <1>b, <2>1, <2>2, <2>3, <2>4, <2>5, <2>6
<1>21. CASE FreeParent
  <2>1. QueuesDistinct'
    BY <1>21, EmptyQueue DEF QueuesDistinct, Answered, FreeParent
  <2>2. PlacesApart'
    BY <1>21, EmptyQueue DEF PlacesApart, Answered, Busy, Carrying, FreeParent
  <2>3. NothingLost'
    BY <1>21 DEF NothingLost, Answered, Carried, Carrying, FreeParent
  <2>4. ParentKeptRunning'
    BY <1>21 DEF ParentKeptRunning, FreeParent
  <2>5. TeardownOrder'
    BY <1>21 DEF TeardownOrder, AllJoined, Alive, FreeParent
  <2>6. PinsHeld'
    BY <1>21 DEF PinsHeld, Carried, Carrying, Busy, Alive, FreeParent
  <2>7. PoolStartedOnce' /\ QueueInOrder'
    BY <1>21 DEF PoolStartedOnce, Started, NoThreadBorn, QueueInOrder, FreeParent
  <2> QED BY <1>b, <2>1, <2>2, <2>3, <2>4, <2>5, <2>6, <2>7
<1>22. CASE UNCHANGED vars
  BY <1>22, <1>b
     DEF vars, QueuesDistinct, Answered, PlacesApart, Busy, Carrying, NothingLost,
         Carried, PinsHeld, Alive, ParentKeptRunning, TeardownOrder, AllJoined,
         PoolStartedOnce, Started, NoThreadBorn, QueueInOrder
<1> QED
  BY <1>1, <1>2, <1>3, <1>4, <1>5, <1>6, <1>7, <1>8, <1>9, <1>10, <1>11,
     <1>12, <1>13, <1>14, <1>15, <1>16, <1>17, <1>18, <1>19, <1>20, <1>21,
     <1>22
     DEF Next, ThreadStep, ClientLibraryStep, Terminated

\* Queues, threads, pins and the parent's stop flag agree in every reachable
\* state: the invariant from which the safety properties below follow.
THEOREM IInvHolds == Spec => []IInv
<1>1. ASSUME Init PROVE IInv
  <2>1. /\ Busy = {} /\ Carrying = {} /\ Carried = {} /\ Answered = {} /\ Alive = {}
        /\ Range(my_ios) = {} /\ Range(started) = {} /\ NoThreadBorn
    BY <1>1, EmptyQueue
       DEF Init, Busy, Carrying, Carried, Answered, Alive, NoThreadBorn
  <2>2. TypeOK
    BY <1>1, EmptyQueue DEF Init, TypeOK
  <2>3. QueuesDistinct /\ PlacesApart /\ NothingLost /\ PinsHeld
    BY <1>1, <2>1, EmptyQueue
       DEF Init, QueuesDistinct, PlacesApart, NothingLost, PinsHeld
  <2>4. ParentKeptRunning /\ TeardownOrder /\ PoolStartedOnce
    BY <1>1, <2>1
       DEF Init, ParentKeptRunning, TeardownOrder, PoolStartedOnce, Closing
  <2>5. QueueInOrder
    BY <1>1, EmptyQueue DEF Init, QueueInOrder
  <2> QED BY <2>2, <2>3, <2>4, <2>5 DEF IInv
<1> QED BY <1>1, IInvStep, PTL DEF Spec

-----------------------------------------------------------------------------
(* The safety properties.                                                  *)

\* No completion handler is called twice.
THEOREM HandlersCalledOnce == Spec => []HandlerAtMostOnce
<1>1. IInv => HandlerAtMostOnce
  BY DEF IInv, QueuesDistinct, HandlerAtMostOnce
<1> QED BY <1>1, IInvHolds, PTL

\* No operation disappears before the io_service is torn down.
THEOREM OperationsNotLost == Spec => []NothingLost
<1>1. IInv => NothingLost
  BY DEF IInv
<1> QED BY <1>1, IInvHolds, PTL

\* A task's raw this points to a live driver.
THEOREM DriverAliveInTasks == Spec => []DriverOutlivesTasks
<1>1. ASSUME IInv PROVE DriverOutlivesTasks
  <2> SUFFICES ASSUME NEW t \in Carrying PROVE On[job[t]] \in driver
    BY DEF DriverOutlivesTasks
  <2>1. job[t] \in this_pin
    BY <1>1 DEF Carried, IInv, PinsHeld
  <2> QED BY <1>1, <2>1 DEF IInv, PinsHeld
<1> QED BY <1>1, IInvHolds, PTL

\* Once ~sqlite_service has returned nothing refers to the client's io_service.
THEOREM ParentSafeToFree == Spec => []ParentOutlivesPool
<1>1. ASSUME IInv PROVE ParentOutlivesPool
  <2> SUFFICES ASSUME client \in {"joined", "gone"}
               PROVE  Busy = {} /\ work_pin = {}
    BY DEF ParentOutlivesPool
  <2>1. my_ios = <<>> /\ Busy = {}
    BY <1>1 DEF IInv, TeardownOrder, AllJoined, Busy
  <2> QED BY <1>1, <2>1, EmptyQueue DEF IInv, PinsHeld
<1> QED BY <1>1, IInvHolds, PTL

\* Every driver is gone when the io_service is.
THEOREM DriverDestroyedInTheEnd == Spec => []DriverDestroyed
<1>1. ASSUME IInv PROVE DriverDestroyed
  <2> SUFFICES ASSUME client = "gone" PROVE Alive = {} /\ this_pin = {}
    BY <1>1 DEF DriverDestroyed, IInv, PinsHeld
  <2>1. my_ios = <<>> /\ Busy = {} /\ Alive = {}
    BY <1>1 DEF IInv, TeardownOrder, AllJoined, Busy, Closing
  <2> QED BY <1>1, <2>1, EmptyQueue DEF IInv, PinsHeld
<1> QED BY <1>1, IInvHolds, PTL

\* The creation of threads ends the process only if the pool never accepted an
\* operation.
THEOREM NoTerminationOfClients == Spec => []NoTerminateOnceStarted
<1>1. IInv => NoTerminateOnceStarted
  BY DEF IInv, PoolStartedOnce, NoTerminateOnceStarted
<1> QED BY <1>1, IInvHolds, PTL

\* run() returns to the client only with every operation completed.
THEOREM RunWaitsForAll == Spec => RunReturnsOnlyWhenIdle
<1>1. ASSUME IInv, [Next]_vars, client = "polling", client' = "user"
      PROVE  Range(started) \subseteq Range(called)
  <2>1. ReturnFromRun
    BY <1>1
       DEF Next, ThreadStep, ClientLibraryStep, Terminated, CreateConnection,
           DestroyConnection, Start, StartFails, StartTerminates, TakeTask, RunBody,
           PostHandler, ReleaseWork, ReleaseThis, FinishTask, ExitThread, EnterRun,
           CallHandler, HandlerReturns, HandlerThrows, LeaveHandler, ShutdownServices,
           StopPool, JoinThreads, JoinTerminates, FreeParent, vars
  <2>2. work_pin = {} /\ parent_ios = <<>>
    BY <1>1, <2>1 DEF ReturnFromRun, IInv, ParentKeptRunning
  <2>3. Range(my_ios) = {} /\ Carried = {}
    BY <1>1, <2>2 DEF IInv, PinsHeld
  <2> QED BY <1>1, <2>2, <2>3, EmptyQueue DEF IInv, NothingLost, Answered, Closing
<1>2. IInv /\ [Next]_vars =>
        [client = "polling" /\ client' = "user" =>
            Range(started) \subseteq Range(called)]_vars
  BY <1>1
<1> QED BY <1>2, IInvHolds, PTL DEF Spec, RunReturnsOnlyWhenIdle

-----------------------------------------------------------------------------
(* The order of the answers.                                               *)

\* The operations started before the i-th one and not answered yet.
Ahead(i) == {started[j] : j \in 1..(i - 1)} \ Answered

\* A step that starts, takes and answers nothing keeps OvertakesFew.
LEMMA OvertakesFewFrame ==
    ASSUME OvertakesFew, client \in Closing => client' \in Closing,
           started' = started, Answered' = Answered,
           Carrying' = Carrying, \A t \in Carrying : job'[t] = job[t]
    PROVE  OvertakesFew'
BY DEF OvertakesFew

\* OvertakesFew is kept by every step: an operation is answered by a thread
\* that took it from the head of the queue, when nothing older was left there,
\* and from then on what it has overtaken only gets less.
LEMMA OvertakesFewStep ==
    IInv /\ IInv' /\ OvertakesFew /\ [Next]_vars => OvertakesFew'
<1> SUFFICES ASSUME IInv, IInv', OvertakesFew, [Next]_vars PROVE OvertakesFew'
  OBVIOUS
<1> USE DEF ownerVars, threadVars, queueVars, parentVars, history
<1>a. /\ my_ios \in Seq(Ops) /\ started \in Seq(Ops)
      /\ Len(my_ios) \in Nat /\ Len(started) \in Nat
      /\ DOMAIN my_ios = 1..Len(my_ios) /\ DOMAIN started = 1..Len(started)
  BY LenProperties DEF IInv, TypeOK
<1>1. ASSUME NEW op \in Ops, Start(op) PROVE OvertakesFew'
  <2>1. /\ Len(started') = Len(started) + 1 /\ started' \in Seq(Ops)
        /\ \A i \in 1..Len(started) : started'[i] = started[i]
        /\ started'[Len(started) + 1] = op
    BY <1>1, <1>a, AppendProperties DEF Start
  <2>2. /\ Answered' = Answered /\ Carrying' = Carrying /\ job' = job
        /\ client' = client
    BY <1>1 DEF Start, Answered, Carrying, EnsureThreadsStarted, NoThreadBorn, IInv, TypeOK
  <2>3. op \notin Answered
    BY <1>1 DEF Start, IInv, QueuesDistinct
  <2> SUFFICES ASSUME client \notin Closing, NEW i \in DOMAIN started',
                      started'[i] \in Answered
               PROVE  \E t \in Threads :
                        {started'[j] : j \in 1..(i - 1)} \ Answered
                            \subseteq {job[u] : u \in Carrying \ {t}}
    BY <2>2 DEF OvertakesFew
  <2>4. i \in 1..Len(started)
    BY <1>a, <2>1, <2>3, LenProperties
  <2>5. {started'[j] : j \in 1..(i - 1)} = {started[j] : j \in 1..(i - 1)}
    BY <1>a, <2>1, <2>4
  <2> QED BY <1>a, <2>1, <2>4, <2>5 DEF OvertakesFew
<1>2. ASSUME NEW t \in Threads, TakeTask(t) PROVE OvertakesFew'
  <2>1. /\ UNCHANGED <<client, started, Answered>>
        /\ t \notin Carrying /\ Carrying' = Carrying \cup {t}
        /\ \A u \in Carrying : job'[u] = job[u]
    BY <1>2 DEF TakeTask, Pop, Answered, Carrying, IInv, TypeOK
  <2> QED BY <2>1 DEF OvertakesFew
<1>3. ASSUME NEW t \in Threads, PostHandler(t) PROVE OvertakesFew'
  <2>1. /\ UNCHANGED <<client, started, job, my_ios>>
        /\ t \in Carrying /\ Carrying' = Carrying \ {t}
    BY <1>3 DEF PostHandler, Carrying, IInv, TypeOK
  <2>2. job[t] \in Ops /\ job[t] \in Range(started) \ Range(my_ios)
    BY <1>a, <2>1, RangeOfSeq DEF IInv, PlacesApart, Busy, Carrying
  <2>3. Answered' = Answered \cup {job[t]}
    BY <1>3, <2>2, PostToQueue DEF PostHandler, Post, Answered, IInv, TypeOK
  <2> SUFFICES ASSUME client \notin Closing, NEW i \in DOMAIN started,
                      started[i] \in Answered'
               PROVE  \E v \in Threads :
                        Ahead(i) \ {job[t]} \subseteq {job[u] : u \in Carrying \ {t, v}}
    BY <2>1, <2>3 DEF OvertakesFew, Ahead
  <2>4. CASE started[i] \in Answered
    <3>1. PICK v \in Threads : Ahead(i) \subseteq {job[u] : u \in Carrying \ {v}}
      BY <2>4 DEF OvertakesFew, Ahead
    <3>2. Ahead(i) \ {job[t]} \subseteq {job[u] : u \in Carrying \ {t, v}}
      BY <3>1
    <3> QED BY <3>2
  <2>5. CASE started[i] = job[t]
    <3>1. \A j \in 1..(i - 1) : started[j] \notin Range(my_ios)
      <4> SUFFICES ASSUME NEW j \in 1..(i - 1), NEW k \in DOMAIN my_ios,
                          started[j] = my_ios[k]
                   PROVE  FALSE
        BY DEF Range
      <4>1. /\ Len(my_ios) <= Len(started)
            /\ \A l \in 1..Len(my_ios) :
                    my_ios[l] = started[Len(started) - Len(my_ios) + l]
        BY DEF IInv, QueueInOrder
      <4>2. Len(started) - Len(my_ios) + k \in DOMAIN started /\ j \in DOMAIN started
        BY <1>a, <4>1
      <4>3. j = Len(started) - Len(my_ios) + k
        BY <1>a, <4>1, <4>2 DEF IInv, QueueInOrder, IsInjective
      <4>4. /\ k + (i - j) \in 1..Len(my_ios)
            /\ Len(started) - Len(my_ios) + (k + (i - j)) = i
        BY <1>a, <4>3
      <4>5. started[i] \in Range(my_ios)
        BY <1>a, <4>1, <4>4 DEF Range
      <4> QED BY <2>2, <2>5, <4>5
    <3>2. Range(started) = Range(my_ios) \cup Carried \cup Answered
      BY DEF IInv, NothingLost
    <3>3. \A j \in 1..(i - 1) : started[j] \in Carried \cup Answered
      BY <1>a, <3>1, <3>2 DEF Range
    <3>4. Ahead(i) \ {job[t]} \subseteq {job[u] : u \in Carrying \ {t}}
      BY <3>3 DEF Ahead, Carried
    <3> QED BY <3>4
  <2> QED BY <2>3, <2>4, <2>5
<1>4. ASSUME NEW t \in Threads,
             RunBody(t) \/ ReleaseWork(t) \/ ReleaseThis(t) \/ FinishTask(t)
                \/ ExitThread(t)
      PROVE  OvertakesFew'
  <2>1. UNCHANGED <<client, started, Answered>>
    BY <1>4
       DEF RunBody, ReleaseWork, ReleaseThis, FinishTask, ExitThread, Answered
  <2>2. Carrying' = Carrying /\ \A u \in Carrying : job'[u] = job[u]
    BY <1>4
       DEF RunBody, ReleaseWork, ReleaseThis, FinishTask, ExitThread, Leave, Carrying,
           IInv, TypeOK
  <2> QED BY <2>1, <2>2, OvertakesFewFrame
<1>5. CASE CallHandler
  <2>1. Answered' = Answered
    BY <1>5, PostToQueue, TakeFromQueue DEF CallHandler, Answered, IInv, TypeOK
  <2> QED BY <1>5, <2>1, OvertakesFewFrame DEF CallHandler, Carrying, Closing
<1>6. ASSUME NEW born \in SUBSET Threads, StartFails(born) PROVE OvertakesFew'
  <2>1. Carrying' = Carrying
    BY <1>6 DEF StartFails, NoThreadBorn, Carrying
  <2> QED BY <1>6, <2>1, OvertakesFewFrame DEF StartFails, Answered
<1>7. CASE \/ \E c \in Conns : CreateConnection(c) \/ DestroyConnection(c)
           \/ StartTerminates \/ EnterRun \/ HandlerReturns \/ HandlerThrows
           \/ ReturnFromRun \/ UNCHANGED vars
  <2>1. /\ UNCHANGED <<started, Answered, Carrying, job>>
        /\ client \in Closing => client' = client
    BY <1>7
       DEF CreateConnection, DestroyConnection, StartTerminates, ClientCode, EnterRun,
           HandlerReturns, HandlerThrows, LeaveHandler, ReturnFromRun, Answered,
           Carrying, Closing, vars
  <2> QED BY <2>1, OvertakesFewFrame
<1>8. CASE ShutdownServices \/ StopPool \/ JoinThreads \/ FreeParent
  BY <1>8 DEF ShutdownServices, StopPool, JoinThreads, FreeParent, Closing, OvertakesFew
<1>9. CASE JoinTerminates
  <2>1. started' = <<>>
    BY <1>9 DEF JoinTerminates, IInv, PoolStartedOnce, Started
  <2> QED BY <2>1 DEF OvertakesFew
<1> QED
  BY <1>1, <1>2, <1>3, <1>4, <1>5, <1>6, <1>7, <1>8, <1>9
     DEF Next, ThreadStep, ClientLibraryStep, Terminated

\* An answered operation has overtaken only what other threads are carrying,
\* for any number of threads; with one thread, the answers are in order.
THEOREM AnswersAlmostInOrder == Spec => []OvertakesFew
<1>1. Init => OvertakesFew
  BY DEF Init, OvertakesFew
<1> QED BY <1>1, IInvHolds, OvertakesFewStep, PTL DEF Spec

-----------------------------------------------------------------------------
(* Refinement of AsyncContract.                                            *)

\* The operations between start and call, wherever they are.
Waiting == Range(my_ios) \cup Carried \cup Range(parent_ios)

StatusMap == [op \in Ops |-> Status(op)]

\* A step that neither starts, completes nor drops an operation is invisible
\* to the contract unless it moves the client.
LEMMA NothingVisible ==
    ASSUME started' = started, called' = called, Waiting' = Waiting
    PROVE  StatusMap' = StatusMap
BY DEF StatusMap, Status, Waiting

\* A step that empties some operations out of Waiting, and touches nothing
\* else, drops exactly those.
LEMMA DropVisible ==
    ASSUME started' = started, called' = called, NEW S \in SUBSET Ops,
           S \subseteq Waiting, S \cap Range(called) = {}, S \subseteq Range(started),
           Waiting' = Waiting \ S
    PROVE  /\ S \subseteq Contract!Pending
           /\ Contract!SetStatus(S, "dropped")
<1>1. \A op \in S : Status(op) = "pending"
  BY DEF Status, Waiting
<1>2. \A op \in Ops : Status(op)' = IF op \in S THEN "dropped" ELSE Status(op)
  BY DEF Status, Waiting
<1> QED BY <1>1, <1>2 DEF Contract!Pending, Contract!SetStatus

\* Each step of the service is a step of the contract, or changes neither the
\* status of an operation nor the phase of the client.
LEMMA StepRefines ==
    IInv /\ IInv' /\ [Next]_vars => [Contract!Next]_(Contract!vars)
<1> SUFFICES ASSUME IInv, IInv', [Next]_vars
             PROVE  Contract!Next \/ UNCHANGED <<StatusMap, Phase>>
  BY DEF Contract!vars, StatusMap
<1> USE DEF IInv, ownerVars, threadVars, queueVars, parentVars, history
<1>a. Range(my_ios) \cup Range(parent_ios) \cup Range(called) \cup Range(started)
        \subseteq Ops
  BY RangeOfSeq DEF TypeOK
<1>b. Carried \subseteq Range(started) /\ Carried \cap Range(called) = {}
  BY DEF PlacesApart, Carried, Carrying, Busy, Answered
<1>1. ASSUME NEW op \in Ops, Start(op) PROVE Contract!Start(op)
  <2>1. /\ Range(started') = Range(started) \cup {op}
        /\ Range(my_ios') = Range(my_ios) \cup {op}
    BY <1>1, PostToQueue DEF Start, PushTask, TypeOK
  <2>2. Carried' = Carried
    BY <1>1 DEF Carried, Carrying, Start, EnsureThreadsStarted, NoThreadBorn, TypeOK
  <2>3. parent_ios' = parent_ios /\ called' = called /\ client' = client
    BY <1>1 DEF Start
  <2>4. op \notin Range(started) /\ op \notin Range(called)
    BY <1>1 DEF Start, QueuesDistinct, Answered
  <2>5. \A o \in Ops : Status(o)' = IF o = op THEN "pending" ELSE Status(o)
    BY <2>1, <2>2, <2>3, <2>4 DEF Status
  <2>6. Phase' = Phase /\ Phase \in {"user", "handler"}
    BY <1>1, <2>3 DEF Phase, Start, ClientCode
  <2> QED BY <2>4, <2>5, <2>6 DEF Contract!Start, Contract!SetStatus, Status
<1>2. ASSUME NEW t \in Threads, TakeTask(t) PROVE UNCHANGED <<StatusMap, Phase>>
  <2>1. Range(my_ios) = Range(my_ios') \cup {Head(my_ios)}
    BY <1>2, TakeFromQueue DEF TakeTask, Pop, TypeOK
  <2>2. Carried' = Carried \cup {Head(my_ios)}
    BY <1>2 DEF TakeTask, Pop, Carried, Carrying, TypeOK
  <2>3. Waiting' = Waiting
    BY <1>2, <2>1, <2>2 DEF Waiting, TakeTask
  <2> QED BY <1>2, <2>3, NothingVisible DEF TakeTask, Phase
<1>3. ASSUME NEW t \in Threads, PostHandler(t) PROVE UNCHANGED <<StatusMap, Phase>>
  <2>1. Range(parent_ios') = Range(parent_ios) \cup {job[t]}
    <3>1. job[t] \in Ops
      BY <1>3, <1>a DEF PlacesApart, Busy, PostHandler
    <3> QED BY <1>3, <3>1, PostToQueue DEF PostHandler, Post, TypeOK
  <2>2. Carried = Carried' \cup {job[t]}
    BY <1>3 DEF PostHandler, Carried, Carrying, TypeOK
  <2>3. Waiting' = Waiting
    BY <1>3, <2>1, <2>2 DEF Waiting, PostHandler
  <2> QED BY <1>3, <2>3, NothingVisible DEF PostHandler, Phase
<1>4. ASSUME NEW t \in Threads,
             RunBody(t) \/ ReleaseWork(t) \/ ReleaseThis(t) \/ FinishTask(t)
                \/ ExitThread(t)
      PROVE  UNCHANGED <<StatusMap, Phase>>
  <2>1. UNCHANGED <<started, called, my_ios, parent_ios, client>>
    BY <1>4 DEF RunBody, ReleaseWork, ReleaseThis, FinishTask, ExitThread
  <2>2. Carrying' = Carrying /\ \A u \in Carrying : job'[u] = job[u]
    BY <1>4
       DEF RunBody, ReleaseWork, ReleaseThis, FinishTask, ExitThread, Leave, Carrying,
           TypeOK
  <2> QED BY <2>1, <2>2, NothingVisible DEF Waiting, Carried, Phase
<1>5. ASSUME NEW born \in SUBSET Threads, StartFails(born)
      PROVE  UNCHANGED <<StatusMap, Phase>>
  <2>1. UNCHANGED <<started, called, my_ios, parent_ios, client, Carried>>
    BY <1>5 DEF StartFails, NoThreadBorn, Carried, Carrying
  <2> QED BY <2>1, NothingVisible DEF Waiting, Phase
<1>6. CASE \/ \E c \in Conns : CreateConnection(c) \/ DestroyConnection(c)
           \/ StopPool \/ UNCHANGED vars
  <2>1. UNCHANGED <<started, called, my_ios, parent_ios, Carried, Phase>>
    BY <1>6 DEF CreateConnection, DestroyConnection, StopPool, vars, Carried, Carrying, Phase
  <2> QED BY <2>1, NothingVisible DEF Waiting
<1>7. ASSUME EnterRun \/ HandlerReturns \/ HandlerThrows
      PROVE  Contract!EnterRun \/ Contract!HandlerReturns \/ Contract!HandlerThrows
  <2>1. UNCHANGED <<started, called, my_ios, parent_ios, Carried>>
    BY <1>7 DEF EnterRun, HandlerReturns, HandlerThrows, LeaveHandler, Carried, Carrying
  <2>2. StatusMap' = StatusMap
    BY <2>1, NothingVisible DEF Waiting
  <2> QED BY <1>7, <2>2
          DEF EnterRun, HandlerReturns, HandlerThrows, LeaveHandler, Phase, StatusMap,
              Contract!EnterRun, Contract!HandlerReturns, Contract!HandlerThrows,
              Contract!Move
<1>8. ASSUME CallHandler PROVE \E op \in Ops : Contract!Call(op)
  <2> DEFINE op == Head(parent_ios)
  <2>1. /\ op \in Ops
        /\ Range(parent_ios) = Range(parent_ios') \cup {op}
        /\ Range(called') = Range(called) \cup {op}
    BY <1>8, PostToQueue, TakeFromQueue DEF CallHandler, TypeOK
  <2>2. UNCHANGED <<my_ios, started, Carried>>
    BY <1>8 DEF CallHandler, Carried, Carrying
  <2>3. op \in Range(started) /\ op \notin Range(called)
    BY <2>1 DEF QueuesDistinct, PlacesApart, Answered
  <2> HIDE DEF op
  <2>4. \A o \in Ops : Status(o)' = IF o = op THEN "called" ELSE Status(o)
    BY <2>1, <2>2, <2>3 DEF Status
  <2>5. Status(op) = "pending"
    BY <2>1, <2>3 DEF Status
  <2>6. Phase = "polling" /\ Phase' = "handler"
    BY <1>8 DEF CallHandler, Phase
  <2>7. Contract!Call(op)
    BY <2>1, <2>4, <2>5, <2>6 DEF Contract!Call, Contract!SetStatus, Contract!Pending
  <2> QED BY <2>1, <2>7
<1>9. ASSUME ReturnFromRun PROVE Contract!ReturnFromRun
  <2>1. UNCHANGED <<started, called, my_ios, parent_ios, Carried>>
    BY <1>9 DEF ReturnFromRun, Carried, Carrying
  <2>2. Range(my_ios) = {} /\ Carried = {} /\ Range(parent_ios) = {}
    BY <1>9, EmptyQueue DEF ReturnFromRun, ParentKeptRunning, PinsHeld
  <2>3. Contract!Pending = {}
    BY <2>2 DEF Contract!Pending, Status
  <2>4. StatusMap' = StatusMap
    BY <2>1, NothingVisible DEF Waiting
  <2> QED BY <1>9, <2>3, <2>4
          DEF ReturnFromRun, Contract!ReturnFromRun, Contract!Move, Phase, StatusMap
<1>10. ASSUME StartTerminates \/ JoinTerminates PROVE Contract!Terminate
  <2>1. UNCHANGED <<started, called, my_ios, parent_ios, Carried>>
    BY <1>10 DEF StartTerminates, JoinTerminates, Carried, Carrying
  <2>2. StatusMap' = StatusMap
    BY <2>1, NothingVisible DEF Waiting
  <2>3. started = <<>>
    BY <1>10 DEF StartTerminates, JoinTerminates, PoolStartedOnce, Started
  <2>4. Contract!Pending = {}
    BY <2>3, EmptyQueue DEF Contract!Pending, Status
  <2> QED BY <1>10, <2>2, <2>4
          DEF StartTerminates, JoinTerminates, ClientCode, Phase, StatusMap,
              Contract!Terminate
<1>11. ASSUME ShutdownServices PROVE Contract!BeginTeardown
  <2> DEFINE S == Range(parent_ios)
  <2>1. UNCHANGED <<started, called, my_ios, Carried>> /\ Range(parent_ios') = {}
    BY <1>11, EmptyQueue DEF ShutdownServices, Carried, Carrying
  <2>2. S \cap (Range(my_ios) \cup Carried) = {}
    BY DEF PlacesApart, Carried, Carrying, Answered
  <2>3. Waiting' = Waiting \ S
    BY <2>1, <2>2 DEF Waiting
  <2>4. S \subseteq Contract!Pending /\ Contract!SetStatus(S, "dropped")
    BY <1>a, <2>1, <2>3, DropVisible DEF Waiting, QueuesDistinct, PlacesApart, Answered
  <2>5. Phase = "user" /\ Phase' = "closing"
    BY <1>11 DEF ShutdownServices, Phase
  <2> QED BY <2>4, <2>5 DEF Contract!BeginTeardown
<1>12. ASSUME JoinThreads PROVE Contract!Drop
  <2> DEFINE S == Range(my_ios)
  <2>1. /\ UNCHANGED <<started, called, parent_ios, Carried>>
        /\ Range(my_ios') = {}
    BY <1>12, EmptyQueue DEF JoinThreads, Carried, Carrying
  <2>2. Carried = {}
    BY <1>12 DEF JoinThreads, AllJoined, Carried, Carrying
  <2>3. Waiting' = Waiting \ S
    BY <2>1, <2>2 DEF Waiting, PlacesApart, Answered
  <2>4. S \subseteq Contract!Pending /\ Contract!SetStatus(S, "dropped")
    BY <1>a, <2>1, <2>3, DropVisible DEF Waiting, QueuesDistinct, PlacesApart, Answered
  <2>5. Phase = "closing" /\ Phase' = "closing"
    BY <1>12 DEF JoinThreads, Phase
  <2> QED BY <2>4, <2>5 DEF Contract!Drop
<1>13. ASSUME FreeParent PROVE Contract!EndTeardown
  <2> DEFINE S == Range(parent_ios)
  <2>1. /\ UNCHANGED <<started, called, my_ios, Carried>>
        /\ Range(parent_ios') = {}
    BY <1>13, EmptyQueue DEF FreeParent, Carried, Carrying
  <2>2. Range(my_ios) = {} /\ Carried = {}
    BY <1>13, EmptyQueue DEF FreeParent, TeardownOrder, AllJoined, Carried, Carrying
  <2>3. Waiting' = Waiting \ S
    BY <2>1, <2>2 DEF Waiting
  <2>4. S \subseteq Contract!Pending /\ Contract!SetStatus(S, "dropped")
    BY <1>a, <2>1, <2>3, DropVisible DEF Waiting, QueuesDistinct, PlacesApart, Answered
  <2>5. Contract!Pending \subseteq S
    BY <2>2 DEF Contract!Pending, Status
  <2>6. Contract!Pending = S
    BY <2>4, <2>5
  <2>7. Phase = "closing" /\ Phase' = "gone"
    BY <1>13 DEF FreeParent, Phase
  <2> QED BY <2>4, <2>6, <2>7 DEF Contract!EndTeardown
<1> QED
  BY <1>1, <1>2, <1>3, <1>4, <1>5, <1>6, <1>7, <1>8, <1>9, <1>10, <1>11, <1>12, <1>13
     DEF Next, ThreadStep, ClientLibraryStep, Terminated, Contract!Next

\* The pool, its threads, queues and reference counts implement the contract
\* a client reads off the interface.
THEOREM RefinesContract == Spec => ImplementsContract
<1>1. Init => Contract!Init
  BY EmptyQueue DEF Init, Contract!Init, Status, Phase
<1> QED BY <1>1, IInvHolds, StepRefines, PTL
        DEF Spec, ImplementsContract, Contract!Spec
==============================================================================
