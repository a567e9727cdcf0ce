---------------------------- MODULE SqliteService ----------------------------
(***************************************************************************)
(* detail::sqlite_service: the pool of threads every adio::sqlite          *)
(* connection of an io_service shares, and the life of one asynchronous    *)
(* operation: a task posted to the pool's private io_service (_my_ios),    *)
(* run by a pool thread, whose completion handler is posted back to the    *)
(* client's io_service (_parent_ios) and called from run().                *)
(*                                                                         *)
(* A task closure holds two pins, both released when the closure dies on   *)
(* the pool thread: this_pin, a shared_ptr to the driver, and work_pin, an *)
(* io_service::work that keeps the client's run() from returning.          *)
(* The counters behind them (use_count, outstanding work) are represented  *)
(* by the sets they count.                                                 *)
(*                                                                         *)
(* One client thread owns the connections and the io_service.  It destroys *)
(* the connections before the io_service and never destroys the latter     *)
(* from inside run(), as C++ scoping does in every test.  What a task does *)
(* to the database is one step here; SqliteConnection opens it up.         *)
(***************************************************************************)
EXTENDS Naturals, Sequences, Functions

CONSTANTS
    Conns,      \* the connections the client may create
    Ops,        \* the asynchronous calls it may make on them
    On,         \* Ops -> the connection, and driver, a call is made on
    Threads,    \* hardware_concurrency() pool threads
    None        \* no operation

ASSUME OnAssumption == On \in [Ops -> Conns]
ASSUME NoneAssumption == None \notin Ops

VARIABLES
    client,         \* what the client thread is doing
    conn,           \* Conns -> life of the basic_connection
    driver,         \* the connections whose adio::sqlite object exists
    start_flag,     \* _start_threads_flag and how far _threads is filled
    pc,             \* Threads -> what the pool thread is doing
    job,            \* Threads -> the operation whose task it runs
    my_ios,         \* _my_ios: tasks waiting for a pool thread
    my_ios_stopped, \* _my_ios.stop() was called
    this_pin,       \* operations whose task still holds the driver
    work_pin,       \* operations whose task still holds parent work
    parent_ios,     \* _parent_ios: completion handlers waiting for run()
    parent_stopped, \* run() will return: the parent ran out of work
    handler,        \* the operation whose handler is being called
    started,        \* history: operations in the order they were started
    called          \* history: operations in the order of their handlers

ownerVars  == <<conn, driver, this_pin>>
threadVars == <<start_flag, pc, job>>
queueVars  == <<my_ios, my_ios_stopped>>
parentVars == <<work_pin, parent_ios, parent_stopped, handler>>
history    == <<started, called>>
vars == <<client, ownerVars, threadVars, queueVars, parentVars, history>>

\* Steps of io_service::~io_service, in order.
Closing == {"shutdown", "join", "joined", "gone"}

TypeOK ==
    /\ client \in {"user", "polling", "handler", "terminated"} \cup Closing
    /\ conn \in [Conns -> {"unborn", "alive", "destroyed"}]
    /\ driver \in SUBSET Conns
    /\ start_flag \in {"unset", "failed", "set"}
    /\ pc \in [Threads -> {"unborn", "idle", "body", "post", "release", "exited"}]
    /\ job \in [Threads -> Ops \cup {None}]
    /\ my_ios \in Seq(Ops)
    /\ my_ios_stopped \in BOOLEAN
    /\ this_pin \in SUBSET Ops
    /\ work_pin \in SUBSET Ops
    /\ parent_ios \in Seq(Ops)
    /\ parent_stopped \in BOOLEAN
    /\ handler \in Ops \cup {None}
    /\ started \in Seq(Ops)
    /\ called \in Seq(Ops)

Init ==
    /\ client = "user"
    /\ conn = [c \in Conns |-> "unborn"]
    /\ driver = {}
    /\ start_flag = "unset"
    /\ pc = [t \in Threads |-> "unborn"]
    /\ job = [t \in Threads |-> None]
    /\ my_ios = <<>>
    /\ my_ios_stopped = FALSE
    /\ this_pin = {}
    /\ work_pin = {}
    /\ parent_ios = <<>>
    /\ parent_stopped = FALSE
    /\ handler = None
    /\ started = <<>>
    /\ called = <<>>

-----------------------------------------------------------------------------
(* Connections: basic_connection owns a shared_ptr<sqlite>, as this_pin does. *)

Alive == {c \in Conns : conn[c] = "alive"}

\* The client's own code is running: outside run() or inside a handler.
ClientCode == client \in {"user", "handler"}

\* basic_connection(ios): db_service_base::construct makes the driver.
CreateConnection(c) ==
    /\ ClientCode
    /\ conn[c] = "unborn"
    /\ conn' = [conn EXCEPT ![c] = "alive"]
    /\ driver' = driver \cup {c}
    /\ UNCHANGED <<client, this_pin, threadVars, queueVars, parentVars, history>>

\* shared_ptr<sqlite>: a driver lives while its connection or a pin owns it.
DropOwner(pins, alive) ==
    /\ this_pin' = pins
    /\ driver' = alive \cup {On[op] : op \in pins}

\* ~basic_connection: db_service_base::destroy resets the connection's
\* shared_ptr; tasks in flight may still own the driver.
DestroyConnection(c) ==
    /\ ClientCode
    /\ conn[c] = "alive"
    /\ conn' = [conn EXCEPT ![c] = "destroyed"]
    /\ DropOwner(this_pin, Alive \ {c})
    /\ UNCHANGED <<client, threadVars, queueVars, parentVars, history>>

-----------------------------------------------------------------------------
(* Starting an operation (client thread).                                  *)

NoThreadBorn == \A t \in Threads : pc[t] = "unborn"

Started_Never == FALSE

\* An earlier std::call_once ran to its end.
Started == start_flag = "set"

\* std::call_once: the first task of the service creates every pool thread.
EnsureThreadsStarted ==
    \/ Started /\ UNCHANGED <<start_flag, pc>>
    \/ /\ ~Started
       /\ NoThreadBorn
       /\ pc' = [t \in Threads |-> "idle"]
       /\ start_flag' = "set"

PushTask_Twice(op) == my_ios' = my_ios \o <<op, op>>

\* _my_ios.post(task)
PushTask(op) == my_ios' = Append(my_ios, op)

MakeWork_Forgotten(op) == work_pin' = work_pin

\* detail::make_work, captured by the closure as work_pin
MakeWork(op) == work_pin' = work_pin \cup {op}

SharedFromThis_Raw(op) == this_pin' = this_pin

\* shared_from_this, captured by the closure as this_pin
SharedFromThis(op) == this_pin' = this_pin \cup {op}

\* async_open, async_prepare, async_execute, whose tasks throw nothing: build the
\* closure with its two pins and push it to the pool.
Start(op) ==
    /\ ClientCode
    /\ On[op] \in Alive
    /\ op \notin Range(started)
    /\ started' = Append(started, op)
    /\ SharedFromThis(op)
    /\ MakeWork(op)
    /\ EnsureThreadsStarted
    /\ PushTask(op)
    /\ UNCHANGED <<client, conn, driver, job, my_ios_stopped, parent_ios,
                   parent_stopped, handler, called>>

\* What io_service counts as outstanding work of the parent: live work
\* objects, queued handlers and the handler being called.
Outstanding(pins, current) == pins \cup Range(parent_ios) \cup ({current} \ {None})

\* The parent stops, and run() returns, when the last of it is gone.
StopIfOutOfWork(pins, current) ==
    parent_stopped' = (parent_stopped \/ Outstanding(pins, current) = {})

\* std::thread's constructor throws: the threads created so far (born) stay in
\* _threads, the flag stays unset, the closure dies with its pins, and
\* async_* throws.  A retry starts from the first thread again.
StartFails(born) ==
    /\ ClientCode
    /\ Alive # {}
    /\ ~Started
    /\ born # Threads /\ (NoThreadBorn \/ born = {})
    /\ start_flag' = "failed"
    /\ pc' = [t \in Threads |-> IF t \in born THEN "idle" ELSE pc[t]]
    /\ StopIfOutOfWork(work_pin, handler)
    /\ UNCHANGED <<client, ownerVars, job, queueVars, work_pin, parent_ios,
                   handler, history>>

\* A retry that gets a new thread assigns it over the first one, which is
\* joinable: std::terminate.
StartTerminates ==
    /\ ClientCode
    /\ Alive # {}
    /\ ~Started
    /\ ~NoThreadBorn
    /\ client' = "terminated"
    /\ UNCHANGED <<ownerVars, threadVars, queueVars, parentVars, history>>

-----------------------------------------------------------------------------
(* Pool threads: _my_ios.run().                                            *)

\* The latest task first.
Pop_Latest(t) ==
    /\ job' = [job EXCEPT ![t] = my_ios[Len(my_ios)]]
    /\ my_ios' = SubSeq(my_ios, 1, Len(my_ios) - 1)

\* The thread is left with an empty task.
Pop_Empty(t) == my_ios' = Tail(my_ios) /\ UNCHANGED job

\* The task leaves the queue for the thread.
Pop(t) ==
    /\ job' = [job EXCEPT ![t] = Head(my_ios)]
    /\ my_ios' = Tail(my_ios)

\* The oldest task, unless the pool was stopped.
TakeTask(t) ==
    /\ pc[t] = "idle"
    /\ ~my_ios_stopped
    /\ my_ios # <<>>
    /\ Pop(t)
    /\ pc' = [pc EXCEPT ![t] = "body"]
    /\ UNCHANGED <<client, ownerVars, start_flag, my_ios_stopped, parentVars, history>>

\* The task does its work on *this: open, _prepare or execute.
RunBody(t) ==
    /\ pc[t] = "body"
    /\ pc' = [pc EXCEPT ![t] = "post"]
    /\ UNCHANGED <<client, ownerVars, start_flag, job, queueVars, parentVars, history>>

\* Room for one result only.
Post_Overwrites(op) == parent_ios' = <<op>>

Post(op) == parent_ios' = Append(parent_ios, op)

\* _parent_ios.get().post(...): the last statement of every task.
PostHandler(t) ==
    /\ pc[t] = "post"
    /\ Post(job[t])
    /\ pc' = [pc EXCEPT ![t] = "release"]
    /\ UNCHANGED <<client, ownerVars, start_flag, job, queueVars, work_pin,
                   parent_stopped, handler, history>>

\* The pins are moved out of the closure and die before the post.
Dying_BeforePost(t) == pc[t] \in {"post", "release"}

\* The task has returned and its closure is being destroyed.
Dying(t) == pc[t] = "release"

\* The closure's members die in an order C++ leaves open: work_pin ...
ReleaseWork(t) ==
    /\ Dying(t)
    /\ job[t] \in work_pin
    /\ work_pin' = work_pin \ {job[t]}
    /\ StopIfOutOfWork(work_pin \ {job[t]}, handler)
    /\ UNCHANGED <<client, ownerVars, threadVars, queueVars, parent_ios, handler, history>>

\* ... and this_pin, maybe the driver's last owner.
ReleaseThis(t) ==
    /\ Dying(t)
    /\ job[t] \in this_pin
    /\ DropOwner(this_pin \ {job[t]}, Alive)
    /\ UNCHANGED <<client, conn, threadVars, queueVars, parentVars, history>>

\* A copy of this_pin outlives the closure.
Dead_LeaksThis(op) == op \notin work_pin

Dead(op) == op \notin work_pin \cup this_pin

\* The closure is gone; the thread goes back to _my_ios.run().
FinishTask(t) ==
    /\ pc[t] = "release"
    /\ Dead(job[t])
    /\ pc' = [pc EXCEPT ![t] = "idle"]
    /\ job' = [job EXCEPT ![t] = None]
    /\ UNCHANGED <<client, ownerVars, start_flag, queueVars, parentVars, history>>

\* The thread calls run() again whenever it returns.
Leave_Loops(t) == UNCHANGED pc

Leave(t) == pc' = [pc EXCEPT ![t] = "exited"]

\* run() of a stopped pool returns, whatever is still queued.
ExitThread(t) ==
    /\ pc[t] = "idle"
    /\ my_ios_stopped
    /\ Leave(t)
    /\ UNCHANGED <<client, ownerVars, start_flag, job, queueVars, parentVars, history>>

\* No thread survives std::terminate.
ThreadStep(t) ==
    /\ client # "terminated"
    /\ \/ TakeTask(t) \/ RunBody(t) \/ PostHandler(t)
       \/ ReleaseWork(t) \/ ReleaseThis(t) \/ FinishTask(t)
       \/ ExitThread(t)

-----------------------------------------------------------------------------
(* The client thread: the parent io_service.                               *)

\* ios.run(), after ios.reset() when an earlier run() ended.
EnterRun ==
    /\ client = "user"
    /\ client' = "polling"
    /\ parent_stopped' = (Outstanding(work_pin, handler) = {})
    /\ UNCHANGED <<ownerVars, threadVars, queueVars, work_pin, parent_ios, handler, history>>

\* run() calls the oldest completion handler.
CallHandler ==
    /\ client = "polling"
    /\ ~parent_stopped
    /\ parent_ios # <<>>
    /\ handler' = Head(parent_ios)
    /\ parent_ios' = Tail(parent_ios)
    /\ called' = Append(called, Head(parent_ios))
    /\ client' = "handler"
    /\ UNCHANGED <<ownerVars, threadVars, queueVars, work_pin, parent_stopped, started>>

\* The handler is over: run() goes on, or lets its exception through.
LeaveHandler(next) ==
    /\ client = "handler"
    /\ client' = next
    /\ handler' = None
    /\ StopIfOutOfWork(work_pin, None)
    /\ UNCHANGED <<ownerVars, threadVars, queueVars, work_pin, parent_ios, history>>

HandlerReturns == LeaveHandler("polling")

HandlerThrows == LeaveHandler("user")

ReturnFromRun ==
    /\ client = "polling"
    /\ parent_stopped
    /\ client' = "user"
    /\ UNCHANGED <<ownerVars, threadVars, queueVars, parentVars, history>>

-----------------------------------------------------------------------------
(* ~io_service.                                                            *)

\* First phase: shutdown_service of every service.  The one of db_service_base
\* does nothing, so the pool keeps running; the parent's own destroys the
\* handlers it has queued.
ShutdownServices ==
    /\ client = "user"
    /\ Alive = {}
    /\ client' = "shutdown"
    /\ parent_ios' = <<>>
    /\ UNCHANGED <<ownerVars, threadVars, queueVars, work_pin, parent_stopped,
                   handler, history>>

\* ~sqlite_service: _workptr.reset(); _my_ios.stop();
StopPool ==
    /\ client = "shutdown"
    /\ client' = "join"
    /\ my_ios_stopped' = TRUE
    /\ UNCHANGED <<ownerVars, threadVars, my_ios, parentVars, history>>

AllJoined_Detached == TRUE

\* for (auto& t : _threads) t.join();
AllJoined == \A t \in Threads : pc[t] \in {"unborn", "exited"}

\* The rest of ~sqlite_service: once the threads are joined, _my_ios destroys
\* the tasks nobody ran, and their pins.
JoinThreads ==
    /\ client = "join"
    /\ AllJoined
    /\ start_flag # "failed"
    /\ client' = "joined"
    /\ my_ios' = <<>>
    /\ work_pin' = work_pin \ Range(my_ios)
    /\ DropOwner(this_pin \ Range(my_ios), Alive)
    /\ UNCHANGED <<conn, threadVars, my_ios_stopped, parent_ios, parent_stopped,
                   handler, history>>

\* join() of an element of _threads that never became a thread throws, out of
\* a destructor: std::terminate.
JoinTerminates ==
    /\ client = "join"
    /\ AllJoined
    /\ start_flag = "failed"
    /\ client' = "terminated"
    /\ UNCHANGED <<ownerVars, threadVars, queueVars, parentVars, history>>

\* The parent's implementation goes last, with the handlers that tasks
\* posted after the first phase.
FreeParent ==
    /\ client = "joined"
    /\ client' = "gone"
    /\ parent_ios' = <<>>
    /\ UNCHANGED <<ownerVars, threadVars, queueVars, work_pin, parent_stopped,
                   handler, history>>

\* Steps of the client thread that library code takes, not the client's program.
ClientLibraryStep ==
    \/ CallHandler \/ ReturnFromRun
    \/ StopPool \/ JoinThreads \/ JoinTerminates \/ FreeParent

\* The program ended; anything else that stops is a deadlock.
Terminated == client \in {"gone", "terminated"} /\ UNCHANGED vars

Next ==
    \/ \E c \in Conns : CreateConnection(c) \/ DestroyConnection(c)
    \/ \E op \in Ops : Start(op)
    \/ \E born \in SUBSET Threads : StartFails(born)
    \/ StartTerminates
    \/ \E t \in Threads : ThreadStep(t)
    \/ EnterRun \/ HandlerReturns \/ HandlerThrows \/ ShutdownServices
    \/ ClientLibraryStep
    \/ Terminated

Spec == Init /\ [][Next]_vars

\* Threads are scheduled and the client's handlers return; nothing obliges
\* the client to start operations, to call run() or to tear anything down.
Fairness ==
    /\ \A t \in Threads : WF_vars(ThreadStep(t))
    /\ WF_vars(ClientLibraryStep)
    /\ WF_vars(HandlerReturns)

FairSpec == Spec /\ Fairness
-----------------------------------------------------------------------------
(* Safety.                                                                 *)

Carrying == {t \in Threads : pc[t] \in {"body", "post"}}
Busy     == {t \in Threads : pc[t] \in {"body", "post", "release"}}

\* The operations pool threads have taken and not yet posted a handler for.
Carried == {job[t] : t \in Carrying}

\* The operations that have been answered, to run() or already to the client.
Answered == Range(parent_ios) \cup Range(called)

\* No completion handler is called twice, however tasks, threads and run()
\* interleave: the closure built by an async_* call reaches post once.
HandlerAtMostOnce == IsInjective(called)

\* Until the io_service is torn down no started operation disappears: it is
\* waiting for a thread, with a thread, waiting for run(), or was completed.
NothingLost ==
    client \notin Closing =>
        Range(started) = Range(my_ios) \cup Carried \cup Answered

\* run() does not return while an operation has not been completed: the task
\* posts the handler before its work_pin dies (sqlite.hpp, every async_*).
RunReturnsOnlyWhenIdle ==
    [][client = "polling" /\ client' = "user" =>
            Range(started) \subseteq Range(called)]_vars

\* A pool thread inside a task has a live driver under its raw this, even if
\* the client destroyed that connection meanwhile, and others live on.
DriverOutlivesTasks ==
    \A t \in Carrying : On[job[t]] \in driver

\* Nothing touches the client's io_service once ~sqlite_service let it be
\* freed: no task is running, and no task is left whose work_pin would.
ParentOutlivesPool ==
    client \in {"joined", "gone"} => Busy = {} /\ work_pin = {}

\* No driver outlives the io_service, whichever owner was its last.
DriverDestroyed == client = "gone" => driver = {}

\* The pool may answer operations out of order, but not by much: an operation
\* that was answered has overtaken only operations that other threads are
\* carrying, one each, so fewer than there are threads; nothing that was
\* started before it is still queued.
OvertakesFew ==
    client \notin Closing =>
        \A i \in DOMAIN started : started[i] \in Answered =>
            \E t \in Threads :
                {started[j] : j \in 1..(i - 1)} \ Answered
                    \subseteq {job[u] : u \in Carrying \ {t}}

\* However the creation of threads fails, that does not end the process of a
\* client one of whose calls the pool accepted.  (An exception that leaves a task
\* may: see AsyncStep in SqliteStatement.)
NoTerminateOnceStarted == client = "terminated" => started = <<>>

-----------------------------------------------------------------------------
(* The inductive invariant behind the safety properties.                   *)

\* The queues name started operations, each of them once.
QueuesDistinct ==
    /\ IsInjective(my_ios) /\ IsInjective(parent_ios) /\ IsInjective(called)
    /\ Range(my_ios) \cup Answered \subseteq Range(started)

\* An operation is in one place of its life at a time.
PlacesApart ==
    /\ Range(my_ios) \cap Answered = {}
    /\ Range(parent_ios) \cap Range(called) = {}
    /\ \A t \in Busy : job[t] \in Range(started) \ Range(my_ios)
    /\ \A t \in Carrying : job[t] \notin Answered
    /\ \A t, u \in Busy : job[t] = job[u] => t = u

\* A task that has not posted its handler holds both pins; a pin is held by a
\* task, never by a handler; drivers live by their connections and pins alone.
PinsHeld ==
    /\ Range(my_ios) \cup Carried \subseteq this_pin \cap work_pin
    /\ this_pin \cup work_pin \subseteq Range(my_ios) \cup {job[t] : t \in Busy}
    /\ driver = Alive \cup {On[op] : op \in this_pin}

\* The parent stops only when nothing could still be posted to it.
ParentKeptRunning ==
    /\ client = "handler" => handler \in Range(called) /\ ~parent_stopped
    /\ client # "handler" => handler = None
    /\ client = "polling" /\ parent_stopped => work_pin = {} /\ parent_ios = <<>>

TeardownOrder ==
    /\ client \in Closing => Alive = {}
    /\ my_ios_stopped => client \in {"join", "joined", "gone", "terminated"}
    /\ client \in {"joined", "gone"} => AllJoined /\ my_ios = <<>>

\* Until call_once has succeeded no task was pushed and no thread has worked;
\* only then may the pool end the process.
PoolStartedOnce ==
    /\ ~Started => started = <<>>
    /\ start_flag = "unset" => NoThreadBorn
    /\ client = "terminated" => ~Started

\* The pool's queue is the end of the history of started operations.
QueueInOrder ==
    /\ IsInjective(started)
    /\ client \notin Closing =>
        /\ Len(my_ios) <= Len(started)
        /\ \A k \in 1..Len(my_ios) :
                my_ios[k] = started[Len(started) - Len(my_ios) + k]

\* Every part is needed: the pins keep the parent running and the drivers
\* alive only because operations, queues and threads stay apart.
IInv ==
    /\ TypeOK
    /\ QueuesDistinct
    /\ PlacesApart
    /\ NothingLost
    /\ PinsHeld
    /\ ParentKeptRunning
    /\ TeardownOrder
    /\ PoolStartedOnce
    /\ QueueInOrder

-----------------------------------------------------------------------------
(* Liveness, under Fairness.                                               *)

\* Once the client is inside run(), every operation it has started, or starts
\* from a handler, gets its handler called, unless a handler throws.
EveryHandlerCalled ==
    \A op \in Ops :
        (op \in Range(started) /\ client \in {"polling", "handler"})
            ~> (op \in Range(called) \/ client = "user")

\* ~io_service ends: the join of the pool threads does not hang.
TeardownEnds == client = "shutdown" ~> client \in {"gone", "terminated"}

\* The driver of a destroyed connection is destroyed without the client
\* having to run or tear down its io_service or to destroy its other
\* connections.
DriverReleased == \A c \in Conns : conn[c] = "destroyed" ~> c \notin driver

-----------------------------------------------------------------------------
(* Refinement.                                                             *)

Status(op) ==
    IF op \notin Range(started) THEN "idle"
    ELSE IF op \in Range(called) THEN "called"
    ELSE IF op \in Range(my_ios) \cup Carried \cup Range(parent_ios) THEN "pending"
    ELSE "dropped"

Phase == IF client \in {"shutdown", "join", "joined"} THEN "closing" ELSE client

Contract == INSTANCE AsyncContract
            WITH status <- [op \in Ops |-> Status(op)], phase <- Phase,
                 MayTerminate <- TRUE

\* The service keeps the contract of AsyncContract: every step of the pool
\* and of the parent is a step of an operation's life or invisible.
ImplementsContract == Contract!Spec

\* The same with the progress the contract promises.
ImplementsFairContract == Contract!FairSpec
==============================================================================
