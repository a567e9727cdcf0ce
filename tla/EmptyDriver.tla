------------------------------ MODULE EmptyDriver ------------------------------
(***************************************************************************)
(* adio::empty_driver: the driver that does nothing, on which the facade   *)
(* of basic_connection and db_service_base is tested.  It has no threads:  *)
(* async_open and async_execute post the completion handler to the         *)
(* client's io_service at once, and nothing else holds run() up.           *)
(*                                                                         *)
(* One client thread owns connection and io_service, as in SqliteService.  *)
(***************************************************************************)
EXTENDS Sequences, Functions

CONSTANTS
    Ops,        \* the asynchronous calls the client may make
    None        \* no operation

ASSUME NoneAssumption == None \notin Ops

VARIABLES
    client,     \* what the client thread is doing
    conn,       \* TRUE while the connection, and with it the driver, exists
    ios,        \* _parent_ios: completion handlers waiting for run()
    stopped,    \* run() will return: the io_service ran out of work
    handler,    \* the operation whose handler is being called
    started,    \* history: operations in the order they were started
    called      \* history: operations in the order of their handlers

vars == <<client, conn, ios, stopped, handler, started, called>>

Init ==
    /\ client = "user"
    /\ conn = TRUE
    /\ ios = <<>>
    /\ stopped = FALSE
    /\ handler = None
    /\ started = <<>>
    /\ called = <<>>

\* The handler is called where async_open is, before it returns.
Post_Inline(op) ==
    /\ called' = Append(called, op)
    /\ UNCHANGED ios

\* The latest handler is called first.
Post_Front(op) ==
    /\ ios' = <<op>> \o ios
    /\ UNCHANGED called

\* empty_driver::_post
Post(op) ==
    /\ ios' = Append(ios, op)
    /\ UNCHANGED called

\* async_open and async_execute
Start(op) ==
    /\ client \in {"user", "handler"}
    /\ conn
    /\ op \notin Range(started)
    /\ started' = Append(started, op)
    /\ Post(op)
    /\ UNCHANGED <<client, conn, stopped, handler>>

\* db_service_base::destroy: the implementation is the driver's only owner, so
\* the driver goes at once, and the handlers it has posted do not need it.
DestroyConnection ==
    /\ client \in {"user", "handler"}
    /\ conn
    /\ conn' = FALSE
    /\ UNCHANGED <<client, ios, stopped, handler, started, called>>

EnterRun ==
    /\ client = "user"
    /\ client' = "polling"
    /\ stopped' = (ios = <<>>)
    /\ UNCHANGED <<conn, ios, handler, started, called>>

CallHandler ==
    /\ client = "polling"
    /\ ~stopped
    /\ ios # <<>>
    /\ client' = "handler"
    /\ handler' = Head(ios)
    /\ ios' = Tail(ios)
    /\ called' = Append(called, Head(ios))
    /\ UNCHANGED <<conn, stopped, started>>

\* The handler returns to run(), or throws through it; the io_service stops
\* when this was the last handler and it posted no other.
LeaveHandler(next) ==
    /\ client = "handler"
    /\ client' = next
    /\ handler' = None
    /\ stopped' = (ios = <<>>)
    /\ UNCHANGED <<conn, ios, started, called>>

HandlerReturns == LeaveHandler("polling")

HandlerThrows == LeaveHandler("user")

ReturnFromRun ==
    /\ client = "polling"
    /\ stopped
    /\ client' = "user"
    /\ UNCHANGED <<conn, ios, stopped, handler, started, called>>

\* ~io_service: shutdown_service of the driver's service does nothing, the
\* io_service's own destroys the handlers nobody called ...
ShutdownServices ==
    /\ client = "user"
    /\ ~conn
    /\ client' = "shutdown"
    /\ ios' = <<>>
    /\ UNCHANGED <<conn, stopped, handler, started, called>>

\* ... and the services are freed.
FreeParent ==
    /\ client = "shutdown"
    /\ client' = "gone"
    /\ UNCHANGED <<conn, ios, stopped, handler, started, called>>

Terminated == client = "gone" /\ UNCHANGED vars

Next ==
    \/ \E op \in Ops : Start(op)
    \/ DestroyConnection
    \/ EnterRun \/ CallHandler \/ HandlerReturns \/ HandlerThrows \/ ReturnFromRun
    \/ ShutdownServices \/ FreeParent
    \/ Terminated

Spec == Init /\ [][Next]_vars

\* As in SqliteService: the library's steps and the handlers go on.
Fairness ==
    /\ WF_vars(CallHandler \/ ReturnFromRun \/ FreeParent)
    /\ WF_vars(HandlerReturns)

FairSpec == Spec /\ Fairness
-----------------------------------------------------------------------------
(* Properties.                                                             *)

\* Handlers are called in the order of the calls: nothing between async_open
\* and run() reorders them, which SqliteService cannot say of its pool.
HandlersInOrder == called = SubSeq(started, 1, Len(called))

Status(op) ==
    CASE op \notin Range(started) -> "idle"
      [] op \in Range(called) -> "called"
      [] op \in Range(ios) -> "pending"
      [] OTHER -> "dropped"

Phase == IF client = "shutdown" THEN "closing" ELSE client

Contract == INSTANCE AsyncContract
            WITH status <- [op \in Ops |-> Status(op)], phase <- Phase,
                 MayTerminate <- FALSE

\* The driver that does nothing keeps the same contract with its client as
\* sqlite does with its pool: handlers from inside run() only, and run() waits
\* for all of them, with no work object to hold it; with no threads to want, it
\* never ends the process.
ImplementsFairContract == Contract!FairSpec
==============================================================================
