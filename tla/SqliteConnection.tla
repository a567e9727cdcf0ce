--------------------------- MODULE SqliteConnection ---------------------------
(***************************************************************************)
(* adio::sqlite, the driver behind one connection: the sqlite3* it keeps   *)
(* in _private->db, the statements prepared on it, and the threads that    *)
(* open, close, prepare and step.  The bodies of SqliteService's tasks are *)
(* opened up into the accesses they make to _private->db, so that they     *)
(* interleave with each other and with the synchronous calls of the client *)
(* thread.  Nothing in the driver is locked.                               *)
(*                                                                         *)
(* The class comment asks that a connection be used "similar to using an   *)
(* Asio socket object".  The weakest reading of it is assumed here: an     *)
(* open or a close does not overlap an open, a close or a prepare, and two *)
(* calls do not use one statement at a time; anything else may overlap.  A *)
(* call is in flight until it returns or its handler is called.            *)
(*                                                                         *)
(* SQLite is external: sqlite3_close refuses (SQLITE_BUSY) and leaves the  *)
(* handle open while a statement of it is not finalized, and a failed      *)
(* sqlite3_open leaves a handle that can only be closed ("sick"), or no    *)
(* handle at all.                                                          *)
(***************************************************************************)
EXTENDS SqliteService

CONSTANTS
    Con,        \* the connection
    Client,     \* the client thread
    Handles,    \* sqlite3 objects: bounds the number of opens
    Stmts,      \* sqlite3_stmt objects: bounds the statements alive at once
    Null        \* nullptr

ASSUME ConnAssumption ==
    /\ Conns = {Con}
    /\ Client \notin Threads
    /\ (Threads \cup {Client}) \cap Ops = {}
    /\ Null \notin Handles \cup Stmts

VARIABLES
    db,         \* _private->db
    handle,     \* Handles -> state of the sqlite3 object
    stmtOf,     \* Stmts -> the handle it was prepared on, Null once finalized
    holders,    \* Stmts -> owners of the shared_ptr: threads' frames,
                \*   posted handlers, the client
    kind,       \* Ops -> which async_* call is in flight
    arg,        \* Ops -> the statement an async_execute in flight refers to
    prog,       \* actor -> the driver call it is in
    at,         \* actor -> its next access in that call
    err,        \* actor -> the error_code of that call
    got,        \* actor -> the statement in its frame, from _prepare
    outcome,    \* Ops -> the error_code its posted handler carries
    seen,       \* history: the connection's state as reported to the client
    leaked      \* history: handles dropped by a refused sqlite3_close

Actors == Threads \cup {Client}

dbVars   == <<db, handle, leaked>>
stmtVars == <<stmtOf, holders>>
callVars == <<prog, at, err, got>>
opVars   == <<kind, arg, outcome>>
connVars == <<dbVars, stmtVars, opVars, callVars, seen>>
allVars  == <<vars, connVars>>

AsyncKinds == {"open", "prepare", "execute"}
SyncKinds  == {"open", "close", "prepare", "execute", "query"}
Errors     == {"ok", "error", "not_connected"}

ConnTypeOK ==
    /\ TypeOK
    /\ db \in Handles \cup {Null}
    /\ handle \in [Handles -> {"free", "open", "sick", "closed"}]
    /\ stmtOf \in [Stmts -> Handles \cup {Null}]
    /\ holders \in [Stmts -> SUBSET (Actors \cup Ops)]
    /\ kind \in [Ops -> AsyncKinds \cup {"none"}]
    /\ arg \in [Ops -> Stmts \cup {Null}]
    /\ prog \in [Actors -> SyncKinds \cup {"none"}]
    /\ at \in [Actors -> {"none", "close", "clear", "open", "check", "compile",
                          "step", "done"}]
    /\ err \in [Actors -> Errors]
    /\ got \in [Actors -> Stmts \cup {Null}]
    /\ outcome \in [Ops -> Errors \cup {"none"}]
    /\ seen \in {"closed", "open", "failed"}
    /\ leaked \in SUBSET Handles

ConnInit ==
    /\ Init
    /\ db = Null
    /\ handle = [h \in Handles |-> "free"]
    /\ stmtOf = [s \in Stmts |-> Null]
    /\ holders = [s \in Stmts |-> {}]
    /\ kind = [op \in Ops |-> "none"]
    /\ arg = [op \in Ops |-> Null]
    /\ prog = [a \in Actors |-> "none"]
    /\ at = [a \in Actors |-> "none"]
    /\ err = [a \in Actors |-> "ok"]
    /\ got = [a \in Actors |-> Null]
    /\ outcome = [op \in Ops |-> "none"]
    /\ seen = "closed"
    /\ leaked = {}

-----------------------------------------------------------------------------
(* SQLite and the ownership of statements.                                 *)

\* sqlite3_close
SqliteClose(h) ==
    IF \E s \in Stmts : stmtOf[s] = h
    THEN leaked' = leaked \cup {h} /\ UNCHANGED handle
    ELSE handle' = [handle EXCEPT ![h] = "closed"] /\ UNCHANGED leaked

\* The driver ignores the result of sqlite3_close.
CloseHandle(h) == SqliteClose(h)

\* ~sqlite: close(), by the last owner, whom no other thread can disturb.
DestroyDriver ==
    IF db = Null
    THEN UNCHANGED dbVars
    ELSE CloseHandle(db) /\ db' = Null

IfDriverDies ==
    IF driver = {Con} /\ driver' = {} THEN DestroyDriver ELSE UNCHANGED dbVars

\* Owners X give up their shared_ptrs to the statements S; the last one
\* finalizes.
DropStatements(S, X) ==
    /\ holders' = [s \in Stmts |-> IF s \in S THEN holders[s] \ X ELSE holders[s]]
    /\ stmtOf' = [s \in Stmts |->
                    IF s \in S /\ holders[s] \subseteq X THEN Null ELSE stmtOf[s]]

\* X adds itself to the owners of s.
ShareStatement(s, X) == holders' = [holders EXCEPT ![s] = @ \cup X]

-----------------------------------------------------------------------------
(* The driver's calls, access by access, by a pool thread or the client.   *)

FirstStep(k) ==
    CASE k \in {"open", "close"} -> "close"
      [] k \in {"prepare", "query"} -> "check"
      [] k = "execute" -> "step"

Goto(a, step) == at' = [at EXCEPT ![a] = step]

Finish(a, e) ==
    /\ Goto(a, "done")
    /\ err' = [err EXCEPT ![a] = e]

AfterClose(a) == IF prog[a] = "open" THEN Goto(a, "open") ELSE Goto(a, "done")

\* open() forgets to close what is open.
NothingToClose_Open(a) == db = Null \/ prog[a] = "open"

NothingToClose(a) == db = Null

\* close(): if (_private->db) { sqlite3_close(_private->db) ...
CloseStep(a) ==
    /\ at[a] = "close"
    /\ IF NothingToClose(a)
       THEN AfterClose(a) /\ UNCHANGED <<handle, leaked>>
       ELSE CloseHandle(db) /\ Goto(a, "clear")
    /\ UNCHANGED <<vars, db, stmtVars, opVars, prog, err, got, seen>>

ResetHandle_Forgotten == UNCHANGED db

ResetHandle == db' = Null

\* ... _private->db = nullptr; }
ClearStep(a) ==
    /\ at[a] = "clear"
    /\ ResetHandle
    /\ AfterClose(a)
    /\ UNCHANGED <<vars, handle, leaked, stmtVars, opVars, prog, err, got, seen>>

\* The result of sqlite3_open is not looked at.
OpenError_Ignored == "ok"

OpenError == "error"

\* open(): sqlite3_open(path.data(), &_private->db)
OpenStep(a) ==
    /\ at[a] = "open"
    /\ \/ \E h \in Handles :
            /\ handle[h] = "free"
            /\ db' = h
            /\ \/ handle' = [handle EXCEPT ![h] = "open"] /\ Finish(a, "ok")
               \/ handle' = [handle EXCEPT ![h] = "sick"] /\ Finish(a, OpenError)
       \/ db' = Null /\ UNCHANGED handle /\ Finish(a, OpenError)
    /\ UNCHANGED <<vars, leaked, stmtVars, opVars, prog, got, seen>>

\* _prepare(): if (!_private->db) return not_connected
CheckStep(a) ==
    /\ at[a] = "check"
    /\ IF db = Null
       THEN Finish(a, "not_connected")
       ELSE Goto(a, "compile") /\ UNCHANGED err
    /\ UNCHANGED <<vars, dbVars, stmtVars, opVars, prog, got, seen>>

\* execute(query) goes on with the statement it has prepared.
AfterCompile(a) ==
    IF prog[a] = "query" THEN Goto(a, "step") /\ UNCHANGED err ELSE Finish(a, "ok")

\* _prepare(): sqlite3_prepare_v2(_private->db, ...)
CompileStep(a) ==
    /\ at[a] = "compile"
    /\ \/ /\ db # Null /\ handle[db] = "open"
          /\ \E s \in Stmts :
                /\ stmtOf[s] = Null
                /\ stmtOf' = [stmtOf EXCEPT ![s] = db]
                /\ ShareStatement(s, {a})
                /\ got' = [got EXCEPT ![a] = s]
          /\ AfterCompile(a)
       \/ /\ Finish(a, "error")
          /\ UNCHANGED <<stmtVars, got>>
    /\ UNCHANGED <<vars, dbVars, opVars, prog, seen>>

\* execute(st) and step(st): sqlite3_step on a statement the caller owns.
StepStep(a) ==
    /\ at[a] = "step"
    /\ \E e \in {"ok", "error"} : Finish(a, e)
    /\ UNCHANGED <<vars, dbVars, stmtVars, opVars, prog, got, seen>>

DriverStep(a) ==
    \/ CloseStep(a) \/ ClearStep(a) \/ OpenStep(a)
    \/ CheckStep(a) \/ CompileStep(a) \/ StepStep(a)

Begin(a, k) ==
    /\ prog' = [prog EXCEPT ![a] = k]
    /\ Goto(a, FirstStep(k))

End(a) ==
    /\ prog' = [prog EXCEPT ![a] = "none"]
    /\ Goto(a, "none")

-----------------------------------------------------------------------------
(* Pool threads: SqliteService's steps with what they do to the driver.    *)

ConnTakeTask(t) ==
    /\ TakeTask(t)
    /\ Begin(t, kind[Head(my_ios)])
    /\ UNCHANGED <<dbVars, stmtVars, opVars, err, got, seen>>

\* The handler is posted first and the call made afterwards.
BodyOver_PostsFirst(t) == UNCHANGED <<prog, at>>

\* The task's body is over when its driver call is.
BodyOver(t) == at[t] = "done" /\ End(t)

ConnRunBody(t) ==
    /\ RunBody(t)
    /\ BodyOver(t)
    /\ UNCHANGED <<dbVars, stmtVars, opVars, err, got, seen>>

\* The handler is posted with ec and, by async_prepare, a copy of st.
ConnPostHandler(t) ==
    /\ PostHandler(t)
    /\ outcome' = [outcome EXCEPT ![job[t]] = err[t]]
    /\ err' = [err EXCEPT ![t] = "ok"]
    /\ IF got[t] = Null THEN UNCHANGED holders ELSE ShareStatement(got[t], {job[t]})
    /\ UNCHANGED <<dbVars, stmtOf, kind, arg, prog, at, got, seen>>

\* End of the task's block: its own st goes out of scope.
DropLocal(t) ==
    /\ pc[t] = "release"
    /\ got[t] # Null
    /\ DropStatements({got[t]}, {t})
    /\ got' = [got EXCEPT ![t] = Null]
    /\ UNCHANGED <<vars, dbVars, opVars, prog, at, err, seen>>

\* st is a member of the closure, which may outlive its pins.
BlockLeft_StInClosure(t) == TRUE

\* Locals die before the closure whose block they are in.
BlockLeft(t) == got[t] = Null

ConnReleaseWork(t) ==
    /\ BlockLeft(t)
    /\ ReleaseWork(t)
    /\ UNCHANGED connVars

ConnReleaseThis(t) ==
    /\ BlockLeft(t)
    /\ ReleaseThis(t)
    /\ IfDriverDies
    /\ UNCHANGED <<stmtVars, opVars, callVars, seen>>

ConnFinishTask(t) == got[t] = Null /\ FinishTask(t) /\ UNCHANGED connVars

ConnExitThread(t) == ExitThread(t) /\ UNCHANGED connVars

ConnThreadStep(t) ==
    /\ client # "terminated"
    /\ \/ ConnTakeTask(t) \/ DriverStep(t) \/ ConnRunBody(t) \/ ConnPostHandler(t)
       \/ DropLocal(t) \/ ConnReleaseWork(t) \/ ConnReleaseThis(t)
       \/ ConnFinishTask(t) \/ ConnExitThread(t)

-----------------------------------------------------------------------------
(* The client thread.                                                      *)

\* The client is not inside a synchronous call.
Free == at[Client] = "none"

InFlight == Range(started) \ Range(called)

\* What the client may call: see the module comment.
MayCall(k) ==
    \/ k = "execute"
    \/ k \in {"prepare", "query"} /\ \A op \in InFlight : kind[op] # "open"
    \/ k \in {"open", "close"} /\ \A op \in InFlight : kind[op] = "execute"

\* Statements the client owns and no async_execute in flight refers to.
Usable(s) ==
    /\ Client \in holders[s]
    /\ \A op \in InFlight : arg[op] # s

ConnCreateConnection == Free /\ CreateConnection(Con) /\ UNCHANGED connVars

ConnStart(op, k, s) ==
    /\ Free
    /\ MayCall(k)
    /\ IF k = "execute" THEN s \in Stmts /\ Usable(s) ELSE s = Null
    /\ Start(op)
    /\ kind' = [kind EXCEPT ![op] = k]
    /\ arg' = [arg EXCEPT ![op] = s]
    /\ UNCHANGED <<dbVars, stmtVars, outcome, callVars, seen>>

\* async_* throws, and its closure is gone, or the process is.
ConnStartFails ==
    /\ Free
    /\ StartTerminates \/ \E born \in SUBSET Threads : StartFails(born)
    /\ UNCHANGED connVars

\* con.open, con.close, con.prepare, con.execute of a statement, con.step, and
\* con.execute of a query.
SyncCall(k) ==
    /\ Free
    /\ ClientCode
    /\ Con \in Alive
    /\ MayCall(k)
    /\ k = "execute" => \E s \in Stmts : Usable(s)
    /\ Begin(Client, k)
    /\ UNCHANGED <<vars, dbVars, stmtVars, opVars, err, got, seen>>

\* What a completed open or close tells the client about the connection.
Told(k, e) ==
    CASE k = "open"  -> IF e = "ok" THEN "open" ELSE "failed"
      [] k = "close" -> "closed"
      [] OTHER       -> seen

\* prepare returns its statement, execute(query) destroys it.
SyncReturn ==
    /\ at[Client] = "done"
    /\ End(Client)
    /\ got' = [got EXCEPT ![Client] = Null]
    /\ err' = [err EXCEPT ![Client] = "ok"]
    /\ seen' = Told(prog[Client], err[Client])
    /\ IF prog[Client] = "query"
       THEN DropStatements({got[Client]}, {Client})
       ELSE UNCHANGED stmtVars
    /\ UNCHANGED <<vars, dbVars, opVars>>

\* The client destroys a statement it owns.
DropStatement(s) ==
    /\ Free
    /\ ClientCode
    /\ Usable(s)
    /\ DropStatements({s}, {Client})
    /\ UNCHANGED <<vars, dbVars, opVars, callVars, seen>>

ConnEnterRun == Free /\ EnterRun /\ UNCHANGED connVars

\* The handler is called with its error_code and the statement it carries.
ConnCallHandler ==
    /\ CallHandler
    /\ LET op == Head(parent_ios)
       IN  /\ holders' = [s \in Stmts |-> IF op \in holders[s]
                                          THEN (holders[s] \ {op}) \cup {Client}
                                          ELSE holders[s]]
           /\ seen' = Told(kind[op], outcome[op])
           /\ kind' = [kind EXCEPT ![op] = "none"]
           /\ arg' = [arg EXCEPT ![op] = Null]
           /\ outcome' = [outcome EXCEPT ![op] = "none"]
    /\ UNCHANGED <<dbVars, stmtOf, callVars>>

ConnLeaveHandler == Free /\ (HandlerReturns \/ HandlerThrows) /\ UNCHANGED connVars

ConnReturnFromRun == ReturnFromRun /\ UNCHANGED connVars

ConnDestroyConnection ==
    /\ Free
    /\ DestroyConnection(Con)
    /\ IfDriverDies
    /\ UNCHANGED <<stmtVars, opVars, callVars, seen>>

\* Handlers destroyed by the parent take the statements they carry with them.
ConnShutdownServices ==
    /\ Free
    /\ ShutdownServices
    /\ DropStatements(Stmts, Range(parent_ios))
    /\ UNCHANGED <<dbVars, opVars, callVars, seen>>

ConnStopPool == StopPool /\ UNCHANGED connVars

ConnJoinThreads ==
    /\ JoinThreads \/ JoinTerminates
    /\ IfDriverDies
    /\ UNCHANGED <<stmtVars, opVars, callVars, seen>>

ConnFreeParent ==
    /\ FreeParent
    /\ DropStatements(Stmts, Range(parent_ios))
    /\ UNCHANGED <<dbVars, opVars, callVars, seen>>

ConnClientStep ==
    \/ ConnCreateConnection
    \/ \E op \in Ops, k \in AsyncKinds, s \in Stmts \cup {Null} : ConnStart(op, k, s)
    \/ ConnStartFails
    \/ \E k \in SyncKinds : SyncCall(k)
    \/ DriverStep(Client)
    \/ SyncReturn
    \/ \E s \in Stmts : DropStatement(s)
    \/ ConnEnterRun \/ ConnCallHandler \/ ConnLeaveHandler \/ ConnReturnFromRun
    \/ ConnDestroyConnection \/ ConnShutdownServices
    \/ ConnStopPool \/ ConnJoinThreads \/ ConnFreeParent

ConnTerminated == client \in {"gone", "terminated"} /\ UNCHANGED allVars

ConnNext ==
    \/ \E t \in Threads : ConnThreadStep(t)
    \/ ConnClientStep
    \/ ConnTerminated

ConnSpec == ConnInit /\ [][ConnNext]_allVars
-----------------------------------------------------------------------------
(* Safety.                                                                 *)

Reading == {"close", "clear", "open", "check", "compile"}
Writing == {"clear", "open"}

\* _private->db has no lock: no thread stores to it while another is between
\* two accesses of it, so a handle read once is still the handle.
NoDataRace ==
    \A a, b \in Actors : a # b /\ at[a] \in Writing => at[b] \notin Reading

\* The handle a thread is about to pass to SQLite has not been closed.
NoUseAfterClose ==
    \A a \in Actors : at[a] \in {"close", "compile"} /\ db # Null =>
        handle[db] \in {"open", "sick"}

\* Every sqlite3 object is the connection's, was closed, or was dropped by a
\* close that SQLite refused; a failed open loses none.
HandlesAccounted ==
    \A h \in Handles : handle[h] \in {"open", "sick"} => h = db \/ h \in leaked

\* Nobody is about to open or to close the connection.
Quiet ==
    /\ \A a \in Actors : prog[a] \notin {"open", "close"}
    /\ \A op \in InFlight : kind[op] # "open"

\* The connection is in the state the client knows by that word.
StateIs(word) ==
    CASE word = "closed" -> db = Null
      [] word = "open"   -> db # Null /\ handle[db] = "open"
      [] word = "failed" -> db = Null \/ handle[db] = "sick"

\* Between opens and closes the connection is in the state its client was
\* told of, by return value or by handler.
ClientKnowsState == driver # {} /\ Quiet => StateIs(seen)

\* No statement of the client is lost to the pool: once a run() has ended by
\* itself with nothing in flight, statements are the client's alone.  (A run()
\* left by an exception may leave a pool thread with a copy.)
ClientOwnsAll ==
    client = "user" /\ parent_stopped /\ InFlight = {} =>
        \A s \in Stmts : holders[s] \subseteq {Client}

\* So a close that is made then, while the client owns no statement, does
\* close the database.
CloseOutsideRunReleases ==
    [][client = "user" /\ parent_stopped /\ (\A s \in Stmts : Client \notin holders[s])
            /\ at[Client] = "close" => leaked' = leaked]_allVars

\* ~sqlite ignores what sqlite3_close answers, and its last owner may be a pool
\* thread that has just made a statement, or the teardown.  Whoever it is, the
\* pool's own shares of statements are gone by then: the database is closed,
\* and no handle lost, unless the client or a handler on its way to it still
\* owns a statement.
DestructionReleases ==
    [][driver # {} /\ driver' = {}
            /\ (\A s \in Stmts : holders[s] \cap ({Client} \cup Ops) = {})
            => leaked' = leaked]_allVars

-----------------------------------------------------------------------------
(* The inductive invariant behind the safety of the handle.                *)

\* A pool thread is in the call its task is for, and only inside the body of
\* the task; the client is in a call only while its own code runs and its
\* connection exists.
Working ==
    /\ \A op \in InFlight : kind[op] \in AsyncKinds
    /\ \A t \in Threads :
            IF pc[t] = "body"
            THEN at[t] # "none" /\ prog[t] = kind[job[t]]
            ELSE at[t] = "none" /\ prog[t] = "none"
    /\ at[Client] = "none" => prog[Client] = "none"
    /\ at[Client] # "none" => ClientCode /\ Con \in Alive

\* Every access belongs to a call that makes it.
AtOfProg ==
    \A a \in Actors :
        /\ at[a] \in {"close", "clear"} => prog[a] \in {"open", "close"}
        /\ at[a] = "open" => prog[a] = "open"
        /\ at[a] \in {"check", "compile"} => prog[a] \in {"prepare", "query"}
        /\ at[a] = "step" => prog[a] \in {"execute", "query"}

\* What MayCall asks when a call is made stays true while it is in flight.
NoOverlap ==
    /\ \A o, p \in InFlight : o # p /\ kind[o] = "open" => kind[p] = "execute"
    /\ prog[Client] \in {"open", "close"} => \A op \in InFlight : kind[op] = "execute"
    /\ prog[Client] \in {"prepare", "query"} => \A op \in InFlight : kind[op] # "open"

\* The handle between the accesses of a close and of an open.
HandleState ==
    /\ \A a \in Actors : at[a] = "clear" => db # Null /\ (handle[db] = "closed" \/ db \in leaked)
    /\ \A a \in Actors : at[a] = "open" => db = Null
    /\ db # Null /\ (\A a \in Actors : at[a] # "clear") => handle[db] \in {"open", "sick"}

\* SQLite does not close a database under a statement (sqlite3_close, not _v2).
StatementHasDatabase ==
    \A s \in Stmts : stmtOf[s] # Null => handle[stmtOf[s]] = "open"

ConnIInv ==
    /\ ConnTypeOK
    /\ Working
    /\ AtOfProg
    /\ NoOverlap
    /\ HandleState
    /\ StatementHasDatabase
    /\ HandlesAccounted

-----------------------------------------------------------------------------
(* The invariants behind what the client knows and owns.                   *)

\* The result of an open or a close is true of the connection from the last
\* access of the call on, on its way through the thread and the queue of
\* handlers, until the client learns it.
Reports ==
    driver # {} =>
        /\ \A a \in Actors : prog[a] \in {"open", "close"} /\ at[a] = "done" =>
                StateIs(Told(prog[a], err[a]))
        /\ \A t \in Threads : pc[t] = "post" /\ kind[job[t]] = "open" =>
                StateIs(Told("open", err[t]))
        /\ \A op \in Range(parent_ios) : kind[op] = "open" =>
                StateIs(Told("open", outcome[op]))
        /\ Quiet => StateIs(seen)

\* Before the connection is made nothing has happened to it.
Untouched == conn[Con] = "unborn" => db = Null /\ seen = "closed" /\ started = <<>>

\* A thread owns a statement only while its task keeps run() waiting and the
\* driver alive, and it prepares one at a time.
ThreadOwners ==
    \A t \in Threads :
        /\ got[t] # Null => t \in Busy /\ job[t] \in work_pin \cap this_pin
        /\ got[t] # Null /\ job[t] \in InFlight => kind[job[t]] = "prepare"
        /\ at[t] \in {"check", "compile"} => got[t] = Null

\* A thread owns the statement in its frame only, a handler one only while it
\* is queued; a statement that is not finalized has an owner.
StatementOwners ==
    \A s \in Stmts :
        /\ \A t \in Threads : t \in holders[s] => got[t] = s
        /\ \A op \in Ops : op \in holders[s] =>
                op \in Range(parent_ios) /\ kind[op] = "prepare"
        /\ stmtOf[s] # Null => holders[s] # {}

\* Once run() has ended by itself, only calls made since keep it waiting.
StoppedIdle == client = "user" /\ parent_stopped => work_pin \subseteq InFlight

ClientIInv ==
    /\ Reports
    /\ Untouched
    /\ ThreadOwners
    /\ StatementOwners
    /\ StoppedIdle

-----------------------------------------------------------------------------
(* Refinement: the calls on a connection are atomic.                       *)

\* The thread's call is over and its error_code is still in its frame.
Decided(t) == pc[t] = "post" \/ (pc[t] = "body" /\ at[t] = "done")

\* The result of an async_* call from the last access of its body on, first in
\* the frame of its thread and then in its posted handler.
OpAnswer(op) ==
    LET holding == {t \in Threads : Decided(t) /\ job[t] = op}
    IN  IF outcome[op] # "none" THEN outcome[op]
        ELSE IF holding = {} THEN "none"
        ELSE err[CHOOSE t \in holding : TRUE]

ClientAnswer == IF at[Client] = "done" THEN err[Client] ELSE "none"

\* The calls in flight, and those of them that have taken effect.
Asked == [c \in Ops \cup {Client} |-> IF c = Client THEN prog[Client] ELSE kind[c]]

Answers == [c \in Ops \cup {Client} |-> IF c = Client THEN ClientAnswer ELSE OpAnswer(c)]

Opened == {op \in Ops : kind[op] = "open" /\ OpAnswer(op) # "none"}

\* What the client will have been told of the connection once the open or the
\* close that has taken effect, if any, is answered.
Word ==
    IF Opened # {} THEN Told("open", OpAnswer(CHOOSE op \in Opened : TRUE))
    ELSE IF at[Client] = "done" THEN Told(prog[Client], err[Client])
    ELSE seen

Atomic == INSTANCE ConnectionContract
          WITH Callers <- Ops \cup {Client},
               state <- Word, asked <- Asked, answer <- Answers

\* However the accesses of the calls to _private->db interleave, every call
\* answers as if it had been made at one instant, on the connection as the
\* calls before that instant left it: no client can tell the unlocked driver
\* from a locked one.
CallsAreAtomic == Atomic!Spec

\* What the atomicity rests on.  An operation has a kind while it is in flight,
\* and a posted result from its post until its handler is called; the client
\* enters a call with no error_code set.
ResultSlots ==
    /\ \A op \in Ops \ InFlight : kind[op] = "none" /\ outcome[op] = "none"
    /\ \A op \in Range(my_ios) \cup Carried : outcome[op] = "none"
    /\ \A op \in Range(parent_ios) : outcome[op] # "none"
    /\ at[Client] # "done" => err[Client] = "ok"

\* Nobody takes away the handle between the accesses of a call that found it.
StaysOpen ==
    /\ \A a \in Actors : at[a] = "compile" => db # Null
    /\ prog[Client] = "query" /\ at[Client] = "step" => db # Null /\ handle[db] = "open"

AtomicIInv == ResultSlots /\ StaysOpen /\ ClientIInv /\ ConnIInv
==============================================================================
