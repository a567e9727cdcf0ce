# Adio in TLA+

Adio is a database library on top of Asio: a `basic_connection<Driver>` is an
Asio I/O object whose calls come in pairs, `open`/`async_open`,
`prepare`/`async_prepare` and so on, and a driver that serves them. The drivers
are SQLite (with a pool of threads behind an `io_service`), an empty one for
tests, and the declarations of one for PostgreSQL. This directory holds models
of the parts that do something at run time, the TLC runs that check them on
small instances, and proofs, checked by TLAPS, of every safety property
the runs check, for any value of the constants.

All paths below are relative to `src/source/` unless they begin with `src/`.
`PROJECT.json` maps every definition to the lines it stands for.

## The system

| part | state | operations | hard because |
|---|---|---|---|
| `sqlite_service` (`drivers/sqlite/adio/sqlite.hpp:394`, `sqlite.cpp:183-209`) | the pool's own `io_service` `_my_ios`, the threads, the once-flag | push a task, start the threads once, destroy | tasks of several connections, the client's `run()`, the handlers and the destructors interleave; threads may fail to start |
| `sqlite`, the driver (`sqlite.hpp:201-389`, `sqlite.cpp:51-181`) | `_private->db`, shared by the connection and the tasks in flight | `open`, `close`, `prepare`, `execute`, `step`, and the `async_` forms of `open`, `prepare`, `execute`, `step` | the handle has no lock; `sqlite3_close` may refuse; the last owner of a driver may be a task, and a task may own a statement |
| `sqlite_statement` and its iterator (`sqlite.hpp:128-193`, `sqlite.cpp:66-102`) | the `sqlite3_stmt`, `_done` | `begin`/`++`/`*`, `execute`, `step`, `bind`, `done` | four ways to read the rows share one virtual machine that is never reset |
| `_multi_prepare` (`sqlite.cpp:140-172`) | a pointer and a remaining size | `prepare_multiple` | unsigned arithmetic, and the end of the loop |
| `value`, `value_adaptor` (`adio/sql/value.hpp`) | a variant of six types | comparison, conversion from and to the client's types | NaN, narrowing, NULL |
| `row`, `row_adaptor`, `bind`, `current_row` (`adio/sql/row.hpp`, `sqlite.cpp:211-330`) | parameters, columns | bind by index or name, read | what SQLite does not store as it was given |
| `empty_driver` (`drivers/empty/adio/empty.hpp`) | none | `async_open`, `async_execute` post their handler | it must keep the same contract without a pool |
| `basic_connection`, `db_service_base` (`adio/connection.hpp`, `adio/service.hpp`) | the `shared_ptr` to the driver | forward; construct and destroy the driver | destruction of the connection with tasks in flight, and an empty `shutdown_service` |

How they interact: an `async_` call builds a closure with two pins, a
`shared_ptr` to the driver (`this_pin`) and an `io_service::work` of the client's
`io_service` (`work_pin`), and posts it to `_my_ios`. A pool thread runs it; its
last statement posts the completion handler to the client's `io_service`, and
then the closure dies and releases the pins, in an order C++ does not fix. The
handler is called when the client is in `run()`, and may start operations,
destroy a connection or throw through `run()`. Synchronous calls go straight to
the driver, on the client's thread, while tasks may be in flight.

What makes each part correct: handlers are called once, from inside `run()`, and
`run()` waits for all of them; driver and `io_service` outlive their users; the
handle is not raced on, not used after close and not lost; the client knows the
state of its connection and owns its statements; loops over rows that end have
seen all rows, no row is lost, and errors are reported; statements of a source come
in order, all or none; values are ordered, and survive the way into SQLite and back
if they can.

## Modules

| module | models |
|---|---|
| `AsyncContract` | the abstract specification: what an asynchronous call promises, without threads or queues |
| `SqliteService` | the service and its pool, one task per operation, `run()`, and the destruction of everything; refines `AsyncContract` |
| `SqliteConnection` | EXTENDS `SqliteService`: the bodies of the tasks, opened up into their accesses to `_private->db`, the synchronous calls, and the owners of statements; refines `SqliteService` and, for its calls, `ConnectionContract` |
| `ConnectionContract` | the abstract specification of the calls on a connection: each takes effect at one instant |
| `SqliteStatement` | one statement under every mix of the calls that read or bind it |
| `MultiPrepare` | the loop of `_multi_prepare` |
| `AdioValue` | values, their order, the adaptors: operators only |
| `ValueOrder` | three variables of type `value`, for the laws of the order |
| `BoundParameters` | EXTENDS `AdioValue`: the way of an object through `bind`, SQLite, the row and `get<T>` |
| `EmptyDriver` | the driver without threads; refines `AsyncContract` |
| `MC...` | the instances TLC checks |
| `QueueTheorems` | lemmas about posting to and taking from a queue |
| `SqliteServiceProofs`, `SqliteConnectionProofs`, `SqliteStatementProofs`, `MultiPrepareProofs`, `ValueOrderProofs`, `BoundParametersProofs`, `EmptyDriverProofs` | theorems, each about the module it is named for |

How state and actions correspond to the code:

- **AsyncContract.** `status` is what became of each call, `phase` where the
  thread is that owns the `io_service`. `run` returns only with nothing pending,
  unless a handler throws; a service that needs threads may call
  `std::terminate` for want of them (`MayTerminate`), but only while nothing is
  pending.
- **SqliteService.** `my_ios` and `parent_ios` are the two queues; `pc` and `job`
  are the pool threads; the reference counts behind `shared_ptr` and
  `io_service::work` are the sets `this_pin` and `work_pin` of the operations
  whose closure still holds them. `Start` is any `async_` call on a connection but
  `async_step`, whose task may throw (below); `StartFails` and `StartTerminates` are
  what becomes of it when `std::thread` throws inside `call_once`: the flag stays
  unset, the threads made so far stay in `_threads`, and a retry assigns over them.
  `TakeTask`, `RunBody`,
  `PostHandler`, `ReleaseWork`, `ReleaseThis`, `FinishTask` are the life of a
  closure on its thread; `EnterRun` to `ReturnFromRun` are `io_service::run`, which
  a handler may leave by an exception and the client enter again;
  `ShutdownServices`, `StopPool`, `JoinThreads`, `FreeParent` are `~io_service`:
  first `shutdown_service` of every service, then their destructors, the newest
  first. Asio is external, modelled by what the driver relies on. The client
  destroys its connections before the `io_service`, outside `run()`, as C++
  scoping does in every test.
- **SqliteConnection.** Every actor (thread or client) is in a driver call `prog`
  at the access `at`; `holders` are the owners of the `shared_ptr` behind each
  statement: frames, handlers and the client. `MayCall` is the weakest reading of
  "similar to using an Asio socket object" (`adio/connection.hpp:17`) under which
  the handle is safe: an open or a close does not overlap an open, a close or a
  prepare, and two calls do not use one statement; executes may overlap anything.
  SQLite is external: `sqlite3_close` refuses while a statement is alive, and a
  failed `sqlite3_open` may leave a handle that can only be closed.
- **ConnectionContract.** The connection is one word (closed, open, or left by a
  failed open), and the client and every operation in flight are callers, each
  with at most one call: `Ask`, then `TakeEffect` at some instant, then `Tell`.
  What a call may answer is read off that word at that instant. Of
  `SqliteConnection`, the instant of a call is the access after which its result
  stands in the frame of its thread (`Answers`), and the word is what the client
  will have been told of once every open and close that has taken effect is
  answered (`Word`); of the handle itself, of accesses, threads and queues nothing
  is left.
- **SqliteStatement.** `vm` and `pos` are SQLite's side of the statement, `done`
  and `ec` the driver's; `loop` is the client's loop, `read` what it was given,
  `from` the row SQLite was on when it began, `again` whether `_done` was set then.
  `Break` leaves a loop with its iterator read or not; whatever is called next
  finds the virtual machine there. `given` is what the client was given in the
  present pass of the virtual machine by loops and calls together, and `excused`
  whether it had a call lose a row. `async_step` is here, on the client's thread:
  what `current_row` throws ends the process, because it leaves a pool thread
  (`AsyncStep`). A `SqliteService` in which tasks threw would end with that throw.
- **MultiPrepare.** Pointers are counts of pieces of source; `remaining` has
  `SizeBits` bits and wraps.
- **BoundParameters.** `params` are SQLite's parameters, `row` the row of a
  statement that selects them. An integer type is given by half the size of its
  range (`IntHalf` is 2^63 in the code), and wraps at its ends. So is a character
  (`CharHalf`, `WideHalf`): the adaptor of `basic_string<CharT>` copies character
  by character, which cuts a `wchar_t`, `char16_t` or `char32_t` down to a `char`
  (`Narrowed`) and extends a `char` by its sign (`Widened`).
- **EmptyDriver.** `ios` is the client's `io_service`; there is no work object, so
  `run()` waits for the handlers it has queued and nothing else.

## Runs

| run | shows | bounds |
|---|---|---|
| `svc_safety` | no handler is called twice, no operation is lost, `run()` waits for all, driver and `io_service` outlive the tasks, operations overtake only as many as there are threads, and the creation of threads does not end the process of a client whose operations were accepted; the inductive invariant of the proofs holds; every step is one of `AsyncContract` | 3 operations on 2 connections, 2 threads: two tasks at once and one behind them, one connection destroyed under the other |
| `svc_refines` | with fairness: the service implements `AsyncContract` with its fairness, so that handlers are called and `run()` returns; `~io_service` ends, the driver of a destroyed connection is released | 2 operations, one on each of 2 connections, 2 threads |
| `svc_no_threads` | **violation**: with no thread, no handler is called | no thread |
| `conn_safety` | no race on the handle, no use after close, handles are accounted for, the client knows the state of its connection and owns its statements, a close outside `run()` closes, and so does the destruction of the driver on whatever thread; every call answers as if made at one instant (`ConnectionContract`) | 2 operations, 2 threads, 2 handles, 2 statements: two tasks against each other and the client, one reopening |
| `stmt_loops` | loops that end have seen all rows that were left, and whatever mix of loops and calls makes a pass loses no row of it | results of up to 3 rows, each with a value or NULL |
| `stmt_null` | **violation**: a NULL column cannot be read | as above |
| `multi_safety` | the window stays inside the source, statements come in order, all or none | sources of up to 4 pieces, every order of statements, errors and blanks |
| `multi_ends` | **violation**: the loop goes around for nothing | as above |
| `value_order` | the order is total but for NaN, and keeps the types apart | all triples of 25 values of all six types, with chars that are negative |
| `bind_read` | an object comes back as it was, a string of wide characters exactly if they fit a `char`, or the read throws for a known reason | 2 parameters, objects of every type, integers of 8 numbers with narrower types of 4, wide characters of 8 with chars of 4 |
| `bind_optional` | **violation**: the adaptor of `docs.hpp` converts a null optional | as above, optional and text |
| `empty_contract` | the empty driver implements `AsyncContract`, in order, without ever ending the process | 4 operations |

The larger runs: `conn_safety` has 1,604,673 distinct states up to symmetry,
`svc_safety` 74,287, `bind_read` 90,703, `value_order` 15,625 and `stmt_loops`
13,649. `conn_safety` has one connection: the handle and the statements of two
connections have nothing in common, and what they share, queue, threads and
`io_service`, is in `svc_safety`.

The bounds suffice to make each hazard happen: two threads are enough for two
tasks to overlap, a third operation for one to be queued behind them or started
from a handler; two handles for a reopen, with a second for what the first left.
Every action is taken in some passing run, and for every property there is a
mutation of a mapped definition, kept next to it under a name such as
`MakeWork_Forgotten`, that breaks it.

**Fairness.** `svc_refines` assumes weak fairness of each pool thread (the
operating system schedules it, and `_my_ios.run()` takes tasks as long as there
are any), of the library's own steps inside `run()` and `~io_service`, and of the
return of handlers. Nothing is assumed of the client: it need not start an
operation, call `run()` or destroy anything. `empty_contract` assumes the same
without the threads. What is shown from it is stronger in form: the contract
has strong fairness of each `Call`, because a client whose handlers keep throwing
enters `run()` again and again, and each time another handler may be first; that
the queue is first in, first out is what keeps one from being passed over for
ever.

## Findings

1. `svc_no_threads`: `std::thread::hardware_concurrency()` may be 0, and then the
   pool has no thread (`sqlite.cpp:200`); `run()` waits for ever.
2. `stmt_null`: `values.emplace_back(nullptr)` (`sqlite.cpp:248`) means NULL and
   constructs a `std::string` from a null pointer.
3. `multi_ends`: `_multi_prepare` waits for a null tail (`sqlite.cpp:166`), which
   SQLite never gives.
4. `bind_optional`: `is_null` in the example of `adio/docs.hpp:104` is inverted,
   against the guarantee at `:128`.

More that the models show, which no document contradicts:

- `_done` is never cleared, so a step loop like the one of the tests
  (`src/tests/sqlite.cpp:196`) is over at once when the statement has been run to
  its end before, while a range-for sees the rows again: `StepLoopSeesAll` has to
  exclude the former (`again`), `RangeForSeesAll` does not.
- `begin()` takes a row, so an iterator that is dropped without being read takes
  one along; `execute` and `async_step` take rows and give none; `step` throws at
  a NULL, and the row is gone. These are all the ways a row is lost: `NoRowLost`, a
  theorem, names them (`excused`).
- `execute(st, ec)` leaves `ec` alone when SQLite is done (`sqlite.cpp:91-93`), so an
  error the client left in it survives; `step` clears it (`sqlite.hpp:370`). adio
  passes a fresh one everywhere, and no document says what a client may pass.
- A `wstring`, `u16string` or `u32string` is bound and read without a check:
  characters that do not fit a `char` silently become others (`value.hpp:381`).
  `ComesBackIfItFits`, a theorem, says which strings survive.
- The frame of the worker of `async_prepare` owns the statement until after it has
  posted the handler (`sqlite.hpp:289-293`), so a handler that drops its statement
  and calls `close` may have SQLite refuse, which `close` ignores
  (`sqlite.cpp:178-179`), and the handle is lost. The same can happen outside
  `run()` when a handler threw. Once `run()` has ended by itself it cannot
  (`CloseOutsideRunReleases`), nor when the driver dies, even on a pool thread,
  unless the client or a handler owns a statement then (`DestructionReleases`):
  both are theorems.
- When `std::thread` throws while the pool is started, the call throws. If some
  threads were made before, the next call that gets a thread ends the process (it
  assigns over a joinable one); if no later call succeeds, `~sqlite_service` does
  (it joins an element that is no thread). That is before any operation was
  accepted: `NoTerminateOnceStarted`, a theorem, which is about the creation of
  threads only. An exception of `current_row` that leaves the task of an
  `async_step` ends the process later.

Seen while reading, and not a matter for a model: `async_step` posts a handler
without the row that its signature asks for (`sqlite.hpp:360`, `:386`), so that of
handlers only a generic or variadic one satisfies both; `async_execute` of a query string (`sqlite.hpp:349`) calls
a function that does not exist; `step_handler_signatuve` (`empty.hpp:31`); the
class comment counts four operations where there are five
(`adio/connection.hpp:19`, `:71-75`).

## Proofs

The theorems hold for any value of the constants: any number of operations,
connections, threads, handles, statements, rows, pieces and parameters, any
ranges of integers and characters. The assumptions on constants are those the modules name. They
say that the constants are of the right kind, that `None` and `Null` are no
operation, handle or statement, that the size of a source fits `size_t`
(`MultiPrepareAssumption`), that the narrower integer types, signed or not,
fit the signed `value::integer`, that the range of a wide character is a multiple
of that of a `char` (`AdioValueAssumption`), and that the strings which occur
include those the wide ones are narrowed to (`StringsAssumption`).

| module | theorem | says |
|---|---|---|
| `SqliteServiceProofs` | `TypeCorrect` | `TypeOK`, a part of `IInv`, is an invariant |
| | `IInvHolds` | `IInv`, the inductive invariant, is one |
| | `HandlersCalledOnce` | no handler is called twice |
| | `OperationsNotLost` | until the teardown, a started operation is queued, carried, posted or called |
| | `DriverAliveInTasks` | the raw `this` of a running task is alive |
| | `ParentSafeToFree` | after `~sqlite_service` nothing refers to the client's `io_service` |
| | `DriverDestroyedInTheEnd` | no driver survives the `io_service` (`svc_refines` checks the stronger `DriverReleased`) |
| | `NoTerminationOfClients` | the creation of threads ends only processes none of whose operations the pool accepted |
| | `RunWaitsForAll` | `run()` returns by itself only when every operation was completed |
| | `AnswersAlmostInOrder` | an answered operation has overtaken only what other threads are carrying |
| | `RefinesContract` | `Spec => Contract!Spec`: the service implements `AsyncContract` |
| `SqliteConnectionProofs` | `ConnImplementsService` | `ConnSpec => Spec`: every theorem above holds of the driver too |
| | `ConnIInvHolds` | the inductive invariant of the handle is one |
| | `ConnTypeCorrect` | `ConnTypeOK` is an invariant |
| | `HandleNotRaced`, `HandleNotUsedAfterClose` | the unlocked handle is not raced on and not used after close |
| | `NoHandleForgotten` | every open handle is the connection's or was dropped by a refused close |
| | `ClientKnows` | between opens and closes the client knows the state of its connection |
| | `ClientIInvHolds` | `ClientIInv` is an invariant |
| | `AtomicIInvHolds` | `AtomicIInv`, on which the atomicity of the calls rests, is an invariant |
| | `CallsLookAtomic` | `ConnSpec => CallsAreAtomic`: the driver implements `ConnectionContract` |
| | `ConnImplementsContract` | `ConnSpec => ImplementsContract`: through the service, the driver implements `AsyncContract` too |
| | `ClientOwns` | after a `run()` that ended by itself statements are the client's alone |
| | `CloseReleases` | a close made then by a client without statements leaks no handle |
| | `DestructionCloses` | nor does the destruction of the driver, whoever owned it last, unless the client or a handler owns a statement |
| `SqliteStatementProofs` | `StmtIInvHolds`, `StmtTypeCorrect` | the inductive invariant and the types |
| | `RangeForComplete`, `StepLoopComplete` | a loop that ends has seen every row that was left |
| | `RowsAccounted` | whatever mix of loops and calls makes a pass loses no row of it, but in the ways named |
| `MultiPrepareProofs` | `MultiTypeCorrect`, `WindowInsideSource` | the `size_t` never wraps |
| | `EveryStatementOnce`, `ErrorLeavesNothing` | statements in order and once; all or none |
| `ValueOrderProofs` | `OrderIsTotal` | without NaN `<` is a strict total order whose equivalence is `==` |
| | `TypesApart` | nothing of another type sorts between two values of one type |
| `BoundParametersProofs` | `BoundIInvHolds`, `BoundTypeCorrect` | the inductive invariant and the types |
| | `NothingElseChanges` | an object comes back as it was, a string of wide characters exactly if they fit a `char` |
| | `DatetimesAreLost` | only a datetime cannot be read as what it was bound as |
| | `ReasonKnown` | a row that cannot be read has a parameter that is NULL for a known reason |
| | `FittingIsExact` | an integer read as another integer type is exact if it fits |
| `EmptyDriverProofs` | `EmptyAnswersInOrder` | handlers in the order of the calls |
| | `EmptyRefinesContract` | `Spec => Contract!Spec`, with `MayTerminate` false |

**The service.** That `run()` waits for all rests on every task that has not
posted its handler holding `work_pin` (`PinsHeld`) while work keeps the parent
from stopping (`ParentKeptRunning`). Neither is inductive alone: that releasing
the work of one closure does not release another's needs operations to be in one
place at a time (`PlacesApart`), which needs the queues to name each operation
once (`QueuesDistinct`), and that no operation escapes needs `NothingLost`.
`PoolStartedOnce` ties the once-flag to the first task, and with it bounds when
the process may end; `QueueInOrder` says that the pool's queue is the end of the
history of started operations, which is why nothing is overtaken by more than the
threads. The order of teardown (`TeardownOrder`) is what frees driver and parent
last. These parts make up `IInv`; `IInvStep` shows that every action preserves it,
one step per action and one below it per part. The refinement maps an operation
to idle, pending, called or dropped; `NothingVisible` and `DropVisible` are what
steps that change no status, or only drop operations, look like from above.

**The handle.** The code has no lock, so safety comes from the discipline of the
client: `NoOverlap` says that what `MayCall` asks when a call is made stays true
while it is in flight. With `Working` and `AtOfProg`, which tie what a thread
accesses to the operation it carries, it follows that whoever is inside an open
or a close is alone with the handle (`AloneWithHandle`), from which `HandleState`
and the three properties follow. That a statement which is not finalized belongs to
an open database (`StatementHasDatabase`) is SQLite's doing, and only a part of the
invariant. `ConnIInv` is inductive relative to `IInv`.

**The client.** The result of an open stays true while it travels from the
thread that made it, through the queue of handlers, to the client, because nobody
else may touch the handle meanwhile (`Reports`, with `Untouched` for the state
before the connection exists). A statement that is not finalized has an owner,
and an owner other than the client is a posted handler or a thread that keeps
`run()` waiting (`ThreadOwners`, `StatementOwners`, `StoppedIdle`). These make up
`ClientIInv`. `DestructionCloses` follows, because a thread that owns a statement
still holds `this_pin`, so that it is not yet the one whose release kills the driver
(`LastOwnerAlone`).

**Atomic calls.** `CallsLookAtomic` shows that no client of an unlocked driver can
tell it from a locked one. Of an `open` three accesses and the way of its result
through a queue lie between being made and being answered, and every other step
may come in between; the refinement says when in that time it happened.
`AtomicIInv` adds to what the handle and the client need two facts: `ResultSlots`,
that an answer is in one place at a time (the frame of the thread, or the posted
handler) and is not touched on the way, and `StaysOpen`, that a call that has found
a handle still has it at its next access. From these, `AnswerKept` and `WordKept`
say of a step what must hold for it to be invisible, and `CallsStep` goes through
the actions: a call asks (`StartAsks`, `SyncAsks`), its last access takes effect
(`ClientTakesEffect`, `TaskTakesEffect`), its return or its handler tells
(`ReturnTells`, `HandlerTells`), and all else, the teardown of driver and
`io_service` included, stutters (`ThreadUnseen`, `InvisibleUnseen`). Two remarks on
what the contract had to allow: after a failed `sqlite3_open` a prepare may be
answered `not_connected` or by an error of SQLite, depending on whether a handle
was left; and an execute of a query is one atomic call although it reads the handle
twice and may be overlapped by executes.

**Statements.** What a loop has been given is at every moment the run of rows
between the one SQLite was on when it began and the one it is on now, one short
while a range-for has moved and not read (`LoopInv`). The same of all a pass was
given, by loops and calls together, is `PassInv`: unless `excused`, it is the rows
from the first to the one SQLite is on.

**prepare_multiple.** `MultiIInv`: the cursor is right behind the last statement
compiled (`CursorBehindLast`), no piece before it was refused (`NothingFailed`),
and cursor and window add up to the source, so that the subtraction cannot wrap
(`NoWrap`).

**The order.** Values are ordered by type and, within a type, as numbers or
lexicographically. Of two different strings one comes first because there is a
first place in which they differ (`FirstDifference`): the least member of a set of
natural numbers, which `WellFoundedInduction` gives without an induction over an
operator. Blobs are compared as signed chars, which tell bytes apart
(`CharsDiffer`), so their order is as total as that of texts. Transitivity
(`LessTransitive`) holds with NaN too, since NaN is less than nothing of its type.

**Parameters.** `RoundTrip`: what `get<T>` gives of what SQLite stores of what
`bind` passes of an object of type `T` is that object, by cases over the client's
types; for the integer types by `CastsReturn`, that the casts to `int64_t` and back
are inverse, whatever the ranges; for strings of wide characters by
`WideStringReturns`, which rests on what a remainder is (`RemainderOfSum`). `BoundIInv` says that a parameter holds what
SQLite stores of the object it was last bound to, that the row is the parameters,
and that what was read comes from the row. All but `FittingIsExact` and the types
assume that no adaptor in use has the inverted `is_null` of `docs.hpp`
(`RightAdaptors`), without which `bind_optional` shows `NullNeverConverted` to be
false.

Every safety property that a passing run checks, both refinements of contracts
included, is the conclusion of one of these theorems. Only model-checked:
liveness (`TeardownEnds`, `DriverReleased`) and the fair part of both
refinements, which are out of reach of the prover.

## Not modelled, and why

- `adio/traits.hpp`, `adio/config.hpp`: compile-time only.
- `adio/error.*` and the list of `sqlite_errc`: tables of codes.
- The PostgreSQL driver: there is no implementation.
- Moving a `sqlite` or a statement (the facade never does), and `async_execute` of
  a query string, which does not compile when it is used.
- Calls that `MayCall` excludes, and a statement destroyed while an operation
  refers to it: undefined behaviour that the library leaves to its client; they
  are preconditions of `SqliteConnection`. So is a call through a statement whose
  preparation failed.
- The copies of a handler that die with the closure on the pool thread
  (`sqlite.hpp:286`): what a handler captures is the client's program.
- Failing allocation on pool threads, and exceptions there except those of
  `current_row` and `bind`.
- Sizes of 2 GiB and more, which SQLite takes as `int` (`sqlite.cpp:279`).
- `operator<<`, `type_name`: wording.

## Plan

Done, in the order in which the parts matter: the service with its contract, the
connection on top of it, statements, `prepare_multiple`, values and parameters,
the empty driver; several connections on one service, threads that fail to start,
handlers that throw, loops that are broken off and resumed; the atomicity of the
calls on a connection; and the proofs above.

Left:

1. a statement in `SqliteConnection` as the one of `SqliteStatement`: rows, `step`
   and `async_step` on the pool while the client holds other statements;
2. a row cursor as the abstract specification of the range-for and the step loop,
   refined by `SqliteStatement` as far as the sticky `_done` allows.
