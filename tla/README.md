# C2Serve in TLA+

C2Serve is a C++ library for HTTP/REST servers: a socket listener with a pool
of threads, an incremental HTTP parser, a matcher from URIs to registered
resources and methods, and a small client.  This directory holds TLA+ models of
it, TLC configurations that check them and proofs for TLAPS.  Paths below are
relative to the root of the sources; the models follow the POSIX build (`WINXX`
not defined, `DEBUG` not defined, assertions on).

## 1. The system

| Part | State | Operations | Talks to |
|---|---|---|---|
| Thread queue, `c2s-util/thread/C2SThreadQueue.h` | `m_threads`, `m_iSize`, three mutexes, one mutex per runner | `queue`, `start`, `join`, destructor; `reregister` on the runners' threads | runnables it executes |
| Task queue, `C2STaskQueue.h` | `m_tasks`, `m_bIsRunning`, three mutexes | `queue`, `join`, destructor; `run` on the dispatcher's thread, `detach` on the workers' | a thread queue of workers |
| Server life cycle, `c2s-core/C2SRuntime.cpp`, `c2s-socket/C2SSocketListener*.cpp`, `C2SSocketAcceptHandler.cpp`, `c2s-http/C2SHttpServer.cpp` | `m_bKeepRunning`, `m_bIsListening`, `m_bIsRunning`, `m_bInterrupted`, accept mutex, socket descriptor; the objects the server owns | construction, registration, `start`, `run`, `shutdown`, destructor; `accept` on the handlers' threads | a thread queue of handlers, the operating system, remote clients, the data pull |
| HTTP request cycle, `c2s-http/C2SHttpDataPull.cpp`, `C2SHttpParser.cpp` | partial line, partial body, the request so far | `receive`, `isComplete`, `flush`, `reset` | handler, resource manager |
| Headers, media types, status | maps of fields, lists of types with qualities | `set`, parsing, formatting | parser, methods |
| URIs, strings | none | `uriEquals`, `uriSkip`, `splitNhandle`, `splitString`, encoding | matcher, parser |
| Resource matching, `C2SHttpMatching.cpp`, `C2SHttpResourceManager.cpp` | registered resources, a clone of each per handler | registration, longest match, dispatch, error replies | server, REST resources |
| REST, `c2s-rest` | registered methods, their parameters' and entities' current values | construction, registration, matching by distance, parameter binding, type negotiation | resource manager, the application's methods |
| Client, `C2SHttpClient.cpp` | one connection, the response so far | `send`, `read` | operating system |
| Test application, `c2s-test/rest` | the fixture's resources, methods and global mutex | the methods' `process`, the checks | REST, client, server |
| Logging, `c2s-log`; log files, `c2s-util/io` | output streams, a mutex | messages | everything, one way |

What is hard here:

* **Signalling with mutexes.**  The thread queue and the task queue lock a mutex
  in one thread and unlock it in another; whether a waiting thread is woken
  depends on which of several threads saw a list empty.
* **Flags read without locks.**  `m_bIsRunning`, `m_bKeepRunning`,
  `m_bInterrupted`, `m_bIsListening` and `m_tasks.size()` are read while others
  write them.  In the build the repository describes (no optimisation) each
  read and write is one access of memory, which is how the models treat them.
* **Start-up, shutdown and deletion** while threads are at any point of their
  code; handlers outlive the `run()` that created them, and the mutex and the
  queue that they refer to do not.
* **Partial failure**: `pthread_create`, `bind`, `accept`, `recv`, `read` and
  `write` fail after part of an operation has happened.
* **Chunking**: requests and responses arrive cut anywhere, and may end early.
* **Members that outlive a request**: the parameters, the received entities and
  the header of one request are members that the next one finds.
* **Ambiguity**: matches of equal length or distance.

What makes each part correct is stated with its module in section 3.

## 2. Plan

    WorkerPool          what a thread queue promises              (abstract)
      ^  implemented by
    ThreadQueue         C2SThreadQueue with all its mutexes       proofs: ThreadQueue_proofs
      ^  used as WorkerPool by
    TaskQueue           C2STaskQueue                              proofs: TaskQueue_proofs
    SocketListener      C2SRuntime, listener, accept handlers     proofs: SocketListener_proofs
      ^  extended by
    HttpServer          the program that owns a server, with HttpObjects:
                        the objects it is made of and their destructors
                                              proofs: HttpServer_proofs

    StringUtils         strings, URIs, splitting, encoding
      ^  used by
    Matching            context roots, path segments, distances
      ^  run over every short URI by
    UriMatching                                               proofs: UriMatching_proofs

    HttpHeader          fields, media types, request and status line   (uses StringUtils)
    HttpParser          chunks to lines to a message                   (uses HttpHeader)
    HttpMessages        the messages of the parser tests               (uses HttpParser)
    HttpExchange        one client, one connection, one handler        (uses HttpMessages, Matching)
      |  implements                                           proofs: HttpExchange_proofs
      v
    RequestResponse     what send() and the server promise together    (abstract)

    RestMethods         methods, parameters, negotiation               (uses Matching, HttpHeader)
    RestFixture         the application of the tests, its checks       (uses RestMethods, HttpParser)
    RestServer          several handlers, each with its clones         (uses RestFixture)
                                                              proofs: RestServer_proofs

Each `*_proofs` module extends the module that it is about; `HttpServer_proofs` also
extends `SocketListener_proofs`, since every step of the server is one of its listener.
`SequenceFacts` has the lemmas that several of them cite: on sequences, on intervals and
their greatest elements, and on what holds of every number because it holds of no
least or greatest counterexample.

All of these are written, checked and proved as section 5 says.  What could be added:

1. The composition of `HttpExchange` with `SocketListener` (the receive loop of several
   handlers during a shutdown), for which the words of the messages have to be
   abstracted to what the parser's end-of-loop test tells apart.
2. `TaskQueue` over `ThreadQueue` itself: it uses `WorkerPool`, which `ThreadQueue` is proved to
   implement, but the two steps are not stated as one theorem.

## 3. The modules

### WorkerPool

The thread queue as its users see it: a sequence `idle`, a set `running`, and
for each caller what it is doing.  `Dispatch` hands out the worker that has been
idle longest, `Join` passes only when none runs, `Refuse` (the exception) needs a
pool that is empty.  It has no mutex.

### ThreadQueue

One action for each stretch of code between two points at which a thread can
block or be noticed.  `m_writeMutex` and the runners' `m_mutex` are modelled by
their holder, since the thread that locks them unlocks them; `m_occupiedMutex` and
`m_busyMutex` are Booleans, since another thread may unlock them.  (For the
default pthread mutex that is not defined by POSIX; on Linux it is a binary
semaphore, and that is what the library relies on.)

| Code | Actions |
|---|---|
| `queue()` | `Queue` |
| `start()` | `CallStart`, `LockOccupied`, `ThrowEmpty`, `LockWrite`, `LockBusy`, `Pop`, `AwaitRunner`, `Create`, `ThrowCreate` |
| the runner's `run()` and `reregister()` | `LockRunner`, `RunnableReturns`, `Reregister`, `SignalIdle`, `LeaveReregister`, `UnlockRunner` |
| `join()` | `CallJoin`, `JoinLock`, `JoinUnlock` |
| `join()` and destructor | `CallLastJoin`, `Delete` |

`Terminated` lets the model stutter after the destructor.  In all modules,
definitions whose name ends in an underscore and a word (`Reregister_OnlyFirst`) are
seeded faults: no specification uses them, and each property of a passing run is
violated when one of them stands in for the definition it is named after.

Correct means: a runnable is executed by one thread at a time
(`SingleThreadPerRunner`, `RunnerInOnePlace`); a runner that was taken comes back,
unless the `start()` that took it fails in `pthread_create` (`OnlyRefusalsLose`, its last
part: `Lost` is the runners that are neither in `m_threads` nor with a caller or thread,
their `Holders`); mutexes are unlocked only when locked (`UnlocksLocked`); `start()` does not
throw or fail
its assertion on a queue with runnables (`StartFindsRunner`) and does not wait while one is
idle (`IdleRunnerAvailable`); `join()` passes only when nothing runs (`JoinSeesAllIdle`);
callers and threads never all wait for each other (`NoDeadlock`); nothing touches a deleted
queue (`NoUseAfterDelete`); the whole implements `WorkerPool` (`ImplementsWorkerPool`); and
calls return.  The exception of `NoDeadlock` and of the last is what a failed
`pthread_create` has lost: a `join()` waits for ever once a runner is lost, a `start()`
once all of them are.

### TaskQueue

`C2STaskQueue` over `WorkerPool`, with the dispatcher as the pool's caller and
the clients as its joiners.

| Code | Actions |
|---|---|
| `queue()` | `CallQueue`, `QueuePush`, `QueueRunning`, `QueueNotRunning`, `QueueStart`, `QueueStartThrows` |
| `run()` | `DispatcherLock`, `DispatcherFindsNone`, `DispatcherFindsTask`, `DispatcherStartsWorker`, `DispatcherContinues`, `DispatcherStops`, `DispatcherExits` |
| the worker's `run()` and `detach()` | `Detach`, `RunTask`, `FinishWorker` |
| `join()`, destructor | `CallJoin`, `JoinLock`, `JoinTasks`, `JoinWorkers`, `JoinReturn` |

`m_mutex` is held across `QueuePush` to the end of `queue()`; `detach()` holds it for one
step.  `queued`, `done` and `awaited` are history: what was pushed, what has run, what a
`join()` may not miss.  `queue()` returns unless a `join()` waits for a task that has no
dispatcher for good (`JoinSpins`, the lost task of `tasks_lost`), and `join()` unless that
is so or the dispatcher's thread could not be created (`NoDispatcher`): the flag
`m_bIsRunning` then keeps every later `queue()` from trying again (`CallsReturn`).  The
dispatcher's own start of a worker does not fail here: an exception there would leave the
dispatcher's thread and end the process.

### SocketListener

Three kinds of threads: those that call `start()`, `run()` and `shutdown()` of
the runtime (`cpc`), the one inside `C2SSocketListener::run()` (`lpc`; a thread
of its own after `start()`, the caller's after `run()`), and the handlers (`hpc`).

| Code | Actions |
|---|---|
| `C2SRuntime::start`, `connect`, `startListener` | `CallRuntimeStart`, `ConnectForStart`, `ConnectThrows`, `StartThread`, `StartThrows`, `WaitForStartup`, `StartReturn` |
| `C2SRuntime::run` | `CallRuntimeRun`, `ConnectForRun`, `ConnectThrows`, `RunReturn` |
| `C2SRuntime::shutdown`, `stopListener`, `interrupt` | `CallShutdown`, `StopKeepRunning`, `InterruptEarlier`, `InterruptHandler`, `InterruptedAll`, `ShutSocket`, `CloseSocket`, `AwaitStopped`, `ShutdownReturn` |
| `C2SSocketListenerThread::run`, `C2SSocketListener::run` | `SetRunning`, `SetKeepRunning`, `CreateHandler`, `QueueHandler`, `SetListening`, `LoopContinues`, `StartHandler`, `StartedHandler`, `LoopEnds`, `JoinHandlers`, `DeleteQueue`, `ResetListening`, `ResetRunning` |
| `C2SSocketAcceptHandler::accept` | `LockAccept`, `InterruptedBefore`, `NotInterrupted`, `AcceptConnection`, `AcceptErrs`, `AcceptFails`, `InterruptedAfter`, `AcceptThrows`, `Serve`, `RequestEnds`, `RequestThrows`, `Flush`, `FinishHandler` |

A socket is a number, its position in the sequence `sockets` of what became of
it; descriptors are not reused, although the operating system reuses them.  A
port has at most one listening socket, so `connect()` succeeds only when there is
none, and may fail for other reasons too.  `::accept()` on a socket that listens
may wait for ever; on one that was shut down it fails at once.  The loop of
`recv()` and `receive()` is one step that ends well or throws.  An exception that
leaves a handler ends the process (`threw`).

`m_acceptHandlers` keeps the handlers of every `run()`: `earlier` counts those of runs
that have ended, which `interrupt()` visits first (`InterruptEarlier`) and which have
nothing left to be interrupted in.

`MayStart` and `MayShutdown` say how a program uses the server: one call at a
time, start when it is down, shut down when it is up.  The constants `EarlyShutdown`
and `SecondStart` lift one of these rules each, for the runs that show what
happens then.

### HttpObjects and HttpServer

`HttpObjects` says, for each class, what its members point to, what its
constructor creates and what its destructor deletes, in which order: server,
runtime, listener, log; handler, data pull, request, parser, resource manager,
clones of the resources; resources, methods and their segments, parameters,
streamers and unstreamers; the fixture of the tests, which owns a server.
`HttpServer` extends `SocketListener` with the heap: each of its actions is an action
of `SocketListener` together with the objects it creates, deletes or detaches, or an
action of the program before and after it uses the server.

| Code | Actions |
|---|---|
| `C2STestServerRunner`, `C2SHttpServer::create` | `CreateServer` |
| `addResourcePrototype` | `RegisterResource`, `UseServer` |
| `C2SThreadPosix::start` of the listener's thread | `StartThreadObject`, `StartThrowsWithThread` |
| `C2SSocketListener::run`, handlers' constructors, `~C2SThreadQueue` | `NewQueue`, `NewAcceptHandler`, `QueueNewHandler`, `DeleteQueueObjects` |
| `C2SHttpDataPull::reset`, `receive`, `flush` | `reset`, `ReceiveRequest`, `FlushRequest` |
| all destructors | `DeleteServer`, `DeleteObject`, `FreeObject`, `ClearList`, `ServerIsGone` |

Destructors take one step per object, so that a thread that has not ended yet
meets a server that is half deleted.  `NoUseAfterDelete` relates the program
counters of all threads to the objects that their code touches there, the handlers
of earlier runs that `interrupt()` visits (`InterruptedNow`) and the thread that
`C2SThreadPosix` detaches included.  It has one exception: what a `pthread_create` that
failed leaves in `m_pthread` (`NoThread`) is the handle of no thread, and it is detached
all the same, by the next `start()`, which throws if that fails (`StartThrowsWithThread`),
or by the destructor (in the run by this one, since the socket of a failed `start()` still
listens and the next `connect()` throws).  `NothingLeaks` says that when the program has deleted the server,
nothing is left but the resources that the server refused, which are still the
program's.

### StringUtils, Matching, UriMatching

Pure operators.  `StringUtils` follows `C2SStringUtils.h`, `StringUtils.cpp` and
`urlcode.cpp`; a pointer into a string is a position, a loop is a recursive
function of the positions.  `Matching` has `findLongestMatchString`, the path
segments with their comparison and distance, and
`getPrototypeWithBestMatch` with the statuses that its exceptions become.

`UriMatching` runs them over every URI and every context root of a bounded length
and states what their results mean: two URIs are equal when their segments are
(`UriEqualsComparesSegments`); skipping a root leaves the rest of the path
(`UriSkipLeavesThePath`); splitting loses no character (`SplitLosesNothing`); the
resource that is called is the one whose segments are the longest prefix of the
URI's, and the assertion on matches of equal length fails only for roots that
differ in their leading slashes (`LongestMatchIsNearest`), which the registration does not
prevent; of two methods the more
specific one is called, in whatever order they were registered
(`MoreSpecificWins`; `MoreSpecific` is in `Matching`, where the proofs need it too).
The cases of the repository's own tests of these functions (`URICompare`, `URISkip`,
`URLCoding`) are assumptions of the module, which TLC evaluates.

### HttpHeader, HttpParser, HttpMessages

`HttpHeader` reads and writes what a header consists of: request line, status line,
query fields, `Accept` with qualities, `Content-Type`, `Content-Length`, and any other field.
A text is a sequence of words and separators; the words that make a number
are the constant `NumberOf`.  `HttpParser` is the state of `C2SHttpParser` between
two chunks and the function `parse` from it and a chunk to the next one, with the
incomplete line, the count of adjacent line ends and the assertions on the body
(`failed`).  A header that is refused keeps the status of the exception (`threw`).
`HttpMessages` has the messages of `C2STestHttpBasic.cpp`, and as an assumption what
the parser makes of three of them cut into any three chunks.

### HttpExchange and RequestResponse

A client, the connection and a handler, one request after the other.

| Code | Actions |
|---|---|
| `C2SHttpClient::send`, `writeToSocket` | `Connect`, `ConnectThrows`, `Write`, `WriteFails`, `Shutdown`, `ShutdownThrows`, `Read`, `ReadThrows` |
| `C2SSocketAcceptHandler::accept` with `C2SHttpDataPull` | `Accept`, `Receive`, `ReceiveThrows`, `Flush`, `Close` |
| `C2SHttpResourceManager::handleRequest`, its response handler, `push` | `Flush`, `Push`, `PushFails` |
| the environment | `ClientDies`, `Break` |

`Write`, `Receive`, `Push` and `Read` transfer any number of words that the connection
allows; the server writes once and does not look at how much was taken, and the
client takes a read that does not fill its buffer for the last.  A write to a client
that has closed its end or cannot be reached may fail (`PushFails`) or succeed, in which case
what is written is lost (`Push`).  `RequestIntact`
says what the method is called with, `ResponseIntact` what `send()` returns,
`ParsersAccept` that no assertion of the parser fails, `ExchangeEnds` that both sides
come to an end, and `ImplementsRequestResponse` that all this implements
`RequestResponse`: a request is handled at most once, and its `send()` returns the reply's
status and its entity as a whole, or loses one of them, or throws.

`ReadsMessages` and `ReadsReplies` say what the proofs need of the instance's messages and
replies: the parser accepts each of them as a whole, and what it has after the first words
of one, read at once, is what was sent or a part of it.  That the same comes of them however
they are cut is proved.  They are statements about the parser's functions and the instance's
messages, not about states.

### RestMethods, RestFixture, RestServer

`RestMethods` constructs a method as the calls of the API do and has what happens to
a request before `process()`: binding of path and query parameters, choice of the
unstreamer and of the streamer, the statuses of refused requests.  `WellFormed` says what
those calls make of a method unless one of them throws: each parameter writes to a
member of its own.
`RestFixture` is the application of the tests: the two resources, the methods with
their `process()`, and every check of `C2STestRestCheckServerResponses.cpp` with the request it
builds and the response it expects.  That its methods are well-formed is
`FixtureAssumption`, which TLC evaluates in the run `rest`.

| Code | Actions of `RestServer` |
|---|---|
| a request arrives at a handler | `Receive` |
| `handleRequest`, `C2SRestResourcePrototype`, `processRequest` of the method's base classes | `HandleRequest` |
| `process()` | `Process`; of the method that sleeps, `Sleep` and `Wake` |

Each handler has its clones, and what a request leaves in the members of a clone
stays there.  `ChecksPass` says that every check gets the response that its test
expects, after any requests and beside any others; `OwnRequest` that what `process()`
reads from its parameters is from its own request; `NegotiatedTypeAccepted` that the
response's type is one that the request accepts and, if possible, names.
`ChecksPass` has one exception, which the code has: the converter marks an
entity as received when it is unstreamed, and a request that is refused later
(`406`) never reaches `process()`, which resets the mark; the next request of the
other type is then answered with that entity.  `refused` is the history of such
entities.  `HistoryIsForgotten` states the same of any request: it is answered with
what `AnswersTo` computes from the methods as they were registered, or by the converter
with what it was left with.

## 4. The runs

| Run | Instance | Shows |
|---|---|---|
| `pool_safety` | 2 callers, 3 runners, 3 threads, 1 failing `pthread_create`; symmetric | type and safety invariants and `ImplementsWorkerPool` |
| `pool_live` | 1 caller, 3 runners, 3 threads, 1 failing `pthread_create` | `StartReturns`, `JoinReturns` |
| `pool_late_queue` | 1 caller, 2 runners, `queue()` while all are busy | `StartReturns` is violated |
| `tasks` | 2 clients, 2 workers, 3 tasks, 1 refused thread | safety, `SeenTasksRun`, `CallsReturn` |
| `tasks_lost` | 1 client, 2 workers, 2 tasks | `EveryTaskRuns` is violated |
| `listener` | `HttpServer`: 2 callers, one of which calls `run()`, 2 handlers, 2 sockets, 2 resources with one context root | `NoUseAfterDelete`, `NothingLeaks`, `CleanShutdown`, `StartMeansListening`, `ShutdownStops`, `StartReturns`, `ShutdownReturns` |
| `early_shutdown` | `SocketListener`: 2 callers, 2 handlers, 2 sockets, `EarlyShutdown` | `ShutdownStops` is violated |
| `second_start` | the same, with `SecondStart` | `ShutdownReturns` is violated |
| `matching` | 3 characters, URIs of up to 5, roots of up to 4, paths of up to 3 segments | the five properties of `UriMatching` |
| `rest_tie` | the same without roots | `RegistrationPreventsTies` is violated |
| `exchange` | 6 messages, 3 context roots, 2 answers, a buffer of 8 words | `RequestIntact`, `ParsersAccept`, `ResponseIntact`, `ExchangeEnds`, `ImplementsRequestResponse` |
| `rest` | 2 handlers; one gets every check and 6 other requests, the other the request that sleeps | `ChecksPass`, `OwnRequest`, `NegotiatedTypeAccepted` |

**Why these bounds.**  The thread queue tells apart "no runner idle", "some" and
"all": three runners give a list that is empty, has one element, has several
and is full, and two callers give a `start()` that waits behind another and a
`join()` that races a `start()`.  A runner has one thread at a time, so more
threads than runners add nothing.  Two workers and three tasks let a task wait
while both workers are busy, and let a dispatcher end and a second one begin.

In `listener` two sockets let a server be started again after it was shut down, so
that handlers of an earlier `run()` are left to the destructor; with two handlers
one can hold the accept mutex while another is served or waits.  The method has
one part of each kind (a segment, a path parameter, a query parameter, a streamer,
an unstreamer), since destructors treat the parts of a kind alike; every request
has a body, which is the case with more objects.  The level of the log is that of
a server that publishes its notes, which is when it uses the log's mutex.

In `matching` three characters (a slash and two letters) make segments of one
and two letters, empty ones, and slashes at either end; the other roots are
prefixes, extensions and equals of the one that varies.  Three segments with a
parameter at any place are the least that have ties.

In `exchange` the buffer of 8 words is shorter than every message, so that each takes
several reads; any shorter read may happen too.  A word is not cut inside, and
a CR LF can be cut between the two.  A client connects only after the handler has
closed the connection before, since the listen queue of the operating system keeps
the others waiting.  The messages are those of the tests, with and without a
`shutdown()` of the client's end, and three that `C2SHttpClient` makes: with a query
field that has to be encoded, with an entity, and for a URI without a resource.
The answers have an entity and none.

In `rest` the handler of all checks takes them in any order and any number of times,
so that each meets what any others left; the six other requests are refused
where no check is (no URI, no root resource, `406` after an entity was unstreamed, an
entity that is announced but missing) or are at the edge of a conversion.  The second
handler sleeps in a method of which the first one has another clone.

**Deadlock.**  TLC's deadlock check is off where the system may stop: after a
runner is lost to a failed `pthread_create` (`NoDeadlock` checks all other states of the
thread queue), after a task is lost and a `join()`
waits for it, after the process has ended, when the bounds allow no further call
or the server is deleted, and in `UriMatching`, whose strings have a greatest length.

**Fairness.**  Every thread is weakly fair: the operating system keeps scheduling
it, and no mutex is assumed to be fair (a waiting thread is not promised the
mutex when others keep taking it).  Runnables and tasks are assumed to return,
which every use in the repository has to.  Calls of clients are not fair, and in
`SocketListener` and `HttpServer` nothing that needs a remote client is:
`ShutdownReturns` is stated for runs in which no handler stays in `recv()` for ever,
since the code has no timeout there.  `HttpServer` has the fairness of `SocketListener`:
each step of a thread there is one here, and the program is not obliged to
delete its server.  In `HttpExchange` the client that is inside `send()` and the handler
are weakly fair; their conditions are written out (`ClientReady`, `HandlerReady`), as
`[]<>~Ready \/ []<><<Moves>>_vars`, which is weak fairness of an action whose
enabledness is `Ready`, because evaluating the enabledness of the parser's actions is
what would take most of the time.  No new client, no death of a client and no
break of the connection is fair.

**What was found.**

* `pool_late_queue`: a runnable queued while all others are busy leaves
  `m_occupiedMutex` locked with `m_threads` not empty.  A `start()` that waits is not
  woken by it, and the runner that comes back next does not unlock either: `start()`
  waits for ever.
* `tasks_lost`: `queue()` reads `m_bIsRunning` after the dispatcher has found the
  list empty and before it resets the flag.  The task stays; `join()` then spins.
* `early_shutdown`: `shutdown()` while the server comes up is overtaken by
  `m_bKeepRunning = true` or returns because `m_bIsRunning` is not set yet.  In the trace it
  has closed the socket by then, and the listener's thread runs on; a `shutdown()` that
  passes before `connect()` returns although the server comes up afterwards.
* `second_start`: `start()` on a server that is up throws, but `connect()` has
  replaced the descriptor by that of a socket it could not bind; the `shutdown()`
  that follows closes the wrong socket and waits until some client connects.
* `rest_tie`: the registration refuses a method only when the parameters are at the
  same places as in one that is there.  `/a/{x}/{x}` and `/{x}/a/a` are both
  registered and have the same distance from `/a/a/a`, which is then answered with an
  internal server error; the code says there that registration must prevent this.

More outcomes are visible in the models and contradict nothing that the
repository says:

* After a failed `pthread_create` in a thread queue `join()` waits for ever (the runner
  is lost), and the listener's thread object detaches a handle that belongs to no
  thread.  In a task queue `m_bIsRunning` stays set: no later `queue()` starts a
  dispatcher (`NoDispatcher`).
* A `join()` of a task queue that waits for a lost task keeps `m_runningMutex`: a
  `queue()` of another client, which would start a dispatcher, waits for it (`JoinSpins`).
* `start()` waits for ever if a `shutdown()` beside it lets the listener set and reset
  `m_bIsListening` between two of its polls: `StartReturns` does not hold when
  `EarlyShutdown` is `TRUE`.
* A connection accepted while `shutdown()` interrupts its handler is neither served
  nor closed.
* `addResourcePrototype()` compares context roots character by character, the match skips
  their leading slashes: `/a` and `a` can both be registered, and a request below them fails
  the assertion of `findLongestMatchString()` that no two matches have the same length.
* An exception of `receive()`, as for a line that cannot be parsed or a query field
  that comes twice, leaves the handler's thread and ends the process, since only
  what follows the loop is in a `try` block (`Ends`).
* A `write()` of the client that fails adds -1 to the bytes written; after some were
  written the loop goes back over them one at a time before it throws (`WriteFails`).
* A request whose header is cut off is handled as far as it was read (`RequestIntact`
  states how far that may be).
* An entity of a request that was refused with `406` is in the next answer
  (`ChecksPass`).

## 5. The proofs

Every invariant that a passing run checks but `NoDeadlock` is proved for every value of the
constants; so are the two refinements.  The theorems assume what the modules' `ASSUME`s say,
and what the table adds.

| Module | Assumes besides | Theorems |
|---|---|---|
| `ThreadQueue_proofs` | for `IdleRunnersAvailable`: `~QueueWhenAllBusy` | `Invariance`; `TypeCorrect`, `OneThreadPerRunner`, `OnePlacePerRunner`, `NoFreeUnlock`, `StartNeverThrowsEmpty`, `JoinIsSound`, `DeleteIsSafe`: the other safety invariants of `pool_safety`; `IdleRunnersAvailable`: `IdleRunnerAvailable`; `Refinement`: `Spec => ImplementsWorkerPool` |
| `TaskQueue_proofs` | | `Invariance`; `TypeCorrect`, `DetachIsSafe` (`DetachFindsTask`), `TasksHaveOnePlace` (`TaskInOnePlace`), `DispatcherIsAlone` (`OneDispatcher`), `JoinIsSound` (`JoinWaitsForTasks`) |
| `SocketListener_proofs` | all but `TypeCorrect`: `~EarlyShutdown`, `~SecondStart` | `TypeCorrect`, `Invariance`; `ShutdownIsClean` (`CleanShutdown`), `StartIsComplete` (`StartMeansListening`), `ShutdownIsComplete` (`ShutdownStops`) |
| `HttpServer_proofs` | all but `ServerIsListener`: `~EarlyShutdown`, `~SecondStart` | `ServerIsListener`: `ServerSpec => Spec`; `ServerStartsAndStops`: the three properties above, of the server; `HeapInvariance`, `ServerTypeCorrect` (`ServerTypeOK`), `NothingIsUsedAfterDelete` (`NoUseAfterDelete`); `LeakInvariance`, `ServerLeaksNothing` (`NothingLeaks`) |
| `HttpExchange_proofs` | all but the first two: `ReadsMessages`, `ReadsReplies` | `PiecesAreOne`, `MessagesCutAnywhere`, about the parser; `Invariance`; `RequestsArrive` (`RequestIntact`), `ParsersNeverRefuse` (`ParsersAccept`), `ResponsesArrive` (`ResponseIntact`); `Refinement`: `Spec => ImplementsRequestResponse` |
| `UriMatching_proofs` | | `UriEqualsProved` (`UriEqualsComparesSegments`), `UriSkipProved` (`UriSkipLeavesThePath`), `SplitProved` (`SplitLosesNothing`), `LongestMatchProved` (`LongestMatchIsNearest`), `MoreSpecificProved` (`MoreSpecificWins`) |
| `RestServer_proofs` | `HistoryForgotten`: `EntitiesHaveContent`; `ChecksPassed`: that and `ChecksPassAlone` | `LongestMatchIsFound`, `MoreSpecificIsCalled`, about the operators of `Matching`; `Invariance`; `MethodsReadTheirRequest` (`OwnRequest`), `AnswersAreAccepted` (`NegotiatedTypeAccepted`), `HistoryForgotten`, `ChecksPassed` (`ChecksPass`) |

`SequenceFacts` holds lemmas only.  Of the properties of behaviours none is
inductive alone; each of those modules has an invariant `IInv` (`HeapInv` and `LeakInv` for the
heap) that is, a conjunction of named parts, and a lemma for each action that it
preserves it.

**Thread queue.**  `WriteInv` and `RunnerLockInv` tie the two locks to the
program counters; `PlaceInv` says where a runner that is not in `m_threads` is;
`CountInv` ties `m_iSize` to the length of the list and the number of runners that
are out, so that the comparisons `m_iSize == m_threads.size()` mean "none is out";
`BusyInv` says that `m_busyMutex` is locked whenever a runner is out, or a thread has
yet to unlock it; `OccupiedInv` says who owns `m_occupiedMutex`, and that the list is
not empty when `start()` relies on that; `LifeInv` says that only the last `join()`
and the destructor remain once the queue is closing.  `StepsKeepRunners` says of every step
that it loses no runner but the one of a `start()` that fails, which counts itself in
`refusals`: `OnlyRefusalsLose` follows by comparing the set with the number.  With queueing while all are
busy excluded, `OccupiedOnlyInv` adds that `m_occupiedMutex` is locked only when no
runner is idle or a `start()` owns it; the run `pool_late_queue` shows that this
hypothesis is needed.  `Refinement` classifies the actions by what the pool sees of
them: nothing, a call, `Dispatch`, `Join`, `Return`, `Register`, `Finish` or `Refuse`.

**Task queue.**  Two of its mutexes are locked by one thread and unlocked by another, so
that the invariant says for what they are locked.  `RunningInv`: `m_runningMutex` is
for the one dispatcher, from the `queue()` that starts it on, or for the one `join()`;
that is why no second dispatcher is started.  `DetachInv`: `m_detachMutex` is locked
while a worker is to detach or the dispatcher looks whether a task is there, never
both, so the task that the dispatcher has seen stays until its worker comes for
it.  `MutexInv` and `PushInv` say who holds `m_mutex` and that a task to be pushed is
new; `PlaceInv` is `TaskInOnePlace` worker by worker; `JoinInv` says that a `join()` that
has found the list empty has all its tasks with workers, and awaits them.

**Listener.**  The hypotheses `~EarlyShutdown` and `~SecondStart` say that a program shuts the
server down once `start()` has returned, or `run()` is in its loop, and starts it
when it is down.  Every use in the repository does so, and the runs `early_shutdown`
and `second_start` show that the properties fail otherwise.  `CallerInv` says which calls
can be under way together; `FlagInv` that the flags tell where the listener's thread is,
which is what the callers' unlocked reads of them rest on; `PhaseInv` what a caller at a
given place may conclude about the listener.  `HandlerInv` says that handlers run only
between the creation of the last of them and `join()`, have the listener's descriptor, and
are all interrupted before the socket is shut down; `SocketInv` that the listener's
socket is the one that listens, until then.  A handler whose `accept()` fails has
therefore been interrupted, and returns instead of throwing.

**Server and heap.**  `ServerIsListener` makes every theorem about the listener one about
the server.  `ObjectsInv`, `RunsInv` and `ProgramInv` are types and phases.  `PresentInv` names the
objects that the program and the threads use at each program counter and says that they are
on the heap.  For the destructors two facts do the work.  `ForestInv`: an object
whose destructor has not begun has everything that it owns, and nothing of that is to be
deleted except through it.  `TodoInv`: what the destructors that have begun still have to
do names each object once, objects that exist, in an order in which nothing is
touched after it is deleted (`EntityInv` is that order for the entity of a request, which
points into the parser's body).  That the destructors of each class produce such lists is
what the first part of `HttpServer_proofs` shows (`DestructorIsOrderly`), from the classes' definitions and
for any number of resources, methods and parts.  `LeakInv` adds that whatever is on the heap
has an owner there, is still to be deleted, belongs to the run that is on, or is a resource
that the server refused (`OwnedInv`, `LeftInv`); `RegisteredInv` says which resources those are.

**Request and response.**  The parser works through a chunk line by line and, once the header is
finished, takes what is left for the body; it keeps the line that is not complete and the
number of line ends that it has just seen.  `PiecesAreOne` says that this is all that
matters: a text pushed in two pieces leaves the same parser as when it is pushed at once.  The
fold over the lines of both pieces together is that over the lines of the first, then that
over the lines of the second with what was left of the first before them; where the header
ends in the first piece, the second belongs to the body, whose length decides how much of
it is taken.  `MessagesCutAnywhere` follows for any number of pieces, together with the
fact that no first part of an accepted message is refused.  The theorems about the
exchange assume of each message and reply of the instance only what one `push()` of its first
words makes of it (`ReadsMessages`, `ReadsReplies`): that depends on the words, and
`MCHttpExchange` states it as an `ASSUME`, so that TLC evaluates it for those of the run.  The rest is
the part in which the steps of the two sides interleave: short reads and writes, the two ends
of the connection, a client that dies, a connection that breaks, one request after the
other.  `EndsInv` ties the ends of the
connection to the program counters.  `ReceiveInv` and `ReplyInv` say that the words under way are
exactly those between what was sent and what was received, and that each
parser holds what it makes of the words received; `WriteInv` that a client ends its
stream only after its last word, so that a request of which something is missing is that of
a client that left (`HandleInv`); `OutcomeInv` that a result is taken from a reply that
does not change any more.  `Refinement` uses it: `Connect`, `Flush`, `Read` and the steps in which a client fails or
dies are steps of `RequestResponse`, and all others leave what it sees unchanged.

**URIs.**  `uriEquals()` and `uriSkip()` walk through two strings at once, `splitString()` and
`splitNhandle()` through one.  Their loops are functions defined by recursion on positions; the
proofs give a table that satisfies each definition, so that the function is one, and then
say of every position, or pair of positions, what the loop returns from there on
(`PairInduction`, `SegmentInduction`: from the last positions to the first).  The segments of a URI,
which the properties speak of, are unfolded in the same direction: those from one
segment start on are that segment and those from the next start on.  `UriSkipProved`
then compares prefixes of two lists of segments that end at the boundaries of both strings.
The least distance and the longest match are folds over sets; a fold is likewise a
table, over the sets of positions still to be visited, and the element it ends with is one that
no other beats.  `SplitProved` is an induction over the string as it grows.  None of
this has a bound: `MaxUri`, `MaxRoot` and `MaxPath` are any numbers.

**REST.**  For any number of handlers, any requests and any numbers.  `ClonesInv`: a clone
differs from the registered method only in the members that requests set.
`CalledInv` and `RunningInv`: the method called is one of its resource, and none runs but
the one that the handler sleeps in.  `StreamerInv`, `OwnInv`, `AcceptedInv`: what was chosen and bound for the
request stays until the answer.  The lemmas `PathParametersSet`, `QueryFieldsProcessed`,
`EntityUnstreamed` and `StreamerChosen` say what each part of `processRequest()` does to a
well-formed method, whatever an earlier request left in it.  The two theorems about
`Matching` hold for any resource and any request: `LongestMatchIsFound` says that the
assertion on matches of one length never fails for roots that differ after their
leading slashes, and that the root found extends every other that matches;
`MoreSpecificIsCalled` that the distances prefer the more specific of two methods,
whatever the path IDs and the order of registration.

`HistoryForgotten` goes further: the answer itself is one that a server gives that has
served nothing before (`AnswersTo`).  The clones of a resource match a request as the
methods registered do (`SameMatch`), are refused it with the same status or are ready for it
with the same streamer (`SameOutcome`), and then compute the same answer (`SameAnswer`),
since all that they read from their members was set for this request.  Only the converter
reads more, what it received in XML: `ReceivedInv` says that outside `process()` this is
nothing or an entity of a request that was refused, and `ConverterAnswers` that no other
entity can take the place of its own, which needs that its own has content
(`EntitiesHaveContent`).  `ReadyInv` carries the answer to come from the call of the method
to `process()`.  That every check passes follows if each passes when it is the only one
(`ChecksPassAlone`), which depends on the values of the fixture; `MCRestServer` states both
as an `ASSUME`, so that TLC evaluates them.

TLC finds each of these invariants true on the instances of section 4 as well.

**Model-checked only.**

* All liveness properties, which TLAPS does not prove: that `start()`, `join()`, `queue()`,
  `shutdown()` and the exchange end, and `SeenTasksRun`.
* `NoDeadlock`, which speaks of `ENABLED`.
* `ReadsMessages` and `ReadsReplies`: what the parser makes of given words.
* `ChecksPassAlone`: what the parser and the string functions make of each check's request.
* `FixtureAssumption` and the other assumptions about fixed data.

## 6. Not modelled

* `c2s-util/io`, `FileUtils.cpp`: log files that the server does not use.  Of `c2s-log`
  the text of messages and its output.
* `C2SSettings`: a record of two numbers, one of which is `NumThreads`.
* The text of `C2SRestResourceDescription`: which requests get it is modelled, what it
  says of the methods is one value.
* `C2SSocketClientConnection`, which only the socket's test uses, and the
  resolution of host names.
* Of `StringUtils.cpp` what neither server nor client calls (extensions, base names,
  `substract`, `removeChar`).
* `c2s-example`, a second application with methods of the kinds that the tests have;
  the test programs of threads, sockets and logs.
* The Windows variants (`WINXX`) and the extra assertions of `DEBUG` builds.
* Requests that no client of the repository sends: a header field that begins
  with a space, a bare CR, percent signs without two digits.
* The names of charsets; the bytes of a character.  `Content-Length` counts words.
* The deletion of a response when `push()` throws, which the code skips: the objects
  of a response live for one step in `HttpServer`.
* A `C2STaskQueue` or server with no threads at all: `start()` throws at once.
* Two threads in `run()` of one server at a time.
* A thread for a handler or a worker that cannot be created: the exception of
  `ThrowCreate` then leaves the listener or the dispatcher.
* The reuse of a descriptor by the operating system between `close()` and the
  last handler that reads it.
* Optimised builds, in which the spinning loops on plain `bool` members may not end.
