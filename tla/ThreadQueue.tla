---------------------------- MODULE ThreadQueue ----------------------------
(***************************************************************************)
(* C2SThreadQueue (c2s-util/thread/C2SThreadQueue.h): a pool of runners,   *)
(* each of which executes one runnable on a thread of its own every time   *)
(* start() picks it.                                                       *)
(*                                                                         *)
(* C2SMutex wraps a pthread mutex.  m_occupiedMutex and m_busyMutex are    *)
(* locked by one thread and unlocked by another, that is, used as binary   *)
(* semaphores: they are Booleans here.  m_writeMutex and the m_mutex of    *)
(* each runner are locks, and are modelled by the thread that holds them.  *)
(* A step is what a thread does between two points at which it may block   *)
(* or at which another thread could notice the difference: everything that *)
(* happens under m_writeMutex without blocking is one step, but each of    *)
(* the two unlocks that let another thread overtake is a step of its own.  *)
(*                                                                         *)
(* The clients of the queue are Callers.  One of them may end the life of  *)
(* the queue the way C2SSocketListener::run does: when the others have     *)
(* returned, it calls join() and deletes the queue.                        *)
(***************************************************************************)
EXTENDS Naturals, Sequences, FiniteSets, Functions

CONSTANTS Callers,           \* client threads
          Runners,           \* C2SThreadQueueRunner objects queue() may create
          Threads,           \* identities of the threads pthread_create can make
          Nobody,            \* the holder of a lock that is free
          MaxRefusals,       \* how often pthread_create may fail (a bound)
          QueueWhenAllBusy   \* TRUE: queue() is also called when no runner is idle

ASSUME ThreadQueueAssumption ==
  /\ Callers \cap Threads = {}
  /\ Nobody \notin Callers \cup Threads \cup Runners
  /\ MaxRefusals \in Nat
  /\ QueueWhenAllBusy \in BOOLEAN

VARIABLES
  m_threads,        \* the runners that are idle, in the order of their start
  m_iSize,          \* the number of runners queue() has created
  m_writeMutex,     \* the thread that holds it, or Nobody
  m_occupiedMutex,  \* TRUE iff locked: no runner is idle, or a start() is taking one
  m_busyMutex,      \* TRUE iff locked: some runner is not idle, or a join() passes
  m_mutex,          \* the thread that holds the m_mutex of each runner, or Nobody
  cpc,              \* where each caller is
  arg,              \* the runner a start() has taken, or Nobody
  tpc,              \* where each thread is
  runs,             \* the runner a thread executes, or Nobody
  registered,       \* the runners created so far (a history of queue())
  refusals,         \* the failures of pthread_create so far
  life              \* of the queue object: open, closing (last join), dead

queueVars == <<m_threads, m_iSize, registered>>
semaphoreVars == <<m_occupiedMutex, m_busyMutex>>
callerVars == <<cpc, arg>>
threadVars == <<tpc, runs, m_mutex>>
otherVars == <<refusals, life>>
vars == <<queueVars, m_writeMutex, semaphoreVars, callerVars, threadVars, otherVars>>

CallerPCs == {"idle", "s_occupied", "s_write", "s_busy", "s_pop", "s_runner",
              "s_create", "j_busy", "j_held", "d_runners"}
ThreadPCs == {"none", "r_lock", "run", "r_write", "r_busy", "r_leave", "r_unlock"}

(* Runners that are with a caller or a thread, or lost to a failed start. *)
Out == registered \ Range(m_threads)

(* pcs at which a caller or a thread holds m_writeMutex. *)
WritePCs == {"s_busy", "s_pop", "s_runner", "s_create", "r_busy", "r_leave"}
(* pcs at which a caller has locked m_occupiedMutex and not passed it on. *)
OccupiedPCs == {"s_write", "s_busy", "s_pop"}
(* pcs at which a thread holds the m_mutex of its runner. *)
LockedPCs == {"run", "r_write", "r_busy", "r_leave", "r_unlock"}
(* pcs at which a thread executes its runner and has not put it back. *)
ExecutingPCs == {"r_lock", "run", "r_write"}

(* The start() or the thread that has a runner, and the runners that none   *)
(* has although they are not idle: nothing will ever put these back.        *)
Holders(r) == {c \in Callers : cpc[c] \in {"s_runner", "s_create"} /\ arg[c] = r}
              \cup {t \in Threads : tpc[t] \in ExecutingPCs /\ runs[t] = r}
Lost == {r \in Out : Holders(r) = {}}

Init ==
  /\ m_threads = <<>>
  /\ m_iSize = 0
  /\ m_writeMutex = Nobody
  /\ m_occupiedMutex = FALSE
  /\ m_busyMutex = FALSE
  /\ m_mutex = [r \in Runners |-> Nobody]
  /\ cpc = [c \in Callers |-> "idle"]
  /\ arg = [c \in Callers |-> Nobody]
  /\ tpc = [t \in Threads |-> "none"]
  /\ runs = [t \in Threads |-> Nobody]
  /\ registered = {}
  /\ refusals = 0
  /\ life = "open"

CallerStep(c, from, to) ==
  /\ cpc[c] = from
  /\ cpc' = [cpc EXCEPT ![c] = to]

ThreadStep(t, from, to) ==
  /\ tpc[t] = from
  /\ tpc' = [tpc EXCEPT ![t] = to]

-----------------------------------------------------------------------------
(* queue(): under m_writeMutex, so one step.  The class does not say when  *)
(* it may be called; every caller in the repository registers all runners  *)
(* before the first start().  QueueWhenAllBusy = FALSE asks for less: some *)
(* runner is idle, or there is none yet.                                   *)
SafeToQueue == registered = {} \/ m_threads # <<>>

Queue(c, r) ==
  /\ life = "open"
  /\ cpc[c] = "idle"
  /\ r \notin registered
  /\ QueueWhenAllBusy \/ SafeToQueue
  /\ m_writeMutex = Nobody
  /\ m_iSize' = m_iSize + 1
  /\ m_threads' = Append(m_threads, r)
  /\ registered' = registered \cup {r}
  /\ UNCHANGED <<m_writeMutex, semaphoreVars, callerVars, threadVars, otherVars>>

-----------------------------------------------------------------------------
(* start(). *)
CallStart(c) ==
  /\ life = "open"
  /\ CallerStep(c, "idle", "s_occupied")
  /\ UNCHANGED <<queueVars, m_writeMutex, semaphoreVars, arg, threadVars, otherVars>>

LockOccupied(c) ==
  /\ CallerStep(c, "s_occupied", "s_write")
  /\ ~m_occupiedMutex
  /\ m_occupiedMutex' = TRUE
  /\ UNCHANGED <<queueVars, m_writeMutex, m_busyMutex, arg, threadVars, otherVars>>

(* Seeded fault: start() throws with m_occupiedMutex still locked. *)
ThrowEmpty_KeepsOccupied(c) ==
  /\ CallerStep(c, "s_write", "idle")
  /\ m_writeMutex = Nobody
  /\ m_threads = <<>>
  /\ UNCHANGED <<queueVars, m_writeMutex, semaphoreVars, arg, threadVars, otherVars>>

(* No runner is idle: m_occupiedMutex is unlocked again and start() throws. *)
ThrowEmpty(c) ==
  /\ CallerStep(c, "s_write", "idle")
  /\ m_writeMutex = Nobody
  /\ m_threads = <<>>
  /\ m_occupiedMutex' = FALSE
  /\ UNCHANGED <<queueVars, m_writeMutex, m_busyMutex, arg, threadVars, otherVars>>

(* Seeded fault: the comparison with m_iSize never holds. *)
LockWrite_NeverBusy(c) ==
  /\ m_writeMutex = Nobody
  /\ m_threads # <<>>
  /\ CallerStep(c, "s_write", "s_pop")
  /\ m_writeMutex' = c
  /\ UNCHANGED <<queueVars, semaphoreVars, arg, threadVars, otherVars>>

(* All runners are idle: the first to be started locks m_busyMutex, and    *)
(* waits for it with m_writeMutex held.                                    *)
LockWrite(c) ==
  /\ m_writeMutex = Nobody
  /\ m_threads # <<>>
  /\ CallerStep(c, "s_write", IF m_iSize = Len(m_threads) THEN "s_busy" ELSE "s_pop")
  /\ m_writeMutex' = c
  /\ UNCHANGED <<queueVars, semaphoreVars, arg, threadVars, otherVars>>

LockBusy(c) ==
  /\ CallerStep(c, "s_busy", "s_pop")
  /\ ~m_busyMutex
  /\ m_busyMutex' = TRUE
  /\ UNCHANGED <<queueVars, m_writeMutex, m_occupiedMutex, arg, threadVars, otherVars>>

(* Seeded fault: m_occupiedMutex is unlocked even when the last runner was  *)
(* taken.                                                                  *)
Pop_AlwaysUnlocks(c) ==
  /\ CallerStep(c, "s_pop", "s_runner")
  /\ arg' = [arg EXCEPT ![c] = Head(m_threads)]
  /\ m_threads' = Tail(m_threads)
  /\ m_occupiedMutex' = FALSE
  /\ UNCHANGED <<m_iSize, registered, m_writeMutex, m_busyMutex, threadVars, otherVars>>

(* The next start() may go ahead unless this one took the last idle runner. *)
Pop(c) ==
  /\ CallerStep(c, "s_pop", "s_runner")
  /\ arg' = [arg EXCEPT ![c] = Head(m_threads)]
  /\ m_threads' = Tail(m_threads)
  /\ m_occupiedMutex' = (m_threads' = <<>>)
  /\ UNCHANGED <<m_iSize, registered, m_writeMutex, m_busyMutex, threadVars, otherVars>>

(* Seeded fault: m_mutex is not locked before the thread is created. *)
AwaitRunner_NoWait(c) ==
  /\ CallerStep(c, "s_runner", "s_create")
  /\ UNCHANGED <<queueVars, m_writeMutex, semaphoreVars, arg, threadVars, otherVars>>

(* C2SThreadQueueRunner::startThread(): locking and unlocking m_mutex waits *)
(* until the runner's last thread has left it.                              *)
AwaitRunner(c) ==
  /\ CallerStep(c, "s_runner", "s_create")
  /\ m_mutex[arg[c]] = Nobody
  /\ UNCHANGED <<queueVars, m_writeMutex, semaphoreVars, arg, threadVars, otherVars>>

(* pthread_create, and the return from start(), which releases m_writeMutex. *)
Create(c, t) ==
  /\ CallerStep(c, "s_create", "idle")
  /\ ThreadStep(t, "none", "r_lock")
  /\ runs' = [runs EXCEPT ![t] = arg[c]]
  /\ arg' = [arg EXCEPT ![c] = Nobody]
  /\ m_writeMutex' = Nobody
  /\ UNCHANGED <<queueVars, semaphoreVars, m_mutex, otherVars>>

(* pthread_create fails: C2SThreadException leaves start(), m_writeMutex is *)
(* released by its lock object, and nothing puts the runner back.           *)
ThrowCreate(c) ==
  /\ refusals < MaxRefusals
  /\ refusals' = refusals + 1
  /\ CallerStep(c, "s_create", "idle")
  /\ arg' = [arg EXCEPT ![c] = Nobody]
  /\ m_writeMutex' = Nobody
  /\ UNCHANGED <<queueVars, semaphoreVars, threadVars, life>>

-----------------------------------------------------------------------------
(* C2SThreadQueueRunner::run() on a thread of the runner, and reregister(). *)
LockRunner(t) ==
  /\ ThreadStep(t, "r_lock", "run")
  /\ m_mutex[runs[t]] = Nobody
  /\ m_mutex' = [m_mutex EXCEPT ![runs[t]] = t]
  /\ UNCHANGED <<queueVars, m_writeMutex, semaphoreVars, callerVars, runs, otherVars>>

RunnableReturns(t) ==
  /\ ThreadStep(t, "run", "r_write")
  /\ UNCHANGED <<queueVars, m_writeMutex, semaphoreVars, callerVars, runs, m_mutex, otherVars>>

(* Seeded faults: m_occupiedMutex stays locked; a null runner is put back;  *)
(* the runner is put back only if the list was empty.                       *)
Reregister_NoUnlock(t) ==
  /\ ThreadStep(t, "r_write", "r_busy")
  /\ m_writeMutex = Nobody
  /\ m_writeMutex' = t
  /\ m_threads' = Append(m_threads, runs[t])
  /\ UNCHANGED <<m_iSize, registered, semaphoreVars, callerVars, runs, m_mutex, otherVars>>

Reregister_NullRunner(t) ==
  /\ ThreadStep(t, "r_write", "r_busy")
  /\ m_writeMutex = Nobody
  /\ m_writeMutex' = t
  /\ m_threads' = Append(m_threads, Nobody)
  /\ m_occupiedMutex' = (m_occupiedMutex /\ m_threads # <<>>)
  /\ UNCHANGED <<m_iSize, registered, m_busyMutex, callerVars, runs, m_mutex, otherVars>>

Reregister_OnlyFirst(t) ==
  /\ ThreadStep(t, "r_write", "r_busy")
  /\ m_writeMutex = Nobody
  /\ m_writeMutex' = t
  /\ m_threads' = IF m_threads = <<>> THEN <<runs[t]>> ELSE m_threads
  /\ m_occupiedMutex' = (m_occupiedMutex /\ m_threads # <<>>)
  /\ UNCHANGED <<m_iSize, registered, m_busyMutex, callerVars, runs, m_mutex, otherVars>>

(* m_writeMutex is locked, the runner put back, and a start() that waits    *)
(* for an idle runner let in.                                               *)
Reregister(t) ==
  /\ ThreadStep(t, "r_write", "r_busy")
  /\ m_writeMutex = Nobody
  /\ m_writeMutex' = t
  /\ m_threads' = Append(m_threads, runs[t])
  /\ m_occupiedMutex' = (m_occupiedMutex /\ m_threads # <<>>)
  /\ UNCHANGED <<m_iSize, registered, m_busyMutex, callerVars, runs, m_mutex, otherVars>>

(* Seeded faults: any runner that comes back unlocks m_busyMutex; the sizes *)
(* are compared as if the runner were not back yet.                         *)
SignalIdle_Always(t) ==
  /\ ThreadStep(t, "r_busy", "r_leave")
  /\ m_busyMutex' = FALSE
  /\ UNCHANGED <<queueVars, m_writeMutex, m_occupiedMutex, callerVars, runs, m_mutex, otherVars>>

SignalIdle_OffByOne(t) ==
  /\ ThreadStep(t, "r_busy", "r_leave")
  /\ m_busyMutex' = (m_busyMutex /\ m_iSize # Len(m_threads) - 1)
  /\ UNCHANGED <<queueVars, m_writeMutex, m_occupiedMutex, callerVars, runs, m_mutex, otherVars>>

(* The last runner to come back unlocks m_busyMutex, and a join() can       *)
(* return from here on, although m_writeMutex is still held.                *)
SignalIdle(t) ==
  /\ ThreadStep(t, "r_busy", "r_leave")
  /\ m_busyMutex' = (m_busyMutex /\ m_iSize # Len(m_threads))
  /\ UNCHANGED <<queueVars, m_writeMutex, m_occupiedMutex, callerVars, runs, m_mutex, otherVars>>

LeaveReregister(t) ==
  /\ ThreadStep(t, "r_leave", "r_unlock")
  /\ m_writeMutex' = Nobody
  /\ UNCHANGED <<queueVars, semaphoreVars, callerVars, runs, m_mutex, otherVars>>

UnlockRunner(t) ==
  /\ ThreadStep(t, "r_unlock", "none")
  /\ m_mutex' = [m_mutex EXCEPT ![runs[t]] = Nobody]
  /\ runs' = [runs EXCEPT ![t] = Nobody]
  /\ UNCHANGED <<queueVars, m_writeMutex, semaphoreVars, callerVars, otherVars>>

-----------------------------------------------------------------------------
(* join() locks and unlocks m_busyMutex.  The last join() is the one whose  *)
(* caller deletes the queue next, which nobody else uses any more.          *)
CallJoin(c) ==
  /\ life = "open"
  /\ CallerStep(c, "idle", "j_busy")
  /\ UNCHANGED <<queueVars, m_writeMutex, semaphoreVars, arg, threadVars, otherVars>>

CallLastJoin(c) ==
  /\ life = "open"
  /\ \A d \in Callers : cpc[d] = "idle"
  /\ CallerStep(c, "idle", "j_busy")
  /\ life' = "closing"
  /\ UNCHANGED <<queueVars, m_writeMutex, semaphoreVars, arg, threadVars, refusals>>

(* Seeded fault: join() does not wait for m_busyMutex. *)
JoinLock_NoWait(c) ==
  /\ CallerStep(c, "j_busy", "j_held")
  /\ m_busyMutex' = TRUE
  /\ UNCHANGED <<queueVars, m_writeMutex, m_occupiedMutex, arg, threadVars, otherVars>>

JoinLock(c) ==
  /\ CallerStep(c, "j_busy", "j_held")
  /\ ~m_busyMutex
  /\ m_busyMutex' = TRUE
  /\ UNCHANGED <<queueVars, m_writeMutex, m_occupiedMutex, arg, threadVars, otherVars>>

(* Seeded fault: join() returns with m_busyMutex locked. *)
JoinUnlock_Keeps(c) ==
  /\ CallerStep(c, "j_held", IF life = "closing" THEN "d_runners" ELSE "idle")
  /\ UNCHANGED <<queueVars, m_writeMutex, semaphoreVars, arg, threadVars, otherVars>>

JoinUnlock(c) ==
  /\ CallerStep(c, "j_held", IF life = "closing" THEN "d_runners" ELSE "idle")
  /\ m_busyMutex' = FALSE
  /\ UNCHANGED <<queueVars, m_writeMutex, m_occupiedMutex, arg, threadVars, otherVars>>

(* Seeded fault: the destructor of a runner does not lock its m_mutex. *)
Delete_NoLock(c) ==
  /\ CallerStep(c, "d_runners", "idle")
  /\ life' = "dead"
  /\ UNCHANGED <<queueVars, m_writeMutex, semaphoreVars, arg, threadVars, refusals>>

(* ~C2SThreadQueue deletes the runners in m_threads, and the destructor of  *)
(* each locks and unlocks its m_mutex; the queue's mutexes are gone after.  *)
Delete(c) ==
  /\ CallerStep(c, "d_runners", "idle")
  /\ \A r \in Range(m_threads) : m_mutex[r] = Nobody
  /\ life' = "dead"
  /\ UNCHANGED <<queueVars, m_writeMutex, semaphoreVars, arg, threadVars, refusals>>

-----------------------------------------------------------------------------
(* The steps of a caller inside start(), join() and the destructor. *)
CallerNext(c) ==
  \/ LockOccupied(c) \/ ThrowEmpty(c) \/ LockWrite(c) \/ LockBusy(c) \/ Pop(c)
  \/ AwaitRunner(c) \/ (\E t \in Threads : Create(c, t)) \/ ThrowCreate(c)
  \/ JoinLock(c) \/ JoinUnlock(c) \/ Delete(c)

(* The steps of a thread of a runner. *)
ThreadNext(t) ==
  \/ LockRunner(t) \/ RunnableReturns(t) \/ Reregister(t) \/ SignalIdle(t)
  \/ LeaveReregister(t) \/ UnlockRunner(t)

(* The calls a client chooses to make. *)
ClientNext(c) ==
  (\E r \in Runners : Queue(c, r)) \/ CallStart(c) \/ CallJoin(c) \/ CallLastJoin(c)

(* After the destructor nothing is left to do. *)
Terminated == life = "dead" /\ UNCHANGED vars

Next ==
  \/ \E c \in Callers : CallerNext(c) \/ ClientNext(c)
  \/ \E t \in Threads : ThreadNext(t)
  \/ Terminated

Spec == Init /\ [][Next]_vars

(* Every thread keeps being scheduled and every runnable returns; clients   *)
(* need not call anything.  No mutex is assumed to be fair.                  *)
Fairness ==
  /\ \A c \in Callers : WF_vars(CallerNext(c))
  /\ \A t \in Threads : WF_vars(ThreadNext(t))

FairSpec == Spec /\ Fairness

-----------------------------------------------------------------------------
(* Type invariant. *)
TypeOK ==
  /\ m_threads \in Seq(Runners)
  /\ m_iSize \in Nat
  /\ m_writeMutex \in Callers \cup Threads \cup {Nobody}
  /\ m_occupiedMutex \in BOOLEAN
  /\ m_busyMutex \in BOOLEAN
  /\ m_mutex \in [Runners -> Threads \cup {Nobody}]
  /\ cpc \in [Callers -> CallerPCs]
  /\ arg \in [Callers -> Runners \cup {Nobody}]
  /\ tpc \in [Threads -> ThreadPCs]
  /\ runs \in [Threads -> Runners \cup {Nobody}]
  /\ registered \in SUBSET Runners
  /\ refusals \in Nat
  /\ life \in {"open", "closing", "dead"}

(* A runner has at most one live thread, from pthread_create to the last    *)
(* unlock of its m_mutex, and none when a start() is about to create one.   *)
(* This is what lets the runner keep one m_pthread and its runnable the     *)
(* per-thread state it has (C2SSocketAcceptHandler, C2SThreadTestRunnable). *)
SingleThreadPerRunner ==
  \A t \in Threads : tpc[t] # "none" =>
    /\ \A u \in Threads \ {t} : tpc[u] # "none" => runs[u] # runs[t]
    /\ \A c \in Callers : cpc[c] = "s_create" => arg[c] # runs[t]

(* A runner that start() has taken comes back, unless pthread_create fails: *)
(* start() then loses the runner that it was for, and no other.  join()     *)
(* waits for ever from then on (JoinReturns).                               *)
OnlyRefusalsLose == Cardinality(Lost) <= refusals

(* A runner is in one place: idle in m_threads once, in the hands of one    *)
(* start(), or executing on one thread; and in none only if it was lost.    *)
RunnerInOnePlace ==
  /\ IsInjective(m_threads)
  /\ \A r \in Range(m_threads) : Holders(r) = {}
  /\ \A r \in Runners : \A p, q \in Holders(r) : p = q
  /\ OnlyRefusalsLose

(* No thread unlocks a mutex that is not locked (undefined for the default  *)
(* pthread mutex), although m_occupiedMutex and m_busyMutex are unlocked by *)
(* threads that did not lock them.                                          *)
UnlocksLocked ==
  /\ \A c \in Callers :
       /\ cpc[c] \in OccupiedPCs => m_occupiedMutex
       /\ cpc[c] = "j_held" => m_busyMutex
       /\ cpc[c] \in WritePCs => m_writeMutex = c
  /\ \A t \in Threads :
       /\ tpc[t] = "r_write" /\ m_threads = <<>> => m_occupiedMutex
       /\ tpc[t] = "r_busy" /\ m_iSize = Len(m_threads) => m_busyMutex
       /\ tpc[t] \in WritePCs => m_writeMutex = t
       /\ tpc[t] \in LockedPCs => m_mutex[runs[t]] = t

(* start() throws "Thread queue is empty!" only if no runner was ever       *)
(* queued, and its assertion on the size of m_threads holds.                *)
StartFindsRunner ==
  \A c \in Callers : cpc[c] \in OccupiedPCs =>
    /\ m_threads = <<>> => registered = {}
    /\ Len(m_threads) <= m_iSize

(* While join() holds m_busyMutex every runner is idle: none is with a      *)
(* start() that has taken it, none executes and none is lost.               *)
JoinSeesAllIdle == \A c \in Callers : cpc[c] = "j_held" => Out = {}

(* Unless a start() is between taking and passing on m_occupiedMutex, that  *)
(* mutex is locked only if no runner is idle: an idle runner can be         *)
(* started.                                                                 *)
IdleRunnerAvailable ==
  m_occupiedMutex /\ m_threads # <<>> => \E c \in Callers : cpc[c] \in OccupiedPCs

(* A start() that took no runner because failed starts have lost all of     *)
(* them, and a join() of a queue that has lost one, wait for ever.          *)
WaitsForLost(c) ==
  \/ cpc[c] = "s_occupied" /\ registered # {} /\ Lost = registered
  \/ cpc[c] = "j_busy" /\ Lost # {}

(* start(), join(), the destructor and reregister() never all wait for each *)
(* other: start() waits for m_busyMutex, which a join() of another client   *)
(* may hold, and for the runner's m_mutex while it holds m_writeMutex,      *)
(* which the runners that come back need.                                   *)
NoDeadlock ==
  (\E c \in Callers : cpc[c] # "idle" /\ ~WaitsForLost(c)) =>
    \/ \E c \in Callers : ENABLED CallerNext(c)
    \/ \E t \in Threads : ENABLED ThreadNext(t)

(* When the destructor has run no thread is left that would touch the       *)
(* queue or one of its runners: after join() returns, a thread may still    *)
(* hold m_writeMutex, and the lock in the destructor of its runner is what  *)
(* keeps the queue alive for it.                                            *)
NoUseAfterDelete == life = "dead" => \A t \in Threads : tpc[t] = "none"

-----------------------------------------------------------------------------
(* The pool this module implements: a runner is running from the moment it  *)
(* is taken off m_threads until it is back.                                 *)
PoolCall(pc) ==
  CASE pc \in {"s_occupied", "s_write", "s_busy", "s_pop"} -> "start"
    [] pc \in {"s_runner", "s_create"} -> "started"
    [] pc = "j_busy" -> "join"
    [] pc = "j_held" -> "joined"
    [] OTHER -> "none"

Pool == INSTANCE WorkerPool
          WITH Workers <- Runners, idle <- m_threads, running <- Out,
               call <- [c \in Callers |-> PoolCall(cpc[c])]

(* Every step of the queue is a step of the abstract pool or invisible in   *)
(* it: start() hands out the runner that has been idle longest, and join()  *)
(* passes only when none is running.                                        *)
ImplementsWorkerPool == Pool!Spec

-----------------------------------------------------------------------------
(* A start() returns (or throws), because a runner that is idle, or becomes *)
(* idle, is started; only when failed starts have lost the last runner is   *)
(* there none to wait for.                                                  *)
StartReturns ==
  \A c \in Callers :
    cpc[c] = "s_occupied" ~> cpc[c] = "idle" \/ (registered # {} /\ Lost = registered)

(* A join() returns if no runner is lost, since the last one to come back   *)
(* unlocks m_busyMutex; and so does, after the last join(), the destructor, *)
(* which waits for the threads that have not left their runners yet.        *)
JoinReturns == \A c \in Callers : cpc[c] = "j_busy" ~> cpc[c] = "idle" \/ Lost # {}

=============================================================================
