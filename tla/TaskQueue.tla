----------------------------- MODULE TaskQueue -----------------------------
(***************************************************************************)
(* C2STaskQueue (c2s-util/thread/C2STaskQueue.h): clients queue() tasks, a *)
(* dispatcher thread (C2STaskQueue::run) starts a worker of m_workers for  *)
(* each, and the worker detaches the oldest task and runs it.  m_workers   *)
(* is a C2SThreadQueue, used here as the WorkerPool that it implements.    *)
(*                                                                         *)
(* The dispatcher exists only while there is work: queue() creates it, and *)
(* it ends when it finds no task.  m_runningMutex is locked by the client  *)
(* that creates it and unlocked by the dispatcher; m_detachMutex is locked *)
(* by the dispatcher and unlocked by the worker that detaches.  m_tasks is *)
(* read by the dispatcher and by join() without m_mutex: such a read sees  *)
(* the length of the list at that moment.                                  *)
(***************************************************************************)
EXTENDS Naturals, Sequences, FiniteSets, Functions

CONSTANTS Clients,     \* the threads that call queue() and join()
          Dispatcher,  \* the thread of C2STaskQueue::run
          Workers,     \* the runnables in m_workers
          Tasks,       \* the tasks clients may queue, each once
          Nobody,      \* holder of a free lock, and no task
          MaxRefusals  \* bound: how often pthread_create may refuse a dispatcher

ASSUME TaskQueueAssumption ==
  /\ Dispatcher \notin Clients
  /\ Workers # {} /\ IsFiniteSet(Workers)
  /\ Nobody \notin Clients \cup Tasks
  /\ MaxRefusals \in Nat

VARIABLES
  idle, running, call,  \* m_workers, as in WorkerPool
  m_tasks,              \* the tasks that no worker has detached, oldest first
  m_bIsRunning,         \* the flag queue() tests to see whether there is a dispatcher
  m_mutex,              \* the client that holds it, or Nobody; workers do not block in it
  m_runningMutex,       \* TRUE iff locked: a dispatcher exists or a join() is on
  m_detachMutex,        \* TRUE iff locked: a worker is to detach before the next check
  cpc,                  \* where each client is
  task,                 \* the task a client queues
  dpc,                  \* where the dispatcher is
  wpc,                  \* where each worker is
  got,                  \* the task a worker has detached
  queued,               \* the tasks pushed so far
  done,                 \* the tasks whose run() has returned
  awaited,              \* the tasks pushed when a client called join()
  refused               \* how often pthread_create has refused a dispatcher

poolVars == <<idle, running, call>>
flagVars == <<m_bIsRunning, m_runningMutex, m_detachMutex>>
clientVars == <<cpc, task, awaited>>
workerVars == <<wpc, got, done>>
historyVars == <<queued, refused>>
serverVars == <<poolVars, dpc, workerVars>>                     \* not the clients'
outsideVars == <<m_tasks, m_mutex, clientVars, historyVars>>    \* not the dispatcher's
restVars ==                                                     \* not the workers'
  <<m_mutex, m_bIsRunning, m_runningMutex, clientVars, dpc, historyVars>>
vars == <<poolVars, m_tasks, m_mutex, flagVars, clientVars, dpc, workerVars, historyVars>>

Pool == INSTANCE WorkerPool WITH Callers <- Clients \cup {Dispatcher}

ClientPCs == {"idle", "q_push", "q_test", "q_start", "j_lock", "j_tasks", "j_workers", "j_done"}
JoiningPCs == {"j_tasks", "j_workers", "j_done"}
DispatcherPCs == {"none", "lock", "check", "start", "started", "stop", "unlock"}
WorkerPCs == {"idle", "detach", "run", "finish"}

(* The constructor puts all workers into m_workers. *)
Init ==
  /\ idle \in {s \in [1..Cardinality(Workers) -> Workers] : IsInjective(s)}
  /\ running = {}
  /\ call = [c \in Clients \cup {Dispatcher} |-> "none"]
  /\ m_tasks = <<>>
  /\ m_bIsRunning = FALSE
  /\ m_mutex = Nobody
  /\ m_runningMutex = FALSE
  /\ m_detachMutex = FALSE
  /\ cpc = [c \in Clients |-> "idle"]
  /\ task = [c \in Clients |-> Nobody]
  /\ dpc = "none"
  /\ wpc = [w \in Workers |-> "idle"]
  /\ got = [w \in Workers |-> Nobody]
  /\ queued = {}
  /\ done = {}
  /\ awaited = [c \in Clients |-> {}]
  /\ refused = 0

ClientStep(c, from, to) ==
  /\ cpc[c] = from
  /\ cpc' = [cpc EXCEPT ![c] = to]

WorkerStep(w, from, to) ==
  /\ wpc[w] = from
  /\ wpc' = [wpc EXCEPT ![w] = to]

DispatcherStep(from, to) ==
  /\ dpc = from
  /\ dpc' = to

-----------------------------------------------------------------------------
(* Seeded fault: the task is not passed on. *)
CallQueue_NullTask(c, t) ==
  /\ t \notin queued \cup Range(task)
  /\ ClientStep(c, "idle", "q_push")
  /\ UNCHANGED <<serverVars, flagVars, historyVars, m_tasks, task, m_mutex, awaited>>

(* queue(). *)
CallQueue(c, t) ==
  /\ t \notin queued \cup Range(task)
  /\ ClientStep(c, "idle", "q_push")
  /\ task' = [task EXCEPT ![c] = t]
  /\ UNCHANGED <<serverVars, flagVars, historyVars, m_tasks, m_mutex, awaited>>

QueuePush(c) ==
  /\ ClientStep(c, "q_push", "q_test")
  /\ m_mutex = Nobody
  /\ m_mutex' = c
  /\ m_tasks' = Append(m_tasks, task[c])
  /\ queued' = queued \cup {task[c]}
  /\ UNCHANGED <<serverVars, flagVars, task, awaited, refused>>

(* There is a dispatcher, or so the flag says: nothing else to do. *)
QueueRunning(c) ==
  /\ ClientStep(c, "q_test", "idle")
  /\ m_bIsRunning
  /\ m_mutex' = Nobody
  /\ task' = [task EXCEPT ![c] = Nobody]
  /\ UNCHANGED <<serverVars, flagVars, historyVars, m_tasks, awaited>>

QueueNotRunning(c) ==
  /\ ClientStep(c, "q_test", "q_start")
  /\ ~m_bIsRunning
  /\ UNCHANGED <<serverVars, flagVars, historyVars, m_tasks, m_mutex, task, awaited>>

(* Seeded fault: m_runningMutex is not waited for. *)
QueueStart_NoWait(c) ==
  /\ ClientStep(c, "q_start", "idle")
  /\ m_runningMutex' = TRUE
  /\ m_bIsRunning' = TRUE
  /\ dpc' = "lock"
  /\ m_mutex' = Nobody
  /\ task' = [task EXCEPT ![c] = Nobody]
  /\ UNCHANGED <<poolVars, workerVars, historyVars, m_tasks, m_detachMutex, awaited>>

(* The dispatcher is created once its predecessor has unlocked             *)
(* m_runningMutex, which is waited for with m_mutex held.                  *)
QueueStart(c) ==
  /\ ClientStep(c, "q_start", "idle")
  /\ ~m_runningMutex
  /\ m_runningMutex' = TRUE
  /\ m_bIsRunning' = TRUE
  /\ dpc' = "lock"
  /\ m_mutex' = Nobody
  /\ task' = [task EXCEPT ![c] = Nobody]
  /\ UNCHANGED <<poolVars, workerVars, historyVars, m_tasks, m_detachMutex, awaited>>

(* start() throws: the lock on m_mutex is released on the way out, but      *)
(* m_runningMutex stays locked and m_bIsRunning set.                       *)
QueueStartThrows(c) ==
  /\ ClientStep(c, "q_start", "idle")
  /\ ~m_runningMutex
  /\ refused < MaxRefusals
  /\ refused' = refused + 1
  /\ m_runningMutex' = TRUE
  /\ m_bIsRunning' = TRUE
  /\ m_mutex' = Nobody
  /\ task' = [task EXCEPT ![c] = Nobody]
  /\ UNCHANGED <<serverVars, m_tasks, m_detachMutex, awaited, queued>>

-----------------------------------------------------------------------------
(* Seeded fault: m_detachMutex is not waited for. *)
DispatcherLock_NoWait ==
  /\ DispatcherStep("lock", "check")
  /\ m_detachMutex' = TRUE
  /\ UNCHANGED <<outsideVars, poolVars, workerVars, m_bIsRunning, m_runningMutex>>

(* run(), on the dispatcher's thread. *)
DispatcherLock ==
  /\ DispatcherStep("lock", "check")
  /\ ~m_detachMutex
  /\ m_detachMutex' = TRUE
  /\ UNCHANGED <<outsideVars, poolVars, workerVars, m_bIsRunning, m_runningMutex>>

DispatcherFindsNone ==
  /\ DispatcherStep("check", "stop")
  /\ m_tasks = <<>>
  /\ m_detachMutex' = FALSE
  /\ UNCHANGED <<outsideVars, poolVars, workerVars, m_bIsRunning, m_runningMutex>>

(* m_workers.start(). *)
DispatcherFindsTask ==
  /\ DispatcherStep("check", "start")
  /\ m_tasks # <<>>
  /\ Pool!CallStart(Dispatcher)
  /\ UNCHANGED <<outsideVars, flagVars, workerVars>>

DispatcherStartsWorker ==
  /\ DispatcherStep("start", "started")
  /\ Pool!Dispatch(Dispatcher)
  /\ wpc' = [wpc EXCEPT ![Head(idle)] = "detach"]
  /\ UNCHANGED <<outsideVars, flagVars, got, done>>

DispatcherContinues ==
  /\ DispatcherStep("started", "lock")
  /\ Pool!Return(Dispatcher)
  /\ UNCHANGED <<outsideVars, flagVars, workerVars>>

DispatcherStops ==
  /\ DispatcherStep("stop", "unlock")
  /\ m_bIsRunning' = FALSE
  /\ UNCHANGED <<outsideVars, poolVars, workerVars, m_runningMutex, m_detachMutex>>

(* Seeded fault: m_runningMutex stays locked. *)
DispatcherExits_KeepsLocked ==
  /\ DispatcherStep("unlock", "none")
  /\ UNCHANGED <<outsideVars, poolVars, flagVars, workerVars>>

DispatcherExits ==
  /\ DispatcherStep("unlock", "none")
  /\ m_runningMutex' = FALSE
  /\ UNCHANGED <<outsideVars, poolVars, workerVars, m_bIsRunning, m_detachMutex>>

-----------------------------------------------------------------------------
(* Seeded fault: the task stays in m_tasks. *)
Detach_NotRemoved(w) ==
  /\ WorkerStep(w, "detach", "run")
  /\ m_mutex = Nobody
  /\ m_tasks # <<>>
  /\ got' = [got EXCEPT ![w] = Head(m_tasks)]
  /\ m_detachMutex' = FALSE
  /\ UNCHANGED <<restVars, poolVars, m_tasks, done>>

(* Seeded fault: m_detachMutex stays locked. *)
Detach_KeepsLocked(w) ==
  /\ WorkerStep(w, "detach", "run")
  /\ m_mutex = Nobody
  /\ m_tasks # <<>>
  /\ got' = [got EXCEPT ![w] = Head(m_tasks)]
  /\ m_tasks' = Tail(m_tasks)
  /\ UNCHANGED <<restVars, poolVars, m_detachMutex, done>>

(* C2STaskQueueRunnable::run(): detach(), which asserts that there is a     *)
(* task, and the task's run().                                              *)
Detach(w) ==
  /\ WorkerStep(w, "detach", "run")
  /\ m_mutex = Nobody
  /\ m_tasks # <<>>
  /\ got' = [got EXCEPT ![w] = Head(m_tasks)]
  /\ m_tasks' = Tail(m_tasks)
  /\ m_detachMutex' = FALSE
  /\ UNCHANGED <<restVars, poolVars, done>>

RunTask(w) ==
  /\ WorkerStep(w, "run", "finish")
  /\ done' = done \cup {got[w]}
  /\ UNCHANGED <<restVars, poolVars, m_tasks, m_detachMutex, got>>

(* The worker's runner is put back into m_workers. *)
FinishWorker(w) ==
  /\ WorkerStep(w, "finish", "idle")
  /\ got' = [got EXCEPT ![w] = Nobody]
  /\ Pool!Finish(w)
  /\ UNCHANGED <<restVars, m_tasks, m_detachMutex, done>>

-----------------------------------------------------------------------------
(* join(), which the destructor calls too. *)
CallJoin(c) ==
  /\ ClientStep(c, "idle", "j_lock")
  /\ awaited' = [awaited EXCEPT ![c] = queued]
  /\ UNCHANGED <<serverVars, flagVars, historyVars, m_tasks, m_mutex, task>>

JoinLock(c) ==
  /\ ClientStep(c, "j_lock", "j_tasks")
  /\ ~m_runningMutex
  /\ m_runningMutex' = TRUE
  /\ UNCHANGED <<serverVars, historyVars, m_tasks, m_mutex, m_bIsRunning, m_detachMutex, task, awaited>>

(* Seeded fault: m_tasks.size() is not waited for. *)
JoinTasks_NoLoop(c) ==
  /\ ClientStep(c, "j_tasks", "j_workers")
  /\ Pool!CallJoin(c)
  /\ UNCHANGED <<flagVars, workerVars, historyVars, m_tasks, m_mutex, task, awaited, dpc>>

(* The loop on m_tasks.size() ends, and m_workers.join() is called. *)
JoinTasks(c) ==
  /\ ClientStep(c, "j_tasks", "j_workers")
  /\ m_tasks = <<>>
  /\ Pool!CallJoin(c)
  /\ UNCHANGED <<flagVars, workerVars, historyVars, m_tasks, m_mutex, task, awaited, dpc>>

JoinWorkers(c) ==
  /\ ClientStep(c, "j_workers", "j_done")
  /\ Pool!Join(c)
  /\ UNCHANGED <<flagVars, workerVars, historyVars, m_tasks, m_mutex, task, awaited, dpc>>

JoinReturn(c) ==
  /\ ClientStep(c, "j_done", "idle")
  /\ Pool!Return(c)
  /\ m_runningMutex' = FALSE
  /\ awaited' = [awaited EXCEPT ![c] = {}]
  /\ UNCHANGED <<workerVars, historyVars, m_tasks, m_mutex, m_bIsRunning, m_detachMutex, task, dpc>>

-----------------------------------------------------------------------------
(* The calls a client chooses to make, and the steps inside them. *)
ClientCalls(c) == (\E t \in Tasks : CallQueue(c, t)) \/ CallJoin(c)

ClientNext(c) ==
  \/ QueuePush(c) \/ QueueRunning(c) \/ QueueNotRunning(c) \/ QueueStart(c)
  \/ QueueStartThrows(c)
  \/ JoinLock(c) \/ JoinTasks(c) \/ JoinWorkers(c) \/ JoinReturn(c)

DispatcherNext ==
  \/ DispatcherLock \/ DispatcherFindsNone \/ DispatcherFindsTask \/ DispatcherStartsWorker
  \/ DispatcherContinues \/ DispatcherStops \/ DispatcherExits

WorkerNext(w) == Detach(w) \/ RunTask(w) \/ FinishWorker(w)

Next ==
  \/ \E c \in Clients : ClientCalls(c) \/ ClientNext(c)
  \/ DispatcherNext
  \/ \E w \in Workers : WorkerNext(w)

Spec == Init /\ [][Next]_vars

(* Every thread keeps being scheduled and every task's run() returns. *)
Fairness ==
  /\ \A c \in Clients : WF_vars(ClientNext(c))
  /\ WF_vars(DispatcherNext)
  /\ \A w \in Workers : WF_vars(WorkerNext(w))

FairSpec == Spec /\ Fairness

-----------------------------------------------------------------------------
(* Type invariant. *)
TypeOK ==
  /\ idle \in Seq(Workers)
  /\ running \in SUBSET Workers
  /\ call \in [Clients \cup {Dispatcher} -> Pool!CallStates]
  /\ m_tasks \in Seq(Tasks)
  /\ m_mutex \in Clients \cup {Nobody}
  /\ m_bIsRunning \in BOOLEAN /\ m_runningMutex \in BOOLEAN /\ m_detachMutex \in BOOLEAN
  /\ cpc \in [Clients -> ClientPCs]
  /\ task \in [Clients -> Tasks \cup {Nobody}]
  /\ dpc \in DispatcherPCs
  /\ wpc \in [Workers -> WorkerPCs]
  /\ got \in [Workers -> Tasks \cup {Nobody}]
  /\ queued \in SUBSET Tasks /\ done \in SUBSET Tasks
  /\ awaited \in [Clients -> SUBSET Tasks]
  /\ refused \in 0..MaxRefusals

(* The assertion in detach() holds: a worker that was started finds a task, *)
(* because m_detachMutex keeps the dispatcher from counting a task twice.   *)
DetachFindsTask ==
  \A w \in Workers : wpc[w] = "detach" =>
    /\ m_tasks # <<>> /\ m_detachMutex
    /\ \A v \in Workers \ {w} : wpc[v] # "detach"

(* A task that was queued is in one place: waiting, with one worker, or     *)
(* done; none is lost and none is run twice.                                *)
TaskInOnePlace ==
  LET held == {w \in Workers : got[w] # Nobody}
  IN  /\ IsInjective(m_tasks)
      /\ \A w, v \in held : got[w] = got[v] => w = v
      /\ \A w \in held : got[w] \notin Range(m_tasks)
                         /\ (got[w] \in done <=> wpc[w] = "finish")
      /\ queued = Range(m_tasks) \cup {got[w] : w \in held} \cup done
      /\ Range(m_tasks) \cap done = {}

(* There is never a second dispatcher, although m_bIsRunning is read and    *)
(* written without a common lock: when a client may create one, the last    *)
(* one has done its last step, and its m_bIsRunning = false cannot follow   *)
(* the client's m_bIsRunning = true.                                        *)
OneDispatcher ==
  /\ dpc # "none" => m_runningMutex /\ \A c \in Clients : cpc[c] \notin JoiningPCs
  /\ dpc \in {"lock", "check", "start", "started", "stop"} => m_bIsRunning
  /\ m_bIsRunning => dpc \notin {"none", "unlock"} \/ refused > 0

(* join() returns only when every task queued before it was called is done: *)
(* the test deletes the tasks then.                                         *)
JoinWaitsForTasks == \A c \in Clients : cpc[c] = "j_done" => awaited[c] \subseteq done

(* A task that is queued while the dispatcher has its next check ahead of   *)
(* it is run.                                                               *)
SeenTasksRun ==
  \A t \in Tasks :
    t \in Range(m_tasks) /\ dpc \in {"lock", "start", "started"} ~> t \in done

(* Where a task has no dispatcher: a join() has locked m_runningMutex, so   *)
(* that none can be created, and waits for tasks that nobody will detach;   *)
(* or the thread of the dispatcher could not be created, and m_bIsRunning   *)
(* keeps every queue() from trying again.                                   *)
JoinSpins == dpc = "none" /\ \E c \in Clients : cpc[c] = "j_tasks" /\ m_tasks # <<>>
NoDispatcher == dpc = "none" /\ m_bIsRunning

(* queue() waits for m_runningMutex with m_mutex held, but not for a        *)
(* dispatcher whose worker needs m_mutex: only a join() that spins for ever *)
(* keeps m_runningMutex from it.                                            *)
QueueReturns == \A c \in Clients : cpc[c] = "q_push" ~> cpc[c] = "idle" \/ []JoinSpins

(* When a client joins, a join() returns, unless a task has no dispatcher   *)
(* any more.                                                                *)
JoinReturns ==
  (\E c \in Clients : cpc[c] = "j_lock")
    ~> (\E c \in Clients : cpc[c] = "j_done") \/ []JoinSpins \/ []NoDispatcher

(* The calls of clients return, but for these exceptions. *)
CallsReturn == QueueReturns /\ JoinReturns

(* Every task that is queued is run, as the test of C2STaskQueue expects of *)
(* its tasks before it joins the queue and deletes them.                    *)
EveryTaskRuns == \A t \in Tasks : t \in queued ~> t \in done

=============================================================================
