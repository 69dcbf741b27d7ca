-------------------------- MODULE TaskQueue_proofs --------------------------
(***************************************************************************)
(* Proofs about TaskQueue, for every set of clients, workers and tasks and *)
(* every number of dispatchers that pthread_create refuses.                *)
(***************************************************************************)
EXTENDS TaskQueue, SequenceFacts, FiniteSetTheorems, TLAPS

(***************************************************************************)
(* The inductive invariant.  Each part is named for the piece of state it  *)
(* explains.                                                               *)
(***************************************************************************)

(* m_workers: a worker is idle or it runs. *)
PoolInv ==
  /\ IsInjective(idle)
  /\ \A w \in Workers : w \in Range(idle) <=> wpc[w] = "idle"
  /\ \A w \in Workers : w \in running <=> wpc[w] # "idle"

(* m_mutex is held by the client that has pushed a task and not yet         *)
(* returned.                                                                *)
PushedPCs == {"q_test", "q_start"}
MutexInv == \A c \in Clients : cpc[c] \in PushedPCs <=> m_mutex = c

(* A task that a client is about to push is new to the queue. *)
PushInv ==
  /\ \A c \in Clients : task[c] # Nobody <=> cpc[c] \in PushedPCs \cup {"q_push"}
  /\ \A c \in Clients : cpc[c] = "q_push" => task[c] \notin queued
  /\ \A c, d \in Clients :
       cpc[c] = "q_push" /\ cpc[d] = "q_push" /\ c # d => task[c] # task[d]

(* m_runningMutex is locked for the one dispatcher or for the one join(). *)
RunningInv ==
  /\ OneDispatcher
  /\ \A c \in Clients : cpc[c] \in JoiningPCs =>
       /\ m_runningMutex
       /\ \A d \in Clients : cpc[d] \in JoiningPCs => d = c

(* m_detachMutex is locked while a worker is to detach, or the dispatcher   *)
(* decides whether one is needed: never both, so that the task which the    *)
(* dispatcher sees stays until its worker has come for it.                  *)
DetachInv ==
  /\ DetachFindsTask
  /\ dpc \in {"check", "start"} => m_detachMutex /\ \A w \in Workers : wpc[w] # "detach"
  /\ dpc = "start" => m_tasks # <<>>

(* TaskInOnePlace, worker by worker and task by task; a worker has a task   *)
(* from detach() until it is idle again.                                    *)
PlaceInv ==
  /\ IsInjective(m_tasks)
  /\ \A w \in Workers : got[w] # Nobody <=> wpc[w] \in {"run", "finish"}
  /\ \A w, v \in Workers : got[w] # Nobody /\ got[w] = got[v] => w = v
  /\ \A w \in Workers : got[w] # Nobody =>
       got[w] \notin Range(m_tasks) /\ (got[w] \in done <=> wpc[w] = "finish")
  /\ \A t \in Tasks : t \in queued <=>
       t \in Range(m_tasks) \/ t \in done \/ \E w \in Workers : got[w] = t
  /\ Range(m_tasks) \cap done = {}

(* join() has seen the tasks it waits for leave m_tasks, and then the       *)
(* workers that took them become idle.                                      *)
JoinInv ==
  /\ \A c \in Clients : awaited[c] \subseteq queued
  /\ \A c \in Clients : cpc[c] = "j_workers" => awaited[c] \cap Range(m_tasks) = {}
  /\ JoinWaitsForTasks

IInv ==
  TypeOK /\ PoolInv /\ MutexInv /\ PushInv /\ RunningInv /\ DetachInv /\ PlaceInv /\ JoinInv

-----------------------------------------------------------------------------
(* What each thread leaves alone. *)

(* A client's step changes neither the workers nor what they have done. *)
LEMMA ClientFrame ==
  ASSUME NEW c \in Clients, ClientCalls(c) \/ ClientNext(c)
  PROVE  UNCHANGED <<idle, running, wpc, got, done>>
BY DEF ClientCalls, ClientNext, CallQueue, QueuePush, QueueRunning, QueueNotRunning, QueueStart,
       QueueStartThrows, CallJoin, JoinLock, JoinTasks, JoinWorkers, JoinReturn,
       Pool!CallJoin, Pool!Join, Pool!Return, serverVars, poolVars, workerVars

(* The dispatcher changes neither the tasks nor the clients. *)
LEMMA DispatcherFrame ==
  ASSUME DispatcherNext
  PROVE  UNCHANGED <<m_tasks, m_mutex, cpc, task, awaited, queued, refused, got, done>>
BY DEF DispatcherNext, DispatcherLock, DispatcherFindsNone, DispatcherFindsTask,
       DispatcherStartsWorker, DispatcherContinues, DispatcherStops, DispatcherExits,
       outsideVars, clientVars, historyVars, workerVars

(* A worker changes neither the clients nor the dispatcher. *)
LEMMA WorkerFrame ==
  ASSUME NEW w \in Workers, WorkerNext(w)
  PROVE  UNCHANGED <<m_mutex, m_bIsRunning, m_runningMutex, cpc, task, awaited, dpc, queued,
                     refused>>
BY DEF WorkerNext, Detach, RunTask, FinishWorker, restVars, clientVars, historyVars

(* One thread takes a step, or none. *)
LEMMA StepCases ==
  ASSUME [Next]_vars
  PROVE  \/ \E c \in Clients : ClientCalls(c) \/ ClientNext(c)
         \/ DispatcherNext
         \/ \E w \in Workers : WorkerNext(w)
         \/ UNCHANGED vars
BY DEF Next

-----------------------------------------------------------------------------
(* Every part of the invariant is kept by every step. *)

(* Every variable keeps its type. *)
LEMMA TypeStep ==
  ASSUME IInv, [Next]_vars
  PROVE  TypeOK'
<1> USE TaskQueueAssumption DEF ClientStep, WorkerStep, DispatcherStep
<1>0. TypeOK
  BY DEF IInv
<1>1. ASSUME NEW c \in Clients, ClientCalls(c) \/ ClientNext(c)
      PROVE  TypeOK'
  <2>1. ASSUME NEW t \in Tasks, CallQueue(c, t)
        PROVE  TypeOK'
    BY <1>0, <2>1 DEF CallQueue, TypeOK, ClientPCs, serverVars, poolVars, workerVars, flagVars,
                      historyVars
  <2>2. CASE QueuePush(c)
    <3>1. task[c] \in Tasks
      BY <1>0, <2>2 DEF QueuePush, IInv, PushInv, TypeOK
    <3>2. Append(m_tasks, task[c]) \in Seq(Tasks)
      BY <1>0, <3>1, AppendFacts DEF TypeOK
    <3>3. QED
      BY <1>0, <2>2, <3>1, <3>2 DEF QueuePush, TypeOK, ClientPCs, serverVars, poolVars, workerVars,
                                    flagVars
  <2>3. CASE QueueRunning(c) \/ QueueNotRunning(c)
    BY <1>0, <2>3 DEF QueueRunning, QueueNotRunning, TypeOK, ClientPCs, serverVars, poolVars,
                      workerVars, flagVars, historyVars
  <2>4. CASE QueueStart(c)
    BY <1>0, <2>4 DEF QueueStart, TypeOK, ClientPCs, DispatcherPCs, poolVars, workerVars,
                      historyVars
  <2>5. CASE QueueStartThrows(c)
    BY <1>0, <2>5 DEF QueueStartThrows, TypeOK, ClientPCs, serverVars, poolVars, workerVars
  <2>6. CASE CallJoin(c) \/ JoinLock(c)
    BY <1>0, <2>6 DEF CallJoin, JoinLock, TypeOK, ClientPCs, serverVars, poolVars, workerVars,
                      flagVars, historyVars
  <2>7. CASE JoinTasks(c) \/ JoinWorkers(c) \/ JoinReturn(c)
    <3>1. call' \in [Clients \cup {Dispatcher} -> Pool!CallStates]
      BY <1>0, <2>7 DEF JoinTasks, JoinWorkers, JoinReturn, TypeOK, Pool!CallJoin, Pool!Join,
                        Pool!Return, Pool!CallStep, Pool!CallStates
    <3>2. QED
      BY <1>0, <2>7, <3>1 DEF JoinTasks, JoinWorkers, JoinReturn, TypeOK, ClientPCs, workerVars,
                              flagVars, historyVars, Pool!CallJoin, Pool!Join, Pool!Return
  <2>8. QED
    BY <1>1, <2>1, <2>2, <2>3, <2>4, <2>5, <2>6, <2>7 DEF ClientCalls, ClientNext
<1>2. CASE DispatcherNext
  <2>1. CASE \/ DispatcherLock \/ DispatcherFindsNone \/ DispatcherStops \/ DispatcherExits
    BY <1>0, <2>1 DEF DispatcherLock, DispatcherFindsNone, DispatcherStops, DispatcherExits,
                      TypeOK, DispatcherPCs, outsideVars, poolVars, workerVars, clientVars,
                      historyVars
  <2>2. CASE DispatcherFindsTask \/ DispatcherContinues
    <3>1. call' \in [Clients \cup {Dispatcher} -> Pool!CallStates]
      BY <1>0, <2>2 DEF DispatcherFindsTask, DispatcherContinues, TypeOK, Pool!CallStart,
                        Pool!Return, Pool!CallStep, Pool!CallStates
    <3>2. QED
      BY <1>0, <2>2, <3>1 DEF DispatcherFindsTask, DispatcherContinues, TypeOK, DispatcherPCs,
                              outsideVars, flagVars, workerVars, clientVars, historyVars,
                              Pool!CallStart, Pool!Return
  <2>3. CASE DispatcherStartsWorker
    <3>1. /\ Head(idle) \in Workers /\ Tail(idle) \in Seq(Workers)
          /\ idle' = Tail(idle) /\ running' = running \cup {Head(idle)}
      BY <1>0, <2>3, TailFacts DEF DispatcherStartsWorker, Pool!Dispatch, TypeOK
    <3>2. call' \in [Clients \cup {Dispatcher} -> Pool!CallStates]
      BY <1>0, <2>3 DEF DispatcherStartsWorker, TypeOK, Pool!Dispatch, Pool!CallStep,
                        Pool!CallStates
    <3>3. wpc' \in [Workers -> WorkerPCs]
      BY <1>0, <2>3, <3>1 DEF DispatcherStartsWorker, TypeOK, WorkerPCs
    <3>4. QED
      BY <1>0, <2>3, <3>1, <3>2, <3>3 DEF DispatcherStartsWorker, TypeOK, DispatcherPCs,
                                          outsideVars, flagVars, clientVars, historyVars
  <2>4. QED
    BY <1>2, <2>1, <2>2, <2>3 DEF DispatcherNext
<1>3. ASSUME NEW w \in Workers, WorkerNext(w)
      PROVE  TypeOK'
  <2>1. CASE Detach(w)
    <3>1. Head(m_tasks) \in Tasks /\ Tail(m_tasks) \in Seq(Tasks)
      BY <1>0, <2>1, TailFacts DEF Detach, TypeOK
    <3>2. QED
      BY <1>0, <2>1, <3>1 DEF Detach, TypeOK, WorkerPCs, restVars, poolVars, clientVars,
                              historyVars
  <2>2. CASE RunTask(w)
    <3>1. got[w] \in Tasks
      BY <1>0, <2>2 DEF RunTask, IInv, PlaceInv, TypeOK
    <3>2. QED
      BY <1>0, <2>2, <3>1 DEF RunTask, TypeOK, WorkerPCs, restVars, poolVars, clientVars,
                              historyVars
  <2>3. CASE FinishWorker(w)
    <3>1. Append(idle, w) \in Seq(Workers)
      BY <1>0, AppendFacts DEF TypeOK
    <3>2. QED
      BY <1>0, <2>3, <3>1 DEF FinishWorker, TypeOK, WorkerPCs, restVars, clientVars, historyVars,
                              Pool!Finish
  <2>4. QED
    BY <1>3, <2>1, <2>2, <2>3 DEF WorkerNext
<1>4. CASE UNCHANGED vars
  BY <1>0, <1>4 DEF vars, poolVars, flagVars, clientVars, workerVars, historyVars, TypeOK
<1>5. QED
  BY <1>1, <1>2, <1>3, <1>4, StepCases

(* A worker is idle or running: m_workers and the workers agree. *)
LEMMA PoolStep ==
  ASSUME IInv, [Next]_vars
  PROVE  PoolInv'
<1> USE DEF WorkerStep, DispatcherStep
<1>0. TypeOK /\ PoolInv
  BY DEF IInv
<1>1. ASSUME UNCHANGED <<idle, running, wpc>>
      PROVE  PoolInv'
  BY <1>0, <1>1 DEF PoolInv
<1>2. CASE DispatcherStartsWorker
  <2>1. /\ idle # <<>> /\ idle' = Tail(idle) /\ running' = running \cup {Head(idle)}
        /\ wpc' = [wpc EXCEPT ![Head(idle)] = "detach"]
    BY <1>2 DEF DispatcherStartsWorker, Pool!Dispatch
  <2>2. /\ Head(idle) \in Workers /\ IsInjective(idle')
        /\ Range(idle') = Range(idle) \ {Head(idle)}
    BY <1>0, <2>1, TailFacts DEF TypeOK, PoolInv
  <2>3. QED
    BY <1>0, <2>1, <2>2 DEF TypeOK, PoolInv
<1>3. ASSUME NEW w \in Workers, Detach(w) \/ RunTask(w)
      PROVE  PoolInv'
  <2>1. UNCHANGED <<idle, running>> /\ wpc[w] # "idle" /\ wpc' = [wpc EXCEPT ![w] = wpc'[w]]
        /\ wpc'[w] # "idle"
    BY <1>0, <1>3 DEF Detach, RunTask, poolVars, TypeOK
  <2>2. QED
    BY <1>0, <2>1 DEF TypeOK, PoolInv
<1>4. ASSUME NEW w \in Workers, FinishWorker(w)
      PROVE  PoolInv'
  <2>1. /\ w \in running /\ running' = running \ {w} /\ idle' = Append(idle, w)
        /\ wpc' = [wpc EXCEPT ![w] = "idle"]
    BY <1>4 DEF FinishWorker, Pool!Finish
  <2>2. w \notin Range(idle)
    BY <1>0, <2>1 DEF PoolInv
  <2>3. IsInjective(idle') /\ Range(idle') = Range(idle) \cup {w}
    BY <1>0, <2>1, <2>2, AppendFacts DEF TypeOK, PoolInv
  <2>4. QED
    BY <1>0, <2>1, <2>3 DEF TypeOK, PoolInv
<1>5. CASE DispatcherNext
  BY <1>1, <1>2, <1>5 DEF DispatcherNext, DispatcherLock, DispatcherFindsNone,
     DispatcherFindsTask, DispatcherContinues, DispatcherStops, DispatcherExits, Pool!CallStart,
     Pool!Return, poolVars, workerVars
<1>6. CASE UNCHANGED vars
  BY <1>1, <1>6 DEF vars, poolVars, workerVars
<1>7. QED
  BY <1>1, <1>3, <1>4, <1>5, <1>6, StepCases, ClientFrame DEF WorkerNext

(* m_mutex is held from the push of a task until queue() returns or throws. *)
LEMMA MutexStep ==
  ASSUME IInv, [Next]_vars
  PROVE  MutexInv'
<1> USE TaskQueueAssumption DEF ClientStep, PushedPCs
<1>0. TypeOK /\ MutexInv
  BY DEF IInv
<1>1. ASSUME UNCHANGED <<m_mutex, cpc>>
      PROVE  MutexInv'
  BY <1>0, <1>1 DEF MutexInv
<1>2. ASSUME NEW c \in Clients, ClientCalls(c) \/ ClientNext(c)
      PROVE  MutexInv'
  <2>1. CASE QueuePush(c)
    BY <1>0, <2>1 DEF QueuePush, TypeOK, MutexInv
  <2>2. CASE QueueRunning(c) \/ QueueStart(c) \/ QueueStartThrows(c)
    BY <1>0, <2>2 DEF QueueRunning, QueueStart, QueueStartThrows, TypeOK, MutexInv
  <2>3. CASE \/ \E t \in Tasks : CallQueue(c, t)
             \/ QueueNotRunning(c) \/ CallJoin(c) \/ JoinLock(c) \/ JoinTasks(c)
             \/ JoinWorkers(c) \/ JoinReturn(c)
    BY <1>0, <2>3 DEF CallQueue, QueueNotRunning, CallJoin, JoinLock, JoinTasks, JoinWorkers,
                      JoinReturn, TypeOK, MutexInv
  <2>4. QED
    BY <1>2, <2>1, <2>2, <2>3 DEF ClientCalls, ClientNext
<1>3. CASE UNCHANGED vars
  BY <1>1, <1>3 DEF vars, clientVars
<1>4. QED
  BY <1>1, <1>2, <1>3, StepCases, DispatcherFrame, WorkerFrame

(* The tasks that clients are about to push stay new and distinct. *)
LEMMA PushStep ==
  ASSUME IInv, [Next]_vars
  PROVE  PushInv'
<1> USE TaskQueueAssumption DEF ClientStep, PushedPCs
<1>0. TypeOK /\ PushInv
  BY DEF IInv
<1>1. ASSUME UNCHANGED <<cpc, task, queued>>
      PROVE  PushInv'
  BY <1>0, <1>1 DEF PushInv
<1>2. ASSUME NEW c \in Clients, ClientCalls(c) \/ ClientNext(c)
      PROVE  PushInv'
  <2>1. ASSUME NEW t \in Tasks, CallQueue(c, t)
        PROVE  PushInv'
    <3>1. t \notin queued /\ \A d \in Clients : task[d] # t
      BY <1>0, <2>1 DEF CallQueue, TypeOK, Range
    <3>2. QED
      BY <1>0, <2>1, <3>1 DEF CallQueue, TypeOK, PushInv, historyVars
  <2>2. CASE QueuePush(c)
    BY <1>0, <2>2 DEF QueuePush, TypeOK, PushInv
  <2>3. CASE QueueNotRunning(c)
    BY <1>0, <2>3 DEF QueueNotRunning, TypeOK, PushInv, historyVars
  <2>4. CASE QueueRunning(c) \/ QueueStart(c) \/ QueueStartThrows(c)
    BY <1>0, <2>4 DEF QueueRunning, QueueStart, QueueStartThrows, TypeOK, PushInv, historyVars
  <2>5. CASE CallJoin(c) \/ JoinLock(c) \/ JoinTasks(c) \/ JoinWorkers(c) \/ JoinReturn(c)
    BY <1>0, <2>5 DEF CallJoin, JoinLock, JoinTasks, JoinWorkers, JoinReturn, TypeOK, PushInv,
                      historyVars
  <2>6. QED
    BY <1>2, <2>1, <2>2, <2>3, <2>4, <2>5 DEF ClientCalls, ClientNext
<1>3. CASE UNCHANGED vars
  BY <1>1, <1>3 DEF vars, clientVars, historyVars
<1>4. QED
  BY <1>1, <1>2, <1>3, StepCases, DispatcherFrame, WorkerFrame

(* m_runningMutex is handed over only when its owner is gone. *)
LEMMA RunningStep ==
  ASSUME IInv, [Next]_vars
  PROVE  RunningInv'
<1> USE DEF ClientStep, DispatcherStep, JoiningPCs, OneDispatcher
<1>0. TypeOK /\ RunningInv
  BY DEF IInv
<1>1. ASSUME UNCHANGED <<m_bIsRunning, m_runningMutex, cpc, dpc, refused>>
      PROVE  RunningInv'
  BY <1>0, <1>1 DEF RunningInv
<1>2. ASSUME NEW c \in Clients, ClientCalls(c) \/ ClientNext(c)
      PROVE  RunningInv'
  <2>1. CASE \/ \E t \in Tasks : CallQueue(c, t)
             \/ QueuePush(c) \/ QueueRunning(c) \/ QueueNotRunning(c) \/ CallJoin(c)
             \/ JoinTasks(c) \/ JoinWorkers(c)
    BY <1>0, <2>1 DEF CallQueue, QueuePush, QueueRunning, QueueNotRunning, CallJoin, JoinTasks,
                      JoinWorkers, TypeOK, RunningInv, serverVars, flagVars, historyVars
  <2>2. CASE QueueStart(c)
    BY <1>0, <2>2 DEF QueueStart, TypeOK, RunningInv, historyVars
  <2>3. CASE QueueStartThrows(c)
    BY <1>0, <2>3 DEF QueueStartThrows, TypeOK, RunningInv, serverVars
  <2>4. CASE JoinLock(c)
    BY <1>0, <2>4 DEF JoinLock, TypeOK, RunningInv, serverVars, historyVars
  <2>5. CASE JoinReturn(c)
    BY <1>0, <2>5 DEF JoinReturn, TypeOK, RunningInv, historyVars
  <2>6. QED
    BY <1>2, <2>1, <2>2, <2>3, <2>4, <2>5 DEF ClientCalls, ClientNext
<1>3. CASE DispatcherNext
  <2>1. CASE \/ DispatcherLock \/ DispatcherFindsNone \/ DispatcherFindsTask
             \/ DispatcherStartsWorker \/ DispatcherContinues
    BY <1>0, <2>1 DEF DispatcherLock, DispatcherFindsNone, DispatcherFindsTask,
       DispatcherStartsWorker, DispatcherContinues, RunningInv, outsideVars, flagVars,
       clientVars, historyVars
  <2>2. CASE DispatcherStops \/ DispatcherExits
    BY <1>0, <2>2 DEF DispatcherStops, DispatcherExits, RunningInv, outsideVars, clientVars,
                      historyVars
  <2>3. QED
    BY <1>3, <2>1, <2>2 DEF DispatcherNext
<1>4. CASE UNCHANGED vars
  BY <1>1, <1>4 DEF vars, flagVars, clientVars, historyVars
<1>5. QED
  BY <1>1, <1>2, <1>3, <1>4, StepCases, WorkerFrame

(* m_detachMutex passes from the dispatcher to one worker and back. *)
LEMMA DetachStep ==
  ASSUME IInv, [Next]_vars
  PROVE  DetachInv'
<1> USE DEF WorkerStep, DispatcherStep, DetachFindsTask
<1>0. TypeOK /\ PoolInv /\ PushInv /\ RunningInv /\ DetachInv
  BY DEF IInv
<1>1. ASSUME UNCHANGED <<m_tasks, m_detachMutex, dpc, wpc>>
      PROVE  DetachInv'
  BY <1>0, <1>1 DEF DetachInv
<1>2. ASSUME NEW c \in Clients, ClientCalls(c) \/ ClientNext(c)
      PROVE  DetachInv'
  <2>1. CASE QueuePush(c)
    <3>1. m_tasks' = Append(m_tasks, task[c]) /\ task[c] \in Tasks
      BY <1>0, <2>1 DEF QueuePush, ClientStep, PushInv, TypeOK
    <3>2. m_tasks' # <<>>
      BY <1>0, <3>1, AppendFacts DEF TypeOK
    <3>3. QED
      BY <1>0, <2>1, <3>2 DEF QueuePush, DetachInv, serverVars, flagVars, workerVars
  <2>2. CASE QueueStart(c)
    BY <1>0, <2>2 DEF QueueStart, DetachInv, workerVars
  <2>3. CASE \/ \E t \in Tasks : CallQueue(c, t)
             \/ QueueRunning(c) \/ QueueNotRunning(c) \/ QueueStartThrows(c) \/ CallJoin(c)
             \/ JoinLock(c) \/ JoinTasks(c) \/ JoinWorkers(c) \/ JoinReturn(c)
    BY <1>1, <2>3 DEF CallQueue, QueueRunning, QueueNotRunning, QueueStartThrows, CallJoin,
       JoinLock, JoinTasks, JoinWorkers, JoinReturn, serverVars, flagVars, workerVars
  <2>4. QED
    BY <1>2, <2>1, <2>2, <2>3 DEF ClientCalls, ClientNext
<1>3. CASE DispatcherNext
  <2>1. CASE DispatcherLock
    BY <1>0, <2>1 DEF DispatcherLock, DetachInv, outsideVars, workerVars
  <2>2. CASE DispatcherFindsNone \/ DispatcherFindsTask
    BY <1>0, <2>2 DEF DispatcherFindsNone, DispatcherFindsTask, DetachInv, outsideVars, flagVars,
                      workerVars
  <2>3. CASE DispatcherStartsWorker
    <3>1. Head(idle) \in Workers
      BY <1>0, <2>3, TailFacts DEF DispatcherStartsWorker, Pool!Dispatch, TypeOK
    <3>2. QED
      BY <1>0, <2>3, <3>1 DEF DispatcherStartsWorker, TypeOK, DetachInv, outsideVars, flagVars
  <2>4. CASE DispatcherContinues \/ DispatcherStops \/ DispatcherExits
    BY <1>0, <2>4 DEF DispatcherContinues, DispatcherStops, DispatcherExits, DetachInv,
                      outsideVars, flagVars, workerVars
  <2>5. QED
    BY <1>3, <2>1, <2>2, <2>3, <2>4 DEF DispatcherNext
<1>4. ASSUME NEW w \in Workers, WorkerNext(w)
      PROVE  DetachInv'
  <2>1. CASE Detach(w)
    BY <1>0, <2>1 DEF Detach, TypeOK, DetachInv, restVars
  <2>2. CASE RunTask(w) \/ FinishWorker(w)
    BY <1>0, <2>2 DEF RunTask, FinishWorker, TypeOK, DetachInv, restVars
  <2>3. QED
    BY <1>4, <2>1, <2>2 DEF WorkerNext
<1>5. CASE UNCHANGED vars
  BY <1>1, <1>5 DEF vars, flagVars, workerVars
<1>6. QED
  BY <1>2, <1>3, <1>4, <1>5, StepCases

(* PlaceInv is TaskInOnePlace for sets of tasks. *)
LEMMA PlaceFacts ==
  ASSUME TypeOK, PlaceInv
  PROVE  TaskInOnePlace
<1>1. Range(m_tasks) \subseteq Tasks
  BY DEF TypeOK, Range
<1>2. {got[w] : w \in {v \in Workers : got[v] # Nobody}} \subseteq Tasks
  BY DEF TypeOK
<1>3. queued = Range(m_tasks) \cup {got[w] : w \in {v \in Workers : got[v] # Nobody}} \cup done
  BY <1>1, <1>2, TaskQueueAssumption DEF TypeOK, PlaceInv
<1>4. QED
  BY <1>3 DEF PlaceInv, TaskInOnePlace

(* A task goes from the client to m_tasks, to one worker and to done. *)
LEMMA PlaceStep ==
  ASSUME IInv, [Next]_vars
  PROVE  PlaceInv'
<1> USE TaskQueueAssumption DEF ClientStep, WorkerStep
<1>0. TypeOK /\ PoolInv /\ PushInv /\ PlaceInv /\ TypeOK'
  BY TypeStep DEF IInv
<1>1. ASSUME UNCHANGED <<m_tasks, got, wpc, queued, done>>
      PROVE  PlaceInv'
  BY <1>0, <1>1 DEF PlaceInv
<1>2. ASSUME NEW c \in Clients, QueuePush(c)
      PROVE  PlaceInv'
  <2>1. /\ task[c] \in Tasks /\ task[c] \notin queued
        /\ m_tasks' = Append(m_tasks, task[c]) /\ queued' = queued \cup {task[c]}
        /\ UNCHANGED <<got, wpc, done>>
    BY <1>0, <1>2 DEF QueuePush, PushInv, TypeOK, serverVars, workerVars
  <2>2. task[c] \notin Range(m_tasks) \cup done /\ \A w \in Workers : got[w] # task[c]
    BY <1>0, <2>1 DEF PlaceInv
  <2>3. IsInjective(m_tasks') /\ Range(m_tasks') = Range(m_tasks) \cup {task[c]}
    BY <1>0, <2>1, <2>2, AppendFacts DEF PlaceInv, TypeOK
  <2>4. QED
    BY <1>0, <2>1, <2>2, <2>3 DEF PlaceInv
<1>3. CASE DispatcherStartsWorker
  <2>1. /\ Head(idle) \in Workers /\ wpc[Head(idle)] = "idle"
        /\ wpc' = [wpc EXCEPT ![Head(idle)] = "detach"]
        /\ UNCHANGED <<m_tasks, got, queued, done>>
    BY <1>0, <1>3, TailFacts DEF DispatcherStartsWorker, Pool!Dispatch, TypeOK, PoolInv,
                                 outsideVars, historyVars
  <2>2. QED
    BY <1>0, <2>1 DEF PlaceInv, TypeOK
<1>4. ASSUME NEW w \in Workers, Detach(w)
      PROVE  PlaceInv'
  <2> DEFINE h == Head(m_tasks)
  <2>1. /\ m_tasks # <<>> /\ m_tasks' = Tail(m_tasks) /\ got' = [got EXCEPT ![w] = h]
        /\ wpc[w] = "detach" /\ wpc' = [wpc EXCEPT ![w] = "run"]
        /\ UNCHANGED <<queued, done>>
    BY <1>4 DEF Detach, restVars, historyVars
  <2>2. /\ h \in Tasks /\ h \in Range(m_tasks)
        /\ IsInjective(m_tasks') /\ Range(m_tasks') = Range(m_tasks) \ {h}
    BY <1>0, <2>1, TailFacts DEF PlaceInv, TypeOK
  <2> HIDE DEF h
  <2>3. got[w] = Nobody /\ h \notin done /\ \A v \in Workers : got[v] # h
    BY <1>0, <2>1, <2>2 DEF PlaceInv, TypeOK
  <2>4. /\ got'[w] = h /\ wpc'[w] = "run"
        /\ \A v \in Workers \ {w} : got'[v] = got[v] /\ wpc'[v] = wpc[v]
    BY <1>0, <2>1 DEF TypeOK
  <2>5. \A t \in Tasks : t \in queued <=>
          t \in Range(m_tasks') \/ t \in done \/ \E v \in Workers : got'[v] = t
    BY <1>0, <2>2, <2>3, <2>4 DEF PlaceInv
  <2>6. QED
    BY <1>0, <2>1, <2>2, <2>3, <2>4, <2>5 DEF PlaceInv
<1>5. ASSUME NEW w \in Workers, RunTask(w)
      PROVE  PlaceInv'
  <2>1. /\ wpc[w] = "run" /\ wpc' = [wpc EXCEPT ![w] = "finish"]
        /\ done' = done \cup {got[w]} /\ UNCHANGED <<m_tasks, got, queued>>
    BY <1>5 DEF RunTask, restVars, historyVars
  <2>2. QED
    BY <1>0, <2>1 DEF PlaceInv, TypeOK
<1>6. ASSUME NEW w \in Workers, FinishWorker(w)
      PROVE  PlaceInv'
  <2>1. /\ wpc[w] = "finish" /\ wpc' = [wpc EXCEPT ![w] = "idle"]
        /\ got' = [got EXCEPT ![w] = Nobody] /\ UNCHANGED <<m_tasks, queued, done>>
    BY <1>6 DEF FinishWorker, restVars, historyVars
  <2>2. got[w] \in done
    BY <1>0, <2>1 DEF PlaceInv
  <2>3. \A t \in Tasks : t \in queued <=>
          t \in Range(m_tasks) \/ t \in done \/ \E v \in Workers : got'[v] = t
    BY <1>0, <2>1, <2>2 DEF PlaceInv, TypeOK
  <2>4. QED
    BY <1>0, <2>1, <2>3 DEF PlaceInv, TypeOK
<1>7. ASSUME NEW c \in Clients, ClientCalls(c) \/ ClientNext(c)
      PROVE  PlaceInv'
  BY <1>1, <1>2, <1>7, ClientFrame DEF ClientCalls, ClientNext, CallQueue, QueueRunning,
     QueueNotRunning, QueueStart, QueueStartThrows, CallJoin, JoinLock, JoinTasks, JoinWorkers,
     JoinReturn, historyVars
<1>8. CASE DispatcherNext
  BY <1>1, <1>3, <1>8, DispatcherFrame DEF DispatcherNext, DispatcherLock, DispatcherFindsNone,
     DispatcherFindsTask, DispatcherContinues, DispatcherStops, DispatcherExits, workerVars
<1>9. CASE UNCHANGED vars
  BY <1>1, <1>9 DEF vars, workerVars, historyVars
<1>10. QED
  BY <1>4, <1>5, <1>6, <1>7, <1>8, <1>9, StepCases DEF WorkerNext

(* No worker has a task when m_workers.join() returns: the tasks that had   *)
(* left m_tasks before it was called are done.                              *)
LEMMA JoinStep ==
  ASSUME IInv, [Next]_vars
  PROVE  JoinInv'
<1> USE DEF ClientStep, JoinWaitsForTasks
<1>0. TypeOK /\ PoolInv /\ PushInv /\ PlaceInv /\ JoinInv
  BY DEF IInv
<1>1. ASSUME UNCHANGED <<cpc, awaited, queued>>, done \subseteq done',
             Range(m_tasks') \subseteq Range(m_tasks)
      PROVE  JoinInv'
  BY <1>0, <1>1 DEF JoinInv
<1>2. ASSUME NEW c \in Clients, ClientCalls(c) \/ ClientNext(c)
      PROVE  JoinInv'
  <2>0. done' = done
    BY <1>2, ClientFrame
  <2>1. CASE QueuePush(c)
    <3>1. /\ task[c] \in Tasks /\ task[c] \notin queued
          /\ m_tasks' = Append(m_tasks, task[c]) /\ queued' = queued \cup {task[c]}
          /\ cpc' = [cpc EXCEPT ![c] = "q_test"] /\ awaited' = awaited
      BY <1>0, <2>1 DEF QueuePush, PushInv, TypeOK
    <3>2. Range(m_tasks') = Range(m_tasks) \cup {task[c]}
      BY <1>0, <3>1, AppendFacts DEF TypeOK
    <3>3. QED
      BY <1>0, <2>0, <3>1, <3>2 DEF JoinInv, TypeOK
  <2>2. CASE \/ \E t \in Tasks : CallQueue(c, t)
             \/ QueueRunning(c) \/ QueueNotRunning(c) \/ QueueStart(c) \/ QueueStartThrows(c)
             \/ JoinLock(c)
    BY <1>0, <2>0, <2>2 DEF CallQueue, QueueRunning, QueueNotRunning, QueueStart,
       QueueStartThrows, JoinLock, JoinInv, TypeOK, historyVars
  <2>3. CASE CallJoin(c)
    BY <1>0, <2>0, <2>3 DEF CallJoin, JoinInv, TypeOK, historyVars
  <2>4. CASE JoinTasks(c)
    <3>1. m_tasks = <<>> /\ m_tasks' = m_tasks /\ Range(m_tasks) = {}
      BY <2>4 DEF JoinTasks, Range
    <3>2. QED
      BY <1>0, <2>0, <2>4, <3>1 DEF JoinTasks, JoinInv, TypeOK, historyVars
  <2>5. CASE JoinWorkers(c)
    <3>1. \A w \in Workers : got[w] = Nobody
      BY <1>0, <2>5 DEF JoinWorkers, Pool!Join, PoolInv, PlaceInv
    <3>2. awaited[c] \subseteq done
      BY <1>0, <2>5, <3>1, TaskQueueAssumption DEF JoinWorkers, PlaceInv, JoinInv, TypeOK
    <3>3. QED
      BY <1>0, <2>0, <2>5, <3>2 DEF JoinWorkers, JoinInv, TypeOK, historyVars
  <2>6. CASE JoinReturn(c)
    BY <1>0, <2>0, <2>6 DEF JoinReturn, JoinInv, TypeOK, historyVars
  <2>7. QED
    BY <1>2, <2>1, <2>2, <2>3, <2>4, <2>5, <2>6 DEF ClientCalls, ClientNext
<1>3. CASE DispatcherNext
  BY <1>1, <1>3, DispatcherFrame
<1>4. ASSUME NEW w \in Workers, WorkerNext(w)
      PROVE  JoinInv'
  <2>1. Range(m_tasks') \subseteq Range(m_tasks)
    <3>1. CASE Detach(w)
      BY <1>0, <3>1, TailFacts DEF Detach, PlaceInv, TypeOK
    <3>2. CASE RunTask(w) \/ FinishWorker(w)
      BY <3>2 DEF RunTask, FinishWorker
    <3>3. QED
      BY <1>4, <3>1, <3>2 DEF WorkerNext
  <2>2. done \subseteq done'
    BY <1>4 DEF WorkerNext, Detach, RunTask, FinishWorker
  <2>3. QED
    BY <1>1, <1>4, <2>1, <2>2, WorkerFrame
<1>5. CASE UNCHANGED vars
  BY <1>1, <1>5 DEF vars, clientVars, workerVars, historyVars
<1>6. QED
  BY <1>2, <1>3, <1>4, <1>5, StepCases

-----------------------------------------------------------------------------
(* A list of all workers, each once, has every worker in it: there are as   *)
(* many positions as workers.                                               *)
LEMMA AllWorkersIdle ==
  ASSUME NEW s \in [1..Cardinality(Workers) -> Workers], IsInjective(s)
  PROVE  s \in Seq(Workers) /\ Range(s) = Workers
<1> DEFINE n == Cardinality(Workers)
<1>1. n \in Nat /\ IsFiniteSet(1..n) /\ Cardinality(1..n) = n
  BY FS_CardinalityType, FS_Interval, TaskQueueAssumption
<1>2. Range(s) \subseteq Workers /\ Range(s) = {s[i] : i \in 1..n}
  BY DEF Range
<1>3. s \in Bijection(1..n, Range(s))
  BY <1>2 DEF IsInjective, Bijection, Injection, Surjection, Range
<1>4. IsFiniteSet(Range(s)) /\ Cardinality(Range(s)) = n
  BY <1>1, <1>3, FS_Bijection DEF ExistsBijection
<1>5. Range(s) = Workers
  BY <1>1, <1>2, <1>4, FS_Subset, TaskQueueAssumption
<1>6. QED
  BY <1>1, <1>5

(* The constructor establishes the invariant. *)
LEMMA InitEstablishes == Init => IInv
<1> SUFFICES ASSUME Init
             PROVE  IInv
  OBVIOUS
<1> USE TaskQueueAssumption
<1>1. idle \in Seq(Workers) /\ Range(idle) = Workers /\ IsInjective(idle)
  BY AllWorkersIdle DEF Init
<1>2. TypeOK
  <2>1. m_tasks \in Seq(Tasks) /\ refused \in 0..MaxRefusals
    BY DEF Init
  <2>2. QED
    BY <1>1, <2>1 DEF Init, TypeOK, Pool!CallStates, ClientPCs, DispatcherPCs, WorkerPCs
<1>3. PoolInv
  BY <1>1 DEF Init, PoolInv
<1>4. MutexInv /\ PushInv
  BY DEF Init, MutexInv, PushInv, PushedPCs
<1>5. RunningInv /\ DetachInv
  BY DEF Init, RunningInv, OneDispatcher, JoiningPCs, DetachInv, DetachFindsTask
<1>6. Range(m_tasks) = {} /\ IsInjective(m_tasks)
  BY DEF Init, Range, IsInjective
<1>7. PlaceInv
  BY <1>6 DEF Init, PlaceInv
<1>8. JoinInv
  BY DEF Init, JoinInv, JoinWaitsForTasks
<1>9. QED
  BY <1>2, <1>3, <1>4, <1>5, <1>7, <1>8 DEF IInv

(* In every reachable state the parts of the invariant hold. *)
THEOREM Invariance == Spec => []IInv
<1>1. Init => IInv
  BY InitEstablishes
<1>2. IInv /\ [Next]_vars => IInv'
  BY TypeStep, PoolStep, MutexStep, PushStep, RunningStep, DetachStep, PlaceStep, JoinStep DEF IInv
<1>3. QED
  BY <1>1, <1>2, PTL DEF Spec

(* Every variable keeps its type. *)
THEOREM TypeCorrect == Spec => []TypeOK
<1>1. IInv => TypeOK
  BY DEF IInv
<1>2. QED
  BY <1>1, Invariance, PTL

(* C2STaskQueue::detach() never finds m_tasks empty: its assertion holds,   *)
(* whatever queue() and join() do meanwhile.                                *)
THEOREM DetachIsSafe == Spec => []DetachFindsTask
<1>1. IInv => DetachFindsTask
  BY DEF IInv, DetachInv
<1>2. QED
  BY <1>1, Invariance, PTL

(* No task is lost between queue(), m_tasks and the worker that runs it, or *)
(* run by two workers.                                                      *)
THEOREM TasksHaveOnePlace == Spec => []TaskInOnePlace
<1>1. IInv => TaskInOnePlace
  BY PlaceFacts DEF IInv
<1>2. QED
  BY <1>1, Invariance, PTL

(* queue() creates a dispatcher only when the last one has done its last    *)
(* step, so that m_bIsRunning is never reset for a dispatcher that runs.    *)
THEOREM DispatcherIsAlone == Spec => []OneDispatcher
<1>1. IInv => OneDispatcher
  BY DEF IInv, RunningInv
<1>2. QED
  BY <1>1, Invariance, PTL

(* When join() returns, the tasks that were queued before it was called are *)
(* done and may be deleted.                                                 *)
THEOREM JoinIsSound == Spec => []JoinWaitsForTasks
<1>1. IInv => JoinWaitsForTasks
  BY DEF IInv, JoinInv
<1>2. QED
  BY <1>1, Invariance, PTL

=============================================================================
