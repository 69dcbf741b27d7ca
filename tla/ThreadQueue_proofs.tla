------------------------- MODULE ThreadQueue_proofs -------------------------
(***************************************************************************)
(* Proofs about ThreadQueue, for every set of callers, runners and threads *)
(* and every number of failures of pthread_create.                         *)
(***************************************************************************)
EXTENDS ThreadQueue, SequenceFacts, FiniteSetTheorems, TLAPS

(***************************************************************************)
(* The inductive invariant.  Each part is named for the piece of state it  *)
(* explains.                                                               *)
(***************************************************************************)

(* m_writeMutex is held by the thread that is between its lock and unlock. *)
WriteInv ==
  /\ \A c \in Callers : cpc[c] \in WritePCs <=> m_writeMutex = c
  /\ \A t \in Threads : tpc[t] \in WritePCs <=> m_writeMutex = t

(* The same for the m_mutex of every runner. *)
RunnerLockInv ==
  /\ \A t \in Threads : tpc[t] \in LockedPCs => m_mutex[runs[t]] = t
  /\ \A r \in Runners : m_mutex[r] # Nobody =>
       tpc[m_mutex[r]] \in LockedPCs /\ runs[m_mutex[r]] = r

(* m_threads holds registered runners, each once. *)
ListInv ==
  /\ Range(m_threads) \subseteq registered
  /\ IsInjective(m_threads)

(* A runner that is not in m_threads is with one caller or one thread. *)
TakenPCs == {"s_runner", "s_create"}
PlaceInv ==
  /\ \A c \in Callers : cpc[c] \in TakenPCs => arg[c] \in Out
  /\ \A t \in Threads : tpc[t] # "none" => runs[t] \in registered
  /\ \A t \in Threads : tpc[t] \in ExecutingPCs => runs[t] \in Out
  /\ \A c \in Callers, t \in Threads :
       cpc[c] \in TakenPCs /\ tpc[t] \in ExecutingPCs => arg[c] # runs[t]
  /\ \A c \in Callers, t \in Threads :
       cpc[c] = "s_create" /\ tpc[t] # "none" => arg[c] # runs[t]
  /\ \A t, u \in Threads :
       t # u /\ tpc[t] # "none" /\ tpc[u] # "none" => runs[t] # runs[u]

(* m_iSize counts the runners that are idle and those that are not. *)
CountInv ==
  /\ IsFiniteSet(registered)
  /\ m_iSize = Len(m_threads) + Cardinality(Out)

(* m_busyMutex is locked while a runner is not idle, and by join() only     *)
(* when all are.                                                            *)
BusyInv ==
  /\ Out # {} => m_busyMutex
  /\ \A c \in Callers : cpc[c] \in {"s_pop", "j_held"} => m_busyMutex
  /\ \A t \in Threads : tpc[t] = "r_busy" => m_busyMutex
  /\ \A c \in Callers : cpc[c] = "j_held" =>
       /\ Out = {}
       /\ \A d \in Callers : cpc[d] # "s_pop" /\ (cpc[d] = "j_held" => d = c)
       /\ \A t \in Threads : tpc[t] # "r_busy"

(* m_occupiedMutex is locked by one start() or because no runner is idle. *)
OccupiedInv ==
  /\ \A c \in Callers : cpc[c] \in OccupiedPCs =>
       /\ m_occupiedMutex
       /\ m_threads = <<>> => registered = {}
       /\ \A d \in Callers : cpc[d] \in OccupiedPCs => d = c
  /\ \A c \in Callers : cpc[c] \in {"s_busy", "s_pop"} => m_threads # <<>>
  /\ m_threads = <<>> /\ registered # {} => m_occupiedMutex

(* With a caller that queues only while a runner is idle, no other reason. *)
OccupiedOnlyInv ==
  m_occupiedMutex => \/ \E c \in Callers : cpc[c] \in OccupiedPCs
                     \/ m_threads = <<>> /\ registered # {}

(* The caller that closes the queue is alone with the threads that have    *)
(* put their runners back.                                                 *)
LifeInv ==
  /\ life # "open" => \A c, d \in Callers :
       /\ cpc[c] \in {"idle", "j_busy", "j_held", "d_runners"}
       /\ cpc[c] # "idle" /\ cpc[d] # "idle" => c = d
  /\ \A c \in Callers : cpc[c] = "d_runners" =>
       life = "closing" /\ Out = {} /\ \A t \in Threads : tpc[t] # "r_busy"
  /\ life = "dead" => /\ \A c \in Callers : cpc[c] = "idle"
                      /\ \A t \in Threads : tpc[t] = "none"

IInv ==
  /\ TypeOK /\ WriteInv /\ RunnerLockInv /\ ListInv /\ PlaceInv /\ CountInv
  /\ BusyInv /\ OccupiedInv /\ LifeInv
  /\ ~QueueWhenAllBusy => OccupiedOnlyInv

-----------------------------------------------------------------------------
(* The comparisons of m_iSize with the length of m_threads decide whether  *)
(* every runner is idle.                                                    *)
LEMMA OutIsEmpty ==
  ASSUME TypeOK, ListInv, CountInv
  PROVE  /\ IsFiniteSet(Out)
         /\ Len(m_threads) <= m_iSize
         /\ m_iSize = Len(m_threads) <=> Out = {}
<1>1. Out \in SUBSET registered /\ Len(m_threads) \in Nat
  BY DEF Out, TypeOK
<1>2. IsFiniteSet(Out) /\ Cardinality(Out) \in Nat
  BY <1>1, FS_Subset, FS_CardinalityType DEF CountInv
<1>3. Cardinality(Out) = 0 <=> Out = {}
  BY <1>2, FS_EmptySet
<1>4. QED
  BY <1>1, <1>2, <1>3 DEF CountInv, TypeOK

-----------------------------------------------------------------------------
(* Each step of the queue preserves the invariant. *)

(* A client's call of start() or join() keeps IInv: it has no effect yet. *)
LEMMA ClientCallPreserves ==
  ASSUME IInv, NEW c \in Callers, CallStart(c) \/ CallJoin(c) \/ CallLastJoin(c)
  PROVE  IInv'
<1> USE ThreadQueueAssumption
    DEF CallerStep, ThreadStep, CallerPCs, ThreadPCs, queueVars, semaphoreVars, callerVars,
        threadVars, otherVars, CallStart, CallJoin, CallLastJoin
<1>0. TypeOK
  BY DEF IInv
<1>1. Out' = Out /\ Range(m_threads)' = Range(m_threads)
  BY DEF Out
<1>2. TypeOK'
  BY <1>0, <1>1 DEF IInv, TypeOK
<1>3. WriteInv' /\ RunnerLockInv'
  BY <1>0, <1>1 DEF IInv, WriteInv, WritePCs, RunnerLockInv, LockedPCs, TypeOK
<1>4. ListInv' /\ CountInv'
  BY <1>0, <1>1 DEF IInv, ListInv, CountInv, TypeOK
<1>5. PlaceInv'
  BY <1>0, <1>1 DEF IInv, PlaceInv, TakenPCs, ExecutingPCs, TypeOK
<1>6. BusyInv'
  BY <1>0, <1>1 DEF IInv, BusyInv, TypeOK
<1>7. OccupiedInv' /\ (~QueueWhenAllBusy => OccupiedOnlyInv)'
  BY <1>0, <1>1 DEF IInv, OccupiedInv, OccupiedPCs, OccupiedOnlyInv, TypeOK
<1>8. LifeInv'
  BY <1>0, <1>1 DEF IInv, LifeInv, TypeOK
<1>9. QED
  BY <1>2, <1>3, <1>4, <1>5, <1>6, <1>7, <1>8 DEF IInv

(* Getting or giving back m_occupiedMutex, or m_busyMutex in join(), keeps IInv. *)
LEMMA AcquirePreserves ==
  ASSUME IInv, NEW c \in Callers, LockOccupied(c) \/ ThrowEmpty(c) \/ JoinLock(c)
  PROVE  IInv'
<1> USE ThreadQueueAssumption
    DEF CallerStep, ThreadStep, CallerPCs, ThreadPCs, queueVars, semaphoreVars, callerVars,
        threadVars, otherVars, LockOccupied, ThrowEmpty, JoinLock
<1>0. TypeOK
  BY DEF IInv
<1>1. Out' = Out /\ Range(m_threads)' = Range(m_threads)
  BY DEF Out
<1>2. TypeOK'
  BY <1>0, <1>1 DEF IInv, TypeOK
<1>3. WriteInv' /\ RunnerLockInv'
  BY <1>0, <1>1 DEF IInv, WriteInv, WritePCs, RunnerLockInv, LockedPCs, TypeOK
<1>4. ListInv' /\ CountInv'
  BY <1>0, <1>1 DEF IInv, ListInv, CountInv, TypeOK
<1>5. PlaceInv'
  BY <1>0, <1>1 DEF IInv, PlaceInv, TakenPCs, ExecutingPCs, TypeOK
<1>6. BusyInv'
  BY <1>0, <1>1 DEF IInv, BusyInv, TypeOK
<1>7. OccupiedInv' /\ (~QueueWhenAllBusy => OccupiedOnlyInv)'
  BY <1>0, <1>1 DEF IInv, OccupiedInv, OccupiedPCs, OccupiedOnlyInv, TypeOK
<1>8. LifeInv'
  BY <1>0, <1>1 DEF IInv, LifeInv, TypeOK
<1>9. QED
  BY <1>2, <1>3, <1>4, <1>5, <1>6, <1>7, <1>8 DEF IInv

(* start() gets m_writeMutex with a runner to take: IInv is kept. *)
LEMMA LockWritePreserves ==
  ASSUME IInv, NEW c \in Callers, LockWrite(c)
  PROVE  IInv'
<1> USE ThreadQueueAssumption
    DEF CallerStep, ThreadStep, CallerPCs, ThreadPCs, queueVars, semaphoreVars, callerVars,
        threadVars, otherVars, LockWrite
<1>0. TypeOK
  BY DEF IInv
<1>1. Out' = Out /\ Range(m_threads)' = Range(m_threads)
  BY DEF Out
<1>2. TypeOK'
  BY <1>0, <1>1 DEF IInv, TypeOK
<1>3. WriteInv' /\ RunnerLockInv'
  BY <1>0, <1>1 DEF IInv, WriteInv, WritePCs, RunnerLockInv, LockedPCs, TypeOK
<1>4. ListInv' /\ CountInv'
  BY <1>0, <1>1 DEF IInv, ListInv, CountInv, TypeOK
<1>5. PlaceInv'
  BY <1>0, <1>1 DEF IInv, PlaceInv, TakenPCs, ExecutingPCs, TypeOK
<1>6. BusyInv'
  <2>1. m_iSize # Len(m_threads) => Out # {}
    BY <1>0, OutIsEmpty DEF IInv
  <2>2. /\ cpc' = [cpc EXCEPT ![c] = IF m_iSize = Len(m_threads) THEN "s_busy" ELSE "s_pop"]
        /\ m_busyMutex' = m_busyMutex /\ tpc' = tpc
    OBVIOUS
  <2>3. QED
    BY <1>0, <1>1, <2>1, <2>2 DEF IInv, BusyInv, TypeOK
<1>7. OccupiedInv' /\ (~QueueWhenAllBusy => OccupiedOnlyInv)'
  BY <1>0, <1>1 DEF IInv, OccupiedInv, OccupiedPCs, OccupiedOnlyInv, TypeOK
<1>8. LifeInv'
  BY <1>0, <1>1 DEF IInv, LifeInv, TypeOK
<1>9. QED
  BY <1>2, <1>3, <1>4, <1>5, <1>6, <1>7, <1>8 DEF IInv

(* start() locks m_busyMutex for the first runner to leave: IInv is kept. *)
LEMMA LockBusyPreserves ==
  ASSUME IInv, NEW c \in Callers, LockBusy(c)
  PROVE  IInv'
<1> USE ThreadQueueAssumption
    DEF CallerStep, ThreadStep, CallerPCs, ThreadPCs, queueVars, semaphoreVars, callerVars,
        threadVars, otherVars, LockBusy
<1>0. TypeOK
  BY DEF IInv
<1>1. Out' = Out /\ Range(m_threads)' = Range(m_threads)
  BY DEF Out
<1>2. TypeOK'
  BY <1>0, <1>1 DEF IInv, TypeOK
<1>3. WriteInv' /\ RunnerLockInv'
  BY <1>0, <1>1 DEF IInv, WriteInv, WritePCs, RunnerLockInv, LockedPCs, TypeOK
<1>4. ListInv' /\ CountInv'
  BY <1>0, <1>1 DEF IInv, ListInv, CountInv, TypeOK
<1>5. PlaceInv'
  BY <1>0, <1>1 DEF IInv, PlaceInv, TakenPCs, ExecutingPCs, TypeOK
<1>6. BusyInv'
  <2>1. ~m_busyMutex /\ m_busyMutex' /\ cpc' = [cpc EXCEPT ![c] = "s_pop"] /\ tpc' = tpc
    OBVIOUS
  <2>2. \A d \in Callers : cpc[d] # "j_held"
    BY <2>1 DEF IInv, BusyInv
  <2>3. \A d \in Callers : cpc'[d] # "j_held"
    BY <1>0, <2>1, <2>2 DEF TypeOK
  <2>4. QED
    BY <1>1, <2>1, <2>3 DEF BusyInv
<1>7. OccupiedInv' /\ (~QueueWhenAllBusy => OccupiedOnlyInv)'
  BY <1>0, <1>1 DEF IInv, OccupiedInv, OccupiedPCs, OccupiedOnlyInv, TypeOK
<1>8. LifeInv'
  BY <1>0, <1>1 DEF IInv, LifeInv, TypeOK
<1>9. QED
  BY <1>2, <1>3, <1>4, <1>5, <1>6, <1>7, <1>8 DEF IInv

(* start() takes the first runner off m_threads: IInv is kept. *)
LEMMA PopPreserves ==
  ASSUME IInv, NEW c \in Callers, Pop(c)
  PROVE  IInv'
<1> DEFINE h == Head(m_threads)
<1> USE DEF CallerStep, CallerPCs, ThreadPCs, threadVars, otherVars
<1>0. TypeOK /\ m_threads # <<>>
  BY DEF IInv, OccupiedInv, Pop
<1>1. /\ cpc[c] = "s_pop" /\ cpc' = [cpc EXCEPT ![c] = "s_runner"]
      /\ arg' = [arg EXCEPT ![c] = h]
      /\ m_threads' = Tail(m_threads) /\ m_occupiedMutex' = (m_threads' = <<>>)
      /\ UNCHANGED <<m_iSize, registered, m_writeMutex, m_busyMutex, threadVars, otherVars>>
  BY DEF Pop
<1>2. /\ h \in Runners /\ h \in Range(m_threads) /\ m_threads' \in Seq(Runners)
      /\ Len(m_threads') = Len(m_threads) - 1
      /\ Range(m_threads') = Range(m_threads) \ {h} /\ IsInjective(m_threads')
  BY <1>0, <1>1, TailFacts DEF IInv, TypeOK, ListInv
<1>3. h \in registered /\ h \notin Out /\ Out' = Out \cup {h}
  BY <1>1, <1>2 DEF IInv, ListInv, Out
<1> HIDE DEF h
<1>4. /\ \A d \in Callers \ {c} : cpc'[d] = cpc[d] /\ arg'[d] = arg[d]
      /\ cpc'[c] = "s_runner" /\ arg'[c] = h
      /\ \A d \in Callers \ {c} : cpc[d] \notin WritePCs
      /\ \A t \in Threads : tpc[t] \notin WritePCs
  BY <1>0, <1>1, ThreadQueueAssumption DEF IInv, TypeOK, WriteInv, WritePCs
<1>5. TypeOK'
  BY <1>0, <1>1, <1>2 DEF TypeOK
<1>6. WriteInv' /\ RunnerLockInv'
  BY <1>0, <1>1, <1>4 DEF IInv, WriteInv, WritePCs, RunnerLockInv
<1>7. ListInv'
  BY <1>1, <1>2 DEF IInv, ListInv
<1>8. CountInv'
  <2>1. IsFiniteSet(Out) /\ Cardinality(Out \cup {h}) = Cardinality(Out) + 1
    BY <1>0, <1>3, OutIsEmpty, FS_AddElement DEF IInv
  <2>2. Cardinality(Out) \in Nat /\ Len(m_threads) \in Nat
    BY <1>0, <2>1, FS_CardinalityType DEF TypeOK
  <2>3. QED
    BY <1>1, <1>2, <1>3, <2>1, <2>2 DEF IInv, CountInv
<1>9. PlaceInv'
  BY <1>1, <1>3, <1>4 DEF IInv, PlaceInv, TakenPCs, WritePCs
<1>10. BusyInv'
  BY <1>1, <1>4 DEF IInv, BusyInv
<1>11. OccupiedInv' /\ (~QueueWhenAllBusy => OccupiedOnlyInv)'
  <2>1. \A d \in Callers : cpc'[d] \notin OccupiedPCs
    BY <1>1, <1>4 DEF IInv, OccupiedInv, OccupiedPCs
  <2>2. registered' # {} /\ (m_occupiedMutex' <=> m_threads' = <<>>)
    BY <1>1, <1>3
  <2>3. QED
    BY <2>1, <2>2 DEF OccupiedInv, OccupiedOnlyInv, OccupiedPCs
<1>12. LifeInv'
  BY <1>1, <1>4 DEF IInv, LifeInv
<1>13. QED
  BY <1>5, <1>6, <1>7, <1>8, <1>9, <1>10, <1>11, <1>12 DEF IInv

(* start() waits for the runner's last thread: IInv is kept. *)
LEMMA AwaitRunnerPreserves ==
  ASSUME IInv, NEW c \in Callers, AwaitRunner(c)
  PROVE  IInv'
<1> USE ThreadQueueAssumption
    DEF CallerStep, ThreadStep, CallerPCs, ThreadPCs, queueVars, semaphoreVars, callerVars,
        threadVars, otherVars, AwaitRunner
<1>0. TypeOK
  BY DEF IInv
<1>1. Out' = Out /\ Range(m_threads)' = Range(m_threads)
  BY DEF Out
<1>2. TypeOK'
  BY <1>0, <1>1 DEF IInv, TypeOK
<1>3. WriteInv' /\ RunnerLockInv'
  BY <1>0, <1>1 DEF IInv, WriteInv, WritePCs, RunnerLockInv, LockedPCs, TypeOK
<1>4. ListInv' /\ CountInv'
  BY <1>0, <1>1 DEF IInv, ListInv, CountInv, TypeOK
<1>5. PlaceInv'
  <2>1. \A t \in Threads : tpc[t] # "none" => arg[c] # runs[t]
    BY <1>0 DEF IInv, TypeOK, RunnerLockInv, LockedPCs, PlaceInv, TakenPCs, ExecutingPCs
  <2>2. QED
    BY <1>0, <1>1, <2>1 DEF IInv, TypeOK, PlaceInv, TakenPCs, ExecutingPCs
<1>6. BusyInv'
  BY <1>0, <1>1 DEF IInv, BusyInv, TypeOK
<1>7. OccupiedInv' /\ (~QueueWhenAllBusy => OccupiedOnlyInv)'
  BY <1>0, <1>1 DEF IInv, OccupiedInv, OccupiedPCs, OccupiedOnlyInv, TypeOK
<1>8. LifeInv'
  BY <1>0, <1>1 DEF IInv, LifeInv, TypeOK
<1>9. QED
  BY <1>2, <1>3, <1>4, <1>5, <1>6, <1>7, <1>8 DEF IInv

(* start() creates a thread for the runner it took: IInv is kept. *)
LEMMA CreatePreserves ==
  ASSUME IInv, NEW c \in Callers, NEW t \in Threads, Create(c, t)
  PROVE  IInv'
<1> USE ThreadQueueAssumption
    DEF CallerStep, ThreadStep, CallerPCs, ThreadPCs, queueVars, semaphoreVars, callerVars,
        threadVars, otherVars, Create
<1>0. TypeOK
  BY DEF IInv
<1>1. Out' = Out /\ Range(m_threads)' = Range(m_threads)
  BY DEF Out
<1>2. TypeOK'
  BY <1>0, <1>1 DEF IInv, TypeOK
<1>3. WriteInv' /\ RunnerLockInv'
  BY <1>0, <1>1 DEF IInv, WriteInv, WritePCs, RunnerLockInv, LockedPCs, TypeOK
<1>4. ListInv' /\ CountInv'
  BY <1>0, <1>1 DEF IInv, ListInv, CountInv, TypeOK
<1>5. PlaceInv'
  <2>1. /\ arg[c] \in Out /\ \A u \in Threads : tpc[u] # "none" => runs[u] # arg[c]
        /\ \A d \in Callers : cpc[d] \in TakenPCs => d = c
    BY <1>0 DEF IInv, TypeOK, PlaceInv, TakenPCs, WriteInv, WritePCs
  <2>2. \A d \in Callers : cpc'[d] \notin TakenPCs
    BY <1>0, <2>1 DEF TypeOK, TakenPCs
  <2>3. /\ runs'[t] = arg[c] /\ tpc'[t] = "r_lock"
        /\ \A u \in Threads \ {t} : runs'[u] = runs[u] /\ tpc'[u] = tpc[u]
    BY <1>0 DEF TypeOK
  <2>4. \A u \in Threads : tpc'[u] # "none" => runs'[u] \in registered'
    BY <2>1, <2>3 DEF IInv, PlaceInv, Out
  <2>5. \A u \in Threads : tpc'[u] \in ExecutingPCs => runs'[u] \in Out'
    BY <1>1, <2>1, <2>3 DEF IInv, PlaceInv
  <2>6. \A u, v \in Threads :
          u # v /\ tpc'[u] # "none" /\ tpc'[v] # "none" => runs'[u] # runs'[v]
    BY <2>1, <2>3 DEF IInv, PlaceInv
  <2>7. QED
    BY <2>2, <2>4, <2>5, <2>6 DEF PlaceInv, TakenPCs
<1>6. BusyInv'
  BY <1>0, <1>1 DEF IInv, BusyInv, TypeOK
<1>7. OccupiedInv' /\ (~QueueWhenAllBusy => OccupiedOnlyInv)'
  BY <1>0, <1>1 DEF IInv, OccupiedInv, OccupiedPCs, OccupiedOnlyInv, TypeOK
<1>8. LifeInv'
  BY <1>0, <1>1 DEF IInv, LifeInv, TypeOK
<1>9. QED
  BY <1>2, <1>3, <1>4, <1>5, <1>6, <1>7, <1>8 DEF IInv

(* pthread_create fails and the runner is lost: IInv is kept. *)
LEMMA ThrowCreatePreserves ==
  ASSUME IInv, NEW c \in Callers, ThrowCreate(c)
  PROVE  IInv'
<1> USE ThreadQueueAssumption
    DEF CallerStep, ThreadStep, CallerPCs, ThreadPCs, queueVars, semaphoreVars, callerVars,
        threadVars, otherVars, ThrowCreate
<1>0. TypeOK
  BY DEF IInv
<1>1. Out' = Out /\ Range(m_threads)' = Range(m_threads)
  BY DEF Out
<1>2. TypeOK'
  BY <1>0, <1>1 DEF IInv, TypeOK
<1>3. WriteInv' /\ RunnerLockInv'
  BY <1>0, <1>1 DEF IInv, WriteInv, WritePCs, RunnerLockInv, LockedPCs, TypeOK
<1>4. ListInv' /\ CountInv'
  BY <1>0, <1>1 DEF IInv, ListInv, CountInv, TypeOK
<1>5. PlaceInv'
  BY <1>0, <1>1 DEF IInv, PlaceInv, TakenPCs, ExecutingPCs, TypeOK
<1>6. BusyInv'
  BY <1>0, <1>1 DEF IInv, BusyInv, TypeOK
<1>7. OccupiedInv' /\ (~QueueWhenAllBusy => OccupiedOnlyInv)'
  BY <1>0, <1>1 DEF IInv, OccupiedInv, OccupiedPCs, OccupiedOnlyInv, TypeOK
<1>8. LifeInv'
  BY <1>0, <1>1 DEF IInv, LifeInv, TypeOK
<1>9. QED
  BY <1>2, <1>3, <1>4, <1>5, <1>6, <1>7, <1>8 DEF IInv

(* join() unlocks m_busyMutex and returns: IInv is kept. *)
LEMMA JoinUnlockPreserves ==
  ASSUME IInv, NEW c \in Callers, JoinUnlock(c)
  PROVE  IInv'
<1> USE ThreadQueueAssumption
    DEF CallerStep, ThreadStep, CallerPCs, ThreadPCs, queueVars, semaphoreVars, callerVars,
        threadVars, otherVars, JoinUnlock
<1>0. TypeOK
  BY DEF IInv
<1>1. Out' = Out /\ Range(m_threads)' = Range(m_threads)
  BY DEF Out
<1>2. TypeOK'
  BY <1>0, <1>1 DEF IInv, TypeOK
<1>3. WriteInv' /\ RunnerLockInv'
  BY <1>0, <1>1 DEF IInv, WriteInv, WritePCs, RunnerLockInv, LockedPCs, TypeOK
<1>4. ListInv' /\ CountInv'
  BY <1>0, <1>1 DEF IInv, ListInv, CountInv, TypeOK
<1>5. PlaceInv'
  BY <1>0, <1>1 DEF IInv, PlaceInv, TakenPCs, ExecutingPCs, TypeOK
<1>6. BusyInv'
  BY <1>0, <1>1 DEF IInv, BusyInv, TypeOK
<1>7. OccupiedInv' /\ (~QueueWhenAllBusy => OccupiedOnlyInv)'
  BY <1>0, <1>1 DEF IInv, OccupiedInv, OccupiedPCs, OccupiedOnlyInv, TypeOK
<1>8. LifeInv'
  <2>1. Out = {} /\ \A t \in Threads : tpc[t] # "r_busy"
    BY DEF IInv, BusyInv
  <2>2. /\ cpc'[c] = (IF life = "closing" THEN "d_runners" ELSE "idle")
        /\ \A d \in Callers \ {c} : cpc'[d] = cpc[d]
        /\ cpc[c] = "j_held" /\ life' = life /\ tpc' = tpc
    BY <1>0 DEF TypeOK
  <2>3. QED
    BY <1>1, <2>1, <2>2 DEF IInv, LifeInv
<1>9. QED
  BY <1>2, <1>3, <1>4, <1>5, <1>6, <1>7, <1>8 DEF IInv

(* The destructor finds every m_mutex free: IInv is kept. *)
LEMMA DeletePreserves ==
  ASSUME IInv, NEW c \in Callers, Delete(c)
  PROVE  IInv'
<1> USE ThreadQueueAssumption
    DEF CallerStep, ThreadStep, CallerPCs, ThreadPCs, queueVars, semaphoreVars, callerVars,
        threadVars, otherVars, Delete
<1>0. TypeOK
  BY DEF IInv
<1>1. Out' = Out /\ Range(m_threads)' = Range(m_threads)
  BY DEF Out
<1>2. TypeOK'
  BY <1>0, <1>1 DEF IInv, TypeOK
<1>3. WriteInv' /\ RunnerLockInv'
  BY <1>0, <1>1 DEF IInv, WriteInv, WritePCs, RunnerLockInv, LockedPCs, TypeOK
<1>4. ListInv' /\ CountInv'
  BY <1>0, <1>1 DEF IInv, ListInv, CountInv, TypeOK
<1>5. PlaceInv'
  BY <1>0, <1>1 DEF IInv, PlaceInv, TakenPCs, ExecutingPCs, TypeOK
<1>6. BusyInv'
  BY <1>0, <1>1 DEF IInv, BusyInv, TypeOK
<1>7. OccupiedInv' /\ (~QueueWhenAllBusy => OccupiedOnlyInv)'
  BY <1>0, <1>1 DEF IInv, OccupiedInv, OccupiedPCs, OccupiedOnlyInv, TypeOK
<1>8. LifeInv'
  <2>1. /\ life = "closing" /\ Out = {}
        /\ \A d \in Callers : cpc[d] # "idle" => d = c
    BY <1>0 DEF IInv, LifeInv
  <2>2. \A t \in Threads : tpc[t] = "none"
    <3>1. SUFFICES ASSUME NEW t \in Threads, tpc[t] # "none"
                   PROVE  FALSE
      OBVIOUS
    <3>2. runs[t] \in registered /\ runs[t] \in Range(m_threads)
      BY <2>1, <3>1 DEF IInv, PlaceInv, Out
    <3>3. m_mutex[runs[t]] = Nobody /\ tpc[t] \notin ExecutingPCs
      BY <2>1, <3>2 DEF IInv, PlaceInv
    <3>4. tpc[t] \in LockedPCs
      BY <1>0, <3>1, <3>3 DEF TypeOK, ExecutingPCs, LockedPCs
    <3>5. QED
      BY <3>3, <3>4 DEF IInv, RunnerLockInv
  <2>3. \A d \in Callers : cpc'[d] = "idle"
    BY <1>0, <2>1 DEF TypeOK
  <2>4. QED
    BY <2>2, <2>3 DEF LifeInv
<1>9. QED
  BY <1>2, <1>3, <1>4, <1>5, <1>6, <1>7, <1>8 DEF IInv

(* A new thread locks its runner's m_mutex: IInv is kept. *)
LEMMA LockRunnerPreserves ==
  ASSUME IInv, NEW t \in Threads, LockRunner(t)
  PROVE  IInv'
<1> USE ThreadQueueAssumption
    DEF CallerStep, ThreadStep, CallerPCs, ThreadPCs, queueVars, semaphoreVars, callerVars,
        threadVars, otherVars, LockRunner
<1>0. TypeOK
  BY DEF IInv
<1>1. Out' = Out /\ Range(m_threads)' = Range(m_threads)
  BY DEF Out
<1>2. TypeOK'
  BY <1>0, <1>1 DEF IInv, TypeOK
<1>3. WriteInv'
  BY <1>0, <1>1 DEF IInv, WriteInv, WritePCs, TypeOK
<1>4. RunnerLockInv'
  <2>1. /\ runs[t] \in Runners /\ m_mutex[runs[t]] = Nobody /\ runs' = runs
        /\ m_mutex' = [m_mutex EXCEPT ![runs[t]] = t]
        /\ tpc[t] = "r_lock" /\ tpc' = [tpc EXCEPT ![t] = "run"]
    BY <1>0 DEF IInv, TypeOK, PlaceInv
  <2>2. \A u \in Threads \ {t} : tpc[u] \in LockedPCs => runs[u] # runs[t]
    BY <2>1 DEF IInv, PlaceInv, LockedPCs
  <2>3. \A u \in Threads : tpc'[u] \in LockedPCs => m_mutex'[runs'[u]] = u
    BY <1>0, <2>1, <2>2 DEF IInv, TypeOK, RunnerLockInv, LockedPCs
  <2>4. \A r \in Runners : m_mutex'[r] # Nobody =>
          tpc'[m_mutex'[r]] \in LockedPCs /\ runs'[m_mutex'[r]] = r
    BY <1>0, <2>1 DEF IInv, TypeOK, RunnerLockInv, LockedPCs
  <2>5. QED
    BY <2>3, <2>4 DEF RunnerLockInv
<1>5. ListInv' /\ CountInv'
  BY <1>0, <1>1 DEF IInv, ListInv, CountInv, TypeOK
<1>6. PlaceInv'
  BY <1>0, <1>1 DEF IInv, PlaceInv, TakenPCs, ExecutingPCs, TypeOK
<1>7. BusyInv'
  BY <1>0, <1>1 DEF IInv, BusyInv, TypeOK
<1>8. OccupiedInv' /\ (~QueueWhenAllBusy => OccupiedOnlyInv)'
  BY <1>0, <1>1 DEF IInv, OccupiedInv, OccupiedPCs, OccupiedOnlyInv, TypeOK
<1>9. LifeInv'
  BY <1>0, <1>1 DEF IInv, LifeInv, TypeOK
<1>10. QED
  BY <1>2, <1>3, <1>4, <1>5, <1>6, <1>7, <1>8, <1>9 DEF IInv

(* A thread puts its runner back into m_threads: IInv is kept. *)
LEMMA ReregisterPreserves ==
  ASSUME IInv, NEW t \in Threads, Reregister(t)
  PROVE  IInv'
<1> DEFINE r == runs[t]
<1> USE DEF ThreadStep, CallerPCs, ThreadPCs, callerVars, otherVars
<1>0. TypeOK
  BY DEF IInv
<1>1. /\ tpc[t] = "r_write" /\ tpc' = [tpc EXCEPT ![t] = "r_busy"]
      /\ m_writeMutex = Nobody /\ m_writeMutex' = t
      /\ m_threads' = Append(m_threads, r)
      /\ m_occupiedMutex' = (m_occupiedMutex /\ m_threads # <<>>)
      /\ UNCHANGED <<m_iSize, registered, m_busyMutex, callerVars, runs, m_mutex, otherVars>>
  BY DEF Reregister
<1>2. r \in Out /\ r \in Runners /\ r \notin Range(m_threads)
  BY <1>0, <1>1 DEF IInv, PlaceInv, ExecutingPCs, Out, TypeOK
<1>3. /\ m_threads' \in Seq(Runners) /\ m_threads' # <<>>
      /\ Len(m_threads') = Len(m_threads) + 1
      /\ Range(m_threads') = Range(m_threads) \cup {r} /\ IsInjective(m_threads')
  BY <1>0, <1>1, <1>2, AppendFacts DEF IInv, TypeOK, ListInv
<1>4. r \in registered /\ Out' = Out \ {r}
  BY <1>1, <1>2, <1>3 DEF Out
<1> HIDE DEF r
<1>5. /\ \A u \in Threads \ {t} : tpc'[u] = tpc[u]
      /\ tpc'[t] = "r_busy" /\ runs[t] = r
      /\ \A c \in Callers : cpc[c] \notin WritePCs
      /\ \A u \in Threads : tpc[u] \notin WritePCs
  BY <1>0, <1>1, ThreadQueueAssumption DEF IInv, TypeOK, WriteInv, r
<1>6. TypeOK'
  BY <1>0, <1>1, <1>3 DEF TypeOK
<1>7. WriteInv' /\ RunnerLockInv'
  <2>1. WriteInv'
    BY <1>1, <1>5, ThreadQueueAssumption DEF IInv, WriteInv, WritePCs
  <2>2. RunnerLockInv'
    BY <1>0, <1>1, <1>5 DEF IInv, TypeOK, RunnerLockInv, LockedPCs
  <2>3. QED
    BY <2>1, <2>2
<1>8. ListInv'
  BY <1>1, <1>3, <1>4 DEF IInv, ListInv
<1>9. CountInv'
  <2>1. IsFiniteSet(Out) /\ Cardinality(Out \ {r}) = Cardinality(Out) - 1
    BY <1>0, <1>2, OutIsEmpty, FS_RemoveElement DEF IInv
  <2>2. Cardinality(Out) \in Nat /\ Len(m_threads) \in Nat
    BY <1>0, <2>1, FS_CardinalityType DEF TypeOK
  <2>3. QED
    BY <1>1, <1>3, <1>4, <2>1, <2>2 DEF IInv, CountInv
<1>10. PlaceInv'
  BY <1>1, <1>2, <1>4, <1>5 DEF IInv, PlaceInv, TakenPCs, ExecutingPCs, WritePCs
<1>11. BusyInv'
  BY <1>1, <1>2, <1>4, <1>5 DEF IInv, BusyInv
<1>12. OccupiedInv' /\ (~QueueWhenAllBusy => OccupiedOnlyInv)'
  <2>1. cpc' = cpc /\ registered # {}
    BY <1>1, <1>4
  <2>2. m_threads = <<>> => \A c \in Callers : cpc[c] \notin OccupiedPCs
    BY <2>1 DEF IInv, OccupiedInv
  <2>3. QED
    BY <1>1, <1>3, <2>1, <2>2 DEF IInv, OccupiedInv, OccupiedOnlyInv, OccupiedPCs
<1>13. LifeInv'
  BY <1>1, <1>2, <1>4, <1>5 DEF IInv, LifeInv
<1>14. QED
  BY <1>6, <1>7, <1>8, <1>9, <1>10, <1>11, <1>12, <1>13 DEF IInv

(* The thread of the last runner to return unlocks m_busyMutex: IInv is kept. *)
LEMMA SignalIdlePreserves ==
  ASSUME IInv, NEW t \in Threads, SignalIdle(t)
  PROVE  IInv'
<1> USE ThreadQueueAssumption
    DEF CallerStep, ThreadStep, CallerPCs, ThreadPCs, queueVars, semaphoreVars, callerVars,
        threadVars, otherVars, SignalIdle
<1>0. TypeOK
  BY DEF IInv
<1>1. Out' = Out /\ Range(m_threads)' = Range(m_threads)
  BY DEF Out
<1>2. TypeOK'
  BY <1>0, <1>1 DEF IInv, TypeOK
<1>3. WriteInv' /\ RunnerLockInv'
  BY <1>0, <1>1 DEF IInv, WriteInv, WritePCs, RunnerLockInv, LockedPCs, TypeOK
<1>4. ListInv' /\ CountInv'
  BY <1>0, <1>1 DEF IInv, ListInv, CountInv, TypeOK
<1>5. PlaceInv'
  BY <1>0, <1>1 DEF IInv, PlaceInv, TakenPCs, ExecutingPCs, TypeOK
<1>6. BusyInv'
  <2>1. m_iSize = Len(m_threads) => Out = {}
    BY <1>0, OutIsEmpty DEF IInv
  <2>2. /\ \A d \in Callers : cpc[d] \notin {"s_pop", "j_held"}
        /\ \A u \in Threads \ {t} : tpc[u] # "r_busy"
    BY DEF IInv, WriteInv, WritePCs, BusyInv
  <2>3. cpc' = cpc /\ \A u \in Threads : tpc'[u] # "r_busy"
    BY <1>0, <2>2 DEF TypeOK
  <2>4. QED
    BY <1>1, <2>1, <2>2, <2>3 DEF IInv, BusyInv
<1>7. OccupiedInv' /\ (~QueueWhenAllBusy => OccupiedOnlyInv)'
  BY <1>0, <1>1 DEF IInv, OccupiedInv, OccupiedPCs, OccupiedOnlyInv, TypeOK
<1>8. LifeInv'
  BY <1>0, <1>1 DEF IInv, LifeInv, TypeOK
<1>9. QED
  BY <1>2, <1>3, <1>4, <1>5, <1>6, <1>7, <1>8 DEF IInv

(* The other steps of a thread keep IInv. *)
LEMMA ThreadPreserves ==
  ASSUME IInv, NEW t \in Threads, RunnableReturns(t) \/ LeaveReregister(t) \/ UnlockRunner(t)
  PROVE  IInv'
<1> USE ThreadQueueAssumption
    DEF CallerStep, ThreadStep, CallerPCs, ThreadPCs, queueVars, semaphoreVars, callerVars,
        threadVars, otherVars, RunnableReturns, LeaveReregister, UnlockRunner
<1>0. TypeOK
  BY DEF IInv
<1>1. Out' = Out /\ Range(m_threads)' = Range(m_threads)
  BY DEF Out
<1>2. TypeOK'
  BY <1>0, <1>1 DEF IInv, TypeOK
<1>3. WriteInv' /\ RunnerLockInv'
  <2>1. WriteInv'
    BY <1>0 DEF IInv, WriteInv, WritePCs, TypeOK
  <2>2. CASE RunnableReturns(t) \/ LeaveReregister(t)
    <3>1. RunnerLockInv'
      BY <1>0, <2>2 DEF IInv, RunnerLockInv, LockedPCs, TypeOK
    <3>2. QED
      BY <2>1, <3>1
  <2>3. CASE UnlockRunner(t)
    <3>1. runs[t] \in Runners /\ \A u \in Threads \ {t} : tpc[u] # "none" => runs[u] # runs[t]
      BY <1>0, <2>3 DEF IInv, TypeOK, PlaceInv
    <3>2. \A u \in Threads \ {t} : tpc'[u] = tpc[u] /\ runs'[u] = runs[u]
      BY <1>0, <2>3 DEF TypeOK
    <3>3. /\ tpc'[t] = "none" /\ m_mutex' = [m_mutex EXCEPT ![runs[t]] = Nobody]
      BY <1>0, <2>3 DEF TypeOK
    <3>4. \A u \in Threads : tpc'[u] \in LockedPCs => m_mutex'[runs'[u]] = u
      BY <1>0, <3>1, <3>2, <3>3 DEF IInv, TypeOK, RunnerLockInv, LockedPCs
    <3>5. \A r \in Runners : m_mutex'[r] # Nobody =>
            tpc'[m_mutex'[r]] \in LockedPCs /\ runs'[m_mutex'[r]] = r
      <4>1. SUFFICES ASSUME NEW r \in Runners, m_mutex'[r] # Nobody
                     PROVE  tpc'[m_mutex'[r]] \in LockedPCs /\ runs'[m_mutex'[r]] = r
        OBVIOUS
      <4>2. r # runs[t] /\ m_mutex'[r] = m_mutex[r]
        BY <1>0, <3>1, <3>3, <4>1 DEF TypeOK
      <4>3. m_mutex[r] \in Threads \ {t}
        BY <1>0, <4>1, <4>2 DEF IInv, TypeOK, RunnerLockInv
      <4>4. QED
        BY <3>2, <4>1, <4>2, <4>3 DEF IInv, RunnerLockInv
    <3>6. QED
      BY <2>1, <3>4, <3>5 DEF RunnerLockInv
  <2>4. QED
    BY <2>2, <2>3
<1>4. ListInv' /\ CountInv'
  BY <1>0, <1>1 DEF IInv, ListInv, CountInv, TypeOK
<1>5. PlaceInv'
  BY <1>0, <1>1 DEF IInv, PlaceInv, TakenPCs, ExecutingPCs, TypeOK
<1>6. BusyInv'
  BY <1>0, <1>1 DEF IInv, BusyInv, TypeOK
<1>7. OccupiedInv' /\ (~QueueWhenAllBusy => OccupiedOnlyInv)'
  BY <1>0, <1>1 DEF IInv, OccupiedInv, OccupiedPCs, OccupiedOnlyInv, TypeOK
<1>8. LifeInv'
  BY <1>0, <1>1 DEF IInv, LifeInv, TypeOK
<1>9. QED
  BY <1>2, <1>3, <1>4, <1>5, <1>6, <1>7, <1>8 DEF IInv

(* queue() adds a runner: IInv is kept. *)
LEMMA QueuePreserves ==
  ASSUME IInv, NEW c \in Callers, NEW r \in Runners, Queue(c, r)
  PROVE  IInv'
<1> USE DEF CallerPCs, ThreadPCs, callerVars, threadVars, semaphoreVars, otherVars
<1>0. TypeOK
  BY DEF IInv
<1>1. /\ life = "open" /\ r \notin registered /\ (QueueWhenAllBusy \/ SafeToQueue)
      /\ m_iSize' = m_iSize + 1
      /\ m_threads' = Append(m_threads, r) /\ registered' = registered \cup {r}
      /\ UNCHANGED <<m_writeMutex, semaphoreVars, callerVars, threadVars, otherVars>>
  BY DEF Queue
<1>2. /\ m_threads' \in Seq(Runners) /\ m_threads' # <<>>
      /\ Len(m_threads') = Len(m_threads) + 1
      /\ Range(m_threads') = Range(m_threads) \cup {r} /\ IsInjective(m_threads')
  BY <1>0, <1>1, AppendFacts DEF IInv, TypeOK, ListInv
<1>3. Out' = Out
  BY <1>1, <1>2 DEF Out, IInv, ListInv
<1>4. TypeOK'
  BY <1>0, <1>1, <1>2 DEF TypeOK
<1>5. WriteInv' /\ RunnerLockInv'
  BY <1>1 DEF IInv, WriteInv, RunnerLockInv
<1>6. ListInv'
  BY <1>1, <1>2 DEF IInv, ListInv
<1>7. CountInv'
  <2>1. IsFiniteSet(registered')
    BY <1>1, FS_AddElement DEF IInv, CountInv
  <2>2. Cardinality(Out) \in Nat /\ Len(m_threads) \in Nat
    BY <1>0, OutIsEmpty, FS_CardinalityType DEF IInv, TypeOK
  <2>3. QED
    BY <1>1, <1>2, <1>3, <2>1, <2>2 DEF IInv, CountInv
<1>8. PlaceInv'
  BY <1>1, <1>3 DEF IInv, PlaceInv
<1>9. BusyInv'
  BY <1>1, <1>3 DEF IInv, BusyInv
<1>10. OccupiedInv' /\ (~QueueWhenAllBusy => OccupiedOnlyInv)'
  BY <1>1, <1>2 DEF IInv, OccupiedInv, OccupiedOnlyInv, SafeToQueue
<1>11. LifeInv'
  BY <1>1, <1>3 DEF IInv, LifeInv
<1>12. QED
  BY <1>4, <1>5, <1>6, <1>7, <1>8, <1>9, <1>10, <1>11 DEF IInv

-----------------------------------------------------------------------------
(* IInv is an invariant of the queue. *)
THEOREM Invariance == Spec => []IInv
<1>1. Init => IInv
  <2> SUFFICES ASSUME Init
               PROVE  IInv
    OBVIOUS
  <2> USE DEF Init
  <2>1. Range(m_threads) = {} /\ IsInjective(m_threads) /\ Out = {}
    BY DEF Range, IsInjective, Out
  <2>2. TypeOK
    <3>1. m_threads \in Seq(Runners)
      BY EmptySeq
    <3>2. QED
      BY <3>1 DEF TypeOK, CallerPCs, ThreadPCs
  <2>3. WriteInv /\ RunnerLockInv
    BY ThreadQueueAssumption DEF WriteInv, WritePCs, RunnerLockInv, LockedPCs
  <2>4. ListInv /\ CountInv
    BY <2>1, FS_EmptySet DEF ListInv, CountInv
  <2>5. PlaceInv /\ BusyInv /\ OccupiedInv /\ OccupiedOnlyInv /\ LifeInv
    BY <2>1 DEF PlaceInv, TakenPCs, ExecutingPCs, BusyInv, OccupiedInv, OccupiedOnlyInv,
                OccupiedPCs, LifeInv
  <2>6. QED
    BY <2>2, <2>3, <2>4, <2>5 DEF IInv
<1>2. IInv /\ [Next]_vars => IInv'
  <2> SUFFICES ASSUME IInv, [Next]_vars
               PROVE  IInv'
    OBVIOUS
  <2>1. ASSUME NEW c \in Callers, CallerNext(c)
        PROVE  IInv'
    BY <2>1, AcquirePreserves, LockWritePreserves, LockBusyPreserves, PopPreserves,
       AwaitRunnerPreserves, CreatePreserves, ThrowCreatePreserves, JoinUnlockPreserves,
       DeletePreserves DEF CallerNext
  <2>2. ASSUME NEW c \in Callers, ClientNext(c)
        PROVE  IInv'
    BY <2>2, ClientCallPreserves, QueuePreserves DEF ClientNext
  <2>3. ASSUME NEW t \in Threads, ThreadNext(t)
        PROVE  IInv'
    BY <2>3, LockRunnerPreserves, ThreadPreserves, ReregisterPreserves, SignalIdlePreserves
       DEF ThreadNext
  <2>4. CASE UNCHANGED vars
    BY <2>4 DEF vars, queueVars, semaphoreVars, callerVars, threadVars, otherVars,
                IInv, TypeOK, WriteInv, RunnerLockInv, ListInv, PlaceInv, CountInv, Out,
                BusyInv, OccupiedInv, OccupiedOnlyInv, LifeInv
  <2>5. QED
    BY <2>1, <2>2, <2>3, <2>4 DEF Next, Terminated
<1>3. QED
  BY <1>1, <1>2, PTL DEF Spec

(* Every variable of the queue keeps its type; in particular no start()     *)
(* takes a runner from an empty list.                                       *)
THEOREM TypeCorrect == Spec => []TypeOK
<1>1. IInv => TypeOK
  BY DEF IInv
<1>2. QED
  BY <1>1, Invariance, PTL

(* A runner has at most one live thread, so its m_pthread and the state of  *)
(* its runnable are used by one thread at a time.                           *)
THEOREM OneThreadPerRunner == Spec => []SingleThreadPerRunner
<1>1. IInv => SingleThreadPerRunner
  BY DEF IInv, PlaceInv, SingleThreadPerRunner
<1>2. QED
  BY <1>1, Invariance, PTL

(* What a start() or a thread does with its runner loses it only when       *)
(* pthread_create fails.                                                    *)
LEMMA StepsKeepRunners ==
  ASSUME IInv, [Next]_vars
  PROVE  \/ Lost' \subseteq Lost /\ refusals' = refusals
         \/ \E r \in Out : Lost' \subseteq Lost \cup {r} /\ refusals' = refusals + 1
<1> USE DEF CallerStep, ThreadStep, queueVars, callerVars, threadVars, otherVars, ExecutingPCs
<1>0. TypeOK
  BY DEF IInv
<1>1. ASSUME NEW c \in Callers, Pop(c)
      PROVE  Lost' \subseteq Lost /\ refusals' = refusals
  <2>0. PICK h : h = Head(m_threads)
    OBVIOUS
  <2>1. m_threads # <<>>
    BY <1>1 DEF Pop, IInv, OccupiedInv
  <2>2. Range(Tail(m_threads)) = Range(m_threads) \ {h}
    BY <1>0, <2>0, <2>1, TailFacts DEF IInv, TypeOK, ListInv
  <2>3. Out' \subseteq Out \cup {h}
    BY <1>1, <2>2 DEF Pop, Out
  <2>4. /\ cpc[c] = "s_pop" /\ cpc' = [cpc EXCEPT ![c] = "s_runner"]
        /\ arg' = [arg EXCEPT ![c] = h] /\ UNCHANGED <<tpc, runs, refusals>>
    BY <1>1, <2>0 DEF Pop
  <2>5. c \in Holders(h)'
    BY <1>0, <2>4 DEF Holders, TypeOK
  <2>6. \A r : Holders(r) \subseteq Holders(r)'
    BY <1>0, <2>4 DEF Holders, TypeOK
  <2>7. QED
    BY <2>3, <2>4, <2>5, <2>6 DEF Lost
<1>2. ASSUME NEW c \in Callers, NEW t \in Threads, Create(c, t)
      PROVE  Lost' \subseteq Lost /\ refusals' = refusals
  <2>0. PICK h : h = arg[c]
    OBVIOUS
  <2>1. /\ cpc[c] = "s_create" /\ cpc' = [cpc EXCEPT ![c] = "idle"]
        /\ tpc[t] = "none" /\ tpc' = [tpc EXCEPT ![t] = "r_lock"]
        /\ runs' = [runs EXCEPT ![t] = h] /\ arg' = [arg EXCEPT ![c] = Nobody]
        /\ UNCHANGED <<m_threads, registered, refusals>>
    BY <1>2, <2>0 DEF Create
  <2>2. t \in Holders(h)'
    BY <1>0, <2>1 DEF Holders, TypeOK
  <2>3. ASSUME NEW r, r # h
        PROVE  Holders(r) \subseteq Holders(r)'
    BY <1>0, <2>0, <2>1, <2>3 DEF Holders, TypeOK
  <2>4. QED
    BY <2>1, <2>2, <2>3 DEF Lost, Out
<1>3. ASSUME NEW c \in Callers, ThrowCreate(c)
      PROVE  \E r \in Out : Lost' \subseteq Lost \cup {r} /\ refusals' = refusals + 1
  <2>1. /\ cpc[c] = "s_create" /\ cpc' = [cpc EXCEPT ![c] = "idle"]
        /\ arg' = [arg EXCEPT ![c] = Nobody]
        /\ UNCHANGED <<m_threads, registered, tpc, runs>> /\ refusals' = refusals + 1
    BY <1>3 DEF ThrowCreate
  <2>2. arg[c] \in Out
    BY <2>1 DEF IInv, PlaceInv, TakenPCs
  <2>3. ASSUME NEW r, r # arg[c]
        PROVE  Holders(r) \subseteq Holders(r)'
    BY <1>0, <2>1, <2>3 DEF Holders, TypeOK
  <2>4. QED
    BY <2>1, <2>2, <2>3 DEF Lost, Out
<1>4. ASSUME NEW t \in Threads, Reregister(t)
      PROVE  Lost' \subseteq Lost /\ refusals' = refusals
  <2>1. /\ tpc[t] = "r_write" /\ tpc' = [tpc EXCEPT ![t] = "r_busy"]
        /\ m_threads' = Append(m_threads, runs[t])
        /\ UNCHANGED <<registered, cpc, arg, runs, refusals>>
    BY <1>4 DEF Reregister
  <2>2. runs[t] \in Runners /\ runs[t] \notin Range(m_threads)
    BY <1>0, <2>1 DEF IInv, TypeOK, PlaceInv, Out
  <2>3. Out' = Out \ {runs[t]}
    BY <1>0, <2>1, <2>2, AppendFacts DEF IInv, TypeOK, ListInv, Out
  <2>4. ASSUME NEW r, r # runs[t]
        PROVE  Holders(r) \subseteq Holders(r)'
    BY <1>0, <2>1, <2>4 DEF Holders, TypeOK
  <2>5. QED
    BY <2>1, <2>3, <2>4 DEF Lost
<1>5. ASSUME NEW c \in Callers, NEW r \in Runners, Queue(c, r)
      PROVE  Lost' \subseteq Lost /\ refusals' = refusals
  <2>1. /\ m_threads' = Append(m_threads, r) /\ registered' = registered \cup {r}
        /\ r \notin registered /\ UNCHANGED <<cpc, arg, tpc, runs, refusals>>
    BY <1>5 DEF Queue
  <2>2. Out' \subseteq Out
    BY <1>0, <2>1, AppendFacts DEF IInv, TypeOK, ListInv, Out
  <2>3. QED
    BY <2>1, <2>2 DEF Lost, Holders
<1>6. ASSUME NEW c \in Callers,
             \/ LockOccupied(c) \/ ThrowEmpty(c) \/ LockWrite(c) \/ LockBusy(c) \/ AwaitRunner(c)
             \/ JoinLock(c) \/ JoinUnlock(c) \/ Delete(c)
             \/ CallStart(c) \/ CallJoin(c) \/ CallLastJoin(c)
      PROVE  Lost' \subseteq Lost /\ refusals' = refusals
  <2>1. /\ UNCHANGED <<m_threads, registered, arg, tpc, runs, refusals>>
        /\ \E to \in CallerPCs : cpc' = [cpc EXCEPT ![c] = to]
        /\ cpc'[c] \in {"s_runner", "s_create"} <=> cpc[c] \in {"s_runner", "s_create"}
    BY <1>0, <1>6 DEF LockOccupied, ThrowEmpty, LockWrite, LockBusy, AwaitRunner, JoinLock,
         JoinUnlock, Delete, CallStart, CallJoin, CallLastJoin, TypeOK, CallerPCs
  <2>2. \A d \in Callers :
          cpc'[d] \in {"s_runner", "s_create"} <=> cpc[d] \in {"s_runner", "s_create"}
    BY <1>0, <2>1 DEF TypeOK
  <2>3. QED
    BY <2>1, <2>2 DEF Lost, Holders, Out
<1>7. ASSUME NEW t \in Threads,
             \/ LockRunner(t) \/ RunnableReturns(t) \/ SignalIdle(t) \/ LeaveReregister(t)
             \/ UnlockRunner(t)
      PROVE  Lost' \subseteq Lost /\ refusals' = refusals
  <2>1. /\ UNCHANGED <<m_threads, registered, cpc, arg, refusals>>
        /\ \A u \in Threads : tpc[u] \in ExecutingPCs =>
             tpc'[u] \in ExecutingPCs /\ runs'[u] = runs[u]
    BY <1>0, <1>7 DEF LockRunner, RunnableReturns, SignalIdle, LeaveReregister, UnlockRunner,
                     TypeOK
  <2>2. \A r : Holders(r) \subseteq Holders(r)'
    BY <2>1 DEF Holders
  <2>3. QED
    BY <2>1, <2>2 DEF Lost, Out
<1>8. CASE UNCHANGED vars
  BY <1>8 DEF vars, Lost, Holders, Out
<1>9. QED
  BY <1>1, <1>2, <1>3, <1>4, <1>5, <1>6, <1>7, <1>8
     DEF Next, CallerNext, ClientNext, ThreadNext, Terminated

(* No runner is lost but by a failed pthread_create, and by that one only.  *)
LEMMA OnlyRefusalsLoseRunners == Spec => []OnlyRefusalsLose
<1>1. Init => OnlyRefusalsLose
  BY FS_EmptySet DEF Init, OnlyRefusalsLose, Lost, Out
<1>2. IInv /\ OnlyRefusalsLose /\ [Next]_vars => OnlyRefusalsLose'
  <2> SUFFICES ASSUME IInv, OnlyRefusalsLose, [Next]_vars
               PROVE  OnlyRefusalsLose'
    OBVIOUS
  <2>1. IsFiniteSet(Lost) /\ Cardinality(Lost) \in Nat /\ refusals \in Nat
    BY OutIsEmpty, FS_Subset, FS_CardinalityType DEF IInv, TypeOK, Lost
  <2>2. CASE Lost' \subseteq Lost /\ refusals' = refusals
    <3>1. Cardinality(Lost') \in Nat /\ Cardinality(Lost') <= Cardinality(Lost)
      BY <2>1, <2>2, FS_Subset, FS_CardinalityType
    <3>2. QED
      BY <2>1, <2>2, <3>1 DEF OnlyRefusalsLose
  <2>3. ASSUME NEW r, Lost' \subseteq Lost \cup {r}, refusals' = refusals + 1
        PROVE  OnlyRefusalsLose'
    <3>1. /\ IsFiniteSet(Lost \cup {r}) /\ Cardinality(Lost \cup {r}) \in Nat
          /\ Cardinality(Lost \cup {r}) <= Cardinality(Lost) + 1
      BY <2>1, FS_AddElement, FS_CardinalityType
    <3>2. Cardinality(Lost') \in Nat /\ Cardinality(Lost') <= Cardinality(Lost \cup {r})
      BY <2>3, <3>1, FS_Subset, FS_CardinalityType
    <3>3. QED
      BY <2>1, <2>3, <3>1, <3>2 DEF OnlyRefusalsLose
  <2>4. QED
    BY <2>2, <2>3, StepsKeepRunners
<1>3. QED
  BY <1>1, <1>2, Invariance, PTL DEF Spec

(* No runner is queued twice, handed to two callers or executed while it is *)
(* queued, and none is lost but to a start() that failed.                   *)
THEOREM OnePlacePerRunner == Spec => []RunnerInOnePlace
<1>1. IInv /\ OnlyRefusalsLose => RunnerInOnePlace
  <2> SUFFICES ASSUME IInv, OnlyRefusalsLose
               PROVE  RunnerInOnePlace
    OBVIOUS
  <2>1. \A r \in Range(m_threads) : Holders(r) = {}
    BY DEF IInv, PlaceInv, TakenPCs, Out, Holders
  <2>2. \A c, d \in Callers : cpc[c] \in TakenPCs /\ cpc[d] \in TakenPCs => c = d
    BY DEF IInv, WriteInv, WritePCs, TakenPCs
  <2>3. \A r \in Runners : \A p, q \in Holders(r) : p = q
    BY <2>2 DEF IInv, PlaceInv, TakenPCs, ExecutingPCs, Holders
  <2>4. QED
    BY <2>1, <2>3 DEF RunnerInOnePlace, IInv, ListInv
<1>2. QED
  BY <1>1, Invariance, OnlyRefusalsLoseRunners, PTL

(* No mutex of the queue is unlocked while it is not locked. *)
THEOREM NoFreeUnlock == Spec => []UnlocksLocked
<1>1. IInv => UnlocksLocked
  <2> SUFFICES ASSUME IInv
               PROVE  UnlocksLocked
    OBVIOUS
  <2>1. ASSUME NEW t \in Threads, tpc[t] = "r_write"
        PROVE  registered # {}
    BY <2>1 DEF IInv, PlaceInv
  <2>2. QED
    BY <2>1 DEF IInv, UnlocksLocked, WriteInv, RunnerLockInv, BusyInv, OccupiedInv
<1>2. QED
  BY <1>1, Invariance, PTL

(* start() finds a runner whenever one was ever queued. *)
THEOREM StartNeverThrowsEmpty == Spec => []StartFindsRunner
<1>1. IInv => StartFindsRunner
  BY OutIsEmpty DEF IInv, OccupiedInv, StartFindsRunner
<1>2. QED
  BY <1>1, Invariance, PTL

(* join() passes only when every runner is idle. *)
THEOREM JoinIsSound == Spec => []JoinSeesAllIdle
<1>1. IInv => JoinSeesAllIdle
  BY DEF IInv, BusyInv, JoinSeesAllIdle
<1>2. QED
  BY <1>1, Invariance, PTL

(* If queue() is never called while all runners are busy, an idle runner is *)
(* never locked away from start().                                           *)
THEOREM IdleRunnersAvailable ==
  ASSUME ~QueueWhenAllBusy
  PROVE  Spec => []IdleRunnerAvailable
<1>1. IInv => IdleRunnerAvailable
  BY DEF IInv, OccupiedOnlyInv, IdleRunnerAvailable
<1>2. QED
  BY <1>1, Invariance, PTL

(* Deleting a queue after join() leaves no thread behind that uses it. *)
THEOREM DeleteIsSafe == Spec => []NoUseAfterDelete
<1>1. IInv => NoUseAfterDelete
  BY DEF IInv, LifeInv, NoUseAfterDelete
<1>2. QED
  BY <1>1, Invariance, PTL

-----------------------------------------------------------------------------
(* The refinement of WorkerPool.  Calls is the abstract state of callers. *)
Calls == [c \in Callers |-> PoolCall(cpc[c])]

(* What a caller does in the queue is one of the calls of the pool. *)
LEMMA PoolCallValues ==
  /\ PoolCall("idle") = "none" /\ PoolCall("d_runners") = "none"
  /\ PoolCall("s_occupied") = "start" /\ PoolCall("s_write") = "start"
  /\ PoolCall("s_busy") = "start" /\ PoolCall("s_pop") = "start"
  /\ PoolCall("s_runner") = "started" /\ PoolCall("s_create") = "started"
  /\ PoolCall("j_busy") = "join" /\ PoolCall("j_held") = "joined"
  BY DEF PoolCall

(* A step of one caller is a step of its call in the pool. *)
LEMMA CallsStep ==
  ASSUME TypeOK, NEW c \in Callers, NEW from, NEW to, CallerStep(c, from, to)
  PROVE  Calls[c] = PoolCall(from) /\ Calls' = [Calls EXCEPT ![c] = PoolCall(to)]
  BY DEF Calls, TypeOK, CallerStep

(* The steps that no client of the pool can see, those that it sees as a    *)
(* call, and the return from a call.                                        *)
LEMMA HiddenSteps ==
  ASSUME IInv, NEW c \in Callers,
         \/ LockOccupied(c) \/ LockWrite(c) \/ LockBusy(c) \/ AwaitRunner(c) \/ Delete(c)
  PROVE  UNCHANGED <<m_threads, Out, Calls>>
<1> USE DEF LockOccupied, LockWrite, LockBusy, AwaitRunner, Delete
<1>1. TypeOK /\ UNCHANGED <<m_threads, registered>>
  BY DEF IInv, queueVars
<1>2. \/ CallerStep(c, "s_occupied", "s_write") \/ CallerStep(c, "s_write", "s_busy")
      \/ CallerStep(c, "s_write", "s_pop") \/ CallerStep(c, "s_busy", "s_pop")
      \/ CallerStep(c, "s_runner", "s_create") \/ CallerStep(c, "d_runners", "idle")
  OBVIOUS
<1>3. Calls' = [Calls EXCEPT ![c] = Calls[c]]
  BY <1>1, <1>2, CallsStep, PoolCallValues
<1>4. QED
  BY <1>1, <1>3 DEF Out, Calls

(* The callers' steps that the pool can see are steps of the pool. *)
LEMMA VisibleCallerSteps ==
  ASSUME IInv, NEW c \in Callers, CallerNext(c) \/ ClientNext(c)
  PROVE  [Pool!Next]_<<m_threads, Out, Calls>>
<1> USE DEF queueVars
<1>0. TypeOK
  BY DEF IInv
<1> USE PoolCallValues, CallsStep, <1>0
<1>1. CASE CallStart(c)
  <2>1. Calls[c] = "none" /\ Calls' = [Calls EXCEPT ![c] = "start"]
    BY <1>1 DEF CallStart
  <2>2. UNCHANGED <<m_threads, Out>>
    BY <1>1 DEF CallStart, Out
  <2>3. Pool!CallStart(c)
    BY <2>1, <2>2 DEF Pool!CallStart, Pool!CallStep, Calls
  <2>4. QED
    BY <2>3 DEF Pool!Next
<1>2. CASE CallJoin(c) \/ CallLastJoin(c)
  <2>1. Calls[c] = "none" /\ Calls' = [Calls EXCEPT ![c] = "join"]
    BY <1>2 DEF CallJoin, CallLastJoin
  <2>2. UNCHANGED <<m_threads, Out>>
    BY <1>2 DEF CallJoin, CallLastJoin, Out
  <2>3. Pool!CallJoin(c)
    BY <2>1, <2>2 DEF Pool!CallJoin, Pool!CallStep, Calls
  <2>4. QED
    BY <2>3 DEF Pool!Next
<1>3. CASE ThrowEmpty(c)
  <2>1. m_threads = <<>> /\ Out = {}
    BY <1>3 DEF ThrowEmpty, CallerStep, IInv, OccupiedInv, OccupiedPCs, Out
  <2>2. Calls[c] = "start" /\ Calls' = [Calls EXCEPT ![c] = "none"]
    BY <1>3 DEF ThrowEmpty
  <2>3. UNCHANGED <<m_threads, Out>>
    BY <1>3 DEF ThrowEmpty, Out
  <2>4. Pool!Refuse(c)
    BY <2>1, <2>2, <2>3 DEF Pool!Refuse, Pool!CallStep, Calls
  <2>5. QED
    BY <2>4 DEF Pool!Next
<1>4. CASE Pop(c)
  <2>1. m_threads # <<>>
    BY <1>4 DEF Pop, CallerStep, IInv, OccupiedInv
  <2>2. /\ Head(m_threads) \in registered /\ Head(m_threads) \in Range(m_threads)
        /\ Range(Tail(m_threads)) = Range(m_threads) \ {Head(m_threads)}
    BY <2>1, TailFacts DEF IInv, TypeOK, ListInv
  <2>3. Out' = Out \cup {Head(m_threads)}
    BY <1>4, <2>2 DEF Pop, Out
  <2>4. Calls[c] = "start" /\ Calls' = [Calls EXCEPT ![c] = "started"]
    BY <1>4 DEF Pop
  <2>5. m_threads' = Tail(m_threads)
    BY <1>4 DEF Pop
  <2>6. Pool!Dispatch(c)
    BY <2>1, <2>3, <2>4, <2>5 DEF Pool!Dispatch, Pool!CallStep, Calls
  <2>7. QED
    BY <2>6 DEF Pool!Next
<1>5. CASE ThrowCreate(c) \/ \E t \in Threads : Create(c, t)
  <2>1. Calls[c] = "started" /\ Calls' = [Calls EXCEPT ![c] = "none"]
    BY <1>5 DEF ThrowCreate, Create
  <2>2. UNCHANGED <<m_threads, Out>>
    BY <1>5 DEF ThrowCreate, Create, Out
  <2>3. Pool!Return(c)
    BY <2>1, <2>2 DEF Pool!Return, Calls
  <2>4. QED
    BY <2>3 DEF Pool!Next
<1>6. CASE JoinLock(c)
  <2>1. Out = {}
    BY <1>6 DEF JoinLock, CallerStep, IInv, BusyInv
  <2>2. Calls[c] = "join" /\ Calls' = [Calls EXCEPT ![c] = "joined"]
    BY <1>6 DEF JoinLock
  <2>3. UNCHANGED <<m_threads, Out>>
    BY <1>6 DEF JoinLock, Out
  <2>4. Pool!Join(c)
    BY <2>1, <2>2, <2>3 DEF Pool!Join, Pool!CallStep, Calls
  <2>5. QED
    BY <2>4 DEF Pool!Next
<1>7. CASE JoinUnlock(c)
  <2>1. Calls[c] = "joined" /\ Calls' = [Calls EXCEPT ![c] = "none"]
    <3>1. CallerStep(c, "j_held", "idle") \/ CallerStep(c, "j_held", "d_runners")
      BY <1>7 DEF JoinUnlock
    <3>2. QED
      BY <3>1
  <2>2. UNCHANGED <<m_threads, Out>>
    BY <1>7 DEF JoinUnlock, Out
  <2>3. Pool!Return(c)
    BY <2>1, <2>2 DEF Pool!Return, Calls
  <2>4. QED
    BY <2>3 DEF Pool!Next
<1>8. ASSUME NEW r \in Runners, Queue(c, r)
      PROVE  Pool!Next
  <2>1. r \notin Range(m_threads) \cup Out
    BY <1>8 DEF Queue, IInv, ListInv, Out
  <2>2. Range(m_threads') = Range(m_threads) \cup {r}
    BY <1>8, AppendFacts DEF Queue, TypeOK
  <2>3. Out' = Out /\ Calls' = Calls
    BY <1>8, <2>1, <2>2 DEF Queue, Out, Calls, callerVars
  <2>4. m_threads' = Append(m_threads, r)
    BY <1>8 DEF Queue
  <2>5. Pool!Register(r)
    BY <2>1, <2>3, <2>4 DEF Pool!Register, Pool!Range, Range, Calls
  <2>6. QED
    BY <2>5 DEF Pool!Next
<1>9. QED
  BY <1>1, <1>2, <1>3, <1>4, <1>5, <1>6, <1>7, <1>8, HiddenSteps DEF CallerNext, ClientNext

(* The threads' steps that the pool can see are steps of the pool. *)
LEMMA VisibleThreadSteps ==
  ASSUME IInv, NEW t \in Threads, ThreadNext(t)
  PROVE  [Pool!Next]_<<m_threads, Out, Calls>>
<1>1. CASE Reregister(t)
  <2>1. runs[t] \in Runners /\ runs[t] \in Out /\ runs[t] \notin Range(m_threads)
    BY <1>1 DEF Reregister, ThreadStep, IInv, TypeOK, PlaceInv, ExecutingPCs, Out
  <2>2. Range(m_threads') = Range(m_threads) \cup {runs[t]}
    BY <1>1, <2>1, AppendFacts DEF Reregister, IInv, TypeOK
  <2>3. Out' = Out \ {runs[t]} /\ Calls' = Calls
    BY <1>1, <2>2 DEF Reregister, Out, Calls, callerVars
  <2>4. Pool!Finish(runs[t])
    BY <1>1, <2>1, <2>3 DEF Reregister, Pool!Finish, Calls
  <2>5. QED
    BY <2>1, <2>4 DEF Pool!Next
<1>2. CASE \/ LockRunner(t) \/ RunnableReturns(t) \/ SignalIdle(t) \/ LeaveReregister(t)
           \/ UnlockRunner(t)
  BY <1>2 DEF LockRunner, RunnableReturns, SignalIdle, LeaveReregister, UnlockRunner,
              queueVars, callerVars, Out, Calls
<1>3. QED
  BY <1>1, <1>2 DEF ThreadNext

(* C2SThreadQueue implements the abstract pool: start() hands out the idle  *)
(* runner at the front or throws when none was ever queued, join() passes   *)
(* when none is running, and nothing else changes the pool.                 *)
THEOREM Refinement == Spec => ImplementsWorkerPool
<1>1. Init => Pool!Init
  BY PoolCallValues DEF Init, Pool!Init, Out, Range
<1>2. IInv /\ [Next]_vars => [Pool!Next]_(Pool!poolVars)
  <2> SUFFICES ASSUME IInv, [Next]_vars
               PROVE  [Pool!Next]_<<m_threads, Out, Calls>>
    BY DEF Pool!poolVars, Calls
  <2>1. CASE UNCHANGED vars
    BY <2>1 DEF vars, queueVars, callerVars, Out, Calls
  <2>2. QED
    BY <2>1, VisibleCallerSteps, VisibleThreadSteps DEF Next, Terminated
<1>3. QED
  BY <1>1, <1>2, Invariance, PTL DEF Spec, ImplementsWorkerPool, Pool!Spec

=============================================================================
