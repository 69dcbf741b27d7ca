----------------------------- MODULE WorkerPool -----------------------------
(***************************************************************************)
(* What C2SThreadQueue (c2s-util/thread/C2SThreadQueue.h) promises to the  *)
(* threads that use it: a pool of workers of which the one that has been   *)
(* idle longest is handed to the next caller of start(), which runs its    *)
(* worker exclusively until it is idle again, and which lets a caller of   *)
(* join() pass only at an instant at which no worker is busy.  There are   *)
(* no mutexes here: ThreadQueue implements this module with five of them,  *)
(* and TaskQueue and SocketListener are built on it.                       *)
(***************************************************************************)
EXTENDS Sequences, Functions

CONSTANTS Callers,  \* the threads that call queue(), start() and join()
          Workers   \* the runnables that queue() may be given

VARIABLES idle,     \* the idle workers, the one that is started next first
          running,  \* the workers handed to a caller and not idle again
          call      \* what each caller is doing in the pool

poolVars == <<idle, running, call>>

CallStates == {"none", "start", "started", "join", "joined"}

Init ==
  /\ idle = <<>>
  /\ running = {}
  /\ call = [c \in Callers |-> "none"]

CallStep(c, from, to) ==
  /\ call[c] = from
  /\ call' = [call EXCEPT ![c] = to]

(* queue(): a worker is added to the pool. *)
Register(w) ==
  /\ w \notin Range(idle) \cup running
  /\ idle' = Append(idle, w)
  /\ UNCHANGED <<running, call>>

CallStart(c) == CallStep(c, "none", "start") /\ UNCHANGED <<idle, running>>

CallJoin(c) == CallStep(c, "none", "join") /\ UNCHANGED <<idle, running>>

(* start() takes the worker that has been idle longest; it waits while    *)
(* there is none.                                                          *)
Dispatch(c) ==
  /\ CallStep(c, "start", "started")
  /\ idle # <<>>
  /\ idle' = Tail(idle)
  /\ running' = running \cup {Head(idle)}

(* start() throws only on a pool that no worker was ever added to. *)
Refuse(c) ==
  /\ CallStep(c, "start", "none")
  /\ idle = <<>>
  /\ running = {}
  /\ UNCHANGED <<idle, running>>

(* join() passes when nothing runs. *)
Join(c) ==
  /\ CallStep(c, "join", "joined")
  /\ running = {}
  /\ UNCHANGED <<idle, running>>

Return(c) ==
  /\ call[c] \in {"started", "joined"}
  /\ call' = [call EXCEPT ![c] = "none"]
  /\ UNCHANGED <<idle, running>>

(* A worker's runnable returns and the worker is idle again, behind the   *)
(* workers that became idle before it.                                     *)
Finish(w) ==
  /\ w \in running
  /\ running' = running \ {w}
  /\ idle' = Append(idle, w)
  /\ UNCHANGED call

Next ==
  \/ \E w \in Workers : Register(w) \/ Finish(w)
  \/ \E c \in Callers :
       CallStart(c) \/ CallJoin(c) \/ Dispatch(c) \/ Refuse(c) \/ Join(c) \/ Return(c)

Spec == Init /\ [][Next]_poolVars

=============================================================================
