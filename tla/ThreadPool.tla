------------------------------ MODULE ThreadPool ------------------------------
(***************************************************************************)
(* The fixed-size thread pool (ThreadPool.h, ThreadPool.cpp) that runs     *)
(* image preprocessing and, inside InferenceExecutor, the inference        *)
(* batches.  A critical section of mutex_ is one action: mutex_ protects   *)
(* both the predicate of cv_.wait and every write the predicate reads      *)
(* (tasks_ and stop_), so evaluating the predicate and blocking are one    *)
(* step.  The notifications are sent after mutex_ is released and are      *)
(* steps of their own.                                                     *)
(***************************************************************************)
EXTENDS Naturals, Sequences

CONSTANTS
  Workers,   \* the pool's threads
  Tasks,     \* the callables handed to enqueue, each by a caller of its own
  NoTask     \* what a thread that runs nothing holds

ASSUME PoolAssumption ==
  /\ Workers # {}          \* the constructor falls back to 4 threads
  /\ NoTask \notin Tasks

VARIABLES
  tasks,      \* tasks_, the FIFO queue
  stop,       \* stop_
  wpc,        \* where each thread is in its loop
  current,    \* the task each thread has popped
  fut,        \* the future enqueue returned for each task
  notifying,  \* the callers between the unlock and notify_one in enqueue
  dtor        \* how far the destructor has come

poolVars == <<tasks, stop, wpc, current, fut, notifying, dtor>>

Queued == {tasks[i] : i \in DOMAIN tasks}

PoolTypeOK ==
  /\ tasks \in Seq(Tasks)
  /\ stop \in BOOLEAN
  /\ wpc \in [Workers -> {"ready", "waiting", "running", "exited"}]
  /\ current \in [Workers -> Tasks \cup {NoTask}]
  /\ fut \in [Tasks -> {"none", "pending", "ready", "refused"}]
  /\ notifying \in SUBSET Tasks
  /\ dtor \in {"none", "notifying", "joining", "joined"}

PoolInit ==
  /\ tasks = <<>>
  /\ stop = FALSE
  /\ wpc = [w \in Workers |-> "ready"]
  /\ current = [w \in Workers |-> NoTask]
  /\ fut = [t \in Tasks |-> "none"]
  /\ notifying = {}
  /\ dtor = "none"

-----------------------------------------------------------------------------
(* enqueue: the critical section, then notify_one.                         *)

Push_silent(t) ==              \* mutant: no notify_one
  /\ fut[t] = "none"
  /\ ~stop
  /\ tasks' = Append(tasks, t)
  /\ fut' = [fut EXCEPT ![t] = "pending"]
  /\ UNCHANGED <<stop, wpc, current, notifying, dtor>>

Push_afterStop(t) ==           \* mutant: stop_ is not tested
  /\ fut[t] = "none"
  /\ tasks' = Append(tasks, t)
  /\ fut' = [fut EXCEPT ![t] = "pending"]
  /\ notifying' = notifying \cup {t}
  /\ UNCHANGED <<stop, wpc, current, dtor>>

Push(t) ==
  /\ fut[t] = "none"
  /\ ~stop
  /\ tasks' = Append(tasks, t)
  /\ fut' = [fut EXCEPT ![t] = "pending"]
  /\ notifying' = notifying \cup {t}
  /\ UNCHANGED <<stop, wpc, current, dtor>>

Refuse(t) ==       \* "enqueue on stopped pool" is thrown to the caller
  /\ fut[t] = "none"
  /\ stop
  /\ fut' = [fut EXCEPT ![t] = "refused"]
  /\ UNCHANGED <<tasks, stop, wpc, current, notifying, dtor>>

WakeOne ==
  \/ \E w \in Workers :
        /\ wpc[w] = "waiting"
        /\ wpc' = [wpc EXCEPT ![w] = "ready"]
  \/ /\ \A w \in Workers : wpc[w] # "waiting"
     /\ UNCHANGED wpc

NotifyOne(t) ==
  /\ t \in notifying
  /\ notifying' = notifying \ {t}
  /\ WakeOne
  /\ UNCHANGED <<tasks, stop, current, fut, dtor>>

-----------------------------------------------------------------------------
(* The loop of a worker thread.  "ready" is a thread that is about to lock *)
(* mutex_ and evaluate the predicate of cv_.wait.                          *)

Wait(w) ==
  /\ wpc[w] = "ready"
  /\ ~stop /\ tasks = <<>>
  /\ wpc' = [wpc EXCEPT ![w] = "waiting"]
  /\ UNCHANGED <<tasks, stop, current, fut, notifying, dtor>>

SpuriousWake(w) ==
  /\ wpc[w] = "waiting"
  /\ wpc' = [wpc EXCEPT ![w] = "ready"]
  /\ UNCHANGED <<tasks, stop, current, fut, notifying, dtor>>

Exit_undrained(w) ==           \* mutant: the queue is not tested
  /\ wpc[w] = "ready"
  /\ stop
  /\ wpc' = [wpc EXCEPT ![w] = "exited"]
  /\ UNCHANGED <<tasks, stop, current, fut, notifying, dtor>>

Exit(w) ==
  /\ wpc[w] = "ready"
  /\ stop /\ tasks = <<>>
  /\ wpc' = [wpc EXCEPT ![w] = "exited"]
  /\ UNCHANGED <<tasks, stop, current, fut, notifying, dtor>>

Take_unpopped(w) ==            \* mutant: the moved-from front stays in the queue
  /\ wpc[w] = "ready"
  /\ tasks # <<>>
  /\ current' = [current EXCEPT ![w] = Head(tasks)]
  /\ tasks' = [tasks EXCEPT ![1] = NoTask]
  /\ wpc' = [wpc EXCEPT ![w] = "running"]
  /\ UNCHANGED <<stop, fut, notifying, dtor>>

Take_copied(w) ==              \* mutant: copied instead of moved and popped
  /\ wpc[w] = "ready"
  /\ tasks # <<>>
  /\ current' = [current EXCEPT ![w] = Head(tasks)]
  /\ wpc' = [wpc EXCEPT ![w] = "running"]
  /\ UNCHANGED <<tasks, stop, fut, notifying, dtor>>

Take(w) ==
  /\ wpc[w] = "ready"
  /\ tasks # <<>>
  /\ current' = [current EXCEPT ![w] = Head(tasks)]
  /\ tasks' = Tail(tasks)
  /\ wpc' = [wpc EXCEPT ![w] = "running"]
  /\ UNCHANGED <<stop, fut, notifying, dtor>>

Finish(w) ==       \* the packaged_task has run and made its future ready
  /\ wpc[w] = "running"
  /\ fut' = [fut EXCEPT ![current[w]] = "ready"]
  /\ current' = [current EXCEPT ![w] = NoTask]
  /\ wpc' = [wpc EXCEPT ![w] = "ready"]
  /\ UNCHANGED <<tasks, stop, notifying, dtor>>

-----------------------------------------------------------------------------
(* ~ThreadPool: set stop_ under the mutex, notify_all, join.               *)

Stop ==
  /\ dtor = "none"
  /\ stop' = TRUE
  /\ dtor' = "notifying"
  /\ UNCHANGED <<tasks, wpc, current, fut, notifying>>

NotifyAll_one ==               \* mutant: notify_one instead of notify_all
  /\ dtor = "notifying"
  /\ WakeOne
  /\ dtor' = "joining"
  /\ UNCHANGED <<tasks, stop, current, fut, notifying>>

NotifyAll ==
  /\ dtor = "notifying"
  /\ wpc' = [w \in Workers |-> IF wpc[w] = "waiting" THEN "ready" ELSE wpc[w]]
  /\ dtor' = "joining"
  /\ UNCHANGED <<tasks, stop, current, fut, notifying>>

Join ==
  /\ dtor = "joining"
  /\ \A w \in Workers : wpc[w] = "exited"
  /\ dtor' = "joined"
  /\ UNCHANGED <<tasks, stop, wpc, current, fut, notifying>>

WorkerStep(w) == Wait(w) \/ Exit(w) \/ Take(w) \/ Finish(w)

PoolNext ==
  \/ \E t \in Tasks : Push(t) \/ Refuse(t) \/ NotifyOne(t)
  \/ \E w \in Workers : WorkerStep(w) \/ SpuriousWake(w)
  \/ Stop \/ NotifyAll \/ Join

PoolSpec == PoolInit /\ [][PoolNext]_poolVars

(* The threads and the caller inside enqueue are scheduled by the OS; the  *)
(* task bodies terminate.  Nothing obliges a client to enqueue or to       *)
(* destroy the pool, and no spurious wakeup is owed to anybody.            *)
PoolFairness ==
  /\ \A w \in Workers : WF_poolVars(WorkerStep(w))
  /\ \A t \in Tasks : WF_poolVars(NotifyOne(t))
  /\ WF_poolVars(NotifyAll \/ Join)

FairPoolSpec == PoolSpec /\ PoolFairness

-----------------------------------------------------------------------------
(***************************************************************************)
(* Properties.                                                             *)
(***************************************************************************)

Awake(w) == wpc[w] \in {"ready", "running"}

(* A pool with work in its queue never has every thread asleep or gone     *)
(* unless a notification is still on its way: no wakeup of cv_ is lost,    *)
(* although notify_one is called after mutex_ has been released.           *)
NoStrandedWork ==
  tasks # <<>> => notifying # {} \/ \E w \in Workers : Awake(w)

(* A task whose future is pending is in the queue or in the hands of       *)
(* exactly one thread, never in both and never twice: it cannot run twice  *)
(* and it cannot be forgotten.                                             *)
PendingIsHeldOnce ==
  \A t \in Tasks :
    fut[t] = "pending" <=>
      \/ /\ t \in Queued
         /\ \A w \in Workers : current[w] # t
         /\ \A i, j \in DOMAIN tasks : tasks[i] = t /\ tasks[j] = t => i = j
      \/ /\ t \notin Queued
         /\ \E w \in Workers : current[w] = t /\ \A v \in Workers \ {w} : current[v] # t

(* The destructor drains: when it returns, every task enqueue accepted has *)
(* run, so no future obtained from the pool stays pending for ever.        *)
JoinedMeansDrained ==
  dtor = "joined" => \A t \in Tasks : fut[t] # "pending"

(* Whatever has begun ends: every accepted task completes, whether or not  *)
(* the pool is destroyed, and the destructor returns.                      *)
PoolSettles ==
  /\ \A t \in Tasks : fut[t] = "pending" ~> fut[t] = "ready"
  /\ dtor = "notifying" ~> dtor = "joined"

(* The pool implements the service its callers count on.                   *)
phaseBar == CASE dtor = "none"   -> "open"
              [] dtor = "joined" -> "gone"
              [] OTHER           -> "closing"

Service == INSTANCE TaskService WITH phase <- phaseBar

ImplementsService == Service!Spec
=============================================================================
