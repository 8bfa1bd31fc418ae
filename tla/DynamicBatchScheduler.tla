------------------------ MODULE DynamicBatchScheduler ------------------------
(***************************************************************************)
(* The batching core of the server (DynamicBatchScheduler.cpp): request    *)
(* handlers submit from the IO threads, one scheduler thread forms batches *)
(* and hands them to the GPU or CPU executor, executor threads answer the  *)
(* requests, and the main thread stops the scheduler.                      *)
(*                                                                         *)
(* mutex_ protects queues_; its critical sections are single actions.  The *)
(* scheduler thread holds it between evaluating the predicate of a wait    *)
(* and blocking ("parkIdle", "parkTimed"), because stop() writes running_  *)
(* and notifies without it.  Time is discrete: a queued request ages by    *)
(* one with each Tick up to the delay of its queue, where it is overdue.   *)
(* An executor is what BoundedExecutor says of it: at most GateLimit       *)
(* batches admitted and unfinished, started in the order of admission,     *)
(* Concurrency of them at a time.  At a full executor the scheduler thread *)
(* blocks in submit on gateCv_; the batch that finishes notifies gateCv_   *)
(* without gateMutex_, so the notification can come before the thread has  *)
(* blocked ("parkGate") and be lost.                                       *)
(***************************************************************************)
EXTENDS BatchPolicy, Sequences, FiniteSets

CONSTANTS
  Requests,      \* the submissions, each by a handler of its own
  Keys,          \* the scheduling keys (makeKey)
  KeyOf,         \* the key of each submission
  Config,        \* the parameters of each key's queue (resolveConfig)
  MaxQueueSize,  \* max_queue_size (a non-positive setting stands for 1024)
  Executors,     \* the GPU executor and the CPU executor
  ExecutorOf,    \* the executor of each key's model
  Concurrency,   \* the threads of each executor
  GateLimit,     \* the unfinished batches each executor admits
  Never          \* stands for time_point::max(), beyond every delay

ASSUME SchedulerAssumption ==
  /\ KeyOf \in [Requests -> Keys]
  /\ Config \in [Keys -> [max : Nat \ {0}, pref : SUBSET Int, delay : Nat]]
  /\ \A k \in Keys : IsFiniteSet(Config[k].pref)
  /\ MaxQueueSize \in Nat \ {0}
  /\ ExecutorOf \in [Keys -> Executors]
  /\ Concurrency \in [Executors -> Nat \ {0}]
  /\ GateLimit \in [Executors -> Nat \ {0}]
  /\ Never \in Nat
  /\ \A k \in Keys : Config[k].delay < Never

VARIABLES
  running,      \* running_
  pc,           \* where the scheduler thread is in schedulerLoop
  queues,       \* queues_[k].items, oldest first
  age,          \* how long each queued request has waited
  plans,        \* readyPlans not yet executed: one sequence of requests per plan
  anyWork,      \* the local of the same name
  wakeIn,       \* time left until nearestDeadline; Never when there is none
  asking,       \* the plan whose submission waits at an executor's gate, or <<>>
  notifying,    \* the submitters between the unlock and cv_.notify_one
  xqueue,       \* the batches waiting in each executor
  xrun,         \* the batches running in each executor
  futures,      \* pendingFutures_, by batch
  promise,      \* the promise of each request
  json,         \* resultJson of each request's slot: "empty" or "written"
  spc,          \* where the main thread is in stop
  totalQueued, dropped, batches, requests   \* the counters of snapshot()

workerVars == <<pc, plans, anyWork, wakeIn, asking, futures>>
execVars == <<xqueue, xrun>>
counters == <<totalQueued, dropped, batches, requests>>
vars == <<running, queues, age, notifying, promise, json, spc,
          workerVars, execVars, counters>>

Members(s) == {s[i] : i \in DOMAIN s}
QueuedIn(k) == Members(queues[k])
Key(batch) == KeyOf[batch[1]]
NonEmpty(k) == queues[k] # <<>>
Wait(k) == age[Head(queues[k])]
Overdue(k) == Wait(k) >= Config[k].delay

Unstarted(e) == Members(xqueue[e])
RunningBatches(e) == {b.items : b \in xrun[e]}
InExecutor(e) == Unstarted(e) \cup RunningBatches(e)
Finished(batch) == \A e \in Executors : batch \notin InExecutor(e)

\* mutex_ is free unless the scheduler thread is about to block on cv_
MutexFree == pc \notin {"parkIdle", "parkTimed"}

Batch == Seq(Requests)

TypeOK ==
  /\ running \in BOOLEAN
  /\ pc \in {"top", "collect", "dispatch", "relock", "parkIdle", "parkTimed",
             "idle", "timed", "recheckIdle", "recheckTimed", "guard",
             "parkGate", "gated", "exited"}
  /\ queues \in [Keys -> Batch]
  /\ age \in [Requests -> Nat]
  /\ plans \in SUBSET Batch
  /\ anyWork \in BOOLEAN
  /\ wakeIn \in Nat /\ asking \in Batch
  /\ notifying \in SUBSET Requests
  /\ xqueue \in [Executors -> Seq(Batch)]
  /\ xrun \in [Executors -> SUBSET [items : Batch, todo : Batch, wrote : BOOLEAN, good : Nat]]
  /\ futures \in SUBSET Batch
  /\ promise \in [Requests -> {"unborn", "pending", "ok", "error", "full", "cancelled"}]
  /\ json \in [Requests -> {"empty", "written"}]
  /\ spc \in {"none", "notify", "join", "drain", "stopped", "destroyed"}
  /\ totalQueued \in Nat /\ dropped \in Nat /\ batches \in Nat /\ requests \in Nat

Init ==                        \* start() has created the scheduler thread
  /\ running = TRUE
  /\ pc = "top"
  /\ queues = [k \in Keys |-> <<>>]
  /\ age = [r \in Requests |-> 0]
  /\ plans = {} /\ anyWork = FALSE /\ wakeIn = Never /\ asking = <<>>
  /\ notifying = {}
  /\ xqueue = [e \in Executors |-> <<>>]
  /\ xrun = [e \in Executors |-> {}]
  /\ futures = {}
  /\ promise = [r \in Requests |-> "unborn"]
  /\ json = [r \in Requests |-> "empty"]
  /\ spc = "none"
  /\ totalQueued = 0 /\ dropped = 0 /\ batches = 0 /\ requests = 0

-----------------------------------------------------------------------------
(* submit: the critical section with its two outcomes, then notify_one.    *)
(* Nothing tests running_.                                                 *)

Full_late(k) == Len(queues[k]) > MaxQueueSize         \* mutant
Full(k) == Len(queues[k]) >= MaxQueueSize

PushBack_front(q, r) == <<r>> \o q                    \* mutant
PushBack(q, r) == Append(q, r)

Accept(r) ==
  /\ promise[r] = "unborn" /\ MutexFree /\ spc # "destroyed"
  /\ ~Full(KeyOf[r])
  /\ queues' = [queues EXCEPT ![KeyOf[r]] = PushBack(@, r)]
  /\ promise' = [promise EXCEPT ![r] = "pending"]
  /\ totalQueued' = totalQueued + 1
  /\ notifying' = notifying \cup {r}
  /\ UNCHANGED <<running, age, json, spc, workerVars, execVars, dropped, batches, requests>>

TurnAway(r) ==         \* "server busy: queue full"; resultJson is not written
  /\ promise[r] = "unborn" /\ MutexFree /\ spc # "destroyed"
  /\ Full(KeyOf[r])
  /\ promise' = [promise EXCEPT ![r] = "full"]
  /\ dropped' = dropped + 1
  /\ UNCHANGED <<running, queues, age, notifying, json, spc, workerVars, execVars,
                 totalQueued, batches, requests>>

Woken == IF pc = "idle" THEN "recheckIdle"
         ELSE IF pc = "timed" THEN "recheckTimed" ELSE pc

Notify(r) ==
  /\ r \in notifying
  /\ notifying' = notifying \ {r}
  /\ pc' = Woken
  /\ UNCHANGED <<running, queues, age, promise, json, spc, plans, anyWork, asking, wakeIn,
                 futures, execVars, counters>>

-----------------------------------------------------------------------------
(* schedulerLoop                                                           *)

Goto(from, to) == pc = from /\ pc' = to

Pruned_inverted == {b \in futures : Finished(b)}       \* mutant
Pruned == {b \in futures : ~Finished(b)}

\* the test of the while loop; prune the futures that are ready
Top ==
  /\ IF running
     THEN Goto("top", "collect") /\ futures' = Pruned
     ELSE Goto("top", "exited") /\ UNCHANGED futures
  /\ UNCHANGED <<running, queues, age, notifying, promise, json, spc, plans, anyWork,
                 asking, wakeIn, execVars, counters>>

\* Under mutex_: one plan per queue that may dispatch, and the nearest
\* deadline of those that may not.
Takes(k) == IF NonEmpty(k) /\ ShouldDispatch(Len(queues[k]), Wait(k), Config[k])
            THEN TakeCount(Len(queues[k]), Wait(k), Config[k])
            ELSE 0

InWindow == {k \in Keys :
               NonEmpty(k) /\ ~ShouldDispatch(Len(queues[k]), Wait(k), Config[k])}

\* mutant and definition: the queues that yield a plan
Leaving_emptyPlans ==
  {k \in Keys : NonEmpty(k) /\ ShouldDispatch(Len(queues[k]), Wait(k), Config[k])}
Leaving == {k \in Keys : Takes(k) > 0}

\* mutant and definition: what stays in the queue when the plan has been formed
Remainder_dropsOne(k) == SubSeq(queues[k], Takes(k) + 2, Len(queues[k]))
Remainder(k) == SubSeq(queues[k], Takes(k) + 1, Len(queues[k]))

\* mutant and definition: how far the deadline of the front is
Remaining_early(k) == 0 - Config[k].delay - Wait(k)    \* enqueueTime minus the delay
Remaining(k) == Config[k].delay - Wait(k)
NearestDeadline == Min({Never} \cup {Remaining(k) : k \in InWindow})

Collect ==
  /\ pc = "collect"
  /\ LET taken == UNION {Members(SubSeq(queues[k], 1, Takes(k))) : k \in Leaving}
     IN  age' = [r \in Requests |-> IF r \in taken THEN 0 ELSE age[r]]
  /\ plans' = {SubSeq(queues[k], 1, Takes(k)) : k \in Leaving}
  /\ queues' = [k \in Keys |-> Remainder(k)]
  /\ pc' = IF Leaving # {} THEN "dispatch" ELSE "relock"
  /\ anyWork' = \E k \in Keys : NonEmpty(k)
  /\ wakeIn' = NearestDeadline
  /\ UNCHANGED <<running, notifying, promise, json, spc, asking, futures, execVars, counters>>

\* executeBatch counts the batch, then asks the executor.  submit admits it,
\* blocks at the gate, or throws.
Offered(batch) == pc = "dispatch" /\ batch \in plans /\ asking \in {<<>>, batch}

Counted(batch) ==
  IF asking = batch
  THEN UNCHANGED <<batches, requests>>
  ELSE batches' = batches + 1 /\ requests' = requests + Len(batch)

AfterPlan(batch) ==
  /\ plans' = plans \ {batch}
  /\ asking' = <<>>
  /\ pc' = IF plans = {batch} THEN "top" ELSE "dispatch"
  /\ Counted(batch)

HasRoom(e) == Cardinality(InExecutor(e)) < GateLimit[e]

Dispatch(batch) ==
  /\ Offered(batch)
  /\ LET e == ExecutorOf[Key(batch)]
     IN  HasRoom(e) /\ xqueue' = [xqueue EXCEPT ![e] = Append(@, batch)]
  /\ futures' = futures \cup {batch}
  /\ AfterPlan(batch)
  /\ UNCHANGED <<running, queues, age, notifying, promise, json, spc, anyWork, wakeIn,
                 xrun, totalQueued, dropped>>

GateShut(batch) ==
  /\ Offered(batch)
  /\ ~HasRoom(ExecutorOf[Key(batch)])
  /\ pc' = "parkGate"
  /\ asking' = batch
  /\ Counted(batch)
  /\ UNCHANGED <<running, queues, age, notifying, promise, json, spc, plans, anyWork, wakeIn,
                 futures, execVars, totalQueued, dropped>>

DispatchFails(batch) ==          \* exec->submit throws
  /\ Offered(batch)
  /\ promise' = [r \in Requests |-> IF r \in Members(batch) THEN "error" ELSE promise[r]]
  /\ json' = [r \in Requests |-> IF r \in Members(batch) THEN "written" ELSE json[r]]
  /\ AfterPlan(batch)
  /\ UNCHANGED <<running, queues, age, notifying, spc, anyWork, wakeIn, futures,
                 execVars, totalQueued, dropped>>

\* Lock again, test running_, and wait for work or for the deadline.
IdlePredicate_onlyStop == ~running                     \* mutant
IdlePredicate == (\E k \in Keys : NonEmpty(k)) \/ ~running

TimedPredicate ==
  \/ \E k \in Keys : NonEmpty(k) /\ (Hot(Len(queues[k]), Config[k]) \/ Overdue(k))
  \/ ~running

EvalIdle == pc' = IF IdlePredicate THEN "top" ELSE "parkIdle"
EvalTimed == pc' = IF TimedPredicate THEN "top" ELSE "parkTimed"

Relock ==
  /\ pc = "relock"
  /\ \/ ~running /\ pc' = "exited"
     \/ running /\ ~anyWork /\ EvalIdle
     \/ running /\ anyWork /\ wakeIn # Never /\ EvalTimed
     \/ running /\ anyWork /\ wakeIn = Never /\ pc' = "guard"
  /\ UNCHANGED <<running, queues, age, notifying, promise, json, spc, plans, anyWork,
                 asking, wakeIn, futures, execVars, counters>>

Recheck ==
  /\ \/ pc = "recheckIdle" /\ EvalIdle
     \/ pc = "recheckTimed" /\ EvalTimed
  /\ UNCHANGED <<running, queues, age, notifying, promise, json, spc, plans, anyWork,
                 asking, wakeIn, futures, execVars, counters>>

Park ==
  /\ Goto("parkIdle", "idle") \/ Goto("parkTimed", "timed") \/ Goto("parkGate", "gated")
  /\ UNCHANGED <<running, queues, age, notifying, promise, json, spc, plans, anyWork,
                 asking, wakeIn, futures, execVars, counters>>

\* wait_until reaches the deadline, or the 100 ms of the guard branch are over
TimeOut ==
  /\ (wakeIn = 0 /\ pc = "timed") \/ pc = "guard"
  /\ pc' = "top"
  /\ UNCHANGED <<running, queues, age, notifying, promise, json, spc, plans, anyWork,
                 asking, wakeIn, futures, execVars, counters>>

SpuriousWake ==
  /\ (pc \in {"idle", "timed"} /\ pc' = Woken) \/ Goto("gated", "dispatch")
  /\ UNCHANGED <<running, queues, age, notifying, promise, json, spc, plans, anyWork,
                 asking, wakeIn, futures, execVars, counters>>

-----------------------------------------------------------------------------
(* The batch task in an executor: getModel and predictBatch, then every    *)
(* slot and promise in turn.  good is the number of results: an unknown    *)
(* model has none, a predictBatch that throws yields an error text as the  *)
(* result of every request.                                                *)

StartBatch(e) ==
  /\ xqueue[e] # <<>>
  /\ Cardinality(xrun[e]) < Concurrency[e]
  /\ LET b == Head(xqueue[e])
     IN  \E n \in 0..Len(b) :
           xrun' = [xrun EXCEPT ![e] = @ \cup {[items |-> b, todo |-> b, wrote |-> FALSE, good |-> n]}]
  /\ xqueue' = [xqueue EXCEPT ![e] = Tail(@)]
  /\ UNCHANGED <<running, queues, age, notifying, promise, json, spc, workerVars, counters>>

\* The two statements for one request: resultJson of its slot, and its promise.
Goes(e, b, c) == xrun' = [xrun EXCEPT ![e] = (@ \ {b}) \cup {c}]
HalfAnswered(b) == [items |-> b.items, todo |-> b.todo, wrote |-> TRUE, good |-> b.good]
Answered(b) == [items |-> b.items, todo |-> Tail(b.todo), wrote |-> FALSE, good |-> b.good]

WriteSlot(b) ==
  /\ json' = [json EXCEPT ![Head(b.todo)] = "written"]
  /\ UNCHANGED promise

SetPromise(b) ==
  /\ LET hasResult == Len(b.items) - Len(b.todo) < b.good
     IN  promise' = [promise EXCEPT ![Head(b.todo)] = IF hasResult THEN "ok" ELSE "error"]
  /\ UNCHANGED json

AnswerNext_promiseFirst(e, b) ==                       \* mutant
  /\ b \in xrun[e] /\ b.todo # <<>>
  /\ \/ ~b.wrote /\ SetPromise(b) /\ Goes(e, b, HalfAnswered(b))
     \/ b.wrote /\ WriteSlot(b) /\ Goes(e, b, Answered(b))
  /\ UNCHANGED <<running, queues, age, notifying, spc, workerVars, xqueue, counters>>

AnswerNext(e, b) ==
  /\ b \in xrun[e] /\ b.todo # <<>>
  /\ \/ ~b.wrote /\ WriteSlot(b) /\ Goes(e, b, HalfAnswered(b))
     \/ b.wrote /\ SetPromise(b) /\ Goes(e, b, Answered(b))
  /\ UNCHANGED <<running, queues, age, notifying, spc, workerVars, xqueue, counters>>

\* The future in pendingFutures_ becomes ready, and gateCv_ is notified.
FinishBatch(e, b) ==
  /\ b \in xrun[e] /\ b.todo = <<>>
  /\ xrun' = [xrun EXCEPT ![e] = @ \ {b}]
  /\ pc' = IF pc = "gated" /\ ExecutorOf[Key(asking)] = e THEN "dispatch" ELSE pc
  /\ UNCHANGED <<running, queues, age, notifying, promise, json, spc, plans, anyWork,
                 asking, wakeIn, futures, xqueue, counters>>

-----------------------------------------------------------------------------
(* stop(), by the main thread; then the destructor, which calls it again.  *)

StopStore ==
  /\ spc = "none"
  /\ running' = FALSE
  /\ spc' = "notify"
  /\ UNCHANGED <<queues, age, notifying, promise, json, workerVars, execVars, counters>>

StopNotify ==
  /\ spc = "notify"
  /\ spc' = "join"
  /\ pc' = Woken
  /\ UNCHANGED <<running, queues, age, notifying, promise, json, plans, anyWork, asking, wakeIn,
                 futures, execVars, counters>>

StopJoin ==
  /\ spc = "join" /\ pc = "exited"
  /\ spc' = "drain"
  /\ UNCHANGED <<running, queues, age, notifying, promise, json, workerVars, execVars, counters>>

Reject_everything ==                                   \* mutant
  /\ promise' = [r \in Requests |-> IF promise[r] # "unborn" THEN "cancelled" ELSE "unborn"]
  /\ queues' = [k \in Keys |-> <<>>]
  /\ age' = [r \in Requests |-> 0]

Reject ==               \* every queued promise is set; resultJson is not
  /\ promise' = [r \in Requests |->
                   IF \E k \in Keys : r \in QueuedIn(k) THEN "cancelled" ELSE promise[r]]
  /\ queues' = [k \in Keys |-> <<>>]
  /\ age' = [r \in Requests |-> 0]

StopDrain ==
  /\ spc = "drain"
  /\ \A b \in futures : Finished(b)
  /\ futures' = {}
  /\ Reject
  /\ spc' = "stopped"
  /\ UNCHANGED <<running, notifying, json, pc, plans, anyWork, asking, wakeIn, execVars, counters>>

Destroy ==
  /\ spc = "stopped"
  /\ Reject
  /\ spc' = "destroyed"
  /\ UNCHANGED <<running, notifying, json, workerVars, execVars, counters>>

-----------------------------------------------------------------------------
Older(r) ==
  LET k == KeyOf[r]
  IN  IF r \in QueuedIn(k) /\ age[r] < Config[k].delay THEN age[r] + 1 ELSE age[r]

Tick ==
  /\ age' = [r \in Requests |-> Older(r)]
  /\ wakeIn' = IF wakeIn \notin {0, Never} THEN wakeIn - 1 ELSE wakeIn
  /\ <<age, wakeIn>>' # <<age, wakeIn>>
  /\ UNCHANGED <<running, queues, notifying, promise, json, spc, pc, plans, anyWork,
                 asking, futures, execVars, counters>>

SchedulerStep ==
  \/ Top \/ Collect \/ Relock \/ Recheck \/ Park \/ TimeOut
  \/ \E batch \in plans : Dispatch(batch) \/ GateShut(batch) \/ DispatchFails(batch)

ExecutorStep(e) ==
  StartBatch(e) \/ \E b \in xrun[e] : AnswerNext(e, b) \/ FinishBatch(e, b)

StopStep == StopNotify \/ StopJoin \/ StopDrain \/ Destroy

Next ==
  \/ \E r \in Requests : Accept(r) \/ TurnAway(r) \/ Notify(r)
  \/ SchedulerStep \/ SpuriousWake
  \/ \E e \in Executors : ExecutorStep(e)
  \/ StopStore \/ StopStep
  \/ Tick

Spec == Init /\ [][Next]_vars

(* Threads are scheduled by the OS, time passes, batches terminate.  Each  *)
(* running batch is a thread of its own.  The thread that sleeps at a gate *)
(* moves only when a batch of that executor finishes: nobody owes it, or   *)
(* anybody, a spurious wakeup, and nobody owes a submission or a stop.     *)
Fairness ==
  /\ WF_vars(SchedulerStep)
  /\ \A r \in Requests : WF_vars(Notify(r))
  /\ \A e \in Executors : WF_vars(ExecutorStep(e))
  /\ WF_vars(StopStep)
  /\ WF_vars(Tick)

FairSpec == Spec /\ Fairness
-----------------------------------------------------------------------------
(***************************************************************************)
(* Properties.                                                             *)
(***************************************************************************)

Executing == UNION {(UNION {Members(b) : b \in Unstarted(e)})
                      \cup (UNION {Members(b.todo) : b \in xrun[e]}) : e \in Executors}
Planned == UNION {Members(b) : b \in plans}
Queued == UNION {QueuedIn(k) : k \in Keys}

(* A pending request is in exactly one place on its way from the queue     *)
(* through a plan to an executor, and an answered one is nowhere: moving   *)
(* items between deques, plans and tasks neither drops nor duplicates one, *)
(* so no promise is forgotten or set twice.                                *)
PendingHeldOnce ==
  \A r \in Requests :
    /\ promise[r] = "pending" <=> r \in Queued \cup Planned \cup Executing
    /\ ~(r \in Queued /\ r \in Planned \cup Executing)
    /\ ~(r \in Planned /\ r \in Executing)

(* Once a promise has a value nothing overwrites it (a second set_value    *)
(* would throw in an executor thread or in the scheduler thread).          *)
AnsweredOnce ==
  [][\A r \in Requests :
       promise[r] \notin {"unborn", "pending"} => promise'[r] = promise[r]]_vars

(* A batch is never empty, never larger than its queue's maximum, mixes no *)
(* two scheduling keys (two model versions would share one engine call)    *)
(* and runs on the executor of its model.                                  *)
BatchesWellFormed ==
  /\ \A b \in plans \cup futures \cup (UNION {InExecutor(e) : e \in Executors}) :
        /\ b # <<>> /\ Len(b) <= Config[Key(b)].max
        /\ \A r \in Members(b) : KeyOf[r] = Key(b)
  /\ \A e \in Executors : \A b \in InExecutor(e) : ExecutorOf[Key(b)] = e

(* The front of every queue is its oldest request: decideBatch and the     *)
(* deadline computation look at the front alone.                           *)
FrontIsOldest ==
  \A k \in Keys : \A i \in DOMAIN queues[k] : age[queues[k][i]] <= Wait(k)

(* The scheduler thread does not sleep on work it should dispatch: asleep  *)
(* without a deadline, the queues are empty, and asleep until a deadline,  *)
(* no queue has reached a batch size, unless a notification is coming.     *)
NoSubmitMissed ==
  notifying = {} =>
    /\ pc = "idle" => Queued = {}
    /\ pc = "timed" => \A k \in Keys : ~NonEmpty(k) \/ ~Hot(Len(queues[k]), Config[k])

(* When stop() has returned the scheduler thread is gone and no executor   *)
(* holds a batch: the caller may destroy the model factory and the         *)
(* executors, which the batch tasks use through raw pointers.              *)
QuiescentWhenStopped ==
  spc \in {"stopped", "destroyed"} =>
    /\ pc = "exited" /\ plans = {}
    /\ \A e \in Executors : InExecutor(e) = {}

(* Handlers read the slot, not the promise ("data is in slot->resultJson"):*)
(* an answered request has a result there.                                 *)
AnswerIsInSlot ==
  \A r \in Requests : promise[r] \notin {"unborn", "pending"} => json[r] # "empty"

(* The same for the requests that reached an executor: although the task   *)
(* writes the slot and sets the promise in two statements, with the        *)
(* handler's thread awake between them, the slot is written before the     *)
(* promise has a value, and never after.                                   *)
ResultBeforePromise ==
  /\ [](\A r \in Requests : promise[r] \in {"ok", "error"} => json[r] # "empty")
  /\ [][\A r \in Requests : json'[r] # json[r] => promise[r] = "pending"]_vars

(* A preferred size that is not positive keeps a lone request waiting for  *)
(* ever: every round decides to dispatch its queue and takes nothing from  *)
(* it (DynamicBatchScheduler.cpp:248-264 comes before the timeout).  And   *)
(* the thread can sleep at a gate that has room, its wakeup lost.          *)
PositiveSizes(k) == \A s \in Config[k].pref : s > 0
AsleepBesideRoom == pc = "gated" /\ HasRoom(ExecutorOf[Key(asking)])

(* Every accepted request of a queue with positive sizes is answered, also *)
(* across a shutdown and beside a queue that starves, unless the scheduler *)
(* thread misses the wakeup of a gate.                                     *)
AcceptedIsAnswered ==
  \A r \in {q \in Requests : PositiveSizes(KeyOf[q])} :
    promise[r] = "pending" ~> promise[r] # "pending" \/ AsleepBesideRoom

(* stop() returns: the graceful shutdown the README advertises completes.  *)
StopReturns == spc = "notify" ~> spc = "destroyed"

(* The scheduler implements the reply service: of each key at most         *)
(* MaxQueueSize requests wait, none is refused before, and they leave in   *)
(* the order in which submit accepted them.                                *)
Replies == INSTANCE ReplyService
             WITH closing <- ~running, waiting <- queues, Capacity <- MaxQueueSize

ImplementsReplyService == Replies!Spec
=============================================================================
