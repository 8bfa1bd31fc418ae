-------------------------- MODULE InferenceExecutor --------------------------
(***************************************************************************)
(* The bounded executor of inference batches (InferenceExecutor.cpp): a    *)
(* gate in front of a ThreadPool.  submit blocks on gateCv_ while          *)
(* inflight_ + queued_ has reached maxTotal_, and a pool thread wraps each *)
(* batch in updates of the two counters.                                   *)
(*                                                                         *)
(* gateMutex_ covers only the evaluation of the predicate: the counters    *)
(* change, and gateCv_ is notified, without it.  So the two loads of the   *)
(* predicate, the decision and the blocking are separate steps, and so are *)
(* the two counter updates of a thread that starts a batch.  The compiler  *)
(* may evaluate the operands of the sum in either order.                   *)
(***************************************************************************)
EXTENDS ThreadPool, Integers, FiniteSets

CONSTANTS
  Submitters,       \* the threads that call submit
  QueueMultiplier,  \* the constructor's queueMultiplier
  NoSubmitter       \* the owner of gateMutex_ when it is free

ASSUME ExecutorAssumption ==
  /\ IsFiniteSet(Workers) /\ IsFiniteSet(Submitters)
  /\ QueueMultiplier \in Nat
  /\ NoSubmitter \notin Submitters

maxTotal == Cardinality(Workers) * (1 + QueueMultiplier)

VARIABLES
  inflight,   \* inflight_
  queued,     \* queued_
  gate,       \* the owner of gateMutex_
  spc,        \* where each submitter is in submit
  stask,      \* the task it submits
  seen,       \* the counter its predicate has loaded first
  wrap        \* where each running pool thread is in the lambda around t()

gateVars == <<inflight, queued, gate, spc, stask, seen, wrap>>
vars == <<poolVars, gateVars>>

ExecTypeOK ==
  /\ PoolTypeOK
  /\ inflight \in Nat /\ queued \in Nat
  /\ gate \in Submitters \cup {NoSubmitter}
  /\ spc \in [Submitters -> {"idle", "lock", "load", "loadQueued", "loadInflight",
                             "park", "parked", "admitted", "enqueue", "wakePool",
                             "failed"}]
  /\ stask \in [Submitters -> Tasks \cup {NoTask}]
  /\ seen \in [Submitters -> Nat]
  /\ wrap \in [Workers -> {"begin", "begun", "call", "called", "notified"}]

Init ==
  /\ PoolInit
  /\ inflight = 0 /\ queued = 0
  /\ gate = NoSubmitter
  /\ spc = [s \in Submitters |-> "idle"]
  /\ stask = [s \in Submitters |-> NoTask]
  /\ seen = [s \in Submitters |-> 0]
  /\ wrap = [w \in Workers |-> "begin"]

Goto(s, from, to) == spc[s] = from /\ spc' = [spc EXCEPT ![s] = to]

-----------------------------------------------------------------------------
(* submit, up to the end of the gate's block                               *)

Call(s, t) ==
  /\ Goto(s, "idle", "lock")
  /\ fut[t] = "none"
  /\ \A r \in Submitters : stask[r] # t
  /\ stask' = [stask EXCEPT ![s] = t]
  /\ UNCHANGED <<poolVars, inflight, queued, gate, seen, wrap>>

LockGate(s) ==
  /\ Goto(s, "lock", "load")
  /\ gate = NoSubmitter
  /\ gate' = s
  /\ UNCHANGED <<poolVars, inflight, queued, stask, seen, wrap>>

LoadFirst(s) ==
  /\ \/ /\ Goto(s, "load", "loadQueued")
        /\ seen' = [seen EXCEPT ![s] = inflight]
     \/ /\ Goto(s, "load", "loadInflight")
        /\ seen' = [seen EXCEPT ![s] = queued]
  /\ UNCHANGED <<poolVars, inflight, queued, gate, stask, wrap>>

Decide_offByOne(s, sum) ==     \* mutant
  IF sum <= maxTotal
  THEN spc' = [spc EXCEPT ![s] = "admitted"] /\ gate' = NoSubmitter
  ELSE spc' = [spc EXCEPT ![s] = "park"] /\ UNCHANGED gate

Decide(s, sum) ==
  IF sum < maxTotal
  THEN spc' = [spc EXCEPT ![s] = "admitted"] /\ gate' = NoSubmitter
  ELSE spc' = [spc EXCEPT ![s] = "park"] /\ UNCHANGED gate

LoadSecond(s) ==
  /\ \/ spc[s] = "loadQueued" /\ Decide(s, seen[s] + queued)
     \/ spc[s] = "loadInflight" /\ Decide(s, inflight + seen[s])
  /\ seen' = [seen EXCEPT ![s] = 0]
  /\ UNCHANGED <<poolVars, inflight, queued, stask, wrap>>

Park(s) ==        \* gateCv_.wait blocks and releases gateMutex_
  /\ Goto(s, "park", "parked")
  /\ gate' = NoSubmitter
  /\ UNCHANGED <<poolVars, inflight, queued, stask, seen, wrap>>

SpuriousGateWake(s) ==
  /\ Goto(s, "parked", "lock")
  /\ UNCHANGED <<poolVars, inflight, queued, gate, stask, seen, wrap>>

NotifyGate ==     \* gateCv_.notify_one(); it changes spc alone
  \/ \E s \in Submitters : Goto(s, "parked", "lock")
  \/ (\A s \in Submitters : spc[s] # "parked") /\ UNCHANGED spc

-----------------------------------------------------------------------------
(* submit, after the gate: count the task as queued, hand it to the pool,  *)
(* and roll the count back if enqueue throws (an allocation failure).      *)

CountQueued(s) ==
  /\ Goto(s, "admitted", "enqueue")
  /\ queued' = queued + 1
  /\ UNCHANGED <<poolVars, inflight, gate, stask, seen, wrap>>

Enqueue(s) ==
  /\ Goto(s, "enqueue", "wakePool")
  /\ Push(stask[s])
  /\ UNCHANGED <<inflight, queued, gate, stask, seen, wrap>>

WakePool(s) ==
  /\ Goto(s, "wakePool", "idle")
  /\ NotifyOne(stask[s])
  /\ stask' = [stask EXCEPT ![s] = NoTask]
  /\ UNCHANGED <<inflight, queued, gate, seen, wrap>>

EnqueueThrows_leaks(s) ==      \* mutant: queued_ is not rolled back
  /\ Goto(s, "enqueue", "failed")
  /\ fut' = [fut EXCEPT ![stask[s]] = "refused"]
  /\ UNCHANGED <<tasks, stop, wpc, current, notifying, dtor,
                 inflight, queued, gate, stask, seen, wrap>>

EnqueueThrows(s) ==
  /\ Goto(s, "enqueue", "failed")
  /\ queued' = queued - 1
  /\ fut' = [fut EXCEPT ![stask[s]] = "refused"]
  /\ UNCHANGED <<tasks, stop, wpc, current, notifying, dtor,
                 inflight, gate, stask, seen, wrap>>

\* notify_one in the catch block, then throw
Rethrow(s) ==
  /\ spc[s] = "failed"
  /\ \/ \E r \in Submitters :
          /\ spc[r] = "parked"
          /\ spc' = [spc EXCEPT ![r] = "lock", ![s] = "idle"]
     \/ /\ \A r \in Submitters : spc[r] # "parked"
        /\ spc' = [spc EXCEPT ![s] = "idle"]
  /\ stask' = [stask EXCEPT ![s] = NoTask]
  /\ UNCHANGED <<poolVars, inflight, queued, gate, seen, wrap>>

-----------------------------------------------------------------------------
(* The lambda a pool thread runs around the batch.                         *)

InWrapper(w, from, to) ==
  /\ wpc[w] = "running"
  /\ wrap[w] = from
  /\ wrap' = [wrap EXCEPT ![w] = to]

LeaveQueued(w) ==
  /\ InWrapper(w, "begin", "begun")
  /\ queued' = queued - 1
  /\ UNCHANGED <<poolVars, inflight, gate, spc, stask, seen>>

EnterInflight(w) ==
  /\ InWrapper(w, "begun", "call")
  /\ inflight' = inflight + 1
  /\ UNCHANGED <<poolVars, queued, gate, spc, stask, seen>>

Body(w) ==        \* t() runs, returns, and inflight_ is decremented
  /\ InWrapper(w, "call", "called")
  /\ inflight' = inflight - 1
  /\ UNCHANGED <<poolVars, queued, gate, spc, stask, seen>>

NotifyGateAfter(w) ==
  /\ InWrapper(w, "called", "notified")
  /\ NotifyGate
  /\ UNCHANGED <<poolVars, inflight, queued, gate, stask, seen>>

FinishTask(w) ==
  /\ InWrapper(w, "notified", "begin")
  /\ Finish(w)
  /\ UNCHANGED <<inflight, queued, gate, spc, stask, seen>>

-----------------------------------------------------------------------------
PoolStep(w) == Wait(w) \/ Take(w)

SubmitStep(s) ==
  \/ LockGate(s) \/ LoadFirst(s) \/ LoadSecond(s) \/ Park(s)
  \/ CountQueued(s) \/ Enqueue(s) \/ EnqueueThrows(s) \/ WakePool(s) \/ Rethrow(s)

WrapStep(w) ==
  LeaveQueued(w) \/ EnterInflight(w) \/ Body(w) \/ NotifyGateAfter(w) \/ FinishTask(w)

Next ==
  \/ \E s \in Submitters :
        SubmitStep(s) \/ SpuriousGateWake(s) \/ \E t \in Tasks : Call(s, t)
  \/ \E w \in Workers :
        WrapStep(w) \/ ((PoolStep(w) \/ SpuriousWake(w)) /\ UNCHANGED gateVars)

Spec == Init /\ [][Next]_vars

(* OS scheduling of every thread inside the executor; batches terminate.   *)
Fairness ==
  /\ \A s \in Submitters : WF_vars(SubmitStep(s))
  /\ \A w \in Workers : WF_vars(WrapStep(w) \/ (PoolStep(w) /\ UNCHANGED gateVars))

FairSpec == Spec /\ Fairness
-----------------------------------------------------------------------------
(***************************************************************************)
(* Properties.                                                             *)
(***************************************************************************)

At(pcs) == {s \in Submitters : spc[s] \in pcs}
Wrapping(pcs) == {w \in Workers : wpc[w] = "running" /\ wrap[w] \in pcs}

(* inflight_ and queued_ are updated without a lock by submitters and pool *)
(* threads in no common order; still they lose and invent nothing: queued_ *)
(* counts exactly the batches between a submitter's increment and a        *)
(* thread's decrement, inflight_ those inside t(), and a failed enqueue    *)
(* leaves no trace.                                                        *)
CountersMatch ==
  /\ queued = Cardinality(At({"enqueue"})) + Len(tasks) + Cardinality(Wrapping({"begin"}))
  /\ inflight = Cardinality(Wrapping({"call"}))

Outstanding == {t \in Tasks : fut[t] = "pending"}

(* The bound the gate really enforces.  A thread that has left queued_ and *)
(* not yet entered inflight_ (or has left inflight_ and not yet returned)  *)
(* is invisible to the predicate, and so is a submitter that has passed    *)
(* the gate and not yet counted itself.                                    *)
HardLimit == maxTotal + Cardinality(Workers) + Cardinality(Submitters) - 1

(* What InferenceExecutor.h:38 and 42 say together: submit blocks when     *)
(* maxTotal batches are unfinished.  It does not hold, because the sum of  *)
(* the two counters can be smaller than the number of unfinished batches.  *)
DocumentedBound == Cardinality(Outstanding) <= maxTotal

(* The executor implements what the scheduler relies on: never more than   *)
(* HardLimit batches unfinished, started in the order of their admission,  *)
(* one per thread at a time.                                               *)
Bounded == INSTANCE BoundedExecutor
             WITH waiting <- tasks, serving <- current, Servers <- Workers, Limit <- HardLimit

ImplementsBoundedExecutor == Bounded!Spec
=============================================================================
