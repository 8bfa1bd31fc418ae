--------------------- MODULE DynamicBatchSchedulerProofs ---------------------
(***************************************************************************)
(* Proofs about DynamicBatchScheduler for any requests, keys, executors    *)
(* and queue parameters: what leaves a queue never exceeds what is in it,  *)
(* typing, no submission slept through, nothing left running when stop()   *)
(* has returned, every pending request in one place, well-formed batches,  *)
(* queues sorted by age, and the implementation of ReplyService.  At the   *)
(* end, that the settings ServerConfig computes are parameters as those    *)
(* proofs assume them.                                                     *)
(***************************************************************************)
EXTENDS DynamicBatchScheduler, ServerConfig, SequenceTheorems, FiniteSetTheorems, TLAPS

-----------------------------------------------------------------------------
(* Minima and maxima, which CHOOSE needs to exist.                         *)

LEMMA LeastNat ==
  ASSUME NEW T, T \subseteq Nat, T # {}
  PROVE  \E x \in T : \A y \in T : x <= y
<1> DEFINE upto(m) == T \cap (0..m)
           F == {upto(m) : m \in T}
<1>1. F \subseteq FiniteSubsetsOf(Nat) /\ F # {}
  <2>1. ASSUME NEW m \in T PROVE IsFiniteSet(upto(m)) /\ upto(m) \subseteq Nat
    <3>1. m \in Nat /\ IsFiniteSet(0..m)
      BY FS_Interval
    <3>2. upto(m) \subseteq 0..m /\ upto(m) \subseteq Nat
      OBVIOUS
    <3>3. QED
      BY <3>1, <3>2, FS_Subset
  <2>2. QED
    BY <2>1 DEF FiniteSubsetsOf
<1>2. \E u \in F : \A v \in F : <<v, u>> \notin StrictSubsetOrdering(Nat)
  BY <1>1, FS_StrictSubsetOrderingWellFounded, WFMin
<1>3. PICK m \in T : \A y \in T : <<upto(y), upto(m)>> \notin StrictSubsetOrdering(Nat)
  BY <1>2
<1>4. ASSUME NEW y \in T, y < m PROVE FALSE
  <2>1. upto(y) \subseteq upto(m) /\ m \in upto(m) /\ m \notin upto(y)
    BY <1>4
  <2>2. QED
    BY <2>1, <1>3 DEF StrictSubsetOrdering
<1>5. QED
  BY <1>4

LEMMA MinOfNats ==
  ASSUME NEW T, T \subseteq Nat, T # {}
  PROVE  Min(T) \in T /\ \A y \in T : Min(T) <= y
BY LeastNat DEF Min

LEMMA MaxOfBounded ==
  ASSUME NEW S, S \subseteq Int, S # {}, NEW n \in Int, \A s \in S : s <= n
  PROVE  Max(S) \in S /\ \A y \in S : Max(S) >= y
<1> DEFINE T == {n - s : s \in S}
<1>1. T \subseteq Nat /\ T # {}
  <2>1. ASSUME NEW s \in S PROVE n - s \in Nat
    <3>1. s \in Int /\ s <= n
      OBVIOUS
    <3>2. QED
      BY <3>1
  <2>2. QED
    BY <2>1
<1>2. PICK x \in T : \A y \in T : x <= y
  BY <1>1, LeastNat
<1>3. PICK s \in S : x = n - s
  OBVIOUS
<1>4. ASSUME NEW y \in S PROVE s >= y
  <2>1. n - y \in T
    OBVIOUS
  <2>2. QED
    BY <2>1, <1>2, <1>3
<1>5. QED
  BY <1>4 DEF Max

(* decideBatch never takes more requests than the queue holds nor more     *)
(* than max_batch_size, whatever the preferred sizes are.                  *)
THEOREM TakeCountBound ==
  ASSUME NEW n \in Nat, NEW wait \in Nat,
         NEW c \in [max : Nat \ {0}, pref : SUBSET Int, delay : Nat]
  PROVE  TakeCount(n, wait, c) \in 0..n /\ TakeCount(n, wait, c) <= c.max
<1>1. c.max \in Nat /\ c.pref \subseteq Int /\ c.delay \in Nat
  OBVIOUS
<1>2. CASE n >= c.max
  BY <1>1, <1>2 DEF TakeCount
<1>3. CASE n < c.max /\ n >= MinPref(c)
  <2> DEFINE S == {0} \cup {s \in c.pref : s <= n}
  <2>1. S \subseteq Int /\ S # {} /\ \A s \in S : s <= n
    BY <1>1
  <2>2. Max(S) \in S /\ Max(S) >= 0
    BY <2>1, MaxOfBounded
  <2>3. LargestPref(n, c) \in 0..n
    BY <2>1, <2>2 DEF LargestPref
  <2>4. TakeCount(n, wait, c) = LargestPref(n, c)
    BY <1>1, <1>3 DEF TakeCount
  <2>5. QED
    BY <2>3, <2>4, <1>1, <1>3
<1>4. CASE n < c.max /\ ~(n >= MinPref(c))
  <2>1. Min({n, c.max}) \in {n, c.max} /\ Min({n, c.max}) <= n
    BY MinOfNats, <1>1
  <2>2. TakeCount(n, wait, c) \in {0, Min({n, c.max})}
    BY <1>1, <1>4 DEF TakeCount
  <2>3. QED
    BY <2>1, <2>2, <1>1, <1>4
<1>5. QED
  BY <1>1, <1>2, <1>3, <1>4

-----------------------------------------------------------------------------
(* No submission is slept through.  The invariant adds the two states in   *)
(* which the thread has evaluated the predicate of the wait and has not    *)
(* blocked yet: nothing can change the queues there, because the thread    *)
(* still holds mutex_; from then on a submission leaves its notification.  *)

NothingQueued == \A k \in Keys : ~NonEmpty(k)
NothingHot == \A k \in Keys : ~NonEmpty(k) \/ ~Hot(Len(queues[k]), Config[k])

SleepInv ==
  /\ pc = "parkIdle"  => NothingQueued
  /\ pc = "parkTimed" => NothingHot
  /\ pc = "idle"  => notifying # {} \/ NothingQueued
  /\ pc = "timed" => notifying # {} \/ NothingHot

LEMMA InitSleepInv == Init => SleepInv
BY DEF Init, SleepInv

\* A step that leaves the queues and the notifications alone and does not
\* go to sleep keeps the invariant.
LEMMA AwakeSleepInv ==
  ASSUME pc' \notin {"parkIdle", "parkTimed", "idle", "timed"}
  PROVE  SleepInv'
BY DEF SleepInv

LEMMA StillSleepInv ==
  ASSUME SleepInv, UNCHANGED <<pc, queues, notifying>>
  PROVE  SleepInv'
BY DEF SleepInv, NothingQueued, NothingHot, NonEmpty

LEMMA WokenSleepInv ==
  ASSUME SleepInv, pc' = Woken, UNCHANGED queues
  PROVE  SleepInv'
BY DEF SleepInv, Woken, NothingQueued, NothingHot, NonEmpty

LEMMA NextSleepInv ==
  ASSUME SleepInv, [Next]_vars
  PROVE  SleepInv'
<1> USE DEF workerVars, execVars, counters
<1>1. ASSUME NEW r \in Requests, Accept(r) PROVE SleepInv'
  <2>1. pc' = pc /\ notifying' # {} /\ pc \notin {"parkIdle", "parkTimed"}
    BY <1>1 DEF Accept, MutexFree
  <2>2. QED
    BY <2>1 DEF SleepInv
<1>2. ASSUME NEW r \in Requests, TurnAway(r) PROVE SleepInv'
  BY <1>2, StillSleepInv DEF TurnAway
<1>3. ASSUME NEW r \in Requests, Notify(r) PROVE SleepInv'
  BY <1>3, WokenSleepInv DEF Notify
<1>4. CASE Top
  BY <1>4, AwakeSleepInv DEF Top, Goto
<1>5. CASE Collect
  BY <1>5, AwakeSleepInv DEF Collect
<1>6. ASSUME EvalIdle, UNCHANGED queues PROVE SleepInv'
  BY <1>6 DEF EvalIdle, IdlePredicate, SleepInv, NothingQueued, NonEmpty
<1>7. ASSUME EvalTimed, UNCHANGED queues PROVE SleepInv'
  BY <1>7 DEF EvalTimed, TimedPredicate, SleepInv, NothingHot, NonEmpty
<1>8. CASE Relock
  BY <1>8, <1>6, <1>7, AwakeSleepInv DEF Relock
<1>9. CASE Recheck
  BY <1>9, <1>6, <1>7 DEF Recheck
<1>10. CASE Park
  BY <1>10 DEF Park, Goto, SleepInv, NothingQueued, NothingHot, NonEmpty
<1>11. CASE TimeOut
  BY <1>11, AwakeSleepInv DEF TimeOut
<1>12. CASE SpuriousWake
  BY <1>12, WokenSleepInv, AwakeSleepInv DEF SpuriousWake, Goto
<1>13. ASSUME NEW b \in plans, Dispatch(b) \/ GateShut(b) \/ DispatchFails(b) PROVE SleepInv'
  BY <1>13, AwakeSleepInv DEF Dispatch, GateShut, DispatchFails, AfterPlan
<1>14. ASSUME NEW e \in Executors, ExecutorStep(e) PROVE SleepInv'
  <2>1. CASE StartBatch(e)
    BY <2>1, StillSleepInv DEF StartBatch
  <2>2. ASSUME NEW b \in xrun[e], AnswerNext(e, b) PROVE SleepInv'
    BY <2>2, StillSleepInv DEF AnswerNext
  <2>3. ASSUME NEW b \in xrun[e], FinishBatch(e, b) PROVE SleepInv'
    <3>1. CASE pc' = pc
      BY <2>3, <3>1, StillSleepInv DEF FinishBatch
    <3>2. CASE pc' # pc
      BY <2>3, <3>2, AwakeSleepInv DEF FinishBatch
    <3>3. QED
      BY <3>1, <3>2
  <2>4. QED
    BY <1>14, <2>1, <2>2, <2>3 DEF ExecutorStep
<1>15. CASE StopStore \/ StopJoin
  BY <1>15, StillSleepInv DEF StopStore, StopJoin
<1>16. CASE StopNotify
  BY <1>16, WokenSleepInv DEF StopNotify
<1>17. CASE StopDrain \/ Destroy
  BY <1>17 DEF StopDrain, Destroy, Reject, SleepInv, NothingQueued, NothingHot, NonEmpty
<1>18. CASE Tick
  BY <1>18, StillSleepInv DEF Tick
<1>19. CASE UNCHANGED vars
  BY <1>19, StillSleepInv DEF vars
<1>20. QED
  BY <1>1, <1>2, <1>3, <1>4, <1>5, <1>8, <1>9, <1>10, <1>11, <1>12, <1>13, <1>14,
     <1>15, <1>16, <1>17, <1>18, <1>19 DEF Next, SchedulerStep, StopStep

LEMMA SleepInvNoSubmitMissed == SleepInv => NoSubmitMissed
<1> SUFFICES ASSUME SleepInv, notifying = {}
             PROVE  /\ pc = "idle" => Queued = {}
                    /\ pc = "timed" => NothingHot
  BY DEF NoSubmitMissed, NothingHot
<1>1. NothingQueued => Queued = {}
  BY DEF NothingQueued, NonEmpty, Queued, QueuedIn, Members
<1>2. QED
  BY <1>1 DEF SleepInv

(* Asleep, the scheduler thread has no work it should dispatch, unless a   *)
(* notification is on its way (schedulerLoop and submit): for any number   *)
(* of submitters and any queue parameters no wakeup is lost.               *)
THEOREM NoSubmitIsMissed == Spec => []NoSubmitMissed
<1>1. Init => SleepInv
  BY InitSleepInv
<1>2. SleepInv /\ [Next]_vars => SleepInv'
  BY NextSleepInv
<1>3. SleepInv => NoSubmitMissed
  BY SleepInvNoSubmitMissed
<1>4. QED
  BY <1>1, <1>2, <1>3, PTL DEF Spec

-----------------------------------------------------------------------------
(* Type correctness.                                                       *)

LEMMA ConfigTyped ==
  ASSUME NEW k \in Keys
  PROVE  /\ Config[k] \in [max : Nat \ {0}, pref : SUBSET Int, delay : Nat]
         /\ Config[k].max \in Nat \ {0} /\ Config[k].delay \in Nat
BY SchedulerAssumption

LEMMA SubSeqTyped ==
  ASSUME NEW q \in Batch, NEW m \in Nat, m > 0, NEW n \in Nat, n <= Len(q)
  PROVE  /\ SubSeq(q, m, n) \in Batch
         /\ Len(SubSeq(q, m, n)) = IF m <= n THEN n - m + 1 ELSE 0
         /\ \A i \in 1..(n - m + 1) : SubSeq(q, m, n)[i] = q[m + i - 1]
<1>1. \A i \in m..n : q[i] \in Requests
  BY LenProperties DEF Batch
<1>2. QED
  BY <1>1, SubSeqProperties DEF Batch

LEMMA WaitTyped ==
  ASSUME TypeOK, NEW k \in Keys, NonEmpty(k)
  PROVE  Head(queues[k]) \in Requests /\ Wait(k) \in Nat
<1>1. queues[k] \in Seq(Requests) /\ queues[k] # <<>>
  BY DEF TypeOK, NonEmpty, Batch
<1>2. Head(queues[k]) \in Requests
  BY <1>1, HeadTailProperties
<1>3. QED
  BY <1>2 DEF TypeOK, Wait

\* What leaves a queue is at most what is in it.
LEMMA TakesTyped ==
  ASSUME TypeOK, NEW k \in Keys
  PROVE  /\ Len(queues[k]) \in Nat
         /\ Takes(k) \in 0..Len(queues[k])
         /\ Takes(k) <= Config[k].max
<1>1. Len(queues[k]) \in Nat
  BY LenProperties DEF TypeOK, Batch
<1>2. CASE NonEmpty(k)
  <2>1. LET n == TakeCount(Len(queues[k]), Wait(k), Config[k])
        IN  n \in 0..Len(queues[k]) /\ n <= Config[k].max
    BY <1>1, <1>2, ConfigTyped, WaitTyped, TakeCountBound
  <2>2. Config[k].max \in Nat
    BY ConfigTyped
  <2>3. QED
    BY <1>1, <2>1, <2>2 DEF Takes
<1>3. CASE ~NonEmpty(k)
  BY <1>1, <1>3, ConfigTyped DEF Takes
<1>4. QED
  BY <1>1, <1>2, <1>3

LEMMA NearestDeadlineTyped ==
  ASSUME TypeOK
  PROVE  NearestDeadline \in Nat
<1> DEFINE D == {Never} \cup {Remaining(k) : k \in InWindow}
<1>1. ASSUME NEW k \in InWindow PROVE Remaining(k) \in Nat
  <2>1. k \in Keys /\ NonEmpty(k) /\ ~(Wait(k) >= Config[k].delay)
    BY DEF InWindow, ShouldDispatch
  <2>2. QED
    BY <2>1, ConfigTyped, WaitTyped DEF Remaining
<1>2. D \subseteq Nat /\ D # {}
  BY <1>1, SchedulerAssumption
<1>3. QED
  BY <1>2, MinOfNats DEF NearestDeadline

\* A batch that runs in an executor.
RunRecord == [items : Batch, todo : Batch, wrote : BOOLEAN, good : Nat]

LEMMA RunsTyped == TypeOK => xrun \in [Executors -> SUBSET RunRecord]
BY DEF TypeOK, RunRecord

LEMMA InitTypeOK == Init => TypeOK
<1> SUFFICES ASSUME Init PROVE TypeOK
  OBVIOUS
<1>1. <<>> \in Batch /\ <<>> \in Seq(Batch)
  BY DEF Batch
<1>2. queues \in [Keys -> Batch] /\ xqueue \in [Executors -> Seq(Batch)]
  BY <1>1 DEF Init
<1>3. QED
  BY <1>1, <1>2, SchedulerAssumption DEF Init, TypeOK

LEMMA NextTypeOK ==
  ASSUME TypeOK, [Next]_vars
  PROVE  TypeOK'
<1> USE DEF workerVars, execVars, counters
<1>1. ASSUME NEW r \in Requests, Accept(r) PROVE TypeOK'
  <2>1. KeyOf[r] \in Keys /\ queues[KeyOf[r]] \in Seq(Requests)
    BY SchedulerAssumption DEF TypeOK, Batch
  <2>2. Append(queues[KeyOf[r]], r) \in Batch
    BY <2>1, AppendProperties DEF Batch
  <2>3. queues' \in [Keys -> Batch]
    BY <1>1, <2>2 DEF Accept, PushBack, TypeOK
  <2>4. QED
    BY <1>1, <2>3 DEF Accept, TypeOK
<1>2. ASSUME NEW r \in Requests, TurnAway(r) PROVE TypeOK'
  BY <1>2 DEF TurnAway, TypeOK
<1>3. ASSUME NEW r \in Requests, Notify(r) PROVE TypeOK'
  BY <1>3 DEF Notify, Woken, TypeOK
<1>4. CASE Top
  BY <1>4 DEF Top, Goto, Pruned, TypeOK
<1>5. CASE Collect
  <2>1. ASSUME NEW k \in Keys
        PROVE  SubSeq(queues[k], 1, Takes(k)) \in Batch /\ Remainder(k) \in Batch
    <3>1. queues[k] \in Batch
      BY DEF TypeOK
    <3>2. /\ Takes(k) \in Nat /\ Takes(k) <= Len(queues[k]) /\ Len(queues[k]) \in Nat
          /\ Takes(k) + 1 \in Nat /\ Takes(k) + 1 > 0
      BY TakesTyped
    <3>3. 1 \in Nat /\ 1 > 0 => SubSeq(queues[k], 1, Takes(k)) \in Batch
      BY <3>1, <3>2, SubSeqTyped
    <3>4. Remainder(k) \in Batch
      BY <3>1, <3>2, SubSeqTyped DEF Remainder
    <3>5. QED
      BY <3>3, <3>4
  <2>2. plans' \in SUBSET Batch /\ queues' \in [Keys -> Batch]
    BY <1>5, <2>1 DEF Collect, Leaving
  <2>3. age' \in [Requests -> Nat] /\ wakeIn' \in Nat
    BY <1>5, NearestDeadlineTyped DEF Collect, TypeOK
  <2>4. QED
    BY <1>5, <2>2, <2>3 DEF Collect, TypeOK
<1>6. ASSUME NEW b \in plans, Dispatch(b) \/ GateShut(b) \/ DispatchFails(b) PROVE TypeOK'
  <2>1. b \in Batch /\ Len(b) \in Nat /\ <<>> \in Batch
    BY LenProperties DEF TypeOK, Batch
  <2>2. \A e \in Executors : Append(xqueue[e], b) \in Seq(Batch)
    BY <2>1, AppendProperties DEF TypeOK
  <2>3. xqueue' \in [Executors -> Seq(Batch)]
    <3>1. CASE Dispatch(b)
      BY <3>1, <2>2 DEF Dispatch, TypeOK
    <3>2. CASE GateShut(b) \/ DispatchFails(b)
      BY <3>2 DEF GateShut, DispatchFails, TypeOK
    <3>3. QED
      BY <1>6, <3>1, <3>2
  <2>4. /\ promise' \in [Requests -> {"unborn", "pending", "ok", "error", "full", "cancelled"}]
        /\ json' \in [Requests -> {"empty", "written"}]
    BY <1>6 DEF Dispatch, GateShut, DispatchFails, TypeOK
  <2>5. /\ asking' \in Batch /\ plans' \in SUBSET Batch /\ futures' \in SUBSET Batch
        /\ pc' \in {"dispatch", "top", "parkGate"}
    BY <1>6, <2>1 DEF Dispatch, GateShut, DispatchFails, AfterPlan, TypeOK
  <2>6. batches' \in Nat /\ requests' \in Nat
    BY <1>6, <2>1 DEF Dispatch, GateShut, DispatchFails, AfterPlan, Counted, TypeOK
  <2>7. QED
    BY <1>6, <2>3, <2>4, <2>5, <2>6 DEF Dispatch, GateShut, DispatchFails, TypeOK
<1>7. CASE Relock \/ Recheck
  BY <1>7 DEF Relock, Recheck, EvalIdle, EvalTimed, TypeOK
<1>8. CASE Park \/ TimeOut \/ SpuriousWake
  BY <1>8 DEF Park, Goto, TimeOut, SpuriousWake, Woken, TypeOK
<1>9. ASSUME NEW e \in Executors, ExecutorStep(e) PROVE TypeOK'
  <2>1. CASE StartBatch(e)
    <3>1. xqueue[e] \in Seq(Batch) /\ xqueue[e] # <<>>
      BY <2>1 DEF StartBatch, TypeOK
    <3>2. Head(xqueue[e]) \in Batch /\ Tail(xqueue[e]) \in Seq(Batch)
      BY <3>1, HeadTailProperties
    <3>3. Len(Head(xqueue[e])) \in Nat
      BY <3>2, LenProperties DEF Batch
    <3>4. PICK n \in 0..Len(Head(xqueue[e])) :
            xrun' = [xrun EXCEPT ![e] = @ \cup
                       {[items |-> Head(xqueue[e]), todo |-> Head(xqueue[e]), wrote |-> FALSE, good |-> n]}]
      BY <2>1 DEF StartBatch
    <3> DEFINE no == FALSE
               new == [items |-> Head(xqueue[e]), todo |-> Head(xqueue[e]), wrote |-> no, good |-> n]
    <3>5. no \in BOOLEAN /\ n \in Nat
      BY <3>3
    <3> HIDE DEF no
    <3>6. new \in RunRecord
      BY <3>2, <3>5 DEF RunRecord
    <3>7. xrun' = [xrun EXCEPT ![e] = @ \cup {new}]
      BY <3>4 DEF no
    <3> HIDE DEF new
    <3>8. xrun' \in [Executors -> SUBSET RunRecord]
      BY <3>6, <3>7, RunsTyped
    <3>9. QED
      BY <2>1, <3>2, <3>8 DEF StartBatch, TypeOK, RunRecord
  <2>2. ASSUME NEW b \in xrun[e], AnswerNext(e, b) PROVE TypeOK'
    <3>1. b \in RunRecord
      BY RunsTyped
    <3>2. Tail(b.todo) \in Batch
      BY <3>1, <2>2, HeadTailProperties DEF AnswerNext, RunRecord, Batch
    <3>3. HalfAnswered(b) \in RunRecord /\ Answered(b) \in RunRecord
      <4> DEFINE yes == TRUE
                 no == FALSE
      <4>1. yes \in BOOLEAN /\ no \in BOOLEAN
        OBVIOUS
      <4> HIDE DEF yes, no
      <4>2. /\ [items |-> b.items, todo |-> b.todo, wrote |-> yes, good |-> b.good] \in RunRecord
            /\ [items |-> b.items, todo |-> Tail(b.todo), wrote |-> no, good |-> b.good] \in RunRecord
        BY <3>1, <3>2, <4>1 DEF RunRecord
      <4>3. QED
        BY <4>2 DEF HalfAnswered, Answered, yes, no
    <3>4. xrun' \in [Executors -> SUBSET RunRecord]
      BY <2>2, <3>3, RunsTyped DEF AnswerNext, Goes
    <3>5. /\ promise' \in [Requests -> {"unborn", "pending", "ok", "error", "full", "cancelled"}]
          /\ json' \in [Requests -> {"empty", "written"}]
      BY <2>2 DEF AnswerNext, WriteSlot, SetPromise, TypeOK
    <3>6. QED
      BY <2>2, <3>4, <3>5 DEF AnswerNext, TypeOK, RunRecord
  <2>3. ASSUME NEW b \in xrun[e], FinishBatch(e, b) PROVE TypeOK'
    BY <2>3 DEF FinishBatch, TypeOK
  <2>4. QED
    BY <1>9, <2>1, <2>2, <2>3 DEF ExecutorStep
<1>10. CASE StopStore \/ StopNotify \/ StopJoin
  BY <1>10 DEF StopStore, StopNotify, StopJoin, Woken, TypeOK
<1>11. CASE StopDrain \/ Destroy
  <2>1. <<>> \in Batch
    BY DEF Batch
  <2>2. queues' \in [Keys -> Batch] /\ age' \in [Requests -> Nat]
    BY <1>11, <2>1 DEF StopDrain, Destroy, Reject
  <2>3. promise' \in [Requests -> {"unborn", "pending", "ok", "error", "full", "cancelled"}]
    BY <1>11 DEF StopDrain, Destroy, Reject, TypeOK
  <2>4. QED
    BY <1>11, <2>2, <2>3 DEF StopDrain, Destroy, TypeOK
<1>12. CASE Tick
  <2>1. \A r \in Requests : Older(r) \in Nat
    BY DEF Older, TypeOK
  <2>2. QED
    BY <1>12, <2>1 DEF Tick, TypeOK
<1>13. CASE UNCHANGED vars
  BY <1>13 DEF vars, TypeOK
<1>14. QED
  BY <1>1, <1>2, <1>3, <1>4, <1>5, <1>6, <1>7, <1>8, <1>9, <1>10, <1>11, <1>12, <1>13
     DEF Next, SchedulerStep, StopStep

(* Every variable has its type in every reachable state, for any queue     *)
(* parameters: no queue gives away more than it holds (decideBatch), and   *)
(* the time to the nearest deadline is never negative.                     *)
THEOREM SchedulerTypeCorrect == Spec => []TypeOK
BY InitTypeOK, NextTypeOK, PTL DEF Spec

-----------------------------------------------------------------------------
(* What stop() leaves behind.  A batch in an executor is in futures until  *)
(* it has finished, the thread that prunes and fills futures is gone when  *)
(* stop() drains them, and it leaves the loop only between rounds, with no *)
(* plan in hand.                                                           *)

BatchesHaveFutures ==
  \A e \in Executors :
    /\ \A i \in DOMAIN xqueue[e] : xqueue[e][i] \in futures
    /\ \A b \in xrun[e] : b.items \in futures

StopInv ==
  /\ BatchesHaveFutures
  /\ plans # {} => pc \in {"dispatch", "parkGate", "gated"}
  /\ spc \in {"drain", "stopped", "destroyed"} => pc = "exited"
  /\ spc \in {"stopped", "destroyed"} => futures = {}

\* A future that is kept or dropped with its batch finished.
LEMMA PrunedCovers ==
  ASSUME TypeOK, BatchesHaveFutures,
         NEW F, \A b \in futures : ~Finished(b) => b \in F
  PROVE  \A e \in Executors :
           /\ \A i \in DOMAIN xqueue[e] : xqueue[e][i] \in F
           /\ \A b \in xrun[e] : b.items \in F
<1> SUFFICES ASSUME NEW e \in Executors, NEW b \in InExecutor(e)
             PROVE  b \in F
  BY DEF InExecutor, Unstarted, RunningBatches, Members
<1>1. b \in futures
  BY DEF BatchesHaveFutures, InExecutor, Unstarted, RunningBatches, Members
<1>2. ~Finished(b)
  BY DEF Finished
<1>3. QED
  BY <1>1, <1>2

LEMMA StillHaveFutures ==
  ASSUME BatchesHaveFutures, UNCHANGED <<xqueue, xrun, futures>>
  PROVE  BatchesHaveFutures'
BY DEF BatchesHaveFutures

\* Woken leaves the loop's locations outside the waits alone.
LEMMA WokenElsewhere ==
  /\ pc \in {"dispatch", "parkGate", "gated", "exited"} => Woken = pc
  /\ Woken \in {"dispatch", "parkGate", "gated", "exited"} => Woken = pc
BY DEF Woken

\* A batch that runs stays the same batch until it has finished.
LEMMA RunningKeeps ==
  ASSUME TypeOK, NEW e \in Executors, NEW b \in xrun[e], AnswerNext(e, b) \/ FinishBatch(e, b)
  PROVE  \A f \in Executors : \A c \in xrun'[f] :
           c \in xrun[f] \/ (f = e /\ c.items = b.items)
<1>1. HalfAnswered(b).items = b.items /\ Answered(b).items = b.items
  BY DEF HalfAnswered, Answered
<1>2. \/ xrun' = [xrun EXCEPT ![e] = (@ \ {b}) \cup {HalfAnswered(b)}]
      \/ xrun' = [xrun EXCEPT ![e] = (@ \ {b}) \cup {Answered(b)}]
      \/ xrun' = [xrun EXCEPT ![e] = @ \ {b}]
  BY DEF AnswerNext, Goes, FinishBatch
<1>3. QED
  BY <1>1, <1>2 DEF TypeOK

LEMMA NextStopInv ==
  ASSUME TypeOK, StopInv, [Next]_vars
  PROVE  StopInv'
<1> USE DEF workerVars, execVars, counters
<1>1. ASSUME NEW r \in Requests, Accept(r) \/ TurnAway(r) PROVE StopInv'
  BY <1>1, StillHaveFutures DEF Accept, TurnAway, StopInv
<1>2. ASSUME pc' = Woken, UNCHANGED <<plans, futures, xqueue, xrun>>,
             spc' \in {"drain", "stopped", "destroyed"} => spc' = spc
      PROVE  StopInv'
  BY <1>2, StillHaveFutures, WokenElsewhere DEF StopInv
<1>3. CASE (\E r \in Requests : Notify(r)) \/ SpuriousWake \/ StopNotify
  <2>1. CASE Goto("gated", "dispatch") /\ SpuriousWake
    BY <2>1, StillHaveFutures DEF SpuriousWake, Goto, StopInv
  <2>2. QED
    BY <1>3, <1>2, <2>1 DEF Notify, SpuriousWake, StopNotify
<1>4. CASE Top
  <2>1. \A b \in futures : ~Finished(b) => b \in futures'
    BY <1>4 DEF Top, Pruned
  <2>2. BatchesHaveFutures'
    BY <1>4, <2>1, PrunedCovers DEF Top, StopInv, BatchesHaveFutures
  <2>3. QED
    BY <1>4, <2>2 DEF Top, Goto, Pruned, StopInv
<1>5. CASE Collect
  <2>1. plans' # {} => pc' = "dispatch"
    BY <1>5 DEF Collect
  <2>2. QED
    BY <1>5, <2>1, StillHaveFutures DEF Collect, StopInv
<1>6. ASSUME NEW b \in plans, AfterPlan(b), pc = "dispatch", spc' = spc
      PROVE  /\ plans' # {} => pc' = "dispatch"
             /\ spc' \notin {"drain", "stopped", "destroyed"}
  BY <1>6 DEF AfterPlan, StopInv
<1>7. ASSUME NEW b \in plans, Dispatch(b) PROVE StopInv'
  <2>1. ASSUME NEW e \in Executors, NEW i \in DOMAIN xqueue'[e]
        PROVE  xqueue'[e][i] \in futures'
    <3>1. xqueue[e] \in Seq(Batch) /\ b \in Batch
      BY DEF TypeOK
    <3>2. xqueue'[e] = xqueue[e] \/ xqueue'[e] = Append(xqueue[e], b)
      BY <1>7 DEF Dispatch, TypeOK
    <3>3. xqueue'[e][i] = b \/ (i \in DOMAIN xqueue[e] /\ xqueue'[e][i] = xqueue[e][i])
      BY <3>1, <3>2, AppendProperties, LenProperties
    <3>4. QED
      BY <1>7, <3>3 DEF Dispatch, StopInv, BatchesHaveFutures
  <2>2. BatchesHaveFutures'
    BY <1>7, <2>1 DEF Dispatch, StopInv, BatchesHaveFutures
  <2>3. QED
    BY <1>7, <1>6, <2>2 DEF Dispatch, Offered, StopInv
<1>8. ASSUME NEW b \in plans, GateShut(b) \/ DispatchFails(b) PROVE StopInv'
  <2>1. CASE GateShut(b)
    BY <2>1, StillHaveFutures DEF GateShut, Offered, StopInv
  <2>2. CASE DispatchFails(b)
    BY <2>2, <1>6, StillHaveFutures DEF DispatchFails, Offered, StopInv
  <2>3. QED
    BY <1>8, <2>1, <2>2
<1>9. CASE Relock \/ Recheck \/ Park \/ TimeOut
  <2>1. pc \notin {"dispatch", "gated", "exited"}
        /\ (pc = "parkGate" => pc' = "gated" /\ Park)
    BY <1>9 DEF Relock, Recheck, Park, Goto, TimeOut
  <2>2. QED
    BY <1>9, <2>1, StillHaveFutures DEF Relock, Recheck, Park, TimeOut, StopInv
<1>10. ASSUME NEW e \in Executors, ExecutorStep(e) PROVE StopInv'
  <2>1. CASE StartBatch(e)
    <3>1. xqueue[e] \in Seq(Batch) /\ xqueue[e] # <<>>
      BY <2>1 DEF StartBatch, TypeOK
    <3>2. /\ Head(xqueue[e]) = xqueue[e][1] /\ 1 \in DOMAIN xqueue[e]
          /\ \A i \in DOMAIN Tail(xqueue[e]) :
               i + 1 \in DOMAIN xqueue[e] /\ Tail(xqueue[e])[i] = xqueue[e][i + 1]
      BY <3>1
    <3>3. Head(xqueue[e]) \in futures
      BY <3>2 DEF StopInv, BatchesHaveFutures
    <3>4. \A f \in Executors : \A b \in xrun'[f] : b \in xrun[f] \/ b.items = Head(xqueue[e])
      BY <2>1 DEF StartBatch, TypeOK
    <3>5. \A f \in Executors : xqueue'[f] = xqueue[f] \/ (f = e /\ xqueue'[f] = Tail(xqueue[e]))
      BY <2>1 DEF StartBatch, TypeOK
    <3>6. futures' = futures
      BY <2>1 DEF StartBatch
    <3>7. \A f \in Executors : \A b \in xrun'[f] : b.items \in futures
      BY <3>3, <3>4 DEF StopInv, BatchesHaveFutures
    <3>8. \A f \in Executors : \A i \in DOMAIN xqueue'[f] : xqueue'[f][i] \in futures
      BY <3>2, <3>5 DEF StopInv, BatchesHaveFutures
    <3>9. QED
      BY <2>1, <3>6, <3>7, <3>8 DEF StartBatch, StopInv, BatchesHaveFutures
  <2>2. ASSUME NEW b \in xrun[e], AnswerNext(e, b) \/ FinishBatch(e, b) PROVE StopInv'
    <3>1. \A f \in Executors : \A c \in xrun'[f] : c \in xrun[f] \/ c.items = b.items
      BY <2>2, RunningKeeps
    <3>2. \A f \in Executors : \A c \in xrun'[f] : c.items \in futures
      BY <3>1 DEF StopInv, BatchesHaveFutures
    <3>3. BatchesHaveFutures'
      BY <2>2, <3>2 DEF AnswerNext, FinishBatch, StopInv, BatchesHaveFutures
    <3>4. UNCHANGED <<plans, futures, spc>> /\ (pc' = pc \/ (pc = "gated" /\ pc' = "dispatch"))
      BY <2>2 DEF AnswerNext, FinishBatch
    <3>5. QED
      BY <3>3, <3>4 DEF StopInv
  <2>3. QED
    BY <1>10, <2>1, <2>2 DEF ExecutorStep
<1>11. CASE StopStore \/ StopJoin
  BY <1>11, StillHaveFutures DEF StopStore, StopJoin, StopInv
<1>12. CASE StopDrain
  <2>1. BatchesHaveFutures'
    BY <1>12, PrunedCovers DEF StopDrain, StopInv, BatchesHaveFutures
  <2>2. QED
    BY <1>12, <2>1 DEF StopDrain, StopInv
<1>13. CASE Destroy
  BY <1>13, StillHaveFutures DEF Destroy, StopInv
<1>14. CASE Tick
  BY <1>14, StillHaveFutures DEF Tick, StopInv
<1>15. CASE UNCHANGED vars
  BY <1>15, StillHaveFutures DEF vars, StopInv
<1>16. QED
  BY <1>1, <1>3, <1>4, <1>5, <1>7, <1>8, <1>9, <1>10, <1>11, <1>12, <1>13, <1>14, <1>15
     DEF Next, SchedulerStep, StopStep

LEMMA StopInvQuiescent ==
  ASSUME TypeOK, StopInv
  PROVE  QuiescentWhenStopped
<1> SUFFICES ASSUME spc \in {"stopped", "destroyed"}
             PROVE  /\ pc = "exited" /\ plans = {}
                    /\ \A e \in Executors : InExecutor(e) = {}
  BY DEF QuiescentWhenStopped
<1>1. pc = "exited" /\ plans = {} /\ futures = {}
  BY DEF StopInv
<1>2. \A e \in Executors : \A b \in InExecutor(e) : b \in futures
  BY DEF StopInv, BatchesHaveFutures, InExecutor, Unstarted, RunningBatches, Members
<1>3. QED
  BY <1>1, <1>2

(* When stop() has returned, the scheduler thread has ended and the        *)
(* executors hold no batch (stop: join, then wait for pendingFutures_):    *)
(* pruning never loses the future of a batch that is still running.        *)
THEOREM StopLeavesNothingRunning == Spec => []QuiescentWhenStopped
<1>1. Init => TypeOK /\ StopInv
  <2>1. Init => BatchesHaveFutures /\ plans = {} /\ spc = "none"
    BY DEF Init, BatchesHaveFutures
  <2>2. QED
    BY <2>1, InitTypeOK DEF StopInv
<1>2. TypeOK /\ StopInv /\ [Next]_vars => (TypeOK /\ StopInv)'
  BY NextTypeOK, NextStopInv
<1>3. TypeOK /\ StopInv => QuiescentWhenStopped
  BY StopInvQuiescent
<1>4. QED
  BY <1>1, <1>2, <1>3, PTL DEF Spec
-----------------------------------------------------------------------------
(* Where a pending request is.  Batches are formed from queues without     *)
(* repetitions, so a request is at one position of one place; the queues,  *)
(* the plans and the executors are disjoint by PendingHeldOnce itself.     *)

NoRepeats(s) == \A i, j \in DOMAIN s : s[i] = s[j] => i = j

\* q: the batches waiting in an executor, R: those that run.
Content(q, R) == (UNION {Members(q[i]) : i \in DOMAIN q}) \cup (UNION {Members(b.todo) : b \in R})

Apart(q, R) ==
  /\ \A i \in DOMAIN q : NoRepeats(q[i])
  /\ \A b \in R : NoRepeats(b.todo)
  /\ \A i, j \in DOMAIN q : i # j => Members(q[i]) \cap Members(q[j]) = {}
  /\ \A b, c \in R : b # c => Members(b.todo) \cap Members(c.todo) = {}
  /\ \A i \in DOMAIN q, b \in R : Members(q[i]) \cap Members(b.todo) = {}

QueuesApart ==
  \A k \in Keys : NoRepeats(queues[k]) /\ \A r \in QueuedIn(k) : KeyOf[r] = k

PlansApart ==
  /\ \A b \in plans : NoRepeats(b)
  /\ \A b, c \in plans : b # c => Members(b) \cap Members(c) = {}

ExecutorsApart ==
  \A e \in Executors :
    /\ Apart(xqueue[e], xrun[e])
    /\ \A r \in Content(xqueue[e], xrun[e]) : ExecutorOf[KeyOf[r]] = e

HeldInv == QueuesApart /\ PlansApart /\ ExecutorsApart /\ PendingHeldOnce

LEMMA AppendApart ==
  ASSUME NEW q \in Seq(Batch), NEW R \in SUBSET RunRecord, NEW b \in Batch,
         Apart(q, R), NoRepeats(b), Members(b) \cap Content(q, R) = {}
  PROVE  /\ Apart(Append(q, b), R)
         /\ Content(Append(q, b), R) = Content(q, R) \cup Members(b)
<1> DEFINE p == Append(q, b)
<1>1. /\ Len(q) \in Nat /\ DOMAIN q = 1..Len(q) /\ DOMAIN p = 1..(Len(q) + 1)
      /\ p[Len(q) + 1] = b /\ \A i \in 1..Len(q) : p[i] = q[i]
  BY AppendProperties, LenProperties
<1> HIDE DEF p
<1>2. \A i \in DOMAIN p : (i \in DOMAIN q /\ p[i] = q[i]) \/ (i = Len(q) + 1 /\ p[i] = b)
  BY <1>1
<1>3. \A i \in DOMAIN q : Members(q[i]) \subseteq Content(q, R)
  BY DEF Content
<1>4. \A c \in R : Members(c.todo) \subseteq Content(q, R)
  BY DEF Content
<1>5. Apart(p, R)
  BY <1>2, <1>3, <1>4 DEF Apart
<1>6. Content(p, R) = Content(q, R) \cup Members(b)
  <2>1. \A i \in DOMAIN q : i \in DOMAIN p /\ p[i] = q[i]
    BY <1>1
  <2>2. Len(q) + 1 \in DOMAIN p
    BY <1>1
  <2>3. UNION {Members(p[i]) : i \in DOMAIN p} = (UNION {Members(q[i]) : i \in DOMAIN q}) \cup Members(b)
    BY <1>1, <1>2, <2>1, <2>2
  <2>4. QED
    BY <2>3 DEF Content
<1>7. QED
  BY <1>5, <1>6 DEF p

LEMMA TailApart ==
  ASSUME NEW q \in Seq(Batch), q # <<>>, NEW R \in SUBSET RunRecord, NEW n \in Nat,
         Apart(q, R)
  PROVE  LET b == [items |-> Head(q), todo |-> Head(q), wrote |-> FALSE, good |-> n]
         IN  /\ Apart(Tail(q), R \cup {b})
             /\ Content(Tail(q), R \cup {b}) = Content(q, R)
<1> DEFINE b == [items |-> Head(q), todo |-> Head(q), wrote |-> FALSE, good |-> n]
           t == Tail(q)
<1>1. /\ Len(q) \in Nat \ {0} /\ DOMAIN q = 1..Len(q) /\ DOMAIN t = 1..(Len(q) - 1)
      /\ Head(q) = q[1] /\ \A i \in 1..(Len(q) - 1) : t[i] = q[i + 1]
  BY HeadTailProperties, LenProperties, EmptySeq
<1>2. b.todo = q[1]
  BY <1>1
<1> HIDE DEF b, t
<1>3. /\ 1 \in DOMAIN q
      /\ \A i \in DOMAIN t : i + 1 \in DOMAIN q /\ i + 1 # 1 /\ t[i] = q[i + 1]
      /\ \A i, j \in DOMAIN t : i # j => i + 1 # j + 1
      /\ \A i \in DOMAIN q : i = 1 \/ (i - 1 \in DOMAIN t /\ t[i - 1] = q[i])
  BY <1>1
<1>4. Apart(t, R \cup {b})
  <2>1. \A i \in DOMAIN t : NoRepeats(t[i]) /\ Members(t[i]) \cap Members(q[1]) = {}
    BY <1>3 DEF Apart
  <2>2. \A i, j \in DOMAIN t : i # j => Members(t[i]) \cap Members(t[j]) = {}
    BY <1>3 DEF Apart
  <2>3. NoRepeats(b.todo) /\ \A c \in R : Members(c.todo) \cap Members(b.todo) = {}
    BY <1>2, <1>3 DEF Apart
  <2>4. \A i \in DOMAIN t, c \in R : Members(t[i]) \cap Members(c.todo) = {}
    BY <1>3 DEF Apart
  <2>5. QED
    BY <1>2, <2>1, <2>2, <2>3, <2>4 DEF Apart
<1>5. Content(t, R \cup {b}) = Content(q, R)
  <2>1. UNION {Members(c.todo) : c \in R \cup {b}} = (UNION {Members(c.todo) : c \in R}) \cup Members(q[1])
    BY <1>2
  <2>2. UNION {Members(q[i]) : i \in DOMAIN q} = (UNION {Members(t[i]) : i \in DOMAIN t}) \cup Members(q[1])
    BY <1>3
  <2>3. QED
    BY <2>1, <2>2 DEF Content
<1>6. QED
  BY <1>4, <1>5 DEF b, t

\* Answering the first of a batch takes it, and only it, out of the executor.
LEMMA AnswerApart ==
  ASSUME NEW q \in Seq(Batch), NEW R \in SUBSET RunRecord, NEW b \in R, b.todo # <<>>,
         Apart(q, R)
  PROVE  LET S == (R \ {b}) \cup {Answered(b)}
         IN  /\ Apart(q, S) /\ Head(b.todo) \in Content(q, R)
             /\ Content(q, S) = Content(q, R) \ {Head(b.todo)}
<1> DEFINE a == Answered(b)
           t == b.todo
           S == (R \ {b}) \cup {a}
<1>1. t \in Seq(Requests) /\ a.todo = Tail(t)
  BY DEF RunRecord, Batch, Answered
<1>2. /\ Len(t) \in Nat \ {0} /\ DOMAIN t = 1..Len(t) /\ DOMAIN Tail(t) = 1..(Len(t) - 1)
      /\ Head(t) = t[1] /\ \A i \in 1..(Len(t) - 1) : Tail(t)[i] = t[i + 1]
  BY <1>1, HeadTailProperties, LenProperties, EmptySeq
<1>3. NoRepeats(t)
  BY DEF Apart
<1>4. NoRepeats(a.todo)
  <2>1. \A i \in DOMAIN Tail(t) : i + 1 \in DOMAIN t /\ Tail(t)[i] = t[i + 1] /\ i \in Int
    BY <1>2
  <2>2. ASSUME NEW i \in DOMAIN Tail(t), NEW j \in DOMAIN Tail(t), Tail(t)[i] = Tail(t)[j]
        PROVE  i = j
    <3>1. i + 1 = j + 1 /\ i \in Int /\ j \in Int
      BY <1>3, <2>1, <2>2 DEF NoRepeats
    <3>2. QED
      BY <3>1
  <2>3. QED
    BY <1>1, <2>2 DEF NoRepeats
<1>5. Members(a.todo) = Members(t) \ {Head(t)} /\ Head(t) \in Members(t)
  <2>1. \A i \in DOMAIN Tail(t) : i + 1 \in DOMAIN t /\ i + 1 # 1 /\ Tail(t)[i] = t[i + 1]
    BY <1>2
  <2>2. \A i \in DOMAIN t : i = 1 \/ (i - 1 \in DOMAIN Tail(t) /\ Tail(t)[i - 1] = t[i])
    BY <1>2
  <2>3. 1 \in DOMAIN t
    BY <1>2
  <2>4. \A i \in DOMAIN t : t[i] = t[1] => i = 1
    BY <1>3, <2>3 DEF NoRepeats
  <2>5. Members(Tail(t)) = Members(t) \ {t[1]}
    BY <2>1, <2>2, <2>4 DEF Members
  <2>6. QED
    BY <1>1, <1>2, <2>3, <2>5 DEF Members
<1> HIDE DEF a, t
<1>6. \A c \in S : c = a \/ (c \in R /\ c # b)
  OBVIOUS
<1>7. Apart(q, S)
  BY <1>4, <1>5, <1>6 DEF Apart, t
<1>8. /\ \A c \in R : c # b => Head(t) \notin Members(c.todo)
      /\ \A i \in DOMAIN q : Head(t) \notin Members(q[i])
  BY <1>5 DEF Apart, t
<1>9. Content(q, S) = Content(q, R) \ {Head(t)} /\ Head(t) \in Content(q, R)
  <2>1. UNION {Members(c.todo) : c \in S} = (UNION {Members(c.todo) : c \in R}) \ {Head(t)}
    BY <1>5, <1>8 DEF t
  <2>2. Head(t) \in UNION {Members(c.todo) : c \in R}
    BY <1>5 DEF t
  <2>3. QED
    BY <1>8, <2>1, <2>2 DEF Content
<1>10. QED
  BY <1>7, <1>9 DEF a, t

\* Writing its slot leaves it there.
LEMMA WriteApart ==
  ASSUME NEW q, NEW R, NEW b \in R, Apart(q, R)
  PROVE  LET S == (R \ {b}) \cup {HalfAnswered(b)}
         IN  Apart(q, S) /\ Content(q, S) = Content(q, R)
<1> DEFINE a == HalfAnswered(b)
           S == (R \ {b}) \cup {a}
<1>1. a.todo = b.todo
  BY DEF HalfAnswered
<1> HIDE DEF a
<1>2. \A c \in S : c = a \/ (c \in R /\ c # b)
  OBVIOUS
<1>3. Apart(q, S)
  BY <1>1, <1>2 DEF Apart
<1>4. UNION {Members(c.todo) : c \in S} = UNION {Members(c.todo) : c \in R}
  BY <1>1
<1>5. Content(q, S) = Content(q, R)
  BY <1>4 DEF Content
<1>6. QED
  BY <1>3, <1>5 DEF a

LEMMA FinishApart ==
  ASSUME NEW q, NEW R, NEW b \in R, b.todo = <<>>, Apart(q, R)
  PROVE  Apart(q, R \ {b}) /\ Content(q, R \ {b}) = Content(q, R)
<1>1. Members(b.todo) = {}
  BY DEF Members
<1>2. QED
  BY <1>1 DEF Apart, Content

-----------------------------------------------------------------------------
(* What a step does to the places a request can be in.                     *)

LEMMA PlacesOfExecutor ==
  ASSUME NEW q, NEW R
  PROVE  (UNION {Members(b) : b \in Members(q)}) \cup (UNION {Members(b.todo) : b \in R}) = Content(q, R)
<1>1. {Members(b) : b \in Members(q)} = {Members(q[i]) : i \in DOMAIN q}
  BY DEF Members
<1>2. QED
  BY <1>1 DEF Content

LEMMA ExecutingIsContent ==
  /\ Executing = UNION {Content(xqueue[e], xrun[e]) : e \in Executors}
  /\ Executing' = UNION {Content(xqueue'[e], xrun'[e]) : e \in Executors}
<1>1. \A e \in Executors :
        (UNION {Members(b) : b \in Unstarted(e)}) \cup (UNION {Members(b.todo) : b \in xrun[e]})
          = Content(xqueue[e], xrun[e])
  BY PlacesOfExecutor DEF Unstarted
<1>2. \A e \in Executors :
        (UNION {Members(b) : b \in Unstarted(e)'}) \cup (UNION {Members(b.todo) : b \in xrun'[e]})
          = Content(xqueue'[e], xrun'[e])
  BY PlacesOfExecutor DEF Unstarted, Members
<1>3. QED
  BY <1>1, <1>2 DEF Executing

LEMMA QueuesSame ==
  ASSUME QueuesApart, UNCHANGED queues
  PROVE  QueuesApart' /\ Queued' = Queued
BY DEF QueuesApart, Queued, QueuedIn

LEMMA PlansSame ==
  ASSUME PlansApart, UNCHANGED plans
  PROVE  PlansApart' /\ Planned' = Planned
BY DEF PlansApart, Planned

LEMMA ExecutorsSame ==
  ASSUME ExecutorsApart, UNCHANGED <<xqueue, xrun>>
  PROVE  ExecutorsApart' /\ Executing' = Executing
<1>1. ExecutorsApart'
  BY DEF ExecutorsApart
<1>2. Executing' = Executing
  BY ExecutingIsContent
<1>3. QED
  BY <1>1, <1>2

\* A step of one executor changes what that one holds.
LEMMA ExecutorChanges ==
  ASSUME NEW e \in Executors, NEW C,
         ExecutorsApart,
         \A f \in Executors : f # e => xqueue'[f] = xqueue[f] /\ xrun'[f] = xrun[f],
         Apart(xqueue'[e], xrun'[e]),
         Content(xqueue'[e], xrun'[e]) = C,
         \A r \in C : ExecutorOf[KeyOf[r]] = e
  PROVE  /\ ExecutorsApart'
         /\ Executing' = (Executing \ Content(xqueue[e], xrun[e])) \cup C
<1>1. ExecutorsApart'
  BY DEF ExecutorsApart
<1>2. \A f \in Executors : f # e =>
        /\ Content(xqueue'[f], xrun'[f]) = Content(xqueue[f], xrun[f])
        /\ \A r \in Content(xqueue[f], xrun[f]) : r \notin Content(xqueue[e], xrun[e])
  BY DEF ExecutorsApart
<1>3. QED
  BY <1>1, <1>2, ExecutingIsContent

LEMMA PlacesTyped ==
  ASSUME TypeOK
  PROVE  /\ \A b \in Batch : Members(b) \subseteq Requests
         /\ Queued \subseteq Requests /\ Planned \subseteq Requests /\ Executing \subseteq Requests
<1>1. \A b \in Batch : Members(b) \subseteq Requests
  BY LenProperties DEF Batch, Members
<1>2. Queued \subseteq Requests /\ Planned \subseteq Requests
  BY <1>1 DEF TypeOK, Queued, QueuedIn, Planned
<1>3. ASSUME NEW e \in Executors
      PROVE  Content(xqueue[e], xrun[e]) \subseteq Requests
  <2>1. xqueue[e] \in Seq(Batch)
    BY DEF TypeOK
  <2>2. \A i \in DOMAIN xqueue[e] : xqueue[e][i] \in Batch
    BY <2>1, LenProperties, ElementOfSeq
  <2>3. \A b \in xrun[e] : b.todo \in Batch
    BY DEF TypeOK
  <2>4. QED
    BY <1>1, <2>2, <2>3 DEF Content
<1>4. QED
  BY <1>1, <1>2, <1>3, ExecutingIsContent

LEMMA AppendMembers ==
  ASSUME NEW q \in Batch, NEW r \in Requests
  PROVE  /\ Members(Append(q, r)) = Members(q) \cup {r}
         /\ NoRepeats(q) /\ r \notin Members(q) => NoRepeats(Append(q, r))
<1> DEFINE p == Append(q, r)
<1>1. /\ Len(q) \in Nat /\ DOMAIN q = 1..Len(q) /\ DOMAIN p = 1..(Len(q) + 1)
      /\ p[Len(q) + 1] = r /\ \A i \in 1..Len(q) : p[i] = q[i]
  BY AppendProperties, LenProperties DEF Batch
<1> HIDE DEF p
<1>2. /\ \A i \in DOMAIN p : (i \in DOMAIN q /\ p[i] = q[i]) \/ (i = Len(q) + 1 /\ p[i] = r)
      /\ \A i \in DOMAIN q : i \in DOMAIN p /\ p[i] = q[i]
      /\ Len(q) + 1 \in DOMAIN p /\ p[Len(q) + 1] = r
  BY <1>1
<1>3. Members(p) = Members(q) \cup {r}
  BY <1>2 DEF Members
<1>4. NoRepeats(q) /\ r \notin Members(q) => NoRepeats(p)
  BY <1>2 DEF Members, NoRepeats
<1>5. QED
  BY <1>3, <1>4 DEF p

LEMMA RestOfQueue ==
  ASSUME NEW q \in Batch, NEW n \in 0..Len(q)
  PROVE  LET t == SubSeq(q, n + 1, Len(q))
         IN  /\ t \in Batch /\ Len(t) = Len(q) - n
             /\ \A i \in 1..(Len(q) - n) : t[i] = q[n + i]
<1>1. Len(q) \in Nat /\ n \in Nat /\ n <= Len(q)
  BY LenProperties DEF Batch
<1>2. /\ SubSeq(q, n + 1, Len(q)) \in Batch
      /\ Len(SubSeq(q, n + 1, Len(q))) = IF n + 1 <= Len(q) THEN Len(q) - (n + 1) + 1 ELSE 0
      /\ \A i \in 1..(Len(q) - (n + 1) + 1) : SubSeq(q, n + 1, Len(q))[i] = q[(n + 1) + i - 1]
  BY <1>1, SubSeqTyped
<1>3. ASSUME NEW L \in Nat, NEW m \in Nat, m <= L
      PROVE  /\ L - (m + 1) + 1 = L - m
             /\ \A i \in 1..(L - m) : (m + 1) + i - 1 = m + i
             /\ (IF m + 1 <= L THEN L - (m + 1) + 1 ELSE 0) = L - m
  BY <1>3
<1>4. QED
  BY <1>1, <1>2, <1>3 DEF Batch

\* A queue cut in two.
LEMMA SplitApart ==
  ASSUME NEW q \in Batch, NEW n \in 0..Len(q), NoRepeats(q)
  PROVE  LET h == SubSeq(q, 1, n)
             t == SubSeq(q, n + 1, Len(q))
         IN  /\ NoRepeats(h) /\ NoRepeats(t)
             /\ Members(h) \cup Members(t) = Members(q) /\ Members(h) \cap Members(t) = {}
<1> DEFINE h == SubSeq(q, 1, n)
           t == SubSeq(q, n + 1, Len(q))
<1>1. Len(q) \in Nat /\ DOMAIN q = 1..Len(q) /\ n \in Nat /\ n <= Len(q)
  BY LenProperties DEF Batch
<1>2. /\ h \in Seq(Requests) /\ Len(h) = n
      /\ \A i \in 1..n : h[i] = q[i]
  BY <1>1, SubSeqTyped DEF Batch
<1>3. /\ t \in Seq(Requests) /\ Len(t) = Len(q) - n
      /\ \A i \in 1..(Len(q) - n) : t[i] = q[n + i]
  BY RestOfQueue DEF Batch
<1> HIDE DEF h, t
<1>4. DOMAIN h = 1..n /\ DOMAIN t = 1..(Len(q) - n)
  BY <1>1, <1>2, <1>3, LenProperties
<1>5. /\ \A i \in DOMAIN h : i \in DOMAIN q /\ h[i] = q[i]
      /\ \A i \in DOMAIN t : n + i \in DOMAIN q /\ t[i] = q[n + i]
      /\ \A i \in DOMAIN q : (i \in DOMAIN h /\ h[i] = q[i])
                             \/ (i - n \in DOMAIN t /\ t[i - n] = q[i])
      /\ \A i \in DOMAIN h, j \in DOMAIN t : i # n + j
      /\ \A i, j \in DOMAIN t : n + i = n + j => i = j
  BY <1>1, <1>2, <1>3, <1>4
<1>6. Members(h) \cup Members(t) = Members(q)
  BY <1>5 DEF Members
<1>7. Members(h) \cap Members(t) = {}
  BY <1>5 DEF Members, NoRepeats
<1>8. NoRepeats(h) /\ NoRepeats(t)
  BY <1>5 DEF NoRepeats
<1>9. QED
  BY <1>6, <1>7, <1>8 DEF h, t

\* Forming the plans cuts every queue in two.
LEMMA CollectCuts ==
  ASSUME TypeOK, QueuesApart, NEW k \in Keys
  PROVE  LET h == SubSeq(queues[k], 1, Takes(k))
         IN  /\ NoRepeats(h) /\ NoRepeats(Remainder(k))
             /\ Members(h) \cup Members(Remainder(k)) = QueuedIn(k)
             /\ Members(h) \cap Members(Remainder(k)) = {}
             /\ k \notin Leaving => Members(h) = {}
<1>1. queues[k] \in Batch /\ Takes(k) \in 0..Len(queues[k]) /\ NoRepeats(queues[k])
  BY TakesTyped DEF TypeOK, QueuesApart
<1>2. k \notin Leaving => Takes(k) = 0
  BY <1>1 DEF Leaving
<1>3. Takes(k) = 0 => Members(SubSeq(queues[k], 1, Takes(k))) = {}
  BY SubSeqEmpty DEF Members
<1>4. QED
  BY <1>1, <1>2, <1>3, SplitApart DEF Remainder, QueuedIn

LEMMA CollectHeldInv ==
  ASSUME TypeOK, HeldInv, plans = {}, Collect
  PROVE  HeldInv'
<1> DEFINE h(k) == SubSeq(queues[k], 1, Takes(k))
<1>1. /\ plans' = {h(k) : k \in Leaving} /\ Leaving \subseteq Keys
      /\ queues' = [k \in Keys |-> Remainder(k)]
      /\ UNCHANGED <<promise, xqueue, xrun>>
  BY DEF Collect, Leaving, execVars
<1>2. \A k \in Keys : /\ NoRepeats(h(k)) /\ NoRepeats(Remainder(k))
                      /\ Members(h(k)) \cup Members(Remainder(k)) = QueuedIn(k)
                      /\ Members(h(k)) \cap Members(Remainder(k)) = {}
                      /\ k \notin Leaving => Members(h(k)) = {}
  BY CollectCuts DEF HeldInv
<1> HIDE DEF h
<1>3. \A k \in Keys : QueuedIn(k)' = Members(Remainder(k)) /\ queues'[k] = Remainder(k)
  BY <1>1 DEF QueuedIn
<1>4. \A k \in Keys : \A r \in QueuedIn(k) : KeyOf[r] = k
  BY DEF HeldInv, QueuesApart
<1>5. QueuesApart'
  BY <1>2, <1>3, <1>4 DEF QueuesApart
<1>6. PlansApart'
  BY <1>1, <1>2, <1>4 DEF PlansApart
<1>7. ExecutorsApart' /\ Executing' = Executing
  BY <1>1, ExecutorsSame DEF HeldInv
<1>8. Queued = Queued' \cup Planned' /\ Queued' \cap Planned' = {} /\ Planned = {}
  <2>1. Queued' = UNION {Members(Remainder(k)) : k \in Keys}
    BY <1>3 DEF Queued
  <2>2. Planned' = UNION {Members(h(k)) : k \in Keys}
    BY <1>1, <1>2 DEF Planned
  <2>3. Queued = Queued' \cup Planned'
    BY <1>2, <2>1, <2>2 DEF Queued
  <2>4. Queued' \cap Planned' = {}
    BY <1>2, <1>4, <2>1, <2>2
  <2>5. QED
    BY <2>3, <2>4 DEF Planned
<1>9. PendingHeldOnce'
  BY <1>1, <1>7, <1>8 DEF HeldInv, PendingHeldOnce
<1>10. QED
  BY <1>5, <1>6, <1>7, <1>9 DEF HeldInv

LEMMA AcceptHeldInv ==
  ASSUME TypeOK, HeldInv, NEW r \in Requests, Accept(r)
  PROVE  HeldInv'
<1>1. KeyOf[r] \in Keys /\ queues[KeyOf[r]] \in Batch /\ promise[r] = "unborn"
  BY SchedulerAssumption DEF TypeOK, Accept
<1>2. /\ queues' = [queues EXCEPT ![KeyOf[r]] = Append(@, r)]
      /\ promise' = [promise EXCEPT ![r] = "pending"]
      /\ UNCHANGED <<plans, xqueue, xrun>>
  BY DEF Accept, PushBack, workerVars, execVars
<1>3. r \notin Queued \cup Planned \cup Executing
  BY <1>1 DEF HeldInv, PendingHeldOnce
<1>4. \A k \in Keys : QueuedIn(k) \subseteq Queued
  BY DEF Queued
<1>5. ASSUME NEW k \in Keys
      PROVE  /\ NoRepeats(queues'[k])
             /\ QueuedIn(k)' = IF k = KeyOf[r] THEN QueuedIn(k) \cup {r} ELSE QueuedIn(k)
  <2>1. queues'[k] = IF k = KeyOf[r] THEN Append(queues[k], r) ELSE queues[k]
    BY <1>2 DEF TypeOK
  <2>2. NoRepeats(queues[k]) /\ r \notin Members(queues[k]) /\ queues[k] \in Batch
    BY <1>3, <1>4 DEF HeldInv, QueuesApart, QueuedIn, TypeOK
  <2>3. QED
    BY <2>1, <2>2, AppendMembers DEF QueuedIn
<1>6. QueuesApart'
  BY <1>5 DEF HeldInv, QueuesApart
<1>7. PlansApart' /\ ExecutorsApart' /\ Planned' = Planned /\ Executing' = Executing
  BY <1>2, PlansSame, ExecutorsSame DEF HeldInv
<1>8. Queued' = Queued \cup {r}
  BY <1>1, <1>5 DEF Queued
<1>9. PendingHeldOnce'
  BY <1>2, <1>3, <1>7, <1>8 DEF HeldInv, PendingHeldOnce, TypeOK
<1>10. QED
  BY <1>6, <1>7, <1>9 DEF HeldInv

\* A plan that is executed or fails leaves the plans, and no other shares a request.
LEMMA PlanLeaves ==
  ASSUME HeldInv, NEW b \in plans, plans' = plans \ {b}
  PROVE  /\ PlansApart' /\ Planned' = Planned \ Members(b) /\ Members(b) \subseteq Planned
         /\ NoRepeats(b)
<1>1. PlansApart
  BY DEF HeldInv
<1>2. PlansApart' /\ NoRepeats(b)
  BY <1>1 DEF PlansApart
<1>3. \A c \in plans : c # b => Members(c) \cap Members(b) = {}
  BY <1>1 DEF PlansApart
<1>4. Planned' = Planned \ Members(b)
  BY <1>3 DEF Planned
<1>5. QED
  BY <1>2, <1>4 DEF Planned

LEMMA DispatchHeldInv ==
  ASSUME TypeOK, HeldInv, BatchesWellFormed, NEW b \in plans, Dispatch(b)
  PROVE  HeldInv'
<1> DEFINE e == ExecutorOf[Key(b)]
<1>1. /\ b \in Batch /\ b # <<>> /\ \A r \in Members(b) : KeyOf[r] = Key(b)
  BY DEF TypeOK, BatchesWellFormed
<1>2. Key(b) \in Keys /\ e \in Executors /\ xqueue[e] \in Seq(Batch) /\ xrun[e] \in SUBSET RunRecord
  <2>1. b[1] \in Requests
    BY <1>1, EmptySeq, ElementOfSeq, LenProperties DEF Batch
  <2>2. Key(b) \in Keys
    BY <2>1, SchedulerAssumption DEF Key
  <2>3. QED
    BY <2>2, SchedulerAssumption DEF TypeOK, RunRecord
<1>3. /\ xqueue' = [xqueue EXCEPT ![e] = Append(@, b)]
      /\ plans' = plans \ {b}
      /\ UNCHANGED <<queues, xrun, promise>>
  BY DEF Dispatch, AfterPlan
<1>4. /\ PlansApart' /\ Planned' = Planned \ Members(b) /\ Members(b) \subseteq Planned /\ NoRepeats(b)
  BY <1>3, PlanLeaves
<1>5. QueuesApart' /\ Queued' = Queued
  BY <1>3, QueuesSame DEF HeldInv
<1>6. Members(b) \cap Executing = {} /\ Members(b) \subseteq Requests
  BY <1>1, <1>4, PlacesTyped DEF HeldInv, PendingHeldOnce
<1>7. \A f \in Executors : Content(xqueue[f], xrun[f]) \subseteq Executing
  BY ExecutingIsContent
<1> HIDE DEF e
<1>8. /\ Apart(Append(xqueue[e], b), xrun[e])
      /\ Content(Append(xqueue[e], b), xrun[e]) = Content(xqueue[e], xrun[e]) \cup Members(b)
  BY <1>1, <1>2, <1>4, <1>6, <1>7, AppendApart DEF HeldInv, ExecutorsApart
<1>9. \A f \in Executors : xqueue'[f] = (IF f = e THEN Append(xqueue[f], b) ELSE xqueue[f]) /\ xrun'[f] = xrun[f]
  BY <1>3 DEF TypeOK
<1>10. \A r \in Content(xqueue[e], xrun[e]) \cup Members(b) : ExecutorOf[KeyOf[r]] = e
  BY <1>1, <1>2 DEF e, HeldInv, ExecutorsApart
<1>11. /\ ExecutorsApart'
       /\ Executing' = Executing \cup Members(b)
  <2>1. /\ ExecutorsApart'
        /\ Executing' = (Executing \ Content(xqueue[e], xrun[e]))
                           \cup (Content(xqueue[e], xrun[e]) \cup Members(b))
    BY <1>2, <1>8, <1>9, <1>10, ExecutorChanges DEF HeldInv
  <2>2. QED
    BY <1>2, <1>7, <2>1
<1>12. PendingHeldOnce'
  BY <1>3, <1>4, <1>5, <1>6, <1>11 DEF HeldInv, PendingHeldOnce
<1>13. QED
  BY <1>4, <1>5, <1>11, <1>12 DEF HeldInv

LEMMA DispatchFailsHeldInv ==
  ASSUME TypeOK, HeldInv, NEW b \in plans, DispatchFails(b)
  PROVE  HeldInv'
<1>1. /\ plans' = plans \ {b}
      /\ promise' = [r \in Requests |-> IF r \in Members(b) THEN "error" ELSE promise[r]]
      /\ UNCHANGED <<queues, xqueue, xrun>>
  BY DEF DispatchFails, AfterPlan, execVars
<1>2. /\ PlansApart' /\ Planned' = Planned \ Members(b) /\ Members(b) \subseteq Planned
  BY <1>1, PlanLeaves
<1>3. QueuesApart' /\ ExecutorsApart' /\ Queued' = Queued /\ Executing' = Executing
  BY <1>1, QueuesSame, ExecutorsSame DEF HeldInv
<1>4. PendingHeldOnce'
  BY <1>1, <1>2, <1>3 DEF HeldInv, PendingHeldOnce
<1>5. QED
  BY <1>2, <1>3, <1>4 DEF HeldInv

LEMMA SamePlacesHeldInv ==
  ASSUME HeldInv, UNCHANGED <<queues, plans, xqueue, xrun>>,
         \A r \in Requests : promise'[r] = "pending" <=> promise[r] = "pending"
  PROVE  HeldInv'
<1>1. QueuesApart' /\ PlansApart' /\ ExecutorsApart'
  BY QueuesSame, PlansSame, ExecutorsSame DEF HeldInv
<1>2. Queued' = Queued /\ Planned' = Planned /\ Executing' = Executing
  BY QueuesSame, PlansSame, ExecutorsSame DEF HeldInv
<1>3. PendingHeldOnce'
  BY <1>2 DEF HeldInv, PendingHeldOnce
<1>4. QED
  BY <1>1, <1>3 DEF HeldInv

\* A step of an executor that moves batches about without answering.
LEMMA ExecutorMovesHeldInv ==
  ASSUME TypeOK, HeldInv, NEW e \in Executors,
         \A f \in Executors : f # e => xqueue'[f] = xqueue[f] /\ xrun'[f] = xrun[f],
         Apart(xqueue'[e], xrun'[e]),
         Content(xqueue'[e], xrun'[e]) = Content(xqueue[e], xrun[e]),
         UNCHANGED <<queues, plans, promise>>
  PROVE  HeldInv'
<1>1. \A r \in Content(xqueue[e], xrun[e]) : ExecutorOf[KeyOf[r]] = e
  BY DEF HeldInv, ExecutorsApart
<1>2. /\ ExecutorsApart'
      /\ Executing' = (Executing \ Content(xqueue[e], xrun[e])) \cup Content(xqueue[e], xrun[e])
  BY <1>1, ExecutorChanges DEF HeldInv
<1>3. Executing' = Executing
  BY <1>2, ExecutingIsContent
<1>4. QueuesApart' /\ PlansApart' /\ Queued' = Queued /\ Planned' = Planned
  BY QueuesSame, PlansSame DEF HeldInv
<1>5. PendingHeldOnce'
  BY <1>3, <1>4 DEF HeldInv, PendingHeldOnce
<1>6. QED
  BY <1>2, <1>4, <1>5 DEF HeldInv

LEMMA StartHeldInv ==
  ASSUME TypeOK, HeldInv, NEW e \in Executors, StartBatch(e)
  PROVE  HeldInv'
<1> DEFINE q == xqueue[e]
           b(n) == [items |-> Head(q), todo |-> Head(q), wrote |-> FALSE, good |-> n]
<1>1. /\ q \in Seq(Batch) /\ q # <<>> /\ Head(q) \in Batch
      /\ xrun[e] \in SUBSET RunRecord
  BY HeadTailProperties DEF StartBatch, TypeOK, RunRecord
<1>2. PICK n \in 0..Len(Head(q)) : xrun' = [xrun EXCEPT ![e] = @ \cup {b(n)}]
  BY DEF StartBatch
<1>3. n \in Nat
  BY <1>1, LenProperties DEF Batch
<1>4. xqueue'[e] = Tail(q) /\ xrun'[e] = xrun[e] \cup {b(n)}
  BY <1>2 DEF StartBatch, TypeOK
<1>5. \A f \in Executors : f # e => xqueue'[f] = xqueue[f] /\ xrun'[f] = xrun[f]
  BY <1>2 DEF StartBatch, TypeOK
<1>6. Apart(q, xrun[e])
  BY DEF HeldInv, ExecutorsApart
<1>7. /\ Apart(Tail(q), xrun[e] \cup {b(n)})
      /\ Content(Tail(q), xrun[e] \cup {b(n)}) = Content(q, xrun[e])
  BY <1>1, <1>3, <1>6, TailApart
<1>8. UNCHANGED <<queues, plans, promise>>
  BY DEF StartBatch, workerVars
<1> HIDE DEF b
<1>9. QED
  BY <1>4, <1>5, <1>7, <1>8, ExecutorMovesHeldInv

LEMMA FinishHeldInv ==
  ASSUME TypeOK, HeldInv, NEW e \in Executors, NEW b \in xrun[e], FinishBatch(e, b)
  PROVE  HeldInv'
<1>1. xrun'[e] = xrun[e] \ {b} /\ xqueue' = xqueue /\ b.todo = <<>>
  BY DEF FinishBatch, TypeOK
<1>2. \A f \in Executors : f # e => xrun'[f] = xrun[f]
  BY DEF FinishBatch, TypeOK
<1>3. Apart(xqueue[e], xrun[e])
  BY DEF HeldInv, ExecutorsApart
<1>4. /\ Apart(xqueue[e], xrun[e] \ {b})
      /\ Content(xqueue[e], xrun[e] \ {b}) = Content(xqueue[e], xrun[e])
  BY <1>1, <1>3, FinishApart
<1>5. UNCHANGED <<queues, plans, promise>>
  BY DEF FinishBatch
<1>6. QED
  BY <1>1, <1>2, <1>4, <1>5, ExecutorMovesHeldInv

\* The request whose turn it is is in the executor, and nowhere else.
LEMMA TurnIsHeld ==
  ASSUME TypeOK, HeldInv, NEW e \in Executors, NEW b \in xrun[e], b.todo # <<>>
  PROVE  /\ Head(b.todo) \in Executing /\ Head(b.todo) \in Requests
         /\ promise[Head(b.todo)] = "pending"
<1>1. b.todo \in Seq(Requests)
  BY DEF TypeOK, Batch
<1>2. Head(b.todo) = b.todo[1] /\ 1 \in DOMAIN b.todo
  BY <1>1
<1>3. Head(b.todo) \in Content(xqueue[e], xrun[e])
  BY <1>2 DEF Content, Members
<1>4. Head(b.todo) \in Executing
  BY <1>3, ExecutingIsContent
<1>5. Head(b.todo) \in Requests
  BY <1>4, PlacesTyped
<1>6. QED
  BY <1>4, <1>5 DEF HeldInv, PendingHeldOnce

\* The two statements of the task for one request.
LEMMA AnswerHalves ==
  ASSUME TypeOK, NEW e \in Executors, NEW b \in xrun[e], AnswerNext(e, b)
  PROVE  /\ b.todo # <<>>
         /\ UNCHANGED <<running, queues, plans, xqueue>>
         /\ \A f \in Executors : f # e => xrun'[f] = xrun[f]
         /\ ~b.wrote => /\ xrun'[e] = (xrun[e] \ {b}) \cup {HalfAnswered(b)}
                        /\ json' = [json EXCEPT ![Head(b.todo)] = "written"]
                        /\ UNCHANGED promise
         /\ b.wrote => /\ xrun'[e] = (xrun[e] \ {b}) \cup {Answered(b)}
                       /\ \E a \in {"ok", "error"} : promise' = [promise EXCEPT ![Head(b.todo)] = a]
                       /\ UNCHANGED json
BY DEF AnswerNext, WriteSlot, SetPromise, Goes, TypeOK, workerVars

LEMMA WriteHeldInv ==
  ASSUME TypeOK, HeldInv, NEW e \in Executors, NEW b \in xrun[e], AnswerNext(e, b), ~b.wrote
  PROVE  HeldInv'
<1>1. /\ xrun'[e] = (xrun[e] \ {b}) \cup {HalfAnswered(b)} /\ xqueue'[e] = xqueue[e]
      /\ \A f \in Executors : f # e => xqueue'[f] = xqueue[f] /\ xrun'[f] = xrun[f]
      /\ UNCHANGED <<queues, plans, promise>>
  BY AnswerHalves
<1>2. Apart(xqueue[e], xrun[e])
  BY DEF HeldInv, ExecutorsApart
<1>3. /\ Apart(xqueue[e], (xrun[e] \ {b}) \cup {HalfAnswered(b)})
      /\ Content(xqueue[e], (xrun[e] \ {b}) \cup {HalfAnswered(b)}) = Content(xqueue[e], xrun[e])
  BY <1>2, WriteApart
<1>4. QED
  BY <1>1, <1>3, ExecutorMovesHeldInv

\* Setting its promise takes a request out of the executor.
LEMMA AnswerTakes ==
  ASSUME TypeOK, HeldInv, NEW e \in Executors, NEW b \in xrun[e], AnswerNext(e, b), b.wrote
  PROVE  ExecutorsApart' /\ Executing' = Executing \ {Head(b.todo)}
<1>1. /\ xrun'[e] = (xrun[e] \ {b}) \cup {Answered(b)} /\ xqueue' = xqueue /\ b.todo # <<>>
      /\ \A f \in Executors : f # e => xrun'[f] = xrun[f]
  BY AnswerHalves
<1>2. xqueue[e] \in Seq(Batch) /\ xrun[e] \in SUBSET RunRecord
  BY DEF TypeOK, RunRecord
<1>3. Apart(xqueue[e], xrun[e]) /\ \A r \in Content(xqueue[e], xrun[e]) : ExecutorOf[KeyOf[r]] = e
  BY DEF HeldInv, ExecutorsApart
<1>4. /\ Apart(xqueue'[e], xrun'[e]) /\ Head(b.todo) \in Content(xqueue[e], xrun[e])
      /\ Content(xqueue'[e], xrun'[e]) = Content(xqueue[e], xrun[e]) \ {Head(b.todo)}
  <2> DEFINE S == (xrun[e] \ {b}) \cup {Answered(b)}
  <2>1. /\ Apart(xqueue[e], S) /\ Head(b.todo) \in Content(xqueue[e], xrun[e])
        /\ Content(xqueue[e], S) = Content(xqueue[e], xrun[e]) \ {Head(b.todo)}
    <3> DEFINE q == xqueue[e]
               R == xrun[e]
    <3>1. q \in Seq(Batch) /\ R \in SUBSET RunRecord /\ b \in R /\ b.todo # <<>> /\ Apart(q, R)
      BY <1>1, <1>2, <1>3
    <3> HIDE DEF q, R
    <3>2. /\ Apart(q, (R \ {b}) \cup {Answered(b)}) /\ Head(b.todo) \in Content(q, R)
          /\ Content(q, (R \ {b}) \cup {Answered(b)}) = Content(q, R) \ {Head(b.todo)}
      BY <3>1, AnswerApart
    <3>3. QED
      BY <3>2 DEF q, R
  <2>2. xqueue'[e] = xqueue[e] /\ xrun'[e] = S
    BY <1>1
  <2> HIDE DEF S
  <2>3. QED
    BY <2>1, <2>2
<1>5. /\ ExecutorsApart'
      /\ Executing' = (Executing \ Content(xqueue[e], xrun[e]))
                         \cup (Content(xqueue[e], xrun[e]) \ {Head(b.todo)})
  <2>1. \A r \in Content(xqueue[e], xrun[e]) \ {Head(b.todo)} : ExecutorOf[KeyOf[r]] = e
    BY <1>3
  <2>2. \A f \in Executors : f # e => xqueue'[f] = xqueue[f] /\ xrun'[f] = xrun[f]
    BY <1>1
  <2>3. ExecutorsApart
    BY DEF HeldInv
  <2>4. QED
    BY <1>4, <2>1, <2>2, <2>3, ExecutorChanges
<1>6. Executing' = Executing \ {Head(b.todo)}
  BY <1>4, <1>5, ExecutingIsContent
<1>7. QED
  BY <1>5, <1>6

LEMMA SetHeldInv ==
  ASSUME TypeOK, HeldInv, NEW e \in Executors, NEW b \in xrun[e], AnswerNext(e, b), b.wrote
  PROVE  HeldInv'
<1> DEFINE r == Head(b.todo)
<1>1. /\ r \in Executing /\ r \in Requests
      /\ ExecutorsApart' /\ Executing' = Executing \ {r}
  BY AnswerTakes, AnswerHalves, TurnIsHeld
<1>2. UNCHANGED <<queues, plans>>
  BY AnswerHalves
<1>3. \A s \in Requests : IF s = r THEN promise'[s] \in {"ok", "error"} ELSE promise'[s] = promise[s]
  BY <1>1, AnswerHalves DEF TypeOK
<1>4. QueuesApart' /\ PlansApart' /\ Queued' = Queued /\ Planned' = Planned
  BY <1>2, QueuesSame, PlansSame DEF HeldInv
<1> HIDE DEF r
<1>5. PendingHeldOnce'
  BY <1>1, <1>3, <1>4 DEF HeldInv, PendingHeldOnce
<1>6. QED
  BY <1>1, <1>4, <1>5 DEF HeldInv

LEMMA RejectHeldInv ==
  ASSUME HeldInv, Reject, UNCHANGED <<plans, xqueue, xrun>>
  PROVE  HeldInv'
<1>1. \A k \in Keys : queues'[k] = <<>>
  BY DEF Reject
<1>2. QueuesApart' /\ Queued' = {}
  BY <1>1 DEF QueuesApart, Queued, QueuedIn, NoRepeats, Members
<1>3. PlansApart' /\ Planned' = Planned /\ ExecutorsApart' /\ Executing' = Executing
  BY PlansSame, ExecutorsSame DEF HeldInv
<1>4. \A r \in Requests : promise'[r] = IF r \in Queued THEN "cancelled" ELSE promise[r]
  BY DEF Reject, Queued
<1>5. PendingHeldOnce'
  BY <1>2, <1>3, <1>4 DEF HeldInv, PendingHeldOnce
<1>6. QED
  BY <1>2, <1>3, <1>5 DEF HeldInv

LEMMA InitHeldInv == Init => HeldInv
<1> SUFFICES ASSUME Init PROVE HeldInv
  OBVIOUS
<1>1. QueuesApart /\ Queued = {}
  BY DEF Init, QueuesApart, Queued, QueuedIn, NoRepeats, Members
<1>2. PlansApart /\ Planned = {}
  BY DEF Init, PlansApart, Planned
<1>3. \A e \in Executors : Apart(xqueue[e], xrun[e]) /\ Content(xqueue[e], xrun[e]) = {}
  BY DEF Init, Apart, Content
<1>4. ExecutorsApart /\ Executing = {}
  BY <1>3, ExecutingIsContent DEF ExecutorsApart
<1>5. QED
  BY <1>1, <1>2, <1>4 DEF Init, HeldInv, PendingHeldOnce

LEMMA NextHeldInv ==
  ASSUME TypeOK, StopInv, BatchesWellFormed, HeldInv, [Next]_vars
  PROVE  HeldInv'
<1> USE DEF workerVars, execVars
<1>1. ASSUME NEW r \in Requests, Accept(r) PROVE HeldInv'
  BY <1>1, AcceptHeldInv
<1>2. ASSUME NEW r \in Requests, TurnAway(r) PROVE HeldInv'
  <2>1. \A s \in Requests : promise'[s] = "pending" <=> promise[s] = "pending"
    BY <1>2 DEF TurnAway, TypeOK
  <2>2. QED
    BY <1>2, <2>1, SamePlacesHeldInv DEF TurnAway
<1>3. CASE UNCHANGED <<queues, plans, xqueue, xrun, promise>>
  BY <1>3, SamePlacesHeldInv
<1>4. CASE (\E r \in Requests : Notify(r)) \/ Top \/ Relock \/ Recheck
  BY <1>3, <1>4 DEF Notify, Top, Relock, Recheck
<1>5. CASE Park \/ TimeOut \/ SpuriousWake \/ StopStore \/ StopNotify \/ StopJoin \/ Tick
  BY <1>3, <1>5 DEF Park, TimeOut, SpuriousWake, StopStore, StopNotify, StopJoin, Tick
<1>6. CASE Collect
  <2>1. plans = {}
    BY <1>6 DEF Collect, StopInv
  <2>2. QED
    BY <1>6, <2>1, CollectHeldInv
<1>7. ASSUME NEW b \in plans, Dispatch(b) \/ GateShut(b) \/ DispatchFails(b) PROVE HeldInv'
  BY <1>3, <1>7, DispatchHeldInv, DispatchFailsHeldInv DEF GateShut
<1>8. ASSUME NEW e \in Executors, ExecutorStep(e) PROVE HeldInv'
  BY <1>8, StartHeldInv, WriteHeldInv, SetHeldInv, FinishHeldInv DEF ExecutorStep
<1>9. CASE StopDrain \/ Destroy
  BY <1>9, RejectHeldInv DEF StopDrain, Destroy
<1>10. CASE UNCHANGED vars
  BY <1>3, <1>10 DEF vars
<1>11. QED
  BY <1>1, <1>2, <1>4, <1>5, <1>6, <1>7, <1>8, <1>9, <1>10 DEF Next, SchedulerStep, StopStep

-----------------------------------------------------------------------------
(* Batches are formed well, and only moved after that.                     *)

WellFormed(b) ==
  b # <<>> /\ Len(b) <= Config[Key(b)].max /\ \A r \in Members(b) : KeyOf[r] = Key(b)

LEMMA WellFormedBatches ==
  /\ BatchesWellFormed <=>
       /\ \A b \in plans \cup futures : WellFormed(b)
       /\ \A e \in Executors : \A b \in InExecutor(e) : WellFormed(b) /\ ExecutorOf[Key(b)] = e
  /\ BatchesWellFormed' <=>
       /\ \A b \in plans' \cup futures' : WellFormed(b)
       /\ \A e \in Executors : \A b \in InExecutor(e)' : WellFormed(b) /\ ExecutorOf[Key(b)] = e
<1>1. BatchesWellFormed <=>
       /\ \A b \in plans \cup futures : WellFormed(b)
       /\ \A e \in Executors : \A b \in InExecutor(e) : WellFormed(b) /\ ExecutorOf[Key(b)] = e
  BY DEF BatchesWellFormed, WellFormed
<1>2. BatchesWellFormed' <=>
       /\ \A b \in plans' \cup futures' : WellFormed(b)
       /\ \A e \in Executors : \A b \in InExecutor(e)' : WellFormed(b) /\ ExecutorOf[Key(b)] = e
  BY DEF BatchesWellFormed, WellFormed, Key, Members
<1>3. QED
  BY <1>1, <1>2

LEMMA NoNewBatches ==
  ASSUME BatchesWellFormed, plans' \subseteq plans, futures' \subseteq futures,
         \A e \in Executors : InExecutor(e)' \subseteq InExecutor(e)
  PROVE  BatchesWellFormed'
BY WellFormedBatches

LEMMA SameExecutors ==
  ASSUME UNCHANGED <<xqueue, xrun>>
  PROVE  \A e \in Executors : InExecutor(e)' = InExecutor(e)
BY DEF InExecutor, Unstarted, RunningBatches, Members

\* The plan of a queue: as many requests as decideBatch takes, all of its key.
LEMMA PlanWellFormed ==
  ASSUME TypeOK, QueuesApart, NEW k \in Leaving
  PROVE  WellFormed(SubSeq(queues[k], 1, Takes(k)))
<1> DEFINE b == SubSeq(queues[k], 1, Takes(k))
<1>1. /\ k \in Keys /\ Takes(k) \in Nat \ {0} /\ Takes(k) <= Len(queues[k]) /\ Len(queues[k]) \in Nat
      /\ Takes(k) <= Config[k].max /\ queues[k] \in Batch
  BY TakesTyped DEF Leaving, TypeOK
<1>2. /\ b \in Batch /\ Len(b) = Takes(k) /\ \A i \in 1..Takes(k) : b[i] = queues[k][i]
  <2> HIDE DEF b
  <2>1. ASSUME NEW q \in Batch, NEW n \in Nat \ {0}, n <= Len(q)
        PROVE  LET h == SubSeq(q, 1, n)
               IN  h \in Batch /\ Len(h) = n /\ \A i \in 1..n : h[i] = q[i]
    <3>1. /\ SubSeq(q, 1, n) \in Batch
          /\ Len(SubSeq(q, 1, n)) = IF 1 <= n THEN n - 1 + 1 ELSE 0
          /\ \A i \in 1..(n - 1 + 1) : SubSeq(q, 1, n)[i] = q[1 + i - 1]
      BY <2>1, SubSeqTyped
    <3>2. /\ 1 <= n /\ n - 1 + 1 = n
          /\ \A i \in 1..n : 1 + i - 1 = i
      BY <2>1
    <3>3. QED
      BY <3>1, <3>2
  <2>2. QED
    BY <1>1, <2>1 DEF b
<1>3. DOMAIN queues[k] = 1..Len(queues[k]) /\ DOMAIN b = 1..Takes(k)
  BY <1>1, <1>2, LenProperties DEF Batch
<1> HIDE DEF b
<1>4. \A i \in DOMAIN b : KeyOf[b[i]] = k
  BY <1>1, <1>2, <1>3 DEF QueuesApart, QueuedIn, Members
<1>5. 1 \in DOMAIN b /\ b # <<>>
  BY <1>1, <1>3
<1>6. Key(b) = k
  BY <1>4, <1>5 DEF Key
<1>7. WellFormed(b)
  BY <1>1, <1>2, <1>4, <1>5, <1>6 DEF WellFormed, Members
<1>8. QED
  BY <1>7 DEF b

LEMMA DispatchInExecutor ==
  ASSUME TypeOK, NEW b \in plans, Dispatch(b), NEW e \in Executors
  PROVE  InExecutor(e)' \subseteq InExecutor(e) \cup (IF e = ExecutorOf[Key(b)] THEN {b} ELSE {})
<1>1. xqueue[e] \in Seq(Batch) /\ b \in Batch
  BY DEF TypeOK
<1>2. /\ xqueue'[e] = (IF e = ExecutorOf[Key(b)] THEN Append(xqueue[e], b) ELSE xqueue[e])
      /\ xrun' = xrun
  BY DEF Dispatch, TypeOK
<1>3. Members(Append(xqueue[e], b)) = Members(xqueue[e]) \cup {b}
  <2>1. \A i \in DOMAIN Append(xqueue[e], b) :
          \/ Append(xqueue[e], b)[i] = b
          \/ i \in DOMAIN xqueue[e] /\ Append(xqueue[e], b)[i] = xqueue[e][i]
    BY <1>1, AppendProperties, LenProperties
  <2>2. \A i \in DOMAIN xqueue[e] :
          i \in DOMAIN Append(xqueue[e], b) /\ Append(xqueue[e], b)[i] = xqueue[e][i]
    BY <1>1, AppendProperties, LenProperties
  <2>3. \E i \in DOMAIN Append(xqueue[e], b) : Append(xqueue[e], b)[i] = b
    BY <1>1, AppendProperties, LenProperties
  <2>4. QED
    BY <2>1, <2>2, <2>3 DEF Members
<1>4. Unstarted(e)' \subseteq Unstarted(e) \cup (IF e = ExecutorOf[Key(b)] THEN {b} ELSE {})
  BY <1>2, <1>3 DEF Unstarted, Members
<1>5. QED
  BY <1>2, <1>4 DEF InExecutor, RunningBatches

LEMMA ExecutorStepInExecutor ==
  ASSUME TypeOK, NEW e \in Executors, ExecutorStep(e)
  PROVE  \A f \in Executors : InExecutor(f)' \subseteq InExecutor(f)
<1>1. CASE StartBatch(e)
  <2>1. xqueue[e] \in Seq(Batch) /\ xqueue[e] # <<>>
    BY <1>1 DEF StartBatch, TypeOK
  <2>2. /\ Head(xqueue[e]) \in Members(xqueue[e])
        /\ Members(Tail(xqueue[e])) \subseteq Members(xqueue[e])
    <3>1. /\ Head(xqueue[e]) = xqueue[e][1] /\ 1 \in DOMAIN xqueue[e]
          /\ \A i \in DOMAIN Tail(xqueue[e]) :
               i + 1 \in DOMAIN xqueue[e] /\ Tail(xqueue[e])[i] = xqueue[e][i + 1]
      BY <2>1
    <3>2. QED
      BY <3>1 DEF Members
  <2>3. \A f \in Executors : \A b \in xrun'[f] :
          b \in xrun[f] \/ (f = e /\ b.items = Head(xqueue[e]))
    BY <1>1 DEF StartBatch, TypeOK
  <2>4. \A f \in Executors : xqueue'[f] = xqueue[f] \/ (f = e /\ xqueue'[f] = Tail(xqueue[e]))
    BY <1>1 DEF StartBatch, TypeOK
  <2>5. \A f \in Executors : Unstarted(f)' \subseteq Unstarted(f)
    BY <2>2, <2>4 DEF Unstarted, Members
  <2>6. \A f \in Executors : RunningBatches(f)' \subseteq RunningBatches(f) \cup Unstarted(f)
    BY <2>2, <2>3 DEF Unstarted, RunningBatches
  <2>7. QED
    BY <2>5, <2>6 DEF InExecutor
<1>2. ASSUME NEW b \in xrun[e], AnswerNext(e, b) \/ FinishBatch(e, b)
      PROVE  \A f \in Executors : InExecutor(f)' \subseteq InExecutor(f)
  <2>1. \A f \in Executors : \A c \in xrun'[f] : c \in xrun[f] \/ (f = e /\ c.items = b.items)
    BY <1>2, RunningKeeps
  <2>2. \A f \in Executors : RunningBatches(f)' \subseteq RunningBatches(f)
    BY <2>1 DEF RunningBatches
  <2>3. xqueue' = xqueue
    BY <1>2 DEF AnswerNext, FinishBatch
  <2>4. QED
    BY <2>2, <2>3 DEF InExecutor, Unstarted, Members
<1>3. QED
  BY <1>1, <1>2 DEF ExecutorStep

LEMMA NextBatchesWellFormed ==
  ASSUME TypeOK, QueuesApart, BatchesWellFormed, [Next]_vars
  PROVE  BatchesWellFormed'
<1> USE DEF workerVars, execVars
<1>1. CASE plans' \subseteq plans /\ futures' \subseteq futures /\ UNCHANGED <<xqueue, xrun>>
  BY <1>1, NoNewBatches, SameExecutors
<1>2. ASSUME NEW r \in Requests, Accept(r) \/ TurnAway(r) \/ Notify(r) PROVE BatchesWellFormed'
  BY <1>1, <1>2 DEF Accept, TurnAway, Notify
<1>3. CASE Top
  BY <1>1, <1>3 DEF Top, Pruned
<1>4. CASE Collect
  <2>1. plans' = {SubSeq(queues[k], 1, Takes(k)) : k \in Leaving} /\ futures' = futures
    BY <1>4 DEF Collect
  <2>2. \A b \in plans' : WellFormed(b)
    BY <2>1, PlanWellFormed
  <2>3. \A e \in Executors : InExecutor(e)' = InExecutor(e)
    BY <1>4, SameExecutors DEF Collect
  <2>4. QED
    BY <2>1, <2>2, <2>3, WellFormedBatches
<1>5. ASSUME NEW b \in plans, Dispatch(b) PROVE BatchesWellFormed'
  <2>1. plans' \subseteq plans /\ futures' = futures \cup {b}
    BY <1>5 DEF Dispatch, AfterPlan
  <2>2. \A e \in Executors :
          InExecutor(e)' \subseteq InExecutor(e) \cup (IF e = ExecutorOf[Key(b)] THEN {b} ELSE {})
    BY <1>5, DispatchInExecutor
  <2>3. QED
    BY <2>1, <2>2, WellFormedBatches
<1>6. ASSUME NEW b \in plans, GateShut(b) \/ DispatchFails(b) PROVE BatchesWellFormed'
  BY <1>1, <1>6 DEF GateShut, DispatchFails, AfterPlan
<1>7. ASSUME NEW e \in Executors, ExecutorStep(e) PROVE BatchesWellFormed'
  <2>1. UNCHANGED <<plans, futures>>
    BY <1>7 DEF ExecutorStep, StartBatch, AnswerNext, FinishBatch
  <2>2. QED
    BY <1>7, <2>1, ExecutorStepInExecutor, NoNewBatches
<1>8. CASE Relock \/ Recheck \/ Park \/ TimeOut \/ SpuriousWake
  BY <1>1, <1>8 DEF Relock, Recheck, Park, TimeOut, SpuriousWake
<1>9. CASE StopStore \/ StopStep \/ Tick
  BY <1>1, <1>9 DEF StopStore, StopStep, StopNotify, StopJoin, StopDrain, Destroy, Tick
<1>10. CASE UNCHANGED vars
  BY <1>1, <1>10 DEF vars
<1>11. QED
  BY <1>2, <1>3, <1>4, <1>5, <1>6, <1>7, <1>8, <1>9, <1>10 DEF Next, SchedulerStep

LEMMA InitBatchesWellFormed == Init => BatchesWellFormed
BY DEF Init, BatchesWellFormed, InExecutor, Unstarted, RunningBatches, Members

(* Where requests are, with what the places need to stay apart.            *)
SchedulerInv == TypeOK /\ StopInv /\ HeldInv /\ BatchesWellFormed

LEMMA SchedulerInvariant == Spec => []SchedulerInv
<1>1. Init => SchedulerInv
  <2>1. Init => BatchesHaveFutures /\ plans = {} /\ spc = "none"
    BY DEF Init, BatchesHaveFutures
  <2>2. QED
    BY <2>1, InitTypeOK, InitHeldInv, InitBatchesWellFormed DEF StopInv, SchedulerInv
<1>2. SchedulerInv /\ [Next]_vars => SchedulerInv'
  <2>1. SchedulerInv /\ [Next]_vars => TypeOK' /\ StopInv' /\ HeldInv' /\ BatchesWellFormed'
    BY NextTypeOK, NextStopInv, NextHeldInv, NextBatchesWellFormed DEF SchedulerInv, HeldInv
  <2>2. QED
    BY <2>1 DEF SchedulerInv
<1>3. QED
  BY <1>1, <1>2, PTL DEF Spec

(* A pending request is in exactly one place on its way from the queue     *)
(* through a plan to an executor (submit, schedulerLoop, the batch tasks   *)
(* and stop), for any number of requests and any queue parameters.         *)
THEOREM PendingIsHeldOnce == Spec => []PendingHeldOnce
<1>1. SchedulerInv => PendingHeldOnce
  BY DEF SchedulerInv, HeldInv
<1>2. QED
  BY <1>1, SchedulerInvariant, PTL

(* No batch is empty, exceeds its queue's maximum, mixes scheduling keys   *)
(* or runs on another executor than that of its model (decideBatch,        *)
(* schedulerLoop).                                                         *)
THEOREM EveryBatchIsWellFormed == Spec => []BatchesWellFormed
<1>1. SchedulerInv => BatchesWellFormed
  BY DEF SchedulerInv
<1>2. QED
  BY <1>1, SchedulerInvariant, PTL

-----------------------------------------------------------------------------
(* The front of a queue is its oldest request.                             *)

AgesSorted ==
  /\ \A k \in Keys : \A i, j \in DOMAIN queues[k] :
        i <= j => age[queues[k][j]] <= age[queues[k][i]]
  /\ \A r \in Requests : r \notin Queued => age[r] = 0

LEMMA AcceptAgesSorted ==
  ASSUME SchedulerInv, AgesSorted, NEW r \in Requests, Accept(r)
  PROVE  AgesSorted'
<1>1. /\ queues' = [queues EXCEPT ![KeyOf[r]] = Append(@, r)] /\ age' = age
      /\ promise[r] = "unborn" /\ queues \in [Keys -> Batch] /\ age \in [Requests -> Nat]
  BY DEF Accept, PushBack, SchedulerInv, TypeOK
<1>2. r \notin Queued /\ age[r] = 0
  BY <1>1 DEF SchedulerInv, HeldInv, PendingHeldOnce, AgesSorted
<1>3. ASSUME NEW k \in Keys
      PROVE  /\ QueuedIn(k) \subseteq QueuedIn(k)'
             /\ \A i, j \in DOMAIN queues'[k] : i <= j => age[queues'[k][j]] <= age[queues'[k][i]]
  <2>1. CASE k # KeyOf[r]
    BY <1>1, <2>1 DEF AgesSorted, QueuedIn
  <2>2. CASE k = KeyOf[r]
    <3> DEFINE q == queues[k]
               p == queues'[k]
    <3>1. q \in Seq(Requests) /\ p = Append(q, r)
      BY <1>1, <2>2 DEF Batch
    <3>2. /\ Len(q) \in Nat /\ DOMAIN q = 1..Len(q) /\ DOMAIN p = 1..(Len(q) + 1)
          /\ p[Len(q) + 1] = r /\ \A i \in 1..Len(q) : p[i] = q[i] /\ q[i] \in Requests
      BY <3>1, AppendProperties, LenProperties
    <3>3. \A i, j \in DOMAIN q : i <= j => age[q[j]] <= age[q[i]]
      BY DEF AgesSorted
    <3> HIDE DEF p, q
    <3>4. \A i \in DOMAIN p : age[p[i]] \in Nat
      BY <1>1, <3>2
    <3>5. \A i, j \in DOMAIN p : i <= j => age[p[j]] <= age[p[i]]
      BY <1>2, <3>2, <3>3, <3>4
    <3>6. Members(q) \subseteq Members(p)
      BY <3>2 DEF Members
    <3>7. QED
      BY <3>5, <3>6 DEF p, q, QueuedIn, Members
  <2>3. QED
    BY <2>1, <2>2
<1>4. Queued \subseteq Queued'
  BY <1>3 DEF Queued
<1>5. QED
  BY <1>1, <1>3, <1>4 DEF AgesSorted

LEMMA CollectAgesSorted ==
  ASSUME SchedulerInv, AgesSorted, Collect
  PROVE  AgesSorted'
<1> DEFINE h(k) == SubSeq(queues[k], 1, Takes(k))
           taken == UNION {Members(h(k)) : k \in Leaving}
<1>1. /\ queues' = [k \in Keys |-> Remainder(k)]
      /\ age' = [r \in Requests |-> IF r \in taken THEN 0 ELSE age[r]]
  BY DEF Collect
<1>2. TypeOK /\ QueuesApart /\ Leaving \subseteq Keys
  BY DEF SchedulerInv, HeldInv, Leaving
<1>3. \A k \in Keys : /\ Members(h(k)) \cup Members(Remainder(k)) = QueuedIn(k)
                      /\ Members(h(k)) \cap Members(Remainder(k)) = {}
                      /\ k \notin Leaving => Members(h(k)) = {}
  BY <1>2, CollectCuts
<1> HIDE DEF h
<1>4. \A k \in Keys : \A r \in QueuedIn(k) : KeyOf[r] = k
  BY <1>2 DEF QueuesApart
<1>5. \A k \in Keys : \A r \in Members(Remainder(k)) : r \notin taken
  BY <1>2, <1>3, <1>4
<1>6. \A r \in Requests : r \notin Queued' => age'[r] = 0
  <2>1. Queued' = UNION {Members(Remainder(k)) : k \in Keys}
    BY <1>1 DEF Queued, QueuedIn
  <2>2. \A r \in Queued : r \in Queued' \/ r \in taken
    BY <1>3, <2>1 DEF Queued
  <2>3. QED
    BY <1>1, <2>2 DEF AgesSorted
<1>7. ASSUME NEW k \in Keys, NEW i \in DOMAIN queues'[k], NEW j \in DOMAIN queues'[k], i <= j
      PROVE  age'[queues'[k][j]] <= age'[queues'[k][i]]
  <2> DEFINE q == queues[k]
             n == Takes(k)
             p == Remainder(k)
  <2>1. q \in Batch /\ n \in Nat /\ n <= Len(q) /\ Len(q) \in Nat /\ queues'[k] = p
    BY <1>1, <1>2, TakesTyped DEF TypeOK
  <2>2. p \in Batch /\ Len(p) = Len(q) - n /\ \A x \in 1..(Len(q) - n) : p[x] = q[n + x]
    <3>1. n \in 0..Len(q) /\ p = SubSeq(q, n + 1, Len(q))
      BY <2>1 DEF Remainder
    <3> HIDE DEF n, p, q
    <3>2. QED
      BY <2>1, <3>1, RestOfQueue
  <2>3. /\ DOMAIN q = 1..Len(q) /\ DOMAIN p = 1..Len(p)
        /\ \A x \in DOMAIN q : q[x] \in Requests
    BY <2>1, <2>2, LenProperties, ElementOfSeq DEF Batch
  <2> HIDE DEF n, p, q
  <2>4. \A x \in DOMAIN p : n + x \in DOMAIN q /\ p[x] = q[n + x]
    BY <2>1, <2>2, <2>3
  <2>5. i \in DOMAIN p /\ j \in DOMAIN p /\ i \in Nat /\ j \in Nat
    BY <2>1, <2>3
  <2>6. n + i <= n + j
    BY <2>1, <2>5, <1>7
  <2>7. age[p[j]] <= age[p[i]]
    <3>1. age[q[n + j]] <= age[q[n + i]]
      BY <2>4, <2>5, <2>6 DEF AgesSorted, q
    <3>2. QED
      BY <3>1, <2>4, <2>5
  <2>8. \A x \in DOMAIN p : p[x] \in Requests /\ p[x] \notin taken
    BY <1>5, <2>3, <2>4 DEF p, Members
  <2>9. age'[p[j]] = age[p[j]] /\ age'[p[i]] = age[p[i]]
    BY <1>1, <2>5, <2>8
  <2>10. QED
    BY <2>1, <2>7, <2>9
<1>8. QED
  BY <1>6, <1>7 DEF AgesSorted

LEMMA TickAgesSorted ==
  ASSUME SchedulerInv, AgesSorted, Tick
  PROVE  AgesSorted'
<1>1. queues' = queues /\ age' = [r \in Requests |-> Older(r)] /\ Queued' = Queued
  BY DEF Tick, Queued, QueuedIn
<1>2. ASSUME NEW k \in Keys, NEW i \in DOMAIN queues[k], NEW j \in DOMAIN queues[k], i <= j
      PROVE  Older(queues[k][j]) <= Older(queues[k][i])
  <2> DEFINE r == queues[k][i]
             s == queues[k][j]
  <2>1. r \in QueuedIn(k) /\ s \in QueuedIn(k)
    BY DEF QueuedIn, Members
  <2>2. KeyOf[r] = k /\ KeyOf[s] = k
    BY <2>1 DEF SchedulerInv, HeldInv, QueuesApart
  <2>3. r \in Requests /\ s \in Requests /\ age[s] <= age[r]
    BY <1>2, LenProperties, ElementOfSeq DEF AgesSorted, SchedulerInv, TypeOK, Batch
  <2>4. age[r] \in Nat /\ age[s] \in Nat /\ Config[k].delay \in Nat
    BY <2>3, ConfigTyped DEF SchedulerInv, TypeOK
  <2> HIDE DEF r, s
  <2>5. Older(s) <= Older(r)
    BY <2>1, <2>2, <2>3, <2>4 DEF Older
  <2>6. QED
    BY <2>5 DEF r, s
<1>3. \A k \in Keys : \A i \in DOMAIN queues[k] : queues[k][i] \in Requests
  BY LenProperties, ElementOfSeq DEF SchedulerInv, TypeOK, Batch
<1>4. \A r \in Requests : r \notin Queued => Older(r) = age[r]
  BY SchedulerAssumption DEF Older, Queued
<1>5. QED
  BY <1>1, <1>2, <1>3, <1>4 DEF AgesSorted

LEMMA NextAgesSorted ==
  ASSUME SchedulerInv, AgesSorted, [Next]_vars
  PROVE  AgesSorted'
<1> USE DEF workerVars, execVars
<1>1. CASE UNCHANGED <<queues, age>>
  BY <1>1 DEF AgesSorted, Queued, QueuedIn
<1>2. ASSUME NEW r \in Requests, Accept(r) \/ TurnAway(r) \/ Notify(r) PROVE AgesSorted'
  BY <1>1, <1>2, AcceptAgesSorted DEF TurnAway, Notify
<1>3. CASE Collect
  BY <1>3, CollectAgesSorted
<1>4. CASE Top \/ Relock \/ Recheck \/ Park \/ TimeOut \/ SpuriousWake
  BY <1>1, <1>4 DEF Top, Relock, Recheck, Park, TimeOut, SpuriousWake
<1>5. ASSUME NEW b \in plans, Dispatch(b) \/ GateShut(b) \/ DispatchFails(b) PROVE AgesSorted'
  BY <1>1, <1>5 DEF Dispatch, GateShut, DispatchFails
<1>6. ASSUME NEW e \in Executors, ExecutorStep(e) PROVE AgesSorted'
  BY <1>1, <1>6 DEF ExecutorStep, StartBatch, AnswerNext, FinishBatch
<1>7. CASE StopStore \/ StopNotify \/ StopJoin
  BY <1>1, <1>7 DEF StopStore, StopNotify, StopJoin
<1>8. CASE StopDrain \/ Destroy
  <2>1. /\ \A k \in Keys : queues'[k] = <<>>
        /\ \A r \in Requests : age'[r] = 0
    BY <1>8 DEF StopDrain, Destroy, Reject
  <2>2. QED
    BY <2>1 DEF AgesSorted
<1>9. CASE Tick
  BY <1>9, TickAgesSorted
<1>10. CASE UNCHANGED vars
  BY <1>1, <1>10 DEF vars
<1>11. QED
  BY <1>2, <1>3, <1>4, <1>5, <1>6, <1>7, <1>8, <1>9, <1>10 DEF Next, SchedulerStep, StopStep

LEMMA SortedFront ==
  ASSUME SchedulerInv, AgesSorted
  PROVE  FrontIsOldest
<1> SUFFICES ASSUME NEW k \in Keys, NEW i \in DOMAIN queues[k]
             PROVE  age[queues[k][i]] <= Wait(k)
  BY DEF FrontIsOldest
<1>1. queues[k] \in Seq(Requests)
  BY DEF SchedulerInv, TypeOK, Batch
<1>2. 1 \in DOMAIN queues[k] /\ 1 <= i /\ Head(queues[k]) = queues[k][1]
  BY <1>1, LenProperties
<1>3. QED
  BY <1>2 DEF AgesSorted, Wait

(* decideBatch and the deadline look at the front of a queue alone, and    *)
(* no request behind it has waited longer: what enters at the back and     *)
(* leaves from the front stays sorted by age in every queue.               *)
THEOREM TheFrontIsTheOldest == Spec => []FrontIsOldest
<1>1. Init => AgesSorted
  BY DEF Init, AgesSorted
<1>2. SchedulerInv /\ AgesSorted /\ [Next]_vars => AgesSorted'
  BY NextAgesSorted
<1>3. SchedulerInv /\ AgesSorted => FrontIsOldest
  BY SortedFront
<1>4. QED
  BY <1>1, <1>2, <1>3, SchedulerInvariant, PTL DEF Spec

-----------------------------------------------------------------------------
(* The scheduler implements the reply service: a line of at most           *)
(* max_queue_size requests of each key, served from its front.             *)

ClosingInv == running <=> spc = "none"

QueuesBounded == \A k \in Keys : Len(queues[k]) <= MaxQueueSize

RefinementInv == SchedulerInv /\ ClosingInv /\ QueuesBounded

LEMMA NextClosingInv ==
  ASSUME TypeOK, ClosingInv, [Next]_vars
  PROVE  ClosingInv'
<1> USE DEF workerVars, execVars
<1>1. CASE UNCHANGED <<running, spc>>
  BY <1>1 DEF ClosingInv
<1>2. ASSUME NEW r \in Requests, Accept(r) \/ TurnAway(r) \/ Notify(r) PROVE ClosingInv'
  BY <1>1, <1>2 DEF Accept, TurnAway, Notify
<1>3. CASE Collect \/ Top \/ Relock \/ Recheck \/ Park \/ TimeOut \/ SpuriousWake \/ Tick
  BY <1>1, <1>3 DEF Collect, Top, Relock, Recheck, Park, TimeOut, SpuriousWake, Tick
<1>4. ASSUME NEW b \in plans, Dispatch(b) \/ GateShut(b) \/ DispatchFails(b) PROVE ClosingInv'
  BY <1>1, <1>4 DEF Dispatch, GateShut, DispatchFails
<1>5. ASSUME NEW e \in Executors, ExecutorStep(e) PROVE ClosingInv'
  BY <1>1, <1>5 DEF ExecutorStep, StartBatch, AnswerNext, FinishBatch
<1>6. CASE StopStore \/ StopStep
  BY <1>6 DEF StopStore, StopStep, StopNotify, StopJoin, StopDrain, Destroy, ClosingInv
<1>7. CASE UNCHANGED vars
  BY <1>1, <1>7 DEF vars
<1>8. QED
  BY <1>2, <1>3, <1>4, <1>5, <1>6, <1>7 DEF Next, SchedulerStep

\* submit lets no queue grow beyond max_queue_size, and nothing else lets one grow.
LEMMA NextQueuesBounded ==
  ASSUME TypeOK, QueuesBounded, [Next]_vars
  PROVE  QueuesBounded'
<1> USE DEF workerVars, execVars
<1>1. CASE UNCHANGED queues
  BY <1>1 DEF QueuesBounded
<1>2. ASSUME NEW r \in Requests, Accept(r) PROVE QueuesBounded'
  <2>1. queues' = [queues EXCEPT ![KeyOf[r]] = Append(@, r)] /\ ~(Len(queues[KeyOf[r]]) >= MaxQueueSize)
    BY <1>2 DEF Accept, PushBack, Full
  <2>2. ASSUME NEW k \in Keys PROVE Len(queues'[k]) <= MaxQueueSize
    <3>1. queues[k] \in Seq(Requests) /\ Len(queues[k]) \in Nat /\ MaxQueueSize \in Nat
      BY LenProperties, SchedulerAssumption DEF TypeOK, Batch
    <3>2. CASE k = KeyOf[r]
      <4>1. queues'[k] = Append(queues[k], r)
        BY <2>1, <3>2 DEF TypeOK
      <4>2. Len(Append(queues[k], r)) = Len(queues[k]) + 1
        BY <3>1, AppendProperties
      <4>3. QED
        BY <2>1, <3>1, <3>2, <4>1, <4>2
    <3>3. CASE k # KeyOf[r]
      BY <2>1, <3>3 DEF QueuesBounded
    <3>4. QED
      BY <3>2, <3>3
  <2>3. QED
    BY <2>2 DEF QueuesBounded
<1>3. ASSUME NEW r \in Requests, TurnAway(r) \/ Notify(r) PROVE QueuesBounded'
  BY <1>1, <1>3 DEF TurnAway, Notify
<1>4. CASE Collect
  <2>1. \A k \in Keys : queues'[k] = Remainder(k)
    BY <1>4 DEF Collect
  <2>2. ASSUME NEW k \in Keys PROVE Len(Remainder(k)) <= MaxQueueSize
    <3>1. queues[k] \in Batch /\ Takes(k) \in 0..Len(queues[k]) /\ Len(queues[k]) \in Nat
      BY TakesTyped DEF TypeOK
    <3>2. Len(Remainder(k)) = Len(queues[k]) - Takes(k)
      BY <3>1, RestOfQueue DEF Remainder
    <3>3. QED
      BY <3>1, <3>2, SchedulerAssumption DEF QueuesBounded
  <2>3. QED
    BY <2>1, <2>2 DEF QueuesBounded
<1>5. CASE Top \/ Relock \/ Recheck \/ Park \/ TimeOut \/ SpuriousWake \/ Tick
  BY <1>1, <1>5 DEF Top, Relock, Recheck, Park, TimeOut, SpuriousWake, Tick
<1>6. ASSUME NEW b \in plans, Dispatch(b) \/ GateShut(b) \/ DispatchFails(b) PROVE QueuesBounded'
  BY <1>1, <1>6 DEF Dispatch, GateShut, DispatchFails
<1>7. ASSUME NEW e \in Executors, ExecutorStep(e) PROVE QueuesBounded'
  BY <1>1, <1>7 DEF ExecutorStep, StartBatch, AnswerNext, FinishBatch
<1>8. CASE StopStore \/ StopNotify \/ StopJoin
  BY <1>1, <1>8 DEF StopStore, StopNotify, StopJoin
<1>9. CASE StopDrain \/ Destroy
  <2>1. \A k \in Keys : queues'[k] = <<>>
    BY <1>9 DEF StopDrain, Destroy, Reject
  <2>2. QED
    BY <2>1, SchedulerAssumption DEF QueuesBounded
<1>10. CASE UNCHANGED vars
  BY <1>1, <1>10 DEF vars
<1>11. QED
  BY <1>2, <1>3, <1>4, <1>5, <1>6, <1>7, <1>8, <1>9, <1>10 DEF Next, SchedulerStep, StopStep

LEMMA RefinementInvariant == Spec => []RefinementInv
<1>1. Init => ClosingInv /\ QueuesBounded
  BY SchedulerAssumption DEF Init, ClosingInv, QueuesBounded
<1>2. SchedulerInv /\ ClosingInv /\ QueuesBounded /\ [Next]_vars => ClosingInv' /\ QueuesBounded'
  BY NextClosingInv, NextQueuesBounded DEF SchedulerInv
<1>3. SchedulerInv /\ ClosingInv /\ QueuesBounded <=> RefinementInv
  BY DEF RefinementInv
<1>4. QED
  BY <1>1, <1>2, <1>3, SchedulerInvariant, PTL DEF Spec

\* Who waits in the reply service is queued here, and pending.
LEMMA WaitsIsQueued ==
  ASSUME TypeOK, HeldInv, NEW r
  PROVE  /\ Replies!Waits(r) <=> \E k \in Keys : r \in QueuedIn(k)
         /\ Replies!Waits(r) <=> r \in Queued
         /\ Replies!Waits(r) => r \in Requests /\ promise[r] = "pending"
<1>1. Replies!Waits(r) <=> \E k \in Keys : r \in QueuedIn(k)
  BY DEF Replies!Waits, QueuedIn, Members
<1>2. Replies!Waits(r) <=> r \in Queued
  BY <1>1 DEF Queued
<1>3. QED
  BY <1>1, <1>2, PlacesTyped DEF HeldInv, PendingHeldOnce

\* Every step is a step of the reply service, or none of its business.
LEMMA StepReplies ==
  ASSUME RefinementInv, [Next]_vars
  PROVE  [Replies!Next]_(Replies!vars)
<1> USE DEF workerVars, execVars
<1>1. TypeOK /\ ClosingInv /\ HeldInv
  BY DEF RefinementInv, SchedulerInv
<1>2. promise = [s \in Requests |-> promise[s]]
  BY <1>1 DEF TypeOK
<1>3. CASE UNCHANGED <<running, promise, queues>>
  BY <1>3 DEF Replies!vars
<1>4. ASSUME NEW r \in Requests, Accept(r) PROVE Replies!Next
  <2>1. ~(Len(queues[KeyOf[r]]) >= MaxQueueSize) /\ Len(queues[KeyOf[r]]) \in Nat /\ MaxQueueSize \in Nat
    <3>1. KeyOf[r] \in Keys
      BY SchedulerAssumption
    <3>2. QED
      BY <1>1, <1>4, <3>1, TakesTyped, SchedulerAssumption DEF Accept, Full
  <2>2. Replies!Accept(r)
    BY <1>4, <2>1 DEF Accept, PushBack, Replies!Accept
  <2>3. QED
    BY <2>2 DEF Replies!Next
<1>5. ASSUME NEW r \in Requests, TurnAway(r) PROVE Replies!Next
  <2>1. Replies!TurnAway(r)
    BY <1>5 DEF TurnAway, Full, Replies!TurnAway
  <2>2. QED
    BY <2>1 DEF Replies!Next
<1>6. CASE Collect
  <2> DEFINE n == [k \in Keys |-> Takes(k)]
  <2>1. ASSUME NEW k \in Keys PROVE n[k] \in 0..MaxQueueSize /\ n[k] <= Len(queues[k])
    <3>1. Takes(k) \in 0..Len(queues[k]) /\ Len(queues[k]) \in Nat /\ Len(queues[k]) <= MaxQueueSize
      BY <1>1, TakesTyped DEF RefinementInv, QueuesBounded
    <3>2. QED
      BY <3>1, SchedulerAssumption
  <2>2. queues' = [k \in Keys |-> SubSeq(queues[k], n[k] + 1, Len(queues[k]))]
    BY <1>6 DEF Collect, Remainder
  <2>3. UNCHANGED <<promise, running>>
    BY <1>6 DEF Collect
  <2>4. n \in [Keys -> 0..MaxQueueSize]
    BY <2>1
  <2> HIDE DEF n
  <2>5. Replies!Serve(n)
    BY <2>1, <2>2, <2>3 DEF Replies!Serve
  <2>6. QED
    BY <2>4, <2>5 DEF Replies!Next
<1>7. CASE (\E r \in Requests : Notify(r)) \/ Top \/ Relock \/ Recheck \/ Park
           \/ TimeOut \/ SpuriousWake \/ Tick
  BY <1>3, <1>7 DEF Notify, Top, Relock, Recheck, Park, TimeOut, SpuriousWake, Tick
<1>8. ASSUME NEW b \in plans, Dispatch(b) \/ GateShut(b) PROVE UNCHANGED <<running, promise, queues>>
  BY <1>8 DEF Dispatch, GateShut
<1>9. ASSUME NEW b \in plans, DispatchFails(b) PROVE Replies!Next
  <2>1. b \in Batch /\ b # <<>>
    BY DEF RefinementInv, SchedulerInv, BatchesWellFormed, TypeOK
  <2>2. b[1] \in Members(b)
    BY <2>1, LenProperties, EmptySeq DEF Batch, Members
  <2>3. Members(b) \subseteq Requests /\ Members(b) \subseteq Planned
    BY <1>1, <2>1, PlacesTyped DEF Planned
  <2>4. \A r \in Members(b) : promise[r] = "pending" /\ ~Replies!Waits(r)
    BY <1>1, <2>3, WaitsIsQueued DEF HeldInv, PendingHeldOnce
  <2>5. Replies!Answer(Members(b))
    BY <1>9, <2>2, <2>4 DEF DispatchFails, Replies!Answer
  <2>6. QED
    BY <2>3, <2>5 DEF Replies!Next
<1>10. ASSUME NEW e \in Executors, NEW b \in xrun[e], AnswerNext(e, b)
       PROVE  [Replies!Next]_(Replies!vars)
  <2>1. CASE ~b.wrote
    BY <1>1, <1>3, <1>10, <2>1, AnswerHalves
  <2>2. CASE b.wrote
    <3> DEFINE r == Head(b.todo)
    <3>1. r \in Requests /\ promise[r] = "pending" /\ r \in Executing
      BY <1>1, <1>10, AnswerHalves, TurnIsHeld
    <3>2. PICK a \in {"ok", "error"} : promise' = [promise EXCEPT ![r] = a]
      BY <1>1, <1>10, <2>2, AnswerHalves
    <3>3. running' = running /\ queues' = queues
      BY <1>1, <1>10, AnswerHalves
    <3> HIDE DEF r
    <3>4. promise' = [s \in Requests |-> IF s \in {r} THEN a ELSE promise[s]]
      BY <1>2, <3>2
    <3>5. ~Replies!Waits(r)
      BY <1>1, <3>1, WaitsIsQueued DEF HeldInv, PendingHeldOnce
    <3>6. Replies!Answer({r})
      BY <3>1, <3>3, <3>4, <3>5 DEF Replies!Answer
    <3>7. QED
      BY <3>1, <3>6 DEF Replies!Next
  <2>3. QED
    BY <2>1, <2>2
<1>11. ASSUME NEW e \in Executors, ExecutorStep(e) PROVE [Replies!Next]_(Replies!vars)
  <2>1. CASE StartBatch(e) \/ \E b \in xrun[e] : FinishBatch(e, b)
    BY <1>3, <2>1 DEF StartBatch, FinishBatch
  <2>2. QED
    BY <1>10, <1>11, <2>1 DEF ExecutorStep
<1>12. CASE StopStore
  <2>1. Replies!Close
    BY <1>1, <1>12 DEF StopStore, ClosingInv, Replies!Close
  <2>2. QED
    BY <2>1 DEF Replies!Next
<1>13. CASE StopNotify \/ StopJoin
  BY <1>3, <1>13 DEF StopNotify, StopJoin
<1>14. CASE StopDrain \/ Destroy
  <2>1. running' = running /\ ~running /\ Reject
    BY <1>1, <1>14 DEF StopDrain, Destroy, ClosingInv
  <2>2. promise' = [r \in Requests |-> IF Replies!Waits(r) THEN "cancelled" ELSE promise[r]]
    BY <1>1, <2>1, WaitsIsQueued DEF Reject
  <2>3. Replies!Cancel
    BY <2>1, <2>2 DEF Reject, Replies!Cancel
  <2>4. QED
    BY <2>3 DEF Replies!Next
<1>15. CASE UNCHANGED vars
  BY <1>3, <1>15 DEF vars
<1>16. QED
  BY <1>3, <1>4, <1>5, <1>6, <1>7, <1>8, <1>9, <1>11, <1>12, <1>13, <1>14, <1>15
     DEF Next, SchedulerStep, StopStep

(* The scheduler implements the reply service: at most max_queue_size      *)
(* requests of a key wait, one is turned away exactly when that many do,   *)
(* they leave their queue from the front, each is answered once, and only  *)
(* one that still waits is cancelled by a shutdown, whatever the batching, *)
(* the executors and the timing do.                                        *)
THEOREM SchedulerImplementsReplyService == Spec => ImplementsReplyService
<1>1. Init => Replies!Init
  BY DEF Init, Replies!Init
<1>2. RefinementInv /\ [Next]_vars => [Replies!Next]_(Replies!vars)
  BY StepReplies
<1>3. QED
  BY <1>1, <1>2, RefinementInvariant, PTL DEF Spec, ImplementsReplyService, Replies!Spec

LEMMA RepliesAreFinal ==
  ASSUME TypeOK, HeldInv, [Replies!Next]_(Replies!vars), NEW r \in Requests,
         promise[r] \notin {"unborn", "pending"}
  PROVE  promise'[r] = promise[r]
<1>1. ASSUME NEW s \in Requests, Replies!Accept(s) \/ Replies!TurnAway(s)
      PROVE  promise'[r] = promise[r]
  BY <1>1 DEF Replies!Accept, Replies!TurnAway, TypeOK
<1>2. ASSUME NEW R \in SUBSET Requests, Replies!Answer(R)
      PROVE  promise'[r] = promise[r]
  BY <1>2 DEF Replies!Answer
<1>3. CASE Replies!Cancel
  BY <1>3, WaitsIsQueued DEF Replies!Cancel
<1>4. QED
  BY <1>1, <1>2, <1>3 DEF Replies!Next, Replies!Serve, Replies!Close, Replies!vars

(* No promise gets a second value: neither an executor that answers, nor a *)
(* batch that cannot be submitted, nor stop() touches an answered request. *)
THEOREM NoReplyIsOverwritten == Spec => AnsweredOnce
<1>1. RefinementInv /\ [Next]_vars
        => [\A r \in Requests : promise[r] \notin {"unborn", "pending"} => promise'[r] = promise[r]]_vars
  BY StepReplies, RepliesAreFinal DEF RefinementInv, SchedulerInv
<1>2. QED
  BY <1>1, RefinementInvariant, PTL DEF Spec, AnsweredOnce

-----------------------------------------------------------------------------
(* The slot is written before the promise is set, and never after.         *)

WrittenFirst ==
  /\ \A r \in Requests : promise[r] \in {"ok", "error"} => json[r] = "written"
  /\ \A e \in Executors : \A b \in xrun[e] :
       b.wrote => b.todo # <<>> /\ json[Head(b.todo)] = "written"

LEMMA StepWrites ==
  ASSUME RefinementInv, WrittenFirst, [Next]_vars
  PROVE  /\ WrittenFirst'
         /\ \A r \in Requests : json'[r] # json[r] => promise[r] = "pending"
<1> DEFINE Good == /\ WrittenFirst'
                   /\ \A r \in Requests : json'[r] # json[r] => promise[r] = "pending"
<1> USE DEF workerVars, execVars
<1>1. TypeOK /\ HeldInv
  BY DEF RefinementInv, SchedulerInv
<1>2. ASSUME UNCHANGED <<json, xrun>>,
             \A r \in Requests : promise'[r] = promise[r] \/ promise'[r] \notin {"ok", "error"}
      PROVE  Good
  BY <1>2 DEF WrittenFirst
<1>3. ASSUME NEW r \in Requests, Accept(r) \/ TurnAway(r) \/ Notify(r) PROVE Good
  <2>1. \A s \in Requests : promise'[s] = promise[s] \/ promise'[s] \notin {"ok", "error"}
    BY <1>1, <1>3 DEF Accept, TurnAway, Notify, TypeOK
  <2>2. QED
    BY <1>2, <1>3, <2>1 DEF Accept, TurnAway, Notify
<1>4. CASE Collect \/ Top \/ Relock \/ Recheck \/ Park \/ TimeOut \/ SpuriousWake \/ Tick
  BY <1>2, <1>4 DEF Collect, Top, Relock, Recheck, Park, TimeOut, SpuriousWake, Tick
<1>5. ASSUME NEW b \in plans, Dispatch(b) \/ GateShut(b) PROVE Good
  BY <1>2, <1>5 DEF Dispatch, GateShut
<1>6. ASSUME NEW b \in plans, DispatchFails(b) PROVE Good
  <2>1. Members(b) \subseteq Planned
    BY DEF Planned
  <2>2. \A r \in Requests : r \in Members(b) => promise[r] = "pending"
    BY <1>1, <2>1 DEF HeldInv, PendingHeldOnce
  <2>3. \A r \in Requests : json'[r] = IF r \in Members(b) THEN "written" ELSE json[r]
    BY <1>6 DEF DispatchFails
  <2>4. \A r \in Requests : promise'[r] = IF r \in Members(b) THEN "error" ELSE promise[r]
    BY <1>6 DEF DispatchFails
  <2>5. xrun' = xrun
    BY <1>6 DEF DispatchFails
  <2>6. \A e \in Executors : \A c \in xrun[e] : c.todo # <<>> => Head(c.todo) \in Requests
    BY <1>1, TurnIsHeld
  <2>7. QED
    BY <2>2, <2>3, <2>4, <2>5, <2>6 DEF WrittenFirst
<1>7. ASSUME NEW e \in Executors, NEW b \in xrun[e], AnswerNext(e, b) PROVE Good
  <2> DEFINE r == Head(b.todo)
  <2>1. promise[r] = "pending" /\ r \in Requests /\ b.todo # <<>>
    BY <1>1, <1>7, AnswerHalves, TurnIsHeld
  <2>2. \A f \in Executors : \A c \in xrun'[f] :
          \/ c \in xrun[f]
          \/ f = e /\ c = HalfAnswered(b) /\ ~b.wrote
          \/ f = e /\ c = Answered(b) /\ b.wrote
    BY <1>1, <1>7, AnswerHalves
  <2>3. HalfAnswered(b).todo = b.todo /\ Answered(b).wrote = FALSE
    BY DEF HalfAnswered, Answered
  <2>4. \A f \in Executors : \A c \in xrun[f] : c.todo # <<>> => Head(c.todo) \in Requests
    BY <1>1, TurnIsHeld
  <2>5. json \in [Requests -> {"empty", "written"}] /\ promise = [s \in Requests |-> promise[s]]
    BY <1>1 DEF TypeOK
  <2>6. CASE ~b.wrote
    <3>1. promise' = promise /\ \A s \in Requests : json'[s] = IF s = r THEN "written" ELSE json[s]
      BY <1>1, <1>7, <2>5, <2>6, AnswerHalves
    <3> HIDE DEF r
    <3>2. \A s \in Requests : json'[s] # json[s] => promise[s] = "pending"
      BY <2>1, <3>1
    <3>3. \A s \in Requests : promise'[s] \in {"ok", "error"} => json'[s] = "written"
      BY <3>1 DEF WrittenFirst
    <3>4. ASSUME NEW f \in Executors, NEW c \in xrun'[f], c.wrote
          PROVE  c.todo # <<>> /\ json'[Head(c.todo)] = "written"
      BY <2>1, <2>2, <2>3, <2>4, <2>6, <3>1, <3>4 DEF WrittenFirst, r
    <3>5. QED
      BY <3>2, <3>3, <3>4 DEF WrittenFirst
  <2>7. CASE b.wrote
    <3>1. json' = json /\ \A s \in Requests : s # r => promise'[s] = promise[s]
      BY <1>1, <1>7, <2>5, <2>7, AnswerHalves
    <3>2. json[r] = "written"
      BY <2>7 DEF WrittenFirst
    <3> HIDE DEF r
    <3>3. \A s \in Requests : promise'[s] \in {"ok", "error"} => json'[s] = "written"
      BY <3>1, <3>2 DEF WrittenFirst
    <3>4. ASSUME NEW f \in Executors, NEW c \in xrun'[f], c.wrote
          PROVE  c.todo # <<>> /\ json'[Head(c.todo)] = "written"
      BY <2>2, <2>3, <2>7, <3>1, <3>4 DEF WrittenFirst
    <3>5. QED
      BY <3>1, <3>3, <3>4 DEF WrittenFirst
  <2>8. QED
    BY <2>6, <2>7
<1>8. ASSUME NEW e \in Executors, ExecutorStep(e) PROVE Good
  <2>1. CASE StartBatch(e)
    <3>1. \A f \in Executors : \A c \in xrun'[f] : c \in xrun[f] \/ c.wrote = FALSE
      BY <1>1, <2>1 DEF StartBatch, TypeOK
    <3>2. UNCHANGED <<json, promise>>
      BY <2>1 DEF StartBatch
    <3>3. QED
      BY <3>1, <3>2 DEF WrittenFirst
  <2>2. ASSUME NEW b \in xrun[e], FinishBatch(e, b) PROVE Good
    <3>1. \A f \in Executors : \A c \in xrun'[f] : c \in xrun[f]
      BY <1>1, <2>2 DEF FinishBatch, TypeOK
    <3>2. UNCHANGED <<json, promise>>
      BY <2>2 DEF FinishBatch
    <3>3. QED
      BY <3>1, <3>2 DEF WrittenFirst
  <2>3. QED
    BY <1>7, <1>8, <2>1, <2>2 DEF ExecutorStep
<1>9. CASE StopStore \/ StopNotify \/ StopJoin
  BY <1>2, <1>9 DEF StopStore, StopNotify, StopJoin
<1>10. CASE StopDrain \/ Destroy
  BY <1>2, <1>10 DEF StopDrain, Destroy, Reject
<1>11. CASE UNCHANGED vars
  BY <1>2, <1>11 DEF vars
<1>12. QED
  BY <1>3, <1>4, <1>5, <1>6, <1>8, <1>9, <1>10, <1>11 DEF Next, SchedulerStep, StopStep

(* Of a request that reached an executor, or whose batch could not be      *)
(* submitted, the handler finds the result in the slot as soon as the      *)
(* promise wakes it, and nobody writes the slot under its hands: the two   *)
(* statements of the batch task are separate steps, and a running batch    *)
(* that is between them has written the slot of the request it is at.      *)
THEOREM TheSlotIsWrittenFirst == Spec => ResultBeforePromise
<1>1. Init => WrittenFirst
  BY DEF Init, WrittenFirst
<1>2. RefinementInv /\ WrittenFirst /\ [Next]_vars
        => /\ WrittenFirst'
           /\ [\A r \in Requests : json'[r] # json[r] => promise[r] = "pending"]_vars
  BY StepWrites
<1>3. WrittenFirst => \A r \in Requests : promise[r] \in {"ok", "error"} => json[r] # "empty"
  BY DEF WrittenFirst
<1>4. QED
  BY <1>1, <1>2, <1>3, RefinementInvariant, PTL DEF Spec, ResultBeforePromise

-----------------------------------------------------------------------------
(* The settings: whatever the file and the hardware, the parameters the    *)
(* server ends up with are ones that its parts can work with.              *)

Scenarios == {"CPU_ONLY", "GPU_ONLY", "MIXED"}

\* What DynamicBatchScheduler assumes of the parameters of a queue.
QueueParameters == {c \in [max : Nat \ {0}, pref : SUBSET Int, delay : Nat] : IsFiniteSet(c.pref)}

-----------------------------------------------------------------------------
(* Loading.                                                                *)

LEMMA DerivedSizesTyped ==
  ASSUME NEW max \in Nat \ {0}
  PROVE  DerivedSizes(max) \subseteq Int /\ IsFiniteSet(DerivedSizes(max))
<1> DEFINE a == IF max >= 16 THEN 4 ELSE max \div 4
<1>1. a \in Int /\ max \div 2 \in Int /\ max \in Int
  OBVIOUS
<1>2. IsFiniteSet({a} \union {max \div 2} \union {max})
  BY FS_Singleton, FS_Union
<1>3. IsFiniteSet({max \div 2} \union {max}) /\ IsFiniteSet({1})
  BY FS_Singleton, FS_Union
<1>4. /\ {a, max \div 2, max} = {a} \union {max \div 2} \union {max}
      /\ {max \div 2, max} = {max \div 2} \union {max}
  OBVIOUS
<1> DEFINE half == max \div 2
<1>5. CASE max >= 8
  <2>1. DerivedSizes(max) = {a, half, max}
    BY <1>5 DEF DerivedSizes
  <2> HIDE DEF a, half
  <2>2. QED
    BY <1>1, <1>2, <1>4, <2>1 DEF half
<1>6. CASE max < 8 /\ max >= 2
  <2>1. DerivedSizes(max) = {half, max}
    BY <1>6 DEF DerivedSizes
  <2> HIDE DEF a, half
  <2>2. QED
    BY <1>1, <1>3, <1>4, <2>1 DEF half
<1>7. CASE max < 2
  <2>1. DerivedSizes(max) = {1}
    BY <1>7 DEF DerivedSizes
  <2>2. QED
    BY <1>3, <2>1
<1>8. QED
  BY <1>5, <1>6, <1>7

\* The delay of the file is given in microseconds, or in milliseconds that can be
\* converted to them.
DelayFits(f) ==
  "max_queue_delay_us" \notin DOMAIN f => Given(f, "max_delay_ms", 10) <= 2147483

LEMMA TimesFits ==
  ASSUME NEW ms \in Int, 1 <= ms, ms <= 2147483
  PROVE  Times(ms, 1000) = ms * 1000
<1>1. ms * 1000 \in Int /\ 0 <= ms * 1000 /\ ms * 1000 <= 2147483000
  BY SMT
<1>2. MaxInt \in Int /\ MaxInt >= 2147483000
  BY SMT DEF MaxInt
<1>3. ms * 1000 \in IntRange
  BY SMT, <1>1, <1>2 DEF IntRange
<1>4. QED
  BY <1>3 DEF Times

LEMMA IntRangeInt ==
  /\ IntRange \subseteq Int
  /\ 0 .. MaxInt \subseteq IntRange /\ 1 .. MaxInt \subseteq IntRange /\ 0 \in IntRange
<1>1. MaxInt \in Int /\ MaxInt >= 0
  BY SMT DEF MaxInt
<1>2. QED
  BY <1>1 DEF IntRange

\* Microseconds between 2^31 and 2^32 come out negative.
LEMMA TimesWraps ==
  ASSUME NEW ms \in Int, 2147484 <= ms, ms <= 4294967
  PROVE  Times(ms, 1000) \in Int /\ Times(ms, 1000) < 0
<1>1. PICK us \in Int : us = ms * 1000 /\ 2147484000 <= us /\ us <= 4294967000
  BY SMT
<1>2. MaxInt \in Int /\ MaxInt < 2147484000
  BY SMT DEF MaxInt
<1>3. us \notin IntRange
  BY SMT, <1>1, <1>2 DEF IntRange
<1>4. Times(ms, 1000) = Wrapped(us)
  BY SMT, <1>1, <1>3 DEF Times
<1>5. (us + 2147483648) % 4294967296 = us - 2147483648
  BY SMT, <1>1
<1>6. Wrapped(us) = us - 4294967296
  BY SMT, <1>1, <1>5 DEF Wrapped, MaxInt
<1>7. QED
  BY SMT, <1>1, <1>4, <1>6

LEMMA NumbersTyped ==
  ASSUME NEW f, IsFile(f)
  PROVE  \A s \in Number : s \in DOMAIN f => f[s] \in Int
BY IntRangeInt DEF IsFile

LEMMA LoadedTyped ==
  ASSUME NEW f, IsFile(f), Accepted(f), DelayFits(f)
  PROVE  LoadConfig(f).global \in QueueParameters
<1> DEFINE max == Given(f, "max_batch_size", 8)
           pref == Given(f, Sizes, DerivedSizes(max))
<1>1. max \in Nat \ {0}
  <2>1. "max_batch_size" \in Number
    BY DEF Number
  <2>2. CASE "max_batch_size" \in DOMAIN f
    <3>1. f["max_batch_size"] \in Int /\ f["max_batch_size"] >= 1
      BY <2>1, <2>2, NumbersTyped DEF Accepted
    <3>2. QED
      BY <2>2, <3>1 DEF Given
  <2>3. CASE "max_batch_size" \notin DOMAIN f
    BY <2>3 DEF Given
  <2>4. QED
    BY <2>2, <2>3
<1>2. pref \subseteq Int /\ IsFiniteSet(pref)
  <2> HIDE DEF max
  <2>1. QED
    BY <1>1, DerivedSizesTyped DEF IsFile, Given
<1>3. QueueDelay(f) \in Nat
  <2>1. CASE "max_queue_delay_us" \in DOMAIN f
    <3>1. f["max_queue_delay_us"] \in Int
      BY <2>1, NumbersTyped DEF Number
    <3>2. QED
      BY <2>1, <3>1 DEF QueueDelay
  <2>2. CASE "max_queue_delay_us" \notin DOMAIN f
    <3> DEFINE ms == Given(f, "max_delay_ms", 10)
    <3>1. ms \in Int /\ 1 <= ms /\ ms <= 2147483
      <4>1. "max_delay_ms" \in Number
        BY DEF Number
      <4>2. CASE "max_delay_ms" \in DOMAIN f
        <5>1. f["max_delay_ms"] \in Int /\ f["max_delay_ms"] >= 1
          BY <4>1, <4>2, NumbersTyped DEF Accepted
        <5>2. QED
          BY SMT, <2>2, <4>2, <5>1 DEF Given, DelayFits
      <4>3. CASE "max_delay_ms" \notin DOMAIN f
        BY SMT, <4>3 DEF Given
      <4>4. QED
        BY SMT, <4>2, <4>3
    <3> HIDE DEF ms
    <3>2. Times(ms, 1000) = ms * 1000 /\ ms * 1000 \in Nat
      BY SMT, <3>1, TimesFits
    <3>3. QED
      BY <2>2, <3>2 DEF QueueDelay, ms
  <2>3. QED
    BY <2>1, <2>2
<1> HIDE DEF max, pref
<1>4. QED
  BY <1>1, <1>2, <1>3 DEF LoadConfig, QueueParameters, max, pref

\* A file that loadConfig accepts gives every model queue parameters the scheduler
\* can work with, whatever its per-model entries, when its delay fits an int:
\* loadConfig and resolveConfig leave no batch maximum of zero, no negative delay.
THEOREM LoadedIsSchedulable ==
  ASSUME NEW f, IsFile(f), Accepted(f), DelayFits(f),
         NEW over \in [max : Int, pref : SUBSET Int, delay : Int], IsFiniteSet(over.pref)
  PROVE  LET global == LoadConfig(f).global
         IN  ResolveConfig(global, ModelEntry(global, over)) \in QueueParameters
<1> DEFINE global == LoadConfig(f).global
           entry == ModelEntry(global, over)
<1>1. global \in QueueParameters
  BY LoadedTyped
<1> HIDE DEF global
<1>2. entry \in QueueParameters
  BY <1>1 DEF ModelEntry, QueueParameters
<1> HIDE DEF entry
<1> DEFINE resolved == ResolveConfig(global, entry)
           max == IF entry.max > 0 THEN entry.max ELSE global.max
           pref == IF entry.pref # {} THEN entry.pref ELSE global.pref
           sizes == IF pref = {} THEN {max} ELSE pref
<1>3. max \in Nat \ {0} /\ sizes \subseteq Int /\ IsFiniteSet(sizes)
  <2>1. \A c \in {global, entry} :
          c.max \in Nat \ {0} /\ c.pref \subseteq Int /\ IsFiniteSet(c.pref)
    BY <1>1, <1>2 DEF QueueParameters
  <2>2. max \in Nat \ {0} /\ pref \subseteq Int /\ IsFiniteSet(pref)
    BY <2>1
  <2> HIDE DEF max, pref
  <2>3. {max} \subseteq Int
    BY <2>2
  <2>4. IsFiniteSet({max})
    BY FS_Singleton
  <2>5. QED
    BY <2>2, <2>3, <2>4
<1>4. {s \in sizes : s <= max} \subseteq Int /\ IsFiniteSet({s \in sizes : s <= max})
  BY <1>3, FS_Subset
<1>5. resolved = [max |-> max, pref |-> {s \in sizes : s <= max},
                  delay |-> IF entry.delay > 0 THEN entry.delay ELSE global.delay]
  BY DEF ResolveConfig
<1>6. (IF entry.delay > 0 THEN entry.delay ELSE global.delay) \in Nat
  BY <1>1, <1>2 DEF QueueParameters
<1> HIDE DEF max, sizes
<1>7. resolved \in QueueParameters
  BY <1>3, <1>4, <1>5, <1>6 DEF QueueParameters
<1>8. QED
  BY <1>7 DEF global, entry


\* 36 to 71 minutes in milliseconds: microseconds between 2^31 and 2^32.
Overlong(ms) == ms \in Int /\ 2147484 <= ms /\ ms <= 4294967

\* The hypothesis is needed, for loadConfig bounds max_delay_ms from below alone: with
\* 36 minutes or somewhat more the accepted file has a negative delay, and no request
\* waits for a batch.
THEOREM OverlongDelayIsNegative ==
  ASSUME NEW f, IsFile(f), "max_queue_delay_us" \notin DOMAIN f, "max_delay_ms" \in DOMAIN f,
         NEW ms, Overlong(ms), f["max_delay_ms"] = ms,
         NEW n \in Nat, NEW wait \in Nat
  PROVE  LET global == LoadConfig(f).global
         IN  global.delay < 0 /\ ShouldDispatch(n, wait, global)
<1> DEFINE global == LoadConfig(f).global
<1>1. global.delay = Times(ms, 1000)
  BY DEF LoadConfig, QueueDelay, Given
<1> HIDE DEF global
<1>2. ms \in Int /\ 2147484 <= ms /\ ms <= 4294967
  BY SMT DEF Overlong
<1>3. global.delay \in Int /\ global.delay < 0
  BY SMT, <1>1, <1>2, TimesWraps
<1>4. ShouldDispatch(n, wait, global)
  BY <1>3 DEF ShouldDispatch
<1>5. QED
  BY <1>3, <1>4 DEF global


-----------------------------------------------------------------------------
(* The recommendations.                                                    *)

LEMMA ClampMonotone ==
  ASSUME NEW v \in Int, NEW w \in Int, v <= w,
         NEW lo \in Int, NEW hi \in Int, lo <= hi,
         NEW low \in Int, NEW high \in Int, low <= high, lo <= low, hi <= high
  PROVE  Clamp(v, lo, hi) <= Clamp(w, low, high)
BY DEF Clamp

LEMMA QuotientMonotone ==
  ASSUME NEW a \in Nat, NEW b \in Nat, NEW d \in Nat \ {0}, a <= b
  PROVE  a \div d \in Nat /\ b \div d \in Nat /\ a \div d <= b \div d
<1> DEFINE p == a \div d
           q == b \div d
<1>1. p \in Int /\ q \in Int
  OBVIOUS
<1>2. d * p <= a /\ a < d * p + d /\ d * q <= b /\ b < d * q + d
  OBVIOUS
<1>3. QED
  BY <1>1, <1>2

LEMMA MoreMemoryMore ==
  ASSUME NEW free \in Nat, NEW sample \in Nat \ {0}
  PROVE  /\ BatchByMemory(free, 5, sample) \in Nat
         /\ BatchByMemory(free, 7, sample) \in Nat
         /\ BatchByMemory(free, 5, sample) <= BatchByMemory(free, 7, sample)
<1> DEFINE a == 2 * free * 5 * Mb + 10 * sample
           b == 2 * free * 7 * Mb + 10 * sample
<1>1. a \in Nat /\ b \in Nat /\ a <= b
  BY DEF Mb
<1>2. 20 * sample \in Nat \ {0}
  OBVIOUS
<1> HIDE DEF a, b
<1>3. a \div (20 * sample) \in Nat /\ b \div (20 * sample) \in Nat
      /\ a \div (20 * sample) <= b \div (20 * sample)
  BY <1>1, <1>2, QuotientMonotone
<1>4. QED
  BY <1>3 DEF BatchByMemory, a, b

\* Whatever the machine, also one whose GPU cannot be queried, a recommendation is
\* one the server can run with: threads, a batch maximum and a workspace within
\* ConfigBounds, and a burst that an idle minute refills, as RateLimiter assumes.
THEOREM AdviceIsUsable ==
  ASSUME NEW hw \in Hardware, NEW scenario \in Scenarios, NEW key \in Profile,
         NEW sample \in Nat \ {0}
  PROVE  LET p == Advice(key, hw, scenario, sample) IN
         /\ p.threads \in 2 .. MaxThreads /\ p.max \in 4 .. MaxBatchSize /\ p.delayMs \in Nat \ {0}
         /\ p.workspace \in {0} \union (MinWorkspace .. 2048)
         /\ p.rate # 0 => p.rate \in Nat /\ p.burst \in 1 .. (60 * p.rate)
<1>1. hw.cores \in Nat /\ hw.free \in Nat
  BY DEF Hardware
<1>2. Threads(key, hw.cores, scenario) \in 2 .. MaxThreads
  BY <1>1 DEF Threads, Scenarios, MaxThreads, Clamp
<1>3. MaxBatchOf(key, hw.free, scenario, sample) \in 4 .. MaxBatchSize
  <2> DEFINE five == BatchByMemory(hw.free, 5, sample)
             seven == BatchByMemory(hw.free, 7, sample)
  <2>1. five \in Nat /\ seven \in Nat
    BY <1>1, MoreMemoryMore
  <2> HIDE DEF five, seven
  <2>2. Clamp(five, 4, 16) \in 4 .. 16 /\ Clamp(seven, 8, 64) \in 8 .. 64
    BY <2>1 DEF Clamp
  <2>3. QED
    BY <2>2 DEF MaxBatchOf, MaxBatchSize, five, seven
<1>4. Workspace(key, hw, scenario) \in {0} \union (MinWorkspace .. 2048)
  <2> DEFINE much == (hw.free * 15) \div 100
             some == (hw.free * 8) \div 100
  <2>1. much \in Int /\ some \in Int
    BY <1>1
  <2> HIDE DEF much, some
  <2>2. Clamp(much, 256, 2048) \in 256 .. 2048 /\ Clamp(some, 256, 512) \in 256 .. 512
    BY <2>1 DEF Clamp
  <2>3. Workspace(key, hw, scenario) \in {0, Clamp(much, 256, 2048), Clamp(some, 256, 512)}
    BY DEF Workspace, MinWorkspace, much, some
  <2>4. 0 \in {0} \union (256 .. 2048) /\ \A w \in 256 .. 512 : w \in 256 .. 2048
    OBVIOUS
  <2>5. QED
    BY <2>2, <2>3, <2>4 DEF MinWorkspace
<1>5. QED
  BY <1>2, <1>3, <1>4 DEF Advice

\* The performance profile is never smaller than the stable one, on any machine and
\* for any models: no fewer threads, no smaller batches, no smaller workspace.
THEOREM AggressiveIsLarger ==
  ASSUME NEW hw \in Hardware, NEW scenario \in Scenarios, NEW sample \in Nat \ {0}
  PROVE  LET stable == Advice("stable", hw, scenario, sample)
             fast == Advice("aggressive", hw, scenario, sample)
         IN stable.threads <= fast.threads /\ stable.max <= fast.max
            /\ stable.workspace <= fast.workspace /\ fast.delayMs <= stable.delayMs
<1>1. hw.cores \in Nat /\ hw.free \in Nat
  BY DEF Hardware
<1>2. Threads("stable", hw.cores, scenario) <= Threads("aggressive", hw.cores, scenario)
  BY <1>1 DEF Threads, Scenarios, MaxThreads, Clamp
<1>3. MaxBatchOf("stable", hw.free, scenario, sample) <= MaxBatchOf("aggressive", hw.free, scenario, sample)
  <2> DEFINE five == BatchByMemory(hw.free, 5, sample)
             seven == BatchByMemory(hw.free, 7, sample)
  <2>1. five \in Nat /\ seven \in Nat /\ five <= seven
    BY <1>1, MoreMemoryMore
  <2> HIDE DEF five, seven
  <2>2. Clamp(five, 4, 16) <= Clamp(seven, 8, 64)
    BY <2>1, ClampMonotone
  <2>3. QED
    BY <2>2 DEF MaxBatchOf, MaxBatchSize, five, seven
<1>4. Workspace("stable", hw, scenario) <= Workspace("aggressive", hw, scenario)
  BY <1>1 DEF Workspace, MinWorkspace, Clamp
<1>5. QED
  BY <1>2, <1>3, <1>4 DEF Advice

-----------------------------------------------------------------------------
(* What the next start loads.                                              *)

Recommended == [threads : 1 .. MaxInt, max : 1 .. MaxInt, delayMs : 1 .. MaxInt, delayUs : {0},
                pref : {{}}, workspace : Nat, rate : 0 .. MaxInt, burst : 0 .. MaxInt]

\* The file written for a profile, by the first start or by the profile handler,
\* starts the server again, with the threads, the batch maximum and the rate limit of
\* the profile, whatever the file contained before.
THEOREM WrittenFileTakesEffect ==
  ASSUME NEW f, IsFile(f), Accepted(f), NEW p \in Recommended, p.rate = 0 => p.burst = 0,
         NEW g \in {FirstStart(f, p), ApplyProfile(f, p)}
  PROVE  /\ IsFile(g) /\ Accepted(g)
         /\ LoadConfig(g).threads = p.threads /\ LoadConfig(g).global.max = p.max
         /\ LoadConfig(g).rate = p.rate /\ LoadConfig(g).burst = p.burst
<1>1. /\ p.threads \in IntRange /\ p.threads >= 1 /\ p.max \in IntRange /\ p.max >= 1
      /\ p.delayMs \in IntRange /\ p.delayMs >= 1
      /\ p.rate \in IntRange /\ p.rate >= 0 /\ p.burst \in IntRange
      /\ p.delayUs = 0 /\ 0 \in IntRange /\ p.pref = {} /\ p.rate \in Int
  BY IntRangeInt DEF Recommended
<1>2. CASE g = FirstStart(f, p)
  BY <1>1, <1>2 DEF FirstStart, Overwrite, IsFile, Accepted, LoadConfig, Given, Number, Sizes
<1>3. CASE g = ApplyProfile(f, p)
  BY <1>1, <1>3 DEF ApplyProfile, Overwrite, IsFile, Accepted, LoadConfig, Given, Number, Sizes
<1>4. QED
  BY <1>2, <1>3

\* After the first start the requests wait for a batch as long as the profile says,
\* unless the file has a queue delay of its own.
THEOREM FirstStartDelays ==
  ASSUME NEW f, "max_queue_delay_us" \notin DOMAIN f, NEW p \in Recommended, p.delayMs <= 2147483
  PROVE  LoadConfig(FirstStart(f, p)).global.delay = p.delayMs * 1000
<1>1. p.delayMs \in Int /\ 1 <= p.delayMs
  BY SMT DEF Recommended
<1>2. Times(p.delayMs, 1000) = p.delayMs * 1000
  BY SMT, <1>1, TimesFits
<1>3. LoadConfig(FirstStart(f, p)).global.delay = Times(p.delayMs, 1000)
  BY DEF FirstStart, Overwrite, LoadConfig, QueueDelay, Given
<1>4. QED
  BY <1>2, <1>3

\* After a profile was applied they do not wait at all: the queue delay of 0 that the
\* profile handler writes counts as explicit, and max_delay_ms is not looked at.
THEOREM AppliedProfileNeverWaits ==
  ASSUME NEW f, NEW p \in Recommended, NEW n \in Nat, NEW wait \in Nat
  PROVE  LET global == LoadConfig(ApplyProfile(f, p)).global
         IN global.delay = 0 /\ ShouldDispatch(n, wait, global)
<1> DEFINE global == LoadConfig(ApplyProfile(f, p)).global
<1>1. global.delay = 0
  BY DEF ApplyProfile, Overwrite, LoadConfig, QueueDelay, Recommended
<1> HIDE DEF global
<1>2. ShouldDispatch(n, wait, global)
  BY <1>1 DEF ShouldDispatch
<1>3. QED
  BY <1>1, <1>2 DEF global
=============================================================================
