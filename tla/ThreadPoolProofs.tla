--------------------------- MODULE ThreadPoolProofs ---------------------------
(***************************************************************************)
(* Proofs about ThreadPool for any number of threads and tasks: typing, no *)
(* lost wakeup, every pending task held exactly once, and the refinement   *)
(* of TaskService (which contains the drain guarantee of the destructor).  *)
(* Then, on top of the same invariant, about the InferenceExecutor built   *)
(* from a pool: its counters lose nothing, and it never holds more         *)
(* unfinished batches than the bound its callers rely on.                  *)
(***************************************************************************)
EXTENDS InferenceExecutor, FiniteSetTheorems, TLAPS

(* The inductive invariant, in parts.                                      *)

\* A thread holds a task exactly while it runs it.
RunningHolds == \A w \in Workers : wpc[w] = "running" <=> current[w] # NoTask

\* No task is queued twice, held by two threads, or queued and held.
QueuedOnce == \A i, j \in DOMAIN tasks : tasks[i] = tasks[j] => i = j
HeldOnce ==
  \A v, w \in Workers : current[v] = current[w] /\ current[v] # NoTask => v = w
QueuedNotHeld == \A i \in DOMAIN tasks : \A w \in Workers : current[w] # tasks[i]

\* The future of a task is pending exactly while the pool has the task.
PendingIsInPool ==
  \A t \in Tasks : fut[t] = "pending" <=>
    (\E i \in DOMAIN tasks : tasks[i] = t) \/ (\E w \in Workers : current[w] = t)

\* A thread leaves the loop only when the pool is stopped and drained.
ExitedMeansDrained ==
  (\E w \in Workers : wpc[w] = "exited") => stop /\ tasks = <<>>

StopIsDtor ==
  /\ stop <=> dtor # "none"
  /\ dtor = "joined" => \A w \in Workers : wpc[w] = "exited"

IInv ==
  /\ PoolTypeOK
  /\ RunningHolds
  /\ QueuedOnce /\ HeldOnce /\ QueuedNotHeld
  /\ PendingIsInPool
  /\ ExitedMeansDrained
  /\ StopIsDtor
  /\ NoStrandedWork

-----------------------------------------------------------------------------
LEMMA InitIInv == PoolInit => IInv
<1> SUFFICES ASSUME PoolInit PROVE IInv
  OBVIOUS
<1>1. PoolTypeOK
  <2>1. tasks \in Seq(Tasks)
    BY DEF PoolInit
  <2>2. QED
    BY <2>1 DEF PoolInit, PoolTypeOK
<1>2. tasks = <<>> /\ DOMAIN tasks = {} /\ \A w \in Workers : current[w] = NoTask
  BY DEF PoolInit
<1>3. RunningHolds /\ QueuedOnce /\ HeldOnce /\ QueuedNotHeld
  BY <1>2 DEF PoolInit, RunningHolds, QueuedOnce, HeldOnce, QueuedNotHeld
<1>4. PendingIsInPool
  BY <1>2, PoolAssumption DEF PoolInit, PendingIsInPool
<1>5. ExitedMeansDrained /\ StopIsDtor /\ NoStrandedWork
  BY DEF PoolInit, ExitedMeansDrained, StopIsDtor, NoStrandedWork
<1>6. QED
  BY <1>1, <1>3, <1>4, <1>5 DEF IInv

LEMMA PushIInv ==
  ASSUME IInv, NEW t \in Tasks, Push(t)
  PROVE  IInv'
<1>1. /\ tasks' = Append(tasks, t)
      /\ DOMAIN tasks' = 1..(Len(tasks) + 1)
      /\ tasks'[Len(tasks) + 1] = t
      /\ \A i \in DOMAIN tasks : i \in DOMAIN tasks' /\ tasks'[i] = tasks[i] /\ i # Len(tasks) + 1
      /\ \A i \in DOMAIN tasks' : i \in DOMAIN tasks \/ i = Len(tasks) + 1
      /\ tasks' \in Seq(Tasks)
  BY DEF Push, IInv, PoolTypeOK
<1>2. fut[t] # "pending" /\ \A i \in DOMAIN tasks : tasks[i] # t
  BY DEF Push, IInv, PendingIsInPool
<1>3. \A w \in Workers : current[w] # t
  BY DEF Push, IInv, PendingIsInPool
<1>4. PoolTypeOK'
  BY <1>1 DEF Push, IInv, PoolTypeOK
<1>5. RunningHolds' /\ HeldOnce' /\ StopIsDtor'
  BY DEF Push, IInv, RunningHolds, HeldOnce, StopIsDtor
<1>6. QueuedOnce'
  BY <1>1, <1>2 DEF IInv, QueuedOnce
<1>7. QueuedNotHeld'
  BY <1>1, <1>3 DEF IInv, QueuedNotHeld, Push
<1>8. PendingIsInPool'
  <2>1. ASSUME NEW x \in Tasks
        PROVE  (\E i \in DOMAIN tasks' : tasks'[i] = x)
                 <=> (\E i \in DOMAIN tasks : tasks[i] = x) \/ x = t
    BY <1>1
  <2>2. \A x \in Tasks : fut'[x] = "pending" <=> fut[x] = "pending" \/ x = t
    BY DEF Push, IInv, PoolTypeOK
  <2>3. QED
    BY <2>1, <2>2 DEF IInv, PendingIsInPool, Push
<1>9. ExitedMeansDrained' /\ NoStrandedWork'
  BY DEF Push, IInv, ExitedMeansDrained, NoStrandedWork
<1>10. QED
  BY <1>4, <1>5, <1>6, <1>7, <1>8, <1>9 DEF IInv

LEMMA TakeIInv ==
  ASSUME IInv, NEW w \in Workers, Take(w)
  PROVE  IInv'
<1>1. /\ Head(tasks) = tasks[1] /\ 1 \in DOMAIN tasks
      /\ tasks' = Tail(tasks)
      /\ Head(tasks) \in Tasks
      /\ tasks' \in Seq(Tasks)
      /\ DOMAIN tasks' = 1..(Len(tasks) - 1)
      /\ Len(tasks) \in Nat
      /\ \A i \in DOMAIN tasks' : i + 1 \in DOMAIN tasks /\ tasks'[i] = tasks[i + 1]
      /\ \A i \in DOMAIN tasks : i # 1 => i - 1 \in DOMAIN tasks' /\ tasks'[i - 1] = tasks[i]
  BY DEF Take, IInv, PoolTypeOK
<1>2. current' = [current EXCEPT ![w] = Head(tasks)] /\ Head(tasks) # NoTask
  BY <1>1, PoolAssumption DEF Take
<1>3. PoolTypeOK'
  BY <1>1 DEF Take, IInv, PoolTypeOK
<1>4. RunningHolds'
  <2>1. ASSUME NEW v \in Workers
        PROVE  wpc'[v] = "running" <=> current'[v] # NoTask
    BY <1>2 DEF Take, IInv, PoolTypeOK, RunningHolds
  <2>2. QED
    BY <2>1 DEF RunningHolds
<1>5. QueuedOnce'
  <2>1. ASSUME NEW i \in DOMAIN tasks', NEW j \in DOMAIN tasks', tasks'[i] = tasks'[j]
        PROVE  i = j
    <3>1. i + 1 = j + 1
      BY <2>1, <1>1 DEF IInv, QueuedOnce
    <3>2. QED
      BY <3>1, <1>1
  <2>2. QED
    BY <2>1 DEF QueuedOnce
<1>6. HeldOnce'
  BY <1>1, <1>2 DEF IInv, PoolTypeOK, HeldOnce, QueuedNotHeld
<1>7. QueuedNotHeld'
  <2>1. ASSUME NEW i \in DOMAIN tasks', NEW v \in Workers
        PROVE  current'[v] # tasks'[i]
    <3>1. i + 1 \in DOMAIN tasks /\ i + 1 # 1 /\ tasks'[i] = tasks[i + 1]
      BY <1>1
    <3>2. tasks[i + 1] # tasks[1] /\ current[v] # tasks[i + 1]
      BY <3>1, <1>1 DEF IInv, QueuedOnce, QueuedNotHeld
    <3>3. QED
      BY <3>1, <3>2, <1>1, <1>2 DEF IInv, PoolTypeOK
  <2>2. QED
    BY <2>1 DEF QueuedNotHeld
<1>8. PendingIsInPool'
  <2>1. ASSUME NEW x \in Tasks
        PROVE  (\E i \in DOMAIN tasks : tasks[i] = x)
                 <=> (\E i \in DOMAIN tasks' : tasks'[i] = x) \/ x = Head(tasks)
    <3>1. ASSUME NEW i \in DOMAIN tasks, tasks[i] = x, x # Head(tasks)
          PROVE  \E j \in DOMAIN tasks' : tasks'[j] = x
      <4>1. i - 1 \in DOMAIN tasks' /\ tasks'[i - 1] = x
        BY <1>1, <3>1
      <4>2. QED
        BY <4>1
    <3>2. ASSUME NEW i \in DOMAIN tasks', tasks'[i] = x
          PROVE  \E j \in DOMAIN tasks : tasks[j] = x
      BY <1>1, <3>2
    <3>3. QED
      BY <1>1, <3>1, <3>2
  <2>2. ASSUME NEW x \in Tasks
        PROVE  (\E v \in Workers : current'[v] = x)
                 <=> (\E v \in Workers : current[v] = x) \/ x = Head(tasks)
    BY <1>2, PoolAssumption DEF Take, IInv, PoolTypeOK, RunningHolds
  <2>3. QED
    BY <2>1, <2>2 DEF IInv, PendingIsInPool, Take
<1>9. ExitedMeansDrained' /\ StopIsDtor' /\ NoStrandedWork'
  BY DEF Take, IInv, PoolTypeOK, ExitedMeansDrained, StopIsDtor, NoStrandedWork, Awake
<1>10. QED
  BY <1>3, <1>4, <1>5, <1>6, <1>7, <1>8, <1>9 DEF IInv

LEMMA FinishIInv ==
  ASSUME IInv, NEW w \in Workers, Finish(w)
  PROVE  IInv'
<1>1. current[w] \in Tasks /\ current' = [current EXCEPT ![w] = NoTask]
  BY DEF Finish, IInv, PoolTypeOK, RunningHolds
<1>2. PoolTypeOK'
  BY <1>1 DEF Finish, IInv, PoolTypeOK
<1>3. RunningHolds' /\ QueuedOnce' /\ HeldOnce' /\ StopIsDtor'
  BY <1>1 DEF Finish, IInv, PoolTypeOK, RunningHolds, QueuedOnce, HeldOnce, StopIsDtor
<1>4. QueuedNotHeld'
  BY <1>1, PoolAssumption DEF Finish, IInv, PoolTypeOK, QueuedNotHeld
<1>5. PendingIsInPool'
  <2>1. ASSUME NEW x \in Tasks
        PROVE  (\E v \in Workers : current'[v] = x)
                 <=> (\E v \in Workers : current[v] = x) /\ x # current[w]
    BY <1>1, PoolAssumption DEF IInv, PoolTypeOK, HeldOnce
  <2>2. ASSUME NEW x \in Tasks
        PROVE  fut'[x] = "pending" <=> fut[x] = "pending" /\ x # current[w]
    BY <1>1 DEF Finish, IInv, PoolTypeOK
  <2>3. \A i \in DOMAIN tasks : tasks[i] # current[w]
    BY DEF IInv, QueuedNotHeld
  <2>4. QED
    BY <2>1, <2>2, <2>3 DEF IInv, PendingIsInPool, Finish
<1>6. ExitedMeansDrained' /\ NoStrandedWork'
  BY DEF Finish, IInv, PoolTypeOK, ExitedMeansDrained, NoStrandedWork, Awake
<1>7. QED
  BY <1>2, <1>3, <1>4, <1>5, <1>6 DEF IInv

\* The steps that move threads and notifications and leave the tasks alone.
LEMMA ControlIInv ==
  ASSUME IInv,
         \/ \E t \in Tasks : NotifyOne(t)
         \/ \E w \in Workers : Wait(w) \/ SpuriousWake(w) \/ Exit(w)
         \/ Stop \/ NotifyAll \/ Join
  PROVE  IInv'
<1>1. UNCHANGED <<tasks, current, fut>>
  BY DEF NotifyOne, Wait, SpuriousWake, Exit, Stop, NotifyAll, Join
<1>2. PoolTypeOK'
  BY DEF IInv, PoolTypeOK, NotifyOne, WakeOne, Wait, SpuriousWake, Exit, Stop, NotifyAll, Join
<1>3. \A w \in Workers : wpc'[w] = "running" <=> wpc[w] = "running"
  BY DEF IInv, PoolTypeOK, NotifyOne, WakeOne, Wait, SpuriousWake, Exit, Stop, NotifyAll, Join
<1>4. RunningHolds' /\ QueuedOnce' /\ HeldOnce' /\ QueuedNotHeld' /\ PendingIsInPool'
  BY <1>1, <1>3 DEF IInv, RunningHolds, QueuedOnce, HeldOnce, QueuedNotHeld, PendingIsInPool
<1>5. ExitedMeansDrained'
  BY DEF IInv, PoolTypeOK, ExitedMeansDrained, NotifyOne, WakeOne, Wait, SpuriousWake, Exit,
         Stop, NotifyAll, Join
<1>6. StopIsDtor'
  BY DEF IInv, PoolTypeOK, StopIsDtor, ExitedMeansDrained, NotifyOne, WakeOne, Wait,
         SpuriousWake, Exit, Stop, NotifyAll, Join
<1>7. NoStrandedWork'
  <2>1. CASE \E t \in Tasks : NotifyOne(t)
    <3>1. PICK t \in Tasks : NotifyOne(t)
      BY <2>1
    <3>2. ASSUME tasks # <<>>
          PROVE  \E w \in Workers : Awake(w)'
      <4>1. CASE \E w \in Workers : wpc[w] = "waiting" /\ wpc' = [wpc EXCEPT ![w] = "ready"]
        BY <4>1 DEF IInv, PoolTypeOK, Awake
      <4>2. CASE (\A w \in Workers : wpc[w] # "waiting") /\ UNCHANGED wpc
        <5>1. \A w \in Workers : wpc[w] # "exited"
          BY <3>2 DEF IInv, ExitedMeansDrained
        <5>2. QED
          BY <4>2, <5>1, PoolAssumption DEF IInv, PoolTypeOK, Awake
      <4>3. QED
        BY <3>1, <4>1, <4>2 DEF NotifyOne, WakeOne
    <3>3. QED
      BY <3>2, <1>1 DEF NoStrandedWork
  <2>2. CASE \E w \in Workers : Wait(w) \/ SpuriousWake(w) \/ Exit(w)
    BY <2>2 DEF IInv, PoolTypeOK, NoStrandedWork, Awake, Wait, SpuriousWake, Exit
  <2>3. CASE Stop \/ NotifyAll \/ Join
    BY <2>3 DEF IInv, PoolTypeOK, NoStrandedWork, Awake, Stop, NotifyAll, Join
  <2>4. QED
    BY <2>1, <2>2, <2>3
<1>8. QED
  BY <1>2, <1>4, <1>5, <1>6, <1>7 DEF IInv

LEMMA RefuseIInv ==
  ASSUME IInv, NEW t \in Tasks, Refuse(t)
  PROVE  IInv'
<1>1. \A x \in Tasks : fut'[x] = "pending" <=> fut[x] = "pending"
  BY DEF IInv, PoolTypeOK, Refuse
<1>2. PoolTypeOK' /\ PendingIsInPool'
  BY <1>1 DEF IInv, PoolTypeOK, PendingIsInPool, Refuse
<1>3. QED
  BY <1>2 DEF IInv, RunningHolds, QueuedOnce, HeldOnce, QueuedNotHeld, ExitedMeansDrained,
              StopIsDtor, NoStrandedWork, Awake, Refuse

LEMMA NextIInv == IInv /\ [PoolNext]_poolVars => IInv'
<1> SUFFICES ASSUME IInv, [PoolNext]_poolVars PROVE IInv'
  OBVIOUS
<1>1. CASE UNCHANGED poolVars
  BY <1>1 DEF poolVars, IInv, PoolTypeOK, RunningHolds, QueuedOnce, HeldOnce, QueuedNotHeld,
              PendingIsInPool, ExitedMeansDrained, StopIsDtor, NoStrandedWork, Awake
<1>2. CASE PoolNext
  BY <1>2, PushIInv, RefuseIInv, TakeIInv, FinishIInv, ControlIInv DEF PoolNext, WorkerStep
<1>3. QED
  BY <1>1, <1>2

(* The invariant above holds in every reachable state of a pool of any     *)
(* size.                                                                   *)
THEOREM PoolInvariant == PoolSpec => []IInv
  BY InitIInv, NextIInv, PTL DEF PoolSpec

-----------------------------------------------------------------------------
(* The variables of the pool keep their types: in particular a thread only *)
(* ever holds a task or nothing and a future only moves between its four   *)
(* states.                                                                 *)
THEOREM PoolTypeCorrect == PoolSpec => []PoolTypeOK
<1>1. IInv => PoolTypeOK
  BY DEF IInv
<1>2. QED
  BY <1>1, PoolInvariant, PTL

(* No wakeup of a worker is lost although enqueue notifies outside the     *)
(* mutex: queued work always has an awake thread or a notification coming. *)
THEOREM NoWorkStranded == PoolSpec => []NoStrandedWork
<1>1. IInv => NoStrandedWork
  BY DEF IInv
<1>2. QED
  BY <1>1, PoolInvariant, PTL

(* An accepted task is at one place of the pool until it has run: no task  *)
(* is lost and none is run twice.                                          *)
THEOREM TaskHeldOnce == PoolSpec => []PendingIsHeldOnce
<1>1. IInv => PendingIsHeldOnce
  <2> SUFFICES ASSUME IInv, NEW t \in Tasks
               PROVE  fut[t] = "pending" <=>
                        \/ /\ t \in Queued
                           /\ \A w \in Workers : current[w] # t
                           /\ \A i, j \in DOMAIN tasks : tasks[i] = t /\ tasks[j] = t => i = j
                        \/ /\ t \notin Queued
                           /\ \E w \in Workers :
                                 current[w] = t /\ \A v \in Workers \ {w} : current[v] # t
    BY DEF PendingIsHeldOnce
  <2>1. t \in Queued <=> \E i \in DOMAIN tasks : tasks[i] = t
    BY DEF Queued
  <2>2. t # NoTask
    BY PoolAssumption
  <2>3. QED
    BY <2>1, <2>2 DEF IInv, QueuedOnce, HeldOnce, QueuedNotHeld, PendingIsInPool
<1>2. QED
  BY <1>1, PoolInvariant, PTL

LEMMA DrainedOnJoin ==
  ASSUME IInv, \A w \in Workers : wpc[w] = "exited"
  PROVE  \A t \in Tasks : fut[t] # "pending"
<1>1. tasks = <<>>
  BY PoolAssumption DEF IInv, ExitedMeansDrained
<1>2. \A w \in Workers : current[w] = NoTask
  BY DEF IInv, RunningHolds
<1>3. QED
  BY <1>1, <1>2, PoolAssumption DEF IInv, PendingIsInPool

(* The destructor returns only when every accepted task has run.           *)
THEOREM DestructorDrains == PoolSpec => []JoinedMeansDrained
<1>1. IInv => JoinedMeansDrained
  BY DrainedOnJoin DEF JoinedMeansDrained, IInv, StopIsDtor
<1>2. QED
  BY <1>1, PoolInvariant, PTL

(* The pool implements TaskService: each of its steps is a step of the     *)
(* service or leaves the service's state alone.                            *)
THEOREM PoolImplementsService == PoolSpec => ImplementsService
<1>1. PoolInit => Service!Init
  BY DEF PoolInit, Service!Init, phaseBar
<1>2. IInv /\ [PoolNext]_poolVars => [Service!Next]_(Service!vars)
  <2> SUFFICES ASSUME IInv, [PoolNext]_poolVars
               PROVE  Service!Next \/ UNCHANGED Service!vars
    OBVIOUS
  <2>1. ASSUME NEW t \in Tasks, Push(t)
        PROVE  Service!Accept(t)
    BY <2>1 DEF Push, Service!Accept, phaseBar, IInv, StopIsDtor
  <2>2. ASSUME NEW t \in Tasks, Refuse(t)
        PROVE  Service!Refuse(t)
    BY <2>2 DEF Refuse, Service!Refuse, phaseBar, IInv, StopIsDtor, PoolTypeOK
  <2>3. ASSUME NEW w \in Workers, Finish(w)
        PROVE  \E t \in Tasks : Service!Complete(t)
    <3>1. current[w] \in Tasks
      BY <2>3 DEF Finish, IInv, PoolTypeOK, RunningHolds
    <3>2. fut[current[w]] = "pending"
      BY <3>1 DEF IInv, PendingIsInPool
    <3>3. Service!Complete(current[w])
      BY <2>3, <3>2 DEF Finish, Service!Complete, phaseBar
    <3>4. QED
      BY <3>1, <3>3
  <2>4. ASSUME Stop
        PROVE  Service!Close
    BY <2>4 DEF Stop, Service!Close, phaseBar
  <2>5. ASSUME NotifyAll
        PROVE  UNCHANGED Service!vars
    BY <2>5 DEF NotifyAll, Service!vars, phaseBar
  <2>6. ASSUME Join
        PROVE  Service!Vanish
    <3>1. \A t \in Tasks : fut[t] # "pending"
      BY <2>6, DrainedOnJoin DEF Join
    <3>2. QED
      BY <2>6, <3>1 DEF Join, Service!Vanish, phaseBar
  <2>7. ASSUME \/ \E t \in Tasks : NotifyOne(t)
               \/ \E w \in Workers : Wait(w) \/ SpuriousWake(w) \/ Exit(w) \/ Take(w)
        PROVE  UNCHANGED Service!vars
    BY <2>7 DEF NotifyOne, Wait, SpuriousWake, Exit, Take, Service!vars, phaseBar
  <2>8. CASE UNCHANGED poolVars
    BY <2>8 DEF poolVars, Service!vars, phaseBar
  <2>9. QED
    BY <2>1, <2>2, <2>3, <2>4, <2>5, <2>6, <2>7, <2>8
    DEF PoolNext, WorkerStep, Service!Next
<1>3. QED
  BY <1>1, <1>2, PoolInvariant, PTL DEF PoolSpec, ImplementsService, Service!Spec

-----------------------------------------------------------------------------
(***************************************************************************)
(* InferenceExecutor: the gate in front of the pool.                       *)
(***************************************************************************)

\* Who owns the gate's mutex, and what a thread that runs nothing is about to do.
GateHeld == \A s \in Submitters : spc[s] \in {"load", "loadQueued", "loadInflight", "park"} => gate = s
BeginsAgain == \A w \in Workers : wpc[w] # "running" => wrap[w] = "begin"

\* A submitter has a task of its own, which the pool does not know until Enqueue.
OwnTask ==
  /\ \A s \in Submitters : spc[s] # "idle" => stask[s] \in Tasks
  /\ \A s \in Submitters : spc[s] \notin {"idle", "wakePool", "failed"} => fut[stask[s]] = "none"
  /\ \A r, s \in Submitters : spc[r] # "idle" /\ stask[r] = stask[s] => r = s

Admitted == Cardinality(At({"admitted"})) + Cardinality(At({"enqueue"})) + Len(tasks)

\* The batches past the gate that no thread has taken.  A submitter that has loaded
\* queued_ has seen all of them but those that were not counted yet, and it holds the
\* gate: no other follows.
GateBounds ==
  /\ Admitted <= maxTotal + (Cardinality(Submitters) - 1)
  /\ \A s \in Submitters :
       spc[s] = "loadInflight" => Admitted <= seen[s] + (Cardinality(Submitters) - 1)

ExecInv ==
  /\ IInv /\ ExecTypeOK /\ GateHeld /\ BeginsAgain /\ OwnTask
  /\ CountersMatch
  /\ GateBounds

-----------------------------------------------------------------------------
(* Counting.                                                               *)

LEMMA OneMoves ==
  ASSUME NEW A, NEW B, IsFiniteSet(A), NEW x, \A y : y # x => (y \in A <=> y \in B)
  PROVE  /\ IsFiniteSet(B) /\ Cardinality(A) \in Nat /\ Cardinality(B) \in Nat
         /\ (x \in A <=> x \in B) => Cardinality(B) = Cardinality(A)
         /\ x \in A /\ x \notin B => Cardinality(B) = Cardinality(A) - 1
         /\ x \notin A /\ x \in B => Cardinality(B) = Cardinality(A) + 1
<1>1. CASE x \in A <=> x \in B
  <2>1. A = B
    BY <1>1
  <2>2. QED
    BY <1>1, <2>1, FS_CardinalityType
<1>2. CASE x \in A /\ x \notin B
  <2>1. B = A \ {x}
    BY <1>2
  <2>2. QED
    BY <1>2, <2>1, FS_RemoveElement, FS_CardinalityType
<1>3. CASE x \notin A /\ x \in B
  <2>1. B = A \cup {x}
    BY <1>3
  <2>2. QED
    BY <1>3, <2>1, FS_AddElement, FS_CardinalityType
<1>4. QED
  BY <1>1, <1>2, <1>3

LEMMA CardsTyped ==
  /\ \A p : IsFiniteSet(At({p})) /\ Cardinality(At({p})) \in Nat
  /\ \A p : IsFiniteSet(Wrapping({p})) /\ Cardinality(Wrapping({p})) \in Nat
  /\ Cardinality(Submitters) \in Nat
<1>1. \A p : At({p}) \subseteq Submitters /\ Wrapping({p}) \subseteq Workers
  BY DEF At, Wrapping
<1>2. QED
  BY <1>1, ExecutorAssumption, FS_Subset, FS_CardinalityType

LEMMA LengthTyped == PoolTypeOK => Len(tasks) \in Nat
<1>1. PoolTypeOK => tasks \in Seq(Tasks)
  BY DEF PoolTypeOK
<1>2. \A q \in Seq(Tasks) : Len(q) \in Nat
  OBVIOUS
<1>3. QED
  BY <1>1, <1>2

LEMMA LimitTyped == maxTotal \in Nat /\ maxTotal >= 1
<1>1. \A m, n \in Nat : m >= 1 /\ n >= 1 => m * n \in Nat /\ m * n >= 1
  OBVIOUS
<1>2. IsFiniteSet(Workers) /\ Cardinality(Workers) \in Nat /\ QueueMultiplier \in Nat
  BY ExecutorAssumption, FS_CardinalityType
<1>3. Cardinality(Workers) >= 1
  BY <1>2, PoolAssumption, FS_EmptySet
<1>4. QED
  BY <1>1, <1>2, <1>3 DEF maxTotal

\* A submitter moves.
LEMMA AtMoves ==
  ASSUME NEW s \in Submitters, \A r \in Submitters : r # s => spc'[r] = spc[r], NEW p
  PROVE  /\ (spc[s] = p <=> spc'[s] = p) => Cardinality(At({p}))' = Cardinality(At({p}))
         /\ spc[s] = p /\ spc'[s] # p => Cardinality(At({p}))' = Cardinality(At({p})) - 1
         /\ spc[s] # p /\ spc'[s] = p => Cardinality(At({p}))' = Cardinality(At({p})) + 1
         /\ Cardinality(At({p}))' \in Nat
<1> DEFINE A == At({p})
           B == A'
<1>1. \A y : y # s => (y \in A <=> y \in B)
  BY DEF At
<1>2. (s \in A <=> spc[s] = p) /\ (s \in B <=> spc'[s] = p)
  BY DEF At
<1>3. IsFiniteSet(A)
  BY CardsTyped
<1> HIDE DEF A, B
<1>4. /\ Cardinality(B) \in Nat
      /\ (s \in A <=> s \in B) => Cardinality(B) = Cardinality(A)
      /\ s \in A /\ s \notin B => Cardinality(B) = Cardinality(A) - 1
      /\ s \notin A /\ s \in B => Cardinality(B) = Cardinality(A) + 1
  BY <1>1, <1>3, OneMoves
<1>5. QED
  BY <1>2, <1>4 DEF A, B

\* A thread moves.
Doing(w, p) == wpc[w] = "running" /\ wrap[w] = p

LEMMA WrapMoves ==
  ASSUME NEW w \in Workers, NEW p,
         \A v \in Workers : v # w => wpc'[v] = wpc[v] /\ wrap'[v] = wrap[v]
  PROVE  /\ (Doing(w, p) <=> Doing(w, p)') => Cardinality(Wrapping({p}))' = Cardinality(Wrapping({p}))
         /\ Doing(w, p) /\ ~Doing(w, p)' => Cardinality(Wrapping({p}))' = Cardinality(Wrapping({p})) - 1
         /\ ~Doing(w, p) /\ Doing(w, p)' => Cardinality(Wrapping({p}))' = Cardinality(Wrapping({p})) + 1
         /\ Cardinality(Wrapping({p}))' \in Nat
<1> DEFINE A == Wrapping({p})
           B == A'
<1>1. \A y : y # w => (y \in A <=> y \in B)
  BY DEF Wrapping
<1>2. (w \in A <=> Doing(w, p)) /\ (w \in B <=> Doing(w, p)')
  BY DEF Wrapping, Doing
<1>3. IsFiniteSet(A)
  BY CardsTyped
<1> HIDE DEF A, B
<1>4. /\ Cardinality(B) \in Nat
      /\ (w \in A <=> w \in B) => Cardinality(B) = Cardinality(A)
      /\ w \in A /\ w \notin B => Cardinality(B) = Cardinality(A) - 1
      /\ w \notin A /\ w \in B => Cardinality(B) = Cardinality(A) + 1
  BY <1>1, <1>3, OneMoves
<1>5. QED
  BY <1>2, <1>4 DEF A, B

-----------------------------------------------------------------------------
(* The steps of a submitter that count nothing.                            *)

Counting == {"admitted", "enqueue"}

LEMMA SubmitFrame ==
  ASSUME ExecInv, UNCHANGED <<poolVars, wrap, inflight, queued>>,
         \A s \in Submitters : spc'[s] = spc[s] \/ (spc[s] \notin Counting /\ spc'[s] \notin Counting)
  PROVE  /\ IInv' /\ BeginsAgain' /\ CountersMatch'
         /\ Admitted' = Admitted
<1>1. IInv' /\ tasks' = tasks /\ wpc' = wpc
  BY NextIInv DEF ExecInv, poolVars
<1>2. \A p \in Counting : At({p})' = At({p})
  BY DEF At, Counting
<1>3. \A p : Wrapping({p})' = Wrapping({p})
  BY <1>1 DEF Wrapping
<1>4. At({"admitted"})' = At({"admitted"}) /\ At({"enqueue"})' = At({"enqueue"})
  BY <1>2 DEF Counting
<1>5. CountersMatch' /\ Admitted' = Admitted
  BY <1>1, <1>3, <1>4 DEF CountersMatch, Admitted, ExecInv
<1>6. BeginsAgain'
  BY <1>1 DEF BeginsAgain, ExecInv
<1>7. QED
  BY <1>1, <1>5, <1>6

LEMMA SubmitterMoves ==
  ASSUME ExecTypeOK, NEW s \in Submitters, NEW to, spc' = [spc EXCEPT ![s] = to]
  PROVE  spc'[s] = to /\ \A r \in Submitters : r # s => spc'[r] = spc[r]
BY DEF ExecTypeOK

LEMMA CallInv ==
  ASSUME ExecInv, NEW s \in Submitters, NEW t \in Tasks, Call(s, t)
  PROVE  ExecInv'
<1>1. /\ spc[s] = "idle" /\ spc' = [spc EXCEPT ![s] = "lock"] /\ fut[t] = "none"
      /\ \A r \in Submitters : stask[r] # t
      /\ stask' = [stask EXCEPT ![s] = t]
      /\ UNCHANGED <<poolVars, inflight, queued, gate, seen, wrap>>
  BY DEF Call, Goto
<1>2. ExecTypeOK /\ PoolTypeOK /\ GateHeld /\ OwnTask /\ GateBounds
  BY DEF ExecInv, IInv
<1>3. spc'[s] = "lock" /\ \A r \in Submitters : r # s => spc'[r] = spc[r]
  BY <1>1, <1>2, SubmitterMoves
<1>4. IInv' /\ BeginsAgain' /\ CountersMatch' /\ Admitted' = Admitted
  BY <1>1, <1>3, SubmitFrame DEF Counting
<1>5. ExecTypeOK'
  BY <1>1, <1>2 DEF ExecTypeOK, PoolTypeOK, poolVars
<1>6. GateHeld'
  BY <1>1, <1>2, <1>3 DEF GateHeld
<1>7. OwnTask'
  <2>1. stask'[s] = t /\ \A r \in Submitters : r # s => stask'[r] = stask[r]
    BY <1>1, <1>2 DEF ExecTypeOK
  <2>2. fut' = fut
    BY <1>1 DEF poolVars
  <2>3. QED
    BY <1>1, <1>2, <1>3, <2>1, <2>2 DEF OwnTask
<1>8. GateBounds'
  BY <1>1, <1>2, <1>3, <1>4 DEF GateBounds
<1>9. QED
  BY <1>4, <1>5, <1>6, <1>7, <1>8 DEF ExecInv

\* The steps at the gate's mutex and its condition variable, and the first load.
LEMMA GateInv ==
  ASSUME ExecInv, NEW s \in Submitters,
         LockGate(s) \/ LoadFirst(s) \/ Park(s) \/ SpuriousGateWake(s)
  PROVE  ExecInv'
<1>1. /\ spc[s] \in {"lock", "load", "park", "parked"}
      /\ UNCHANGED <<poolVars, inflight, queued, stask, wrap>>
  BY DEF LockGate, LoadFirst, Park, SpuriousGateWake, Goto
<1>2. PICK to \in {"load", "loadQueued", "loadInflight", "parked", "lock"} :
        spc' = [spc EXCEPT ![s] = to]
  BY DEF LockGate, LoadFirst, Park, SpuriousGateWake, Goto
<1>3. ExecTypeOK /\ PoolTypeOK /\ GateHeld /\ OwnTask /\ GateBounds /\ CountersMatch
  BY DEF ExecInv, IInv
<1>4. spc'[s] = to /\ \A r \in Submitters : r # s => spc'[r] = spc[r]
  BY <1>2, <1>3, SubmitterMoves
<1>5. IInv' /\ BeginsAgain' /\ CountersMatch' /\ Admitted' = Admitted
  BY <1>1, <1>4, SubmitFrame DEF Counting
<1>6. /\ gate' \in Submitters \cup {NoSubmitter} /\ seen' \in [Submitters -> Nat]
      /\ \A r \in Submitters : r # s => seen'[r] = seen[r]
      /\ to = "loadInflight" => seen'[s] = queued
  BY <1>2, <1>3, <1>4 DEF LockGate, LoadFirst, Park, SpuriousGateWake, Goto, ExecTypeOK
<1>7. ExecTypeOK'
  BY <1>1, <1>2, <1>3, <1>6 DEF ExecTypeOK, PoolTypeOK, poolVars
<1>8. GateHeld'
  <2>1. CASE LockGate(s)
    <3>1. gate' = s /\ \A r \in Submitters : gate # r
      BY <2>1, ExecutorAssumption DEF LockGate
    <3>2. \A r \in Submitters : spc[r] \notin {"load", "loadQueued", "loadInflight", "park"}
      BY <1>3, <3>1 DEF GateHeld
    <3>3. QED
      BY <1>4, <3>1, <3>2 DEF GateHeld
  <2>2. CASE Park(s)
    <3>1. gate = s /\ spc'[s] = "parked"
      BY <1>3, <1>4, <2>2 DEF GateHeld, Park, Goto, ExecTypeOK
    <3>2. \A r \in Submitters : spc'[r] \notin {"load", "loadQueued", "loadInflight", "park"}
      BY <1>3, <1>4, <3>1 DEF GateHeld
    <3>3. QED
      BY <3>2 DEF GateHeld
  <2>3. CASE LoadFirst(s)
    <3>1. gate' = gate /\ gate = s
      BY <1>3, <2>3 DEF GateHeld, LoadFirst, Goto
    <3>2. QED
      BY <1>3, <1>4, <3>1 DEF GateHeld
  <2>5. CASE SpuriousGateWake(s)
    <3>1. gate' = gate /\ spc'[s] = "lock"
      BY <1>3, <1>4, <2>5 DEF SpuriousGateWake, Goto, ExecTypeOK
    <3>2. QED
      BY <1>3, <1>4, <3>1 DEF GateHeld
  <2>4. QED
    BY <2>1, <2>2, <2>3, <2>5
<1>9. OwnTask'
  <2>1. fut' = fut
    BY <1>1 DEF poolVars
  <2>2. QED
    BY <1>1, <1>2, <1>3, <1>4, <2>1 DEF OwnTask
<1>10. GateBounds'
  <2>1. to = "loadInflight" => Admitted <= queued + (Cardinality(Submitters) - 1)
    <3>1. At({"admitted"}) \subseteq Submitters \ {s}
      BY <1>1 DEF At
    <3>2. IsFiniteSet(Submitters) /\ Cardinality(Submitters \ {s}) = Cardinality(Submitters) - 1
          /\ IsFiniteSet(Submitters \ {s})
      BY ExecutorAssumption, FS_RemoveElement
    <3>3. Cardinality(At({"admitted"})) <= Cardinality(Submitters) - 1
      BY <3>1, <3>2, FS_Subset
    <3>4. /\ Cardinality(At({"admitted"})) \in Nat /\ Cardinality(At({"enqueue"})) \in Nat
          /\ Cardinality(Wrapping({"begin"})) \in Nat /\ Cardinality(Submitters) \in Nat
      BY CardsTyped
    <3>7. Len(tasks) \in Nat
      BY <1>3, LengthTyped
    <3>5. queued = Cardinality(At({"enqueue"})) + Len(tasks) + Cardinality(Wrapping({"begin"}))
      BY <1>3 DEF CountersMatch
    <3>6. QED
      BY <3>3, <3>4, <3>5, <3>7 DEF Admitted
  <2>2. QED
    BY <1>3, <1>4, <1>5, <1>6, <2>1 DEF GateBounds
<1>11. QED
  BY <1>5, <1>7, <1>8, <1>9, <1>10 DEF ExecInv

\* The decision, on a sum of which one operand is old.
LEMMA LoadSecondInv ==
  ASSUME ExecInv, NEW s \in Submitters, LoadSecond(s)
  PROVE  ExecInv'
<1>1. /\ spc[s] \in {"loadQueued", "loadInflight"} /\ gate = s
      /\ UNCHANGED <<poolVars, inflight, queued, stask, wrap>>
      /\ seen' = [seen EXCEPT ![s] = 0]
  BY DEF LoadSecond, ExecInv, GateHeld
<1>2. ExecTypeOK /\ PoolTypeOK /\ GateHeld /\ OwnTask /\ GateBounds /\ CountersMatch
  BY DEF ExecInv, IInv
<1>3. \/ spc' = [spc EXCEPT ![s] = "admitted"] /\ gate' = NoSubmitter
      \/ spc' = [spc EXCEPT ![s] = "park"] /\ gate' = gate
  BY DEF LoadSecond, Decide
<1>4. PICK to \in {"admitted", "park"} : spc' = [spc EXCEPT ![s] = to]
  BY <1>3
<1>5. spc'[s] = to /\ \A r \in Submitters : r # s => spc'[r] = spc[r]
  BY <1>2, <1>4, SubmitterMoves
<1>6. IInv' /\ tasks' = tasks /\ wpc' = wpc /\ fut' = fut
  BY <1>1, NextIInv DEF ExecInv, poolVars
<1>7. /\ Wrapping({"begin"})' = Wrapping({"begin"}) /\ Wrapping({"call"})' = Wrapping({"call"})
      /\ Cardinality(At({"enqueue"}))' = Cardinality(At({"enqueue"}))
      /\ Cardinality(At({"admitted"}))' = Cardinality(At({"admitted"})) + (IF to = "admitted" THEN 1 ELSE 0)
  <2>1. Wrapping({"begin"})' = Wrapping({"begin"}) /\ Wrapping({"call"})' = Wrapping({"call"})
    BY <1>1, <1>6 DEF Wrapping
  <2>2. Cardinality(At({"enqueue"}))' = Cardinality(At({"enqueue"}))
    BY <1>1, <1>5, AtMoves
  <2>3. CASE to = "admitted"
    <3>1. Cardinality(At({"admitted"}))' = Cardinality(At({"admitted"})) + 1
      BY <1>1, <1>5, <2>3, AtMoves
    <3>2. QED
      BY <2>1, <2>2, <2>3, <3>1
  <2>4. CASE to = "park"
    <3>1. Cardinality(At({"admitted"}))' = Cardinality(At({"admitted"}))
      BY <1>1, <1>5, <2>4, AtMoves
    <3>2. Cardinality(At({"admitted"})) \in Nat
      BY CardsTyped
    <3>3. QED
      BY <2>1, <2>2, <2>4, <3>1, <3>2
  <2>5. QED
    BY <2>3, <2>4
<1>8. CountersMatch'
  BY <1>1, <1>2, <1>6, <1>7 DEF CountersMatch
<1>9. ExecTypeOK'
  BY <1>1, <1>2, <1>3, <1>4 DEF ExecTypeOK, PoolTypeOK, poolVars
<1>10. GateHeld' /\ BeginsAgain'
  <2>1. \A r \in Submitters : r # s => spc[r] \notin {"load", "loadQueued", "loadInflight", "park"}
    BY <1>1, <1>2 DEF GateHeld
  <2>2. to = "park" => gate' = s
    BY <1>1, <1>2, <1>3, <1>5 DEF ExecTypeOK
  <2>3. QED
    BY <1>1, <1>5, <1>6, <2>1, <2>2 DEF GateHeld, BeginsAgain, ExecInv
<1>11. OwnTask'
  BY <1>1, <1>2, <1>4, <1>5, <1>6 DEF OwnTask
<1>12. GateBounds'
  <2>1. \A r \in Submitters : spc'[r] # "loadInflight"
    BY <1>1, <1>2, <1>4, <1>5 DEF GateHeld
  <2>2. /\ Cardinality(At({"admitted"})) \in Nat /\ Cardinality(At({"enqueue"})) \in Nat
        /\ Cardinality(Wrapping({"begin"})) \in Nat /\ Cardinality(Wrapping({"call"})) \in Nat
        /\ Cardinality(Submitters) \in Nat /\ Len(tasks) \in Nat /\ maxTotal \in Nat
        /\ seen[s] \in Nat
    <3>1. seen[s] \in Nat
      BY <1>2 DEF ExecTypeOK
    <3>2. Len(tasks) \in Nat
      BY <1>2, LengthTyped
    <3>3. QED
      BY <3>1, <3>2, CardsTyped, LimitTyped
  <2>3. to = "admitted" => Admitted < maxTotal + (Cardinality(Submitters) - 1)
    <3> SUFFICES ASSUME to = "admitted" PROVE Admitted < maxTotal + (Cardinality(Submitters) - 1)
      OBVIOUS
    <3>1. spc' # [spc EXCEPT ![s] = "park"]
      BY <1>5, <1>2 DEF ExecTypeOK
    <3>2. CASE spc[s] = "loadQueued"
      <4>1. seen[s] + queued < maxTotal
        BY <3>1, <3>2 DEF LoadSecond, Decide
      <4>2. At({"admitted"}) \subseteq Submitters \ {s}
        BY <1>1 DEF At
      <4>3. IsFiniteSet(Submitters) /\ Cardinality(Submitters \ {s}) = Cardinality(Submitters) - 1
            /\ IsFiniteSet(Submitters \ {s})
        BY ExecutorAssumption, FS_RemoveElement
      <4>4. Cardinality(At({"admitted"})) <= Cardinality(Submitters) - 1
        BY <4>2, <4>3, FS_Subset
      <4>5. queued = Cardinality(At({"enqueue"})) + Len(tasks) + Cardinality(Wrapping({"begin"}))
        BY <1>2 DEF CountersMatch
      <4>6. QED
        BY <2>2, <4>1, <4>4, <4>5 DEF Admitted
    <3>3. CASE spc[s] = "loadInflight"
      <4>1. inflight + seen[s] < maxTotal
        BY <3>1, <3>3 DEF LoadSecond, Decide
      <4>2. inflight \in Nat /\ Admitted <= seen[s] + (Cardinality(Submitters) - 1)
        BY <1>2, <3>3 DEF ExecTypeOK, GateBounds
      <4>3. QED
        BY <2>2, <4>1, <4>2 DEF Admitted
    <3>4. QED
      BY <1>1, <3>2, <3>3
  <2>4. Admitted' = Admitted + (IF to = "admitted" THEN 1 ELSE 0)
    BY <1>6, <1>7, <2>2 DEF Admitted
  <2>5. Admitted' <= maxTotal + (Cardinality(Submitters) - 1)
    <3>1. Admitted <= maxTotal + (Cardinality(Submitters) - 1) /\ Admitted \in Nat
      BY <1>2, <2>2 DEF GateBounds, Admitted
    <3>2. QED
      BY <2>2, <2>3, <2>4, <3>1
  <2>6. QED
    BY <2>1, <2>5 DEF GateBounds
<1>13. QED
  BY <1>6, <1>8, <1>9, <1>10, <1>11, <1>12 DEF ExecInv

-----------------------------------------------------------------------------
(* Counting a batch as queued, handing it over, and the failure of that.   *)

LEMMA CountQueuedInv ==
  ASSUME ExecInv, NEW s \in Submitters, CountQueued(s)
  PROVE  ExecInv'
<1>1. /\ spc[s] = "admitted" /\ spc' = [spc EXCEPT ![s] = "enqueue"]
      /\ queued' = queued + 1
      /\ UNCHANGED <<poolVars, inflight, gate, stask, seen, wrap>>
  BY DEF CountQueued, Goto
<1>2. ExecTypeOK /\ PoolTypeOK /\ GateHeld /\ OwnTask /\ GateBounds /\ CountersMatch
  BY DEF ExecInv, IInv
<1>3. spc'[s] = "enqueue" /\ \A r \in Submitters : r # s => spc'[r] = spc[r]
  BY <1>1, <1>2, SubmitterMoves
<1>4. IInv' /\ tasks' = tasks /\ wpc' = wpc /\ fut' = fut
  BY <1>1, NextIInv DEF ExecInv, poolVars
<1>5. Wrapping({"begin"})' = Wrapping({"begin"}) /\ Wrapping({"call"})' = Wrapping({"call"})
  BY <1>1, <1>4 DEF Wrapping
<1>6. Cardinality(At({"admitted"}))' = Cardinality(At({"admitted"})) - 1
  BY <1>1, <1>3, AtMoves
<1>7. Cardinality(At({"enqueue"}))' = Cardinality(At({"enqueue"})) + 1
  BY <1>1, <1>3, AtMoves
<1>8. /\ Cardinality(At({"admitted"})) \in Nat /\ Cardinality(At({"enqueue"})) \in Nat
      /\ Cardinality(Wrapping({"begin"})) \in Nat /\ Len(tasks) \in Nat
  BY <1>2, CardsTyped, LengthTyped
<1>9. CountersMatch' /\ Admitted' = Admitted
  <2>1. CountersMatch'
    BY <1>1, <1>2, <1>4, <1>5, <1>7, <1>8 DEF CountersMatch
  <2>2. Admitted' = Admitted
    BY <1>4, <1>6, <1>7, <1>8 DEF Admitted
  <2>3. QED
    BY <2>1, <2>2
<1>10. ExecTypeOK'
  BY <1>1, <1>2 DEF ExecTypeOK, PoolTypeOK, poolVars
<1>11. GateHeld' /\ BeginsAgain' /\ OwnTask'
  BY <1>1, <1>2, <1>3, <1>4 DEF GateHeld, BeginsAgain, OwnTask, ExecInv
<1>12. GateBounds'
  BY <1>1, <1>2, <1>3, <1>9 DEF GateBounds
<1>13. QED
  BY <1>4, <1>9, <1>10, <1>11, <1>12 DEF ExecInv

LEMMA EnqueueInv ==
  ASSUME ExecInv, NEW s \in Submitters, Enqueue(s)
  PROVE  ExecInv'
<1>1. /\ spc[s] = "enqueue" /\ spc' = [spc EXCEPT ![s] = "wakePool"]
      /\ Push(stask[s])
      /\ UNCHANGED <<inflight, queued, gate, stask, seen, wrap>>
  BY DEF Enqueue, Goto
<1>2. ExecTypeOK /\ PoolTypeOK /\ GateHeld /\ OwnTask /\ GateBounds /\ CountersMatch
  BY DEF ExecInv, IInv
<1>3. spc'[s] = "wakePool" /\ \A r \in Submitters : r # s => spc'[r] = spc[r]
  BY <1>1, <1>2, SubmitterMoves
<1>4. stask[s] \in Tasks
  BY <1>1, <1>2 DEF OwnTask
<1>5. IInv'
  BY <1>1, <1>4, PushIInv DEF ExecInv
<1>6. tasks' = Append(tasks, stask[s]) /\ wpc' = wpc /\ fut' = [fut EXCEPT ![stask[s]] = "pending"]
  BY <1>1 DEF Push
<1>7. Len(tasks') = Len(tasks) + 1
  <2>1. tasks \in Seq(Tasks)
    BY <1>2 DEF PoolTypeOK
  <2>2. QED
    BY <1>4, <1>6, <2>1
<1>8. Wrapping({"begin"})' = Wrapping({"begin"}) /\ Wrapping({"call"})' = Wrapping({"call"})
  BY <1>1, <1>6 DEF Wrapping
<1>9. Cardinality(At({"admitted"}))' = Cardinality(At({"admitted"}))
  BY <1>1, <1>3, AtMoves
<1>10. Cardinality(At({"enqueue"}))' = Cardinality(At({"enqueue"})) - 1
  BY <1>1, <1>3, AtMoves
<1>11. /\ Cardinality(At({"admitted"})) \in Nat /\ Cardinality(At({"enqueue"})) \in Nat
       /\ Cardinality(Wrapping({"begin"})) \in Nat /\ Len(tasks) \in Nat
  BY <1>2, CardsTyped, LengthTyped
<1>12. CountersMatch'
  BY <1>1, <1>2, <1>7, <1>8, <1>10, <1>11 DEF CountersMatch
<1>13. Admitted' = Admitted
  BY <1>7, <1>9, <1>10, <1>11 DEF Admitted
<1>14. ExecTypeOK'
  BY <1>1, <1>2, <1>5 DEF ExecTypeOK, IInv
<1>15. OwnTask'
  <2>1. \A t \in Tasks : t # stask[s] => fut'[t] = fut[t]
    BY <1>2, <1>6 DEF PoolTypeOK
  <2>2. QED
    BY <1>1, <1>2, <1>3, <2>1 DEF OwnTask
<1>16. GateHeld' /\ BeginsAgain'
  BY <1>1, <1>2, <1>3, <1>6 DEF GateHeld, BeginsAgain, ExecInv
<1>17. GateBounds'
  BY <1>1, <1>2, <1>3, <1>13 DEF GateBounds
<1>18. QED
  BY <1>5, <1>12, <1>14, <1>15, <1>16, <1>17 DEF ExecInv

LEMMA EnqueueThrowsInv ==
  ASSUME ExecInv, NEW s \in Submitters, EnqueueThrows(s)
  PROVE  ExecInv'
<1>1. /\ spc[s] = "enqueue" /\ spc' = [spc EXCEPT ![s] = "failed"]
      /\ queued' = queued - 1
      /\ fut' = [fut EXCEPT ![stask[s]] = "refused"]
      /\ UNCHANGED <<tasks, stop, wpc, current, notifying, dtor, inflight, gate, stask, seen, wrap>>
  BY DEF EnqueueThrows, Goto
<1>2. ExecTypeOK /\ PoolTypeOK /\ GateHeld /\ OwnTask /\ GateBounds /\ CountersMatch /\ IInv
  BY DEF ExecInv, IInv
<1>3. spc'[s] = "failed" /\ \A r \in Submitters : r # s => spc'[r] = spc[r]
  BY <1>1, <1>2, SubmitterMoves
<1>4. stask[s] \in Tasks /\ fut[stask[s]] = "none"
  BY <1>1, <1>2 DEF OwnTask
<1>5. \A t \in Tasks : t # stask[s] => fut'[t] = fut[t]
  BY <1>1, <1>2 DEF PoolTypeOK
<1>6. IInv'
  <2>1. \A t \in Tasks : fut'[t] = "pending" <=> fut[t] = "pending"
    BY <1>1, <1>2, <1>4, <1>5 DEF PoolTypeOK
  <2>2. PoolTypeOK'
    BY <1>1, <1>2 DEF PoolTypeOK
  <2>4. PendingIsInPool'
    <3>1. PendingIsInPool /\ tasks' = tasks /\ current' = current
      BY <1>1, <1>2 DEF IInv
    <3>2. QED
      BY <2>1, <3>1 DEF PendingIsInPool
  <2>3. QED
    BY <1>1, <1>2, <2>2, <2>4 DEF IInv, RunningHolds, QueuedOnce, HeldOnce, QueuedNotHeld,
       ExitedMeansDrained, StopIsDtor, NoStrandedWork, Awake
<1>7. Wrapping({"begin"})' = Wrapping({"begin"}) /\ Wrapping({"call"})' = Wrapping({"call"})
  BY <1>1 DEF Wrapping
<1>8. Cardinality(At({"admitted"}))' = Cardinality(At({"admitted"}))
  BY <1>1, <1>3, AtMoves
<1>9. /\ Cardinality(At({"enqueue"}))' = Cardinality(At({"enqueue"})) - 1
      /\ Cardinality(At({"enqueue"}))' \in Nat
  BY <1>1, <1>3, AtMoves
<1>10. /\ Cardinality(At({"admitted"})) \in Nat /\ Cardinality(At({"enqueue"})) \in Nat
       /\ Cardinality(Wrapping({"begin"})) \in Nat /\ Len(tasks) \in Nat
       /\ Cardinality(Submitters) \in Nat /\ maxTotal \in Nat
  BY <1>2, CardsTyped, LengthTyped, LimitTyped
<1>11. CountersMatch' /\ queued' \in Nat
  BY <1>1, <1>2, <1>7, <1>9, <1>10 DEF CountersMatch
<1>12. Admitted' = Admitted - 1 /\ Admitted \in Nat
  BY <1>1, <1>8, <1>9, <1>10 DEF Admitted
<1>13. ExecTypeOK'
  BY <1>1, <1>2, <1>6, <1>11 DEF ExecTypeOK, IInv
<1>14. OwnTask'
  BY <1>1, <1>2, <1>3, <1>5 DEF OwnTask
<1>15. GateHeld' /\ BeginsAgain'
  BY <1>1, <1>2, <1>3 DEF GateHeld, BeginsAgain, ExecInv
<1>16. GateBounds'
  <2>1. \A r \in Submitters : seen[r] \in Nat
    BY <1>2 DEF ExecTypeOK
  <2>2. \A m \in Nat : Admitted <= m + (Cardinality(Submitters) - 1)
                       => Admitted' <= m + (Cardinality(Submitters) - 1)
    BY <1>10, <1>12
  <2>3. QED
    BY <1>1, <1>2, <1>3, <1>10, <2>1, <2>2 DEF GateBounds
<1>17. QED
  BY <1>6, <1>11, <1>13, <1>14, <1>15, <1>16 DEF ExecInv

\* The pool's control steps move no thread into or out of a task.
LEMMA PoolControlFrame ==
  ASSUME ExecInv, IInv', UNCHANGED <<tasks, fut, inflight, queued, seen, wrap>>,
         \A w \in Workers : wpc[w] = "running" <=> wpc'[w] = "running",
         \A s \in Submitters : spc'[s] = spc[s] \/ (spc[s] \notin Counting /\ spc'[s] \notin Counting)
  PROVE  BeginsAgain' /\ CountersMatch' /\ Admitted' = Admitted
<1>1. \A p \in Counting : At({p})' = At({p})
  BY DEF At, Counting
<1>2. \A p : Wrapping({p})' = Wrapping({p})
  BY DEF Wrapping
<1>3. At({"admitted"})' = At({"admitted"}) /\ At({"enqueue"})' = At({"enqueue"})
  BY <1>1 DEF Counting
<1>4. CountersMatch' /\ Admitted' = Admitted
  BY <1>2, <1>3 DEF CountersMatch, Admitted, ExecInv
<1>5. BeginsAgain'
  BY DEF BeginsAgain, ExecInv
<1>6. QED
  BY <1>4, <1>5

LEMMA WakePoolInv ==
  ASSUME ExecInv, NEW s \in Submitters, WakePool(s)
  PROVE  ExecInv'
<1>1. /\ spc[s] = "wakePool" /\ spc' = [spc EXCEPT ![s] = "idle"]
      /\ NotifyOne(stask[s])
      /\ stask' = [stask EXCEPT ![s] = NoTask]
      /\ UNCHANGED <<inflight, queued, gate, seen, wrap>>
  BY DEF WakePool, Goto
<1>2. ExecTypeOK /\ PoolTypeOK /\ GateHeld /\ OwnTask /\ GateBounds /\ IInv
  BY DEF ExecInv, IInv
<1>3. spc'[s] = "idle" /\ \A r \in Submitters : r # s => spc'[r] = spc[r]
  BY <1>1, <1>2, SubmitterMoves
<1>4. stask[s] \in Tasks
  BY <1>1, <1>2 DEF OwnTask
<1>5. IInv'
  BY <1>1, <1>2, <1>4, ControlIInv
<1>6. UNCHANGED <<tasks, fut>> /\ \A w \in Workers : wpc[w] = "running" <=> wpc'[w] = "running"
  BY <1>1, <1>2 DEF NotifyOne, WakeOne, PoolTypeOK
<1>7. BeginsAgain' /\ CountersMatch' /\ Admitted' = Admitted
  BY <1>1, <1>3, <1>5, <1>6, PoolControlFrame DEF Counting
<1>8. ExecTypeOK'
  BY <1>1, <1>2, <1>5 DEF ExecTypeOK, IInv
<1>9. GateHeld' /\ GateBounds'
  BY <1>1, <1>2, <1>3, <1>7 DEF GateHeld, GateBounds
<1>10. OwnTask'
  <2>1. stask'[s] = NoTask /\ \A r \in Submitters : r # s => stask'[r] = stask[r]
    BY <1>1, <1>2 DEF ExecTypeOK
  <2>2. QED
    BY <1>2, <1>3, <1>6, <2>1, PoolAssumption DEF OwnTask
<1>11. QED
  BY <1>5, <1>7, <1>8, <1>9, <1>10 DEF ExecInv

LEMMA RethrowInv ==
  ASSUME ExecInv, NEW s \in Submitters, Rethrow(s)
  PROVE  ExecInv'
<1>1. /\ spc[s] = "failed"
      /\ stask' = [stask EXCEPT ![s] = NoTask]
      /\ UNCHANGED <<poolVars, inflight, queued, gate, seen, wrap>>
  BY DEF Rethrow
<1>2. ExecTypeOK /\ PoolTypeOK /\ GateHeld /\ OwnTask /\ GateBounds /\ IInv
  BY DEF ExecInv, IInv
<1>3. /\ spc'[s] = "idle"
      /\ \A r \in Submitters : r # s => spc'[r] = spc[r] \/ (spc[r] = "parked" /\ spc'[r] = "lock")
      /\ spc' \in [Submitters -> {"idle", "lock", "load", "loadQueued", "loadInflight",
                             "park", "parked", "admitted", "enqueue", "wakePool",
                             "failed"}]
  <2>1. CASE \E r \in Submitters : /\ spc[r] = "parked"
                                   /\ spc' = [spc EXCEPT ![r] = "lock", ![s] = "idle"]
    BY <1>2, <2>1 DEF ExecTypeOK
  <2>2. CASE spc' = [spc EXCEPT ![s] = "idle"]
    BY <1>2, <2>2 DEF ExecTypeOK
  <2>3. QED
    BY <2>1, <2>2 DEF Rethrow
<1>4. \A r \in Submitters : spc'[r] = spc[r] \/ (spc[r] \notin Counting /\ spc'[r] \notin Counting)
  BY <1>1, <1>3 DEF Counting
<1>5. IInv' /\ BeginsAgain' /\ CountersMatch' /\ Admitted' = Admitted
  BY <1>1, <1>4, SubmitFrame
<1>6. ExecTypeOK'
  BY <1>1, <1>2, <1>3, <1>5 DEF ExecTypeOK, IInv
<1>7. GateHeld' /\ GateBounds'
  BY <1>1, <1>2, <1>3, <1>5 DEF GateHeld, GateBounds
<1>8. OwnTask'
  <2>1. stask'[s] = NoTask /\ \A r \in Submitters : r # s => stask'[r] = stask[r]
    BY <1>1, <1>2 DEF ExecTypeOK
  <2>2. fut' = fut
    BY <1>1 DEF poolVars
  <2>3. QED
    BY <1>2, <1>3, <2>1, <2>2, PoolAssumption DEF OwnTask
<1>9. QED
  BY <1>5, <1>6, <1>7, <1>8 DEF ExecInv

-----------------------------------------------------------------------------
(* The steps of a thread.                                                  *)

\* Inside the lambda: only the counters, wrap and (in the notification) spc change.
LEMMA WrapFrame ==
  ASSUME ExecInv, NEW w \in Workers, wpc[w] = "running",
         NEW to \in {"begin", "begun", "call", "called", "notified"},
         wrap' = [wrap EXCEPT ![w] = to],
         UNCHANGED <<poolVars, gate, stask, seen>>,
         spc' \in [Submitters -> {"idle", "lock", "load", "loadQueued", "loadInflight",
                             "park", "parked", "admitted", "enqueue", "wakePool",
                             "failed"}],
         \A s \in Submitters : spc'[s] = spc[s] \/ (spc[s] = "parked" /\ spc'[s] = "lock"),
         inflight' \in Nat, queued' \in Nat
  PROVE  /\ IInv' /\ ExecTypeOK' /\ GateHeld' /\ BeginsAgain' /\ OwnTask' /\ GateBounds'
         /\ Cardinality(At({"enqueue"}))' = Cardinality(At({"enqueue"}))
         /\ tasks' = tasks
         /\ wrap'[w] = to /\ wpc' = wpc
         /\ \A v \in Workers : v # w => wpc'[v] = wpc[v] /\ wrap'[v] = wrap[v]
<1>1. ExecTypeOK /\ PoolTypeOK /\ GateHeld /\ OwnTask /\ GateBounds /\ IInv /\ BeginsAgain
  BY DEF ExecInv, IInv
<1>2. IInv' /\ tasks' = tasks /\ wpc' = wpc /\ fut' = fut
  BY <1>1, NextIInv DEF poolVars
<1>3. wrap'[w] = to /\ \A v \in Workers : v # w => wpc'[v] = wpc[v] /\ wrap'[v] = wrap[v]
  BY <1>1, <1>2 DEF ExecTypeOK
<1>4. ExecTypeOK'
  BY <1>1, <1>2 DEF ExecTypeOK, IInv
<1>5. BeginsAgain'
  BY <1>1, <1>2, <1>3 DEF BeginsAgain
<1>6. GateHeld' /\ OwnTask'
  BY <1>1, <1>2 DEF GateHeld, OwnTask
<1>7. At({"admitted"})' = At({"admitted"}) /\ At({"enqueue"})' = At({"enqueue"})
  BY DEF At
<1>8. GateBounds'
  <2>1. Admitted' = Admitted
    BY <1>2, <1>7 DEF Admitted
  <2>2. QED
    BY <1>1, <2>1 DEF GateBounds
<1>9. QED
  BY <1>2, <1>3, <1>4, <1>5, <1>6, <1>7, <1>8

LEMMA WrapInv ==
  ASSUME ExecInv, NEW w \in Workers,
         LeaveQueued(w) \/ EnterInflight(w) \/ Body(w) \/ NotifyGateAfter(w)
  PROVE  ExecInv'
<1>1. ExecTypeOK /\ PoolTypeOK /\ CountersMatch
  BY DEF ExecInv, IInv
<1>2. /\ wpc[w] = "running"
      /\ UNCHANGED <<poolVars, gate, stask, seen>>
  BY DEF LeaveQueued, EnterInflight, Body, NotifyGateAfter, InWrapper
<1>3. PICK to \in {"begun", "call", "called", "notified"} : wrap' = [wrap EXCEPT ![w] = to]
  BY DEF LeaveQueued, EnterInflight, Body, NotifyGateAfter, InWrapper
<1>4. /\ spc' \in [Submitters -> {"idle", "lock", "load", "loadQueued", "loadInflight",
                             "park", "parked", "admitted", "enqueue", "wakePool",
                             "failed"}]
      /\ \A s \in Submitters : spc'[s] = spc[s] \/ (spc[s] = "parked" /\ spc'[s] = "lock")
  <2>1. CASE NotifyGateAfter(w)
    BY <1>1, <2>1 DEF NotifyGateAfter, NotifyGate, Goto, ExecTypeOK
  <2>2. CASE spc' = spc
    BY <1>1, <2>2 DEF ExecTypeOK
  <2>3. QED
    BY <2>1, <2>2 DEF LeaveQueued, EnterInflight, Body
<1>5. wrap'[w] = to /\ wpc' = wpc /\ \A v \in Workers : v # w => wpc'[v] = wpc[v] /\ wrap'[v] = wrap[v]
  BY <1>1, <1>2, <1>3 DEF ExecTypeOK, poolVars
<1>6. /\ Cardinality(At({"enqueue"})) \in Nat /\ Len(tasks) \in Nat
      /\ Cardinality(Wrapping({"begin"})) \in Nat /\ Cardinality(Wrapping({"begin"}))' \in Nat
      /\ Cardinality(Wrapping({"call"})) \in Nat /\ Cardinality(Wrapping({"call"}))' \in Nat
  <2>1. Cardinality(Wrapping({"begin"}))' \in Nat /\ Cardinality(Wrapping({"call"}))' \in Nat
    BY <1>5, WrapMoves
  <2>2. QED
    BY <1>1, <2>1, CardsTyped, LengthTyped
<1>7. /\ inflight = Cardinality(Wrapping({"call"}))
      /\ queued = Cardinality(At({"enqueue"})) + Len(tasks) + Cardinality(Wrapping({"begin"}))
  BY <1>1 DEF CountersMatch
<1>8. /\ inflight' = Cardinality(Wrapping({"call"}))'
      /\ queued' = Cardinality(At({"enqueue"})) + Len(tasks) + Cardinality(Wrapping({"begin"}))'
  <2>1. CASE LeaveQueued(w)
    <3>1. /\ wrap[w] = "begin" /\ to = "begun" /\ queued' = queued - 1 /\ inflight' = inflight
      BY <1>1, <1>5, <2>1 DEF LeaveQueued, InWrapper, ExecTypeOK
    <3>2. Cardinality(Wrapping({"begin"}))' = Cardinality(Wrapping({"begin"})) - 1
      BY <1>2, <1>5, <3>1, WrapMoves DEF Doing
    <3>3. Cardinality(Wrapping({"call"}))' = Cardinality(Wrapping({"call"}))
      BY <1>2, <1>5, <3>1, WrapMoves DEF Doing
    <3>4. QED
      BY <1>6, <1>7, <3>1, <3>2, <3>3
  <2>2. CASE EnterInflight(w)
    <3>1. /\ wrap[w] = "begun" /\ to = "call" /\ queued' = queued /\ inflight' = inflight + 1
      BY <1>1, <1>5, <2>2 DEF EnterInflight, InWrapper, ExecTypeOK
    <3>2. Cardinality(Wrapping({"begin"}))' = Cardinality(Wrapping({"begin"}))
      BY <1>2, <1>5, <3>1, WrapMoves DEF Doing
    <3>3. Cardinality(Wrapping({"call"}))' = Cardinality(Wrapping({"call"})) + 1
      BY <1>2, <1>5, <3>1, WrapMoves DEF Doing
    <3>4. QED
      BY <1>6, <1>7, <3>1, <3>2, <3>3
  <2>3. CASE Body(w)
    <3>1. /\ wrap[w] = "call" /\ to = "called" /\ queued' = queued /\ inflight' = inflight - 1
      BY <1>1, <1>5, <2>3 DEF Body, InWrapper, ExecTypeOK
    <3>2. Cardinality(Wrapping({"begin"}))' = Cardinality(Wrapping({"begin"}))
      BY <1>2, <1>5, <3>1, WrapMoves DEF Doing
    <3>3. Cardinality(Wrapping({"call"}))' = Cardinality(Wrapping({"call"})) - 1
      BY <1>2, <1>5, <3>1, WrapMoves DEF Doing
    <3>4. QED
      BY <1>6, <1>7, <3>1, <3>2, <3>3
  <2>4. CASE NotifyGateAfter(w)
    <3>1. /\ wrap[w] = "called" /\ to = "notified" /\ queued' = queued /\ inflight' = inflight
      BY <1>1, <1>5, <2>4 DEF NotifyGateAfter, InWrapper, ExecTypeOK
    <3>2. Cardinality(Wrapping({"begin"}))' = Cardinality(Wrapping({"begin"}))
      BY <1>2, <1>5, <3>1, WrapMoves DEF Doing
    <3>3. Cardinality(Wrapping({"call"}))' = Cardinality(Wrapping({"call"}))
      BY <1>2, <1>5, <3>1, WrapMoves DEF Doing
    <3>4. QED
      BY <1>6, <1>7, <3>1, <3>2, <3>3
  <2>5. QED
    BY <2>1, <2>2, <2>3, <2>4
<1>9. inflight' \in Nat /\ queued' \in Nat
  BY <1>6, <1>8
<1>10. /\ IInv' /\ ExecTypeOK' /\ GateHeld' /\ BeginsAgain' /\ OwnTask' /\ GateBounds'
       /\ Cardinality(At({"enqueue"}))' = Cardinality(At({"enqueue"}))
       /\ tasks' = tasks
  BY <1>2, <1>3, <1>4, <1>9, WrapFrame
<1>11. CountersMatch'
  BY <1>8, <1>10 DEF CountersMatch
<1>12. QED
  BY <1>10, <1>11 DEF ExecInv

LEMMA FinishTaskInv ==
  ASSUME ExecInv, NEW w \in Workers, FinishTask(w)
  PROVE  ExecInv'
<1>1. /\ wpc[w] = "running" /\ wrap[w] = "notified"
      /\ wrap' = [wrap EXCEPT ![w] = "begin"]
      /\ Finish(w)
      /\ UNCHANGED <<inflight, queued, gate, spc, stask, seen>>
  BY DEF FinishTask, InWrapper
<1>2. ExecTypeOK /\ PoolTypeOK /\ GateHeld /\ OwnTask /\ GateBounds /\ CountersMatch /\ IInv /\ BeginsAgain
  BY DEF ExecInv, IInv
<1>3. IInv'
  BY <1>1, <1>2, FinishIInv
<1>4. /\ wpc'[w] = "ready" /\ wrap'[w] = "begin" /\ tasks' = tasks
      /\ \A v \in Workers : v # w => wpc'[v] = wpc[v] /\ wrap'[v] = wrap[v]
  BY <1>1, <1>2 DEF Finish, ExecTypeOK, PoolTypeOK
<1>5. current[w] \in Tasks /\ fut[current[w]] = "pending"
  BY <1>1, <1>2 DEF IInv, RunningHolds, PendingIsInPool, PoolTypeOK
<1>6. Cardinality(Wrapping({"begin"}))' = Cardinality(Wrapping({"begin"}))
  BY <1>1, <1>4, WrapMoves DEF Doing
<1>7. Cardinality(Wrapping({"call"}))' = Cardinality(Wrapping({"call"}))
  BY <1>1, <1>4, WrapMoves DEF Doing
<1>8. At({"admitted"})' = At({"admitted"}) /\ At({"enqueue"})' = At({"enqueue"})
  BY <1>1 DEF At
<1>9. CountersMatch' /\ Admitted' = Admitted
  BY <1>1, <1>2, <1>4, <1>6, <1>7, <1>8 DEF CountersMatch, Admitted
<1>10. ExecTypeOK'
  BY <1>1, <1>2, <1>3 DEF ExecTypeOK, IInv
<1>11. OwnTask'
  <2>1. \A t \in Tasks : t # current[w] => fut'[t] = fut[t]
    BY <1>1, <1>2, <1>5 DEF Finish, PoolTypeOK
  <2>2. QED
    BY <1>1, <1>2, <1>5, <2>1 DEF OwnTask
<1>12. GateHeld' /\ BeginsAgain' /\ GateBounds'
  BY <1>1, <1>2, <1>4, <1>9 DEF GateHeld, BeginsAgain, GateBounds
<1>13. QED
  BY <1>3, <1>9, <1>10, <1>11, <1>12 DEF ExecInv

\* A thread takes a batch: it is still counted by queued_.
LEMMA TakeInv ==
  ASSUME ExecInv, NEW w \in Workers, Take(w), UNCHANGED gateVars
  PROVE  ExecInv'
<1>1. ExecTypeOK /\ PoolTypeOK /\ GateHeld /\ OwnTask /\ GateBounds /\ CountersMatch /\ IInv /\ BeginsAgain
  BY DEF ExecInv, IInv
<1>2. UNCHANGED <<inflight, queued, gate, spc, stask, seen, wrap>>
  BY DEF gateVars
<1>3. IInv' /\ fut' = fut
  BY <1>1, TakeIInv DEF Take
<1>4. /\ wpc[w] = "ready" /\ wpc'[w] = "running" /\ wrap[w] = "begin" /\ wrap'[w] = "begin"
      /\ \A v \in Workers : v # w => wpc'[v] = wpc[v] /\ wrap'[v] = wrap[v]
  BY <1>1, <1>2 DEF Take, PoolTypeOK, BeginsAgain
<1>5. Len(tasks') = Len(tasks) - 1 /\ Len(tasks) \in Nat /\ Len(tasks') \in Nat
  <2>1. tasks \in Seq(Tasks) /\ tasks # <<>> /\ tasks' = Tail(tasks)
    BY <1>1 DEF Take, PoolTypeOK
  <2>2. QED
    BY <2>1
<1>6. Cardinality(Wrapping({"begin"}))' = Cardinality(Wrapping({"begin"})) + 1
  BY <1>4, WrapMoves DEF Doing
<1>7. Cardinality(Wrapping({"call"}))' = Cardinality(Wrapping({"call"}))
  BY <1>4, WrapMoves DEF Doing
<1>8. At({"admitted"})' = At({"admitted"}) /\ At({"enqueue"})' = At({"enqueue"})
  BY <1>2 DEF At
<1>9. /\ Cardinality(At({"admitted"})) \in Nat /\ Cardinality(At({"enqueue"})) \in Nat
      /\ Cardinality(Wrapping({"begin"})) \in Nat
      /\ Cardinality(Submitters) \in Nat /\ maxTotal \in Nat
  BY CardsTyped, LimitTyped
<1>10. CountersMatch'
  BY <1>1, <1>2, <1>5, <1>6, <1>7, <1>8, <1>9 DEF CountersMatch
<1>11. Admitted' = Admitted - 1 /\ Admitted \in Nat
  BY <1>5, <1>8, <1>9 DEF Admitted
<1>12. GateBounds'
  <2>1. \A r \in Submitters : seen[r] \in Nat
    BY <1>1 DEF ExecTypeOK
  <2>2. \A m \in Nat : Admitted <= m + (Cardinality(Submitters) - 1)
                       => Admitted' <= m + (Cardinality(Submitters) - 1)
    BY <1>9, <1>11
  <2>3. QED
    BY <1>1, <1>2, <1>9, <2>1, <2>2 DEF GateBounds
<1>13. ExecTypeOK'
  BY <1>1, <1>2, <1>3 DEF ExecTypeOK, IInv
<1>14. GateHeld' /\ BeginsAgain' /\ OwnTask'
  BY <1>1, <1>2, <1>3, <1>4 DEF GateHeld, BeginsAgain, OwnTask
<1>15. QED
  BY <1>3, <1>10, <1>12, <1>13, <1>14 DEF ExecInv

LEMMA IdleThreadInv ==
  ASSUME ExecInv, NEW w \in Workers, Wait(w) \/ SpuriousWake(w), UNCHANGED gateVars
  PROVE  ExecInv'
<1>1. ExecTypeOK /\ PoolTypeOK /\ GateHeld /\ OwnTask /\ GateBounds /\ IInv
  BY DEF ExecInv, IInv
<1>2. UNCHANGED <<inflight, queued, gate, spc, stask, seen, wrap>>
  BY DEF gateVars
<1>3. IInv'
  BY <1>1, ControlIInv
<1>4. UNCHANGED <<tasks, fut>> /\ \A v \in Workers : wpc[v] = "running" <=> wpc'[v] = "running"
  BY <1>1 DEF Wait, SpuriousWake, PoolTypeOK
<1>5. BeginsAgain' /\ CountersMatch' /\ Admitted' = Admitted
  BY <1>2, <1>3, <1>4, PoolControlFrame
<1>6. ExecTypeOK'
  BY <1>1, <1>2, <1>3 DEF ExecTypeOK, IInv
<1>7. GateHeld' /\ OwnTask' /\ GateBounds'
  BY <1>1, <1>2, <1>4, <1>5 DEF GateHeld, OwnTask, GateBounds
<1>8. QED
  BY <1>3, <1>5, <1>6, <1>7 DEF ExecInv

-----------------------------------------------------------------------------
(* The executor's invariant.                                               *)

LEMMA InitExecInv == Init => ExecInv
<1> SUFFICES ASSUME Init PROVE ExecInv
  OBVIOUS
<1>1. IInv
  BY InitIInv DEF Init
<1>2. ExecTypeOK
  BY <1>1 DEF Init, ExecTypeOK, IInv
<1>3. /\ At({"admitted"}) = {} /\ At({"enqueue"}) = {} /\ tasks = <<>>
      /\ Wrapping({"begin"}) = {} /\ Wrapping({"call"}) = {}
  BY DEF Init, PoolInit, At, Wrapping
<1>4. Len(tasks) = 0 /\ Cardinality({}) = 0
  BY <1>3, FS_EmptySet
<1>5. CountersMatch /\ Admitted = 0
  <2>1. inflight = 0 /\ queued = 0
    BY DEF Init
  <2>2. /\ Cardinality(At({"admitted"})) = 0 /\ Cardinality(At({"enqueue"})) = 0
        /\ Cardinality(Wrapping({"begin"})) = 0 /\ Cardinality(Wrapping({"call"})) = 0
    BY <1>3, <1>4
  <2>3. QED
    BY <1>4, <2>1, <2>2 DEF CountersMatch, Admitted
<1>6. GateBounds
  <2>1. 0 <= maxTotal + (Cardinality(Submitters) - 1)
    BY LimitTyped, CardsTyped
  <2>2. QED
    BY <1>5, <2>1 DEF Init, GateBounds
<1>7. GateHeld /\ BeginsAgain /\ OwnTask
  BY DEF Init, GateHeld, BeginsAgain, OwnTask
<1>8. QED
  BY <1>1, <1>2, <1>5, <1>6, <1>7 DEF ExecInv

LEMMA NextExecInv == ExecInv /\ [Next]_vars => ExecInv'
<1> SUFFICES ASSUME ExecInv, [Next]_vars PROVE ExecInv'
  OBVIOUS
<1>1. ASSUME NEW s \in Submitters, SubmitStep(s)
      PROVE  ExecInv'
  BY <1>1, GateInv, LoadSecondInv, CountQueuedInv, EnqueueInv, EnqueueThrowsInv, WakePoolInv,
     RethrowInv DEF SubmitStep
<1>2. ASSUME NEW s \in Submitters, SpuriousGateWake(s)
      PROVE  ExecInv'
  BY <1>2, GateInv
<1>3. ASSUME NEW s \in Submitters, NEW t \in Tasks, Call(s, t)
      PROVE  ExecInv'
  BY <1>3, CallInv
<1>4. ASSUME NEW w \in Workers, WrapStep(w)
      PROVE  ExecInv'
  BY <1>4, WrapInv, FinishTaskInv DEF WrapStep
<1>5. ASSUME NEW w \in Workers, PoolStep(w) \/ SpuriousWake(w), UNCHANGED gateVars
      PROVE  ExecInv'
  BY <1>5, TakeInv, IdleThreadInv DEF PoolStep
<1>6. CASE UNCHANGED vars
  <2>1. UNCHANGED <<poolVars, wrap, inflight, queued>> /\ UNCHANGED <<gate, spc, stask, seen>>
    BY <1>6 DEF vars, gateVars
  <2>2. IInv' /\ BeginsAgain' /\ CountersMatch' /\ Admitted' = Admitted
    BY <2>1, SubmitFrame
  <2>3. fut' = fut
    BY <2>1 DEF poolVars
  <2>4. QED
    BY <2>1, <2>2, <2>3 DEF ExecInv, ExecTypeOK, IInv, GateHeld, OwnTask, GateBounds
<1>7. QED
  BY <1>1, <1>2, <1>3, <1>4, <1>5, <1>6 DEF Next

THEOREM ExecutorInvariant == Spec => []ExecInv
  BY InitExecInv, NextExecInv, PTL DEF Spec

(* inflight_ and queued_ are written without a lock by submitters and pool *)
(* threads; still queued_ counts exactly the batches between a submitter's *)
(* increment and a thread's decrement, and inflight_ those inside t().     *)
THEOREM TheCountersMatch == Spec => []CountersMatch
<1>1. ExecInv => CountersMatch
  BY DEF ExecInv
<1>2. QED
  BY <1>1, ExecutorInvariant, PTL

-----------------------------------------------------------------------------
(* The bound.                                                              *)

\* Every unfinished batch is in the queue or in the hands of a thread.
LEMMA OutstandingBound ==
  ASSUME IInv
  PROVE  Cardinality(Outstanding) <= Len(tasks) + Cardinality(Workers)
         /\ Cardinality(Outstanding) \in Nat
<1> DEFINE InHand == {current[w] : w \in Workers}
<1>1. PoolTypeOK /\ tasks \in Seq(Tasks) /\ current \in [Workers -> Tasks \cup {NoTask}]
  BY DEF IInv, PoolTypeOK
<1>2. Outstanding \subseteq Queued \cup InHand
  BY DEF Outstanding, Queued, IInv, PendingIsInPool
<1>3. IsFiniteSet(InHand) /\ Cardinality(InHand) <= Cardinality(Workers)
  <2>1. current \in Surjection(Workers, InHand)
    BY <1>1 DEF Surjection
  <2>2. QED
    BY <2>1, ExecutorAssumption, FS_Surjection
<1>4. IsFiniteSet(Queued) /\ Cardinality(Queued) <= Len(tasks)
  <2>1. DOMAIN tasks = 1..Len(tasks) /\ Len(tasks) \in Nat
    BY <1>1
  <2>2. tasks \in Surjection(DOMAIN tasks, Queued)
    <3>1. tasks \in [DOMAIN tasks -> Queued]
      BY <1>1 DEF Queued
    <3>2. QED
      BY <3>1 DEF Surjection, Queued
  <2>3. IsFiniteSet(1..Len(tasks)) /\ Cardinality(1..Len(tasks)) = Len(tasks)
    <3>1. ASSUME NEW n \in Nat
          PROVE  IsFiniteSet(1..n) /\ Cardinality(1..n) = IF 1 > n THEN 0 ELSE n - 1 + 1
      <4>1. n \in Int /\ 1 \in Int
        OBVIOUS
      <4>2. QED
        BY <4>1, FS_Interval
    <3>2. \A n \in Nat : (IF 1 > n THEN 0 ELSE n - 1 + 1) = n
      OBVIOUS
    <3>3. QED
      BY <2>1, <3>1, <3>2
  <2>4. QED
    BY <2>1, <2>2, <2>3, FS_Surjection
<1> HIDE DEF InHand
<1>5. /\ IsFiniteSet(Queued \cup InHand)
      /\ Cardinality(Queued \cup InHand) =
           Cardinality(Queued) + Cardinality(InHand) - Cardinality(Queued \cap InHand)
      /\ IsFiniteSet(Queued \cap InHand)
  BY <1>3, <1>4, FS_Union, FS_Intersection
<1>6. /\ Cardinality(Queued) \in Nat /\ Cardinality(InHand) \in Nat
      /\ Cardinality(Queued \cap InHand) \in Nat /\ Cardinality(Workers) \in Nat /\ Len(tasks) \in Nat
      /\ Cardinality(Queued \cup InHand) \in Nat
  BY <1>1, <1>3, <1>4, <1>5, ExecutorAssumption, FS_CardinalityType, LengthTyped
<1>7. Cardinality(Outstanding) <= Cardinality(Queued \cup InHand) /\ Cardinality(Outstanding) \in Nat
  BY <1>2, <1>5, FS_Subset, FS_CardinalityType
<1>8. QED
  BY <1>3, <1>4, <1>5, <1>6, <1>7

\* A submitter that has passed the gate finds room for its batch.
LEMMA RoomForOneMore ==
  ASSUME ExecInv, NEW s \in Submitters, spc[s] = "enqueue"
  PROVE  Cardinality(Outstanding) < HardLimit
<1>1. /\ Cardinality(At({"admitted"})) \in Nat /\ Cardinality(At({"enqueue"})) \in Nat
      /\ Cardinality(Submitters) \in Nat /\ maxTotal \in Nat
  BY CardsTyped, LimitTyped
<1>2. Cardinality(At({"enqueue"})) >= 1
  <2>1. s \in At({"enqueue"}) /\ IsFiniteSet(At({"enqueue"}))
    BY CardsTyped DEF At
  <2>2. QED
    BY <1>1, <2>1, FS_EmptySet
<1>3. IInv /\ PoolTypeOK /\ Admitted <= maxTotal + (Cardinality(Submitters) - 1)
  BY DEF ExecInv, IInv, GateBounds
<1>4. Len(tasks) \in Nat /\ Cardinality(Workers) \in Nat
  BY <1>3, LengthTyped, ExecutorAssumption, FS_CardinalityType
<1>5. Cardinality(Outstanding) <= Len(tasks) + Cardinality(Workers) /\ Cardinality(Outstanding) \in Nat
  BY <1>3, OutstandingBound
<1>6. QED
  BY <1>1, <1>2, <1>3, <1>4, <1>5 DEF Admitted, HardLimit

(* The executor keeps what its callers rely on: each of its steps admits a *)
(* batch at the end of the line with fewer than HardLimit unfinished,      *)
(* refuses one, starts the oldest one on a thread that runs nothing,       *)
(* finishes one, or leaves line, threads and futures alone.                *)
THEOREM ExecutorKeepsTheBound == Spec => Bounded!Init /\ [][Bounded!Next]_(Bounded!vars)
<1>1. Init => Bounded!Init
  BY DEF Init, PoolInit, Bounded!Init
<1>2. ASSUME ExecInv, [Next]_vars
      PROVE  [Bounded!Next]_(Bounded!vars)
  <2>1. PoolTypeOK /\ OwnTask /\ RunningHolds
    BY <1>2 DEF ExecInv, IInv
  <2>2. ASSUME NEW s \in Submitters, Enqueue(s)
        PROVE  Bounded!Next
    <3>1. spc[s] = "enqueue" /\ Push(stask[s])
      BY <2>2 DEF Enqueue, Goto
    <3>2. stask[s] \in Tasks
      BY <2>1, <3>1 DEF OwnTask
    <3>3. Cardinality(Outstanding) < HardLimit
      BY <1>2, <3>1, RoomForOneMore
    <3>4. Bounded!Outstanding = Outstanding
      BY DEF Bounded!Outstanding, Outstanding
    <3>5. Bounded!Cardinality(Outstanding) = Cardinality(Outstanding)
      BY DEF Bounded!Cardinality, Cardinality
    <3>6. Bounded!Admit(stask[s])
      BY <3>1, <3>3, <3>4, <3>5 DEF Push, Bounded!Admit
    <3>7. QED
      BY <3>2, <3>6 DEF Bounded!Next
  <2>3. ASSUME NEW s \in Submitters, EnqueueThrows(s)
        PROVE  Bounded!Next
    <3>1. /\ spc[s] = "enqueue" /\ fut' = [fut EXCEPT ![stask[s]] = "refused"]
          /\ tasks' = tasks /\ current' = current
      BY <2>3 DEF EnqueueThrows, Goto
    <3>2. stask[s] \in Tasks /\ fut[stask[s]] = "none"
      BY <2>1, <3>1 DEF OwnTask
    <3>3. QED
      BY <3>1, <3>2 DEF Bounded!Next, Bounded!Refuse
  <2>4. ASSUME NEW w \in Workers, FinishTask(w)
        PROVE  Bounded!Next
    <3>1. wpc[w] = "running" /\ Finish(w)
      BY <2>4 DEF FinishTask, InWrapper
    <3>2. current[w] # NoTask
      BY <2>1, <3>1 DEF RunningHolds
    <3>3. Bounded!Finish(w)
      BY <3>1, <3>2 DEF Finish, Bounded!Finish
    <3>4. QED
      BY <3>3 DEF Bounded!Next
  <2>5. ASSUME NEW w \in Workers, Take(w)
        PROVE  Bounded!Next
    <3>1. current[w] = NoTask
      BY <2>1, <2>5 DEF Take, RunningHolds
    <3>2. Bounded!Start(w)
      BY <2>5, <3>1 DEF Take, Bounded!Start
    <3>3. QED
      BY <3>2 DEF Bounded!Next
  <2>6. CASE UNCHANGED <<tasks, current, fut>>
    BY <2>6 DEF Bounded!vars
  <2>7. ASSUME NEW s \in Submitters,
               LockGate(s) \/ LoadFirst(s) \/ LoadSecond(s) \/ Park(s) \/ CountQueued(s)
                 \/ WakePool(s) \/ Rethrow(s) \/ SpuriousGateWake(s) \/ \E t \in Tasks : Call(s, t)
        PROVE  UNCHANGED <<tasks, current, fut>>
    BY <2>7 DEF LockGate, LoadFirst, LoadSecond, Park, CountQueued, WakePool, NotifyOne, Rethrow,
                SpuriousGateWake, Call, poolVars
  <2>8. ASSUME NEW w \in Workers,
               LeaveQueued(w) \/ EnterInflight(w) \/ Body(w) \/ NotifyGateAfter(w)
                 \/ Wait(w) \/ SpuriousWake(w)
        PROVE  UNCHANGED <<tasks, current, fut>>
    BY <2>8 DEF LeaveQueued, EnterInflight, Body, NotifyGateAfter, Wait, SpuriousWake, poolVars
  <2>9. CASE UNCHANGED vars
    BY <2>6, <2>9 DEF vars, poolVars
  <2>10. QED
    BY <1>2, <2>2, <2>3, <2>4, <2>5, <2>6, <2>7, <2>8, <2>9 DEF Next, SubmitStep, WrapStep, PoolStep
<1>3. QED
  BY <1>1, <1>2, ExecutorInvariant, PTL DEF Spec
=============================================================================
