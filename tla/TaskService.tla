----------------------------- MODULE TaskService -----------------------------
(***************************************************************************)
(* What a task executor promises to the threads that hand it work: every   *)
(* task it accepts is completed, none is accepted once it has been closed, *)
(* and it is gone only when nothing it accepted is unfinished.  How tasks  *)
(* are queued, which thread runs them and how threads are woken is left to *)
(* the implementations (ThreadPool).                                       *)
(***************************************************************************)
CONSTANT Tasks   \* the tasks the clients may hand over

VARIABLES
  fut,      \* fut[t]: "none" (never handed over), "pending", "ready", "refused"
  phase     \* "open", "closing", "gone"

vars == <<fut, phase>>

TypeOK ==
  /\ fut \in [Tasks -> {"none", "pending", "ready", "refused"}]
  /\ phase \in {"open", "closing", "gone"}

Init ==
  /\ fut = [t \in Tasks |-> "none"]
  /\ phase = "open"

Accept(t) ==
  /\ phase = "open"
  /\ fut[t] = "none"
  /\ fut' = [fut EXCEPT ![t] = "pending"]
  /\ UNCHANGED phase

Refuse(t) ==
  /\ phase # "open"
  /\ fut[t] = "none"
  /\ fut' = [fut EXCEPT ![t] = "refused"]
  /\ UNCHANGED phase

Complete(t) ==
  /\ fut[t] = "pending"
  /\ fut' = [fut EXCEPT ![t] = "ready"]
  /\ UNCHANGED phase

Close ==
  /\ phase = "open"
  /\ phase' = "closing"
  /\ UNCHANGED fut

Vanish ==
  /\ phase = "closing"
  /\ \A t \in Tasks : fut[t] # "pending"
  /\ phase' = "gone"
  /\ UNCHANGED fut

Next ==
  \/ \E t \in Tasks : Accept(t) \/ Refuse(t) \/ Complete(t)
  \/ Close
  \/ Vanish

Spec == Init /\ [][Next]_vars
=============================================================================
