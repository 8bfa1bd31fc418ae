--------------------------- MODULE BoundedExecutor ---------------------------
(***************************************************************************)
(* What InferenceExecutor promises the scheduler: it holds a bounded       *)
(* number of unfinished batches and delays a submission that would exceed  *)
(* the bound, starts the batches it has admitted in the order of their     *)
(* admission, each once and no more at a time than it has threads, and     *)
(* finishes every one it has started.                                      *)
(***************************************************************************)
EXTENDS Naturals, Sequences, FiniteSets

CONSTANTS
  Tasks,     \* the batches
  NoTask,    \* what an idle server holds
  Servers,   \* one for each batch that may run at a time
  Limit      \* the largest number of unfinished batches

VARIABLES
  waiting,   \* the admitted batches that have not started, oldest first
  serving,   \* the batch each server runs
  fut        \* fut[t]: "none", "pending", "ready" or "refused"

vars == <<waiting, serving, fut>>

Outstanding == {t \in Tasks : fut[t] = "pending"}

Init ==
  /\ waiting = <<>>
  /\ serving = [s \in Servers |-> NoTask]
  /\ fut = [t \in Tasks |-> "none"]

Admit(t) ==
  /\ fut[t] = "none"
  /\ Cardinality(Outstanding) < Limit
  /\ fut' = [fut EXCEPT ![t] = "pending"]
  /\ waiting' = Append(waiting, t)
  /\ UNCHANGED serving

Refuse(t) ==
  /\ fut[t] = "none"
  /\ fut' = [fut EXCEPT ![t] = "refused"]
  /\ UNCHANGED <<waiting, serving>>

Start(s) ==
  /\ serving[s] = NoTask
  /\ waiting # <<>>
  /\ serving' = [serving EXCEPT ![s] = Head(waiting)]
  /\ waiting' = Tail(waiting)
  /\ UNCHANGED fut

Finish(s) ==
  /\ serving[s] # NoTask
  /\ fut' = [fut EXCEPT ![serving[s]] = "ready"]
  /\ serving' = [serving EXCEPT ![s] = NoTask]
  /\ UNCHANGED waiting

Next ==
  \/ \E t \in Tasks : Admit(t) \/ Refuse(t)
  \/ \E s \in Servers : Start(s) \/ Finish(s)

Spec == Init /\ [][Next]_vars /\ \A s \in Servers : WF_vars(Start(s)) /\ WF_vars(Finish(s))
=============================================================================
