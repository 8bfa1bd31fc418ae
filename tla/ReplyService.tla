----------------------------- MODULE ReplyService -----------------------------
(***************************************************************************)
(* What the batch scheduler promises the request handlers: a submission is *)
(* answered exactly once.  Each key has a line of at most Capacity waiting *)
(* submissions, served from its front; a submission is turned away exactly *)
(* when the line of its key is full, and cancelled only while it waits and *)
(* the service is closing.  Batching, deadlines and executors are the      *)
(* implementation's business.                                              *)
(***************************************************************************)
EXTENDS Naturals, Sequences

CONSTANTS
  Requests,   \* the submissions
  Keys,       \* the scheduling keys (model version and input shape)
  KeyOf,      \* the key of each submission
  Capacity    \* how many submissions of one key may wait

VARIABLES
  promise,    \* promise[r]: "unborn", "pending" or how it was answered
  waiting,    \* waiting[k]: the line of each key, oldest first
  closing     \* whether the service is being shut down

vars == <<promise, waiting, closing>>

Waits(r) == \E k \in Keys : \E i \in DOMAIN waiting[k] : waiting[k][i] = r

Init ==
  /\ promise = [r \in Requests |-> "unborn"]
  /\ waiting = [k \in Keys |-> <<>>]
  /\ closing = FALSE

Accept(r) ==
  /\ promise[r] = "unborn"
  /\ Len(waiting[KeyOf[r]]) < Capacity
  /\ promise' = [promise EXCEPT ![r] = "pending"]
  /\ waiting' = [waiting EXCEPT ![KeyOf[r]] = Append(@, r)]
  /\ UNCHANGED closing

TurnAway(r) ==
  /\ promise[r] = "unborn"
  /\ Len(waiting[KeyOf[r]]) >= Capacity
  /\ promise' = [promise EXCEPT ![r] = "full"]
  /\ UNCHANGED <<waiting, closing>>

\* the n[k] oldest of each key leave their line
Serve(n) ==
  /\ \A k \in Keys : n[k] <= Len(waiting[k])
  /\ waiting' = [k \in Keys |-> SubSeq(waiting[k], n[k] + 1, Len(waiting[k]))]
  /\ UNCHANGED <<promise, closing>>

\* a batch whose submission to the executor fails is answered as a whole
Answer(R) ==
  /\ R # {}
  /\ \A r \in R : promise[r] = "pending" /\ ~Waits(r)
  /\ \E a \in {"ok", "error"} :
        promise' = [r \in Requests |-> IF r \in R THEN a ELSE promise[r]]
  /\ UNCHANGED <<waiting, closing>>

Close ==
  /\ ~closing
  /\ closing' = TRUE
  /\ UNCHANGED <<promise, waiting>>

Cancel ==
  /\ closing
  /\ promise' = [r \in Requests |-> IF Waits(r) THEN "cancelled" ELSE promise[r]]
  /\ waiting' = [k \in Keys |-> <<>>]
  /\ UNCHANGED closing

Next ==
  \/ \E r \in Requests : Accept(r) \/ TurnAway(r)
  \/ \E n \in [Keys -> 0..Capacity] : Serve(n)
  \/ \E R \in SUBSET Requests : Answer(R)
  \/ Close \/ Cancel

Spec == Init /\ [][Next]_vars
=============================================================================
