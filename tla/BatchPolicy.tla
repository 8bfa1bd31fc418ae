----------------------------- MODULE BatchPolicy -----------------------------
(***************************************************************************)
(* The pure decisions of DynamicBatchScheduler: the parameters of a queue  *)
(* (resolveConfig) and how many requests leave it (decideBatch and the     *)
(* test in schedulerLoop that guards it).                                  *)
(*                                                                         *)
(* A queue's parameters are a record [max, pref, delay]; the sorted vector *)
(* of preferred sizes is a set, its front the minimum.  Sizes come from    *)
(* the configuration file unchecked and may be zero or negative.           *)
(***************************************************************************)
EXTENDS Integers, FiniteSetsExt

\* over is the per-model entry; 0 or {} means "inherit".
ResolveConfig(global, over) ==
  LET max  == IF over.max > 0 THEN over.max ELSE global.max
      pref == IF over.pref # {} THEN over.pref ELSE global.pref
  IN  [max   |-> max,
       pref  |-> {s \in (IF pref = {} THEN {max} ELSE pref) : s <= max},
       delay |-> IF over.delay > 0 THEN over.delay ELSE global.delay]

\* schedulerLoop: may anything leave a queue of n requests whose oldest has waited that long?
Hot(n, c) == n >= c.max \/ (c.pref # {} /\ n >= Min(c.pref))

ShouldDispatch_noTimeout(n, wait, c) == Hot(n, c)   \* mutant

ShouldDispatch(n, wait, c) == Hot(n, c) \/ wait >= c.delay

\* decideBatch: how many of the n requests leave the queue.
MinPref(c) == IF c.pref = {} THEN c.max ELSE Min(c.pref)

LargestPref(n, c) == Max({0} \cup {s \in c.pref : s <= n})

TakeCount(n, wait, c) ==
  IF n >= c.max THEN c.max
  ELSE IF n >= MinPref(c) THEN LargestPref(n, c)
  ELSE IF wait >= c.delay THEN Min({n, c.max})
  ELSE 0
=============================================================================
