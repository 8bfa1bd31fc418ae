--------------------------- MODULE MCModelPipeline ---------------------------
EXTENDS ModelPipeline

Loaded(batch, pooled, task) ==
  [configured |-> 2, batch |-> batch, shaped |-> TRUE, pooled |-> pooled, task |-> task]

\* A dynamic engine of at least the probed batch, static engines of batch 1 and 2,
\* and a configured shape that is not positive.  The server gives every pipeline its
\* pool; the class can do without one, and then the batches hold images.
ServedEngines ==
  {Loaded(0, FALSE, "classification"), Loaded(2, FALSE, "detection"),
   Loaded(1, TRUE, "classification"), Loaded(2, TRUE, "classification"),
   [Loaded(0, TRUE, "other") EXCEPT !.shaped = FALSE]}

\* What the server loads.
PooledEngines == {Loaded(b, TRUE, "classification") : b \in 0 .. 2}
==============================================================================
