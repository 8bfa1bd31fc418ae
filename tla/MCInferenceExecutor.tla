------------------------- MODULE MCInferenceExecutor -------------------------
(* One submitter (the scheduler thread, the only caller of submit) and two *)
(* threads, as the CPU executor may have; queueMultiplier is 0, so that    *)
(* five batches are enough to pass the limit of four.                      *)
EXTENDS InferenceExecutor
=============================================================================
