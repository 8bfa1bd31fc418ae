---------------------------- MODULE ModelPipeline ----------------------------
(***************************************************************************)
(* One loaded model: ModelPipeline (ModelPipeline.cpp) over a TRTBackend   *)
(* (TRTBackend.cpp).  Threads call it concurrently: IO threads one image   *)
(* at a time (doPredictJson -> infer, through two pinned buffer slots),    *)
(* executor threads a batch at a time (predictBatch -> inferBatch, through *)
(* one shared pair of batch buffers).  gpu_mutex_ guards the execution     *)
(* context only.                                                           *)
(*                                                                         *)
(* A tensor is abstracted to the image it was computed from, Blank (the    *)
(* zero-filled tensor) or Stale (memory nothing was written to), an output *)
(* to the rows (one per sample of the engine's batch) that the             *)
(* postprocessor reads.  Copies, enqueueV3 and synchronization of the      *)
(* device may fail: where the code looks at the failure it is a path of    *)
(* its own, where it does not (or only logs it) the buffer keeps what it   *)
(* held and `faulty' remembers that the call went on over a failure.       *)
(***************************************************************************)
EXTENDS Integers, Sequences, FiniteSets

CONSTANTS
  Single,        \* IO threads that call predictFromBytes
  Batcher,       \* threads of the executor the scheduler picked for the model
  NumSlots,      \* kNumSlots
  Engines,       \* the engines that may be loaded, see Engine
  Probe,         \* 8: the batch a dynamic engine is sized for at least
  BatchLen,      \* bound: images in a call of predictBatch
  Calls,         \* bound: calls per thread
  Spoilt,        \* bound: images of a call that cannot be decoded
  Failures,      \* bound: threads whose call goes on over a failure, one each
  Blank, Stale, Nobody

Thread == Single \union Batcher
Slot == 1 .. NumSlots

\* configured: ModelConfig::max_batch_size; batch: the batch dimension of a static
\* engine, 0 for a dynamic one; shaped: the configured input has a positive size;
\* pooled: the pipeline was given a preprocessPool_; task: what picks the
\* postprocessor, "other" for segmentation and feature extraction.
Engine == [configured : Nat \ {0}, batch : Nat, shaped : BOOLEAN, pooled : BOOLEAN,
           task : {"classification", "detection", "other"}]

ASSUME PipelineAssumption ==
  /\ NumSlots \in Nat \ {0} /\ Probe \in Nat \ {0}
  /\ Engines \subseteq Engine
  /\ BatchLen \in Nat \ {0} /\ Calls \in Nat /\ Spoilt \in Nat /\ Failures \in Nat
  /\ Single \intersect Batcher = {} /\ Nobody \notin Thread

VARIABLES
  engine,     \* the engine loadEngine deserialized, never changed
  pc,         \* pc[t]: where the call of thread t is
  job,        \* job[t]: the images of its call, a sequence
  results,    \* results[t]: what it has produced so far, one set of rows per image
  slotOf,     \* slotOf[t]: the slot it holds, 0 for none
  inUse,      \* slots_[i].in_use
  pinned,     \* slots_[i].h_input_pinned, h_output_pinned, d_input, d_output
  gpu,        \* the holder of gpu_mutex_
  context,    \* input and output address and shape set in context_
  batchIn,    \* h_batch_input_ and d_batch_input_
  batchOut,   \* d_batch_output_ and h_batch_output_
  calls,      \* calls[t]: calls made
  faulty,     \* faulty[t]: its call went on over a failure of the device
  crashed     \* the process has died

vars == <<engine, pc, job, results, slotOf, inUse, pinned, gpu, context, batchIn, batchOut,
          calls, faulty, crashed>>
buffers == <<engine, pinned, gpu, context, batchIn, batchOut>>

-----------------------------------------------------------------------------
(* What loadEngine and allocateBatchBuffers compute from the engine.       *)

Larger(a, b) == IF a > b THEN a ELSE b
Smaller(a, b) == IF a < b THEN a ELSE b

Static == engine.batch # 0

\* maxBatchSize_: clamped to a static engine's batch.
MaxBatch == IF Static THEN Smaller(engine.configured, engine.batch) ELSE engine.configured

\* dims.d[0]: the samples outputSize_ makes room for.
EngineRows == IF Static THEN engine.batch ELSE Larger(Probe, engine.configured)

\* perSampleOutputSize_ in rows: outputSize_ / maxBatchSize_.
Stride == EngineRows \div MaxBatch

\* setInputShape: a dynamic engine takes every batch of its profile.
Accepts(n) == IF Static THEN n = engine.batch ELSE n <= EngineRows

BatchRows == 1 .. (MaxBatch * Stride)

\* bound: the images in a call of predictBatch, one beyond a full chunk at most.
LongestBatch == Smaller(BatchLen, MaxBatch + 1)

Detects == engine.task = "detection"

-----------------------------------------------------------------------------
Image == [by : Thread, call : 1 .. Calls, at : 1 .. BatchLen, ok : BOOLEAN]
Tensor == Image \union {Blank, Stale}

PcValues == {"idle", "decode", "acquire", "asleep", "copyIn", "gpu", "ran", "failed",
             "copyOut", "release", "notify",
             "chunk", "copyInB", "gpuB", "ranB", "copyOutB"}

Init ==
  /\ engine \in Engines
  /\ pc = [t \in Thread |-> "idle"]
  /\ job = [t \in Thread |-> <<>>]
  /\ results = [t \in Thread |-> <<>>]
  /\ slotOf = [t \in Thread |-> 0]
  /\ inUse = [s \in Slot |-> FALSE]
  /\ pinned = [s \in Slot |-> [hin |-> Stale, din |-> Stale, dout |-> Stale, hout |-> Stale]]
  /\ gpu = Nobody
  /\ context = [batch |-> 0, slot |-> 0]
  /\ batchIn = [h |-> [i \in 1 .. MaxBatch |-> Stale], d |-> [i \in 1 .. MaxBatch |-> Stale]]
  /\ batchOut = [d |-> [i \in BatchRows |-> Stale], h |-> [i \in BatchRows |-> Stale]]
  /\ calls = [t \in Thread |-> 0]
  /\ faulty = [t \in Thread |-> FALSE]
  /\ crashed = FALSE

Goto(t, l) == pc' = [pc EXCEPT ![t] = l]

\* The image a thread is at: one past what it has results for.
Current(t) == job[t][Len(results[t]) + 1]

\* The images of the current chunk of predictBatch.
Chunk(t) == SubSeq(job[t], Len(results[t]) + 1,
                   Smaller(Len(job[t]), Len(results[t]) + MaxBatch))

\* A call of the pipeline with the images of one request or one batch.
\* predictBatch goes one image at a time when maxBatchSize() <= 1, and answers every
\* image with an error when the configured shape is invalid.
Call(t) ==
  /\ pc[t] = "idle" /\ calls[t] < Calls
  /\ \E n \in 1 .. (IF t \in Single THEN 1 ELSE LongestBatch) : \E good \in SUBSET (1 .. n) :
       /\ Cardinality((1 .. n) \ good) <= Spoilt
       /\ job' = [job EXCEPT ![t] =
             [i \in 1 .. n |-> [by |-> t, call |-> calls[t] + 1, at |-> i, ok |-> i \in good]]]
       /\ \/ /\ t \in Single \/ MaxBatch <= 1
             /\ Goto(t, "decode") /\ results' = [results EXCEPT ![t] = <<>>]
          \/ /\ t \in Batcher /\ MaxBatch > 1 /\ engine.shaped
             /\ Goto(t, "chunk") /\ results' = [results EXCEPT ![t] = <<>>]
          \/ /\ t \in Batcher /\ MaxBatch > 1 /\ ~engine.shaped
             /\ results' = [results EXCEPT ![t] = [i \in 1 .. n |-> {}]]
             /\ UNCHANGED pc
  /\ calls' = [calls EXCEPT ![t] = @ + 1]
  /\ faulty' = [faulty EXCEPT ![t] = FALSE]
  /\ UNCHANGED <<slotOf, inUse, buffers>>

\* preprocess and preprocessInto refuse an invalid shape and an undecodable image.
Decodes(img) == img.ok /\ engine.shaped

\* One image has its result: the next one, or the call returns.
Yield(t, rows) ==
  /\ results' = [results EXCEPT ![t] = Append(@, rows)]
  /\ Goto(t, IF Len(results[t]) + 1 < Len(job[t]) THEN "decode" ELSE "idle")

\* doPredictJson: an image that cannot be decoded is answered with an error.
Decode(t) ==
  /\ pc[t] = "decode"
  /\ \/ /\ Decodes(Current(t))
        /\ Goto(t, "acquire") /\ UNCHANGED results
     \/ /\ ~Decodes(Current(t))
        /\ Yield(t, {})
  /\ UNCHANGED <<job, slotOf, inUse, buffers, calls, faulty>>

Free == {s \in Slot : ~inUse[s]}

\* acquireSlot hands out a slot without looking at in_use.
AcquireSlot_shared(t) ==
  /\ pc[t] = "acquire"
  /\ slotOf' = [slotOf EXCEPT ![t] = 1]
  /\ inUse' = [inUse EXCEPT ![1] = TRUE]
  /\ Goto(t, "copyIn")
  /\ UNCHANGED <<job, results, buffers, calls, faulty>>

\* acquireSlot: the first free slot, or sleep on slot_pool_cv_.
AcquireSlot(t) ==
  /\ pc[t] = "acquire"
  /\ \/ \E s \in Free :
          /\ \A r \in Free : s <= r
          /\ inUse' = [inUse EXCEPT ![s] = TRUE]
          /\ slotOf' = [slotOf EXCEPT ![t] = s]
          /\ Goto(t, "copyIn")
     \/ /\ Free = {}
        /\ Goto(t, "asleep")
        /\ UNCHANGED <<slotOf, inUse>>
  /\ UNCHANGED <<job, results, buffers, calls, faulty>>

\* infer: the tensor is copied to the pinned buffer of the slot.
CopyIn(t) ==
  /\ pc[t] = "copyIn"
  /\ pinned' = [pinned EXCEPT ![slotOf[t]].hin = Current(t)]
  /\ Goto(t, "gpu")
  /\ UNCHANGED <<job, results, slotOf, inUse, engine, gpu, context, batchIn, batchOut, calls, faulty>>

\* A device call whose result infer or inferBatch does not look at.
Unchecked(t, ok) ==
  /\ ok \/ (~faulty[t] /\ Cardinality({u \in Thread : faulty[u]}) < Failures)
  /\ faulty' = [faulty EXCEPT ![t] = @ \/ ~ok]

\* infer, under gpu_mutex_: copy to the device, bind shape and addresses.
LockGpu(t) ==
  /\ pc[t] = "gpu"
  /\ gpu = Nobody
  /\ gpu' = t
  /\ \E copied \in BOOLEAN :
       /\ pinned' = [pinned EXCEPT ![slotOf[t]].din = IF copied THEN pinned[slotOf[t]].hin ELSE @]
       /\ Unchecked(t, copied)
  /\ \/ /\ Accepts(1)
        /\ context' = [batch |-> 1, slot |-> slotOf[t]]
        /\ Goto(t, "ran")
     \/ /\ ~Accepts(1)
        /\ Goto(t, "failed")
        /\ UNCHANGED context
  /\ UNCHANGED <<engine, job, results, slotOf, inUse, batchIn, batchOut, calls>>

\* The engine reads and writes what the context is bound to; one row of
\* d_output is written.  Then copy back, synchronize, unlock.  When enqueueV3 or
\* the copy fails, the slot's earlier output stays and is what infer returns.
Execute(t) ==
  /\ pc[t] = "ran"
  /\ \E ran, copied \in BOOLEAN :
       LET run == [pinned EXCEPT ![context.slot].dout =
                     IF ran THEN pinned[context.slot].din ELSE @]
       IN /\ pinned' = [run EXCEPT ![slotOf[t]].hout = IF copied THEN run[slotOf[t]].dout ELSE @]
          /\ Unchecked(t, ran /\ copied)
  /\ gpu' = Nobody
  /\ Goto(t, "copyOut")
  /\ UNCHANGED <<engine, job, results, slotOf, inUse, context, batchIn, batchOut, calls>>

\* The result is all of outputSize_: one row of the sample, the rest of d_output
\* is never written; DetectionPostprocessor reads the first row only.
CopyOut(t) ==
  /\ pc[t] = "copyOut"
  /\ results' = [results EXCEPT ![t] =
                   Append(@, {pinned[slotOf[t]].hout}
                             \union (IF EngineRows > 1 /\ ~Detects THEN {Stale} ELSE {}))]
  /\ Goto(t, "release")
  /\ UNCHANGED <<job, slotOf, inUse, buffers, calls, faulty>>

\* The early return after setInputShape leaves gpu_mutex_ locked.
Fail_locked(t) ==
  /\ pc[t] = "failed"
  /\ results' = [results EXCEPT ![t] = Append(@, {})]
  /\ Goto(t, "release")
  /\ UNCHANGED <<engine, job, slotOf, inUse, pinned, gpu, context, batchIn, batchOut, calls, faulty>>

\* setInputShape failed: an empty output, the slot released inside the GPU section.
Fail(t) ==
  /\ pc[t] = "failed"
  /\ results' = [results EXCEPT ![t] = Append(@, {})]
  /\ gpu' = Nobody
  /\ Goto(t, "release")
  /\ UNCHANGED <<engine, job, slotOf, inUse, pinned, context, batchIn, batchOut, calls, faulty>>

\* releaseSlot notifies nobody.
ReleaseSlot_silent(t) ==
  /\ pc[t] = "release"
  /\ inUse' = [inUse EXCEPT ![slotOf[t]] = FALSE]
  /\ slotOf' = [slotOf EXCEPT ![t] = 0]
  /\ Goto(t, IF Len(results[t]) < Len(job[t]) THEN "decode" ELSE "idle")
  /\ UNCHANGED <<job, results, buffers, calls, faulty>>

\* releaseSlot: in_use is cleared under the mutex, the notification follows.
ReleaseSlot(t) ==
  /\ pc[t] = "release"
  /\ inUse' = [inUse EXCEPT ![slotOf[t]] = FALSE]
  /\ slotOf' = [slotOf EXCEPT ![t] = 0]
  /\ Goto(t, "notify")
  /\ UNCHANGED <<job, results, buffers, calls, faulty>>

Asleep == {t \in Thread : pc[t] = "asleep"}

NotifyOne(t) ==
  /\ pc[t] = "notify"
  /\ LET next == IF Len(results[t]) < Len(job[t]) THEN "decode" ELSE "idle" IN
       \/ Asleep = {} /\ Goto(t, next)
       \/ \E u \in Asleep : pc' = [pc EXCEPT ![t] = next, ![u] = "acquire"]
  /\ UNCHANGED <<job, results, slotOf, inUse, buffers, calls, faulty>>

SpuriousWake(t) ==
  /\ pc[t] = "asleep"
  /\ Goto(t, "acquire")
  /\ UNCHANGED <<job, results, slotOf, inUse, buffers, calls, faulty>>

-----------------------------------------------------------------------------
(* predictBatch, one chunk of at most maxBatchSize() images at a time.     *)

\* preprocessInto for the image at i of a chunk.  In a pool task batchInput is
\* the worker's own thread_local vector, which nothing has sized: a captured name
\* of thread storage duration denotes the variable of the thread that runs the
\* lambda.  The bounds check fails and the sample stays zero-filled.
Preprocessed(chunk, i) ==
  IF (engine.pooled /\ Len(chunk) > 1) \/ ~Decodes(chunk[i]) THEN Blank ELSE chunk[i]

\* inferBatch: copy the chunk to h_batch_input_, before gpu_mutex_.
CopyInBatch(t) ==
  /\ pc[t] = "chunk"
  /\ batchIn' = [batchIn EXCEPT !.h =
       [i \in 1 .. MaxBatch |-> IF i <= Len(Chunk(t)) THEN Preprocessed(Chunk(t), i) ELSE @[i]]]
  /\ Goto(t, "gpuB")
  /\ UNCHANGED <<engine, job, results, slotOf, inUse, pinned, gpu, context, batchOut, calls, faulty>>

\* The rest of the chunk is answered, then the next chunk or the end of the call.
YieldChunk(t, rows) ==
  /\ results' = [results EXCEPT ![t] = @ \o rows]
  /\ Goto(t, IF Len(results[t]) + Len(rows) < Len(job[t]) THEN "chunk" ELSE "idle")

\* An empty output: postprocessBatch still makes a result for every image, unless
\* the process dies of it, see Crash.
Empties(t) == [i \in 1 .. Len(Chunk(t)) |-> {}]

LockGpuBatch(t) ==
  /\ pc[t] = "gpuB"
  /\ gpu = Nobody
  /\ \E copied \in BOOLEAN :
       /\ batchIn' = [batchIn EXCEPT !.d = [i \in 1 .. MaxBatch |->
                        IF copied /\ i <= Len(Chunk(t)) THEN batchIn.h[i] ELSE @[i]]]
       /\ Unchecked(t, copied)
  /\ \/ /\ Accepts(Len(Chunk(t)))
        /\ gpu' = t
        /\ context' = [batch |-> Len(Chunk(t)), slot |-> 0]
        /\ Goto(t, "ranB")
        /\ UNCHANGED results
     \/ /\ ~Accepts(Len(Chunk(t)))
        /\ YieldChunk(t, Empties(t))
        /\ UNCHANGED <<gpu, context>>
  /\ UNCHANGED <<engine, job, slotOf, inUse, pinned, batchOut, calls>>

\* enqueueV3 runs the bound batch, or fails; the rows of the chunk, at the
\* stride of perSampleOutputSize_, are copied back.  A copy or a synchronization
\* that fails is logged, and the rows of the batch before are returned.
ExecuteBatch(t) ==
  /\ pc[t] = "ranB"
  /\ gpu' = Nobody
  /\ \/ /\ LET d == [r \in BatchRows |-> IF r <= context.batch THEN batchIn.d[r] ELSE batchOut.d[r]]
           IN \E copied \in BOOLEAN :
                /\ batchOut' = [d |-> d, h |-> [r \in BatchRows |->
                     IF copied /\ r <= Len(Chunk(t)) * Stride THEN d[r] ELSE batchOut.h[r]]]
                /\ Unchecked(t, copied)
        /\ Goto(t, "copyOutB")
        /\ UNCHANGED results
     \/ /\ YieldChunk(t, Empties(t))
        /\ UNCHANGED <<batchOut, faulty>>
  /\ UNCHANGED <<engine, job, slotOf, inUse, pinned, context, batchIn, calls>>

\* The rows of h_batch_output_ the result of sample i is made from: its own, but
\* DetectionPostprocessor::postprocessBatch passes all of the output for every
\* image, of which postprocess reads the first sample.
RowsRead(i) == IF Detects THEN {1} ELSE ((i - 1) * Stride + 1) .. (i * Stride)

\* After the unlock: the rows of every sample are read from h_batch_output_.
CopyOutBatch(t) ==
  /\ pc[t] = "copyOutB"
  /\ YieldChunk(t, [i \in 1 .. Len(Chunk(t)) |-> {batchOut.h[r] : r \in RowsRead(i)}])
  /\ UNCHANGED <<job, slotOf, inUse, buffers, calls, faulty>>

-----------------------------------------------------------------------------
\* The output of the device is empty: setInputShape or the enqueueV3 of a batch failed.
Emptied(t) ==
  \/ pc[t] = "notify" /\ results[t][Len(results[t])] = {}
  \/ pc[t] = "gpuB" /\ gpu = Nobody /\ ~Accepts(Len(Chunk(t)))
  \/ pc[t] = "ranB"

\* ClassificationPostprocessor dereferences the maximum of an empty range, a null
\* pointer.  The build may read it and die; it may also leave the read out, as its
\* value is not used, and make a result without predictions as the actions above do.
Crash(t) ==
  /\ engine.task = "classification" /\ Emptied(t)
  /\ crashed' = TRUE
  /\ UNCHANGED <<pc, job, results, slotOf, inUse, buffers, calls, faulty>>

\* A thread that is asleep waits for a notification, not for the scheduler.
Step(t) ==
  \/ Decode(t) \/ AcquireSlot(t) \/ CopyIn(t) \/ LockGpu(t) \/ Execute(t) \/ CopyOut(t)
  \/ Fail(t) \/ ReleaseSlot(t) \/ NotifyOne(t)
  \/ CopyInBatch(t) \/ LockGpuBatch(t) \/ ExecuteBatch(t) \/ CopyOutBatch(t)

Live(t) == ~crashed /\ Step(t) /\ UNCHANGED crashed

Next == \E t \in Thread :
  \/ Live(t)
  \/ ~crashed /\ (Call(t) \/ SpuriousWake(t)) /\ UNCHANGED crashed
  \/ ~crashed /\ Crash(t)

\* A call in progress runs; nothing forces a further call, a spurious wakeup or the
\* failures of the device.
Fairness == \A t \in Thread : WF_vars(Live(t))

Spec == Init /\ [][Next]_vars /\ Fairness

-----------------------------------------------------------------------------
\* Every variable has its type.
TypeOK ==
  /\ engine \in Engines
  /\ pc \in [Thread -> PcValues]
  /\ \A t \in Thread : Len(job[t]) <= BatchLen /\ \A i \in DOMAIN job[t] : job[t][i] \in Image
  /\ \A t \in Thread : \A i \in DOMAIN results[t] : results[t][i] \subseteq Tensor
  /\ slotOf \in [Thread -> 0 .. NumSlots]
  /\ inUse \in [Slot -> BOOLEAN]
  /\ pinned \in [Slot -> [hin : Tensor, din : Tensor, dout : Tensor, hout : Tensor]]
  /\ gpu \in Thread \union {Nobody}
  /\ context \in [batch : 0 .. Larger(1, MaxBatch), slot : 0 .. NumSlots]
  /\ batchIn \in [h : [1 .. MaxBatch -> Tensor], d : [1 .. MaxBatch -> Tensor]]
  /\ batchOut \in [d : [BatchRows -> Tensor], h : [BatchRows -> Tensor]]
  /\ calls \in [Thread -> 0 .. Calls]
  /\ faulty \in [Thread -> BOOLEAN]
  /\ crashed \in BOOLEAN

\* The images the result of image i of a call may be made from: itself, in a batch of a
\* detection model those before it in the call (the first of its chunk is).
Sources(t, i) == IF Detects /\ t \in Batcher THEN {job[t][j] : j \in 1 .. i} ELSE {job[t][i]}

\* Unless a device call failed unseen, no result is computed from an image of
\* another call or, detection models apart, of another place in the batch, however
\* the calls on one model interleave over slots, context and batch buffers; an
\* image that was decoded and run alone is in its result.
ResultsAreOwn ==
  \A t \in Thread :
    /\ Len(results[t]) <= Len(job[t])
    /\ ~faulty[t] => \A i \in DOMAIN results[t] :
         /\ results[t][i] \subseteq Sources(t, i) \union {Blank, Stale}
         /\ (t \in Single /\ Decodes(job[t][i]) /\ Accepts(1)) => job[t][i] \in results[t][i]

\* What fails: a result is made from its own image only, whatever the device does
\* and for every task.  enqueueV3 of infer and the copies are not checked
\* (TRTBackend.cpp:441, 459, 461, 551), so a result may be a previous caller's; a
\* batch of a detection model gives every image the detections of its first
\* (DetectionPostprocessor.cpp:149).
EveryResultIsOwn ==
  \A t \in Thread : \A i \in DOMAIN results[t] :
    results[t][i] \subseteq {job[t][i], Blank, Stale}

\* A slot is not left free while every caller that could take it sleeps:
\* releaseSlot notifies after it unlocked, one waiter only.
NoSlotIdles ==
  (Free # {} /\ Asleep # {}) => \E t \in Thread : pc[t] \in {"notify", "acquire"}

\* Every call of the pipeline returns, with one result per image, unless the process
\* dies of an empty output.
CallsReturn ==
  \A t \in Thread :
    (pc[t] # "idle") ~> (crashed \/ (pc[t] = "idle" /\ Len(results[t]) = Len(job[t])))

\* "Phase 5: Parallel preprocessing using thread pool" (ModelPipeline.cpp:217),
\* "batchOutput is already resized to hold the full batch" (ImagePreprocessor.cpp:156):
\* an image that can be decoded is what its result is computed from, if no device call fails.
DecodedImagesAreSeen ==
  \A t \in Thread : \A i \in DOMAIN results[t] :
    (job[t][i].ok /\ results[t][i] # {} /\ ~faulty[t]) => job[t][i] \in results[t][i]

=============================================================================
