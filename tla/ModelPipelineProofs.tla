------------------------- MODULE ModelPipelineProofs -------------------------
(***************************************************************************)
(* Proofs about one loaded model, for any number of IO threads, pinned     *)
(* slots and images: the slots, the execution context and the batch        *)
(* buffers never mix the images of two calls, and no slot is left free     *)
(* while its waiters sleep.                                                *)
(***************************************************************************)
EXTENDS ModelPipeline, SequenceTheorems, TLAPS

-----------------------------------------------------------------------------
(* The inductive invariant.                                                *)

(* Where a thread has an image left to answer, holds a slot, has the GPU,  *)
(* and where it is in predictBatch with a chunk.                           *)
Working == {"decode", "acquire", "asleep", "copyIn", "gpu", "ran", "failed", "copyOut",
            "chunk", "gpuB", "ranB", "copyOutB"}
Holding == {"copyIn", "gpu", "ran", "failed", "copyOut", "release"}
Running == {"ran", "failed", "ranB"}
Batching == {"chunk", "gpuB", "ranB", "copyOutB"}

Buffers == [hin : Tensor, din : Tensor, dout : Tensor, hout : Tensor]

Typing ==
  /\ engine \in Engines
  /\ pc \in [Thread -> PcValues]
  /\ job \in [Thread -> Seq(Image)] /\ \A t \in Thread : Len(job[t]) <= BatchLen
  /\ results \in [Thread -> Seq(SUBSET Tensor)]
  /\ slotOf \in [Thread -> 0 .. NumSlots]
  /\ inUse \in [Slot -> BOOLEAN]
  /\ pinned \in [Slot -> Buffers]
  /\ gpu \in Thread \union {Nobody}
  /\ context \in [batch : 0 .. Larger(1, MaxBatch), slot : 0 .. NumSlots]
  /\ batchIn \in [h : [1 .. MaxBatch -> Tensor], d : [1 .. MaxBatch -> Tensor]]
  /\ batchOut \in [d : [BatchRows -> Tensor], h : [BatchRows -> Tensor]]
  /\ calls \in [Thread -> 0 .. Calls]
  /\ faulty \in [Thread -> BOOLEAN]

(* A call answers its images in order and is at a next one until it ends;  *)
(* only predictBatch works in chunks, and only if chunks exceed one image. *)
PlaceInv ==
  \A t \in Thread :
    /\ Len(results[t]) <= Len(job[t])
    /\ pc[t] \in Working => Len(results[t]) < Len(job[t])
    /\ pc[t] \in Batching => t \in Batcher /\ MaxBatch > 1

(* gpu_mutex_ is held exactly inside the GPU sections. *)
GpuInv == \A t \in Thread : pc[t] \in Running <=> gpu = t

(* A slot in use has one holder at most, and a holder holds it. *)
SlotInv ==
  /\ \A t \in Thread : /\ slotOf[t] # 0 <=> pc[t] \in Holding
                       /\ slotOf[t] # 0 => inUse[slotOf[t]]
  /\ \A t, u \in Thread : slotOf[t] # 0 /\ slotOf[t] = slotOf[u] => t = u

(* The image of a single call goes through the buffers of its slot, unless *)
(* the device failed it.                                                   *)
ImageInv ==
  \A t \in Thread :
    /\ pc[t] \in {"gpu", "ran", "copyOut"} => pinned[slotOf[t]].hin = Current(t)
    /\ pc[t] = "ran" => context.slot = slotOf[t]
    /\ pc[t] = "ran" /\ ~faulty[t] => pinned[slotOf[t]].din = Current(t)
    /\ pc[t] = "copyOut" /\ ~faulty[t] => pinned[slotOf[t]].hout = Current(t)
    /\ pc[t] = "failed" => ~Accepts(1)

OwnRow(t, i, rows) ==
  /\ rows \subseteq Sources(t, i) \union {Blank, Stale}
  /\ (t \in Single /\ Decodes(job[t][i]) /\ Accepts(1)) => job[t][i] \in rows

OwnResults(t) == ~faulty[t] => \A i \in 1 .. Len(results[t]) : OwnRow(t, i, results[t][i])

SinglesOwn == \A t \in Single : OwnResults(t)

(* Every free slot has a caller of its own that will look for it, while    *)
(* any caller sleeps.                                                      *)
Looking == {t \in Thread : pc[t] \in {"notify", "acquire"}}
Injections(S, T) == {f \in [S -> T] : \A a, b \in S : f[a] = f[b] => a = b}
Matched == Asleep # {} => Injections(Free, Looking) # {}

PipeInv == Typing /\ PlaceInv /\ GpuInv /\ SlotInv /\ ImageInv /\ SinglesOwn

(* The executor of the model has one thread, as gpuExecutor_ has.          *)
OneBatcher == \A b, c \in Batcher : b = c

(* A sample of a batch is read at the rows it was written to if the batch  *)
(* dimension loadEngine gives a dynamic engine is less than twice the      *)
(* configured maximum: the maximum is above half of the 8 that the code    *)
(* probes with, or batches are not used at all.                            *)
RowsAsRead(e) == e.batch = 0 /\ e.configured > 1 => Probe < 2 * e.configured

(* Otherwise the rows of other samples are read too.  They are blank where *)
(* preprocessing runs on the pool, which leaves chunks of several images   *)
(* zero-filled.                                                            *)
NoRowIsForeign == OneBatcher /\ \A e \in Engines : RowsAsRead(e) \/ e.pooled

Own(x, img) == x \in {img, Blank, Stale}
Spare(x) == x \in {Blank, Stale}

Rows(i) == ((i - 1) * Stride + 1) .. (i * Stride)

(* The images of a chunk stay at their places in the batch buffers. *)
ChunkInv ==
  \A t \in Thread :
    /\ pc[t] = "gpuB" => \A i \in 1 .. Len(Chunk(t)) : Own(batchIn.h[i], Chunk(t)[i])
    /\ pc[t] = "ranB" => context.batch = Len(Chunk(t)) /\ Accepts(Len(Chunk(t)))
    /\ pc[t] = "ranB" /\ ~faulty[t] => \A i \in 1 .. Len(Chunk(t)) :
                                         Own(batchIn.d[i], Chunk(t)[i])
    /\ pc[t] = "copyOutB" /\ ~faulty[t] => \A i \in 1 .. Len(Chunk(t)) : \A r \in Rows(i) :
                               Own(batchOut.h[r], Chunk(t)[i])

(* With the pool nothing but the first sample is ever an image. *)
SpareInv ==
  engine.pooled => /\ \A i \in 2 .. MaxBatch : Spare(batchIn.h[i]) /\ Spare(batchIn.d[i])
                   /\ \A r \in BatchRows \ {1} : Spare(batchOut.h[r]) /\ Spare(batchOut.d[r])

BatchInv == ChunkInv /\ SpareInv /\ \A t \in Thread : OwnResults(t)

-----------------------------------------------------------------------------
(* What loadEngine computes, and the images of a chunk.                    *)

LEMMA EngineNumbers ==
  ASSUME engine \in Engines
  PROVE  /\ MaxBatch \in Nat \ {0} /\ EngineRows \in Nat \ {0} /\ Stride \in Nat \ {0}
         /\ MaxBatch <= engine.configured /\ engine.configured \in Nat \ {0}
         /\ engine.batch \in Nat /\ (~Static => MaxBatch = engine.configured)
  <1>1. engine \in Engine /\ Probe \in Nat \ {0}
    BY PipelineAssumption
  <1>2. /\ engine.configured \in Nat \ {0} /\ engine.batch \in Nat
    BY <1>1 DEF Engine
  <1>3. /\ MaxBatch \in Nat \ {0} /\ MaxBatch <= engine.configured
        /\ EngineRows \in Nat \ {0} /\ (~Static => MaxBatch = engine.configured)
        /\ MaxBatch <= EngineRows
    BY <1>1, <1>2 DEF MaxBatch, EngineRows, Static, Smaller, Larger
  <1>4. \A a \in Nat : \A b \in Nat \ {0} : b <= a => a \div b \in Nat \ {0}
    OBVIOUS
  <1>5. Stride \in Nat \ {0}
    BY <1>3, <1>4 DEF Stride
  <1> QED BY <1>2, <1>3, <1>5

LEMMA QuotientOne ==
  ASSUME NEW a \in Nat, NEW b \in Nat \ {0}, b <= a, a < 2 * b
  PROVE  a \div b = 1
  OBVIOUS

(* A chunk the engine accepts is read at the rows it is written to. *)
LEMMA OneRow ==
  ASSUME engine \in Engines, RowsAsRead(engine), MaxBatch > 1,
         NEW n \in 1 .. MaxBatch, Accepts(n)
  PROVE  Stride = 1
  <1>1. /\ engine \in Engine /\ Probe \in Nat \ {0}
        /\ engine.configured \in Nat \ {0} /\ engine.batch \in Nat
        /\ MaxBatch \in Nat \ {0}
    BY PipelineAssumption, EngineNumbers DEF Engine
  <1>2. CASE Static
    <2>1. n = engine.batch /\ EngineRows = engine.batch /\ MaxBatch = engine.batch
      BY <1>1, <1>2 DEF Accepts, EngineRows, MaxBatch, Smaller
    <2>2. EngineRows \div MaxBatch = 1
      BY <1>1, <2>1, QuotientOne
    <2> QED BY <2>2 DEF Stride
  <1>3. CASE ~Static
    <2>1. /\ MaxBatch = engine.configured /\ EngineRows = Larger(Probe, engine.configured)
          /\ Probe < 2 * engine.configured
      BY <1>1, <1>3 DEF MaxBatch, EngineRows, Static, RowsAsRead
    <2>2. EngineRows \in Nat /\ MaxBatch <= EngineRows /\ EngineRows < 2 * MaxBatch
      BY <1>1, <2>1 DEF Larger
    <2>3. EngineRows \div MaxBatch = 1
      BY <1>1, <2>2, QuotientOne
    <2> QED BY <2>3 DEF Stride
  <1> QED BY <1>2, <1>3

LEMMA EngineKept ==
  ASSUME engine' = engine
  PROVE  /\ MaxBatch' = MaxBatch /\ Stride' = Stride /\ BatchRows' = BatchRows
         /\ EngineRows' = EngineRows /\ Static' = Static
         /\ \A n : Accepts(n)' = Accepts(n)
         /\ Detects' = Detects
  BY DEF Detects, MaxBatch, Stride, BatchRows, EngineRows, Static, Accepts

LEMMA CurrentIsImage ==
  ASSUME Typing, NEW t \in Thread, Len(results[t]) < Len(job[t])
  PROVE  Current(t) \in Image /\ Len(results[t]) + 1 \in 1 .. Len(job[t])
  <1>1. /\ job[t] \in Seq(Image) /\ results[t] \in Seq(SUBSET Tensor)
    BY DEF Typing
  <1>2. Len(results[t]) + 1 \in 1 .. Len(job[t])
    BY <1>1
  <1> QED BY <1>1, <1>2 DEF Current

LEMMA ChunkImages ==
  ASSUME Typing, NEW t \in Thread, Len(results[t]) < Len(job[t])
  PROVE  /\ Len(Chunk(t)) \in 1 .. MaxBatch
         /\ Len(results[t]) + Len(Chunk(t)) <= Len(job[t])
         /\ \A i \in 1 .. Len(Chunk(t)) :
              /\ Chunk(t)[i] = job[t][Len(results[t]) + i]
              /\ Chunk(t)[i] \in Image
  <1> DEFINE m == Len(results[t])
             n == Smaller(Len(job[t]), m + MaxBatch)
  <1>1. /\ job[t] \in Seq(Image) /\ m \in Nat /\ Len(job[t]) \in Nat /\ m < Len(job[t])
        /\ MaxBatch \in Nat \ {0}
    BY EngineNumbers DEF Typing
  <1>2. /\ n \in Nat /\ m < n /\ n <= Len(job[t]) /\ n <= m + MaxBatch
    BY <1>1 DEF Smaller
  <1>3. Chunk(t) = SubSeq(job[t], m + 1, n)
    BY DEF Chunk
  <1> HIDE DEF n, m
  <1>4. /\ Len(SubSeq(job[t], m + 1, n)) = n - m
        /\ \A i \in 1 .. (n - m) : SubSeq(job[t], m + 1, n)[i] = job[t][m + i]
    <2>1. m + 1 \in 1 .. (Len(job[t]) + 1) /\ n \in m .. Len(job[t]) /\ n \in Int
      BY <1>1, <1>2
    <2>2. /\ m + 1 <= n /\ n - (m + 1) + 1 = n - m
          /\ \A i \in 1 .. (n - m) : m + 1 + i - 1 = m + i
      BY <1>1, <1>2
    <2>3. /\ Len(SubSeq(job[t], m + 1, n))
               = (IF m + 1 <= n THEN n - (m + 1) + 1 ELSE 0)
          /\ \A i \in 1 .. (n - (m + 1) + 1) :
               SubSeq(job[t], m + 1, n)[i] = job[t][m + 1 + i - 1]
      BY <1>1, <2>1, <2>2, SubSeqProperties
    <2> QED BY <2>2, <2>3
  <1>5. \A i \in 1 .. (n - m) : job[t][m + i] \in Image
    BY <1>1, <1>2
  <1>6. n - m \in 1 .. MaxBatch /\ m + (n - m) <= Len(job[t])
    BY <1>1, <1>2
  <1> QED BY <1>3, <1>4, <1>5, <1>6 DEF m

(* An image is answered: one more result, the others are as they were.     *)
LEMMA Appended ==
  ASSUME Typing, NEW t \in Thread, NEW rows \in SUBSET Tensor,
         results' = [results EXCEPT ![t] = Append(@, rows)]
  PROVE  /\ results' \in [Thread -> Seq(SUBSET Tensor)]
         /\ \A u \in Thread : u # t => results'[u] = results[u]
         /\ Len(results'[t]) = Len(results[t]) + 1
         /\ \A i \in 1 .. Len(results[t]) : results'[t][i] = results[t][i]
         /\ results'[t][Len(results[t]) + 1] = rows
  <1>1. /\ results \in [Thread -> Seq(SUBSET Tensor)]
        /\ results[t] \in Seq(SUBSET Tensor)
    BY DEF Typing
  <1>2. results'[t] = Append(results[t], rows)
    BY <1>1
  <1>3. Append(results[t], rows) \in Seq(SUBSET Tensor)
    BY <1>1
  <1>4. results' \in [Thread -> Seq(SUBSET Tensor)]
    BY <1>1, <1>3
  <1> QED BY <1>1, <1>2, <1>4

LEMMA Concatenated ==
  ASSUME Typing, NEW t \in Thread, NEW rows \in Seq(SUBSET Tensor),
         results' = [results EXCEPT ![t] = @ \o rows]
  PROVE  /\ results' \in [Thread -> Seq(SUBSET Tensor)]
         /\ \A u \in Thread : u # t => results'[u] = results[u]
         /\ Len(results'[t]) = Len(results[t]) + Len(rows)
         /\ \A i \in 1 .. Len(results[t]) : results'[t][i] = results[t][i]
         /\ \A i \in 1 .. Len(rows) : results'[t][Len(results[t]) + i] = rows[i]
  <1>1. /\ results \in [Thread -> Seq(SUBSET Tensor)]
        /\ results[t] \in Seq(SUBSET Tensor)
    BY DEF Typing
  <1>2. results'[t] = results[t] \o rows
    BY <1>1
  <1>3. results[t] \o rows \in Seq(SUBSET Tensor)
    BY <1>1
  <1>4. results' \in [Thread -> Seq(SUBSET Tensor)]
    BY <1>1, <1>3
  <1> QED BY <1>1, <1>2, <1>4

LEMMA AnsweredOwn ==
  ASSUME Typing, NEW t \in Thread, NEW rows \in SUBSET Tensor, OwnResults(t),
         results' = [results EXCEPT ![t] = Append(@, rows)],
         job' = job, engine' = engine, faulty[t] => faulty'[t],
         ~faulty'[t] => OwnRow(t, Len(results[t]) + 1, rows)
  PROVE  OwnResults(t)'
  <1> SUFFICES ASSUME ~faulty'[t]
               PROVE  (\A i \in 1 .. Len(results[t]) : OwnRow(t, i, results[t][i]))'
    BY DEF OwnResults
  <1>1. /\ Len(results'[t]) = Len(results[t]) + 1
        /\ \A i \in 1 .. Len(results[t]) : results'[t][i] = results[t][i]
        /\ results'[t][Len(results[t]) + 1] = rows
        /\ Len(results[t]) \in Nat
    BY Appended DEF Typing
  <1>2. \A i, r : OwnRow(t, i, r)' <=> OwnRow(t, i, r)
    BY EngineKept DEF OwnRow, Decodes, Sources
  <1>3. \A i \in 1 .. Len(results[t]) : OwnRow(t, i, results[t][i])
    BY DEF OwnResults
  <1>4. SUFFICES ASSUME NEW i \in 1 .. (Len(results[t]) + 1)
                 PROVE  OwnRow(t, i, results'[t][i])
    BY <1>1, <1>2
  <1>5. CASE i = Len(results[t]) + 1
    BY <1>1, <1>5
  <1>6. CASE i # Len(results[t]) + 1
    BY <1>1, <1>3, <1>6
  <1> QED BY <1>5, <1>6

LEMMA KeptOwn ==
  ASSUME NEW t \in Thread, OwnResults(t), results'[t] = results[t], job'[t] = job[t],
         engine' = engine, faulty[t] => faulty'[t]
  PROVE  OwnResults(t)'
  BY EngineKept DEF OwnResults, OwnRow, Decodes, Sources

LEMMA SelfSource ==
  ASSUME NEW t \in Thread, NEW i \in Nat \ {0} PROVE job[t][i] \in Sources(t, i)
  BY DEF Sources

(* What becomes of `faulty' when the result of a device call is ignored.   *)
LEMMA Ignored ==
  ASSUME faulty \in [Thread -> BOOLEAN], NEW t \in Thread, NEW ok \in BOOLEAN, Unchecked(t, ok)
  PROVE  /\ faulty' \in [Thread -> BOOLEAN]
         /\ \A u \in Thread : u # t => faulty'[u] = faulty[u]
         /\ \A u \in Thread : faulty[u] => faulty'[u]
         /\ ~faulty'[t] => ok /\ ~faulty[t]
  BY DEF Unchecked

-----------------------------------------------------------------------------
(* Everything but the batch buffers, one action at a time.                 *)

LEMMA InitPipe == Init => PipeInv
  <1> SUFFICES ASSUME Init PROVE PipeInv
    OBVIOUS
  <1>1. engine \in Engines
    BY DEF Init
  <1>2. MaxBatch \in Nat \ {0} /\ Stride \in Nat
    BY <1>1, EngineNumbers
  <1>3. <<>> \in Seq(Image) /\ <<>> \in Seq(SUBSET Tensor) /\ Len(<<>>) = 0
    OBVIOUS
  <1>4. 0 \in 0 .. NumSlots /\ 0 \in 0 .. Calls /\ 0 \in 0 .. Larger(1, MaxBatch) /\ 0 <= BatchLen
    BY <1>2, PipelineAssumption DEF Larger
  <1>5. Stale \in Tensor
    BY DEF Tensor
  <1>6. Typing
    BY <1>1, <1>3, <1>4, <1>5 DEF Init, Typing, PcValues, Buffers
  <1>7. \A t \in Thread : pc[t] = "idle" /\ slotOf[t] = 0 /\ Len(results[t]) = 0 /\ Len(job[t]) = 0
    BY DEF Init
  <1>8. gpu \notin Thread
    BY PipelineAssumption DEF Init
  <1>9. \A t \in Thread : OwnResults(t)
    BY <1>7 DEF OwnResults
  <1>10. PlaceInv /\ GpuInv /\ SlotInv /\ ImageInv
    BY <1>7, <1>8 DEF PlaceInv, GpuInv, SlotInv, ImageInv, Working, Batching, Running, Holding
  <1> QED BY <1>6, <1>9, <1>10 DEF PipeInv, SinglesOwn, Thread

(* What the state is while a thread t is about to step. *)
LEMMA Facts ==
  ASSUME PipeInv, NEW t \in Thread
  PROVE  /\ engine \in Engines
         /\ pc \in [Thread -> PcValues]
         /\ job \in [Thread -> Seq(Image)] /\ results \in [Thread -> Seq(SUBSET Tensor)]
         /\ job[t] \in Seq(Image) /\ results[t] \in Seq(SUBSET Tensor)
         /\ Len(job[t]) \in Nat /\ Len(results[t]) \in Nat
         /\ slotOf \in [Thread -> 0 .. NumSlots] /\ NumSlots \in Nat \ {0}
         /\ inUse \in [Slot -> BOOLEAN]
         /\ pinned \in [Slot -> Buffers]
         /\ MaxBatch \in Nat \ {0} /\ Stride \in Nat
         /\ slotOf[t] # 0 => slotOf[t] \in Slot
         /\ faulty \in [Thread -> BOOLEAN]
  <1>1. /\ engine \in Engines
        /\ pc \in [Thread -> PcValues]
        /\ job \in [Thread -> Seq(Image)] /\ results \in [Thread -> Seq(SUBSET Tensor)]
        /\ slotOf \in [Thread -> 0 .. NumSlots]
        /\ inUse \in [Slot -> BOOLEAN] /\ pinned \in [Slot -> Buffers]
        /\ faulty \in [Thread -> BOOLEAN]
    BY DEF PipeInv, Typing
  <1>2. job[t] \in Seq(Image) /\ results[t] \in Seq(SUBSET Tensor)
    BY <1>1
  <1>3. Len(job[t]) \in Nat /\ Len(results[t]) \in Nat
    BY <1>2
  <1>4. NumSlots \in Nat \ {0} /\ (slotOf[t] # 0 => slotOf[t] \in Slot)
    BY <1>1, PipelineAssumption DEF Slot
  <1> QED BY <1>1, <1>2, <1>3, <1>4, EngineNumbers

(* A step that only moves one thread, with or without a result, leaves the *)
(* rest of the invariant to what it says about that thread.                *)
LEMMA CallPipe ==
  ASSUME PipeInv, NEW t \in Thread, Call(t)
  PROVE  PipeInv'
  <1> DEFINE Asked(n, good) ==
        /\ job' = [job EXCEPT ![t] =
             [i \in 1 .. n |-> [by |-> t, call |-> calls[t] + 1, at |-> i, ok |-> i \in good]]]
        /\ \/ /\ t \in Single \/ MaxBatch <= 1
              /\ Goto(t, "decode") /\ results' = [results EXCEPT ![t] = <<>>]
           \/ /\ t \in Batcher /\ MaxBatch > 1
              /\ Goto(t, "chunk") /\ results' = [results EXCEPT ![t] = <<>>]
           \/ /\ t \in Batcher
              /\ results' = [results EXCEPT ![t] = [i \in 1 .. n |-> {}]]
              /\ UNCHANGED pc
  <1>0. PICK n \in 1 .. (IF t \in Single THEN 1 ELSE LongestBatch) :
               \E good \in SUBSET (1 .. n) : Asked(n, good)
    BY DEF Call
  <1>1. PICK good \in SUBSET (1 .. n) : Asked(n, good)
    BY <1>0
  <1>2. /\ pc[t] = "idle" /\ calls[t] < Calls /\ calls' = [calls EXCEPT ![t] = @ + 1]
        /\ slotOf' = slotOf /\ inUse' = inUse /\ engine' = engine /\ pinned' = pinned
        /\ gpu' = gpu /\ context' = context /\ batchIn' = batchIn /\ batchOut' = batchOut
        /\ faulty' = [faulty EXCEPT ![t] = FALSE]
    BY DEF Call, buffers
  <1> DEFINE images == [i \in 1 .. n |-> [by |-> t, call |-> calls[t] + 1, at |-> i,
                                          ok |-> i \in good]]
             nothing == [i \in 1 .. n |-> {}]
  <1>3. calls \in [Thread -> 0 .. Calls] /\ BatchLen \in Nat \ {0} /\ Calls \in Nat
    BY PipelineAssumption DEF PipeInv, Typing
  <1>4. n \in Nat \ {0} /\ n <= BatchLen
    BY <1>3, Facts DEF LongestBatch, Smaller
  <1>5. \A S : \A f \in [1 .. n -> S] : f \in Seq(S) /\ Len(f) = n
    BY <1>4
  <1>6. images \in Seq(Image) /\ Len(images) = n
    <2>1. images \in [1 .. n -> Image]
      BY <1>2, <1>3, <1>4 DEF Image
    <2> QED BY <1>5, <2>1
  <1>7. nothing \in Seq(SUBSET Tensor) /\ Len(nothing) = n
    <2>1. nothing \in [1 .. n -> SUBSET Tensor]
      OBVIOUS
    <2> QED BY <1>5, <2>1
  <1>8. <<>> \in Seq(SUBSET Tensor) /\ Len(<<>>) = 0
    OBVIOUS
  <1> HIDE DEF images, nothing
  <1>9. /\ job' = [job EXCEPT ![t] = images]
        /\ \/ results' = [results EXCEPT ![t] = <<>>]
           \/ t \in Batcher /\ results' = [results EXCEPT ![t] = nothing] /\ pc' = pc
    BY <1>1 DEF images, nothing
  <1>10. /\ job'[t] = images /\ Len(job'[t]) = n
         /\ results'[t] \in {<<>>, nothing}
         /\ t \notin Batcher => results'[t] = <<>>
         /\ \A u \in Thread : u # t =>
              job'[u] = job[u] /\ results'[u] = results[u] /\ pc'[u] = pc[u]
    BY <1>1, <1>6, <1>9, Facts DEF Goto
  <1>11. /\ pc'[t] \in {"decode", "chunk", "idle"}
         /\ pc'[t] # "idle" => results'[t] = <<>>
         /\ pc'[t] = "chunk" => t \in Batcher /\ MaxBatch > 1
         /\ pc' \in [Thread -> PcValues]
    BY <1>1, <1>2, Facts DEF Goto, PcValues
  <1>12. Typing'
    <2>1. job' \in [Thread -> Seq(Image)] /\ results' \in [Thread -> Seq(SUBSET Tensor)]
      BY <1>6, <1>7, <1>8, <1>9, Facts
    <2>2. calls' \in [Thread -> 0 .. Calls]
      BY <1>2, <1>3
    <2>3. \A u \in Thread : Len(job'[u]) <= BatchLen
      BY <1>4, <1>10 DEF PipeInv, Typing
    <2> QED BY <1>2, <1>11, <2>1, <2>2, <2>3, EngineKept DEF PipeInv, Typing
  <1>13. PlaceInv'
    BY <1>2, <1>4, <1>7, <1>8, <1>10, <1>11, EngineKept DEF PipeInv, PlaceInv, Working, Batching
  <1>14. GpuInv' /\ SlotInv'
    BY <1>2, <1>10, <1>11 DEF PipeInv, GpuInv, SlotInv, Running, Holding
  <1>15. ImageInv'
    BY <1>2, <1>10, <1>11, EngineKept DEF PipeInv, ImageInv, Current
  <1>16. SinglesOwn'
    <2>1. ASSUME NEW u \in Single PROVE OwnResults(u)'
      <3>1. u \in Thread /\ OwnResults(u)
        BY DEF Thread, PipeInv, SinglesOwn
      <3>2. CASE u # t
        BY <1>2, <1>10, <3>1, <3>2, KeptOwn
      <3>3. CASE u = t
        BY <1>4, <1>8, <1>10, <3>3, PipelineAssumption DEF OwnResults
      <3> QED BY <3>2, <3>3
    <2> QED BY <2>1 DEF SinglesOwn
  <1> QED BY <1>12, <1>13, <1>14, <1>15, <1>16 DEF PipeInv

LEMMA DecodePipe ==
  ASSUME PipeInv, NEW t \in Thread, Decode(t)
  PROVE  PipeInv'
  <1>1. /\ pc[t] = "decode" /\ job' = job /\ slotOf' = slotOf /\ inUse' = inUse
        /\ engine' = engine /\ pinned' = pinned /\ gpu' = gpu /\ context' = context
        /\ batchIn' = batchIn /\ batchOut' = batchOut /\ calls' = calls
        /\ faulty' = faulty
    BY DEF Decode, buffers
  <1>2. Len(results[t]) < Len(job[t])
    BY <1>1 DEF PipeInv, PlaceInv, Working
  <1>3. PICK l \in {"acquire", "decode", "idle"} : Goto(t, l)
    BY DEF Decode, Yield
  <1>4. /\ \A u \in Thread : u # t => pc'[u] = pc[u] /\ results'[u] = results[u]
        /\ pc'[t] = l /\ pc' \in [Thread -> PcValues]
    BY <1>3, Facts DEF Goto, PcValues, Decode, Yield
  <1>5. CASE Decodes(Current(t)) /\ Goto(t, "acquire") /\ results' = results
    <2>1. l = "acquire"
      BY <1>3, <1>4, <1>5, Facts DEF Goto
    <2>2. Typing'
      BY <1>1, <1>4, <1>5, EngineKept DEF PipeInv, Typing
    <2>3. PlaceInv' /\ GpuInv' /\ SlotInv'
      BY <1>1, <1>2, <1>4, <1>5, <2>1, EngineKept
      DEF PipeInv, PlaceInv, GpuInv, SlotInv, Working, Batching, Running, Holding
    <2>4. ImageInv'
      BY <1>1, <1>4, <1>5, <2>1, EngineKept DEF PipeInv, ImageInv, Current
    <2>5. SinglesOwn'
      BY <1>1, <1>5, KeptOwn DEF PipeInv, SinglesOwn, Thread
    <2> QED BY <2>2, <2>3, <2>4, <2>5 DEF PipeInv
  <1>6. CASE ~Decodes(Current(t)) /\ Yield(t, {})
    <2>1. /\ results' = [results EXCEPT ![t] = Append(@, {})]
          /\ l = IF Len(results[t]) + 1 < Len(job[t]) THEN "decode" ELSE "idle"
      BY <1>3, <1>4, <1>6, Facts DEF Yield, Goto
    <2>2. /\ results' \in [Thread -> Seq(SUBSET Tensor)]
          /\ Len(results'[t]) = Len(results[t]) + 1
      <3>1. {} \in SUBSET Tensor /\ Typing
        BY DEF PipeInv
      <3> QED BY <2>1, <3>1, Appended
    <2>3. Typing'
      BY <1>1, <1>4, <2>2, EngineKept DEF PipeInv, Typing
    <2>4. Len(results[t]) \in Nat /\ Len(job[t]) \in Nat
      BY Facts
    <2>5. PlaceInv'
      BY <1>1, <1>2, <1>4, <2>1, <2>2, <2>4, EngineKept DEF PipeInv, PlaceInv, Working, Batching
    <2>6. GpuInv' /\ SlotInv'
      BY <1>1, <1>4, <2>1 DEF PipeInv, GpuInv, SlotInv, Running, Holding
    <2>7. ImageInv'
      BY <1>1, <1>4, <2>1, EngineKept DEF PipeInv, ImageInv, Current
    <2>8. SinglesOwn'
      <3>1. OwnRow(t, Len(results[t]) + 1, {})
        BY <1>6 DEF OwnRow, Current
      <3>2. ASSUME NEW u \in Single PROVE OwnResults(u)'
        <4>1. u \in Thread /\ OwnResults(u)
          BY DEF Thread, PipeInv, SinglesOwn
        <4>2. CASE u # t
          BY <1>1, <1>4, <4>1, <4>2, KeptOwn
        <4>3. CASE u = t
          <5>1. {} \in SUBSET Tensor /\ Typing
            BY DEF PipeInv
          <5> QED BY <1>1, <2>1, <3>1, <4>1, <4>3, <5>1, AnsweredOwn
        <4> QED BY <4>2, <4>3
      <3> QED BY <3>2 DEF SinglesOwn
    <2> QED BY <2>3, <2>5, <2>6, <2>7, <2>8 DEF PipeInv
  <1> QED BY <1>5, <1>6 DEF Decode

(* A thread moves without answering an image. *)
LEMMA Moved ==
  ASSUME PipeInv, NEW t \in Thread, NEW l \in PcValues, Goto(t, l),
         job' = job, results' = results, engine' = engine,
         \A u \in Thread : faulty[u] => faulty'[u],
         l \in Working => Len(results[t]) < Len(job[t]),
         l \in Batching => t \in Batcher /\ MaxBatch > 1
  PROVE  /\ pc' \in [Thread -> PcValues]
         /\ pc'[t] = l
         /\ \A u \in Thread : u # t => pc'[u] = pc[u]
         /\ \A u \in Thread : Current(u)' = Current(u)
         /\ PlaceInv' /\ SinglesOwn'
  <1>1. /\ pc' \in [Thread -> PcValues] /\ pc'[t] = l
        /\ \A u \in Thread : u # t => pc'[u] = pc[u]
    BY Facts DEF Goto
  <1>2. \A u \in Thread : Current(u)' = Current(u)
    BY DEF Current
  <1>3. PlaceInv'
    BY <1>1, EngineKept DEF PipeInv, PlaceInv
  <1>4. SinglesOwn'
    BY KeptOwn DEF PipeInv, SinglesOwn, Thread
  <1> QED BY <1>1, <1>2, <1>3, <1>4

LEMMA AcquireSlotPipe ==
  ASSUME PipeInv, NEW t \in Thread, AcquireSlot(t)
  PROVE  PipeInv'
  <1>1. /\ pc[t] = "acquire" /\ job' = job /\ results' = results
        /\ engine' = engine /\ pinned' = pinned /\ gpu' = gpu /\ context' = context
        /\ batchIn' = batchIn /\ batchOut' = batchOut /\ calls' = calls
        /\ faulty' = faulty
    BY DEF AcquireSlot, buffers
  <1>2. Len(results[t]) < Len(job[t]) /\ slotOf[t] = 0
    BY <1>1 DEF PipeInv, PlaceInv, SlotInv, Working, Holding
  <1>3. CASE \E s \in Free : /\ inUse' = [inUse EXCEPT ![s] = TRUE]
                             /\ slotOf' = [slotOf EXCEPT ![t] = s]
                             /\ Goto(t, "copyIn")
    <2>1. PICK s \in Free : /\ inUse' = [inUse EXCEPT ![s] = TRUE]
                            /\ slotOf' = [slotOf EXCEPT ![t] = s]
                            /\ Goto(t, "copyIn")
      BY <1>3
    <2>2. s \in Slot /\ ~inUse[s] /\ s # 0 /\ s \in 0 .. NumSlots
      BY PipelineAssumption DEF Free, Slot
    <2>3. /\ pc' \in [Thread -> PcValues] /\ pc'[t] = "copyIn"
          /\ \A u \in Thread : u # t => pc'[u] = pc[u]
          /\ \A u \in Thread : Current(u)' = Current(u)
          /\ PlaceInv' /\ SinglesOwn'
      BY <1>1, <1>2, <2>1, Moved DEF PcValues, Batching
    <2>4. /\ slotOf' \in [Thread -> 0 .. NumSlots] /\ inUse' \in [Slot -> BOOLEAN]
          /\ slotOf'[t] = s /\ \A u \in Thread : u # t => slotOf'[u] = slotOf[u]
          /\ inUse'[s] /\ \A r \in Slot : r # s => inUse'[r] = inUse[r]
      BY <2>1, <2>2, Facts
    <2>5. Typing'
      BY <1>1, <2>3, <2>4, EngineKept DEF PipeInv, Typing
    <2>6. \A u \in Thread : slotOf[u] # s
      BY <2>2 DEF PipeInv, SlotInv
    <2>7. SlotInv'
      <3>1. \A u \in Thread : slotOf[u] # 0 => slotOf[u] \in Slot /\ inUse[slotOf[u]]
        BY Facts DEF PipeInv, SlotInv
      <3> QED BY <2>2, <2>3, <2>4, <2>6, <3>1 DEF PipeInv, SlotInv, Holding
    <2>8. GpuInv' /\ ImageInv'
      BY <1>1, <2>3, <2>4, EngineKept DEF PipeInv, GpuInv, ImageInv, Running
    <2> QED BY <2>3, <2>5, <2>7, <2>8 DEF PipeInv
  <1>4. CASE Goto(t, "asleep") /\ UNCHANGED <<slotOf, inUse>>
    <2>1. /\ pc' \in [Thread -> PcValues] /\ pc'[t] = "asleep"
          /\ \A u \in Thread : u # t => pc'[u] = pc[u]
          /\ \A u \in Thread : Current(u)' = Current(u)
          /\ PlaceInv' /\ SinglesOwn'
      BY <1>1, <1>2, <1>4, Moved DEF PcValues, Batching
    <2>2. Typing'
      BY <1>1, <1>4, <2>1, EngineKept DEF PipeInv, Typing
    <2>3. GpuInv' /\ ImageInv' /\ SlotInv'
      BY <1>1, <1>4, <2>1, EngineKept
      DEF PipeInv, GpuInv, ImageInv, SlotInv, Running, Holding
    <2> QED BY <2>1, <2>2, <2>3 DEF PipeInv
  <1> QED BY <1>3, <1>4 DEF AcquireSlot

LEMMA CopyInPipe ==
  ASSUME PipeInv, NEW t \in Thread, CopyIn(t)
  PROVE  PipeInv'
  <1> DEFINE s == slotOf[t]
  <1>1. /\ pc[t] = "copyIn" /\ job' = job /\ results' = results /\ slotOf' = slotOf
        /\ inUse' = inUse /\ engine' = engine /\ gpu' = gpu /\ context' = context
        /\ batchIn' = batchIn /\ batchOut' = batchOut /\ calls' = calls
        /\ faulty' = faulty
        /\ Goto(t, "gpu") /\ pinned' = [pinned EXCEPT ![s].hin = Current(t)]
    BY DEF CopyIn
  <1>2. Len(results[t]) < Len(job[t]) /\ s # 0 /\ s \in Slot
    BY <1>1, Facts DEF PipeInv, PlaceInv, SlotInv, Working, Holding
  <1>3. /\ pc' \in [Thread -> PcValues] /\ pc'[t] = "gpu"
        /\ \A u \in Thread : u # t => pc'[u] = pc[u]
        /\ \A u \in Thread : Current(u)' = Current(u)
        /\ PlaceInv' /\ SinglesOwn'
    BY <1>1, <1>2, Moved DEF PcValues, Batching
  <1>4. Current(t) \in Tensor
    BY <1>2, CurrentIsImage DEF PipeInv, Tensor
  <1>5. /\ pinned' \in [Slot -> Buffers]
        /\ pinned'[s].hin = Current(t)
        /\ \A r \in Slot : r # s => pinned'[r] = pinned[r]
    BY <1>1, <1>2, <1>4, Facts DEF Buffers
  <1>6. Typing'
    BY <1>1, <1>3, <1>5, EngineKept DEF PipeInv, Typing
  <1>7. \A u \in Thread : u # t /\ slotOf[u] # 0 => slotOf[u] # s /\ slotOf[u] \in Slot
    BY <1>2, Facts DEF PipeInv, SlotInv
  <1>8. \A u \in Thread : pc[u] \in Holding => slotOf[u] # 0
    BY DEF PipeInv, SlotInv
  <1>9. ImageInv'
    BY <1>1, <1>3, <1>5, <1>7, <1>8, EngineKept DEF PipeInv, ImageInv, Holding
  <1>10. GpuInv' /\ SlotInv'
    BY <1>1, <1>3 DEF PipeInv, GpuInv, SlotInv, Running, Holding
  <1> QED BY <1>3, <1>6, <1>9, <1>10 DEF PipeInv

LEMMA LockGpuPipe ==
  ASSUME PipeInv, NEW t \in Thread, LockGpu(t)
  PROVE  PipeInv'
  <1> DEFINE s == slotOf[t]
  <1>1. /\ pc[t] = "gpu" /\ gpu = Nobody /\ gpu' = t
        /\ job' = job /\ results' = results /\ slotOf' = slotOf
        /\ inUse' = inUse /\ engine' = engine
        /\ batchIn' = batchIn /\ batchOut' = batchOut /\ calls' = calls
    BY DEF LockGpu
  <1>0. PICK copied \in BOOLEAN :
          /\ pinned' = [pinned EXCEPT ![s].din = IF copied THEN pinned[s].hin ELSE @]
          /\ Unchecked(t, copied)
    BY DEF LockGpu
  <1>12. /\ faulty' \in [Thread -> BOOLEAN]
         /\ \A u \in Thread : u # t => faulty'[u] = faulty[u]
         /\ \A u \in Thread : faulty[u] => faulty'[u]
         /\ ~faulty'[t] => copied /\ ~faulty[t]
    BY <1>0, Facts, Ignored
  <1>2. Len(results[t]) < Len(job[t]) /\ s # 0 /\ s \in Slot /\ s \in 0 .. NumSlots
    BY <1>1, Facts DEF PipeInv, PlaceInv, SlotInv, Working, Holding
  <1>3. PICK l \in {"ran", "failed"} :
          /\ Goto(t, l)
          /\ l = "ran" => context' = [batch |-> 1, slot |-> s]
          /\ l = "failed" => context' = context /\ ~Accepts(1)
    BY DEF LockGpu
  <1>4. /\ pc' \in [Thread -> PcValues] /\ pc'[t] = l
        /\ \A u \in Thread : u # t => pc'[u] = pc[u]
        /\ \A u \in Thread : Current(u)' = Current(u)
        /\ PlaceInv' /\ SinglesOwn'
    <2>1. l \in PcValues /\ l \notin Batching
      BY DEF PcValues, Batching
    <2> QED BY <1>1, <1>2, <1>3, <1>12, <2>1, Moved
  <1>5. /\ pinned' \in [Slot -> Buffers]
        /\ pinned'[s].hin = pinned[s].hin /\ (copied => pinned'[s].din = pinned[s].hin)
        /\ \A r \in Slot : r # s => pinned'[r] = pinned[r]
    BY <1>0, <1>2, Facts DEF Buffers
  <1>6. 1 \in 0 .. Larger(1, MaxBatch)
    BY Facts DEF Larger
  <1>7. Typing'
    BY <1>1, <1>2, <1>3, <1>4, <1>5, <1>6, <1>12, EngineKept DEF PipeInv, Typing
  <1>8. \A u \in Thread : u # t /\ slotOf[u] # 0 => slotOf[u] # s /\ slotOf[u] \in Slot
    BY <1>2, Facts DEF PipeInv, SlotInv
  <1>9. /\ \A u \in Thread : pc[u] \in Holding => slotOf[u] # 0
        /\ \A u \in Thread : pc[u] \notin Running
    BY <1>1, PipelineAssumption DEF PipeInv, SlotInv, GpuInv
  <1>10. ImageInv'
    BY <1>1, <1>3, <1>4, <1>5, <1>8, <1>9, <1>12, EngineKept DEF PipeInv, ImageInv, Holding, Running
  <1>11. GpuInv' /\ SlotInv'
    BY <1>1, <1>3, <1>4, <1>9 DEF PipeInv, GpuInv, SlotInv, Running, Holding
  <1> QED BY <1>4, <1>7, <1>10, <1>11 DEF PipeInv

LEMMA ExecutePipe ==
  ASSUME PipeInv, NEW t \in Thread, Execute(t)
  PROVE  PipeInv'
  <1> DEFINE s == slotOf[t]
             run(ran) == [pinned EXCEPT ![context.slot].dout =
                            IF ran THEN pinned[context.slot].din ELSE @]
  <1>1. /\ pc[t] = "ran" /\ gpu' = Nobody
        /\ job' = job /\ results' = results /\ slotOf' = slotOf
        /\ inUse' = inUse /\ engine' = engine /\ context' = context
        /\ batchIn' = batchIn /\ batchOut' = batchOut /\ calls' = calls
        /\ Goto(t, "copyOut")
    BY DEF Execute
  <1>0. PICK ran \in BOOLEAN, copied \in BOOLEAN :
          /\ pinned' = [run(ran) EXCEPT ![s].hout = IF copied THEN run(ran)[s].dout ELSE @]
          /\ Unchecked(t, ran /\ copied)
    BY DEF Execute
  <1>11. /\ faulty' \in [Thread -> BOOLEAN]
         /\ \A u \in Thread : u # t => faulty'[u] = faulty[u]
         /\ \A u \in Thread : faulty[u] => faulty'[u]
         /\ ~faulty'[t] => (ran /\ copied) /\ ~faulty[t]
    <2>1. (ran /\ copied) \in BOOLEAN
      OBVIOUS
    <2> QED BY <1>0, <2>1, Facts, Ignored
  <1>2. /\ Len(results[t]) < Len(job[t]) /\ s # 0 /\ s \in Slot /\ context.slot = s
        /\ (~faulty[t] => pinned[s].din = Current(t)) /\ pinned[s].hin = Current(t) /\ gpu = t
    BY <1>1, Facts DEF PipeInv, PlaceInv, SlotInv, GpuInv, ImageInv, Working, Holding, Running
  <1>3. /\ pc' \in [Thread -> PcValues] /\ pc'[t] = "copyOut"
        /\ \A u \in Thread : u # t => pc'[u] = pc[u]
        /\ \A u \in Thread : Current(u)' = Current(u)
        /\ PlaceInv' /\ SinglesOwn'
    BY <1>1, <1>2, <1>11, Moved DEF PcValues, Batching
  <1>4. /\ run(ran) \in [Slot -> Buffers]
        /\ run(ran)[s].hin = pinned[s].hin /\ (ran => run(ran)[s].dout = pinned[s].din)
        /\ \A r \in Slot : r # s => run(ran)[r] = pinned[r]
    BY <1>2, Facts DEF Buffers
  <1> HIDE DEF run
  <1>5. /\ pinned' \in [Slot -> Buffers]
        /\ pinned'[s].hin = Current(t) /\ (~faulty'[t] => pinned'[s].hout = Current(t))
        /\ \A r \in Slot : r # s => pinned'[r] = pinned[r]
    BY <1>0, <1>2, <1>4, <1>11 DEF Buffers
  <1>6. Typing'
    BY <1>1, <1>3, <1>5, <1>11, EngineKept DEF PipeInv, Typing
  <1>7. \A u \in Thread : u # t /\ slotOf[u] # 0 => slotOf[u] # s /\ slotOf[u] \in Slot
    BY <1>2, Facts DEF PipeInv, SlotInv
  <1>8. /\ \A u \in Thread : pc[u] \in Holding => slotOf[u] # 0
        /\ \A u \in Thread : u # t => pc[u] \notin Running
    BY <1>2, PipelineAssumption DEF PipeInv, SlotInv, GpuInv
  <1>9. ImageInv'
    BY <1>1, <1>2, <1>3, <1>5, <1>7, <1>8, <1>11, EngineKept DEF PipeInv, ImageInv, Holding, Running
  <1>10. GpuInv' /\ SlotInv'
    BY <1>1, <1>3, <1>8, PipelineAssumption DEF PipeInv, GpuInv, SlotInv, Running, Holding
  <1> QED BY <1>3, <1>6, <1>9, <1>10 DEF PipeInv

(* A thread that has computed the result of its image goes on to release.  *)
LEMMA Finished ==
  ASSUME PipeInv, NEW t \in Thread, NEW rows \in SUBSET Tensor,
         Len(results[t]) < Len(job[t]), faulty' = faulty,
         ~faulty[t] => OwnRow(t, Len(results[t]) + 1, rows),
         results' = [results EXCEPT ![t] = Append(@, rows)],
         job' = job, engine' = engine, Goto(t, "release")
  PROVE  /\ pc' \in [Thread -> PcValues] /\ pc'[t] = "release"
         /\ results' \in [Thread -> Seq(SUBSET Tensor)]
         /\ \A u \in Thread : u # t => pc'[u] = pc[u] /\ results'[u] = results[u]
         /\ \A u \in Thread : u # t => Current(u)' = Current(u)
         /\ PlaceInv' /\ SinglesOwn'
  <1>1. /\ pc' \in [Thread -> PcValues] /\ pc'[t] = "release"
        /\ \A u \in Thread : u # t => pc'[u] = pc[u]
    BY Facts DEF Goto, PcValues
  <1>2. Typing
    BY DEF PipeInv
  <1>3. /\ results' \in [Thread -> Seq(SUBSET Tensor)]
        /\ \A u \in Thread : u # t => results'[u] = results[u]
        /\ Len(results'[t]) = Len(results[t]) + 1
    BY <1>2, Appended
  <1>4. \A u \in Thread : u # t => Current(u)' = Current(u)
    BY <1>3 DEF Current
  <1>5. PlaceInv'
    BY <1>1, <1>3, Facts, EngineKept DEF PipeInv, PlaceInv, Working, Batching
  <1>6. ASSUME NEW u \in Single PROVE OwnResults(u)'
    <2>1. u \in Thread /\ OwnResults(u)
      BY DEF Thread, PipeInv, SinglesOwn
    <2>2. CASE u # t
      BY <1>3, <2>1, <2>2, KeptOwn
    <2>3. CASE u = t
      BY <1>2, <2>1, <2>3, AnsweredOwn
    <2> QED BY <2>2, <2>3
  <1> QED BY <1>1, <1>3, <1>4, <1>5, <1>6 DEF SinglesOwn

(* What infer returns of a slot.                                           *)
LEMMA RowsOfSlot ==
  ASSUME PipeInv, NEW t \in Thread, pc[t] = "copyOut"
  PROVE  LET rows == {pinned[slotOf[t]].hout}
                       \union (IF EngineRows > 1 /\ ~Detects THEN {Stale} ELSE {})
         IN rows \in SUBSET Tensor /\ (~faulty[t] => OwnRow(t, Len(results[t]) + 1, rows))
  <1> DEFINE rows == {pinned[slotOf[t]].hout}
                       \union (IF EngineRows > 1 /\ ~Detects THEN {Stale} ELSE {})
  <1>1. slotOf[t] \in Slot /\ Len(results[t]) \in Nat
    BY Facts DEF PipeInv, SlotInv, Holding
  <1>2. pinned[slotOf[t]].hout \in Tensor
    BY <1>1, Facts DEF Buffers
  <1>3. ~faulty[t] => pinned[slotOf[t]].hout = job[t][Len(results[t]) + 1]
    BY DEF PipeInv, ImageInv, Current
  <1>4. job[t][Len(results[t]) + 1] \in Sources(t, Len(results[t]) + 1)
    BY <1>1, SelfSource
  <1>5. rows \in SUBSET Tensor
    BY <1>2 DEF Tensor
  <1>6. ~faulty[t] => OwnRow(t, Len(results[t]) + 1, rows)
    BY <1>3, <1>4 DEF OwnRow
  <1> QED BY <1>5, <1>6

LEMMA CopyOutPipe ==
  ASSUME PipeInv, NEW t \in Thread, CopyOut(t)
  PROVE  PipeInv'
  <1> DEFINE rows == {pinned[slotOf[t]].hout} \union (IF EngineRows > 1 /\ ~Detects THEN {Stale} ELSE {})
  <1>1. /\ pc[t] = "copyOut" /\ job' = job /\ slotOf' = slotOf
        /\ inUse' = inUse /\ engine' = engine /\ context' = context /\ gpu' = gpu
        /\ batchIn' = batchIn /\ batchOut' = batchOut /\ calls' = calls /\ pinned' = pinned
        /\ faulty' = faulty
        /\ results' = [results EXCEPT ![t] = Append(@, rows)]
        /\ Goto(t, "release")
    BY DEF CopyOut, buffers
  <1>2. /\ Len(results[t]) < Len(job[t])
        /\ ~faulty[t] => pinned[slotOf[t]].hout = Current(t)
    BY <1>1 DEF PipeInv, PlaceInv, ImageInv, Working
  <1>3. rows \in SUBSET Tensor /\ (~faulty[t] => OwnRow(t, Len(results[t]) + 1, rows))
    BY <1>1, <1>2, RowsOfSlot
  <1> HIDE DEF rows
  <1>4. /\ pc' \in [Thread -> PcValues] /\ pc'[t] = "release"
        /\ results' \in [Thread -> Seq(SUBSET Tensor)]
        /\ \A u \in Thread : u # t => pc'[u] = pc[u] /\ results'[u] = results[u]
        /\ \A u \in Thread : u # t => Current(u)' = Current(u)
        /\ PlaceInv' /\ SinglesOwn'
    BY <1>1, <1>2, <1>3, Finished
  <1>5. Typing'
    BY <1>1, <1>4, EngineKept DEF PipeInv, Typing
  <1>6. GpuInv'
    BY <1>1, <1>4 DEF PipeInv, GpuInv, Running
  <1>7. SlotInv'
    BY <1>1, <1>4 DEF PipeInv, SlotInv, Holding
  <1>8. ImageInv'
    BY <1>1, <1>4, EngineKept DEF PipeInv, ImageInv
  <1> QED BY <1>4, <1>5, <1>6, <1>7, <1>8 DEF PipeInv

LEMMA FailPipe ==
  ASSUME PipeInv, NEW t \in Thread, Fail(t)
  PROVE  PipeInv'
  <1>1. /\ pc[t] = "failed" /\ job' = job /\ slotOf' = slotOf
        /\ inUse' = inUse /\ engine' = engine /\ context' = context /\ gpu' = Nobody
        /\ batchIn' = batchIn /\ batchOut' = batchOut /\ calls' = calls /\ pinned' = pinned
        /\ faulty' = faulty
        /\ results' = [results EXCEPT ![t] = Append(@, {})]
        /\ Goto(t, "release")
    BY DEF Fail
  <1>2. /\ Len(results[t]) < Len(job[t]) /\ ~Accepts(1) /\ gpu = t
    BY <1>1 DEF PipeInv, PlaceInv, ImageInv, GpuInv, Working, Running
  <1>3. {} \in SUBSET Tensor /\ OwnRow(t, Len(results[t]) + 1, {})
    BY <1>2 DEF OwnRow
  <1>4. /\ pc' \in [Thread -> PcValues] /\ pc'[t] = "release"
        /\ results' \in [Thread -> Seq(SUBSET Tensor)]
        /\ \A u \in Thread : u # t => pc'[u] = pc[u] /\ results'[u] = results[u]
        /\ \A u \in Thread : u # t => Current(u)' = Current(u)
        /\ PlaceInv' /\ SinglesOwn'
    BY <1>1, <1>2, <1>3, Finished
  <1>5. Typing'
    BY <1>1, <1>4, EngineKept DEF PipeInv, Typing
  <1>6. GpuInv'
    BY <1>1, <1>2, <1>4, PipelineAssumption DEF PipeInv, GpuInv, Running
  <1>7. SlotInv'
    BY <1>1, <1>4 DEF PipeInv, SlotInv, Holding
  <1>8. ImageInv'
    BY <1>1, <1>4, EngineKept DEF PipeInv, ImageInv
  <1> QED BY <1>4, <1>5, <1>6, <1>7, <1>8 DEF PipeInv

LEMMA ReleaseSlotPipe ==
  ASSUME PipeInv, NEW t \in Thread, ReleaseSlot(t)
  PROVE  PipeInv'
  <1> DEFINE s == slotOf[t]
  <1>1. /\ pc[t] = "release" /\ job' = job /\ results' = results
        /\ engine' = engine /\ context' = context /\ gpu' = gpu
        /\ batchIn' = batchIn /\ batchOut' = batchOut /\ calls' = calls /\ pinned' = pinned
        /\ faulty' = faulty
        /\ inUse' = [inUse EXCEPT ![s] = FALSE]
        /\ slotOf' = [slotOf EXCEPT ![t] = 0]
        /\ Goto(t, "notify")
    BY DEF ReleaseSlot, buffers
  <1>2. /\ pc' \in [Thread -> PcValues] /\ pc'[t] = "notify"
        /\ \A u \in Thread : u # t => pc'[u] = pc[u]
        /\ \A u \in Thread : Current(u)' = Current(u)
        /\ PlaceInv' /\ SinglesOwn'
    BY <1>1, Moved DEF PcValues, Batching, Working
  <1>3. s # 0 /\ s \in Slot
    BY <1>1, Facts DEF PipeInv, SlotInv, Holding
  <1>4. /\ slotOf' \in [Thread -> 0 .. NumSlots] /\ inUse' \in [Slot -> BOOLEAN]
        /\ slotOf'[t] = 0 /\ \A u \in Thread : u # t => slotOf'[u] = slotOf[u]
        /\ \A r \in Slot : r # s => inUse'[r] = inUse[r]
    BY <1>1, <1>3, Facts
  <1>5. Typing'
    BY <1>1, <1>2, <1>4, EngineKept DEF PipeInv, Typing
  <1>6. \A u \in Thread : u # t /\ slotOf[u] # 0 =>
          slotOf[u] # s /\ slotOf[u] \in Slot /\ inUse[slotOf[u]]
    BY <1>3, Facts DEF PipeInv, SlotInv
  <1>7. SlotInv'
    BY <1>2, <1>4, <1>6 DEF PipeInv, SlotInv, Holding
  <1>8. GpuInv' /\ ImageInv'
    BY <1>1, <1>2, <1>4, EngineKept DEF PipeInv, GpuInv, ImageInv, Running
  <1> QED BY <1>2, <1>5, <1>7, <1>8 DEF PipeInv

(* Two threads move at once: the releaser and the sleeper it wakes.        *)
LEMMA NotifyOnePipe ==
  ASSUME PipeInv, NEW t \in Thread, NotifyOne(t)
  PROVE  PipeInv'
  <1> DEFINE next == IF Len(results[t]) < Len(job[t]) THEN "decode" ELSE "idle"
  <1>1. /\ pc[t] = "notify" /\ job' = job /\ results' = results /\ slotOf' = slotOf
        /\ engine' = engine /\ context' = context /\ gpu' = gpu /\ inUse' = inUse
        /\ batchIn' = batchIn /\ batchOut' = batchOut /\ calls' = calls /\ pinned' = pinned
        /\ faulty' = faulty
    BY DEF NotifyOne, buffers
  <1>2. pc' = [pc EXCEPT ![t] = next]
          \/ \E u \in Asleep : pc' = [pc EXCEPT ![t] = next, ![u] = "acquire"]
    BY DEF NotifyOne, Goto
  <1>3. /\ pc' \in [Thread -> PcValues]
        /\ pc'[t] \in {"decode", "idle"}
        /\ pc'[t] = "decode" => Len(results[t]) < Len(job[t])
        /\ \A u \in Thread : u # t =>
             pc'[u] = pc[u] \/ (pc[u] = "asleep" /\ pc'[u] = "acquire")
    BY <1>1, <1>2, Facts DEF PcValues, Asleep
  <1>4. \A u \in Thread : Current(u)' = Current(u)
    BY <1>1 DEF Current
  <1>5. PlaceInv'
    BY <1>1, <1>3, EngineKept DEF PipeInv, PlaceInv, Working, Batching
  <1>6. SinglesOwn'
    BY <1>1, KeptOwn DEF PipeInv, SinglesOwn, Thread
  <1>7. Typing'
    BY <1>1, <1>3, EngineKept DEF PipeInv, Typing
  <1>8. GpuInv' /\ SlotInv' /\ ImageInv'
    BY <1>1, <1>3, <1>4, EngineKept DEF PipeInv, GpuInv, SlotInv, ImageInv, Running, Holding
  <1> QED BY <1>5, <1>6, <1>7, <1>8 DEF PipeInv

LEMMA SpuriousWakePipe ==
  ASSUME PipeInv, NEW t \in Thread, SpuriousWake(t)
  PROVE  PipeInv'
  <1>1. /\ pc[t] = "asleep" /\ job' = job /\ results' = results /\ slotOf' = slotOf
        /\ engine' = engine /\ context' = context /\ gpu' = gpu /\ inUse' = inUse
        /\ batchIn' = batchIn /\ batchOut' = batchOut /\ calls' = calls /\ pinned' = pinned
        /\ faulty' = faulty
        /\ Goto(t, "acquire")
    BY DEF SpuriousWake, buffers
  <1>2. Len(results[t]) < Len(job[t])
    BY <1>1 DEF PipeInv, PlaceInv, Working
  <1>3. /\ pc' \in [Thread -> PcValues] /\ pc'[t] = "acquire"
        /\ \A u \in Thread : u # t => pc'[u] = pc[u]
        /\ \A u \in Thread : Current(u)' = Current(u)
        /\ PlaceInv' /\ SinglesOwn'
    BY <1>1, <1>2, Moved DEF PcValues, Batching
  <1>4. Typing'
    BY <1>1, <1>3, EngineKept DEF PipeInv, Typing
  <1>5. GpuInv' /\ SlotInv' /\ ImageInv'
    BY <1>1, <1>3, EngineKept DEF PipeInv, GpuInv, SlotInv, ImageInv, Running, Holding
  <1> QED BY <1>3, <1>4, <1>5 DEF PipeInv

(* The chunk of a batch is answered, and the next one or none follows.     *)
LEMMA ChunkAnswered ==
  ASSUME PipeInv, NEW t \in Thread, pc[t] \in Batching \ {"chunk"},
         NEW rows \in Seq(SUBSET Tensor), Len(rows) = Len(Chunk(t)),
         YieldChunk(t, rows), job' = job, engine' = engine,
         \A u \in Thread : faulty[u] => faulty'[u]
  PROVE  /\ pc' \in [Thread -> PcValues] /\ pc'[t] \in {"chunk", "idle"}
         /\ results' \in [Thread -> Seq(SUBSET Tensor)]
         /\ \A u \in Thread : u # t => pc'[u] = pc[u] /\ results'[u] = results[u]
         /\ \A u \in Thread : u # t => Current(u)' = Current(u)
         /\ PlaceInv' /\ SinglesOwn'
  <1>1. /\ t \in Batcher /\ MaxBatch > 1 /\ Len(results[t]) < Len(job[t]) /\ Typing
    BY DEF PipeInv, PlaceInv, Working, Batching
  <1>2. /\ Len(Chunk(t)) \in Nat /\ Len(results[t]) + Len(Chunk(t)) <= Len(job[t])
    <2>1. MaxBatch \in Nat
      BY Facts
    <2> QED BY <1>1, <2>1, ChunkImages
  <1>3. /\ results' = [results EXCEPT ![t] = @ \o rows]
        /\ Goto(t, IF Len(results[t]) + Len(rows) < Len(job[t]) THEN "chunk" ELSE "idle")
    BY DEF YieldChunk
  <1>4. /\ pc' \in [Thread -> PcValues] /\ pc'[t] \in {"chunk", "idle"}
        /\ pc'[t] = "chunk" => Len(results[t]) + Len(rows) < Len(job[t])
        /\ \A u \in Thread : u # t => pc'[u] = pc[u]
    BY <1>3, Facts DEF Goto, PcValues
  <1>5. /\ results' \in [Thread -> Seq(SUBSET Tensor)]
        /\ \A u \in Thread : u # t => results'[u] = results[u]
        /\ Len(results'[t]) = Len(results[t]) + Len(rows)
    BY <1>1, <1>3, Concatenated
  <1>6. \A u \in Thread : u # t => Current(u)' = Current(u)
    BY <1>5 DEF Current
  <1>7. PlaceInv'
    BY <1>1, <1>2, <1>4, <1>5, EngineKept DEF PipeInv, PlaceInv, Working, Batching
  <1>8. ASSUME NEW u \in Single PROVE OwnResults(u)'
    <2>1. u \in Thread /\ OwnResults(u) /\ u # t
      BY <1>1, PipelineAssumption DEF Thread, PipeInv, SinglesOwn
    <2> QED BY <1>5, <2>1, KeptOwn
  <1> QED BY <1>4, <1>5, <1>6, <1>7, <1>8 DEF SinglesOwn

LEMMA EmptiesTyped ==
  ASSUME PipeInv, NEW t \in Thread, Len(results[t]) < Len(job[t])
  PROVE  Empties(t) \in Seq(SUBSET Tensor) /\ Len(Empties(t)) = Len(Chunk(t))
  <1>1. Len(Chunk(t)) \in Nat
    BY ChunkImages, Facts DEF PipeInv
  <1>2. \A S : \A n \in Nat : \A f \in [1 .. n -> S] : f \in Seq(S) /\ Len(f) = n
    OBVIOUS
  <1>3. Empties(t) \in [1 .. Len(Chunk(t)) -> SUBSET Tensor]
    BY DEF Empties
  <1> QED BY <1>1, <1>2, <1>3

LEMMA PreprocessedIsOwn ==
  ASSUME PipeInv, NEW t \in Thread, Len(results[t]) < Len(job[t]),
         NEW i \in 1 .. Len(Chunk(t))
  PROVE  /\ Preprocessed(Chunk(t), i) \in Tensor
         /\ Own(Preprocessed(Chunk(t), i), Chunk(t)[i])
         /\ engine.pooled /\ i # 1 => Spare(Preprocessed(Chunk(t), i))
  <1>1. Chunk(t)[i] \in Image /\ Len(Chunk(t)) \in Nat
    BY ChunkImages, Facts DEF PipeInv
  <1> QED BY <1>1 DEF Preprocessed, Own, Spare, Tensor

LEMMA CopyInBatchPipe ==
  ASSUME PipeInv, NEW t \in Thread, CopyInBatch(t)
  PROVE  PipeInv'
  <1>1. /\ pc[t] = "chunk" /\ job' = job /\ results' = results /\ slotOf' = slotOf
        /\ engine' = engine /\ context' = context /\ gpu' = gpu /\ inUse' = inUse
        /\ batchOut' = batchOut /\ calls' = calls /\ pinned' = pinned
        /\ faulty' = faulty
        /\ Goto(t, "gpuB")
        /\ batchIn' = [batchIn EXCEPT !.h = [i \in 1 .. MaxBatch |->
             IF i <= Len(Chunk(t)) THEN Preprocessed(Chunk(t), i) ELSE @[i]]]
    BY DEF CopyInBatch
  <1>2. Len(results[t]) < Len(job[t]) /\ t \in Batcher /\ MaxBatch > 1
    BY <1>1 DEF PipeInv, PlaceInv, Working, Batching
  <1>3. /\ pc' \in [Thread -> PcValues] /\ pc'[t] = "gpuB"
        /\ \A u \in Thread : u # t => pc'[u] = pc[u]
        /\ \A u \in Thread : Current(u)' = Current(u)
        /\ PlaceInv' /\ SinglesOwn'
    BY <1>1, <1>2, Moved DEF PcValues
  <1>4. batchIn' \in [h : [1 .. MaxBatch -> Tensor], d : [1 .. MaxBatch -> Tensor]]
    <2>1. \A i \in 1 .. MaxBatch : i <= Len(Chunk(t)) => Preprocessed(Chunk(t), i) \in Tensor
      <3>1. Len(Chunk(t)) \in Nat /\ MaxBatch \in Nat
        BY <1>2, ChunkImages, Facts DEF PipeInv
      <3> QED BY <1>2, <3>1, PreprocessedIsOwn
    <2>2. batchIn \in [h : [1 .. MaxBatch -> Tensor], d : [1 .. MaxBatch -> Tensor]]
      BY DEF PipeInv, Typing
    <2> QED BY <1>1, <2>1, <2>2
  <1>5. Typing'
    BY <1>1, <1>3, <1>4, EngineKept DEF PipeInv, Typing
  <1>6. GpuInv' /\ SlotInv' /\ ImageInv'
    BY <1>1, <1>3, EngineKept DEF PipeInv, GpuInv, SlotInv, ImageInv, Running, Holding
  <1> QED BY <1>3, <1>5, <1>6 DEF PipeInv

LEMMA LockGpuBatchPipe ==
  ASSUME PipeInv, NEW t \in Thread, LockGpuBatch(t)
  PROVE  PipeInv'
  <1>1. /\ pc[t] = "gpuB" /\ gpu = Nobody /\ job' = job /\ slotOf' = slotOf
        /\ engine' = engine /\ inUse' = inUse
        /\ batchOut' = batchOut /\ calls' = calls /\ pinned' = pinned
    BY DEF LockGpuBatch
  <1>0. PICK copied \in BOOLEAN :
          /\ batchIn' = [batchIn EXCEPT !.d = [i \in 1 .. MaxBatch |->
               IF copied /\ i <= Len(Chunk(t)) THEN batchIn.h[i] ELSE @[i]]]
          /\ Unchecked(t, copied)
    BY DEF LockGpuBatch
  <1>7. /\ faulty' \in [Thread -> BOOLEAN]
        /\ \A u \in Thread : u # t => faulty'[u] = faulty[u]
        /\ \A u \in Thread : faulty[u] => faulty'[u]
    BY <1>0, Facts, Ignored
  <1>2. Len(results[t]) < Len(job[t]) /\ t \in Batcher /\ MaxBatch > 1
    BY <1>1 DEF PipeInv, PlaceInv, Working, Batching
  <1>3. Len(Chunk(t)) \in 1 .. MaxBatch /\ MaxBatch \in Nat
    BY <1>2, ChunkImages, Facts DEF PipeInv
  <1>4. batchIn' \in [h : [1 .. MaxBatch -> Tensor], d : [1 .. MaxBatch -> Tensor]]
    BY <1>0, <1>3 DEF PipeInv, Typing
  <1>5. CASE /\ gpu' = t /\ context' = [batch |-> Len(Chunk(t)), slot |-> 0]
             /\ Goto(t, "ranB") /\ results' = results
    <2>1. /\ pc' \in [Thread -> PcValues] /\ pc'[t] = "ranB"
          /\ \A u \in Thread : u # t => pc'[u] = pc[u]
          /\ \A u \in Thread : Current(u)' = Current(u)
          /\ PlaceInv' /\ SinglesOwn'
      BY <1>1, <1>2, <1>5, <1>7, Moved DEF PcValues
    <2>2. context' \in [batch : 0 .. Larger(1, MaxBatch), slot : 0 .. NumSlots]
      BY <1>3, <1>5, PipelineAssumption DEF Larger
    <2>3. Typing'
      BY <1>1, <1>4, <1>5, <1>7, <2>1, <2>2, EngineKept DEF PipeInv, Typing
    <2>4. \A u \in Thread : pc[u] \notin Running
      BY <1>1, PipelineAssumption DEF PipeInv, GpuInv
    <2>5. GpuInv' /\ SlotInv' /\ ImageInv'
      BY <1>1, <1>5, <1>7, <2>1, <2>4, EngineKept
      DEF PipeInv, GpuInv, SlotInv, ImageInv, Running, Holding
    <2> QED BY <2>1, <2>3, <2>5 DEF PipeInv
  <1>6. CASE YieldChunk(t, Empties(t)) /\ UNCHANGED <<gpu, context>>
    <2>1. /\ pc' \in [Thread -> PcValues] /\ pc'[t] \in {"chunk", "idle"}
          /\ results' \in [Thread -> Seq(SUBSET Tensor)]
          /\ \A u \in Thread : u # t => pc'[u] = pc[u] /\ results'[u] = results[u]
          /\ \A u \in Thread : u # t => Current(u)' = Current(u)
          /\ PlaceInv' /\ SinglesOwn'
      <3>1. pc[t] \in Batching \ {"chunk"}
        BY <1>1 DEF Batching
      <3> QED BY <1>1, <1>2, <1>6, <1>7, <3>1, EmptiesTyped, ChunkAnswered
    <2>2. Typing'
      BY <1>1, <1>4, <1>6, <1>7, <2>1, EngineKept DEF PipeInv, Typing
    <2>3. \A u \in Thread : pc[u] \notin Running
      BY <1>1, PipelineAssumption DEF PipeInv, GpuInv
    <2>4. GpuInv'
      BY <1>1, <1>6, <2>1, <2>3, PipelineAssumption DEF GpuInv, Running
    <2>5. SlotInv' /\ ImageInv'
      BY <1>1, <1>6, <1>7, <2>1, EngineKept DEF PipeInv, SlotInv, ImageInv, Holding
    <2> QED BY <2>1, <2>2, <2>4, <2>5 DEF PipeInv
  <1> QED BY <1>5, <1>6 DEF LockGpuBatch

LEMMA ExecuteBatchPipe ==
  ASSUME PipeInv, NEW t \in Thread, ExecuteBatch(t)
  PROVE  PipeInv'
  <1>1. /\ pc[t] = "ranB" /\ gpu' = Nobody /\ job' = job /\ slotOf' = slotOf
        /\ engine' = engine /\ inUse' = inUse /\ context' = context
        /\ batchIn' = batchIn /\ calls' = calls /\ pinned' = pinned
    BY DEF ExecuteBatch
  <1>2. /\ Len(results[t]) < Len(job[t]) /\ t \in Batcher /\ MaxBatch > 1 /\ gpu = t
    BY <1>1 DEF PipeInv, PlaceInv, GpuInv, Working, Batching, Running
  <1>3. \A u \in Thread : u # t => pc[u] \notin Running
    BY <1>2 DEF PipeInv, GpuInv
  <1>6. /\ faulty' \in [Thread -> BOOLEAN]
        /\ \A u \in Thread : u # t => faulty'[u] = faulty[u]
        /\ \A u \in Thread : faulty[u] => faulty'[u]
    <2>1. (\E copied \in BOOLEAN : Unchecked(t, copied)) \/ faulty' = faulty
      BY DEF ExecuteBatch
    <2> QED BY <2>1, Facts, Ignored
  <1> DEFINE d == [r \in BatchRows |-> IF r <= context.batch THEN batchIn.d[r] ELSE batchOut.d[r]]
             h(copied) == [r \in BatchRows |-> IF copied /\ r <= Len(Chunk(t)) * Stride THEN d[r] ELSE batchOut.h[r]]
  <1>4. CASE /\ \E copied \in BOOLEAN : batchOut' = [d |-> d, h |-> h(copied)]
             /\ Goto(t, "copyOutB") /\ results' = results
    <2>1. /\ pc' \in [Thread -> PcValues] /\ pc'[t] = "copyOutB"
          /\ \A u \in Thread : u # t => pc'[u] = pc[u]
          /\ \A u \in Thread : Current(u)' = Current(u)
          /\ PlaceInv' /\ SinglesOwn'
      BY <1>1, <1>2, <1>4, <1>6, Moved DEF PcValues
    <2>2. batchOut' \in [d : [BatchRows -> Tensor], h : [BatchRows -> Tensor]]
      <3>1. /\ batchOut \in [d : [BatchRows -> Tensor], h : [BatchRows -> Tensor]]
            /\ batchIn.d \in [1 .. MaxBatch -> Tensor]
            /\ context.batch \in 0 .. Larger(1, MaxBatch)
        BY DEF PipeInv, Typing
      <3>2. \A r \in BatchRows : r <= context.batch => r \in 1 .. MaxBatch
        <4>1. MaxBatch * Stride \in Nat
          BY Facts
        <4>2. \A r \in BatchRows : r \in Nat /\ r >= 1
          BY <4>1 DEF BatchRows
        <4>3. context.batch <= MaxBatch /\ context.batch \in Nat /\ MaxBatch \in Nat
          BY <1>2, <3>1, Facts DEF Larger
        <4> QED BY <4>2, <4>3
      <3>3. d \in [BatchRows -> Tensor]
        BY <3>1, <3>2
      <3>4. \A copied \in BOOLEAN : h(copied) \in [BatchRows -> Tensor]
        BY <3>1, <3>3
      <3> QED BY <1>4, <3>3, <3>4
    <2>3. Typing'
      BY <1>1, <1>4, <1>6, <2>1, <2>2, EngineKept DEF PipeInv, Typing
    <2>4. GpuInv'
      BY <1>1, <1>3, <2>1, PipelineAssumption DEF GpuInv, Running
    <2>5. SlotInv' /\ ImageInv'
      BY <1>1, <1>4, <1>6, <2>1, EngineKept DEF PipeInv, SlotInv, ImageInv, Holding
    <2> QED BY <2>1, <2>3, <2>4, <2>5 DEF PipeInv
  <1>5. CASE YieldChunk(t, Empties(t)) /\ UNCHANGED batchOut
    <2>1. /\ pc' \in [Thread -> PcValues] /\ pc'[t] \in {"chunk", "idle"}
          /\ results' \in [Thread -> Seq(SUBSET Tensor)]
          /\ \A u \in Thread : u # t => pc'[u] = pc[u] /\ results'[u] = results[u]
          /\ \A u \in Thread : u # t => Current(u)' = Current(u)
          /\ PlaceInv' /\ SinglesOwn'
      <3>1. pc[t] \in Batching \ {"chunk"}
        BY <1>1 DEF Batching
      <3> QED BY <1>1, <1>2, <1>5, <1>6, <3>1, EmptiesTyped, ChunkAnswered
    <2>2. Typing'
      BY <1>1, <1>5, <1>6, <2>1, EngineKept DEF PipeInv, Typing
    <2>3. GpuInv'
      BY <1>1, <1>3, <2>1, PipelineAssumption DEF GpuInv, Running
    <2>4. SlotInv' /\ ImageInv'
      BY <1>1, <1>5, <1>6, <2>1, EngineKept DEF PipeInv, SlotInv, ImageInv, Holding
    <2> QED BY <2>1, <2>2, <2>3, <2>4 DEF PipeInv
  <1> QED BY <1>4, <1>5 DEF ExecuteBatch

LEMMA RowsOfSample ==
  ASSUME engine \in Engines, NEW i \in 1 .. MaxBatch
  PROVE  Rows(i) \subseteq BatchRows /\ RowsRead(i) \subseteq BatchRows
  <1>1. MaxBatch \in Nat \ {0} /\ Stride \in Nat \ {0} /\ i \in Nat \ {0} /\ i <= MaxBatch
    BY EngineNumbers
  <1>2. \A a, b, s \in Nat : a <= b => a * s <= b * s
    OBVIOUS
  <1>3. i * Stride <= MaxBatch * Stride /\ 0 * Stride <= (i - 1) * Stride
    BY <1>1, <1>2
  <1>4. /\ i * Stride \in Nat /\ MaxBatch * Stride \in Nat /\ (i - 1) * Stride \in Nat
    BY <1>1
  <1>5. Rows(i) \subseteq BatchRows
    BY <1>3, <1>4 DEF Rows, BatchRows
  <1>6. 1 * Stride <= MaxBatch * Stride
    BY <1>1, <1>2
  <1>7. 1 \in BatchRows
    BY <1>1, <1>4, <1>6 DEF BatchRows
  <1> QED BY <1>5, <1>7 DEF RowsRead, Rows

LEMMA CopyOutBatchPipe ==
  ASSUME PipeInv, NEW t \in Thread, CopyOutBatch(t)
  PROVE  PipeInv'
  <1> DEFINE rows == [i \in 1 .. Len(Chunk(t)) |-> {batchOut.h[r] : r \in RowsRead(i)}]
  <1>1. /\ pc[t] = "copyOutB" /\ job' = job /\ slotOf' = slotOf /\ inUse' = inUse
        /\ engine' = engine /\ pinned' = pinned /\ gpu' = gpu /\ context' = context
        /\ batchIn' = batchIn /\ batchOut' = batchOut /\ calls' = calls
        /\ faulty' = faulty
        /\ YieldChunk(t, rows)
    BY DEF CopyOutBatch, buffers
  <1>2. Len(results[t]) < Len(job[t])
    BY <1>1 DEF PipeInv, PlaceInv, Working
  <1>3. Len(Chunk(t)) \in 1 .. MaxBatch /\ MaxBatch \in Nat
    BY <1>2, ChunkImages, Facts DEF PipeInv
  <1>4. rows \in Seq(SUBSET Tensor) /\ Len(rows) = Len(Chunk(t))
    <2>1. \A S : \A n \in Nat : \A f \in [1 .. n -> S] : f \in Seq(S) /\ Len(f) = n
      OBVIOUS
    <2>2. ASSUME NEW i \in 1 .. Len(Chunk(t)) PROVE rows[i] \in SUBSET Tensor
      <3>1. RowsRead(i) \subseteq BatchRows
        BY <1>3, RowsOfSample DEF PipeInv, Typing
      <3>2. \A r \in BatchRows : batchOut.h[r] \in Tensor
        BY DEF PipeInv, Typing
      <3> QED BY <3>1, <3>2
    <2>3. rows \in [1 .. Len(Chunk(t)) -> SUBSET Tensor]
      BY <2>2
    <2> HIDE DEF rows
    <2> QED BY <1>3, <2>1, <2>3
  <1> HIDE DEF rows
  <1>5. /\ pc' \in [Thread -> PcValues] /\ pc'[t] \in {"chunk", "idle"}
        /\ results' \in [Thread -> Seq(SUBSET Tensor)]
        /\ \A u \in Thread : u # t => pc'[u] = pc[u] /\ results'[u] = results[u]
        /\ \A u \in Thread : u # t => Current(u)' = Current(u)
        /\ PlaceInv' /\ SinglesOwn'
    <2>1. pc[t] \in Batching \ {"chunk"}
      BY <1>1 DEF Batching
    <2> QED BY <1>1, <1>4, <2>1, ChunkAnswered
  <1>6. Typing'
    BY <1>1, <1>5, EngineKept DEF PipeInv, Typing
  <1>7. GpuInv'
    BY <1>1, <1>5 DEF PipeInv, GpuInv, Running
  <1>8. SlotInv'
    BY <1>1, <1>5 DEF PipeInv, SlotInv, Holding
  <1>9. ImageInv'
    BY <1>1, <1>5, EngineKept DEF PipeInv, ImageInv
  <1> QED BY <1>5, <1>6, <1>7, <1>8, <1>9 DEF PipeInv

(* Everything but whether the process is alive.                            *)
state == <<engine, pc, job, results, slotOf, inUse, pinned, gpu, context, batchIn, batchOut,
           calls, faulty>>

LEMMA StutterPipe == PipeInv /\ UNCHANGED state => PipeInv'
  <1> SUFFICES ASSUME PipeInv, UNCHANGED state PROVE PipeInv'
    OBVIOUS
  <1>2. Typing' /\ PlaceInv'
    BY EngineKept DEF state, PipeInv, Typing, PlaceInv
  <1>3. GpuInv' /\ SlotInv' /\ ImageInv'
    BY EngineKept DEF state, PipeInv, GpuInv, SlotInv, ImageInv, Current
  <1>4. SinglesOwn'
    BY KeptOwn DEF state, PipeInv, SinglesOwn, Thread
  <1> QED BY <1>2, <1>3, <1>4 DEF PipeInv

LEMMA DeathPipe ==
  ASSUME NEW t \in Thread, PipeInv, Crash(t) PROVE PipeInv'
  BY StutterPipe DEF Crash, state, buffers

LEMMA PipeStep == PipeInv /\ [Next]_vars => PipeInv'
  <1> SUFFICES ASSUME PipeInv, [Next]_vars PROVE PipeInv'
    OBVIOUS
  <1>1. CASE UNCHANGED vars
    BY <1>1, StutterPipe DEF vars, state
  <1>3. ASSUME NEW t \in Thread, Crash(t) PROVE PipeInv'
    BY <1>3, DeathPipe
  <1>2. ASSUME NEW t \in Thread, Call(t) \/ Step(t) \/ SpuriousWake(t) PROVE PipeInv'
    BY <1>2, CallPipe, DecodePipe, AcquireSlotPipe, CopyInPipe, LockGpuPipe, ExecutePipe,
       CopyOutPipe, FailPipe, ReleaseSlotPipe, NotifyOnePipe, SpuriousWakePipe,
       CopyInBatchPipe, LockGpuBatchPipe, ExecuteBatchPipe, CopyOutBatchPipe
    DEF Step
  <1> QED BY <1>1, <1>2, <1>3 DEF Next, Live

-----------------------------------------------------------------------------
(* The batch buffers, and the results of the calls that go through them.   *)

Filled == {"gpuB", "ranB", "copyOutB"}

LEMMA InitBatch == Init => BatchInv
  <1> SUFFICES ASSUME Init PROVE BatchInv
    OBVIOUS
  <1>1. MaxBatch \in Nat /\ Stride \in Nat
    BY EngineNumbers DEF Init
  <1>2. \A t \in Thread : pc[t] = "idle" /\ Len(results[t]) = 0
    BY DEF Init
  <1>3. ChunkInv /\ \A t \in Thread : OwnResults(t)
    BY <1>2 DEF ChunkInv, OwnResults
  <1>4. SpareInv
    BY <1>1 DEF Init, SpareInv, Spare
  <1> QED BY <1>3, <1>4 DEF BatchInv

(* Steps that leave the buffers alone and the other threads' chunks.       *)
LEMMA ChunkKept ==
  ASSUME ChunkInv, NEW t \in Thread, engine' = engine,
         batchIn' = batchIn, batchOut' = batchOut,
         context' = context \/ \A u \in Thread : pc[u] # "ranB",
         \A u \in Thread : u # t => /\ pc'[u] = pc[u] \/ pc'[u] \notin Filled
                                    /\ results'[u] = results[u] /\ job'[u] = job[u]
                                    /\ faulty'[u] = faulty[u],
         pc'[t] \notin Filled
  PROVE  ChunkInv'
  <1>1. \A u \in Thread : u # t => Chunk(u)' = Chunk(u)
    BY EngineKept DEF Chunk
  <1>2. \A i : Rows(i)' = Rows(i)
    BY EngineKept DEF Rows
  <1> QED BY <1>1, <1>2, EngineKept DEF ChunkInv, Filled

LEMMA SpareKept ==
  ASSUME SpareInv, engine' = engine, batchIn' = batchIn, batchOut' = batchOut
  PROVE  SpareInv'
  BY EngineKept DEF SpareInv

(* Only the one executor thread is ever in predictBatch with a chunk.      *)
LEMMA NobodyElse ==
  ASSUME PipeInv, OneBatcher, NEW t \in Thread, pc[t] \in Batching
  PROVE  \A u \in Thread : u # t => pc[u] \notin Batching
  BY DEF PipeInv, PlaceInv, OneBatcher

(* The image a result of the current chunk is made from.                   *)
From(t, i) == IF Detects THEN Chunk(t)[1] ELSE Chunk(t)[i]

LEMMA ChunkOwn ==
  ASSUME PipeInv, NEW t \in Thread, OwnResults(t), pc[t] \in Batching \ {"chunk"},
         NEW rows \in Seq(SUBSET Tensor), Len(rows) = Len(Chunk(t)),
         ~faulty'[t] => \A i \in 1 .. Len(rows) : rows[i] \subseteq {From(t, i), Blank, Stale},
         YieldChunk(t, rows), job' = job, engine' = engine, faulty[t] => faulty'[t]
  PROVE  OwnResults(t)'
  <1> SUFFICES ASSUME ~faulty'[t]
               PROVE  (\A i \in 1 .. Len(results[t]) : OwnRow(t, i, results[t][i]))'
    BY DEF OwnResults
  <1> DEFINE m == Len(results[t])
  <1>1. /\ t \notin Single /\ t \in Batcher /\ m < Len(job[t]) /\ Typing
    BY PipelineAssumption DEF PipeInv, PlaceInv, Working, Batching
  <1>2. /\ results' = [results EXCEPT ![t] = @ \o rows]
    BY DEF YieldChunk
  <1>3. /\ Len(results'[t]) = m + Len(rows)
        /\ \A i \in 1 .. m : results'[t][i] = results[t][i]
        /\ \A i \in 1 .. Len(rows) : results'[t][m + i] = rows[i]
    BY <1>1, <1>2, Concatenated
  <1>5. m \in Nat /\ Len(rows) \in Nat
    BY Facts
  <1>4. ASSUME NEW i \in 1 .. Len(rows)
        PROVE  rows[i] \subseteq Sources(t, m + i) \union {Blank, Stale}
    <2>1. 1 \in 1 .. Len(rows) /\ i \in 1 .. Len(rows) /\ m + 1 \in 1 .. (m + i)
      BY <1>5
    <2>2. Chunk(t)[1] = job[t][m + 1] /\ Chunk(t)[i] = job[t][m + i]
      BY <1>1, <2>1, ChunkImages
    <2>3. From(t, i) \in Sources(t, m + i)
      BY <1>1, <2>1, <2>2 DEF From, Sources
    <2> QED BY <2>3
  <1>6. \A i \in 1 .. m : results[t][i] \subseteq Sources(t, i) \union {Blank, Stale}
    BY DEF OwnResults, OwnRow
  <1> HIDE DEF m
  <1>7. ASSUME NEW i \in 1 .. (m + Len(rows))
        PROVE  results'[t][i] \subseteq Sources(t, i) \union {Blank, Stale}
    <2>1. CASE i \in 1 .. m
      BY <1>3, <1>6, <2>1
    <2>2. CASE i \notin 1 .. m
      <3>1. i - m \in 1 .. Len(rows) /\ m + (i - m) = i
        BY <1>5, <2>2
      <3> QED BY <1>3, <1>4, <3>1
    <2> QED BY <2>1, <2>2
  <1>8. \A i : Sources(t, i)' = Sources(t, i)
    BY EngineKept DEF Sources
  <1> QED BY <1>1, <1>3, <1>7, <1>8 DEF OwnRow

(* Reading the rows of a sample.                                           *)
LEMMA CopyOutBatchBatch ==
  ASSUME PipeInv, BatchInv, NEW t \in Thread, CopyOutBatch(t)
  PROVE  BatchInv'
  <1> DEFINE rows == [i \in 1 .. Len(Chunk(t)) |-> {batchOut.h[r] : r \in RowsRead(i)}]
  <1>1. /\ pc[t] = "copyOutB" /\ job' = job
        /\ engine' = engine /\ context' = context
        /\ batchIn' = batchIn /\ batchOut' = batchOut /\ faulty' = faulty
        /\ YieldChunk(t, rows)
    BY DEF CopyOutBatch, buffers
  <1>2. Len(results[t]) < Len(job[t]) /\ pc[t] \in Batching \ {"chunk"}
    BY <1>1 DEF PipeInv, PlaceInv, Working, Batching
  <1>3. Len(Chunk(t)) \in 1 .. MaxBatch /\ MaxBatch \in Nat
    BY <1>2, ChunkImages, Facts DEF PipeInv
  <1>4. ~faulty[t] => \A i \in 1 .. Len(Chunk(t)) : rows[i] \subseteq {From(t, i), Blank, Stale}
    <2>1. ~faulty[t] => \A i \in 1 .. Len(Chunk(t)) : \A r \in Rows(i) :
                          Own(batchOut.h[r], Chunk(t)[i])
      BY <1>1 DEF BatchInv, ChunkInv
    <2>2. 1 \in Rows(1) /\ 1 \in 1 .. Len(Chunk(t))
      BY <1>3, EngineNumbers DEF Rows, PipeInv, Typing
    <2>3. \A i \in 1 .. Len(Chunk(t)) : \A r \in RowsRead(i) :
            \E j \in 1 .. Len(Chunk(t)) : r \in Rows(j) /\ Chunk(t)[j] = From(t, i)
      BY <2>2 DEF RowsRead, Rows, From
    <2> QED BY <2>1, <2>3 DEF Own
  <1>5. rows \in Seq(SUBSET Tensor) /\ Len(rows) = Len(Chunk(t))
    <2>1. \A S : \A n \in Nat : \A f \in [1 .. n -> S] : f \in Seq(S) /\ Len(f) = n
      OBVIOUS
    <2>2. ASSUME NEW i \in 1 .. Len(Chunk(t)) PROVE rows[i] \in SUBSET Tensor
      <3>1. RowsRead(i) \subseteq BatchRows
        BY <1>3, RowsOfSample DEF PipeInv, Typing
      <3>2. \A r \in BatchRows : batchOut.h[r] \in Tensor
        BY DEF PipeInv, Typing
      <3> QED BY <3>1, <3>2
    <2>3. rows \in [1 .. Len(Chunk(t)) -> SUBSET Tensor]
      BY <2>2
    <2> HIDE DEF rows
    <2> QED BY <1>3, <2>1, <2>3
  <1> HIDE DEF rows
  <1>6. OwnResults(t)'
    BY <1>1, <1>2, <1>4, <1>5, ChunkOwn DEF BatchInv
  <1>7. /\ pc'[t] \in {"chunk", "idle"}
        /\ \A u \in Thread : u # t => pc'[u] = pc[u] /\ results'[u] = results[u]
    BY <1>1, <1>2, <1>5, ChunkAnswered
  <1>8. ChunkInv' /\ SpareInv'
    BY <1>1, <1>7, ChunkKept, SpareKept DEF BatchInv, Filled
  <1>9. \A u \in Thread : u # t => OwnResults(u)'
    BY <1>1, <1>7, KeptOwn DEF BatchInv
  <1> QED BY <1>6, <1>8, <1>9 DEF BatchInv

(* The engine has run the chunk, or not: the rows that will be read for a  *)
(* sample hold its own output, or no image's.                              *)
LEMMA FirstRow ==
  ASSUME NEW i \in Nat \ {0}, NEW s \in Nat, NEW r \in Nat \ {0},
         (i - 1) * s + 1 <= r, r <= i * s, r = 1
  PROVE  i = 1 /\ s >= 1
  <1>1. s >= 1
    <2>1. CASE s = 0
      BY <2>1
    <2> QED BY <2>1
  <1>2. \A a \in Nat : a >= 1 => a * s >= 1
    BY <1>1
  <1>3. i - 1 \in Nat
    OBVIOUS
  <1>4. (i - 1) * s \in Nat
    BY <1>3
  <1> QED BY <1>1, <1>2, <1>3, <1>4

LEMMA ExecuteBatchBatch ==
  ASSUME NoRowIsForeign, PipeInv, BatchInv, NEW t \in Thread, ExecuteBatch(t)
  PROVE  BatchInv'
  <1>1. /\ pc[t] = "ranB" /\ job' = job
        /\ engine' = engine /\ context' = context /\ batchIn' = batchIn
    BY DEF ExecuteBatch
  <1>2. /\ Len(results[t]) < Len(job[t]) /\ pc[t] \in Batching \ {"chunk"} /\ MaxBatch > 1
    BY <1>1 DEF PipeInv, PlaceInv, Working, Batching
  <1>3. /\ Len(Chunk(t)) \in 1 .. MaxBatch /\ MaxBatch \in Nat /\ Stride \in Nat
        /\ Len(Chunk(t)) \in Nat \ {0} /\ Len(Chunk(t)) <= MaxBatch
    <2>1. MaxBatch \in Nat /\ Stride \in Nat
      BY Facts
    <2> QED BY <1>2, <2>1, ChunkImages DEF PipeInv
  <1> DEFINE n == Len(Chunk(t))
             d == [r \in BatchRows |-> IF r <= context.batch THEN batchIn.d[r] ELSE batchOut.d[r]]
             h(copied) == [r \in BatchRows |-> IF copied /\ r <= n * Stride THEN d[r] ELSE batchOut.h[r]]
  <1>4. /\ context.batch = n /\ Accepts(n)
        /\ ~faulty[t] => \A i \in 1 .. n : Own(batchIn.d[i], Chunk(t)[i])
    BY <1>1 DEF BatchInv, ChunkInv
  <1>5. ASSUME NEW copied \in BOOLEAN, batchOut' = [d |-> d, h |-> h(copied)],
               Unchecked(t, copied), Goto(t, "copyOutB"), results' = results
        PROVE  BatchInv'
    <2>9. /\ \A u \in Thread : u # t => faulty'[u] = faulty[u]
          /\ \A u \in Thread : faulty[u] => faulty'[u]
          /\ ~faulty'[t] => copied /\ ~faulty[t]
      BY <1>5, Facts, Ignored
    <2>1. /\ \A u \in Thread : u # t => pc'[u] = pc[u] /\ pc'[u] \notin Batching
          /\ pc'[t] = "copyOutB"
      <3>1. pc'[t] = "copyOutB" /\ \A u \in Thread : u # t => pc'[u] = pc[u]
        BY <1>5, Facts DEF Goto
      <3> QED BY <1>2, <3>1, NobodyElse DEF NoRowIsForeign
    <2>2. BatchRows \subseteq Nat \ {0}
      <3>1. MaxBatch * Stride \in Nat
        BY <1>3
      <3> QED BY <3>1 DEF BatchRows
    <2>3. SpareInv'
      <3> SUFFICES ASSUME engine.pooled, NEW r \in BatchRows \ {1} PROVE Spare(h(copied)[r]) /\ Spare(d[r])
        BY <1>1, <1>5, EngineKept DEF BatchInv, SpareInv
      <3>1. r \in Nat /\ r >= 2
        BY <2>2
      <3>2. r <= context.batch => Spare(batchIn.d[r])
        BY <1>3, <1>4, <3>1 DEF BatchInv, SpareInv
      <3>3. Spare(batchOut.h[r]) /\ Spare(batchOut.d[r])
        BY DEF BatchInv, SpareInv
      <3> QED BY <3>2, <3>3
    <2>4. ASSUME ~faulty'[t], NEW i \in 1 .. n, NEW r \in Rows(i)
          PROVE  Own(h(copied)[r], Chunk(t)[i])
      <3>0. copied /\ \A j \in 1 .. n : Own(batchIn.d[j], Chunk(t)[j])
        BY <1>4, <2>4, <2>9
      <3>1. /\ r \in BatchRows /\ r \in Nat \ {0} /\ i \in Nat \ {0} /\ i <= n
            /\ (i - 1) * Stride + 1 <= r /\ r <= i * Stride
        <4>1. Rows(i) \subseteq BatchRows
          BY <1>3, RowsOfSample DEF PipeInv, Typing
        <4>2. (i - 1) * Stride \in Int /\ i * Stride \in Int /\ i \in Nat \ {0} /\ i <= n
          BY <1>3
        <4> QED BY <2>2, <4>1, <4>2 DEF Rows
      <3>2. CASE engine.pooled /\ r # 1
        <4>1. Spare(h(copied)[r])
          BY <1>1, <1>5, <2>3, <3>1, <3>2, EngineKept DEF SpareInv
        <4> QED BY <4>1 DEF Spare, Own
      <3>3. CASE r = 1
        <4>1. i = 1 /\ Stride >= 1
          BY <1>3, <3>1, <3>3, FirstRow
        <4>2. 1 <= n * Stride
          BY <1>3, <4>1
        <4>3. h(copied)[1] = batchIn.d[1]
          BY <3>0, <1>3, <1>4, <3>1, <3>3, <4>2
        <4> QED BY <3>0, <3>3, <4>1, <4>3
      <3>4. CASE RowsAsRead(engine)
        <4>1. Stride = 1
          BY <1>2, <1>3, <1>4, <3>4, OneRow DEF PipeInv, Typing
        <4>2. r = i
          BY <3>1, <4>1
        <4>3. h(copied)[r] = batchIn.d[r]
          BY <3>0, <1>3, <1>4, <3>1, <4>1, <4>2
        <4> QED BY <3>0, <4>2, <4>3
      <3>5. engine \in Engines
        BY Facts
      <3> QED BY <3>2, <3>3, <3>4, <3>5 DEF NoRowIsForeign
    <2>5. Chunk(t)' = Chunk(t) /\ (\A i : Rows(i)' = Rows(i))
      BY <1>1, <1>5, EngineKept DEF Chunk, Rows
    <2>6. batchOut'.h = h(copied)
      BY <1>5
    <2> HIDE DEF h, d
    <2>7. ChunkInv'
      BY <2>1, <2>4, <2>5, <2>6 DEF ChunkInv, Batching
    <2>8. \A u \in Thread : OwnResults(u)'
      BY <1>1, <1>5, <2>9, KeptOwn DEF BatchInv
    <2> QED BY <2>3, <2>7, <2>8 DEF BatchInv
  <1>6. CASE YieldChunk(t, Empties(t)) /\ batchOut' = batchOut /\ faulty' = faulty
    <2>1. Empties(t) \in Seq(SUBSET Tensor) /\ Len(Empties(t)) = Len(Chunk(t))
      BY <1>2, EmptiesTyped
    <2>2. \A i \in 1 .. Len(Empties(t)) : Empties(t)[i] \subseteq {From(t, i), Blank, Stale}
      BY <2>1 DEF Empties
    <2>3. OwnResults(t)'
      BY <1>1, <1>2, <1>6, <2>1, <2>2, ChunkOwn DEF BatchInv
    <2>4. /\ pc'[t] \in {"chunk", "idle"}
          /\ \A u \in Thread : u # t => pc'[u] = pc[u] /\ results'[u] = results[u]
      BY <1>1, <1>2, <1>6, <2>1, ChunkAnswered
    <2>5. ChunkInv' /\ SpareInv'
      BY <1>1, <1>6, <2>4, ChunkKept, SpareKept DEF BatchInv, Filled
    <2>6. \A u \in Thread : u # t => OwnResults(u)'
      BY <1>1, <1>6, <2>4, KeptOwn DEF BatchInv
    <2> QED BY <2>3, <2>5, <2>6 DEF BatchInv
  <1> QED BY <1>5, <1>6 DEF ExecuteBatch

LEMMA CopyInBatchBatch ==
  ASSUME NoRowIsForeign, PipeInv, BatchInv, NEW t \in Thread, CopyInBatch(t)
  PROVE  BatchInv'
  <1>1. /\ pc[t] = "chunk" /\ job' = job /\ results' = results
        /\ engine' = engine /\ batchOut' = batchOut /\ faulty' = faulty /\ Goto(t, "gpuB")
        /\ batchIn' = [batchIn EXCEPT !.h = [i \in 1 .. MaxBatch |->
             IF i <= Len(Chunk(t)) THEN Preprocessed(Chunk(t), i) ELSE @[i]]]
    BY DEF CopyInBatch
  <1>2. Len(results[t]) < Len(job[t]) /\ pc[t] \in Batching
    BY <1>1 DEF PipeInv, PlaceInv, Working, Batching
  <1>3. MaxBatch \in Nat /\ Len(Chunk(t)) \in 1 .. MaxBatch
    BY <1>2, ChunkImages, Facts DEF PipeInv
  <1>4. /\ \A u \in Thread : u # t => pc'[u] = pc[u] /\ pc'[u] \notin Batching
        /\ pc'[t] = "gpuB"
    <2>1. pc'[t] = "gpuB" /\ \A u \in Thread : u # t => pc'[u] = pc[u]
      BY <1>1, Facts DEF Goto
    <2> QED BY <1>2, <2>1, NobodyElse DEF NoRowIsForeign
  <1>5. batchIn \in [h : [1 .. MaxBatch -> Tensor], d : [1 .. MaxBatch -> Tensor]]
    BY DEF PipeInv, Typing
  <1>6. /\ batchIn'.d = batchIn.d
        /\ \A i \in 1 .. MaxBatch : batchIn'.h[i] =
             IF i <= Len(Chunk(t)) THEN Preprocessed(Chunk(t), i) ELSE batchIn.h[i]
    BY <1>1, <1>5
  <1>7. \A i \in 1 .. Len(Chunk(t)) :
          /\ Own(Preprocessed(Chunk(t), i), Chunk(t)[i])
          /\ engine.pooled /\ i # 1 => Spare(Preprocessed(Chunk(t), i))
    BY <1>2, PreprocessedIsOwn
  <1>8. Chunk(t)' = Chunk(t)
    BY <1>1, EngineKept DEF Chunk
  <1>9. \A i \in 1 .. Len(Chunk(t)) : Own(batchIn'.h[i], Chunk(t)[i])
    BY <1>3, <1>6, <1>7
  <1>10. ChunkInv'
    BY <1>4, <1>8, <1>9 DEF ChunkInv, Batching
  <1>11. SpareInv'
    <2>1. engine.pooled => \A i \in 2 .. MaxBatch : Spare(batchIn'.h[i])
      BY <1>3, <1>6, <1>7 DEF BatchInv, SpareInv
    <2> QED BY <1>1, <1>6, <2>1, EngineKept DEF BatchInv, SpareInv
  <1>12. \A u \in Thread : OwnResults(u)'
    BY <1>1, KeptOwn DEF BatchInv
  <1> QED BY <1>10, <1>11, <1>12 DEF BatchInv

LEMMA LockGpuBatchBatch ==
  ASSUME NoRowIsForeign, PipeInv, BatchInv, NEW t \in Thread, LockGpuBatch(t)
  PROVE  BatchInv'
  <1>1. /\ pc[t] = "gpuB" /\ job' = job /\ engine' = engine /\ batchOut' = batchOut
    BY DEF LockGpuBatch
  <1>0. PICK copied \in BOOLEAN :
          /\ batchIn' = [batchIn EXCEPT !.d = [i \in 1 .. MaxBatch |->
               IF copied /\ i <= Len(Chunk(t)) THEN batchIn.h[i] ELSE @[i]]]
          /\ Unchecked(t, copied)
    BY DEF LockGpuBatch
  <1>9. /\ \A u \in Thread : u # t => faulty'[u] = faulty[u]
        /\ \A u \in Thread : faulty[u] => faulty'[u]
        /\ ~faulty'[t] => copied /\ ~faulty[t]
    BY <1>0, Facts, Ignored
  <1>2. Len(results[t]) < Len(job[t]) /\ pc[t] \in Batching \ {"chunk"}
    BY <1>1 DEF PipeInv, PlaceInv, Working, Batching
  <1>3. MaxBatch \in Nat /\ Len(Chunk(t)) \in 1 .. MaxBatch
    BY <1>2, ChunkImages, Facts DEF PipeInv
  <1>4. /\ batchIn'.h = batchIn.h
        /\ \A i \in 1 .. MaxBatch : batchIn'.d[i] =
             IF copied /\ i <= Len(Chunk(t)) THEN batchIn.h[i] ELSE batchIn.d[i]
    BY <1>0 DEF PipeInv, Typing
  <1>5. SpareInv'
    <2>1. engine.pooled => \A i \in 2 .. MaxBatch : Spare(batchIn'.d[i])
      BY <1>3, <1>4 DEF BatchInv, SpareInv
    <2> QED BY <1>1, <1>4, <2>1, EngineKept DEF BatchInv, SpareInv
  <1>6. \A u \in Thread : u # t => pc[u] \notin Batching
    BY <1>2, NobodyElse DEF NoRowIsForeign
  <1>7. CASE /\ context' = [batch |-> Len(Chunk(t)), slot |-> 0] /\ Accepts(Len(Chunk(t)))
             /\ Goto(t, "ranB") /\ results' = results
    <2>1. /\ \A u \in Thread : u # t => pc'[u] = pc[u]
          /\ pc'[t] = "ranB"
      BY <1>7, Facts DEF Goto
    <2>2. Chunk(t)' = Chunk(t) /\ Accepts(Len(Chunk(t)))'
      BY <1>1, <1>7, EngineKept DEF Chunk
    <2>3. ~faulty'[t] => \A i \in 1 .. Len(Chunk(t)) : Own(batchIn'.d[i], Chunk(t)[i])
      <3>1. \A i \in 1 .. Len(Chunk(t)) : Own(batchIn.h[i], Chunk(t)[i])
        BY <1>1 DEF BatchInv, ChunkInv
      <3> QED BY <1>3, <1>4, <1>9, <3>1
    <2>4. context'.batch = Len(Chunk(t))
      BY <1>7
    <2>5. ChunkInv'
      BY <1>6, <2>1, <2>2, <2>3, <2>4 DEF ChunkInv, Batching
    <2>6. \A u \in Thread : OwnResults(u)'
      BY <1>1, <1>7, <1>9, KeptOwn DEF BatchInv
    <2> QED BY <1>5, <2>5, <2>6 DEF BatchInv
  <1>8. CASE YieldChunk(t, Empties(t))
    <2>1. Empties(t) \in Seq(SUBSET Tensor) /\ Len(Empties(t)) = Len(Chunk(t))
      BY <1>2, EmptiesTyped
    <2>2. \A i \in 1 .. Len(Empties(t)) : Empties(t)[i] \subseteq {From(t, i), Blank, Stale}
      BY <2>1 DEF Empties
    <2>3. OwnResults(t)'
      BY <1>1, <1>2, <1>8, <1>9, <2>1, <2>2, ChunkOwn DEF BatchInv
    <2>4. /\ pc'[t] \in {"chunk", "idle"}
          /\ \A u \in Thread : u # t => pc'[u] = pc[u] /\ results'[u] = results[u]
      BY <1>1, <1>2, <1>8, <1>9, <2>1, ChunkAnswered
    <2>5. ChunkInv'
      BY <1>6, <2>4 DEF ChunkInv, Batching
    <2>6. \A u \in Thread : u # t => OwnResults(u)'
      BY <1>1, <1>9, <2>4, KeptOwn DEF BatchInv
    <2> QED BY <1>5, <2>3, <2>5, <2>6 DEF BatchInv
  <1> QED BY <1>7, <1>8 DEF LockGpuBatch

(* A single image's result is its own also when an executor thread goes    *)
(* image by image.                                                         *)
LEMMA OneMoreOwn ==
  ASSUME PipeInv, BatchInv, NEW t \in Thread, NEW rows \in SUBSET Tensor,
         faulty' = faulty, ~faulty[t] => OwnRow(t, Len(results[t]) + 1, rows),
         results' = [results EXCEPT ![t] = Append(@, rows)],
         job' = job, engine' = engine
  PROVE  \A u \in Thread : OwnResults(u)'
  <1>1. Typing /\ \A u \in Thread : OwnResults(u)
    BY DEF PipeInv, BatchInv
  <1>2. \A u \in Thread : u # t => results'[u] = results[u]
    BY <1>1, Appended
  <1>3. \A u \in Thread : u # t => OwnResults(u)'
    BY <1>1, <1>2, KeptOwn
  <1>4. OwnResults(t)'
    BY <1>1, AnsweredOwn
  <1> QED BY <1>3, <1>4

(* The steps that do not touch the batch buffers.                          *)
LEMMA CallBatch ==
  ASSUME PipeInv, BatchInv, NEW t \in Thread, Call(t)
  PROVE  BatchInv'
  <1>1. /\ pc[t] = "idle" /\ engine' = engine /\ context' = context
        /\ batchIn' = batchIn /\ batchOut' = batchOut
    BY DEF Call, buffers
  <1>2. /\ pc'[t] \in {"decode", "chunk", "idle"}
        /\ \A u \in Thread : u # t =>
             /\ job'[u] = job[u] /\ results'[u] = results[u] /\ pc'[u] = pc[u]
             /\ faulty'[u] = faulty[u]
    BY <1>1, Facts DEF Call, Goto
  <1>3. /\ results'[t] = <<>> \/ \E n \in Nat : results'[t] = [i \in 1 .. n |-> {}]
        /\ t \in Single => results'[t] = <<>>
    <2>1. \A n \in 1 .. (IF t \in Single THEN 1 ELSE LongestBatch) : n \in Nat
      BY PipelineAssumption, Facts DEF LongestBatch, Smaller
    <2> QED BY <2>1, Facts, PipelineAssumption DEF Call
  <1>4. OwnResults(t)'
    <2>1. CASE results'[t] = <<>>
      <3>1. Len(results'[t]) = 0
        BY <2>1
      <3> QED BY <3>1 DEF OwnResults
    <2>2. CASE t \notin Single /\ \E n \in Nat : results'[t] = [i \in 1 .. n |-> {}]
      <3>1. PICK n \in Nat : results'[t] = [i \in 1 .. n |-> {}]
        BY <2>2
      <3>2. [i \in 1 .. n |-> {}] \in Seq({{}}) /\ Len([i \in 1 .. n |-> {}]) = n
        OBVIOUS
      <3>3. \A i \in 1 .. n : results'[t][i] = {}
        BY <3>1
      <3>4. Len(results'[t]) = n
        BY <3>1, <3>2
      <3>5. \A i \in 1 .. n : OwnRow(t, i, results[t][i])'
        BY <2>2, <3>3 DEF OwnRow
      <3> QED BY <3>4, <3>5 DEF OwnResults
    <2> QED BY <1>3, <2>1, <2>2
  <1>5. \A u \in Thread : u # t => OwnResults(u)'
    BY <1>1, <1>2, KeptOwn DEF BatchInv
  <1>6. ChunkInv' /\ SpareInv'
    BY <1>1, <1>2, ChunkKept, SpareKept DEF BatchInv, Filled
  <1> QED BY <1>4, <1>5, <1>6 DEF BatchInv

LEMMA OtherBatch ==
  ASSUME PipeInv, BatchInv, NEW t \in Thread,
         \/ Decode(t) \/ AcquireSlot(t) \/ CopyIn(t) \/ LockGpu(t) \/ Execute(t) \/ CopyOut(t)
         \/ Fail(t) \/ ReleaseSlot(t) \/ NotifyOne(t) \/ SpuriousWake(t)
  PROVE  BatchInv'
  <1>1. engine' = engine /\ batchIn' = batchIn /\ batchOut' = batchOut /\ job' = job
    BY DEF Decode, AcquireSlot, CopyIn, LockGpu, Execute, CopyOut, Fail, ReleaseSlot,
       NotifyOne, SpuriousWake, buffers
  <1>2. /\ pc'[t] \notin Filled
        /\ \A u \in Thread : u # t => pc'[u] = pc[u] \/ pc'[u] \notin Filled
    BY Facts DEF Decode, Yield, AcquireSlot, CopyIn, LockGpu, Execute, CopyOut, Fail,
       ReleaseSlot, NotifyOne, SpuriousWake, Goto, Filled
  <1>7. /\ \A u \in Thread : u # t => faulty'[u] = faulty[u]
        /\ \A u \in Thread : faulty[u] => faulty'[u]
        /\ faulty' = faulty \/ results' = results
    <2>1. faulty' = faulty \/ \E ok \in BOOLEAN : Unchecked(t, ok) /\ results' = results
      <3>1. CASE LockGpu(t)
        BY <3>1 DEF LockGpu
      <3>2. CASE Execute(t)
        <4>1. PICK ran \in BOOLEAN, copied \in BOOLEAN : Unchecked(t, ran /\ copied)
          BY <3>2 DEF Execute
        <4>2. (ran /\ copied) \in BOOLEAN /\ results' = results
          BY <3>2 DEF Execute
        <4> QED BY <4>1, <4>2
      <3>3. CASE ~LockGpu(t) /\ ~Execute(t)
        BY <3>3 DEF Decode, AcquireSlot, CopyIn, CopyOut, Fail, ReleaseSlot,
           NotifyOne, SpuriousWake
      <3> QED BY <3>1, <3>2, <3>3
    <2> QED BY <2>1, Facts, Ignored
  <1>3. context' = context \/ \A u \in Thread : pc[u] # "ranB"
    <2>1. CASE LockGpu(t)
      BY <2>1, PipelineAssumption DEF LockGpu, PipeInv, GpuInv, Running
    <2>2. CASE ~LockGpu(t)
      BY <2>2 DEF Decode, AcquireSlot, CopyIn, Execute, CopyOut, Fail, ReleaseSlot,
         NotifyOne, SpuriousWake, buffers
    <2> QED BY <2>1, <2>2
  <1>4. CASE results' = results
    <2>1. \A u \in Thread : OwnResults(u)'
      BY <1>1, <1>4, <1>7, KeptOwn DEF BatchInv
    <2>2. ChunkInv' /\ SpareInv'
      BY <1>1, <1>2, <1>3, <1>4, <1>7, ChunkKept, SpareKept DEF BatchInv
    <2> QED BY <2>1, <2>2 DEF BatchInv
  <1>5. CASE \E rows \in SUBSET Tensor : /\ ~faulty[t] => OwnRow(t, Len(results[t]) + 1, rows)
                                         /\ faulty' = faulty
                                         /\ results' = [results EXCEPT ![t] = Append(@, rows)]
    <2>1. PICK rows \in SUBSET Tensor : /\ ~faulty[t] => OwnRow(t, Len(results[t]) + 1, rows)
                                        /\ faulty' = faulty
                                        /\ results' = [results EXCEPT ![t] = Append(@, rows)]
      BY <1>5
    <2>2. \A u \in Thread : OwnResults(u)'
      BY <1>1, <2>1, OneMoreOwn
    <2>3. \A u \in Thread : u # t => results'[u] = results[u]
      BY <2>1, Facts
    <2>4. ChunkInv' /\ SpareInv'
      BY <1>1, <1>2, <1>3, <1>7, <2>3, ChunkKept, SpareKept DEF BatchInv
    <2> QED BY <2>2, <2>4 DEF BatchInv
  <1>6. results' = results \/ \E rows \in SUBSET Tensor :
                                /\ ~faulty[t] => OwnRow(t, Len(results[t]) + 1, rows)
                                /\ faulty' = faulty
                                /\ results' = [results EXCEPT ![t] = Append(@, rows)]
    <2>1. CASE Decode(t) /\ results' # results
      <3>1. OwnRow(t, Len(results[t]) + 1, {})
        BY <2>1 DEF Decode, OwnRow, Current
      <3> QED BY <2>1, <3>1 DEF Decode, Yield
    <2>2. CASE Fail(t)
      <3>1. OwnRow(t, Len(results[t]) + 1, {})
        BY <2>2 DEF Fail, OwnRow, PipeInv, ImageInv
      <3> QED BY <2>2, <3>1 DEF Fail
    <2>3. CASE CopyOut(t)
      <3> DEFINE rows == {pinned[slotOf[t]].hout} \union (IF EngineRows > 1 /\ ~Detects THEN {Stale} ELSE {})
      <3>2. rows \in SUBSET Tensor /\ (~faulty[t] => OwnRow(t, Len(results[t]) + 1, rows))
        BY <2>3, RowsOfSlot DEF CopyOut
      <3>3. results' = [results EXCEPT ![t] = Append(@, rows)] /\ faulty' = faulty
        BY <2>3 DEF CopyOut
      <3> QED BY <3>2, <3>3
    <2>4. CASE \/ AcquireSlot(t) \/ CopyIn(t) \/ LockGpu(t) \/ Execute(t)
               \/ ReleaseSlot(t) \/ NotifyOne(t) \/ SpuriousWake(t)
      BY <2>4 DEF AcquireSlot, CopyIn, LockGpu, Execute, ReleaseSlot, NotifyOne, SpuriousWake
    <2> QED BY <2>1, <2>2, <2>3, <2>4
  <1> QED BY <1>4, <1>5, <1>6

LEMMA BatchStep ==
  ASSUME NoRowIsForeign, PipeInv, BatchInv, [Next]_vars PROVE BatchInv'
  <1>1. CASE UNCHANGED state
    <2>1. \A t \in Thread : Chunk(t)' = Chunk(t)
      BY <1>1, EngineKept DEF state, Chunk
    <2>2. \A i : Rows(i)' = Rows(i)
      BY <1>1, EngineKept DEF state, Rows
    <2>3. ChunkInv' /\ SpareInv'
      BY <1>1, <2>1, <2>2, EngineKept DEF state, BatchInv, ChunkInv, SpareInv
    <2>4. \A t \in Thread : OwnResults(t)'
      BY <1>1, KeptOwn DEF state, BatchInv
    <2> QED BY <2>3, <2>4 DEF BatchInv
  <1>3. ASSUME NEW t \in Thread, Crash(t) PROVE BatchInv'
    BY <1>1, <1>3 DEF Crash, state, buffers
  <1>4. CASE UNCHANGED vars
    BY <1>1, <1>4 DEF state, vars
  <1>2. ASSUME NEW t \in Thread, Call(t) \/ Step(t) \/ SpuriousWake(t) PROVE BatchInv'
    BY <1>2, CallBatch, OtherBatch, CopyInBatchBatch, LockGpuBatchBatch, ExecuteBatchBatch,
       CopyOutBatchBatch DEF Step
  <1> QED BY <1>2, <1>3, <1>4 DEF Next, Live

-----------------------------------------------------------------------------
(* A free slot for every one that looks: injections under the changes the  *)
(* actions make to the two sets.                                           *)

LEMMA NothingToMatch == ASSUME NEW T PROVE Injections({}, T) # {}
  <1>1. [x \in {} |-> x] \in [{} -> T]
    OBVIOUS
  <1> QED BY <1>1 DEF Injections

LEMMA StillMatched ==
  ASSUME NEW S, NEW T, NEW S1, NEW T1, S1 \subseteq S, T \subseteq T1, Injections(S, T) # {}
  PROVE  Injections(S1, T1) # {}
  <1>1. PICK f \in Injections(S, T) : TRUE
    OBVIOUS
  <1> DEFINE g == [x \in S1 |-> f[x]]
  <1>2. f \in [S -> T] /\ \A a, b \in S : f[a] = f[b] => a = b
    BY <1>1 DEF Injections
  <1>3. g \in [S1 -> T1] /\ \A a, b \in S1 : g[a] = g[b] => a = b
    BY <1>2
  <1> QED BY <1>3 DEF Injections

LEMMA OneMoreMatched ==
  ASSUME NEW S, NEW T, NEW s, NEW t, s \notin S, t \notin T, Injections(S, T) # {}
  PROVE  Injections(S \union {s}, T \union {t}) # {}
  <1>1. PICK f \in Injections(S, T) : TRUE
    OBVIOUS
  <1> DEFINE g == [x \in S \union {s} |-> IF x = s THEN t ELSE f[x]]
  <1>2. f \in [S -> T] /\ \A a, b \in S : f[a] = f[b] => a = b
    BY <1>1 DEF Injections
  <1>3. g \in [S \union {s} -> T \union {t}]
    BY <1>2
  <1>4. \A a, b \in S \union {s} : g[a] = g[b] => a = b
    BY <1>2
  <1> QED BY <1>3, <1>4 DEF Injections

LEMMA OneLessMatched ==
  ASSUME NEW S, NEW T, NEW s \in S, NEW t, Injections(S, T) # {}
  PROVE  Injections(S \ {s}, T \ {t}) # {}
  <1>1. PICK f \in Injections(S, T) : TRUE
    OBVIOUS
  <1> DEFINE g == [x \in S \ {s} |-> IF f[x] = t THEN f[s] ELSE f[x]]
  <1>2. f \in [S -> T] /\ \A a, b \in S : f[a] = f[b] => a = b
    BY <1>1 DEF Injections
  <1>3. g \in [S \ {s} -> T \ {t}]
    BY <1>2
  <1>4. \A a, b \in S \ {s} : g[a] = g[b] => a = b
    BY <1>2
  <1> QED BY <1>3, <1>4 DEF Injections

LEMMA AnotherMatched ==
  ASSUME NEW S, NEW T, NEW t, NEW u, u \notin T, Injections(S, T) # {}
  PROVE  Injections(S, (T \ {t}) \union {u}) # {}
  <1>1. PICK f \in Injections(S, T) : TRUE
    OBVIOUS
  <1> DEFINE g == [x \in S |-> IF f[x] = t THEN u ELSE f[x]]
  <1>2. f \in [S -> T] /\ \A a, b \in S : f[a] = f[b] => a = b
    BY <1>1 DEF Injections
  <1>3. g \in [S -> (T \ {t}) \union {u}]
    BY <1>2
  <1>4. \A a, b \in S : g[a] = g[b] => a = b
    BY <1>2
  <1> QED BY <1>3, <1>4 DEF Injections

-----------------------------------------------------------------------------
(* The slots and those that look for one, one action at a time.            *)

LEMMA AcquireSlotMatched ==
  ASSUME PipeInv, Matched, NEW t \in Thread, AcquireSlot(t)
  PROVE  Matched'
  <1>1. pc[t] = "acquire" /\ pc \in [Thread -> PcValues] /\ inUse \in [Slot -> BOOLEAN]
    BY Facts DEF AcquireSlot
  <1>2. CASE \E s \in Free : inUse' = [inUse EXCEPT ![s] = TRUE] /\ Goto(t, "copyIn")
    <2>1. PICK s \in Free : inUse' = [inUse EXCEPT ![s] = TRUE] /\ Goto(t, "copyIn")
      BY <1>2
    <2>2. Free' = Free \ {s}
      BY <1>1, <2>1 DEF Free
    <2>3. Looking' = Looking \ {t} /\ Asleep' = Asleep
      BY <1>1, <2>1 DEF Looking, Asleep, Goto
    <2> QED BY <2>1, <2>2, <2>3, OneLessMatched DEF Matched
  <1>3. CASE Free = {} /\ UNCHANGED inUse
    <2>1. Free' = {}
      BY <1>3 DEF Free
    <2> QED BY <2>1, NothingToMatch DEF Matched
  <1> QED BY <1>2, <1>3 DEF AcquireSlot

LEMMA ReleaseSlotMatched ==
  ASSUME PipeInv, Matched, NEW t \in Thread, ReleaseSlot(t)
  PROVE  Matched'
  <1>1. pc[t] = "release" /\ pc \in [Thread -> PcValues] /\ inUse \in [Slot -> BOOLEAN]
    BY Facts DEF ReleaseSlot
  <1>2. slotOf[t] \in Slot /\ inUse[slotOf[t]]
    <2>1. slotOf[t] # 0 /\ inUse[slotOf[t]]
      BY <1>1 DEF PipeInv, SlotInv, Holding
    <2> QED BY <2>1, Facts
  <1>3. Free' = Free \union {slotOf[t]} /\ slotOf[t] \notin Free
    BY <1>1, <1>2 DEF ReleaseSlot, Free
  <1>4. Looking' = Looking \union {t} /\ t \notin Looking /\ Asleep' = Asleep
    BY <1>1 DEF ReleaseSlot, Looking, Asleep, Goto
  <1> QED BY <1>3, <1>4, OneMoreMatched DEF Matched

LEMMA NotifyOneMatched ==
  ASSUME PipeInv, Matched, NEW t \in Thread, NotifyOne(t)
  PROVE  Matched'
  <1> DEFINE next == IF Len(results[t]) < Len(job[t]) THEN "decode" ELSE "idle"
  <1>1. /\ pc[t] = "notify" /\ pc \in [Thread -> PcValues] /\ inUse' = inUse
        /\ next \in {"decode", "idle"}
    BY Facts DEF NotifyOne
  <1>2. Free' = Free
    BY <1>1 DEF Free
  <1>3. CASE Asleep = {} /\ Goto(t, next)
    <2>1. Asleep' = {}
      BY <1>1, <1>3 DEF Asleep, Goto
    <2> QED BY <2>1 DEF Matched
  <1>4. CASE \E u \in Asleep : pc' = [pc EXCEPT ![t] = next, ![u] = "acquire"]
    <2>1. PICK u \in Asleep : pc' = [pc EXCEPT ![t] = next, ![u] = "acquire"]
      BY <1>4
    <2>2. Looking' = (Looking \ {t}) \union {u} /\ u \notin Looking
      BY <1>1, <2>1 DEF Looking, Asleep
    <2> QED BY <1>2, <2>1, <2>2, AnotherMatched DEF Matched
  <1> QED BY <1>3, <1>4 DEF NotifyOne

LEMMA OtherMatched ==
  ASSUME PipeInv, Matched, NEW t \in Thread,
         \/ Call(t) \/ Decode(t) \/ CopyIn(t) \/ LockGpu(t) \/ Execute(t) \/ CopyOut(t)
         \/ Fail(t) \/ SpuriousWake(t)
         \/ CopyInBatch(t) \/ LockGpuBatch(t) \/ ExecuteBatch(t) \/ CopyOutBatch(t)
  PROVE  Matched'
  <1>1. inUse' = inUse /\ pc \in [Thread -> PcValues]
    BY Facts DEF Call, Decode, CopyIn, LockGpu, Execute, CopyOut, Fail, SpuriousWake,
       CopyInBatch, LockGpuBatch, ExecuteBatch, CopyOutBatch
  <1>2. /\ pc[t] \notin {"notify", "acquire"}
        /\ \A u \in Thread : u # t => pc'[u] = pc[u]
        /\ pc'[t] # "asleep"
    BY <1>1 DEF Call, Decode, CopyIn, LockGpu, Execute, CopyOut, Fail, SpuriousWake,
       CopyInBatch, LockGpuBatch, ExecuteBatch, CopyOutBatch, Goto, Yield, YieldChunk
  <1>3. Free' = Free
    BY <1>1 DEF Free
  <1>4. Looking \subseteq Looking' /\ Asleep' \subseteq Asleep
    BY <1>2 DEF Looking, Asleep
  <1> QED BY <1>3, <1>4, StillMatched DEF Matched

LEMMA MatchedStep == PipeInv /\ Matched /\ [Next]_vars => Matched'
  <1> SUFFICES ASSUME PipeInv, Matched, [Next]_vars PROVE Matched'
    OBVIOUS
  <1>1. CASE UNCHANGED vars
    BY <1>1 DEF vars, Matched, Free, Looking, Asleep
  <1>3. ASSUME NEW t \in Thread, Crash(t) PROVE Matched'
    BY <1>3 DEF Crash, Matched, Free, Looking, Asleep
  <1>2. ASSUME NEW t \in Thread, Call(t) \/ Step(t) \/ SpuriousWake(t) PROVE Matched'
    BY <1>2, AcquireSlotMatched, ReleaseSlotMatched, NotifyOneMatched, OtherMatched DEF Step
  <1> QED BY <1>1, <1>2, <1>3 DEF Next, Live

LEMMA InitMatched == Init => Matched
  BY DEF Init, Matched, Asleep

-----------------------------------------------------------------------------
(* The slots, the execution context and the buffers hold what they hold    *)
(* for the call that uses them.                                            *)
THEOREM PipelineInvariant == Spec => []PipeInv
  <1>1. Init => PipeInv
    BY InitPipe
  <1>2. PipeInv /\ [Next]_vars => PipeInv'
    BY PipeStep
  <1> QED BY <1>1, <1>2, PTL DEF Spec

(* However many callers sleep on slot_pool_cv_ and however releases, their *)
(* later notifications and spurious wakeups interleave, a free slot has a  *)
(* caller that will look for it.                                           *)
THEOREM ASlotDoesNotIdle == Spec => []NoSlotIdles
  <1>1. Init => PipeInv /\ Matched
    BY InitPipe, InitMatched
  <1>2. PipeInv /\ Matched /\ [Next]_vars => (PipeInv /\ Matched)'
    BY PipeStep, MatchedStep
  <1>3. PipeInv /\ Matched => NoSlotIdles
    <2> SUFFICES ASSUME Matched, Free # {}, Asleep # {}
                 PROVE  \E t \in Thread : pc[t] \in {"notify", "acquire"}
      BY DEF NoSlotIdles
    <2>1. PICK f \in [Free -> Looking] : TRUE
      BY DEF Matched, Injections
    <2> QED BY <2>1 DEF Looking
  <1> QED BY <1>1, <1>2, <1>3, PTL DEF Spec

(* A caller of infer for which no device call failed unseen gets the       *)
(* result of its own image and nothing of another one, whatever executor   *)
(* threads do with the batch buffers, whatever the engine and whatever     *)
(* failed for the others.                                                  *)
THEOREM ASingleResultIsItsOwn ==
  Spec => [](\A t \in Single : ~faulty[t] =>
               \A i \in 1 .. Len(results[t]) : OwnRow(t, i, results[t][i]))
  <1>1. PipeInv => \A t \in Single : ~faulty[t] =>
                     \A i \in 1 .. Len(results[t]) : OwnRow(t, i, results[t][i])
    BY DEF PipeInv, SinglesOwn, OwnResults
  <1> QED BY <1>1, PipelineInvariant, PTL

(* No result is computed from another image (of a detection batch: from an *)
(* image outside of it), unless a device call failed unseen, if one thread *)
(* at a time calls inferBatch and the rows of a sample are not read past   *)
(* its own (or the images behind the first of a chunk are blank anyway).   *)
THEOREM EveryResultIsItsOwn ==
  ASSUME NoRowIsForeign PROVE Spec => []ResultsAreOwn
  <1>1. Init => PipeInv /\ BatchInv
    BY InitPipe, InitBatch
  <1>2. PipeInv /\ BatchInv /\ [Next]_vars => (PipeInv /\ BatchInv)'
    BY PipeStep, BatchStep
  <1>3. PipeInv /\ BatchInv => ResultsAreOwn
    <2> SUFFICES ASSUME PipeInv, BatchInv, NEW t \in Thread
                 PROVE  /\ Len(results[t]) <= Len(job[t])
                        /\ ~faulty[t] => \A i \in DOMAIN results[t] : OwnRow(t, i, results[t][i])
      BY DEF ResultsAreOwn, OwnRow
    <2>1. results[t] \in Seq(SUBSET Tensor)
      BY Facts
    <2>2. DOMAIN results[t] = 1 .. Len(results[t])
      BY <2>1
    <2> QED BY <2>2 DEF PipeInv, PlaceInv, BatchInv, OwnResults
  <1> QED BY <1>1, <1>2, <1>3, PTL DEF Spec
=============================================================================
