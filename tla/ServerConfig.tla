----------------------------- MODULE ServerConfig -----------------------------
(***************************************************************************)
(* The settings of the server: what loadConfig makes of the configuration  *)
(* file, what ConfigAdvisor recommends for the hardware, and what the      *)
(* first start and the profile handler (SystemHandler) write into the file *)
(* for the next start to load.                                             *)
(*                                                                         *)
(* A file, which parses, is a function from the settings it contains to    *)
(* their values, which are of the width of int.                            *)
(* Memory is in MB, the size of a sample in floats.  The code computes in  *)
(* floats, truncates and clamps; the quotients of integers below give the  *)
(* same for the hardware and the input shapes that occur.  A profile       *)
(* always enables batching, since its batches have at least four samples.  *)
(***************************************************************************)
EXTENDS BatchPolicy

Number == {"threads", "rate_limit_req_per_sec", "rate_limit_burst",
           "max_batch_size", "max_delay_ms", "max_queue_delay_us"}
Sizes == "preferred_batch_sizes"

MaxInt == 2147483647   \* of a 32-bit int
IntRange == (-MaxInt - 1) .. MaxInt

\* The product of two ints: beyond the range it is undefined, and wraps in the builds.
Wrapped(n) == ((n + MaxInt + 1) % (2 * (MaxInt + 1))) - (MaxInt + 1)
Times(a, b) == IF a * b \in IntRange THEN a * b ELSE Wrapped(a * b)

IsFile(f) ==
  /\ DOMAIN f \subseteq Number \union {Sizes}
  /\ \A s \in DOMAIN f \intersect Number : f[s] \in IntRange
  /\ Sizes \in DOMAIN f => f[Sizes] \subseteq Int /\ IsFiniteSet(f[Sizes])

-----------------------------------------------------------------------------
(* loadConfig.                                                             *)

\* The program exits when one of these is out of range.
Accepted(f) ==
  \A s \in DOMAIN f \intersect {"threads", "max_batch_size", "max_delay_ms"} : f[s] >= 1

Given(f, s, default) == IF s \in DOMAIN f THEN f[s] ELSE default

\* The preferred sizes of a file that names none.
DerivedSizes(max) ==
  IF max >= 8 THEN {IF max >= 16 THEN 4 ELSE max \div 4, max \div 2, max}
  ELSE IF max >= 2 THEN {max \div 2, max}
  ELSE {1}

\* A negative queue delay counts as none; without one max_delay_ms counts, whose
\* product nothing bounds.
QueueDelay(f) ==
  IF "max_queue_delay_us" \notin DOMAIN f THEN Times(Given(f, "max_delay_ms", 10), 1000)
  ELSE IF f["max_queue_delay_us"] < 0 THEN 0
  ELSE f["max_queue_delay_us"]

LoadConfig(f) ==
  LET max == Given(f, "max_batch_size", 8) IN
  [threads |-> Given(f, "threads", 4),
   rate    |-> Given(f, "rate_limit_req_per_sec", 100),
   burst   |-> Given(f, "rate_limit_burst", 200),
   global  |-> [max   |-> max,
                pref  |-> Given(f, Sizes, DerivedSizes(max)),
                delay |-> QueueDelay(f)]]

\* An entry of batching.models: what is not set there is inherited, here as in
\* ResolveConfig.
ModelEntry(global, over) ==
  [max   |-> IF over.max <= 0 THEN global.max ELSE over.max,
   pref  |-> IF over.pref = {} THEN global.pref ELSE over.pref,
   delay |-> IF over.delay <= 0 THEN global.delay ELSE over.delay]

-----------------------------------------------------------------------------
(* ConfigAdvisor.                                                          *)

Mb == 262144   \* floats in a megabyte
MaxThreads == 32
MaxBatchSize == 64
MinWorkspace == 256

\* cores: logical cores; devices: gpu_count; free: free memory of the first GPU whose
\* properties can be read, 0 without one.
Hardware == [cores : Nat, devices : Nat, free : Nat]
Profile == {"stable", "aggressive"}

Clamp(v, lo, hi) == IF v < lo THEN lo ELSE IF v > hi THEN hi ELSE v

\* types: the backends of the configured models.
Scenario(types) ==
  IF "tensorrt" \notin types THEN "CPU_ONLY"
  ELSE IF types = {"tensorrt"} THEN "GPU_ONLY"
  ELSE "MIXED"

\* maxModelPerSampleMb: the largest input of the configured models, 5 MB without one.
LargestSample(samples) ==
  LET largest == Max({0} \union samples) IN IF largest = 0 THEN 5 * Mb ELSE largest

Threads(key, cores, scenario) ==
  LET aggressive == key = "aggressive" IN
  CASE scenario = "CPU_ONLY" -> IF aggressive THEN Clamp(cores, 4, MaxThreads)
                                ELSE Clamp((cores * 7) \div 10, 2, MaxThreads)
    [] scenario = "GPU_ONLY" -> IF aggressive THEN Clamp((cores * 5) \div 10, 2, 12)
                                ELSE Clamp((cores * 3) \div 10, 2, 8)
    [] scenario = "MIXED"    -> IF aggressive THEN Clamp((cores * 8) \div 10, 4, 16)
                                ELSE Clamp((cores * 5) \div 10, 4, 16)

\* The samples that fit in tenths of the free memory, rounded to the nearest.
BatchByMemory(free, tenths, sample) ==
  (2 * free * tenths * Mb + 10 * sample) \div (20 * sample)

MaxBatchOf(key, free, scenario, sample) ==
  LET aggressive == key = "aggressive"
      lo == IF aggressive THEN 8 ELSE 4
  IN IF scenario = "CPU_ONLY" THEN IF aggressive THEN 16 ELSE 8
     ELSE IF free = 0 THEN lo
     ELSE IF aggressive THEN Clamp(BatchByMemory(free, 7, sample), lo, MaxBatchSize)
     ELSE Clamp(BatchByMemory(free, 5, sample), lo, 16)

Workspace(key, hw, scenario) ==
  IF scenario = "CPU_ONLY" \/ hw.devices = 0 THEN 0
  ELSE IF key = "aggressive" THEN Clamp((hw.free * 15) \div 100, MinWorkspace, 2048)
  ELSE Clamp((hw.free * 8) \div 100, MinWorkspace, 512)

\* buildProfile.  It leaves max_queue_delay_us at 0 and preferred_batch_sizes empty.
Advice(key, hw, scenario, sample) ==
  LET stable == key = "stable" IN
  [threads   |-> Threads(key, hw.cores, scenario),
   max       |-> MaxBatchOf(key, hw.free, scenario, sample),
   delayMs   |-> IF stable THEN 20 ELSE 5,
   delayUs   |-> 0,
   pref      |-> {},
   workspace |-> Workspace(key, hw, scenario),
   rate      |-> IF stable THEN 1000 ELSE 0,
   burst     |-> IF stable THEN 2000 ELSE 0]

-----------------------------------------------------------------------------
(* Writing the file.                                                       *)

\* f with the settings of g in place of its own.
Overwrite(f, g) ==
  [s \in DOMAIN f \union DOMAIN g |-> IF s \in DOMAIN g THEN g[s] ELSE f[s]]

\* analyze, when the file has no recommendations: the stable profile.
FirstStart(f, p) ==
  Overwrite(f, [threads |-> p.threads, rate_limit_req_per_sec |-> p.rate,
                rate_limit_burst |-> p.burst, max_batch_size |-> p.max,
                max_delay_ms |-> p.delayMs])

\* handleApplyConfig.
ApplyProfile(f, p) ==
  LET numbers == [threads |-> p.threads,
                  rate_limit_req_per_sec |-> IF p.rate > 0 THEN p.rate ELSE 0,
                  rate_limit_burst |-> IF p.rate > 0 THEN p.burst ELSE 0,
                  max_batch_size |-> p.max, max_delay_ms |-> p.delayMs,
                  max_queue_delay_us |-> p.delayUs]
  IN IF p.pref = {} THEN Overwrite(f, numbers)
     ELSE Overwrite(Overwrite(f, numbers), [preferred_batch_sizes |-> p.pref])
===============================================================================
