----------------------- MODULE MCDynamicBatchScheduler -----------------------
(* Two models, one on each executor, configured by a file with a global    *)
(* setting and a per-model override; a run chooses the submissions to each *)
(* of them.  A tick of the clock stands for a microsecond of the file.     *)
EXTENDS DynamicBatchScheduler, ServerConfig, TLC

CONSTANTS GpuRequests, CpuRequests, PreferredSizes, GpuSizes, GpuDelay, CpuDelay

MCRequests == GpuRequests \cup CpuRequests
MCKeys == {"gpuModel", "cpuModel"}
MCKeyOf == [r \in MCRequests |-> IF r \in GpuRequests THEN "gpuModel" ELSE "cpuModel"]
Global == LoadConfig([max_batch_size |-> 2, preferred_batch_sizes |-> PreferredSizes,
                      max_queue_delay_us |-> CpuDelay]).global
Override(k) == ModelEntry(Global, [max   |-> 0,
                                   pref  |-> IF k = "gpuModel" THEN GpuSizes ELSE {},
                                   delay |-> IF k = "gpuModel" THEN GpuDelay ELSE 0])
MCConfig == [k \in MCKeys |-> ResolveConfig(Global, Override(k))]
MCExecutors == {"gpu", "cpu"}
MCExecutorOf == [k \in MCKeys |-> IF k = "gpuModel" THEN "gpu" ELSE "cpu"]
MCConcurrency == [e \in MCExecutors |-> IF e = "gpu" THEN 1 ELSE 2]
MCGateLimit == [e \in MCExecutors |-> IF e = "gpu" THEN 1 ELSE 2]

\* The examples that loadConfig gives of the sizes it derives.
ASSUME DocumentedSizes == DerivedSizes(16) = {4, 8, 16} /\ DerivedSizes(4) = {2, 4}

Symmetry == Permutations(GpuRequests) \cup Permutations(CpuRequests)
=============================================================================
