----------------------- MODULE ConversionManagerProofs -----------------------
(***************************************************************************)
(* Proofs about ConversionManager for any paths, engines and number of     *)
(* jobs: the queue and the map of jobs stay in step, and every conversion  *)
(* that ends is reported by a job of its path.                             *)
(***************************************************************************)
EXTENDS ConversionManager, SequenceTheorems, FiniteSetTheorems, TLAPS

-----------------------------------------------------------------------------
(* How many elements of a sequence are of a kind.                          *)

Positions(s, T) == {i \in DOMAIN s : s[i] \in T}
Count(s, T) == Cardinality(Positions(s, T))
One(x, T) == IF x \in T THEN 1 ELSE 0

LEMMA CountTyped ==
  ASSUME NEW S, NEW s \in Seq(S), NEW T
  PROVE  IsFiniteSet(Positions(s, T)) /\ Count(s, T) \in Nat
<1>1. DOMAIN s = 1 .. Len(s) /\ Len(s) \in Nat /\ IsFiniteSet(1 .. Len(s))
  BY LenProperties, FS_Interval
<1>2. Positions(s, T) \in SUBSET (1 .. Len(s))
  BY <1>1 DEF Positions
<1>3. IsFiniteSet(Positions(s, T))
  BY <1>1, <1>2, FS_Subset
<1>4. QED
  BY <1>3, FS_CardinalityType DEF Count

LEMMA CountAppend ==
  ASSUME NEW S, NEW s \in Seq(S), NEW x \in S, NEW T
  PROVE  Count(Append(s, x), T) = Count(s, T) + (IF x \in T THEN 1 ELSE 0)
<1> DEFINE p == Append(s, x)
<1>1. /\ Len(s) \in Nat /\ DOMAIN s = 1 .. Len(s) /\ DOMAIN p = 1 .. (Len(s) + 1)
      /\ p[Len(s) + 1] = x /\ \A i \in 1 .. Len(s) : p[i] = s[i]
  BY AppendProperties, LenProperties
<1>2. IsFiniteSet(Positions(s, T)) /\ Count(s, T) \in Nat /\ Len(s) + 1 \notin Positions(s, T)
  <2>1. Len(s) + 1 \notin DOMAIN s
    BY <1>1
  <2>2. QED
    BY <2>1, CountTyped DEF Positions
<1> HIDE DEF p
<1>3. CASE x \in T
  <2>1. Positions(p, T) = Positions(s, T) \cup {Len(s) + 1}
    BY <1>1, <1>3 DEF Positions
  <2>2. Count(p, T) = Count(s, T) + 1
    BY <1>2, <2>1, FS_AddElement DEF Count
  <2>3. QED
    BY <1>3, <2>2 DEF p
<1>4. CASE x \notin T
  <2>1. Positions(p, T) = Positions(s, T)
    BY <1>1, <1>4 DEF Positions
  <2>2. Count(p, T) = Count(s, T) /\ Count(s, T) \in Nat
    BY <2>1, CountTyped DEF Count
  <2>3. QED
    BY <1>4, <2>2 DEF p
<1>5. QED
  BY <1>3, <1>4

LEMMA CountTail ==
  ASSUME NEW S, NEW s \in Seq(S), s # <<>>, NEW T
  PROVE  Count(s, T) = Count(Tail(s), T) + (IF Head(s) \in T THEN 1 ELSE 0)
<1> DEFINE t == Tail(s)
           P == Positions(t, T)
           Q == Positions(s, T) \ {1}
           f == [i \in P |-> i + 1]
<1>1. /\ Len(s) \in Nat \ {0} /\ DOMAIN s = 1 .. Len(s) /\ DOMAIN t = 1 .. (Len(s) - 1)
      /\ Head(s) = s[1] /\ \A i \in 1 .. (Len(s) - 1) : t[i] = s[i + 1]
      /\ t \in Seq(S)
  BY HeadTailProperties, LenProperties, EmptySeq
<1> HIDE DEF t
<1>2. f \in Bijection(P, Q)
  <2>1. \A i \in P : i \in Int /\ i + 1 \in Q
    BY <1>1 DEF Positions
  <2>2. \A j \in Q : j - 1 \in P /\ (j - 1) + 1 = j
    BY <1>1 DEF Positions
  <2>3. \A i, j \in P : i + 1 = j + 1 => i = j
    BY <2>1
  <2> HIDE DEF P, Q
  <2>4. f \in [P -> Q] /\ (\A i, j \in P : f[i] = f[j] => i = j) /\ \A j \in Q : \E i \in P : f[i] = j
    BY <2>1, <2>2, <2>3
  <2>5. QED
    BY <2>4 DEF Bijection, Injection, IsInjective, Surjection
<1>3. IsFiniteSet(P) /\ IsFiniteSet(Positions(s, T)) /\ Count(s, T) \in Nat /\ Count(t, T) \in Nat
  BY <1>1, CountTyped
<1>4. Cardinality(Q) = Count(t, T)
  BY <1>2, <1>3, FS_Bijection DEF ExistsBijection, Count
<1>5. Cardinality(Q) = IF 1 \in Positions(s, T) THEN Count(s, T) - 1 ELSE Count(s, T)
  BY <1>3, FS_RemoveElement DEF Count
<1>6. 1 \in Positions(s, T) <=> Head(s) \in T
  BY <1>1 DEF Positions
<1>7. QED
  BY <1>3, <1>4, <1>5, <1>6 DEF t

LEMMA CountUpdate ==
  ASSUME NEW s, NEW T, IsFiniteSet(Positions(s, T)), NEW i \in DOMAIN s,
         NEW p, DOMAIN p = DOMAIN s, \A j \in DOMAIN s : j # i => p[j] = s[j]
  PROVE  Count(p, T) = (Count(s, T) - One(s[i], T)) + One(p[i], T)
<1> DEFINE R == Positions(s, T) \ {i}
<1>1. Count(s, T) \in Nat
  BY FS_CardinalityType DEF Count
<1>2. /\ IsFiniteSet(R)
      /\ Cardinality(R) = IF s[i] \in T THEN Count(s, T) - 1 ELSE Count(s, T)
  BY FS_RemoveElement DEF Count, Positions
<1>3. Positions(p, T) = IF p[i] \in T THEN R \cup {i} ELSE R
  BY DEF Positions
<1>4. Count(p, T) = IF p[i] \in T THEN Cardinality(R) + 1 ELSE Cardinality(R)
  <2>1. Cardinality(R \cup {i}) = Cardinality(R) + 1
    BY <1>2, FS_AddElement
  <2>2. QED
    BY <1>3, <2>1 DEF Count
<1>5. QED
  BY <1>1, <1>2, <1>4 DEF One

-----------------------------------------------------------------------------
(* The worker and its job.  Between Take and Mark the job is still queued  *)
(* in the map, from Mark to Report it is running; what the worker builds,  *)
(* what waits and what has been built are options some job asked for.      *)

Job == [opts : BuildOptions, status : {"Queued", "Running", "Completed", "Failed"}]
Build == [opts : BuildOptions, ok : BOOLEAN]

\* Kinds of options, of jobs and of builds.
Path(p) == {o \in BuildOptions : o.onnx = p}
JobsOf(p, status) == {j \in Job : j.opts.onnx = p /\ j.status = status}
BuildsOf(p, result) == {b \in Build : b.opts.onnx = p /\ b.ok = result}
Verdict(result) == IF result THEN "Completed" ELSE "Failed"

Typed ==
  /\ queue \in Seq(BuildOptions)
  /\ jobs \in Seq(Job)
  /\ builds \in Seq(Build)
  /\ opts \in BuildOptions /\ ok \in BOOLEAN
  /\ wpc \in {"test", "lock", "decide", "asleep", "mark", "parse", "open", "write",
              "report", "exited"}

AtWork == wpc \in {"parse", "open", "write", "report"}

HasJob ==
  wpc = "mark" \/ AtWork =>
    /\ job \in DOMAIN jobs
    /\ jobs[job].opts.onnx = opts.onnx
    /\ jobs[job].status = IF AtWork THEN "Running" ELSE "Queued"

Asked(o) == \E j \in DOMAIN jobs : jobs[j].opts = o

OnlyAsked ==
  /\ \A i \in DOMAIN queue : Asked(queue[i])
  /\ \A i \in DOMAIN builds : Asked(builds[i].opts)
  /\ wpc = "mark" \/ AtWork => Asked(opts)

InStep ==
  \A p \in Onnx :
    Count(jobs, JobsOf(p, "Queued"))
      = Count(queue, Path(p)) + (IF wpc = "mark" /\ opts.onnx = p THEN 1 ELSE 0)

Reported ==
  \A p \in Onnx, result \in BOOLEAN :
    Count(jobs, JobsOf(p, Verdict(result))) = Count(builds, BuildsOf(p, result))

ManagerInv == Typed /\ HasJob /\ OnlyAsked /\ InStep /\ Reported

LEMMA CountsTyped ==
  ASSUME Typed, NEW p
  PROVE  /\ \A status : Count(jobs, JobsOf(p, status)) \in Nat
         /\ Count(queue, Path(p)) \in Nat
         /\ \A result : Count(builds, BuildsOf(p, result)) \in Nat
BY CountTyped DEF Typed

\* A job changes its status, and nothing else of it.
LEMMA StatusIsSet ==
  ASSUME Typed, NEW i \in DOMAIN jobs, NEW status \in {"Queued", "Running", "Completed", "Failed"},
         jobs' = [jobs EXCEPT ![i].status = status]
  PROVE  /\ jobs' \in Seq(Job) /\ DOMAIN jobs' = DOMAIN jobs
         /\ \A j \in DOMAIN jobs : jobs'[j].opts = jobs[j].opts
         /\ \A j \in DOMAIN jobs : jobs'[j].status = IF j = i THEN status ELSE jobs[j].status
<1> DEFINE x == [jobs[i] EXCEPT !.status = status]
<1>1. jobs \in Seq(Job) /\ i \in 1 .. Len(jobs) /\ jobs[i] \in Job
  BY LenProperties, ElementOfSeq DEF Typed
<1>2. x \in Job /\ x.opts = jobs[i].opts /\ x.status = status
  BY <1>1 DEF Job
<1>3. jobs' = [jobs EXCEPT ![i] = x]
  OBVIOUS
<1> HIDE DEF x
<1>4. jobs' \in Seq(Job) /\ DOMAIN jobs' = DOMAIN jobs
  BY <1>1, <1>2, <1>3, ExceptSeq
<1>5. \A j \in DOMAIN jobs : jobs'[j] = IF j = i THEN x ELSE jobs[j]
  BY <1>3
<1>6. QED
  BY <1>2, <1>4, <1>5

\* What that does to the counts.
LEMMA StatusChanges ==
  ASSUME Typed, NEW i \in DOMAIN jobs, NEW status \in {"Queued", "Running", "Completed", "Failed"},
         jobs' = [jobs EXCEPT ![i].status = status], NEW p \in Onnx, NEW s
  PROVE  /\ jobs[i] \in JobsOf(p, s) <=> jobs[i].opts.onnx = p /\ jobs[i].status = s
         /\ jobs'[i] \in JobsOf(p, s) <=> jobs[i].opts.onnx = p /\ status = s
         /\ Count(jobs', JobsOf(p, s))
              = (Count(jobs, JobsOf(p, s)) - One(jobs[i], JobsOf(p, s)))
                + One(jobs'[i], JobsOf(p, s))
<1> DEFINE x == [jobs[i] EXCEPT !.status = status]
<1>1. jobs \in Seq(Job) /\ i \in 1 .. Len(jobs) /\ jobs[i] \in Job
  BY LenProperties, ElementOfSeq DEF Typed
<1>2. x \in Job /\ x.opts = jobs[i].opts /\ x.status = status
  BY <1>1 DEF Job
<1>3. jobs' = [jobs EXCEPT ![i] = x]
  OBVIOUS
<1> HIDE DEF x
<1>4. /\ jobs[i] \in JobsOf(p, s) <=> jobs[i].opts.onnx = p /\ jobs[i].status = s
      /\ x \in JobsOf(p, s) <=> jobs[i].opts.onnx = p /\ status = s
  BY <1>1, <1>2 DEF JobsOf
<1>5. jobs' \in Seq(Job) /\ DOMAIN jobs' = DOMAIN jobs
  BY <1>1, <1>2, <1>3, ExceptSeq
<1>6. Count(jobs', JobsOf(p, s))
           = (Count(jobs, JobsOf(p, s)) - One(jobs[i], JobsOf(p, s))) + One(x, JobsOf(p, s))
  <2> DEFINE T == JobsOf(p, s)
             q == jobs'
  <2>1. q[i] = x /\ DOMAIN q = DOMAIN jobs /\ \A j \in DOMAIN jobs : j # i => q[j] = jobs[j]
    BY <1>3, <1>5
  <2>2. IsFiniteSet(Positions(jobs, T))
    BY <1>1, CountTyped
  <2> HIDE DEF T, q
  <2>3. Count(q, T) = (Count(jobs, T) - One(jobs[i], T)) + One(q[i], T)
    BY <2>1, <2>2, CountUpdate
  <2>4. QED
    BY <2>1, <2>3 DEF T, q
<1>7. jobs'[i] = x
  BY <1>3
<1>8. QED
  BY <1>4, <1>6, <1>7

LEMMA StillAsked ==
  ASSUME \A j \in DOMAIN jobs : j \in DOMAIN jobs' /\ jobs'[j].opts = jobs[j].opts
  PROVE  \A o : Asked(o) => Asked(o)'
BY DEF Asked

LEMMA Appended ==
  ASSUME NEW S, NEW s \in Seq(S), NEW e \in S, NEW a, a = Append(s, e)
  PROVE  /\ a \in Seq(S) /\ \A j \in DOMAIN s : j \in DOMAIN a /\ a[j] = s[j]
         /\ \E j \in DOMAIN a : a[j] = e
         /\ \A i \in DOMAIN a : a[i] = e \/ (i \in DOMAIN s /\ a[i] = s[i])
<1>1. Len(s) \in Nat /\ DOMAIN s = 1 .. Len(s)
  BY LenProperties
<1>2. /\ a \in Seq(S) /\ Len(a) = Len(s) + 1 /\ \A i \in 1 .. Len(s) : a[i] = s[i]
      /\ a[Len(s) + 1] = e
  BY AppendProperties
<1>3. DOMAIN a = 1 .. (Len(s) + 1)
  BY <1>2, LenProperties
<1>4. Len(s) + 1 \in DOMAIN a /\ \A i \in DOMAIN a : i \in DOMAIN s \/ i = Len(s) + 1
  BY <1>1, <1>3
<1>5. QED
  BY <1>1, <1>2, <1>3, <1>4

LEMMA SubmitInv ==
  ASSUME ManagerInv, NEW o \in BuildOptions, submit(o)
  PROVE  ManagerInv'
<1> DEFINE x == [opts |-> o, status |-> "Queued"]
<1>1. /\ jobs' = Append(jobs, x) /\ queue' = Append(queue, o) /\ UNCHANGED <<opts, job, ok, builds>>
      /\ wpc' = IF wpc = "asleep" THEN "lock" ELSE wpc
  BY DEF submit, Waken, worker
<1>2. /\ jobs \in Seq(Job) /\ queue \in Seq(BuildOptions) /\ x \in Job
  BY DEF ManagerInv, Typed, Job
<1>3. /\ jobs' \in Seq(Job) /\ queue' \in Seq(BuildOptions)
      /\ \A j \in DOMAIN jobs : j \in DOMAIN jobs' /\ jobs'[j] = jobs[j]
      /\ \E j \in DOMAIN jobs' : jobs'[j] = x
      /\ \A i \in DOMAIN queue' : queue'[i] = o \/ (i \in DOMAIN queue /\ queue'[i] = queue[i])
  <2>1. /\ jobs' \in Seq(Job) /\ \A j \in DOMAIN jobs : j \in DOMAIN jobs' /\ jobs'[j] = jobs[j]
        /\ \E j \in DOMAIN jobs' : jobs'[j] = x
    <3> HIDE DEF x
    <3>1. QED
      BY <1>1, <1>2, Appended
  <2>2. /\ queue' \in Seq(BuildOptions)
        /\ \A i \in DOMAIN queue' : queue'[i] = o \/ (i \in DOMAIN queue /\ queue'[i] = queue[i])
    BY <1>1, <1>2, Appended
  <2>3. QED
    BY <2>1, <2>2
<1>4. Typed'
  BY <1>1, <1>3 DEF ManagerInv, Typed
<1>5. HasJob'
  BY <1>1, <1>3 DEF ManagerInv, HasJob, AtWork
<1>6. OnlyAsked'
  <2>1. \A b : Asked(b) => Asked(b)'
    BY <1>3, StillAsked
  <2>2. Asked(o)'
    BY <1>3 DEF Asked
  <2>3. QED
    BY <1>1, <1>3, <2>1, <2>2 DEF ManagerInv, OnlyAsked, AtWork
<1>7. \A p : o \in Path(p) <=> o.onnx = p
  BY DEF Path
<1>8. \A p, s : x \in JobsOf(p, s) <=> o.onnx = p /\ s = "Queued"
  BY <1>2 DEF JobsOf
<1> HIDE DEF x
<1>9. InStep'
  <2> SUFFICES ASSUME NEW p \in Onnx
               PROVE  Count(jobs', JobsOf(p, "Queued"))
                        = Count(queue', Path(p)) + (IF wpc' = "mark" /\ opts'.onnx = p THEN 1 ELSE 0)
    BY DEF InStep
  <2>1. Count(jobs', JobsOf(p, "Queued"))
          = Count(jobs, JobsOf(p, "Queued")) + (IF o.onnx = p THEN 1 ELSE 0)
    BY <1>1, <1>2, <1>8, CountAppend
  <2>2. Count(queue', Path(p)) = Count(queue, Path(p)) + (IF o.onnx = p THEN 1 ELSE 0)
    BY <1>1, <1>2, <1>7, CountAppend
  <2>3. Count(jobs, JobsOf(p, "Queued"))
          = Count(queue, Path(p)) + (IF wpc = "mark" /\ opts.onnx = p THEN 1 ELSE 0)
    BY DEF ManagerInv, InStep
  <2>4. Count(queue, Path(p)) \in Nat /\ Count(jobs, JobsOf(p, "Queued")) \in Nat
    BY CountsTyped DEF ManagerInv
  <2>5. wpc' = "mark" <=> wpc = "mark"
    BY <1>1
  <2>6. QED
    BY <1>1, <2>1, <2>2, <2>3, <2>4, <2>5
<1>10. Reported'
  <2> SUFFICES ASSUME NEW p \in Onnx, NEW result \in BOOLEAN
               PROVE  Count(jobs', JobsOf(p, Verdict(result))) = Count(builds', BuildsOf(p, result))
    BY DEF Reported, Verdict
  <2>1. Verdict(result) # "Queued"
    BY DEF Verdict
  <2>2. Count(jobs', JobsOf(p, Verdict(result))) = Count(jobs, JobsOf(p, Verdict(result)))
    <3> DEFINE T == JobsOf(p, Verdict(result))
    <3>1. x \notin T
      BY <1>8, <2>1
    <3> HIDE DEF T
    <3>2. Count(jobs', T) = Count(jobs, T) + 0 /\ Count(jobs, T) \in Nat
      BY <1>1, <1>2, <3>1, CountAppend, CountTyped
    <3>3. QED
      BY <3>2 DEF T
  <2>3. Count(jobs, JobsOf(p, Verdict(result))) = Count(builds, BuildsOf(p, result))
    BY DEF ManagerInv, Reported
  <2>4. QED
    BY <1>1, <2>2, <2>3
<1>11. QED
  BY <1>4, <1>5, <1>6, <1>9, <1>10 DEF ManagerInv

\* The worker takes the front of the queue: the map has a queued job of its path.
LEMMA TakeInv ==
  ASSUME ManagerInv, Take
  PROVE  ManagerInv'
<1> DEFINE o == Head(queue)
<1>1. /\ wpc = "lock" /\ queue # <<>> /\ queue \in Seq(BuildOptions)
      /\ opts' = o /\ queue' = Tail(queue) /\ UNCHANGED <<jobs, ok, builds>>
  BY DEF Take, ManagerInv, Typed
<1>2. /\ o \in BuildOptions /\ Tail(queue) \in Seq(BuildOptions)
      /\ o = queue[1] /\ 1 \in DOMAIN queue
      /\ \A i \in DOMAIN Tail(queue) : i + 1 \in DOMAIN queue /\ Tail(queue)[i] = queue[i + 1]
  BY <1>1, HeadTailProperties, LenProperties, EmptySeq
<1>3. o.onnx \in Onnx /\ \A p : o \in Path(p) <=> o.onnx = p
  BY <1>2 DEF Path, BuildOptions
<1> HIDE DEF o
<1>4. \A p : Count(queue, Path(p)) = Count(queue', Path(p)) + (IF o.onnx = p THEN 1 ELSE 0)
  BY <1>1, <1>3, CountTail DEF o
<1>5. \A p \in Onnx : /\ Count(jobs, JobsOf(p, "Queued")) = Count(queue, Path(p))
                      /\ Count(jobs, JobsOf(p, "Queued")) \in Nat
                      /\ Count(queue', Path(p)) \in Nat
  <2>1. \A p \in Onnx : Count(jobs, JobsOf(p, "Queued")) = Count(queue, Path(p)) + 0
    BY <1>1 DEF ManagerInv, InStep
  <2>2. \A p : Count(queue', Path(p)) \in Nat
    BY <1>1, <1>2, CountTyped
  <2>3. QED
    BY <2>1, <2>2, CountsTyped DEF ManagerInv
<1>6. Matching(o) # {}
  <2>1. Count(jobs, JobsOf(o.onnx, "Queued")) # 0
    BY <1>3, <1>4, <1>5
  <2>2. Positions(jobs, JobsOf(o.onnx, "Queued")) # {}
    BY <2>1, FS_EmptySet DEF Count
  <2>3. PICK j \in DOMAIN jobs : jobs[j] \in JobsOf(o.onnx, "Queued")
    BY <2>2 DEF Positions
  <2>4. j \in Matching(o)
    BY <2>3, LenProperties DEF Matching, Ids, JobsOf, ManagerInv, Typed
  <2>5. QED
    BY <2>4
<1>7. job' \in Matching(o) /\ wpc' = "mark"
  BY <1>6 DEF Take, o
<1>8. job' \in DOMAIN jobs /\ jobs[job'].status = "Queued" /\ jobs[job'].opts.onnx = o.onnx
  BY <1>7, LenProperties DEF Matching, Ids, ManagerInv, Typed
<1>9. Typed' /\ HasJob'
  BY <1>1, <1>2, <1>7, <1>8 DEF ManagerInv, Typed, HasJob, AtWork, o
<1>10. OnlyAsked'
  <2>1. \A b : Asked(b) => Asked(b)'
    BY <1>1 DEF Asked
  <2>2. \A i \in DOMAIN queue' : Asked(queue'[i])
    BY <1>1, <1>2 DEF ManagerInv, OnlyAsked
  <2>3. Asked(o)
    BY <1>2 DEF ManagerInv, OnlyAsked, o
  <2>4. QED
    BY <1>1, <2>1, <2>2, <2>3 DEF ManagerInv, OnlyAsked
<1>11. InStep'
  BY <1>1, <1>4, <1>5, <1>7 DEF InStep
<1>12. Reported'
  BY <1>1 DEF ManagerInv, Reported
<1>13. QED
  BY <1>9, <1>10, <1>11, <1>12 DEF ManagerInv

LEMMA MarkInv ==
  ASSUME ManagerInv, Mark
  PROVE  ManagerInv'
<1>1. /\ wpc = "mark" /\ wpc' = "parse" /\ jobs' = [jobs EXCEPT ![job].status = "Running"]
      /\ UNCHANGED <<queue, opts, job, ok, builds>>
  BY DEF Mark, worker
<1>2. /\ Typed /\ job \in DOMAIN jobs
      /\ jobs[job].opts.onnx = opts.onnx /\ jobs[job].status = "Queued" /\ opts.onnx \in Onnx
  BY <1>1 DEF ManagerInv, Typed, HasJob, AtWork, BuildOptions
<1>3. \A p \in Onnx : \A s :
        Count(jobs', JobsOf(p, s))
          = (Count(jobs, JobsOf(p, s)) - (IF opts.onnx = p /\ s = "Queued" THEN 1 ELSE 0))
            + (IF opts.onnx = p /\ s = "Running" THEN 1 ELSE 0)
  <2> SUFFICES ASSUME NEW p \in Onnx, NEW s
               PROVE  Count(jobs', JobsOf(p, s))
                        = (Count(jobs, JobsOf(p, s))
                             - (IF opts.onnx = p /\ s = "Queued" THEN 1 ELSE 0))
                          + (IF opts.onnx = p /\ s = "Running" THEN 1 ELSE 0)
    OBVIOUS
  <2>1. "Running" \in {"Queued", "Running", "Completed", "Failed"}
    OBVIOUS
  <2>2. /\ jobs[job] \in JobsOf(p, s) <=> jobs[job].opts.onnx = p /\ jobs[job].status = s
        /\ jobs'[job] \in JobsOf(p, s) <=> jobs[job].opts.onnx = p /\ "Running" = s
        /\ Count(jobs', JobsOf(p, s))
             = (Count(jobs, JobsOf(p, s)) - One(jobs[job], JobsOf(p, s)))
               + One(jobs'[job], JobsOf(p, s))
    BY <1>1, <1>2, <2>1, StatusChanges
  <2>3. QED
    BY <1>2, <2>2 DEF One
<1>4. /\ jobs' \in Seq(Job) /\ DOMAIN jobs' = DOMAIN jobs
      /\ \A j \in DOMAIN jobs : jobs'[j].opts = jobs[j].opts
      /\ jobs'[job].status = "Running"
  <2>1. "Running" \in {"Queued", "Running", "Completed", "Failed"}
    OBVIOUS
  <2>2. /\ jobs' \in Seq(Job) /\ DOMAIN jobs' = DOMAIN jobs
        /\ \A j \in DOMAIN jobs : jobs'[j].opts = jobs[j].opts
        /\ \A j \in DOMAIN jobs : jobs'[j].status = IF j = job THEN "Running" ELSE jobs[j].status
    BY <1>1, <1>2, <2>1, StatusIsSet
  <2>3. jobs'[job].status = "Running"
    BY <1>2, <2>2
  <2>4. QED
    BY <2>2, <2>3
<1>5. Typed' /\ HasJob'
  BY <1>1, <1>2, <1>4 DEF Typed, HasJob, AtWork
<1>6. OnlyAsked'
  <2>1. \A o : Asked(o) => Asked(o)'
    BY <1>4, StillAsked
  <2>2. QED
    BY <1>1, <2>1 DEF ManagerInv, OnlyAsked
<1>7. InStep'
  <2> SUFFICES ASSUME NEW p \in Onnx PROVE Count(jobs', JobsOf(p, "Queued")) = Count(queue, Path(p)) + 0
    BY <1>1 DEF InStep
  <2>1. Count(jobs, JobsOf(p, "Queued")) = Count(queue, Path(p)) + (IF opts.onnx = p THEN 1 ELSE 0)
    BY <1>1 DEF ManagerInv, InStep
  <2>2. Count(jobs', JobsOf(p, "Queued"))
          = (Count(jobs, JobsOf(p, "Queued")) - (IF opts.onnx = p THEN 1 ELSE 0)) + 0
    BY <1>3
  <2>3. Count(queue, Path(p)) \in Nat /\ Count(jobs, JobsOf(p, "Queued")) \in Nat
    BY <1>2, CountsTyped
  <2>4. QED
    BY <2>1, <2>2, <2>3
<1>8. Reported'
  <2> SUFFICES ASSUME NEW p \in Onnx, NEW result \in BOOLEAN
               PROVE  Count(jobs', JobsOf(p, Verdict(result))) = Count(builds', BuildsOf(p, result))
    BY DEF Reported, Verdict
  <2>1. Verdict(result) \notin {"Queued", "Running"}
    BY DEF Verdict
  <2>2. Count(jobs', JobsOf(p, Verdict(result))) = (Count(jobs, JobsOf(p, Verdict(result))) - 0) + 0
    BY <1>3, <2>1
  <2>3. Count(jobs, JobsOf(p, Verdict(result))) \in Nat
    BY <1>2, CountsTyped
  <2>4. QED
    BY <1>1, <2>2, <2>3 DEF ManagerInv, Reported
<1>9. QED
  BY <1>5, <1>6, <1>7, <1>8 DEF ManagerInv

LEMMA ReportInv ==
  ASSUME ManagerInv, Report
  PROVE  ManagerInv'
<1> DEFINE b == [opts |-> opts, ok |-> ok]
<1>1. /\ wpc = "report" /\ wpc' = "test" /\ jobs' = [jobs EXCEPT ![job].status = Verdict(ok)]
      /\ builds' = Append(builds, b)
      /\ UNCHANGED <<queue, opts, job, ok>>
  BY DEF Report, worker, Verdict
<1>2. /\ Typed /\ job \in DOMAIN jobs
      /\ jobs[job].opts.onnx = opts.onnx /\ jobs[job].status = "Running" /\ Asked(opts)
  BY <1>1 DEF ManagerInv, HasJob, OnlyAsked, AtWork
<1>3. /\ builds \in Seq(Build) /\ b \in Build /\ b.opts = opts /\ ok \in BOOLEAN
      /\ Verdict(ok) \in {"Completed", "Failed"}
  BY <1>2 DEF Typed, Build, Verdict
<1>4. \A p \in Onnx : \A s :
        Count(jobs', JobsOf(p, s))
          = (Count(jobs, JobsOf(p, s)) - (IF opts.onnx = p /\ s = "Running" THEN 1 ELSE 0))
            + (IF opts.onnx = p /\ s = Verdict(ok) THEN 1 ELSE 0)
  <2> SUFFICES ASSUME NEW p \in Onnx, NEW s
               PROVE  Count(jobs', JobsOf(p, s))
                        = (Count(jobs, JobsOf(p, s))
                             - (IF opts.onnx = p /\ s = "Running" THEN 1 ELSE 0))
                          + (IF opts.onnx = p /\ s = Verdict(ok) THEN 1 ELSE 0)
    OBVIOUS
  <2> DEFINE v == Verdict(ok)
  <2>1. v \in {"Queued", "Running", "Completed", "Failed"} /\ jobs' = [jobs EXCEPT ![job].status = v]
    BY <1>1, <1>3
  <2> HIDE DEF v
  <2>2. /\ jobs[job] \in JobsOf(p, s) <=> jobs[job].opts.onnx = p /\ jobs[job].status = s
        /\ jobs'[job] \in JobsOf(p, s) <=> jobs[job].opts.onnx = p /\ v = s
        /\ Count(jobs', JobsOf(p, s))
             = (Count(jobs, JobsOf(p, s)) - One(jobs[job], JobsOf(p, s)))
               + One(jobs'[job], JobsOf(p, s))
    BY <1>2, <2>1, StatusChanges
  <2>3. QED
    BY <1>2, <2>2 DEF One, v
<1>5. /\ opts.onnx \in Onnx
      /\ jobs' \in Seq(Job) /\ DOMAIN jobs' = DOMAIN jobs
      /\ \A j \in DOMAIN jobs : jobs'[j].opts = jobs[j].opts
  <2>1. opts.onnx \in Onnx
    BY <1>2 DEF Typed, BuildOptions
  <2>2. QED
    BY <1>1, <1>2, <1>3, <2>1, StatusIsSet
<1>6. /\ builds' \in Seq(Build)
      /\ \A i \in DOMAIN builds' : builds'[i] = b \/ (i \in DOMAIN builds /\ builds'[i] = builds[i])
  BY <1>1, <1>3, AppendProperties, LenProperties
<1>7. \A p, result : b \in BuildsOf(p, result) <=> opts.onnx = p /\ ok = result
  BY <1>3 DEF BuildsOf
<1> HIDE DEF b
<1>8. Typed' /\ HasJob'
  BY <1>1, <1>2, <1>5, <1>6 DEF Typed, HasJob, AtWork
<1>9. OnlyAsked'
  <2>1. \A o : Asked(o) => Asked(o)'
    BY <1>5, StillAsked
  <2>2. \A i \in DOMAIN builds' : Asked(builds'[i].opts)
    BY <1>2, <1>3, <1>6 DEF ManagerInv, OnlyAsked
  <2>3. QED
    BY <1>1, <2>1, <2>2 DEF ManagerInv, OnlyAsked, AtWork
<1>10. InStep'
  <2> SUFFICES ASSUME NEW p \in Onnx PROVE Count(jobs', JobsOf(p, "Queued")) = Count(queue, Path(p)) + 0
    BY <1>1 DEF InStep
  <2>1. Count(jobs, JobsOf(p, "Queued")) = Count(queue, Path(p)) + 0
    BY <1>1 DEF ManagerInv, InStep
  <2>2. Count(jobs', JobsOf(p, "Queued")) = (Count(jobs, JobsOf(p, "Queued")) - 0) + 0
    BY <1>3, <1>4
  <2>3. Count(queue, Path(p)) \in Nat /\ Count(jobs, JobsOf(p, "Queued")) \in Nat
    BY <1>2, CountsTyped
  <2>4. QED
    BY <2>1, <2>2, <2>3
<1>11. Reported'
  <2> SUFFICES ASSUME NEW p \in Onnx, NEW result \in BOOLEAN
               PROVE  Count(jobs', JobsOf(p, Verdict(result))) = Count(builds', BuildsOf(p, result))
    BY DEF Reported, Verdict
  <2>1. Verdict(result) # "Running" /\ (Verdict(result) = Verdict(ok) <=> ok = result)
    BY <1>3 DEF Verdict
  <2>2. Count(jobs', JobsOf(p, Verdict(result)))
          = (Count(jobs, JobsOf(p, Verdict(result))) - 0) + (IF opts.onnx = p /\ ok = result THEN 1 ELSE 0)
    BY <1>4, <2>1
  <2>3. Count(builds', BuildsOf(p, result))
          = Count(builds, BuildsOf(p, result)) + (IF opts.onnx = p /\ ok = result THEN 1 ELSE 0)
    <3> DEFINE T == BuildsOf(p, result)
    <3>1. b \in T <=> opts.onnx = p /\ ok = result
      BY <1>7
    <3> HIDE DEF T
    <3>2. Count(builds', T) = Count(builds, T) + (IF b \in T THEN 1 ELSE 0)
      BY <1>1, <1>3, CountAppend
    <3>3. QED
      BY <3>1, <3>2 DEF T
  <2>4. Count(jobs, JobsOf(p, Verdict(result))) = Count(builds, BuildsOf(p, result))
    BY DEF ManagerInv, Reported
  <2>5. Count(jobs, JobsOf(p, Verdict(result))) \in Nat
    BY <1>2, CountsTyped
  <2>6. QED
    BY <2>2, <2>3, <2>4, <2>5
<1>12. QED
  BY <1>8, <1>9, <1>10, <1>11 DEF ManagerInv

LEMMA NextManagerInv ==
  ASSUME ManagerInv, [Next]_vars
  PROVE  ManagerInv'
<1> USE DEF control, worker
<1>1. ASSUME UNCHANGED <<queue, jobs, opts, job, builds>>, ok' \in BOOLEAN,
             \/ wpc' = wpc
             \/ AtWork /\ wpc' \in {"parse", "open", "write", "report"}
             \/ wpc' \in {"test", "lock", "decide", "asleep", "exited"} /\ wpc # "mark"
      PROVE  ManagerInv'
  <2>1. Typed' /\ HasJob'
    BY <1>1 DEF ManagerInv, Typed, HasJob, AtWork
  <2>2. OnlyAsked'
    BY <1>1 DEF ManagerInv, OnlyAsked, Asked, AtWork
  <2>3. wpc' = "mark" <=> wpc = "mark"
    BY <1>1 DEF AtWork
  <2>4. InStep'
    BY <1>1, <2>3 DEF ManagerInv, InStep
  <2>5. Reported'
    BY <1>1 DEF ManagerInv, Reported
  <2>6. QED
    BY <2>1, <2>2, <2>4, <2>5 DEF ManagerInv
<1>2. ok \in BOOLEAN
  BY DEF ManagerInv, Typed
<1>3. ASSUME NEW o \in BuildOptions, submit(o) PROVE ManagerInv'
  BY <1>3, SubmitInv
<1>4. CASE Test \/ Decide \/ Park \/ SpuriousWake \/ Break
  BY <1>1, <1>2, <1>4 DEF Test, Decide, Park, SpuriousWake, Break
<1>5. CASE BuildFails \/ BuildPlan \/ OpenFails \/ OpenFile \/ WriteFile
  BY <1>1, <1>2, <1>5 DEF BuildFails, BuildPlan, OpenFails, OpenFile, WriteFile, Leave, AtWork
<1>6. CASE ReportThrows
  <2>1. wpc = "report" /\ wpc' = "exited" /\ UNCHANGED <<queue, jobs, opts, job, ok, builds>>
    BY <1>6 DEF ReportThrows
  <2>2. QED
    BY <1>1, <1>2, <2>1
<1>7. CASE (\E e \in Engine : Delete(e)) \/ Destroy \/ NotifyStop \/ Join
  <2>1. UNCHANGED <<queue, jobs, opts, job, builds>> /\ ok' = ok
    BY <1>7 DEF Delete, Destroy, NotifyStop, Join
  <2>2. \/ wpc' = wpc
        \/ wpc' \in {"test", "lock", "decide", "asleep", "exited"} /\ wpc # "mark"
    BY <1>7 DEF Delete, Destroy, NotifyStop, Join, Waken
  <2>3. ok' \in BOOLEAN
    BY <1>2, <2>1
  <2>4. QED
    BY <1>1, <2>1, <2>2, <2>3
<1>8. CASE UNCHANGED vars
  <2>1. UNCHANGED <<queue, jobs, opts, job, builds>> /\ ok' = ok /\ wpc' = wpc
    BY <1>8 DEF vars
  <2>2. ok' \in BOOLEAN
    BY <1>2, <2>1
  <2>3. QED
    BY <1>1, <2>1, <2>2
<1>9. QED
  BY <1>3, <1>4, <1>5, <1>6, <1>7, <1>8, TakeInv, MarkInv, ReportInv DEF Next, WorkerStep, DestroyStep

LEMMA InitManagerInv == Init => ManagerInv
<1> SUFFICES ASSUME Init PROVE ManagerInv
  OBVIOUS
<1>1. queue = <<>> /\ jobs = <<>> /\ builds = <<>> /\ wpc = "test" /\ opts \in BuildOptions /\ ok = FALSE
  BY DEF Init
<1>2. Typed /\ HasJob
  <2>1. \A S : <<>> \in Seq(S)
    BY EmptySeq
  <2>2. QED
    BY <1>1, <2>1 DEF Typed, HasJob, AtWork
<1>3. DOMAIN queue = {} /\ DOMAIN jobs = {} /\ DOMAIN builds = {}
  BY <1>1
<1>4. OnlyAsked
  BY <1>1, <1>3 DEF OnlyAsked, AtWork
<1>5. \A T : Count(queue, T) = 0 /\ Count(jobs, T) = 0 /\ Count(builds, T) = 0
  BY <1>3, FS_EmptySet DEF Count, Positions
<1>6. QED
  BY <1>1, <1>2, <1>4, <1>5 DEF ManagerInv, InStep, Reported

LEMMA ManagerInvariant == Spec => []ManagerInv
BY InitManagerInv, NextManagerInv, PTL DEF Spec

LEMMA InvQueueMatchesJobs ==
  ASSUME ManagerInv
  PROVE  QueueMatchesJobs
<1> SUFFICES ASSUME NEW p \in Onnx
             PROVE  Cardinality({j \in Ids : jobs[j].status = "Queued" /\ jobs[j].opts.onnx = p})
                      = Cardinality({i \in DOMAIN queue : queue[i].onnx = p})
                        + (IF wpc = "mark" /\ opts.onnx = p THEN 1 ELSE 0)
  BY DEF QueueMatchesJobs
<1>1. {j \in Ids : jobs[j].status = "Queued" /\ jobs[j].opts.onnx = p}
        = Positions(jobs, JobsOf(p, "Queued"))
  BY LenProperties, ElementOfSeq DEF Ids, Positions, JobsOf, ManagerInv, Typed
<1>2. {i \in DOMAIN queue : queue[i].onnx = p} = Positions(queue, Path(p))
  BY LenProperties, ElementOfSeq DEF Positions, Path, ManagerInv, Typed
<1>3. QED
  BY <1>1, <1>2 DEF ManagerInv, InStep, Count

(* The queue and the map stay in step, path by path (submit, workerLoop):  *)
(* of whatever the worker takes from the one it finds a queued job in the  *)
(* other, for any jobs in any order.                                       *)
THEOREM TheQueueMatchesTheJobs == Spec => []QueueMatchesJobs
<1>1. ManagerInv => QueueMatchesJobs
  BY InvQueueMatchesJobs
<1>2. QED
  BY <1>1, ManagerInvariant, PTL

LEMMA InvBuildsAreReported ==
  ASSUME ManagerInv
  PROVE  BuildsAreReported
<1> SUFFICES ASSUME NEW p \in Onnx, NEW result \in BOOLEAN
             PROVE  LET status == IF result THEN "Completed" ELSE "Failed"
                        done == {j \in Ids : jobs[j].opts.onnx = p /\ jobs[j].status = status}
                        ended == {i \in DOMAIN builds : builds[i].opts.onnx = p /\ builds[i].ok = result}
                        ofPath == {j \in Ids : jobs[j].opts.onnx = p}
                    IN /\ Cardinality(done) = Cardinality(ended)
                       /\ Cardinality(ofPath) = 1 =>
                            {jobs[j].opts : j \in done} = {builds[i].opts : i \in ended}
  BY DEF BuildsAreReported
<1> DEFINE status == IF result THEN "Completed" ELSE "Failed"
           done == {j \in Ids : jobs[j].opts.onnx = p /\ jobs[j].status = status}
           ended == {i \in DOMAIN builds : builds[i].opts.onnx = p /\ builds[i].ok = result}
           ofPath == {j \in Ids : jobs[j].opts.onnx = p}
<1>1. Typed /\ Ids = DOMAIN jobs /\ \A j \in DOMAIN jobs : jobs[j] \in Job
  BY LenProperties, ElementOfSeq DEF Ids, ManagerInv, Typed
<1>2. done = Positions(jobs, JobsOf(p, Verdict(result)))
  BY <1>1 DEF Positions, JobsOf, Verdict
<1>3. ended = Positions(builds, BuildsOf(p, result))
  BY <1>1, LenProperties, ElementOfSeq DEF Positions, BuildsOf, Typed
<1>4. IsFiniteSet(done) /\ IsFiniteSet(ended)
  <2>1. jobs \in Seq(Job) /\ builds \in Seq(Build)
    BY <1>1 DEF Typed
  <2>2. IsFiniteSet(Positions(jobs, JobsOf(p, Verdict(result))))
    BY <2>1, CountTyped
  <2>3. IsFiniteSet(Positions(builds, BuildsOf(p, result)))
    BY <2>1, CountTyped
  <2>4. QED
    BY <1>2, <1>3, <2>2, <2>3
<1>5. Cardinality(done) = Cardinality(ended)
  BY <1>2, <1>3 DEF ManagerInv, Reported, Count
<1>6. ASSUME Cardinality(ofPath) = 1
      PROVE  {jobs[j].opts : j \in done} = {builds[i].opts : i \in ended}
  <2>1. IsFiniteSet(Positions(jobs, {j \in Job : j.opts.onnx = p}))
    BY <1>1, CountTyped DEF Typed
  <2>2. ofPath = Positions(jobs, {j \in Job : j.opts.onnx = p})
    BY <1>1 DEF Positions
  <2>3. PICK k : ofPath = {k}
    BY <1>6, <2>1, <2>2, FS_Singleton
  <2>4. \A j \in DOMAIN jobs : jobs[j].opts.onnx = p => jobs[j].opts = jobs[k].opts
    BY <1>1, <2>3
  <2>5. \A j \in done : jobs[j].opts = jobs[k].opts
    BY <1>1, <2>4
  <2>6. \A i \in ended : builds[i].opts = jobs[k].opts
    BY <2>4 DEF ManagerInv, OnlyAsked, Asked
  <2>7. done = {} <=> ended = {}
    <3> HIDE DEF done, ended
    <3>1. QED
      BY <1>4, <1>5, FS_EmptySet
  <2> HIDE DEF done, ended
  <2>8. QED
    BY <2>5, <2>6, <2>7
<1>7. QED
  BY <1>5, <1>6

(* Each conversion that ends is reported once, by a job of its path and    *)
(* result, and by the very job that asked for it when no other job has its *)
(* path (workerLoop), for any jobs in any order.                           *)
THEOREM EveryBuildIsReported == Spec => []BuildsAreReported
<1>1. ManagerInv => BuildsAreReported
  BY InvBuildsAreReported
<1>2. QED
  BY <1>1, ManagerInvariant, PTL
=============================================================================
