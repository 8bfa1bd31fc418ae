-------------------------- MODULE ConversionManager --------------------------
(***************************************************************************)
(* ConversionManager builds TensorRT engines one after the other on its    *)
(* worker thread.  ConvertHandler submits jobs and reports their status.   *)
(* The queue holds build options, the map of jobs their status: the worker *)
(* finds the job of what it takes by comparing ONNX paths.                 *)
(***************************************************************************)
EXTENDS Integers, Sequences, FiniteSets, SequencesExt

CONSTANTS
  Onnx, Engine,  \* file names
  MaxJobs,       \* bound: conversions submitted
  MaxDeletes,    \* bound: engine files deleted by others
  NoJob

ASSUME ConversionAssumption == MaxJobs \in Nat /\ MaxDeletes \in Nat /\ NoJob \notin Nat

BuildOptions == [onnx : Onnx, engine : Engine]

VARIABLES
  running,  \* running_
  queue,    \* queue_
  jobs,     \* jobs_ in the order of jobOrder_: options and status
  wpc,      \* the worker: "test", "lock", "decide", "asleep", "mark", "parse", "open",
            \* "write", "report", "exited"
  opts,     \* options and job of the conversion the worker is at
  job,
  ok,       \* what buildEngine has returned
  files,    \* files[e]: "absent", "partial" or "whole"
  dpc,      \* the destructor: "no", "store", "notify", "join", "joined"
  crashed,  \* an exception has left the worker thread
  deletes,  \* bound
  builds    \* history: the options of the conversions that have ended, and their result

vars == <<running, queue, jobs, wpc, opts, job, ok, files, dpc, crashed, deletes, builds>>
worker == <<opts, job, ok>>

Ids == 1 .. Len(jobs)

Init ==
  /\ running = TRUE /\ queue = <<>> /\ jobs = <<>>
  /\ wpc = "test" /\ opts \in BuildOptions /\ job = NoJob /\ ok = FALSE
  /\ files = [e \in Engine |-> "absent"]
  /\ dpc = "no" /\ crashed = FALSE /\ deletes = 0 /\ builds = <<>>

-----------------------------------------------------------------------------
(* submit, and notify_one: both under the mutex.  The handler has checked  *)
(* the session, the two paths and that the ONNX file is there; refused     *)
(* requests change nothing, getStatus and listJobs only read.              *)

Waken == wpc' = IF wpc = "asleep" THEN "lock" ELSE wpc
\* The mutex is free: the worker is not between its predicate and its sleep.
Unlocked == wpc # "decide"

\* Jobs added to the map and not to the queue they came in.
submit_unqueued(o) ==
  /\ Len(jobs) < MaxJobs /\ dpc = "no" /\ ~crashed /\ Unlocked
  /\ jobs' = Append(jobs, [opts |-> o, status |-> "Queued"])
  /\ queue' = IF \E i \in DOMAIN queue : queue[i].onnx = o.onnx THEN queue ELSE Append(queue, o)
  /\ Waken
  /\ UNCHANGED <<running, worker, files, dpc, crashed, deletes, builds>>
submit(o) ==
  /\ Len(jobs) < MaxJobs /\ dpc = "no" /\ ~crashed /\ Unlocked
  /\ jobs' = Append(jobs, [opts |-> o, status |-> "Queued"])
  /\ queue' = Append(queue, o)
  /\ Waken
  /\ UNCHANGED <<running, worker, files, dpc, crashed, deletes, builds>>

-----------------------------------------------------------------------------
(* workerLoop.                                                             *)

control == <<running, files, dpc, deletes>>

\* while (running_)
Test ==
  /\ wpc = "test"
  /\ wpc' = IF running THEN "lock" ELSE "exited"
  /\ UNCHANGED <<control, queue, jobs, worker, crashed, builds>>

Awaited == queue # <<>> \/ ~running

\* The predicate is false: the worker still holds the mutex, but not the notification
\* of a destructor that does not take it.
Decide ==
  /\ wpc = "lock" /\ ~Awaited
  /\ wpc' = "decide"
  /\ UNCHANGED <<control, queue, jobs, worker, crashed, builds>>
Park ==
  /\ wpc = "decide"
  /\ wpc' = "asleep"
  /\ UNCHANGED <<control, queue, jobs, worker, crashed, builds>>
SpuriousWake ==
  /\ wpc = "asleep"
  /\ wpc' = "lock"
  /\ UNCHANGED <<control, queue, jobs, worker, crashed, builds>>

Break ==
  /\ wpc = "lock" /\ ~running
  /\ wpc' = "exited"
  /\ UNCHANGED <<control, queue, jobs, worker, crashed, builds>>

\* The map is not ordered: the job found is any queued one of the path.
Matching(o) == {j \in Ids : jobs[j].status = "Queued" /\ jobs[j].opts.onnx = o.onnx}

Take ==
  /\ wpc = "lock" /\ running /\ queue # <<>>
  /\ opts' = Head(queue) /\ queue' = Tail(queue)
  /\ IF Matching(Head(queue)) = {} THEN job' = NoJob /\ wpc' = "test"
     ELSE job' \in Matching(Head(queue)) /\ wpc' = "mark"
  /\ UNCHANGED <<control, jobs, ok, crashed, builds>>

\* A critical section of its own.
Mark ==
  /\ wpc = "mark"
  /\ jobs' = [jobs EXCEPT ![job].status = "Running"]
  /\ wpc' = "parse"
  /\ UNCHANGED <<control, queue, worker, crashed, builds>>

-----------------------------------------------------------------------------
(* buildEngine.  The calls of progress() only set the message.             *)

Leave(result) == ok' = result /\ wpc' = "report"

\* TensorRT cannot be started, the model cannot be parsed or built.
BuildFails ==
  /\ wpc = "parse"
  /\ Leave(FALSE)
  /\ UNCHANGED <<control, queue, jobs, opts, job, crashed, builds>>
BuildPlan ==
  /\ wpc = "parse"
  /\ wpc' = "open"
  /\ UNCHANGED <<control, queue, jobs, worker, crashed, builds>>

OpenFails ==
  /\ wpc = "open"
  /\ Leave(FALSE)
  /\ UNCHANGED <<control, queue, jobs, opts, job, crashed, builds>>
OpenFile ==
  /\ wpc = "open"
  /\ files' = [files EXCEPT ![opts.engine] = "partial"]
  /\ wpc' = "write"
  /\ UNCHANGED <<running, dpc, deletes, queue, jobs, worker, crashed, builds>>

WriteFile ==
  /\ wpc = "write"
  /\ \E result \in BOOLEAN :
       /\ Leave(result)
       /\ files' = IF result /\ files[opts.engine] = "partial"
                   THEN [files EXCEPT ![opts.engine] = "whole"] ELSE files
  /\ UNCHANGED <<running, dpc, deletes, queue, jobs, opts, job, crashed, builds>>

-----------------------------------------------------------------------------

\* A failed build that leaves its job as it was.
Report_failedForgotten ==
  /\ wpc = "report"
  /\ ok => files[opts.engine] # "absent"
  /\ jobs' = IF ok THEN [jobs EXCEPT ![job].status = "Completed"] ELSE jobs
  /\ builds' = Append(builds, [opts |-> opts, ok |-> ok])
  /\ wpc' = "test"
  /\ UNCHANGED <<control, queue, worker, crashed>>
Report ==
  /\ wpc = "report"
  /\ ok => files[opts.engine] # "absent"
  /\ jobs' = [jobs EXCEPT ![job].status = IF ok THEN "Completed" ELSE "Failed"]
  /\ builds' = Append(builds, [opts |-> opts, ok |-> ok])
  /\ wpc' = "test"
  /\ UNCHANGED <<control, queue, worker, crashed>>

\* file_size throws: nothing catches it on this thread.
ReportThrows ==
  /\ wpc = "report" /\ ok /\ files[opts.engine] = "absent"
  /\ crashed' = TRUE
  /\ wpc' = "exited"
  /\ UNCHANGED <<control, queue, jobs, worker, builds>>

\* Someone deletes an engine file, as the delete handler of the models does.
Delete(e) ==
  /\ deletes < MaxDeletes /\ deletes' = deletes + 1
  /\ files[e] # "absent"
  /\ files' = [files EXCEPT ![e] = "absent"]
  /\ UNCHANGED <<running, queue, jobs, wpc, worker, dpc, crashed, builds>>

-----------------------------------------------------------------------------
(* The destructor does not take the mutex.                                 *)

Destroy ==
  /\ dpc = "no" /\ ~crashed
  /\ dpc' = "notify" /\ running' = FALSE
  /\ UNCHANGED <<queue, jobs, wpc, worker, files, crashed, deletes, builds>>
NotifyStop ==
  /\ dpc = "notify"
  /\ dpc' = "join" /\ Waken
  /\ UNCHANGED <<running, queue, jobs, worker, files, crashed, deletes, builds>>
Join ==
  /\ dpc = "join" /\ wpc = "exited"
  /\ dpc' = "joined"
  /\ UNCHANGED <<running, queue, jobs, wpc, worker, files, crashed, deletes, builds>>

WorkerStep == \/ Test \/ Decide \/ Park \/ Break \/ Take \/ Mark
              \/ BuildFails \/ BuildPlan \/ OpenFails \/ OpenFile \/ WriteFile
              \/ Report \/ ReportThrows
DestroyStep == NotifyStop \/ Join

Next == \/ \E o \in BuildOptions : submit(o)
        \/ WorkerStep \/ SpuriousWake
        \/ \E e \in Engine : Delete(e)
        \/ Destroy \/ DestroyStep

\* The worker and the destructor run.
Fairness == WF_vars(WorkerStep) /\ WF_vars(DestroyStep)
Spec == Init /\ [][Next]_vars /\ Fairness

-----------------------------------------------------------------------------
(* Properties.                                                             *)

TypeOK ==
  /\ \A j \in Ids : jobs[j].opts \in BuildOptions
                 /\ jobs[j].status \in {"Queued", "Running", "Completed", "Failed"}
  /\ Range(queue) \subseteq BuildOptions /\ opts \in BuildOptions
  /\ job \in Ids \union {NoJob}
  /\ files \in [Engine -> {"absent", "partial", "whole"}]
  /\ Len(builds) <= Len(jobs)

\* The queue and the map stay in step path by path, although the worker takes from
\* one and searches the other: as many jobs of a path are queued as conversions of it
\* wait, so the job it looks for is always there.
QueueMatchesJobs ==
  \A p \in Onnx :
    Cardinality({j \in Ids : jobs[j].status = "Queued" /\ jobs[j].opts.onnx = p})
      = Cardinality({i \in DOMAIN queue : queue[i].onnx = p})
        + (IF wpc = "mark" /\ opts.onnx = p THEN 1 ELSE 0)

\* Each conversion that ends is reported by one job of its path and result, and by
\* the job that asked for it if no other job has its path.
BuildsAreReported ==
  \A p \in Onnx, result \in BOOLEAN :
    LET status == IF result THEN "Completed" ELSE "Failed"
        done == {j \in Ids : jobs[j].opts.onnx = p /\ jobs[j].status = status}
        ended == {i \in DOMAIN builds : builds[i].opts.onnx = p /\ builds[i].ok = result}
        ofPath == {j \in Ids : jobs[j].opts.onnx = p}
    IN /\ Cardinality(done) = Cardinality(ended)
       /\ Cardinality(ofPath) = 1 =>
            {jobs[j].opts : j \in done} = {builds[i].opts : i \in ended}

=============================================================================
