----------------------------- MODULE RequestPath -----------------------------
(***************************************************************************)
(* The life of an HTTP request and the shutdown that waits for it          *)
(* (HttpServer.cpp, PredictHandler.cpp and its siblings, RequestSlotPool,  *)
(* InferenceServer::cleanup).                                              *)
(*                                                                         *)
(* A connection is served by one IO thread.  It parses one request per     *)
(* read event, counts it in inflightCount_ and runs the handler, which     *)
(* replies itself or, for each image of the request, takes a slot and      *)
(* submits it to the scheduler, and leaves the reply to a detached         *)
(* responder thread.  The responder waits for the promises, queues the     *)
(* reply in the connection's loop, calls complete() and drops the slots.   *)
(* A slot is in use while a shared_ptr to it exists: the handler's, the    *)
(* responder's, or the one in the scheduled item, which outlives the batch *)
(* in the shared state of the future that the scheduler keeps until its    *)
(* next iteration prunes it.                                               *)
(*                                                                         *)
(* The scheduler is reduced to that: iterations while it has work or has   *)
(* been notified, and promises set in any order (DynamicBatchScheduler).   *)
(***************************************************************************)
EXTENDS Naturals, Sequences, FiniteSets

CONSTANTS
  Conns,          \* the connections, each on an IO thread of its own
  Requests,       \* the requests of the clients
  ConnOf,         \* the connection each request travels on
  Size,           \* the images in each request: one, but for a batch request
  Batch,          \* the batch requests, whose responder catches what it throws
  Slots,          \* the slots of the pool
  NoRequest,      \* no request
  NoResult,       \* no result
  NoSlot,         \* no slot
  DrainTimesOut   \* whether shutdown_timeout_ms may expire

ImagesOf(r) == {<<r, k>> : k \in 1..Size[r]}
Image == UNION {ImagesOf(r) : r \in Requests}

ASSUME RequestPathAssumption ==
  /\ ConnOf \in [Requests -> Conns]
  /\ Size \in [Requests -> Nat \ {0}]
  /\ Batch \subseteq Requests
  /\ IsFiniteSet(Requests)
  /\ NoRequest \notin Requests
  /\ NoResult \notin Image
  /\ NoSlot \notin Slots \cup Image
  /\ Slots \cap Image = {}
  /\ DrainTimesOut \in BOOLEAN

VARIABLES
  phase,      \* how far the shutdown has come
  inflight,   \* inflightCount_
  misuse,     \* what was used after (or before) its life; then all bets are off
  conn,       \* the state of each connection
  sock,       \* bytes the client has sent and the IO thread has not read
  inbuf,      \* bytes read and not parsed
  busy,       \* the request each IO thread is handling
  stage,      \* where each request is
  closes,     \* the close flag onRequest computed for it
  slotOf,     \* the slot of each image; a one-off slot is named by its image
  holders,    \* the owners of a shared_ptr to that slot
  result,     \* resultJson of each slot: whose result it is
  promise,    \* the promise of the submission of each image
  awake,      \* the scheduler thread is not asleep on cv_
  body,       \* the results the responder has put together
  wire        \* the reply: "closing" has been sent and will shut the connection,
              \* "lost" was never queued

connVars == <<conn, sock, inbuf, busy>>
slotVars == <<slotOf, holders, result>>
schedVars == <<promise, awake>>
vars == <<phase, inflight, misuse, connVars, stage, closes, slotVars, schedVars, body, wire>>

Settled == {"ok", "message"}

TypeOK ==
  /\ phase \in {"serving", "draining", "quit", "stopped", "poolGone", "httpGone"}
  /\ inflight \in 0..Cardinality(Requests)
  /\ misuse \in SUBSET {"context", "scheduler", "slotPool"}
  /\ conn \in [Conns -> {"none", "open", "refused", "closing", "closed"}]
  /\ sock \in [Conns -> Seq(Requests)]
  /\ inbuf \in [Conns -> Seq(Requests)]
  /\ busy \in [Conns -> Requests \cup {NoRequest}]
  /\ stage \in [Requests -> {"unsent", "sent", "entered", "held", "submitted",
                             "deferred", "sending", "completed", "done", "stuck"}]
  /\ closes \in [Requests -> BOOLEAN]
  /\ slotOf \in [Image -> Slots \cup Image \cup {NoSlot}]
  /\ holders \in [Image -> SUBSET {"handler", "item", "responder"}]
  /\ result \in [Slots \cup Image -> Image \cup {NoResult}]
  /\ promise \in [Image -> {"none", "queued", "running"} \cup Settled]
  /\ awake \in BOOLEAN
  /\ body \in [Requests -> Seq(Image \cup {NoResult})]
  /\ wire \in [Requests -> {"none", "queued", "closing", "sent", "dropped", "lost"}]

Init ==
  /\ phase = "serving" /\ inflight = 0 /\ misuse = {}
  /\ conn = [c \in Conns |-> "none"]
  /\ sock = [c \in Conns |-> <<>>] /\ inbuf = [c \in Conns |-> <<>>]
  /\ busy = [c \in Conns |-> NoRequest]
  /\ stage = [r \in Requests |-> "unsent"]
  /\ closes = [r \in Requests |-> FALSE]
  /\ slotOf = [i \in Image |-> NoSlot]
  /\ holders = [i \in Image |-> {}]
  /\ result = [s \in Slots \cup Image |-> NoResult]
  /\ promise = [i \in Image |-> "none"] /\ awake = FALSE
  /\ body = [r \in Requests |-> <<>>]
  /\ wire = [r \in Requests |-> "none"]

Goto(r, from, to) == stage[r] = from /\ stage' = [stage EXCEPT ![r] = to]

LoopsRun == phase # "httpGone"
Idle(c) == LoopsRun /\ busy[c] = NoRequest

-----------------------------------------------------------------------------
(* Clients and connections.                                                *)

\* onConnection; a connection that is not accepted gets no HttpContext
Connect(c) ==
  /\ conn[c] = "none" /\ phase \in {"serving", "draining"}
  /\ conn' = [conn EXCEPT ![c] = IF phase = "serving" THEN "open" ELSE "refused"]
  /\ UNCHANGED <<phase, inflight, misuse, sock, inbuf, busy, stage, closes, slotVars,
                 schedVars, body, wire>>

ClientSends(r) ==
  /\ Goto(r, "unsent", "sent")
  /\ conn[ConnOf[r]] \in {"open", "refused", "closing"}
  /\ sock' = [sock EXCEPT ![ConnOf[r]] = Append(@, r)]
  /\ UNCHANGED <<phase, inflight, misuse, conn, inbuf, busy, closes, slotVars,
                 schedVars, body, wire>>

ClientCloses(c) ==
  /\ conn[c] \in {"open", "refused", "closing"}
  /\ conn' = [conn EXCEPT ![c] = "closed"]
  /\ UNCHANGED <<phase, inflight, misuse, sock, inbuf, busy, stage, closes, slotVars,
                 schedVars, body, wire>>

-----------------------------------------------------------------------------
(* onMessage and onRequest, up to the handler.                             *)

\* send() is ignored once the connection is shutting down or gone
Deliver(c) == IF conn[c] = "open" THEN "sent" ELSE "dropped"

ShutIf(c, close) ==
  conn' = [conn EXCEPT ![c] = IF close /\ @ = "open" THEN "closing" ELSE @]

\* A read event moves all the bytes and parses one request from them.
Read(c) ==
  /\ Idle(c) /\ sock[c] # <<>> /\ conn[c] \in {"open", "closing"}
  /\ sock' = [sock EXCEPT ![c] = <<>>]
  /\ inbuf' = [inbuf EXCEPT ![c] = Tail(@ \o sock[c])]

Next1(c) == Head(inbuf[c] \o sock[c])

Enter(c) ==
  /\ Read(c)
  /\ Goto(Next1(c), "sent", "entered")
  /\ inflight' = inflight + 1
  /\ busy' = [busy EXCEPT ![c] = Next1(c)]
  /\ \E close \in BOOLEAN :
        /\ phase # "serving" => close
        /\ closes' = [closes EXCEPT ![Next1(c)] = close]
  /\ UNCHANGED <<phase, misuse, conn, slotVars, schedVars, body, wire>>

\* 400 (malformed), 413 (too large) or 429 (rate limited), sent before it is counted
RejectEarly(c) ==
  /\ Read(c)
  /\ Goto(Next1(c), "sent", "done")
  /\ wire' = [wire EXCEPT ![Next1(c)] = Deliver(c)]
  /\ ShutIf(c, TRUE)
  /\ UNCHANGED <<phase, inflight, misuse, busy, closes, slotVars, schedVars, body>>

\* any_cast yields a null pointer, and parseRequest is called on it
ReadRefused(c) ==
  /\ Idle(c) /\ sock[c] # <<>> /\ conn[c] = "refused"
  /\ misuse' = misuse \cup {"context"}
  /\ UNCHANGED <<phase, inflight, connVars, stage, closes, slotVars, schedVars, body, wire>>

-----------------------------------------------------------------------------
(* RequestSlotPool.                                                        *)

\* mutant and definition: a slot is in use while somebody holds a shared_ptr to it
InUse_forgetsItem(s) ==
  \E i \in Image : slotOf[i] = s /\ holders[i] \cap {"handler", "responder"} # {}
InUse(s) == \E i \in Image : slotOf[i] = s /\ holders[i] # {}

FreeSlots == {s \in Slots : ~InUse(s)}

UseUnless(gone, part) == misuse' = IF gone THEN misuse \cup {part} ELSE misuse

\* the shared_ptrs of one owner to the slots of a request pass to others
PassOn(r, who, to) ==
  holders' = [i \in Image |-> IF i[1] = r /\ who \in holders[i]
                              THEN (holders[i] \ {who}) \cup to ELSE holders[i]]

\* giving up the last shared_ptr to a pooled slot calls release() on the pool
Drop(r, who) ==
  /\ PassOn(r, who, {})
  /\ UseUnless(phase = "poolGone" /\ \E i \in ImagesOf(r) :
                                       holders[i] = {who} /\ slotOf[i] \in Slots, "slotPool")

-----------------------------------------------------------------------------
(* The handler, on the IO thread.                                          *)

InHandler(r) == busy[ConnOf[r]] = r

Taken(r) == {i \in ImagesOf(r) : slotOf[i] # NoSlot}

\* the images of a batch request take their slots one after the other, each when
\* the one before has been submitted
NextImage(r) == <<r, Cardinality(Taken(r)) + 1>>
LastImage(r) == <<r, Cardinality(Taken(r))>>

\* acquire(), or a one-off slot when the pool is exhausted; reset() on the way
Acquire(r) ==
  /\ InHandler(r)
  /\ stage[r] \in {"entered", "submitted"} /\ Taken(r) # ImagesOf(r)
  /\ stage' = [stage EXCEPT ![r] = "held"]
  /\ \E s \in (IF FreeSlots # {} THEN FreeSlots ELSE {NextImage(r)}) :
        /\ slotOf' = [slotOf EXCEPT ![NextImage(r)] = s]
        /\ result' = [result EXCEPT ![s] = NoResult]
  /\ holders' = [holders EXCEPT ![NextImage(r)] = {"handler"}]
  /\ UseUnless(phase = "poolGone", "slotPool")
  /\ UNCHANGED <<phase, inflight, connVars, closes, schedVars, body, wire>>

\* submit(): queued, or answered at once when the queue is full
Submit_silent(r) ==            \* mutant: the scheduler is not notified
  /\ InHandler(r) /\ Goto(r, "held", "submitted")
  /\ UseUnless(phase \in {"stopped", "poolGone"}, "scheduler")
  /\ promise' = [promise EXCEPT ![LastImage(r)] = "queued"]
  /\ holders' = [holders EXCEPT ![LastImage(r)] = @ \cup {"item"}]
  /\ UNCHANGED <<phase, inflight, connVars, closes, slotOf, result, awake, body, wire>>

Submit(r) ==
  /\ InHandler(r) /\ Goto(r, "held", "submitted")
  /\ UseUnless(phase \in {"stopped", "poolGone"}, "scheduler")
  /\ \/ /\ promise' = [promise EXCEPT ![LastImage(r)] = "queued"]
        /\ holders' = [holders EXCEPT ![LastImage(r)] = @ \cup {"item"}]
        /\ awake' = TRUE
     \/ /\ promise' = [promise EXCEPT ![LastImage(r)] = "message"]
        /\ UNCHANGED <<holders, awake>>
  /\ UNCHANGED <<phase, inflight, connVars, closes, slotOf, result, body, wire>>

\* the handler may reply itself until it has submitted the last image: an image
\* of a batch that cannot be read or decoded refuses the request, and those
\* submitted before it are computed for nobody
MayReply(r) ==
  InHandler(r) /\ (stage[r] \in {"entered", "held"}
                   \/ (stage[r] = "submitted" /\ Taken(r) # ImagesOf(r)))

\* A reply from the handler itself: every other endpoint, and the errors of the
\* predict handlers.  The handler may overwrite the close flag.
Reply_uncounted(r) ==          \* mutant: inflightCount_ is not decremented
  /\ MayReply(r)
  /\ stage' = [stage EXCEPT ![r] = "done"]
  /\ wire' = [wire EXCEPT ![r] = Deliver(ConnOf[r])]
  /\ \E close \in BOOLEAN : ShutIf(ConnOf[r], close)
  /\ busy' = [busy EXCEPT ![ConnOf[r]] = NoRequest]
  /\ Drop(r, "handler")
  /\ UNCHANGED <<phase, inflight, sock, inbuf, closes, slotOf, result, schedVars, body>>

Reply(r) ==
  /\ MayReply(r)
  /\ stage' = [stage EXCEPT ![r] = "done"]
  /\ wire' = [wire EXCEPT ![r] = Deliver(ConnOf[r])]
  /\ \E close \in BOOLEAN : ShutIf(ConnOf[r], close)
  /\ busy' = [busy EXCEPT ![ConnOf[r]] = NoRequest]
  /\ inflight' = inflight - 1
  /\ Drop(r, "handler")
  /\ UNCHANGED <<phase, sock, inbuf, closes, slotOf, result, schedVars, body>>

AllSubmitted(r) == InHandler(r) /\ Taken(r) = ImagesOf(r)

\* setDeferred(true), takeCompleteCallback(), and the responder thread starts
Defer(r) ==
  /\ AllSubmitted(r) /\ Goto(r, "submitted", "deferred")
  /\ PassOn(r, "handler", {"responder"})
  /\ busy' = [busy EXCEPT ![ConnOf[r]] = NoRequest]
  /\ UNCHANGED <<phase, inflight, misuse, conn, sock, inbuf, closes, slotOf, result,
                 schedVars, body, wire>>

\* The thread cannot be created: the error response the handler then prepares
\* is not sent, because the response is deferred, and nobody calls complete().
DeferFails(r) ==
  /\ AllSubmitted(r) /\ Goto(r, "submitted", "stuck")
  /\ Drop(r, "handler")
  /\ busy' = [busy EXCEPT ![ConnOf[r]] = NoRequest]
  /\ UNCHANGED <<phase, inflight, conn, sock, inbuf, closes, slotOf, result,
                 schedVars, body, wire>>

-----------------------------------------------------------------------------
(* The responder thread, and the loop functor that sends.                  *)

\* future.get() has returned for every image; the results are moved out of the slots.
\* The responder of a batch request may throw before it has queued the reply, as
\* dump() does for a message that is not UTF-8: it is caught, and complete() is
\* called all the same.
Outcomes(r) == {"queued"} \cup (IF r \in Batch THEN {"lost"} ELSE {})

QueueReply(r) ==
  /\ LoopsRun /\ Goto(r, "deferred", "sending")
  /\ \A i \in ImagesOf(r) : promise[i] \in Settled
  /\ body' = [body EXCEPT ![r] = [k \in 1..Size[r] |-> result[slotOf[<<r, k>>]]]]
  /\ result' = [s \in DOMAIN result |->
                  IF \E i \in ImagesOf(r) : slotOf[i] = s THEN NoResult ELSE result[s]]
  /\ \E outcome \in Outcomes(r) : wire' = [wire EXCEPT ![r] = outcome]
  /\ UNCHANGED <<phase, inflight, misuse, connVars, closes, slotOf, holders, schedVars>>

Complete(r) ==
  /\ LoopsRun /\ Goto(r, "sending", "completed")
  /\ inflight' = inflight - 1
  /\ UNCHANGED <<phase, misuse, connVars, closes, slotVars, schedVars, body, wire>>

DropSlot(r) ==
  /\ LoopsRun /\ Goto(r, "completed", "done")
  /\ Drop(r, "responder")
  /\ UNCHANGED <<phase, inflight, connVars, closes, slotOf, result, schedVars, body, wire>>

SendReply(r) ==
  /\ Idle(ConnOf[r]) /\ wire[r] = "queued"
  /\ wire' = [wire EXCEPT ![r] = IF closes[r] /\ Deliver(ConnOf[r]) = "sent"
                                 THEN "closing" ELSE Deliver(ConnOf[r])]
  /\ closes' = [closes EXCEPT ![r] = FALSE]
  /\ UNCHANGED <<phase, inflight, misuse, connVars, stage, slotVars, schedVars, body>>

\* runAfter(0.01): close the connection once the reply has left
ShutdownLater(r) ==
  /\ Idle(ConnOf[r]) /\ wire[r] = "closing"
  /\ wire' = [wire EXCEPT ![r] = "sent"]
  /\ ShutIf(ConnOf[r], TRUE)
  /\ UNCHANGED <<phase, inflight, misuse, sock, inbuf, busy, stage, closes, slotVars,
                 schedVars, body>>

-----------------------------------------------------------------------------
(* The scheduler and its executors, as far as they touch slots.            *)

Waiting == {i \in Image : promise[i] = "queued"}

\* one iteration of schedulerLoop: prune, dispatch, and sleep if there was nothing
Iterate ==
  /\ awake /\ phase \in {"serving", "draining", "quit"}
  /\ holders' = [i \in Image |->
                   IF promise[i] \in Settled THEN holders[i] \ {"item"} ELSE holders[i]]
  /\ \E I \in SUBSET Waiting :
        /\ Waiting # {} => I # {}
        /\ promise' = [i \in Image |-> IF i \in I THEN "running" ELSE promise[i]]
  /\ awake' = (Waiting # {})
  /\ UNCHANGED <<phase, inflight, misuse, connVars, stage, closes, slotOf, result, body, wire>>

\* the executor writes the slot and then sets the promise
Execute(i) ==
  /\ promise[i] = "running"
  /\ result' = [result EXCEPT ![slotOf[i]] = i]
  /\ promise' = [promise EXCEPT ![i] = "ok"]
  /\ UNCHANGED <<phase, inflight, misuse, connVars, stage, closes, slotOf, holders, awake,
                 body, wire>>

-----------------------------------------------------------------------------
(* The shutdown: the signal thread drains and quits the main loop, the     *)
(* main thread stops the scheduler, then destroys the server's members.    *)

BeginDrain ==
  /\ phase = "serving"
  /\ phase' = "draining"
  /\ UNCHANGED <<inflight, misuse, connVars, stage, closes, slotVars, schedVars, body, wire>>

Drained == inflight = 0 \/ DrainTimesOut

Quit ==
  /\ phase = "draining" /\ Drained
  /\ phase' = "quit"
  /\ UNCHANGED <<inflight, misuse, connVars, stage, closes, slotVars, schedVars, body, wire>>

\* cleanup(): stop() waits for what runs and cancels what is queued, then the
\* scheduler and the model factory are freed
StopScheduler ==
  /\ phase = "quit"
  /\ \A i \in Image : promise[i] # "running"
  /\ promise' = [i \in Image |->
                   IF promise[i] = "queued" THEN "message" ELSE promise[i]]
  /\ holders' = [i \in Image |-> holders[i] \ {"item"}]
  /\ awake' = FALSE
  /\ phase' = "stopped"
  /\ UNCHANGED <<inflight, misuse, connVars, stage, closes, slotOf, result, body, wire>>

DestroyPool ==
  /\ phase = "stopped"
  /\ phase' = "poolGone"
  /\ UNCHANGED <<inflight, misuse, connVars, stage, closes, slotVars, schedVars, body, wire>>

\* httpServer_ is destroyed last, and joins the IO threads; then the process
\* exits, which ends the responders
DestroyHttp ==
  /\ phase = "poolGone"
  /\ \A c \in Conns : busy[c] = NoRequest
  /\ phase' = "httpGone"
  /\ UNCHANGED <<inflight, misuse, connVars, stage, closes, slotVars, schedVars, body, wire>>

-----------------------------------------------------------------------------
HandlerStep(r) == Acquire(r) \/ Submit(r) \/ Reply(r) \/ Defer(r) \/ DeferFails(r)
ResponderStep(r) == QueueReply(r) \/ Complete(r) \/ DropSlot(r)
ShutdownStep == Quit \/ StopScheduler \/ DestroyPool \/ DestroyHttp

Next ==
  /\ misuse = {}
  /\ \/ \E c \in Conns :
          Connect(c) \/ ClientCloses(c) \/ Enter(c) \/ RejectEarly(c) \/ ReadRefused(c)
     \/ \E r \in Requests :
          \/ ClientSends(r) \/ HandlerStep(r) \/ ResponderStep(r)
          \/ SendReply(r) \/ ShutdownLater(r)
     \/ \E i \in Image : Execute(i)
     \/ Iterate
     \/ BeginDrain \/ ShutdownStep

Spec == Init /\ [][Next]_vars

(* IO threads, responders, the scheduler and its executors are scheduled;  *)
(* inference terminates.  Clients and signals owe nothing.                 *)
Fairness ==
  /\ \A c \in Conns : WF_vars(misuse = {} /\ (Enter(c) \/ RejectEarly(c)))
  /\ \A r \in Requests :
       /\ WF_vars(misuse = {} /\ HandlerStep(r))
       /\ WF_vars(misuse = {} /\ ResponderStep(r))
       /\ WF_vars(misuse = {} /\ SendReply(r))
  /\ \A i \in Image : WF_vars(misuse = {} /\ Execute(i))
  /\ WF_vars(misuse = {} /\ Iterate)
  /\ WF_vars(misuse = {} /\ ShutdownStep)

FairSpec == Spec /\ Fairness
-----------------------------------------------------------------------------
(***************************************************************************)
(* Properties.                                                             *)
(***************************************************************************)

Counted == {"entered", "held", "submitted", "deferred", "sending", "stuck"}

(* inflightCount_, incremented by IO threads and decremented by IO threads *)
(* and responders, counts the requests between the entry of onRequest and  *)
(* their reply or complete(): the drain can rely on it.  A request whose   *)
(* responder could not be created is counted for ever.                     *)
InflightExact == inflight = Cardinality({r \in Requests : stage[r] \in Counted})

(* A deferred reply carries at each place the result of its own image, or  *)
(* none when the promise was set without one: slots are shared by IO       *)
(* threads, executors and responders without a lock, and reused, also      *)
(* those of the images a refused batch request leaves in the scheduler.    *)
RepliesAreOwn ==
  \A r \in Requests : \A k \in 1..Len(body[r]) :
    /\ body[r][k] \in {<<r, k>>, NoResult}
    /\ promise[<<r, k>>] = "ok" => body[r][k] = <<r, k>>

(* A deferred request is completed, whatever the other connections and the *)
(* shutdown do meanwhile, and its reply is sent (or its client is gone)    *)
(* unless the responder of a batch request threw: then, and only then, the *)
(* request leaves the in-flight count with its client still waiting.       *)
DeferredIsEnded ==
  \A r \in Requests :
    stage[r] = "deferred" ~>
      \/ /\ stage[r] \in {"completed", "done"}
         /\ wire[r] \in {"closing", "sent", "dropped"} \/ (r \in Batch /\ wire[r] = "lost")
      \/ misuse # {} \/ phase = "httpGone"

(* What fails for a batch request: every deferred request is replied to.   *)
DeferredIsReplied ==
  \A r \in Requests :
    stage[r] = "deferred" ~>
      wire[r] \in {"closing", "sent", "dropped"} \/ misuse # {} \/ phase = "httpGone"

(* A connection that was not accepted has no HttpContext; nothing reads    *)
(* from it ("stopped accepting").                                          *)
RefusedIsNotRead == "context" \notin misuse

(* No handler uses the scheduler after it has been freed ("PredictHandler  *)
(* needs to hold a reference").                                            *)
SchedulerOutlivesHandlers == "scheduler" \notin misuse
=============================================================================
