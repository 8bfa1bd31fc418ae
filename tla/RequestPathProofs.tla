-------------------------- MODULE RequestPathProofs --------------------------
(***************************************************************************)
(* Proofs about RequestPath for any connections, requests, batch sizes and *)
(* slots: the in-flight count is exact, and a reply carries the results of *)
(* its own images although slots are shared without a lock and reused.     *)
(***************************************************************************)
EXTENDS RequestPath, FiniteSetTheorems, TLAPS

-----------------------------------------------------------------------------
(* The inductive invariant, in parts.                                      *)

InTheHandler == {"entered", "held", "submitted"}

\* The images of a request take their slots in order, and only while it is handled.
TakenInOrder ==
  \A r \in Requests :
    /\ \E m \in 0..Size[r] : Taken(r) = {<<r, k>> : k \in 1..m}
    /\ stage[r] \in {"unsent", "sent", "entered"} => Taken(r) = {}
    /\ stage[r] = "held" => Taken(r) # {}

\* Two images that somebody still refers to are in different slots.
SlotsApart ==
  /\ \A i \in Image : slotOf[i] \in Slots \cup {i, NoSlot}
  /\ \A i \in Image : holders[i] # {} => slotOf[i] # NoSlot
  /\ \A i, j \in Image : holders[i] # {} /\ holders[j] # {} /\ slotOf[i] = slotOf[j] => i = j

\* Who still needs a slot has a shared_ptr to it.
StillHeld ==
  /\ \A i \in Image : promise[i] \in {"queued", "running"} => "item" \in holders[i]
  /\ \A r \in Requests : \A i \in ImagesOf(r) :
       /\ stage[r] \in InTheHandler /\ slotOf[i] # NoSlot => "handler" \in holders[i]
       /\ stage[r] = "deferred" => "responder" \in holders[i]

\* An image without a slot has not been submitted.
SlotFirst == \A i \in Image : slotOf[i] = NoSlot => promise[i] = "none"

\* A slot in use has the result of its image or none, and has it when the promise
\* is set and the result not yet moved out.
SlotResults ==
  \A r \in Requests : \A i \in ImagesOf(r) :
    /\ holders[i] # {} => result[slotOf[i]] \in {i, NoResult}
    /\ stage[r] \in InTheHandler \cup {"deferred"} /\ promise[i] = "ok" => result[slotOf[i]] = i

\* A reply has been made of results whose promises were all set.
BodySettled ==
  \A r \in Requests : body[r] # <<>> =>
    /\ stage[r] \in {"sending", "completed", "done"}
    /\ Len(body[r]) = Size[r]
    /\ \A i \in ImagesOf(r) : promise[i] \in Settled

SlotInv == TakenInOrder /\ SlotsApart /\ StillHeld /\ SlotFirst /\ SlotResults
ReplyInv == BodySettled /\ RepliesAreOwn

PathInv == TypeOK /\ InflightExact /\ SlotInv /\ ReplyInv

-----------------------------------------------------------------------------
(* Images, and the number of those that have a slot.                       *)

LEMMA ImageIs ==
  /\ \A r \in Requests : \A k \in 1..Size[r] : <<r, k>> \in ImagesOf(r)
  /\ \A r \in Requests : \A i \in ImagesOf(r) : i \in Image /\ i[1] = r
  /\ \A i \in Image : i[1] \in Requests /\ i \in ImagesOf(i[1])
BY DEF Image, ImagesOf

LEMMA UpToCount ==
  ASSUME NEW r, NEW m \in Nat
  PROVE  Cardinality({<<r, k>> : k \in 1..m}) = m
<1> DEFINE T == {<<r, k>> : k \in 1..m}
           f == [k \in 1..m |-> <<r, k>>]
<1>1. f \in Bijection(1..m, T)
  <2>1. f \in [1..m -> T] /\ \A t \in T : \E k \in 1..m : f[k] = t
    OBVIOUS
  <2>2. \A j, k \in 1..m : f[j] = f[k] => j = k
    OBVIOUS
  <2> HIDE DEF f
  <2>3. QED
    BY <2>1, <2>2 DEF Bijection, Injection, Surjection, IsInjective
<1>2. IsFiniteSet(1..m) /\ Cardinality(1..m) = m
  <2>1. m \in Int /\ 1 \in Int /\ (IF 1 > m THEN 0 ELSE m - 1 + 1) = m
    OBVIOUS
  <2>2. QED
    BY <2>1, FS_Interval
<1> HIDE DEF T, f
<1>3. Cardinality(T) = m
  BY <1>1, <1>2, FS_Bijection DEF ExistsBijection
<1>4. QED
  BY <1>3 DEF T

\* The images that have a slot are the first of the request.
LEMMA TakenIs ==
  ASSUME TakenInOrder, NEW r \in Requests
  PROVE  \E m \in 0..Size[r] : /\ Taken(r) = {<<r, k>> : k \in 1..m}
                               /\ Cardinality(Taken(r)) = m
<1>1. Size[r] \in Nat
  BY RequestPathAssumption
<1>2. PICK m \in 0..Size[r] : Taken(r) = {<<r, k>> : k \in 1..m}
  BY DEF TakenInOrder
<1>3. m \in Nat
  BY <1>1, <1>2
<1>4. Cardinality(Taken(r)) = m
  BY <1>2, <1>3, UpToCount
<1>5. QED
  BY <1>2, <1>4

LEMMA LastIsTaken ==
  ASSUME TakenInOrder, NEW r \in Requests, stage[r] = "held"
  PROVE  LastImage(r) \in Taken(r) /\ LastImage(r) \in ImagesOf(r)
<1>1. PICK m \in 0..Size[r] : Taken(r) = {<<r, k>> : k \in 1..m} /\ Cardinality(Taken(r)) = m
  BY TakenIs
<1>2. Taken(r) # {} /\ Size[r] \in Nat
  BY RequestPathAssumption DEF TakenInOrder
<1>3. m \in 1..m
  BY <1>1, <1>2
<1>4. QED
  BY <1>1, <1>3 DEF LastImage, Taken

LEMMA NextIsFree ==
  ASSUME TakenInOrder, NEW r \in Requests, Taken(r) # ImagesOf(r)
  PROVE  /\ NextImage(r) \in ImagesOf(r) /\ NextImage(r) \notin Taken(r)
         /\ \E m \in 0..Size[r] : Taken(r) \cup {NextImage(r)} = {<<r, k>> : k \in 1..m}
<1>1. PICK m \in 0..Size[r] : Taken(r) = {<<r, k>> : k \in 1..m} /\ Cardinality(Taken(r)) = m
  BY TakenIs
<1>2. Size[r] \in Nat /\ m # Size[r]
  BY <1>1, RequestPathAssumption DEF ImagesOf
<1>3. m + 1 \in 0..Size[r] /\ m + 1 \in 1..Size[r] /\ m + 1 \notin 1..m
  BY <1>1, <1>2
<1>4. 1..(m + 1) = (1..m) \cup {m + 1}
  BY <1>1, <1>2
<1>5. NextImage(r) = <<r, m + 1>>
  BY <1>1 DEF NextImage
<1>6. Taken(r) \cup {NextImage(r)} = {<<r, k>> : k \in 1..(m + 1)}
  BY <1>1, <1>4, <1>5
<1>7. QED
  BY <1>1, <1>3, <1>5, <1>6 DEF ImagesOf

-----------------------------------------------------------------------------
(* Frames.                                                                 *)

\* A request moves, and inflightCount_ with it.
LEMMA CountMoves ==
  ASSUME TypeOK, InflightExact, NEW r \in Requests, NEW to, stage' = [stage EXCEPT ![r] = to],
         \/ inflight' = inflight /\ (stage[r] \in Counted <=> to \in Counted)
         \/ inflight' = inflight + 1 /\ stage[r] \notin Counted /\ to \in Counted
         \/ inflight' = inflight - 1 /\ stage[r] \in Counted /\ to \notin Counted
  PROVE  InflightExact' /\ inflight' \in 0..Cardinality(Requests)
<1> DEFINE A == {q \in Requests : stage[q] \in Counted}
           B == {q \in Requests : stage'[q] \in Counted}
<1>1. stage'[r] = to /\ \A q \in Requests : q # r => stage'[q] = stage[q]
  BY DEF TypeOK
<1>2. A \subseteq Requests /\ B \subseteq Requests
  OBVIOUS
<1>3. /\ IsFiniteSet(A) /\ Cardinality(A) \in Nat /\ Cardinality(B) \in Nat
      /\ Cardinality(B) <= Cardinality(Requests) /\ Cardinality(Requests) \in Nat
  BY <1>2, RequestPathAssumption, FS_Subset, FS_CardinalityType
<1>4. inflight = Cardinality(A)
  BY DEF InflightExact
<1>5. CASE inflight' = inflight /\ (stage[r] \in Counted <=> to \in Counted)
  <2>1. A = B
    BY <1>1, <1>5
  <2>2. QED
    BY <1>3, <1>4, <1>5, <2>1 DEF InflightExact
<1>6. CASE inflight' = inflight + 1 /\ stage[r] \notin Counted /\ to \in Counted
  <2>1. B = A \cup {r} /\ r \notin A
    BY <1>1, <1>6
  <2> HIDE DEF A
  <2>2. Cardinality(B) = Cardinality(A) + 1
    BY <1>3, <2>1, FS_AddElement
  <2>3. QED
    BY <1>3, <1>4, <1>6, <2>2 DEF InflightExact
<1>7. CASE inflight' = inflight - 1 /\ stage[r] \in Counted /\ to \notin Counted
  <2>1. B = A \ {r} /\ r \in A
    BY <1>1, <1>7
  <2> HIDE DEF A
  <2>2. Cardinality(B) = Cardinality(A) - 1
    BY <1>3, <2>1, FS_RemoveElement
  <2>3. QED
    BY <1>3, <1>4, <1>7, <2>2 DEF InflightExact
<1>8. QED
  BY <1>5, <1>6, <1>7

LEMMA CountStays ==
  ASSUME TypeOK, InflightExact, UNCHANGED <<stage, inflight>>
  PROVE  InflightExact' /\ inflight' \in 0..Cardinality(Requests)
BY DEF TypeOK, InflightExact

\* No slot is taken, no result computed or moved, and those who need a slot hold it.
Past == {"sending", "completed", "done", "stuck"}

LEMMA SlotFrame ==
  ASSUME SlotInv, UNCHANGED <<slotOf, result>>, StillHeld', SlotFirst',
         \A i \in Image : holders[i] = {} => holders'[i] = {},
         \A i \in Image : promise'[i] = "ok" => promise[i] = "ok",
         \A r \in Requests :
           \/ stage'[r] = stage[r]
           \/ stage[r] = "held" /\ stage'[r] = "submitted"
           \/ stage'[r] \in Past
           \/ stage[r] \in InTheHandler /\ stage'[r] = "deferred"
           \/ stage[r] \in {"unsent", "sent"} /\ stage'[r] \in {"sent", "entered"}
  PROVE  SlotInv'
<1>1. TakenInOrder /\ SlotsApart /\ SlotFirst /\ SlotResults
  BY DEF SlotInv
<1>2. \A r \in Requests : Taken(r)' = Taken(r)
  BY DEF Taken
<1>3. TakenInOrder'
  BY <1>1, <1>2 DEF TakenInOrder, InTheHandler, Past
<1>4. SlotsApart'
  BY <1>1 DEF SlotsApart
<1>5. SlotResults'
  <2> SUFFICES ASSUME NEW r \in Requests, NEW i \in ImagesOf(r)
               PROVE  /\ holders'[i] # {} => result[slotOf[i]] \in {i, NoResult}
                      /\ stage'[r] \in InTheHandler \cup {"deferred"} /\ promise'[i] = "ok"
                           => result[slotOf[i]] = i
    BY DEF SlotResults
  <2>1. i \in Image
    BY ImageIs
  <2>2. holders[i] # {} => result[slotOf[i]] \in {i, NoResult}
    BY <1>1 DEF SlotResults
  <2>3. stage[r] \in InTheHandler \cup {"deferred"} /\ promise[i] = "ok" => result[slotOf[i]] = i
    BY <1>1 DEF SlotResults
  <2>4. promise[i] = "ok" /\ stage[r] \in {"unsent", "sent"} => FALSE
    <3>1. stage[r] \in {"unsent", "sent"} => Taken(r) = {}
      BY <1>1 DEF TakenInOrder
    <3>2. stage[r] \in {"unsent", "sent"} => slotOf[i] = NoSlot
      BY <3>1 DEF Taken
    <3>3. QED
      BY <1>1, <2>1, <3>2 DEF SlotFirst
  <2>5. QED
    BY <2>1, <2>2, <2>3, <2>4 DEF InTheHandler, Past
<1>6. QED
  BY <1>3, <1>4, <1>5 DEF SlotInv

\* A reply that has been made does not change.
LEMMA ReplyFrame ==
  ASSUME ReplyInv, UNCHANGED body,
         \A i \in Image : promise[i] \in Settled => promise'[i] = promise[i],
         \A r \in Requests : stage'[r] = stage[r] \/ stage'[r] \in {"sending", "completed", "done"}
                               \/ stage[r] \notin {"sending", "completed", "done"}
  PROVE  ReplyInv'
<1>1. BodySettled /\ RepliesAreOwn
  BY DEF ReplyInv
<1>2. \A r \in Requests : body[r] # <<>> => \A i \in ImagesOf(r) : promise'[i] = promise[i]
  BY <1>1, ImageIs DEF BodySettled
<1>3. BodySettled'
  BY <1>1, <1>2 DEF BodySettled
<1>4. RepliesAreOwn'
  <2> SUFFICES ASSUME NEW r \in Requests, NEW k \in 1..Len(body[r])
               PROVE  /\ body[r][k] \in {<<r, k>>, NoResult}
                      /\ promise'[<<r, k>>] = "ok" => body[r][k] = <<r, k>>
    BY DEF RepliesAreOwn
  <2>1. body[r] # <<>>
    OBVIOUS
  <2>2. k \in 1..Size[r]
    BY <1>1, <2>1 DEF BodySettled
  <2>3. promise'[<<r, k>>] = promise[<<r, k>>]
    BY <1>2, <2>1, <2>2, ImageIs
  <2>4. QED
    BY <1>1, <2>3 DEF RepliesAreOwn
<1>5. QED
  BY <1>3, <1>4 DEF ReplyInv

\* Steps that touch no slot.
LEMMA QuietInv ==
  ASSUME PathInv, TypeOK', InflightExact', UNCHANGED <<slotVars, schedVars, body>>,
         \A r \in Requests :
           \/ stage'[r] = stage[r]
           \/ stage[r] = "sending" /\ stage'[r] = "completed"
           \/ stage[r] \in {"unsent", "sent"} /\ stage'[r] \in {"sent", "entered", "done"}
  PROVE  PathInv'
<1>1. /\ UNCHANGED <<slotOf, holders, result, promise, body>>
      /\ SlotInv /\ ReplyInv /\ TakenInOrder /\ StillHeld
  BY DEF slotVars, schedVars, PathInv, SlotInv
<1>2. StillHeld'
  <2> SUFFICES ASSUME NEW r \in Requests, NEW i \in ImagesOf(r)
               PROVE  /\ stage'[r] \in InTheHandler /\ slotOf[i] # NoSlot => "handler" \in holders[i]
                      /\ stage'[r] = "deferred" => "responder" \in holders[i]
    BY <1>1 DEF StillHeld
  <2>1. /\ stage[r] \in InTheHandler /\ slotOf[i] # NoSlot => "handler" \in holders[i]
        /\ stage[r] = "deferred" => "responder" \in holders[i]
    BY <1>1 DEF StillHeld
  <2>2. stage[r] \in {"unsent", "sent"} => slotOf[i] = NoSlot
    BY <1>1 DEF TakenInOrder, Taken
  <2>3. CASE stage'[r] = stage[r]
    BY <2>1, <2>3
  <2>4. CASE stage[r] = "sending" /\ stage'[r] = "completed"
    BY <2>4 DEF InTheHandler
  <2>5. CASE stage[r] \in {"unsent", "sent"} /\ stage'[r] \in {"sent", "entered", "done"}
    BY <2>2, <2>5
  <2>6. QED
    BY <2>3, <2>4, <2>5
<1>3. SlotInv'
  <2>1. SlotFirst'
    BY <1>1 DEF SlotInv, SlotFirst
  <2>2. QED
    BY <1>1, <1>2, <2>1, SlotFrame DEF Past
<1>4. ReplyInv'
  BY <1>1, ReplyFrame
<1>5. QED
  BY <1>3, <1>4 DEF PathInv

-----------------------------------------------------------------------------
(* Clients, connections and the shutdown.                                  *)

LEMMA ShutTyped ==
  ASSUME TypeOK, NEW c \in Conns, NEW close \in BOOLEAN, ShutIf(c, close)
  PROVE  conn' \in [Conns -> {"none", "open", "refused", "closing", "closed"}]
BY DEF ShutIf, TypeOK

LEMMA StageTyped ==
  ASSUME TypeOK, NEW r \in Requests,
         NEW to \in {"unsent", "sent", "entered", "held", "submitted",
                     "deferred", "sending", "completed", "done", "stuck"},
         stage' = [stage EXCEPT ![r] = to]
  PROVE  /\ stage' \in [Requests -> {"unsent", "sent", "entered", "held", "submitted",
                             "deferred", "sending", "completed", "done", "stuck"}]
         /\ stage'[r] = to /\ \A q \in Requests : q # r => stage'[q] = stage[q]
BY DEF TypeOK

LEMMA OutsideInv ==
  ASSUME PathInv,
         \/ \E c \in Conns : Connect(c) \/ ClientCloses(c) \/ ReadRefused(c)
         \/ \E r \in Requests : SendReply(r) \/ ShutdownLater(r)
         \/ BeginDrain \/ Quit \/ DestroyPool \/ DestroyHttp
  PROVE  PathInv'
<1>1. TypeOK /\ InflightExact
  BY DEF PathInv
<1>2. UNCHANGED <<slotVars, schedVars, body, stage, inflight, sock, inbuf, busy>>
  BY DEF Connect, ClientCloses, ReadRefused, SendReply, ShutdownLater, BeginDrain, Quit,
         DestroyPool, DestroyHttp, connVars
<1>3. InflightExact' /\ inflight' \in 0..Cardinality(Requests)
  BY <1>1, <1>2, CountStays
<1> DEFINE Typed ==
      /\ conn' \in [Conns -> {"none", "open", "refused", "closing", "closed"}]
      /\ closes' \in [Requests -> BOOLEAN]
      /\ wire' \in [Requests -> {"none", "queued", "closing", "sent", "dropped", "lost"}]
      /\ phase' \in {"serving", "draining", "quit", "stopped", "poolGone", "httpGone"}
      /\ misuse' \in SUBSET {"context", "scheduler", "slotPool"}
<1>4. Typed
  <2>1. ASSUME NEW c \in Conns, Connect(c) \/ ClientCloses(c) \/ ReadRefused(c)
        PROVE  Typed
    BY <1>1, <2>1 DEF TypeOK, Connect, ClientCloses, ReadRefused, connVars
  <2>2. ASSUME NEW r \in Requests, SendReply(r)
        PROVE  Typed
    BY <1>1, <2>2 DEF TypeOK, SendReply, connVars, Deliver
  <2>3. ASSUME NEW r \in Requests, ShutdownLater(r)
        PROVE  Typed
    <3>1. ConnOf[r] \in Conns
      BY RequestPathAssumption
    <3>2. conn' \in [Conns -> {"none", "open", "refused", "closing", "closed"}]
      BY <1>1, <2>3, <3>1, ShutTyped DEF ShutdownLater
    <3>3. QED
      BY <1>1, <2>3, <3>2 DEF TypeOK, ShutdownLater
  <2>4. ASSUME BeginDrain \/ Quit \/ DestroyPool \/ DestroyHttp
        PROVE  Typed
    BY <1>1, <2>4 DEF TypeOK, BeginDrain, Quit, DestroyPool, DestroyHttp, connVars
  <2>5. QED
    BY <2>1, <2>2, <2>3, <2>4
<1>5. TypeOK'
  BY <1>1, <1>2, <1>3, <1>4 DEF TypeOK, slotVars, schedVars
<1>6. QED
  BY <1>2, <1>3, <1>5, QuietInv

LEMMA ClientSendsInv ==
  ASSUME PathInv, NEW r \in Requests, ClientSends(r)
  PROVE  PathInv'
<1>1. TypeOK /\ InflightExact
  BY DEF PathInv
<1>2. /\ stage[r] = "unsent" /\ stage' = [stage EXCEPT ![r] = "sent"]
      /\ UNCHANGED <<phase, inflight, misuse, conn, inbuf, busy, closes, slotVars,
                 schedVars, body, wire>>
      /\ sock' = [sock EXCEPT ![ConnOf[r]] = Append(sock[ConnOf[r]], r)]
  BY DEF ClientSends, Goto
<1>3. InflightExact' /\ inflight' \in 0..Cardinality(Requests)
  BY <1>1, <1>2, CountMoves DEF Counted
<1>4. /\ stage' \in [Requests -> {"unsent", "sent", "entered", "held", "submitted",
                             "deferred", "sending", "completed", "done", "stuck"}]
      /\ stage'[r] = "sent" /\ \A q \in Requests : q # r => stage'[q] = stage[q]
  BY <1>1, <1>2, StageTyped
<1>5. sock' \in [Conns -> Seq(Requests)]
  <2>1. sock \in [Conns -> Seq(Requests)] /\ ConnOf[r] \in Conns
    BY <1>1, RequestPathAssumption DEF TypeOK
  <2>2. Append(sock[ConnOf[r]], r) \in Seq(Requests)
    BY <2>1
  <2>3. QED
    BY <1>2, <2>1, <2>2
<1>6. TypeOK'
  BY <1>1, <1>2, <1>3, <1>4, <1>5 DEF TypeOK, slotVars, schedVars
<1>7. QED
  BY <1>2, <1>3, <1>4, <1>6, QuietInv

LEMMA ReadTyped ==
  ASSUME TypeOK, NEW c \in Conns, Read(c)
  PROVE  /\ Next1(c) \in Requests
         /\ sock' \in [Conns -> Seq(Requests)] /\ inbuf' \in [Conns -> Seq(Requests)]
<1>1. /\ sock \in [Conns -> Seq(Requests)] /\ inbuf \in [Conns -> Seq(Requests)]
      /\ sock[c] # <<>>
  BY DEF TypeOK, Read
<1>2. sock[c] \in Seq(Requests) /\ inbuf[c] \in Seq(Requests)
  BY <1>1
<1>3. \A p, q \in Seq(Requests) :
        q # <<>> => p \o q \in Seq(Requests) /\ p \o q # <<>>
  OBVIOUS
<1>4. \A q \in Seq(Requests) : q # <<>> => Head(q) \in Requests /\ Tail(q) \in Seq(Requests)
  OBVIOUS
<1>5. /\ inbuf[c] \o sock[c] \in Seq(Requests) /\ inbuf[c] \o sock[c] # <<>>
  BY <1>1, <1>2, <1>3
<1>6. Head(inbuf[c] \o sock[c]) \in Requests /\ Tail(inbuf[c] \o sock[c]) \in Seq(Requests)
  BY <1>4, <1>5
<1>7. <<>> \in Seq(Requests)
  OBVIOUS
<1>8. sock' = [sock EXCEPT ![c] = <<>>] /\ inbuf' = [inbuf EXCEPT ![c] = Tail(inbuf[c] \o sock[c])]
  BY DEF Read
<1>9. QED
  BY <1>1, <1>6, <1>7, <1>8 DEF Next1

LEMMA EnterInv ==
  ASSUME PathInv, NEW c \in Conns, Enter(c)
  PROVE  PathInv'
<1>1. TypeOK /\ InflightExact
  BY DEF PathInv
<1>2. /\ Read(c) /\ inflight' = inflight + 1
      /\ stage[Next1(c)] = "sent" /\ stage' = [stage EXCEPT ![Next1(c)] = "entered"]
      /\ busy' = [busy EXCEPT ![c] = Next1(c)]
      /\ \E close \in BOOLEAN : closes' = [closes EXCEPT ![Next1(c)] = close]
      /\ UNCHANGED <<phase, misuse, conn, slotVars, schedVars, body, wire>>
  BY DEF Enter, Goto
<1>3. /\ Next1(c) \in Requests
      /\ sock' \in [Conns -> Seq(Requests)] /\ inbuf' \in [Conns -> Seq(Requests)]
  BY <1>1, <1>2, ReadTyped
<1>4. InflightExact' /\ inflight' \in 0..Cardinality(Requests)
  BY <1>1, <1>2, <1>3, CountMoves DEF Counted
<1>5. /\ stage' \in [Requests -> {"unsent", "sent", "entered", "held", "submitted",
                             "deferred", "sending", "completed", "done", "stuck"}]
      /\ stage'[Next1(c)] = "entered" /\ \A q \in Requests : q # Next1(c) => stage'[q] = stage[q]
  BY <1>1, <1>2, <1>3, StageTyped
<1>6. busy' \in [Conns -> Requests \cup {NoRequest}] /\ closes' \in [Requests -> BOOLEAN]
  BY <1>1, <1>2, <1>3 DEF TypeOK
<1>7. TypeOK'
  BY <1>1, <1>2, <1>3, <1>4, <1>5, <1>6 DEF TypeOK, slotVars, schedVars
<1>8. QED
  BY <1>2, <1>4, <1>5, <1>7, QuietInv

LEMMA RejectEarlyInv ==
  ASSUME PathInv, NEW c \in Conns, RejectEarly(c)
  PROVE  PathInv'
<1>1. TypeOK /\ InflightExact
  BY DEF PathInv
<1>2. /\ Read(c) /\ ShutIf(c, TRUE)
      /\ stage[Next1(c)] = "sent" /\ stage' = [stage EXCEPT ![Next1(c)] = "done"]
      /\ wire' = [wire EXCEPT ![Next1(c)] = Deliver(c)]
      /\ UNCHANGED <<phase, inflight, misuse, busy, closes, slotVars, schedVars, body>>
  BY DEF RejectEarly, Goto
<1>3. /\ Next1(c) \in Requests
      /\ sock' \in [Conns -> Seq(Requests)] /\ inbuf' \in [Conns -> Seq(Requests)]
  BY <1>1, <1>2, ReadTyped
<1>4. InflightExact' /\ inflight' \in 0..Cardinality(Requests)
  BY <1>1, <1>2, <1>3, CountMoves DEF Counted
<1>5. /\ stage' \in [Requests -> {"unsent", "sent", "entered", "held", "submitted",
                             "deferred", "sending", "completed", "done", "stuck"}]
      /\ stage'[Next1(c)] = "done" /\ \A q \in Requests : q # Next1(c) => stage'[q] = stage[q]
  BY <1>1, <1>2, <1>3, StageTyped
<1>6. /\ conn' \in [Conns -> {"none", "open", "refused", "closing", "closed"}]
      /\ wire' \in [Requests -> {"none", "queued", "closing", "sent", "dropped", "lost"}]
  <2>1. conn' \in [Conns -> {"none", "open", "refused", "closing", "closed"}]
    BY <1>1, <1>2, ShutTyped
  <2>2. QED
    BY <1>1, <1>2, <2>1 DEF TypeOK, Deliver
<1>7. TypeOK'
  BY <1>1, <1>2, <1>3, <1>4, <1>5, <1>6 DEF TypeOK, slotVars, schedVars
<1>8. QED
  BY <1>2, <1>4, <1>5, <1>7, QuietInv

LEMMA CompleteInv ==
  ASSUME PathInv, NEW r \in Requests, Complete(r)
  PROVE  PathInv'
<1>1. TypeOK /\ InflightExact
  BY DEF PathInv
<1>2. /\ stage[r] = "sending" /\ stage' = [stage EXCEPT ![r] = "completed"]
      /\ inflight' = inflight - 1
      /\ UNCHANGED <<phase, misuse, connVars, closes, slotVars, schedVars, body, wire>>
  BY DEF Complete, Goto
<1>3. InflightExact' /\ inflight' \in 0..Cardinality(Requests)
  BY <1>1, <1>2, CountMoves DEF Counted
<1>4. /\ stage' \in [Requests -> {"unsent", "sent", "entered", "held", "submitted",
                             "deferred", "sending", "completed", "done", "stuck"}]
      /\ stage'[r] = "completed" /\ \A q \in Requests : q # r => stage'[q] = stage[q]
  BY <1>1, <1>2, StageTyped
<1>5. TypeOK'
  BY <1>1, <1>2, <1>3, <1>4 DEF TypeOK, slotVars, schedVars, connVars
<1>6. QED
  BY <1>2, <1>3, <1>4, <1>5, QuietInv

-----------------------------------------------------------------------------
(* The handler.                                                            *)

\* Whose slot is still needed refers to it.
LEMMA NeedsItsSlot ==
  ASSUME SlotInv, NEW r \in Requests, NEW i \in ImagesOf(r),
         stage[r] \in InTheHandler \cup {"deferred"}, slotOf[i] # NoSlot
  PROVE  holders[i] # {}
BY DEF SlotInv, StillHeld

LEMMA MisuseTyped ==
  ASSUME TypeOK, NEW gone, NEW part \in {"context", "scheduler", "slotPool"}, UseUnless(gone, part)
  PROVE  misuse' \in SUBSET {"context", "scheduler", "slotPool"}
BY DEF UseUnless, TypeOK

LEMMA PassOnTyped ==
  ASSUME TypeOK, NEW r, NEW who, NEW to \in SUBSET {"handler", "item", "responder"}, PassOn(r, who, to)
  PROVE  /\ holders' \in [Image -> SUBSET {"handler", "item", "responder"}]
         /\ \A i \in Image : holders[i] = {} => holders'[i] = {}
         /\ \A i \in Image : i[1] = r /\ who \in holders[i] => holders'[i] = (holders[i] \ {who}) \cup to
         /\ \A i \in Image : ~(i[1] = r /\ who \in holders[i]) => holders'[i] = holders[i]
<1>1. holders \in [Image -> SUBSET {"handler", "item", "responder"}]
  BY DEF TypeOK
<1>2. holders' = [i \in Image |-> IF i[1] = r /\ who \in holders[i]
                              THEN (holders[i] \ {who}) \cup to ELSE holders[i]]
  BY DEF PassOn
<1>3. QED
  BY <1>1, <1>2

LEMMA AcquireInv ==
  ASSUME PathInv, NEW r \in Requests, Acquire(r)
  PROVE  PathInv'
<1> DEFINE n == NextImage(r)
<1>1. /\ TypeOK /\ InflightExact /\ SlotInv /\ ReplyInv
      /\ TakenInOrder /\ SlotsApart /\ StillHeld /\ SlotFirst /\ SlotResults
  BY DEF PathInv, SlotInv
<1>2. /\ stage[r] \in {"entered", "submitted"} /\ Taken(r) # ImagesOf(r)
      /\ stage' = [stage EXCEPT ![r] = "held"]
      /\ holders' = [holders EXCEPT ![n] = {"handler"}]
      /\ UseUnless(phase = "poolGone", "slotPool")
      /\ UNCHANGED <<phase, inflight, connVars, closes, schedVars, body, wire>>
  BY DEF Acquire
<1>3. PICK s \in (IF FreeSlots # {} THEN FreeSlots ELSE {n}) :
        /\ slotOf' = [slotOf EXCEPT ![n] = s]
        /\ result' = [result EXCEPT ![s] = NoResult]
  BY DEF Acquire
<1>4. /\ n \in ImagesOf(r) /\ n \notin Taken(r)
      /\ \E m \in 0..Size[r] : Taken(r) \cup {n} = {<<r, k>> : k \in 1..m}
  BY <1>1, <1>2, NextIsFree
<1>5. n \in Image /\ slotOf[n] = NoSlot /\ promise[n] = "none"
  <2>1. n \in Image /\ slotOf[n] = NoSlot
    BY <1>4, ImageIs DEF Taken
  <2>2. QED
    BY <1>1, <2>1 DEF SlotFirst
<1> HIDE DEF n
<1>6. s \in Slots \cup {n} /\ s # NoSlot
  BY <1>3, <1>5, RequestPathAssumption DEF FreeSlots
<1>7. \A i \in Image : i # n /\ holders[i] # {} => slotOf[i] # s
  <2>1. CASE s \in FreeSlots
    BY <2>1 DEF FreeSlots, InUse
  <2>2. CASE s = n
    BY <1>1, <1>5, <2>2, RequestPathAssumption DEF SlotsApart
  <2>3. QED
    BY <1>3, <2>1, <2>2
<1>8. /\ stage' \in [Requests -> {"unsent", "sent", "entered", "held", "submitted",
                             "deferred", "sending", "completed", "done", "stuck"}]
      /\ stage'[r] = "held" /\ \A q \in Requests : q # r => stage'[q] = stage[q]
  BY <1>1, <1>2, StageTyped
<1>9. InflightExact' /\ inflight' \in 0..Cardinality(Requests)
  BY <1>1, <1>2, CountMoves DEF Counted
<1>10. /\ slotOf'[n] = s /\ \A i \in Image : i # n => slotOf'[i] = slotOf[i]
       /\ holders'[n] = {"handler"} /\ \A i \in Image : i # n => holders'[i] = holders[i]
       /\ result'[s] = NoResult /\ \A x \in Slots \cup Image : x # s => result'[x] = result[x]
       /\ UNCHANGED <<promise, body>>
  BY <1>1, <1>2, <1>3, <1>5, <1>6 DEF TypeOK, schedVars
<1>11. TypeOK'
  <2>1. misuse' \in SUBSET {"context", "scheduler", "slotPool"}
    BY <1>1, <1>2, MisuseTyped
  <2>2. /\ slotOf' \in [Image -> Slots \cup Image \cup {NoSlot}]
        /\ holders' \in [Image -> SUBSET {"handler", "item", "responder"}]
        /\ result' \in [Slots \cup Image -> Image \cup {NoResult}]
    BY <1>1, <1>2, <1>3, <1>5, <1>6 DEF TypeOK
  <2>3. QED
    BY <1>1, <1>2, <1>8, <1>9, <2>1, <2>2 DEF TypeOK, connVars, schedVars
<1>12. TakenInOrder'
  <2>1. Taken(r)' = Taken(r) \cup {n}
    BY <1>4, <1>5, <1>6, <1>10, ImageIs DEF Taken
  <2>2. \A q \in Requests : q # r => Taken(q)' = Taken(q)
    BY <1>4, <1>10, ImageIs DEF Taken
  <2>3. QED
    BY <1>1, <1>4, <1>8, <2>1, <2>2 DEF TakenInOrder
<1>13. SlotsApart'
  BY <1>1, <1>6, <1>7, <1>10 DEF SlotsApart
<1>14. StillHeld'
  <2>1. \A i \in Image : promise[i] \in {"queued", "running"} => "item" \in holders'[i]
    BY <1>1, <1>5, <1>10 DEF StillHeld
  <2>2. \A q \in Requests : \A i \in ImagesOf(q) :
       /\ stage'[q] \in InTheHandler /\ slotOf'[i] # NoSlot => "handler" \in holders'[i]
       /\ stage'[q] = "deferred" => "responder" \in holders'[i]
    <3> SUFFICES ASSUME NEW q \in Requests, NEW i \in ImagesOf(q)
                 PROVE  /\ stage'[q] \in InTheHandler /\ slotOf'[i] # NoSlot => "handler" \in holders'[i]
                        /\ stage'[q] = "deferred" => "responder" \in holders'[i]
      OBVIOUS
    <3>1. i \in Image /\ i[1] = q /\ n[1] = r
      BY <1>4, ImageIs
    <3>2. CASE i = n
      BY <1>8, <1>10, <3>1, <3>2
    <3>3. CASE i # n
      <4>1. slotOf'[i] = slotOf[i] /\ holders'[i] = holders[i]
        BY <1>10, <3>1, <3>3
      <4>2. stage[r] \in InTheHandler
        BY <1>2 DEF InTheHandler
      <4>3. QED
        BY <1>1, <1>8, <4>1, <4>2 DEF StillHeld
    <3>4. QED
      BY <3>2, <3>3
  <2>3. QED
    BY <1>10, <2>1, <2>2 DEF StillHeld
<1>15. SlotFirst'
  BY <1>1, <1>6, <1>10 DEF SlotFirst
<1>16. SlotResults'
  <2> SUFFICES ASSUME NEW q \in Requests, NEW i \in ImagesOf(q)
               PROVE  /\ holders'[i] # {} => result'[slotOf'[i]] \in {i, NoResult}
                      /\ stage'[q] \in InTheHandler \cup {"deferred"} /\ promise'[i] = "ok"
                           => result'[slotOf'[i]] = i
    BY DEF SlotResults
  <2>1. i \in Image
    BY ImageIs
  <2>2. CASE i = n
    BY <1>5, <1>10, <2>2
  <2>3. CASE i # n
    <3>1. slotOf'[i] = slotOf[i] /\ holders'[i] = holders[i] /\ promise'[i] = promise[i]
      BY <1>10, <2>1, <2>3
    <3>2. holders[i] # {} => result'[slotOf[i]] = result[slotOf[i]]
      <4>1. holders[i] # {} => slotOf[i] \in Slots \cup Image /\ slotOf[i] # s
        BY <1>1, <1>7, <2>1, <2>3 DEF SlotsApart
      <4>2. QED
        BY <1>10, <4>1
    <3>3. stage'[q] \in InTheHandler \cup {"deferred"} => stage[q] \in InTheHandler \cup {"deferred"}
      BY <1>2, <1>8 DEF InTheHandler
    <3>4. promise[i] = "ok" => slotOf[i] # NoSlot
      BY <1>1, <2>1 DEF SlotFirst
    <3>5. stage'[q] \in InTheHandler \cup {"deferred"} /\ promise[i] = "ok" => holders[i] # {}
      BY <1>1, <3>3, <3>4, NeedsItsSlot
    <3>6. QED
      BY <1>1, <3>1, <3>2, <3>3, <3>5 DEF SlotResults
  <2>4. QED
    BY <2>2, <2>3
<1>17. ReplyInv'
  BY <1>1, <1>2, <1>8, <1>10, ReplyFrame
<1>18. QED
  BY <1>9, <1>11, <1>12, <1>13, <1>14, <1>15, <1>16, <1>17 DEF PathInv, SlotInv

LEMMA SubmitInv ==
  ASSUME PathInv, NEW r \in Requests, Submit(r)
  PROVE  PathInv'
<1> DEFINE n == LastImage(r)
<1>1. /\ TypeOK /\ InflightExact /\ SlotInv /\ ReplyInv
      /\ TakenInOrder /\ SlotsApart /\ StillHeld /\ SlotFirst
  BY DEF PathInv, SlotInv
<1>2. /\ stage[r] = "held" /\ stage' = [stage EXCEPT ![r] = "submitted"]
      /\ UseUnless(phase \in {"stopped", "poolGone"}, "scheduler")
      /\ UNCHANGED <<phase, inflight, connVars, closes, slotOf, result, body, wire>>
  BY DEF Submit, Goto
<1>3. \/ /\ promise' = [promise EXCEPT ![n] = "queued"]
         /\ holders' = [holders EXCEPT ![n] = holders[n] \cup {"item"}]
         /\ awake' = TRUE
      \/ /\ promise' = [promise EXCEPT ![n] = "message"]
         /\ UNCHANGED <<holders, awake>>
  BY DEF Submit
<1>4. n \in Taken(r) /\ n \in ImagesOf(r)
  BY <1>1, <1>2, LastIsTaken
<1>5. n \in Image /\ slotOf[n] # NoSlot /\ "handler" \in holders[n]
  BY <1>1, <1>2, <1>4, ImageIs DEF Taken, StillHeld, InTheHandler
<1> HIDE DEF n
<1>6. /\ stage' \in [Requests -> {"unsent", "sent", "entered", "held", "submitted",
                             "deferred", "sending", "completed", "done", "stuck"}]
      /\ stage'[r] = "submitted" /\ \A q \in Requests : q # r => stage'[q] = stage[q]
  BY <1>1, <1>2, StageTyped
<1>7. InflightExact' /\ inflight' \in 0..Cardinality(Requests)
  BY <1>1, <1>2, CountMoves DEF Counted
<1>8. /\ \A i \in Image : i # n => promise'[i] = promise[i] /\ holders'[i] = holders[i]
      /\ promise'[n] \in {"queued", "message"} /\ "handler" \in holders'[n]
      /\ promise'[n] = "queued" => "item" \in holders'[n]
  BY <1>1, <1>3, <1>5 DEF TypeOK
<1>9. TypeOK'
  <2>1. misuse' \in SUBSET {"context", "scheduler", "slotPool"}
    BY <1>1, <1>2, MisuseTyped
  <2>2. /\ promise' \in [Image -> {"none", "queued", "running"} \cup Settled]
        /\ holders' \in [Image -> SUBSET {"handler", "item", "responder"}]
        /\ awake' \in BOOLEAN
    <3>1. "queued" \in {"none", "queued", "running"} \cup Settled
          /\ "message" \in {"none", "queued", "running"} \cup Settled
      BY DEF Settled
    <3>2. /\ promise \in [Image -> {"none", "queued", "running"} \cup Settled]
          /\ holders \in [Image -> SUBSET {"handler", "item", "responder"}]
          /\ awake \in BOOLEAN
      BY <1>1 DEF TypeOK
    <3>3. holders[n] \cup {"item"} \in SUBSET {"handler", "item", "responder"}
      BY <1>5, <3>2
    <3>4. CASE promise' = [promise EXCEPT ![n] = "message"] /\ UNCHANGED <<holders, awake>>
      BY <3>1, <3>2, <3>4
    <3>5. CASE /\ promise' = [promise EXCEPT ![n] = "queued"]
               /\ holders' = [holders EXCEPT ![n] = holders[n] \cup {"item"}]
               /\ awake' = TRUE
      BY <3>1, <3>2, <3>3, <3>5
    <3>6. QED
      BY <1>3, <3>4, <3>5
  <2>3. QED
    BY <1>1, <1>2, <1>6, <1>7, <2>1, <2>2 DEF TypeOK, connVars
<1>10. StillHeld'
  <2>1. \A i \in Image : promise'[i] \in {"queued", "running"} => "item" \in holders'[i]
    BY <1>1, <1>8 DEF StillHeld
  <2>2. \A q \in Requests : \A i \in ImagesOf(q) :
       /\ stage'[q] \in InTheHandler /\ slotOf[i] # NoSlot => "handler" \in holders'[i]
       /\ stage'[q] = "deferred" => "responder" \in holders'[i]
    <3> SUFFICES ASSUME NEW q \in Requests, NEW i \in ImagesOf(q)
                 PROVE  /\ stage'[q] \in InTheHandler /\ slotOf[i] # NoSlot => "handler" \in holders'[i]
                        /\ stage'[q] = "deferred" => "responder" \in holders'[i]
      OBVIOUS
    <3>1. i \in Image /\ i[1] = q /\ n[1] = r
      BY <1>4, ImageIs
    <3>2. CASE i = n
      BY <1>6, <1>8, <3>1, <3>2
    <3>3. CASE i # n
      <4>1. holders'[i] = holders[i] /\ stage[r] \in InTheHandler
        BY <1>2, <1>8, <3>1, <3>3 DEF InTheHandler
      <4>2. QED
        BY <1>1, <1>6, <4>1 DEF StillHeld
    <3>4. QED
      BY <3>2, <3>3
  <2>3. QED
    BY <1>2, <2>1, <2>2 DEF StillHeld
<1>11. SlotFirst'
  BY <1>1, <1>2, <1>5, <1>8 DEF SlotFirst
<1>12. SlotInv'
  <2>1. \A i \in Image : promise'[i] = "ok" => promise[i] = "ok"
    BY <1>8
  <2>2. \A i \in Image : holders[i] = {} => holders'[i] = {}
    BY <1>5, <1>8
  <2>3. QED
    BY <1>1, <1>2, <1>6, <1>10, <1>11, <2>1, <2>2, SlotFrame
<1>13. ReplyInv'
  <2> SUFFICES BodySettled' /\ RepliesAreOwn'
    BY DEF ReplyInv
  <2>1. BodySettled /\ RepliesAreOwn /\ body' = body
    BY <1>1, <1>2 DEF ReplyInv
  <2>2. \A q \in Requests : body[q] # <<>> => q # r
    BY <1>2, <2>1 DEF BodySettled
  <2>3. \A q \in Requests : body[q] # <<>> => \A i \in ImagesOf(q) : promise'[i] = promise[i]
    BY <1>4, <1>8, <2>2, ImageIs
  <2>4. BodySettled'
    BY <1>6, <2>1, <2>2, <2>3 DEF BodySettled
  <2>5. RepliesAreOwn'
    <3> SUFFICES ASSUME NEW q \in Requests, NEW k \in 1..Len(body[q])
                 PROVE  /\ body[q][k] \in {<<q, k>>, NoResult}
                        /\ promise'[<<q, k>>] = "ok" => body[q][k] = <<q, k>>
      BY <2>1 DEF RepliesAreOwn
    <3>1. body[q] # <<>>
      OBVIOUS
    <3>2. k \in 1..Size[q]
      BY <2>1, <3>1 DEF BodySettled
    <3>3. promise'[<<q, k>>] = promise[<<q, k>>]
      BY <2>3, <3>1, <3>2, ImageIs
    <3>4. QED
      BY <2>1, <3>3 DEF RepliesAreOwn
  <2>6. QED
    BY <2>4, <2>5
<1>14. QED
  BY <1>7, <1>9, <1>12, <1>13 DEF PathInv

\* Passing the shared_ptrs of a request on, or giving them up.
LEMMA PassOnInv ==
  ASSUME PathInv, TypeOK', InflightExact', NEW r \in Requests,
         NEW who \in {"handler", "responder"}, NEW to \in SUBSET {"responder"},
         PassOn(r, who, to), UNCHANGED <<slotOf, result, promise, body>>,
         \A q \in Requests : q # r => stage'[q] = stage[q],
         \/ stage[r] \in InTheHandler /\ stage'[r] \in {"done", "stuck"}
         \/ /\ stage[r] = "submitted" /\ stage'[r] = "deferred" /\ Taken(r) = ImagesOf(r)
            /\ who = "handler" /\ to = {"responder"}
         \/ stage[r] = "completed" /\ stage'[r] = "done"
  PROVE  PathInv'
<1>1. /\ TypeOK /\ SlotInv /\ ReplyInv /\ StillHeld /\ SlotFirst /\ BodySettled
  BY DEF PathInv, SlotInv, ReplyInv
<1>2. /\ \A i \in Image : holders[i] = {} => holders'[i] = {}
      /\ \A i \in Image : i[1] = r /\ who \in holders[i] => holders'[i] = (holders[i] \ {who}) \cup to
      /\ \A i \in Image : ~(i[1] = r /\ who \in holders[i]) => holders'[i] = holders[i]
  BY <1>1, PassOnTyped
<1>3. StillHeld'
  <2>1. \A i \in Image : promise[i] \in {"queued", "running"} => "item" \in holders'[i]
    BY <1>1, <1>2 DEF StillHeld
  <2>2. \A q \in Requests : \A i \in ImagesOf(q) :
       /\ stage'[q] \in InTheHandler /\ slotOf[i] # NoSlot => "handler" \in holders'[i]
       /\ stage'[q] = "deferred" => "responder" \in holders'[i]
    <3> SUFFICES ASSUME NEW q \in Requests, NEW i \in ImagesOf(q)
                 PROVE  /\ stage'[q] \in InTheHandler /\ slotOf[i] # NoSlot => "handler" \in holders'[i]
                        /\ stage'[q] = "deferred" => "responder" \in holders'[i]
      OBVIOUS
    <3>1. i \in Image /\ i[1] = q
      BY ImageIs
    <3>2. CASE q # r
      BY <1>1, <1>2, <3>1, <3>2 DEF StillHeld
    <3>3. CASE q = r /\ stage'[r] = "deferred"
      <4>1. slotOf[i] # NoSlot /\ stage[r] \in InTheHandler /\ who = "handler" /\ to = {"responder"}
        BY <3>3 DEF Taken, InTheHandler
      <4>2. "handler" \in holders[i]
        BY <1>1, <3>3, <4>1 DEF StillHeld
      <4>3. holders'[i] = (holders[i] \ {who}) \cup to
        BY <1>2, <3>1, <3>3, <4>1, <4>2
      <4>4. QED
        BY <3>3, <4>1, <4>3 DEF InTheHandler
    <3>4. CASE q = r /\ stage'[r] # "deferred"
      BY <3>4 DEF InTheHandler
    <3>5. QED
      BY <3>2, <3>3, <3>4
  <2>3. QED
    BY <2>1, <2>2 DEF StillHeld
<1>4. SlotFirst'
  BY <1>1 DEF SlotFirst
<1>5. SlotInv'
  BY <1>1, <1>2, <1>3, <1>4, SlotFrame DEF InTheHandler, Past
<1>6. ReplyInv'
  <2>1. \A q \in Requests : stage'[q] = stage[q] \/ stage'[q] \in {"sending", "completed", "done"}
                               \/ stage[q] \notin {"sending", "completed", "done"}
    BY DEF InTheHandler
  <2>2. QED
    BY <1>1, <2>1, ReplyFrame
<1>7. QED
  BY <1>5, <1>6 DEF PathInv

LEMMA ReplyStepInv ==
  ASSUME PathInv, NEW r \in Requests, Reply(r)
  PROVE  PathInv'
<1>1. TypeOK /\ InflightExact
  BY DEF PathInv
<1>2. /\ stage[r] \in InTheHandler /\ stage' = [stage EXCEPT ![r] = "done"]
      /\ wire' = [wire EXCEPT ![r] = Deliver(ConnOf[r])]
      /\ \E close \in BOOLEAN : ShutIf(ConnOf[r], close)
      /\ busy' = [busy EXCEPT ![ConnOf[r]] = NoRequest]
      /\ inflight' = inflight - 1
      /\ PassOn(r, "handler", {})
      /\ \E gone : UseUnless(gone, "slotPool")
      /\ UNCHANGED <<phase, sock, inbuf, closes, slotOf, result, schedVars, body>>
  BY DEF Reply, MayReply, Drop, InTheHandler
<1>3. /\ stage' \in [Requests -> {"unsent", "sent", "entered", "held", "submitted",
                             "deferred", "sending", "completed", "done", "stuck"}]
      /\ stage'[r] = "done" /\ \A q \in Requests : q # r => stage'[q] = stage[q]
  BY <1>1, <1>2, StageTyped
<1>4. InflightExact' /\ inflight' \in 0..Cardinality(Requests)
  <2>1. stage[r] \in Counted /\ "done" \notin Counted
    BY <1>2 DEF Counted, InTheHandler
  <2>2. QED
    BY <1>1, <1>2, <2>1, CountMoves
<1>5. TypeOK'
  <2>1. misuse' \in SUBSET {"context", "scheduler", "slotPool"}
    BY <1>1, <1>2, MisuseTyped
  <2>2. ConnOf[r] \in Conns
    BY RequestPathAssumption
  <2>3. conn' \in [Conns -> {"none", "open", "refused", "closing", "closed"}]
    BY <1>1, <1>2, <2>2, ShutTyped
  <2>4. holders' \in [Image -> SUBSET {"handler", "item", "responder"}]
    <3>1. {} \in SUBSET {"handler", "item", "responder"}
      OBVIOUS
    <3>2. QED
      BY <1>1, <1>2, <3>1, PassOnTyped
  <2>5. /\ wire' \in [Requests -> {"none", "queued", "closing", "sent", "dropped", "lost"}]
        /\ busy' \in [Conns -> Requests \cup {NoRequest}]
    BY <1>1, <1>2, <2>2 DEF TypeOK, Deliver
  <2>6. QED
    BY <1>1, <1>2, <1>3, <1>4, <2>1, <2>3, <2>4, <2>5 DEF TypeOK, schedVars
<1>6. UNCHANGED <<slotOf, result, promise, body>>
  BY <1>2 DEF schedVars
<1>7. {} \in SUBSET {"responder"}
  OBVIOUS
<1>8. QED
  BY <1>2, <1>3, <1>4, <1>5, <1>6, <1>7, PassOnInv

LEMMA DeferInv ==
  ASSUME PathInv, NEW r \in Requests, Defer(r)
  PROVE  PathInv'
<1>1. TypeOK /\ InflightExact
  BY DEF PathInv
<1>2. /\ stage[r] = "submitted" /\ stage' = [stage EXCEPT ![r] = "deferred"]
      /\ Taken(r) = ImagesOf(r)
      /\ busy' = [busy EXCEPT ![ConnOf[r]] = NoRequest]
      /\ PassOn(r, "handler", {"responder"})
      /\ UNCHANGED <<phase, inflight, misuse, conn, sock, inbuf, closes, slotOf, result,
                 schedVars, body, wire>>
  BY DEF Defer, Goto, AllSubmitted
<1>3. /\ stage' \in [Requests -> {"unsent", "sent", "entered", "held", "submitted",
                             "deferred", "sending", "completed", "done", "stuck"}]
      /\ stage'[r] = "deferred" /\ \A q \in Requests : q # r => stage'[q] = stage[q]
  BY <1>1, <1>2, StageTyped
<1>4. InflightExact' /\ inflight' \in 0..Cardinality(Requests)
  BY <1>1, <1>2, CountMoves DEF Counted
<1>5. TypeOK'
  <2>1. {"responder"} \in SUBSET {"handler", "item", "responder"}
    OBVIOUS
  <2>2. holders' \in [Image -> SUBSET {"handler", "item", "responder"}]
    BY <1>1, <1>2, <2>1, PassOnTyped
  <2>3. ConnOf[r] \in Conns
    BY RequestPathAssumption
  <2>4. busy' \in [Conns -> Requests \cup {NoRequest}]
    BY <1>1, <1>2, <2>3 DEF TypeOK
  <2>5. QED
    BY <1>1, <1>2, <1>3, <1>4, <2>2, <2>4 DEF TypeOK, schedVars
<1>6. UNCHANGED <<slotOf, result, promise, body>>
  BY <1>2 DEF schedVars
<1>7. {"responder"} \in SUBSET {"responder"}
  OBVIOUS
<1>8. QED
  BY <1>2, <1>3, <1>4, <1>5, <1>6, <1>7, PassOnInv

LEMMA DeferFailsInv ==
  ASSUME PathInv, NEW r \in Requests, DeferFails(r)
  PROVE  PathInv'
<1>1. TypeOK /\ InflightExact
  BY DEF PathInv
<1>2. /\ stage[r] = "submitted" /\ stage' = [stage EXCEPT ![r] = "stuck"]
      /\ busy' = [busy EXCEPT ![ConnOf[r]] = NoRequest]
      /\ PassOn(r, "handler", {})
      /\ \E gone : UseUnless(gone, "slotPool")
      /\ UNCHANGED <<phase, inflight, conn, sock, inbuf, closes, slotOf, result,
                 schedVars, body, wire>>
  BY DEF DeferFails, Goto, Drop
<1>3. /\ stage' \in [Requests -> {"unsent", "sent", "entered", "held", "submitted",
                             "deferred", "sending", "completed", "done", "stuck"}]
      /\ stage'[r] = "stuck" /\ \A q \in Requests : q # r => stage'[q] = stage[q]
  BY <1>1, <1>2, StageTyped
<1>4. InflightExact' /\ inflight' \in 0..Cardinality(Requests)
  BY <1>1, <1>2, CountMoves DEF Counted
<1>5. TypeOK'
  <2>1. misuse' \in SUBSET {"context", "scheduler", "slotPool"}
    BY <1>1, <1>2, MisuseTyped
  <2>2. {} \in SUBSET {"handler", "item", "responder"}
    OBVIOUS
  <2>3. holders' \in [Image -> SUBSET {"handler", "item", "responder"}]
    BY <1>1, <1>2, <2>2, PassOnTyped
  <2>4. ConnOf[r] \in Conns
    BY RequestPathAssumption
  <2>5. busy' \in [Conns -> Requests \cup {NoRequest}]
    BY <1>1, <1>2, <2>4 DEF TypeOK
  <2>6. QED
    BY <1>1, <1>2, <1>3, <1>4, <2>1, <2>3, <2>5 DEF TypeOK, schedVars
<1>6. UNCHANGED <<slotOf, result, promise, body>>
  BY <1>2 DEF schedVars
<1>7. {} \in SUBSET {"responder"} /\ stage[r] \in InTheHandler
  BY <1>2 DEF InTheHandler
<1>8. QED
  BY <1>2, <1>3, <1>4, <1>5, <1>6, <1>7, PassOnInv

-----------------------------------------------------------------------------
(* The responder.                                                          *)

LEMMA DropSlotInv ==
  ASSUME PathInv, NEW r \in Requests, DropSlot(r)
  PROVE  PathInv'
<1>1. TypeOK /\ InflightExact
  BY DEF PathInv
<1>2. /\ stage[r] = "completed" /\ stage' = [stage EXCEPT ![r] = "done"]
      /\ PassOn(r, "responder", {})
      /\ \E gone : UseUnless(gone, "slotPool")
      /\ UNCHANGED <<phase, inflight, connVars, closes, slotOf, result, schedVars, body, wire>>
  BY DEF DropSlot, Goto, Drop
<1>3. /\ stage' \in [Requests -> {"unsent", "sent", "entered", "held", "submitted",
                             "deferred", "sending", "completed", "done", "stuck"}]
      /\ stage'[r] = "done" /\ \A q \in Requests : q # r => stage'[q] = stage[q]
  BY <1>1, <1>2, StageTyped
<1>4. InflightExact' /\ inflight' \in 0..Cardinality(Requests)
  BY <1>1, <1>2, CountMoves DEF Counted
<1>5. TypeOK'
  <2>1. misuse' \in SUBSET {"context", "scheduler", "slotPool"}
    BY <1>1, <1>2, MisuseTyped
  <2>2. {} \in SUBSET {"handler", "item", "responder"}
    OBVIOUS
  <2>3. holders' \in [Image -> SUBSET {"handler", "item", "responder"}]
    BY <1>1, <1>2, <2>2, PassOnTyped
  <2>4. QED
    BY <1>1, <1>2, <1>3, <1>4, <2>1, <2>3 DEF TypeOK, connVars, schedVars
<1>6. UNCHANGED <<slotOf, result, promise, body>>
  BY <1>2 DEF schedVars
<1>7. {} \in SUBSET {"responder"}
  OBVIOUS
<1>8. QED
  BY <1>2, <1>3, <1>4, <1>5, <1>6, <1>7, PassOnInv

LEMMA QueueReplyInv ==
  ASSUME PathInv, NEW r \in Requests, QueueReply(r)
  PROVE  PathInv'
<1>1. /\ TypeOK /\ InflightExact /\ SlotInv /\ ReplyInv
      /\ TakenInOrder /\ SlotsApart /\ StillHeld /\ SlotFirst /\ SlotResults
      /\ BodySettled /\ RepliesAreOwn
  BY DEF PathInv, SlotInv, ReplyInv
<1>2. /\ stage[r] = "deferred" /\ stage' = [stage EXCEPT ![r] = "sending"]
      /\ \A i \in ImagesOf(r) : promise[i] \in Settled
      /\ body' = [body EXCEPT ![r] = [k \in 1..Size[r] |-> result[slotOf[<<r, k>>]]]]
      /\ result' = [s \in DOMAIN result |->
                  IF \E i \in ImagesOf(r) : slotOf[i] = s THEN NoResult ELSE result[s]]
      /\ \E outcome \in {"queued", "lost"} : wire' = [wire EXCEPT ![r] = outcome]
      /\ UNCHANGED <<phase, inflight, misuse, connVars, closes, slotOf, holders, schedVars>>
  BY DEF QueueReply, Outcomes, Goto
<1>3. /\ stage' \in [Requests -> {"unsent", "sent", "entered", "held", "submitted",
                             "deferred", "sending", "completed", "done", "stuck"}]
      /\ stage'[r] = "sending" /\ \A q \in Requests : q # r => stage'[q] = stage[q]
  BY <1>1, <1>2, StageTyped
<1>4. InflightExact' /\ inflight' \in 0..Cardinality(Requests)
  BY <1>1, <1>2, CountMoves DEF Counted
<1>5. UNCHANGED <<slotOf, holders, promise>>
  BY <1>2 DEF schedVars
<1>6. \A i \in ImagesOf(r) : /\ i \in Image /\ holders[i] # {}
                             /\ slotOf[i] \in Slots \cup Image /\ slotOf[i] # NoSlot
  <2> SUFFICES ASSUME NEW i \in ImagesOf(r)
               PROVE  /\ i \in Image /\ holders[i] # {}
                      /\ slotOf[i] \in Slots \cup Image /\ slotOf[i] # NoSlot
    OBVIOUS
  <2>1. i \in Image /\ "responder" \in holders[i]
    BY <1>1, <1>2, ImageIs DEF StillHeld
  <2>2. QED
    BY <1>1, <2>1 DEF SlotsApart
<1>7. /\ \A i \in ImagesOf(r) : result'[slotOf[i]] = NoResult
      /\ \A j \in Image : holders[j] # {} /\ j[1] # r => result'[slotOf[j]] = result[slotOf[j]]
  <2>1. \A s \in Slots \cup Image :
          result'[s] = IF \E i \in ImagesOf(r) : slotOf[i] = s THEN NoResult ELSE result[s]
    BY <1>1, <1>2 DEF TypeOK
  <2>2. \A i \in ImagesOf(r) : result'[slotOf[i]] = NoResult
    BY <1>6, <2>1
  <2>3. ASSUME NEW j \in Image, holders[j] # {}, j[1] # r
        PROVE  result'[slotOf[j]] = result[slotOf[j]]
    <3>1. slotOf[j] \in Slots \cup Image
      BY <1>1, <2>3 DEF SlotsApart
    <3>2. \A i \in ImagesOf(r) : slotOf[i] # slotOf[j]
      BY <1>1, <1>6, <2>3, ImageIs DEF SlotsApart
    <3>3. QED
      BY <2>1, <3>1, <3>2
  <2>4. QED
    BY <2>2, <2>3
<1>8. \A k \in 1..Size[r] :
        /\ result[slotOf[<<r, k>>]] \in {<<r, k>>, NoResult}
        /\ promise[<<r, k>>] = "ok" => result[slotOf[<<r, k>>]] = <<r, k>>
  <2> SUFFICES ASSUME NEW k \in 1..Size[r]
               PROVE  /\ result[slotOf[<<r, k>>]] \in {<<r, k>>, NoResult}
                      /\ promise[<<r, k>>] = "ok" => result[slotOf[<<r, k>>]] = <<r, k>>
    OBVIOUS
  <2>1. <<r, k>> \in ImagesOf(r)
    BY ImageIs
  <2>2. holders[<<r, k>>] # {}
    BY <1>6, <2>1
  <2>3. QED
    BY <1>1, <1>2, <2>1, <2>2 DEF SlotResults
<1> DEFINE new == [k \in 1..Size[r] |-> result[slotOf[<<r, k>>]]]
<1>9. /\ new \in Seq(Image \cup {NoResult}) /\ Len(new) = Size[r]
      /\ \A k \in 1..Size[r] : new[k] = result[slotOf[<<r, k>>]]
  <2>1. Size[r] \in Nat
    BY RequestPathAssumption
  <2>2. \A k \in 1..Size[r] : result[slotOf[<<r, k>>]] \in Image \cup {NoResult}
    BY <1>8, ImageIs
  <2>3. new \in [1..Size[r] -> Image \cup {NoResult}]
    BY <2>2
  <2>4. \A k \in 1..Size[r] : new[k] = result[slotOf[<<r, k>>]]
    OBVIOUS
  <2>5. \A S : \A m \in Nat : \A f \in [1..m -> S] : f \in Seq(S) /\ Len(f) = m
    OBVIOUS
  <2> HIDE DEF new
  <2>6. new \in Seq(Image \cup {NoResult}) /\ Len(new) = Size[r]
    BY <2>1, <2>3, <2>5
  <2>7. QED
    BY <2>4, <2>6
<1>10. body' = [body EXCEPT ![r] = new]
  BY <1>2
<1> HIDE DEF new
<1>11. body'[r] = new /\ \A q \in Requests : q # r => body'[q] = body[q]
  BY <1>1, <1>10 DEF TypeOK
<1>12. TypeOK'
  <2>1. body' \in [Requests -> Seq(Image \cup {NoResult})]
    BY <1>1, <1>9, <1>10 DEF TypeOK
  <2>2. result' \in [Slots \cup Image -> Image \cup {NoResult}]
    BY <1>1, <1>2 DEF TypeOK
  <2>3. wire' \in [Requests -> {"none", "queued", "closing", "sent", "dropped", "lost"}]
    BY <1>1, <1>2 DEF TypeOK
  <2>4. QED
    BY <1>1, <1>2, <1>3, <1>4, <2>1, <2>2, <2>3 DEF TypeOK, connVars, schedVars
<1>13. TakenInOrder' /\ SlotsApart' /\ SlotFirst'
  <2>1. \A q \in Requests : Taken(q)' = Taken(q)
    BY <1>5 DEF Taken
  <2>2. TakenInOrder'
    BY <1>1, <1>3, <2>1 DEF TakenInOrder
  <2>3. QED
    BY <1>1, <1>5, <2>2 DEF SlotsApart, SlotFirst
<1>14. StillHeld'
  BY <1>1, <1>3, <1>5 DEF StillHeld, InTheHandler
<1>15. SlotResults'
  <2> SUFFICES ASSUME NEW q \in Requests, NEW i \in ImagesOf(q)
               PROVE  /\ holders[i] # {} => result'[slotOf[i]] \in {i, NoResult}
                      /\ stage'[q] \in InTheHandler \cup {"deferred"} /\ promise[i] = "ok"
                           => result'[slotOf[i]] = i
    BY <1>5 DEF SlotResults
  <2>1. i \in Image /\ i[1] = q
    BY ImageIs
  <2>2. CASE q = r
    BY <1>3, <1>7, <2>2 DEF InTheHandler
  <2>3. CASE q # r
    <3>1. stage'[q] = stage[q]
      BY <1>3, <2>3
    <3>2. holders[i] # {} => result'[slotOf[i]] = result[slotOf[i]]
      BY <1>7, <2>1, <2>3
    <3>3. promise[i] = "ok" => slotOf[i] # NoSlot
      BY <1>1, <2>1 DEF SlotFirst
    <3>4. stage[q] \in InTheHandler \cup {"deferred"} /\ promise[i] = "ok" => holders[i] # {}
      BY <1>1, <3>3, NeedsItsSlot
    <3>5. QED
      BY <1>1, <3>1, <3>2, <3>4 DEF SlotResults
  <2>4. QED
    BY <2>2, <2>3
<1>16. BodySettled'
  <2> SUFFICES ASSUME NEW q \in Requests, body'[q] # <<>>
               PROVE  /\ stage'[q] \in {"sending", "completed", "done"}
                      /\ Len(body'[q]) = Size[q]
                      /\ \A i \in ImagesOf(q) : promise[i] \in Settled
    BY <1>5 DEF BodySettled
  <2>1. CASE q = r
    BY <1>2, <1>3, <1>9, <1>11, <2>1
  <2>2. CASE q # r
    BY <1>1, <1>3, <1>11, <2>2 DEF BodySettled
  <2>3. QED
    BY <2>1, <2>2
<1>17. RepliesAreOwn'
  <2> SUFFICES ASSUME NEW q \in Requests, NEW k \in 1..Len(body'[q])
               PROVE  /\ body'[q][k] \in {<<q, k>>, NoResult}
                      /\ promise[<<q, k>>] = "ok" => body'[q][k] = <<q, k>>
    BY <1>5 DEF RepliesAreOwn
  <2>1. CASE q = r
    <3>1. body'[q] = new /\ k \in 1..Size[r]
      BY <1>9, <1>11, <2>1
    <3>2. new[k] = result[slotOf[<<r, k>>]]
      BY <1>9, <3>1
    <3>3. QED
      BY <1>8, <2>1, <3>1, <3>2
  <2>2. CASE q # r
    BY <1>1, <1>11, <2>2 DEF RepliesAreOwn
  <2>3. QED
    BY <2>1, <2>2
<1>18. QED
  BY <1>4, <1>12, <1>13, <1>14, <1>15, <1>16, <1>17 DEF PathInv, SlotInv, ReplyInv

-----------------------------------------------------------------------------
(* The scheduler and its executors.                                        *)

\* Promises are set and items dropped, but no slot is written.
LEMMA ItemsInv ==
  ASSUME PathInv, TypeOK', UNCHANGED <<stage, inflight, slotOf, result, body>>,
         \A i \in Image : holders'[i] \in {holders[i], holders[i] \ {"item"}},
         \A i \in Image : promise'[i] \in {"queued", "running"} =>
            promise[i] \in {"queued", "running"} /\ holders'[i] = holders[i],
         \A i \in Image : promise'[i] = "ok" => promise[i] = "ok",
         \A i \in Image : promise[i] \in Settled \cup {"none"} => promise'[i] = promise[i]
  PROVE  PathInv'
<1>1. TypeOK /\ InflightExact /\ SlotInv /\ ReplyInv /\ StillHeld /\ SlotFirst
  BY DEF PathInv, SlotInv
<1>2. StillHeld'
  <2>1. \A i \in Image : promise'[i] \in {"queued", "running"} => "item" \in holders'[i]
    BY <1>1 DEF StillHeld
  <2>2. \A q \in Requests : \A i \in ImagesOf(q) :
       /\ stage'[q] \in InTheHandler /\ slotOf'[i] # NoSlot => "handler" \in holders'[i]
       /\ stage'[q] = "deferred" => "responder" \in holders'[i]
    <3> SUFFICES ASSUME NEW q \in Requests, NEW i \in ImagesOf(q)
                 PROVE  /\ stage[q] \in InTheHandler /\ slotOf[i] # NoSlot => "handler" \in holders'[i]
                        /\ stage[q] = "deferred" => "responder" \in holders'[i]
      OBVIOUS
    <3>1. i \in Image
      BY ImageIs
    <3>2. QED
      BY <1>1, <3>1 DEF StillHeld
  <2>3. QED
    BY <2>1, <2>2 DEF StillHeld
<1>3. SlotFirst'
  BY <1>1 DEF SlotFirst
<1>4. \A i \in Image : holders[i] = {} => holders'[i] = {}
  OBVIOUS
<1>5. SlotInv'
  BY <1>1, <1>2, <1>3, <1>4, SlotFrame
<1>6. ReplyInv'
  BY <1>1, ReplyFrame
<1>7. InflightExact'
  BY <1>1, CountStays
<1>8. QED
  BY <1>5, <1>6, <1>7 DEF PathInv

LEMMA IterateInv ==
  ASSUME PathInv, Iterate
  PROVE  PathInv'
<1>1. TypeOK /\ InflightExact /\ StillHeld
  BY DEF PathInv, SlotInv
<1>2. /\ holders' = [i \in Image |->
                   IF promise[i] \in Settled THEN holders[i] \ {"item"} ELSE holders[i]]
      /\ awake' = (Waiting # {})
      /\ UNCHANGED <<phase, inflight, misuse, connVars, stage, closes, slotOf, result, body, wire>>
  BY DEF Iterate
<1>3. PICK I \in SUBSET Waiting :
        promise' = [i \in Image |-> IF i \in I THEN "running" ELSE promise[i]]
  BY DEF Iterate
<1>4. \A i \in Image : /\ holders'[i] = IF promise[i] \in Settled THEN holders[i] \ {"item"} ELSE holders[i]
                       /\ promise'[i] = IF i \in I THEN "running" ELSE promise[i]
                       /\ i \in I => promise[i] = "queued"
  BY <1>2, <1>3 DEF Waiting
<1>5. /\ holders' \in [Image -> SUBSET {"handler", "item", "responder"}]
      /\ promise' \in [Image -> {"none", "queued", "running"} \cup Settled]
      /\ awake' \in BOOLEAN
  <2>1. holders' \in [Image -> SUBSET {"handler", "item", "responder"}]
    <3>1. \A i \in Image : holders[i] \in SUBSET {"handler", "item", "responder"}
      BY <1>1 DEF TypeOK
    <3>2. QED
      BY <1>2, <3>1
  <2>2. promise' \in [Image -> {"none", "queued", "running"} \cup Settled]
    <3>1. \A i \in Image : promise[i] \in {"none", "queued", "running"} \cup Settled
      BY <1>1 DEF TypeOK
    <3>2. QED
      BY <1>3, <3>1
  <2>3. QED
    BY <1>2, <2>1, <2>2
<1>6. TypeOK'
  BY <1>1, <1>2, <1>5 DEF TypeOK, connVars
<1>7. \A i \in Image : holders'[i] \in {holders[i], holders[i] \ {"item"}}
  BY <1>4
<1>8. \A i \in Image : promise'[i] \in {"queued", "running"} =>
            promise[i] \in {"queued", "running"} /\ holders'[i] = holders[i]
  BY <1>4 DEF Settled
<1>9. \A i \in Image : promise'[i] = "ok" => promise[i] = "ok"
  BY <1>4
<1>10. \A i \in Image : promise[i] \in Settled \cup {"none"} => promise'[i] = promise[i]
  BY <1>4 DEF Settled
<1>11. QED
  BY <1>2, <1>6, <1>7, <1>8, <1>9, <1>10, ItemsInv

LEMMA StopSchedulerInv ==
  ASSUME PathInv, StopScheduler
  PROVE  PathInv'
<1>1. TypeOK /\ InflightExact /\ StillHeld
  BY DEF PathInv, SlotInv
<1>2. /\ \A i \in Image : promise[i] # "running"
      /\ promise' = [i \in Image |->
                   IF promise[i] = "queued" THEN "message" ELSE promise[i]]
      /\ holders' = [i \in Image |-> holders[i] \ {"item"}]
      /\ awake' = FALSE
      /\ phase' = "stopped"
      /\ UNCHANGED <<inflight, misuse, connVars, stage, closes, slotOf, result, body, wire>>
  BY DEF StopScheduler
<1>3. \A i \in Image : /\ holders'[i] = holders[i] \ {"item"}
                       /\ promise'[i] = IF promise[i] = "queued" THEN "message" ELSE promise[i]
  BY <1>2
<1>4. holders' \in [Image -> SUBSET {"handler", "item", "responder"}]
  <2>1. \A i \in Image : holders[i] \in SUBSET {"handler", "item", "responder"}
    BY <1>1 DEF TypeOK
  <2>2. QED
    BY <1>2, <2>1
<1>5. promise' \in [Image -> {"none", "queued", "running"} \cup Settled]
  <2>1. \A i \in Image : promise[i] \in {"none", "queued", "running"} \cup Settled
    BY <1>1 DEF TypeOK
  <2>2. QED
    BY <1>2, <2>1 DEF Settled
<1>6. TypeOK'
  BY <1>1, <1>2, <1>4, <1>5 DEF TypeOK, connVars
<1>7. \A i \in Image : holders'[i] \in {holders[i], holders[i] \ {"item"}}
  BY <1>3
<1>8. \A i \in Image : promise'[i] \notin {"queued", "running"}
  BY <1>2, <1>3
<1>9. \A i \in Image : promise'[i] = "ok" => promise[i] = "ok"
  BY <1>3
<1>10. \A i \in Image : promise[i] \in Settled \cup {"none"} => promise'[i] = promise[i]
  BY <1>3 DEF Settled
<1>11. QED
  BY <1>2, <1>6, <1>7, <1>8, <1>9, <1>10, ItemsInv

\* An executor writes the slot of an image: nobody else is using that slot.
LEMMA ExecuteInv ==
  ASSUME PathInv, NEW n \in Image, Execute(n)
  PROVE  PathInv'
<1>1. /\ TypeOK /\ InflightExact /\ SlotInv /\ ReplyInv
      /\ TakenInOrder /\ SlotsApart /\ StillHeld /\ SlotFirst /\ SlotResults
  BY DEF PathInv, SlotInv
<1>2. /\ promise[n] = "running"
      /\ result' = [result EXCEPT ![slotOf[n]] = n]
      /\ promise' = [promise EXCEPT ![n] = "ok"]
      /\ UNCHANGED <<phase, inflight, misuse, connVars, stage, closes, slotOf, holders, awake,
                 body, wire>>
  BY DEF Execute
<1>3. "item" \in holders[n] /\ slotOf[n] \in Slots \cup Image /\ slotOf[n] # NoSlot
  <2>1. "item" \in holders[n]
    BY <1>1, <1>2 DEF StillHeld
  <2>2. QED
    BY <1>1, <2>1 DEF SlotsApart
<1>4. /\ result'[slotOf[n]] = n
      /\ \A x \in Slots \cup Image : x # slotOf[n] => result'[x] = result[x]
      /\ promise'[n] = "ok" /\ \A i \in Image : i # n => promise'[i] = promise[i]
  BY <1>1, <1>2, <1>3 DEF TypeOK
<1>5. TypeOK'
  <2>1. result' \in [Slots \cup Image -> Image \cup {NoResult}]
    BY <1>1, <1>2, <1>3 DEF TypeOK
  <2>2. promise' \in [Image -> {"none", "queued", "running"} \cup Settled]
    <3>1. "ok" \in {"none", "queued", "running"} \cup Settled
      BY DEF Settled
    <3>2. QED
      BY <1>1, <1>2, <3>1 DEF TypeOK
  <2>3. QED
    BY <1>1, <1>2, <2>1, <2>2 DEF TypeOK, connVars
<1>6. InflightExact'
  BY <1>1, <1>2, CountStays
<1>7. TakenInOrder' /\ SlotsApart' /\ SlotFirst'
  <2>1. \A q \in Requests : Taken(q)' = Taken(q)
    BY <1>2 DEF Taken
  <2>2. QED
    BY <1>1, <1>2, <1>3, <1>4, <2>1 DEF TakenInOrder, SlotsApart, SlotFirst
<1>8. StillHeld'
  <2>1. \A i \in Image : promise'[i] \in {"queued", "running"} => "item" \in holders[i]
    BY <1>1, <1>4 DEF StillHeld
  <2>2. QED
    BY <1>1, <1>2, <2>1 DEF StillHeld
<1>9. SlotResults'
  <2> SUFFICES ASSUME NEW q \in Requests, NEW i \in ImagesOf(q)
               PROVE  /\ holders[i] # {} => result'[slotOf[i]] \in {i, NoResult}
                      /\ stage[q] \in InTheHandler \cup {"deferred"} /\ promise'[i] = "ok"
                           => result'[slotOf[i]] = i
    BY <1>2 DEF SlotResults
  <2>1. i \in Image
    BY ImageIs
  <2>2. CASE i = n
    BY <1>4, <2>2
  <2>3. CASE i # n
    <3>1. promise'[i] = promise[i]
      BY <1>4, <2>1, <2>3
    <3>2. holders[i] # {} => result'[slotOf[i]] = result[slotOf[i]]
      <4>1. holders[i] # {} => slotOf[i] \in Slots \cup Image /\ slotOf[i] # slotOf[n]
        BY <1>1, <1>3, <2>1, <2>3 DEF SlotsApart
      <4>2. QED
        BY <1>4, <4>1
    <3>3. promise[i] = "ok" => slotOf[i] # NoSlot
      BY <1>1, <2>1 DEF SlotFirst
    <3>4. stage[q] \in InTheHandler \cup {"deferred"} /\ promise[i] = "ok" => holders[i] # {}
      BY <1>1, <3>3, NeedsItsSlot
    <3>5. QED
      BY <1>1, <3>1, <3>2, <3>4 DEF SlotResults
  <2>4. QED
    BY <2>2, <2>3
<1>10. ReplyInv'
  <2>1. \A i \in Image : promise[i] \in Settled => promise'[i] = promise[i]
    BY <1>2, <1>4 DEF Settled
  <2>2. QED
    BY <1>1, <1>2, <2>1, ReplyFrame
<1>11. QED
  BY <1>5, <1>6, <1>7, <1>8, <1>9, <1>10 DEF PathInv, SlotInv

-----------------------------------------------------------------------------
(* The theorems.                                                           *)

LEMMA InitPathInv == Init => PathInv
<1> SUFFICES ASSUME Init PROVE PathInv
  OBVIOUS
<1>1. InflightExact
  <2>1. {r \in Requests : stage[r] \in Counted} = {}
    BY DEF Init, Counted
  <2>2. QED
    BY <2>1, FS_EmptySet DEF Init, InflightExact
<1>2. TypeOK
  <2>1. 0 \in 0..Cardinality(Requests)
    BY RequestPathAssumption, FS_CardinalityType
  <2>2. <<>> \in Seq(Requests) /\ <<>> \in Seq(Image \cup {NoResult})
    OBVIOUS
  <2>3. QED
    BY <2>1, <2>2 DEF Init, TypeOK
<1>3. TakenInOrder
  <2> SUFFICES ASSUME NEW r \in Requests
               PROVE  /\ Taken(r) = {}
                      /\ \E m \in 0..Size[r] : Taken(r) = {<<r, k>> : k \in 1..m}
    BY DEF TakenInOrder, Init
  <2>1. Taken(r) = {}
    BY ImageIs DEF Init, Taken
  <2>2. 0 \in 0..Size[r] /\ 1..0 = {}
    BY RequestPathAssumption
  <2>3. QED
    BY <2>1, <2>2
<1>4. SlotsApart /\ SlotFirst
  BY DEF Init, SlotsApart, SlotFirst
<1>5. StillHeld
  BY DEF Init, StillHeld, InTheHandler
<1>6. SlotResults
  BY ImageIs DEF Init, SlotResults, InTheHandler
<1>7. BodySettled /\ RepliesAreOwn
  BY DEF Init, BodySettled, RepliesAreOwn
<1>8. QED
  BY <1>1, <1>2, <1>3, <1>4, <1>5, <1>6, <1>7 DEF PathInv, SlotInv, ReplyInv

LEMMA NextPathInv == PathInv /\ [Next]_vars => PathInv'
<1> SUFFICES ASSUME PathInv, [Next]_vars PROVE PathInv'
  OBVIOUS
<1>1. ASSUME NEW c \in Conns,
             Connect(c) \/ ClientCloses(c) \/ Enter(c) \/ RejectEarly(c) \/ ReadRefused(c)
      PROVE  PathInv'
  BY <1>1, OutsideInv, EnterInv, RejectEarlyInv
<1>2. ASSUME NEW r \in Requests, HandlerStep(r)
      PROVE  PathInv'
  BY <1>2, AcquireInv, SubmitInv, ReplyStepInv, DeferInv, DeferFailsInv DEF HandlerStep
<1>3. ASSUME NEW r \in Requests, ResponderStep(r)
      PROVE  PathInv'
  BY <1>3, QueueReplyInv, CompleteInv, DropSlotInv DEF ResponderStep
<1>4. ASSUME NEW r \in Requests, ClientSends(r) \/ SendReply(r) \/ ShutdownLater(r)
      PROVE  PathInv'
  BY <1>4, ClientSendsInv, OutsideInv
<1>5. ASSUME BeginDrain \/ ShutdownStep
      PROVE  PathInv'
  BY <1>5, OutsideInv, StopSchedulerInv DEF ShutdownStep
<1>6. CASE UNCHANGED vars
  <2>1. UNCHANGED <<slotVars, schedVars, body, stage, inflight, connVars, phase, misuse, closes, wire>>
    BY <1>6 DEF vars
  <2>2. TypeOK /\ InflightExact
    BY DEF PathInv
  <2>3. InflightExact' /\ inflight' \in 0..Cardinality(Requests)
    BY <2>1, <2>2, CountStays
  <2>4. TypeOK'
    BY <2>1, <2>2, <2>3 DEF TypeOK, slotVars, schedVars, connVars
  <2>5. QED
    BY <2>1, <2>3, <2>4, QuietInv
<1>7. QED
  BY <1>1, <1>2, <1>3, <1>4, <1>5, <1>6, ExecuteInv, IterateInv DEF Next

THEOREM PathInvariant == Spec => []PathInv
  BY InitPathInv, NextPathInv, PTL DEF Spec

(* inflightCount_ is the number of requests between the entry of onRequest *)
(* and their reply or complete(), whichever threads they are on: the drain *)
(* can rely on it.                                                         *)
THEOREM TheInflightCountIsExact == Spec => []InflightExact
<1>1. PathInv => InflightExact
  BY DEF PathInv
<1>2. QED
  BY <1>1, PathInvariant, PTL

(* The results in a deferred reply are those of its own images, in their   *)
(* places, or absent when a promise was set without one: no slot is reused *)
(* while an executor may still write it or a responder still read it.      *)
THEOREM RepliesHaveTheirOwnResults == Spec => []RepliesAreOwn
<1>1. PathInv => RepliesAreOwn
  BY DEF PathInv, ReplyInv
<1>2. QED
  BY <1>1, PathInvariant, PTL
=============================================================================
