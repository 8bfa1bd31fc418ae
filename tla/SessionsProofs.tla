---------------------------- MODULE SessionsProofs ----------------------------
(***************************************************************************)
(* Proofs about Sessions, for any clients, users and size of the pool: no  *)
(* connection is lost or used twice, a session that was logged out stays   *)
(* out unless a request that had it saved it later, and a user whom no two *)
(* requests worked on at a time has one session.                           *)
(***************************************************************************)
EXTENDS Sessions, FiniteSetTheorems, TLAPS

-----------------------------------------------------------------------------
(* The connections of the pool.                                            *)

Taken == {c \in Client : dbpc[c] \in {"verify", "replace", "held"}}

PoolInv ==
  /\ idle \in Nat
  /\ dbpc \in [Client -> DbPc]
  /\ dbUp \in BOOLEAN
  /\ dbUp \/ dbFailed
  /\ idle + Cardinality(Taken) <= PoolSize
  /\ dbFailed \/ idle + Cardinality(Taken) = PoolSize

LEMMA TakenFinite == IsFiniteSet(Taken) /\ Cardinality(Taken) \in Nat
<1>1. IsFiniteSet(Client) /\ Taken \subseteq Client
  BY DbAssumption, SessionsAssumption DEF Taken
<1>2. QED
  BY <1>1, FS_Subset, FS_CardinalityType

\* Who is woken had no connection and has none.
LEMMA NotifyTakesNone ==
  ASSUME NEW pcs \in [Client -> DbPc], NotifyOne(pcs)
  PROVE  /\ dbpc' \in [Client -> DbPc]
         /\ Taken' = {c \in Client : pcs[c] \in {"verify", "replace", "held"}}
<1>1. CASE dbpc' = pcs
  BY <1>1 DEF Taken
<1>2. CASE \E t \in Client : pcs[t] = "asleep" /\ dbpc' = [pcs EXCEPT ![t] = "out"]
  <2>1. PICK t \in Client : pcs[t] = "asleep" /\ dbpc' = [pcs EXCEPT ![t] = "out"]
    BY <1>2
  <2>2. dbpc' \in [Client -> DbPc]
    BY <2>1 DEF DbPc
  <2>3. \A c \in Client : dbpc'[c] = IF c = t THEN "out" ELSE pcs[c]
    BY <2>1
  <2>4. QED
    BY <2>1, <2>2, <2>3 DEF Taken
<1>3. QED
  BY <1>1, <1>2, SessionsAssumption DEF NotifyOne

\* A connection is taken, given back, or neither.
LEMMA PoolMoves ==
  ASSUME PoolInv, NEW c \in Client
  PROVE  /\ Pop(c) => idle' = idle - 1 /\ idle > 0 /\ c \notin Taken /\ Taken' = Taken \cup {c}
         /\ Sleep(c) \/ SpuriousDbWake(c) \/ Verify(c) => idle' = idle /\ Taken' = Taken
         /\ Replace(c) => /\ idle' = idle + (IF dbUp THEN 1 ELSE 0)
                          /\ c \in Taken /\ Taken' = Taken \ {c}
         /\ GiveBack(c) => idle' = idle + 1 /\ c \in Taken /\ Taken' = Taken \ {c}
         /\ Obtain(c) \/ SpuriousDbWake(c) \/ Replace(c) \/ GiveBack(c)
              => dbpc' \in [Client -> DbPc] /\ dbUp' = dbUp
<1>1. dbpc \in [Client -> DbPc]
  BY DEF PoolInv
<1>2. Pop(c) => /\ idle' = idle - 1 /\ idle > 0 /\ c \notin Taken /\ Taken' = Taken \cup {c}
                /\ dbpc' \in [Client -> DbPc] /\ dbUp' = dbUp
  BY <1>1 DEF Pop, Taken, DbPc
<1>3. Sleep(c) \/ SpuriousDbWake(c) \/ Verify(c)
        => idle' = idle /\ Taken' = Taken /\ dbpc' \in [Client -> DbPc] /\ dbUp' = dbUp
  <2>1. Sleep(c) => idle' = idle /\ Taken' = Taken /\ dbpc' \in [Client -> DbPc] /\ dbUp' = dbUp
    BY <1>1 DEF Sleep, Taken, DbPc
  <2>2. SpuriousDbWake(c)
          => idle' = idle /\ Taken' = Taken /\ dbpc' \in [Client -> DbPc] /\ dbUp' = dbUp
    BY <1>1 DEF SpuriousDbWake, Taken, DbPc
  <2>3. Verify(c) => idle' = idle /\ Taken' = Taken /\ dbpc' \in [Client -> DbPc] /\ dbUp' = dbUp
    BY <1>1 DEF Verify, Taken, DbPc
  <2>4. QED
    BY <2>1, <2>2, <2>3
<1> DEFINE out == [dbpc EXCEPT ![c] = "out"]
<1>4. /\ out \in [Client -> DbPc]
      /\ {d \in Client : out[d] \in {"verify", "replace", "held"}} = Taken \ {c}
  <2>1. out \in [Client -> DbPc] /\ \A d \in Client : out[d] = IF d = c THEN "out" ELSE dbpc[d]
    BY <1>1 DEF DbPc
  <2> HIDE DEF out
  <2>2. QED
    BY <2>1 DEF Taken
<1>5. NotifyOne(out) => dbpc' \in [Client -> DbPc] /\ Taken' = Taken \ {c}
  <2> HIDE DEF out
  <2>1. QED
    BY <1>4, NotifyTakesNone
<1>6. dbpc' = out => dbpc' \in [Client -> DbPc] /\ Taken' = Taken \ {c}
  BY <1>4 DEF Taken
<1>7. Replace(c) => /\ idle' = idle + (IF dbUp THEN 1 ELSE 0)
                    /\ c \in Taken /\ Taken' = Taken \ {c}
                    /\ dbpc' \in [Client -> DbPc] /\ dbUp' = dbUp
  <2> SUFFICES ASSUME Replace(c)
               PROVE  /\ idle' = idle + (IF dbUp THEN 1 ELSE 0)
                      /\ c \in Taken /\ Taken' = Taken \ {c}
                      /\ dbpc' \in [Client -> DbPc] /\ dbUp' = dbUp
    OBVIOUS
  <2>1. /\ dbpc[c] = "replace" /\ dbUp' = dbUp
        /\ IF dbUp THEN idle' = idle + 1 /\ NotifyOne(out) ELSE idle' = idle /\ dbpc' = out
    BY DEF Replace
  <2>2. c \in Taken
    BY <2>1 DEF Taken
  <2> HIDE DEF out
  <2>3. CASE dbUp
    BY <1>5, <2>1, <2>2, <2>3
  <2>4. CASE ~dbUp
    BY <1>6, <2>1, <2>2, <2>4 DEF PoolInv
  <2>5. QED
    BY <2>3, <2>4
<1>8. GiveBack(c) => /\ idle' = idle + 1 /\ c \in Taken /\ Taken' = Taken \ {c}
                     /\ dbpc' \in [Client -> DbPc] /\ dbUp' = dbUp
  BY <1>5 DEF GiveBack, Taken
<1>9. QED
  BY <1>2, <1>3, <1>7, <1>8 DEF Obtain

\* What any handler does with the pool keeps count of the connections.
LEMMA PoolStep ==
  ASSUME PoolInv, NEW c \in Client, UNCHANGED dbFailed,
         Obtain(c) \/ SpuriousDbWake(c) \/ Replace(c) \/ GiveBack(c)
  PROVE  PoolInv'
<1>1. /\ IsFiniteSet(Taken) /\ Cardinality(Taken) \in Nat /\ idle \in Nat
      /\ PoolSize \in Nat
  BY TakenFinite, DbAssumption DEF PoolInv
<1>2. /\ c \notin Taken => Cardinality(Taken \cup {c}) = Cardinality(Taken) + 1
      /\ c \in Taken => Cardinality(Taken \ {c}) = Cardinality(Taken) - 1
  BY <1>1, FS_AddElement, FS_RemoveElement
<1>3. dbpc' \in [Client -> DbPc] /\ dbUp' = dbUp
  BY PoolMoves
<1>4. \/ idle' + Cardinality(Taken') = idle + Cardinality(Taken) /\ idle' \in Nat
      \/ /\ ~dbUp /\ idle' \in Nat
         /\ idle' + Cardinality(Taken') <= idle + Cardinality(Taken)
  <2>1. CASE Pop(c)
    <3>1. idle' = idle - 1 /\ idle > 0 /\ c \notin Taken /\ Taken' = Taken \cup {c}
      BY <2>1, PoolMoves
    <3>2. QED
      BY <1>1, <1>2, <3>1
  <2>2. CASE Sleep(c) \/ SpuriousDbWake(c) \/ Verify(c)
    <3>1. idle' = idle /\ Taken' = Taken
      BY <2>2, PoolMoves
    <3>2. QED
      BY <1>1, <3>1
  <2>3. CASE Replace(c)
    <3>1. idle' = idle + (IF dbUp THEN 1 ELSE 0) /\ c \in Taken /\ Taken' = Taken \ {c}
      BY <2>3, PoolMoves
    <3>2. QED
      BY <1>1, <1>2, <3>1
  <2>4. CASE GiveBack(c)
    <3>1. idle' = idle + 1 /\ c \in Taken /\ Taken' = Taken \ {c}
      BY <2>4, PoolMoves
    <3>2. QED
      BY <1>1, <1>2, <3>1
  <2>5. QED
    BY <2>1, <2>2, <2>3, <2>4 DEF Obtain
<1>5. dbUp' \/ dbFailed'
  BY <1>3 DEF PoolInv
<1>6. /\ idle' + Cardinality(Taken') <= PoolSize
      /\ dbFailed' \/ idle' + Cardinality(Taken') = PoolSize
  <2>1. IsFiniteSet(Taken') /\ Cardinality(Taken') \in Nat
    <3>1. IsFiniteSet(Client) /\ Taken' \subseteq Client
      BY DbAssumption, SessionsAssumption DEF Taken
    <3>2. QED
      BY <3>1, FS_Subset, FS_CardinalityType
  <2>2. QED
    BY <1>1, <1>4, <2>1 DEF PoolInv
<1>7. QED
  BY <1>3, <1>4, <1>5, <1>6 DEF PoolInv

LEMMA PoolUnchanged ==
  ASSUME PoolInv, UNCHANGED <<dbVars, dbFailed>>
  PROVE  PoolInv'
BY DEF PoolInv, Taken, dbVars

LEMMA PoolNext ==
  ASSUME PoolInv, [Next]_vars
  PROVE  PoolInv'
<1> USE DEF dbRest
<1>1. ASSUME NEW c \in Client, NEW op, NEW u, NEW k, Ask(c, op, u, k)
      PROVE  PoolInv'
  BY <1>1, PoolUnchanged DEF Ask
<1>2. ASSUME NEW c \in Client, Query(c) PROVE PoolInv'
  BY <1>2, PoolStep DEF Query, sessionVars
<1>3. ASSUME NEW c \in Client, QueryThrows(c) PROVE PoolInv'
  BY <1>3, PoolStep DEF QueryThrows
<1>4. ASSUME NEW c \in Client, LookUp(c) \/ Exists(c) \/ Insert(c) \/ Select(c) PROVE PoolInv'
  BY <1>4, PoolStep DEF LookUp, Exists, Insert, Select, Answered
<1>5. ASSUME NEW c \in Client, \/ Load(c) \/ SaveLoaded(c) \/ Fill(c) \/ GoOnline(c) \/ Kick(c)
                              \/ Track(c) \/ End(c) \/ Offline(c) \/ Untrack(c)
      PROVE  PoolInv'
  BY <1>5, PoolUnchanged
     DEF Load, SaveLoaded, Fill, GoOnline, Kick, Track, End, Offline, Untrack
<1>6. CASE List \/ Sweep \/ Unlink \/ \E s \in SessionId : Expire(s)
  BY <1>6, PoolUnchanged DEF List, Sweep, Unlink, Expire
<1>7. CASE DbFails \/ DbRecovers
  <2>1. UNCHANGED <<idle, dbpc>> /\ Taken' = Taken /\ dbUp' \in BOOLEAN
        /\ (dbFailed => dbFailed') /\ (dbUp' \/ dbFailed')
    BY <1>7 DEF DbFails, DbRecovers, Taken, sessionVars, PoolInv
  <2>2. QED
    BY <2>1 DEF PoolInv
<1>8. CASE Restart
  <2>1. /\ idle' = PoolSize /\ dbpc' = [c \in Client |-> "out"] /\ dbUp' = dbUp
        /\ dbUp /\ dbFailed' = dbFailed
    BY <1>8 DEF Restart
  <2>2. Taken' = {} /\ dbpc' \in [Client -> DbPc]
    BY <2>1 DEF Taken, DbPc
  <2>3. Cardinality({}) = 0 /\ PoolSize \in Nat
    BY FS_EmptySet, DbAssumption
  <2>4. QED
    BY <2>1, <2>2, <2>3 DEF PoolInv
<1>9. CASE UNCHANGED vars
  BY <1>9, PoolUnchanged DEF vars, sessionVars
<1>10. QED
  BY <1>1, <1>2, <1>3, <1>4, <1>5, <1>6, <1>7, <1>8, <1>9 DEF Next, Handle

LEMMA PoolInit == Init => PoolInv
<1> SUFFICES ASSUME Init PROVE PoolInv
  OBVIOUS
<1>1. idle = PoolSize /\ dbpc = [c \in Client |-> "out"] /\ dbUp = TRUE
  BY SessionsAssumption DEF Init, DbInit
<1>2. Taken = {} /\ dbpc \in [Client -> DbPc]
  BY <1>1 DEF Taken, DbPc
<1>3. Cardinality({}) = 0 /\ PoolSize \in Nat
  BY FS_EmptySet, DbAssumption
<1>4. QED
  BY <1>1, <1>2, <1>3 DEF PoolInv

(* No connection is lost or used by two threads: the idle ones and the     *)
(* taken ones make up the pool (getConnection and its deleter), for any    *)
(* number of handlers, unless the database has been out of reach, and      *)
(* then they are never more than the pool had.                             *)
THEOREM TheConnectionsAreAccounted == Spec => []ConnectionsAccounted
<1>1. PoolInv => ConnectionsAccounted
  BY DEF PoolInv, ConnectionsAccounted, Taken
<1>2. QED
  BY <1>1, PoolInit, PoolNext, PTL DEF Spec

-----------------------------------------------------------------------------
(* Requests.                                                               *)

Pcs == {"idle", "login", "exists", "insert", "select", "load", "save", "fill", "goOnline",
        "kick", "track", "end", "offline", "untrack"}
Ops == {"none", "login", "register", "logout", "visit"}
Request == [pc : Pcs, op : Ops, user : User \cup {None}, sid : Nat, copy : User \cup {None}]

Requests ==
  /\ made \in Nat
  /\ handed \subseteq 0 .. made
  /\ h \in [Client -> Request]
  /\ \A c \in Client : h[c].sid <= made
  /\ \A s \in DOMAIN stored : stored[s] \in User \cup {None}

\* Nobody is logged in with a session that was logged out, and nobody has it to save.
Gone(s) == s \in ended \/ \E c \in Client : h[c].pc \in {"offline", "untrack"} /\ h[c].sid = s
OutInv ==
  /\ Requests
  /\ ended \subseteq 0 .. made
  /\ \A s : Gone(s) /\ s \notin missed =>
       s \notin DOMAIN stored /\ \A c \in Client : ~Holds(c, s)

\* A user nobody interfered with: a session with the user in it is the one tracked, or
\* that of the login under way.
TrackedAs(u, s) == u \in online /\ u \in DOMAIN tracked /\ tracked[u] = s
Entering(c, u, s) == /\ h[c].pc \in {"goOnline", "kick", "track"}
                     /\ h[c].user = u /\ h[c].sid = s
Settled(u) == \A s : LoggedInAs(s, u) => \/ TrackedAs(u, s)
                                         \/ \E c \in Client : Entering(c, u, s)
UnderWay(c, u) ==
  /\ h[c].pc = "save" /\ h[c].copy = u => TrackedAs(u, h[c].sid)
  /\ h[c].pc = "end" /\ h[c].user = u => TrackedAs(u, h[c].sid)
  /\ h[c].pc \in {"kick", "track"} /\ h[c].user = u => u \in online
  /\ h[c].pc = "track" /\ h[c].user = u => \A s : LoggedInAs(s, u) => s = h[c].sid
  /\ h[c].pc \in {"offline", "untrack"} /\ h[c].user = u => \A s : ~LoggedInAs(s, u)
Swept(u) == listed # {0} => \A s : LoggedInAs(s, u) => s \in listed
UserInv(u) ==
  /\ Reaches
  /\ u \notin Overlapped
  /\ Settled(u)
  /\ \A c \in Client : UnderWay(c, u)
  /\ Swept(u)
OneInv == Requests /\ \A u \in User \ disturbed : UserInv(u)

-----------------------------------------------------------------------------
(* What the steps do.                                                      *)

LEMMA IdleTyped == Idle \in Request /\ Idle.sid = 0 /\ Idle.pc = "idle"
BY DEF Idle, Request, Pcs, Ops

LEMMA RequestTyped ==
  ASSUME Requests, NEW c \in Client
  PROVE  /\ h[c] \in Request /\ h[c].sid \in 0 .. made /\ made \in Nat
         /\ h[c].user \in User \cup {None} /\ h[c].copy \in User \cup {None}
BY DEF Requests, Request

LEMMA GotoTyped ==
  ASSUME Requests, NEW c \in Client, NEW pc \in Pcs, NEW r, r = [h[c] EXCEPT !.pc = pc]
  PROVE  r \in Request /\ r.sid = h[c].sid /\ r.pc = pc /\ r.user = h[c].user
BY RequestTyped DEF Request, Pcs

LEMMA AfterFacts ==
  ASSUME NEW r \in Request
  PROVE  /\ After(r) \in Request /\ After(r).pc \in {"idle", "fill", "end"}
         /\ After(r).sid \in {0, r.sid}
         /\ After(r).pc \in {"fill", "end"} => After(r).sid = r.sid
         /\ After(r).pc = "end" => After(r).user = r.copy /\ r.copy \in User
<1> DEFINE f == [r EXCEPT !.pc = "fill", !.copy = None]
           e == [r EXCEPT !.pc = "end", !.user = r.copy, !.copy = None]
<1>1. f \in Request /\ f.pc = "fill" /\ f.sid = r.sid
  BY DEF Request, Pcs
<1>2. e \in Request /\ e.pc = "end" /\ e.sid = r.sid /\ e.user = r.copy
  BY DEF Request, Pcs
<1>3. After(r) = f \/ (After(r) = e /\ r.copy # None) \/ After(r) = Idle
  BY DEF After
<1>4. r.copy \in User \cup {None}
  BY DEF Request
<1> HIDE DEF f, e
<1>5. QED
  BY <1>1, <1>2, <1>3, <1>4, IdleTyped

\* Where the request of c goes from load, and what it has then.
Loaded(r) ==
  /\ r \in Request /\ r.pc \in {"idle", "save", "fill", "end"} /\ r.sid \in 0 .. made'
  /\ r.pc # "idle" => r.sid = made + 1 \/ r.sid \in DOMAIN stored
  /\ r.pc = "save" /\ r.copy # None => LoggedInAs(r.sid, r.copy)
  /\ r.pc = "end" => LoggedInAs(r.sid, r.user)

LEMMA LoadFacts ==
  ASSUME Requests, NEW c \in Client, Load(c)
  PROVE  /\ \E r : Step(c, r) /\ Loaded(r)
         /\ made' \in {made, made + 1} /\ handed' \subseteq 0 .. made'
<1> DEFINE k == h[c].sid
           held == k \in Active
           sid == IF held THEN k ELSE made + 1
           copy == IF held THEN stored[k] ELSE None
           r == [h[c] EXCEPT !.pc = "save", !.sid = sid, !.copy = copy]
<1>1. /\ made' = IF held THEN made ELSE made + 1
      /\ IF held /\ ~Dirty(r) THEN GoesOn(c, r) ELSE Step(c, r) /\ UNCHANGED handed
  BY DEF Load
<1>2. /\ h[c] \in Request /\ k \in 0 .. made /\ made \in Nat /\ handed \subseteq 0 .. made
      /\ (held => k \in DOMAIN stored)
  BY RequestTyped DEF Requests, Active
<1>3. copy \in User \cup {None} /\ sid \in 0 .. made' /\ sid \in Nat
  BY <1>1, <1>2 DEF Requests
<1>4. /\ sid = made + 1 \/ sid \in DOMAIN stored
      /\ copy # None => sid \in DOMAIN stored /\ stored[sid] = copy
  BY <1>2
<1>5. made' \in {made, made + 1} /\ made \in Nat /\ handed \subseteq 0 .. made'
  BY <1>1, <1>2
<1> HIDE DEF sid, copy, held
<1>6. r \in Request /\ r.pc = "save" /\ r.sid = sid /\ r.copy = copy
  BY <1>2, <1>3 DEF Request, Pcs
<1> HIDE DEF r
<1>7. Loaded(r)
  BY <1>3, <1>4, <1>6 DEF Loaded, LoggedInAs
<1>8. Loaded(After(r))
  <2>1. /\ After(r) \in Request /\ After(r).pc \in {"idle", "fill", "end"}
        /\ After(r).sid \in {0, sid} /\ (After(r).pc \in {"fill", "end"} => After(r).sid = sid)
        /\ (After(r).pc = "end" => After(r).user = copy /\ copy # None)
    BY <1>6, AfterFacts, SessionsAssumption
  <2>2. 0 \in 0 .. made'
    BY <1>5
  <2>3. QED
    BY <1>3, <1>4, <2>1, <2>2 DEF Loaded, LoggedInAs
<1>9. CASE held /\ ~Dirty(r)
  <2>1. Step(c, After(r)) /\ handed' \subseteq handed \cup {sid}
    BY <1>1, <1>6, <1>9 DEF GoesOn
  <2>2. QED
    BY <1>3, <1>5, <1>8, <2>1
<1>10. CASE ~(held /\ ~Dirty(r))
  BY <1>1, <1>5, <1>7, <1>10
<1>11. QED
  BY <1>9, <1>10

\* The same for save.
LEMMA SaveLoadedFacts ==
  ASSUME Requests, NEW c \in Client, SaveLoaded(c)
  PROVE  /\ h[c].pc = "save" /\ Save(h[c].sid, h[c].copy)
         /\ \E r \in Request : /\ Step(c, r) /\ r.pc \in {"idle", "fill", "end"}
                               /\ r.sid \in {0, h[c].sid}
                               /\ r.pc \in {"fill", "end"} => r.sid = h[c].sid
                               /\ r.pc = "end" => r.user = h[c].copy
         /\ made' = made /\ handed' \subseteq handed \cup {h[c].sid}
<1>1. /\ h[c].pc = "save" /\ Save(h[c].sid, h[c].copy) /\ made' = made
      /\ Step(c, After(h[c])) /\ handed' \subseteq handed \cup {h[c].sid}
  BY DEF SaveLoaded, GoesOn, At
<1>2. h[c] \in Request
  BY RequestTyped
<1>3. QED
  BY <1>1, <1>2, AfterFacts

\* The steps of a handler that has its session.
Settling(c) == Fill(c) \/ GoOnline(c) \/ Kick(c) \/ Track(c) \/ End(c) \/ Offline(c) \/ Untrack(c)
LEMMA SettlingFacts ==
  ASSUME Requests, NEW c \in Client, Settling(c)
  PROVE  /\ h[c].pc \in {"fill", "goOnline", "kick", "track", "end", "offline", "untrack"}
         /\ \E r \in Request :
              /\ Step(c, r) /\ r.pc \in {"idle", "goOnline", "kick", "track", "offline", "untrack"}
              /\ r.sid \in {0, h[c].sid}
              /\ r.pc # "idle" => r.user = h[c].user /\ r.sid = h[c].sid
              /\ r.pc = "offline" <=> h[c].pc = "end"
              /\ r.pc = "untrack" <=> h[c].pc = "offline"
         /\ made' = made /\ handed' \subseteq handed \cup {h[c].sid}
<1> USE DEF Goto, At
<1>1. /\ h[c].pc \in {"fill", "goOnline", "kick", "track", "end", "offline", "untrack"}
      /\ made' = made /\ handed' \subseteq handed \cup {h[c].sid}
  BY DEF Settling, Fill, GoOnline, Kick, Track, End, Offline, Untrack
<1>2. CASE Track(c) \/ Untrack(c)
  BY <1>2, IdleTyped DEF Track, Untrack
<1>3. CASE Fill(c) \/ GoOnline(c) \/ Kick(c) \/ End(c) \/ Offline(c)
  <2>1. PICK pc \in {"goOnline", "kick", "track", "offline", "untrack"} :
          /\ Step(c, [h[c] EXCEPT !.pc = pc])
          /\ pc = "offline" <=> h[c].pc = "end"
          /\ pc = "untrack" <=> h[c].pc = "offline"
    BY <1>3 DEF Fill, GoOnline, Kick, End, Offline
  <2> DEFINE r == [h[c] EXCEPT !.pc = pc]
  <2>2. pc \in Pcs /\ Step(c, r) /\ r = [h[c] EXCEPT !.pc = pc]
    BY <2>1 DEF Pcs
  <2> HIDE DEF r
  <2>3. r \in Request /\ r.sid = h[c].sid /\ r.pc = pc /\ r.user = h[c].user
    BY <2>2, GotoTyped
  <2>4. QED
    BY <1>1, <2>1, <2>2, <2>3
<1>4. QED
  BY <1>2, <1>3 DEF Settling

\* What they leave in the storage.
LEMMA StorageFacts ==
  ASSUME Requests, NEW c \in Client
  PROVE  /\ Load(c) => stored' = stored
         /\ SaveLoaded(c) \/ Settling(c) =>
              \A s \in DOMAIN stored' :
                \/ s \in DOMAIN stored /\ stored'[s] = stored[s]
                \/ SaveLoaded(c) /\ s = h[c].sid /\ stored'[s] = h[c].copy
                \/ Fill(c) /\ s = h[c].sid /\ stored'[s] = h[c].user
BY DEF Load, SaveLoaded, Settling, Fill, GoOnline, Kick, Track, End, Offline, Untrack,
       Save, Remove, Put, Without

\* The steps before the session is asked for.
Early(c) == Query(c) \/ QueryThrows(c) \/ LookUp(c) \/ Exists(c) \/ Insert(c) \/ Select(c)
LEMMA EarlyFacts ==
  ASSUME Requests, NEW c \in Client,
         Early(c) \/ \E op \in Ops, u \in User \cup {None}, k \in {0} \cup handed :
                       Ask(c, op, u, k) /\ op # "none"
  PROVE  /\ h' = h \/ \E r \in Request : /\ Step(c, r) /\ r.sid \in 0 .. made
                                         /\ r.pc \in {"idle", "login", "exists", "insert", "select", "load"}
         /\ h' = h \/ h[c].pc \in {"idle", "login", "exists", "insert", "select"}
         /\ UNCHANGED <<storage, linked, stored, made, handed, online, tracked, listed,
                        ended, missed, disturbed>>
<1>1. CASE Early(c)
  <2>1. UNCHANGED <<storage, linked, stored, made, handed, online, tracked, listed,
                    ended, missed, disturbed>>
    BY <1>1 DEF Early, Query, QueryThrows, LookUp, Exists, Insert, Select, Answered, sessionVars,
                history, dbRest
  <2>2. CASE h' = h
    BY <2>1, <2>2
  <2>3. CASE h' # h
    <3>1. /\ h[c].pc \in {"idle", "login", "exists", "insert", "select"}
          /\ \/ Step(c, Idle)
             \/ \E pc \in {"load", "insert", "select"} : Step(c, [h[c] EXCEPT !.pc = pc])
      BY <1>1, <2>3 DEF Early, Query, QueryThrows, LookUp, Exists, Insert, Select, Answered,
                        sessionVars, Querying, At
    <3>2. made \in Nat /\ h[c].sid \in 0 .. made
      BY RequestTyped
    <3>3. CASE Step(c, Idle)
      BY <2>1, <3>1, <3>2, <3>3, IdleTyped
    <3>4. CASE \E pc \in {"load", "insert", "select"} : Step(c, [h[c] EXCEPT !.pc = pc])
      <4>1. PICK pc \in {"load", "insert", "select"} : Step(c, [h[c] EXCEPT !.pc = pc])
        BY <3>4
      <4> DEFINE r == [h[c] EXCEPT !.pc = pc]
      <4>2. pc \in Pcs /\ Step(c, r) /\ r = [h[c] EXCEPT !.pc = pc]
        BY <4>1 DEF Pcs
      <4> HIDE DEF r
      <4>3. r \in Request /\ r.sid = h[c].sid /\ r.pc = pc
        BY <4>2, GotoTyped
      <4>4. QED
        BY <2>1, <3>1, <3>2, <4>2, <4>3
    <3>5. QED
      BY <3>1, <3>3, <3>4
  <2>4. QED
    BY <2>2, <2>3
<1>2. ASSUME NEW op \in Ops, NEW u \in User \cup {None}, NEW k \in {0} \cup handed,
             Ask(c, op, u, k), op # "none"
      PROVE  /\ \E r \in Request : /\ Step(c, r) /\ r.sid \in 0 .. made
                                   /\ r.pc \in {"idle", "login", "exists", "insert", "select", "load"}
             /\ h[c].pc = "idle"
             /\ UNCHANGED <<storage, linked, stored, made, handed, online, tracked, listed,
                            ended, missed, disturbed>>
  <2> DEFINE pc == First[op]
             r == [Idle EXCEPT !.pc = pc, !.op = op, !.user = u, !.sid = k]
  <2>1. /\ Step(c, r) /\ h[c].pc = "idle"
        /\ UNCHANGED <<storage, linked, stored, made, handed, online, tracked, listed,
                       ended, missed, disturbed>>
    BY <1>2 DEF Ask, At, history
  <2>2. pc \in {"login", "exists", "load"} /\ k \in 0 .. made /\ k \in Nat
    BY <1>2 DEF First, Ops, Requests
  <2> HIDE DEF pc
  <2>3. r \in Request /\ r.pc = pc /\ r.sid = k
    BY <2>2 DEF Request, Idle, Pcs
  <2> HIDE DEF r
  <2>4. QED
    BY <2>1, <2>2, <2>3
<1>3. QED
  BY <1>1, <1>2

\* The alternatives of Next, as the lemmas name them.
Asks(c) == \E op \in Ops, u \in User \cup {None}, k \in {0} \cup handed :
             Ask(c, op, u, k) /\ op # "none"
LEMMA NextCases ==
  ASSUME [Next]_vars
  PROVE  \/ \E c \in Client : Early(c) \/ Asks(c)
         \/ \E c \in Client : Load(c) \/ SaveLoaded(c) \/ Settling(c)
         \/ List \/ Sweep \/ \E s \in SessionId : Expire(s)
         \/ Unlink \/ Restart
         \/ UNCHANGED sessionVars \/ DbFails
<1>1. \A c \in Client : Handle(c) => Early(c) \/ Load(c) \/ SaveLoaded(c) \/ Settling(c)
  BY DEF Handle, Early, Settling
<1>2. \A c \in Client, u \in User : Ask(c, "register", u, 0) => Asks(c)
  BY DEF Asks, Ops
<1>3. \A c \in Client, k \in {0} \cup handed :
        /\ \A u \in User : Ask(c, "login", u, k) => Asks(c)
        /\ \A op \in {"logout", "visit"} : Ask(c, op, None, k) => Asks(c)
  BY DEF Asks, Ops
<1>4. DbRecovers => UNCHANGED sessionVars
  BY DEF DbRecovers
<1>5. UNCHANGED vars => UNCHANGED sessionVars
  BY DEF vars
<1>6. QED
  BY <1>1, <1>2, <1>3, <1>4, <1>5 DEF Next

LEMMA RequestsStep ==
  ASSUME Requests, NEW c \in Client, NEW r \in Request, Step(c, r), r.sid <= made',
         made' \in {made, made + 1}, handed' \subseteq 0 .. made',
         \A s \in DOMAIN stored' : stored'[s] \in User \cup {None}
  PROVE  Requests'
<1>1. made \in Nat /\ made' \in Nat /\ made <= made'
  BY DEF Requests
<1>2. h' \in [Client -> Request] /\ \A d \in Client : h'[d] = IF d = c THEN r ELSE h[d]
  BY DEF Step, Requests
<1>3. \A d \in Client : h'[d].sid <= made'
  <2> SUFFICES ASSUME NEW d \in Client PROVE h'[d].sid <= made'
    OBVIOUS
  <2>1. h[d].sid \in 0 .. made
    BY RequestTyped
  <2>2. QED
    BY <1>1, <1>2, <2>1
<1>4. QED
  BY <1>1, <1>2, <1>3 DEF Requests

LEMMA RequestsNext ==
  ASSUME Requests, [Next]_vars
  PROVE  Requests'
<1>1. ASSUME NEW c \in Client, Early(c) \/ Asks(c) PROVE Requests'
  <2>1. UNCHANGED <<stored, made, handed>>
    BY <1>1, EarlyFacts DEF Asks
  <2>2. CASE h' = h
    BY <2>1, <2>2 DEF Requests
  <2>3. CASE h' # h
    <3>1. PICK r \in Request : Step(c, r) /\ r.sid \in 0 .. made
      BY <1>1, <2>3, EarlyFacts DEF Asks
    <3>2. QED
      BY <2>1, <3>1, RequestsStep DEF Requests
  <2>4. QED
    BY <2>2, <2>3
<1>2. ASSUME NEW c \in Client, Load(c) PROVE Requests'
  <2>1. PICK r : Step(c, r) /\ Loaded(r)
    BY <1>2, LoadFacts
  <2>2. made' \in {made, made + 1} /\ handed' \subseteq 0 .. made' /\ stored' = stored
    BY <1>2, LoadFacts, StorageFacts
  <2>3. r \in Request /\ r.sid <= made'
    BY <2>1, <2>2 DEF Loaded, Requests
  <2>4. QED
    BY <2>1, <2>2, <2>3, RequestsStep DEF Requests
<1>3. ASSUME NEW c \in Client, SaveLoaded(c) \/ Settling(c) PROVE Requests'
  <2>1. PICK r \in Request : Step(c, r) /\ r.sid \in {0, h[c].sid}
    BY <1>3, SaveLoadedFacts, SettlingFacts
  <2>2. made' = made /\ handed' \subseteq handed \cup {h[c].sid}
    BY <1>3, SaveLoadedFacts, SettlingFacts
  <2>3. /\ h[c].sid \in 0 .. made /\ made \in Nat
        /\ h[c].user \in User \cup {None} /\ h[c].copy \in User \cup {None}
    BY RequestTyped
  <2>4. \A s \in DOMAIN stored' : stored'[s] \in User \cup {None}
    BY <1>3, <2>3, StorageFacts DEF Requests
  <2>5. r.sid <= made' /\ handed' \subseteq 0 .. made'
    BY <2>1, <2>2, <2>3 DEF Requests
  <2>6. QED
    BY <2>1, <2>2, <2>4, <2>5, RequestsStep
<1>4. CASE List \/ Sweep \/ Unlink \/ DbFails \/ UNCHANGED sessionVars
  <2>1. UNCHANGED <<stored, made, handed, h>>
    BY <1>4 DEF List, Sweep, Unlink, DbFails, sessionVars
  <2>2. QED
    BY <2>1 DEF Requests
<1>5. ASSUME NEW s \in SessionId, Expire(s) PROVE Requests'
  <2>1. UNCHANGED <<made, handed, h>> /\ stored' = Without(stored, s)
    BY <1>5 DEF Expire
  <2>2. QED
    BY <2>1 DEF Requests, Without
<1>6. CASE Restart
  <2>1. UNCHANGED <<made, handed>> /\ h' = [c \in Client |-> Idle]
        /\ (stored' = stored \/ stored' = [s \in {} |-> None])
    BY <1>6 DEF Restart
  <2>2. made \in Nat /\ h' \in [Client -> Request] /\ \A c \in Client : h'[c].sid <= made'
    BY <2>1, IdleTyped DEF Requests
  <2>3. QED
    BY <2>1, <2>2 DEF Requests
<1>7. QED
  BY <1>1, <1>2, <1>3, <1>4, <1>5, <1>6, NextCases

-----------------------------------------------------------------------------
(* A session that was logged out stays out: it is not in the storage, and  *)
(* only a request that has it to save could put it back.                   *)

\* A step of the request of c: what is saved was held, and what is held was stored or new.
LEMMA OutStep ==
  ASSUME OutInv, NEW c \in Client, NEW r \in Request, Step(c, r),
         r.pc \in {"save", "fill"} => \/ r.sid = made + 1 \/ r.sid \in DOMAIN stored
                                      \/ Holds(c, r.sid),
         \A s \in DOMAIN stored' : s \in DOMAIN stored \/ Holds(c, s),
         r.pc \in {"offline", "untrack"} =>
           h[c].pc \in {"offline", "untrack"} /\ r.sid = h[c].sid,
         ended' = ended, missed' = missed
  PROVE  \A s : Gone(s)' /\ s \notin missed' =>
           s \notin DOMAIN stored' /\ \A d \in Client : ~Holds(d, s)'
<1> SUFFICES ASSUME NEW s, Gone(s)', s \notin missed'
             PROVE  s \notin DOMAIN stored' /\ \A d \in Client : ~Holds(d, s)'
  OBVIOUS
<1>1. \A d \in Client : h'[d] = IF d = c THEN r ELSE h[d]
  BY DEF Step, OutInv, Requests
<1>2. Gone(s)
  <2>1. CASE s \in ended'
    BY <2>1 DEF Gone
  <2>2. ASSUME NEW d \in Client, h'[d].pc \in {"offline", "untrack"}, h'[d].sid = s PROVE Gone(s)
    BY <1>1, <2>2 DEF Gone
  <2>3. QED
    BY <2>1, <2>2 DEF Gone
<1>3. s \notin DOMAIN stored /\ \A d \in Client : ~Holds(d, s)
  BY <1>2 DEF OutInv
<1>4. s # made + 1
  <2>1. made \in Nat /\ \A d \in Client : h[d].sid \in 0 .. made
    BY RequestTyped DEF OutInv, Requests
  <2>2. QED
    BY <1>2, <2>1 DEF Gone, OutInv
<1>5. QED
  BY <1>1, <1>3, <1>4 DEF Holds

LEMMA OutNext ==
  ASSUME OutInv, [Next]_vars
  PROVE  OutInv'
<1>1. Requests /\ Requests'
  BY RequestsNext DEF OutInv
<1> DEFINE Out == /\ ended' \subseteq 0 .. made'
                  /\ \A s : Gone(s)' /\ s \notin missed' =>
                       s \notin DOMAIN stored' /\ \A d \in Client : ~Holds(d, s)'
<1>2. made \in Nat /\ ended \subseteq 0 .. made
  BY DEF OutInv, Requests
<1>3. ASSUME UNCHANGED <<h, ended, missed, made>>, DOMAIN stored' \subseteq DOMAIN stored
      PROVE  Out
  BY <1>3 DEF OutInv, Gone, Holds
<1>4. ASSUME NEW c \in Client, Early(c) \/ Asks(c) PROVE Out
  <2>1. UNCHANGED <<stored, made, ended, missed>>
    BY <1>1, <1>4, EarlyFacts DEF Asks
  <2>2. CASE h' = h
    BY <1>3, <2>1, <2>2
  <2>3. CASE h' # h
    <3>1. PICK r \in Request : Step(c, r) /\ r.pc \in {"idle", "login", "exists", "insert", "select", "load"}
      BY <1>1, <1>4, <2>3, EarlyFacts DEF Asks
    <3>2. QED
      BY <1>2, <2>1, <3>1, OutStep
  <2>4. QED
    BY <2>2, <2>3
<1>5. ASSUME NEW c \in Client, Load(c) PROVE Out
  <2>1. PICK r : Step(c, r) /\ Loaded(r)
    BY <1>1, <1>5, LoadFacts
  <2>2. UNCHANGED <<ended, missed>> /\ stored' = stored /\ made' \in {made, made + 1}
    BY <1>1, <1>5, LoadFacts, StorageFacts DEF Load, history
  <2>3. r \in Request /\ r.pc \in {"idle", "save", "fill", "end"}
        /\ (r.pc # "idle" => r.sid = made + 1 \/ r.sid \in DOMAIN stored)
    BY <2>1 DEF Loaded
  <2>4. \A s : Gone(s)' /\ s \notin missed' =>
          s \notin DOMAIN stored' /\ \A d \in Client : ~Holds(d, s)'
    BY <2>1, <2>2, <2>3, OutStep
  <2>5. QED
    BY <1>2, <2>2, <2>4
<1>6. ASSUME NEW c \in Client, SaveLoaded(c) PROVE Out
  <2>1. PICK r \in Request : /\ Step(c, r) /\ r.pc \in {"idle", "fill", "end"}
                             /\ r.pc \in {"fill", "end"} => r.sid = h[c].sid
    BY <1>1, <1>6, SaveLoadedFacts
  <2>2. UNCHANGED <<ended, missed, made>> /\ h[c].pc = "save"
    BY <1>6 DEF SaveLoaded, history, At
  <2>3. \A s \in DOMAIN stored' : s \in DOMAIN stored \/ Holds(c, s)
    BY <1>6, <2>2 DEF SaveLoaded, Save, Put, Holds
  <2>4. r.pc \in {"save", "fill"} => Holds(c, r.sid)
    BY <2>1, <2>2 DEF Holds
  <2>5. QED
    BY <1>2, <2>1, <2>2, <2>3, <2>4, OutStep
<1>7. ASSUME NEW c \in Client, Fill(c) \/ GoOnline(c) \/ Kick(c) \/ Track(c) \/ Offline(c)
      PROVE  Out
  <2>1. PICK r \in Request :
          /\ Step(c, r) /\ r.pc \in {"idle", "goOnline", "kick", "track", "offline", "untrack"}
          /\ r.pc # "idle" => r.sid = h[c].sid
          /\ r.pc = "offline" <=> h[c].pc = "end"
          /\ r.pc = "untrack" <=> h[c].pc = "offline"
    BY <1>1, <1>7, SettlingFacts DEF Settling
  <2>2. UNCHANGED <<ended, missed, made>> /\ h[c].pc # "end"
    BY <1>7 DEF Fill, GoOnline, Kick, Track, Offline, history, At
  <2>3. \A s \in DOMAIN stored' : s \in DOMAIN stored \/ Holds(c, s)
    BY <1>7 DEF Fill, GoOnline, Kick, Track, Offline, Save, Remove, Put, Without, Holds, At
  <2>4. QED
    BY <1>2, <2>1, <2>2, <2>3, OutStep
<1>8. ASSUME NEW c \in Client, End(c) PROVE Out
  <2> DEFINE x == h[c].sid
             r == [h[c] EXCEPT !.pc = "offline"]
             clean == Reaches /\ ~\E d \in Client \ {c} : Holds(d, x)
  <2>1. /\ h[c].pc = "end" /\ Remove(x) /\ Step(c, r) /\ UNCHANGED <<ended, made>>
        /\ missed' = IF clean THEN missed \ {x} ELSE missed \cup {x}
    BY <1>8 DEF End, At, Goto
  <2>2. r.sid = x /\ r.pc = "offline"
    <3>1. "offline" \in Pcs
      BY DEF Pcs
    <3>2. QED
      BY <1>1, <3>1, GotoTyped
  <2> HIDE DEF r
  <2>3. \A d \in Client : h'[d] = IF d = c THEN r ELSE h[d]
    BY <1>1, <2>1 DEF Step, Requests
  <2>4. ASSUME NEW s, Gone(s)', s \notin missed'
        PROVE  s \notin DOMAIN stored' /\ \A d \in Client : ~Holds(d, s)'
    <3>1. CASE s = x
      <4>1. clean
        BY <2>1, <2>4, <3>1
      <4>2. x \notin DOMAIN stored'
        BY <2>1, <4>1 DEF Remove, Without
      <4>3. QED
        BY <2>2, <2>3, <3>1, <4>1, <4>2 DEF Holds
    <3>2. CASE s # x
      <4>1. s \notin missed
        BY <2>1, <2>4, <3>2
      <4>2. Gone(s)
        BY <2>1, <2>2, <2>3, <2>4, <3>2 DEF Gone
      <4>3. s \notin DOMAIN stored /\ \A d \in Client : ~Holds(d, s)
        BY <4>1, <4>2 DEF OutInv
      <4>4. DOMAIN stored' \subseteq DOMAIN stored
        BY <2>1 DEF Remove, Without
      <4>5. QED
        BY <2>2, <2>3, <4>3, <4>4 DEF Holds
    <3>3. QED
      BY <3>1, <3>2
  <2>5. QED
    BY <1>2, <2>1, <2>4
<1>9. ASSUME NEW c \in Client, Untrack(c) PROVE Out
  <2>1. /\ h[c].pc = "untrack" /\ Step(c, Idle) /\ UNCHANGED <<stored, made, missed>>
        /\ ended' = ended \cup {h[c].sid}
    BY <1>9 DEF Untrack, At
  <2>2. \A d \in Client : h'[d] = IF d = c THEN Idle ELSE h[d]
    BY <1>1, <2>1 DEF Step, Requests
  <2>3. h[c].sid \in 0 .. made
    BY <1>1, RequestTyped
  <2>4. \A s : Gone(s)' => Gone(s)
    BY <2>1, <2>2, IdleTyped DEF Gone
  <2>5. \A s : \A d \in Client : Holds(d, s)' => Holds(d, s)
    BY <2>2, IdleTyped DEF Holds
  <2>6. QED
    BY <1>2, <2>1, <2>3, <2>4, <2>5 DEF OutInv
<1>10. ASSUME \/ List \/ Sweep \/ Unlink \/ DbFails \/ UNCHANGED sessionVars
              \/ \E s \in SessionId : Expire(s)
       PROVE  Out
  <2>1. UNCHANGED <<h, ended, missed, made>> /\ DOMAIN stored' \subseteq DOMAIN stored
    BY <1>10 DEF List, Sweep, Unlink, DbFails, sessionVars, Expire, history, Without
  <2>2. QED
    BY <1>3, <2>1
<1>11. ASSUME Restart PROVE Out
  <2>1. /\ UNCHANGED <<ended, missed, made>> /\ h' = [c \in Client |-> Idle]
        /\ (stored' = stored \/ stored' = [s \in {} |-> None])
    BY <1>11 DEF Restart, history
  <2>2. \A s : Gone(s)' => Gone(s)
    BY <2>1, IdleTyped DEF Gone
  <2>3. \A s : \A d \in Client : ~Holds(d, s)'
    BY <2>1, IdleTyped DEF Holds
  <2>4. QED
    BY <1>2, <2>1, <2>2, <2>3 DEF OutInv
<1>12. Out
  BY <1>4, <1>5, <1>6, <1>7, <1>8, <1>9, <1>10, <1>11, NextCases DEF Settling
<1>13. QED
  BY <1>1, <1>12 DEF OutInv

LEMMA RequestsInit == Init => Requests
<1>1. Init => h = [c \in Client |-> Idle] /\ made = 0 /\ handed = {} /\ stored = [s \in {} |-> None]
  BY DEF Init
<1>2. QED
  BY <1>1, IdleTyped DEF Requests

(* A session whose logout was acknowledged logs nobody in again, in memory *)
(* and with Redis (LogoutHandler, getSession): no request that comes with  *)
(* its cookie, and nothing else, puts it back in the storage, unless its   *)
(* removal did not reach Redis or found a request that had the session     *)
(* and saved it afterwards.                                                *)
THEOREM WhoLoggedOutStaysOut == Spec => []LoggedOutStaysOut
<1>1. Init => OutInv
  <2>1. Init => /\ ended = {} /\ h = [c \in Client |-> Idle]
    BY DEF Init
  <2>2. QED
    BY <2>1, IdleTyped, RequestsInit DEF OutInv, Gone
<1>2. OutInv /\ [Next]_vars => OutInv'
  BY OutNext
<1>3. OutInv => LoggedOutStaysOut
  BY DEF OutInv, Gone, LoggedOutStaysOut, LoggedInAs
<1>4. QED
  BY <1>1, <1>2, <1>3, PTL DEF Spec

-----------------------------------------------------------------------------
(* A user has one session.                                                 *)

\* Watch: who is not disturbed has one request at work, or the cleanup.
LEMMA WatchFacts ==
  ASSUME NEW u \in User, u \notin disturbed', Watch
  PROVE  u \notin disturbed /\ u \notin Overlapped'
BY DEF Watch

\* Only the request of c is about u, if it is.
LEMMA AloneFacts ==
  ASSUME NEW u \in User, u \notin Overlapped, NEW c \in Client, u \in About(c)
  PROVE  listed = {0} /\ \A d \in Client \ {c} : u \notin About(d)
BY DEF Overlapped

\* A request that is not about u promises nothing of it.
LEMMA AsideFacts ==
  ASSUME NEW u \in User, NEW c \in Client
  PROVE  u \notin About(c) => UnderWay(c, u) /\ \A s : ~Entering(c, u, s)
BY DEF About, UnderWay, Entering

\* The request of c moves and is not about u: nothing changes for u but that it may be
\* logged out.
LEMMA AsideStep ==
  ASSUME Requests, NEW u \in User, UserInv(u), u \notin Overlapped',
         NEW c \in Client, NEW r \in Request, h' = h \/ Step(c, r),
         u \notin About(c), u \notin About(c)',
         \A s : LoggedInAs(s, u)' => LoggedInAs(s, u),
         u \in online <=> u \in online',
         u \in DOMAIN tracked <=> u \in DOMAIN tracked',
         u \in DOMAIN tracked => tracked'[u] = tracked[u],
         UNCHANGED <<storage, linked, listed>>
  PROVE  UserInv(u)'
<1>1. \A d \in Client \ {c} : h'[d] = h[d]
  BY DEF Step, Requests
<1>2. \A s : TrackedAs(u, s)' <=> TrackedAs(u, s)
  BY DEF TrackedAs
<1>3. Settled(u)'
  <2> SUFFICES ASSUME NEW s, LoggedInAs(s, u)'
               PROVE  TrackedAs(u, s)' \/ \E d \in Client : Entering(d, u, s)'
    BY DEF Settled
  <2>1. TrackedAs(u, s) \/ \E d \in Client : Entering(d, u, s)
    BY DEF UserInv, Settled
  <2>2. \A d \in Client : Entering(d, u, s) => d # c /\ Entering(d, u, s)'
    BY <1>1, AsideFacts DEF Entering
  <2>3. QED
    BY <1>2, <2>1, <2>2
<1>4. ASSUME NEW d \in Client PROVE UnderWay(d, u)'
  <2>1. CASE d = c
    <3>1. (h'[c].pc = "save" => h'[c].copy # u)
          /\ (h'[c].pc \in {"kick", "track", "end", "offline", "untrack"} => h'[c].user # u)
      BY DEF About
    <3>2. QED
      BY <2>1, <3>1 DEF UnderWay
  <2>2. CASE d # c
    <3>1. UnderWay(d, u) /\ h'[d] = h[d]
      BY <1>1, <2>2 DEF UserInv
    <3>2. QED
      BY <1>2, <3>1 DEF UnderWay
  <2>3. QED
    BY <2>1, <2>2
<1>5. Swept(u)'
  BY DEF Swept, UserInv
<1>6. Reaches'
  BY DEF Reaches, UserInv
<1>7. QED
  BY <1>3, <1>4, <1>5, <1>6 DEF UserInv

\* The request of c moves and is about u after it: what is left to see is its own promise
\* and where the sessions of u are; the cleanup is not running.
LEMMA AboutStep ==
  ASSUME Requests, NEW u \in User, UserInv(u), u \notin Overlapped',
         NEW c \in Client, NEW r, Step(c, r), u \in About(c) \/ u \in About(c)',
         UNCHANGED <<storage, linked, listed>>,
         Settled(u)', UnderWay(c, u)'
  PROVE  UserInv(u)'
<1>1. \A d \in Client \ {c} : h'[d] = h[d]
  BY DEF Step, Requests
<1>2. listed' = {0} /\ \A d \in Client \ {c} : u \notin About(d)'
  <2>1. CASE u \in About(c)'
    BY <2>1 DEF Overlapped
  <2>2. CASE u \in About(c)
    <3>1. listed = {0} /\ \A d \in Client \ {c} : u \notin About(d)
      BY <2>2, AloneFacts DEF UserInv
    <3>2. \A d \in Client \ {c} : About(d)' = About(d)
      BY <1>1 DEF About
    <3>3. QED
      BY <3>1, <3>2
  <2>3. QED
    BY <2>1, <2>2
<1>3. ASSUME NEW d \in Client \ {c} PROVE UnderWay(d, u)'
  <2>1. (h'[d].pc = "save" => h'[d].copy # u)
        /\ (h'[d].pc \in {"kick", "track", "end", "offline", "untrack"} => h'[d].user # u)
    BY <1>2 DEF About
  <2>2. QED
    BY <2>1 DEF UnderWay
<1>4. Swept(u)' /\ Reaches'
  BY <1>2 DEF Swept, Reaches, UserInv
<1>5. QED
  BY <1>3, <1>4 DEF UserInv

\* What the request of c finds when it is the only one about u.
LEMMA AboutFinds ==
  ASSUME NEW u \in User, UserInv(u), NEW c \in Client,
         \A d \in Client \ {c} : u \notin About(d),
         NEW s, LoggedInAs(s, u)
  PROVE  TrackedAs(u, s) \/ Entering(c, u, s)
<1>1. TrackedAs(u, s) \/ \E d \in Client : Entering(d, u, s)
  BY DEF UserInv, Settled
<1>2. \A d \in Client \ {c} : ~Entering(d, u, s)
  BY AsideFacts
<1>3. QED
  BY <1>1, <1>2

\* Nobody else was about u before a step of c that is about it.
LEMMA OthersAside ==
  ASSUME Requests, NEW u \in User, UserInv(u), u \notin Overlapped',
         NEW c \in Client, NEW r, Step(c, r), u \in About(c) \/ u \in About(c)'
  PROVE  \A d \in Client \ {c} : u \notin About(d)
<1>1. CASE u \in About(c)
  BY <1>1, AloneFacts DEF UserInv
<1>2. CASE u \in About(c)'
  <2>1. \A d \in Client \ {c} : u \notin About(d)'
    BY <1>2 DEF Overlapped
  <2>2. \A d \in Client \ {c} : About(d)' = About(d)
    BY DEF Step, Requests, About
  <2>3. QED
    BY <2>1, <2>2
<1>3. QED
  BY <1>1, <1>2

LEMMA UserLoad ==
  ASSUME Requests, NEW u \in User, UserInv(u), u \notin Overlapped',
         NEW c \in Client, Load(c)
  PROVE  UserInv(u)'
<1>1. PICK r : Step(c, r) /\ Loaded(r)
  BY LoadFacts
<1>2. /\ UNCHANGED <<stored, online, tracked, listed, storage, linked>> /\ h[c].pc = "load"
  BY DEF Load, At, dbRest
<1>3. /\ r \in Request /\ r.pc \in {"idle", "save", "fill", "end"} /\ h'[c] = r
      /\ \A d \in Client \ {c} : h'[d] = h[d]
  BY <1>1 DEF Step, Requests, Loaded
<1>4. u \notin About(c) /\ \A s : LoggedInAs(s, u)' <=> LoggedInAs(s, u)
  BY <1>2 DEF About, LoggedInAs
<1>5. CASE u \notin About(c)'
  BY <1>1, <1>2, <1>3, <1>4, <1>5, AsideStep
<1>6. CASE u \in About(c)'
  <2>1. (r.pc = "save" /\ r.copy = u) \/ (r.pc = "end" /\ r.user = u)
    BY <1>3, <1>6 DEF About
  <2>2. LoggedInAs(r.sid, u)
    BY <1>1, <2>1, SessionsAssumption DEF Loaded
  <2>3. \A d \in Client \ {c} : u \notin About(d)
    BY <1>1, <1>6, OthersAside
  <2>4. \A s : LoggedInAs(s, u) => TrackedAs(u, s)
    BY <1>4, <2>3, AboutFinds, AsideFacts
  <2>5. \A s : TrackedAs(u, s)' <=> TrackedAs(u, s)
    BY <1>2 DEF TrackedAs
  <2>6. Settled(u)'
    BY <1>4, <2>4, <2>5 DEF Settled
  <2>7. UnderWay(c, u)'
    BY <1>3, <2>2, <2>4, <2>5 DEF UnderWay
  <2>8. QED
    BY <1>1, <1>2, <1>6, <2>6, <2>7, AboutStep
<1>7. QED
  BY <1>5, <1>6

LEMMA UserSaveLoaded ==
  ASSUME Requests, NEW u \in User, UserInv(u), u \notin Overlapped',
         NEW c \in Client, SaveLoaded(c)
  PROVE  UserInv(u)'
<1>1. PICK r \in Request : /\ Step(c, r) /\ r.pc \in {"idle", "fill", "end"}
                           /\ r.pc \in {"fill", "end"} => r.sid = h[c].sid
                           /\ r.pc = "end" => r.user = h[c].copy
  BY SaveLoadedFacts
<1>2. /\ UNCHANGED <<online, tracked, listed, storage, linked>> /\ h[c].pc = "save"
      /\ Save(h[c].sid, h[c].copy)
  BY DEF SaveLoaded, At, dbRest
<1>3. h'[c] = r /\ \A d \in Client \ {c} : h'[d] = h[d]
  BY <1>1 DEF Step, Requests
<1>4. \A s : TrackedAs(u, s)' <=> TrackedAs(u, s)
  BY <1>2 DEF TrackedAs
<1>5. \A s : LoggedInAs(s, u)' => LoggedInAs(s, u) \/ (s = h[c].sid /\ h[c].copy = u)
  BY <1>2 DEF LoggedInAs, Save, Put
<1>6. CASE h[c].copy # u /\ h[c].user # u
  <2>1. u \notin About(c) /\ u \notin About(c)'
    BY <1>1, <1>2, <1>3, <1>6 DEF About
  <2>2. QED
    BY <1>1, <1>2, <1>5, <1>6, <2>1, AsideStep
<1>7. CASE h[c].copy # u /\ h[c].user = u
  <2>1. u \notin About(c) /\ u \notin About(c)'
    BY <1>1, <1>2, <1>3, <1>7 DEF About
  <2>2. QED
    BY <1>1, <1>2, <1>5, <1>7, <2>1, AsideStep
<1>8. CASE h[c].copy = u
  <2>1. u \in About(c) /\ TrackedAs(u, h[c].sid)
    BY <1>2, <1>8 DEF About, UserInv, UnderWay
  <2>2. \A d \in Client \ {c} : u \notin About(d)
    BY <1>1, <2>1, OthersAside
  <2>3. \A s : LoggedInAs(s, u)' => TrackedAs(u, s)'
    <3> SUFFICES ASSUME NEW s, LoggedInAs(s, u)' PROVE TrackedAs(u, s)
      BY <1>4
    <3>1. ~Entering(c, u, s)
      BY <1>2 DEF Entering
    <3>2. QED
      BY <1>5, <2>1, <2>2, <3>1, AboutFinds
  <2>4. Settled(u)'
    BY <2>3 DEF Settled
  <2>5. UnderWay(c, u)'
    BY <1>1, <1>3, <1>4, <2>1 DEF UnderWay
  <2>6. QED
    BY <1>1, <1>2, <2>1, <2>4, <2>5, AboutStep
<1>9. QED
  BY <1>6, <1>7, <1>8

\* The steps of a handler that has its session, for another user.
LEMMA UserOther ==
  ASSUME Requests, NEW u \in User, UserInv(u), u \notin Overlapped',
         NEW c \in Client, Settling(c), h[c].user # u
  PROVE  UserInv(u)'
<1>1. PICK r \in Request :
        /\ Step(c, r) /\ r.pc \in {"idle", "goOnline", "kick", "track", "offline", "untrack"}
        /\ r.pc # "idle" => r.user = h[c].user
  BY SettlingFacts
<1>2. h[c].pc # "save"
  BY SettlingFacts
<1>3. h'[c] = r
  BY <1>1 DEF Step, Requests
<1>4. u \notin About(c) /\ u \notin About(c)'
  BY <1>1, <1>2, <1>3 DEF About
<1>5. \A s : LoggedInAs(s, u)' => LoggedInAs(s, u)
  BY DEF Settling, Fill, GoOnline, Kick, Track, End, Offline, Untrack,
         Save, Remove, Put, Without, LoggedInAs
<1>6. /\ u \in online <=> u \in online'
      /\ u \in DOMAIN tracked <=> u \in DOMAIN tracked'
      /\ u \in DOMAIN tracked => tracked'[u] = tracked[u]
      /\ UNCHANGED <<storage, linked, listed>>
  BY DEF Settling, Fill, GoOnline, Kick, Track, End, Offline, Untrack, Put, Without, dbRest
<1>7. QED
  BY <1>1, <1>4, <1>5, <1>6, AsideStep

\* For the user itself: what the step does, and what it finds.
LEMMA OwnFacts ==
  ASSUME Requests, NEW u \in User, UserInv(u), u \notin Overlapped',
         NEW c \in Client, Settling(c), h[c].user = u
  PROVE  /\ \E r \in Request : /\ Step(c, r)
                               /\ r.pc # "idle" => r.user = u /\ r.sid = h[c].sid
         /\ u \in About(c) \/ u \in About(c)'
         /\ \A s : LoggedInAs(s, u) => TrackedAs(u, s) \/ Entering(c, u, s)
         /\ UNCHANGED <<storage, linked, listed>> /\ Reaches
<1>1. PICK r \in Request :
        /\ Step(c, r) /\ r.pc \in {"idle", "goOnline", "kick", "track", "offline", "untrack"}
        /\ r.pc # "idle" => r.user = h[c].user /\ r.sid = h[c].sid
  BY SettlingFacts
<1>2. h'[c] = r
  BY <1>1 DEF Step, Requests
<1>3. UNCHANGED <<storage, linked, listed>>
  BY DEF Settling, Fill, GoOnline, Kick, Track, End, Offline, Untrack, dbRest
<1>4. u \in About(c) \/ u \in About(c)'
  <2>1. CASE h[c].pc = "fill"
    <3>1. Fill(c)
      BY <2>1 DEF Settling, Fill, GoOnline, Kick, Track, End, Offline, Untrack, At
    <3>2. h'[c] = [h[c] EXCEPT !.pc = "goOnline"]
      BY <3>1 DEF Fill, Goto, Step, Requests
    <3>3. h'[c].pc = "goOnline" /\ h'[c].user = u
      <4>1. "goOnline" \in Pcs
        BY DEF Pcs
      <4>2. QED
        BY <3>2, <4>1, GotoTyped
    <3>4. QED
      BY <3>3 DEF About
  <2>2. CASE h[c].pc # "fill"
    BY <2>2, SettlingFacts DEF About
  <2>3. QED
    BY <2>1, <2>2
<1>5. \A d \in Client \ {c} : u \notin About(d)
  BY <1>1, <1>4, OthersAside
<1>6. \A s : LoggedInAs(s, u) => TrackedAs(u, s) \/ Entering(c, u, s)
  BY <1>5, AboutFinds
<1>7. QED
  BY <1>1, <1>3, <1>4, <1>6 DEF UserInv

\* The steps of a login or logout of u.
LEMMA UserOwn ==
  ASSUME Requests, NEW u \in User, UserInv(u), u \notin Overlapped',
         NEW c \in Client, Settling(c), h[c].user = u
  PROVE  UserInv(u)'
<1> USE DEF Goto, At
<1> DEFINE x == h[c].sid
<1>1. PICK r \in Request : Step(c, r) /\ (r.pc # "idle" => r.user = u /\ r.sid = x)
  BY OwnFacts
<1>2. /\ u \in About(c) \/ u \in About(c)'
      /\ \A s : LoggedInAs(s, u) => TrackedAs(u, s) \/ Entering(c, u, s)
      /\ UNCHANGED <<storage, linked, listed>> /\ Reaches
  BY OwnFacts
<1>3. h'[c] = r /\ r.pc \in Pcs
  BY <1>1 DEF Step, Requests, Request
<1>4. UnderWay(c, u)
  BY DEF UserInv
<1>5. \A s : Entering(c, u, s) => s = x
  BY DEF Entering
<1> SUFFICES Settled(u)' /\ UnderWay(c, u)'
  BY <1>1, <1>2, AboutStep
<1> DEFINE e(s) == r.pc \in {"goOnline", "kick", "track"} /\ s = x
<1>6. \A s : e(s) => Entering(c, u, s)'
  BY <1>1, <1>3 DEF Entering
<1>7. (\A s : LoggedInAs(s, u)' => TrackedAs(u, s)' \/ e(s)) => Settled(u)'
  BY <1>6 DEF Settled
<1> HIDE DEF x, e
<1>8. CASE Fill(c)
  <2>1. /\ h[c].pc = "fill" /\ Save(x, u) /\ UNCHANGED <<online, tracked>>
        /\ Step(c, [h[c] EXCEPT !.pc = "goOnline"])
    BY <1>8 DEF Fill, x
  <2>2. r.pc = "goOnline"
    BY <1>3, <2>1 DEF Step, Requests, Request
  <2>3. \A s : LoggedInAs(s, u)' => LoggedInAs(s, u) \/ s = x
    BY <2>1 DEF LoggedInAs, Save, Put
  <2>4. \A s : ~Entering(c, u, s)
    BY <2>1 DEF Entering
  <2>5. Settled(u)'
    BY <1>2, <1>7, <2>1, <2>2, <2>3, <2>4 DEF e, TrackedAs
  <2>6. QED
    BY <1>3, <2>2, <2>5 DEF UnderWay
<1>9. CASE GoOnline(c)
  <2>1. /\ h[c].pc = "goOnline" /\ online' = online \cup {u} /\ UNCHANGED <<stored, tracked>>
        /\ Step(c, [h[c] EXCEPT !.pc = IF u \in online THEN "kick" ELSE "track"])
    BY <1>9 DEF GoOnline
  <2>2. r.pc = IF u \in online THEN "kick" ELSE "track"
    BY <1>3, <2>1 DEF Step, Requests, Request
  <2>3. \A s : LoggedInAs(s, u)' => TrackedAs(u, s) \/ s = x
    BY <1>2, <1>5, <2>1 DEF LoggedInAs
  <2>4. Settled(u)'
    BY <1>7, <2>1, <2>2, <2>3 DEF e, TrackedAs
  <2>5. r.pc = "track" => \A s : LoggedInAs(s, u)' => s = x
    BY <2>2, <2>3 DEF TrackedAs
  <2>6. QED
    BY <1>1, <1>3, <2>1, <2>2, <2>4, <2>5 DEF UnderWay
<1>10. CASE Kick(c)
  <2>1. /\ h[c].pc = "kick" /\ UNCHANGED <<online, tracked>>
        /\ IF u \in DOMAIN tracked THEN Remove(tracked[u]) ELSE UNCHANGED stored
        /\ Step(c, [h[c] EXCEPT !.pc = "track"])
    BY <1>10 DEF Kick
  <2>2. r.pc = "track"
    BY <1>3, <2>1 DEF Step, Requests, Request
  <2>3. \A s : LoggedInAs(s, u)' => LoggedInAs(s, u) /\ ~TrackedAs(u, s)
    BY <1>2, <2>1 DEF LoggedInAs, TrackedAs, Remove, Without
  <2>4. \A s : LoggedInAs(s, u)' => s = x
    BY <1>2, <1>5, <2>3
  <2>5. Settled(u)'
    BY <1>7, <2>2, <2>4 DEF e
  <2>6. u \in online
    BY <1>4, <2>1 DEF UnderWay
  <2>7. QED
    BY <1>1, <1>3, <2>1, <2>2, <2>4, <2>5, <2>6 DEF UnderWay
<1>11. CASE Track(c)
  <2>1. /\ h[c].pc = "track" /\ UNCHANGED <<online, stored>> /\ tracked' = Put(tracked, u, x)
        /\ Step(c, Idle)
    BY <1>11 DEF Track, x
  <2>2. r.pc = "idle"
    BY <1>3, <2>1, IdleTyped DEF Step, Requests
  <2>3. u \in online /\ \A s : LoggedInAs(s, u) => s = x
    BY <1>4, <2>1 DEF UnderWay, x
  <2>4. \A s : s = x => TrackedAs(u, s)'
    BY <2>1, <2>3 DEF TrackedAs, Put
  <2>5. Settled(u)'
    BY <1>7, <2>1, <2>3, <2>4 DEF LoggedInAs
  <2>6. QED
    BY <1>3, <2>2, <2>5 DEF UnderWay
<1>12. CASE End(c)
  <2>1. /\ h[c].pc = "end" /\ UNCHANGED <<online, tracked>> /\ Remove(x)
        /\ Step(c, [h[c] EXCEPT !.pc = "offline"])
    BY <1>12 DEF End, x
  <2>2. r.pc = "offline"
    BY <1>3, <2>1 DEF Step, Requests, Request
  <2>3. TrackedAs(u, x) /\ \A s : ~Entering(c, u, s)
    BY <1>4, <2>1 DEF UnderWay, Entering, x
  <2>4. \A s : ~LoggedInAs(s, u)'
    <3>1. \A s : LoggedInAs(s, u)' => LoggedInAs(s, u) /\ s # x
      BY <1>2, <2>1 DEF LoggedInAs, Remove, Without
    <3>2. QED
      BY <1>2, <2>3, <3>1 DEF TrackedAs
  <2>5. Settled(u)'
    BY <1>7, <2>4
  <2>6. QED
    BY <1>3, <2>2, <2>4, <2>5 DEF UnderWay
<1>13. CASE Offline(c) \/ Untrack(c)
  <2>1. h[c].pc \in {"offline", "untrack"} /\ UNCHANGED stored
        /\ (Step(c, [h[c] EXCEPT !.pc = "untrack"]) \/ Step(c, Idle))
    BY <1>13 DEF Offline, Untrack
  <2>2. r.pc \in {"untrack", "idle"}
    BY <1>3, <2>1, IdleTyped DEF Step, Requests, Request
  <2>3. \A s : ~LoggedInAs(s, u)'
    BY <1>4, <2>1 DEF UnderWay, LoggedInAs
  <2>4. Settled(u)'
    BY <1>7, <2>3
  <2>5. QED
    BY <1>3, <2>2, <2>3, <2>4 DEF UnderWay
<1>14. QED
  BY <1>8, <1>9, <1>10, <1>11, <1>12, <1>13 DEF Settling

\* The cleanup, and sessions that expire.
LEMMA UserCleanup ==
  ASSUME Requests, NEW u \in User, UserInv(u), u \notin Overlapped',
         List \/ Sweep \/ \E s \in SessionId : Expire(s)
  PROVE  UserInv(u)'
<1>1. UNCHANGED <<h, storage, linked>>
  BY DEF List, Sweep, Expire, dbRest
<1>2. Reaches /\ Reaches'
  BY <1>1 DEF UserInv, Reaches
<1>3. CASE \E s \in SessionId : Expire(s)
  <2>1. UNCHANGED <<online, tracked, listed>> /\ \A s : LoggedInAs(s, u)' => LoggedInAs(s, u)
    BY <1>3 DEF Expire, Without, LoggedInAs
  <2>2. \A s : TrackedAs(u, s)' <=> TrackedAs(u, s)
    BY <2>1 DEF TrackedAs
  <2>3. Settled(u)'
    BY <1>1, <2>1, <2>2 DEF UserInv, Settled, Entering
  <2>4. Swept(u)'
    BY <2>1 DEF UserInv, Swept
  <2>5. \A c \in Client : UnderWay(c, u)'
    BY <1>1, <2>1, <2>2 DEF UserInv, UnderWay
  <2>6. QED
    BY <1>2, <2>3, <2>4, <2>5 DEF UserInv
<1>4. CASE List
  <2>1. UNCHANGED <<online, tracked, stored>> /\ listed' = Active
    BY <1>4 DEF List
  <2>2. \A s : (TrackedAs(u, s)' <=> TrackedAs(u, s)) /\ (LoggedInAs(s, u)' <=> LoggedInAs(s, u))
    BY <2>1 DEF TrackedAs, LoggedInAs
  <2>3. Settled(u)'
    BY <1>1, <2>2 DEF UserInv, Settled, Entering
  <2>4. Swept(u)'
    BY <1>2, <2>1 DEF Swept, Active, LoggedInAs
  <2>5. \A c \in Client : UnderWay(c, u)'
    BY <1>1, <2>1, <2>2 DEF UserInv, UnderWay
  <2>6. QED
    BY <1>2, <2>3, <2>4, <2>5 DEF UserInv
<1>5. CASE Sweep
  <2> DEFINE stale == {v \in DOMAIN tracked : tracked[v] \notin listed}
  <2>1. /\ listed # {0} /\ listed' = {0} /\ UNCHANGED stored
        /\ tracked' = [v \in DOMAIN tracked \ stale |-> tracked[v]]
        /\ online' = online \ stale
    BY <1>5 DEF Sweep
  <2>2. \A c \in Client : u \notin About(c)
    BY <2>1 DEF UserInv, Overlapped
  <2>3. ASSUME NEW s, LoggedInAs(s, u)' PROVE TrackedAs(u, s)'
    <3>1. LoggedInAs(s, u) /\ s \in listed
      BY <2>1, <2>3 DEF LoggedInAs, UserInv, Swept
    <3>2. TrackedAs(u, s)
      BY <2>2, <3>1, AsideFacts DEF UserInv, Settled
    <3>3. u \notin stale
      BY <3>1, <3>2 DEF TrackedAs
    <3> HIDE DEF stale
    <3>4. QED
      BY <2>1, <3>2, <3>3 DEF TrackedAs
  <2>4. Settled(u)' /\ Swept(u)'
    BY <2>1, <2>3 DEF Settled, Swept
  <2>5. \A c \in Client : UnderWay(c, u)'
    BY <1>1, <2>2 DEF About, UnderWay
  <2>6. QED
    BY <1>2, <2>4, <2>5 DEF UserInv
<1>6. QED
  BY <1>3, <1>4, <1>5

LEMMA OneNext ==
  ASSUME OneInv, [Next]_vars
  PROVE  OneInv'
<1>1. Requests /\ Requests'
  BY RequestsNext DEF OneInv
<1> SUFFICES ASSUME NEW u \in User, u \notin disturbed' PROVE UserInv(u)'
  BY <1>1 DEF OneInv
<1>2. CASE UNCHANGED sessionVars \/ DbFails
  <2>1. /\ UNCHANGED <<storage, linked, stored, online, tracked, listed, disturbed>>
        /\ UNCHANGED h
    BY <1>2 DEF sessionVars, DbFails
  <2>2. UserInv(u)
    BY <2>1 DEF OneInv
  <2>3. Overlapped' = Overlapped
    BY <2>1 DEF About, Overlapped
  <2>4. \A s : /\ TrackedAs(u, s)' <=> TrackedAs(u, s)
               /\ LoggedInAs(s, u)' <=> LoggedInAs(s, u)
               /\ \A c \in Client : Entering(c, u, s)' <=> Entering(c, u, s)
    BY <2>1 DEF TrackedAs, LoggedInAs, Entering
  <2>5. Settled(u)'
    BY <2>2, <2>4 DEF UserInv, Settled
  <2>6. Swept(u)' /\ Reaches'
    BY <2>1, <2>2, <2>4 DEF UserInv, Swept, Reaches
  <2>7. \A c \in Client : UnderWay(c, u)'
    BY <2>1, <2>2, <2>4 DEF UserInv, UnderWay
  <2>8. QED
    BY <2>2, <2>3, <2>5, <2>6, <2>7 DEF UserInv
<1>3. ASSUME NEW c \in Client, Early(c) \/ Asks(c) PROVE UserInv(u)'
  <2>1. UNCHANGED <<storage, linked, stored, online, tracked, listed, disturbed>>
    BY <1>1, <1>3, EarlyFacts DEF Asks
  <2>2. UserInv(u)
    BY <2>1 DEF OneInv
  <2>3. PICK r \in Request : /\ h' = h \/ Step(c, r)
                             /\ h' = h \/ r.pc \in {"idle", "login", "exists", "insert", "select", "load"}
    BY <1>1, <1>3, EarlyFacts, IdleTyped DEF Asks
  <2>4. CASE h' = h
    <3>1. Overlapped' = Overlapped
      BY <2>1, <2>4 DEF About, Overlapped
    <3>2. \A s : /\ TrackedAs(u, s)' <=> TrackedAs(u, s)
                 /\ LoggedInAs(s, u)' <=> LoggedInAs(s, u)
                 /\ \A d \in Client : Entering(d, u, s)' <=> Entering(d, u, s)
      BY <2>1, <2>4 DEF TrackedAs, LoggedInAs, Entering
    <3>3. Settled(u)'
      BY <2>2, <3>2 DEF UserInv, Settled
    <3>4. Swept(u)' /\ Reaches'
      BY <2>1, <2>2, <3>2 DEF UserInv, Swept, Reaches
    <3>5. \A d \in Client : UnderWay(d, u)'
      BY <2>1, <2>2, <2>4, <3>2 DEF UserInv, UnderWay
    <3>6. QED
      BY <2>2, <3>1, <3>3, <3>4, <3>5 DEF UserInv
  <2>5. CASE h' # h
    <3>1. h[c].pc \in {"idle", "login", "exists", "insert", "select"}
      BY <1>1, <1>3, <2>5, EarlyFacts DEF Asks
    <3>2. h' = [h EXCEPT ![c] = r] /\ r.pc \in {"idle", "login", "exists", "insert", "select", "load"}
      BY <2>3, <2>5 DEF Step
    <3>3. About(c) = {} /\ About(c)' = {} /\ \A d \in Client \ {c} : About(d)' = About(d)
      BY <1>1, <3>1, <3>2 DEF About, Requests
    <3>4. Overlapped' \subseteq Overlapped
      BY <2>1, <3>3 DEF Overlapped
    <3>5. \A s : LoggedInAs(s, u)' => LoggedInAs(s, u)
      BY <2>1 DEF LoggedInAs
    <3>6. u \notin Overlapped' /\ u \notin About(c) /\ u \notin About(c)'
      BY <2>2, <3>3, <3>4 DEF UserInv
    <3>7. QED
      BY <1>1, <2>1, <2>2, <2>3, <3>5, <3>6, AsideStep
  <2>6. QED
    BY <2>4, <2>5
<1>4. ASSUME \/ \E c \in Client : Load(c) \/ SaveLoaded(c) \/ Settling(c)
             \/ List \/ Sweep \/ \E s \in SessionId : Expire(s)
      PROVE  UserInv(u)'
  <2>1. Watch \/ \E s \in SessionId : Expire(s)
    BY <1>4 DEF Load, SaveLoaded, Settling, Fill, GoOnline, Kick, Track, End, Offline, Untrack,
                List, Sweep
  <2>2. u \notin disturbed
    BY <2>1 DEF Watch, Expire
  <2>3. UserInv(u)
    BY <2>2 DEF OneInv
  <2>4. u \notin Overlapped'
    <3>1. CASE Watch
      BY <3>1, WatchFacts
    <3>2. CASE \E s \in SessionId : Expire(s)
      <4>1. UNCHANGED <<h, listed>>
        BY <3>2 DEF Expire
      <4>2. QED
        BY <2>3, <4>1 DEF UserInv, Overlapped, About
    <3>3. QED
      BY <2>1, <3>1, <3>2
  <2>5. ASSUME NEW c \in Client, Load(c) \/ SaveLoaded(c) \/ Settling(c) PROVE UserInv(u)'
    BY <1>1, <2>3, <2>4, <2>5, UserLoad, UserSaveLoaded, UserOwn, UserOther
  <2>6. QED
    BY <1>1, <1>4, <2>3, <2>4, <2>5, UserCleanup
<1>5. CASE Unlink \/ Restart
  BY <1>5 DEF Unlink, Restart
<1>6. QED
  BY <1>2, <1>3, <1>4, <1>5, NextCases

(* A user no two requests, nor a request and the cleanup, were at work on  *)
(* at a time is logged in with one session at most (LoginHandler,          *)
(* LogoutHandler, cleanupStaleSessions), whatever the requests of other    *)
(* users do meanwhile, with the same cookies or others.                    *)
THEOREM AUserHasOneSession == Spec => []OneSessionPerUser
<1>1. Init => OneInv
  <2>1. Init => /\ h = [c \in Client |-> Idle] /\ stored = [s \in {} |-> None]
                /\ listed = {0} /\ linked = TRUE
    BY DEF Init
  <2>2. ASSUME Init, NEW u \in User PROVE UserInv(u)
    <3>1. \A c \in Client : h[c].pc = "idle"
      BY <2>1, <2>2, IdleTyped
    <3>2. u \notin Overlapped
      BY <3>1 DEF Overlapped, About
    <3>3. \A s : ~LoggedInAs(s, u)
      BY <2>1, <2>2 DEF LoggedInAs
    <3>4. Settled(u) /\ Swept(u) /\ Reaches
      BY <2>1, <2>2, <3>3 DEF Settled, Swept, Reaches
    <3>5. \A c \in Client : UnderWay(c, u)
      BY <3>1 DEF UnderWay
    <3>6. QED
      BY <3>2, <3>4, <3>5 DEF UserInv
  <2>3. QED
    BY <2>2, RequestsInit DEF OneInv
<1>2. OneInv /\ [Next]_vars => OneInv'
  BY OneNext
<1>3. OneInv => OneSessionPerUser
  <2> SUFFICES ASSUME OneInv, NEW u \in User, u \notin disturbed, \A c \in Client : u \notin About(c),
                      NEW s, NEW t, LoggedInAs(s, u), LoggedInAs(t, u)
               PROVE  s = t
    BY DEF OneSessionPerUser
  <2>1. TrackedAs(u, s) /\ TrackedAs(u, t)
    BY AsideFacts DEF OneInv, UserInv, Settled
  <2>2. QED
    BY <2>1 DEF TrackedAs
<1>4. QED
  BY <1>1, <1>2, <1>3, PTL DEF Spec
===============================================================================
