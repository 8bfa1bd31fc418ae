------------------------------- MODULE Sessions -------------------------------
(***************************************************************************)
(* Sessions, login and online users.  SessionManager keeps sessions in     *)
(* memory or in Redis; LoginHandler, LogoutHandler and RegisterHandler run *)
(* on the IO threads, query the users through DbConnectionPool, and keep   *)
(* who is online in two maps with a mutex each; cleanupStaleSessions runs  *)
(* on the main loop.                                                       *)
(*                                                                         *)
(* A client is a connection.  The pages of one browser use several with    *)
(* the same cookie, so that a request may carry any cookie handed out, and *)
(* two requests under way may have the same session.  With Redis each has  *)
(* a copy, which getSession writes back; in memory they share one object,  *)
(* which no lock guards: each handler's use of it is taken as one step.    *)
(***************************************************************************)
EXTENDS DbConnectionPool

CONSTANTS
  Client,       \* connections, each with one request at a time
  User,         \* accounts
  Known,        \* some of them: those registered at first
  None,         \* no user
  MaxRequests,  \* bound: requests sent
  MaxFaults     \* bound: database outages, lost Redis connections, expiries, restarts

ASSUME SessionsAssumption ==
  /\ DbThread = Client /\ Known \subseteq User /\ None \notin User
  /\ MaxRequests \in Nat /\ MaxFaults \in Nat

VARIABLES
  storage,  \* "memory" or "redis"
  linked,   \* the connection to Redis works
  stored,   \* the sessions in the storage: session id -> the user logged in, or None
  made,     \* session ids generated so far
  handed,   \* those a reply has handed out
  h,        \* h[c]: the request of c being handled
  accounts, \* table users
  online,   \* onlineUsers_
  tracked,  \* loginSessions_: user -> session id
  listed,   \* cleanupStaleSessions: the ids it has read, {0} when it is not running
  asked, faults,  \* requests sent, faults so far
  \* history
  ended,     \* sessions whose logout was acknowledged
  missed,    \* those whose removal did not reach Redis, or found a request that had the
             \* session already and was still to save it
  disturbed, \* users two requests, or one and the cleanup, have been at work on at a
             \* time; all, once the maps or the link to Redis were lost
  dbFailed   \* the database has been out of reach

sessionVars == <<storage, linked, stored, made, handed, h, accounts, online, tracked,
                 listed, asked, faults, ended, missed, disturbed, dbFailed>>
vars == <<dbVars, sessionVars>>

\* Random session ids: no two are the same, and which they are does not matter.
SessionId == 1 .. MaxRequests

\* A request: its session and, until getSession returns, the user in the copy it loaded.
Idle == [pc |-> "idle", op |-> "none", user |-> None, sid |-> 0, copy |-> None]
Put(f, k, v) == [x \in DOMAIN f \union {k} |-> IF x = k THEN v ELSE f[x]]
Without(f, k) == [x \in DOMAIN f \ {k} |-> f[x]]

Init ==
  /\ DbInit
  /\ storage \in {"memory", "redis"} /\ linked = TRUE
  /\ stored = [s \in {} |-> None] /\ made = 0 /\ handed = {}
  /\ h = [c \in Client |-> Idle]
  /\ accounts = Known /\ online = {} /\ tracked = [u \in {} |-> 0]
  /\ listed = {0} /\ asked = 0 /\ faults = 0
  /\ ended = {} /\ missed = {} /\ disturbed = {} /\ dbFailed = FALSE

-----------------------------------------------------------------------------
(* The storage.  A broken connection to Redis stays broken: its context is *)
(* not null, and only a null context is connected again.                   *)

Reaches == storage = "memory" \/ linked
Save(s, user) == stored' = IF Reaches THEN Put(stored, s, user) ELSE stored
Remove(s) == stored' = IF Reaches THEN Without(stored, s) ELSE stored
Active == IF Reaches THEN DOMAIN stored ELSE {}

-----------------------------------------------------------------------------
(* Requests.                                                               *)

dbRest == <<storage, linked, accounts, asked, faults, dbFailed>>
history == <<ended, missed>>

Step(c, r) == h' = [h EXCEPT ![c] = r]
At(c, pc) == h[c].pc = pc
Goto(c, pc) == Step(c, [h[c] EXCEPT !.pc = pc])

\* The users whose place in onlineUsers_ and loginSessions_ the request of c is about to
\* change, or whose session it has a copy of that it will write back.
About(c) == {u \in User :
  \/ h[c].user = u /\ h[c].pc \in {"goOnline", "kick", "track", "end", "offline", "untrack"}
  \/ h[c].copy = u /\ h[c].pc = "save"}
Overlapped == {u \in User : \E c \in Client :
  u \in About(c) /\ (listed # {0} \/ \E d \in Client \ {c} : u \in About(d))}
Watch == disturbed' = disturbed \union Overlapped'

\* A request on the connection c with the cookie k, or none.
First == [login |-> "login", register |-> "exists", logout |-> "load", visit |-> "load"]
Ask(c, op, u, k) ==
  /\ asked < MaxRequests /\ asked' = asked + 1
  /\ At(c, "idle")
  /\ Step(c, [Idle EXCEPT !.pc = First[op], !.op = op, !.user = u, !.sid = k])
  /\ UNCHANGED <<dbVars, storage, linked, stored, made, handed, accounts, online, tracked,
                 listed, faults, history, disturbed, dbFailed>>

\* The pool calls of a handler that is about to query.
Querying(c) == h[c].pc \in {"login", "exists", "insert", "select"}
Query(c) ==
  /\ Querying(c)
  /\ Obtain(c) \/ SpuriousDbWake(c)
  /\ UNCHANGED sessionVars
\* getConnection throws, or the query does: 400 or 500.
QueryThrows(c) ==
  /\ Querying(c)
  /\ Replace(c) \/ (~dbUp /\ GiveBack(c))
  /\ Step(c, Idle)
  /\ UNCHANGED <<dbRest, stored, made, handed, online, tracked, listed, history, disturbed>>
\* The query has an answer and the handler goes on at pc.
Answered(c, pc) ==
  /\ dbUp /\ GiveBack(c)
  /\ Step(c, IF pc = "idle" THEN Idle ELSE [h[c] EXCEPT !.pc = pc])
  /\ UNCHANGED <<storage, linked, stored, made, handed, online, tracked, listed, asked,
                 faults, history, disturbed, dbFailed>>

\* queryUserId: 401 if there is no such user.
LookUp(c) ==
  /\ At(c, "login")
  /\ Answered(c, IF h[c].user \in accounts THEN "load" ELSE "idle")
  /\ UNCHANGED accounts

\* RegisterHandler: two requests for one name may both find it free; the unique key
\* of the table stops the second INSERT, which throws.
Exists(c) ==
  /\ At(c, "exists")
  /\ Answered(c, IF h[c].user \in accounts THEN "idle" ELSE "insert")
  /\ UNCHANGED accounts
Insert(c) ==
  /\ At(c, "insert")
  /\ Answered(c, IF h[c].user \in accounts THEN "idle" ELSE "select")
  /\ accounts' = accounts \union {h[c].user}
Select(c) ==
  /\ At(c, "select")
  /\ Answered(c, "idle")
  /\ UNCHANGED accounts

-----------------------------------------------------------------------------
(* getSession, and what the handlers do with the session.                  *)

\* The handler has its session.  A logout without a user in it: std::stoi throws, 400.
\* ensureAuthenticated, for any other page, asks for isLoggedIn.
After(r) ==
  CASE r.op = "login" -> [r EXCEPT !.pc = "fill", !.copy = None]
    [] r.op = "logout" /\ r.copy # None -> [r EXCEPT !.pc = "end", !.user = r.copy, !.copy = None]
    [] OTHER -> Idle
\* A reply carries the cookie of a new session.
GoesOn(c, r) ==
  /\ Step(c, After(r))
  /\ handed' = IF After(r) = Idle THEN handed \union {r.sid} ELSE handed

\* deserialize fills the copy with setValue, which marks it dirty; an object in memory
\* is saved as it changes.
Dirty(r) == storage = "redis" /\ r.copy # None
\* load: the session of the cookie, or a new one.
Load(c) ==
  LET s == h[c].sid
      held == s \in Active
      r == [h[c] EXCEPT !.pc = "save", !.sid = IF held THEN s ELSE made + 1,
                        !.copy = IF held THEN stored[s] ELSE None]
  IN
  /\ At(c, "load")
  /\ made' = IF held THEN made ELSE made + 1
  /\ IF held /\ ~Dirty(r) THEN GoesOn(c, r) ELSE Step(c, r) /\ UNCHANGED handed
  /\ UNCHANGED <<dbVars, dbRest, stored, online, tracked, listed, history>>
  /\ Watch
\* The new session, or the copy as it was loaded, goes to the storage.
SaveLoaded(c) ==
  /\ At(c, "save")
  /\ Save(h[c].sid, h[c].copy)
  /\ GoesOn(c, h[c])
  /\ UNCHANGED <<dbVars, dbRest, made, online, tracked, listed, history>>
  /\ Watch

\* setValue of userId, username and isLoggedIn, each followed by a save, taken as one.
Fill(c) ==
  /\ At(c, "fill")
  /\ Save(h[c].sid, h[c].user)
  /\ Goto(c, "goOnline")
  /\ UNCHANGED <<dbVars, dbRest, made, handed, online, tracked, listed, history>>
  /\ Watch

GoOnline(c) ==
  /\ At(c, "goOnline")
  /\ Step(c, [h[c] EXCEPT !.pc = IF h[c].user \in online THEN "kick" ELSE "track"])
  /\ online' = online \union {h[c].user}
  /\ UNCHANGED <<dbVars, dbRest, stored, made, handed, tracked, listed, history>>
  /\ Watch

\* The session that is destroyed is the new one: the map is written before it is read.
Kick_own(c) ==
  /\ At(c, "kick")
  /\ Remove(h[c].sid)
  /\ Goto(c, "track")
  /\ UNCHANGED <<dbVars, dbRest, made, handed, online, tracked, listed, history>>
  /\ Watch
\* The user is online elsewhere: that session is destroyed.  It may be this one.
Kick(c) ==
  /\ At(c, "kick")
  /\ IF h[c].user \in DOMAIN tracked THEN Remove(tracked[h[c].user]) ELSE UNCHANGED stored
  /\ Goto(c, "track")
  /\ UNCHANGED <<dbVars, dbRest, made, handed, online, tracked, listed, history>>
  /\ Watch

\* The reply carries the cookie of the session.
Track(c) ==
  /\ At(c, "track")
  /\ tracked' = Put(tracked, h[c].user, h[c].sid)
  /\ handed' = handed \union {h[c].sid}
  /\ Step(c, Idle)
  /\ UNCHANGED <<dbVars, dbRest, stored, made, online, listed, history>>
  /\ Watch

\* clear() empties the session object, which is the stored one in memory and a copy
\* with Redis.
Cleared(s) == IF storage = "memory" /\ s \in DOMAIN stored THEN Put(stored, s, None)
              ELSE stored
\* The request of c has the session s and will save it.
Holds(c, s) == h[c].sid = s /\ h[c].pc \in {"save", "fill"}
\* A logout that only clears the session.
End_cleared(c) ==
  /\ At(c, "end")
  /\ stored' = Cleared(h[c].sid)
  /\ Goto(c, "offline")
  /\ UNCHANGED <<dbVars, dbRest, made, handed, online, tracked, listed, history>>
  /\ Watch
End(c) ==
  /\ At(c, "end")
  /\ Remove(h[c].sid)
  /\ missed' = IF Reaches /\ ~\E d \in Client \ {c} : Holds(d, h[c].sid)
               THEN missed \ {h[c].sid} ELSE missed \union {h[c].sid}
  /\ Goto(c, "offline")
  /\ UNCHANGED <<dbVars, dbRest, made, handed, online, tracked, listed, ended>>
  /\ Watch

Offline(c) ==
  /\ At(c, "offline")
  /\ online' = online \ {h[c].user}
  /\ Goto(c, "untrack")
  /\ UNCHANGED <<dbVars, dbRest, stored, made, handed, tracked, listed, history>>
  /\ Watch

Untrack(c) ==
  /\ At(c, "untrack")
  /\ tracked' = Without(tracked, h[c].user)
  /\ ended' = ended \union {h[c].sid}
  /\ Step(c, Idle)
  /\ UNCHANGED <<dbVars, dbRest, stored, made, handed, online, listed, missed>>
  /\ Watch

-----------------------------------------------------------------------------
(* cleanupStaleSessions.                                                   *)

List ==
  /\ listed = {0}
  /\ listed' = Active
  /\ UNCHANGED <<dbVars, dbRest, stored, made, handed, h, online, tracked, history>>
  /\ Watch

\* Stale users leave the count only.
Sweep_countOnly ==
  LET stale == {u \in DOMAIN tracked : tracked[u] \notin listed} IN
  /\ listed # {0}
  /\ online' = online \ stale
  /\ listed' = {0}
  /\ UNCHANGED <<dbVars, dbRest, stored, made, handed, h, tracked, history>>
  /\ Watch
Sweep ==
  LET stale == {u \in DOMAIN tracked : tracked[u] \notin listed} IN
  /\ listed # {0}
  /\ tracked' = [u \in DOMAIN tracked \ stale |-> tracked[u]]
  /\ online' = online \ stale
  /\ listed' = {0}
  /\ UNCHANGED <<dbVars, dbRest, stored, made, handed, h, history>>
  /\ Watch

-----------------------------------------------------------------------------
(* Faults.                                                                 *)

Fault == faults < MaxFaults /\ faults' = faults + 1

\* A session is not used for an hour.  In memory each request extends it; the entry in
\* Redis lives an hour from its last save.
Expire(s) ==
  /\ Fault /\ s \in DOMAIN stored
  /\ storage = "memory" => \A c \in Client : h[c].sid = s => h[c].pc = "load"
  /\ stored' = Without(stored, s)
  /\ UNCHANGED <<dbVars, storage, linked, made, handed, h, accounts, online, tracked,
                 listed, asked, history, disturbed, dbFailed>>

Unlink ==
  /\ Fault /\ storage = "redis" /\ linked
  /\ linked' = FALSE /\ disturbed' = User
  /\ UNCHANGED <<dbVars, storage, stored, made, handed, h, accounts, online, tracked,
                 listed, asked, history, dbFailed>>

DbFails ==
  /\ Fault /\ dbUp
  /\ dbUp' = FALSE /\ dbFailed' = TRUE
  /\ UNCHANGED <<idle, dbpc, storage, linked, stored, made, handed, h, accounts, online,
                 tracked, listed, asked, history, disturbed>>
DbRecovers ==
  /\ ~dbUp /\ dbUp' = TRUE
  /\ UNCHANGED <<idle, dbpc, sessionVars>>

\* The server ends at any step and is started again: Redis keeps its sessions.
Restart ==
  /\ Fault
  /\ stored' = IF storage = "redis" THEN stored ELSE [s \in {} |-> None]
  /\ linked' = TRUE /\ listed' = {0} /\ disturbed' = User
  /\ h' = [c \in Client |-> Idle] /\ online' = {} /\ tracked' = [u \in {} |-> 0]
  /\ idle' = PoolSize /\ dbpc' = [c \in Client |-> "out"] /\ dbUp
  /\ UNCHANGED <<dbUp, storage, made, handed, accounts, asked, history, dbFailed>>

-----------------------------------------------------------------------------

Handle(c) ==
  \/ Query(c) \/ QueryThrows(c) \/ LookUp(c) \/ Exists(c) \/ Insert(c) \/ Select(c)
  \/ Load(c) \/ SaveLoaded(c) \/ Fill(c) \/ GoOnline(c) \/ Kick(c) \/ Track(c)
  \/ End(c) \/ Offline(c) \/ Untrack(c)

Next ==
  \/ \E c \in Client :
       \/ \E u \in User : Ask(c, "register", u, 0)
       \/ \E k \in {0} \union handed : \/ \E u \in User : Ask(c, "login", u, k)
                                     \/ \E op \in {"logout", "visit"} : Ask(c, op, None, k)
       \/ Handle(c)
  \/ List \/ Sweep
  \/ \E s \in SessionId : Expire(s)
  \/ Unlink \/ DbFails \/ DbRecovers \/ Restart

\* The IO threads and the timer of the main loop run.  A condition variable may wake
\* spuriously but need not: what answers a handler is its step without that.
Proceed(c) == Handle(c) /\ dbpc[c] # "asleep"
Fairness == /\ \A c \in Client : WF_vars(Proceed(c))
            /\ WF_vars(List) /\ WF_vars(Sweep)
Spec == Init /\ [][Next]_vars /\ Fairness

-----------------------------------------------------------------------------
(* Properties.                                                             *)

TypeOK ==
  /\ DbTypeOK
  /\ made \in 0 .. MaxRequests /\ DOMAIN stored \subseteq 1 .. made
  /\ handed \subseteq 1 .. made
  /\ online \subseteq User /\ DOMAIN tracked \subseteq User /\ accounts \subseteq User
  /\ asked \in 0 .. MaxRequests /\ faults \in 0 .. MaxFaults

LoggedInAs(s, u) == s \in DOMAIN stored /\ stored[s] = u

\* A session whose logout was acknowledged logs nobody in again, in either storage,
\* whatever requests come with its cookie later, and whatever other logins, the cleanup,
\* expiry and restarts do; unless its removal did not reach Redis, or a request that had
\* the session before saved it after.
LoggedOutStaysOut == \A s \in ended \ missed : \A u \in User : ~LoggedInAs(s, u)
\* What fails: without that exception.  With Redis every request writes the session it
\* loaded back, and one under way brings it back to life.
LogoutIsFinal == faults = 0 => \A s \in ended, u \in User : ~LoggedInAs(s, u)

\* A user is logged in with one session at most, over any sequence of logins, logouts and
\* other requests, with one cookie used for several users, expired sessions and forgotten
\* users, and however they overlap with those of other users; unless two requests, or one
\* and the cleanup, were at work on that user at a time.
OneSessionPerUser ==
  \A u \in User \ disturbed : \/ \E c \in Client : u \in About(c)
                            \/ \A s, t \in SessionId : LoggedInAs(s, u) /\ LoggedInAs(t, u) => s = t
\* What fails: without that exception.  Two logins of a user destroy only the session
\* they find, and a page under way writes back the one a login has destroyed.
AUserIsInOnce ==
  faults = 0 /\ listed = {0} /\ (\A c \in Client : At(c, "idle")) =>
    \A u \in User, s, t \in SessionId : LoggedInAs(s, u) /\ LoggedInAs(t, u) => s = t

\* A user whose session is gone is forgotten by the cleanup: the count of users online
\* does not grow with every session that expires.
StaleIsForgotten == []<>(\A u \in DOMAIN tracked : tracked[u] \in DOMAIN stored)

\* No connection of the pool is lost or used by two, however handlers wait, fail and
\* give back; an unreachable database may cost connections, and never adds any.
ConnectionsAccounted ==
  LET taken == {c \in Client : dbpc[c] \in {"verify", "replace", "held"}} IN
  /\ idle + Cardinality(taken) <= PoolSize
  /\ dbFailed \/ idle + Cardinality(taken) = PoolSize

\* While the database is within reach every request is answered, however many handlers
\* wait for the connections of the pool.
RequestsReturn == \A c \in Client : []<>(h[c].pc = "idle" \/ dbFailed)

\* The pool outlives an outage of the database: broken connections are replaced, so
\* that once it is back for good the requests are answered.
OutageIsSurvived == <>[]dbUp => \A c \in Client : []<>(h[c].pc = "idle")
===============================================================================
