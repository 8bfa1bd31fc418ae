--------------------------- MODULE DbConnectionPool ---------------------------
(***************************************************************************)
(* DbConnectionPool: handlers take a connection, checked outside the lock, *)
(* and give it back through the deleter of the pointer they hold.  A       *)
(* connection that cannot be restored is replaced by a new one, or lost.   *)
(* The connections are alike: the pool is their number.  checkConnections  *)
(* pings and reconnects the idle ones and changes no number.               *)
(***************************************************************************)
EXTENDS Integers, FiniteSets

CONSTANTS
  DbThread,  \* the threads that call getConnection
  PoolSize   \* connections created by init

ASSUME DbAssumption == PoolSize \in Nat \ {0} /\ IsFiniteSet(DbThread)

VARIABLES
  dbUp,   \* the database can be reached
  idle,   \* size of connections_
  dbpc    \* where a thread is in getConnection or with its connection

dbVars == <<dbUp, idle, dbpc>>

\* A thread that is woken looks at the queue again as one that comes.
DbPc == {"out", "asleep", "verify", "replace", "held"}

DbInit == dbUp = TRUE /\ idle = PoolSize /\ dbpc = [t \in DbThread |-> "out"]

\* cv_.notify_one: one thread asleep, if there is one, competes for the lock again.
NotifyOne(pcs) ==
  LET asleep == {t \in DbThread : pcs[t] = "asleep"} IN
  IF asleep = {} THEN dbpc' = pcs
  ELSE \E t \in asleep : dbpc' = [pcs EXCEPT ![t] = "out"]

\* The front of the queue handed out and not removed from it.
Pop_kept(t) == /\ dbpc[t] = "out" /\ idle > 0
               /\ dbpc' = [dbpc EXCEPT ![t] = "verify"]
               /\ UNCHANGED <<dbUp, idle>>
Pop(t) == /\ dbpc[t] = "out" /\ idle > 0
          /\ idle' = idle - 1
          /\ dbpc' = [dbpc EXCEPT ![t] = "verify"]
          /\ UNCHANGED dbUp

Sleep(t) == /\ dbpc[t] = "out" /\ idle = 0
            /\ dbpc' = [dbpc EXCEPT ![t] = "asleep"]
            /\ UNCHANGED <<dbUp, idle>>

SpuriousDbWake(t) == /\ dbpc[t] = "asleep"
                     /\ dbpc' = [dbpc EXCEPT ![t] = "out"]
                     /\ UNCHANGED <<dbUp, idle>>

\* ping, and reconnect when it fails.
Verify(t) == /\ dbpc[t] = "verify"
             /\ dbpc' = [dbpc EXCEPT ![t] = IF dbUp THEN "held" ELSE "replace"]
             /\ UNCHANGED <<dbUp, idle>>

\* reconnect has thrown: a new connection takes the place of the old one, unless
\* that fails too.  The caller gets the exception either way.
Replace(t) == /\ dbpc[t] = "replace"
              /\ IF dbUp
                 THEN idle' = idle + 1 /\ NotifyOne([dbpc EXCEPT ![t] = "out"])
                 ELSE idle' = idle /\ dbpc' = [dbpc EXCEPT ![t] = "out"]
              /\ UNCHANGED dbUp

\* A connection given back that nobody is told of.
GiveBack_silent(t) == /\ dbpc[t] = "held"
                      /\ idle' = idle + 1
                      /\ dbpc' = [dbpc EXCEPT ![t] = "out"]
                      /\ UNCHANGED dbUp
\* The query is done, or has thrown, and the deleter returns the connection.
GiveBack(t) == /\ dbpc[t] = "held"
               /\ idle' = idle + 1
               /\ NotifyOne([dbpc EXCEPT ![t] = "out"])
               /\ UNCHANGED dbUp

\* Everything up to holding the connection.
Obtain(t) == Pop(t) \/ Sleep(t) \/ Verify(t)

DbTypeOK == dbUp \in BOOLEAN /\ idle \in 0 .. PoolSize /\ dbpc \in [DbThread -> DbPc]
===============================================================================
