----------------------------- MODULE RateLimiter -----------------------------
(***************************************************************************)
(* RateLimitMiddleware: one token bucket per client address, refilled by   *)
(* the time since it was last looked at, and forgotten when it has been    *)
(* idle for a minute.  allow() is one critical section.                    *)
(*                                                                         *)
(* Time is counted in ticks of 1 / requestsPerSec, so one token is added   *)
(* per tick; the code's doubles are not rounded here.                      *)
(***************************************************************************)
EXTENDS Integers, Sequences

CONSTANTS
  Ip,        \* client addresses
  Burst,     \* burst_
  IdleTicks, \* the 60 seconds of maybeCleanup, in ticks
  MaxTime    \* bound: the last tick

\* The refill of an idle minute fills any bucket.  The default limits (100 per
\* second, burst 200) and those ConfigAdvisor recommends satisfy it.
ASSUME LimiterAssumption ==
  /\ Burst \in Nat \ {0} /\ IdleTicks \in Nat \ {0} /\ MaxTime \in Nat
  /\ Burst <= IdleTicks

VARIABLES
  now,         \* steady_clock
  buckets,     \* buckets_: address -> tokens and time of the last refill
  lastCleanup, \* lastCleanup_
  admitted     \* admitted[ip]: the times at which requests were allowed (history)

limiterVars == <<now, buckets, lastCleanup, admitted>>

Bucket == [tokens : 0 .. Burst, lastFill : 0 .. MaxTime]

LimiterInit ==
  /\ now = 0
  /\ buckets = [ip \in {} |-> [tokens |-> 0, lastFill |-> 0]]
  /\ lastCleanup = -IdleTicks
  /\ admitted = [ip \in Ip |-> <<>>]

AtMost(a, b) == IF a < b THEN a ELSE b

\* A refill that is not limited by the burst.
Filled_unclamped(ip) ==
  IF ip \in DOMAIN buckets
  THEN [tokens |-> buckets[ip].tokens + (now - buckets[ip].lastFill), lastFill |-> now]
  ELSE [tokens |-> Burst, lastFill |-> now]

\* The bucket of an address: full when it is new, refilled otherwise.
Filled(ip) ==
  IF ip \in DOMAIN buckets
  THEN [tokens |-> AtMost(Burst, buckets[ip].tokens + (now - buckets[ip].lastFill)),
        lastFill |-> now]
  ELSE [tokens |-> Burst, lastFill |-> now]

\* maybeCleanup drops the buckets nobody used for more than a minute.
Idle(b) == now - b.lastFill > IdleTicks

Kept(bs) ==
  IF now - lastCleanup < IdleTicks THEN bs
  ELSE [ip \in {i \in DOMAIN bs : ~Idle(bs[i])} |-> bs[ip]]

\* allow(ip), with what it answers.
Allow(ip, allowed) ==
  LET b == Filled(ip)
      spent == IF allowed THEN [b EXCEPT !.tokens = @ - 1] ELSE b
      all == [i \in DOMAIN buckets \union {ip} |-> IF i = ip THEN spent ELSE buckets[i]]
  IN /\ allowed = (b.tokens >= 1)
     /\ buckets' = Kept(all)
     /\ lastCleanup' = IF now - lastCleanup < IdleTicks THEN lastCleanup ELSE now
     /\ admitted' = IF allowed THEN [admitted EXCEPT ![ip] = Append(@, now)] ELSE admitted
     /\ UNCHANGED now

Tick ==
  /\ now < MaxTime
  /\ now' = now + 1
  /\ UNCHANGED <<buckets, lastCleanup, admitted>>

LimiterTypeOK ==
  /\ now \in 0 .. MaxTime
  /\ DOMAIN buckets \subseteq Ip
  /\ \A ip \in DOMAIN buckets : buckets[ip] \in Bucket
  /\ lastCleanup \in -IdleTicks .. MaxTime
  /\ \A ip \in Ip : \A i \in DOMAIN admitted[ip] : admitted[ip][i] \in 0 .. MaxTime

\* In every window of time an address is allowed at most its burst and what the
\* rate adds in the window, across refills, clamping and the removal of idle
\* buckets, which gives a full bucket back.
WindowIsBounded ==
  \A ip \in Ip : \A i, j \in DOMAIN admitted[ip] :
    i <= j => j - i + 1 <= Burst + (admitted[ip][j] - admitted[ip][i])
=============================================================================
