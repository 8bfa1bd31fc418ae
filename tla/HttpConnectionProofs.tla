------------------------- MODULE HttpConnectionProofs -------------------------
(***************************************************************************)
(* Proofs about HttpConnection and RateLimiter.                            *)
(*                                                                         *)
(* The rate limiter admits no more than its burst and its rate in any      *)
(* window of time, for any addresses, burst, rate and schedule.            *)
(*                                                                         *)
(* Reply number i is about request number i, for any set of requests, of   *)
(* any length, cut into any read events: where each request lies in the    *)
(* stream, where the parser stands in it, then the steps of the parser,    *)
(* of the client and of onMessage.                                         *)
(***************************************************************************)
EXTENDS HttpConnection, SequenceTheorems, TLAPS

-----------------------------------------------------------------------------
(* The rate limiter.  What an address was admitted since any of its        *)
(* requests, together with the tokens it has left, is at most the burst    *)
(* and what was refilled since; an address without a bucket has been idle  *)
(* for so long that the full bucket it gets next is covered as well.       *)

LimiterTyped ==
  /\ now \in Nat
  /\ admitted \in [Ip -> Seq(Nat)]
  /\ \A ip \in Ip : \A i \in DOMAIN admitted[ip] : admitted[ip][i] <= now
  /\ DOMAIN buckets \subseteq Ip
  /\ \A ip \in DOMAIN buckets :
       buckets[ip] = [tokens |-> buckets[ip].tokens, lastFill |-> buckets[ip].lastFill]
       /\ buckets[ip].tokens \in 0 .. Burst /\ buckets[ip].lastFill \in 0 .. now

\* n requests since a, and t tokens left at time f.
Covered(n, t, a, f) == n + t <= Burst + (f - a)

BucketsCover ==
  \A ip \in Ip : \A i \in DOMAIN admitted[ip] :
    LET n == Len(admitted[ip]) - i + 1 IN
    IF ip \in DOMAIN buckets
    THEN Covered(n, buckets[ip].tokens, admitted[ip][i], buckets[ip].lastFill)
    ELSE Covered(n, Burst, admitted[ip][i], now)

LEMMA CoveredLater ==
  ASSUME NEW n \in Int, NEW t \in Int, NEW a \in Int, NEW f \in Int, NEW g \in Int, NEW l \in Int,
         Covered(n, t, a, f), g - t <= l - f
  PROVE  Covered(n, g, a, l)
BY LimiterAssumption DEF Covered

LimiterInv == LimiterTyped /\ BucketsCover /\ WindowIsBounded

\* The bucket as allow() finds it after the refill, and what it covers.
LEMMA FilledCovers ==
  ASSUME LimiterInv, NEW ip \in Ip
  PROVE  /\ Filled(ip) = [tokens |-> Filled(ip).tokens, lastFill |-> now]
         /\ Filled(ip).tokens \in 0 .. Burst
         /\ \A i \in DOMAIN admitted[ip] :
              Covered(Len(admitted[ip]) - i + 1, Filled(ip).tokens, admitted[ip][i], now)
<1>1. /\ now \in Nat /\ Burst \in Nat /\ admitted[ip] \in Seq(Nat)
      /\ Len(admitted[ip]) \in Nat /\ DOMAIN admitted[ip] = 1 .. Len(admitted[ip])
      /\ \A i \in DOMAIN admitted[ip] : admitted[ip][i] \in Nat
  BY LimiterAssumption, LenProperties, ElementOfSeq DEF LimiterInv, LimiterTyped
<1>2. CASE ip \in DOMAIN buckets
  <2> DEFINE t == buckets[ip].tokens
             f == buckets[ip].lastFill
             g == AtMost(Burst, t + (now - f))
  <2>1. t \in Nat /\ t <= Burst /\ f \in Nat /\ f <= now
    BY <1>1, <1>2 DEF LimiterInv, LimiterTyped
  <2>2. Filled(ip) = [tokens |-> g, lastFill |-> now]
    BY <1>2 DEF Filled
  <2>3. \A i \in DOMAIN admitted[ip] : Covered(Len(admitted[ip]) - i + 1, t, admitted[ip][i], f)
    BY <1>2 DEF LimiterInv, BucketsCover
  <2> HIDE DEF t, f
  <2>4. g \in 0 .. Burst /\ g <= t + (now - f)
    BY <1>1, <2>1 DEF AtMost
  <2> HIDE DEF g
  <2>5. \A i \in DOMAIN admitted[ip] : Covered(Len(admitted[ip]) - i + 1, g, admitted[ip][i], now)
    <3> SUFFICES ASSUME NEW i \in DOMAIN admitted[ip]
                 PROVE  Covered(Len(admitted[ip]) - i + 1, g, admitted[ip][i], now)
      OBVIOUS
    <3>1. /\ Len(admitted[ip]) - i + 1 \in Int /\ admitted[ip][i] \in Int /\ now \in Int
          /\ t \in Int /\ f \in Int /\ g \in Int /\ g - t <= now - f
      BY <1>1, <2>1, <2>4
    <3>2. QED
      BY <2>3, <3>1, CoveredLater
  <2>6. QED
    BY <2>2, <2>4, <2>5
<1>3. CASE ip \notin DOMAIN buckets
  <2>1. Filled(ip) = [tokens |-> Burst, lastFill |-> now]
    BY <1>3 DEF Filled
  <2>2. QED
    BY <1>1, <1>3, <2>1 DEF LimiterInv, BucketsCover
<1>4. QED
  BY <1>2, <1>3

\* What allow() leaves in the buckets: the bucket it looked at, and those that
\* have not been idle for a minute.
LEMMA AllowBuckets ==
  ASSUME NEW ip \in Ip, NEW allowed \in BOOLEAN, Allow(ip, allowed)
  PROVE  LET spent == IF allowed THEN [Filled(ip) EXCEPT !.tokens = @ - 1] ELSE Filled(ip)
         IN  /\ DOMAIN buckets' \subseteq DOMAIN buckets \cup {ip}
             /\ \A o \in DOMAIN buckets' : buckets'[o] = IF o = ip THEN spent ELSE buckets[o]
             /\ \A o \in DOMAIN buckets : o # ip /\ o \notin DOMAIN buckets' => Idle(buckets[o])
             /\ ip \notin DOMAIN buckets' => Idle(spent)
<1> DEFINE spent == IF allowed THEN [Filled(ip) EXCEPT !.tokens = @ - 1] ELSE Filled(ip)
           all == [o \in DOMAIN buckets \cup {ip} |-> IF o = ip THEN spent ELSE buckets[o]]
<1>1. buckets' = Kept(all)
  BY DEF Allow
<1> HIDE DEF spent
<1>2. /\ DOMAIN buckets' \subseteq DOMAIN buckets \cup {ip}
      /\ \A o \in DOMAIN buckets' : buckets'[o] = IF o = ip THEN spent ELSE buckets[o]
      /\ \A o \in DOMAIN buckets : o # ip /\ o \notin DOMAIN buckets' => Idle(buckets[o])
      /\ ip \notin DOMAIN buckets' => Idle(spent)
  <2>1. CASE now - lastCleanup < IdleTicks
    BY <1>1, <2>1 DEF Kept
  <2>2. CASE ~(now - lastCleanup < IdleTicks)
    <3>1. buckets' = [o \in {o \in DOMAIN buckets \cup {ip} : ~Idle(all[o])} |-> all[o]]
      BY <1>1, <2>2 DEF Kept
    <3>2. QED
      BY <3>1
  <2>3. QED
    BY <2>1, <2>2
<1>3. QED
  BY <1>2 DEF spent

LEMMA AllowLimiterInv ==
  ASSUME LimiterInv, NEW ip \in Ip, NEW allowed \in BOOLEAN, Allow(ip, allowed)
  PROVE  LimiterInv'
<1> DEFINE T == Filled(ip).tokens
           left == IF allowed THEN T - 1 ELSE T
           spent == IF allowed THEN [Filled(ip) EXCEPT !.tokens = @ - 1] ELSE Filled(ip)
<1>1. /\ Filled(ip) = [tokens |-> T, lastFill |-> now] /\ T \in 0 .. Burst
      /\ \A i \in DOMAIN admitted[ip] : Covered(Len(admitted[ip]) - i + 1, T, admitted[ip][i], now)
  BY FilledCovers
<1>2. (allowed <=> T >= 1) /\ now' = now
      /\ admitted' = IF allowed THEN [admitted EXCEPT ![ip] = Append(@, now)] ELSE admitted
  BY DEF Allow
<1>3. spent = [tokens |-> left, lastFill |-> now]
  BY <1>1
<1>4. /\ DOMAIN buckets' \subseteq DOMAIN buckets \cup {ip}
      /\ \A o \in DOMAIN buckets' : buckets'[o] = IF o = ip THEN spent ELSE buckets[o]
      /\ \A o \in DOMAIN buckets : o # ip /\ o \notin DOMAIN buckets' => Idle(buckets[o])
      /\ ip \notin DOMAIN buckets' => Idle(spent)
  BY AllowBuckets
<1>5. Burst \in Nat \ {0} /\ IdleTicks \in Nat /\ Burst <= IdleTicks /\ now \in Nat
  BY LimiterAssumption DEF LimiterInv, LimiterTyped
<1> HIDE DEF T, spent
<1>6. left \in 0 .. Burst /\ (allowed => T = left + 1 /\ left \in Nat)
  BY <1>1, <1>2, <1>5
<1>7. ip \in DOMAIN buckets'
  BY <1>3, <1>4, <1>5 DEF Idle
<1> DEFINE A == admitted[ip]
           B == admitted'[ip]
<1>8. /\ A \in Seq(Nat) /\ B = (IF allowed THEN Append(A, now) ELSE A)
      /\ \A o \in Ip : o # ip => admitted'[o] = admitted[o]
  BY <1>2 DEF LimiterInv, LimiterTyped
<1>9. /\ Len(A) \in Nat /\ DOMAIN A = 1 .. Len(A)
      /\ \A i \in DOMAIN A : A[i] \in Nat /\ A[i] <= now
  BY <1>8, LenProperties, ElementOfSeq DEF LimiterInv, LimiterTyped
<1>10. /\ B \in Seq(Nat) /\ Len(B) \in Nat /\ DOMAIN B = 1 .. Len(B)
       /\ Len(B) = IF allowed THEN Len(A) + 1 ELSE Len(A)
       /\ \A i \in DOMAIN A : B[i] = A[i]
       /\ allowed => B[Len(A) + 1] = now
       /\ \A i \in DOMAIN B : i \in DOMAIN A \/ (allowed /\ i = Len(A) + 1)
  BY <1>5, <1>8, <1>9, AppendProperties, LenProperties
<1> HIDE DEF A, B, left
<1>11. \A i \in DOMAIN B : B[i] \in Nat /\ B[i] <= now
  BY <1>5, <1>9, <1>10
<1>12. \A i \in DOMAIN B : Covered(Len(B) - i + 1, left, B[i], now)
  <2>1. \A i \in DOMAIN A : Covered(Len(A) - i + 1, T, A[i], now)
    BY <1>1 DEF A
  <2>2. ~allowed => T = left
    BY DEF left
  <2>3. QED
    <3>1. ASSUME NEW i \in DOMAIN A
          PROVE  Covered(Len(B) - i + 1, left, B[i], now)
      <4>1. A[i] \in Nat /\ i \in Nat /\ B[i] = A[i] /\ T \in Nat /\ left \in Nat
        BY <1>1, <1>5, <1>6, <1>9, <1>10
      <4>2. Len(A) - i + 1 + T = Len(B) - i + 1 + left
        <5>1. CASE allowed
          <6>1. Len(B) = Len(A) + 1 /\ T = left + 1 /\ left \in Nat
            BY <1>6, <1>10, <5>1
          <6>2. QED
            BY <1>9, <4>1, <6>1
        <5>2. CASE ~allowed
          BY <1>9, <1>10, <2>2, <4>1, <5>2
        <5>3. QED
          BY <5>1, <5>2
      <4>3. QED
        BY <1>5, <1>9, <2>1, <4>1, <4>2 DEF Covered
    <3>2. allowed => Covered(Len(B) - (Len(A) + 1) + 1, left, now, now)
      BY <1>1, <1>5, <1>6, <1>9, <1>10 DEF Covered
    <3>3. QED
      BY <1>10, <3>1, <3>2
<1>13. \A i, j \in DOMAIN B : i <= j => j - i + 1 <= Burst + (B[j] - B[i])
  <2>1. \A i, j \in DOMAIN A : i <= j => j - i + 1 <= Burst + (A[j] - A[i])
    BY DEF LimiterInv, WindowIsBounded, A
  <2>2. ASSUME allowed, NEW i \in DOMAIN B
        PROVE  (Len(A) + 1) - i + 1 <= Burst + (now - B[i])
    <3>1. Covered(Len(B) - i + 1, left, B[i], now)
      BY <1>12
    <3>2. QED
      BY <3>1, <2>2, <1>5, <1>6, <1>9, <1>10, <1>11 DEF Covered
  <2>3. QED
    BY <1>9, <1>10, <2>1, <2>2
<1>14. LimiterTyped'
  <2>1. admitted' \in [Ip -> Seq(Nat)]
    BY <1>2, <1>8, <1>10 DEF LimiterInv, LimiterTyped, B
  <2>2. \A o \in Ip : \A i \in DOMAIN admitted'[o] : admitted'[o][i] <= now'
    BY <1>2, <1>8, <1>11 DEF LimiterInv, LimiterTyped, B
  <2>3. DOMAIN buckets' \subseteq Ip
    BY <1>4 DEF LimiterInv, LimiterTyped
  <2>4. ASSUME NEW o \in DOMAIN buckets'
        PROVE  /\ buckets'[o] = [tokens |-> buckets'[o].tokens, lastFill |-> buckets'[o].lastFill]
               /\ buckets'[o].tokens \in 0 .. Burst /\ buckets'[o].lastFill \in 0 .. now'
    <3>1. CASE o = ip
      BY <1>2, <1>3, <1>4, <1>5, <1>6, <3>1
    <3>2. CASE o # ip
      BY <1>2, <1>4, <3>2 DEF LimiterInv, LimiterTyped
    <3>3. QED
      BY <3>1, <3>2
  <2>5. QED
    BY <1>2, <2>1, <2>2, <2>3, <2>4 DEF LimiterInv, LimiterTyped
<1>15. BucketsCover'
  <2>1. \A i \in DOMAIN B : Covered(Len(B) - i + 1, buckets'[ip].tokens, B[i], buckets'[ip].lastFill)
    BY <1>3, <1>4, <1>7, <1>12
  <2>2. ASSUME NEW o \in Ip, o # ip, NEW i \in DOMAIN admitted[o]
        PROVE  LET n == Len(admitted[o]) - i + 1 IN
               IF o \in DOMAIN buckets'
               THEN Covered(n, buckets'[o].tokens, admitted[o][i], buckets'[o].lastFill)
               ELSE Covered(n, Burst, admitted[o][i], now)
    <3>1. admitted[o] \in Seq(Nat) /\ Len(admitted[o]) \in Nat /\ i \in Nat /\ admitted[o][i] \in Nat
      BY LenProperties, ElementOfSeq DEF LimiterInv, LimiterTyped
    <3>2. CASE o \in DOMAIN buckets'
      BY <1>4, <2>2, <3>2 DEF LimiterInv, BucketsCover
    <3>3. CASE o \notin DOMAIN buckets
      BY <1>4, <2>2, <3>3 DEF LimiterInv, BucketsCover
    <3>4. CASE o \in DOMAIN buckets /\ o \notin DOMAIN buckets'
      <4>1. now - buckets[o].lastFill > IdleTicks
        BY <1>4, <2>2, <3>4 DEF Idle
      <4>2. buckets[o].tokens \in Nat /\ buckets[o].lastFill \in Nat
        BY <1>5, <3>4 DEF LimiterInv, LimiterTyped
      <4>3. Covered(Len(admitted[o]) - i + 1, buckets[o].tokens, admitted[o][i], buckets[o].lastFill)
        BY <3>4 DEF LimiterInv, BucketsCover
      <4>4. Covered(Len(admitted[o]) - i + 1, Burst, admitted[o][i], now)
        <5>1. /\ Len(admitted[o]) - i + 1 \in Int /\ admitted[o][i] \in Int
              /\ buckets[o].tokens \in Int /\ buckets[o].lastFill \in Int
              /\ Burst \in Int /\ now \in Int
              /\ Burst - buckets[o].tokens <= now - buckets[o].lastFill
          <6>1. Len(admitted[o]) - i + 1 \in Int
            BY <3>1
          <6>2. /\ admitted[o][i] \in Int /\ buckets[o].tokens \in Int
                /\ buckets[o].lastFill \in Int /\ Burst \in Int /\ now \in Int
            BY <1>5, <3>1, <4>2
          <6>3. Burst - buckets[o].tokens <= now - buckets[o].lastFill
            BY <1>5, <4>1, <4>2
          <6>4. QED
            BY <6>1, <6>2, <6>3
        <5>2. QED
          BY <4>3, <5>1, CoveredLater
      <4>5. QED
        BY <3>4, <4>4
    <3>5. QED
      BY <3>2, <3>3, <3>4
  <2>3. QED
    BY <1>2, <1>7, <1>8, <2>1, <2>2 DEF BucketsCover, B
<1>16. WindowIsBounded'
  BY <1>8, <1>13 DEF LimiterInv, WindowIsBounded, B
<1>17. QED
  BY <1>14, <1>15, <1>16 DEF LimiterInv

LEMMA TickLimiterInv ==
  ASSUME LimiterInv, Tick
  PROVE  LimiterInv'
<1>1. now \in Nat /\ Burst \in Nat /\ now' = now + 1 /\ UNCHANGED <<buckets, admitted>>
  BY LimiterAssumption DEF Tick, LimiterInv, LimiterTyped
<1>2. LimiterTyped'
  <2>1. \A ip \in Ip : \A i \in DOMAIN admitted[ip] : admitted[ip][i] \in Nat /\ admitted[ip][i] <= now
    BY LenProperties, ElementOfSeq DEF LimiterInv, LimiterTyped
  <2>2. QED
    BY <1>1, <2>1 DEF LimiterInv, LimiterTyped
<1>3. BucketsCover'
  <2>1. ASSUME NEW ip \in Ip, NEW i \in DOMAIN admitted[ip], ip \notin DOMAIN buckets
        PROVE  Covered(Len(admitted[ip]) - i + 1, Burst, admitted[ip][i], now + 1)
    <3>1. Len(admitted[ip]) - i + 1 \in Int /\ admitted[ip][i] \in Int
      BY LenProperties, ElementOfSeq DEF LimiterInv, LimiterTyped
    <3>2. Covered(Len(admitted[ip]) - i + 1, Burst, admitted[ip][i], now)
      BY <2>1 DEF LimiterInv, BucketsCover
    <3>3. Burst \in Int /\ now \in Int /\ now + 1 \in Int /\ Burst - Burst <= (now + 1) - now
      BY <1>1
    <3>4. QED
      BY <3>1, <3>2, <3>3, CoveredLater
  <2>2. QED
    BY <1>1, <2>1 DEF LimiterInv, BucketsCover
<1>4. WindowIsBounded'
  BY <1>1 DEF LimiterInv, WindowIsBounded
<1>5. QED
  BY <1>2, <1>3, <1>4 DEF LimiterInv

LEMMA InitLimiterInv == LimiterInit => LimiterInv
<1> SUFFICES ASSUME LimiterInit PROVE LimiterInv
  OBVIOUS
<1>1. \A ip \in Ip : DOMAIN admitted[ip] = {}
  <2>1. \A ip \in Ip : admitted[ip] = <<>>
    BY DEF LimiterInit
  <2>2. DOMAIN <<>> = {}
    OBVIOUS
  <2>3. QED
    BY <2>1, <2>2, Zenon
<1>2. admitted \in [Ip -> Seq(Nat)] /\ now = 0 /\ DOMAIN buckets = {}
  BY DEF LimiterInit
<1>3. QED
  BY <1>1, <1>2 DEF LimiterInv, LimiterTyped, BucketsCover, WindowIsBounded

LEMMA NextLimiterInv ==
  ASSUME LimiterInv, [Next]_vars
  PROVE  LimiterInv'
<1>1. CASE UNCHANGED limiterVars
  BY <1>1 DEF limiterVars, LimiterInv, LimiterTyped, BucketsCover, WindowIsBounded
<1>2. CASE (\E m \in Message : Send(m)) \/ Deliver
  BY <1>1, <1>2 DEF Send, Deliver
<1>3. CASE Other
  BY <1>3, AllowLimiterInv DEF Other
<1>4. CASE Clock
  BY <1>4, TickLimiterInv DEF Clock
<1>5. CASE Parse
  BY <1>1, <1>5 DEF Parse, unread, Incomplete, RequestLine, BadRequestLine, MethodAsserted, Header,
     BareHeader, EndOfHeaders, ExpectBody, TooLarge, LengthRequired, LengthThrows, Body
<1>6. ASSUME NEW allowed \in BOOLEAN, Admitted(allowed) PROVE LimiterInv'
  BY <1>1, <1>6, AllowLimiterInv, HttpAssumption DEF Admitted
<1>7. CASE React
  BY <1>1, <1>6, <1>7 DEF React, Refuse, Thrown, Wait, Oversize, Limited, Serve
<1>8. CASE UNCHANGED vars
  BY <1>1, <1>8 DEF vars
<1>9. QED
  BY <1>2, <1>3, <1>4, <1>5, <1>7, <1>8 DEF Next

(* In every window of time an address is allowed at most its burst and     *)
(* what the rate adds in the window (RateLimitMiddleware::allow): neither  *)
(* the refills nor their clamping nor the removal of idle buckets, each of *)
(* which gives a full bucket back, lets a client exceed it.                *)
THEOREM NoWindowExceedsTheRate == Spec => []WindowIsBounded
<1>1. Init => LimiterInv
  BY InitLimiterInv DEF Init
<1>2. LimiterInv /\ [Next]_vars => LimiterInv'
  BY NextLimiterInv
<1>3. LimiterInv => WindowIsBounded
  BY DEF LimiterInv
<1>4. QED
  BY <1>1, <1>2, <1>3, PTL DEF Spec

-----------------------------------------------------------------------------
(* The stream.  What has been sent and is not yet parsed, in the input     *)
(* buffer or on its way, is the rest of the request the parser is at and   *)
(* all of the requests behind it.                                          *)

\* Tokens are one of these.
Wire == [t : {"line"}, m : Message] \cup [t : {"other", "bare", "blank", "byte"}]
        \cup [t : {"length"}, n : Int]

\* The lines of a request before the blank one.
HeaderLines(m) == 1 + Len(m.headers) + (IF m.length = Absent THEN 0 ELSE 1)

\* The tokens of message i of s lie behind place b[i] of r, for i from k on; those
\* with places before 1 are gone.
Laid(b, k, s, r) ==
  /\ b[Len(s) + 1] = Len(r)
  /\ \A i \in k .. Len(s) : b[i + 1] = b[i] + Len(Tokens(s[i])) /\ b[i + 1] <= Len(r)
  /\ \A i \in k .. Len(s) : \A j \in 1 .. Len(Tokens(s[i])) :
       b[i] + j >= 1 => r[b[i] + j] = Tokens(s[i])[j]

\* Message k comes next, without its first c tokens.
At(k, c) ==
  /\ buf \in Seq(Wire) /\ net \in Seq(Wire)
  /\ \E b \in [Nat -> Int] : b[k] = -c /\ Laid(b, k, sent, buf \o net)

LEMMA MessageFields ==
  ASSUME NEW m \in Message
  PROVE  /\ m.headers \in Seq({"other", "bare"}) /\ Len(m.headers) \in Nat
         /\ \A i \in 1 .. Len(m.headers) : m.headers[i] \in {"other", "bare"}
         /\ DOMAIN m.headers = 1 .. Len(m.headers)
         /\ m.length \in Int /\ m.body \in Nat
         /\ m.length \in Nat \/ m.length \in {Absent, Junk}
         /\ m.line \in {"ok", "badMethod", "badVersion"}
         /\ m.method \in {"GET", "POST", "PUT", "DELETE", "OPTIONS"}
         /\ HeaderLines(m) \in Nat \ {0}
<1>1. m \in MessageType
  BY HttpAssumption
<1>2. m.headers \in Seq({"other", "bare"}) /\ m.body \in Nat
      /\ m.length \in {Absent, Junk} \union Nat
      /\ m.line \in {"ok", "badMethod", "badVersion"}
      /\ m.method \in {"GET", "POST", "PUT", "DELETE", "OPTIONS"}
  BY <1>1 DEF MessageType
<1>3. /\ Len(m.headers) \in Nat /\ DOMAIN m.headers = 1 .. Len(m.headers)
      /\ \A i \in 1 .. Len(m.headers) : m.headers[i] \in {"other", "bare"}
  BY <1>2, LenProperties, ElementOfSeq
<1>4. m.length \in Int
  BY <1>2 DEF Absent, Junk
<1>5. HeaderLines(m) \in Nat \ {0}
  <2>1. Len(m.headers) \in Nat
    BY <1>3
  <2>2. \A n \in Nat : 1 + n + 0 \in Nat \ {0} /\ 1 + n + 1 \in Nat \ {0}
    OBVIOUS
  <2>3. QED
    BY <2>1, <2>2 DEF HeaderLines
<1>6. m.length \in Nat \/ m.length \in {Absent, Junk}
  BY <1>2
<1>7. QED
  BY <1>2, <1>3, <1>4, <1>5, <1>6

LEMMA Joined ==
  ASSUME NEW S, NEW s \in Seq(S), NEW u \in Seq(S)
  PROVE  /\ s \o u \in Seq(S) /\ Len(s) \in Nat /\ Len(u) \in Nat
         /\ Len(s \o u) = Len(s) + Len(u)
         /\ \A i \in 1 .. Len(s) : (s \o u)[i] = s[i]
         /\ \A i \in 1 .. Len(u) : (s \o u)[Len(s) + i] = u[i]
<1>1. Len(s) \in Nat /\ Len(u) \in Nat
  BY LenProperties
<1>2. /\ s \o u \in Seq(S) /\ Len(s \o u) = Len(s) + Len(u)
      /\ \A i \in 1 .. Len(s) + Len(u) :
           (s \o u)[i] = IF i <= Len(s) THEN s[i] ELSE u[i - Len(s)]
  BY ConcatProperties
<1>3. \A i \in 1 .. Len(u) : /\ Len(s) + i \in 1 .. Len(s) + Len(u) /\ ~(Len(s) + i <= Len(s))
                             /\ Len(s) + i - Len(s) = i
  BY <1>1
<1>4. \A i \in 1 .. Len(s) : i \in 1 .. Len(s) + Len(u) /\ i <= Len(s)
  BY <1>1
<1>5. QED
  BY <1>1, <1>2, <1>3, <1>4

LEMMA TokensAre ==
  ASSUME NEW m \in Message
  PROVE  /\ Tokens(m) \in Seq(Wire) /\ Len(Tokens(m)) \in Nat
         /\ Len(Tokens(m)) = HeaderLines(m) + 1 + m.body
         /\ Tokens(m)[1] = [t |-> "line", m |-> m]
         /\ \A i \in 1 .. Len(m.headers) : Tokens(m)[1 + i] = [t |-> m.headers[i]]
         /\ m.length # Absent => Tokens(m)[HeaderLines(m)] = [t |-> "length", n |-> m.length]
         /\ Tokens(m)[HeaderLines(m) + 1] = [t |-> "blank"]
<1> DEFINE H == Len(m.headers)
           A == <<[t |-> "line", m |-> m]>>
           B == [i \in 1 .. H |-> [t |-> m.headers[i]]]
           C == IF m.length = Absent THEN <<>> ELSE <<[t |-> "length", n |-> m.length]>>
           D == <<[t |-> "blank"]>>
           E == [i \in 1 .. m.body |-> [t |-> "byte"]]
<1>1. /\ H \in Nat /\ m.body \in Nat /\ m.length \in Int
      /\ \A i \in 1 .. H : m.headers[i] \in {"other", "bare"}
  BY MessageFields
<1>2. A \in Seq(Wire) /\ Len(A) = 1 /\ A[1] = [t |-> "line", m |-> m]
  <2>1. [t |-> "line", m |-> m] \in Wire
    BY DEF Wire
  <2>2. QED
    BY <2>1
<1>3. B \in Seq(Wire) /\ Len(B) = H /\ \A i \in 1 .. H : B[i] = [t |-> m.headers[i]]
  <2>1. \A i \in 1 .. H : [t |-> m.headers[i]] \in Wire
    BY <1>1 DEF Wire
  <2>2. B \in [1 .. H -> Wire] /\ \A i \in 1 .. H : B[i] = [t |-> m.headers[i]]
    BY <2>1
  <2>3. \A S : \A n \in Nat : \A f \in [1 .. n -> S] : f \in Seq(S) /\ Len(f) = n
    OBVIOUS
  <2> HIDE DEF B
  <2>4. QED
    BY <1>1, <2>2, <2>3
<1>4. /\ C \in Seq(Wire) /\ Len(C) = (IF m.length = Absent THEN 0 ELSE 1)
      /\ m.length # Absent => C[1] = [t |-> "length", n |-> m.length]
  <2>1. [t |-> "length", n |-> m.length] \in Wire
    BY <1>1 DEF Wire
  <2>2. QED
    BY <2>1
<1>5. D \in Seq(Wire) /\ Len(D) = 1 /\ D[1] = [t |-> "blank"]
  <2>1. [t |-> "blank"] \in Wire
    BY DEF Wire
  <2>2. QED
    BY <2>1
<1>6. E \in Seq(Wire) /\ Len(E) = m.body
  <2>1. [t |-> "byte"] \in Wire
    BY DEF Wire
  <2>2. E \in [1 .. m.body -> Wire]
    BY <2>1
  <2>3. \A S : \A n \in Nat : \A f \in [1 .. n -> S] : f \in Seq(S) /\ Len(f) = n
    OBVIOUS
  <2>4. QED
    BY <1>1, <2>2, <2>3
<1>7. Tokens(m) = A \o B \o C \o D \o E
  BY DEF Tokens
<1>8. HeaderLines(m) = 1 + H + Len(C)
  BY <1>4 DEF HeaderLines
<1> HIDE DEF A, B, C, D, E, H
<1> DEFINE AB == A \o B
           ABC == AB \o C
           ABCD == ABC \o D
<1>9. /\ AB \in Seq(Wire) /\ Len(AB) = 1 + H
      /\ AB[1] = A[1] /\ \A i \in 1 .. H : AB[1 + i] = B[i]
  <2>1. A \in Seq(Wire) /\ B \in Seq(Wire)
    BY <1>2, <1>3
  <2>2. /\ AB \in Seq(Wire) /\ Len(AB) = Len(A) + Len(B)
        /\ \A i \in 1 .. Len(A) : AB[i] = A[i]
        /\ \A i \in 1 .. Len(B) : AB[Len(A) + i] = B[i]
    BY <2>1, Joined
  <2> HIDE DEF AB
  <2>3. QED
    BY <1>1, <1>2, <1>3, <2>2
<1> HIDE DEF AB
<1>10. /\ ABC \in Seq(Wire) /\ Len(ABC) = 1 + H + Len(C)
       /\ \A i \in 1 .. 1 + H : ABC[i] = AB[i]
       /\ Len(C) = 1 => ABC[1 + H + 1] = C[1]
  <2>1. AB \in Seq(Wire) /\ C \in Seq(Wire)
    BY <1>4, <1>9
  <2>2. /\ ABC \in Seq(Wire) /\ Len(ABC) = Len(AB) + Len(C)
        /\ \A i \in 1 .. Len(AB) : ABC[i] = AB[i]
        /\ \A i \in 1 .. Len(C) : ABC[Len(AB) + i] = C[i]
    BY <2>1, Joined
  <2> HIDE DEF ABC
  <2>3. QED
    BY <1>1, <1>4, <1>9, <2>2
<1> HIDE DEF ABC
<1>11. /\ ABCD \in Seq(Wire) /\ Len(ABCD) = 2 + H + Len(C)
       /\ \A i \in 1 .. 1 + H + Len(C) : ABCD[i] = ABC[i]
       /\ ABCD[2 + H + Len(C)] = D[1]
  <2>1. ABC \in Seq(Wire) /\ D \in Seq(Wire)
    BY <1>5, <1>10
  <2>2. /\ ABCD \in Seq(Wire) /\ Len(ABCD) = Len(ABC) + Len(D)
        /\ \A i \in 1 .. Len(ABC) : ABCD[i] = ABC[i]
        /\ \A i \in 1 .. Len(D) : ABCD[Len(ABC) + i] = D[i]
    BY <2>1, Joined
  <2> HIDE DEF ABCD
  <2>3. QED
    BY <1>1, <1>4, <1>5, <1>10, <2>2
<1> HIDE DEF ABCD
<1>12. /\ Tokens(m) \in Seq(Wire) /\ Len(Tokens(m)) = 2 + H + Len(C) + m.body
       /\ \A i \in 1 .. 2 + H + Len(C) : Tokens(m)[i] = ABCD[i]
  <2>1. Tokens(m) = ABCD \o E
    BY <1>7 DEF AB, ABC, ABCD
  <2>2. ABCD \in Seq(Wire) /\ E \in Seq(Wire)
    BY <1>6, <1>11
  <2>3. /\ ABCD \o E \in Seq(Wire) /\ Len(ABCD \o E) = Len(ABCD) + Len(E)
        /\ \A i \in 1 .. Len(ABCD) : (ABCD \o E)[i] = ABCD[i]
    BY <2>2, Joined
  <2>4. QED
    BY <1>6, <1>11, <2>1, <2>3
<1>13. \A i \in 1 .. H : /\ 1 + i \in 1 .. 1 + H /\ 1 + i \in 1 .. 1 + H + Len(C)
                         /\ 1 + i \in 1 .. 2 + H + Len(C)
  BY <1>1, <1>4
<1>14. \A i \in 1 .. H : Tokens(m)[1 + i] = [t |-> m.headers[i]]
  <2>1. ASSUME NEW i \in 1 .. H PROVE Tokens(m)[1 + i] = [t |-> m.headers[i]]
    <3>1. Tokens(m)[1 + i] = ABCD[1 + i] /\ ABCD[1 + i] = ABC[1 + i]
      BY <1>11, <1>12, <1>13
    <3>2. ABC[1 + i] = AB[1 + i] /\ AB[1 + i] = B[i]
      BY <1>9, <1>10, <1>13
    <3>3. QED
      BY <1>3, <3>1, <3>2
  <2>2. QED
    BY <2>1
<1>15. m.length # Absent => Tokens(m)[1 + H + Len(C)] = [t |-> "length", n |-> m.length]
  <2> SUFFICES ASSUME m.length # Absent
               PROVE  Tokens(m)[1 + H + Len(C)] = [t |-> "length", n |-> m.length]
    OBVIOUS
  <2>1. Len(C) = 1 /\ C[1] = [t |-> "length", n |-> m.length]
    BY <1>4
  <2>2. /\ 1 + H + Len(C) \in 1 .. 1 + H + Len(C) /\ 1 + H + Len(C) \in 1 .. 2 + H + Len(C)
        /\ 1 + H + Len(C) = 1 + H + 1
    BY <1>1, <2>1
  <2>3. Tokens(m)[1 + H + Len(C)] = ABCD[1 + H + Len(C)]
    BY <1>12, <2>2
  <2>4. ABCD[1 + H + Len(C)] = ABC[1 + H + Len(C)]
    BY <1>11, <2>2
  <2>5. QED
    BY <1>10, <2>1, <2>2, <2>3, <2>4
<1>16. Tokens(m)[2 + H + Len(C)] = [t |-> "blank"]
  BY <1>1, <1>4, <1>5, <1>11, <1>12
<1>17. Tokens(m)[1] = [t |-> "line", m |-> m]
  BY <1>1, <1>2, <1>4, <1>9, <1>10, <1>11, <1>12
<1>18. /\ Len(Tokens(m)) = HeaderLines(m) + 1 + m.body /\ Len(Tokens(m)) \in Nat
       /\ HeaderLines(m) + 1 = 2 + H + Len(C)
  BY <1>1, <1>4, <1>8, <1>12
<1>19. QED
  BY <1>8, <1>12, <1>14, <1>15, <1>16, <1>17, <1>18 DEF H

\* Message i of s lies behind place b[i] of r.
Lies(b, i, s, r) ==
  /\ i \in 1 .. Len(s) /\ i \in Nat /\ i + 1 \in Nat
  /\ s[i] \in Message /\ Len(Tokens(s[i])) \in Nat /\ b[i] \in Int /\ Len(r) \in Nat
  /\ b[i + 1] = b[i] + Len(Tokens(s[i])) /\ b[i + 1] <= Len(r)
  /\ \A j \in 1 .. Len(Tokens(s[i])) : b[i] + j >= 1 =>
       b[i] + j \in 1 .. Len(r) /\ r[b[i] + j] = Tokens(s[i])[j]

LEMMA LaidAt ==
  ASSUME NEW s \in Seq(Message), NEW r \in Seq(Wire), NEW k \in Nat \ {0},
         NEW b \in [Nat -> Int], Laid(b, k, s, r), NEW i \in k .. Len(s)
  PROVE  Lies(b, i, s, r)
<1>1. Len(s) \in Nat /\ Len(r) \in Nat
  BY LenProperties
<1>2. i \in 1 .. Len(s) /\ i \in Nat /\ i + 1 \in Nat
  BY <1>1
<1>3. s[i] \in Message
  BY <1>2, ElementOfSeq
<1>4. Len(Tokens(s[i])) \in Nat
  BY <1>3, TokensAre
<1>5. b[i + 1] = b[i] + Len(Tokens(s[i])) /\ b[i + 1] <= Len(r) /\ b[i] \in Int
  BY <1>2 DEF Laid
<1>6. \A j \in 1 .. Len(Tokens(s[i])) : b[i] + j >= 1 => r[b[i] + j] = Tokens(s[i])[j]
  BY DEF Laid
<1> DEFINE w == Len(Tokens(s[i]))
<1> HIDE DEF w
<1>7. \A j \in 1 .. w : b[i] + j >= 1 => b[i] + j \in 1 .. Len(r)
  <2> DEFINE from == b[i]
             end == b[i + 1]
             len == Len(r)
  <2>1. w \in Nat /\ from \in Int /\ len \in Nat /\ end = from + w /\ end <= len
    BY <1>1, <1>4, <1>5 DEF w
  <2> HIDE DEF from, end, len
  <2>2. \A j \in 1 .. w : from + j >= 1 => from + j \in 1 .. len
    BY <2>1
  <2>3. QED
    BY <2>2 DEF from, len
<1>8. QED
  BY <1>1, <1>2, <1>3, <1>4, <1>5, <1>6, <1>7 DEF w, Lies

\* What the moves of the stream leave of Laid.
LEMMA LaidAppend ==
  ASSUME NEW s \in Seq(Message), NEW r \in Seq(Wire), NEW m \in Message,
         NEW k \in 1 .. Len(s) + 1, NEW b \in [Nat -> Int], Laid(b, k, s, r)
  PROVE  \E d \in [Nat -> Int] : d[k] = b[k] /\ Laid(d, k, Append(s, m), r \o Tokens(m))
<1> DEFINE n == Len(s)
           w == Len(r) + Len(Tokens(m))
           d == [b EXCEPT ![n + 2] = w]
           q == r \o Tokens(m)
           z == Append(s, m)
<1>1. n \in Nat /\ k \in 1 .. n + 1 /\ Len(r) \in Nat /\ Len(Tokens(m)) \in Nat /\ w \in Nat
  BY LenProperties, TokensAre
<1>2. /\ Len(q) = w /\ \A i \in 1 .. Len(r) : q[i] = r[i]
      /\ \A i \in 1 .. Len(Tokens(m)) : q[Len(r) + i] = Tokens(m)[i]
  BY TokensAre, Joined
<1>3. Len(z) = n + 1 /\ z[n + 1] = m /\ \A i \in 1 .. n : z[i] = s[i]
  BY AppendProperties
<1>4. /\ d \in [Nat -> Int] /\ d[n + 2] = w
      /\ \A i \in 1 .. n + 1 : d[i] = b[i]
  BY <1>1
<1>5. /\ b[n + 1] = Len(r)
      /\ \A i \in k .. n : b[i + 1] = b[i] + Len(Tokens(s[i])) /\ b[i + 1] <= Len(r)
      /\ \A i \in k .. n : \A j \in 1 .. Len(Tokens(s[i])) :
           b[i] + j >= 1 => r[b[i] + j] = Tokens(s[i])[j]
  BY DEF Laid
<1>6. \A i \in k .. n : i \in 1 .. n /\ i \in 1 .. n + 1 /\ i + 1 \in 1 .. n + 1 /\ i \in Nat
  BY <1>1
<1> HIDE DEF n, w, d, q, z
<1>7. \A i \in k .. n + 1 : d[i + 1] = d[i] + Len(Tokens(z[i])) /\ d[i + 1] <= w
  <2>1. ASSUME NEW i \in k .. n PROVE d[i + 1] = d[i] + Len(Tokens(z[i])) /\ d[i + 1] <= w
    <3>1. d[i + 1] = b[i + 1] /\ d[i] = b[i] /\ z[i] = s[i]
      BY <1>3, <1>4, <1>6
    <3>2. b[i + 1] <= Len(r) /\ b[i + 1] = b[i] + Len(Tokens(s[i])) /\ b[i + 1] \in Int
      BY <1>1, <1>5, <1>6
    <3>3. Len(r) <= w
      BY <1>1 DEF w
    <3>4. b[i + 1] <= w
      BY <1>1, <3>2, <3>3
    <3>5. QED
      BY <3>1, <3>2, <3>4
  <2>2. d[n + 1 + 1] = d[n + 1] + Len(Tokens(z[n + 1])) /\ d[n + 1 + 1] <= w
    <3>1. n + 1 + 1 = n + 2 /\ n + 1 \in 1 .. n + 1
      BY <1>1
    <3>2. d[n + 2] = w /\ d[n + 1] = Len(r) /\ z[n + 1] = m
      BY <1>3, <1>4, <1>5, <3>1
    <3>3. QED
      BY <1>1, <3>1, <3>2 DEF w
  <2>3. \A i \in k .. n + 1 : i \in k .. n \/ i = n + 1
    BY <1>1
  <2>4. QED
    BY <2>1, <2>2, <2>3
<1>8. \A i \in k .. n + 1 : \A j \in 1 .. Len(Tokens(z[i])) :
        d[i] + j >= 1 => q[d[i] + j] = Tokens(z[i])[j]
  <2>1. ASSUME NEW i \in k .. n, NEW j \in 1 .. Len(Tokens(z[i])), d[i] + j >= 1
        PROVE  q[d[i] + j] = Tokens(z[i])[j]
    <3>1. d[i] = b[i] /\ z[i] = s[i]
      BY <1>3, <1>4, <1>6
    <3>2. k \in Nat \ {0} /\ i \in k .. Len(s)
      BY <1>1 DEF n
    <3>3. Lies(b, i, s, r)
      BY <3>2, LaidAt
    <3>4. b[i] + j \in 1 .. Len(r) /\ r[b[i] + j] = Tokens(s[i])[j]
      BY <2>1, <3>1, <3>3 DEF Lies
    <3>5. QED
      BY <1>2, <3>1, <3>4
  <2>2. ASSUME NEW j \in 1 .. Len(Tokens(z[n + 1]))
        PROVE  q[d[n + 1] + j] = Tokens(z[n + 1])[j]
    <3>1. n + 1 \in 1 .. n + 1
      BY <1>1
    <3>2. d[n + 1] = Len(r) /\ z[n + 1] = m
      BY <1>3, <1>4, <1>5, <3>1
    <3>3. QED
      BY <1>2, <2>2, <3>2
  <2>3. \A j \in 1 .. Len(Tokens(z[n + 1])) :
          d[n + 1] + j >= 1 => q[d[n + 1] + j] = Tokens(z[n + 1])[j]
    BY <2>2
  <2>4. \A i \in k .. n + 1 : i \in k .. n \/ i = n + 1
    BY <1>1
  <2>5. QED
    BY <2>1, <2>3, <2>4
<1>9. Laid(d, k, z, q) /\ d[k] = b[k]
  <2>1. Len(z) + 1 = n + 2
    BY <1>1, <1>3
  <2>2. QED
    BY <1>1, <1>2, <1>3, <1>4, <1>7, <1>8, <2>1 DEF Laid
<1>10. QED
  BY <1>4, <1>9 DEF q, z

\* q is r without its first n tokens, and the places in d are those in b for it.
Dropped(n, b, r, d, q, i) ==
  /\ n \in Nat /\ d[i] = b[i] - n /\ d[i + 1] = b[i + 1] - n
  /\ \A x \in 1 .. Len(r) - n : q[x] = r[n + x]

LiesStill(d, i, s, q, l) ==
  /\ d[i + 1] = d[i] + Len(Tokens(s[i])) /\ d[i + 1] <= l
  /\ \A j \in 1 .. Len(Tokens(s[i])) : d[i] + j >= 1 => q[d[i] + j] = Tokens(s[i])[j]

LEMMA LiesShifted ==
  ASSUME NEW s, NEW r, NEW b, NEW i, NEW d, NEW q, NEW n,
         Lies(b, i, s, r), Dropped(n, b, r, d, q, i)
  PROVE  LiesStill(d, i, s, q, Len(r) - n)
<1> DEFINE w == Len(Tokens(s[i]))
           l == Len(r)
           x == b[i]
           y == b[i + 1]
<1>1. x \in Int /\ w \in Nat /\ l \in Nat /\ y = x + w /\ y <= l
  BY DEF Lies
<1>2. \A j \in 1 .. w : x + j >= 1 => x + j \in 1 .. l /\ r[x + j] = Tokens(s[i])[j]
  BY DEF Lies
<1>3. n \in Nat /\ d[i] = x - n /\ d[i + 1] = y - n /\ \A z \in 1 .. l - n : q[z] = r[n + z]
  BY DEF Dropped
<1> HIDE DEF w, l, x, y
<1>4. y - n = (x - n) + w /\ y - n <= l - n
  BY <1>1, <1>3
<1>5. ASSUME NEW j \in 1 .. w, (x - n) + j >= 1
      PROVE  q[(x - n) + j] = Tokens(s[i])[j]
  <2>1. x + j >= 1 /\ n + ((x - n) + j) = x + j
    BY <1>1, <1>3, <1>5
  <2>2. x + j \in 1 .. l /\ r[x + j] = Tokens(s[i])[j]
    BY <1>2, <2>1
  <2>3. (x - n) + j \in 1 .. l - n
    BY <1>1, <1>3, <1>5, <2>2
  <2>4. QED
    BY <1>3, <2>1, <2>2, <2>3
<1>6. QED
  BY <1>3, <1>4, <1>5 DEF w, l, LiesStill

LEMMA LaidShift ==
  ASSUME NEW s \in Seq(Message), NEW r \in Seq(Wire), NEW n \in 0 .. Len(r),
         NEW k \in 1 .. Len(s) + 1, NEW b \in [Nat -> Int], Laid(b, k, s, r)
  PROVE  \E d \in [Nat -> Int] : d[k] = b[k] - n /\ Laid(d, k, s, SubSeq(r, n + 1, Len(r)))
<1> DEFINE d == [i \in Nat |-> b[i] - n]
           q == SubSeq(r, n + 1, Len(r))
<1>1. Len(s) \in Nat /\ Len(r) \in Nat /\ n \in Nat /\ k \in Nat \ {0}
  BY LenProperties
<1>2. Len(q) = Len(r) - n /\ \A i \in 1 .. Len(r) - n : q[i] = r[n + i]
  BY <1>1
<1>3. d \in [Nat -> Int] /\ \A i \in Nat : d[i] = b[i] - n /\ b[i] \in Int
  BY <1>1
<1>4. /\ b[Len(s) + 1] = Len(r)
      /\ \A i \in k .. Len(s) : b[i + 1] = b[i] + Len(Tokens(s[i])) /\ b[i + 1] <= Len(r)
      /\ \A i \in k .. Len(s) : \A j \in 1 .. Len(Tokens(s[i])) :
           b[i] + j >= 1 => r[b[i] + j] = Tokens(s[i])[j]
  BY DEF Laid
<1> HIDE DEF d, q
<1>5. ASSUME NEW i \in k .. Len(s)
      PROVE  LiesStill(d, i, s, q, Len(r) - n)
  <2>1. Lies(b, i, s, r)
    BY <1>1, LaidAt
  <2>2. i \in Nat /\ i + 1 \in Nat
    BY <2>1 DEF Lies
  <2>3. d[i] = b[i] - n /\ d[i + 1] = b[i + 1] - n
    BY <1>3, <2>2
  <2>4. Dropped(n, b, r, d, q, i)
    BY <1>1, <1>2, <2>3 DEF Dropped
  <2>5. QED
    BY <2>1, <2>4, LiesShifted
<1>6. Laid(d, k, s, q) /\ d[k] = b[k] - n
  <2>1. d[Len(s) + 1] = Len(q)
    <3>1. Len(s) + 1 \in Nat
      BY <1>1
    <3>2. QED
      BY <1>2, <1>3, <1>4, <3>1
  <2>2. QED
    BY <1>1, <1>2, <1>3, <1>5, <2>1 DEF Laid, LiesStill
<1>7. QED
  BY <1>3, <1>6 DEF q

LEMMA Reassociated ==
  ASSUME NEW x \in Seq(Wire), NEW y \in Seq(Wire), NEW z \in Seq(Wire)
  PROVE  (x \o y) \o z = x \o (y \o z)
BY ConcatAssociative

\* A client sends: the tokens go to the end of the stream.
LEMMA AtSend ==
  ASSUME NEW k \in 1 .. Len(sent) + 1, NEW c \in Nat, sent \in Seq(Message), At(k, c),
         NEW m \in Message, sent' = Append(sent, m), net' = net \o Tokens(m), buf' = buf
  PROVE  At(k, c)'
<1>1. buf \in Seq(Wire) /\ net \in Seq(Wire) /\ Tokens(m) \in Seq(Wire)
  BY TokensAre DEF At
<1>2. net' \in Seq(Wire) /\ buf \o net \in Seq(Wire)
  BY <1>1, ConcatProperties
<1>3. buf' \o net' = (buf \o net) \o Tokens(m)
  <2>1. (buf \o net) \o Tokens(m) = buf \o (net \o Tokens(m))
    BY <1>1, Reassociated
  <2>2. QED
    BY <2>1
<1>4. PICK b \in [Nat -> Int] : b[k] = -c /\ Laid(b, k, sent, buf \o net)
  BY DEF At
<1>5. PICK d \in [Nat -> Int] :
        d[k] = b[k] /\ Laid(d, k, Append(sent, m), (buf \o net) \o Tokens(m))
  BY <1>2, <1>4, LaidAppend
<1>6. QED
  BY <1>1, <1>2, <1>3, <1>4, <1>5 DEF At

\* Some of it arrives: the stream is cut at another place.
LEMMA AtDeliver ==
  ASSUME NEW k \in Nat, NEW c \in Nat, At(k, c), NEW n \in 1 .. Len(net),
         buf' = buf \o SubSeq(net, 1, n), net' = SubSeq(net, n + 1, Len(net)), sent' = sent
  PROVE  At(k, c)'
<1>1. buf \in Seq(Wire) /\ net \in Seq(Wire) /\ Len(net) \in Nat
  BY LenProperties DEF At
<1>2. SubSeq(net, 1, n) \in Seq(Wire) /\ net' \in Seq(Wire)
  <2>1. \A i \in 1 .. Len(net) : net[i] \in Wire
    BY <1>1, ElementOfSeq
  <2>2. QED
    BY <1>1, <2>1, SubSeqProperties
<1>3. buf' \in Seq(Wire)
  BY <1>1, <1>2, ConcatProperties
<1>4. SubSeq(net, 1, n) \o SubSeq(net, n + 1, Len(net)) = net
  <2>1. /\ 1 \in 1 .. Len(net) + 1 /\ n \in 1 - 1 .. Len(net) /\ Len(net) \in n .. Len(net)
    BY <1>1
  <2>2. QED
    BY <1>1, <2>1, ConcatAdjacentSubSeq, SubSeqFull
<1>5. buf' \o net' = buf \o net
  <2>1. SubSeq(net, n + 1, Len(net)) \in Seq(Wire)
    BY <1>2
  <2>2. (buf \o SubSeq(net, 1, n)) \o SubSeq(net, n + 1, Len(net))
          = buf \o (SubSeq(net, 1, n) \o SubSeq(net, n + 1, Len(net)))
    BY <1>1, <1>2, <2>1, Reassociated
  <2>3. QED
    BY <1>4, <2>2
<1>6. QED
  BY <1>2, <1>3, <1>5 DEF At

\* The parser takes n tokens out of the buffer.
LEMMA AtConsume ==
  ASSUME NEW k \in 1 .. Len(sent) + 1, NEW c \in Nat, sent \in Seq(Message), At(k, c),
         NEW n \in 0 .. Len(buf),
         buf' = SubSeq(buf, n + 1, Len(buf)), net' = net, sent' = sent
  PROVE  At(k, c + n)'
<1>1. /\ buf \in Seq(Wire) /\ net \in Seq(Wire) /\ Len(buf) \in Nat /\ Len(net) \in Nat
      /\ n \in Nat
  BY LenProperties DEF At
<1> DEFINE r == buf \o net
           q == SubSeq(r, n + 1, Len(r))
           p == SubSeq(buf, n + 1, Len(buf)) \o net
<1>2. /\ r \in Seq(Wire) /\ Len(r) = Len(buf) + Len(net)
      /\ \A i \in 1 .. Len(buf) : r[i] = buf[i]
      /\ \A i \in 1 .. Len(net) : r[Len(buf) + i] = net[i]
  BY <1>1, Joined
<1>3. /\ buf' \in Seq(Wire) /\ Len(buf') = Len(buf) - n
      /\ \A i \in 1 .. Len(buf) - n : buf'[i] = buf[n + i]
  BY <1>1
<1>4. /\ p \in Seq(Wire) /\ Len(p) = Len(buf) - n + Len(net)
      /\ \A i \in 1 .. Len(buf) - n : p[i] = buf[n + i]
      /\ \A i \in 1 .. Len(net) : p[Len(buf) - n + i] = net[i]
  <2>1. /\ buf' \o net \in Seq(Wire) /\ Len(buf' \o net) = Len(buf') + Len(net)
        /\ \A i \in 1 .. Len(buf') : (buf' \o net)[i] = buf'[i]
        /\ \A i \in 1 .. Len(net) : (buf' \o net)[Len(buf') + i] = net[i]
    <3>1. buf' \in Seq(Wire) /\ net \in Seq(Wire)
      BY <1>1, <1>3
    <3> DEFINE x == buf'
    <3> HIDE DEF x
    <3>2. x \in Seq(Wire)
      BY <3>1 DEF x
    <3>3. /\ x \o net \in Seq(Wire) /\ Len(x \o net) = Len(x) + Len(net)
          /\ \A i \in 1 .. Len(x) : (x \o net)[i] = x[i]
          /\ \A i \in 1 .. Len(net) : (x \o net)[Len(x) + i] = net[i]
      BY <3>1, <3>2, Joined
    <3>4. QED
      BY <3>3 DEF x
  <2>2. p = buf' \o net
    OBVIOUS
  <2> HIDE DEF p
  <2>3. QED
    BY <1>3, <2>1, <2>2
<1> HIDE DEF r
<1>5. /\ q \in Seq(Wire) /\ Len(q) = Len(r) - n /\ \A i \in 1 .. Len(r) - n : q[i] = r[n + i]
  BY <1>1, <1>2
<1> HIDE DEF p, q
<1>6. p = q
  <2>1. Len(p) = Len(q)
    BY <1>1, <1>2, <1>4, <1>5
  <2>2. ASSUME NEW i \in 1 .. Len(p) PROVE p[i] = q[i]
    <3>1. CASE i <= Len(buf) - n
      <4>1. i \in 1 .. Len(buf) - n /\ n + i \in 1 .. Len(buf) /\ i \in 1 .. Len(r) - n
        BY <1>1, <1>2, <1>4, <3>1
      <4>2. QED
        BY <1>2, <1>4, <1>5, <4>1
    <3>2. CASE ~(i <= Len(buf) - n)
      <4> DEFINE j == i - (Len(buf) - n)
      <4>1. /\ j \in 1 .. Len(net) /\ i = Len(buf) - n + j /\ n + i = Len(buf) + j
            /\ i \in 1 .. Len(r) - n
        BY <1>1, <1>2, <1>4, <3>2
      <4> HIDE DEF j
      <4>2. p[i] = net[j] /\ q[i] = r[n + i] /\ r[Len(buf) + j] = net[j]
        BY <1>2, <1>4, <1>5, <4>1
      <4>3. QED
        BY <4>1, <4>2
    <3>3. QED
      BY <1>1, <1>4, <3>1, <3>2
  <2>3. QED
    BY <1>4, <1>5, <2>1, <2>2, SeqEqual
<1>7. PICK b \in [Nat -> Int] : b[k] = -c /\ Laid(b, k, sent, r)
  BY DEF At, r
<1>8. n \in 0 .. Len(r)
  BY <1>1, <1>2
<1>9. PICK d \in [Nat -> Int] : d[k] = b[k] - n /\ Laid(d, k, sent, q)
  BY <1>2, <1>7, <1>8, LaidShift DEF q
<1>10. d[k] = -(c + n)
  BY <1>1, <1>7, <1>9
<1>11. buf' \o net' = q
  BY <1>6 DEF p
<1>12. QED
  BY <1>1, <1>3, <1>9, <1>10, <1>11 DEF At

\* A message that was taken whole is followed by the next one.
LEMMA AtNext ==
  ASSUME sent \in Seq(Message), NEW k \in 1 .. Len(sent), At(k, Len(Tokens(sent[k])))
  PROVE  At(k + 1, 0)
<1>1. PICK b \in [Nat -> Int] : b[k] = -Len(Tokens(sent[k])) /\ Laid(b, k, sent, buf \o net)
  BY DEF At
<1>2. Len(sent) \in Nat /\ sent[k] \in Message /\ Len(Tokens(sent[k])) \in Nat
  BY LenProperties, ElementOfSeq, TokensAre
<1>3. b[k + 1] = -0
  <2>1. k \in k .. Len(sent)
    BY <1>2
  <2>2. b[k + 1] = b[k] + Len(Tokens(sent[k]))
    BY <1>1, <2>1 DEF Laid
  <2>3. QED
    BY <1>1, <1>2, <2>2
<1>4. Laid(b, k + 1, sent, buf \o net)
  <2>1. \A i \in k + 1 .. Len(sent) : i \in k .. Len(sent)
    BY <1>2
  <2>2. QED
    BY <1>1, <2>1 DEF Laid
<1>5. QED
  BY <1>1, <1>3, <1>4 DEF At

\* Nothing is in the buffer before it was sent.
LEMMA AtEnd ==
  ASSUME sent \in Seq(Message), At(Len(sent) + 1, 0)
  PROVE  buf = <<>>
<1>1. PICK b \in [Nat -> Int] : b[Len(sent) + 1] = -0 /\ Laid(b, Len(sent) + 1, sent, buf \o net)
  BY DEF At
<1>2. Len(buf \o net) = 0
  BY <1>1 DEF Laid
<1>3. buf \in Seq(Wire) /\ net \in Seq(Wire)
  BY DEF At
<1>4. Len(buf) = 0
  BY <1>2, <1>3, Joined
<1>5. QED
  BY <1>3, <1>4, EmptySeq

LEMMA LinePlaces ==
  ASSUME NEW m \in Message, NEW c \in 0 .. HeaderLines(m)
  PROVE  \/ c = 0 \/ c \in 1 .. Len(m.headers)
         \/ c = HeaderLines(m) - 1 /\ m.length # Absent
         \/ c = HeaderLines(m)
<1>1. Len(m.headers) \in Nat
  BY MessageFields
<1>2. CASE m.length = Absent
  <2>1. HeaderLines(m) = 1 + Len(m.headers)
    BY <1>1, <1>2 DEF HeaderLines
  <2>2. QED
    BY <1>1, <2>1
<1>3. CASE m.length # Absent
  <2>1. HeaderLines(m) = 2 + Len(m.headers)
    BY <1>1, <1>3 DEF HeaderLines
  <2>2. QED
    BY <1>1, <1>3, <2>1
<1>4. QED
  BY <1>2, <1>3

\* The line the parser looks at is the next one of the message it is at.
LEMMA NextLine ==
  ASSUME sent \in Seq(Message), NEW k \in 1 .. Len(sent), NEW c \in 0 .. HeaderLines(sent[k]),
         At(k, c), LineEnd # 0
  PROVE  /\ LineEnd = 1 /\ 1 \in 0 .. Len(buf)
         /\ Line = Tokens(sent[k])[c + 1] /\ ~Garbled
         /\ AfterLine = SubSeq(buf, 1 + 1, Len(buf))
<1> DEFINE m == sent[k]
           ends == {i \in DOMAIN buf : buf[i].t # "byte"}
<1>1. m \in Message
  BY ElementOfSeq
<1>2. /\ HeaderLines(m) \in Nat \ {0} /\ m.body \in Nat
      /\ Len(Tokens(m)) = HeaderLines(m) + 1 + m.body
  BY <1>1, MessageFields, TokensAre
<1>3. c \in Nat /\ c + 1 \in 1 .. Len(Tokens(m))
  BY <1>2
<1>4. /\ buf \in Seq(Wire) /\ net \in Seq(Wire) /\ Len(buf) \in Nat /\ DOMAIN buf = 1 .. Len(buf)
  BY LenProperties DEF At
<1>5. PICK b \in [Nat -> Int] : b[k] = -c /\ Laid(b, k, sent, buf \o net)
  BY DEF At
<1>6. (buf \o net)[1] = Tokens(m)[c + 1]
  <2>1. k \in k .. Len(sent) /\ b[k] + (c + 1) = 1
    BY <1>3, <1>5, LenProperties
  <2>2. \A j \in 1 .. Len(Tokens(m)) : b[k] + j >= 1 => (buf \o net)[b[k] + j] = Tokens(m)[j]
    BY <1>5, <2>1 DEF Laid
  <2>3. b[k] + (c + 1) >= 1
    BY <2>1
  <2>4. QED
    BY <1>3, <2>1, <2>2, <2>3
<1>7. ends # {} /\ LineEnd = CHOOSE i \in ends : \A j \in ends : i <= j
  BY DEF LineEnd
<1>8. 1 \in 1 .. Len(buf)
  BY <1>4, <1>7
<1>9. buf[1] = Tokens(m)[c + 1]
  BY <1>4, <1>6, <1>8, Joined
<1>10. Tokens(m)[c + 1].t # "byte"
  <2>1. CASE c = 0
    <3>1. Tokens(m)[1] = [t |-> "line", m |-> m]
      BY <1>1, TokensAre
    <3>2. c + 1 = 1
      BY <2>1
    <3>3. QED
      BY <3>1, <3>2
  <2>2. CASE c \in 1 .. Len(m.headers)
    <3>1. Tokens(m)[1 + c] = [t |-> m.headers[c]]
      BY <1>1, <2>2, TokensAre
    <3>2. m.headers[c] \in {"other", "bare"}
      BY <1>1, <2>2, MessageFields
    <3>3. 1 + c = c + 1
      BY <1>3
    <3>4. QED
      BY <3>1, <3>2, <3>3
  <2>3. CASE c = HeaderLines(m) - 1 /\ m.length # Absent
    <3>1. Tokens(m)[HeaderLines(m)] = [t |-> "length", n |-> m.length]
      BY <1>1, <2>3, TokensAre
    <3>2. c + 1 = HeaderLines(m)
      BY <1>2, <2>3
    <3>3. QED
      BY <3>1, <3>2
  <2>4. CASE c = HeaderLines(m)
    <3>1. Tokens(m)[HeaderLines(m) + 1] = [t |-> "blank"]
      BY <1>1, TokensAre
    <3>2. QED
      BY <2>4, <3>1
  <2>5. QED
    BY <1>1, <2>1, <2>2, <2>3, <2>4, LinePlaces
<1>11. 1 \in ends /\ \A j \in ends : 1 <= j
  BY <1>4, <1>8, <1>9, <1>10
<1>12. \A i \in ends : i \in Nat
  BY <1>4
<1> HIDE DEF ends
<1>13. LineEnd \in ends /\ \A j \in ends : LineEnd <= j
  BY <1>7, <1>11
<1>14. LineEnd = 1
  BY <1>11, <1>12, <1>13
<1>15. QED
  BY <1>8, <1>9, <1>14 DEF Line, Garbled, AfterLine

-----------------------------------------------------------------------------
(* The parser.  While the connection is open and every request answered so *)
(* far ended where the parser takes it to end, the parser is at the first  *)
(* request without a reply, and has of it what it has read of it.          *)

\* What request_ holds of m.
Read(m, length, large, body) ==
  [method |-> m.method, target |-> m.target, keep |-> m.keep, length |-> length,
   large |-> large, body |-> body]

BetweenTurns == reading \in {"no", "parse", "parsed"}
TooBig(m) == HasLength(m) /\ m.length > MaxBodySize
BodyOf(m) == IF HasLength(m) THEN m.length ELSE 0

Starting(k) == At(k, 0) /\ parser = Fresh /\ BetweenTurns

InHeaders(k, c) ==
  LET m == sent[k] IN
  /\ m.line = "ok" /\ BetweenTurns /\ At(k, c) /\ c \in 1 .. HeaderLines(m)
  /\ \A i \in 1 .. c - 1 : i <= Len(m.headers) => m.headers[i] # "bare"
  /\ parser = [state |-> "headers",
               req |-> Read(m, IF c = HeaderLines(m) THEN m.length ELSE Absent, FALSE, 0)]

InBody(k) ==
  LET m == sent[k] IN
  /\ ~Malformed(m) /\ HasLength(m) /\ m.length \in 1 .. MaxBodySize
  /\ BetweenTurns /\ At(k, HeaderLines(m) + 1)
  /\ parser = [state |-> "body", req |-> Read(m, m.length, FALSE, 0)]

Got(k) ==
  LET m == sent[k] IN
  /\ ~Malformed(m) /\ reading = "parsed"
  /\ parser = [state |-> "gotAll",
               req |-> IF TooBig(m) THEN Read(m, m.length, TRUE, 0)
                       ELSE Read(m, m.length, FALSE, BodyOf(m))]
  /\ Framed(m) /\ ~TooBig(m) => At(k, Len(Tokens(m)))

Refused(k) == reading \in {"refuse", "thrown"} /\ Malformed(sent[k])

Track(k) ==
  \/ k \in 1 .. Len(sent) + 1 /\ Starting(k)
  \/ /\ k \in 1 .. Len(sent)
     /\ (\E c \in Nat : InHeaders(k, c)) \/ InBody(k) \/ Got(k) \/ Refused(k)

\* The requests up to number n ended where the parser takes them to end.
Sound(n) == \A j \in 1 .. n : j \in 1 .. Len(sent) => Framed(sent[j])

Matches(m, r) ==
  IF Malformed(m) THEN r.code = 400
  ELSE IF HasLength(m) /\ m.length > MaxBodySize THEN r.code = 413
  ELSE \/ r.code = 429 /\ limited
       \/ /\ r.req.method = m.method /\ r.req.target = m.target
          /\ r.req.body = (IF HasLength(m) THEN m.length ELSE 0)
          /\ r.code = Status(m)

MatchInv == \A i \in 1 .. Len(replies) :
              Sound(i - 1) => i \in 1 .. Len(sent) /\ Matches(sent[i], replies[i])
TrackInv == open /\ Sound(Len(replies)) => Track(Len(replies) + 1)

ConnTyped == sent \in Seq(Message) /\ \E S : replies \in Seq(S)

ConnInv == ConnTyped /\ MatchInv /\ TrackInv

-----------------------------------------------------------------------------
(* A turn of the parser's loop.                                            *)

LEMMA ReadLength ==
  ASSUME NEW m, NEW length, NEW large, NEW body, NEW other
  PROVE  [Read(m, length, large, body) EXCEPT !.length = other] = Read(m, other, large, body)
<1> DEFINE a == m.method
           b == m.target
           c == m.keep
<1> HIDE DEF a, b, c
<1>1. [[method |-> a, target |-> b, keep |-> c, length |-> length, large |-> large, body |-> body]
         EXCEPT !.length = other]
      = [method |-> a, target |-> b, keep |-> c, length |-> other, large |-> large, body |-> body]
  OBVIOUS
<1>2. QED
  BY <1>1 DEF Read, a, b, c

LEMMA HeaderCount ==
  ASSUME NEW m \in Message
  PROVE  /\ Len(m.headers) \in Nat
         /\ m.length = Absent => HeaderLines(m) = Len(m.headers) + 1
         /\ m.length # Absent => HeaderLines(m) = Len(m.headers) + 2
<1>1. Len(m.headers) \in Nat
  BY MessageFields
<1>2. CASE m.length = Absent
  BY <1>1, <1>2 DEF HeaderLines
<1>3. CASE m.length # Absent
  BY <1>1, <1>3 DEF HeaderLines
<1>4. QED
  BY <1>1, <1>2, <1>3

\* The states the parser is in.
LEMMA StateOf ==
  ASSUME NEW k
  PROVE  /\ Starting(k) => parser.state = "requestLine" /\ parser = Fresh
         /\ \A c : InHeaders(k, c) => parser.state = "headers"
         /\ InBody(k) => parser.state = "body"
         /\ Got(k) => parser.state = "gotAll" /\ reading = "parsed"
         /\ Refused(k) => reading \in {"refuse", "thrown"}
<1>1. Starting(k) => parser.state = "requestLine" /\ parser = Fresh
  BY DEF Starting, Fresh
<1>2. \A c : InHeaders(k, c) => parser.state = "headers"
  BY DEF InHeaders
<1>3. InBody(k) => parser.state = "body"
  BY DEF InBody
<1>4. Got(k) => parser.state = "gotAll" /\ reading = "parsed"
  BY DEF Got
<1>5. Refused(k) => reading \in {"refuse", "thrown"}
  BY DEF Refused
<1>6. QED
  BY <1>1, <1>2, <1>3, <1>4, <1>5

\* The lines in front of the blank one.
LEMMA HeaderLine ==
  ASSUME NEW m \in Message, NEW c \in 1 .. HeaderLines(m), c < HeaderLines(m)
  PROVE  \/ /\ c \in 1 .. Len(m.headers) /\ m.headers[c] \in {"other", "bare"}
            /\ Tokens(m)[c + 1] = [t |-> m.headers[c]]
            /\ c + 1 = HeaderLines(m) => m.length = Absent
         \/ /\ c = HeaderLines(m) - 1 /\ c > Len(m.headers) /\ m.length # Absent
            /\ Tokens(m)[c + 1] = [t |-> "length", n |-> m.length]
<1>1. Len(m.headers) \in Nat /\ HeaderLines(m) \in Nat
  BY MessageFields
<1>2. CASE c \in 1 .. Len(m.headers)
  <2>1. Tokens(m)[1 + c] = [t |-> m.headers[c]]
    BY <1>2, TokensAre
  <2>2. m.headers[c] \in {"other", "bare"}
    BY <1>2, MessageFields
  <2>3. 1 + c = c + 1
    BY <1>1
  <2>4. c + 1 = HeaderLines(m) => m.length = Absent
    BY <1>1, <1>2, HeaderCount
  <2>5. QED
    BY <1>2, <2>1, <2>2, <2>3, <2>4
<1>3. CASE c \notin 1 .. Len(m.headers)
  <2>1. c = HeaderLines(m) - 1 /\ c > Len(m.headers) /\ m.length # Absent
    BY <1>1, <1>3, HeaderCount
  <2>2. Tokens(m)[HeaderLines(m)] = [t |-> "length", n |-> m.length]
    BY <2>1, TokensAre
  <2>3. c + 1 = HeaderLines(m)
    BY <1>1, <2>1
  <2>4. QED
    BY <2>1, <2>2, <2>3
<1>4. QED
  BY <1>2, <1>3

\* What a line that is looked at says about the parser and the message.
LEMMA AtRequestLine ==
  ASSUME sent \in Seq(Message), NEW k, Track(k), reading = "parse",
         parser.state = "requestLine", LineEnd # 0
  PROVE  /\ k \in 1 .. Len(sent) /\ parser = Fresh /\ At(k, 0)
         /\ LineEnd = 1 /\ 1 \in 0 .. Len(buf) /\ ~Garbled
         /\ Line = [t |-> "line", m |-> sent[k]] /\ AfterLine = SubSeq(buf, 1 + 1, Len(buf))
<1>1. k \in 1 .. Len(sent) + 1 /\ Starting(k)
  BY StateOf DEF Track
<1>2. k # Len(sent) + 1
  <2>1. ASSUME k = Len(sent) + 1 PROVE FALSE
    <3>1. At(Len(sent) + 1, 0)
      BY <1>1, <2>1 DEF Starting
    <3>2. buf = <<>>
      BY <3>1, AtEnd
    <3>3. DOMAIN buf = {}
      BY <3>2
    <3>4. LineEnd = 0
      BY <3>3 DEF LineEnd
    <3>5. QED
      BY <3>4
  <2>2. QED
    BY <2>1
<1>3. k \in 1 .. Len(sent)
  BY <1>1, <1>2, LenProperties
<1>4. sent[k] \in Message
  BY <1>3, ElementOfSeq
<1>5. 0 \in 0 .. HeaderLines(sent[k]) /\ 0 + 1 = 1
  BY <1>4, MessageFields
<1>6. /\ LineEnd = 1 /\ 1 \in 0 .. Len(buf) /\ ~Garbled
      /\ Line = Tokens(sent[k])[0 + 1] /\ AfterLine = SubSeq(buf, 1 + 1, Len(buf))
  BY <1>1, <1>3, <1>5, NextLine DEF Starting
<1>7. QED
  BY <1>1, <1>3, <1>4, <1>5, <1>6, TokensAre DEF Starting

LEMMA AtHeaderLine ==
  ASSUME sent \in Seq(Message), NEW k, Track(k), reading = "parse",
         parser.state = "headers", LineEnd # 0
  PROVE  /\ k \in 1 .. Len(sent) /\ sent[k] \in Message
         /\ LineEnd = 1 /\ 1 \in 0 .. Len(buf) /\ ~Garbled
         /\ AfterLine = SubSeq(buf, 1 + 1, Len(buf))
         /\ \E c \in Nat : InHeaders(k, c) /\ Line = Tokens(sent[k])[c + 1]
<1>1. k \in 1 .. Len(sent) /\ \E c \in Nat : InHeaders(k, c)
  BY StateOf DEF Track
<1>2. PICK c \in Nat : InHeaders(k, c)
  BY <1>1
<1>3. sent[k] \in Message
  BY <1>1, ElementOfSeq
<1>4. c \in 0 .. HeaderLines(sent[k]) /\ At(k, c)
  BY <1>2, <1>3, MessageFields DEF InHeaders
<1>5. QED
  BY <1>1, <1>2, <1>3, <1>4, NextLine

LEMMA RequestLineTracks ==
  ASSUME sent \in Seq(Message), NEW k, Track(k), RequestLine
  PROVE  Track(k)'
<1>1. /\ k \in 1 .. Len(sent) /\ parser = Fresh /\ At(k, 0) /\ 1 \in 0 .. Len(buf)
      /\ Line = [t |-> "line", m |-> sent[k]] /\ AfterLine = SubSeq(buf, 1 + 1, Len(buf))
  BY AtRequestLine DEF RequestLine
<1> DEFINE m == sent[k]
<1>2. m.line = "ok" /\ m \in Message
  BY <1>1, ElementOfSeq DEF RequestLine, RequestLineIs
<1>3. parser' = [state |-> "headers", req |-> Read(m, Absent, FALSE, 0)]
  BY <1>1 DEF RequestLine, Become, Fresh, NoRequest, Read
<1>4. sent' = sent /\ net' = net /\ reading' = "parse" /\ buf' = SubSeq(buf, 1 + 1, Len(buf))
  BY <1>1 DEF RequestLine, unread
<1>5. k \in 1 .. Len(sent) + 1 /\ 0 \in Nat /\ 0 + 1 = 1
  BY <1>1, LenProperties
<1>6. At(k, 1)'
  <2>1. At(k, 0 + 1)'
    BY <1>1, <1>4, <1>5, AtConsume
  <2>2. QED
    BY <1>5, <2>1
<1>7. HeaderLines(m) \in Nat \ {0} /\ (1 = HeaderLines(m) => m.length = Absent)
  BY <1>2, MessageFields, HeaderCount
<1>8. (IF 1 = HeaderLines(m) THEN m.length ELSE Absent) = Absent /\ 1 \in 1 .. HeaderLines(m)
  BY <1>7
<1>9. \A i \in 1 .. 1 - 1 : FALSE
  OBVIOUS
<1>10. InHeaders(k, 1)'
  BY <1>2, <1>3, <1>4, <1>6, <1>8, <1>9 DEF InHeaders, BetweenTurns
<1>11. QED
  BY <1>1, <1>4, <1>10 DEF Track

LEMMA BadRequestLineTracks ==
  ASSUME sent \in Seq(Message), NEW k, Track(k), BadRequestLine
  PROVE  Track(k)'
<1>1. /\ k \in 1 .. Len(sent) /\ ~Garbled /\ Line = [t |-> "line", m |-> sent[k]]
  BY AtRequestLine DEF BadRequestLine
<1>2. sent[k].line # "ok"
  BY <1>1 DEF BadRequestLine, RequestLineIs
<1>3. sent' = sent /\ reading' = "refuse"
  BY DEF BadRequestLine, unread, Leave
<1>4. Refused(k)'
  BY <1>2, <1>3 DEF Refused, Malformed
<1>5. QED
  BY <1>1, <1>3, <1>4 DEF Track

LEMMA MethodAssertedTracks ==
  ASSUME sent \in Seq(Message), NEW k, Track(k), MethodAsserted
  PROVE  FALSE
<1>1. parser = Fresh
  BY AtRequestLine DEF MethodAsserted
<1>2. QED
  BY <1>1 DEF MethodAsserted, Fresh, NoRequest

LEMMA HeaderTracks ==
  ASSUME sent \in Seq(Message), NEW k, Track(k), Header
  PROVE  Track(k)'
<1>1. /\ k \in 1 .. Len(sent) /\ sent[k] \in Message /\ 1 \in 0 .. Len(buf) /\ ~Garbled
      /\ AfterLine = SubSeq(buf, 1 + 1, Len(buf))
      /\ \E c \in Nat : InHeaders(k, c) /\ Line = Tokens(sent[k])[c + 1]
  BY AtHeaderLine DEF Header
<1>2. PICK c \in Nat : InHeaders(k, c) /\ Line = Tokens(sent[k])[c + 1]
  BY <1>1
<1> DEFINE m == sent[k]
<1>3. /\ m.line = "ok" /\ At(k, c) /\ c \in 1 .. HeaderLines(m) /\ HeaderLines(m) \in Nat
      /\ \A i \in 1 .. c - 1 : i <= Len(m.headers) => m.headers[i] # "bare"
      /\ parser.state = "headers"
      /\ parser.req = Read(m, IF c = HeaderLines(m) THEN m.length ELSE Absent, FALSE, 0)
  BY <1>1, <1>2, MessageFields DEF InHeaders
<1>4. Line.t \in {"other", "length"}
  BY DEF Header
<1>5. c < HeaderLines(m)
  <2>1. ASSUME c = HeaderLines(m) PROVE Line.t = "blank"
    <3>1. Tokens(m)[HeaderLines(m) + 1] = [t |-> "blank"]
      BY <1>1, TokensAre
    <3>2. QED
      BY <1>2, <2>1, <3>1
  <2>2. QED
    BY <1>3, <1>4, <2>1
<1>6. sent' = sent /\ net' = net /\ reading' = "parse" /\ buf' = SubSeq(buf, 1 + 1, Len(buf))
  BY <1>1 DEF Header, unread
<1>7. At(k, c + 1)'
  <2>1. k \in 1 .. Len(sent) + 1
    BY <1>1, LenProperties
  <2>2. QED
    BY <1>1, <1>3, <1>6, <2>1, AtConsume
<1>8. parser' = [state |-> "headers", req |-> IF Line.t = "length"
                   THEN [parser.req EXCEPT !.length = Line.n] ELSE parser.req]
  BY <1>1 DEF Header, Become
<1>9. parser.req = Read(m, Absent, FALSE, 0)
  <2>1. c # HeaderLines(m)
    BY <1>3, <1>5
  <2>2. (IF c = HeaderLines(m) THEN m.length ELSE Absent) = Absent
    BY <2>1
  <2>3. QED
    BY <1>3, <2>2
<1>10. /\ c <= Len(m.headers) => m.headers[c] # "bare"
       /\ parser' = [state |-> "headers",
                     req |-> Read(m, IF c + 1 = HeaderLines(m) THEN m.length ELSE Absent, FALSE, 0)]
  <2>1. CASE /\ c \in 1 .. Len(m.headers) /\ m.headers[c] \in {"other", "bare"}
             /\ Tokens(m)[c + 1] = [t |-> m.headers[c]]
             /\ c + 1 = HeaderLines(m) => m.length = Absent
    <3>1. Line.t = m.headers[c]
      BY <1>2, <2>1
    <3>2. QED
      BY <1>4, <1>8, <1>9, <2>1, <3>1
  <2>2. CASE /\ c = HeaderLines(m) - 1 /\ c > Len(m.headers) /\ m.length # Absent
             /\ Tokens(m)[c + 1] = [t |-> "length", n |-> m.length]
    <3>1. Line = [t |-> "length", n |-> m.length] /\ c + 1 = HeaderLines(m)
      BY <1>2, <1>3, <2>2
    <3>2. [Read(m, Absent, FALSE, 0) EXCEPT !.length = m.length] = Read(m, m.length, FALSE, 0)
      <4> DEFINE no == FALSE
      <4> HIDE DEF no
      <4>1. [Read(m, Absent, no, 0) EXCEPT !.length = m.length] = Read(m, m.length, no, 0)
        BY ReadLength
      <4>2. QED
        BY <4>1 DEF no
    <3>3. ~(c <= Len(m.headers))
      BY <1>1, <2>2, MessageFields
    <3>4. QED
      BY <1>8, <1>9, <3>1, <3>2, <3>3
  <2>3. QED
    BY <1>1, <1>3, <1>5, <2>1, <2>2, HeaderLine
<1>11. \A i \in 1 .. (c + 1) - 1 : i <= Len(m.headers) => m.headers[i] # "bare"
  <2>1. \A i \in 1 .. (c + 1) - 1 : i \in 1 .. c - 1 \/ i = c
    BY <1>2
  <2>2. QED
    BY <1>3, <1>10, <2>1
<1>12. c + 1 \in 1 .. HeaderLines(m) /\ c + 1 \in Nat
  BY <1>3, <1>5
<1>13. InHeaders(k, c + 1)'
  BY <1>3, <1>6, <1>7, <1>10, <1>11, <1>12 DEF InHeaders, BetweenTurns
<1>14. QED
  BY <1>1, <1>6, <1>12, <1>13 DEF Track

LEMMA BareHeaderTracks ==
  ASSUME sent \in Seq(Message), NEW k, Track(k), BareHeader
  PROVE  Track(k)'
<1>1. /\ k \in 1 .. Len(sent) /\ sent[k] \in Message /\ ~Garbled
      /\ \E c \in Nat : InHeaders(k, c) /\ Line = Tokens(sent[k])[c + 1]
  BY AtHeaderLine DEF BareHeader
<1>2. PICK c \in Nat : InHeaders(k, c) /\ Line = Tokens(sent[k])[c + 1]
  BY <1>1
<1> DEFINE m == sent[k]
<1>3. c \in 1 .. HeaderLines(m) /\ HeaderLines(m) \in Nat
  BY <1>1, <1>2, MessageFields DEF InHeaders
<1>4. Line.t \in {"line", "bare"}
  BY <1>1 DEF BareHeader
<1>5. c < HeaderLines(m)
  <2>1. ASSUME c = HeaderLines(m) PROVE Line.t = "blank"
    <3>1. Tokens(m)[HeaderLines(m) + 1] = [t |-> "blank"]
      BY <1>1, TokensAre
    <3>2. QED
      BY <1>2, <2>1, <3>1
  <2>2. QED
    BY <1>3, <1>4, <2>1
<1>6. c \in 1 .. Len(m.headers) /\ m.headers[c] = "bare"
  <2>1. CASE /\ c \in 1 .. Len(m.headers) /\ m.headers[c] \in {"other", "bare"}
             /\ Tokens(m)[c + 1] = [t |-> m.headers[c]]
    <3>1. Line.t = m.headers[c]
      BY <1>2, <2>1
    <3>2. QED
      BY <1>4, <2>1, <3>1
  <2>2. CASE Tokens(m)[c + 1] = [t |-> "length", n |-> m.length]
    <3>1. Line.t = "length"
      BY <1>2, <2>2
    <3>2. QED
      BY <1>4, <3>1
  <2>3. QED
    BY <1>1, <1>3, <1>5, <2>1, <2>2, HeaderLine
<1>7. Malformed(m)
  BY <1>1, <1>6, MessageFields DEF Malformed
<1>8. sent' = sent /\ reading' = "refuse"
  BY DEF BareHeader, unread, Leave
<1>9. Refused(k)'
  BY <1>7, <1>8 DEF Refused
<1>10. QED
  BY <1>1, <1>8, <1>9 DEF Track

\* At the blank line the headers are known, and none of them was bare.
LEMMA AtTheBlank ==
  ASSUME sent \in Seq(Message), NEW k, Track(k), AtBlank
  PROVE  LET m == sent[k] IN
         /\ k \in 1 .. Len(sent) /\ m \in Message /\ 1 \in 0 .. Len(buf)
         /\ AfterLine = SubSeq(buf, 1 + 1, Len(buf)) /\ At(k, HeaderLines(m))
         /\ parser = [state |-> "headers", req |-> Read(m, m.length, FALSE, 0)]
         /\ HasBody <=> HasLength(m)
         /\ Malformed(m) <=> HasLength(m) /\ m.length \in {Absent, Junk}
<1>1. /\ k \in 1 .. Len(sent) /\ sent[k] \in Message /\ 1 \in 0 .. Len(buf)
      /\ AfterLine = SubSeq(buf, 1 + 1, Len(buf))
      /\ \E c \in Nat : InHeaders(k, c) /\ Line = Tokens(sent[k])[c + 1]
  BY AtHeaderLine DEF AtBlank
<1>2. PICK c \in Nat : InHeaders(k, c) /\ Line = Tokens(sent[k])[c + 1]
  BY <1>1
<1> DEFINE m == sent[k]
<1>3. c \in 1 .. HeaderLines(m) /\ HeaderLines(m) \in Nat /\ Len(m.headers) \in Nat
  BY <1>1, <1>2, MessageFields DEF InHeaders
<1>4. Line.t = "blank"
  BY DEF AtBlank
<1>5. c = HeaderLines(m)
  <2>1. ASSUME c < HeaderLines(m) PROVE FALSE
    <3>1. CASE m.headers[c] \in {"other", "bare"} /\ Tokens(m)[c + 1] = [t |-> m.headers[c]]
      BY <1>2, <1>4, <3>1
    <3>2. CASE Tokens(m)[c + 1] = [t |-> "length", n |-> m.length]
      BY <1>2, <1>4, <3>2
    <3>3. QED
      BY <1>1, <1>3, <2>1, <3>1, <3>2, HeaderLine
  <2>2. QED
    BY <1>3, <2>1
<1>6. /\ m.line = "ok" /\ At(k, HeaderLines(m))
      /\ parser = [state |-> "headers", req |-> Read(m, m.length, FALSE, 0)]
  BY <1>2, <1>5 DEF InHeaders
<1>7. \A i \in DOMAIN m.headers : m.headers[i] # "bare"
  <2>1. \A i \in DOMAIN m.headers : i \in 1 .. c - 1 /\ i <= Len(m.headers)
    <3>1. DOMAIN m.headers = 1 .. Len(m.headers)
      BY <1>1, MessageFields
    <3>2. Len(m.headers) <= c - 1
      BY <1>1, <1>3, <1>5, HeaderCount
    <3>3. QED
      BY <1>3, <3>1, <3>2
  <2>2. QED
    BY <1>2, <2>1 DEF InHeaders
<1>8. HasBody <=> HasLength(m)
  BY <1>6 DEF HasBody, HasLength, Read
<1>9. QED
  BY <1>1, <1>6, <1>7, <1>8 DEF Malformed

LEMMA EndOfHeadersTracks ==
  ASSUME sent \in Seq(Message), NEW k, Track(k), EndOfHeaders
  PROVE  Track(k)'
<1> DEFINE m == sent[k]
<1>1. /\ k \in 1 .. Len(sent) /\ m \in Message /\ 1 \in 0 .. Len(buf)
      /\ AfterLine = SubSeq(buf, 1 + 1, Len(buf)) /\ At(k, HeaderLines(m))
      /\ parser = [state |-> "headers", req |-> Read(m, m.length, FALSE, 0)]
      /\ HasBody <=> HasLength(m)
      /\ Malformed(m) <=> HasLength(m) /\ m.length \in {Absent, Junk}
  BY AtTheBlank DEF EndOfHeaders
<1>2. /\ ~HasLength(m) \/ m.length = 0
      /\ parser' = [state |-> "gotAll", req |-> Read(m, m.length, FALSE, 0)]
      /\ sent' = sent /\ net' = net /\ reading' = "parsed"
      /\ buf' = SubSeq(buf, 1 + 1, Len(buf))
  BY <1>1 DEF EndOfHeaders, Become, Leave, unread, Read
<1>3. MaxBodySize \in Nat /\ HeaderLines(m) \in Nat /\ m.body \in Nat
  BY <1>1, MessageFields, HttpAssumption
<1>4. ~TooBig(m) /\ BodyOf(m) = 0 /\ ~Malformed(m)
  BY <1>1, <1>2, <1>3 DEF TooBig, BodyOf, Absent, Junk
<1>5. At(k, HeaderLines(m) + 1)'
  <2>1. k \in 1 .. Len(sent) + 1
    BY <1>1, LenProperties
  <2>2. QED
    BY <1>1, <1>2, <1>3, <2>1, AtConsume
<1>6. Framed(m) => Len(Tokens(m)) = HeaderLines(m) + 1
  <2>1. Framed(m) => m.body = 0
    BY <1>4 DEF Framed, BodyOf
  <2>2. Len(Tokens(m)) = HeaderLines(m) + 1 + m.body
    BY <1>1, TokensAre
  <2>3. QED
    BY <1>3, <2>1, <2>2
<1>7. Got(k)'
  BY <1>2, <1>4, <1>5, <1>6 DEF Got
<1>8. QED
  BY <1>1, <1>2, <1>7 DEF Track

LEMMA ExpectBodyTracks ==
  ASSUME sent \in Seq(Message), NEW k, Track(k), ExpectBody
  PROVE  Track(k)'
<1> DEFINE m == sent[k]
<1>1. /\ k \in 1 .. Len(sent) /\ m \in Message /\ 1 \in 0 .. Len(buf)
      /\ AfterLine = SubSeq(buf, 1 + 1, Len(buf)) /\ At(k, HeaderLines(m))
      /\ parser = [state |-> "headers", req |-> Read(m, m.length, FALSE, 0)]
      /\ HasBody <=> HasLength(m)
      /\ Malformed(m) <=> HasLength(m) /\ m.length \in {Absent, Junk}
  BY AtTheBlank DEF ExpectBody
<1>2. /\ HasLength(m) /\ m.length \in 1 .. MaxBodySize
      /\ parser' = [state |-> "body", req |-> Read(m, m.length, FALSE, 0)]
      /\ sent' = sent /\ net' = net /\ reading' = "parse"
      /\ buf' = SubSeq(buf, 1 + 1, Len(buf))
  BY <1>1 DEF ExpectBody, AtBlank, Become, unread, Read
<1>3. ~Malformed(m) /\ HeaderLines(m) \in Nat
  BY <1>1, <1>2, MessageFields DEF Absent, Junk
<1>4. At(k, HeaderLines(m) + 1)'
  <2>1. k \in 1 .. Len(sent) + 1
    BY <1>1, LenProperties
  <2>2. QED
    BY <1>1, <1>2, <1>3, <2>1, AtConsume
<1>5. InBody(k)'
  BY <1>2, <1>3, <1>4 DEF InBody, BetweenTurns
<1>6. QED
  BY <1>1, <1>2, <1>5 DEF Track

LEMMA TooLargeTracks ==
  ASSUME sent \in Seq(Message), NEW k, Track(k), TooLarge
  PROVE  Track(k)'
<1> DEFINE m == sent[k]
<1>1. /\ k \in 1 .. Len(sent) /\ m \in Message
      /\ parser = [state |-> "headers", req |-> Read(m, m.length, FALSE, 0)]
      /\ HasBody <=> HasLength(m)
      /\ Malformed(m) <=> HasLength(m) /\ m.length \in {Absent, Junk}
  BY AtTheBlank DEF TooLarge
<1>2. /\ HasLength(m) /\ m.length > MaxBodySize
      /\ parser' = [state |-> "gotAll", req |-> Read(m, m.length, TRUE, 0)]
      /\ sent' = sent /\ reading' = "parsed"
  BY <1>1 DEF TooLarge, Become, Leave, unread, Read
<1>3. TooBig(m) /\ ~Malformed(m)
  BY <1>1, <1>2, HttpAssumption DEF TooBig, Absent, Junk
<1>4. Got(k)'
  BY <1>2, <1>3 DEF Got
<1>5. QED
  BY <1>1, <1>2, <1>4 DEF Track

LEMMA LengthTracks ==
  ASSUME sent \in Seq(Message), NEW k, Track(k), LengthRequired \/ LengthThrows
  PROVE  Track(k)'
<1>1. /\ k \in 1 .. Len(sent)
      /\ parser = [state |-> "headers", req |-> Read(sent[k], sent[k].length, FALSE, 0)]
      /\ HasBody <=> HasLength(sent[k])
      /\ Malformed(sent[k]) <=> HasLength(sent[k]) /\ sent[k].length \in {Absent, Junk}
  BY AtTheBlank DEF LengthRequired, LengthThrows
<1>2. /\ Malformed(sent[k]) /\ sent' = sent /\ reading' \in {"refuse", "thrown"}
  BY <1>1 DEF LengthRequired, LengthThrows, Leave, unread, Read
<1>3. Refused(k)'
  BY <1>2 DEF Refused
<1>4. QED
  BY <1>1, <1>2, <1>3 DEF Track

LEMMA BodyTracks ==
  ASSUME sent \in Seq(Message), NEW k, Track(k), Body
  PROVE  Track(k)'
<1> DEFINE m == sent[k]
<1>1. k \in 1 .. Len(sent) /\ InBody(k)
  BY StateOf DEF Body, Track
<1>2. /\ ~Malformed(m) /\ HasLength(m) /\ m.length \in 1 .. MaxBodySize
      /\ At(k, HeaderLines(m) + 1)
      /\ parser = [state |-> "body", req |-> Read(m, m.length, FALSE, 0)]
  BY <1>1 DEF InBody
<1>3. m \in Message /\ HeaderLines(m) \in Nat /\ MaxBodySize \in Nat
  BY <1>1, ElementOfSeq, MessageFields, HttpAssumption
<1>4. /\ Len(buf) >= m.length /\ buf' = SubSeq(buf, m.length + 1, Len(buf))
      /\ parser' = [state |-> "gotAll", req |-> Read(m, m.length, FALSE, m.length)]
      /\ sent' = sent /\ net' = net /\ reading' = "parsed"
  BY <1>2 DEF Body, Become, Leave, unread, Read
<1>5. ~TooBig(m) /\ BodyOf(m) = m.length
  BY <1>2, <1>3 DEF TooBig, BodyOf
<1>6. At(k, HeaderLines(m) + 1 + m.length)'
  <2>1. k \in 1 .. Len(sent) + 1
    BY <1>1, LenProperties
  <2>2. HeaderLines(m) + 1 \in Nat /\ m.length \in 0 .. Len(buf)
    <3>1. Len(buf) \in Nat
      BY <1>2, LenProperties DEF At
    <3>2. QED
      BY <1>2, <1>3, <1>4, <3>1
  <2>3. QED
    BY <1>2, <1>4, <2>1, <2>2, AtConsume
<1>7. Framed(m) => Len(Tokens(m)) = HeaderLines(m) + 1 + m.length
  <2>1. Framed(m) => m.body = m.length
    BY <1>5 DEF Framed, BodyOf
  <2>2. QED
    BY <1>3, <2>1, TokensAre
<1>8. Got(k)'
  BY <1>2, <1>4, <1>5, <1>6, <1>7 DEF Got
<1>9. QED
  BY <1>1, <1>4, <1>8 DEF Track

\* The parser stays where it is, and so does the message it is at.
StillAt(k) ==
  /\ \A c \in Nat : At(k, c) => At(k, c)'
  /\ k \in 1 .. Len(sent) + 1 => k \in 1 .. Len(sent') + 1
  /\ k \in 1 .. Len(sent) => k \in 1 .. Len(sent') /\ sent'[k] = sent[k]

LEMMA StillTracks ==
  ASSUME sent \in Seq(Message), NEW k, Track(k), StillAt(k), parser' = parser,
         \/ reading' = reading
         \/ BetweenTurns /\ ~Got(k) /\ reading' \in {"no", "parse", "parsed"}
  PROVE  Track(k)'
<1>1. \A c \in Nat : At(k, c) => At(k, c)'
  BY DEF StillAt
<1>2. CASE Starting(k) /\ k \in 1 .. Len(sent) + 1
  <2>1. k \in 1 .. Len(sent') + 1
    BY <1>2 DEF StillAt
  <2>2. QED
    BY <1>1, <1>2, <2>1 DEF Starting, BetweenTurns, Track
<1>3. CASE k \in 1 .. Len(sent) /\ ((\E c \in Nat : InHeaders(k, c)) \/ InBody(k) \/ Got(k) \/ Refused(k))
  <2>1. k \in 1 .. Len(sent') /\ sent'[k] = sent[k] /\ sent[k] \in Message
    BY <1>3, ElementOfSeq DEF StillAt
  <2>2. CASE \E c \in Nat : InHeaders(k, c)
    <3>1. PICK c \in Nat : InHeaders(k, c)
      BY <2>2
    <3>2. InHeaders(k, c)'
      BY <1>1, <2>1, <3>1 DEF InHeaders, BetweenTurns
    <3>3. QED
      BY <2>1, <3>2 DEF Track
  <2>3. CASE InBody(k)
    <3>1. HeaderLines(sent[k]) + 1 \in Nat
      BY <2>1, MessageFields
    <3>2. QED
      BY <1>1, <2>1, <2>3, <3>1 DEF InBody, BetweenTurns, Track
  <2>4. CASE Got(k)
    <3>1. reading' = reading /\ Len(Tokens(sent[k])) \in Nat
      BY <2>1, <2>4, TokensAre
    <3>2. QED
      BY <1>1, <2>1, <2>4, <3>1 DEF Got, Track
  <2>5. CASE Refused(k)
    <3>1. reading' = reading
      BY <2>5 DEF Refused, BetweenTurns
    <3>2. QED
      BY <2>1, <2>5, <3>1 DEF Refused, Track
  <2>6. QED
    BY <1>3, <2>2, <2>3, <2>4, <2>5
<1>4. QED
  BY <1>2, <1>3 DEF Track

LEMMA StreamKept ==
  ASSUME NEW k, buf' = buf, net' = net, sent' = sent
  PROVE  StillAt(k)
<1>1. \A c : At(k, c) => At(k, c)'
  BY DEF At
<1>2. QED
  BY <1>1 DEF StillAt

LEMMA ParseTracks ==
  ASSUME sent \in Seq(Message), NEW k, Track(k), Parse
  PROVE  Track(k)'
<1>1. CASE Incomplete
  <2>1. /\ parser' = parser /\ buf' = buf /\ net' = net /\ sent' = sent
        /\ reading = "parse" /\ reading' = "parsed"
    BY <1>1 DEF Incomplete, Leave, unread
  <2>2. BetweenTurns /\ ~Got(k) /\ reading' \in {"no", "parse", "parsed"}
    BY <2>1 DEF BetweenTurns, Got
  <2>3. QED
    BY <2>1, <2>2, StreamKept, StillTracks
<1>2. QED
  BY <1>1, RequestLineTracks, BadRequestLineTracks, MethodAssertedTracks, HeaderTracks,
     BareHeaderTracks, EndOfHeadersTracks, ExpectBodyTracks, TooLargeTracks, LengthTracks,
     BodyTracks DEF Parse

-----------------------------------------------------------------------------
(* The client, the network, and the rest of onMessage.                     *)

LEMMA SendTracks ==
  ASSUME sent \in Seq(Message), NEW k, Track(k), NEW m \in Message, Send(m)
  PROVE  Track(k)'
<1>1. /\ sent' = Append(sent, m) /\ net' = net \o Tokens(m) /\ buf' = buf
      /\ parser' = parser /\ reading' = reading
  BY DEF Send
<1>2. Len(sent) \in Nat /\ Len(sent') = Len(sent) + 1 /\ \A i \in 1 .. Len(sent) : sent'[i] = sent[i]
  BY <1>1, LenProperties, AppendProperties
<1>3. k \in 1 .. Len(sent) + 1
  BY <1>2 DEF Track
<1>4. \A c \in Nat : At(k, c) => At(k, c)'
  BY <1>1, <1>3, AtSend
<1>5. StillAt(k)
  BY <1>2, <1>4 DEF StillAt
<1>6. QED
  BY <1>1, <1>5, StillTracks

LEMMA DeliverTracks ==
  ASSUME sent \in Seq(Message), NEW k, Track(k), Deliver
  PROVE  Track(k)'
<1>1. PICK n \in 1 .. Len(net) :
        buf' = buf \o SubSeq(net, 1, n) /\ net' = SubSeq(net, n + 1, Len(net))
  BY DEF Deliver
<1>2. sent' = sent /\ parser' = parser /\ reading = "no" /\ reading' = "parse"
  BY DEF Deliver
<1>3. k \in 1 .. Len(sent) + 1 /\ k \in Nat
  BY LenProperties DEF Track
<1>4. \A c \in Nat : At(k, c) => At(k, c)'
  BY <1>1, <1>2, <1>3, AtDeliver
<1>5. StillAt(k)
  BY <1>2, <1>4 DEF StillAt
<1>6. BetweenTurns /\ ~Got(k)
  BY <1>2 DEF BetweenTurns, Got
<1>7. QED
  BY <1>2, <1>5, <1>6, StillTracks

LEMMA SameSound ==
  ASSUME NEW n, sent' = sent
  PROVE  Sound(n)' <=> Sound(n)
BY DEF Sound

\* A reply, or none once the connection is closed.
LEMMA ReplyMatches ==
  ASSUME ConnInv, NEW r, replies' = IF open THEN Append(replies, r) ELSE replies,
         sent' = sent, limited' = limited,
         Track(Len(replies) + 1) =>
           /\ Len(replies) + 1 \in 1 .. Len(sent)
           /\ Matches(sent[Len(replies) + 1], r)
  PROVE  ConnTyped' /\ MatchInv'
<1>1. PICK S : replies \in Seq(S)
  BY DEF ConnInv, ConnTyped
<1>2. sent' \in Seq(Message) /\ Len(replies) \in Nat
  BY <1>1, LenProperties DEF ConnInv, ConnTyped
<1>3. \A i : Sound(i)' <=> Sound(i)
  BY SameSound
<1>4. \A m, x : Matches(m, x)' <=> Matches(m, x)
  BY DEF Matches
<1>5. CASE open
  <2>1. replies \in Seq(S \union {r}) /\ replies' = Append(replies, r) /\ r \in S \union {r}
    BY <1>1, <1>5, SeqMonotonic
  <2>2. /\ replies' \in Seq(S \union {r}) /\ Len(replies') = Len(replies) + 1
        /\ \A i \in 1 .. Len(replies) : replies'[i] = replies[i]
        /\ replies'[Len(replies) + 1] = r
    BY <2>1, AppendProperties
  <2>3. ASSUME NEW i \in 1 .. Len(replies'), Sound(i - 1)
        PROVE  i \in 1 .. Len(sent) /\ Matches(sent[i], replies'[i])
    <3>1. CASE i \in 1 .. Len(replies)
      BY <2>2, <2>3, <3>1 DEF ConnInv, MatchInv
    <3>2. CASE i = Len(replies) + 1
      <4>1. i - 1 = Len(replies)
        BY <1>2, <3>2
      <4>2. Track(Len(replies) + 1)
        BY <1>5, <2>3, <4>1 DEF ConnInv, TrackInv
      <4>3. QED
        BY <2>2, <3>2, <4>2
    <3>3. QED
      BY <1>2, <2>2, <3>1, <3>2
  <2>4. MatchInv'
    BY <1>3, <1>4, <2>3 DEF MatchInv
  <2>5. QED
    BY <1>2, <2>2, <2>4 DEF ConnTyped
<1>6. CASE ~open
  BY <1>2, <1>3, <1>4, <1>6 DEF ConnInv, ConnTyped, MatchInv
<1>7. QED
  BY <1>5, <1>6

LEMMA RefuseInv ==
  ASSUME ConnInv, Refuse \/ Thrown
  PROVE  ConnInv'
<1> DEFINE r == [code |-> 400, req |-> NoRequest]
<1>1. /\ replies' = IF open THEN Append(replies, r) ELSE replies
      /\ sent' = sent /\ limited' = limited /\ open' = FALSE /\ reading \in {"refuse", "thrown"}
  BY DEF Refuse, Thrown, Reply, Close, around
<1>2. ASSUME Track(Len(replies) + 1)
      PROVE  /\ Len(replies) + 1 \in 1 .. Len(sent)
             /\ Matches(sent[Len(replies) + 1], r)
  <2>1. Len(replies) + 1 \in 1 .. Len(sent) /\ Refused(Len(replies) + 1)
    BY <1>1, <1>2 DEF Track, Starting, InHeaders, InBody, Got, BetweenTurns
  <2>2. QED
    BY <2>1 DEF Refused, Matches
<1> HIDE DEF r
<1>3. ConnTyped' /\ MatchInv'
  BY <1>1, <1>2, ReplyMatches
<1>4. QED
  BY <1>1, <1>3 DEF ConnInv, TrackInv

\* A complete request is the one the parser is at.
LEMMA CompleteIsRead ==
  ASSUME NEW k, Track(k), Complete
  PROVE  k \in 1 .. Len(sent) /\ Got(k)
BY StateOf DEF Track, Complete

LEMMA OversizeInv ==
  ASSUME ConnInv, Oversize
  PROVE  ConnInv'
<1> DEFINE r == [code |-> 413, req |-> NoRequest]
<1>1. /\ replies' = IF open THEN Append(replies, r) ELSE replies
      /\ sent' = sent /\ limited' = limited /\ open' = FALSE
      /\ Complete /\ parser.req.large
  BY DEF Oversize, Reply, Close, around
<1>2. ASSUME Track(Len(replies) + 1)
      PROVE  /\ Len(replies) + 1 \in 1 .. Len(sent)
             /\ Matches(sent[Len(replies) + 1], r)
  <2>1. Len(replies) + 1 \in 1 .. Len(sent) /\ Got(Len(replies) + 1)
    BY <1>1, <1>2, CompleteIsRead
  <2>2. TooBig(sent[Len(replies) + 1]) /\ ~Malformed(sent[Len(replies) + 1])
    BY <1>1, <2>1 DEF Got, Read
  <2>3. QED
    BY <2>1, <2>2 DEF TooBig, Matches
<1> HIDE DEF r
<1>3. ConnTyped' /\ MatchInv'
  BY <1>1, <1>2, ReplyMatches
<1>4. QED
  BY <1>1, <1>3 DEF ConnInv, TrackInv

LEMMA LimitedInv ==
  ASSUME ConnInv, Limited
  PROVE  ConnInv'
<1> DEFINE r == [code |-> 429, req |-> NoRequest]
<1>1. /\ replies' = IF open THEN Append(replies, r) ELSE replies
      /\ sent' = sent /\ limited' = limited /\ open' = FALSE
      /\ Complete /\ ~parser.req.large /\ limited
  BY DEF Limited, Reply, Close, around, Admitted
<1>2. ASSUME Track(Len(replies) + 1)
      PROVE  /\ Len(replies) + 1 \in 1 .. Len(sent)
             /\ Matches(sent[Len(replies) + 1], r)
  <2>1. Len(replies) + 1 \in 1 .. Len(sent) /\ Got(Len(replies) + 1)
    BY <1>1, <1>2, CompleteIsRead
  <2>2. ~TooBig(sent[Len(replies) + 1]) /\ ~Malformed(sent[Len(replies) + 1])
    BY <1>1, <2>1 DEF Got, Read
  <2>3. QED
    BY <1>1, <2>1, <2>2 DEF TooBig, Matches
<1> HIDE DEF r
<1>3. ConnTyped' /\ MatchInv'
  BY <1>1, <1>2, ReplyMatches
<1>4. QED
  BY <1>1, <1>3 DEF ConnInv, TrackInv

\* What is served is the request the parser is at.
LEMMA ServeMatches ==
  ASSUME NEW k, Track(k), Serve
  PROVE  /\ k \in 1 .. Len(sent) /\ Got(k) /\ ~TooBig(sent[k])
         /\ Matches(sent[k], [code |-> Status(parser.req), req |-> parser.req])
<1>1. Complete /\ ~parser.req.large
  BY DEF Serve
<1>2. k \in 1 .. Len(sent) /\ Got(k)
  BY <1>1, CompleteIsRead
<1>3. ~TooBig(sent[k]) /\ ~Malformed(sent[k])
  BY <1>1, <1>2 DEF Got, Read
<1>4. parser.req = Read(sent[k], sent[k].length, FALSE, BodyOf(sent[k]))
  BY <1>2, <1>3 DEF Got
<1>5. /\ parser.req.method = sent[k].method /\ parser.req.target = sent[k].target
      /\ parser.req.body = BodyOf(sent[k])
  BY <1>4 DEF Read
<1>6. Status(parser.req) = Status(sent[k])
  BY <1>5 DEF Status, Preflight, Routed
<1>7. QED
  BY <1>2, <1>3, <1>5, <1>6 DEF TooBig, Matches, BodyOf

\* After it the parser is at the next one, if it ended where it should.
LEMMA ServeTracks ==
  ASSUME sent \in Seq(Message), NEW k \in Nat, Track(k), Serve,
         k \in 1 .. Len(sent) => Framed(sent[k])
  PROVE  Track(k + 1)'
<1>1. k \in 1 .. Len(sent) /\ Got(k) /\ ~TooBig(sent[k])
  BY ServeMatches
<1>2. sent' = sent /\ buf' = buf /\ net' = net /\ parser' = Fresh /\ reading' = "no"
  BY DEF Serve, around, Reset, EndOfRead
<1>3. At(k, Len(Tokens(sent[k])))
  BY <1>1 DEF Got
<1>4. At(k + 1, 0)
  BY <1>1, <1>3, AtNext
<1>5. At(k + 1, 0)'
  BY <1>2, <1>4 DEF At
<1>6. k + 1 \in 1 .. Len(sent') + 1
  <2>1. Len(sent) \in Nat
    BY LenProperties
  <2>2. QED
    BY <1>1, <1>2, <2>1
<1>7. Starting(k + 1)'
  BY <1>2, <1>5 DEF Starting, Fresh, NoRequest, BetweenTurns
<1>8. QED
  BY <1>6, <1>7 DEF Track

LEMMA ServeInv ==
  ASSUME ConnInv, Serve
  PROVE  ConnInv'
<1> PICK r : r = [code |-> Status(parser.req), req |-> parser.req]
  OBVIOUS
<1>1. /\ replies' = IF open THEN Append(replies, r) ELSE replies
      /\ sent' = sent /\ limited' = limited /\ (open' => open)
  BY DEF Serve, Reply, around
<1>2. ASSUME Track(Len(replies) + 1)
      PROVE  /\ Len(replies) + 1 \in 1 .. Len(sent)
             /\ Matches(sent[Len(replies) + 1], r)
  BY <1>2, ServeMatches
<1>3. ConnTyped' /\ MatchInv'
  BY <1>1, <1>2, ReplyMatches
<1>4. ASSUME open', Sound(Len(replies))'
      PROVE  Track(Len(replies) + 1)'
  <2>1. PICK S : replies \in Seq(S)
    BY DEF ConnInv, ConnTyped
  <2>2. Len(replies) \in Nat
    BY <2>1, LenProperties
  <2>3. PICK n \in Nat : n = Len(replies)
    BY <2>2
  <2>4. Len(replies') = n + 1
    <3>1. replies \in Seq(S \union {r}) /\ replies' = Append(replies, r) /\ r \in S \union {r}
      BY <1>1, <1>4, <2>1, SeqMonotonic
    <3>2. QED
      BY <2>3, <3>1, AppendProperties
  <2>5. Sound(n + 1)
    <3>1. Sound(n + 1)'
      BY <1>4, <2>4 DEF Sound
    <3>2. QED
      BY <1>1, <3>1, SameSound
  <2>6. Sound(n)
    <3>1. \A j \in 1 .. n : j \in 1 .. n + 1
      BY <2>3
    <3>2. QED
      BY <2>5, <3>1 DEF Sound
  <2>7. Track(n + 1)
    BY <1>1, <1>4, <2>3, <2>6 DEF ConnInv, TrackInv
  <2>8. n + 1 \in 1 .. Len(sent) => Framed(sent[n + 1])
    <3>1. n + 1 \in 1 .. n + 1
      BY <2>3
    <3>2. QED
      BY <2>5, <3>1 DEF Sound
  <2>9. sent \in Seq(Message) /\ n + 1 \in Nat
    BY <2>3 DEF ConnInv, ConnTyped
  <2>10. Track((n + 1) + 1)'
    BY <2>7, <2>8, <2>9, ServeTracks
  <2>11. QED
    BY <2>4, <2>10
<1>5. TrackInv'
  BY <1>4 DEF TrackInv
<1>6. QED
  BY <1>3, <1>5 DEF ConnInv

\* Steps that send nothing.
LEMMA SilentInv ==
  ASSUME ConnInv, sent' = sent, replies' = replies, open' = open, limited' = limited,
         Track(Len(replies) + 1) => Track(Len(replies) + 1)'
  PROVE  ConnInv'
<1>1. \A i : Sound(i)' <=> Sound(i)
  BY SameSound
<1>2. \A m, x : Matches(m, x)' <=> Matches(m, x)
  BY DEF Matches
<1>3. ConnTyped' /\ MatchInv'
  BY <1>1, <1>2 DEF ConnInv, ConnTyped, MatchInv
<1>4. TrackInv'
  BY <1>1 DEF ConnInv, TrackInv
<1>5. QED
  BY <1>3, <1>4 DEF ConnInv

LEMMA SendInv ==
  ASSUME ConnInv, NEW m \in Message, Send(m)
  PROVE  ConnInv'
<1>1. sent' = Append(sent, m) /\ replies' = replies /\ open' = open /\ limited' = limited
  BY DEF Send
<1>2. sent \in Seq(Message)
  BY DEF ConnInv, ConnTyped
<1>3. /\ sent' \in Seq(Message) /\ Len(sent) \in Nat /\ Len(sent') = Len(sent) + 1
      /\ \A i \in 1 .. Len(sent) : sent'[i] = sent[i]
  BY <1>1, <1>2, LenProperties, AppendProperties
<1>4. \A n : Sound(n)' => Sound(n)
  BY <1>3 DEF Sound
<1>5. \A x, r : Matches(x, r)' <=> Matches(x, r)
  BY <1>1 DEF Matches
<1>6. MatchInv'
  <2>1. ASSUME NEW i \in 1 .. Len(replies), Sound(i - 1)'
        PROVE  i \in 1 .. Len(sent') /\ Matches(sent'[i], replies[i])
    <3>1. i \in 1 .. Len(sent) /\ Matches(sent[i], replies[i])
      BY <1>4, <2>1 DEF ConnInv, MatchInv
    <3>2. QED
      BY <1>3, <3>1
  <2>2. QED
    BY <1>1, <1>5, <2>1 DEF MatchInv
<1>7. TrackInv'
  BY <1>1, <1>2, <1>4, SendTracks DEF ConnInv, TrackInv
<1>8. QED
  BY <1>1, <1>3, <1>6, <1>7 DEF ConnInv, ConnTyped

LEMMA InitConnInv == Init => ConnInv
<1> SUFFICES ASSUME Init PROVE ConnInv
  OBVIOUS
<1>1. /\ sent = <<>> /\ replies = <<>> /\ net = <<>> /\ buf = <<>>
      /\ parser = Fresh /\ reading = "no"
  BY DEF Init
<1>2. Len(sent) = 0 /\ Len(replies) = 0 /\ sent \in Seq(Message) /\ replies \in Seq({})
  BY <1>1
<1>3. At(1, 0)
  <2> DEFINE b == [i \in Nat |-> 0]
  <2>1. buf \in Seq(Wire) /\ net \in Seq(Wire) /\ Len(buf \o net) = 0
    BY <1>1
  <2>2. b \in [Nat -> Int] /\ b[1] = 0 /\ b[0 + 1] = 0
    OBVIOUS
  <2> HIDE DEF b
  <2>3. Laid(b, 1, sent, buf \o net)
    BY <1>2, <2>1, <2>2 DEF Laid
  <2>4. QED
    BY <2>1, <2>2, <2>3 DEF At
<1>4. Track(1)
  BY <1>1, <1>2, <1>3 DEF Track, Starting, BetweenTurns
<1>5. MatchInv /\ TrackInv
  BY <1>2, <1>4 DEF MatchInv, TrackInv
<1>6. QED
  BY <1>2, <1>5 DEF ConnInv, ConnTyped

LEMMA NextConnInv ==
  ASSUME ConnInv, [Next]_vars
  PROVE  ConnInv'
<1>1. sent \in Seq(Message)
  BY DEF ConnInv, ConnTyped
<1>2. CASE \E m \in Message : Send(m)
  BY <1>2, SendInv
<1>3. CASE Deliver
  <2>1. sent' = sent /\ replies' = replies /\ open' = open /\ limited' = limited
    BY <1>3 DEF Deliver
  <2>2. QED
    BY <1>1, <1>3, <2>1, DeliverTracks, SilentInv
<1>4. CASE Other \/ Clock \/ UNCHANGED vars
  <2>1. /\ sent' = sent /\ replies' = replies /\ open' = open /\ limited' = limited
        /\ parser' = parser /\ buf' = buf /\ net' = net /\ reading' = reading
    BY <1>4 DEF Other, Clock, vars, connVars
  <2>2. QED
    BY <1>1, <2>1, StreamKept, StillTracks, SilentInv
<1>5. CASE Parse
  <2>1. sent' = sent /\ replies' = replies /\ open' = open /\ limited' = limited
    BY <1>5 DEF Parse, unread, Incomplete, RequestLine, BadRequestLine, MethodAsserted, Header,
       BareHeader, EndOfHeaders, ExpectBody, TooLarge, LengthRequired, LengthThrows, Body
  <2>2. QED
    BY <1>1, <1>5, <2>1, ParseTracks, SilentInv
<1>6. CASE Wait
  <2>1. /\ sent' = sent /\ replies' = replies /\ open' = open /\ limited' = limited
        /\ parser' = parser /\ buf' = buf /\ net' = net
        /\ reading = "parsed" /\ reading' = "no" /\ parser.state # "gotAll"
    BY <1>6 DEF Wait, EndOfRead, around
  <2>2. ASSUME Track(Len(replies) + 1) PROVE Track(Len(replies) + 1)'
    <3>1. ~Got(Len(replies) + 1) /\ BetweenTurns
      BY <2>1, StateOf DEF BetweenTurns
    <3>2. QED
      BY <1>1, <2>1, <2>2, <3>1, StreamKept, StillTracks
  <2>3. QED
    BY <2>1, <2>2, SilentInv
<1>7. CASE React /\ ~Wait
  BY <1>7, RefuseInv, OversizeInv, LimitedInv, ServeInv DEF React
<1>8. QED
  BY <1>2, <1>3, <1>4, <1>5, <1>6, <1>7 DEF Next

(* However the stream is cut into read events, and whatever was pipelined, *)
(* reply number i is about request number i (HttpContext::parseRequest and *)
(* HttpServer::onMessage): a request reaches its handler with its own      *)
(* method, target and body, and is refused exactly when it is malformed,   *)
(* too large or over the rate.  This is so as long as the requests before  *)
(* it ended where their headers say that they end.                         *)
THEOREM EveryReplyIsForItsRequest == Spec => []RepliesMatchRequests
<1>1. Init => ConnInv
  BY InitConnInv
<1>2. ConnInv /\ [Next]_vars => ConnInv'
  BY NextConnInv
<1>3. ConnInv => RepliesMatchRequests
  <2> SUFFICES ASSUME ConnInv, NEW i \in DOMAIN replies, \A j \in 1 .. i - 1 : Framed(sent[j])
               PROVE  i <= Len(sent) /\ Matches(sent[i], replies[i])
    BY DEF RepliesMatchRequests, Matches
  <2>1. i \in 1 .. Len(replies)
    BY LenProperties DEF ConnInv, ConnTyped
  <2>2. Sound(i - 1)
    BY DEF Sound
  <2>3. i \in 1 .. Len(sent) /\ Matches(sent[i], replies[i])
    BY <2>1, <2>2 DEF ConnInv, MatchInv
  <2>4. QED
    BY <2>3, LenProperties DEF ConnInv, ConnTyped
<1>4. QED
  BY <1>1, <1>2, <1>3, PTL DEF Spec
=============================================================================
