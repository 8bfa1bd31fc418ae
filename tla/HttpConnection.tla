---------------------------- MODULE HttpConnection ----------------------------
(***************************************************************************)
(* One connection of HttpServer: HttpContext parses what has arrived,      *)
(* line by line, in read events cut at arbitrary places; onRequest passes  *)
(* a complete request through the rate limiter, the middleware chain and   *)
(* the router and sends the reply.  Each read event runs to its end on the *)
(* loop thread of the connection; other connections share only the rate    *)
(* limiter.  Deferred replies are the subject of RequestPath.              *)
(*                                                                         *)
(* A line is one token and so is a byte of a body: part of a line is the   *)
(* same to the parser as no line.  A body holds no line break.             *)
(***************************************************************************)
EXTENDS RateLimiter, SequencesExt

CONSTANTS
  Message,      \* the requests a client may send, see MessageType
  MaxBodySize,  \* HttpContext::maxBodySize_
  MaxMessages,  \* bound: requests on the connection
  MaxOthers,    \* bound: requests on other connections
  Peer          \* the address of the client

Absent == -1    \* no Content-Length header
Junk == -2      \* one that is no number

\* line: "ok", "badMethod" or "badVersion"; keep: no "Connection: close"; length: the
\* value of Content-Length;
\* headers: other header lines, "bare" for a line without a colon; body: its bytes.
MessageType == [method : {"GET", "POST", "PUT", "DELETE", "OPTIONS"},
                line : {"ok", "badMethod", "badVersion"},
                target : {"handler", "callback", "pattern", "nowhere", "throws"},
                keep : BOOLEAN, length : {Absent, Junk} \union Nat,
                headers : Seq({"other", "bare"}), body : Nat]

ASSUME HttpAssumption ==
  /\ Message \subseteq MessageType
  /\ MaxBodySize \in Nat /\ MaxMessages \in Nat /\ MaxOthers \in Nat
  /\ Peer \in Ip

VARIABLES
  pipelines,  \* the client sends a request before the previous one is answered
  sent,       \* the requests the client has sent
  net,        \* tokens on their way
  buf,        \* the input buffer of the TcpConnection
  parser,     \* HttpContext: its state and what request_ holds
  reading,    \* onMessage is running: "no", or where it is
  open,       \* the server has not called shutdown()
  limited,    \* rateLimiter_ is set
  replies,    \* the replies sent: status code, and the request it was made for
  recorded,   \* requests MetricsMiddleware has recorded
  aborted,    \* an assertion has ended the process
  others      \* requests of other connections the limiter has seen

connVars == <<pipelines, sent, net, buf, parser, reading, open, limited, replies,
              recorded, aborted, others>>
vars == <<limiterVars, connVars>>

-----------------------------------------------------------------------------
\* The tokens of a request on the wire.
Tokens(m) ==
  <<[t |-> "line", m |-> m]>>
  \o [i \in 1 .. Len(m.headers) |-> [t |-> m.headers[i]]]
  \o (IF m.length = Absent THEN <<>> ELSE <<[t |-> "length", n |-> m.length]>>)
  \o <<[t |-> "blank"]>>
  \o [i \in 1 .. m.body |-> [t |-> "byte"]]

NoRequest == [method |-> "invalid", target |-> "none", keep |-> TRUE, length |-> Absent,
              large |-> FALSE, body |-> 0]
Fresh == [state |-> "requestLine", req |-> NoRequest]

Init ==
  /\ LimiterInit
  /\ pipelines \in BOOLEAN
  /\ sent = <<>> /\ net = <<>> /\ buf = <<>>
  /\ parser = Fresh /\ reading = "no" /\ open = TRUE
  /\ limited \in BOOLEAN /\ replies = <<>> /\ recorded = 0
  /\ aborted = FALSE /\ others = 0

-----------------------------------------------------------------------------
(* The client and the network.                                             *)

Send(m) ==
  /\ Len(sent) < MaxMessages /\ open
  /\ pipelines \/ Len(replies) = Len(sent)
  /\ sent' = Append(sent, m)
  /\ net' = net \o Tokens(m)
  /\ UNCHANGED <<limiterVars, pipelines, buf, parser, reading, open, limited, replies,
                 recorded, aborted, others>>

\* Some of what is on its way arrives: onMessage is called.
Deliver ==
  /\ reading = "no" /\ ~aborted
  /\ \E n \in 1 .. Len(net) :
       /\ buf' = buf \o SubSeq(net, 1, n)
       /\ net' = SubSeq(net, n + 1, Len(net))
  /\ reading' = "parse"
  /\ UNCHANGED <<limiterVars, pipelines, sent, parser, open, limited, replies,
                 recorded, aborted, others>>

\* Another connection asks the rate limiter.  A read event looks at the limiter in
\* its last step only, so what other threads and the clock do during the event is
\* the same as what they do before it.
Other ==
  /\ reading = "no" /\ limited /\ others < MaxOthers
  /\ others' = others + 1
  /\ \E ip \in Ip, allowed \in BOOLEAN : Allow(ip, allowed)
  /\ UNCHANGED <<pipelines, sent, net, buf, parser, reading, open, limited, replies,
                 recorded, aborted>>

Clock == reading = "no" /\ limited /\ Tick /\ UNCHANGED connVars

-----------------------------------------------------------------------------
(* HttpContext::parseRequest, one turn of its loop per step.               *)

\* Where the first line of the buffer ends, 0 if no line is complete.
LineEnd == LET ends == {i \in DOMAIN buf : buf[i].t # "byte"} IN
           IF ends = {} THEN 0 ELSE CHOOSE i \in ends : \A j \in ends : i <= j
Line == buf[LineEnd]
\* Bytes left over in front of a line are part of it.
Garbled == LineEnd > 1
RequestLineIs(kind) == ~Garbled /\ Line.t = "line" /\ Line.m.line = kind
AfterLine == SubSeq(buf, LineEnd + 1, Len(buf))

Become(state, req) == parser' = [state |-> state, req |-> req]
Leave(where) == reading' = where

unread == <<limiterVars, pipelines, sent, net, open, limited, replies, recorded, others>>

\* No complete line, or not the whole body: wait for the next read event.
Incomplete ==
  /\ reading = "parse"
  /\ \/ parser.state \in {"requestLine", "headers"} /\ LineEnd = 0
     \/ parser.state = "body" /\ Len(buf) < parser.req.length
  /\ Leave("parsed")
  /\ UNCHANGED <<unread, buf, parser, aborted>>

\* processRequestLine accepts the line.
RequestLine ==
  /\ reading = "parse" /\ parser.state = "requestLine" /\ LineEnd # 0
  /\ RequestLineIs("ok")
  /\ parser.req.method = "invalid"
  /\ Become("headers", [parser.req EXCEPT !.method = Line.m.method, !.target = Line.m.target,
                                          !.keep = Line.m.keep])
  /\ buf' = AfterLine
  /\ UNCHANGED <<unread, reading, aborted>>

\* It does not: the line stays in the buffer, and the method stays set if it was
\* the rest of the line that was wrong.
BadRequestLine ==
  /\ reading = "parse" /\ parser.state = "requestLine" /\ LineEnd # 0
  /\ parser.req.method = "invalid"
  /\ ~RequestLineIs("ok")
  /\ IF RequestLineIs("badVersion")
     THEN parser' = [parser EXCEPT !.req.method = Line.m.method]
     ELSE UNCHANGED parser
  /\ Leave("refuse")
  /\ UNCHANGED <<unread, buf, aborted>>

\* setMethod asserts that the method was not set before.
MethodAsserted ==
  /\ reading = "parse" /\ parser.state = "requestLine" /\ LineEnd # 0
  /\ parser.req.method # "invalid"
  /\ aborted' = TRUE
  /\ Leave("no")
  /\ UNCHANGED <<unread, buf, parser>>

\* addHeader: every line with a colon.
Header ==
  /\ reading = "parse" /\ parser.state = "headers" /\ LineEnd # 0
  /\ Line.t \in {"other", "length"}
  /\ Become("headers", IF Line.t = "length" /\ ~Garbled
                       THEN [parser.req EXCEPT !.length = Line.n] ELSE parser.req)
  /\ buf' = AfterLine
  /\ UNCHANGED <<unread, reading, aborted>>

BareHeader ==
  /\ reading = "parse" /\ parser.state = "headers" /\ LineEnd # 0
  /\ Line.t \in {"line", "bare"} \/ (Line.t = "blank" /\ Garbled)
  /\ buf' = AfterLine
  /\ Leave("refuse")
  /\ UNCHANGED <<unread, parser, aborted>>

AtBlank ==
  /\ reading = "parse" /\ parser.state = "headers" /\ LineEnd # 0
  /\ Line.t = "blank" /\ ~Garbled

HasBody == parser.req.method \in {"POST", "PUT"}

\* The blank line: a request without a body is complete.
EndOfHeaders ==
  /\ AtBlank
  /\ ~HasBody \/ parser.req.length = 0
  /\ Become("gotAll", parser.req)
  /\ buf' = AfterLine /\ Leave("parsed")
  /\ UNCHANGED <<unread, aborted>>

ExpectBody ==
  /\ AtBlank /\ HasBody
  /\ parser.req.length \in 1 .. MaxBodySize
  /\ Become("body", parser.req)
  /\ buf' = AfterLine
  /\ UNCHANGED <<unread, reading, aborted>>

\* The break skips retrieveUntil: the blank line stays in the buffer.
TooLarge ==
  /\ AtBlank /\ HasBody
  /\ parser.req.length > MaxBodySize
  /\ Become("gotAll", [parser.req EXCEPT !.large = TRUE])
  /\ Leave("parsed")
  /\ UNCHANGED <<unread, buf, aborted>>

\* A POST without a length that is not recognised as malformed.
LengthRequired_silent ==
  /\ AtBlank /\ HasBody /\ parser.req.length = Absent
  /\ buf' = AfterLine
  /\ Leave("parsed")
  /\ UNCHANGED <<unread, parser, aborted>>

LengthRequired ==
  /\ AtBlank /\ HasBody /\ parser.req.length = Absent
  /\ buf' = AfterLine
  /\ Leave("refuse")
  /\ UNCHANGED <<unread, parser, aborted>>

\* std::stoul throws out of parseRequest: onMessage answers and returns.
LengthThrows ==
  /\ AtBlank /\ HasBody /\ parser.req.length = Junk
  /\ Leave("thrown")
  /\ UNCHANGED <<unread, buf, parser, aborted>>

\* The body taken with whatever else is in the buffer.
Body_all ==
  /\ reading = "parse" /\ parser.state = "body"
  /\ Len(buf) >= parser.req.length
  /\ Become("gotAll", [parser.req EXCEPT !.body = parser.req.length])
  /\ buf' = <<>>
  /\ Leave("parsed")
  /\ UNCHANGED <<unread, aborted>>

Body ==
  /\ reading = "parse" /\ parser.state = "body"
  /\ Len(buf) >= parser.req.length
  /\ Become("gotAll", [parser.req EXCEPT !.body = parser.req.length])
  /\ buf' = SubSeq(buf, parser.req.length + 1, Len(buf))
  /\ Leave("parsed")
  /\ UNCHANGED <<unread, aborted>>

-----------------------------------------------------------------------------
(* The rest of onMessage.                                                  *)

around == <<pipelines, sent, net, limited, aborted, others>>

\* conn->send: nothing leaves once shutdown() has been called.
Reply(code, req) ==
  replies' = IF open THEN Append(replies, [code |-> code, req |-> req]) ELSE replies
Close == open' = FALSE
EndOfRead == reading' = "no"

\* A request that cannot be parsed: onMessage answers, does not return, and finds
\* no complete request.
Refuse ==
  /\ reading = "refuse"
  /\ Reply(400, NoRequest) /\ Close /\ EndOfRead
  /\ UNCHANGED <<around, limiterVars, buf, parser, recorded>>

\* An exception out of the parser is caught by onMessage.
Thrown ==
  /\ reading = "thrown"
  /\ Reply(400, NoRequest) /\ Close /\ EndOfRead
  /\ UNCHANGED <<around, limiterVars, buf, parser, recorded>>

\* Nothing complete yet.
Wait ==
  /\ reading = "parsed" /\ parser.state # "gotAll"
  /\ EndOfRead
  /\ UNCHANGED <<around, limiterVars, buf, parser, open, replies, recorded>>

Complete == reading = "parsed" /\ parser.state = "gotAll"

\* context->reset() ends every complete request.
Reset == parser' = Fresh

Oversize ==
  /\ Complete /\ parser.req.large
  /\ Reply(413, NoRequest) /\ Close
  /\ Reset /\ EndOfRead
  /\ UNCHANGED <<around, limiterVars, buf, recorded>>

Admitted(allowed) == IF limited THEN Allow(Peer, allowed) ELSE allowed /\ UNCHANGED limiterVars

Limited ==
  /\ Complete /\ ~parser.req.large
  /\ Admitted(FALSE)
  /\ Reply(429, NoRequest) /\ Close
  /\ Reset /\ EndOfRead
  /\ UNCHANGED <<around, buf, recorded>>

\* The router: exact handlers, exact callbacks, then the patterns.
Routed(req) == req.target \in {"handler", "callback", "pattern"}

\* handleRequest.  CorsMiddleware throws the reply to a preflight, a handler may
\* throw an error: the chain's processAfter, which records the request, is skipped.
Preflight(req) == req.method = "OPTIONS"
Status(req) == IF Preflight(req) THEN 204
               ELSE IF req.target = "throws" THEN 500
               ELSE IF Routed(req) THEN 200 ELSE 404
Recorded(req) == ~Preflight(req) /\ req.target # "throws"
Closes(req) == ~Preflight(req) /\ (~req.keep \/ Status(req) = 404)

Serve ==
  /\ Complete /\ ~parser.req.large
  /\ Admitted(TRUE)
  /\ Reply(Status(parser.req), parser.req)
  /\ open' = (open /\ ~Closes(parser.req))
  /\ recorded' = IF Recorded(parser.req) THEN recorded + 1 ELSE recorded
  /\ Reset /\ EndOfRead
  /\ UNCHANGED <<around, buf>>

Parse == \/ Incomplete \/ RequestLine \/ BadRequestLine \/ MethodAsserted
         \/ Header \/ BareHeader
         \/ EndOfHeaders \/ ExpectBody \/ TooLarge \/ LengthRequired \/ LengthThrows
         \/ Body
React == Refuse \/ Thrown \/ Wait \/ Oversize \/ Limited \/ Serve

Next == \/ \E m \in Message : Send(m)
        \/ Deliver \/ Other \/ Clock
        \/ Parse \/ React

\* The kernel delivers what was sent and the loop thread is scheduled.
Fairness == WF_vars(Deliver) /\ WF_vars(Parse) /\ WF_vars(React)

Spec == Init /\ [][Next]_vars /\ Fairness

-----------------------------------------------------------------------------
(* Properties.                                                             *)

TypeOK ==
  /\ LimiterTypeOK
  /\ parser.state \in {"requestLine", "headers", "body", "gotAll"}
  /\ reading \in {"no", "parse", "parsed", "refuse", "thrown"}
  /\ \A i \in DOMAIN sent : sent[i] \in Message
  /\ Len(replies) <= Len(sent) + 1 /\ recorded <= 2 * MaxMessages

\* What the protocol asks of a request, from its declared fields alone.
HasLength(m) == m.method \in {"POST", "PUT"}
Malformed(m) == \/ m.line # "ok"
                \/ \E i \in DOMAIN m.headers : m.headers[i] = "bare"
                \/ HasLength(m) /\ m.length \in {Absent, Junk}
\* The next request begins where this one ends, for the parser too.
Framed(m) == ~Malformed(m) /\ m.body = (IF HasLength(m) THEN m.length ELSE 0)

\* However the stream is cut into read events, and whatever was pipelined, reply
\* number i is about request number i: the request the handler saw is the one
\* that was sent, with its whole body and nothing of its neighbours, and a
\* request is refused exactly when it is malformed, too large or over the rate.
RepliesMatchRequests ==
  \A i \in DOMAIN replies :
    (\A j \in 1 .. i - 1 : Framed(sent[j])) =>
      /\ i <= Len(sent)
      /\ LET m == sent[i] r == replies[i] IN
         IF Malformed(m) THEN r.code = 400
         ELSE IF HasLength(m) /\ m.length > MaxBodySize THEN r.code = 413
         ELSE \/ r.code = 429 /\ limited
              \/ /\ r.req.method = m.method /\ r.req.target = m.target
                 /\ r.req.body = (IF HasLength(m) THEN m.length ELSE 0)
                 /\ r.code = Status(m)

\* A client that waits for its reply before it sends again gets one, or sees the
\* connection closed.  (One that pipelines may wait: only one request is parsed
\* per read event.)
RequestsAnswered ==
  \A n \in 1 .. MaxMessages :
    (~pipelines /\ Len(sent) = n) ~> (Len(replies) >= n \/ ~open \/ aborted)
=============================================================================
