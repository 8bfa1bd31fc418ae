--------------------------- MODULE MCHttpConnection ---------------------------
EXTENDS HttpConnection

Get == [method |-> "GET", line |-> "ok", target |-> "handler", keep |-> TRUE,
        length |-> Absent, headers |-> <<>>, body |-> 0]
Post(n) == [Get EXCEPT !.method = "POST", !.length = n, !.body = n]

\* What a client may send: requests that are served, and one of each kind that is not.
SentMessages ==
  { Get,
    [Get EXCEPT !.target = "pattern", !.keep = FALSE, !.headers = <<"other">>],
    [Get EXCEPT !.target = "nowhere"], [Get EXCEPT !.target = "throws"],
    [Get EXCEPT !.method = "OPTIONS", !.keep = FALSE],
    [Get EXCEPT !.length = 1, !.body = 1],
    [Get EXCEPT !.line = "badMethod"], [Get EXCEPT !.line = "badVersion"],
    [Get EXCEPT !.headers = <<"bare">>],
    Post(0), [Post(2) EXCEPT !.target = "callback"], [Post(2) EXCEPT !.length = 1],
    [Post(3) EXCEPT !.method = "PUT"],
    [Post(1) EXCEPT !.length = Absent], [Post(1) EXCEPT !.length = Junk] }
===============================================================================
