---------------------------- MODULE MCRequestPath ----------------------------
(* One connection whose client may pipeline two requests, one of them a    *)
(* batch of two images, and a pool of one slot: the second request is      *)
(* handled while the first is deferred, and finds the slot free, in use,   *)
(* or retained by the scheduler.                                           *)
EXTENDS RequestPath

MCSize == [r \in Requests |-> IF r \in Batch THEN 2 ELSE 1]
MCConnOf == [r \in Requests |-> CHOOSE c \in Conns : TRUE]
=============================================================================
