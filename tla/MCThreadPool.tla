---------------------------- MODULE MCThreadPool ----------------------------
(* Two threads and three tasks: one task can run, one wait and one arrive  *)
(* while the pool is being destroyed.                                      *)
EXTENDS ThreadPool
=============================================================================
